---------------------------- MODULE EventGroups ----------------------------
(***************************************************************************)
(* A subscription of the thin replica server to event groups.  Groups have *)
(* a global id; a client sees the public ones and its own, numbered        *)
(* without holes by external ids that are not stored: KvbAppFilter         *)
(* computes them from tables while the executing thread adds groups and    *)
(* pruning removes them.  Every read of a table is a step.                 *)
(*                                                                         *)
(* A group is public ("pub"), the client's ("mine") or of others           *)
(* ("other"); the tables are functions of the groups and of pruning.       *)
(***************************************************************************)
EXTENDS Integers, Sequences, FiniteSets

CONSTANTS
  MaxGroups,   \* bound: global event groups
  Groups0,     \* groups at the start
  Size,        \* kSubUpdateBufferSize
  Hashes,      \* the stream carries hashes, not data
  Changes      \* how storage changes while a request is served: "none" until the live
               \* updates, "steady" (both tags always have a group left) or "any"

VARIABLES
  log,        \* the kind of every global event group ever added
  pruned,     \* the groups 1..pruned are deleted
  pushed,     \* the last group that was handed to the subscribers
  subscribed, queue, slow,   \* the buffer of event groups
  pc,         \* where the call is
  todo, got,  \* counters still to be read, and the values read
  req,        \* the external id asked for
  at,         \* the external id that is searched or sent next
  end,        \* the newest external id: end_ext_storage_eg_id
  win,        \* the window and the cursor of the binary search
  cur,        \* the merge of the two tables in readEventGroups
  last,       \* last_ext_and_global_eg_id_read_
  nextG,      \* next_global_eg_id_to_read
  sent,       \* pairs of external id and group put on the stream
  status, aborted

storage == <<log, pruned, pushed>>
buffer == <<subscribed, queue, slow>>
local == <<req, at, end, win, cur, last, nextG>>
result == <<sent, status, aborted>>
vars == <<storage, buffer, pc, todo, got, local, result>>

Kinds == {"pub", "mine", "other"}
Infinity == MaxGroups + 1   \* numeric_limits<uint64_t>::max()

(***************************************************************************)
(* The tables                                                              *)
(***************************************************************************)
Count(tag, g) == Cardinality({h \in 1..g : log[h] = tag})
\* The latest table: the newest id of a tag, and its oldest one, 0 if none is left.
Newest(tag) == Count(tag, Len(log))
Oldest(tag) == IF Newest(tag) = Count(tag, pruned) THEN 0 ELSE Count(tag, pruned) + 1
\* The tag table: the global and the external id of the group that has an id of a tag.
HasTag(tag, id) == \E g \in (pruned + 1)..Len(log) : log[g] = tag /\ Count(tag, g) = id
GlobalOf(tag, id) == CHOOSE g \in 1..Len(log) : log[g] = tag /\ Count(tag, g) = id
External(g) == Count("pub", g) + Count("mine", g)

\* With p groups pruned both tags still have one.
Steady(p) == \A tag \in {"pub", "mine"} : Newest(tag) > Count(tag, p)

NoWindow == [lo |-> 0, hi |-> 0, pvt |-> 0, g |-> 0, ext |-> 0]
NoCursor == [g |-> 0, public |-> FALSE, pvt |-> 0, pub |-> 0, pvtG |-> 0, pvtExt |-> 0,
             pubG |-> 0, newestPub |-> 0, newestPvt |-> 0, newest |-> 0]
Keys == {"po", "vo", "x", "pn", "vn", "rp", "rv"}
Unread == [k \in Keys |-> 0]

Init ==
  /\ log \in [1..Groups0 -> Kinds] /\ pruned = 0 /\ pushed = Groups0
  /\ Changes = "steady" => Steady(0)
  /\ subscribed = FALSE /\ queue = <<>> /\ slow = FALSE
  /\ pc = "request" /\ todo = <<>> /\ got = Unread
  /\ req = 0 /\ at = 0 /\ end = 0 /\ win = NoWindow /\ cur = NoCursor
  /\ last = <<0, 0>> /\ nextG = 0
  /\ sent = <<>> /\ status = "none" /\ aborted = FALSE

(***************************************************************************)
(* Storage and the executing thread                                        *)
(***************************************************************************)
MayChange == Changes = "none" => pc \in {"request", "live", "done"}

AddGroup(k) ==
  /\ MayChange /\ Len(log) < MaxGroups
  /\ log' = Append(log, k)
  /\ UNCHANGED <<pruned, pushed, buffer, pc, todo, got, local, result>>

\* SubBufferList::updateEventGroupSubBuffers and PushEventGroup
PushEventGroup ==
  /\ pushed < Len(log)
  /\ pushed' = pushed + 1
  /\ IF subscribed /\ ~slow
     THEN /\ slow' = (Len(queue) = Size)
          /\ queue' = IF Len(queue) = Size THEN queue ELSE Append(queue, pushed + 1)
     ELSE UNCHANGED <<slow, queue>>
  /\ UNCHANGED <<log, pruned, subscribed, pc, todo, got, local, result>>

Prune ==
  /\ MayChange /\ pruned < Len(log)
  /\ Changes = "steady" => Steady(pruned + 1)
  /\ pruned' = pruned + 1
  /\ UNCHANGED <<log, pushed, buffer, pc, todo, got, local, result>>

(***************************************************************************)
(* Counters                                                                *)
(***************************************************************************)
\* The third read of oldestExternalEventGroupId, when one tag has nothing left.
Third ==
  IF got["po"] = 0 /\ got["vo"] = 0 THEN 0
  ELSE IF got["po"] = 0 THEN Newest("pub")
  ELSE IF got["vo"] = 0 THEN Newest("mine") ELSE 0
\* getValueFromLatestTable
Latest(k) ==
  CASE k = "po" -> Oldest("pub") [] k = "vo" -> Oldest("mine")
    [] k \in {"pn", "rp"} -> Newest("pub") [] k \in {"vn", "rv"} -> Newest("mine")
    [] k = "x" -> Third
ReadLatest ==
  /\ todo # <<>>
  /\ got' = [got EXCEPT ![Head(todo)] = Latest(Head(todo))]
  /\ todo' = Tail(todo)
  /\ UNCHANGED <<storage, buffer, pc, local, result>>

OldestExternal ==
  IF got["po"] = 0 /\ got["vo"] = 0 THEN 0
  ELSE IF got["po"] = 0 \/ got["vo"] = 0 THEN got["po"] + got["vo"] + got["x"]
  ELSE got["po"] + got["vo"] - 1
NewestExternal == got["pn"] + got["vn"]

NewestReads == <<"pn", "vn">>
OldestReads == <<"po", "vo", "x">>

\* Continue at p with the counters of `reads` read first.
Goto(p, reads) == pc' = p /\ todo' = reads /\ got' = Unread
Return(s) ==
  /\ Goto("done", <<>>) /\ status' = s
  /\ UNCHANGED <<local, sent, aborted>>
Cleanup == subscribed' = FALSE /\ queue' = <<>> /\ UNCHANGED slow
Fail(s) == Cleanup /\ Return(s)
Abort == Goto("done", <<>>) /\ aborted' = TRUE /\ UNCHANGED <<buffer, local, sent, status>>
At(p) == pc = p /\ todo = <<>>

(***************************************************************************)
(* SubscribeToUpdates                                                      *)
(***************************************************************************)
Request(e) ==
  /\ At("request")
  /\ Goto("isOutOfRange", NewestReads) /\ req' = e
  /\ UNCHANGED <<storage, buffer, at, end, win, cur, last, nextG, result>>

IsRequestOutOfRange ==
  /\ At("isOutOfRange")
  /\ \/ req > NewestExternal + 1 /\ Return("out of range")
     \/ /\ req <= NewestExternal + 1
        /\ Goto("isPruned", OldestReads \o NewestReads) /\ UNCHANGED <<local, result>>
  /\ UNCHANGED <<storage, buffer>>

Pruned == req < OldestExternal \/ (OldestExternal = 0 /\ req <= NewestExternal)
IsUpdatePruned ==
  /\ At("isPruned")
  /\ \/ Pruned /\ Return("not found")
     \/ ~Pruned /\ Goto("subscribe", <<>>) /\ UNCHANGED <<local, result>>
  /\ UNCHANGED <<storage, buffer>>

SubscribeToLiveUpdates ==
  /\ At("subscribe")
  /\ subscribed' = TRUE /\ queue' = <<>> /\ slow' = FALSE
  /\ Goto("newest", NewestReads)
  /\ UNCHANGED <<storage, local, result>>

WaitForRequested ==
  /\ At("newest")
  /\ \/ NewestExternal < req /\ Goto("waiting", <<>>)
     \/ NewestExternal >= req /\ Goto("sync", OldestReads \o NewestReads)
  /\ UNCHANGED <<storage, buffer, local, result>>

\* waitForEventGroupUntilNonEmpty returned TRUE, or the stream was cancelled.
Waited ==
  /\ At("waiting")
  /\ \/ Fail("cancelled")
     \/ /\ queue # <<>> /\ Goto("newest", NewestReads)
        /\ UNCHANGED <<buffer, local, result>>
  /\ UNCHANGED storage

(***************************************************************************)
(* syncAndSendEventGroups: the history                                     *)
(***************************************************************************)
RereadReads == <<"rp", "rv">> \o OldestReads \o NewestReads
Sync ==
  /\ At("sync")
  /\ LET gone == req < OldestExternal \/ (NewestExternal # 0 /\ OldestExternal = 0)
         bad == OldestExternal > NewestExternal \/ req > NewestExternal
     IN \/ gone /\ Fail("not found")
        \/ ~gone /\ bad /\ Abort
        \/ /\ ~gone /\ ~bad
           /\ end' = NewestExternal /\ at' = req
           /\ IF Hashes THEN Goto("readHash", OldestReads \o NewestReads)
                        ELSE Goto("readRange", RereadReads)
           /\ UNCHANGED <<buffer, req, win, cur, last, nextG, result>>
  /\ UNCHANGED storage

InRange == OldestExternal # 0 /\ at >= OldestExternal /\ at <= NewestExternal
FindReads == OldestReads \o NewestReads

\* The counters readEventGroups and readEventGroupHash take before the search.
ReadRange ==
  /\ At("readRange")
  /\ \/ ~InRange /\ Fail("unknown")
     \/ /\ InRange
        /\ cur' = [NoCursor EXCEPT !.newestPub = got["rp"], !.newestPvt = got["rv"],
                                   !.newest = NewestExternal]
        /\ Goto("find", FindReads)
        /\ UNCHANGED <<buffer, req, at, end, win, last, nextG, result>>
  /\ UNCHANGED storage
ReadHash ==
  /\ At("readHash")
  /\ \/ ~InRange /\ Fail("unknown")
     \/ InRange /\ Goto("find", FindReads) /\ UNCHANGED <<buffer, local, result>>
  /\ UNCHANGED storage

(***************************************************************************)
(* findGlobalEventGroupId                                                  *)
(***************************************************************************)
FindAsserts ==
  /\ At("find")
  /\ \/ ~InRange /\ Abort
     \/ InRange /\ Goto("bounds", <<"po", "pn", "vo", "vn">>) /\ UNCHANGED <<buffer, local, result>>
  /\ UNCHANGED storage

\* What the search returns: the group, its tag, and the ids of both tags at it.
Found(g, public, pvt, pub) ==
  /\ cur' = [cur EXCEPT !.g = g, !.public = public, !.pvt = pvt, !.pub = pub]
  /\ Goto(IF Hashes THEN "send" ELSE "nextPvt", <<>>)
  /\ UNCHANGED <<buffer, req, at, end, last, nextG, result>>

FoundPublic(id, pvt) ==
  \/ ~HasTag("pub", id) /\ Fail("unknown")
  \/ HasTag("pub", id) /\ Found(GlobalOf("pub", id), TRUE, pvt, id) /\ UNCHANGED win

\* One of the tags never had a group: its ids are the external ids.
OnlyOneTag ==
  /\ At("bounds")
  /\ \/ got["vo"] = 0 /\ got["vn"] = 0 /\ FoundPublic(at, got["vn"])
     \/ /\ got["vo"] # 0 \/ got["vn"] # 0
        /\ got["po"] = 0 /\ got["pn"] = 0
        /\ \/ ~HasTag("mine", at) /\ Fail("unknown")
           \/ /\ HasTag("mine", at) /\ UNCHANGED win
              /\ Found(GlobalOf("mine", at), FALSE, at, got["pn"])
  /\ UNCHANGED storage

\* With all private groups pruned the cursor is put on the last of them.
StartSearch ==
  /\ At("bounds")
  /\ got["vo"] # 0 \/ got["vn"] # 0
  /\ got["po"] # 0 \/ got["pn"] # 0
  /\ win' = IF got["vo"] # 0
            THEN [NoWindow EXCEPT !.lo = got["vo"], !.hi = got["vn"]]
            ELSE [NoWindow EXCEPT !.lo = 1, !.pvt = got["vn"],
                                  !.ext = got["vn"] + got["po"] - 1]
  /\ Goto("search", <<>>)
  /\ UNCHANGED <<storage, buffer, req, at, end, cur, last, nextG, result>>

Width == win.hi - win.lo + 1
Middle == win.lo + Width \div 2
Narrowed(id, e) ==
  IF at = e \/ Width = 1 THEN [win EXCEPT !.lo = win.hi + 1]
  ELSE IF at > e THEN [win EXCEPT !.lo = id + 1]
  ELSE [win EXCEPT !.hi = id - 1]
Search ==
  /\ At("search") /\ win.lo <= win.hi
  /\ \/ ~HasTag("mine", Middle) /\ Fail("unknown")
     \/ /\ HasTag("mine", Middle)
        /\ LET g == GlobalOf("mine", Middle)
           IN win' = [Narrowed(Middle, External(g)) EXCEPT !.pvt = Middle, !.g = g,
                                                           !.ext = External(g)]
        /\ UNCHANGED <<pc, todo, got, buffer, req, at, end, cur, last, nextG, result>>
  /\ UNCHANGED storage

\* The public group asked for, counted from the private one at the cursor.
PublicBelow == win.ext - win.pvt - (win.ext - at - 1)
PublicAbove == win.ext - win.pvt + (at - win.ext)
SearchEnds ==
  /\ At("search") /\ win.lo > win.hi
  /\ \/ at = win.ext /\ Found(win.g, FALSE, win.pvt, at - win.pvt) /\ UNCHANGED win
     \/ at < win.ext /\ FoundPublic(PublicBelow, win.pvt - 1)
     \/ at > win.ext /\ FoundPublic(PublicAbove, win.pvt)
  /\ UNCHANGED storage

(***************************************************************************)
(* readEventGroups: the two tables are merged by global id                 *)
(***************************************************************************)
\* The next ids might not exist or be pruned: the exception is caught.
NextPrivate ==
  /\ At("nextPvt")
  /\ LET has == HasTag("mine", cur.pvt + 1)
         g == IF has THEN GlobalOf("mine", cur.pvt + 1) ELSE Infinity
     IN cur' = [cur EXCEPT !.pvt = @ + 1, !.pvtG = g, !.pvtExt = IF has THEN External(g) ELSE 0]
  /\ Goto("nextPub", <<>>)
  /\ UNCHANGED <<storage, buffer, req, at, end, win, last, nextG, result>>
NextPublic ==
  /\ At("nextPub")
  /\ cur' = [cur EXCEPT !.pub = @ + 1,
                        !.pubG = IF HasTag("pub", cur.pub + 1)
                                 THEN GlobalOf("pub", cur.pub + 1) ELSE Infinity]
  /\ Goto("send", <<>>)
  /\ UNCHANGED <<storage, buffer, req, at, end, win, last, nextG, result>>

Gone(g) == g <= pruned
Stream(e, g) == sent' = Append(sent, [ext |-> e, g |-> g])
HistoryDone(e, g) == last' = <<e, g>> /\ nextG' = g + 1 /\ Goto("first", <<>>)

\* getEventGroup, filter, and the update is put on the stream.
SendFromStorage ==
  /\ At("send")
  /\ \/ Gone(cur.g) /\ Fail("unknown")
     \/ /\ ~Gone(cur.g) /\ Stream(at, cur.g)
        /\ IF Hashes /\ at < end
           THEN /\ last' = <<at, cur.g>> /\ at' = at + 1 /\ UNCHANGED nextG
                /\ Goto("readHash", OldestReads \o NewestReads)
           ELSE IF Hashes \/ at = cur.newest
           THEN HistoryDone(at, cur.g) /\ UNCHANGED at
           ELSE Goto("advance", <<>>) /\ UNCHANGED <<last, nextG, at>>
        /\ UNCHANGED <<buffer, req, end, win, cur, status, aborted>>
  /\ UNCHANGED storage

\* Only the table the last group came from is read again.
Refetch ==
  IF cur.public
  THEN IF cur.pub > cur.newestPub THEN [cur EXCEPT !.pubG = Infinity]
       ELSE [cur EXCEPT !.pubG = GlobalOf("pub", cur.pub)]
  ELSE IF cur.pvt > cur.newestPvt THEN [cur EXCEPT !.pvtG = Infinity]
       ELSE [cur EXCEPT !.pvtG = GlobalOf("mine", cur.pvt),
                        !.pvtExt = External(GlobalOf("mine", cur.pvt))]
RefetchFails ==
  IF cur.public THEN cur.pub <= cur.newestPub /\ ~HasTag("pub", cur.pub)
  ELSE cur.pvt <= cur.newestPvt /\ ~HasTag("mine", cur.pvt)

MergedPublicFirst(c) ==
  IF c.pubG = Infinity
  THEN [c EXCEPT !.g = c.pvtG, !.public = FALSE, !.pvt = @ + 1]
  ELSE [c EXCEPT !.g = c.pubG, !.public = TRUE, !.pub = @ + 1]
\* The lesser global id is the next group of the client.
Merged(c) ==
  IF c.pvtG < c.pubG
  THEN [c EXCEPT !.g = c.pvtG, !.public = FALSE, !.pvt = @ + 1]
  ELSE [c EXCEPT !.g = c.pubG, !.public = TRUE, !.pub = @ + 1]

Advance ==
  /\ At("advance")
  /\ \/ RefetchFails /\ Fail("unknown")
     \/ /\ ~RefetchFails
        /\ LET c == Refetch
           IN \/ /\ c.pvtG = Infinity /\ c.pubG = Infinity
                 /\ HistoryDone(at, cur.g) /\ UNCHANGED <<buffer, req, at, end, win, cur, result>>
              \/ c.pvtG < c.pubG /\ c.pvtExt # at + 1 /\ Abort
              \/ /\ c.pvtG # Infinity \/ c.pubG # Infinity
                 /\ c.pvtG < c.pubG => c.pvtExt = at + 1
                 /\ cur' = Merged(c) /\ at' = at + 1 /\ Goto("send", <<>>)
                 /\ UNCHANGED <<buffer, req, end, win, last, nextG, result>>
  /\ UNCHANGED storage

(***************************************************************************)
(* The live updates                                                        *)
(***************************************************************************)
Relevant(g) == log[g] # "other"

CancelFirst == At("first") /\ Fail("cancelled") /\ UNCHANGED storage

\* Updates that were read from storage, or are not for the client, are dropped.
DropRead ==
  /\ At("first") /\ queue # <<>> /\ Head(queue) < nextG
  /\ \/ slow /\ Fail("unknown")
     \/ /\ ~slow /\ queue' = Tail(queue)
        /\ UNCHANGED <<subscribed, slow, pc, todo, got, local, result>>
  /\ UNCHANGED storage
FirstUpdate ==
  /\ At("first") /\ queue # <<>> /\ Head(queue) = nextG
  /\ \/ /\ Relevant(nextG) /\ Goto("live", <<>>)
        /\ UNCHANGED <<buffer, local, result>>
     \/ ~Relevant(nextG) /\ slow /\ Fail("unknown")
     \/ /\ ~Relevant(nextG) /\ ~slow
        /\ queue' = Tail(queue) /\ nextG' = nextG + 1
        /\ UNCHANGED <<subscribed, slow, pc, todo, got, req, at, end, win, cur, last, result>>
  /\ UNCHANGED storage

\* A gap before the first update is read from the data table.
StartGap ==
  /\ At("first") /\ queue # <<>> /\ Head(queue) > nextG
  /\ at' = end + 1 /\ Goto("gap", <<>>)
  /\ UNCHANGED <<storage, buffer, req, end, win, cur, last, nextG, result>>
FillGap ==
  /\ At("gap") /\ Head(queue) > nextG
  /\ \/ Gone(nextG) /\ Fail("unknown")
     \/ /\ ~Gone(nextG) /\ nextG' = nextG + 1
        /\ \/ ~Relevant(nextG) /\ UNCHANGED <<at, last, sent>>
           \/ /\ Relevant(nextG) /\ Stream(at, nextG)
              /\ last' = <<at, nextG>> /\ at' = at + 1
        /\ UNCHANGED <<pc, todo, got, buffer, req, end, win, cur, status, aborted>>
  /\ UNCHANGED storage
GapFilled ==
  /\ At("gap") /\ Head(queue) = nextG
  /\ Goto("live", <<>>)
  /\ UNCHANGED <<storage, buffer, local, result>>

SendLive ==
  /\ At("live")
  /\ \/ slow /\ Fail("ok")
     \/ Fail("cancelled")
     \/ /\ ~slow /\ queue # <<>>
        /\ \/ Head(queue) <= last[2] /\ Abort
           \/ /\ Head(queue) > last[2] /\ queue' = Tail(queue)
              /\ IF Relevant(Head(queue))
                 THEN /\ Stream(last[1] + 1, Head(queue))
                      /\ last' = <<last[1] + 1, Head(queue)>>
                 ELSE UNCHANGED <<sent, last>>
              /\ UNCHANGED <<subscribed, slow, pc, todo, got, req, at, end, win, cur, nextG,
                             status, aborted>>
  /\ UNCHANGED storage

Next ==
  \/ \E k \in Kinds : AddGroup(k)
  \/ PushEventGroup \/ Prune \/ ReadLatest
  \/ \E e \in 1..(MaxGroups + 1) : Request(e)
  \/ IsRequestOutOfRange \/ IsUpdatePruned \/ SubscribeToLiveUpdates \/ WaitForRequested \/ Waited
  \/ Sync \/ ReadRange \/ ReadHash \/ FindAsserts \/ OnlyOneTag \/ StartSearch \/ Search \/ SearchEnds
  \/ NextPrivate \/ NextPublic \/ SendFromStorage \/ Advance
  \/ CancelFirst \/ DropRead \/ FirstUpdate \/ StartGap \/ FillGap \/ GapFilled \/ SendLive

Spec == Init /\ [][Next]_vars

(***************************************************************************)
(* Properties                                                              *)
(***************************************************************************)
TypeOK ==
  /\ pruned \in 0..Len(log) /\ pushed \in 0..Len(log) /\ Len(queue) <= Size
  /\ at \in 0..Infinity /\ win.pvt <= MaxGroups /\ cur.g \in 0..MaxGroups

\* The client gets the groups it may see, from the one asked for on: external
\* ids without holes, each with the group that really has it, though the ids
\* are computed from counters that are read one by one while groups are added
\* and pruned (readEventGroups, findGlobalEventGroupId, syncAndSendEventGroups).
GroupsInOrder ==
  \A i \in DOMAIN sent :
    /\ sent[i].ext = req + i - 1
    /\ Relevant(sent[i].g) /\ External(sent[i].g) = sent[i].ext

\* While storage is quiet no assertion of KvbAppFilter fails and every group
\* that can be asked for is found; only a full buffer ends the stream.
SearchSucceeds == Changes = "none" => ~aborted /\ (status = "unknown" => slow)
=============================================================================
