------------------------- MODULE ThinReplicaClient -------------------------
(***************************************************************************)
(* ThinReplicaClient::receiveUpdates: one server streams updates, f others *)
(* stream hashes, and an update is delivered when f + 1 servers agree on   *)
(* it.  Streams time out and fail, servers lag and prune, and at most F of *)
(* them answer anything.  Every open and read of a stream is a step of the *)
(* client's thread; an update is its id and whether it is the right one.   *)
(* Legacy events and event groups differ only in the id that is used.      *)
(***************************************************************************)
EXTENDS Integers, Sequences, FiniteSets

CONSTANTS
  F,                 \* max_faulty
  Faulty,            \* servers that answer anything
  MaxUpdate,         \* bound: updates
  Pruning,           \* bound: servers that prune their first update
  MaxSubscriptions   \* bound: calls of Subscribe

VARIABLES
  head, low,    \* the updates low[s]..head[s] of a server
  data, hash,   \* the stream of the data server, and the hash streams
  conn,         \* data_conn_index_
  latest,       \* latest_verified_block_id_
  ok,           \* is_subscription_successful_
  pc,
  todo,         \* servers findBlockHashAgreement or the rotation still tries
  records,      \* what servers reported in this round
  hasData,      \* the data stream gave an update in this round
  outOfRange, notFound,   \* servers that said so in this round
  queue,        \* the updates delivered to the application
  first,        \* the update the application asked for
  subs, thrown

streams == <<data, hash, conn>>
round == <<records, hasData, outOfRange, notFound>>
app == <<queue, first, subs, thrown>>
vars == <<head, low, streams, latest, ok, pc, todo, round, app>>

N == 3 * F + 1
Servers == 0..(N - 1)
Honest == Servers \ Faulty

\* A stream is absent, broken (a read failed and it was not reset) or at an update.
None == -1
Broken == 0
Update(id, right) == [id |-> id, right |-> right]
Updates == [id : 0..MaxUpdate, right : BOOLEAN]
NoRecord == Update(None, FALSE)

Init ==
  /\ head \in [Servers -> 0..1] /\ (\A s \in Faulty : head[s] = 0)
  /\ low = [s \in Servers |-> 1]
  /\ data = None /\ hash = [s \in Servers |-> None] /\ conn = 0
  /\ latest = 0 /\ ok = FALSE /\ pc = "idle" /\ todo = {}
  /\ records = [s \in Servers |-> NoRecord] /\ hasData = FALSE
  /\ outOfRange = 0 /\ notFound = 0
  /\ queue = <<>> /\ first = 0 /\ subs = 0 /\ thrown = "none"

(***************************************************************************)
(* Servers                                                                 *)
(***************************************************************************)
AddUpdate(s) ==
  /\ s \in Honest /\ head[s] < MaxUpdate
  /\ head' = [head EXCEPT ![s] = @ + 1]
  /\ UNCHANGED <<low, streams, latest, ok, pc, todo, round, app>>
PruneUpdate(s) ==
  /\ s \in Pruning /\ low[s] = 1 /\ head[s] >= 1
  /\ low' = [low EXCEPT ![s] = @ + 1]
  /\ UNCHANGED <<head, streams, latest, ok, pc, todo, round, app>>

\* What a read of a stream of server s at update p may return.
Answers(s, p) ==
  IF p = Broken THEN {[r |-> "failure", u |-> NoRecord]}
  ELSE {[r |-> x, u |-> NoRecord] : x \in {"timeout", "failure"}}
       \union
       (IF s \in Faulty
        THEN {[r |-> "success", u |-> u] : u \in Updates}
             \union {[r |-> x, u |-> NoRecord] : x \in {"range", "found"}}
        ELSE IF p > head[s] + 1 THEN {[r |-> "range", u |-> NoRecord]}
        ELSE IF p < low[s] THEN {[r |-> "found", u |-> NoRecord]}
        ELSE IF p <= head[s] THEN {[r |-> "success", u |-> Update(p, TRUE)]} ELSE {})
\* A timeout resets the stream; any other failure leaves it to be cancelled.
\* The position of a faulty server's stream means nothing.
After(s, p, r) ==
  CASE r = "success" -> (IF s \in Faulty THEN p ELSE p + 1) [] r = "timeout" -> None [] OTHER -> Broken

(***************************************************************************)
(* Subscribe, and the start of receiveUpdates                              *)
(***************************************************************************)
NextRound(p) ==
  /\ pc' = p /\ todo' = {}
  /\ records' = [s \in Servers |-> NoRecord] /\ hasData' = FALSE
  /\ outOfRange' = 0 /\ notFound' = 0

\* resetDataStreamTo: the streams of both servers are cancelled; the open
\* succeeds or times out.
ResetDataStreamTo(s, hs, l) ==
  /\ hash' = [hs EXCEPT ![s] = None, ![conn] = None]
  /\ data' \in {None, l + 1} /\ conn' = s

Subscribe(u) ==
  /\ pc = "idle" /\ subs < MaxSubscriptions
  /\ subs' = subs + 1 /\ first' = u /\ latest' = u - 1
  /\ queue' = <<>> /\ thrown' = "none"
  /\ ResetDataStreamTo(0, hash, u - 1)
  /\ NextRound("readBlock")
  /\ UNCHANGED <<head, low, ok>>

\* The thread is joined: it leaves at the next look at stop_subscription_thread_.
Unsubscribe ==
  /\ pc \in {"readBlock", "find"}
  /\ NextRound("idle")
  /\ UNCHANGED <<head, low, streams, latest, ok, app>>

(***************************************************************************)
(* A round: the data stream, then hash streams until f + 1 servers agree   *)
(***************************************************************************)
\* recordCollectedHash; an id below the latest one is ignored.
Recorded(s, u) == IF u.id < latest THEN records ELSE [records EXCEPT ![s] = u]

CountsRange == ~ok
Counted(r) ==
  /\ outOfRange' = outOfRange + (IF r = "range" /\ CountsRange THEN 1 ELSE 0)
  /\ notFound' = notFound + (IF r = "found" THEN 1 ELSE 0)

\* The stable sort of the servers: those with a hash stream come first.  The streams
\* of servers that are still to be read do not change meanwhile.
IsNext(s) ==
  /\ s \in todo
  /\ \A t \in todo \ {s} : IF hash[s] # None THEN hash[t] = None \/ s < t
                                             ELSE hash[t] = None /\ s < t

ReadBlock ==
  /\ pc = "readBlock"
  /\ \E a \in IF data = None THEN {[r |-> "failure", u |-> NoRecord]} ELSE Answers(conn, data) :
       /\ data' = IF data = None THEN None ELSE After(conn, data, a.r)
       /\ hasData' = (a.r = "success")
       /\ records' = IF a.r = "success" THEN Recorded(conn, a.u) ELSE records
       /\ Counted(a.r)
  /\ pc' = "find"
  /\ todo' = Servers \ {conn}
  /\ UNCHANGED <<head, low, hash, conn, latest, ok, app>>

Voters(u) == {s \in Servers : records[s] = u}
Agreed(u) == u # NoRecord /\ Cardinality(Voters(u)) >= F + 1
Agreement == \E u \in Updates : Agreed(u)
AgreedUpdate == CHOOSE u \in Updates : Agreed(u)

\* startHashStreamWith, if there is no stream, and readUpdateHashFromStream.
OpenTimesOut ==
  /\ pc = "find" /\ ~Agreement
  /\ \E s \in todo : IsNext(s) /\ hash[s] = None /\ todo' = todo \ {s}
  /\ UNCHANGED <<head, low, streams, latest, ok, pc, round, app>>
ReadUpdateHash ==
  /\ pc = "find" /\ ~Agreement
  /\ \E s \in todo :
       /\ IsNext(s)
       /\ LET p == IF hash[s] = None THEN latest + 1 ELSE hash[s]
          IN \E a \in Answers(s, p) :
               /\ hash' = [hash EXCEPT ![s] = After(s, p, a.r)]
               /\ records' = IF a.r = "success" THEN Recorded(s, a.u) ELSE records
               /\ Counted(a.r)
       /\ todo' = todo \ {s}
  /\ UNCHANGED <<head, low, data, conn, latest, ok, pc, hasData, app>>

\* closeAllHashStreams
CloseAllHashStreams == [s \in Servers |-> IF s = conn THEN hash[s] ELSE None]

Throw(e) ==
  /\ thrown' = e /\ hash' = CloseAllHashStreams /\ NextRound("idle")
  /\ UNCHANGED <<data, conn, queue, first, subs>>

Mismatch == Cardinality({s \in Servers : records[s] # NoRecord}) >= 2 * F + 1
TooFarAhead == ~ok /\ outOfRange >= F + 1
Pruned == notFound >= F + 1
NoAgreement ==
  /\ pc = "find" /\ todo = {} /\ ~Agreement
  /\ \/ /\ Mismatch /\ thrown' = "internal" /\ NextRound("idle")
        /\ UNCHANGED <<streams, queue, first, subs>>
     \/ ~Mismatch /\ TooFarAhead /\ Throw("range")
     \/ ~Mismatch /\ ~TooFarAhead /\ Pruned /\ Throw("found")
     \/ /\ ~Mismatch /\ ~TooFarAhead /\ ~Pruned
        /\ ResetDataStreamTo((conn + 1) % N, CloseAllHashStreams, latest)
        /\ NextRound("readBlock") /\ UNCHANGED app
  /\ UNCHANGED <<head, low, latest, ok>>

(***************************************************************************)
(* Delivery                                                                *)
(***************************************************************************)
\* Hash streams of servers that are not in the agreeing set are cancelled.
KeptStreams(u, hs) == [s \in Servers |-> IF s \in Voters(u) THEN hs[s] ELSE None]
Deliver(u) ==
  /\ ok' = TRUE /\ latest' = u.id /\ queue' = Append(queue, u)
  /\ NextRound("readBlock")
  /\ UNCHANGED <<head, low, first, subs, thrown>>

Verified ==
  /\ pc = "find" /\ Agreement /\ hasData /\ conn \in Voters(AgreedUpdate)
  /\ Deliver(AgreedUpdate)
  /\ hash' = KeptStreams(AgreedUpdate, hash) /\ UNCHANGED <<data, conn>>

\* rotateDataStreamAndVerify tries the agreeing servers, in any order.
StartRotation ==
  /\ pc = "find" /\ Agreement /\ ~(hasData /\ conn \in Voters(AgreedUpdate))
  /\ todo' = Voters(AgreedUpdate)
  /\ pc' = "rotate"
  /\ UNCHANGED <<head, low, streams, latest, ok, round, app>>

\* The update has the id and the hash that were agreed on.
Matches(u) == u = AgreedUpdate
Rotate ==
  /\ pc = "rotate"
  /\ \E s \in todo :
       /\ conn' = s
       /\ LET hs == [hash EXCEPT ![s] = None, ![conn] = None]
          IN \/ /\ data' = None /\ hash' = hs /\ todo' = todo \ {s}
                /\ UNCHANGED <<head, low, latest, ok, pc, round, app>>
             \/ \E a \in Answers(s, latest + 1) :
                  /\ data' = After(s, latest + 1, a.r)
                  /\ \/ /\ a.r = "success" /\ Matches(a.u)
                        /\ hash' = KeptStreams(AgreedUpdate, hs)
                        /\ Deliver(a.u)
                     \/ /\ a.r = "success" => ~Matches(a.u)
                        /\ hash' = hs /\ todo' = todo \ {s}
                        /\ UNCHANGED <<head, low, latest, ok, pc, round, app>>

RotationFails ==
  /\ pc = "rotate" /\ todo = {}
  /\ ResetDataStreamTo((conn + 1) % N, CloseAllHashStreams, latest)
  /\ NextRound("readBlock")
  /\ UNCHANGED <<head, low, latest, ok, app>>

Next ==
  \/ \E s \in Servers : AddUpdate(s) \/ PruneUpdate(s)
  \/ \E u \in 1..MaxUpdate : Subscribe(u)
  \/ Unsubscribe \/ ReadBlock \/ OpenTimesOut \/ ReadUpdateHash \/ NoAgreement
  \/ Verified \/ StartRotation \/ Rotate \/ RotationFails

Spec == Init /\ [][Next]_vars

(***************************************************************************)
(* Properties                                                              *)
(***************************************************************************)
TypeOK ==
  /\ data \in None..(MaxUpdate + 1) /\ hash \in [Servers -> None..(MaxUpdate + 1)]
  /\ conn \in Servers /\ latest \in 0..MaxUpdate /\ outOfRange + notFound <= N

\* The application gets the updates from the one it asked for on, none
\* missing, none twice and each the right one, with F servers that answer
\* anything and streams that time out and fail at every point.
DeliveredInOrder ==
  \A i \in DOMAIN queue : queue[i] = Update(first + i - 1, TRUE)

\* At the start of a round every working stream of a correct server is at the
\* update that is awaited: receiveUpdates closes or reopens all the others.
StreamsAreAligned ==
  pc = "readBlock" =>
    /\ \A s \in Honest : hash[s] \in {None, Broken, latest + 1}
    /\ conn \in Honest => data \in {None, Broken, latest + 1}

\* An exception is raised only for a reason: never for mismatching hashes,
\* and for a range or a pruned update only if a correct server refuses it.
ExceptionsAreJustified ==
  /\ thrown # "internal"
  /\ thrown = "range" => queue = <<>>
  /\ thrown = "found" => \E s \in Honest : low[s] > latest + 1
=============================================================================
