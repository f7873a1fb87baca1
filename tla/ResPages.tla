----------------------------- MODULE ResPages -----------------------------
(***************************************************************************)
(* The reserved pages and the stored checkpoints of BCStateTran with its   *)
(* DataStore: pages written by execution are pending until a checkpoint    *)
(* takes them, old checkpoints are deleted with the pages that newer ones  *)
(* cover, and a source answers a destination with a virtual block of the   *)
(* pages that changed since the destination's last checkpoint.             *)
(*                                                                         *)
(* Execution is cut into the intervals between checkpoints.  A page's      *)
(* content is the interval in which it was written; written holds, for all *)
(* replicas, the pages that each interval writes.  Every action is at most *)
(* one transaction of the store, so a crash falls between two of them.     *)
(***************************************************************************)
EXTENDS Integers, FiniteSets, FiniteSetsExt

CONSTANTS
  Pages,        \* numberOfReservedPages_
  MaxCp,        \* bound: checkpoints
  MaxStored,    \* maxNumOfStoredCheckpoints_
  MaxVBlocks,   \* kMaxVBlocksInCache
  MaxCrashes, MaxFetches  \* bounds on crashes and cycles of state transfer

VARIABLES
  written,   \* the pages that each interval writes
  executed,  \* lastExecutedSeqNum, in intervals
  pending,   \* pendingPages: 0, or the interval whose content it is
  stored,    \* pages: the stored versions [p, c, v]
  descs,     \* the stored CheckpointDescs with their descriptors of pages
  first, last,  \* FirstStoredCheckpoint, LastStoredCheckpoint
  fetching,  \* IsFetchingState
  ending,    \* the end of a cycle: its callbacks are to run, or have run
  cache,     \* cacheOfVirtualBlockForResPages
  served,    \* the latest virtual block sent
  faults     \* crashes and cycles so far

vars == <<written, executed, pending, stored, descs, first, last, fetching, ending,
          cache, served, faults>>

Cps == 1..MaxCp
NoPage == [c |-> 0, v |-> 0]
NothingServed == [cp |-> 0, known |-> 0, pages |-> {}]

Init ==
  /\ written = [k \in Cps |-> {}] /\ executed = 0
  /\ pending = [p \in Pages |-> 0] /\ stored = {}
  /\ descs = {} /\ first = 0 /\ last = 0
  /\ fetching = FALSE /\ ending = "no" /\ cache = {} /\ served = NothingServed
  /\ faults = [crashes |-> 0, fetches |-> 0]

(***************************************************************************)
(* The store                                                               *)
(***************************************************************************)
\* getResPage: the newest version of p that is not newer than c.
GetResPage(st, p, c) ==
  LET older == {e \in st : e.p = p /\ e.c <= c}
  IN  IF older = {} THEN NoPage
      ELSE LET e == CHOOSE x \in older : \A y \in older : y.c <= x.c IN [c |-> e.c, v |-> e.v]

\* getResPagesDescriptor
Descriptor(st, c) == [p \in Pages |-> GetResPage(st, p, c)]

\* What an undisturbed replica has at checkpoint c.
Truth(c) ==
  [p \in Pages |-> LET ks == {k \in 1..c : p \in written[k]}
                   IN  IF ks = {} THEN NoPage ELSE [c |-> Max(ks), v |-> Max(ks)]]

HasDesc(ds, c) == \E d \in ds : d.cp = c

\* deleteCoveredResPageInSmallerCheckpoints: of the versions up to min only the newest stays.
DeleteCovered(st, min) ==
  {e \in st : ~\E n \in st : n.p = e.p /\ n.c <= min /\ e.c < n.c}

\* deleteOldCheckpoints
MinRelevant(ds, c) ==
  IF c < MaxStored THEN 0
  ELSE LET from == {m \in (c - MaxStored + 1)..c : m = c \/ HasDesc(ds, m)} IN Min(from)
DeleteOldCheckpoints(st, ds, c) ==
  LET min == MinRelevant(ds, c)
      old == min >= 2 /\ min > first
  IN  /\ stored' = IF old THEN DeleteCovered(st, min) ELSE st
      /\ descs' = IF old THEN {d \in ds : d.cp >= min} ELSE ds
      /\ first' = IF min > first THEN min ELSE first
      /\ last' = c

(***************************************************************************)
(* Execution and checkpoints                                               *)
(***************************************************************************)
Interval == executed + 1

\* saveReservedPage, called by the execution of a request.
SaveReservedPage(p) ==
  /\ ~fetching /\ Interval <= MaxCp /\ last < Interval
  /\ written' = [written EXCEPT ![Interval] = @ \cup {p}]
  /\ pending' = [pending EXCEPT ![p] = Interval]
  /\ UNCHANGED <<executed, stored, descs, first, last, fetching, ending, cache, served, faults>>

\* checkpointReservedPages: the pending pages become versions of checkpoint c.
Associated(c) == {[p |-> p, c |-> c, v |-> pending[p]] : p \in {q \in Pages : pending[q] # 0}}

CreateKeepsPending ==
  /\ ~fetching /\ Interval <= MaxCp /\ last < Interval
  /\ LET st == stored \cup Associated(Interval)
     IN  DeleteOldCheckpoints(st, descs \cup {[cp |-> Interval, pages |-> Descriptor(st, Interval)]},
                              Interval)
  /\ UNCHANGED <<pending, written, executed, fetching, ending, cache, served, faults>>
CreateCheckpointOfCurrentState ==
  /\ ~fetching /\ Interval <= MaxCp /\ last < Interval
  /\ LET st == stored \cup Associated(Interval)
     IN  DeleteOldCheckpoints(st, descs \cup {[cp |-> Interval, pages |-> Descriptor(st, Interval)]},
                              Interval)
  /\ pending' = [p \in Pages |-> 0]
  /\ UNCHANGED <<written, executed, fetching, ending, cache, served, faults>>

\* The execution is finalized in a transaction of its own; a checkpoint that is stored
\* already is not created again.
FinalizeExecution ==
  /\ ~fetching /\ Interval <= MaxCp /\ last = Interval
  /\ executed' = Interval
  /\ UNCHANGED <<written, pending, stored, descs, first, last, fetching, ending, cache, served, faults>>

\* After a restart the requests of the last sequence number are executed again.
Crash ==
  /\ faults.crashes < MaxCrashes /\ faults' = [faults EXCEPT !.crashes = @ + 1]
  /\ cache' = {} /\ ending' = "no"
  /\ \E again \in SUBSET (IF Interval <= MaxCp /\ ~fetching THEN written[Interval] ELSE {}) :
       pending' = [p \in Pages |-> IF p \in again THEN Interval ELSE pending[p]]
  /\ UNCHANGED <<written, executed, stored, descs, first, last, fetching, served>>

(***************************************************************************)
(* A cycle of state transfer on this replica                               *)
(***************************************************************************)
\* createVBlock: the pages of checkpoint c that changed after checkpoint known.
VBlock(st, c, known) ==
  {[p |-> p, c |-> GetResPage(st, p, c).c, v |-> GetResPage(st, p, c).v] :
     p \in {q \in Pages : GetResPage(st, q, c).c > known}}

StartKeepsPending ==
  /\ ~fetching /\ faults.fetches < MaxFetches /\ executed < MaxCp
  /\ faults' = [faults EXCEPT !.fetches = @ + 1]
  /\ fetching' = TRUE /\ cache' = {}
  /\ UNCHANGED <<pending, written, executed, stored, descs, first, last, ending, served>>
StartCollectingState ==
  /\ ~fetching /\ faults.fetches < MaxFetches /\ executed < MaxCp
  /\ faults' = [faults EXCEPT !.fetches = @ + 1]
  /\ fetching' = TRUE /\ cache' = {}
  /\ pending' = [p \in Pages |-> 0]
  /\ UNCHANGED <<written, executed, stored, descs, first, last, ending, served>>

\* The pages of checkpoint c arrive from a replica that has all of them; the others went
\* on to write pages up to then, and this replica is not ahead of them.  The digest of
\* the result is that of the checkpoint, which may be stored already (by a cycle that a
\* crash cut off).
FetchPages(c, w) ==
  /\ fetching /\ ending = "no" /\ c >= last /\ c >= executed
  /\ \A k \in Cps : k > c => written[k] = {} /\ w[k] = {}
  /\ \A k \in Cps : IF k <= last \/ k <= executed THEN w[k] = written[k] ELSE written[k] \subseteq w[k]
  /\ written' = w
  /\ LET now == {[p |-> p, c |-> k, v |-> k] : p \in Pages, k \in Cps}
         peer == {e \in now : e.p \in w[e.c] /\ e.c <= c}
         st == stored \cup VBlock(peer, c, last)
     IN  /\ Descriptor(st, c) = Descriptor(peer, c)
         /\ DeleteOldCheckpoints(st, {d \in descs : d.cp # c} \cup {[cp |-> c, pages |-> Descriptor(peer, c)]}, c)
  /\ ending' = "callbacks"
  /\ UNCHANGED <<pending, executed, fetching, cache, served, faults>>

\* The callbacks run in a thread of their own: the replica stores the number of the
\* checkpoint as its last executed one (onTransferringCompleteImp).
OnTransferringComplete ==
  /\ ending = "callbacks"
  /\ executed' = last /\ ending' = "done"
  /\ UNCHANGED <<written, pending, stored, descs, first, last, fetching, cache, served, faults>>

FinalizeCycle ==
  /\ ending = "done"
  /\ fetching' = FALSE /\ ending' = "no" /\ cache' = {}
  /\ UNCHANGED <<written, executed, pending, stored, descs, first, last, served, faults>>

(***************************************************************************)
(* The source of pages                                                     *)
(***************************************************************************)
\* onMessage(AskForCheckpointSummariesMsg): the checkpoints it is told of.
Summaries(min) ==
  {c \in Cps : /\ c <= last /\ c >= min /\ c >= first
               /\ last > MaxStored => c >= last - MaxStored + 1
               /\ HasDesc(descs, c)}

\* getVBlockFromCache
Cached(c, known) == {e \in cache : e.cp = c /\ e.known = known}

\* setVBlockInCache: the smallest key makes room.
Below(a, b) == a.cp < b.cp \/ (a.cp = b.cp /\ a.known < b.known)
InCache(e) ==
  {e} \cup (IF Cardinality(cache) = MaxVBlocks
            THEN {x \in cache : \E y \in cache : Below(y, x)} ELSE cache)

OnFetchResPages(c, known) ==
  /\ ~fetching /\ HasDesc(descs, c)
  /\ LET hit == Cached(c, known)
         new == [cp |-> c, known |-> known, pages |-> VBlock(stored, c, known)]
     IN  IF hit # {}
         THEN served' = [(CHOOSE e \in hit : TRUE) EXCEPT !.known = known] /\ UNCHANGED cache
         ELSE served' = new /\ cache' = InCache(new)
  /\ UNCHANGED <<written, executed, pending, stored, descs, first, last, fetching, ending, faults>>

Next ==
  \/ \E p \in Pages : SaveReservedPage(p)
  \/ CreateCheckpointOfCurrentState \/ FinalizeExecution \/ Crash
  \/ StartCollectingState
  \/ \E c \in Cps, w \in [Cps -> SUBSET Pages] : FetchPages(c, w)
  \/ OnTransferringComplete \/ FinalizeCycle
  \/ \E c \in Cps, known \in 0..MaxCp : known < c /\ OnFetchResPages(c, known)

Spec == Init /\ [][Next]_vars

(***************************************************************************)
(* Properties                                                              *)
(***************************************************************************)
Versions == [p : Pages, c : Cps, v : Cps]
TypeOK ==
  /\ executed \in 0..MaxCp /\ pending \in [Pages -> 0..MaxCp]
  /\ stored \subseteq Versions /\ first \in 0..MaxCp /\ last \in 0..MaxCp
  /\ \A d \in descs : d.cp \in Cps
  /\ fetching \in BOOLEAN /\ ending \in {"no", "callbacks", "done"}

\* What the asserts of the store and of the handlers say: a checkpoint to be created has
\* no pages yet, no stored page is newer than the last checkpoint, that checkpoint has a
\* descriptor, and deleted versions keep the store within its bound.
StoreIsBounded ==
  /\ \A e \in stored : e.c <= last
  /\ last > 0 => HasDesc(descs, last) /\ \A d \in descs : d.cp \in first..last
  /\ Cardinality(stored) <= Cardinality(Pages) * (MaxStored + 1)
  /\ Cardinality(cache) <= MaxVBlocks

\* loadReservedPage returns what execution wrote last, before and after a checkpoint, a
\* restart or a cycle of state transfer.
LoadReservedPage(p) == IF pending[p] # 0 THEN pending[p] ELSE GetResPage(stored, p, last).v
LoadIsLatest ==
  ~fetching /\ Interval <= MaxCp =>
    \A p \in Pages : LoadReservedPage(p) = Truth(Interval)[p].v

\* A replica that has the pages of checkpoint known, and is answered with the virtual block
\* for c, then has the pages of checkpoint c, whatever was deleted or cached meanwhile.
Apply(base, vblock) ==
  [p \in Pages |-> IF \E e \in vblock : e.p = p
                   THEN LET e == CHOOSE x \in vblock : x.p = p IN [c |-> e.c, v |-> e.v]
                   ELSE base[p]]
ServedIsRight == served.cp > 0 =>
                   Apply(Truth(served.known), served.pages) = Truth(served.cp)

\* Every checkpoint that a destination is told of can be fetched from here completely.
SummariesAreServed ==
  \A c \in Summaries(1), known \in 0..MaxCp : ~fetching /\ known < c =>
     Apply(Truth(known), VBlock(stored, c, known)) = Truth(c)

\* As long as the replica does not crash, the descriptor of every stored checkpoint, of
\* which the digest is compared between the replicas, is a function of what was executed,
\* whether the checkpoint was created or fetched and whatever was deleted.  After a crash
\* it need not be: the pages that are written again belong to the next checkpoint
\* (createCheckpointOfCurrentState finds its own stored and leaves them pending).
CheckpointsAgree == \A d \in descs : d.pages = Truth(d.cp)
============================================================================
