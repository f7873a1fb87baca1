--------------------------- MODULE BlockCommit ----------------------------
(***************************************************************************)
(* How the blocks of a cycle reach the chain: BCStateTran hands each block *)
(* to a pool of workers (putBlockAsync), which write it to the temporary   *)
(* state transfer chain; when all blocks of a batch are written, a further *)
(* thread moves them to the blockchain (postProcessUntilBlockId); the last *)
(* block of the cycle is put and linked by the state transfer thread.  The *)
(* process may crash at any step.  Blocks are correct here: what is put is *)
(* module StateTransfer, from where the batches come.                      *)
(*                                                                         *)
(* The chain is the v4 blockchain (V4) or the categorized one.  An assert  *)
(* that fails, and an exception that ends the process, is recorded in      *)
(* aborted; the process is then started again.                             *)
(***************************************************************************)
EXTENDS RvbBatches

CONSTANTS
  V4,            \* the blockchain is v4blockchain, else categorization
  Last,          \* the last required block of the cycle
  MaxCrashes     \* bound on crashes

VARIABLES
  linked,   \* the last reachable block of the blockchain, on disk
  st,       \* the blocks of the state transfer chain, on disk
  lastSt,   \* last_block_id_ of the state transfer chain, in memory
  first,    \* first required block in the data store, 0 when all are there
  pc,       \* where the state transfer thread is
  fetch,    \* fetchState_
  rvb,      \* groups whose digests are stored
  io,       \* ioContexts_: puts in flight, in the order of the blocks
  ppq,      \* postProcessingQ_
  pp,       \* the block until which the post-processing thread links, or 0
  ppUpper,  \* postProcessingUpperBoundBlockId_
  ppMax,    \* maxPostprocessedBlockId_
  aborted,
  crashes

vars == <<linked, st, lastSt, first, pc, fetch, rvb, io, ppq, pp, ppUpper, ppMax,
          aborted, crashes>>

\* ioPool_ has a context for every chunk of a batch.
PoolSize == ChunksInBatch

Running == aborted = "no"
Greatest(S) == IF S = {} THEN 0 ELSE CHOOSE x \in S : \A y \in S : y <= x

Abort(why) ==
  /\ aborted' = why
  /\ UNCHANGED <<linked, st, lastSt, first, pc, fetch, rvb, io, ppq, pp, ppUpper, ppMax, crashes>>

(***************************************************************************)
(* Workers                                                                 *)
(***************************************************************************)
\* hasBlock of the state transfer chain looks at the last block id first.
InStChain(b) == b \in st /\ (V4 => b <= lastSt)

\* A block that is there already is not added again.
HaveBlock(b) == b <= linked \/ InStChain(b)

Finish(i) == io' = [io EXCEPT ![i].at = "done"]

\* putBlock
WorkerWrites(i) ==
  /\ Running
  /\ io[i].at = "queued"
  /\ LET b == io[i].b
     IN IF HaveBlock(b)
        THEN Finish(i) /\ UNCHANGED st
        ELSE /\ st' = st \cup {b}
             /\ io' = [io EXCEPT ![i].at = "written"]
  /\ UNCHANGED <<linked, lastSt, first, pc, fetch, rvb, ppq, pp, ppUpper, ppMax, aborted, crashes>>

\* updateLastIdIfBigger compares and stores; the categorized chain holds a mutex.
WorkerCompares(i) ==
  /\ Running
  /\ io[i].at = "written"
  /\ IF lastSt >= io[i].b THEN Finish(i) /\ UNCHANGED lastSt
     ELSE IF V4 THEN io' = [io EXCEPT ![i].at = "bigger"] /\ UNCHANGED lastSt
     ELSE Finish(i) /\ lastSt' = io[i].b
  /\ UNCHANGED <<linked, st, first, pc, fetch, rvb, ppq, pp, ppUpper, ppMax, aborted, crashes>>

WorkerStores(i) ==
  /\ Running
  /\ io[i].at = "bigger"
  /\ lastSt' = io[i].b
  /\ Finish(i)
  /\ UNCHANGED <<linked, st, first, pc, fetch, rvb, ppq, pp, ppUpper, ppMax, aborted, crashes>>

(***************************************************************************)
(* The state transfer thread                                               *)
(***************************************************************************)
LastInCycle(b) == b = fetch.min /\ fetch.max = Last
AllDone == \A i \in 1..Len(io) : io[i].at = "done"

\* finalizePutblockAsync(NO_WAIT): the jobs at the front that are done.
Unfinished ==
  SubSeq(io, 1 + Greatest({n \in 0..Len(io) : \A i \in 1..n : io[i].at = "done"}), Len(io))

\* processData has a valid block that is not the last of the cycle.  With an empty
\* pool it first waits for the job at the front (WAIT_SINGLE_JOB).
PutAsync ==
  /\ Running
  /\ pc = "fetch"
  /\ ~LastInCycle(fetch.next)
  /\ Len(io) = PoolSize => io[1].at = "done"
  /\ io' = Append(Unfinished, [b |-> fetch.next, at |-> "queued"])
  /\ LET g == GroupNeeded(fetch.min, fetch.max, rvb)
     IN rvb' = IF fetch.next = fetch.max /\ g # 0 THEN StoreGroup(rvb, g) ELSE rvb
  /\ IF fetch.next = fetch.min
     THEN pc' = "drain" /\ UNCHANGED fetch
     ELSE fetch' = [fetch EXCEPT !.next = @ - 1] /\ UNCHANGED pc
  /\ UNCHANGED <<linked, st, lastSt, first, ppq, pp, ppUpper, ppMax, aborted, crashes>>

\* The batch is written (WAIT_ALL_JOBS): hand it to the post-processing thread.
DrainEarly ==
  /\ Running
  /\ pc = "drain"
  /\ io' = <<>>
  /\ ppq' = Append(ppq, fetch.max)
  /\ ppUpper' = fetch.max
  /\ pc' = "txn"
  /\ UNCHANGED <<linked, st, lastSt, first, fetch, rvb, pp, ppMax, aborted, crashes>>
Drain ==
  /\ Running
  /\ pc = "drain"
  /\ AllDone
  /\ io' = <<>>
  /\ ppq' = Append(ppq, fetch.max)
  /\ ppUpper' = fetch.max
  /\ pc' = "txn"
  /\ UNCHANGED <<linked, st, lastSt, first, fetch, rvb, pp, ppMax, aborted, crashes>>

\* The transaction of the data store ends with the next batch in memory.
CommitTxn ==
  /\ Running
  /\ pc = "txn"
  /\ first' = fetch.max + 1
  /\ fetch' = NextBatch(fetch.max + 1, Last, rvb)
  /\ pc' = "fetch"
  /\ UNCHANGED <<linked, st, lastSt, rvb, io, ppq, pp, ppUpper, ppMax, aborted, crashes>>

\* The last block of the cycle is there: wait for the workers.
LastBlock ==
  /\ Running
  /\ pc = "fetch"
  /\ LastInCycle(fetch.next)
  /\ AllDone
  /\ io' = <<>>
  /\ pc' = "wait"
  \* triggerPostProcessing
  /\ ppq' = IF ppMax = 0 /\ first - 1 > linked + 1 THEN Append(ppq, first - 1) ELSE ppq
  /\ UNCHANGED <<linked, st, lastSt, first, fetch, rvb, pp, ppUpper, ppMax, aborted, crashes>>

PostProcessingDone == ppq = <<>> /\ ppUpper = ppMax

\* Then for the post-processing thread, and put the block with lastBlock set:
\* both chains return at once if they have it.
PutLast ==
  /\ Running
  /\ pc = "wait"
  /\ PostProcessingDone
  /\ IF HaveBlock(fetch.next)
     THEN pc' = "end" /\ UNCHANGED <<st, lastSt>>
     ELSE /\ st' = st \cup {fetch.next}
          /\ lastSt' = Greatest({lastSt, fetch.next})
          /\ pc' = "link"
  /\ UNCHANGED <<linked, first, fetch, rvb, io, ppq, pp, ppUpper, ppMax, aborted, crashes>>

\* linkSTChain, one block per write.
LinkStChain ==
  /\ Running
  /\ pc = "link"
  /\ IF linked < lastSt /\ linked + 1 \in st
     THEN /\ linked' = linked + 1
          /\ st' = st \ {linked + 1}
          /\ UNCHANGED <<lastSt, pc>>
     ELSE /\ pc' = "end"
          /\ lastSt' = IF linked < lastSt THEN lastSt ELSE 0
          /\ UNCHANGED <<linked, st>>
  /\ UNCHANGED <<first, fetch, rvb, io, ppq, pp, ppUpper, ppMax, aborted, crashes>>

\* onGettingMissingBlocksEnd; the reserved pages follow, and checkConsistency.
EndOfBlocks ==
  /\ Running
  /\ pc = "end"
  /\ first' = 0
  /\ pc' = "pages"
  /\ aborted' = IF lastSt > linked THEN "checkUnreachableBlocks" ELSE "no"
  /\ UNCHANGED <<linked, st, lastSt, fetch, rvb, io, ppq, pp, ppUpper, ppMax, crashes>>

(***************************************************************************)
(* The post-processing thread                                              *)
(***************************************************************************)
\* The adapters of both chains: the batch is linked already, or it cannot be linked.
FullyLinked(u) == u = linked /\ lastSt = 0
CannotPostProcess(u) == ~FullyLinked(u) /\ (u < linked \/ u > lastSt)

\* linkUntilBlockId of the v4 blockchain wants a block to link.
EmptyRange(u) == V4 /\ linked + 1 > u

\* postProcessNextBatch
PostProcess ==
  /\ Running
  /\ pp = 0 /\ ppq # <<>>
  /\ LET u == Head(ppq)
     IN IF u # ppMax /\ (u < ppMax \/ CannotPostProcess(u) \/ (~FullyLinked(u) /\ EmptyRange(u)))
        THEN Abort(CASE u < ppMax -> "postProcessNextBatch"
                     [] u > ppMax /\ CannotPostProcess(u) -> "postProcessUntilBlockId"
                     [] OTHER -> "linkUntilBlockId")
        ELSE /\ ppq' = Tail(ppq)
             /\ IF u = ppMax \/ FullyLinked(u)
                THEN ppMax' = u /\ UNCHANGED pp
                ELSE pp' = u /\ UNCHANGED ppMax
             /\ UNCHANGED <<linked, st, lastSt, first, pc, fetch, rvb, io, ppUpper, aborted, crashes>>

\* writeSTLinkTransaction: the block leaves one chain and enters the other at once.
LinkOne ==
  /\ Running
  /\ pp # 0
  /\ IF linked < pp /\ linked + 1 \in st
     THEN /\ linked' = linked + 1
          /\ st' = st \ {linked + 1}
          /\ UNCHANGED <<pp, ppMax>>
     ELSE /\ ppMax' = pp
          /\ pp' = 0
          /\ UNCHANGED <<linked, st>>
  /\ UNCHANGED <<lastSt, first, pc, fetch, rvb, io, ppq, ppUpper, aborted, crashes>>

(***************************************************************************)
(* Crash and restart: the blockchain links what is contiguous, then        *)
(* initImpl checks the consistency and goes on from the data store.        *)
(***************************************************************************)
\* checkUnreachableBlocks: below the first hole under the last block there may be
\* blocks that the pool wrote out of order, but no others.
HolesExplained(reach, left) ==
  LET hole == Greatest({x \in 0..Greatest(left) : x > reach /\ x \notin left})
  IN /\ hole > reach
     /\ \A b \in left : b < hole => hole - 1 - b < PoolSize - 1

Restart ==
  LET reach == Greatest({n \in linked..Last : \A b \in linked + 1..n : b \in st})
      left  == st \ (1..reach)
  IN /\ aborted # "no" \/ crashes < MaxCrashes
     /\ crashes' = IF aborted = "no" THEN crashes + 1 ELSE crashes
     /\ linked' = reach
     /\ st' = left
     /\ lastSt' = Greatest(left)
     /\ aborted' = CASE left # {} /\ (first = 0 \/ ~HolesExplained(reach, left)) -> "checkUnreachableBlocks"
                     [] left # {} /\ first # 0 /\ HolesExplained(reach, left) /\ first - 1 # reach ->
                          "checkBlocksBeingFetchedNow"
                     [] OTHER -> "no"
     /\ first' = IF reach = Last THEN 0 ELSE first
     /\ fetch' = IF reach = Last THEN fetch ELSE NextBatch(first, Last, <<>>)
     /\ pc' = IF reach = Last THEN "pages" ELSE "fetch"
     /\ rvb' = <<>>
     /\ io' = <<>>
     /\ ppq' = <<>>
     /\ pp' = 0
     /\ ppUpper' = 0
     /\ ppMax' = 0

Init ==
  /\ ConfigChecks
  /\ linked = 0
  /\ st = {}
  /\ lastSt = 0
  /\ first = 1
  /\ pc = "fetch"
  /\ fetch = NextBatch(1, Last, <<>>)
  /\ rvb = <<>>
  /\ io = <<>>
  /\ ppq = <<>>
  /\ pp = 0
  /\ ppUpper = 0
  /\ ppMax = 0
  /\ aborted = "no"
  /\ crashes = 0

\* The cycle goes on with the reserved pages (module StateTransfer).
Finished == pc = "pages" /\ Running /\ UNCHANGED vars

\* The thread of state transfer, and a worker of the thread pool.
StThread ==
  PutAsync \/ Drain \/ CommitTxn \/ LastBlock \/ PutLast \/ LinkStChain \/ EndOfBlocks
Work(i) == WorkerWrites(i) \/ WorkerCompares(i) \/ WorkerStores(i)

Next ==
  \/ StThread \/ PostProcess \/ LinkOne \/ Restart \/ Finished
  \/ \E i \in 1..Len(io) : Work(i)

Spec == Init /\ [][Next]_vars

(***************************************************************************)
(* Properties                                                              *)
(***************************************************************************)
TypeOK ==
  /\ linked \in 0..Last /\ st \subseteq 1..Last /\ lastSt \in 0..Last /\ first \in 0..Last
  /\ fetch.min \in 1..Last /\ fetch.next \in fetch.min..fetch.max /\ fetch.max <= Last
  /\ Len(io) <= PoolSize
  /\ pp \in 0..Last /\ ppMax \in 0..Last /\ ppUpper \in 0..Last

\* The data store never claims more than is on disk: whatever the order in which
\* the workers write, and whenever the process crashes, every block below the
\* first required one is in one of the two chains, and in one only.
RequiredIsMissing ==
  /\ \A b \in 1..(IF first = 0 THEN Last ELSE first - 1) : b <= linked \/ b \in st
  /\ \A b \in st : b > linked

\* No assert of the state transfer and no exception of the chains ends the process.
NothingAborts == aborted = "no"

\* The assert of checkUnreachableBlocks: no block is left in the state transfer
\* chain when the blocks of the cycle are in place.
NothingLeftBehind == aborted # "checkUnreachableBlocks"
=============================================================================
