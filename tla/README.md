# TLA+ models of concord-bft

concord-bft is a Byzantine fault tolerant state machine replication library
(an implementation of SBFT) with a key-value blockchain on top. This directory
holds TLA+ models of its core, TLC configurations that check them on small
instances, and TLAPS proofs of facts that hold for every instance.
`PROJECT.json` maps each definition to the lines it models and lists the runs,
the hazards of the code and the theorems.

    tlc -workers 2 -config SbftSlow.cfg MCSbft
    tlapm Sbft_proofs.tla

## 1. Inventory

Paths are relative to `bftengine/src/bftengine/` unless they start with another
top-level directory.

| Component | State | Operations | Why it is hard | What makes it correct |
|---|---|---|---|---|
| Agreement (`ReplicaImp.cpp`, `SeqNumInfo.cpp`) | per sequence number: PrePrepare, four signature collectors, flags; lastExecuted, lastStable, primaryLastUsed | propose, PrePrepare, slow/fast path shares and certificates, execute | fast and slow path race; equivocating primary; results come asynchronously | no two replicas execute different batches for one number |
| View change (`ViewsManager.cpp`, `ViewChangeSafetyLogic.cpp`) | latest ViewChangeMsg per replica, NewViewMsg, pending view, restrictions | leave a view, collect, compute restrictions, enter | commits of several earlier views and both paths; faulty reports; different stable points | what may have been committed is proposed again |
| Signature collector (`CollectorOfThresholdSignatures.hpp`) | shares, candidate and valid certificate, expected digest, a job flag | add share, add certificate, set expected, reset, job results | jobs on a thread pool whose results outlive the view | results only reach the collector that asked; bad shares do not block |
| Active window (`SequenceWithActiveWindow.hpp`) | ring of cells, first cell, first number, size of the history | get, advance, reset | reuse of cells, modular offsets | behaves as a map from numbers to items |
| Checkpoints (`CheckpointInfo.hpp`, `ReplicaImp::onSeqNumIsStable`) | own and others' CheckpointMsgs per checkpoint | send, collect, stable, super-stable | a replica behind the others; window advance in the middle of a view change | stable means executed by a quorum |
| Clients table (`ClientsManager.cpp`) | pending requests, replies in reserved pages | add, commit, reply, clean up | retries at the limit of the table | a request is executed at most once |
| Persistence (`PersistentStorageImp.cpp`, `ReplicaLoader.cpp`) | windows of messages, descriptors of views and executions | write transactions, load | crash between persisting and sending or executing | restart does not contradict what was signed |
| Complaints and timers (`ReplicasAskedToLeaveViewInfo.hpp`, `onViewsChangeTimer`) | complaints per view | complain, join, jump | timeouts against late progress | enough replicas meet in a view |
| Retransmissions, incoming queues (`RetransmissionsManager.cpp`, `IncomingMsgsStorageImp.cpp`) | unacknowledged messages; two queues | send, ack, resend; push, swap, pop | limits, lost wake-ups | nothing needed is lost forever |
| Commit path control (`ControllerWithSimpleHistory.cpp`) | statistics of recent numbers | choose the first path, time of the slow path | - | performance only |
| State transfer (`bcstatetransfer/BCStateTran.cpp`, `RVBManager.cpp`) | fetching state, sources, checkpoints | ask for summaries, fetch blocks and pages, finish | source switches, late answers, restart | the fetched state is the one a quorum vouches for |
| Pre-execution (`preprocessor/`) | request in process, hashes of results | pre-execute, collect f+1 equal results | retries, disagreement | ordered result is one f+1 replicas computed |
| Clients (`client/bftclient`, `client_pool`, `SimpleClientImp.cpp`) | outstanding request, reply quorum | send, retry, match | faulty and late replies | accepted reply is one of a correct replica |
| kvbc (`kvbc/src/...`) | blocks, categories, state transfer chain, genesis | add, link, prune, read | crash while linking or pruning | the chain has no gap and hashes fit |
| Post-execution thread (`ReplicaImp::tryToStartOrFinishExecution`, `handleDeferredRequests`) | deferred messages, deferred reads, flags | start, finish, defer, work off | messages validated by other threads come back during the next execution | nothing is taken away from under an execution, nothing stays deferred |
| Thin replica (`thin-replica-server/`, `client/thin-replica-client/`, `kvbc_app_filter.cpp`) | queue of live updates; streams of the client | subscribe, read history, join live updates; agree on an update | storage grows and is pruned while it is read; slow readers | a subscriber gets every update once, in order, and only agreed ones |
| Client service, reconfiguration, cron, secrets, storage, communication, threshsign, utilities, UTT | - | - | - | see section 7 and `PROJECT.json` |

Interaction: replicas exchange messages; inside a replica one thread handles
external and internal messages one at a time, thread pools combine and verify
signatures and push their results back as internal messages, and state transfer
and execution call back into the replica. `SeqNumInfo` objects sit in the cells
of `mainLog`, an active window, and `onSeqNumIsStable` moves it.

## 2. Modules

| Module | Models |
|---|---|
| `Sbft` | the agreement protocol of all replicas: both commit paths, execution, stable checkpoints, view change |
| `ViewChange` | how replicas leave a view and gather what the next one is founded on |
| `SigCollector` | one signature collector with its background jobs |
| `ActiveWindow`, `WindowMap` | the ring of cells of `SequenceWithActiveWindow`, and the map it implements |
| `AsyncExecution` | the post-execution thread and what waits for it |
| `Clients` | the table of clients of one replica |
| `PreExec`, `PreExecBatch` | pre-execution: agreement on a result, and the slots of a batch at one replica |
| `Restart` | what a replica writes to its storage and finds there after a crash |
| `StateTransfer`, `SourceSelector`, `RvbBatches` | the destination of a state transfer, its choice of a source, its batches of blocks |
| `BlockCommit` | how fetched blocks are written and linked |
| `StSource` | the source of a state transfer |
| `ResPages` | reserved pages and stored checkpoints |
| `RangeValidationTree` | the tree of block digests that replicas compare |
| `KvBlockchain` | blocks, the versioned and the merkle category, pruning, deleting the last block |
| `LiveUpdates`, `EventGroups`, `ThinReplicaClient` | thin replica server and client |
| `MC...` | instances for TLC (section 3) |
| `..._proofs` | proofs (section 5) |

Operators whose comment starts with "mutant" are not part of a model: each is a
plausible bug in the definition after it, and the property listed for it in
`PROJECT.json` fails when it takes that definition's place.

`Sbft` abstracts from what a single replica does inside; the other modules look
at one part of a replica, or of two, and take the rest as input: `SigCollector`
says how the shares that `Sbft` counts become a certificate, `ViewChange` how the
ViewChangeMsgs of `Sbft` reach everyone, `AsyncExecution` how the execution that is
one step in `Sbft` runs beside the message loop, `Restart` why a replica that
crashed may be treated by `Sbft` as one that was slow, `StateTransfer` (with
`StSource`, `ResPages`, `BlockCommit`) how a replica that is behind gets a state,
`Clients` and `PreExec` where the batches come from.

### Sbft

`seqNumInfo[r][s]` is the `SeqNumInfo` of honest replica r for number s:
PrePrepare digest, `isTimeCorrect_`, slow path started, which fast path the
replica signed for, valid prepare and commit certificates, `forcedCompleted`.
`curView`, `viewActive` are the `ViewsManager`'s. What was sent is in the sets
`prePrepareMsgs`, `startSlowMsgs`, `shares` and the functions `viewChangeMsgs`,
`newViewMsgs`. They only grow, and receiving does not remove: so a message can
be late, lost (never received), duplicated or reordered.

* *Certificates.* A certificate exists when enough shares do. Who combines them
  and whether a replica learns of it by combining or from a full message makes
  no difference to safety, so the handlers of both are one action. How a replica
  combines shares is the subject of `SigCollector`.
* *Faulty replicas* have no state. Their shares always count, a faulty primary
  may send any PrePrepare to anyone, StartSlowCommit at any time, and a NewViewMsg
  with any quorum; their ViewChangeMsgs hold any digests without a certificate, and
  certificates that verify (`checkElements` refuses malformed ones and
  `computeRestrictionsForSeqNum` ignores invalid ones).
* *Fast path.* A replica signs for the path its PrePrepare says, unless the slow
  path has started. `Collectors` follows `getCollectorsForPartialProofs`, needed
  because a collector adds its own share before `isTimeCorrect` is looked at.
  The limit of `MaxConcurrentFastPaths` on sending shares is not a guard: the
  shares can be asked for later with ReqMissingDataMsg.
* *Execution* of all numbers committed in sequence is part of the step that
  commits (no post-execution separation).
* *Checkpoints.* A checkpoint the replica executed becomes stable when a quorum
  executed it, or under the rule of `tryToMarkCheckpointStableForFastPath`. A
  replica learns of checkpoints it has not executed by state transfer, which is
  not in this module.
* *View change.* A replica may give up a view at any time for the next one, or go
  to a view f+1 replicas have gone to. Its ViewChangeMsg is built as in
  `exitFromCurrentView`, with the certificate carried from its last one. Pending
  states are passed within the step that enters; the wait for missing
  PrePrepares, which can only delay the entry, is left out. A NewViewMsg is kept
  as what every replica computes from it: the stable point and the restriction on
  each number.
* f + c > 0 is assumed: with f = c = 0 there is one replica.

### SigCollector

The prepare collector of one slot at one replica; the commit and fast path
collectors are other instances of the class with handlers of the same shape.
`jobs` is the set of jobs whose results are not handled. The outcome of a job is
a function of what it was given; the time it is handled is any. `ExitView`,
`EnterView`, `LeaveWindow`, `StartStateTransfer` and `StateTransferComplete` are
what the replica may do to the slot meanwhile. An assertion that fails sets
`aborted`, after which nothing happens (`ConcordAssert` terminates). Which of
the usable shares go into a job is a choice, as the order of `unordered_map` is.
`numberOfUnknownSignatures` is 16 bits wide.

### ActiveWindow and WindowMap

`Put` is what users do with the reference `get(n)` returns. `WindowMap` knows
numbers only; the refinement mapping reads a number through
`getFromActiveWindowOrHistory` and takes the first number of the history from
`getBeginningOfInactiveWindow`.

### ViewChange

`reps[r]` is the `ViewsManager` of r with its complaints, the ViewChangeMsg and
NewViewMsg tables and the pending view. A ViewChangeMsg is its sender, its view
and the complaints it carries; the requests it reports are in `Sbft`. `Deliver`
takes any message of `net`, `Status` is a status report and the answer to it
(`onMessage<ReplicaStatusMsg>`), through which lost messages are sent again. `Gaps`
are the replicas that may find PrePrepares of a new view missing and keep it pending
until they have them; one that leaves a pending view asks for no ViewChangeMsgs
before it tries to enter the next one (`ViewsManager.cpp:388`). The replicas follow
the protocol or are silent (`Down`): that a faulty primary may move the others with a
ViewChangeMsg of its own (`ReplicaImp.cpp:2916`) is a view change at any time in `Sbft`.
A restarted replica has what `ReplicaLoader` restores.

### AsyncExecution

One replica. `rep` is what an execution may not lose: view, window, committed
numbers, whether a state transfer collects. `active`, `started`, `done` are
`activeExecutions_`, `startedExecution` and the internal message of the job.
Messages that arrive during an execution go to `deferred` up to `QueueSize`;
those with `shouldValidateAsync` pass through `checking`. `HandleFlags`,
`HandleDeferred` and `HandleReads` are `handleDeferredRequests`, one step per
message.

### Clients

One client, since the tables of two are independent. `requestsMap` is what is
pending, `replies` and `pages` the replies in memory and in the reserved pages,
`mainLog` the PrePrepares that are ordered but not executed. The client's batches
have at most `MaxNumOfReqsPerClient` requests. The order of PrePrepares is what
`Sbft` gives, so other primaries may propose any request that is in the network.
With `StaleDuplicates` copies of a request outlive its answer.

### PreExec and PreExecBatch

`PreExec` is the primary's view of one client: `entry` is its
`RequestProcessingState` with the hashes received, `reqs` and `replies` are in the
network, `ran` records who computed what. What the application computes may
differ between replicas and between two runs. `PreExecBatch` is one replica, in
either role: the message loop, the jobs and the timer take the lock of a request
or of the batch for one step at a time: registering a request and launching its job,
collecting an answer, releasing each request, resetting the batch and clearing the mark
of a job are steps of their own, and the view may change between any two. With
`QuickTimeouts` a request may expire while the loop still registers its batch.

### Restart

`mem` is `ReplicaImp`, `disk` the committed content of `PersistentStorageImp`,
`tran` an open outer transaction, which a crash discards. A handler that commits
before it sends is one step; the two places that send inside an open transaction
are split. `Restart` is `ReplicaLoader`, the constructor of `ReplicaImp` from the
loaded data and the state sync, which deletes blocks the metadata do not know.

### State transfer

`StateTransfer` runs the handlers of the destination on one thread; `processData`
takes one step per iteration and is not interrupted. Messages in flight are not
kept: a handler may be called with any message a source can have sent, so loss,
delay and repetition are included. Data are right or wrong. `SourceSelector` is
a record, and time a pair of flags (retransmission timeout, source used too long).
A faulty source may send any block of the batch. `ioPool_` always has a free context, so
that no FetchBlocksMsg is postponed, and `setRvbData` accepts the data of a complete
certificate. `RvbBatches` has the arithmetic of fetch ranges and digest groups. `BlockCommit`
has four kinds of threads and both blockchains, `V4` or categorized; as many blocks are
put at a time as a batch has chunks (`BCStateTran.cpp:274`). `StSource` has
one destination at a time in its session and reads blocks by workers. `ResPages`
cuts execution into the intervals between checkpoints; a page's content is the
interval that wrote it. The end of a cycle is three transactions (`FetchPages`,
`OnTransferringComplete`, `FinalizeCycle`), with a crash possible in between. In `RangeValidationTree` a value is a formal sum of the
initial values, which the sum modulo a number in the code hides.

### KvBlockchain

Column families are functions, every action is one write batch. `log` keeps pruned
blocks for the properties. The sparse merkle tree is the function of its leaves.

### Thin replicas

`LiveUpdates`: the reader joins history and queue while blocks are added with and
without a push, and pruned, at any time. `skipped` is the last block that came without a
push while updates were queued or sent live. `EventGroups`: external ids are computed from tables
that change between two reads; every read is a step. `ThinReplicaClient`:
`receiveUpdates`, one step per open and read of a stream; at most `F` servers answer
anything.

## 3. Runs

Four runs check `Sbft` alone or against a documented claim; the others are unions:
an MC module holds several instances of several modules, and a variable
`instance`, chosen in the initial state, tells which one takes steps. The states of
a union are the sum of those of its instances. `MCEngine` extends `AsyncExecution`,
`MCRecovery` extends `Restart`, `MCStateTransfer` extends `StateTransfer` and
`MCTransfer` extends `ViewChange`, so that the properties the proofs are about are
checked as they stand. The header of each MC module lists its instances, the
`INSTANCE ... WITH` after it their constants.

| Run | Instance | States | Shows |
|---|---|---|---|
| `sbft_slow` | n = 4, replica 0 faulty, views 0-2, one number, slow path, two batches | 347,588 | `TypeOK`, `Agreement`, `SignaturesFollowLog`, `CertificatesAgree`, `CommittedIsReported` with an equivocating primary |
| `sbft_fast` | n = 4, replica 3 faulty, views 0-2, one number, fast path with fallback | 1,407,753 | `Agreement` when fast commits meet view changes; `ExecutedWasProposed`: nothing made up is executed |
| `sbft_window` | f = 0, c = 1 (n = 3), views 0-1, two numbers, a checkpoint at each | 1,608,300 | `CommittedNeverReplaced`, `PrimaryNeverBehindExecution` with a window that moves while the next number is in flight |
| `engine` | `MCEngine`, 14 instances | 652,353 | collectors, the ring, the threshold path, the execution thread, the client table, pre-execution |
| `recovery` | `MCRecovery`, 10 instances | 1,592,771 | crashes and restarts, the blockchain, thin replicas |
| `state_transfer` | `MCStateTransfer`, 3 instances | 1,251,342 | the destination with a faulty source, two checkpoints, a crash, primary awareness |
| `transfer` | `MCTransfer`, 11 instances | 936,099 | leaving a view; source, pages, linking of blocks, validation tree |
| `progress` | `MCProgress`, 8 instances, fair | 31,655 | what must eventually happen |
| `sbft_time`, `sbft_stable`, `collector_transfer`, `event_groups` | | violation | findings 1 to 4 |

**What the unions check.** `engine`: a result reaches the collector that asked
and counts what it says (`CollectorSafe`); no two executions differ on the path with
threshold 3f+c+1 (`Agreement`); `ExecutionIsSafe` and `Undisturbed` of the execution
thread; a request is executed once, a copy that comes after the answer again only if
its saved reply was replaced (`ExecutedAtMostOnce`), and the table agrees with the
reserved pages (`TableIsSound`); a pre-executed result is one that f+1 replicas
computed (`AgreedByQuorum`) and batches are released, at the primary and, for a message
of the client and one of the primary, at another replica (`BatchesRelease`); the ring
is a map (`ImplementsMap`). `recovery`: `LoadSucceeds`, `VotesSurvive`,
`AppliedOnce` for one replica with two competing PrePrepares, two views and a crash
anywhere; `RestartIsSafe` is what remains of them with self-adjusted batching and
state transfers; `StorageFollowsChain`; a subscriber gets blocks in order and none
twice, and misses one only behind a block of a state transfer (`StreamIsGapless`);
`GroupsInOrder`.
`state_transfer`: `FetchedIsRight`, `BlocksBeforePages`, `AssertsHold`. `transfer`:
among replicas that follow the protocol or are silent, a view is left on f+1 complaints
and all who enter the next one build on the same ViewChangeMsgs (`ViewChangeSafe`), which
someone can still send to those who ask for them (`HelpIsAvailable`); `SourceServes`;
checkpoints agree as long as the replica does not crash (`CheckpointsAgree`), the latest
pages survive a crash (`PagesSurvive`); no block is lost, with crashes and on both
blockchains, and without a crash nothing stops the process on the categorized one
(`RequiredIsMissing`); `TreeIsCanonical`. `progress`: `TransferEnds` has the linking of
blocks without a crash in batches of up to three blocks (`Link`), and with crashes in
batches of one block on the v4 blockchain (`Single`).

**Bounds.** Three views are the least in which a certificate of view 0 has to be
carried through a view that did not renew it, and in which a choice between
certificates of different views arises. One number suffices for the per-number
choice of the view change; two are for the window and the order of execution. Two
batches are enough for a disagreement; null batches come on top. n = 4 has a
faulty replica; f = 0, c = 1 has the threshold path and a slow replica with n = 3.
Five shares with two bad ones and three required give two failing jobs in a row.
The ring needs more than two turns of the window to reuse every cell with a full
history. A deferred queue of one message can be full and be refilled; six numbers
with a window of four fill the window and move it. The client table keeps one or
two replies and sees three batches, so that the oldest reply is dropped. Two crashes
allow one during the recovery from another. Three sources of which one is faulty
leave f+1 = 2 honest ones to agree with; two checkpoints make a target stale.
Twelve blocks are three batches and two digest groups, with a batch that ends inside
a group; in `state_transfer` batches have two blocks. Twenty range validation blocks give trees of at least four levels with K = 2. A
blockchain of four blocks has a pruned block, a genesis block, a middle one and a
last one. The runs allow stopping (`CHECK_DEADLOCK FALSE`) because views, numbers,
messages or blocks are used up by the bounds.

**Outside the passing runs.** The cfgs leave out what the findings show to fail:
`sbft_slow` and `sbft_fast` have no checkpoint within `MaxSeq` and no time service,
`VotesSurvive` is not asked of self-adjusted batching and of a view entered inside a
state transfer, `CheckpointsAgree` not of a replica that crashed, `BatchesRelease` not of a
replica that changes its role, or of a further message at one that is not the primary,
`TransferEnds` not of crashes in larger batches, `GroupsInOrder` not of a data stream with groups added meanwhile,
`CollectorSafe` asks its assertion about results only before a state transfer.

**Fairness** (`MCProgress`, `FairSpec`). Weak fairness on what threads do once they
can: the pool runs every job and pushes its result to the queue of internal
messages, which has no limit and is emptied by the replica's thread; workers, the
linking thread and the execution thread go on; periodic timers fire; a process that
aborted is started again by its supervisor. Weak fairness on delivery in `Leave`
stands for status reports, which every replica sends periodically and which are
answered by what the reporter lacks. Strong fairness is used where the code repeats
a request until it is answered (checkpoint summaries, blocks), and for the results
of asynchronous validations, which may be overtaken by an execution but are taken
from their queue before external messages. Nothing is assumed of clients, of
crashes, of timers that only start something, or of messages that are sent once.

## 4. Findings

1. **Wrong time and commits** (`sbft_time`). A replica that found the time of a
   PrePrepare wrong does not sign the prepare, but it does sign the commit once
   others have prepared, and it commits and executes. `MoveToHigherView`
   (`ReplicaImp.cpp:3011`) leaves that slot out of the ViewChangeMsg. Two
   replicas can execute different batches. The comment at `ReplicaImp.cpp:1146`
   says "if time is not ok, we do not continue with consensus flow". The time
   service is off by default.
2. **Stable point** (`sbft_stable`). Elements at or below the sender's stable
   point are not in a ViewChangeMsg, but the new view starts above the (f+1)-th
   highest stable point. Numbers in between may be filled with null batches at a
   replica that is behind. `ViewChangeSafetyLogic.cpp:234` speaks of the "stable
   point bug" and a patch; the patch covers only the upper end of the range.
3. **Late result during a state transfer** (`collector_transfer`). The handlers
   of job results reset the collector while state is collected before they
   compare views, so a result of an old view resets the collector of the current
   one, whose own job then finds `expectedSeqNumber` 0 and the assertion at
   `CollectorOfThresholdSignatures.hpp:122` (146, 163) ends the process.
4. **Groups added while they are read** (`event_groups`). `readEventGroups` reads
   the newest private and public ids before the newest external one; a private
   and a public group added in between make it send the public one under the
   external id of the private one (`kvbc_app_filter.cpp:512`).

### Further disagreements met while modelling

TLC showed each of these on an instance of the module named; the passing runs
leave the case out and the model keeps the code's behaviour.

* `Clients`: `canBecomePending` (`ClientsManager.cpp:518`) does not compare with the
  last reply, as the comment at line 503 says. What leaves out a late copy of a request
  is its saved reply; when a later request of the same index was executed, that reply
  is gone and the copy is executed again. `ExecutedAtMostOnce` names this exception.
* `BlockCommit`: after a crash that leaves a hole in the state transfer chain, which
  takes a batch of two blocks, the assertion at `BCStateTran.cpp:3889` fails at every start; a last block that was
  already there is never linked (`v4_blockchain.cpp:391`); linking a batch again
  after a crash can meet the assertion at `v4_blockchain.cpp:478`;
  `updateLastIdIfBigger` (`st_chain.cpp:75`) compares and stores without a lock, so that
  linking may throw (`v4blockchain/app_state_adapter.cpp:104`) or miss the last block without a crash.
* `PreExec`: agreement of f+1 peers on an error completes with fewer than f+1
  signatures (`RequestProcessingState.cpp:286`, refused by
  `PreProcessResultMsg.cpp:65`); a replica that answers twice with different hashes
  is counted twice (`RequestProcessingState.cpp:310`).
* `PreExecBatch`: declined requests are not counted on a replica that is not the
  primary, so its batch is not released (`PreProcessor.cpp:821`); there a further message
  may take over slots of a batch that the timer or a job has reset, and the mark of a
  running job can be cleared for the next request of the slot (`PreProcessor.cpp:1879`);
  a request that expires while the loop registers its batch may complete the batch too
  early (`PreProcessor.cpp:145`).
* `Restart`: with self-adjusted batching a PrePrepare is sent inside an open
  transaction (`ReplicaImp.cpp:3525`); a NewViewMsg is sent inside the transaction that
  completes a state transfer (`ReplicaImp.cpp:3531`); a rejected time is forgotten by a
  restart (`ReplicaImp.cpp:4118`); the state sync gives up when it deleted exactly its
  limit (`replica_state_sync_imp.cpp:128`).
* `ViewChange`: a delayed ViewChangeMsg of an older view replaces one that the
  NewViewMsg names (`ViewsManager.cpp:300`, comment at line 305); it must be sent again.
  A replica that left a pending view reports no missing ViewChangeMsgs
  (`ViewsManager.cpp:388`) until it tries to enter the next view.
* `StSource`: a request for the rest of a block reads a context that a worker is
  filling (`BCStateTran.cpp:2089`); a negative prefetched result is kept
  (`BCStateTran.cpp:2137`).
* `StateTransfer`: the digests of the first chunk are not stripped when a later chunk
  completes the block (`BCStateTran.cpp:3418`); a cycle can end with blocks of a newer
  and pages of an older checkpoint (`BCStateTran.cpp:1858`).
* `ResPages`: pages written again after a crash are counted to the next checkpoint
  (`BCStateTran.cpp:611`).
* `LiveUpdates`, `EventGroups`: the `Pop` at `thin_replica_impl.hpp:383` is outside the
  try block whose handler cleans up; blocks that a state transfer adds while updates are
  queued or sent live are in no queue (`thin_replica_impl.hpp:425`), and dropping the
  overlap (line 996) may take the block pushed next with them.
* `ThinReplicaClient`: a second `Subscribe` opens the data stream again but keeps the hash
  streams of the first one (`thin_replica_client.cpp:508`), which are at another update;
  the models of the client have one subscription.
* `KvBlockchain`: reverting a block also reverts later prunings of its tree nodes
  (`block_merkle_category.cpp:233-256`), and a key pruned because of a newer block is
  lost when that block is deleted.

## 5. Proofs

Each `..._proofs` module extends the module it is about; `Buffers_proofs` extends
`ActiveWindow` and has instances of `LiveUpdates` and `ThinReplicaClient`,
`Requests_proofs` extends `PreExec` and has instances of `Clients` and `PreExecBatch`,
`Restart_proofs` has one of `KvBlockchain`,
`StateTransfer_proofs` has instances of `ResPages`, `BlockCommit` and `StSource`. The theorems
hold for every value of the constants that the named assumptions (`ASSUME` in the
module, or `Setup`, `Sizes`, `LiveSizes`, `ClientSizes`, `TableSizes`, `PageSizes`, `PutSizes`,
`SourceSizes`, `ChainSizes` in the proof module, which state
only types, the number of faulty parties and the static requirements of the code)
allow; where a theorem holds for a part of the behaviours only, the table says so. TLC
first checked each inductive invariant.

| Theorem | States, for every instance | Inductive invariant |
|---|---|---|
| `Sbft_proofs`: `TypeCorrect`, `SignaturesFollow`, `CertificatesAgreeInAView` | `TypeOK`, `SignaturesFollowLog`, `CertificatesAgree` | `IInv` |
| `Sbft_proofs`: `AgreementAcrossViews`, `CommittedStays`, `CommitsAreReported`, `PrimaryIsNotBehind` | `Agreement`, `CommittedNeverReplaced`, `CommittedIsReported`, `PrimaryNeverBehindExecution` | `AInv`, within `InScope` |
| `Sbft_proofs`: `ExecutedIsProposed` | `ExecutedWasProposed` | `PInv` |
| `Buffers_proofs`: `RingImplementsMap` | `ActiveWindow` implements `WindowMap` | `TypeOK` |
| `Buffers_proofs`: `UpdatesAreGapless` | `StreamIsGapless`, `SyncAssertions`, `TypeOK` of `LiveUpdates` | `LInv` |
| `Buffers_proofs`: `UpdatesAreVerified` | `DeliveredInOrder`, `StreamsAreAligned`, `ExceptionsAreJustified` of `ThinReplicaClient` | `CInv` |
| `SigCollector_proofs`: `CollectorIsSafe` | `CollectorSafe` | `CInv` |
| `AsyncExecution_proofs`: `ExecutionStaysSafe`, `ExecutionIsUndisturbed` | `ExecutionIsSafe`, `Undisturbed` | `EInv` |
| `Requests_proofs`: `ResultsAreAgreed` | `AgreedByQuorum` of `PreExec` | `PInv` |
| `Requests_proofs`: `RequestTableIsSound` | `TypeOK`, `RepliesMatchPages`, `AnsweredNotPending` of `Clients` | `TableInv` |
| `Requests_proofs`: `RequestsExecuteOnce` | `ExecutedAtMostOnce` of `Clients` | `TableInv /\ OnceInv`, with `StaleDuplicates` `TableInv /\ AgainInv` |
| `Requests_proofs`: `PrimaryReleasesBatches` | `NoBatchLeftBehind`, `NotExpiredWhileRunning`, `TypeOK` of `PreExecBatch`, at a replica that stays the primary, if no request expires before its batch is registered (`StaysPrimary`) | `SlotsInv` |
| `Restart_proofs`: `StorageLoads`, `VotesAreKept`, `BlocksAreAppliedOnce` | `LoadSucceeds`, `VotesSurvive`, `AppliedOnce` | `RInv`, `BInv`, within `InScope` |
| `Restart_proofs`: `BlocksCanBeRead` | `ParentsMatch`, `ReadsSucceed` of `KvBlockchain` | `ReadInv` |
| `Restart_proofs`: `StorageFollowsBlocks` | `StorageFollowsChain` of `KvBlockchain` | `ReadInv /\ ChainInv` |
| `StateTransfer_proofs`: `FetchesOnlyRight`, `StagesKeepOrder`, `DestinationAsserts` | `FetchedIsRight`, `BlocksBeforePages`, `AssertsHold` | `IInv` |
| `StateTransfer_proofs`: `PagesAreLatest`, `PagesAgree` | `LoadIsLatest`, `StoreIsBounded`, `TypeOK` of `ResPages`; without a crash `CheckpointsAgree`, `ServedIsRight`, `SummariesAreServed` | `LatestInv`, `AgreeInv` |
| `StateTransfer_proofs`: `RequiredBlocksAreMissing` | `RequiredIsMissing`, `TypeOK` of `BlockCommit`, with any number of crashes | `PutInv` |
| `StateTransfer_proofs`: `SteadyNeverAborts` | `NothingAborts` of `BlockCommit`, without a crash and without v4 (`SteadySizes`) | `PutInv /\ SteadyInv /\ BoundFits` |
| `StateTransfer_proofs`: `SourceServesInOrder` | `ContextsServe`, `AnswerInOrder`, `PoolIsFree` of `StSource` | `SourceInv` |
| `ViewChange_proofs`: `ViewsAreSafe`, `OneNewViewPerView` | `ViewChangeSafe`, `OneNewView` | `IInv` |

**Within a view** (`Sbft_proofs`), for every f, c with f + c > 0 and every set of at
most f faulty replicas. The work of `TypeCorrect` is in the CHOOSEs: the (f+1)-th
highest stable point exists in a quorum, and so does the highest certificate. That
an honest replica signs one batch per view and number is not inductive by itself:
`IInv == TypeOK /\ SignaturesFollowLog` adds the link from each signature of the
current view to the PrePrepare in the log, which no step replaces while the view
lasts and the number is not stable. Two quorums of 2f+c+1 of 3f+2c+1 replicas share
an honest one (`QuorumsIntersect`).

**Across views** (`Sbft_proofs`). The argument is in terms of what may
still be committed: `Possible(t, v, s, d)` says that the faulty replicas, those that
signed and those that have not left view v could together be a quorum for d, and
`SafeAt(w, s, d)` that nothing else is possible in a view before w. The invariant
`AInv` says that everything of view w is safe at w: the log (`LogIsSafe`), the
signatures (`SharesAreSafe`), the certificates and digests reported in
ViewChangeMsgs (`ElementsAreSafe`), the restrictions of a NewViewMsg
(`NewViewsAreSafe`); that a commit signature is reported in every later ViewChangeMsg,
as itself or as a later certificate (`VotesAreReported`); and that what is executed
is committed. The hard step is a NewViewMsg: a quorum of ViewChangeMsgs meets every
quorum that may have committed, on the slow path by the certificate of the highest
view, on the fast paths by at least f+c+1 equal reports.
`InScope == MaxSeq < CheckpointWindow /\ ~TimeServiceEnabled` is necessary: outside of
it `sbft_stable` and `sbft_time` violate `Agreement`. It cannot simply be widened to
the next checkpoint either: the shortened range at `ViewChangeSafetyLogic.cpp:234`
may leave a committed null batch near its upper end unrestricted.

**What is executed was proposed** (`Sbft_proofs`), with checkpoints and the
time service: a digest a new view takes over has a certificate or f+c+1 reports, so
an honest replica had it in its log.

**The ring** (`Buffers_proofs`). `Sizes` is what the static_asserts of
`SequenceWithActiveWindow.hpp:34-38` say. A number's cell is its distance to the
window's first number modulo the number of cells, in the history as in the window;
the lemmas about multiples, remainders and distances carry the rest: two numbers that
can be read never share a cell, and advancing empties exactly the cells whose numbers
drop out.

**The collector** (`SigCollector_proofs`). `CInv`: the counter is the number of usable
shares; what the collector holds is of the current view and was started by an
accepted PrePrepare (`CollectorFits`); there is at most one job per view, one of the
current view exactly when the collector waits for it, and its outcome is what the
collector would compute now (`JobsFit`). One job per collector and
soundness hold with any number of state transfers; the assertion about results only
as long as there was none (`BeforeTransfer`), which is finding 3.

**The execution thread** (`AsyncExecution_proofs`). Beside the properties, `EInv` has
the types of what waits, that a replica's stable point is not above its execution,
and `Announced`: `startedExecution` is set exactly while a batch is executed, so that the
end of the last one is always followed by the loop over what waited, and decisions
are worked off before messages.

**Pre-execution** (`Requests_proofs`). `PInv` ties each collected hash to a run of that
replica for that request (`EntryIsCollected`), replies in the network to such runs
(`RepliesAreTrue`), and the requests passed on to their order. No assumption on what
the application computes.

**The client table** (`Requests_proofs`, `TableSizes`: types of the bounds, a client batch
has at least one request). `TableInv`: a reply is in the page of its request's index
(`PagesAtIndex`), so that loading the pages one index after the other restores the table,
and a replica that is not the primary has no queue. That no request is executed twice is
about time: a reply is found only until a later request of the same index overwrites it.
`OnceInv` says that this is late enough. Requests executed, the log and then the queue are
in the order of their client batches (`LogInOrder`), since a client sends a batch when it
has all replies to the one before; the page of an index holds the latest request executed
of that index. So a request at the head of the log that was executed before is the one in
its page and has a reply. The loops over the requests of a message are recursive
functions; what they keep is proved by induction over sets of steps (`StepByStep`).
With copies that outlive the answers the log is in no order any more. Then `AgainInv` says
that a page holds an executed request of its index, and that a request which was executed
again is not the only one of its index that was.

**Batches of pre-execution** (`Requests_proofs`), at a replica that stays the primary. The
code keeps a counter of finished requests beside the slots. `SlotsInv`: what is occupied
belongs to the batch, a job runs only for a request marked as being executed
(`SlotsBelong`), and finished and occupied slots together are the size of the batch
(`EveryRequestCounts`), also half-way through the loop that registers a batch, where the
declined requests and the one being launched count instead. Peers and view changes are left to the runs: a batch
message that comes again after a part of it was cancelled has many more shapes.

**Crashes** (`Restart_proofs`). `RInv`: the storage satisfies the loader's conditions
(`StorageFits`), every message sent is backed by what is stored (`Backed`), memory and
storage agree on what a restart needs (`Mirrors`), also inside an open transaction,
and the state of a running execution fits (`Running`). `BInv` adds that the chain is
what the metadata know and a part of the next batch (`ChainFits`, `Progress`).
`InScope == ~SelfAdjusted /\ ~BadTimes /\ MaxTransfers = 0`: outside of it a proposal or
a new view is sent before it is stored, or a rejected time is forgotten (section 4).

**The key-value blockchain** (`Restart_proofs`, `ChainSizes`: at least one block, updates of
the three kinds of the model). `ReadInv` holds whatever was deleted: the versions of the
tree grow with the blocks that are left (`VersionsGrow`), a version is taken by a block
with leaves or by a pruning (`VersionsFit`), what is kept of a pruned block are the keys
that are active in it (`PrunedFits`), and the cached block fits the one it becomes
(`ParentsFit`). `ChainInv` is about the blocks as long as nothing was deleted that an
older pruning had seen: a block records the genesis block of its time, so that the last
block at each pruning can be told from the blocks (`GenesisRecorded`); both categories
follow from that (`KeysFollow`); and the trees before a block added since the last
pruning had the leaves of their blocks (`OldTrees`), which is why deleting the last block
returns to the right tree.

**State transfer** (`StateTransfer_proofs`), from `StateTransferAssumption`, for any
number of blocks, chunks and pages, any batch sizes and any set of at most F faulty
sources. `FetchedIsRight` alone is not inductive: what makes a stored block right is the
digest it was compared with. `IInv` adds to it the checks of the configuration (`ConfigChecks`), the types
(`Typed`), the counters of the source selector (`SelectorFits`), that a correct source
describes only checkpoints that exist, as they are, so that one of F+1 equal
descriptions is right (`CertsFit`), what the data store has below the first required
block (`StoreFits`), which is all that is left after a crash, and what is in memory in
each stage (`StageFits`): the blocks of a batch above the one expected next are in place
and the digest it is compared with is its own.

**Reserved pages** (`StateTransfer_proofs`). A page has one version per checkpoint that
wrote it. `LatestInv`: the versions pending and stored are of the intervals that
wrote them last, at the end of a cycle they are those of a checkpoint above what was
executed (`EndingFits`), and deleting old checkpoints keeps one version at or below the oldest
checkpoint that has a descriptor (`StoreIsKept`). `AgreeInv` says that every version is
of the interval that wrote it and that the answer in the cache is the one of its
checkpoint. It needs that there was no crash: pages written again after one are
counted to the next checkpoint (section 4).

**Putting and linking** (`StateTransfer_proofs`). `RequiredIsMissing` is about the data
store, which a crash leaves as it is; what makes it inductive is that a block handed to the
workers is in a chain or still in the pool (`NoneIsLost`), that a job reported as done has its
block there (`WrittenIsHere`), and that the range of the data store is the one in
memory at each stage (`RangeFits`). `SteadyInv` relates the announced last block, the queue
of the thread that links, and the batch, without crashes (`NothingEarly`, `QueueInOrder`),
and says that the thread links up to the last batch handed over to it (`BoundFits`).
With a crash, or with v4, TLC finds the process aborted (section 4).

**The source** (`StateTransfer_proofs`). `BatchAt`: the place of a batch, counted in chunks from
the top of the request, is what the request knew plus what was sent; `ContextsLine`:
the contexts in front are the blocks that remain, in their order, and only the one being
sent is taken. That holds through prefetching, which appends contexts of the next batch
behind, and through a change of the session.

**Leaving a view** (`ViewChange_proofs`), from `ViewChangeAssumption`. The replicas of this
module are correct or silent (`Down`); faulty ViewChangeMsgs are the subject of `Sbft`.
`IInv`: the complaints that a message or a table carries were made, and every view
before one that is asked for was complained about by F+1 replicas (`Left`); a view that
is pending or active rests on exactly the 2F+1 messages its NewViewMsg names
(`PendingFits`); and a view has one NewViewMsg (`OneNewView`), because it is sent only
when the primary enters the view and the view entered last never decreases, not even
across a restart. N >= 3F+1 is not needed.

**Live updates** (`Buffers_proofs`, `LiveSizes`), with blocks transferred at any time. `LInv`:
the queue holds blocks in a row, but for a step over a block that was skipped (`Chained`),
and ends at the block pushed last unless it overflowed (`QueueFits`); at every place of
the reader the next block to read, or the head of the queue, lies where what was sent
ends (`ReaderFits`). The places between the two parts are the hard ones: an empty queue
says something only because of what was pushed before the subscription.

**The client of the thin replicas** (`Buffers_proofs`, `ClientSizes`: at most F of 3F+1
servers are faulty, one subscription). `CInv`: in a round the stream of a correct server
is at the awaited update, or just after it if the server has a record in this round
(`HonestFits`), so that F+1 equal records are the awaited update and 2F+1 records
contain F+1 equal ones; as many different servers refused the update as were counted
(`Refusing`), so that one of F+1 is correct. With a second subscription the theorem is
false (section 4).

**Only model-checked.** Liveness under fairness and `ENABLED` are out of this
prover's reach, and so is `TreeIsCanonical`, whose module has recursive operators.
`HelpIsAvailable` is not inductive
beyond the instances of the run: after restarts a sender may have two different
ViewChangeMsgs of one view. The invariants of `EventGroups` have no proof. Outside the scopes above (`PreExecBatch` at peers and across views, among them),
only what the runs check is known.

## 6. Plan

1. `PreExecBatch`: `BatchesRelease` at peers and across views.
2. `EventGroups`: its invariants, and `HelpIsAvailable` with what a restart may repeat.
3. The v4 blockchain and the client libraries, of which there is no model yet.

## 7. Not modelled

The v4 blockchain beside its state transfer chain; retransmissions, incoming queues
and the transport (the models let messages be late, lost, repeated and reordered at
any time, which is all these do to the protocol); the choice of the first commit path
and of batch sizes (inputs); the clock arithmetic of the time service (its verdict is
an input); key exchange and key rotation; database checkpoints, wedging,
reconfiguration, cron; the client libraries; read-only replicas; the insides of the
sparse merkle tree. Cryptography (`threshsign`, `utt`, `secretsmanager`) is assumed
unforgeable. Storage, communication, tools, utilities, message encodings, the
compiler of messages, tests and examples are plumbing or I/O with no protocol of
their own. They are a large part of the repository, which is why the mapped lines
are a small share of all lines, although they hold most of the core:
`ReplicaImp.cpp`, `ViewsManager.cpp`, `BCStateTran.cpp`, `PreProcessor.cpp`,
`PersistentStorageImp.cpp` and the modules around them.
