--------------------------- MODULE PreExecBatch ---------------------------
(***************************************************************************)
(* The slots of one client in the PreProcessor of one replica: the batch   *)
(* (RequestsBatch) and its requests, used by three kinds of threads: the   *)
(* message loop, the pre-execution jobs, and the timer.  Each takes the    *)
(* lock of a request or of the batch for one step and no longer.           *)
(*                                                                         *)
(* What other replicas do is an input: a client batch, or a batch from the *)
(* primary, may arrive whenever the loop is idle.  Which requests are      *)
(* declined because they are in consensus or executed already is an input  *)
(* as well.  The primary never sends REQ_TYPE_CANCEL, so it does not occur.*)
(* The view may change between any two steps.                              *)
(***************************************************************************)
EXTENDS Naturals, Sequences, FiniteSets

CONSTANTS
  Size,         \* requests in a batch
  MaxBatches,   \* batches have the numbers 1..MaxBatches; 0 is no batch
  MaxMsgs,      \* bound on the messages that arrive
  MaxViews,     \* bound on changes of the primary
  Roles,        \* whether the replica starts as the primary
  MayDecline,   \* a request may be in consensus or executed already, and one of the
                \* primary may arrive when the view or the state is being changed
  QuickTimeouts \* a request may expire before the batch it came in is registered

Offsets == 0..Size - 1
Batches == 1..MaxBatches
Free == [cid |-> 0]
Idle == [kind |-> "idle"]

VARIABLES
  primary,    \* this replica is the primary
  batch,      \* batchCid_, batchSize_, batchRegistered_, batchInProcess_,
              \* numOfCompletedReqs_ and the offsets of repliesList_
  slot,       \* reqProcessingStatePtr of each offset, or Free
  loop,       \* the message that the message loop handles, or Idle
  jobs,       \* pre-execution jobs
  timer,      \* the offset behind the last request that this pass of the timer
              \* released, or 0
  msgs, views,
  abandoned   \* a request was released by the timer while its job was running

vars == <<primary, batch, slot, loop, jobs, timer, msgs, views, abandoned>>

(***************************************************************************)
(* RequestsBatch                                                           *)
(***************************************************************************)
NoBatch == [cid |-> 0, size |-> 0, registered |-> FALSE, inProcess |-> FALSE, done |-> 0, replies |-> <<>>]

\* registerBatch and startBatch leave a batch alone that is there already.
RegisterBatch(b, c) ==
  IF b.registered THEN b ELSE [b EXCEPT !.registered = TRUE, !.cid = c, !.size = Size]
StartBatch(b, c) ==
  IF b.inProcess THEN b
  ELSE [b EXCEPT !.registered = TRUE, !.inProcess = TRUE, !.cid = c, !.size = Size]

\* finalizeBatchIfCompleted
NeverFinalized(b, c) == b
Finalized(b, c) ==
  IF b.cid # 0 /\ b.cid = c /\ b.size # 0 /\ b.done >= b.size THEN NoBatch ELSE b

\* releaseClientPreProcessRequest: every request here belongs to a batch.
ReleaseFrom(b, o) == [b EXCEPT !.done = @ + IF slot[o] # Free THEN 1 ELSE 0]
Released(o) == [slot EXCEPT ![o] = Free]

Running(o) == \E j \in jobs : j.off = o /\ j.at = "run"

\* The request is one of the message that the loop handles.
Registering(o) == loop # Idle /\ slot[o].msg = msgs

(***************************************************************************)
(* The message loop, one request of a batch at a time: it is registered    *)
(* under its lock, and its job is launched afterwards                      *)
(***************************************************************************)
Message(kind, c) ==
  /\ loop = Idle
  /\ msgs < MaxMsgs
  /\ msgs' = msgs + 1
  /\ loop' = [kind |-> kind, cid |-> c, off |-> 0, skip |-> 0, launch |-> FALSE]
  /\ UNCHANGED <<primary, batch, slot, jobs, timer, views, abandoned>>

Handles(kind, launch) == loop.kind = kind /\ loop.off < Size /\ loop.launch = launch
NextRequest(skipped) ==
  loop' = [loop EXCEPT !.off = @ + 1, !.skip = @ + skipped, !.launch = FALSE]

NewJob == [off |-> loop.off, cid |-> loop.cid, msg |-> msgs, primary |-> loop.kind = "client",
           at |-> "run", todo |-> <<>>]

\* launchAsyncReqPreProcessingJob; the request may have been released by now.
SetNow(o, now) == [slot EXCEPT ![o] = IF @ = Free THEN @ ELSE [@ EXCEPT !.now = now]]
Launch ==
  /\ slot' = SetNow(loop.off, TRUE)
  /\ jobs' = jobs \cup {NewJob}
  /\ NextRequest(0)

\* onMessage<ClientBatchRequestMsg>: ignored while a batch is registered.
ClientBatch(c) == ~batch.registered /\ Message("client", c)

\* handleSingleClientRequestMessage declines the request.  Only the primary counts it.
ClientRequestDeclined ==
  /\ Handles("client", FALSE)
  /\ slot[loop.off] # Free \/ MayDecline
  /\ NextRequest(IF primary THEN 1 ELSE 0)
  /\ UNCHANGED <<primary, batch, slot, jobs, timer, msgs, views, abandoned>>

\* registerRequestOnPrimaryReplica, or registerAndHandleClientPreProcessReqOnNonPrimary.
ClientRequestRegistered ==
  /\ Handles("client", FALSE)
  /\ slot[loop.off] = Free
  /\ slot' = [slot EXCEPT ![loop.off] =
                [cid |-> loop.cid, msg |-> msgs, client |-> TRUE, req |-> primary, now |-> FALSE]]
  /\ IF primary
     THEN batch' = StartBatch(batch, loop.cid) /\ loop' = [loop EXCEPT !.launch = TRUE]
     ELSE batch' = RegisterBatch(batch, loop.cid) /\ NextRequest(0)
  /\ UNCHANGED <<primary, jobs, timer, msgs, views, abandoned>>

\* handleClientPreProcessRequestByPrimary, if the replica is still the primary.
ClientRequestLaunched ==
  /\ Handles("client", TRUE)
  /\ IF primary THEN Launch ELSE NextRequest(0) /\ UNCHANGED <<slot, jobs>>
  /\ UNCHANGED <<primary, batch, timer, msgs, views, abandoned>>

\* The primary counts the declined requests as completed.
ClientBatchEnds ==
  /\ loop.kind = "client" /\ loop.off = Size
  /\ batch' = IF primary /\ loop.skip < Size THEN [batch EXCEPT !.done = @ + loop.skip] ELSE batch
  /\ loop' = Idle
  /\ UNCHANGED <<primary, slot, jobs, timer, msgs, views, abandoned>>

\* onMessage<PreProcessBatchRequestMsg>: ignored while a batch is in process.
PrimaryBatch(c) == ~primary /\ ~batch.inProcess /\ Message("primary", c)

\* handleSinglePreProcessRequestMsg: the prerequisites do not hold any more, or the slot
\* executes another request; reject.
PreProcessRequestRejected ==
  /\ Handles("primary", FALSE)
  /\ primary \/ MayDecline \/ (slot[loop.off] # Free /\ slot[loop.off].req)
  /\ NextRequest(1)
  /\ UNCHANGED <<primary, batch, slot, jobs, timer, msgs, views, abandoned>>

\* Otherwise the request is registered, or set on the client's request.
PreProcessRequestRegistered ==
  /\ Handles("primary", FALSE)
  /\ ~primary
  /\ slot[loop.off] # Free => ~slot[loop.off].req
  /\ slot' = [slot EXCEPT ![loop.off] =
                IF @ = Free
                THEN [cid |-> loop.cid, msg |-> msgs, client |-> FALSE, req |-> TRUE, now |-> FALSE]
                ELSE [@ EXCEPT !.req = TRUE]]
  /\ batch' = StartBatch(batch, loop.cid)
  /\ loop' = [loop EXCEPT !.launch = TRUE]
  /\ UNCHANGED <<primary, jobs, timer, msgs, views, abandoned>>

PreProcessRequestLaunched ==
  /\ Handles("primary", TRUE)
  /\ Launch
  /\ UNCHANGED <<primary, batch, timer, msgs, views, abandoned>>

PrimaryBatchEnds ==
  /\ loop.kind = "primary" /\ loop.off = Size
  /\ batch' = IF loop.skip < Size THEN [batch EXCEPT !.done = @ + loop.skip] ELSE batch
  /\ loop' = Idle
  /\ UNCHANGED <<primary, slot, jobs, timer, msgs, views, abandoned>>

(***************************************************************************)
(* Jobs                                                                    *)
(***************************************************************************)
\* finalizePreProcessing; who comes between the release and the check of the batch
\* finds the batch complete and resets it instead.
Complete(o, c) ==
  /\ slot' = Released(o)
  /\ batch' = Finalized(ReleaseFrom(batch, o), c)

\* cancelRequestAndBatchIfCompleted
CancelRequest(o, c) ==
  IF batch.cid # c THEN UNCHANGED <<slot, batch>> ELSE Complete(o, c)

\* handleReqPreProcessedByPrimary: the answers of the others decide at once or later.
\* There are none while the loop handles the client's batch: it sends the batch on at
\* the end, and takes the answers itself.
PrimaryJobEnds(j) ==
  /\ j.primary /\ j.at = "run"
  /\ jobs' = jobs \ {j}
  /\ \/ slot[j.off] = Free /\ UNCHANGED <<slot, batch>>
     \/ slot[j.off] # Free /\ slot' = SetNow(j.off, FALSE) /\ UNCHANGED batch
     \/ /\ slot[j.off] # Free /\ ~Registering(j.off)
        /\ Complete(j.off, j.cid) \/ CancelRequest(j.off, j.cid)
  /\ UNCHANGED <<primary, loop, timer, msgs, views, abandoned>>

\* handleSinglePreProcessReplyMsg of a batch that is in process.
ReplyDecides(o) ==
  /\ loop = Idle
  /\ primary /\ batch.inProcess
  /\ slot[o] # Free /\ slot[o].req /\ ~slot[o].now
  /\ Complete(o, batch.cid) \/ CancelRequest(o, batch.cid)
  /\ UNCHANGED <<primary, loop, jobs, timer, msgs, views, abandoned>>

MoveJob(j, at, todo) == jobs' = (jobs \ {j}) \cup {[j EXCEPT !.at = at, !.todo = todo]}

\* handleReqPreProcessedByNonPrimary: in a batch the answers are collected, otherwise the
\* job releases its request.
PeerJobEnds(j) ==
  /\ ~j.primary /\ j.at = "run"
  /\ IF batch.inProcess THEN MoveJob(j, "collect", <<>>) ELSE MoveJob(j, "single", <<j.off>>)
  /\ UNCHANGED <<primary, batch, slot, loop, timer, msgs, views, abandoned>>

\* releaseReqsAndSendBatchedReplyIfCompleted: the batch may be gone by now; the job that
\* brings the last answer releases the requests, the latest answer first.
PeerJobCollects(j) ==
  LET replies == Append(batch.replies, j.off)
      n == Len(replies)
  IN /\ j.at = "collect"
     /\ IF ~batch.inProcess
        THEN MoveJob(j, "clear", <<>>) /\ UNCHANGED batch
        ELSE /\ batch' = [batch EXCEPT !.replies = replies]
             /\ IF n < batch.size THEN MoveJob(j, "clear", <<>>)
                ELSE MoveJob(j, "release", [i \in 1..n |-> replies[n + 1 - i]])
     /\ UNCHANGED <<primary, slot, loop, timer, msgs, views, abandoned>>

\* One request at a time, whatever request has the slot by now.
PeerJobReleases(j) ==
  /\ j.at \in {"single", "release"} /\ j.todo # <<>>
  /\ slot' = Released(Head(j.todo))
  /\ batch' = ReleaseFrom(batch, Head(j.todo))
  /\ MoveJob(j, j.at, Tail(j.todo))
  /\ UNCHANGED <<primary, loop, timer, msgs, views, abandoned>>

\* Then it resets the batch, and sends the reply.
PeerJobResets(j) ==
  /\ j.at = "release" /\ j.todo = <<>>
  /\ batch' = NoBatch
  /\ MoveJob(j, "clear", <<>>)
  /\ UNCHANGED <<primary, slot, loop, timer, msgs, views, abandoned>>

\* setPreprocessingRightNow(false), for whatever request has the slot by now.
PeerJobClears(j) ==
  /\ j.at = "clear" \/ (j.at = "single" /\ j.todo = <<>>)
  /\ slot' = SetNow(j.off, FALSE)
  /\ jobs' = jobs \ {j}
  /\ UNCHANGED <<primary, batch, loop, timer, msgs, views, abandoned>>

(***************************************************************************)
(* Timer                                                                   *)
(***************************************************************************)
\* isReqTimedOut.  A timeout is far longer than registering a batch takes, unless the
\* loop is held up: QuickTimeouts.
MayExpire(o) ==
  /\ slot[o] # Free /\ slot[o].client /\ ~slot[o].now
  /\ Registering(o) => QuickTimeouts

\* handlePossiblyExpiredRequest, for the requests in the order of their offsets.
TimerExpires(o) ==
  /\ o >= timer
  /\ MayExpire(o)
  /\ slot' = Released(o)
  /\ batch' = ReleaseFrom(batch, o)
  /\ timer' = o + 1
  /\ abandoned' = (abandoned \/ Running(o))
  /\ UNCHANGED <<primary, loop, jobs, msgs, views>>

\* handlePossiblyExpiredRequests: after a pass that released a request the batch, whichever
\* it is by now, is reset if it is complete.
TimerEnds ==
  /\ timer # 0
  /\ timer' = 0
  /\ batch' = IF batch.size # 0 /\ batch.done >= batch.size THEN NoBatch ELSE batch
  /\ UNCHANGED <<primary, slot, loop, jobs, msgs, views, abandoned>>

ViewChange ==
  /\ views < MaxViews
  /\ views' = views + 1
  /\ primary' = ~primary
  /\ UNCHANGED <<batch, slot, loop, jobs, timer, msgs, abandoned>>

Init ==
  /\ primary \in Roles
  /\ batch = NoBatch
  /\ slot = [o \in Offsets |-> Free]
  /\ loop = Idle
  /\ jobs = {}
  /\ timer = 0
  /\ msgs = 0
  /\ views = 0
  /\ abandoned = FALSE

Next ==
  \/ \E c \in Batches : ClientBatch(c) \/ PrimaryBatch(c)
  \/ ClientRequestDeclined \/ ClientRequestRegistered \/ ClientRequestLaunched \/ ClientBatchEnds
  \/ PreProcessRequestRejected \/ PreProcessRequestRegistered \/ PreProcessRequestLaunched
  \/ PrimaryBatchEnds
  \/ \E j \in jobs : \/ PrimaryJobEnds(j) \/ PeerJobEnds(j) \/ PeerJobCollects(j)
                     \/ PeerJobReleases(j) \/ PeerJobResets(j) \/ PeerJobClears(j)
  \/ \E o \in Offsets : ReplyDecides(o) \/ TimerExpires(o)
  \/ TimerEnds \/ ViewChange

Spec == Init /\ [][Next]_vars

(***************************************************************************)
(* Properties                                                              *)
(***************************************************************************)
TypeOK ==
  /\ primary \in BOOLEAN
  /\ batch.cid \in 0..MaxBatches /\ batch.size \in {0, Size} /\ batch.replies \in Seq(Offsets)
  /\ batch.inProcess => batch.registered
  /\ loop # Idle => loop.off \in 0..Size /\ loop.skip <= loop.off
  /\ \A j \in jobs : j.off \in Offsets /\ j.todo \in Seq(Offsets)
  /\ timer \in 0..Size

\* No batch stays behind when all its requests are gone: as long as one is
\* registered, every further batch of the client is ignored.
NoBatchLeftBehind ==
  (loop = Idle /\ timer = 0 /\ jobs = {} /\ \A o \in Offsets : slot[o] = Free) => ~batch.registered

\* A request is not given up by the timer while it is being pre-executed.
NotExpiredWhileRunning == ~abandoned
=============================================================================
