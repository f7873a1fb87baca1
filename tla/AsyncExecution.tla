--------------------------- MODULE AsyncExecution ---------------------------
(***************************************************************************)
(* Execution of committed batches in the post-execution thread of a        *)
(* replica.  The message loop goes on meanwhile, but what would leave the  *)
(* view, move the window or start a state transfer has to wait: messages   *)
(* are deferred up to a limit, decisions are kept as flags, and both are   *)
(* worked off when no further batch can be executed.  Messages that are    *)
(* worked off are validated again, by another thread, and may find the     *)
(* next execution running when they come back.                             *)
(*                                                                         *)
(* The loop that works off deferred messages takes one step per message;   *)
(* pc tells where the message loop is.                                     *)
(***************************************************************************)
EXTENDS Naturals, Sequences, FiniteSets, SequencesExt

CONSTANTS
  W,          \* kWorkWindowSize
  C,          \* checkpointWindowSize
  Lag,        \* MaxConcurrentFastPaths
  QueueSize,  \* postExecutionQueuesSize
  Async,      \* prePrepareFinalizeAsyncEnabled
  Kinds,      \* kinds of messages that arrive
  MaxSeq,     \* bound on sequence numbers
  MaxView,    \* bound on views
  MaxMsgs     \* bound on messages that arrive

VARIABLES
  rep,        \* the replica: view, window, execution, state transfer (see Init)
  active,     \* activeExecutions_ > 0
  started,    \* startedExecution
  done,       \* the job has pushed FinishPrePrepareExecutionInternalMsg
  deferred,   \* deferredMessages_
  reads,      \* Len(deferredRORequests_)
  flags,      \* shouldTryToGoToNextView_, shouldGoToNextView_, isSendCheckpointIfNeeded_
  checking,   \* messages that are validated by the thread pool
  pc,         \* "loop", or the phase of handleDeferredRequests
  arrived,    \* number of messages that arrived
  dirty,      \* history: a read-only request ran during an execution or a transfer
  dropped     \* history: a message was dropped because the queue was full

vars == <<rep, active, started, done, deferred, reads, flags, checking, pc, arrived, dirty, dropped>>

Numbers == 1..MaxSeq
Checkpoints == {n \in Numbers : n % C = 0}

Messages ==
  [kind : {"checkpoint"} \cap Kinds, n : Checkpoints, late : BOOLEAN]
    \cup [kind : {"leave", "viewchange", "newview"} \cap Kinds, n : 0..MaxView]
    \cup [kind : {"transfer"} \cap Kinds, n : Checkpoints]
    \cup [kind : {"read"} \cap Kinds]

\* Messages with shouldValidateAsync().
ValidatedAsync(m) == Async /\ m.kind \in {"checkpoint", "leave", "viewchange"}

Init ==
  /\ rep = [view |-> 0, on |-> TRUE, foundation |-> FALSE, exec |-> 0, stable |-> 0,
            committed |-> {}, certified |-> {}, collecting |-> FALSE]
  /\ active = FALSE /\ started = FALSE /\ done = FALSE
  /\ deferred = <<>> /\ reads = 0
  /\ flags = {}
  /\ checking = {}
  /\ pc = "loop"
  /\ arrived = 0
  /\ dirty = FALSE /\ dropped = FALSE

(***************************************************************************)
(* What the handlers do to the replica when nothing is executed            *)
(***************************************************************************)
\* tryToEnterView: the NewViewMsg and the ViewChangeMsgs it names are there.
Enter(r) == [r EXCEPT !.on = r.foundation, !.committed = {}]
TryToEnter(r) == IF r.on THEN r ELSE Enter(r)

\* MoveToHigherView: the slots of the window are handed over.
Move(r, v) ==
  IF v > r.view /\ v <= MaxView
  THEN [r EXCEPT !.view = v, !.on = FALSE, !.foundation = FALSE, !.committed = {}]
  ELSE r

\* onSeqNumIsStable
MakeStable(r, n) ==
  IF n <= r.stable THEN r
  ELSE TryToEnter([r EXCEPT !.stable = n, !.committed = {x \in @ : x > n}])

\* tryToMarkCheckpointStableForFastPath: `fast` says whether the last executed
\* number was committed on the fast path.
LastCheckpoint(r) == (r.exec \div C) * C
FastStable(r, fast) ==
  IF ~r.collecting /\ r.on /\ fast /\ LastCheckpoint(r) # 0 /\ r.exec >= LastCheckpoint(r) + Lag
  THEN MakeStable(r, LastCheckpoint(r)) ELSE r

\* A CheckpointMsg that completes the certificate of n, as soon as the replica has
\* executed n; `late` if it makes f+1 stable checkpoints above the last execution.
OnCheckpoint(r, m) ==
  LET certified == [r EXCEPT !.certified = @ \cup {m.n}]
  IN IF m.n \in (r.stable + 1)..(r.stable + W) /\ m.n <= r.exec THEN MakeStable(certified, m.n)
     ELSE IF m.late /\ m.n > r.exec THEN [certified EXCEPT !.collecting = TRUE]
     ELSE certified

\* A complaint that makes f+1, a ViewChangeMsg of f+1 replicas or the primary for
\* view n, and the NewViewMsg of view n.
OnLeave(r, m) == IF m.n = r.view THEN Move(r, r.view + 1) ELSE r
OnViewChange(r, m) == Move(r, m.n)
OnNewView(r, m) == IF m.n = r.view /\ ~r.on THEN Enter([r EXCEPT !.foundation = TRUE]) ELSE r

\* The message that completes a state transfer at checkpoint n.
OnTransfer(r, m) ==
  LET moved == [r EXCEPT !.exec = m.n, !.collecting = FALSE]
      base == IF m.n > r.stable + W THEN MakeStable(moved, m.n - W) ELSE moved
  IN IF r.collecting /\ m.n > r.exec THEN TryToEnter(base)
     ELSE IF r.collecting THEN [r EXCEPT !.collecting = FALSE] ELSE r

Handled(r, m) ==
  CASE m.kind = "checkpoint" -> OnCheckpoint(r, m)
    [] m.kind = "leave" -> OnLeave(r, m)
    [] m.kind = "viewchange" -> OnViewChange(r, m)
    [] m.kind = "newview" -> OnNewView(r, m)
    [] m.kind = "transfer" -> OnTransfer(r, m)
    [] m.kind = "read" -> r

(***************************************************************************)
(* The message loop                                                        *)
(***************************************************************************)
\* tryToStartOrFinishExecution, with the replica and the queue as they are then.
CanExecute(r) == r.exec < r.stable + W /\ r.exec + 1 \in r.committed

(* mutant: nothing is worked off when the window is full *)
FinishesUnlessFull(r) == started /\ r.exec < r.stable + W

\* When nothing can be executed, onExecutionFinish follows an execution.
Finishes(r) == started

StartOrFinish(r) ==
  IF CanExecute(r)
  THEN active' = TRUE /\ started' = TRUE /\ UNCHANGED pc
  ELSE /\ active' = FALSE
       /\ started' = (started /\ ~Finishes(r))
       /\ pc' = IF Finishes(r) THEN "flags" ELSE pc

\* A batch of the window is committed (CommitFullMsg, FullCommitProofMsg).
Commit(n) ==
  /\ pc = "loop"
  /\ ~rep.collecting /\ rep.on
  /\ n \in (rep.stable + 1)..(rep.stable + W) /\ n \notin rep.committed
  /\ rep' = [rep EXCEPT !.committed = @ \cup {n}]
  /\ IF active THEN UNCHANGED <<active, started, pc>> ELSE StartOrFinish(rep')
  /\ UNCHANGED <<done, deferred, reads, flags, checking, arrived, dirty, dropped>>

\* The job of the post-execution thread ends.
JobEnds ==
  /\ active /\ ~done
  /\ done' = TRUE
  /\ UNCHANGED <<rep, active, started, deferred, reads, flags, checking, pc, arrived, dirty, dropped>>

\* finishExecutePrePrepareMsg, with tryToMarkSeqNumAsStable and sendCheckpointIfNeeded.
Executed(r, fast) ==
  LET one == [r EXCEPT !.exec = @ + 1]
      own == IF one.exec \in Checkpoints /\ one.exec \in one.certified
             THEN MakeStable(one, one.exec) ELSE one
  IN FastStable(own, fast)

FinishExecution(fast) ==
  /\ pc = "loop" /\ active /\ done
  /\ done' = FALSE
  /\ rep' = Executed(rep, fast)
  /\ StartOrFinish(rep')
  /\ UNCHANGED <<deferred, reads, flags, checking, arrived, dirty, dropped>>

(* mutant: CheckpointMsgs are handled during an execution *)
MustWaitButCheckpoints(m) == active /\ m.kind # "checkpoint"

MustWait(m) == active

\* onMessage<T>, for the kinds that wait while a batch is executed.
OnMessage(m) ==
  IF MustWait(m)
  THEN /\ IF m.kind = "read"
          THEN /\ reads' = IF reads < QueueSize THEN reads + 1 ELSE reads
               /\ UNCHANGED deferred
          ELSE /\ deferred' = IF Len(deferred) < QueueSize THEN Append(deferred, m) ELSE deferred
               /\ UNCHANGED reads
       /\ dropped' = (dropped \/ (m.kind # "read" /\ Len(deferred) >= QueueSize))
       /\ UNCHANGED <<rep, dirty>>
  ELSE /\ rep' = Handled(rep, m)
       /\ dirty' = (dirty \/ (m.kind = "read" /\ (active \/ rep.collecting)))
       /\ UNCHANGED <<deferred, reads, dropped>>

\* messageHandler<T>
Arrive(m) ==
  /\ pc = "loop"
  /\ arrived < MaxMsgs
  /\ arrived' = arrived + 1
  /\ IF rep.collecting /\ m.kind # "transfer"
     THEN UNCHANGED <<rep, deferred, reads, checking, dirty, dropped>>
     ELSE IF ValidatedAsync(m)
     THEN checking' = checking \cup {m} /\ UNCHANGED <<rep, deferred, reads, dirty, dropped>>
     ELSE OnMessage(m) /\ UNCHANGED checking
  /\ UNCHANGED <<active, started, done, flags, pc>>

\* validatedMessageHandler<T>
Validated(m) ==
  /\ pc = "loop"
  /\ m \in checking
  /\ checking' = checking \ {m}
  /\ IF rep.collecting THEN UNCHANGED <<rep, deferred, reads, dirty, dropped>> ELSE OnMessage(m)
  /\ UNCHANGED <<active, started, done, flags, pc, arrived>>

\* Decisions of timers: this replica's complaint makes f+1 ("try"), or the primary
\* is rotated ("go"); and sendCheckpointIfNeeded ("checkpoint").
Decide(d, fast) ==
  CASE d \in {"try", "go"} -> Move(rep, rep.view + 1)
    [] d = "checkpoint" -> FastStable(rep, fast)

TimerDecides(d, fast) ==
  /\ pc = "loop"
  /\ ~rep.collecting
  /\ d = "go" => rep.on
  /\ d = "checkpoint" => rep.on
  /\ d # "checkpoint" => rep.view < MaxView
  /\ IF active
     THEN flags' = flags \cup {d} /\ UNCHANGED rep
     ELSE rep' = Decide(d, fast) /\ UNCHANGED flags
  /\ UNCHANGED <<active, started, done, deferred, reads, checking, pc, arrived, dirty, dropped>>

(***************************************************************************)
(* handleDeferredRequests                                                  *)
(***************************************************************************)
HandleFlags(fast) ==
  LET sent == IF "checkpoint" \in flags THEN FastStable(rep, fast) ELSE rep
  IN /\ pc = "flags"
     /\ rep' = IF flags \cap {"try", "go"} # {} THEN Move(sent, sent.view + 1) ELSE sent
     /\ flags' = {}
     /\ pc' = "messages"
     /\ UNCHANGED <<active, started, done, deferred, reads, checking, arrived, dirty, dropped>>

\* One round of the loop over deferredMessages_: messageHandler<T> again.
HandleDeferred ==
  /\ pc = "messages"
  /\ deferred # <<>>
  /\ LET m == Head(deferred) IN
     IF rep.collecting /\ m.kind # "transfer"
     THEN deferred' = Tail(deferred) /\ UNCHANGED <<rep, checking>>
     ELSE IF ValidatedAsync(m)
     THEN deferred' = Tail(deferred) /\ checking' = checking \cup {m} /\ UNCHANGED rep
     ELSE IF MustWait(m)
     THEN deferred' = Append(Tail(deferred), m) /\ UNCHANGED <<rep, checking>>
     ELSE deferred' = Tail(deferred) /\ rep' = Handled(rep, m) /\ UNCHANGED checking
  /\ UNCHANGED <<active, started, done, reads, flags, pc, arrived, dirty, dropped>>

\* The loop over deferredRORequests_, and the end.
HandleReads ==
  /\ pc = "messages"
  /\ deferred = <<>>
  /\ dirty' = (dirty \/ (reads > 0 /\ active))
  /\ reads' = 0
  /\ pc' = "loop"
  /\ UNCHANGED <<rep, active, started, done, deferred, flags, checking, arrived, dropped>>

Next ==
  \/ \E n \in Numbers : Commit(n)
  \/ JobEnds
  \/ \E fast \in BOOLEAN : FinishExecution(fast) \/ HandleFlags(fast)
  \/ \E m \in Messages : Arrive(m) \/ Validated(m)
  \/ \E d \in {"try", "go", "checkpoint"}, fast \in BOOLEAN : TimerDecides(d, fast)
  \/ HandleDeferred \/ HandleReads

Spec == Init /\ [][Next]_vars

\* The message loop and the thread that executes go on; validations end and their
\* results are taken, in some order.
Continue ==
  \/ JobEnds
  \/ \E fast \in BOOLEAN : FinishExecution(fast) \/ HandleFlags(fast)
  \/ HandleDeferred \/ HandleReads
AnyValidated == \E m \in checking : Validated(m)

Fairness == WF_vars(Continue) /\ SF_vars(AnyValidated)

FairSpec == Spec /\ Fairness
----------------------------------------------------------------------------
(***************************************************************************)
(* Properties                                                              *)
(***************************************************************************)
TypeOK ==
  /\ rep.view \in 0..MaxView /\ rep.exec \in 0..MaxSeq /\ rep.stable \in 0..rep.exec
  /\ Len(deferred) <= QueueSize /\ reads <= QueueSize
  /\ flags \subseteq {"try", "go", "checkpoint"}
  /\ pc \in {"loop", "flags", "messages"}

\* The assertions of the execution: a batch is executed in an active view, outside
\* of a state transfer, and its PrePrepare stays in the window; deferred work is
\* only done while nothing is executed.
AssertionsHold ==
  /\ active => started /\ rep.on /\ ~rep.collecting /\ rep.exec + 1 \in rep.committed
  /\ done => active
  /\ pc # "loop" => ~active

\* Nothing that is executed is taken away from under the job: while a batch is
\* executed the view, the stable point and the state stay as they are.
Undisturbs ==
  active /\ ~done /\ active' =>
    /\ rep'.view = rep.view /\ rep'.on = rep.on /\ rep'.stable = rep.stable
    /\ rep'.exec = rep.exec /\ rep'.collecting = rep.collecting
Undisturbed == [][Undisturbs]_vars

\* No decision and no message is left behind: between executions the queues are
\* empty and no flag is set.
NothingLeftBehind == pc = "loop" /\ ~active => deferred = <<>> /\ reads = 0 /\ flags = {}

\* A read-only request sees no batch half executed and no state half transferred.
ReadsAreClean == ~dirty

\* All of that together.
ExecutionIsSafe == TypeOK /\ AssertionsHold /\ NothingLeftBehind /\ ReadsAreClean

\* Although deferred messages may be deferred again and again under load, the
\* window ends this: a checkpoint certificate that arrived makes the checkpoint
\* stable once it is executed, unless the queue was full, the replica left for a
\* state transfer, or it waits for what it lacks.
HasCheckpoint(n) == \E m \in checking \cup ToSet(deferred) : m.kind = "checkpoint" /\ m.n = n
GotThrough(n) == rep.stable >= n \/ n \in rep.certified \/ rep.collecting \/ dropped
CheckpointsGetThrough == \A n \in Checkpoints : HasCheckpoint(n) ~> GotThrough(n)
=============================================================================
