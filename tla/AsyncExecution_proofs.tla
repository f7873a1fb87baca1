------------------------ MODULE AsyncExecution_proofs -----------------------
(***************************************************************************)
(* Proofs about AsyncExecution: while the post-execution thread runs,      *)
(* nothing is taken away from under it, and what had to wait is worked off *)
(* afterwards.  For every size of the window, of the checkpoint window and *)
(* of the queues, every kind of messages, validated by the message loop or *)
(* by other threads.                                                       *)
(***************************************************************************)
EXTENDS AsyncExecution, TLAPS

(* What the sizes and the bounds range over *)
Setup ==
    /\ W \in Nat /\ C \in Nat \ {0} /\ Lag \in Nat /\ QueueSize \in Nat /\ Async \in BOOLEAN
    /\ MaxSeq \in Nat /\ MaxView \in Nat /\ MaxMsgs \in Nat

-----------------------------------------------------------------------------
(* The parts of the inductive invariant *)

(* A replica between two steps of its message loop *)
Replica ==
    {r \in [view : 0 .. MaxView, on : BOOLEAN, foundation : BOOLEAN, exec : 0 .. MaxSeq,
            stable : 0 .. MaxSeq, committed : SUBSET Numbers, certified : SUBSET Checkpoints,
            collecting : BOOLEAN] :
        r.stable <= r.exec}

Types ==
    /\ rep \in Replica
    /\ active \in BOOLEAN /\ started \in BOOLEAN /\ done \in BOOLEAN
    /\ deferred \in Seq(Messages) /\ Len(deferred) <= QueueSize
    /\ reads \in Nat /\ reads <= QueueSize
    /\ flags \subseteq {"try", "go", "checkpoint"}
    /\ checking \subseteq Messages
    /\ pc \in {"loop", "flags", "messages"}
    /\ dirty \in BOOLEAN

(* An execution is announced as long as it runs, and decisions are worked  *)
(* off before messages.                                                    *)
Announced ==
    /\ started = active
    /\ pc = "messages" => flags = {}

EInv == Types /\ AssertionsHold /\ NothingLeftBehind /\ ReadsAreClean /\ Announced

-----------------------------------------------------------------------------
(* What the handlers make of a replica *)

(* The last checkpoint is not above the last execution. *)
LEMMA RoundDown ==
    ASSUME NEW n \in Nat, NEW c \in Nat \ {0}
    PROVE  (n \div c) * c \in Nat /\ (n \div c) * c <= n
<1>1. n \div c \in Nat /\ n % c \in Nat
  BY SMTT(30)
<1>2. n = c * (n \div c) + (n % c)
  BY SMTT(30)
<1>3. \A q \in Nat : c * q \in Nat /\ c * q = q * c
  BY SMTT(30)
<1> QED BY <1>1, <1>2, <1>3

(* A step that leaves the view or enters one keeps a replica a replica. *)
LEMMA EnterIsReplica ==
    ASSUME Setup, NEW r \in Replica
    PROVE  /\ Enter(r) \in Replica /\ Enter(r).collecting = r.collecting
           /\ TryToEnter(r) \in Replica /\ TryToEnter(r).collecting = r.collecting
           /\ r.on => TryToEnter(r) = r
BY DEF Enter, TryToEnter, Replica

(* MoveToHigherView keeps a replica a replica. *)
LEMMA MoveIsReplica ==
    ASSUME Setup, NEW r \in Replica, NEW v \in Nat
    PROVE  Move(r, v) \in Replica
<1>1. CASE v > r.view /\ v <= MaxView
  <2>1. v \in 0 .. MaxView
    BY <1>1 DEF Setup
  <2>2. [r EXCEPT !.view = v, !.on = FALSE, !.foundation = FALSE, !.committed = {}] \in Replica
    BY <2>1 DEF Replica
  <2> QED BY <1>1, <2>2 DEF Move
<1>2. CASE ~(v > r.view /\ v <= MaxView)
  BY <1>2 DEF Move
<1> QED BY <1>1, <1>2

(* A checkpoint that was executed becomes stable; in an active view the    *)
(* replica stays there, and slots above it stay.                           *)
LEMMA MakeStableIsReplica ==
    ASSUME Setup, NEW r \in Replica, NEW n \in Nat, n <= r.exec
    PROVE  /\ MakeStable(r, n) \in Replica /\ MakeStable(r, n).collecting = r.collecting
           /\ r.on => MakeStable(r, n).on
<1> DEFINE s == [r EXCEPT !.stable = n, !.committed = {x \in @ : x > n}]
<1>1. s \in Replica /\ s.on = r.on /\ s.collecting = r.collecting
  <2>1. n \in 0 .. MaxSeq /\ {x \in r.committed : x > n} \in SUBSET Numbers
    BY DEF Replica, Setup
  <2> QED BY <2>1 DEF Replica
<1> HIDE DEF s
<1>2. MakeStable(r, n) = IF n <= r.stable THEN r ELSE TryToEnter(s)
  BY DEF MakeStable, s
<1> QED BY <1>1, <1>2, EnterIsReplica

(* So does the checkpoint of the fast path; an active view stays active. *)
LEMMA FastStableIsReplica ==
    ASSUME Setup, NEW r \in Replica, NEW fast \in BOOLEAN
    PROVE  /\ FastStable(r, fast) \in Replica /\ FastStable(r, fast).collecting = r.collecting
           /\ r.on => FastStable(r, fast).on
<1>1. LastCheckpoint(r) \in Nat /\ LastCheckpoint(r) <= r.exec
  BY RoundDown DEF LastCheckpoint, Replica, Setup
<1>2. FastStable(r, fast) \in {r, MakeStable(r, LastCheckpoint(r))}
  BY DEF FastStable
<1> QED BY <1>1, <1>2, MakeStableIsReplica

(* Executing the next batch *)
LEMMA ExecutedIsReplica ==
    ASSUME Setup, NEW r \in Replica, r.exec + 1 \in r.committed, NEW fast \in BOOLEAN
    PROVE  /\ Executed(r, fast) \in Replica /\ Executed(r, fast).collecting = r.collecting
           /\ r.on => Executed(r, fast).on
<1> DEFINE one == [r EXCEPT !.exec = @ + 1]
           own == IF one.exec \in Checkpoints /\ one.exec \in one.certified
                  THEN MakeStable(one, one.exec) ELSE one
<1>1. one \in Replica /\ one.on = r.on /\ one.collecting = r.collecting /\ one.exec \in Nat
  <2>1. r.exec + 1 \in 0 .. MaxSeq /\ r.stable <= r.exec + 1
    BY DEF Replica, Numbers, Setup
  <2> QED BY <2>1 DEF Replica
<1>2. Executed(r, fast) = FastStable(own, fast)
  BY DEF Executed
<1> HIDE DEF one
<1>3. own \in Replica /\ own.collecting = one.collecting /\ (one.on => own.on)
  <2>1. one.exec <= one.exec
    BY <1>1
  <2> QED BY <1>1, <2>1, MakeStableIsReplica
<1> HIDE DEF own
<1> QED BY <1>1, <1>2, <1>3, FastStableIsReplica

(* Every handler keeps a replica a replica. *)
LEMMA HandledIsReplica ==
    ASSUME Setup, NEW r \in Replica, NEW m \in Messages
    PROVE  Handled(r, m) \in Replica
<1>1. CASE m.kind = "checkpoint"
  <2>1. m.n \in Checkpoints /\ m.n \in Nat
    BY <1>1 DEF Messages, Checkpoints, Numbers
  <2> DEFINE c == [r EXCEPT !.certified = @ \cup {m.n}]
  <2>2. c \in Replica /\ c.exec = r.exec
    BY <2>1 DEF Replica
  <2>3. [c EXCEPT !.collecting = TRUE] \in Replica
    BY <2>2 DEF Replica
  <2>4. m.n <= r.exec => MakeStable(c, m.n) \in Replica
    <3> HIDE DEF c
    <3> QED BY <2>1, <2>2, MakeStableIsReplica
  <2>5. OnCheckpoint(r, m) \in Replica
    BY <2>2, <2>3, <2>4 DEF OnCheckpoint
  <2> QED BY <1>1, <2>5 DEF Handled
<1>2. CASE m.kind = "leave"
  <2>1. OnLeave(r, m) \in Replica
    <3>1. r.view + 1 \in Nat
      BY DEF Replica
    <3> QED BY <3>1, MoveIsReplica DEF OnLeave
  <2> QED BY <1>2, <2>1 DEF Handled
<1>3. CASE m.kind = "viewchange"
  <2>1. m.n \in Nat
    BY <1>3 DEF Messages
  <2> QED BY <1>3, <2>1, MoveIsReplica DEF Handled, OnViewChange
<1>4. CASE m.kind = "newview"
  <2> DEFINE f == [r EXCEPT !.foundation = TRUE]
  <2>1. f \in Replica
    BY DEF Replica
  <2>2. Enter(f) \in Replica
    <3> HIDE DEF f
    <3> QED BY <2>1, EnterIsReplica
  <2>3. OnNewView(r, m) \in Replica
    BY <2>2 DEF OnNewView
  <2> QED BY <1>4, <2>3 DEF Handled
<1>5. CASE m.kind = "transfer"
  <2>1. m.n \in Checkpoints /\ m.n \in Nat /\ m.n \in 0 .. MaxSeq
    BY <1>5 DEF Messages, Checkpoints, Numbers, Setup
  <2> DEFINE moved == [r EXCEPT !.exec = m.n, !.collecting = FALSE]
             base == IF m.n > r.stable + W THEN MakeStable(moved, m.n - W) ELSE moved
  <2>2. OnTransfer(r, m) = IF r.collecting /\ m.n > r.exec THEN TryToEnter(base)
                           ELSE IF r.collecting THEN [r EXCEPT !.collecting = FALSE] ELSE r
    BY DEF OnTransfer
  <2>3. [r EXCEPT !.collecting = FALSE] \in Replica
    BY DEF Replica
  <2>4. ASSUME m.n > r.exec PROVE TryToEnter(base) \in Replica
    <3>1. moved \in Replica /\ moved.exec = m.n
      <4>1. r.stable <= m.n
        BY <2>1, <2>4 DEF Replica
      <4> QED BY <2>1, <4>1 DEF Replica
    <3> HIDE DEF moved
    <3>2. CASE m.n > r.stable + W
      <4>1. m.n - W \in Nat /\ m.n - W <= m.n
        BY <2>1, <3>2 DEF Replica, Setup
      <4>2. MakeStable(moved, m.n - W) \in Replica
        BY <3>1, <4>1, MakeStableIsReplica
      <4> QED BY <3>2, <4>2, EnterIsReplica
    <3>3. CASE ~(m.n > r.stable + W)
      BY <3>1, <3>3, EnterIsReplica
    <3> QED BY <3>2, <3>3
  <2>5. OnTransfer(r, m) \in Replica
    BY <2>2, <2>3, <2>4
  <2> QED BY <1>5, <2>5 DEF Handled
<1>6. CASE m.kind = "read"
  BY <1>6 DEF Handled
<1> QED BY <1>1, <1>2, <1>3, <1>4, <1>5, <1>6 DEF Messages

-----------------------------------------------------------------------------
(* Every action keeps the invariant *)

(* The invariant, with the replica and the pieces it speaks about named *)
LEMMA EInvFacts ==
    ASSUME EInv
    PROVE  /\ rep \in Replica /\ deferred \in Seq(Messages) /\ checking \subseteq Messages
           /\ active \in BOOLEAN /\ started = active /\ dirty = FALSE
           /\ pc # "loop" => ~active
           /\ active => rep.on /\ ~rep.collecting /\ rep.exec + 1 \in rep.committed
BY DEF EInv, Types, AssertionsHold, Announced, ReadsAreClean

(* tryToStartOrFinishExecution *)
LEMMA StartOrFinishStep ==
    ASSUME Setup, EInv, pc = "loop", rep' \in Replica, rep'.on, ~rep'.collecting,
           StartOrFinish(rep'), done' = FALSE,
           UNCHANGED <<deferred, reads, flags, checking, dirty>>
    PROVE  EInv'
<1>1. CASE CanExecute(rep')
  <2>1. active' = TRUE /\ started' = TRUE /\ pc' = pc /\ rep'.exec + 1 \in rep'.committed
    BY <1>1 DEF StartOrFinish, CanExecute
  <2> QED BY <2>1 DEF EInv, Types, AssertionsHold, NothingLeftBehind, ReadsAreClean, Announced
<1>2. CASE ~CanExecute(rep')
  <2>1. /\ active' = FALSE /\ started' = FALSE
        /\ pc' = IF active THEN "flags" ELSE pc
    BY <1>2 DEF StartOrFinish, Finishes, EInv, Announced, Types
  <2> QED BY <2>1 DEF EInv, Types, AssertionsHold, NothingLeftBehind, ReadsAreClean, Announced
<1> QED BY <1>1, <1>2

(* A committed number starts an execution, or waits for the one under way. *)
LEMMA CommitStep == ASSUME Setup, EInv, NEW n \in Numbers, Commit(n) PROVE EInv'
<1>1. /\ pc = "loop" /\ rep.on /\ ~rep.collecting
      /\ rep' = [rep EXCEPT !.committed = @ \cup {n}]
      /\ UNCHANGED <<done, deferred, reads, flags, checking, dirty>>
  BY DEF Commit
<1>2. /\ rep' \in Replica /\ rep'.on /\ ~rep'.collecting /\ rep'.exec = rep.exec
      /\ rep.committed \subseteq rep'.committed
  BY <1>1, EInvFacts DEF Replica
<1>3. CASE active
  <2>1. UNCHANGED <<active, started, pc>>
    BY <1>3 DEF Commit
  <2> QED BY <1>1, <1>2, <1>3, <2>1
          DEF EInv, Types, AssertionsHold, NothingLeftBehind, ReadsAreClean, Announced
<1>4. CASE ~active
  <2>1. done' = FALSE /\ StartOrFinish(rep')
    BY <1>1, <1>4 DEF Commit, EInv, AssertionsHold, Types
  <2> QED BY <1>1, <1>2, <2>1, StartOrFinishStep
<1> QED BY <1>3, <1>4

(* The end of a batch: the next one starts, or what was deferred is handled. *)
LEMMA FinishExecutionStep ==
    ASSUME Setup, EInv, NEW fast \in BOOLEAN, FinishExecution(fast)
    PROVE  EInv'
<1>1. /\ pc = "loop" /\ active /\ done' = FALSE /\ rep' = Executed(rep, fast)
      /\ StartOrFinish(rep') /\ UNCHANGED <<deferred, reads, flags, checking, dirty>>
  BY DEF FinishExecution
<1>2. rep' \in Replica /\ rep'.on /\ ~rep'.collecting
  BY <1>1, EInvFacts, ExecutedIsReplica
<1> QED BY <1>1, <1>2, StartOrFinishStep

(* onMessage<T>: the message waits if a batch is executed. *)
LEMMA OnMessageStep ==
    ASSUME Setup, EInv, NEW m \in Messages, OnMessage(m), pc = "loop",
           m.kind = "read" => ~rep.collecting,
           checking' \subseteq Messages, UNCHANGED <<active, started, done, flags, pc>>
    PROVE  EInv'
<1>1. CASE active
  <2>1. rep' = rep /\ dirty' = dirty
    BY <1>1 DEF OnMessage, MustWait
  <2>2. reads' \in Nat /\ reads' <= QueueSize
    BY <1>1 DEF OnMessage, MustWait, EInv, Types, Setup
  <2>3. deferred' \in Seq(Messages) /\ Len(deferred') <= QueueSize
    <3>1. deferred' \in {deferred, Append(deferred, m)}
          /\ (deferred' # deferred => Len(deferred) < QueueSize)
      BY <1>1 DEF OnMessage, MustWait
    <3>2. deferred \in Seq(Messages) /\ Len(deferred) <= QueueSize
      BY DEF EInv, Types
    <3> QED BY <3>1, <3>2 DEF Setup
  <2> QED BY <1>1, <2>1, <2>2, <2>3
          DEF EInv, Types, AssertionsHold, NothingLeftBehind, ReadsAreClean, Announced
<1>2. CASE ~active
  <2>1. rep' = Handled(rep, m) /\ UNCHANGED <<deferred, reads>>
    BY <1>2 DEF OnMessage, MustWait
  <2>2. dirty' = FALSE
    BY <1>2, EInvFacts DEF OnMessage, MustWait
  <2>3. rep' \in Replica
    BY <2>1, EInvFacts, HandledIsReplica
  <2> QED BY <1>2, <2>1, <2>2, <2>3
          DEF EInv, Types, AssertionsHold, NothingLeftBehind, ReadsAreClean, Announced
<1> QED BY <1>1, <1>2, EInvFacts

(* messageHandler<T> and validatedMessageHandler<T>; nothing but the       *)
(* message that ends the transfer passes while state is collected.         *)
LEMMA ArriveStep ==
    ASSUME Setup, EInv, NEW m \in Messages, Arrive(m) \/ Validated(m)
    PROVE  EInv'
<1>1. /\ pc = "loop" /\ UNCHANGED <<active, started, done, flags, pc>>
      /\ checking' \subseteq Messages
  BY EInvFacts DEF Arrive, Validated, OnMessage
<1>2. CASE UNCHANGED <<rep, deferred, reads, dirty>>
  BY <1>1, <1>2 DEF EInv, Types, AssertionsHold, NothingLeftBehind, ReadsAreClean, Announced
<1>3. CASE OnMessage(m) /\ (m.kind = "read" => ~rep.collecting)
  BY <1>1, <1>3, OnMessageStep
<1> QED BY <1>2, <1>3 DEF Arrive, Validated

(* The decision of a timer is a flag while a batch is executed. *)
LEMMA TimerDecidesStep ==
    ASSUME Setup, EInv, NEW d \in {"try", "go", "checkpoint"}, NEW fast \in BOOLEAN,
           TimerDecides(d, fast)
    PROVE  EInv'
<1>1. /\ pc = "loop"
      /\ UNCHANGED <<active, started, done, deferred, reads, checking, pc, dirty>>
  BY DEF TimerDecides
<1>2. CASE active
  <2>1. rep' = rep /\ flags' = flags \cup {d}
    BY <1>2 DEF TimerDecides
  <2> QED BY <1>1, <1>2, <2>1
          DEF EInv, Types, AssertionsHold, NothingLeftBehind, ReadsAreClean, Announced
<1>3. CASE ~active
  <2>1. rep' = Decide(d, fast) /\ flags' = flags
    BY <1>3 DEF TimerDecides
  <2>2. rep' \in Replica
    <3>1. rep.view + 1 \in Nat
      BY EInvFacts DEF Replica
    <3>2. Move(rep, rep.view + 1) \in Replica /\ FastStable(rep, fast) \in Replica
      BY <3>1, EInvFacts, MoveIsReplica, FastStableIsReplica
    <3>3. Decide(d, fast) \in {Move(rep, rep.view + 1), FastStable(rep, fast)}
      BY DEF Decide
    <3> QED BY <2>1, <3>2, <3>3
  <2> QED BY <1>1, <1>3, <2>1, <2>2
          DEF EInv, Types, AssertionsHold, NothingLeftBehind, ReadsAreClean, Announced
<1> QED BY <1>2, <1>3, EInvFacts

(* handleDeferredRequests *)
LEMMA HandleFlagsStep == ASSUME Setup, EInv, NEW fast \in BOOLEAN, HandleFlags(fast) PROVE EInv'
<1> DEFINE sent == IF "checkpoint" \in flags THEN FastStable(rep, fast) ELSE rep
<1>1. /\ pc = "flags" /\ flags' = {} /\ pc' = "messages"
      /\ rep' = IF flags \cap {"try", "go"} # {} THEN Move(sent, sent.view + 1) ELSE sent
      /\ UNCHANGED <<active, started, done, deferred, reads, checking, dirty>>
  BY DEF HandleFlags
<1>2. sent \in Replica
  BY EInvFacts, FastStableIsReplica
<1> HIDE DEF sent
<1>3. Move(sent, sent.view + 1) \in Replica
  <2>1. sent.view + 1 \in Nat
    BY <1>2 DEF Replica
  <2> QED BY <1>2, <2>1, MoveIsReplica
<1>4. rep' \in Replica
  BY <1>1, <1>2, <1>3
<1> QED BY <1>1, <1>4 DEF EInv, Types, AssertionsHold, NothingLeftBehind, ReadsAreClean, Announced

(* The deferred messages are handled once no execution is under way. *)
LEMMA HandleDeferredStep == ASSUME Setup, EInv, HandleDeferred PROVE EInv'
<1> DEFINE m == Head(deferred)
<1>1. /\ pc = "messages" /\ deferred # <<>> /\ ~active /\ deferred \in Seq(Messages)
      /\ Len(deferred) <= QueueSize
      /\ UNCHANGED <<active, started, done, reads, flags, pc, dirty>>
  BY EInvFacts DEF HandleDeferred, EInv, Types
<1>2. /\ m \in Messages /\ Tail(deferred) \in Seq(Messages) /\ Len(Tail(deferred)) <= QueueSize
  BY <1>1 DEF Setup
<1>3. /\ deferred' = Tail(deferred) /\ rep' \in {rep, Handled(rep, m)}
      /\ checking' \in {checking, checking \cup {m}}
  BY <1>1 DEF HandleDeferred, MustWait
<1> HIDE DEF m
<1>4. rep' \in Replica /\ checking' \subseteq Messages
  BY <1>2, <1>3, EInvFacts, HandledIsReplica
<1> QED BY <1>1, <1>2, <1>3, <1>4
        DEF EInv, Types, AssertionsHold, NothingLeftBehind, ReadsAreClean, Announced

(* The deferred read requests, likewise. *)
LEMMA HandleReadsStep == ASSUME Setup, EInv, HandleReads PROVE EInv'
<1>1. /\ pc = "messages" /\ ~active /\ flags = {} /\ dirty' = FALSE
  BY EInvFacts DEF HandleReads, EInv, Announced
<1> QED BY <1>1 DEF HandleReads, EInv, Types, AssertionsHold, NothingLeftBehind, ReadsAreClean,
                    Announced, Setup

-----------------------------------------------------------------------------
(* The theorems *)

(* A replica starts with no execution under way. *)
LEMMA EInvInit == ASSUME Setup, Init PROVE EInv
<1>1. rep \in Replica
  BY DEF Init, Replica, Setup
<1>2. deferred \in Seq(Messages) /\ Len(deferred) = 0
  BY DEF Init
<1>3. /\ active = FALSE /\ started = FALSE /\ done = FALSE /\ deferred = <<>> /\ reads = 0
      /\ flags = {} /\ checking = {} /\ pc = "loop" /\ dirty = FALSE
  BY DEF Init
<1>4. Types
  <2>1. Len(deferred) <= QueueSize /\ reads \in Nat /\ reads <= QueueSize
    BY <1>2, <1>3 DEF Setup
  <2>2. /\ active \in BOOLEAN /\ started \in BOOLEAN /\ done \in BOOLEAN /\ dirty \in BOOLEAN
        /\ flags \subseteq {"try", "go", "checkpoint"} /\ checking \subseteq Messages
        /\ pc \in {"loop", "flags", "messages"}
    BY <1>3
  <2> QED BY <1>1, <1>2, <2>1, <2>2 DEF Types
<1> QED BY <1>3, <1>4 DEF EInv, AssertionsHold, NothingLeftBehind, ReadsAreClean, Announced

(* Every step keeps the invariant. *)
LEMMA EInvStep == ASSUME Setup, EInv, [Next]_vars PROVE EInv'
<1>1. CASE UNCHANGED vars
  BY <1>1 DEF vars, EInv, Types, AssertionsHold, NothingLeftBehind, ReadsAreClean, Announced
<1>2. CASE \E n \in Numbers : Commit(n)
  BY <1>2, CommitStep
<1>3. CASE JobEnds
  BY <1>3 DEF JobEnds, EInv, Types, AssertionsHold, NothingLeftBehind, ReadsAreClean, Announced
<1>4. CASE \E fast \in BOOLEAN : FinishExecution(fast) \/ HandleFlags(fast)
  BY <1>4, FinishExecutionStep, HandleFlagsStep
<1>5. CASE \E m \in Messages : Arrive(m) \/ Validated(m)
  BY <1>5, ArriveStep
<1>6. CASE \E d \in {"try", "go", "checkpoint"}, fast \in BOOLEAN : TimerDecides(d, fast)
  BY <1>6, TimerDecidesStep
<1>7. CASE HandleDeferred \/ HandleReads
  BY <1>7, HandleDeferredStep, HandleReadsStep
<1> QED BY <1>1, <1>2, <1>3, <1>4, <1>5, <1>6, <1>7 DEF Next

(* The assertions on activeExecutions_ hold: a batch is executed in an     *)
(* active view, outside of a state transfer, and its PrePrepare is still   *)
(* in the window; the queues keep to their size; between two executions    *)
(* nothing that was deferred is left; and no read-only request runs beside *)
(* an execution or a state transfer.                                       *)
THEOREM ExecutionStaysSafe == ASSUME Setup PROVE Spec => []ExecutionIsSafe
<1>1. Init => EInv
  BY EInvInit
<1>2. EInv /\ [Next]_vars => EInv'
  BY EInvStep
<1>3. EInv => ExecutionIsSafe
  <2>1. ASSUME EInv PROVE TypeOK
    <3>1. rep \in Replica
      BY <2>1, EInvFacts
    <3>2. /\ rep.view \in 0 .. MaxView /\ rep.exec \in 0 .. MaxSeq /\ rep.stable \in 0 .. rep.exec
      BY <3>1 DEF Replica, Setup
    <3> QED BY <2>1, <3>2 DEF EInv, Types, TypeOK
  <2> QED BY <2>1 DEF EInv, ExecutionIsSafe
<1> QED BY <1>1, <1>2, <1>3, PTL DEF Spec

(* While a batch is executed no handler, timer or finished validation      *)
(* moves the view, the stable point, the last execution or starts a state  *)
(* transfer: all of them look at activeExecutions_ first.                  *)
THEOREM ExecutionIsUndisturbed == ASSUME Setup PROVE Spec => Undisturbed
<1>1. Init => EInv
  BY EInvInit
<1>2. EInv /\ [Next]_vars => EInv'
  BY EInvStep
<1>3. EInv /\ [Next]_vars => [Undisturbs]_vars
  <2> SUFFICES ASSUME EInv, Next, active, ~done, active'
               PROVE  /\ rep'.view = rep.view /\ rep'.on = rep.on /\ rep'.stable = rep.stable
                      /\ rep'.exec = rep.exec /\ rep'.collecting = rep.collecting
    BY DEF Undisturbs
  <2>1. rep \in Replica /\ pc = "loop"
    BY EInvFacts DEF EInv, AssertionsHold
  <2>2. CASE \E n \in Numbers : Commit(n)
    BY <2>1, <2>2 DEF Commit, Replica
  <2>3. CASE rep' = rep
    BY <2>3
  <2>4. rep' = rep \/ \E n \in Numbers : Commit(n)
    BY <2>1 DEF Next, JobEnds, FinishExecution, HandleFlags, Arrive, Validated, OnMessage,
                MustWait, TimerDecides, HandleDeferred, HandleReads
  <2> QED BY <2>2, <2>3, <2>4
<1> QED BY <1>1, <1>2, <1>3, PTL DEF Spec, Undisturbed
=============================================================================
