---------------------------- MODULE SigCollector ----------------------------
(***************************************************************************)
(* CollectorOfThresholdSignatures, the object that gathers the signature   *)
(* shares of one phase of one sequence number, with the background jobs it *)
(* gives to the thread pool and the ReplicaImp handlers that bring their   *)
(* results back.  A job's outcome is fixed by what it was given; when its  *)
(* result is handled is not: by then the replica may have reset the        *)
(* collector, left the view, moved its window or started a state transfer. *)
(* The collector is the one of the prepare phase; the commit and the fast  *)
(* path collectors are other instances of the same class, with handlers of *)
(* the same shape.                                                         *)
(***************************************************************************)
EXTENDS Integers, FiniteSets

CONSTANTS
    Replicas,             \* replicas that send shares
    Self,                 \* this replica
    Faulty,               \* replicas whose shares may be bad
    Required,             \* numOfRequiredSigs
    MaxView,              \* bound: the last view
    MaxTransfers          \* bound: state transfers that may start

VARIABLES
    curView, viewActive, insideActiveWindow, collectingState,
    prePrepare,           \* SeqNumInfo::prePrepareMsg is set
    collector,            \* the CollectorOfThresholdSignatures
    jobs,                 \* jobs whose results are not handled yet
    transfers,            \* state transfers started so far
    aborted               \* a ConcordAssert failed

vars == <<curView, viewActive, insideActiveWindow, collectingState, prePrepare, collector, jobs,
          transfers, aborted>>
ctxVars == <<curView, viewActive, insideActiveWindow, collectingState, transfers>>

-----------------------------------------------------------------------------

Views == 0 .. MaxView
NoView == -1
UInt16 == 65536

Sigs == {"none", "good", "bad"}              \* a signature, or its absence
Job == [view : Views, sigs : SUBSET Replicas, bad : SUBSET Replicas, valid : BOOLEAN,
        kind : {"combine", "verify"}]
Collector == [expectedView : Views \cup {NoView},    \* NoView: expectedSeqNumber = 0
              partial : [Replicas -> Sigs],          \* replicasInfo[r].partialSigMsg
              invalid : SUBSET Replicas,             \* replicasInfo[r].state = Invalid
              numberOfUnknownSignatures : 0 .. UInt16 - 1,
              candidate : Sigs, combinedValid : Sigs,
              processing : BOOLEAN]

(* resetContent *)
Empty == [expectedView |-> NoView, partial |-> [r \in Replicas |-> "none"], invalid |-> {},
          numberOfUnknownSignatures |-> 0, candidate |-> "none", combinedValid |-> "none",
          processing |-> FALSE]

Init ==
    /\ curView = 0 /\ viewActive = TRUE
    /\ insideActiveWindow = TRUE /\ collectingState = FALSE
    /\ prePrepare = FALSE
    /\ collector = Empty
    /\ jobs = {}
    /\ transfers = 0 /\ aborted = FALSE

(* relevantMsgForActiveView, for a message messageHandler lets through *)
Relevant == ~aborted /\ viewActive /\ insideActiveWindow /\ ~collectingState

-----------------------------------------------------------------------------
(* trySendToBkThread on collector c: the candidate is verified first, else *)
(* Required of the shares not known to be bad are combined                 *)

VerifyJob(c) ==
    [view |-> c.expectedView, sigs |-> {}, bad |-> {}, valid |-> c.candidate = "good",
     kind |-> "verify"]

CombineJob(c, S) ==
    [view |-> c.expectedView, sigs |-> S, bad |-> {r \in S : c.partial[r] = "bad"},
     valid |-> \A r \in S : c.partial[r] = "good", kind |-> "combine"]

UsableShares(c) == {r \in Replicas : c.partial[r] # "none"} \ c.invalid

(* The jobs the collector may give out, none when it waits *)
NewJobs(c) ==
    IF c.processing \/ c.expectedView = NoView THEN {}
    ELSE IF c.candidate # "none" THEN {VerifyJob(c)}
    ELSE IF c.numberOfUnknownSignatures < Required THEN {}
    ELSE {CombineJob(c, S) : S \in {T \in SUBSET UsableShares(c) : Cardinality(T) = Required}}

TrySendToBkThread(c, pending) ==
    \/ /\ NewJobs(c) = {}
       /\ collector' = c /\ jobs' = pending
    \/ \E j \in NewJobs(c) :
        /\ collector' = [c EXCEPT !.processing = TRUE]
        /\ jobs' = pending \cup {j}

(* ConcordAssert: the replica stops unless the condition holds *)
Assert(cond, step) ==
    \/ cond /\ step /\ UNCHANGED aborted
    \/ ~cond /\ aborted' = TRUE /\ UNCHANGED <<collector, jobs, prePrepare>>

-----------------------------------------------------------------------------
(* Messages *)

(* SeqNumInfo::addMsg(PrePrepareMsg), addSelfMsg: setExpected *)
AddPrePrepare ==
    /\ Relevant /\ ~prePrepare
    /\ Assert(/\ collector.expectedView = NoView /\ ~collector.processing
              /\ collector.partial[Self] = "none",
              /\ prePrepare' = TRUE
              /\ TrySendToBkThread([collector EXCEPT !.expectedView = curView], jobs))
    /\ UNCHANGED ctxVars

(* addMsgWithPartialSignature *)
AddPartialSignature(r, sig) ==
    /\ collector.combinedValid = "none" /\ collector.partial[r] = "none"
    /\ TrySendToBkThread([collector EXCEPT !.partial[r] = sig,
                              !.numberOfUnknownSignatures = (@ + 1) % UInt16], jobs)

(* onMessage<PreparePartialMsg> *)
OnPreparePartial(r, sig) ==
    /\ Relevant /\ r # Self
    /\ sig = "good" \/ r \in Faulty
    /\ AddPartialSignature(r, sig)
    /\ UNCHANGED <<ctxVars, prePrepare, aborted>>

(* sendPreparePartial *)
SendPreparePartial ==
    /\ Relevant /\ prePrepare
    /\ AddPartialSignature(Self, "good")
    /\ UNCHANGED <<ctxVars, prePrepare, aborted>>

(* onMessage<PrepareFullMsg>: addMsgWithCombinedSignature *)
OnPrepareFull(sig) ==
    /\ Relevant
    /\ collector.combinedValid = "none" /\ collector.candidate = "none"
    /\ TrySendToBkThread([collector EXCEPT !.candidate = sig], jobs)
    /\ UNCHANGED <<ctxVars, prePrepare, aborted>>

-----------------------------------------------------------------------------
(* Results of the background jobs *)

(* onPrepareCombinedSigSucceeded and onCompletionOfSignaturesProcessing *)
SignaturesCombined(j) ==
    /\ collector' = [collector EXCEPT !.processing = FALSE, !.candidate = "none",
                                      !.combinedValid = "good"]
    /\ jobs' = jobs \ {j}
    /\ UNCHANGED prePrepare

(* mutant: the shares that are left are not tried *)
BadSignaturesFoundNoRetry(j) ==
    /\ collector' = [collector EXCEPT !.processing = FALSE, !.invalid = @ \cup j.bad,
                          !.numberOfUnknownSignatures = (@ - Cardinality(j.bad)) % UInt16]
    /\ jobs' = jobs \ {j}
    /\ UNCHANGED prePrepare

(* onPrepareCombinedSigFailed and onCompletionOfSignaturesProcessing *)
BadSignaturesFound(j) ==
    /\ TrySendToBkThread(
           [collector EXCEPT !.processing = FALSE, !.invalid = @ \cup j.bad,
                !.numberOfUnknownSignatures = (@ - Cardinality(j.bad)) % UInt16], jobs \ {j})
    /\ UNCHANGED prePrepare

(* onPrepareVerifyCombinedSigResult and onCompletionOfCombinedSigVerification *)
CombinedSigVerified(j) ==
    /\ \/ /\ j.valid
          /\ collector' = [collector EXCEPT !.processing = FALSE, !.combinedValid = collector.candidate,
                                            !.candidate = "none"]
          /\ jobs' = jobs \ {j}
       \/ /\ ~j.valid
          /\ TrySendToBkThread([collector EXCEPT !.processing = FALSE, !.candidate = "none"], jobs \ {j})
    /\ UNCHANGED prePrepare

(* mutant: the view of a result is not compared with the current one *)
ResultRelevantAnyView(j) == viewActive /\ insideActiveWindow

ResultRelevant(j) == viewActive /\ curView = j.view /\ insideActiveWindow

(* resetPrepareSignatures, when the result comes during a state transfer *)
ResetWhileCollecting(j) ==
    /\ collectingState /\ insideActiveWindow
    /\ collector' = Empty
    /\ jobs' = jobs \ {j}
    /\ UNCHANGED <<prePrepare, aborted>>

DropResult(j) ==
    /\ ~(collectingState /\ insideActiveWindow) /\ ~ResultRelevant(j)
    /\ jobs' = jobs \ {j}
    /\ UNCHANGED <<collector, prePrepare, aborted>>

UseResult(j) ==
    /\ ~(collectingState /\ insideActiveWindow) /\ ResultRelevant(j)
    /\ Assert(/\ collector.expectedView = j.view
              /\ collector.processing /\ collector.combinedValid = "none"
              /\ j.kind = "verify" => collector.candidate # "none",
              \/ j.kind = "combine" /\ j.valid /\ SignaturesCombined(j)
              \/ j.kind = "combine" /\ ~j.valid /\ BadSignaturesFound(j)
              \/ j.kind = "verify" /\ CombinedSigVerified(j))

OnResult(j) ==
    /\ ~aborted
    /\ ResetWhileCollecting(j) \/ DropResult(j) \/ UseResult(j)
    /\ UNCHANGED ctxVars

-----------------------------------------------------------------------------
(* What happens to the slot meanwhile *)

(* MoveToHigherView: SeqNumInfo::getAndReset *)
ExitView ==
    /\ ~aborted /\ curView < MaxView /\ ~collectingState
    /\ curView' = curView + 1 /\ viewActive' = FALSE
    /\ prePrepare' = FALSE /\ collector' = Empty
    /\ UNCHANGED <<insideActiveWindow, collectingState, transfers, jobs, aborted>>

(* onNewView; a PrePrepare it restricts the slot to is added after that *)
EnterView ==
    /\ ~aborted /\ ~viewActive /\ ~collectingState
    /\ viewActive' = TRUE
    /\ UNCHANGED <<curView, insideActiveWindow, collectingState, transfers, prePrepare, collector,
                   jobs, aborted>>

(* onSeqNumIsStable: the window moves past the slot *)
LeaveWindow ==
    /\ ~aborted /\ insideActiveWindow
    /\ insideActiveWindow' = FALSE
    /\ UNCHANGED <<curView, viewActive, collectingState, transfers, prePrepare, collector, jobs,
                   aborted>>

(* startCollectingState, from onMessage<CheckpointMsg> *)
StartStateTransfer ==
    /\ ~aborted /\ ~collectingState /\ transfers < MaxTransfers
    /\ collectingState' = TRUE /\ transfers' = transfers + 1
    /\ UNCHANGED <<curView, viewActive, insideActiveWindow, prePrepare, collector, jobs, aborted>>

(* onTransferringCompleteImp: slots above the new checkpoint keep their state *)
StateTransferComplete ==
    /\ ~aborted /\ collectingState
    /\ collectingState' = FALSE
    /\ UNCHANGED <<curView, viewActive, insideActiveWindow, transfers, prePrepare, collector, jobs,
                   aborted>>

Next ==
    \/ AddPrePrepare
    \/ SendPreparePartial
    \/ \E r \in Replicas, sig \in {"good", "bad"} : OnPreparePartial(r, sig)
    \/ \E sig \in {"good", "bad"} : OnPrepareFull(sig)
    \/ \E j \in jobs : OnResult(j)
    \/ ExitView
    \/ EnterView
    \/ LeaveWindow
    \/ StartStateTransfer
    \/ StateTransferComplete

Spec == Init /\ [][Next]_vars

-----------------------------------------------------------------------------
(* Properties *)

(* Every variable keeps its type. *)
TypeOK ==
    /\ curView \in Views /\ viewActive \in BOOLEAN /\ insideActiveWindow \in BOOLEAN
    /\ collectingState \in BOOLEAN /\ prePrepare \in BOOLEAN /\ aborted \in BOOLEAN
    /\ collector \in Collector
    /\ jobs \subseteq Job
    /\ transfers \in 0 .. MaxTransfers

(* The ConcordAsserts of the collector ("expectedSeqNumber == seqNumber",  *)
(* "expectedView == view", "processingSignaturesInTheBackground", ...)     *)
(* hold: a result is only brought to the collector that asked for it.      *)
AssertionsHold == ~aborted

(* A certificate the collector holds as valid was verified, and its        *)
(* counter of usable shares is the number of them (no wrap below zero).    *)
CollectorSound ==
    /\ collector.combinedValid # "bad"
    /\ collector.combinedValid # "none" => collector.expectedView = curView
    /\ collector.numberOfUnknownSignatures = Cardinality(UsableShares(collector))

(* A collector that waits for the background has a job there: no result    *)
(* is lost, and no two jobs of one view run for it.                        *)
OneJobPerCollector ==
    insideActiveWindow =>
        Cardinality({j \in jobs : j.view = collector.expectedView}) =
            IF collector.processing THEN 1 ELSE 0

(* All of that together.  The assertions are claimed up to the first state *)
(* transfer: resetPrepareSignatures does not look at the view of the       *)
(* result it is called for.                                                *)
CollectorSafe ==
    /\ TypeOK /\ CollectorSound /\ OneJobPerCollector
    /\ transfers = 0 => AssertionsHold

(* Enough good shares for the expected digest are there: MCProgress checks *)
(* that they become a certificate. *)
EnoughShares ==
    /\ viewActive /\ insideActiveWindow /\ collector.expectedView = curView
    /\ Cardinality({r \in Replicas : collector.partial[r] = "good"}) >= Required
=============================================================================
