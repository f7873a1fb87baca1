-------------------------------- MODULE Sbft --------------------------------
(***************************************************************************)
(* The agreement protocol of concord-bft (bftengine): ordering of client   *)
(* request batches on sequence numbers by the fast path and the slow path, *)
(* checkpoint stability, and the view change that carries what may have    *)
(* been committed into the next view.                                      *)
(*                                                                         *)
(* One honest replica is one ReplicaImp with its mainLog (seqNumInfo) and  *)
(* its ViewsManager.  What honest replicas send is kept in monotone sets,  *)
(* so a message may be delayed, lost, duplicated or reordered.  Replicas   *)
(* in Byz are faulty: everything they could have sent (a signature share,  *)
(* a PrePrepare of a view they lead, a ViewChangeMsg with valid            *)
(* certificates, a NewViewMsg) is always available to the honest ones.     *)
(* A threshold certificate exists as soon as enough shares do.             *)
(***************************************************************************)
EXTENDS Integers, FiniteSets

CONSTANTS
    F, C,                 \* fVal and cVal of the ReplicaConfig
    Byz,                  \* the replicas that do not follow the protocol
    MaxView,              \* bound: the last view the model explores
    MaxSeq,               \* bound: the last sequence number it explores
    Requests,             \* digests of non-empty PrePrepare messages
    Null,                 \* digestOfNullPrePrepareMsg
    None,                 \* nullptr
    FirstPaths,           \* commit paths a primary may start with
    WorkWindow,           \* kWorkWindowSize
    CheckpointWindow,     \* checkpointWindowSize
    MaxConcurrentFastPaths,
    ConcurrencyLevel,     \* ReplicaConfig.concurrencyLevel
    TimeServiceEnabled    \* ReplicaConfig.timeServiceEnabled

N == 3 * F + 2 * C + 1
Replicas == 0 .. N - 1
Honest == Replicas \ Byz
Views == 0 .. MaxView
SeqNums == 1 .. MaxSeq
Digests == Requests \cup {Null}
FastPaths == {"OPTIMISTIC_FAST", "FAST_WITH_THRESHOLD"}
NoCert == -1

ASSUME ConfigAssumption ==
    /\ F \in Nat /\ C \in Nat /\ F + C > 0
    /\ Byz \subseteq Replicas /\ Cardinality(Byz) <= F
ASSUME BoundsAssumption ==
    /\ MaxView \in Nat /\ MaxSeq \in Nat \ {0}
    /\ CheckpointWindow \in Nat \ {0} /\ WorkWindow = 2 * CheckpointWindow
    /\ MaxConcurrentFastPaths \in Nat /\ ConcurrencyLevel \in Nat \ {0}
ASSUME DigestAssumption ==
    /\ Null \notin Requests /\ None \notin Requests /\ None # Null
ASSUME PathsAssumption ==
    /\ FirstPaths \subseteq FastPaths \cup {"SLOW"}
    /\ C = 0 => "FAST_WITH_THRESHOLD" \notin FirstPaths
    /\ TimeServiceEnabled \in BOOLEAN

VARIABLES
    curView,              \* ViewsManager::myCurrentView
    viewActive,           \* ViewsManager::viewIsActive(curView)
    seqNumInfo,           \* mainLog: one SeqNumInfo per sequence number
    lastExecutedSeqNum,
    lastStableSeqNum,
    prePrepareMsgs,       \* PrePrepareMsgs sent by honest primaries
    startSlowMsgs,        \* StartSlowCommitMsgs sent by honest primaries
    shares,               \* signature shares sent by honest replicas
    viewChangeMsgs,       \* latest ViewChangeMsg of each honest replica, per view
    newViewMsgs,          \* what the NewViewMsg of an honest primary determines
    executed              \* history: the digests each honest replica executed

logVars == <<seqNumInfo, lastExecutedSeqNum, lastStableSeqNum, executed>>
viewVars == <<curView, viewActive, viewChangeMsgs, newViewMsgs>>
netVars == <<prePrepareMsgs, startSlowMsgs, shares>>
vars == <<logVars, viewVars, netVars>>

-----------------------------------------------------------------------------
(* Types *)

Primary(v) == v % N

ShareTypes == FastPaths \cup {"PREPARE", "COMMIT"}
Share == [type : ShareTypes, rep : Honest, view : Views, seq : SeqNums, dig : Digests]
PrePrepare == [view : Views, seq : SeqNums, dig : Requests, path : FirstPaths]
SeqNumInfo == [pp : Digests \cup {None}, isTimeCorrect : BOOLEAN, slowStarted : BOOLEAN,
               fastPath : FastPaths \cup {None}, prepareFull : BOOLEAN,
               commitFull : BOOLEAN, forcedCompleted : BOOLEAN]
Element == [dig : Digests \cup {None}, origin : Views, cert : Views \cup {NoCert}]
ViewChangeMsg == [lastStable : 0 .. MaxSeq, elems : [SeqNums -> Element]]

NewView == [lbStable : 0 .. MaxSeq, restriction : [SeqNums -> Digests \cup {None}]]

NoNewView == [lbStable |-> -1, restriction |-> [s \in SeqNums |-> None]]
NoElem == [dig |-> None, origin |-> 0, cert |-> NoCert]
NoMsg == [lastStable |-> -1, elems |-> [s \in SeqNums |-> NoElem]]

(* SeqNumInfo::resetAndFree: everything but isTimeCorrect_ *)
ResetAndFree(slot) ==
    [slot EXCEPT !.pp = None, !.slowStarted = FALSE, !.fastPath = None,
                 !.prepareFull = FALSE, !.commitFull = FALSE, !.forcedCompleted = FALSE]

EmptySlot == [pp |-> None, isTimeCorrect |-> TRUE, slowStarted |-> FALSE, fastPath |-> None,
              prepareFull |-> FALSE, commitFull |-> FALSE, forcedCompleted |-> FALSE]

IsPrepared(slot) == slot.forcedCompleted \/ (slot.pp # None /\ slot.prepareFull)
IsCommitted(slot) == slot.forcedCompleted \/ slot.commitFull

-----------------------------------------------------------------------------
(* Quorums and certificates *)

SlowQuorum == 2 * F + C + 1
ViewChangeQuorum == 2 * F + 2 * C + 1
(* mutant: the all-replicas quorum of the fast path lowered to the slow one *)
RequiredSharesAlwaysSlow(type) == SlowQuorum

RequiredShares(type) ==
    CASE type = "OPTIMISTIC_FAST" -> N
      [] type = "FAST_WITH_THRESHOLD" -> 3 * F + C + 1
      [] OTHER -> SlowQuorum

Signers(type, v, s, d) ==
    Byz \cup {r \in Honest :
        [type |-> type, rep |-> r, view |-> v, seq |-> s, dig |-> d] \in shares}

Certificate(type, v, s, d) ==
    Cardinality(Signers(type, v, s, d)) >= RequiredShares(type)

(* ReplicasInfo::getCollectorsForPartialProofs with dynamic collectors *)
SkipPrimary(c, p) ==
    LET c1 == (c + 1) % N
    IN  IF c < p THEN c ELSE IF c1 = p THEN (c1 + 1) % N ELSE c1

Collectors(v, s) ==
    IF C = 0
    THEN {SkipPrimary(s % N, Primary(v))}
    ELSE LET half == N \div 2
         IN  {SkipPrimary(s % half, Primary(v)), SkipPrimary((s % half) + half, Primary(v))}

-----------------------------------------------------------------------------
(* Working in a view *)

Init ==
    /\ curView = [r \in Honest |-> 0]
    /\ viewActive = [r \in Honest |-> TRUE]
    /\ seqNumInfo = [r \in Honest |-> [s \in SeqNums |-> EmptySlot]]
    /\ lastExecutedSeqNum = [r \in Honest |-> 0]
    /\ lastStableSeqNum = [r \in Honest |-> 0]
    /\ prePrepareMsgs = {}
    /\ startSlowMsgs = {}
    /\ shares = {}
    /\ viewChangeMsgs = [r \in Honest |-> [v \in Views |-> NoMsg]]
    /\ newViewMsgs = [v \in Views |-> NoNewView]
    /\ executed = [r \in Honest |-> [s \in SeqNums |-> None]]

InActiveWindow(r, s) ==
    lastStableSeqNum[r] < s /\ s <= lastStableSeqNum[r] + WorkWindow

RelevantForActiveView(r, s) == viewActive[r] /\ InActiveWindow(r, s)

ShareOf(type, r, s, d) ==
    [type |-> type, rep |-> r, view |-> curView[r], seq |-> s, dig |-> d]

(* ReplicaImp::sendPreparePartial; the primary is its own collector *)
PreparePartial(r, s, slot) ==
    IF slot.isTimeCorrect \/ r = Primary(curView[r])
    THEN {ShareOf("PREPARE", r, s, slot.pp)} ELSE {}

(* ReplicaImp::sendPartialProof; a collector adds its own share to itself  *)
(* before isTimeCorrect is looked at                                       *)
PartialProof(r, s, slot) ==
    IF slot.isTimeCorrect \/ r \in Collectors(curView[r], s)
    THEN {ShareOf(slot.fastPath, r, s, slot.pp)} ELSE {}

(* What both the primary and a backup do with a PrePrepare they add: start *)
(* the slow path, or sign for the fast one                                 *)
StartConsensus(r, s, slot, path) ==
    LET slow == path = "SLOW" \/ slot.slowStarted
        new == [slot EXCEPT !.slowStarted = slow, !.fastPath = IF slow THEN None ELSE path]
    IN  /\ seqNumInfo' = [seqNumInfo EXCEPT ![r][s] = new]
        /\ shares' = shares \cup
               (IF slow THEN PreparePartial(r, s, new) ELSE PartialProof(r, s, new))

(* primaryLastUsedSeqNum + 1: the first free sequence number of the window *)
NextSeqNum(r, s) ==
    /\ seqNumInfo[r][s].pp = None
    /\ \A t \in SeqNums : lastStableSeqNum[r] < t /\ t < s => seqNumInfo[r][t].pp # None

(* ReplicaImp::startConsensusProcess, under the conditions of              *)
(* checkSendPrePrepareMsgPrerequisites                                     *)
StartConsensusProcess(r, s, d, path) ==
    /\ r = Primary(curView[r])
    /\ RelevantForActiveView(r, s)
    /\ NextSeqNum(r, s) /\ s <= lastExecutedSeqNum[r] + ConcurrencyLevel
    /\ prePrepareMsgs' = prePrepareMsgs \cup
           {[view |-> curView[r], seq |-> s, dig |-> d, path |-> path]}
    /\ StartConsensus(r, s, [seqNumInfo[r][s] EXCEPT !.pp = d], path)
    /\ UNCHANGED <<lastExecutedSeqNum, lastStableSeqNum, executed, viewVars, startSlowMsgs>>

(* mutant: a second PrePrepare for a sequence number is not refused *)
OnPrePrepareOverwriting(r, s, d, path, timeIsOk) ==
    /\ r # Primary(curView[r])
    /\ RelevantForActiveView(r, s)
    /\ \/ Primary(curView[r]) \in Byz
       \/ [view |-> curView[r], seq |-> s, dig |-> d, path |-> path] \in prePrepareMsgs
    /\ TimeServiceEnabled \/ timeIsOk
    /\ StartConsensus(r, s, [seqNumInfo[r][s] EXCEPT !.pp = d, !.isTimeCorrect = timeIsOk], path)
    /\ UNCHANGED <<lastExecutedSeqNum, lastStableSeqNum, executed, viewVars, prePrepareMsgs,
                   startSlowMsgs>>

(* ReplicaImp::onMessage<PrePrepareMsg> in an active view *)
OnPrePrepare(r, s, d, path, timeIsOk) ==
    /\ r # Primary(curView[r])
    /\ RelevantForActiveView(r, s)
    /\ seqNumInfo[r][s].pp = None
    /\ \/ Primary(curView[r]) \in Byz
       \/ [view |-> curView[r], seq |-> s, dig |-> d, path |-> path] \in prePrepareMsgs
    /\ TimeServiceEnabled \/ timeIsOk
    /\ StartConsensus(r, s, [seqNumInfo[r][s] EXCEPT !.pp = d, !.isTimeCorrect = timeIsOk], path)
    /\ UNCHANGED <<lastExecutedSeqNum, lastStableSeqNum, executed, viewVars, prePrepareMsgs,
                   startSlowMsgs>>

(* The slow path is started for s: onMessage<StartSlowCommitMsg> and, at   *)
(* the primary, tryToStartSlowPaths                                        *)
StartSlowPath(r, s) ==
    /\ RelevantForActiveView(r, s)
    /\ ~seqNumInfo[r][s].slowStarted
    /\ seqNumInfo' = [seqNumInfo EXCEPT ![r][s].slowStarted = TRUE]
    /\ shares' = shares \cup (IF seqNumInfo[r][s].pp = None THEN {}
                              ELSE PreparePartial(r, s, seqNumInfo[r][s]))
    /\ UNCHANGED <<lastExecutedSeqNum, lastStableSeqNum, executed, viewVars, prePrepareMsgs>>

TryToStartSlowPaths(r, s) ==
    /\ r = Primary(curView[r])
    /\ s > lastExecutedSeqNum[r]
    /\ seqNumInfo[r][s].fastPath # None /\ ~seqNumInfo[r][s].forcedCompleted
    /\ startSlowMsgs' = startSlowMsgs \cup {<<curView[r], s>>}
    /\ StartSlowPath(r, s)

OnStartSlowCommit(r, s) ==
    /\ r # Primary(curView[r])
    /\ Primary(curView[r]) \in Byz \/ <<curView[r], s>> \in startSlowMsgs
    /\ ~IsPrepared(seqNumInfo[r][s])
    /\ UNCHANGED startSlowMsgs
    /\ StartSlowPath(r, s)

(* ReplicaImp::sendCommitPartial, which does not look at isTimeCorrect *)
CommitPartial(r, s, slot) ==
    IF slot.forcedCompleted THEN {} ELSE {ShareOf("COMMIT", r, s, slot.pp)}

(* A prepare certificate becomes valid at r: combined by the primary       *)
(* (onPrepareCombinedSigSucceeded) or received as PrepareFullMsg and       *)
(* verified (onPrepareVerifyCombinedSigResult); then sendCommitPartial     *)
OnPrepareFull(r, s) ==
    LET slot == seqNumInfo[r][s]
    IN  /\ RelevantForActiveView(r, s)
        /\ slot.pp # None /\ ~slot.prepareFull
        /\ Certificate("PREPARE", curView[r], s, slot.pp)
        /\ seqNumInfo' = [seqNumInfo EXCEPT ![r][s].prepareFull = TRUE]
        /\ shares' = shares \cup CommitPartial(r, s, slot)
        /\ UNCHANGED <<lastExecutedSeqNum, lastStableSeqNum, executed, viewVars, prePrepareMsgs,
                       startSlowMsgs>>

(* mutant: a sequence number committed again in a later view is counted again *)
ExecuteToCountingAgain(r, slots) == lastExecutedSeqNum[r] + 1

(* executeNextCommittedRequests: everything committed in sequence *)
ExecuteTo(r, slots) ==
    CHOOSE n \in lastExecutedSeqNum[r] .. MaxSeq :
        /\ \A t \in lastExecutedSeqNum[r] + 1 .. n : IsCommitted(slots[t])
        /\ n = MaxSeq \/ ~IsCommitted(slots[n + 1])

Commit(r, s, slot) ==
    LET slots == [seqNumInfo[r] EXCEPT ![s] = slot]
        last == ExecuteTo(r, slots)
    IN  /\ seqNumInfo' = [seqNumInfo EXCEPT ![r] = slots]
        /\ lastExecutedSeqNum' = [lastExecutedSeqNum EXCEPT ![r] = last]
        /\ executed' = [executed EXCEPT ![r] =
               [t \in SeqNums |-> IF lastExecutedSeqNum[r] < t /\ t <= last
                                  THEN slots[t].pp ELSE @[t]]]
        /\ UNCHANGED <<lastStableSeqNum, viewVars, netVars>>

(* A commit certificate becomes valid at r (onCommitCombinedSigSucceeded,  *)
(* onCommitVerifyCombinedSigResult): its expected digest is set by r's own *)
(* CommitPartialMsg                                                        *)
OnCommitFull(r, s) ==
    LET slot == seqNumInfo[r][s]
    IN  /\ RelevantForActiveView(r, s)
        /\ ShareOf("COMMIT", r, s, slot.pp) \in shares
        /\ ~IsCommitted(slot)
        /\ Certificate("COMMIT", curView[r], s, slot.pp)
        /\ Commit(r, s, [slot EXCEPT !.commitFull = TRUE])

(* A fast path proof becomes valid at r (onFastPathCommitCombinedSig-      *)
(* Succeeded, onFastPathCommitVerifyCombinedSigResult): forceComplete      *)
OnFullCommitProof(r, s) ==
    LET slot == seqNumInfo[r][s]
    IN  /\ RelevantForActiveView(r, s)
        /\ slot.fastPath # None /\ ~slot.forcedCompleted
        /\ Certificate(slot.fastPath, curView[r], s, slot.pp)
        /\ Commit(r, s, [slot EXCEPT !.forcedCompleted = TRUE])

-----------------------------------------------------------------------------
(* Checkpoints *)

CheckpointCertificate(r, s) ==
    \/ Cardinality(Byz \cup {q \in Honest : lastExecutedSeqNum[q] >= s}) >= SlowQuorum
    \/ /\ lastExecutedSeqNum[r] >= s + MaxConcurrentFastPaths
       /\ seqNumInfo[r][lastExecutedSeqNum[r]].forcedCompleted

(* onSeqNumIsStable for a checkpoint the replica executed itself *)
OnSeqNumIsStable(r, s) ==
    /\ s % CheckpointWindow = 0
    /\ lastStableSeqNum[r] < s /\ s <= lastExecutedSeqNum[r]
    /\ CheckpointCertificate(r, s)
    /\ lastStableSeqNum' = [lastStableSeqNum EXCEPT ![r] = s]
    /\ seqNumInfo' = [seqNumInfo EXCEPT ![r] =
           [t \in SeqNums |-> IF t <= s THEN ResetAndFree(@[t]) ELSE @[t]]]
    /\ UNCHANGED <<lastExecutedSeqNum, executed, viewVars, netVars>>

-----------------------------------------------------------------------------
(* Leaving a view *)

MyLatestViewChangeMsg(r) == viewChangeMsgs[r][curView[r]]

(* mutant: the certificate of the previous ViewChangeMsg is not carried over *)
ElementOfWithoutCarry(r, s) ==
    LET slot == seqNumInfo[r][s]
        v == curView[r]
    IN  CASE ~InActiveWindow(r, s) \/ slot.pp = None \/ ~slot.isTimeCorrect -> NoElem
          [] OTHER -> IF slot.pp = Null /\ ~slot.prepareFull THEN NoElem
                      ELSE [dig |-> slot.pp, origin |-> v,
                            cert |-> IF slot.prepareFull THEN v ELSE NoCert]

(* mutant: what is executed already is not reported *)
ElementOfUnexecuted(r, s) ==
    LET slot == seqNumInfo[r][s]
        v == curView[r]
    IN  CASE ~InActiveWindow(r, s) \/ slot.pp = None \/ s <= lastExecutedSeqNum[r] -> NoElem
          [] OTHER -> [dig |-> slot.pp, origin |-> v,
                       cert |-> IF slot.prepareFull THEN v ELSE NoCert]

(* The element exitFromCurrentView adds for s: with the prepare            *)
(* certificate of this view, else with the certificate carried from the    *)
(* replica's previous ViewChangeMsg for the same digest, else without one; *)
(* a null PrePrepare is only reported with a certificate                   *)
ElementOf(r, s) ==
    LET slot == seqNumInfo[r][s]
        prev == MyLatestViewChangeMsg(r).elems[s]
        v == curView[r]
    IN  CASE ~InActiveWindow(r, s) \/ slot.pp = None \/ ~slot.isTimeCorrect -> NoElem
          [] OTHER ->
             CASE slot.prepareFull -> [dig |-> slot.pp, origin |-> v, cert |-> v]
               [] ~slot.prepareFull /\ prev.cert # NoCert /\ prev.dig = slot.pp ->
                  [dig |-> slot.pp, origin |-> v, cert |-> prev.cert]
               [] OTHER -> IF slot.pp = Null THEN NoElem
                           ELSE [dig |-> slot.pp, origin |-> v, cert |-> NoCert]

ExitFromCurrentView(r) ==
    [lastStable |-> lastStableSeqNum[r], elems |-> [s \in SeqNums |-> ElementOf(r, s)]]

(* computeCorrectRelevantViewNumbers: f+1 replicas moved to v or above *)
KnownCorrectView(v) ==
    Cardinality(Byz \cup {q \in Honest : \E w \in v .. MaxView : viewChangeMsgs[q][w] # NoMsg})
        >= F + 1

(* ReplicaImp::MoveToHigherView, to the next view (complaints of f+1       *)
(* replicas, the primary leaving) or to one f+1 replicas moved to          *)
MoveToHigherView(r, v) ==
    /\ curView[r] < v
    /\ v = curView[r] + 1 \/ KnownCorrectView(v)
    /\ viewChangeMsgs' = [viewChangeMsgs EXCEPT ![r][v] =
           IF viewActive[r] THEN ExitFromCurrentView(r) ELSE MyLatestViewChangeMsg(r)]
    /\ curView' = [curView EXCEPT ![r] = v]
    /\ viewActive' = [viewActive EXCEPT ![r] = FALSE]
    /\ seqNumInfo' = [seqNumInfo EXCEPT ![r] = [s \in SeqNums |-> ResetAndFree(@[s])]]
    /\ UNCHANGED <<lastExecutedSeqNum, lastStableSeqNum, executed, newViewMsgs, netVars>>

-----------------------------------------------------------------------------
(* ViewChangeSafetyLogic: what a set of ViewChangeMsgs restricts.          *)
(* m is a function from a quorum of replicas to their messages.            *)

(* calcLBStableForView: the (f+1)-th highest lastStable *)
CalcLBStableForView(m) ==
    CHOOSE x \in {m[q].lastStable : q \in DOMAIN m} :
        /\ Cardinality({q \in DOMAIN m : m[q].lastStable >= x}) >= F + 1
        /\ Cardinality({q \in DOMAIN m : m[q].lastStable > x}) <= F

(* computeRestrictionsForSeqNum *)
CertifiedIn(m, s) == {q \in DOMAIN m : m[q].elems[s].cert # NoCert}

(* mutant: certificates are compared the wrong way round *)
SelectedSlowLowest(m, s) ==
    CHOOSE q \in CertifiedIn(m, s) :
        \A p \in CertifiedIn(m, s) : m[q].elems[s].cert <= m[p].elems[s].cert

SelectedSlow(m, s) ==
    CHOOSE q \in CertifiedIn(m, s) :
        \A p \in CertifiedIn(m, s) : m[p].elems[s].cert <= m[q].elems[s].cert

MinRelevantFastView(m, s) ==
    IF CertifiedIn(m, s) = {} THEN 0 ELSE m[SelectedSlow(m, s)].elems[s].cert + 1

FastVotes(m, s, d) ==
    {q \in DOMAIN m : /\ m[q].elems[s].dig = d
                      /\ m[q].elems[s].origin >= MinRelevantFastView(m, s)}

(* mutant: f replicas suffice *)
FastSelectedByF(m, s) == {d \in Digests : Cardinality(FastVotes(m, s, d)) >= F}

(* mutant: one vote too many is required *)
FastSelectedByMore(m, s) == {d \in Digests : Cardinality(FastVotes(m, s, d)) > F + C + 1}

FastSelected(m, s) == {d \in Digests : Cardinality(FastVotes(m, s, d)) >= F + C + 1}

RestrictionOn(m, s) ==
    IF FastSelected(m, s) # {} THEN CHOOSE d \in FastSelected(m, s) : TRUE
    ELSE IF CertifiedIn(m, s) # {} THEN m[SelectedSlow(m, s)].elems[s].dig
    ELSE Null

(* The two things a new view takes from its ViewChangeMsgs: a lower bound  *)
(* of the stable point and the restriction on each sequence number, None   *)
(* above the last sequence number some message has an element for          *)
Outcome(m) ==
    [lbStable |-> CalcLBStableForView(m),
     restriction |-> [s \in SeqNums |->
         IF \E q \in DOMAIN m, t \in s .. MaxSeq : m[q].elems[t] # NoElem
         THEN RestrictionOn(m, s) ELSE None]]

(* computeRestrictions: the sequence numbers above lb that the new view    *)
(* starts with a PrePrepare for; none when no message has an element there *)
RestrictedSeqNums(nv, lb) ==
    LET upper == lb + WorkWindow
        last == {s \in SeqNums : lb < s /\ s <= upper /\ nv.restriction[s] \in Requests}
        patched == last # {} /\ \A s \in last : s <= upper - CheckpointWindow
    IN  IF \A s \in SeqNums : s > lb => nv.restriction[s] = None
        THEN {}
        ELSE {s \in SeqNums : lb < s /\ s <= IF patched THEN upper - CheckpointWindow ELSE upper}

-----------------------------------------------------------------------------
(* Entering a view *)

(* The ViewChangeMsgs for view v a faulty replica may send: elements above *)
(* lastStable and inside its window, origin below v, and a certificate     *)
(* that verifies (an invalid one is ignored)                               *)
ByzElements(v, s) ==
    {NoElem} \cup
    {e \in [dig : Digests, origin : 0 .. v - 1, cert : {NoCert} \cup 0 .. v - 1] :
        e.cert # NoCert => e.cert <= e.origin /\ Certificate("PREPARE", e.cert, s, e.dig)}

ByzViewChangeMsgs(v) ==
    {m \in [lastStable : {x \in 0 .. MaxSeq : x % CheckpointWindow = 0},
            elems : [SeqNums -> UNION {ByzElements(v, s) : s \in SeqNums}]] :
        \A s \in SeqNums :
            /\ m.elems[s] \in ByzElements(v, s)
            /\ m.elems[s] # NoElem => m.lastStable < s /\ s <= m.lastStable + WorkWindow}

(* What a replica finds in a quorum of ViewChangeMsgs for view v *)
ViewChangeSets(v) ==
    UNION {{[q \in Q |-> IF q \in Byz THEN b[q] ELSE viewChangeMsgs[q][v]] :
                b \in [Q \cap Byz -> ByzViewChangeMsgs(v)]} :
           Q \in {R \in SUBSET Replicas :
                     /\ Cardinality(R) = ViewChangeQuorum
                     /\ \A q \in R \ Byz : viewChangeMsgs[q][v] # NoMsg}}

(* ViewsManager::tryToEnterView and ReplicaImp::onNewView, once the        *)
(* replica knows the outcome nv of the ViewChangeMsgs of the new view      *)
EnterView(r, nv) ==
    LET lb == lastStableSeqNum[r]
        R == RestrictedSeqNums(nv, lb)
        slots == [s \in SeqNums |->
            IF s \notin R THEN seqNumInfo[r][s]
            ELSE [seqNumInfo[r][s] EXCEPT
                     !.pp = IF nv.restriction[s] = None THEN Null ELSE nv.restriction[s],
                     !.slowStarted = TRUE,
                     !.isTimeCorrect = @ \/ r # Primary(curView[r])]]
    IN  /\ nv.lbStable <= lb
        /\ viewActive' = [viewActive EXCEPT ![r] = TRUE]
        /\ seqNumInfo' = [seqNumInfo EXCEPT ![r] = slots]
        /\ shares' = shares \cup UNION {PreparePartial(r, s, slots[s]) : s \in R}
        /\ UNCHANGED <<curView, viewChangeMsgs, lastExecutedSeqNum, lastStableSeqNum,
                       executed, prePrepareMsgs, startSlowMsgs>>

(* The new primary chooses a quorum with its own message in it and         *)
(* announces it in its NewViewMsg                                          *)
EnterViewAsPrimary(r) ==
    /\ ~viewActive[r] /\ r = Primary(curView[r])
    /\ \E nv \in {Outcome(m) : m \in {x \in ViewChangeSets(curView[r]) : r \in DOMAIN x}} :
        /\ newViewMsgs' = [newViewMsgs EXCEPT ![curView[r]] = nv]
        /\ EnterView(r, nv)

EnterViewAsBackup(r) ==
    /\ ~viewActive[r] /\ r # Primary(curView[r])
    /\ \E nv \in (IF Primary(curView[r]) \in Byz
                  THEN {Outcome(m) : m \in ViewChangeSets(curView[r])}
                  ELSE {newViewMsgs[curView[r]]} \ {NoNewView}) : EnterView(r, nv)
    /\ UNCHANGED newViewMsgs

-----------------------------------------------------------------------------

Next ==
    \E r \in Honest :
        \/ \E s \in SeqNums :
            \/ \E d \in Requests, path \in FirstPaths :
                \/ StartConsensusProcess(r, s, d, path)
                \/ \E ok \in BOOLEAN : OnPrePrepare(r, s, d, path, ok)
            \/ TryToStartSlowPaths(r, s)
            \/ OnStartSlowCommit(r, s)
            \/ OnPrepareFull(r, s)
            \/ OnCommitFull(r, s)
            \/ OnFullCommitProof(r, s)
            \/ OnSeqNumIsStable(r, s)
        \/ \E v \in Views : MoveToHigherView(r, v)
        \/ EnterViewAsPrimary(r)
        \/ EnterViewAsBackup(r)

Spec == Init /\ [][Next]_vars

-----------------------------------------------------------------------------
(* Properties *)

(* Every variable keeps its type. *)
TypeOK ==
    /\ curView \in [Honest -> Views]
    /\ viewActive \in [Honest -> BOOLEAN]
    /\ seqNumInfo \in [Honest -> [SeqNums -> SeqNumInfo]]
    /\ lastExecutedSeqNum \in [Honest -> 0 .. MaxSeq]
    /\ lastStableSeqNum \in [Honest -> 0 .. MaxSeq]
    /\ prePrepareMsgs \subseteq PrePrepare
    /\ startSlowMsgs \subseteq Views \X SeqNums
    /\ shares \subseteq Share
    /\ viewChangeMsgs \in [Honest -> [Views -> ViewChangeMsg \cup {NoMsg}]]
    /\ newViewMsgs \in [Views -> NewView \cup {NoNewView}]
    /\ executed \in [Honest -> [SeqNums -> Digests \cup {None}]]

(* Safety of the replicated state machine (README.md: "can handle malicious *)
(* (byzantine) replicas"): no two honest replicas execute different batches *)
(* for one sequence number, whatever path and view committed them.          *)
Agreement ==
    \A q, r \in Honest, s \in SeqNums :
        executed[q][s] # None /\ executed[r][s] # None => executed[q][s] = executed[r][s]

(* What resetAndFree and the checks of a duplicate PrePrepare leave true of *)
(* a replica's signatures: in one view it signs one batch per sequence      *)
(* number, on any path, and until it leaves the view or the number is       *)
(* stable that is the PrePrepare its log holds; it signs nothing in a view  *)
(* it has not entered.                                                      *)
SignaturesFollowLog ==
    /\ \A x, y \in shares :
           x.rep = y.rep /\ x.view = y.view /\ x.seq = y.seq => x.dig = y.dig
    /\ \A x \in shares :
           \/ x.view < curView[x.rep]
           \/ /\ x.view = curView[x.rep] /\ viewActive[x.rep]
              /\ \/ x.seq <= lastStableSeqNum[x.rep]
                 \/ seqNumInfo[x.rep][x.seq].pp = x.dig

(* The quorum sizes of the three paths: within one view, whatever          *)
(* certificates exist for a sequence number, prepared, slow or fast, are   *)
(* for the same batch.  For two prepared certificates this is the claim of *)
(* the comment in SlowElemCompare.                                         *)
CertificatesAgree ==
    \A v \in Views, s \in SeqNums :
        \A d, e \in {x \in Digests : \E t \in ShareTypes : Certificate(t, v, s, x)} : d = e

CommitCertificate(v, s, d) ==
    \E type \in FastPaths \cup {"COMMIT"} : Certificate(type, v, s, d)

(* What the restrictions of ViewChangeSafetyLogic are for: once a batch    *)
(* can be committed in view v, on either path, an honest replica working   *)
(* in a later view has no other PrePrepare for that sequence number.       *)
CommittedNeverReplaced ==
    \A v \in Views, s \in SeqNums, d \in Digests :
        CommitCertificate(v, s, d) =>
            \A r \in Honest : curView[r] > v => seqNumInfo[r][s].pp \in {None, d}

(* What exitFromCurrentView's carried certificates are for: a replica that *)
(* signed the commit of a batch reports that batch, with a prepared        *)
(* certificate of that view or a later one, in each ViewChangeMsg it sends *)
(* afterwards, unless the sequence number is stable by then.               *)
CommittedIsReported ==
    \A v \in Views, s \in SeqNums, d \in Digests :
        Certificate("COMMIT", v, s, d) =>
            \A r \in Signers("COMMIT", v, s, d) \ Byz, w \in Views :
                LET m == viewChangeMsgs[r][w]
                IN  v < w /\ m # NoMsg /\ m.lastStable < s =>
                        m.elems[s].dig = d /\ m.elems[s].cert >= v

(* The assertion primaryLastUsedSeqNum >= lastExecutedSeqNum in            *)
(* checkSendPrePrepareMsgPrerequisites: a primary never has a free         *)
(* sequence number to propose on at or below what it has executed.         *)
PrimaryNeverBehindExecution ==
    \A r \in Honest, s \in SeqNums :
        viewActive[r] /\ r = Primary(curView[r]) /\ InActiveWindow(r, s) /\ NextSeqNum(r, s)
            => s > lastExecutedSeqNum[r]

(* A batch of requests an honest replica executes was proposed for that    *)
(* sequence number by the primary of a view the replica has reached, which *)
(* may be a faulty one: faulty replicas cannot make up a digest in their   *)
(* ViewChangeMsgs, nor take one from a view that is still to come.         *)
ExecutedWasProposed ==
    \A r \in Honest, s \in SeqNums :
        executed[r][s] \in Requests =>
            \E v \in 0 .. curView[r] :
                \/ Primary(v) \in Byz
                \/ \E m \in prePrepareMsgs : m.view = v /\ m.seq = s /\ m.dig = executed[r][s]
=============================================================================
