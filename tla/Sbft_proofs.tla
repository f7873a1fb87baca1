---------------------------- MODULE Sbft_proofs ----------------------------
(***************************************************************************)
(* Proofs about Sbft, for every f, c, set of at most f faulty replicas,    *)
(* number of views and of sequence numbers: type correctness and agreement *)
(* within one view; agreement across views; what is executed was proposed. *)
(***************************************************************************)
EXTENDS Sbft, TLAPS, FiniteSetTheorems, WellFoundedInduction

(***************************************************************************)
(* Within a view: the types, and that the signatures, and so the           *)
(* certificates of every path, are for one batch per sequence number.      *)
(***************************************************************************)

-----------------------------------------------------------------------------
(* Least and greatest numbers, for the operators defined with CHOOSE *)

(* A non-empty set of natural numbers has a least element. *)
LEMMA LeastNat ==
    ASSUME NEW S \in SUBSET Nat, S # {}
    PROVE  \E x \in S : \A y \in S : x <= y
<1> DEFINE R == OpToRel(<, Nat)
<1>1. IsWellFoundedOn(R, Nat)
  BY NatLessThanWellFounded
<1>2. PICK x \in S : \A y \in S : ~(<<y, x>> \in R)
  <2> HIDE DEF R
  <2> QED BY <1>1, WFMin
<1>3. \A y \in S : ~(y < x)
  BY <1>2 DEF OpToRel
<1> QED BY <1>3

(* A non-empty set of natural numbers with a bound has a greatest element. *)
LEMMA GreatestNat ==
    ASSUME NEW b \in Nat, NEW S \in SUBSET (0 .. b), S # {}
    PROVE  \E x \in S : \A y \in S : y <= x
<1> DEFINE T == {n \in 0 .. b : b - n \in S}
<1>1. T \in SUBSET Nat /\ T # {}
  <2>1. PICK x \in S : TRUE OBVIOUS
  <2>2. b - x \in T BY <2>1
  <2> QED BY <2>2
<1>2. PICK n \in T : \A m \in T : n <= m
  <2> HIDE DEF T
  <2> QED BY <1>1, LeastNat
<1>3. \A y \in S : b - y \in T
  OBVIOUS
<1>4. \A y \in S : n <= b - y
  BY <1>2, <1>3
<1> QED BY <1>2, <1>4

-----------------------------------------------------------------------------
(* Replicas, quorums and certificates *)

(* There are finitely many replicas, N of them. *)
LEMMA ReplicasFinite ==
    /\ N \in Nat /\ N > 0
    /\ IsFiniteSet(Replicas) /\ Cardinality(Replicas) = N
    /\ IsFiniteSet(Byz) /\ Cardinality(Byz) \in Nat
<1>1. N \in Nat /\ N > 0
  BY ConfigAssumption DEF N
<1>2. IsFiniteSet(0 .. N - 1) /\ Cardinality(0 .. N - 1) = N
  <2> HIDE DEF N
  <2> QED BY <1>1, FS_Interval
<1>3. IsFiniteSet(Byz)
  BY <1>2, FS_Subset, ConfigAssumption DEF Replicas
<1> QED BY <1>1, <1>2, <1>3, FS_CardinalityType DEF Replicas

(* The signers of any message are replicas. *)
LEMMA SignersFinite ==
    ASSUME NEW t, NEW v, NEW s, NEW d
    PROVE  /\ Signers(t, v, s, d) \subseteq Replicas
           /\ IsFiniteSet(Signers(t, v, s, d))
           /\ Cardinality(Signers(t, v, s, d)) \in Nat
<1>1. Signers(t, v, s, d) \subseteq Replicas
  BY ConfigAssumption DEF Signers, Honest
<1>2. IsFiniteSet(Signers(t, v, s, d))
  BY <1>1, ReplicasFinite, FS_Subset
<1> QED BY <1>1, <1>2, FS_CardinalityType

(* Two sets of replicas as large as a slow quorum share an honest replica. *)
LEMMA QuorumsIntersect ==
    ASSUME NEW P, NEW Q, P \subseteq Replicas, Q \subseteq Replicas,
           Cardinality(P) >= SlowQuorum, Cardinality(Q) >= SlowQuorum
    PROVE  \E r \in Honest : r \in P /\ r \in Q
<1>1. /\ IsFiniteSet(P) /\ IsFiniteSet(Q) /\ IsFiniteSet(P \cap Q) /\ IsFiniteSet(P \cup Q)
      /\ Cardinality(P) \in Nat /\ Cardinality(Q) \in Nat
      /\ Cardinality(P \cap Q) \in Nat /\ Cardinality(P \cup Q) \in Nat
  <2>1. IsFiniteSet(P) /\ IsFiniteSet(Q)
    BY ReplicasFinite, FS_Subset
  <2>2. IsFiniteSet(P \cap Q) /\ IsFiniteSet(P \cup Q)
    BY <2>1, FS_Intersection, FS_Union
  <2> QED BY <2>1, <2>2, FS_CardinalityType
<1>2. Cardinality(P \cup Q) = Cardinality(P) + Cardinality(Q) - Cardinality(P \cap Q)
  BY <1>1, FS_Union
<1>3. Cardinality(P \cup Q) <= N
  <2>1. P \cup Q \in SUBSET Replicas OBVIOUS
  <2> QED BY <2>1, ReplicasFinite, FS_Subset
<1>4. Cardinality(P \cap Q) > F
  BY <1>1, <1>2, <1>3, ConfigAssumption DEF N, SlowQuorum
<1>5. ~(P \cap Q \subseteq Byz)
  <2> SUFFICES ASSUME P \cap Q \in SUBSET Byz PROVE FALSE
    OBVIOUS
  <2>1. Cardinality(P \cap Q) <= Cardinality(Byz)
    BY ReplicasFinite, FS_Subset
  <2> QED BY <2>1, <1>1, <1>4, ReplicasFinite, ConfigAssumption
<1> QED BY <1>5 DEF Honest

(* The certificate of every path needs at least a slow quorum of shares. *)
LEMMA CertificateQuorum ==
    ASSUME NEW t, NEW v, NEW s, NEW d, Certificate(t, v, s, d)
    PROVE  Cardinality(Signers(t, v, s, d)) >= SlowQuorum
<1>1. RequiredShares(t) \in Nat /\ RequiredShares(t) >= SlowQuorum
  BY ConfigAssumption DEF RequiredShares, SlowQuorum, N
<1>2. SlowQuorum \in Nat
  BY ConfigAssumption DEF SlowQuorum
<1>3. Cardinality(Signers(t, v, s, d)) >= RequiredShares(t)
  BY DEF Certificate
<1> QED BY <1>1, <1>2, <1>3, SignersFinite

-----------------------------------------------------------------------------
(* Types of the operators *)

(* Requests and null batches are digests, and None is not one. *)
LEMMA DigestFacts ==
    /\ Requests \subseteq Digests /\ Null \in Digests /\ None \notin Digests
    /\ "SLOW" \notin FastPaths
    /\ EmptySlot \in SeqNumInfo
    /\ \A slot \in SeqNumInfo : ResetAndFree(slot) \in SeqNumInfo
BY DigestAssumption DEF Digests, FastPaths, EmptySlot, SeqNumInfo, ResetAndFree

(* executeNextCommittedRequests stops at or above what was executed, and   *)
(* what it executes is committed.                                          *)
LEMMA ExecuteToType ==
    ASSUME TypeOK, NEW r \in Honest, NEW slots
    PROVE  /\ ExecuteTo(r, slots) \in lastExecutedSeqNum[r] .. MaxSeq
           /\ \A t \in lastExecutedSeqNum[r] + 1 .. ExecuteTo(r, slots) : IsCommitted(slots[t])
<1> DEFINE first == lastExecutedSeqNum[r]
           S == {n \in first .. MaxSeq : n = MaxSeq \/ ~IsCommitted(slots[n + 1])}
<1>1. first \in 0 .. MaxSeq /\ MaxSeq \in Nat
  BY BoundsAssumption DEF TypeOK
<1>2. S \in SUBSET Nat /\ S # {}
  <2>1. MaxSeq \in S BY <1>1
  <2> QED BY <1>1, <2>1
<1>3. PICK n \in S : \A m \in S : n <= m
  <2> HIDE DEF S
  <2> QED BY <1>2, LeastNat
<1>4. \A t \in first + 1 .. n : IsCommitted(slots[t])
  <2> SUFFICES ASSUME NEW t \in first + 1 .. n PROVE IsCommitted(slots[t])
    OBVIOUS
  <2>1. t - 1 \in first .. MaxSeq /\ t - 1 < n /\ t - 1 # MaxSeq /\ t - 1 + 1 = t
    BY <1>1, <1>3
  <2>2. t - 1 \notin S
    BY <1>1, <1>3, <2>1
  <2> QED BY <2>1, <2>2
<1>5. \E x \in first .. MaxSeq :
          /\ \A t \in first + 1 .. x : IsCommitted(slots[t])
          /\ x = MaxSeq \/ ~IsCommitted(slots[x + 1])
  BY <1>3, <1>4
<1> QED BY <1>5 DEF ExecuteTo

(* The element of a ViewChangeMsg. *)
LEMMA ElementOfType ==
    ASSUME TypeOK, NEW r \in Honest, NEW s \in SeqNums
    PROVE  ElementOf(r, s) \in Element
<1> DEFINE slot == seqNumInfo[r][s]
           prev == MyLatestViewChangeMsg(r).elems[s]
<1>1. slot \in SeqNumInfo /\ curView[r] \in Views
  BY DEF TypeOK
<1>2. NoElem \in Element
  BY BoundsAssumption DEF NoElem, Element, Views
<1>3. prev \in Element
  <2>1. MyLatestViewChangeMsg(r) \in ViewChangeMsg \cup {NoMsg}
    BY <1>1 DEF MyLatestViewChangeMsg, TypeOK
  <2> QED BY <2>1, <1>2 DEF ViewChangeMsg, NoMsg
<1>4. slot.pp # None => slot.pp \in Digests
  BY <1>1 DEF SeqNumInfo
<1> HIDE DEF slot, prev
<1>5. prev.cert \in Views \cup {NoCert}
  BY <1>3 DEF Element
<1>6. CASE slot.pp = None
  BY <1>6, <1>2 DEF ElementOf, slot
<1>7. CASE slot.pp # None
  <2>1. \A c \in Views \cup {NoCert} : [dig |-> slot.pp, origin |-> curView[r], cert |-> c] \in Element
    BY <1>1, <1>4, <1>7 DEF Element
  <2> QED BY <2>1, <1>1, <1>2, <1>5, <1>7 DEF ElementOf, slot, prev
<1> QED BY <1>6, <1>7

(* A ViewChangeMsg. *)
LEMMA ExitFromCurrentViewType ==
    ASSUME TypeOK, NEW r \in Honest
    PROVE  ExitFromCurrentView(r) \in ViewChangeMsg
BY ElementOfType DEF ExitFromCurrentView, ViewChangeMsg, TypeOK

(* What a replica may find in the ViewChangeMsgs of a view is a quorum of  *)
(* well-formed messages.                                                   *)
IsViewChangeSet(m) ==
    \E Q \in SUBSET Replicas :
        Cardinality(Q) = ViewChangeQuorum /\ m \in [Q -> ViewChangeMsg]

(* A faulty replica's ViewChangeMsg is well-formed. *)
LEMMA ByzViewChangeMsgsType ==
    ASSUME NEW v \in Views
    PROVE  ByzViewChangeMsgs(v) \subseteq ViewChangeMsg
<1>1. \A s \in SeqNums : ByzElements(v, s) \subseteq Element
  <2>1. 0 .. v - 1 \subseteq Views /\ 0 \in Views
    BY BoundsAssumption DEF Views
  <2>2. NoElem \in Element
    BY <2>1 DEF NoElem, Element
  <2>3. [dig : Digests, origin : 0 .. v - 1, cert : {NoCert} \cup 0 .. v - 1] \subseteq Element
    BY <2>1 DEF Element
  <2> QED BY <2>2, <2>3 DEF ByzElements
<1> SUFFICES ASSUME NEW m \in ByzViewChangeMsgs(v) PROVE m \in ViewChangeMsg
  OBVIOUS
<1> DEFINE E == UNION {ByzElements(v, s) : s \in SeqNums}
<1>2. E \subseteq Element
  BY <1>1
<1>3. m \in [lastStable : {x \in 0 .. MaxSeq : x % CheckpointWindow = 0}, elems : [SeqNums -> E]]
  BY DEF ByzViewChangeMsgs
<1> QED
  <2> HIDE DEF E
  <2> QED BY <1>2, <1>3 DEF ViewChangeMsg

(* What a replica finds in a quorum of ViewChangeMsgs has the shape of one. *)
LEMMA ViewChangeSetsType ==
    ASSUME TypeOK, NEW v \in Views, NEW m \in ViewChangeSets(v)
    PROVE  IsViewChangeSet(m)
<1>1. PICK Q \in SUBSET Replicas :
          /\ Cardinality(Q) = ViewChangeQuorum
          /\ \A q \in Q \ Byz : viewChangeMsgs[q][v] # NoMsg
          /\ \E b \in [Q \cap Byz -> ByzViewChangeMsgs(v)] :
                m = [q \in Q |-> IF q \in Byz THEN b[q] ELSE viewChangeMsgs[q][v]]
  BY DEF ViewChangeSets
<1>2. PICK b \in [Q \cap Byz -> ByzViewChangeMsgs(v)] :
          m = [q \in Q |-> IF q \in Byz THEN b[q] ELSE viewChangeMsgs[q][v]]
  BY <1>1
<1>3. \A q \in Q : q \in Byz => b[q] \in ViewChangeMsg
  BY <1>2, ByzViewChangeMsgsType
<1>4. \A q \in Q : q \notin Byz => viewChangeMsgs[q][v] \in ViewChangeMsg
  <2> SUFFICES ASSUME NEW q \in Q, q \notin Byz PROVE viewChangeMsgs[q][v] \in ViewChangeMsg
    OBVIOUS
  <2>1. q \in Honest
    BY DEF Honest
  <2> QED BY <1>1, <2>1 DEF TypeOK
<1>5. m \in [Q -> ViewChangeMsg]
  BY <1>2, <1>3, <1>4
<1> QED BY <1>1, <1>5 DEF IsViewChangeSet

(* calcLBStableForView returns one of the reported stable points. *)
LEMMA CalcLBStableType ==
    ASSUME NEW m, IsViewChangeSet(m)
    PROVE  CalcLBStableForView(m) \in 0 .. MaxSeq
<1>1. PICK Q \in SUBSET Replicas :
          Cardinality(Q) = ViewChangeQuorum /\ m \in [Q -> ViewChangeMsg]
  BY DEF IsViewChangeSet
<1> DEFINE Above(x) == {q \in Q : m[q].lastStable > x}
           From(x) == {q \in Q : m[q].lastStable >= x}
           S == {x \in 0 .. MaxSeq : Cardinality(Above(x)) <= F}
<1>2. \A q \in Q : m[q].lastStable \in 0 .. MaxSeq
  BY <1>1 DEF ViewChangeMsg
<1>3. IsFiniteSet(Q) /\ Cardinality(Q) >= F + 1
  BY <1>1, ReplicasFinite, FS_Subset, ConfigAssumption DEF ViewChangeQuorum
<1>4. \A x : /\ IsFiniteSet(Above(x)) /\ Cardinality(Above(x)) \in Nat
              /\ IsFiniteSet(From(x)) /\ Cardinality(From(x)) \in Nat
  <2> TAKE x
  <2>1. Above(x) \in SUBSET Q /\ From(x) \in SUBSET Q
    OBVIOUS
  <2>2. IsFiniteSet(Above(x)) /\ IsFiniteSet(From(x))
    <3> HIDE DEF Above, From
    <3> QED BY <1>3, <2>1, FS_Subset
  <2> QED
    <3> HIDE DEF Above, From
    <3> QED BY <2>2, FS_CardinalityType
<1>5. S \in SUBSET Nat /\ S # {}
  <2>1. Above(MaxSeq) = {}
    BY <1>2, BoundsAssumption
  <2>2. Cardinality(Above(MaxSeq)) <= F
    BY <2>1, FS_EmptySet, ConfigAssumption
  <2>3. MaxSeq \in 0 .. MaxSeq
    BY BoundsAssumption
  <2>4. MaxSeq \in S
    BY <2>2, <2>3
  <2>5. S \subseteq Nat
    BY BoundsAssumption
  <2> QED BY <2>4, <2>5
<1>6. PICK x \in S : \A y \in S : x <= y
  <2> HIDE DEF S
  <2> QED BY <1>5, LeastNat
<1>7. Cardinality(From(x)) >= F + 1
  <2>1. CASE x = 0
    <3>1. From(x) = Q
      BY <1>2, <2>1
    <3> QED BY <3>1, <1>3
  <2>2. CASE x # 0
    <3>1. x - 1 \in 0 .. MaxSeq /\ x - 1 \notin S
      BY <1>6, <2>2, BoundsAssumption
    <3>2. From(x) = Above(x - 1)
      BY <1>2, <1>6, BoundsAssumption
    <3>3. ~(Cardinality(Above(x - 1)) <= F)
      BY <3>1
    <3> QED
      <4> HIDE DEF Above, From, S
      <4> QED BY <3>2, <3>3, <1>4, ConfigAssumption
  <2> QED BY <2>1, <2>2
<1>8. Cardinality(Above(x)) <= F
  BY <1>6
<1>9. \E q \in Q : m[q].lastStable = x
  <2>1. From(x) # Above(x)
    <3> HIDE DEF Above, From
    <3> QED BY <1>4, <1>7, <1>8, ConfigAssumption
  <2> QED BY <2>1, <1>2, <1>6, BoundsAssumption
<1>10. DOMAIN m = Q
  BY <1>1
<1>11. \E y \in {m[q].lastStable : q \in DOMAIN m} :
          /\ Cardinality({q \in DOMAIN m : m[q].lastStable >= y}) >= F + 1
          /\ Cardinality({q \in DOMAIN m : m[q].lastStable > y}) <= F
  BY <1>7, <1>8, <1>9, <1>10
<1>12. CalcLBStableForView(m) \in {m[q].lastStable : q \in DOMAIN m}
  BY <1>11 DEF CalcLBStableForView
<1> QED BY <1>2, <1>10, <1>12

(* The certificate selected for the slow path is one of the messages', of  *)
(* the highest view.                                                       *)
LEMMA SelectedSlowType ==
    ASSUME NEW m, IsViewChangeSet(m), NEW s \in SeqNums, CertifiedIn(m, s) # {}
    PROVE  /\ SelectedSlow(m, s) \in CertifiedIn(m, s)
           /\ \A p \in CertifiedIn(m, s) :
                  m[p].elems[s].cert <= m[SelectedSlow(m, s)].elems[s].cert
<1>1. PICK Q \in SUBSET Replicas :
          Cardinality(Q) = ViewChangeQuorum /\ m \in [Q -> ViewChangeMsg]
  BY DEF IsViewChangeSet
<1> DEFINE K == CertifiedIn(m, s)
           S == {m[q].elems[s].cert : q \in K}
<1>2. \A q \in K : m[q].elems[s].cert \in 0 .. MaxView
  <2> SUFFICES ASSUME NEW q \in K PROVE m[q].elems[s].cert \in 0 .. MaxView
    OBVIOUS
  <2>1. q \in Q /\ m[q].elems[s].cert # NoCert
    BY <1>1 DEF CertifiedIn
  <2>2. m[q].elems[s] \in Element
    BY <1>1, <2>1 DEF ViewChangeMsg
  <2> QED BY <2>1, <2>2 DEF Element, Views
<1>3. S \in SUBSET (0 .. MaxView) /\ S # {}
  <2> HIDE DEF K
  <2>1. K # {} BY DEF K
  <2> QED BY <1>2, <2>1
<1>4. PICK x \in S : \A y \in S : y <= x
  <2> HIDE DEF S
  <2> QED BY <1>3, GreatestNat, BoundsAssumption
<1>5. PICK q \in K : m[q].elems[s].cert = x
  BY <1>4
<1>6. \A p \in K : m[p].elems[s].cert <= m[q].elems[s].cert
  BY <1>4, <1>5
<1> QED BY <1>5, <1>6 DEF SelectedSlow

(* A sequence number is restricted to a digest. *)
LEMMA RestrictionType ==
    ASSUME NEW m, IsViewChangeSet(m), NEW s \in SeqNums
    PROVE  RestrictionOn(m, s) \in Digests \cup {None}
<1>1. PICK Q \in SUBSET Replicas : m \in [Q -> ViewChangeMsg]
  BY DEF IsViewChangeSet
<1>2. CASE FastSelected(m, s) # {}
  <2>1. (CHOOSE d \in FastSelected(m, s) : TRUE) \in FastSelected(m, s)
    BY <1>2
  <2>2. FastSelected(m, s) \subseteq Digests
    BY DEF FastSelected
  <2> QED BY <1>2, <2>1, <2>2 DEF RestrictionOn
<1>3. CASE FastSelected(m, s) = {} /\ CertifiedIn(m, s) # {}
  <2>1. SelectedSlow(m, s) \in Q
    BY <1>1, <1>3, SelectedSlowType DEF CertifiedIn
  <2>2. m[SelectedSlow(m, s)].elems[s] \in Element
    BY <1>1, <2>1 DEF ViewChangeMsg
  <2>3. m[SelectedSlow(m, s)].elems[s].dig \in Digests \cup {None}
    BY <2>2 DEF Element
  <2> QED BY <1>3, <2>3 DEF RestrictionOn
<1>4. CASE FastSelected(m, s) = {} /\ CertifiedIn(m, s) = {}
  BY <1>4, DigestFacts DEF RestrictionOn
<1> QED BY <1>2, <1>3, <1>4

(* A NewViewMsg determines a stable point and a digest or None per number. *)
LEMMA OutcomeType ==
    ASSUME NEW m, IsViewChangeSet(m)
    PROVE  Outcome(m) \in NewView
BY CalcLBStableType, RestrictionType DEF Outcome, NewView

-----------------------------------------------------------------------------
(* Steps that add to one replica's log *)

(* The inductive invariant. *)
IInv == TypeOK /\ SignaturesFollowLog

(* A step at replica r in a view it stays in: what it signs is what its log *)
(* now holds above the stable point, and a PrePrepare once added to the log *)
(* of an active view stays there.                                           *)
LEMMA SignaturesStep ==
    ASSUME IInv, TypeOK', NEW r \in Honest, NEW new \in SUBSET Share,
           shares' = shares \cup new, UNCHANGED curView,
           \A q \in Honest : /\ lastStableSeqNum[q] <= lastStableSeqNum'[q]
                             /\ viewActive[q] => viewActive'[q],
           \A q \in Honest, t \in SeqNums :
               viewActive[q] /\ seqNumInfo[q][t].pp # None /\ t > lastStableSeqNum'[q]
                   => seqNumInfo'[q][t].pp = seqNumInfo[q][t].pp,
           new # {} => viewActive'[r],
           \A x \in new : /\ x.rep = r /\ x.view = curView[r]
                          /\ x.seq > lastStableSeqNum'[r]
                          /\ seqNumInfo'[r][x.seq].pp = x.dig
    PROVE  SignaturesFollowLog'
<1>1. \A x \in Share : /\ x.rep \in Honest /\ x.seq \in SeqNums /\ x.dig \in Digests
                       /\ x.view \in Nat /\ x.seq \in Nat
  BY BoundsAssumption DEF Share, Views, SeqNums
<1>2. \A q \in Honest : /\ lastStableSeqNum[q] \in Nat /\ lastStableSeqNum'[q] \in Nat
                        /\ curView[q] \in Nat
  BY BoundsAssumption DEF IInv, TypeOK, Views
<1>3. shares \subseteq Share
  BY DEF IInv, TypeOK
<1>4. \A x \in shares :
          \/ x.view < curView[x.rep]
          \/ /\ x.view = curView[x.rep] /\ viewActive'[x.rep]
             /\ \/ x.seq <= lastStableSeqNum'[x.rep]
                \/ seqNumInfo'[x.rep][x.seq].pp = x.dig
  <2> SUFFICES ASSUME NEW x \in shares, ~(x.view < curView[x.rep])
               PROVE  /\ x.view = curView[x.rep] /\ viewActive'[x.rep]
                      /\ \/ x.seq <= lastStableSeqNum'[x.rep]
                         \/ seqNumInfo'[x.rep][x.seq].pp = x.dig
    OBVIOUS
  <2>1. x.rep \in Honest /\ x.seq \in SeqNums /\ x.dig \in Digests /\ x.seq \in Nat
    BY <1>1, <1>3
  <2>2. /\ x.view = curView[x.rep] /\ viewActive[x.rep]
        /\ x.seq <= lastStableSeqNum[x.rep] \/ seqNumInfo[x.rep][x.seq].pp = x.dig
    BY DEF IInv, SignaturesFollowLog
  <2>3. CASE x.seq <= lastStableSeqNum'[x.rep]
    BY <2>1, <2>2, <2>3
  <2>4. CASE ~(x.seq <= lastStableSeqNum'[x.rep])
    BY <1>2, <2>1, <2>2, <2>4, DigestFacts
  <2> QED BY <2>3, <2>4
<1>5. \A x \in new : /\ x.view = curView[x.rep] /\ viewActive'[x.rep]
                     /\ seqNumInfo'[x.rep][x.seq].pp = x.dig
  OBVIOUS
<1>6. \A x \in shares, y \in new :
          x.rep = y.rep /\ x.view = y.view /\ x.seq = y.seq => x.dig = y.dig
  BY <1>1, <1>2, <1>3, <1>4
<1>7. \A x, y \in new :
          x.rep = y.rep /\ x.view = y.view /\ x.seq = y.seq => x.dig = y.dig
  OBVIOUS
<1>8. \A x, y \in shares :
          x.rep = y.rep /\ x.view = y.view /\ x.seq = y.seq => x.dig = y.dig
  BY DEF IInv, SignaturesFollowLog
<1>9. \A x, y \in shares' :
          x.rep = y.rep /\ x.view = y.view /\ x.seq = y.seq => x.dig = y.dig
  BY <1>6, <1>7, <1>8
<1> QED BY <1>4, <1>5, <1>9 DEF SignaturesFollowLog

(* The initial state satisfies the inductive invariant. *)
LEMMA InitIInv == Init => IInv
<1> SUFFICES ASSUME Init PROVE IInv
  OBVIOUS
<1>1. 0 \in Views /\ 0 \in 0 .. MaxSeq
  BY BoundsAssumption DEF Views
<1>2. TypeOK
  BY <1>1, DigestFacts DEF Init, TypeOK
<1>3. SignaturesFollowLog
  BY DEF Init, SignaturesFollowLog
<1> QED BY <1>2, <1>3 DEF IInv

(* A PrePrepare added to a free slot of the active window. *)
LEMMA AddPrePrepareStep ==
    ASSUME IInv, NEW r \in Honest, NEW s \in SeqNums, NEW slot \in SeqNumInfo,
           slot.pp \in Digests, NEW path \in FirstPaths, StartConsensus(r, s, slot, path),
           RelevantForActiveView(r, s), seqNumInfo[r][s].pp = None,
           UNCHANGED <<lastExecutedSeqNum, lastStableSeqNum, executed, viewVars, startSlowMsgs>>,
           prePrepareMsgs' \subseteq PrePrepare
    PROVE  IInv'
<1>1. TypeOK
  BY DEF IInv
<1>2. /\ seqNumInfo' \in [Honest -> [SeqNums -> SeqNumInfo]]
      /\ seqNumInfo'[r][s].pp = slot.pp
      /\ \A q \in Honest, t \in SeqNums :
             q # r \/ t # s => seqNumInfo'[q][t] = seqNumInfo[q][t]
      /\ \E new \in SUBSET Share :
             /\ shares' = shares \cup new
             /\ \A x \in new : x.rep = r /\ x.view = curView[r] /\ x.seq = s
                                /\ x.dig = slot.pp
  <2> DEFINE slow == path = "SLOW" \/ slot.slowStarted
             new == [slot EXCEPT !.slowStarted = slow, !.fastPath = IF slow THEN None ELSE path]
             sent == IF slow THEN PreparePartial(r, s, new) ELSE PartialProof(r, s, new)
  <2>1. /\ seqNumInfo' = [seqNumInfo EXCEPT ![r][s] = new]
        /\ shares' = shares \cup sent
    BY DEF StartConsensus
  <2>2. slow \in BOOLEAN /\ (~slow => path \in FastPaths)
    BY PathsAssumption DEF SeqNumInfo
  <2>3. new \in SeqNumInfo /\ new.pp = slot.pp /\ (~slow => new.fastPath = path)
    <3> HIDE DEF slow
    <3> QED BY <2>2 DEF SeqNumInfo
  <2> HIDE DEF slow, new
  <2>4. curView[r] \in Views
    BY <1>1 DEF TypeOK
  <2>5. \A x \in sent : /\ x \in Share /\ x.rep = r /\ x.view = curView[r]
                        /\ x.seq = s /\ x.dig = slot.pp
    <3>1. CASE slow
      BY <2>3, <2>4, <3>1 DEF PreparePartial, ShareOf, Share, ShareTypes
    <3>2. CASE ~slow
      BY <2>2, <2>3, <2>4, <3>2 DEF PartialProof, ShareOf, Share, ShareTypes
    <3> QED BY <3>1, <3>2
  <2> HIDE DEF sent
  <2>6. seqNumInfo' \in [Honest -> [SeqNums -> SeqNumInfo]]
    BY <1>1, <2>1, <2>3 DEF TypeOK
  <2>7. /\ seqNumInfo'[r][s].pp = slot.pp
        /\ \A q \in Honest, t \in SeqNums :
               q # r \/ t # s => seqNumInfo'[q][t] = seqNumInfo[q][t]
    BY <1>1, <2>1, <2>3 DEF TypeOK
  <2> QED BY <2>1, <2>5, <2>6, <2>7
<1>3. PICK new \in SUBSET Share :
          /\ shares' = shares \cup new
          /\ \A x \in new : x.rep = r /\ x.view = curView[r] /\ x.seq = s /\ x.dig = slot.pp
  BY <1>2
<1>4. TypeOK'
  BY <1>1, <1>2, <1>3 DEF TypeOK, viewVars
<1>5. UNCHANGED <<curView, viewActive, lastStableSeqNum>>
  BY DEF viewVars
<1>6. \A q \in Honest : /\ lastStableSeqNum[q] <= lastStableSeqNum'[q]
                        /\ viewActive[q] => viewActive'[q]
  BY <1>1, <1>5 DEF TypeOK
<1>7. \A q \in Honest, t \in SeqNums :
          viewActive[q] /\ seqNumInfo[q][t].pp # None /\ t > lastStableSeqNum'[q]
              => seqNumInfo'[q][t].pp = seqNumInfo[q][t].pp
  BY <1>2
<1>8. viewActive'[r] /\ s > lastStableSeqNum'[r]
  BY <1>1, <1>5 DEF RelevantForActiveView, InActiveWindow, SeqNums, TypeOK
<1>9. \A x \in new : /\ x.rep = r /\ x.view = curView[r]
                     /\ x.seq > lastStableSeqNum'[r]
                     /\ seqNumInfo'[r][x.seq].pp = x.dig
  BY <1>2, <1>3, <1>8
<1>10. SignaturesFollowLog'
  BY <1>3, <1>4, <1>5, <1>6, <1>7, <1>8, <1>9, SignaturesStep
<1> QED BY <1>4, <1>10 DEF IInv

(* startConsensusProcess keeps the inductive invariant. *)
LEMMA StartConsensusProcessStep ==
    ASSUME IInv, NEW r \in Honest, NEW s \in SeqNums, NEW d \in Requests, NEW path \in FirstPaths,
           StartConsensusProcess(r, s, d, path)
    PROVE  IInv'
<1> DEFINE slot == [seqNumInfo[r][s] EXCEPT !.pp = d]
<1>1. seqNumInfo[r][s] \in SeqNumInfo /\ curView[r] \in Views /\ prePrepareMsgs \subseteq PrePrepare
  BY DEF IInv, TypeOK
<1>2. slot \in SeqNumInfo /\ slot.pp \in Digests
  BY <1>1, DigestFacts DEF SeqNumInfo
<1>3. prePrepareMsgs' \subseteq PrePrepare
  BY <1>1 DEF StartConsensusProcess, PrePrepare
<1>4. /\ StartConsensus(r, s, slot, path) /\ RelevantForActiveView(r, s)
      /\ seqNumInfo[r][s].pp = None
      /\ UNCHANGED <<lastExecutedSeqNum, lastStableSeqNum, executed, viewVars, startSlowMsgs>>
  BY DEF StartConsensusProcess, NextSeqNum
<1> HIDE DEF slot
<1> QED BY <1>2, <1>3, <1>4, AddPrePrepareStep

(* onMessage<PrePrepareMsg> keeps the inductive invariant. *)
LEMMA OnPrePrepareStep ==
    ASSUME IInv, NEW r \in Honest, NEW s \in SeqNums, NEW d \in Requests, NEW path \in FirstPaths,
           NEW ok \in BOOLEAN, OnPrePrepare(r, s, d, path, ok)
    PROVE  IInv'
<1> DEFINE slot == [seqNumInfo[r][s] EXCEPT !.pp = d, !.isTimeCorrect = ok]
<1>1. seqNumInfo[r][s] \in SeqNumInfo /\ prePrepareMsgs \subseteq PrePrepare
  BY DEF IInv, TypeOK
<1>2. slot \in SeqNumInfo /\ slot.pp \in Digests
  BY <1>1, DigestFacts DEF SeqNumInfo
<1>3. prePrepareMsgs' \subseteq PrePrepare
  BY <1>1 DEF OnPrePrepare
<1>4. /\ StartConsensus(r, s, slot, path) /\ RelevantForActiveView(r, s)
      /\ seqNumInfo[r][s].pp = None
      /\ UNCHANGED <<lastExecutedSeqNum, lastStableSeqNum, executed, viewVars, startSlowMsgs>>
  BY DEF OnPrePrepare
<1> HIDE DEF slot
<1> QED BY <1>2, <1>3, <1>4, AddPrePrepareStep

(* A step that starts the slow path signs for the PrePrepare of the slot. *)
LEMMA StartSlowPathStep ==
    ASSUME IInv, NEW r \in Honest, NEW s \in SeqNums, StartSlowPath(r, s),
           startSlowMsgs' \subseteq Views \X SeqNums
    PROVE  IInv'
<1> DEFINE slot == seqNumInfo[r][s]
           new == IF slot.pp = None THEN {} ELSE PreparePartial(r, s, slot)
<1>1. TypeOK /\ slot \in SeqNumInfo /\ curView[r] \in Views
  BY DEF IInv, TypeOK
<1>2. /\ seqNumInfo' = [seqNumInfo EXCEPT ![r][s].slowStarted = TRUE]
      /\ shares' = shares \cup new
      /\ UNCHANGED <<curView, viewActive, lastStableSeqNum>>
      /\ viewActive[r] /\ lastStableSeqNum[r] < s
  BY DEF StartSlowPath, RelevantForActiveView, InActiveWindow, viewVars
<1>3. /\ seqNumInfo' \in [Honest -> [SeqNums -> SeqNumInfo]]
      /\ \A q \in Honest, t \in SeqNums : seqNumInfo'[q][t].pp = seqNumInfo[q][t].pp
  BY <1>1, <1>2 DEF TypeOK, SeqNumInfo
<1>4. \A x \in new : /\ x \in Share /\ x.rep = r /\ x.view = curView[r]
                     /\ x.seq = s /\ x.dig = slot.pp
  <2>1. slot.pp # None => slot.pp \in Digests
    BY <1>1 DEF SeqNumInfo
  <2> HIDE DEF slot
  <2> QED BY <1>1, <2>1 DEF PreparePartial, ShareOf, Share, ShareTypes
<1> HIDE DEF new
<1>5. TypeOK'
  BY <1>1, <1>2, <1>3, <1>4 DEF TypeOK, StartSlowPath, viewVars
<1>6. \A q \in Honest : /\ lastStableSeqNum[q] <= lastStableSeqNum'[q]
                        /\ viewActive[q] => viewActive'[q]
  BY <1>1, <1>2 DEF TypeOK
<1>7. \A q \in Honest, t \in SeqNums :
          viewActive[q] /\ seqNumInfo[q][t].pp # None /\ t > lastStableSeqNum'[q]
              => seqNumInfo'[q][t].pp = seqNumInfo[q][t].pp
  BY <1>3
<1>8. viewActive'[r] /\ s > lastStableSeqNum'[r]
  BY <1>1, <1>2 DEF SeqNums, TypeOK
<1>9. \A x \in new : /\ x.rep = r /\ x.view = curView[r]
                     /\ x.seq > lastStableSeqNum'[r]
                     /\ seqNumInfo'[r][x.seq].pp = x.dig
  BY <1>3, <1>4, <1>8
<1>10. new \in SUBSET Share
  BY <1>4
<1>11. SignaturesFollowLog'
  BY <1>2, <1>5, <1>6, <1>7, <1>8, <1>9, <1>10, SignaturesStep
<1> QED BY <1>5, <1>11 DEF IInv

(* tryToStartSlowPaths keeps the inductive invariant. *)
LEMMA TryToStartSlowPathsStep ==
    ASSUME IInv, NEW r \in Honest, NEW s \in SeqNums, TryToStartSlowPaths(r, s)
    PROVE  IInv'
<1>1. startSlowMsgs' \subseteq Views \X SeqNums
  BY DEF TryToStartSlowPaths, IInv, TypeOK
<1> QED BY <1>1, StartSlowPathStep DEF TryToStartSlowPaths

(* onMessage<StartSlowCommitMsg> keeps the inductive invariant. *)
LEMMA OnStartSlowCommitStep ==
    ASSUME IInv, NEW r \in Honest, NEW s \in SeqNums, OnStartSlowCommit(r, s)
    PROVE  IInv'
<1>1. startSlowMsgs' \subseteq Views \X SeqNums
  BY DEF OnStartSlowCommit, IInv, TypeOK
<1> QED BY <1>1, StartSlowPathStep DEF OnStartSlowCommit

(* A prepare certificate at a replica keeps the inductive invariant. *)
LEMMA OnPrepareFullStep ==
    ASSUME IInv, NEW r \in Honest, NEW s \in SeqNums, OnPrepareFull(r, s)
    PROVE  IInv'
<1> DEFINE slot == seqNumInfo[r][s]
           new == CommitPartial(r, s, slot)
<1>1. TypeOK /\ slot \in SeqNumInfo /\ curView[r] \in Views
  BY DEF IInv, TypeOK
<1>2. /\ seqNumInfo' = [seqNumInfo EXCEPT ![r][s].prepareFull = TRUE]
      /\ shares' = shares \cup new
      /\ UNCHANGED <<curView, viewActive, lastStableSeqNum>>
      /\ viewActive[r] /\ lastStableSeqNum[r] < s /\ slot.pp # None
  BY DEF OnPrepareFull, RelevantForActiveView, InActiveWindow, viewVars
<1>3. /\ seqNumInfo' \in [Honest -> [SeqNums -> SeqNumInfo]]
      /\ \A q \in Honest, t \in SeqNums : seqNumInfo'[q][t].pp = seqNumInfo[q][t].pp
  BY <1>1, <1>2 DEF TypeOK, SeqNumInfo
<1>4. \A x \in new : /\ x \in Share /\ x.rep = r /\ x.view = curView[r]
                     /\ x.seq = s /\ x.dig = slot.pp
  <2>1. slot.pp \in Digests
    BY <1>1, <1>2 DEF SeqNumInfo
  <2> HIDE DEF slot
  <2> QED BY <1>1, <2>1 DEF CommitPartial, ShareOf, Share, ShareTypes
<1> HIDE DEF new
<1>5. TypeOK'
  BY <1>1, <1>2, <1>3, <1>4 DEF TypeOK, OnPrepareFull, viewVars
<1>6. \A q \in Honest : /\ lastStableSeqNum[q] <= lastStableSeqNum'[q]
                        /\ viewActive[q] => viewActive'[q]
  BY <1>1, <1>2 DEF TypeOK
<1>7. \A q \in Honest, t \in SeqNums :
          viewActive[q] /\ seqNumInfo[q][t].pp # None /\ t > lastStableSeqNum'[q]
              => seqNumInfo'[q][t].pp = seqNumInfo[q][t].pp
  BY <1>3
<1>8. viewActive'[r] /\ s > lastStableSeqNum'[r]
  BY <1>1, <1>2 DEF SeqNums, TypeOK
<1>9. \A x \in new : /\ x.rep = r /\ x.view = curView[r]
                     /\ x.seq > lastStableSeqNum'[r]
                     /\ seqNumInfo'[r][x.seq].pp = x.dig
  BY <1>3, <1>4, <1>8
<1>10. new \in SUBSET Share
  BY <1>4
<1>11. SignaturesFollowLog'
  BY <1>2, <1>5, <1>6, <1>7, <1>8, <1>9, <1>10, SignaturesStep
<1> QED BY <1>5, <1>11 DEF IInv

(* A step that signs nothing and keeps the PrePrepares of the log. *)
LEMMA SilentStep ==
    ASSUME IInv, TypeOK', UNCHANGED <<shares, curView, viewActive>>,
           \A q \in Honest : lastStableSeqNum[q] <= lastStableSeqNum'[q],
           \A q \in Honest, t \in SeqNums :
               t > lastStableSeqNum'[q] => seqNumInfo'[q][t].pp = seqNumInfo[q][t].pp
    PROVE  IInv'
<1>1. shares \subseteq Share
  BY DEF IInv, TypeOK
<1>2. \A x \in shares : /\ x.rep \in Honest /\ x.seq \in SeqNums /\ x.seq \in Nat
                        /\ lastStableSeqNum[x.rep] \in Nat /\ lastStableSeqNum'[x.rep] \in Nat
  BY <1>1, BoundsAssumption DEF Share, SeqNums, IInv, TypeOK
<1>3. \A x \in shares :
          \/ x.view < curView[x.rep]
          \/ /\ x.view = curView[x.rep] /\ viewActive[x.rep]
             /\ \/ x.seq <= lastStableSeqNum'[x.rep]
                \/ seqNumInfo'[x.rep][x.seq].pp = x.dig
  BY <1>2 DEF IInv, SignaturesFollowLog
<1>4. SignaturesFollowLog'
  BY <1>3 DEF SignaturesFollowLog, IInv
<1> QED BY <1>4 DEF IInv

(* Committing and executing what follows in sequence keeps the invariant. *)
LEMMA CommitStep ==
    ASSUME IInv, NEW r \in Honest, NEW s \in SeqNums, NEW slot \in SeqNumInfo,
           slot.pp = seqNumInfo[r][s].pp, Commit(r, s, slot)
    PROVE  IInv'
<1> DEFINE slots == [seqNumInfo[r] EXCEPT ![s] = slot]
           last == ExecuteTo(r, slots)
<1>1. TypeOK
  BY DEF IInv
<1>2. /\ slots \in [SeqNums -> SeqNumInfo]
      /\ \A t \in SeqNums : slots[t].pp = seqNumInfo[r][t].pp /\ slots[t].pp \in Digests \cup {None}
  BY <1>1 DEF TypeOK, SeqNumInfo
<1> HIDE DEF slots
<1>3. last \in 0 .. MaxSeq
  <2>1. last \in lastExecutedSeqNum[r] .. MaxSeq
    BY <1>1, ExecuteToType
  <2>2. lastExecutedSeqNum[r] \in 0 .. MaxSeq
    BY <1>1 DEF TypeOK
  <2> HIDE DEF last
  <2> QED BY <2>1, <2>2
<1> HIDE DEF last
<1>4. /\ seqNumInfo' = [seqNumInfo EXCEPT ![r] = slots]
      /\ lastExecutedSeqNum' = [lastExecutedSeqNum EXCEPT ![r] = last]
      /\ executed' = [executed EXCEPT ![r] =
             [t \in SeqNums |-> IF lastExecutedSeqNum[r] < t /\ t <= last
                                THEN slots[t].pp ELSE executed[r][t]]]
      /\ UNCHANGED <<lastStableSeqNum, viewVars, netVars>>
  BY <1>1 DEF Commit, slots, last, TypeOK
<1>5. TypeOK'
  BY <1>1, <1>2, <1>3, <1>4 DEF TypeOK, viewVars, netVars
<1>6. UNCHANGED <<shares, curView, viewActive, lastStableSeqNum>>
  BY <1>4 DEF viewVars, netVars
<1>7. \A q \in Honest, t \in SeqNums : seqNumInfo'[q][t].pp = seqNumInfo[q][t].pp
  BY <1>1, <1>2, <1>4 DEF TypeOK
<1>8. \A q \in Honest : lastStableSeqNum[q] <= lastStableSeqNum'[q]
  BY <1>1, <1>6 DEF TypeOK
<1> QED BY <1>5, <1>6, <1>7, <1>8, SilentStep

(* A commit certificate at a replica keeps the inductive invariant. *)
LEMMA OnCommitFullStep ==
    ASSUME IInv, NEW r \in Honest, NEW s \in SeqNums, OnCommitFull(r, s)
    PROVE  IInv'
<1> DEFINE slot == [seqNumInfo[r][s] EXCEPT !.commitFull = TRUE]
<1>1. seqNumInfo[r][s] \in SeqNumInfo
  BY DEF IInv, TypeOK
<1>2. slot \in SeqNumInfo /\ slot.pp = seqNumInfo[r][s].pp
  BY <1>1 DEF SeqNumInfo
<1>3. Commit(r, s, slot)
  BY DEF OnCommitFull
<1> HIDE DEF slot
<1> QED BY <1>2, <1>3, CommitStep

(* A fast path proof at a replica keeps the inductive invariant. *)
LEMMA OnFullCommitProofStep ==
    ASSUME IInv, NEW r \in Honest, NEW s \in SeqNums, OnFullCommitProof(r, s)
    PROVE  IInv'
<1> DEFINE slot == [seqNumInfo[r][s] EXCEPT !.forcedCompleted = TRUE]
<1>1. seqNumInfo[r][s] \in SeqNumInfo
  BY DEF IInv, TypeOK
<1>2. slot \in SeqNumInfo /\ slot.pp = seqNumInfo[r][s].pp
  BY <1>1 DEF SeqNumInfo
<1>3. Commit(r, s, slot)
  BY DEF OnFullCommitProof
<1> HIDE DEF slot
<1> QED BY <1>2, <1>3, CommitStep

(* onSeqNumIsStable keeps the inductive invariant. *)
LEMMA OnSeqNumIsStableStep ==
    ASSUME IInv, NEW r \in Honest, NEW s \in SeqNums, OnSeqNumIsStable(r, s)
    PROVE  IInv'
<1>1. TypeOK /\ lastStableSeqNum[r] < s
  BY DEF IInv, OnSeqNumIsStable
<1>2. /\ lastStableSeqNum' = [lastStableSeqNum EXCEPT ![r] = s]
      /\ seqNumInfo' = [seqNumInfo EXCEPT ![r] =
             [t \in SeqNums |-> IF t <= s THEN ResetAndFree(seqNumInfo[r][t]) ELSE seqNumInfo[r][t]]]
      /\ UNCHANGED <<lastExecutedSeqNum, executed, viewVars, netVars>>
  BY <1>1 DEF OnSeqNumIsStable, TypeOK
<1>3. TypeOK'
  <2>1. seqNumInfo' \in [Honest -> [SeqNums -> SeqNumInfo]]
    BY <1>1, <1>2, DigestFacts DEF TypeOK
  <2>2. lastStableSeqNum' \in [Honest -> 0 .. MaxSeq]
    BY <1>1, <1>2 DEF TypeOK, SeqNums
  <2> QED BY <1>1, <1>2, <2>1, <2>2 DEF TypeOK, viewVars, netVars
<1>4. UNCHANGED <<shares, curView, viewActive>>
  BY <1>2 DEF viewVars, netVars
<1>5. \A q \in Honest : lastStableSeqNum[q] <= lastStableSeqNum'[q]
  BY <1>1, <1>2 DEF TypeOK, SeqNums
<1>6. \A q \in Honest, t \in SeqNums :
          t > lastStableSeqNum'[q] => seqNumInfo'[q][t].pp = seqNumInfo[q][t].pp
  BY <1>1, <1>2 DEF TypeOK, SeqNums
<1> QED BY <1>3, <1>4, <1>5, <1>6, SilentStep

(* MoveToHigherView keeps the inductive invariant. *)
LEMMA MoveToHigherViewStep ==
    ASSUME IInv, NEW r \in Honest, NEW v \in Views, MoveToHigherView(r, v)
    PROVE  IInv'
<1> DEFINE msg == IF viewActive[r] THEN ExitFromCurrentView(r) ELSE MyLatestViewChangeMsg(r)
<1>1. TypeOK /\ curView[r] < v
  BY DEF IInv, MoveToHigherView
<1>2. /\ viewChangeMsgs' = [viewChangeMsgs EXCEPT ![r][v] = msg]
      /\ curView' = [curView EXCEPT ![r] = v]
      /\ viewActive' = [viewActive EXCEPT ![r] = FALSE]
      /\ seqNumInfo' = [seqNumInfo EXCEPT ![r] = [s \in SeqNums |-> ResetAndFree(seqNumInfo[r][s])]]
      /\ UNCHANGED <<lastExecutedSeqNum, lastStableSeqNum, executed, newViewMsgs, netVars>>
  BY <1>1 DEF MoveToHigherView, TypeOK
<1>3. msg \in ViewChangeMsg \cup {NoMsg}
  BY <1>1, ExitFromCurrentViewType DEF MyLatestViewChangeMsg, TypeOK
<1> HIDE DEF msg
<1>4. TypeOK'
  <2>1. seqNumInfo' \in [Honest -> [SeqNums -> SeqNumInfo]]
    BY <1>1, <1>2, DigestFacts DEF TypeOK
  <2>2. viewChangeMsgs' \in [Honest -> [Views -> ViewChangeMsg \cup {NoMsg}]]
    BY <1>1, <1>2, <1>3 DEF TypeOK
  <2>3. curView' \in [Honest -> Views] /\ viewActive' \in [Honest -> BOOLEAN]
    BY <1>1, <1>2 DEF TypeOK
  <2> QED BY <1>1, <1>2, <2>1, <2>2, <2>3 DEF TypeOK, netVars
<1>5. shares' = shares /\ lastStableSeqNum' = lastStableSeqNum
  BY <1>2 DEF netVars
<1>6. \A q \in Honest : q # r => /\ curView'[q] = curView[q] /\ viewActive'[q] = viewActive[q]
                                 /\ seqNumInfo'[q] = seqNumInfo[q]
  BY <1>1, <1>2 DEF TypeOK
<1>7. \A x \in shares : x.rep \in Honest /\ x.view \in Nat
  BY <1>1, BoundsAssumption DEF TypeOK, Share, Views
<1>8. \A x \in shares : x.rep = r => x.view < curView'[x.rep]
  <2> SUFFICES ASSUME NEW x \in shares, x.rep = r PROVE x.view < v
    BY <1>1, <1>2 DEF TypeOK
  <2>1. x.view <= curView[r] /\ curView[r] \in Nat /\ v \in Nat
    BY <1>1, <1>7, BoundsAssumption DEF IInv, SignaturesFollowLog, TypeOK, Views
  <2> QED BY <1>1, <1>7, <2>1
<1>9. SignaturesFollowLog'
  BY <1>5, <1>6, <1>7, <1>8 DEF IInv, SignaturesFollowLog
<1> QED BY <1>4, <1>9 DEF IInv

(* A replica that enters a view signs the restrictions of that view. *)
LEMMA EnterViewStep ==
    ASSUME IInv, NEW r \in Honest, NEW nv \in NewView, ~viewActive[r], EnterView(r, nv),
           newViewMsgs' \in [Views -> NewView \cup {NoNewView}]
    PROVE  IInv'
<1> DEFINE R == RestrictedSeqNums(nv, lastStableSeqNum[r])
           slots == [s \in SeqNums |->
               IF s \notin R THEN seqNumInfo[r][s]
               ELSE [seqNumInfo[r][s] EXCEPT
                        !.pp = IF nv.restriction[s] = None THEN Null ELSE nv.restriction[s],
                        !.slowStarted = TRUE,
                        !.isTimeCorrect = @ \/ r # Primary(curView[r])]]
           new == UNION {PreparePartial(r, s, slots[s]) : s \in R}
<1>1. TypeOK /\ curView[r] \in Views /\ lastStableSeqNum[r] \in Nat
  BY DEF IInv, TypeOK
<1>2. /\ viewActive' = [viewActive EXCEPT ![r] = TRUE]
      /\ seqNumInfo' = [seqNumInfo EXCEPT ![r] = slots]
      /\ shares' = shares \cup new
      /\ UNCHANGED <<curView, viewChangeMsgs, lastExecutedSeqNum, lastStableSeqNum,
                     executed, prePrepareMsgs, startSlowMsgs>>
  BY DEF EnterView
<1>3. R \subseteq SeqNums /\ \A s \in R : s > lastStableSeqNum[r]
  BY <1>1 DEF RestrictedSeqNums, SeqNums
<1> HIDE DEF R
<1>4. \A s \in R : slots[s] \in SeqNumInfo /\ slots[s].pp \in Digests
  <2> SUFFICES ASSUME NEW s \in R PROVE slots[s] \in SeqNumInfo /\ slots[s].pp \in Digests
    OBVIOUS
  <2> DEFINE d == IF nv.restriction[s] = None THEN Null ELSE nv.restriction[s]
             ok == seqNumInfo[r][s].isTimeCorrect \/ r # Primary(curView[r])
  <2>1. s \in SeqNums /\ seqNumInfo[r][s] \in SeqNumInfo
    BY <1>1, <1>3 DEF TypeOK
  <2>2. d \in Digests
    BY <2>1, DigestFacts DEF NewView
  <2>3. ok \in BOOLEAN
    BY <2>1 DEF SeqNumInfo
  <2>4. slots[s] = [seqNumInfo[r][s] EXCEPT !.pp = d, !.slowStarted = TRUE, !.isTimeCorrect = ok]
    BY <2>1 DEF SeqNumInfo
  <2> HIDE DEF d, ok, slots
  <2> QED BY <2>1, <2>2, <2>3, <2>4 DEF SeqNumInfo
<1>5. \A s \in SeqNums : s \notin R => slots[s] = seqNumInfo[r][s]
  OBVIOUS
<1>6. slots \in [SeqNums -> SeqNumInfo]
  <2>1. slots = [s \in SeqNums |-> slots[s]]
    OBVIOUS
  <2>2. \A s \in SeqNums : seqNumInfo[r][s] \in SeqNumInfo
    BY <1>1 DEF TypeOK
  <2> HIDE DEF slots
  <2>3. \A s \in SeqNums : slots[s] \in SeqNumInfo
    BY <1>4, <1>5, <2>2
  <2> QED BY <2>1, <2>3
<1> HIDE DEF slots
<1>7. \A x \in new : /\ x \in Share /\ x.rep = r /\ x.view = curView[r] /\ x.seq \in R
                     /\ x.dig = slots[x.seq].pp
  <2> SUFFICES ASSUME NEW s \in R, NEW x \in PreparePartial(r, s, slots[s])
               PROVE  /\ x \in Share /\ x.rep = r /\ x.view = curView[r] /\ x.seq \in R
                      /\ x.dig = slots[x.seq].pp
    OBVIOUS
  <2> QED BY <1>1, <1>3, <1>4 DEF PreparePartial, ShareOf, Share, ShareTypes
<1> HIDE DEF new
<1>8. TypeOK'
  BY <1>1, <1>2, <1>6, <1>7 DEF TypeOK
<1>9. \A q \in Honest : /\ lastStableSeqNum[q] <= lastStableSeqNum'[q]
                        /\ viewActive[q] => viewActive'[q]
  BY <1>1, <1>2 DEF TypeOK
<1>10. \A q \in Honest, t \in SeqNums :
          viewActive[q] /\ seqNumInfo[q][t].pp # None /\ t > lastStableSeqNum'[q]
              => seqNumInfo'[q][t].pp = seqNumInfo[q][t].pp
  BY <1>1, <1>2 DEF TypeOK
<1>11. viewActive'[r] /\ seqNumInfo'[r] = slots
  BY <1>1, <1>2 DEF TypeOK
<1>12. \A x \in new : /\ x.rep = r /\ x.view = curView[r]
                      /\ x.seq > lastStableSeqNum'[r]
                      /\ seqNumInfo'[r][x.seq].pp = x.dig
  BY <1>2, <1>3, <1>7, <1>11
<1>13. new \in SUBSET Share
  BY <1>7
<1>14. shares' = shares \cup new /\ UNCHANGED curView /\ viewActive'[r]
  BY <1>2, <1>11
<1>15. SignaturesFollowLog'
  BY <1>14, <1>8, <1>9, <1>10, <1>12, <1>13, SignaturesStep
<1> QED BY <1>8, <1>15 DEF IInv

(* Entering a view as its primary keeps the inductive invariant. *)
LEMMA EnterViewAsPrimaryStep ==
    ASSUME IInv, NEW r \in Honest, EnterViewAsPrimary(r)
    PROVE  IInv'
<1>1. TypeOK /\ curView[r] \in Views
  BY DEF IInv, TypeOK
<1>2. PICK m \in ViewChangeSets(curView[r]) :
          /\ newViewMsgs' = [newViewMsgs EXCEPT ![curView[r]] = Outcome(m)]
          /\ EnterView(r, Outcome(m))
  BY DEF EnterViewAsPrimary
<1>3. Outcome(m) \in NewView
  BY <1>1, <1>2, ViewChangeSetsType, OutcomeType
<1>4. newViewMsgs' \in [Views -> NewView \cup {NoNewView}]
  BY <1>1, <1>2, <1>3 DEF TypeOK
<1>5. ~viewActive[r]
  BY DEF EnterViewAsPrimary
<1> QED BY <1>2, <1>3, <1>4, <1>5, EnterViewStep

(* Entering a view as a backup keeps the inductive invariant. *)
LEMMA EnterViewAsBackupStep ==
    ASSUME IInv, NEW r \in Honest, EnterViewAsBackup(r)
    PROVE  IInv'
<1>1. TypeOK /\ curView[r] \in Views
  BY DEF IInv, TypeOK
<1>2. PICK nv \in (IF Primary(curView[r]) \in Byz
                   THEN {Outcome(m) : m \in ViewChangeSets(curView[r])}
                   ELSE {newViewMsgs[curView[r]]} \ {NoNewView}) : EnterView(r, nv)
  BY DEF EnterViewAsBackup
<1>3. nv \in NewView
  <2>1. CASE Primary(curView[r]) \in Byz
    <3>1. PICK m \in ViewChangeSets(curView[r]) : nv = Outcome(m)
      BY <1>2, <2>1
    <3> QED BY <1>1, <3>1, ViewChangeSetsType, OutcomeType
  <2>2. CASE Primary(curView[r]) \notin Byz
    BY <1>1, <1>2, <2>2 DEF TypeOK
  <2> QED BY <2>1, <2>2
<1>4. newViewMsgs' \in [Views -> NewView \cup {NoNewView}]
  BY <1>1 DEF EnterViewAsBackup, TypeOK
<1>5. ~viewActive[r]
  BY DEF EnterViewAsBackup
<1> QED BY <1>2, <1>3, <1>4, <1>5, EnterViewStep

(* Quorums of numberOfRequiredSignatures (SeqNumInfo.cpp) share an honest  *)
(* replica, which signs one batch per view and sequence number.            *)
LEMMA CertificatesOfAView ==
    ASSUME IInv
    PROVE  CertificatesAgree
<1> SUFFICES ASSUME NEW v \in Views, NEW s \in SeqNums, NEW d \in Digests,
                    NEW e \in Digests, NEW t \in ShareTypes, NEW u \in ShareTypes,
                    Certificate(t, v, s, d), Certificate(u, v, s, e)
             PROVE  d = e
  BY DEF CertificatesAgree
<1>1. PICK r \in Honest : r \in Signers(t, v, s, d) /\ r \in Signers(u, v, s, e)
  BY CertificateQuorum, SignersFinite, QuorumsIntersect
<1>2. /\ [type |-> t, rep |-> r, view |-> v, seq |-> s, dig |-> d] \in shares
      /\ [type |-> u, rep |-> r, view |-> v, seq |-> s, dig |-> e] \in shares
  BY <1>1 DEF Signers, Honest
<1> QED BY <1>2 DEF IInv, SignaturesFollowLog

-----------------------------------------------------------------------------
(* The theorems *)

(* Every step keeps the inductive invariant. *)
LEMMA NextIInv == IInv /\ [Next]_vars => IInv'
<1> SUFFICES ASSUME IInv, [Next]_vars PROVE IInv'
  OBVIOUS
<1>1. CASE UNCHANGED vars
  BY <1>1 DEF vars, logVars, viewVars, netVars, IInv, TypeOK, SignaturesFollowLog
<1>2. CASE Next
  <2> SUFFICES ASSUME NEW r \in Honest,
                      \/ \E s \in SeqNums :
                          \/ \E d \in Requests, path \in FirstPaths :
                              \/ StartConsensusProcess(r, s, d, path)
                              \/ \E ok \in BOOLEAN : OnPrePrepare(r, s, d, path, ok)
                          \/ TryToStartSlowPaths(r, s)
                          \/ OnStartSlowCommit(r, s)
                          \/ OnPrepareFull(r, s)
                          \/ OnCommitFull(r, s)
                          \/ OnFullCommitProof(r, s)
                          \/ OnSeqNumIsStable(r, s)
                      \/ \E v \in Views : MoveToHigherView(r, v)
                      \/ EnterViewAsPrimary(r)
                      \/ EnterViewAsBackup(r)
               PROVE  IInv'
    BY <1>2 DEF Next
  <2> QED
    BY StartConsensusProcessStep, OnPrePrepareStep, TryToStartSlowPathsStep,
       OnStartSlowCommitStep, OnPrepareFullStep, OnCommitFullStep, OnFullCommitProofStep,
       OnSeqNumIsStableStep, MoveToHigherViewStep, EnterViewAsPrimaryStep, EnterViewAsBackupStep
<1> QED BY <1>1, <1>2

(* The inductive invariant holds in every reachable state. *)
LEMMA Invariance == Spec => []IInv
BY InitIInv, NextIInv, PTL DEF Spec

(* Every reachable state is well-typed; in particular the stable point and *)
(* the restrictions computed from a view change always exist.              *)
THEOREM TypeCorrect == Spec => []TypeOK
<1>1. IInv => TypeOK
  BY DEF IInv
<1> QED BY <1>1, Invariance, PTL

(* A replica signs one batch per view and sequence number, the one its log *)
(* holds (SeqNumInfo's duplicate checks, resetAndFree, the active window). *)
THEOREM SignaturesFollow == Spec => []SignaturesFollowLog
<1>1. IInv => SignaturesFollowLog
  BY DEF IInv
<1> QED BY <1>1, Invariance, PTL

(* Within one view no two certificates, of any path, are for different     *)
(* batches: quorums of numberOfRequiredSignatures (SeqNumInfo.cpp) share an  *)
(* honest replica.                                                         *)
THEOREM CertificatesAgreeInAView == Spec => []CertificatesAgree
BY CertificatesOfAView, Invariance, PTL

-----------------------------------------------------------------------------
(***************************************************************************)
(* Across views: what may have been committed in a view,                   *)
(* on any path, is what every later view works on, so that no two honest   *)
(* replicas execute different batches.  For every f, c, set of at most f   *)
(* faulty replicas, every number of views and of sequence numbers up to    *)
(* the first checkpoint, without the time service: outside of that scope   *)
(* the code does not have the property (runs sbft_time and sbft_stable).   *)
(***************************************************************************)

(* No replica takes a checkpoint, and PrePrepares are not refused for      *)
(* their time.                                                             *)
InScope == MaxSeq < CheckpointWindow /\ ~TimeServiceEnabled

-----------------------------------------------------------------------------
(* What may still be committed *)

CommitTypes == FastPaths \cup {"COMMIT"}

(* The replicas that signed, or can still sign: the faulty ones, and those *)
(* that have not left the view.                                            *)
MaySign(t, v, s, d) ==
    Byz \cup {r \in Honest :
        \/ curView[r] <= v
        \/ [type |-> t, rep |-> r, view |-> v, seq |-> s, dig |-> d] \in shares}

Possible(t, v, s, d) == Cardinality(MaySign(t, v, s, d)) >= RequiredShares(t)

(* No batch other than d has been committed for s below view w or ever     *)
(* will be; with d = None, none at all.                                    *)
SafeAt(w, s, d) ==
    \A v \in Views, t \in CommitTypes, e \in Digests :
        v < w /\ Possible(t, v, s, e) => e = d

-----------------------------------------------------------------------------
(* The parts of the inductive invariant *)

NoCheckpoint == \A r \in Honest : lastStableSeqNum[r] = 0

TimeIsCorrect == \A r \in Honest, s \in SeqNums : seqNumInfo[r][s].isTimeCorrect

(* What a replica works on is safe, and a slot that is prepared or         *)
(* committed has the certificate.                                          *)
SlotIsSafe(r, s, slot) ==
    /\ viewActive[r] => SafeAt(curView[r], s, slot.pp)
    /\ slot.pp # None \/ slot.prepareFull \/ IsCommitted(slot) => viewActive[r]
    /\ slot.prepareFull => Certificate("PREPARE", curView[r], s, slot.pp)
    /\ IsCommitted(slot) => CommitCertificate(curView[r], s, slot.pp)

LogIsSafe == \A r \in Honest, s \in SeqNums : SlotIsSafe(r, s, seqNumInfo[r][s])

(* So is what it signed; a commit is signed on a prepared certificate, and *)
(* the fast path is only used for requests.                                *)
ShareIsSafe(x) ==
    /\ SafeAt(x.view, x.seq, x.dig)
    /\ x.type \in FastPaths => x.dig \in Requests
    /\ x.type = "COMMIT" => Certificate("PREPARE", x.view, x.seq, x.dig)

SharesAreSafe == \A x \in shares : ShareIsSafe(x)

CommitsArePrepared ==
    \A x \in shares :
        x.type = "COMMIT" /\ x.view = curView[x.rep] => seqNumInfo[x.rep][x.seq].prepareFull

MessagesFollowViews ==
    \A r \in Honest :
        /\ \A w \in Views : viewChangeMsgs[r][w] # NoMsg => w <= curView[r]
        /\ curView[r] > 0 \/ ~viewActive[r] => viewChangeMsgs[r][curView[r]] # NoMsg

(* What a replica reports was safe where it worked on it, and its          *)
(* certificates exist.                                                     *)
ElementIsSafe(w, s, e) ==
    e # NoElem =>
        /\ e.dig \in Digests /\ e.origin < w
        /\ SafeAt(e.origin, s, e.dig)
        /\ e.cert # NoCert => e.cert <= e.origin /\ Certificate("PREPARE", e.cert, s, e.dig)

ElementsAreSafe ==
    \A r \in Honest, w \in Views, s \in SeqNums : ElementIsSafe(w, s, viewChangeMsgs[r][w].elems[s])

(* A replica whose signature may still count reports what it signed.       *)
Reports(e, x) ==
    Possible(x.type, x.view, x.seq, x.dig) =>
        /\ e.dig = x.dig /\ e.origin >= x.view
        /\ x.type = "COMMIT" => e.cert >= x.view

VotesAreReported ==
    \A x \in shares, w \in Views :
        viewChangeMsgs[x.rep][w] # NoMsg /\ x.view < w /\ x.type \in CommitTypes
            => Reports(viewChangeMsgs[x.rep][w].elems[x.seq], x)

(* What a new view starts with is safe. *)
OutcomeIsSafe(w, nv) == \A s \in SeqNums : SafeAt(w, s, nv.restriction[s])

NewViewsAreSafe == \A w \in Views : newViewMsgs[w] # NoNewView => OutcomeIsSafe(w, newViewMsgs[w])

(* What a replica executed was committed in a view it worked in. *)
ExecutedIn(r, s, d) ==
    \E v \in Views : /\ v < curView[r] \/ (v = curView[r] /\ viewActive[r])
                     /\ CommitCertificate(v, s, d)

ExecutedIsCommitted ==
    \A r \in Honest, s \in SeqNums :
        /\ s <= lastExecutedSeqNum[r] <=> executed[r][s] # None
        /\ executed[r][s] # None =>
               /\ viewActive[r] => seqNumInfo[r][s].pp # None
               /\ ExecutedIn(r, s, executed[r][s])

AInv ==
    /\ IInv /\ NoCheckpoint /\ TimeIsCorrect /\ LogIsSafe /\ SharesAreSafe /\ CommitsArePrepared
    /\ MessagesFollowViews /\ ElementsAreSafe /\ VotesAreReported /\ NewViewsAreSafe
    /\ ExecutedIsCommitted

-----------------------------------------------------------------------------
(* Counting replicas *)

(* Two sets of replicas share at least what exceeds N. *)
LEMMA Intersection ==
    ASSUME NEW P, NEW Q, P \subseteq Replicas, Q \subseteq Replicas
    PROVE  /\ IsFiniteSet(P) /\ IsFiniteSet(Q) /\ IsFiniteSet(P \cap Q)
           /\ Cardinality(P) \in Nat /\ Cardinality(Q) \in Nat /\ Cardinality(P \cap Q) \in Nat
           /\ Cardinality(P \cap Q) >= Cardinality(P) + Cardinality(Q) - N
<1>1. IsFiniteSet(P) /\ IsFiniteSet(Q)
  BY ReplicasFinite, FS_Subset
<1>2. IsFiniteSet(P \cap Q) /\ IsFiniteSet(P \cup Q)
  BY <1>1, FS_Intersection, FS_Union
<1>3. /\ Cardinality(P) \in Nat /\ Cardinality(Q) \in Nat
      /\ Cardinality(P \cap Q) \in Nat /\ Cardinality(P \cup Q) \in Nat
  BY <1>1, <1>2, FS_CardinalityType
<1>4. Cardinality(P \cup Q) = Cardinality(P) + Cardinality(Q) - Cardinality(P \cap Q)
  BY <1>1, FS_Union
<1>5. Cardinality(P \cup Q) <= N
  <2>1. P \cup Q \in SUBSET Replicas OBVIOUS
  <2> QED BY <2>1, ReplicasFinite, FS_Subset
<1> QED BY <1>1, <1>2, <1>3, <1>4, <1>5, ReplicasFinite

(* All but f members of a set of replicas are honest. *)
LEMMA HonestMembers ==
    ASSUME NEW P, P \subseteq Replicas
    PROVE  /\ P \ Byz \subseteq Honest /\ Cardinality(P \ Byz) \in Nat
           /\ Cardinality(P \ Byz) >= Cardinality(P) - F
           /\ Cardinality(P) > F => \E r \in Honest : r \in P
<1>1. IsFiniteSet(P) /\ IsFiniteSet(P \ Byz) /\ IsFiniteSet(P \cap Byz)
  <2>1. IsFiniteSet(P)
    BY ReplicasFinite, FS_Subset
  <2> QED BY <2>1, ReplicasFinite, FS_Difference, FS_Intersection
<1>2. Cardinality(P \ Byz) = Cardinality(P) - Cardinality(P \cap Byz)
  BY <1>1, FS_Difference
<1>3. Cardinality(P \cap Byz) <= Cardinality(Byz)
  <2>1. P \cap Byz \in SUBSET Byz OBVIOUS
  <2> QED BY <2>1, ReplicasFinite, FS_Subset
<1>4. /\ Cardinality(P) \in Nat /\ Cardinality(P \ Byz) \in Nat /\ Cardinality(P \cap Byz) \in Nat
      /\ Cardinality(Byz) \in Nat /\ Cardinality(Byz) <= F /\ F \in Nat
  BY <1>1, ReplicasFinite, FS_CardinalityType, ConfigAssumption
<1>5. Cardinality(P \ Byz) >= Cardinality(P) - F
  BY <1>2, <1>3, <1>4
<1>6. ASSUME Cardinality(P) > F PROVE \E r \in Honest : r \in P
  <2>1. Cardinality(P \ Byz) # 0
    BY <1>4, <1>5, <1>6
  <2>2. P \ Byz # {}
    BY <2>1, FS_EmptySet
  <2> QED BY <2>2 DEF Honest
<1>7. P \ Byz \subseteq Honest
  BY DEF Honest
<1> QED BY <1>4, <1>5, <1>6, <1>7

(* A larger set of replicas has no fewer members. *)
LEMMA LargerSet ==
    ASSUME NEW P, NEW Q, P \subseteq Q, Q \subseteq Replicas
    PROVE  /\ Cardinality(P) \in Nat /\ Cardinality(Q) \in Nat
           /\ Cardinality(P) <= Cardinality(Q)
<1>1. IsFiniteSet(P) /\ IsFiniteSet(Q)
  BY ReplicasFinite, FS_Subset
<1>2. Cardinality(P) <= Cardinality(Q)
  <2>1. P \in SUBSET Q OBVIOUS
  <2> QED BY <2>1, <1>1, FS_Subset
<1> QED BY <1>1, <1>2, FS_CardinalityType

(* Every path needs at least a slow quorum, the fast ones 3f+c+1. *)
LEMMA RequiredSharesBounds ==
    ASSUME NEW t
    PROVE  /\ RequiredShares(t) \in Nat /\ RequiredShares(t) >= SlowQuorum
           /\ t \in FastPaths => RequiredShares(t) >= 3 * F + C + 1
           /\ SlowQuorum \in Nat /\ SlowQuorum = 2 * F + C + 1
BY ConfigAssumption DEF RequiredShares, SlowQuorum, N, FastPaths

(* Those that may sign are replicas, and include those that signed. *)
LEMMA MaySignFinite ==
    ASSUME NEW t, NEW v, NEW s, NEW d
    PROVE  /\ MaySign(t, v, s, d) \subseteq Replicas
           /\ Signers(t, v, s, d) \subseteq MaySign(t, v, s, d)
           /\ Certificate(t, v, s, d) => Possible(t, v, s, d)
<1>1. MaySign(t, v, s, d) \subseteq Replicas
  BY ConfigAssumption DEF MaySign, Honest
<1>2. Signers(t, v, s, d) \subseteq MaySign(t, v, s, d)
  BY DEF Signers, MaySign
<1>3. Cardinality(Signers(t, v, s, d)) <= Cardinality(MaySign(t, v, s, d))
  BY <1>1, <1>2, LargerSet
<1>4. Certificate(t, v, s, d) => Possible(t, v, s, d)
  BY <1>1, <1>2, <1>3, LargerSet, RequiredSharesBounds DEF Certificate, Possible
<1> QED BY <1>1, <1>2, <1>4

(* A certificate has an honest signer. *)
LEMMA CertificateSigner ==
    ASSUME NEW t, NEW v, NEW s, NEW d, Certificate(t, v, s, d)
    PROVE  \E r \in Honest :
               [type |-> t, rep |-> r, view |-> v, seq |-> s, dig |-> d] \in shares
<1>1. Cardinality(Signers(t, v, s, d)) > F
  BY CertificateQuorum, SignersFinite, ConfigAssumption DEF SlowQuorum
<1>2. PICK r \in Honest : r \in Signers(t, v, s, d)
  BY <1>1, SignersFinite, HonestMembers
<1> QED BY <1>2 DEF Signers, Honest

-----------------------------------------------------------------------------
(* What stays true *)

(* Signatures are only added, in the signer's current view, and no replica *)
(* goes back to an earlier view.                                           *)
Onward ==
    /\ shares \subseteq shares'
    /\ \A r \in Honest : curView[r] <= curView'[r]
    /\ \A x \in shares' : x \notin shares => x.rep \in Honest /\ x.view = curView[x.rep]

(* A certificate stays one. *)
LEMMA CertificateStable ==
    ASSUME shares \subseteq shares'
    PROVE  /\ \A t, v, s, d : Certificate(t, v, s, d) => Certificate(t, v, s, d)'
           /\ \A v, s, d : CommitCertificate(v, s, d) => CommitCertificate(v, s, d)'
<1>1. ASSUME NEW t, NEW v, NEW s, NEW d, Certificate(t, v, s, d)
      PROVE  Certificate(t, v, s, d)'
  <2> DEFINE P == Signers(t, v, s, d)
             Q == Byz \cup {r \in Honest :
                 [type |-> t, rep |-> r, view |-> v, seq |-> s, dig |-> d] \in shares'}
  <2>1. Signers(t, v, s, d)' = Q
    BY DEF Signers
  <2>2. P \subseteq Q /\ Q \subseteq Replicas
    BY ConfigAssumption DEF Signers, Honest
  <2>3. Cardinality(P) \in Nat /\ Cardinality(Q) \in Nat /\ Cardinality(P) <= Cardinality(Q)
    <3> HIDE DEF P, Q
    <3> QED BY <2>2, LargerSet
  <2>4. Cardinality(P) >= RequiredShares(t)
    BY <1>1 DEF Certificate
  <2>5. Cardinality(Q) >= RequiredShares(t)
    <3> HIDE DEF P, Q
    <3> QED BY <2>3, <2>4, RequiredSharesBounds
  <2> QED BY <2>1, <2>5 DEF Certificate
<1>2. ASSUME NEW v, NEW s, NEW d, CommitCertificate(v, s, d)
      PROVE  CommitCertificate(v, s, d)'
  BY <1>1, <1>2 DEF CommitCertificate
<1> QED BY <1>1, <1>2

(* What cannot be committed any more never can. *)
LEMMA PossibleStable ==
    ASSUME TypeOK, TypeOK', Onward, NEW t, NEW v \in Views, NEW s, NEW d, Possible(t, v, s, d)'
    PROVE  Possible(t, v, s, d)
<1> DEFINE sig(r) == [type |-> t, rep |-> r, view |-> v, seq |-> s, dig |-> d]
           P == MaySign(t, v, s, d)
           Q == Byz \cup {r \in Honest : curView'[r] <= v \/ sig(r) \in shares'}
<1>1. MaySign(t, v, s, d)' = Q
  BY DEF MaySign
<1>2. \A r \in Honest : curView[r] \in Nat /\ curView'[r] \in Nat /\ v \in Nat
  BY BoundsAssumption DEF TypeOK, Views
<1>3. ASSUME NEW r \in Honest, r \in Q PROVE r \in P
  <2>1. CASE curView'[r] <= v
    BY <1>2, <2>1 DEF Onward, MaySign
  <2>2. CASE sig(r) \in shares' /\ sig(r) \notin shares
    <3>1. sig(r).rep = r /\ sig(r).view = v
      OBVIOUS
    <3>2. curView[r] = v
      BY <2>2, <3>1 DEF Onward
    <3> QED BY <1>2, <3>2 DEF MaySign
  <2>3. CASE sig(r) \in shares
    BY <2>3 DEF MaySign
  <2>4. CASE r \in Byz
    BY <2>4 DEF MaySign
  <2> QED BY <1>3, <2>1, <2>2, <2>3, <2>4
<1>4. Q \subseteq P
  BY <1>3 DEF MaySign
<1>5. P \subseteq Replicas
  BY MaySignFinite
<1> HIDE DEF P, Q
<1>6. Cardinality(P) \in Nat /\ Cardinality(Q) \in Nat /\ Cardinality(Q) <= Cardinality(P)
  BY <1>4, <1>5, LargerSet
<1>7. Cardinality(Q) >= RequiredShares(t)
  BY <1>1 DEF Possible
<1>8. Cardinality(P) >= RequiredShares(t)
  BY <1>6, <1>7, RequiredSharesBounds
<1> QED BY <1>8 DEF Possible, P

(* What is safe stays safe. *)
LEMMA SafeAtStable ==
    ASSUME TypeOK, TypeOK', Onward, NEW w, NEW s, NEW d, SafeAt(w, s, d)
    PROVE  SafeAt(w, s, d)'
<1> SUFFICES ASSUME NEW v \in Views, NEW t \in CommitTypes, NEW e \in Digests,
                    v < w, Possible(t, v, s, e)'
             PROVE  e = d
  BY DEF SafeAt
<1>1. Possible(t, v, s, e)
  BY PossibleStable
<1> QED BY <1>1 DEF SafeAt

(* Where nothing can have been committed, every batch is safe. *)
LEMMA NoneIsSafe ==
    ASSUME NEW w, NEW s, SafeAt(w, s, None), NEW d
    PROVE  SafeAt(w, s, d)
BY DigestFacts DEF SafeAt

(* The parts of the invariant about what was sent, in a step that leaves   *)
(* the view change alone and adds safe signatures.                         *)
LEMMA SentStaysSafe ==
    ASSUME AInv, TypeOK', Onward, UNCHANGED <<curView, viewChangeMsgs>>,
           \A r \in Honest : viewActive[r] => viewActive'[r],
           \A x \in shares' : x \notin shares => ShareIsSafe(x)'
    PROVE  /\ SharesAreSafe' /\ MessagesFollowViews' /\ ElementsAreSafe' /\ VotesAreReported'
<1>1. TypeOK /\ shares \subseteq shares'
  BY DEF AInv, IInv, Onward
<1>2. SharesAreSafe'
  <2> SUFFICES ASSUME NEW x \in shares PROVE ShareIsSafe(x)'
    BY DEF SharesAreSafe
  <2>1. ShareIsSafe(x)
    BY DEF AInv, SharesAreSafe
  <2> QED BY <1>1, <2>1, SafeAtStable, CertificateStable DEF ShareIsSafe
<1>3. MessagesFollowViews'
  BY DEF AInv, MessagesFollowViews
<1>4. ElementsAreSafe'
  <2> SUFFICES ASSUME NEW r \in Honest, NEW w \in Views, NEW s \in SeqNums
               PROVE  ElementIsSafe(w, s, viewChangeMsgs[r][w].elems[s])'
    BY DEF ElementsAreSafe
  <2> DEFINE e == viewChangeMsgs[r][w].elems[s]
  <2>1. ElementIsSafe(w, s, e)
    BY DEF AInv, ElementsAreSafe
  <2>2. e' = e
    OBVIOUS
  <2> HIDE DEF e
  <2>3. ElementIsSafe(w, s, e)'
    BY <1>1, <2>1, <2>2, SafeAtStable, CertificateStable DEF ElementIsSafe
  <2> QED BY <2>3 DEF e
<1>5. VotesAreReported'
  <2> SUFFICES ASSUME NEW x \in shares', NEW w \in Views,
                      viewChangeMsgs[x.rep][w] # NoMsg, x.view < w, x.type \in CommitTypes,
                      Possible(x.type, x.view, x.seq, x.dig)'
               PROVE  LET e == viewChangeMsgs[x.rep][w].elems[x.seq]
                      IN  /\ e.dig = x.dig /\ e.origin >= x.view
                          /\ x.type = "COMMIT" => e.cert >= x.view
    BY DEF VotesAreReported, Reports
  <2>1. x \in Share /\ x.rep \in Honest /\ x.view \in Views /\ w \in Nat /\ x.view \in Nat
    BY BoundsAssumption DEF TypeOK, Share, Views
  <2>2. CASE x \in shares
    <3>1. Possible(x.type, x.view, x.seq, x.dig)
      BY <1>1, <2>1, PossibleStable
    <3> QED BY <2>2, <3>1 DEF AInv, VotesAreReported, Reports
  <2>3. CASE x \notin shares
    <3>1. x.view = curView[x.rep]
      BY <2>3 DEF Onward
    <3>2. w <= curView[x.rep]
      BY <2>1 DEF AInv, MessagesFollowViews
    <3> QED BY <2>1, <3>1, <3>2
  <2> QED BY <2>2, <2>3
<1> QED BY <1>2, <1>3, <1>4, <1>5

-----------------------------------------------------------------------------
(* Steps inside a view *)

(* There is no certificate for an empty slot. *)
LEMMA NoneHasNoCertificate ==
    ASSUME TypeOK, NEW t, NEW v, NEW s
    PROVE  ~Certificate(t, v, s, None) /\ ~CommitCertificate(v, s, None)
<1>1. ASSUME NEW u, Certificate(u, v, s, None) PROVE FALSE
  <2>1. PICK r \in Honest :
            [type |-> u, rep |-> r, view |-> v, seq |-> s, dig |-> None] \in shares
    BY <1>1, CertificateSigner
  <2>2. [type |-> u, rep |-> r, view |-> v, seq |-> s, dig |-> None] \in Share
    BY <2>1 DEF TypeOK
  <2> QED BY <2>2, DigestFacts DEF Share
<1> QED BY <1>1 DEF CommitCertificate

(* What a step of an active replica may do to one of its slots. *)
SlotStep(r, s) ==
    LET old == seqNumInfo[r][s]
        slot == seqNumInfo'[r][s]
    IN  /\ slot.isTimeCorrect
        /\ old.pp # None => slot.pp = old.pp
        /\ old.prepareFull => slot.prepareFull
        /\ slot.prepareFull => old.prepareFull \/ Certificate("PREPARE", curView[r], s, slot.pp)
        /\ IsCommitted(slot) => IsCommitted(old) \/ CommitCertificate(curView[r], s, slot.pp)

(* What it may sign. *)
SigningStep(r, x) ==
    /\ x.rep = r /\ x.view = curView[r] /\ x.dig = seqNumInfo'[r][x.seq].pp
    /\ x.type \in FastPaths => x.dig \in Requests
    /\ x.type = "COMMIT" => /\ Certificate("PREPARE", x.view, x.seq, x.dig)
                            /\ seqNumInfo'[r][x.seq].prepareFull

LogStep(r) ==
    /\ viewActive[r]
    /\ UNCHANGED <<lastStableSeqNum, viewVars>>
    /\ \A q \in Honest : q # r => seqNumInfo'[q] = seqNumInfo[q]
    /\ \A s \in SeqNums : SlotStep(r, s)
    /\ shares \subseteq shares'
    /\ \A x \in shares' : x \notin shares => SigningStep(r, x)

(* Such a step keeps the log, the signatures and the messages safe. *)
LEMMA LogStepIsSafe ==
    ASSUME AInv, IInv', NEW r \in Honest, LogStep(r), ExecutedIsCommitted'
    PROVE  AInv'
<1>1. /\ TypeOK /\ TypeOK' /\ viewActive[r] /\ shares \subseteq shares'
      /\ UNCHANGED <<lastStableSeqNum, curView, viewActive, viewChangeMsgs, newViewMsgs>>
  BY DEF AInv, IInv, LogStep, viewVars
<1>2. Onward
  <2>1. \A q \in Honest : curView[q] <= curView'[q]
    BY <1>1, BoundsAssumption DEF TypeOK, Views
  <2> QED BY <1>1, <2>1 DEF Onward, LogStep, SigningStep
<1>3. ASSUME NEW q \in Honest, NEW s \in SeqNums
      PROVE  SlotIsSafe(q, s, seqNumInfo[q][s])'
  <2>1. SlotIsSafe(q, s, seqNumInfo[q][s])
    BY DEF AInv, LogIsSafe
  <2>2. CASE q # r
    <3>1. seqNumInfo'[q][s] = seqNumInfo[q][s] /\ curView' = curView /\ viewActive' = viewActive
      BY <1>1, <2>2 DEF LogStep
    <3> QED BY <1>1, <1>2, <2>1, <3>1, SafeAtStable, CertificateStable DEF SlotIsSafe
  <2>3. CASE q = r
    <3>1. SlotStep(r, s) /\ curView' = curView /\ viewActive' = viewActive
      BY <1>1 DEF LogStep
    <3>2. SafeAt(curView[r], s, seqNumInfo[r][s].pp)'
      <4>1. SafeAt(curView[r], s, seqNumInfo[r][s].pp)
        BY <1>1, <2>1, <2>3 DEF SlotIsSafe
      <4>2. SafeAt(curView[r], s, seqNumInfo'[r][s].pp)
        BY <3>1, <4>1, NoneIsSafe DEF SlotStep
      <4> QED BY <1>1, <1>2, <3>1, <4>2, SafeAtStable
    <3>3. seqNumInfo'[r][s].prepareFull => Certificate("PREPARE", curView[r], s, seqNumInfo'[r][s].pp)
      <4>1. seqNumInfo[r][s].prepareFull => seqNumInfo[r][s].pp # None
        BY <1>1, <2>1, <2>3, NoneHasNoCertificate DEF SlotIsSafe
      <4> QED BY <2>1, <2>3, <3>1, <4>1 DEF SlotStep, SlotIsSafe
    <3>4. IsCommitted(seqNumInfo'[r][s]) => CommitCertificate(curView[r], s, seqNumInfo'[r][s].pp)
      <4>1. IsCommitted(seqNumInfo[r][s]) => seqNumInfo[r][s].pp # None
        BY <1>1, <2>1, <2>3, NoneHasNoCertificate DEF SlotIsSafe
      <4> QED BY <2>1, <2>3, <3>1, <4>1 DEF SlotStep, SlotIsSafe
    <3>5. IsCommitted(seqNumInfo[r][s])' = IsCommitted(seqNumInfo'[r][s])
      BY DEF IsCommitted
    <3> QED BY <1>1, <2>3, <3>1, <3>2, <3>3, <3>4, <3>5, CertificateStable DEF SlotIsSafe
  <2> QED BY <2>2, <2>3
<1>4. LogIsSafe'
  BY <1>3 DEF LogIsSafe
<1>5. TimeIsCorrect'
  BY DEF TimeIsCorrect, AInv, LogStep, SlotStep
<1>6. NoCheckpoint' /\ NewViewsAreSafe'
  <2>1. NoCheckpoint'
    BY <1>1 DEF AInv, NoCheckpoint
  <2>2. ASSUME NEW w \in Views, newViewMsgs[w] # NoNewView, NEW s \in SeqNums
        PROVE  SafeAt(w, s, newViewMsgs[w].restriction[s])'
    <3>1. SafeAt(w, s, newViewMsgs[w].restriction[s])
      BY <2>2 DEF AInv, NewViewsAreSafe, OutcomeIsSafe
    <3>2. newViewMsgs' = newViewMsgs
      BY <1>1
    <3> QED BY <1>1, <1>2, <3>1, <3>2, SafeAtStable
  <2> QED BY <1>1, <2>1, <2>2 DEF NewViewsAreSafe, OutcomeIsSafe
<1>7. ASSUME NEW x \in shares', x \notin shares PROVE ShareIsSafe(x)'
  <2>1. SigningStep(r, x)
    BY <1>7 DEF LogStep
  <2>2. x \in Share /\ x.seq \in SeqNums
    BY <1>1 DEF TypeOK, Share
  <2>3. SafeAt(curView[r], x.seq, seqNumInfo[r][x.seq].pp)'
    BY <1>1, <1>3, <2>2 DEF SlotIsSafe
  <2>4. SafeAt(x.view, x.seq, x.dig)'
    BY <1>1, <2>1, <2>3 DEF SigningStep
  <2> QED BY <1>1, <2>1, <2>4, CertificateStable DEF SigningStep, ShareIsSafe
<1>8. CommitsArePrepared'
  <2> SUFFICES ASSUME NEW x \in shares', x.type = "COMMIT", x.view = curView[x.rep]
               PROVE  seqNumInfo'[x.rep][x.seq].prepareFull
    BY <1>1 DEF CommitsArePrepared
  <2>1. x.rep \in Honest /\ x.seq \in SeqNums
    BY <1>1 DEF TypeOK, Share
  <2>2. CASE x \in shares
    <3>1. seqNumInfo[x.rep][x.seq].prepareFull
      BY <2>2 DEF AInv, CommitsArePrepared
    <3> QED BY <2>1, <3>1 DEF LogStep, SlotStep
  <2>3. CASE x \notin shares
    BY <2>3 DEF LogStep, SigningStep
  <2> QED BY <2>2, <2>3
<1>9. SharesAreSafe' /\ MessagesFollowViews' /\ ElementsAreSafe' /\ VotesAreReported'
  BY <1>1, <1>2, <1>7, SentStaysSafe
<1> QED BY <1>4, <1>5, <1>6, <1>8, <1>9 DEF AInv

(* What was executed stays committed when nothing is executed. *)
LEMMA NothingExecuted ==
    ASSUME AInv, shares \subseteq shares',
           UNCHANGED <<curView, viewActive, executed, lastExecutedSeqNum>>,
           \A r \in Honest, s \in SeqNums :
               seqNumInfo[r][s].pp # None => seqNumInfo'[r][s].pp # None
    PROVE  ExecutedIsCommitted'
<1> SUFFICES ASSUME NEW r \in Honest, NEW s \in SeqNums
             PROVE  /\ s <= lastExecutedSeqNum[r] <=> executed[r][s] # None
                    /\ executed[r][s] # None =>
                           /\ viewActive[r] => seqNumInfo'[r][s].pp # None
                           /\ ExecutedIn(r, s, executed[r][s])'
  BY DEF ExecutedIsCommitted
<1>1. /\ s <= lastExecutedSeqNum[r] <=> executed[r][s] # None
      /\ executed[r][s] # None => /\ viewActive[r] => seqNumInfo[r][s].pp # None
                                  /\ ExecutedIn(r, s, executed[r][s])
  BY DEF AInv, ExecutedIsCommitted
<1>2. ExecutedIn(r, s, executed[r][s]) => ExecutedIn(r, s, executed[r][s])'
  BY CertificateStable DEF ExecutedIn
<1> QED BY <1>1, <1>2

(* A PrePrepare added to a free slot: every batch is safe there. *)
LEMMA AddPrePrepareIsSafe ==
    ASSUME AInv, IInv', NEW r \in Honest, NEW s \in SeqNums, NEW slot \in SeqNumInfo,
           slot.pp \in Requests, slot.isTimeCorrect, seqNumInfo[r][s].pp = None,
           slot.prepareFull = seqNumInfo[r][s].prepareFull,
           IsCommitted(slot) = IsCommitted(seqNumInfo[r][s]),
           NEW path \in FirstPaths, StartConsensus(r, s, slot, path), viewActive[r],
           UNCHANGED <<lastExecutedSeqNum, lastStableSeqNum, executed, viewVars>>
    PROVE  AInv'
<1> DEFINE slow == path = "SLOW" \/ slot.slowStarted
           new == [slot EXCEPT !.slowStarted = slow, !.fastPath = IF slow THEN None ELSE path]
           sent == IF slow THEN PreparePartial(r, s, new) ELSE PartialProof(r, s, new)
<1>1. TypeOK /\ TypeOK' /\ TimeIsCorrect
  BY DEF AInv, IInv
<1>2. /\ seqNumInfo' = [seqNumInfo EXCEPT ![r][s] = new]
      /\ shares' = shares \cup sent
  BY DEF StartConsensus
<1>3. /\ new.pp = slot.pp /\ new.isTimeCorrect /\ new.prepareFull = slot.prepareFull
      /\ new.commitFull = slot.commitFull /\ new.forcedCompleted = slot.forcedCompleted
      /\ (~slow => new.fastPath = path /\ path \in FastPaths)
  <2>1. ~slow => path \in FastPaths
    BY PathsAssumption
  <2> HIDE DEF slow
  <2> QED BY <2>1 DEF SeqNumInfo
<1>4. IsCommitted(new) = IsCommitted(seqNumInfo[r][s])
  <2> HIDE DEF new
  <2> QED BY <1>3 DEF IsCommitted
<1> HIDE DEF new, slow
<1>5. \A x \in sent : /\ x.rep = r /\ x.view = curView[r] /\ x.seq = s /\ x.dig = slot.pp
                      /\ x.type # "COMMIT"
  BY <1>3 DEF PreparePartial, PartialProof, ShareOf, FastPaths
<1> HIDE DEF sent
<1>6. /\ \A q \in Honest : q # r => seqNumInfo'[q] = seqNumInfo[q]
      /\ \A t \in SeqNums : t # s => seqNumInfo'[r][t] = seqNumInfo[r][t]
      /\ seqNumInfo'[r][s] = new
  BY <1>1, <1>2 DEF TypeOK
<1>7. \A t \in SeqNums : SlotStep(r, t)
  <2> SUFFICES ASSUME NEW t \in SeqNums PROVE SlotStep(r, t)
    OBVIOUS
  <2>1. CASE t = s
    BY <1>3, <1>4, <1>6, <2>1 DEF SlotStep
  <2>2. CASE t # s
    BY <1>1, <1>6, <2>2 DEF SlotStep, TimeIsCorrect
  <2> QED BY <2>1, <2>2
<1>8. LogStep(r)
  BY <1>2, <1>3, <1>5, <1>6, <1>7 DEF LogStep, SigningStep
<1>9. ExecutedIsCommitted'
  <2>1. UNCHANGED <<curView, viewActive, executed, lastExecutedSeqNum>> /\ shares \subseteq shares'
    BY <1>2 DEF viewVars
  <2>2. \A q \in Honest, t \in SeqNums :
            seqNumInfo[q][t].pp # None => seqNumInfo'[q][t].pp # None
    BY <1>6
  <2> QED BY <2>1, <2>2, NothingExecuted
<1> QED BY <1>8, <1>9, LogStepIsSafe

(* startConsensusProcess *)
LEMMA StartConsensusProcessIsSafe ==
    ASSUME AInv, NEW r \in Honest, NEW s \in SeqNums, NEW d \in Requests, NEW path \in FirstPaths,
           StartConsensusProcess(r, s, d, path)
    PROVE  AInv'
<1> DEFINE slot == [seqNumInfo[r][s] EXCEPT !.pp = d]
<1>1. IInv'
  BY StartConsensusProcessStep DEF AInv
<1>2. seqNumInfo[r][s] \in SeqNumInfo /\ seqNumInfo[r][s].isTimeCorrect
  BY DEF AInv, IInv, TypeOK, TimeIsCorrect
<1>3. /\ slot \in SeqNumInfo /\ slot.pp \in Requests /\ slot.isTimeCorrect
      /\ slot.prepareFull = seqNumInfo[r][s].prepareFull
      /\ IsCommitted(slot) = IsCommitted(seqNumInfo[r][s])
  BY <1>2, DigestFacts DEF SeqNumInfo, IsCommitted
<1>4. /\ StartConsensus(r, s, slot, path) /\ viewActive[r] /\ seqNumInfo[r][s].pp = None
      /\ UNCHANGED <<lastExecutedSeqNum, lastStableSeqNum, executed, viewVars>>
  BY DEF StartConsensusProcess, NextSeqNum, RelevantForActiveView
<1> HIDE DEF slot
<1> QED BY <1>1, <1>3, <1>4, AddPrePrepareIsSafe

(* onMessage<PrePrepareMsg> *)
LEMMA OnPrePrepareIsSafe ==
    ASSUME AInv, InScope, NEW r \in Honest, NEW s \in SeqNums, NEW d \in Requests,
           NEW path \in FirstPaths, NEW ok \in BOOLEAN, OnPrePrepare(r, s, d, path, ok)
    PROVE  AInv'
<1> DEFINE slot == [seqNumInfo[r][s] EXCEPT !.pp = d, !.isTimeCorrect = ok]
<1>1. IInv'
  BY OnPrePrepareStep DEF AInv
<1>2. seqNumInfo[r][s] \in SeqNumInfo /\ ok
  BY DEF AInv, IInv, TypeOK, OnPrePrepare, InScope
<1>3. /\ slot \in SeqNumInfo /\ slot.pp \in Requests /\ slot.isTimeCorrect
      /\ slot.prepareFull = seqNumInfo[r][s].prepareFull
      /\ IsCommitted(slot) = IsCommitted(seqNumInfo[r][s])
  BY <1>2, DigestFacts DEF SeqNumInfo, IsCommitted
<1>4. /\ StartConsensus(r, s, slot, path) /\ viewActive[r] /\ seqNumInfo[r][s].pp = None
      /\ UNCHANGED <<lastExecutedSeqNum, lastStableSeqNum, executed, viewVars>>
  BY DEF OnPrePrepare, RelevantForActiveView
<1> HIDE DEF slot
<1> QED BY <1>1, <1>3, <1>4, AddPrePrepareIsSafe

(* tryToStartSlowPaths and onMessage<StartSlowCommitMsg> *)
LEMMA StartSlowPathIsSafe ==
    ASSUME AInv, IInv', NEW r \in Honest, NEW s \in SeqNums, StartSlowPath(r, s)
    PROVE  AInv'
<1> DEFINE slot == seqNumInfo[r][s]
           new == IF slot.pp = None THEN {} ELSE PreparePartial(r, s, slot)
<1>1. TypeOK /\ TypeOK' /\ TimeIsCorrect /\ slot \in SeqNumInfo
  BY DEF AInv, IInv, TypeOK
<1>2. /\ seqNumInfo' = [seqNumInfo EXCEPT ![r][s].slowStarted = TRUE]
      /\ shares' = shares \cup new /\ viewActive[r]
      /\ UNCHANGED <<lastExecutedSeqNum, lastStableSeqNum, executed, viewVars>>
  BY DEF StartSlowPath, RelevantForActiveView
<1>3. /\ \A q \in Honest : q # r => seqNumInfo'[q] = seqNumInfo[q]
      /\ \A t \in SeqNums : t # s => seqNumInfo'[r][t] = seqNumInfo[r][t]
      /\ seqNumInfo'[r][s] = [slot EXCEPT !.slowStarted = TRUE]
  BY <1>1, <1>2 DEF TypeOK
<1>4. \A t \in SeqNums :
          /\ seqNumInfo'[r][t].pp = seqNumInfo[r][t].pp
          /\ seqNumInfo'[r][t].isTimeCorrect = seqNumInfo[r][t].isTimeCorrect
          /\ seqNumInfo'[r][t].prepareFull = seqNumInfo[r][t].prepareFull
          /\ IsCommitted(seqNumInfo'[r][t]) = IsCommitted(seqNumInfo[r][t])
  BY <1>1, <1>3 DEF IsCommitted, SeqNumInfo
<1>5. \A x \in new : /\ x.rep = r /\ x.view = curView[r] /\ x.seq = s /\ x.dig = slot.pp
                     /\ x.type = "PREPARE"
  BY DEF PreparePartial, ShareOf
<1> HIDE DEF slot, new
<1>6. LogStep(r)
  <2>1. \A t \in SeqNums : SlotStep(r, t)
    BY <1>1, <1>4 DEF SlotStep, TimeIsCorrect
  <2>2. \A x \in shares' : x \notin shares => SigningStep(r, x)
    BY <1>2, <1>4, <1>5 DEF SigningStep, FastPaths, slot
  <2> QED BY <1>2, <1>3, <2>1, <2>2 DEF LogStep
<1>7. ExecutedIsCommitted'
  <2>1. UNCHANGED <<curView, viewActive, executed, lastExecutedSeqNum>> /\ shares \subseteq shares'
    BY <1>2 DEF viewVars
  <2>2. \A q \in Honest, t \in SeqNums :
            seqNumInfo[q][t].pp # None => seqNumInfo'[q][t].pp # None
    BY <1>3, <1>4
  <2> QED BY <2>1, <2>2, NothingExecuted
<1> QED BY <1>6, <1>7, LogStepIsSafe

(* A prepare certificate, after which the commit is signed *)
LEMMA OnPrepareFullIsSafe ==
    ASSUME AInv, NEW r \in Honest, NEW s \in SeqNums, OnPrepareFull(r, s)
    PROVE  AInv'
<1> DEFINE slot == seqNumInfo[r][s]
           new == CommitPartial(r, s, slot)
<1>1. TypeOK /\ TypeOK' /\ IInv' /\ TimeIsCorrect /\ slot \in SeqNumInfo
  BY OnPrepareFullStep DEF AInv, IInv, TypeOK
<1>2. /\ seqNumInfo' = [seqNumInfo EXCEPT ![r][s].prepareFull = TRUE]
      /\ shares' = shares \cup new /\ viewActive[r]
      /\ Certificate("PREPARE", curView[r], s, slot.pp)
      /\ UNCHANGED <<lastExecutedSeqNum, lastStableSeqNum, executed, viewVars>>
  BY DEF OnPrepareFull, RelevantForActiveView
<1>3. /\ \A q \in Honest : q # r => seqNumInfo'[q] = seqNumInfo[q]
      /\ \A t \in SeqNums : t # s => seqNumInfo'[r][t] = seqNumInfo[r][t]
      /\ seqNumInfo'[r][s] = [slot EXCEPT !.prepareFull = TRUE]
  BY <1>1, <1>2 DEF TypeOK
<1>4. /\ \A t \in SeqNums :
             /\ seqNumInfo'[r][t].pp = seqNumInfo[r][t].pp
             /\ seqNumInfo'[r][t].isTimeCorrect = seqNumInfo[r][t].isTimeCorrect
             /\ IsCommitted(seqNumInfo'[r][t]) = IsCommitted(seqNumInfo[r][t])
      /\ \A t \in SeqNums : t # s => seqNumInfo'[r][t].prepareFull = seqNumInfo[r][t].prepareFull
      /\ seqNumInfo'[r][s].prepareFull
  BY <1>1, <1>3 DEF IsCommitted, SeqNumInfo
<1>5. \A x \in new : /\ x.rep = r /\ x.view = curView[r] /\ x.seq = s /\ x.dig = slot.pp
                     /\ x.type = "COMMIT"
  BY DEF CommitPartial, ShareOf
<1> HIDE DEF new
<1>6. LogStep(r)
  <2>1. \A t \in SeqNums : SlotStep(r, t)
    <3> SUFFICES ASSUME NEW t \in SeqNums PROVE SlotStep(r, t)
      OBVIOUS
    <3>1. CASE t = s
      BY <1>1, <1>2, <1>4, <3>1 DEF SlotStep, TimeIsCorrect
    <3>2. CASE t # s
      BY <1>1, <1>4, <3>2 DEF SlotStep, TimeIsCorrect
    <3> QED BY <3>1, <3>2
  <2>2. \A x \in shares' : x \notin shares => SigningStep(r, x)
    BY <1>2, <1>4, <1>5 DEF SigningStep, FastPaths
  <2> QED BY <1>2, <1>3, <2>1, <2>2 DEF LogStep
<1>7. ExecutedIsCommitted'
  <2>1. UNCHANGED <<curView, viewActive, executed, lastExecutedSeqNum>> /\ shares \subseteq shares'
    BY <1>2 DEF viewVars
  <2>2. \A q \in Honest, t \in SeqNums :
            seqNumInfo[q][t].pp # None => seqNumInfo'[q][t].pp # None
    BY <1>3, <1>4
  <2> QED BY <2>1, <2>2, NothingExecuted
<1> QED BY <1>1, <1>6, <1>7, LogStepIsSafe

(* A commit certificate or a fast path proof, and executing what follows *)
LEMMA CommitIsSafe ==
    ASSUME AInv, IInv', NEW r \in Honest, NEW s \in SeqNums, NEW slot \in SeqNumInfo,
           slot.pp = seqNumInfo[r][s].pp, slot.isTimeCorrect = seqNumInfo[r][s].isTimeCorrect,
           slot.prepareFull = seqNumInfo[r][s].prepareFull, viewActive[r],
           CommitCertificate(curView[r], s, slot.pp), Commit(r, s, slot)
    PROVE  AInv'
<1> DEFINE slots == [seqNumInfo[r] EXCEPT ![s] = slot]
           last == ExecuteTo(r, slots)
<1>1. TypeOK /\ TypeOK' /\ TimeIsCorrect /\ ExecutedIsCommitted
  BY DEF AInv, IInv
<1>2. /\ slots \in [SeqNums -> SeqNumInfo] /\ slots[s] = slot
      /\ \A t \in SeqNums : t # s => slots[t] = seqNumInfo[r][t]
  BY <1>1 DEF TypeOK
<1> HIDE DEF slots
<1>3. /\ last \in lastExecutedSeqNum[r] .. MaxSeq
      /\ \A t \in lastExecutedSeqNum[r] + 1 .. last : IsCommitted(slots[t])
  BY <1>1, ExecuteToType
<1> HIDE DEF last
<1>4. /\ seqNumInfo' = [seqNumInfo EXCEPT ![r] = slots]
      /\ lastExecutedSeqNum' = [lastExecutedSeqNum EXCEPT ![r] = last]
      /\ executed' = [executed EXCEPT ![r] =
             [t \in SeqNums |-> IF lastExecutedSeqNum[r] < t /\ t <= last
                                THEN slots[t].pp ELSE executed[r][t]]]
      /\ UNCHANGED <<lastStableSeqNum, viewVars, netVars>>
  BY <1>1 DEF Commit, slots, last, TypeOK
<1>5. /\ UNCHANGED <<shares, curView, viewActive>>
      /\ \A q \in Honest : q # r => /\ seqNumInfo'[q] = seqNumInfo[q]
                                    /\ executed'[q] = executed[q]
                                    /\ lastExecutedSeqNum'[q] = lastExecutedSeqNum[q]
      /\ seqNumInfo'[r] = slots /\ lastExecutedSeqNum'[r] = last
      /\ \A t \in SeqNums : executed'[r][t] = IF lastExecutedSeqNum[r] < t /\ t <= last
                                              THEN slots[t].pp ELSE executed[r][t]
  BY <1>1, <1>4 DEF TypeOK, viewVars, netVars
<1>6. \A t \in SeqNums : slots[t].pp = seqNumInfo[r][t].pp
  BY <1>2
<1>7. LogStep(r)
  <2>1. \A t \in SeqNums : SlotStep(r, t)
    <3> SUFFICES ASSUME NEW t \in SeqNums PROVE SlotStep(r, t)
      OBVIOUS
    <3>1. CASE t = s
      BY <1>1, <1>2, <1>5, <3>1 DEF SlotStep, TimeIsCorrect
    <3>2. CASE t # s
      BY <1>1, <1>2, <1>5, <3>2 DEF SlotStep, TimeIsCorrect
    <3> QED BY <3>1, <3>2
  <2> QED BY <1>4, <1>5, <2>1 DEF LogStep
<1>8. ASSUME NEW t \in SeqNums, IsCommitted(slots[t])
      PROVE  CommitCertificate(curView[r], t, slots[t].pp) /\ slots[t].pp # None
  <2>1. CommitCertificate(curView[r], t, slots[t].pp)
    BY <1>2, <1>8 DEF AInv, LogIsSafe, SlotIsSafe
  <2> QED BY <1>1, <2>1, NoneHasNoCertificate
<1>9. ExecutedIsCommitted'
  <2> SUFFICES ASSUME NEW q \in Honest, NEW t \in SeqNums
               PROVE  /\ t <= lastExecutedSeqNum'[q] <=> executed'[q][t] # None
                      /\ executed'[q][t] # None =>
                             /\ viewActive[q] => seqNumInfo'[q][t].pp # None
                             /\ ExecutedIn(q, t, executed[q][t])'
    BY <1>5 DEF ExecutedIsCommitted
  <2>1. /\ t <= lastExecutedSeqNum[q] <=> executed[q][t] # None
        /\ executed[q][t] # None => /\ viewActive[q] => seqNumInfo[q][t].pp # None
                                    /\ ExecutedIn(q, t, executed[q][t])
    BY <1>1 DEF ExecutedIsCommitted
  <2>2. ASSUME NEW d, ExecutedIn(q, t, d) PROVE ExecutedIn(q, t, d)'
    BY <1>5, <2>2, CertificateStable DEF ExecutedIn
  <2>3. t \in Nat /\ lastExecutedSeqNum[r] \in Nat /\ last \in Nat /\ lastExecutedSeqNum[r] <= last
    BY <1>1, <1>3, BoundsAssumption DEF TypeOK, SeqNums
  <2>4. CASE q # r \/ ~(lastExecutedSeqNum[r] < t /\ t <= last)
    <3>1. /\ executed'[q][t] = executed[q][t] /\ seqNumInfo'[q][t].pp = seqNumInfo[q][t].pp
          /\ t <= lastExecutedSeqNum'[q] <=> t <= lastExecutedSeqNum[q]
      BY <1>5, <1>6, <2>3, <2>4
    <3>2. executed[q][t] # None => ExecutedIn(q, t, executed[q][t])'
      BY <2>1, <2>2, <3>1
    <3> QED BY <2>1, <3>1, <3>2
  <2>5. CASE q = r /\ lastExecutedSeqNum[r] < t /\ t <= last
    <3>1. IsCommitted(slots[t])
      BY <1>3, <2>3, <2>5
    <3>2. executed'[q][t] = slots[t].pp /\ slots[t].pp # None /\ seqNumInfo'[q][t].pp # None
      BY <1>5, <1>8, <2>5, <3>1
    <3>3. ExecutedIn(r, t, slots[t].pp)
      <4>1. curView[r] \in Views
        BY <1>1 DEF TypeOK
      <4> QED BY <1>8, <3>1, <4>1 DEF ExecutedIn
    <3>4. ExecutedIn(q, t, executed[q][t])'
      BY <2>2, <2>5, <3>2, <3>3
    <3> QED BY <1>5, <2>5, <3>2, <3>4
  <2> QED BY <2>4, <2>5
<1> QED BY <1>7, <1>9, LogStepIsSafe

(* A commit certificate *)
LEMMA OnCommitFullIsSafe ==
    ASSUME AInv, NEW r \in Honest, NEW s \in SeqNums, OnCommitFull(r, s)
    PROVE  AInv'
<1> DEFINE slot == [seqNumInfo[r][s] EXCEPT !.commitFull = TRUE]
<1>1. IInv' /\ seqNumInfo[r][s] \in SeqNumInfo
  BY OnCommitFullStep DEF AInv, IInv, TypeOK
<1>2. /\ slot \in SeqNumInfo /\ slot.pp = seqNumInfo[r][s].pp
      /\ slot.isTimeCorrect = seqNumInfo[r][s].isTimeCorrect
      /\ slot.prepareFull = seqNumInfo[r][s].prepareFull
  BY <1>1 DEF SeqNumInfo
<1>3. /\ viewActive[r] /\ Commit(r, s, slot) /\ CommitCertificate(curView[r], s, slot.pp)
  BY <1>2 DEF OnCommitFull, RelevantForActiveView, CommitCertificate
<1> HIDE DEF slot
<1> QED BY <1>1, <1>2, <1>3, CommitIsSafe

(* A fast path proof *)
LEMMA OnFullCommitProofIsSafe ==
    ASSUME AInv, NEW r \in Honest, NEW s \in SeqNums, OnFullCommitProof(r, s)
    PROVE  AInv'
<1> DEFINE slot == [seqNumInfo[r][s] EXCEPT !.forcedCompleted = TRUE]
<1>1. IInv' /\ seqNumInfo[r][s] \in SeqNumInfo
  BY OnFullCommitProofStep DEF AInv, IInv, TypeOK
<1>2. /\ slot \in SeqNumInfo /\ slot.pp = seqNumInfo[r][s].pp
      /\ slot.isTimeCorrect = seqNumInfo[r][s].isTimeCorrect
      /\ slot.prepareFull = seqNumInfo[r][s].prepareFull
  BY <1>1 DEF SeqNumInfo
<1>3. viewActive[r] /\ Commit(r, s, slot)
  BY DEF OnFullCommitProof, RelevantForActiveView
<1>4. CommitCertificate(curView[r], s, slot.pp)
  <2>1. /\ seqNumInfo[r][s].fastPath \in FastPaths
        /\ Certificate(seqNumInfo[r][s].fastPath, curView[r], s, seqNumInfo[r][s].pp)
    BY <1>1 DEF OnFullCommitProof, SeqNumInfo
  <2> QED BY <1>2, <2>1 DEF CommitCertificate
<1> HIDE DEF slot
<1> QED BY <1>1, <1>2, <1>3, <1>4, CommitIsSafe

-----------------------------------------------------------------------------
(* Leaving a view *)

(* In scope every sequence number is in the window of every replica, and   *)
(* the whole window is restricted by a new view or none of it.             *)
LEMMA WindowIsWhole ==
    ASSUME InScope, AInv
    PROVE  /\ \A r \in Honest, s \in SeqNums : InActiveWindow(r, s)
           /\ \A r \in Honest : \A nv :
                  \/ RestrictedSeqNums(nv, lastStableSeqNum[r]) = SeqNums
                  \/ /\ RestrictedSeqNums(nv, lastStableSeqNum[r]) = {}
                     /\ \A s \in SeqNums : nv.restriction[s] = None
<1>1. \A r \in Honest : lastStableSeqNum[r] = 0
  BY DEF AInv, NoCheckpoint
<1>2. /\ WorkWindow = 2 * CheckpointWindow /\ MaxSeq \in Nat /\ CheckpointWindow \in Nat
      /\ MaxSeq < CheckpointWindow
  BY BoundsAssumption DEF InScope
<1>3. \A s \in SeqNums : s \in Nat /\ 0 < s /\ s <= CheckpointWindow /\ s <= WorkWindow
  BY <1>2 DEF SeqNums
<1>4. ASSUME NEW nv
      PROVE  \/ RestrictedSeqNums(nv, 0) = SeqNums
             \/ RestrictedSeqNums(nv, 0) = {} /\ \A s \in SeqNums : nv.restriction[s] = None
  <2>1. 0 + WorkWindow = WorkWindow /\ WorkWindow - CheckpointWindow = CheckpointWindow
    BY <1>2
  <2> QED BY <1>3, <2>1 DEF RestrictedSeqNums
<1> QED BY <1>1, <1>2, <1>3, <1>4 DEF InActiveWindow

(* The previous ViewChangeMsg of a replica that has moved before. *)
LEMMA PreviousMessage ==
    ASSUME AInv, NEW r \in Honest, NEW s \in SeqNums
    PROVE  /\ curView[r] \in Views /\ curView[r] \in Nat
           /\ MyLatestViewChangeMsg(r).elems[s] \in Element
           /\ ElementIsSafe(curView[r], s, MyLatestViewChangeMsg(r).elems[s])
<1>1. curView[r] \in Views /\ curView[r] \in Nat
  BY BoundsAssumption DEF AInv, IInv, TypeOK, Views
<1>2. MyLatestViewChangeMsg(r) \in ViewChangeMsg \cup {NoMsg}
  BY <1>1 DEF AInv, IInv, TypeOK, MyLatestViewChangeMsg
<1>3. NoElem \in Element
  BY BoundsAssumption DEF NoElem, Element, Views
<1>4. MyLatestViewChangeMsg(r).elems[s] \in Element
  BY <1>2, <1>3 DEF ViewChangeMsg, NoMsg
<1>5. ElementIsSafe(curView[r], s, MyLatestViewChangeMsg(r).elems[s])
  BY <1>1 DEF AInv, ElementsAreSafe, MyLatestViewChangeMsg
<1> QED BY <1>1, <1>4, <1>5

(* The element an active replica adds is safe in every later view. *)
LEMMA ElementOfIsSafe ==
    ASSUME AInv, NEW r \in Honest, NEW s \in SeqNums, viewActive[r], NEW w \in Views,
           curView[r] < w
    PROVE  ElementIsSafe(w, s, ElementOf(r, s))
<1> DEFINE slot == seqNumInfo[r][s]
           prev == MyLatestViewChangeMsg(r).elems[s]
           e == ElementOf(r, s)
<1>1. /\ slot \in SeqNumInfo /\ SlotIsSafe(r, s, slot) /\ curView[r] \in Nat /\ w \in Nat
      /\ prev \in Element /\ ElementIsSafe(curView[r], s, prev)
  BY PreviousMessage, BoundsAssumption DEF AInv, IInv, TypeOK, LogIsSafe, Views
<1>2. SafeAt(curView[r], s, slot.pp)
  BY <1>1 DEF SlotIsSafe
<1>3. \/ e = NoElem
      \/ /\ slot.pp # None
         /\ \/ e = [dig |-> slot.pp, origin |-> curView[r], cert |-> curView[r]] /\ slot.prepareFull
            \/ /\ e = [dig |-> slot.pp, origin |-> curView[r], cert |-> prev.cert]
               /\ prev.cert # NoCert /\ prev.dig = slot.pp
            \/ e = [dig |-> slot.pp, origin |-> curView[r], cert |-> NoCert]
  BY DEF ElementOf
<1>4. slot.pp # None => slot.pp \in Digests
  BY <1>1 DEF SeqNumInfo
<1>5. slot.prepareFull => Certificate("PREPARE", curView[r], s, slot.pp)
  BY <1>1 DEF SlotIsSafe
<1>6. prev.cert # NoCert =>
          prev.cert <= curView[r] /\ Certificate("PREPARE", prev.cert, s, prev.dig)
  <2>1. prev.cert # NoCert => prev # NoElem
    BY DEF NoElem
  <2>2. prev.cert # NoCert => prev.cert \in Nat /\ prev.origin \in Nat
    BY <1>1, BoundsAssumption DEF Element, Views
  <2> HIDE DEF prev
  <2> QED BY <1>1, <2>1, <2>2 DEF ElementIsSafe
<1> HIDE DEF slot, prev, e
<1>7. ElementIsSafe(w, s, e)
  BY <1>1, <1>2, <1>3, <1>4, <1>5, <1>6 DEF ElementIsSafe
<1> QED BY <1>7 DEF e

(* It reports every vote of the replica that may still count. *)
LEMMA ElementOfReports ==
    ASSUME InScope, AInv, NEW x \in shares, x.type \in CommitTypes, viewActive[x.rep]
    PROVE  Reports(ElementOf(x.rep, x.seq), x)
<1> SUFFICES ASSUME Possible(x.type, x.view, x.seq, x.dig)
             PROVE  /\ ElementOf(x.rep, x.seq).dig = x.dig
                    /\ ElementOf(x.rep, x.seq).origin >= x.view
                    /\ x.type = "COMMIT" => ElementOf(x.rep, x.seq).cert >= x.view
  BY DEF Reports
<1> DEFINE r == x.rep
           s == x.seq
           slot == seqNumInfo[r][s]
           prev == MyLatestViewChangeMsg(r).elems[s]
           e == ElementOf(r, s)
<1>1. /\ x \in Share /\ r \in Honest /\ s \in SeqNums /\ x.view \in Nat /\ x.view \in Views
      /\ x.dig \in Digests /\ s \in Nat /\ s > 0
  BY BoundsAssumption DEF AInv, IInv, TypeOK, Share, Views, SeqNums
<1>2. /\ curView[r] \in Views /\ curView[r] \in Nat /\ prev \in Element /\ slot \in SeqNumInfo
      /\ slot.isTimeCorrect /\ lastStableSeqNum[r] = 0 /\ InActiveWindow(r, s)
  BY <1>1, PreviousMessage, WindowIsWhole DEF AInv, IInv, TypeOK, TimeIsCorrect, NoCheckpoint
<1>3. x.view <= curView[r]
  BY <1>1, <1>2 DEF AInv, IInv, SignaturesFollowLog
<1>4. slot.pp = x.dig
  <2>1. CASE x.view = curView[r]
    BY <1>1, <1>2, <2>1 DEF AInv, IInv, SignaturesFollowLog
  <2>2. CASE x.view # curView[r]
    <3>1. SafeAt(curView[r], s, slot.pp)
      BY <1>1 DEF AInv, LogIsSafe, SlotIsSafe
    <3> QED BY <1>1, <1>2, <1>3, <2>2, <3>1 DEF SafeAt
  <2> QED BY <2>1, <2>2
<1>5. x.type = "COMMIT" => \/ slot.prepareFull
                           \/ prev.cert # NoCert /\ prev.dig = x.dig /\ prev.cert >= x.view
  <2> SUFFICES ASSUME x.type = "COMMIT"
               PROVE  \/ slot.prepareFull
                      \/ prev.cert # NoCert /\ prev.dig = x.dig /\ prev.cert >= x.view
    OBVIOUS
  <2>1. CASE x.view = curView[r]
    BY <2>1 DEF AInv, CommitsArePrepared
  <2>2. CASE x.view # curView[r]
    <3>1. x.view < curView[r] /\ curView[r] > 0
      BY <1>1, <1>2, <1>3, <2>2
    <3>2. viewChangeMsgs[r][curView[r]] # NoMsg
      BY <1>1, <3>1 DEF AInv, MessagesFollowViews
    <3>3. Reports(prev, x)
      BY <1>2, <3>1, <3>2 DEF AInv, VotesAreReported, MyLatestViewChangeMsg
    <3>4. prev.dig = x.dig /\ prev.cert >= x.view
      BY <3>3 DEF Reports
    <3> QED BY <1>1, <3>4 DEF NoCert
  <2> QED BY <2>1, <2>2
<1>6. x.type # "COMMIT" => x.dig # Null
  <2>1. x.type # "COMMIT" => x.dig \in Requests
    BY DEF AInv, SharesAreSafe, ShareIsSafe, CommitTypes
  <2> QED BY <2>1, DigestAssumption
<1>7. slot.pp # None
  BY <1>1, <1>4, DigestFacts
<1>8. slot.prepareFull => e = [dig |-> slot.pp, origin |-> curView[r], cert |-> curView[r]]
  BY <1>2, <1>7 DEF ElementOf
<1>9. ~slot.prepareFull /\ prev.cert # NoCert /\ prev.dig = slot.pp
          => e = [dig |-> slot.pp, origin |-> curView[r], cert |-> prev.cert]
  BY <1>2, <1>7 DEF ElementOf
<1>10. ~slot.prepareFull /\ ~(prev.cert # NoCert /\ prev.dig = slot.pp) /\ slot.pp # Null
          => e = [dig |-> slot.pp, origin |-> curView[r], cert |-> NoCert]
  BY <1>2, <1>7 DEF ElementOf
<1>11. e.dig = slot.pp /\ e.origin = curView[r] /\ (x.type = "COMMIT" => e.cert >= x.view)
  <2> HIDE DEF e, slot, prev, r, s
  <2> QED BY <1>3, <1>4, <1>5, <1>6, <1>8, <1>9, <1>10
<1> QED BY <1>1, <1>2, <1>3, <1>4, <1>11

(* MoveToHigherView *)
LEMMA MoveToHigherViewIsSafe ==
    ASSUME InScope, AInv, NEW r \in Honest, NEW v \in Views, MoveToHigherView(r, v)
    PROVE  AInv'
<1> DEFINE msg == IF viewActive[r] THEN ExitFromCurrentView(r) ELSE MyLatestViewChangeMsg(r)
<1>1. /\ TypeOK /\ TypeOK' /\ IInv' /\ curView[r] < v /\ curView[r] \in Views
      /\ curView[r] \in Nat /\ v \in Nat
  <2>1. IInv /\ IInv'
    BY MoveToHigherViewStep DEF AInv
  <2>2. TypeOK /\ TypeOK'
    BY <2>1 DEF IInv
  <2>3. curView[r] \in Views /\ curView[r] < v
    BY <2>2 DEF TypeOK, MoveToHigherView
  <2> QED BY <2>1, <2>2, <2>3, BoundsAssumption DEF Views
<1>2. /\ viewChangeMsgs' = [viewChangeMsgs EXCEPT ![r][v] = msg]
      /\ curView' = [curView EXCEPT ![r] = v]
      /\ viewActive' = [viewActive EXCEPT ![r] = FALSE]
      /\ seqNumInfo' = [seqNumInfo EXCEPT ![r] = [s \in SeqNums |-> ResetAndFree(seqNumInfo[r][s])]]
      /\ UNCHANGED <<lastExecutedSeqNum, lastStableSeqNum, executed, newViewMsgs, shares>>
  BY <1>1 DEF MoveToHigherView, TypeOK, netVars
<1>3. /\ curView'[r] = v /\ viewActive'[r] = FALSE
      /\ \A q \in Honest : q # r => /\ curView'[q] = curView[q] /\ viewActive'[q] = viewActive[q]
                                    /\ seqNumInfo'[q] = seqNumInfo[q]
                                    /\ viewChangeMsgs'[q] = viewChangeMsgs[q]
      /\ \A w \in Views : w # v => viewChangeMsgs'[r][w] = viewChangeMsgs[r][w]
      /\ viewChangeMsgs'[r][v] = msg
      /\ \A s \in SeqNums : seqNumInfo'[r][s] = ResetAndFree(seqNumInfo[r][s])
  BY <1>1, <1>2 DEF TypeOK
<1>4. /\ msg # NoMsg
      /\ \A s \in SeqNums : msg.elems[s] = IF viewActive[r] THEN ElementOf(r, s)
                                           ELSE MyLatestViewChangeMsg(r).elems[s]
  <2>1. CASE viewActive[r]
    <3>1. ExitFromCurrentView(r).lastStable # NoMsg.lastStable
      BY <1>1 DEF ExitFromCurrentView, NoMsg, TypeOK
    <3> QED BY <2>1, <3>1 DEF ExitFromCurrentView
  <2>2. CASE ~viewActive[r]
    BY <2>2 DEF AInv, MessagesFollowViews, MyLatestViewChangeMsg
  <2> QED BY <2>1, <2>2
<1> HIDE DEF msg
<1>5. Onward
  <2>1. \A q \in Honest : curView[q] <= curView'[q]
    <3> SUFFICES ASSUME NEW q \in Honest PROVE curView[q] <= curView'[q]
      OBVIOUS
    <3>1. curView[q] \in Nat
      BY <1>1, BoundsAssumption DEF TypeOK, Views
    <3> QED BY <1>1, <1>3, <3>1
  <2> QED BY <1>2, <2>1 DEF Onward
<1>6. \A s \in SeqNums : LET slot == seqNumInfo'[r][s]
                         IN  /\ slot.pp = None /\ ~slot.prepareFull /\ ~IsCommitted(slot)
                             /\ slot.isTimeCorrect = seqNumInfo[r][s].isTimeCorrect
  <2> SUFFICES ASSUME NEW s \in SeqNums
               PROVE  LET slot == ResetAndFree(seqNumInfo[r][s])
                      IN  /\ slot.pp = None /\ ~slot.prepareFull /\ ~IsCommitted(slot)
                          /\ slot.isTimeCorrect = seqNumInfo[r][s].isTimeCorrect
    BY <1>3
  <2>1. seqNumInfo[r][s] \in SeqNumInfo
    BY <1>1 DEF TypeOK
  <2> QED BY <2>1 DEF ResetAndFree, IsCommitted, SeqNumInfo
<1>7. NoCheckpoint' /\ TimeIsCorrect'
  BY <1>2, <1>3, <1>6 DEF AInv, NoCheckpoint, TimeIsCorrect
<1>8. LogIsSafe'
  <2> SUFFICES ASSUME NEW q \in Honest, NEW s \in SeqNums
               PROVE  SlotIsSafe(q, s, seqNumInfo[q][s])'
    BY DEF LogIsSafe
  <2>1. CASE q = r
    <3>1. IsCommitted(seqNumInfo[q][s])' = IsCommitted(seqNumInfo'[r][s])
      BY <2>1 DEF IsCommitted
    <3> QED BY <1>3, <1>6, <2>1, <3>1 DEF SlotIsSafe
  <2>2. CASE q # r
    <3>1. SlotIsSafe(q, s, seqNumInfo[q][s])
      BY DEF AInv, LogIsSafe
    <3>2. /\ seqNumInfo'[q][s] = seqNumInfo[q][s] /\ curView'[q] = curView[q]
          /\ viewActive'[q] = viewActive[q]
      BY <1>3, <2>2
    <3> QED BY <1>1, <1>2, <1>5, <3>1, <3>2, SafeAtStable, CertificateStable DEF SlotIsSafe
  <2> QED BY <2>1, <2>2
<1>9. \A x \in shares : /\ x \in Share /\ x.rep \in Honest /\ x.view \in Views /\ x.view \in Nat
                        /\ x.seq \in SeqNums
                        /\ x.rep = r => x.view <= curView[r]
                        /\ x.rep = r /\ ~viewActive[r] => x.view < curView[r]
  BY <1>1, BoundsAssumption DEF AInv, IInv, TypeOK, Share, Views, SignaturesFollowLog
<1>10. SharesAreSafe' /\ CommitsArePrepared'
  <2>1. ASSUME NEW x \in shares PROVE ShareIsSafe(x)'
    <3>1. ShareIsSafe(x)
      BY DEF AInv, SharesAreSafe
    <3> QED BY <1>1, <1>2, <1>5, <3>1, SafeAtStable, CertificateStable DEF ShareIsSafe
  <2>2. ASSUME NEW x \in shares, x.type = "COMMIT", x.view = curView'[x.rep]
        PROVE  seqNumInfo'[x.rep][x.seq].prepareFull
    <3>1. x.rep # r
      BY <1>1, <1>3, <1>9, <2>2
    <3>2. seqNumInfo'[x.rep] = seqNumInfo[x.rep] /\ curView'[x.rep] = curView[x.rep]
      BY <1>3, <1>9, <3>1
    <3> QED BY <2>2, <3>2 DEF AInv, CommitsArePrepared
  <2> QED BY <1>2, <2>1, <2>2 DEF SharesAreSafe, CommitsArePrepared
<1>11. MessagesFollowViews'
  <2>1. ASSUME NEW q \in Honest, q # r
        PROVE  /\ \A w \in Views : viewChangeMsgs'[q][w] # NoMsg => w <= curView'[q]
               /\ curView'[q] > 0 \/ ~viewActive'[q] => viewChangeMsgs'[q][curView'[q]] # NoMsg
    BY <1>3, <2>1 DEF AInv, MessagesFollowViews
  <2>2. ASSUME NEW w \in Views, viewChangeMsgs'[r][w] # NoMsg PROVE w <= v
    <3>1. w \in Nat
      BY BoundsAssumption DEF Views
    <3>2. CASE w # v
      BY <1>1, <1>3, <2>2, <3>1, <3>2 DEF AInv, MessagesFollowViews
    <3> QED BY <1>1, <3>2
  <2> QED BY <1>3, <1>4, <2>1, <2>2 DEF MessagesFollowViews
<1>12. ElementsAreSafe'
  <2> SUFFICES ASSUME NEW q \in Honest, NEW w \in Views, NEW s \in SeqNums
               PROVE  ElementIsSafe(w, s, viewChangeMsgs[q][w].elems[s])'
    BY DEF ElementsAreSafe
  <2>1. ASSUME NEW e, ElementIsSafe(w, s, e) PROVE ElementIsSafe(w, s, e)'
    BY <1>1, <1>2, <1>5, <2>1, SafeAtStable, CertificateStable DEF ElementIsSafe
  <2>2. CASE ~(q = r /\ w = v)
    <3>1. viewChangeMsgs'[q][w] = viewChangeMsgs[q][w]
      BY <1>3, <2>2
    <3>2. ElementIsSafe(w, s, viewChangeMsgs[q][w].elems[s])
      BY DEF AInv, ElementsAreSafe
    <3> QED BY <2>1, <3>1, <3>2
  <2>3. CASE q = r /\ w = v
    <3>1. ElementIsSafe(v, s, msg.elems[s])
      <4>1. CASE viewActive[r]
        BY <1>1, <1>4, <4>1, ElementOfIsSafe
      <4>2. CASE ~viewActive[r]
        <5> DEFINE e == MyLatestViewChangeMsg(r).elems[s]
        <5>1. ElementIsSafe(curView[r], s, e) /\ e \in Element
          BY PreviousMessage
        <5>2. e.origin \in Nat
          BY <5>1, BoundsAssumption DEF Element, Views
        <5> HIDE DEF e
        <5>3. ElementIsSafe(v, s, e)
          BY <1>1, <5>1, <5>2 DEF ElementIsSafe
        <5> QED BY <1>4, <4>2, <5>3 DEF e
      <4> QED BY <4>1, <4>2
    <3> QED BY <1>3, <2>1, <2>3, <3>1
  <2> QED BY <2>2, <2>3
<1>13. VotesAreReported'
  <2> SUFFICES ASSUME NEW x \in shares, NEW w \in Views, viewChangeMsgs'[x.rep][w] # NoMsg,
                      x.view < w, x.type \in CommitTypes
               PROVE  Reports(viewChangeMsgs[x.rep][w].elems[x.seq], x)'
    BY <1>2 DEF VotesAreReported
  <2>1. ASSUME NEW e, Reports(e, x) PROVE Reports(e, x)'
    BY <1>1, <1>5, <1>9, <2>1, PossibleStable DEF Reports
  <2>2. CASE ~(x.rep = r /\ w = v)
    <3>1. viewChangeMsgs'[x.rep][w] = viewChangeMsgs[x.rep][w]
      BY <1>3, <1>9, <2>2
    <3>2. Reports(viewChangeMsgs[x.rep][w].elems[x.seq], x)
      BY <3>1 DEF AInv, VotesAreReported
    <3> QED BY <2>1, <3>1, <3>2
  <2>3. CASE x.rep = r /\ w = v
    <3>1. Reports(msg.elems[x.seq], x)
      <4>1. CASE viewActive[r]
        BY <1>4, <1>9, <2>3, <4>1, ElementOfReports
      <4>2. CASE ~viewActive[r]
        <5>1. x.view < curView[r] /\ viewChangeMsgs[r][curView[r]] # NoMsg
          BY <1>9, <2>3, <4>2 DEF AInv, MessagesFollowViews
        <5>2. Reports(viewChangeMsgs[r][curView[r]].elems[x.seq], x)
          BY <1>1, <2>3, <5>1 DEF AInv, VotesAreReported
        <5> QED BY <1>4, <1>9, <4>2, <5>2 DEF MyLatestViewChangeMsg
      <4> QED BY <4>1, <4>2
    <3> QED BY <1>3, <2>1, <2>3, <3>1
  <2> QED BY <2>2, <2>3
<1>14. NewViewsAreSafe'
  <2> SUFFICES ASSUME NEW w \in Views, newViewMsgs[w] # NoNewView, NEW s \in SeqNums
               PROVE  SafeAt(w, s, newViewMsgs[w].restriction[s])'
    BY <1>2 DEF NewViewsAreSafe, OutcomeIsSafe
  <2>1. SafeAt(w, s, newViewMsgs[w].restriction[s]) /\ newViewMsgs' = newViewMsgs
    BY <1>2 DEF AInv, NewViewsAreSafe, OutcomeIsSafe
  <2> QED BY <1>1, <1>5, <2>1, SafeAtStable
<1>15. ExecutedIsCommitted'
  <2> SUFFICES ASSUME NEW q \in Honest, NEW s \in SeqNums
               PROVE  /\ s <= lastExecutedSeqNum[q] <=> executed[q][s] # None
                      /\ executed[q][s] # None =>
                             /\ viewActive'[q] => seqNumInfo'[q][s].pp # None
                             /\ ExecutedIn(q, s, executed[q][s])'
    BY <1>2 DEF ExecutedIsCommitted
  <2>1. /\ s <= lastExecutedSeqNum[q] <=> executed[q][s] # None
        /\ executed[q][s] # None => /\ viewActive[q] => seqNumInfo[q][s].pp # None
                                    /\ ExecutedIn(q, s, executed[q][s])
    BY DEF AInv, ExecutedIsCommitted
  <2>2. ASSUME NEW d, ExecutedIn(q, s, d) PROVE ExecutedIn(q, s, d)'
    <3>1. PICK u \in Views : /\ u < curView[q] \/ (u = curView[q] /\ viewActive[q])
                             /\ CommitCertificate(u, s, d)
      BY <2>2 DEF ExecutedIn
    <3>2. u < curView'[q] \/ (u = curView'[q] /\ viewActive'[q])
      <4>1. u \in Nat
        BY BoundsAssumption DEF Views
      <4> QED BY <1>1, <1>3, <3>1, <4>1
    <3> QED BY <1>2, <3>1, <3>2, CertificateStable DEF ExecutedIn
  <2>3. viewActive'[q] /\ executed[q][s] # None => seqNumInfo'[q][s].pp # None
    BY <1>3, <2>1
  <2>4. executed[q][s] # None => ExecutedIn(q, s, executed[q][s])'
    BY <1>2, <2>1, <2>2
  <2> QED BY <2>1, <2>3, <2>4
<1> QED BY <1>1, <1>7, <1>8, <1>10, <1>11, <1>12, <1>13, <1>14, <1>15 DEF AInv

-----------------------------------------------------------------------------
(* Entering a view: what a quorum of ViewChangeMsgs shows *)

(* Two sets of f+c+1 messages out of a view change quorum share one. *)
LEMMA VotesIntersect ==
    ASSUME NEW Q \in SUBSET Replicas, Cardinality(Q) = ViewChangeQuorum,
           NEW A \in SUBSET Q, NEW B \in SUBSET Q,
           Cardinality(A) >= F + C + 1, Cardinality(B) >= F + C + 1
    PROVE  \E q \in Q : q \in A /\ q \in B
<1>1. IsFiniteSet(Q) /\ IsFiniteSet(A) /\ IsFiniteSet(B) /\ IsFiniteSet(A \cap B)
  <2>1. IsFiniteSet(Q)
    BY ReplicasFinite, FS_Subset
  <2>2. IsFiniteSet(A) /\ IsFiniteSet(B)
    BY <2>1, FS_Subset
  <2> QED BY <2>1, <2>2, FS_Intersection
<1>2. Cardinality(A \cup B) = Cardinality(A) + Cardinality(B) - Cardinality(A \cap B)
  BY <1>1, FS_Union
<1>3. Cardinality(A \cup B) <= Cardinality(Q)
  <2>1. A \cup B \in SUBSET Q OBVIOUS
  <2> QED BY <1>1, <2>1, FS_Subset
<1>4. /\ Cardinality(A) \in Nat /\ Cardinality(B) \in Nat /\ Cardinality(Q) \in Nat
      /\ Cardinality(A \cap B) \in Nat
  BY <1>1, FS_CardinalityType
<1>5. Cardinality(A \cap B) # 0
  BY <1>2, <1>3, <1>4, ConfigAssumption DEF ViewChangeQuorum
<1>6. A \cap B # {}
  BY <1>5, FS_EmptySet
<1> QED BY <1>6

(* A quorum of ViewChangeMsgs for w: the honest ones are those the         *)
(* replicas sent, and every certificate in them exists.                    *)
IsQuorumOfMsgs(Q, m, w) ==
    /\ Q \in SUBSET Replicas /\ Cardinality(Q) = ViewChangeQuorum /\ DOMAIN m = Q
    /\ \A q \in Q \ Byz : /\ q \in Honest /\ m[q] = viewChangeMsgs[q][w]
                          /\ viewChangeMsgs[q][w] # NoMsg /\ w <= curView[q]
    /\ \A q \in Q, s \in SeqNums :
           /\ m[q].elems[s] \in Element
           /\ m[q].elems[s].cert # NoCert =>
                  Certificate("PREPARE", m[q].elems[s].cert, s, m[q].elems[s].dig)

(* Whatever a replica finds in the messages for a view is one. *)
LEMMA QuorumOfMsgs ==
    ASSUME AInv, NEW w \in Views, NEW m \in ViewChangeSets(w)
    PROVE  \E Q : IsQuorumOfMsgs(Q, m, w)
<1>1. PICK Q \in SUBSET Replicas :
          /\ Cardinality(Q) = ViewChangeQuorum
          /\ \A q \in Q \ Byz : viewChangeMsgs[q][w] # NoMsg
          /\ \E b \in [Q \cap Byz -> ByzViewChangeMsgs(w)] :
                m = [q \in Q |-> IF q \in Byz THEN b[q] ELSE viewChangeMsgs[q][w]]
  BY DEF ViewChangeSets
<1>2. PICK b \in [Q \cap Byz -> ByzViewChangeMsgs(w)] :
          m = [q \in Q |-> IF q \in Byz THEN b[q] ELSE viewChangeMsgs[q][w]]
  BY <1>1
<1>3. ASSUME NEW q \in Q \ Byz
      PROVE  /\ q \in Honest /\ m[q] = viewChangeMsgs[q][w]
             /\ viewChangeMsgs[q][w] # NoMsg /\ w <= curView[q]
  <2>1. q \in Honest
    BY DEF Honest
  <2> QED BY <1>1, <1>2, <2>1 DEF AInv, MessagesFollowViews
<1>4. ASSUME NEW q \in Q, NEW s \in SeqNums
      PROVE  /\ m[q].elems[s] \in Element
             /\ m[q].elems[s].cert # NoCert =>
                    Certificate("PREPARE", m[q].elems[s].cert, s, m[q].elems[s].dig)
  <2>1. CASE q \in Byz
    <3>1. m[q] \in ByzViewChangeMsgs(w)
      BY <1>2, <2>1
    <3>2. m[q] \in ViewChangeMsg
      BY <3>1, ByzViewChangeMsgsType
    <3>3. m[q].elems[s] \in ByzElements(w, s)
      BY <3>1 DEF ByzViewChangeMsgs
    <3>4. m[q].elems[s].cert # NoCert =>
              Certificate("PREPARE", m[q].elems[s].cert, s, m[q].elems[s].dig)
      BY <3>3 DEF ByzElements, NoElem
    <3> QED BY <3>2, <3>4 DEF ViewChangeMsg
  <2>2. CASE q \notin Byz
    <3>1. q \in Honest /\ m[q] = viewChangeMsgs[q][w] /\ viewChangeMsgs[q][w] # NoMsg
      BY <1>3, <2>2
    <3>2. m[q] \in ViewChangeMsg
      BY <3>1 DEF AInv, IInv, TypeOK
    <3>3. ElementIsSafe(w, s, m[q].elems[s])
      BY <3>1 DEF AInv, ElementsAreSafe
    <3>4. m[q].elems[s].cert # NoCert => m[q].elems[s] # NoElem
      BY DEF NoElem
    <3> QED BY <3>2, <3>3, <3>4 DEF ViewChangeMsg, ElementIsSafe
  <2> QED BY <2>1, <2>2
<1>5. DOMAIN m = Q
  BY <1>2
<1> QED BY <1>1, <1>3, <1>4, <1>5 DEF IsQuorumOfMsgs

(* The honest replicas of a quorum that may have signed did, and report it. *)
LEMMA HonestVote ==
    ASSUME AInv, NEW w \in Views, NEW Q, NEW m, IsQuorumOfMsgs(Q, m, w),
           NEW t \in CommitTypes, NEW v \in Views, v < w, NEW s \in SeqNums, NEW d \in Digests,
           Possible(t, v, s, d), NEW q \in Q \ Byz, q \in MaySign(t, v, s, d)
    PROVE  /\ [type |-> t, rep |-> q, view |-> v, seq |-> s, dig |-> d] \in shares
           /\ m[q].elems[s].dig = d /\ m[q].elems[s].origin >= v
           /\ t = "COMMIT" => m[q].elems[s].cert >= v
<1> DEFINE x == [type |-> t, rep |-> q, view |-> v, seq |-> s, dig |-> d]
<1>1. /\ q \in Honest /\ m[q] = viewChangeMsgs[q][w] /\ viewChangeMsgs[q][w] # NoMsg
      /\ w <= curView[q]
  BY DEF IsQuorumOfMsgs
<1>2. curView[q] \in Nat /\ w \in Nat /\ v \in Nat
  BY <1>1, BoundsAssumption DEF AInv, IInv, TypeOK, Views
<1>3. x \in shares
  BY <1>1, <1>2 DEF MaySign, Honest
<1>4. x.rep = q /\ x.view = v /\ x.type = t /\ x.seq = s /\ x.dig = d
  OBVIOUS
<1> HIDE DEF x
<1>5. Reports(m[q].elems[s], x)
  BY <1>1, <1>3, <1>4 DEF AInv, VotesAreReported
<1>6. /\ m[q].elems[s].dig = d /\ m[q].elems[s].origin >= v
      /\ t = "COMMIT" => m[q].elems[s].cert >= v
  BY <1>4, <1>5 DEF Reports
<1> QED BY <1>3, <1>6 DEF x

(* A prepared certificate of a later view is for what may have been        *)
(* committed before it.                                                    *)
LEMMA LaterCertificate ==
    ASSUME AInv, NEW t \in CommitTypes, NEW v \in Views, NEW s \in SeqNums, NEW d \in Digests,
           Possible(t, v, s, d), NEW c \in Views, v < c, NEW e, Certificate("PREPARE", c, s, e)
    PROVE  e = d
<1>1. PICK r \in Honest :
          [type |-> "PREPARE", rep |-> r, view |-> c, seq |-> s, dig |-> e] \in shares
  BY CertificateSigner
<1>2. SafeAt(c, s, e)
  BY <1>1 DEF AInv, SharesAreSafe, ShareIsSafe
<1> QED BY <1>2 DEF SafeAt

(* So are f+c+1 votes from later views. *)
LEMMA LaterVotes ==
    ASSUME AInv, NEW w \in Views, NEW Q, NEW m, IsQuorumOfMsgs(Q, m, w),
           NEW t \in CommitTypes, NEW v \in Views, NEW s \in SeqNums, NEW d \in Digests,
           Possible(t, v, s, d), v < MinRelevantFastView(m, s),
           MinRelevantFastView(m, s) \in Nat, NEW e \in FastSelected(m, s)
    PROVE  e = d
<1> DEFINE A == FastVotes(m, s, e)
<1>1. A \subseteq Replicas /\ Cardinality(A) >= F + C + 1 /\ e \in Digests
  BY DEF IsQuorumOfMsgs, FastVotes, FastSelected
<1>2. Cardinality(A) > F
  <2> HIDE DEF A
  <2> QED BY <1>1, LargerSet, ConfigAssumption
<1>3. PICK q \in Honest : q \in A
  <2> HIDE DEF A
  <2> QED BY <1>1, <1>2, HonestMembers
<1>4. /\ q \in Q \ Byz /\ m[q].elems[s].dig = e
      /\ m[q].elems[s].origin >= MinRelevantFastView(m, s)
  BY <1>3 DEF FastVotes, Honest, IsQuorumOfMsgs
<1>5. /\ m[q] = viewChangeMsgs[q][w] /\ m[q].elems[s] \in Element /\ m[q].elems[s] # NoElem
  BY <1>1, <1>4, DigestFacts DEF IsQuorumOfMsgs, NoElem
<1>6. m[q].elems[s].origin \in Nat /\ v \in Nat
  BY <1>5, BoundsAssumption DEF Element, Views
<1>7. SafeAt(m[q].elems[s].origin, s, e)
  BY <1>3, <1>4, <1>5 DEF AInv, ElementsAreSafe, ElementIsSafe
<1> QED BY <1>4, <1>6, <1>7 DEF SafeAt

(* The heart of the view change (computeRestrictions): the restriction on  *)
(* a sequence number is the batch that may have been committed for it in   *)
(* an earlier view, on the slow path or on a fast one.                     *)
LEMMA RestrictionIsSafe ==
    ASSUME AInv, NEW w \in Views, NEW m \in ViewChangeSets(w), NEW t \in CommitTypes,
           NEW v \in Views, v < w, NEW s \in SeqNums, NEW d \in Digests, Possible(t, v, s, d)
    PROVE  Outcome(m).restriction[s] = d
<1>1. PICK Q : IsQuorumOfMsgs(Q, m, w)
  BY QuorumOfMsgs
<1>2. TypeOK /\ IInv /\ IsViewChangeSet(m)
  BY ViewChangeSetsType DEF AInv, IInv
<1> DEFINE K == CertifiedIn(m, s)
           best == m[SelectedSlow(m, s)].elems[s]
           P == MaySign(t, v, s, d)
           H == (P \cap Q) \ Byz
<1>3. /\ Q \in SUBSET Replicas /\ Cardinality(Q) = ViewChangeQuorum /\ DOMAIN m = Q
      /\ P \subseteq Replicas /\ Cardinality(P) >= RequiredShares(t) /\ v \in Nat
  BY <1>1, MaySignFinite, BoundsAssumption DEF IsQuorumOfMsgs, Possible, Views
<1>4. /\ Cardinality(P) \in Nat /\ Cardinality(P \cap Q) \in Nat
      /\ Cardinality(P \cap Q) >= Cardinality(P) + ViewChangeQuorum - N
  <2> HIDE DEF P
  <2> QED BY <1>3, Intersection
<1>5. ASSUME NEW q \in H
      PROVE  /\ q \in Honest /\ q \in Q
             /\ [type |-> t, rep |-> q, view |-> v, seq |-> s, dig |-> d] \in shares
             /\ m[q].elems[s].dig = d /\ m[q].elems[s].origin >= v
             /\ t = "COMMIT" => m[q].elems[s].cert >= v
  BY <1>1, HonestVote DEF IsQuorumOfMsgs
<1>6. PICK p \in H : TRUE
  <2>1. Cardinality(P \cap Q) > F
    <3> HIDE DEF P
    <3> QED BY <1>3, <1>4, RequiredSharesBounds, ConfigAssumption DEF ViewChangeQuorum, N
  <2>2. P \cap Q \subseteq Replicas
    BY <1>3
  <2>3. \E r \in Honest : r \in P \cap Q
    <3> HIDE DEF P
    <3> QED BY <2>1, <2>2, HonestMembers
  <2> QED BY <2>3 DEF Honest
<1>7. Outcome(m).restriction[s] = RestrictionOn(m, s)
  <2>1. m[p].elems[s] # NoElem /\ p \in DOMAIN m /\ s \in s .. MaxSeq
    <3>1. m[p].elems[s].dig = d /\ p \in Q
      BY <1>5, <1>6
    <3>2. s \in s .. MaxSeq
      BY BoundsAssumption DEF SeqNums
    <3>3. NoElem.dig = None
      BY DEF NoElem
    <3> QED BY <1>3, <3>1, <3>2, <3>3, DigestFacts
  <2> QED BY <2>1 DEF Outcome
<1>8. ASSUME K # {}
      PROVE  /\ SelectedSlow(m, s) \in Q /\ best.cert \in Views /\ best.cert \in Nat
             /\ Certificate("PREPARE", best.cert, s, best.dig) /\ best.dig \in Digests
             /\ MinRelevantFastView(m, s) = best.cert + 1
             /\ \A q \in K : m[q].elems[s].cert <= best.cert
  <2>1. /\ SelectedSlow(m, s) \in K
        /\ \A q \in K : m[q].elems[s].cert <= best.cert
    BY <1>2, <1>8, SelectedSlowType
  <2>2. SelectedSlow(m, s) \in Q /\ best.cert # NoCert
    BY <1>3, <2>1 DEF CertifiedIn
  <2>3. best \in Element /\ Certificate("PREPARE", best.cert, s, best.dig)
    BY <1>1, <2>2 DEF IsQuorumOfMsgs
  <2>4. best.cert \in Views /\ best.dig \in Digests \cup {None}
    BY <2>2, <2>3 DEF Element
  <2>5. best.dig # None
    BY <1>2, <2>3, NoneHasNoCertificate
  <2>6. MinRelevantFastView(m, s) = best.cert + 1
    BY <1>8 DEF MinRelevantFastView
  <2>7. best.cert \in Nat
    BY <2>4, BoundsAssumption DEF Views
  <2> QED BY <2>1, <2>2, <2>3, <2>4, <2>5, <2>6, <2>7
(* a certificate from v or above selects d on both paths *)
<1>9. ASSUME K # {}, best.cert >= v, best.cert = v => best.dig = d
      PROVE  RestrictionOn(m, s) = d
  <2>1. best.dig = d
    <3> HIDE DEF best
    <3>1. CASE best.cert = v
      BY <1>9, <3>1
    <3>2. CASE best.cert # v
      BY <1>3, <1>8, <1>9, <3>2, LaterCertificate
    <3> QED BY <3>1, <3>2
  <2>2. \A e \in FastSelected(m, s) : e = d
    <3> HIDE DEF best
    <3>1. v < MinRelevantFastView(m, s) /\ MinRelevantFastView(m, s) \in Nat
      BY <1>3, <1>8, <1>9
    <3> QED BY <1>1, <3>1, LaterVotes
  <2>3. CASE FastSelected(m, s) # {}
    BY <2>2, <2>3 DEF RestrictionOn
  <2>4. CASE FastSelected(m, s) = {}
    BY <1>9, <2>1, <2>4 DEF RestrictionOn
  <2> QED BY <2>3, <2>4
<1>10. CASE t = "COMMIT"
  <2>1. m[p].elems[s].cert >= v /\ m[p].elems[s] \in Element
    BY <1>1, <1>5, <1>6, <1>10 DEF IsQuorumOfMsgs
  <2>2. p \in K /\ m[p].elems[s].cert \in Nat
    <3>1. m[p].elems[s].cert # NoCert
      BY <1>3, <2>1 DEF NoCert
    <3>2. m[p].elems[s].cert \in Views
      BY <2>1, <3>1 DEF Element
    <3> QED BY <1>3, <1>5, <1>6, <3>1, <3>2, BoundsAssumption DEF CertifiedIn, Views
  <2>3. K # {} /\ best.cert >= v
    <3>1. K # {} /\ m[p].elems[s].cert <= best.cert /\ best.cert \in Nat
      BY <1>8, <2>2
    <3> HIDE DEF best, K
    <3> QED BY <1>3, <2>1, <2>2, <3>1
  <2>4. Certificate("PREPARE", v, s, d)
    <3>1. [type |-> "COMMIT", rep |-> p, view |-> v, seq |-> s, dig |-> d] \in shares
      BY <1>5, <1>6, <1>10
    <3> QED BY <3>1 DEF AInv, SharesAreSafe, ShareIsSafe
  <2>5. best.cert = v => best.dig = d
    <3>1. /\ Certificate("PREPARE", best.cert, s, best.dig) /\ best.dig \in Digests
          /\ "PREPARE" \in ShareTypes
      BY <1>8, <2>3 DEF ShareTypes
    <3> HIDE DEF best
    <3> QED BY <1>2, <2>4, <3>1, CertificatesOfAView DEF CertificatesAgree
  <2> QED BY <1>7, <1>9, <2>3, <2>5
<1>11. CASE t \in FastPaths
  <2>1. /\ H \subseteq Replicas /\ H \subseteq Q /\ Cardinality(H) >= F + C + 1
        /\ Cardinality(H) \in Nat
    <3>1. Cardinality(P \cap Q) >= 2 * F + C + 1
      <4> HIDE DEF P
      <4> QED BY <1>3, <1>4, <1>11, RequiredSharesBounds, ConfigAssumption
                 DEF ViewChangeQuorum, N
    <3>2. P \cap Q \subseteq Replicas
      BY <1>3
    <3>3. Cardinality(H) \in Nat /\ Cardinality(H) >= Cardinality(P \cap Q) - F
      <4> HIDE DEF P
      <4> QED BY <3>2, HonestMembers
    <3> QED
      <4>1. H \subseteq Replicas /\ H \subseteq Q
        BY <1>3
      <4> HIDE DEF H, P
      <4> QED BY <1>4, <3>1, <3>3, <4>1, ConfigAssumption
  <2>2. CASE K # {} /\ best.cert >= v
    <3>1. ASSUME best.cert = v PROVE best.dig = d
      <4> DEFINE S == Signers("PREPARE", v, s, best.dig)
      <4>1. S \subseteq Replicas /\ Cardinality(S) >= SlowQuorum
        BY <1>8, <2>2, <3>1, SignersFinite, CertificateQuorum
      <4>2. Cardinality(H \cap S) # 0
        <5> HIDE DEF H, S
        <5> QED BY <2>1, <4>1, Intersection, ConfigAssumption DEF SlowQuorum, N
      <4>3. H \cap S # {}
        <5> HIDE DEF H, S
        <5> QED BY <4>2, FS_EmptySet
      <4>4. PICK q \in H : q \in S
        BY <4>3
      <4>5. /\ [type |-> t, rep |-> q, view |-> v, seq |-> s, dig |-> d] \in shares
            /\ [type |-> "PREPARE", rep |-> q, view |-> v, seq |-> s, dig |-> best.dig] \in shares
        BY <1>5, <4>4 DEF Signers, Honest
      <4> QED BY <1>2, <4>5 DEF IInv, SignaturesFollowLog
    <3> QED BY <1>7, <1>9, <2>2, <3>1
  <2>3. CASE ~(K # {} /\ best.cert >= v)
    <3>1. MinRelevantFastView(m, s) \in Nat /\ MinRelevantFastView(m, s) <= v
      <4>1. CASE K = {}
        BY <1>3, <4>1 DEF MinRelevantFastView
      <4>2. CASE K # {}
        <5> HIDE DEF best
        <5> QED BY <1>3, <1>8, <2>3, <4>2
      <4> QED BY <4>1, <4>2
    <3>2. H \subseteq FastVotes(m, s, d)
      <4> SUFFICES ASSUME NEW q \in H PROVE q \in FastVotes(m, s, d)
        OBVIOUS
      <4>1. q \in Q /\ m[q].elems[s].dig = d /\ m[q].elems[s].origin >= v
        BY <1>5
      <4>2. m[q].elems[s].origin \in Nat
        BY <1>1, <4>1, BoundsAssumption DEF IsQuorumOfMsgs, Element, Views
      <4> QED BY <1>3, <3>1, <4>1, <4>2 DEF FastVotes
    <3>3. \A e : FastVotes(m, s, e) \in SUBSET Q
      BY <1>3 DEF FastVotes
    <3>4. Cardinality(FastVotes(m, s, d)) >= F + C + 1
      <4>1. FastVotes(m, s, d) \subseteq Replicas
        BY <1>3, <3>3
      <4> HIDE DEF H
      <4> QED BY <2>1, <3>2, <4>1, LargerSet, ConfigAssumption
    <3>5. d \in FastSelected(m, s)
      BY <3>4 DEF FastSelected
    <3>6. ASSUME NEW e \in FastSelected(m, s) PROVE e = d
      <4>1. Cardinality(FastVotes(m, s, e)) >= F + C + 1
        BY DEF FastSelected
      <4>2. PICK q \in Q : q \in FastVotes(m, s, e) /\ q \in FastVotes(m, s, d)
        BY <1>3, <3>3, <3>4, <4>1, VotesIntersect
      <4> QED BY <4>2 DEF FastVotes
    <3>7. RestrictionOn(m, s) = d
      BY <3>5, <3>6 DEF RestrictionOn
    <3> QED BY <1>7, <3>7
  <2> QED BY <2>2, <2>3
<1> QED BY <1>10, <1>11 DEF CommitTypes

(* So a view starts with what is safe in it. *)
LEMMA OutcomeOfSetIsSafe ==
    ASSUME AInv, NEW w \in Views, NEW m \in ViewChangeSets(w)
    PROVE  OutcomeIsSafe(w, Outcome(m))
BY RestrictionIsSafe DEF OutcomeIsSafe, SafeAt

(* tryToEnterView and onNewView *)
LEMMA EnterViewIsSafe ==
    ASSUME InScope, AInv, IInv', NEW r \in Honest, NEW nv \in NewView, ~viewActive[r],
           EnterView(r, nv), OutcomeIsSafe(curView[r], nv),
           \A w \in Views : newViewMsgs'[w] # NoNewView => OutcomeIsSafe(w, newViewMsgs'[w])
    PROVE  AInv'
<1> DEFINE R == RestrictedSeqNums(nv, lastStableSeqNum[r])
           slots == [s \in SeqNums |->
               IF s \notin R THEN seqNumInfo[r][s]
               ELSE [seqNumInfo[r][s] EXCEPT
                        !.pp = IF nv.restriction[s] = None THEN Null ELSE nv.restriction[s],
                        !.slowStarted = TRUE,
                        !.isTimeCorrect = @ \/ r # Primary(curView[r])]]
           new == UNION {PreparePartial(r, s, slots[s]) : s \in R}
<1>1. /\ TypeOK /\ TypeOK' /\ curView[r] \in Views
  BY DEF AInv, IInv, TypeOK
<1>2. /\ viewActive' = [viewActive EXCEPT ![r] = TRUE]
      /\ seqNumInfo' = [seqNumInfo EXCEPT ![r] = slots]
      /\ shares' = shares \cup new
      /\ UNCHANGED <<curView, viewChangeMsgs, lastExecutedSeqNum, lastStableSeqNum,
                     executed, prePrepareMsgs, startSlowMsgs>>
  BY DEF EnterView
<1>3. R = SeqNums \/ (R = {} /\ \A s \in SeqNums : nv.restriction[s] = None)
  BY WindowIsWhole
<1> HIDE DEF R
<1>4. ASSUME NEW s \in SeqNums
      PROVE  /\ SafeAt(curView[r], s, slots[s].pp) /\ slots[s].isTimeCorrect
             /\ ~slots[s].prepareFull /\ ~IsCommitted(slots[s])
  <2>1. /\ seqNumInfo[r][s] \in SeqNumInfo /\ seqNumInfo[r][s].isTimeCorrect
        /\ seqNumInfo[r][s].pp = None /\ ~seqNumInfo[r][s].prepareFull
        /\ ~IsCommitted(seqNumInfo[r][s])
    BY DEF AInv, IInv, TypeOK, TimeIsCorrect, LogIsSafe, SlotIsSafe
  <2>2. SafeAt(curView[r], s, nv.restriction[s])
    BY DEF OutcomeIsSafe
  <2>3. CASE R = {} /\ nv.restriction[s] = None
    BY <2>1, <2>2, <2>3
  <2>4. CASE R = SeqNums
    <3> DEFINE d == IF nv.restriction[s] = None THEN Null ELSE nv.restriction[s]
               ok == seqNumInfo[r][s].isTimeCorrect \/ r # Primary(curView[r])
    <3>1. slots[s] = [seqNumInfo[r][s] EXCEPT !.pp = d, !.slowStarted = TRUE, !.isTimeCorrect = ok]
      BY <2>1, <2>4 DEF SeqNumInfo
    <3>2. SafeAt(curView[r], s, d) /\ ok
      BY <2>1, <2>2, NoneIsSafe
    <3> HIDE DEF d, ok, slots
    <3>3. /\ slots[s].pp = d /\ slots[s].isTimeCorrect = ok
          /\ slots[s].prepareFull = seqNumInfo[r][s].prepareFull
          /\ slots[s].commitFull = seqNumInfo[r][s].commitFull
          /\ slots[s].forcedCompleted = seqNumInfo[r][s].forcedCompleted
      BY <2>1, <3>1 DEF SeqNumInfo
    <3> QED BY <2>1, <3>2, <3>3 DEF IsCommitted
  <2> QED BY <1>3, <2>3, <2>4
<1>5. R \subseteq SeqNums
  BY <1>3
<1> HIDE DEF slots
<1>6. \A x \in new : /\ x.rep = r /\ x.view = curView[r] /\ x.seq \in SeqNums
                     /\ x.dig = slots[x.seq].pp /\ x.type = "PREPARE"
  BY <1>5 DEF PreparePartial, ShareOf
<1> HIDE DEF new
<1>7. /\ viewActive'[r] /\ seqNumInfo'[r] = slots /\ curView' = curView
      /\ \A q \in Honest : q # r => viewActive'[q] = viewActive[q] /\ seqNumInfo'[q] = seqNumInfo[q]
  BY <1>1, <1>2 DEF TypeOK
<1>8. Onward
  <2>1. \A q \in Honest : curView[q] <= curView'[q]
    BY <1>1, <1>7, BoundsAssumption DEF TypeOK, Views
  <2> QED BY <1>2, <1>6, <2>1 DEF Onward
<1>9. NoCheckpoint' /\ TimeIsCorrect'
  <2>1. NoCheckpoint'
    BY <1>2 DEF AInv, NoCheckpoint
  <2>2. \A q \in Honest, s \in SeqNums : seqNumInfo'[q][s].isTimeCorrect
    BY <1>4, <1>7 DEF AInv, TimeIsCorrect
  <2> QED BY <2>1, <2>2 DEF TimeIsCorrect
<1>10. LogIsSafe'
  <2> SUFFICES ASSUME NEW q \in Honest, NEW s \in SeqNums
               PROVE  SlotIsSafe(q, s, seqNumInfo[q][s])'
    BY DEF LogIsSafe
  <2>1. CASE q = r
    <3>1. seqNumInfo'[q][s] = slots[s] /\ viewActive'[q]
      BY <1>7, <2>1
    <3>2. SafeAt(curView[q], s, seqNumInfo[q][s].pp)'
      <4>1. SafeAt(curView[r], s, slots[s].pp)
        BY <1>4
      <4> QED BY <1>1, <1>7, <1>8, <2>1, <3>1, <4>1, SafeAtStable
    <3>3. IsCommitted(seqNumInfo[q][s])' = IsCommitted(slots[s])
      BY <3>1 DEF IsCommitted
    <3> QED BY <1>4, <3>1, <3>2, <3>3 DEF SlotIsSafe
  <2>2. CASE q # r
    <3>1. SlotIsSafe(q, s, seqNumInfo[q][s])
      BY DEF AInv, LogIsSafe
    <3>2. /\ seqNumInfo'[q][s] = seqNumInfo[q][s] /\ viewActive'[q] = viewActive[q]
          /\ shares \subseteq shares'
      BY <1>2, <1>7, <2>2
    <3> QED BY <1>1, <1>7, <1>8, <3>1, <3>2, SafeAtStable, CertificateStable DEF SlotIsSafe
  <2> QED BY <2>1, <2>2
<1>11. ASSUME NEW x \in shares', x \notin shares PROVE ShareIsSafe(x)'
  <2>1. x \in new
    BY <1>2, <1>11
  <2>2. /\ x.view = curView[r] /\ x.seq \in SeqNums /\ x.dig = slots[x.seq].pp
        /\ x.type \notin FastPaths /\ x.type # "COMMIT"
    BY <1>6, <2>1 DEF FastPaths
  <2>3. SafeAt(x.view, x.seq, x.dig)
    BY <1>4, <2>2
  <2>4. SafeAt(x.view, x.seq, x.dig)'
    BY <1>1, <1>8, <2>3, SafeAtStable
  <2> QED BY <2>2, <2>4 DEF ShareIsSafe
<1>12. SharesAreSafe' /\ MessagesFollowViews' /\ ElementsAreSafe' /\ VotesAreReported'
  <2>1. \A q \in Honest : viewActive[q] => viewActive'[q]
    BY <1>7
  <2>2. UNCHANGED <<curView, viewChangeMsgs>>
    BY <1>2
  <2> QED BY <1>1, <1>8, <1>11, <2>1, <2>2, SentStaysSafe
<1>13. CommitsArePrepared'
  <2> SUFFICES ASSUME NEW x \in shares', x.type = "COMMIT", x.view = curView[x.rep]
               PROVE  seqNumInfo'[x.rep][x.seq].prepareFull
    BY <1>7 DEF CommitsArePrepared
  <2>1. x \in shares /\ x.rep \in Honest
    BY <1>1, <1>2, <1>6 DEF TypeOK, Share
  <2>2. x.rep # r
    BY <1>1, <2>1, BoundsAssumption DEF AInv, IInv, SignaturesFollowLog, TypeOK, Views
  <2> QED BY <1>7, <2>1, <2>2 DEF AInv, CommitsArePrepared
<1>14. NewViewsAreSafe'
  <2> SUFFICES ASSUME NEW w \in Views, newViewMsgs'[w] # NoNewView, NEW s \in SeqNums
               PROVE  SafeAt(w, s, newViewMsgs[w].restriction[s])'
    BY DEF NewViewsAreSafe, OutcomeIsSafe
  <2>1. SafeAt(w, s, newViewMsgs'[w].restriction[s])
    BY DEF OutcomeIsSafe
  <2> QED BY <1>1, <1>8, <2>1, SafeAtStable
<1>15. ExecutedIsCommitted'
  <2> SUFFICES ASSUME NEW q \in Honest, NEW s \in SeqNums
               PROVE  /\ s <= lastExecutedSeqNum[q] <=> executed[q][s] # None
                      /\ executed[q][s] # None =>
                             /\ viewActive'[q] => seqNumInfo'[q][s].pp # None
                             /\ ExecutedIn(q, s, executed[q][s])'
    BY <1>2 DEF ExecutedIsCommitted
  <2>1. /\ s <= lastExecutedSeqNum[q] <=> executed[q][s] # None
        /\ executed[q][s] # None => /\ viewActive[q] => seqNumInfo[q][s].pp # None
                                    /\ ExecutedIn(q, s, executed[q][s])
    BY DEF AInv, ExecutedIsCommitted
  <2>2. ASSUME NEW d, ExecutedIn(q, s, d) PROVE ExecutedIn(q, s, d)'
    <3>1. PICK u \in Views : /\ u < curView[q] \/ (u = curView[q] /\ viewActive[q])
                             /\ CommitCertificate(u, s, d)
      BY <2>2 DEF ExecutedIn
    <3> QED BY <1>2, <1>7, <3>1, CertificateStable DEF ExecutedIn
  <2>3. executed[q][s] # None => ExecutedIn(q, s, executed[q][s])'
    BY <1>2, <2>1, <2>2
  <2>4. ASSUME executed[q][s] # None, viewActive'[q] PROVE seqNumInfo'[q][s].pp # None
    <3>1. CASE q # r
      BY <1>7, <2>1, <2>4, <3>1
    <3>2. CASE q = r
      <4>1. executed[r][s] \in Digests
        BY <1>1, <2>4, <3>2 DEF TypeOK
      <4>2. PICK u \in Views : u < curView[r] /\ CommitCertificate(u, s, executed[r][s])
        BY <2>1, <2>4, <3>2 DEF ExecutedIn
      <4>3. PICK t \in CommitTypes : Possible(t, u, s, executed[r][s])
        BY <4>2, MaySignFinite DEF CommitCertificate, CommitTypes
      <4>4. slots[s].pp = executed[r][s]
        <5>1. SafeAt(curView[r], s, slots[s].pp)
          BY <1>4
        <5> QED BY <4>1, <4>2, <4>3, <5>1 DEF SafeAt
      <4> QED BY <1>7, <3>2, <4>1, <4>4, DigestFacts
    <3> QED BY <3>1, <3>2
  <2> QED BY <2>1, <2>3, <2>4
<1> QED BY <1>9, <1>10, <1>12, <1>13, <1>14, <1>15 DEF AInv

(* Entering a view as its primary *)
LEMMA EnterViewAsPrimaryIsSafe ==
    ASSUME InScope, AInv, NEW r \in Honest, EnterViewAsPrimary(r)
    PROVE  AInv'
<1>1. IInv /\ IInv'
  BY EnterViewAsPrimaryStep DEF AInv
<1>2. TypeOK /\ curView[r] \in Views /\ ~viewActive[r]
  BY <1>1 DEF IInv, TypeOK, EnterViewAsPrimary
<1>3. PICK m \in ViewChangeSets(curView[r]) :
          /\ newViewMsgs' = [newViewMsgs EXCEPT ![curView[r]] = Outcome(m)]
          /\ EnterView(r, Outcome(m))
  BY DEF EnterViewAsPrimary
<1>4. Outcome(m) \in NewView
  BY <1>2, <1>3, ViewChangeSetsType, OutcomeType
<1>5. OutcomeIsSafe(curView[r], Outcome(m))
  BY <1>2, <1>3, OutcomeOfSetIsSafe
<1>6. \A w \in Views : newViewMsgs'[w] # NoNewView => OutcomeIsSafe(w, newViewMsgs'[w])
  <2> SUFFICES ASSUME NEW w \in Views, newViewMsgs'[w] # NoNewView
               PROVE  OutcomeIsSafe(w, newViewMsgs'[w])
    OBVIOUS
  <2>1. newViewMsgs'[w] = IF w = curView[r] THEN Outcome(m) ELSE newViewMsgs[w]
    BY <1>2, <1>3 DEF TypeOK
  <2> QED BY <1>5, <2>1 DEF AInv, NewViewsAreSafe
<1> QED BY <1>1, <1>2, <1>3, <1>4, <1>5, <1>6, EnterViewIsSafe

(* Entering a view as a backup *)
LEMMA EnterViewAsBackupIsSafe ==
    ASSUME InScope, AInv, NEW r \in Honest, EnterViewAsBackup(r)
    PROVE  AInv'
<1>1. IInv /\ IInv'
  BY EnterViewAsBackupStep DEF AInv
<1>2. TypeOK /\ curView[r] \in Views /\ ~viewActive[r] /\ newViewMsgs' = newViewMsgs
  BY <1>1 DEF IInv, TypeOK, EnterViewAsBackup
<1>3. PICK nv \in (IF Primary(curView[r]) \in Byz
                   THEN {Outcome(m) : m \in ViewChangeSets(curView[r])}
                   ELSE {newViewMsgs[curView[r]]} \ {NoNewView}) : EnterView(r, nv)
  BY DEF EnterViewAsBackup
<1>4. nv \in NewView /\ OutcomeIsSafe(curView[r], nv)
  <2>1. CASE Primary(curView[r]) \in Byz
    <3>1. PICK m \in ViewChangeSets(curView[r]) : nv = Outcome(m)
      BY <1>3, <2>1
    <3> QED BY <1>2, <3>1, ViewChangeSetsType, OutcomeType, OutcomeOfSetIsSafe
  <2>2. CASE Primary(curView[r]) \notin Byz
    BY <1>2, <1>3, <2>2 DEF TypeOK, AInv, NewViewsAreSafe
  <2> QED BY <2>1, <2>2
<1>5. \A w \in Views : newViewMsgs'[w] # NoNewView => OutcomeIsSafe(w, newViewMsgs'[w])
  BY <1>2 DEF AInv, NewViewsAreSafe
<1> QED BY <1>1, <1>2, <1>3, <1>4, <1>5, EnterViewIsSafe

-----------------------------------------------------------------------------
(* The theorems *)

(* The initial state satisfies the invariant. *)
LEMMA InitAInv == Init => AInv
<1> SUFFICES ASSUME Init PROVE AInv
  OBVIOUS
<1>1. IInv
  BY InitIInv
<1>2. \A r \in Honest : curView[r] = 0 /\ viewActive[r] /\ lastStableSeqNum[r] = 0
                        /\ lastExecutedSeqNum[r] = 0
  BY DEF Init
<1>3. \A r \in Honest, s \in SeqNums : seqNumInfo[r][s] = EmptySlot /\ executed[r][s] = None
  BY DEF Init
<1>4. \A r \in Honest, w \in Views : viewChangeMsgs[r][w] = NoMsg
  BY DEF Init
<1>5. shares = {} /\ \A w \in Views : newViewMsgs[w] = NoNewView
  BY DEF Init
<1>6. \A s, d : SafeAt(0, s, d)
  BY BoundsAssumption DEF SafeAt, Views
<1>7. NoCheckpoint /\ TimeIsCorrect
  BY <1>2, <1>3 DEF NoCheckpoint, TimeIsCorrect, EmptySlot
<1>8. LogIsSafe
  BY <1>2, <1>3, <1>6 DEF LogIsSafe, SlotIsSafe, EmptySlot, IsCommitted
<1>9. SharesAreSafe /\ CommitsArePrepared /\ VotesAreReported /\ NewViewsAreSafe
  BY <1>5 DEF SharesAreSafe, CommitsArePrepared, VotesAreReported, NewViewsAreSafe
<1>10. MessagesFollowViews
  BY <1>2, <1>4 DEF MessagesFollowViews
<1>11. ElementsAreSafe
  BY <1>4 DEF ElementsAreSafe, ElementIsSafe, NoMsg
<1>12. ExecutedIsCommitted
  BY <1>2, <1>3, BoundsAssumption DEF ExecutedIsCommitted, SeqNums
<1> QED BY <1>1, <1>7, <1>8, <1>9, <1>10, <1>11, <1>12 DEF AInv

(* Every step in scope keeps it. *)
LEMMA NextAInv ==
    ASSUME InScope, AInv, [Next]_vars
    PROVE  AInv'
<1>1. CASE UNCHANGED vars
  <2>1. /\ UNCHANGED <<curView, viewActive, seqNumInfo, lastExecutedSeqNum, lastStableSeqNum>>
        /\ UNCHANGED <<prePrepareMsgs, startSlowMsgs, shares, viewChangeMsgs, newViewMsgs, executed>>
    BY <1>1 DEF vars, logVars, viewVars, netVars
  <2>2. IInv'
    BY <1>1, NextIInv DEF AInv
  <2>3. TypeOK /\ TypeOK' /\ Onward
    BY <2>1, <2>2, BoundsAssumption DEF AInv, IInv, Onward, TypeOK, Views
  <2>4. \A t, v, s, d : Certificate(t, v, s, d) <=> Certificate(t, v, s, d)'
    BY <2>1 DEF Certificate, Signers
  <2>5. \A w, s, d : SafeAt(w, s, d) <=> SafeAt(w, s, d)'
    BY <2>1 DEF SafeAt, Possible, MaySign
  <2>6. \A t, v, s, d : Possible(t, v, s, d) <=> Possible(t, v, s, d)'
    BY <2>1 DEF Possible, MaySign
  <2>7. NoCheckpoint' /\ TimeIsCorrect' /\ CommitsArePrepared' /\ MessagesFollowViews'
    BY <2>1 DEF AInv, NoCheckpoint, TimeIsCorrect, CommitsArePrepared, MessagesFollowViews
  <2>8. LogIsSafe' /\ ExecutedIsCommitted'
    BY <2>1, <2>4, <2>5 DEF AInv, LogIsSafe, SlotIsSafe, ExecutedIsCommitted, ExecutedIn,
                            CommitCertificate, IsCommitted
  <2>9. SharesAreSafe' /\ ElementsAreSafe'
    BY <2>1, <2>4, <2>5 DEF AInv, SharesAreSafe, ShareIsSafe, ElementsAreSafe, ElementIsSafe
  <2>10. VotesAreReported' /\ NewViewsAreSafe'
    BY <2>1, <2>5, <2>6 DEF AInv, VotesAreReported, Reports, NewViewsAreSafe, OutcomeIsSafe
  <2> QED BY <2>2, <2>7, <2>8, <2>9, <2>10 DEF AInv
<1>2. ASSUME NEW r \in Honest, NEW s \in SeqNums, OnSeqNumIsStable(r, s) PROVE FALSE
  <2>1. s \in Nat /\ 0 < s /\ s < CheckpointWindow /\ CheckpointWindow \in Nat
    BY BoundsAssumption DEF SeqNums, InScope
  <2>2. s % CheckpointWindow = s
    BY <2>1
  <2> QED BY <1>2, <2>1, <2>2 DEF OnSeqNumIsStable
<1>3. ASSUME NEW r \in Honest, NEW s \in SeqNums, TryToStartSlowPaths(r, s) PROVE AInv'
  <2>1. IInv'
    BY <1>3, TryToStartSlowPathsStep DEF AInv
  <2> QED BY <1>3, <2>1, StartSlowPathIsSafe DEF TryToStartSlowPaths
<1>4. ASSUME NEW r \in Honest, NEW s \in SeqNums, OnStartSlowCommit(r, s) PROVE AInv'
  <2>1. IInv'
    BY <1>4, OnStartSlowCommitStep DEF AInv
  <2> QED BY <1>4, <2>1, StartSlowPathIsSafe DEF OnStartSlowCommit
<1>5. CASE Next
  <2> SUFFICES ASSUME NEW r \in Honest,
                      \/ \E s \in SeqNums :
                          \/ \E d \in Requests, path \in FirstPaths :
                              \/ StartConsensusProcess(r, s, d, path)
                              \/ \E ok \in BOOLEAN : OnPrePrepare(r, s, d, path, ok)
                          \/ TryToStartSlowPaths(r, s)
                          \/ OnStartSlowCommit(r, s)
                          \/ OnPrepareFull(r, s)
                          \/ OnCommitFull(r, s)
                          \/ OnFullCommitProof(r, s)
                          \/ OnSeqNumIsStable(r, s)
                      \/ \E v \in Views : MoveToHigherView(r, v)
                      \/ EnterViewAsPrimary(r)
                      \/ EnterViewAsBackup(r)
               PROVE  AInv'
    BY <1>5 DEF Next
  <2> QED
    BY <1>2, <1>3, <1>4, StartConsensusProcessIsSafe, OnPrePrepareIsSafe, OnPrepareFullIsSafe,
       OnCommitFullIsSafe, OnFullCommitProofIsSafe, MoveToHigherViewIsSafe,
       EnterViewAsPrimaryIsSafe, EnterViewAsBackupIsSafe
<1> QED BY <1>1, <1>5

(* So it holds in every state. *)
LEMMA AInvariance == ASSUME InScope PROVE Spec => []AInv
<1>1. AInv /\ [Next]_vars => AInv'
  BY NextAInv
<1> QED BY <1>1, InitAInv, PTL DEF Spec

(* In any two views the batches that have commit certificates for one      *)
(* sequence number are the same.                                           *)
LEMMA CommitsAgree ==
    ASSUME AInv, NEW v \in Views, NEW w \in Views, NEW s \in SeqNums, NEW d \in Digests,
           NEW e \in Digests, CommitCertificate(v, s, d), CommitCertificate(w, s, e)
    PROVE  d = e
<1>1. ASSUME NEW a \in Views, NEW b \in Views, a < b, NEW x \in Digests, NEW y \in Digests,
             CommitCertificate(a, s, x), CommitCertificate(b, s, y)
      PROVE  x = y
  <2>1. PICK t \in CommitTypes : Possible(t, a, s, x)
    BY <1>1, MaySignFinite DEF CommitCertificate, CommitTypes
  <2>2. PICK u \in CommitTypes : Certificate(u, b, s, y)
    BY <1>1 DEF CommitCertificate, CommitTypes
  <2>3. PICK r \in Honest :
            [type |-> u, rep |-> r, view |-> b, seq |-> s, dig |-> y] \in shares
    BY <2>2, CertificateSigner
  <2>4. SafeAt(b, s, y)
    BY <2>3 DEF AInv, SharesAreSafe, ShareIsSafe
  <2> QED BY <1>1, <2>1, <2>4 DEF SafeAt
<1>2. CASE v = w
  BY <1>2, CertificatesOfAView DEF AInv, CertificatesAgree, CommitCertificate, ShareTypes
<1>3. v \in Nat /\ w \in Nat
  BY BoundsAssumption DEF Views
<1> QED BY <1>1, <1>2, <1>3

(* Safety of the replicated state machine across views: no two honest      *)
(* replicas execute different batches for one sequence number, on whatever *)
(* paths and in whatever views they were committed (README.md: "can handle *)
(* malicious (byzantine) replicas"), for every f and c, every set of at    *)
(* most f faulty replicas and any number of view changes, up to the first  *)
(* checkpoint.                                                             *)
THEOREM AgreementAcrossViews == ASSUME InScope PROVE Spec => []Agreement
<1>1. AInv => Agreement
  <2> SUFFICES ASSUME AInv, NEW q \in Honest, NEW r \in Honest, NEW s \in SeqNums,
                      executed[q][s] # None, executed[r][s] # None
               PROVE  executed[q][s] = executed[r][s]
    BY DEF Agreement
  <2>1. executed[q][s] \in Digests /\ executed[r][s] \in Digests
    BY DEF AInv, IInv, TypeOK
  <2>2. PICK v \in Views : CommitCertificate(v, s, executed[q][s])
    BY DEF AInv, ExecutedIsCommitted, ExecutedIn
  <2>3. PICK w \in Views : CommitCertificate(w, s, executed[r][s])
    BY DEF AInv, ExecutedIsCommitted, ExecutedIn
  <2> QED BY <2>1, <2>2, <2>3, CommitsAgree
<1> QED BY <1>1, AInvariance, PTL

(* What the restrictions of ViewChangeSafetyLogic are for: once a batch    *)
(* can be committed in a view, an honest replica working in a later view   *)
(* has no other PrePrepare for that sequence number.                       *)
THEOREM CommittedStays == ASSUME InScope PROVE Spec => []CommittedNeverReplaced
<1>1. AInv => CommittedNeverReplaced
  <2> SUFFICES ASSUME AInv, NEW v \in Views, NEW s \in SeqNums, NEW d \in Digests,
                      CommitCertificate(v, s, d), NEW r \in Honest, curView[r] > v,
                      seqNumInfo[r][s].pp # None
               PROVE  seqNumInfo[r][s].pp = d
    BY DEF CommittedNeverReplaced
  <2>1. SafeAt(curView[r], s, seqNumInfo[r][s].pp)
    BY DEF AInv, LogIsSafe, SlotIsSafe
  <2>2. PICK t \in CommitTypes : Possible(t, v, s, d)
    BY MaySignFinite DEF CommitCertificate, CommitTypes
  <2>3. curView[r] \in Nat /\ v \in Nat
    BY BoundsAssumption DEF AInv, IInv, TypeOK, Views
  <2> QED BY <2>1, <2>2, <2>3 DEF SafeAt
<1> QED BY <1>1, AInvariance, PTL

(* What exitFromCurrentView's carried certificates are for: a replica that *)
(* signed a commit that succeeded reports the batch in each ViewChangeMsg  *)
(* it sends afterwards, with a certificate of that view or a later one.    *)
THEOREM CommitsAreReported == ASSUME InScope PROVE Spec => []CommittedIsReported
<1>1. AInv => CommittedIsReported
  <2> SUFFICES ASSUME AInv, NEW v \in Views, NEW s \in SeqNums, NEW d \in Digests,
                      Certificate("COMMIT", v, s, d), NEW r \in Signers("COMMIT", v, s, d) \ Byz,
                      NEW w \in Views, v < w, viewChangeMsgs[r][w] # NoMsg
               PROVE  /\ viewChangeMsgs[r][w].elems[s].dig = d
                      /\ viewChangeMsgs[r][w].elems[s].cert >= v
    BY DEF CommittedIsReported
  <2> DEFINE x == [type |-> "COMMIT", rep |-> r, view |-> v, seq |-> s, dig |-> d]
  <2>1. /\ x \in shares /\ x.type = "COMMIT" /\ x.rep = r /\ x.view = v /\ x.seq = s /\ x.dig = d
    BY DEF Signers
  <2>2. Possible("COMMIT", v, s, d)
    BY MaySignFinite
  <2> HIDE DEF x
  <2>3. Reports(viewChangeMsgs[r][w].elems[s], x)
    BY <2>1 DEF AInv, VotesAreReported, CommitTypes
  <2> QED BY <2>1, <2>2, <2>3 DEF Reports
<1> QED BY <1>1, AInvariance, PTL

(* The assertion primaryLastUsedSeqNum >= lastExecutedSeqNum of            *)
(* checkSendPrePrepareMsgPrerequisites: what a primary executed in earlier *)
(* views is among what its new view starts with.                           *)
THEOREM PrimaryIsNotBehind == ASSUME InScope PROVE Spec => []PrimaryNeverBehindExecution
<1>1. AInv => PrimaryNeverBehindExecution
  <2> SUFFICES ASSUME AInv, NEW r \in Honest, NEW s \in SeqNums, viewActive[r],
                      seqNumInfo[r][s].pp = None
               PROVE  s > lastExecutedSeqNum[r]
    BY DEF PrimaryNeverBehindExecution, NextSeqNum
  <2>1. ~(s <= lastExecutedSeqNum[r])
    BY DEF AInv, ExecutedIsCommitted
  <2>2. s \in Nat /\ lastExecutedSeqNum[r] \in Nat
    BY BoundsAssumption DEF AInv, IInv, TypeOK, SeqNums
  <2> QED BY <2>1, <2>2
<1> QED BY <1>1, AInvariance, PTL

-----------------------------------------------------------------------------
(***************************************************************************)
(* What is proposed: whatever an honest replica executes was proposed by   *)
(* a primary.  With checkpoints, the time service and any number of views  *)
(* and sequence numbers: faulty replicas have f votes in a quorum of       *)
(* ViewChangeMsgs and no certificate of their own, so what a new view      *)
(* takes from the messages comes from an honest replica's log or           *)
(* signature.                                                              *)
(***************************************************************************)

(* A batch of requests proposed for s in a view up to w. *)
Proposed(w, s, d) ==
    d \in Requests =>
        \E v \in 0 .. w :
            \/ Primary(v) \in Byz
            \/ \E m \in prePrepareMsgs : m.view = v /\ m.seq = s /\ m.dig = d

-----------------------------------------------------------------------------
(* The parts of the inductive invariant *)

LogIsProposed ==
    \A r \in Honest, s \in SeqNums : Proposed(curView[r], s, seqNumInfo[r][s].pp)

SharesAreProposed == \A x \in shares : Proposed(x.view, x.seq, x.dig)

ElementsAreProposed ==
    \A r \in Honest, w \in Views, s \in SeqNums :
        Proposed(w, s, viewChangeMsgs[r][w].elems[s].dig)

NewViewsAreProposed ==
    \A w \in Views, s \in SeqNums : Proposed(w, s, newViewMsgs[w].restriction[s])

PInv ==
    /\ IInv /\ LogIsProposed /\ SharesAreProposed /\ ElementsAreProposed /\ NewViewsAreProposed
    /\ ExecutedWasProposed

-----------------------------------------------------------------------------

(* No PrePrepare is taken back, and no replica goes back to an earlier     *)
(* view.                                                                   *)
Forward ==
    /\ prePrepareMsgs \subseteq prePrepareMsgs'
    /\ \A r \in Honest : curView[r] <= curView'[r]

(* What was proposed stays proposed, and was proposed for later views too. *)
LEMMA ProposedStable ==
    ASSUME Forward, NEW v \in Nat, NEW w \in Nat, v <= w, NEW s, NEW d, Proposed(v, s, d)
    PROVE  Proposed(w, s, d) /\ Proposed(w, s, d)'
<1>1. 0 .. v \subseteq 0 .. w
  OBVIOUS
<1>2. \A m \in prePrepareMsgs : m \in prePrepareMsgs'
  BY DEF Forward
<1> QED BY <1>1, <1>2 DEF Proposed

(* The null batch and no batch need no proposal. *)
LEMMA NothingIsProposed ==
    ASSUME NEW w, NEW s
    PROVE  /\ Proposed(w, s, None) /\ Proposed(w, s, Null)
           /\ Proposed(w, s, None)' /\ Proposed(w, s, Null)'
BY DigestAssumption DEF Proposed

(* What a step at the log of a replica has to do. *)
LEMMA LogStepIsProposed ==
    ASSUME PInv, IInv', Forward,
           \A q \in Honest, s \in SeqNums :
               \/ seqNumInfo'[q][s].pp \in {None, Null, seqNumInfo[q][s].pp}
               \/ (Proposed(curView[q], s, seqNumInfo[q][s].pp))',
           \A x \in shares' :
               x \in shares \/ (x.view = curView'[x.rep] /\ x.dig = seqNumInfo'[x.rep][x.seq].pp),
           \A q \in Honest, s \in SeqNums :
               executed'[q][s] = executed[q][s] \/ executed'[q][s] = seqNumInfo'[q][s].pp
    PROVE  LogIsProposed' /\ SharesAreProposed' /\ ExecutedWasProposed'
<1>1. /\ TypeOK /\ TypeOK'
      /\ \A q \in Honest : curView[q] \in Nat /\ curView'[q] \in Nat /\ curView[q] <= curView'[q]
  BY BoundsAssumption DEF PInv, IInv, TypeOK, Views, Forward
<1>2. \A q \in Honest, s \in SeqNums : (Proposed(curView[q], s, seqNumInfo[q][s].pp))'
  <2> SUFFICES ASSUME NEW q \in Honest, NEW s \in SeqNums,
                      seqNumInfo'[q][s].pp \in {None, Null, seqNumInfo[q][s].pp}
               PROVE  (Proposed(curView[q], s, seqNumInfo[q][s].pp))'
    OBVIOUS
  <2>1. Proposed(curView[q], s, seqNumInfo[q][s].pp)
    BY DEF PInv, LogIsProposed
  <2>2. \A d : Proposed(curView[q], s, d) => (\A w \in Nat : curView[q] <= w => Proposed(w, s, d)')
    BY <1>1, ProposedStable
  <2>3. \A w \in Nat : curView[q] <= w => Proposed(w, s, None)' /\ Proposed(w, s, Null)'
    BY NothingIsProposed
  <2>4. \A w \in Nat : \A d : d \in {None, Null, seqNumInfo[q][s].pp} /\ curView[q] <= w
                          => Proposed(w, s, d)'
    BY <2>1, <2>2, <2>3
  <2> QED BY <1>1, <2>4 DEF Proposed
<1>3. LogIsProposed'
  BY <1>2 DEF LogIsProposed
<1>4. SharesAreProposed'
  <2> SUFFICES ASSUME NEW x \in shares' PROVE Proposed(x.view, x.seq, x.dig)'
    BY DEF SharesAreProposed
  <2>1. x.rep \in Honest /\ x.seq \in SeqNums /\ x.view \in Nat
    BY <1>1, BoundsAssumption DEF TypeOK, Share, Views
  <2>2. CASE x \in shares
    BY <2>1, <2>2, ProposedStable DEF PInv, SharesAreProposed
  <2>3. CASE x.view = curView'[x.rep] /\ x.dig = seqNumInfo'[x.rep][x.seq].pp
    BY <1>2, <2>1, <2>3 DEF Proposed
  <2> QED BY <2>2, <2>3
<1>5. ExecutedWasProposed'
  <2> SUFFICES ASSUME NEW q \in Honest, NEW s \in SeqNums
               PROVE  (Proposed(curView[q], s, executed[q][s]))'
    BY DEF ExecutedWasProposed, Proposed
  <2>1. CASE executed'[q][s] = seqNumInfo'[q][s].pp
    BY <1>2, <2>1 DEF Proposed
  <2>2. CASE executed'[q][s] = executed[q][s]
    <3>1. Proposed(curView[q], s, executed[q][s])
      BY DEF PInv, ExecutedWasProposed, Proposed
    <3>2. \A w \in Nat : \A d : Proposed(curView[q], s, d) /\ curView[q] <= w => Proposed(w, s, d)'
      BY <1>1, ProposedStable
    <3>3. \A w \in Nat : \A d : d = executed[q][s] /\ curView[q] <= w => Proposed(w, s, d)'
      BY <3>1, <3>2
    <3> QED BY <1>1, <2>2, <3>3 DEF Proposed
  <2> QED BY <2>1, <2>2
<1> QED BY <1>3, <1>4, <1>5

(* A step that sends no ViewChangeMsg and no NewViewMsg *)
LEMMA MessagesStayProposed ==
    ASSUME PInv, IInv', Forward, UNCHANGED viewChangeMsgs
    PROVE  /\ ElementsAreProposed'
           /\ UNCHANGED newViewMsgs => NewViewsAreProposed'
<1>1. \A w \in Views : \A s, d : Proposed(w, s, d) => Proposed(w, s, d)'
  BY ProposedStable, BoundsAssumption DEF Views
<1>2. \A r \in Honest, w \in Views, s \in SeqNums : \A d :
          d = viewChangeMsgs[r][w].elems[s].dig => Proposed(w, s, d)'
  BY <1>1 DEF PInv, ElementsAreProposed
<1>3. \A w \in Views, s \in SeqNums : \A d :
          d = newViewMsgs[w].restriction[s] => Proposed(w, s, d)'
  BY <1>1 DEF PInv, NewViewsAreProposed
<1>4. ElementsAreProposed'
  BY <1>2 DEF ElementsAreProposed, Proposed
<1>5. UNCHANGED newViewMsgs => NewViewsAreProposed'
  BY <1>3 DEF NewViewsAreProposed, Proposed
<1> QED BY <1>4, <1>5

(* A PrePrepare the replica proposes itself or has received *)
LEMMA AddPrePrepareIsProposed ==
    ASSUME PInv, IInv', Forward, NEW r \in Honest, NEW s \in SeqNums, NEW slot \in SeqNumInfo,
           NEW path, StartConsensus(r, s, slot, path), NEW d, slot.pp = d,
           Proposed(curView[r], s, d)', UNCHANGED <<executed, viewVars>>
    PROVE  PInv'
<1> DEFINE slow == path = "SLOW" \/ slot.slowStarted
           new == [slot EXCEPT !.slowStarted = slow, !.fastPath = IF slow THEN None ELSE path]
<1>1. new.pp = slot.pp
  BY DEF SeqNumInfo
<1>2. /\ seqNumInfo' = [seqNumInfo EXCEPT ![r][s] = new]
      /\ shares' = shares \cup (IF slow THEN PreparePartial(r, s, new) ELSE PartialProof(r, s, new))
  BY DEF StartConsensus
<1> HIDE DEF new
<1>3. UNCHANGED <<curView, viewChangeMsgs, newViewMsgs>> /\ TypeOK
  BY DEF viewVars, PInv, IInv
<1>4. /\ seqNumInfo'[r][s] = new
      /\ \A q \in Honest, t \in SeqNums : q # r \/ t # s => seqNumInfo'[q][t] = seqNumInfo[q][t]
  BY <1>2, <1>3 DEF TypeOK
<1>5. \A x \in shares' : x \in shares \/ (x.rep = r /\ x.seq = s /\ x.view = curView[r] /\ x.dig = new.pp)
  BY <1>2 DEF PreparePartial, PartialProof, ShareOf
<1>6. \A q \in Honest, t \in SeqNums :
          \/ seqNumInfo'[q][t].pp \in {None, Null, seqNumInfo[q][t].pp}
          \/ (Proposed(curView[q], t, seqNumInfo[q][t].pp))'
  BY <1>1, <1>3, <1>4 DEF Proposed
<1>7. LogIsProposed' /\ SharesAreProposed' /\ ExecutedWasProposed'
  BY <1>3, <1>4, <1>5, <1>6, LogStepIsProposed
<1> QED BY <1>3, <1>7, MessagesStayProposed DEF PInv

(* The primary proposes it itself; *)
LEMMA StartConsensusProcessIsProposed ==
    ASSUME PInv, NEW r \in Honest, NEW s \in SeqNums, NEW d \in Requests, NEW path \in FirstPaths,
           StartConsensusProcess(r, s, d, path)
    PROVE  PInv'
<1> DEFINE slot == [seqNumInfo[r][s] EXCEPT !.pp = d]
<1>1. IInv' /\ TypeOK /\ curView[r] \in Nat
  <2>1. IInv'
    BY StartConsensusProcessStep DEF PInv
  <2> QED BY <2>1, BoundsAssumption DEF PInv, IInv, TypeOK, Views
<1>2. slot \in SeqNumInfo /\ slot.pp = d
  <2>1. seqNumInfo[r][s] \in SeqNumInfo
    BY <1>1 DEF TypeOK
  <2> QED BY <2>1 DEF SeqNumInfo, Digests
<1>3. /\ UNCHANGED <<executed, viewVars>> /\ curView' = curView
      /\ StartConsensus(r, s, slot, path)
      /\ [view |-> curView[r], seq |-> s, dig |-> d, path |-> path] \in prePrepareMsgs'
      /\ prePrepareMsgs \subseteq prePrepareMsgs'
  BY DEF StartConsensusProcess, viewVars
<1>4. Forward
  BY <1>1, <1>3, BoundsAssumption DEF Forward, TypeOK, Views
<1>5. curView[r] \in 0 .. curView[r]
  BY <1>1
<1>6. \E m \in prePrepareMsgs' : m.view = curView[r] /\ m.seq = s /\ m.dig = d
  BY <1>3
<1>7. Proposed(curView[r], s, d)'
  BY <1>3, <1>5, <1>6 DEF Proposed
<1> HIDE DEF slot
<1> QED BY <1>1, <1>2, <1>3, <1>4, <1>7, AddPrePrepareIsProposed

(* a backup has it from the primary of its view. *)
LEMMA OnPrePrepareIsProposed ==
    ASSUME PInv, NEW r \in Honest, NEW s \in SeqNums, NEW d \in Requests, NEW path \in FirstPaths,
           NEW ok \in BOOLEAN, OnPrePrepare(r, s, d, path, ok)
    PROVE  PInv'
<1> DEFINE slot == [seqNumInfo[r][s] EXCEPT !.pp = d, !.isTimeCorrect = ok]
<1>1. IInv' /\ TypeOK /\ curView[r] \in Nat
  <2>1. IInv'
    BY OnPrePrepareStep DEF PInv
  <2> QED BY <2>1, BoundsAssumption DEF PInv, IInv, TypeOK, Views
<1>2. slot \in SeqNumInfo /\ slot.pp = d
  <2>1. seqNumInfo[r][s] \in SeqNumInfo
    BY <1>1 DEF TypeOK
  <2> QED BY <2>1 DEF SeqNumInfo, Digests
<1>3. /\ UNCHANGED <<executed, viewVars>> /\ curView' = curView
      /\ StartConsensus(r, s, slot, path) /\ prePrepareMsgs' = prePrepareMsgs
      /\ \/ Primary(curView[r]) \in Byz
         \/ [view |-> curView[r], seq |-> s, dig |-> d, path |-> path] \in prePrepareMsgs
  BY DEF OnPrePrepare, viewVars
<1>4. Forward
  BY <1>1, <1>3, BoundsAssumption DEF Forward, TypeOK, Views
<1>5. curView[r] \in 0 .. curView[r]
  BY <1>1
<1>6. \/ Primary(curView[r]) \in Byz
      \/ \E m \in prePrepareMsgs : m.view = curView[r] /\ m.seq = s /\ m.dig = d
  BY <1>3
<1>7. Proposed(curView[r], s, d)'
  BY <1>3, <1>5, <1>6 DEF Proposed
<1> HIDE DEF slot
<1> QED BY <1>1, <1>2, <1>3, <1>4, <1>7, AddPrePrepareIsProposed

(* A step that adds no PrePrepare to the log and signs only what is there *)
LEMMA QuietStepIsProposed ==
    ASSUME PInv, IInv', prePrepareMsgs' = prePrepareMsgs,
           UNCHANGED <<curView, viewChangeMsgs, newViewMsgs>>,
           \A q \in Honest, s \in SeqNums : seqNumInfo'[q][s].pp \in {None, seqNumInfo[q][s].pp},
           \A x \in shares' :
               x \in shares \/ (x.view = curView[x.rep] /\ x.dig = seqNumInfo'[x.rep][x.seq].pp),
           \A q \in Honest, s \in SeqNums :
               executed'[q][s] = executed[q][s] \/ executed'[q][s] = seqNumInfo'[q][s].pp
    PROVE  PInv'
<1>1. Forward
  BY BoundsAssumption DEF Forward, PInv, IInv, TypeOK, Views
<1>2. LogIsProposed' /\ SharesAreProposed' /\ ExecutedWasProposed'
  BY <1>1, LogStepIsProposed
<1> QED BY <1>1, <1>2, MessagesStayProposed DEF PInv

(* Starting the slow path *)
LEMMA StartSlowPathIsProposed ==
    ASSUME PInv, IInv', NEW r \in Honest, NEW s \in SeqNums, StartSlowPath(r, s)
    PROVE  PInv'
<1>1. TypeOK /\ seqNumInfo[r][s] \in SeqNumInfo
  BY DEF PInv, IInv, TypeOK
<1>2. /\ UNCHANGED <<executed, prePrepareMsgs, curView, viewChangeMsgs, newViewMsgs>>
      /\ seqNumInfo' = [seqNumInfo EXCEPT ![r][s].slowStarted = TRUE]
      /\ \A x \in shares' : x \in shares \/ x \in PreparePartial(r, s, seqNumInfo[r][s])
  BY DEF StartSlowPath, viewVars
<1>3. \A q \in Honest, t \in SeqNums : seqNumInfo'[q][t].pp = seqNumInfo[q][t].pp
  BY <1>1, <1>2 DEF TypeOK, SeqNumInfo
<1>4. \A x \in PreparePartial(r, s, seqNumInfo[r][s]) :
          x.rep = r /\ x.view = curView[r] /\ x.seq = s /\ x.dig = seqNumInfo[r][s].pp
  BY DEF PreparePartial, ShareOf
<1> QED BY <1>2, <1>3, <1>4, QuietStepIsProposed

(* A prepare certificate becomes valid. *)
LEMMA OnPrepareFullIsProposed ==
    ASSUME PInv, NEW r \in Honest, NEW s \in SeqNums, OnPrepareFull(r, s)
    PROVE  PInv'
<1>1. TypeOK /\ IInv' /\ seqNumInfo[r][s] \in SeqNumInfo
  BY OnPrepareFullStep DEF PInv, IInv, TypeOK
<1>2. /\ UNCHANGED <<executed, prePrepareMsgs, curView, viewChangeMsgs, newViewMsgs>>
      /\ seqNumInfo' = [seqNumInfo EXCEPT ![r][s].prepareFull = TRUE]
      /\ shares' = shares \cup CommitPartial(r, s, seqNumInfo[r][s])
  BY DEF OnPrepareFull, viewVars
<1>3. \A q \in Honest, t \in SeqNums : seqNumInfo'[q][t].pp = seqNumInfo[q][t].pp
  BY <1>1, <1>2 DEF TypeOK, SeqNumInfo
<1>4. \A x \in CommitPartial(r, s, seqNumInfo[r][s]) :
          x.rep = r /\ x.view = curView[r] /\ x.seq = s /\ x.dig = seqNumInfo[r][s].pp
  BY DEF CommitPartial, ShareOf
<1> QED BY <1>1, <1>2, <1>3, <1>4, QuietStepIsProposed

(* What a commit executes is in the log. *)
LEMMA CommitIsProposed ==
    ASSUME PInv, IInv', NEW r \in Honest, NEW s \in SeqNums, NEW slot \in SeqNumInfo,
           slot.pp = seqNumInfo[r][s].pp, Commit(r, s, slot)
    PROVE  PInv'
<1> DEFINE slots == [seqNumInfo[r] EXCEPT ![s] = slot]
           last == ExecuteTo(r, slots)
<1>1. TypeOK
  BY DEF PInv, IInv
<1>2. \A t \in SeqNums : slots[t].pp = seqNumInfo[r][t].pp
  BY <1>1 DEF TypeOK
<1> HIDE DEF slots, last
<1>3. /\ seqNumInfo' = [seqNumInfo EXCEPT ![r] = slots]
      /\ executed' = [executed EXCEPT ![r] =
             [t \in SeqNums |-> IF lastExecutedSeqNum[r] < t /\ t <= last
                                THEN slots[t].pp ELSE executed[r][t]]]
      /\ UNCHANGED <<curView, viewChangeMsgs, newViewMsgs, prePrepareMsgs, shares>>
  BY <1>1 DEF Commit, slots, last, TypeOK, viewVars, netVars
<1>4. \A q \in Honest, t \in SeqNums : seqNumInfo'[q][t].pp = seqNumInfo[q][t].pp
  BY <1>1, <1>2, <1>3 DEF TypeOK
<1>5. \A q \in Honest, t \in SeqNums :
          executed'[q][t] = executed[q][t] \/ executed'[q][t] = seqNumInfo'[q][t].pp
  <2>1. \A t \in SeqNums : executed'[r][t] \in {executed[r][t], slots[t].pp}
    BY <1>1, <1>3 DEF TypeOK
  <2>2. \A q \in Honest : q # r => executed'[q] = executed[q]
    BY <1>1, <1>3 DEF TypeOK
  <2> QED BY <1>2, <1>4, <2>1, <2>2
<1> QED BY <1>3, <1>4, <1>5, QuietStepIsProposed

(* A commit certificate becomes valid. *)
LEMMA OnCommitFullIsProposed ==
    ASSUME PInv, NEW r \in Honest, NEW s \in SeqNums, OnCommitFull(r, s)
    PROVE  PInv'
<1>1. IInv' /\ seqNumInfo[r][s] \in SeqNumInfo
  BY OnCommitFullStep DEF PInv, IInv, TypeOK
<1>2. PICK slot : /\ slot = [seqNumInfo[r][s] EXCEPT !.commitFull = TRUE]
                  /\ Commit(r, s, slot)
  BY DEF OnCommitFull
<1>3. slot \in SeqNumInfo /\ slot.pp = seqNumInfo[r][s].pp
  BY <1>1, <1>2 DEF SeqNumInfo
<1> QED BY <1>1, <1>2, <1>3, CommitIsProposed

(* A fast path proof becomes valid. *)
LEMMA OnFullCommitProofIsProposed ==
    ASSUME PInv, NEW r \in Honest, NEW s \in SeqNums, OnFullCommitProof(r, s)
    PROVE  PInv'
<1>1. IInv' /\ seqNumInfo[r][s] \in SeqNumInfo
  BY OnFullCommitProofStep DEF PInv, IInv, TypeOK
<1>2. PICK slot : /\ slot = [seqNumInfo[r][s] EXCEPT !.forcedCompleted = TRUE]
                  /\ Commit(r, s, slot)
  BY DEF OnFullCommitProof
<1>3. slot \in SeqNumInfo /\ slot.pp = seqNumInfo[r][s].pp
  BY <1>1, <1>2 DEF SeqNumInfo
<1> QED BY <1>1, <1>2, <1>3, CommitIsProposed

(* A stable checkpoint frees slots. *)
LEMMA OnSeqNumIsStableIsProposed ==
    ASSUME PInv, NEW r \in Honest, NEW s \in SeqNums, OnSeqNumIsStable(r, s)
    PROVE  PInv'
<1>1. IInv' /\ TypeOK
  BY OnSeqNumIsStableStep DEF PInv, IInv
<1>2. /\ seqNumInfo' = [seqNumInfo EXCEPT ![r] =
             [t \in SeqNums |-> IF t <= s THEN ResetAndFree(seqNumInfo[r][t]) ELSE seqNumInfo[r][t]]]
      /\ UNCHANGED <<executed, curView, viewChangeMsgs, newViewMsgs, prePrepareMsgs, shares>>
  BY <1>1 DEF OnSeqNumIsStable, viewVars, netVars, TypeOK
<1>3. \A t \in SeqNums : ResetAndFree(seqNumInfo[r][t]).pp = None
  BY <1>1 DEF TypeOK, ResetAndFree, SeqNumInfo
<1>4. \A q \in Honest, t \in SeqNums : seqNumInfo'[q][t].pp \in {None, seqNumInfo[q][t].pp}
  BY <1>1, <1>2, <1>3 DEF TypeOK
<1> QED BY <1>1, <1>2, <1>4, QuietStepIsProposed

-----------------------------------------------------------------------------
(* Changing the view *)

(* The element a replica reports holds what its log holds. *)
LEMMA ElementOfIsProposed ==
    ASSUME PInv, NEW r \in Honest, NEW s \in SeqNums
    PROVE  Proposed(curView[r], s, ElementOf(r, s).dig)
<1>1. ElementOf(r, s).dig \in {None, seqNumInfo[r][s].pp}
  <2> DEFINE slot == seqNumInfo[r][s]
             prev == MyLatestViewChangeMsg(r).elems[s]
             v == curView[r]
  <2>1. \/ ElementOf(r, s) = NoElem
        \/ \E c : ElementOf(r, s) = [dig |-> slot.pp, origin |-> v, cert |-> c]
    <3>1. CASE ~InActiveWindow(r, s) \/ slot.pp = None \/ ~slot.isTimeCorrect
      BY <3>1 DEF ElementOf
    <3>2. CASE /\ ~(~InActiveWindow(r, s) \/ slot.pp = None \/ ~slot.isTimeCorrect)
               /\ slot.prepareFull
      BY <3>2 DEF ElementOf
    <3>3. CASE /\ ~(~InActiveWindow(r, s) \/ slot.pp = None \/ ~slot.isTimeCorrect)
               /\ ~slot.prepareFull /\ prev.cert # NoCert /\ prev.dig = slot.pp
      BY <3>3 DEF ElementOf
    <3>4. CASE /\ ~(~InActiveWindow(r, s) \/ slot.pp = None \/ ~slot.isTimeCorrect)
               /\ ~slot.prepareFull /\ ~(prev.cert # NoCert /\ prev.dig = slot.pp)
      BY <3>4 DEF ElementOf
    <3> QED BY <3>1, <3>2, <3>3, <3>4
  <2> QED BY <2>1 DEF NoElem
<1> QED BY <1>1, NothingIsProposed DEF PInv, LogIsProposed

(* Leaving a view *)
LEMMA MoveToHigherViewIsProposed ==
    ASSUME PInv, NEW r \in Honest, NEW v \in Views, MoveToHigherView(r, v)
    PROVE  PInv'
<1> DEFINE msg == IF viewActive[r] THEN ExitFromCurrentView(r) ELSE MyLatestViewChangeMsg(r)
<1>1. IInv' /\ TypeOK /\ curView[r] \in Views /\ curView[r] \in Nat /\ v \in Nat /\ curView[r] < v
  <2>1. IInv /\ IInv'
    BY MoveToHigherViewStep DEF PInv
  <2> QED BY <2>1, BoundsAssumption DEF IInv, TypeOK, Views, MoveToHigherView
<1>2. /\ viewChangeMsgs' = [viewChangeMsgs EXCEPT ![r][v] = msg]
      /\ curView' = [curView EXCEPT ![r] = v]
      /\ seqNumInfo' = [seqNumInfo EXCEPT ![r] = [s \in SeqNums |-> ResetAndFree(seqNumInfo[r][s])]]
      /\ UNCHANGED <<executed, newViewMsgs, prePrepareMsgs, shares>>
  BY <1>1 DEF MoveToHigherView, netVars, TypeOK
<1>3. Forward
  BY <1>1, <1>2, BoundsAssumption DEF Forward, TypeOK, Views
<1>4. \A t \in SeqNums : ResetAndFree(seqNumInfo[r][t]).pp = None
  BY <1>1 DEF TypeOK, ResetAndFree, SeqNumInfo
<1>5. \A q \in Honest, t \in SeqNums : seqNumInfo'[q][t].pp \in {None, seqNumInfo[q][t].pp}
  BY <1>1, <1>2, <1>4 DEF TypeOK
<1>6. LogIsProposed' /\ SharesAreProposed' /\ ExecutedWasProposed'
  BY <1>1, <1>2, <1>3, <1>5, LogStepIsProposed
<1>7. \A s \in SeqNums : Proposed(curView[r], s, msg.elems[s].dig)
  <2>1. CASE viewActive[r]
    BY <2>1, ElementOfIsProposed DEF ExitFromCurrentView
  <2>2. CASE ~viewActive[r]
    BY <1>1, <2>2 DEF MyLatestViewChangeMsg, PInv, ElementsAreProposed
  <2> QED BY <2>1, <2>2
<1>8. \A q \in Honest, w \in Views :
          viewChangeMsgs'[q][w] = IF q = r /\ w = v THEN msg ELSE viewChangeMsgs[q][w]
  BY <1>1, <1>2 DEF TypeOK
<1> HIDE DEF msg
<1>9. \A u \in Views, w \in Nat : \A s, d : Proposed(u, s, d) /\ u <= w => Proposed(w, s, d)'
  BY <1>3, ProposedStable, BoundsAssumption DEF Views
<1>10. ElementsAreProposed'
  <2>1. \A q \in Honest, w \in Views, s \in SeqNums : \A d :
            d = viewChangeMsgs'[q][w].elems[s].dig => Proposed(w, s, d)'
    <3> SUFFICES ASSUME NEW q \in Honest, NEW w \in Views, NEW s \in SeqNums, NEW d,
                        d = viewChangeMsgs'[q][w].elems[s].dig
                 PROVE  Proposed(w, s, d)'
      OBVIOUS
    <3>1. CASE q = r /\ w = v
      <4>1. Proposed(curView[r], s, d) /\ curView[r] <= v
        BY <1>1, <1>7, <1>8, <3>1
      <4> QED BY <1>1, <1>9, <3>1, <4>1
    <3>2. CASE ~(q = r /\ w = v)
      <4>1. Proposed(w, s, d) /\ w \in Nat /\ w <= w
        BY <1>8, <3>2, BoundsAssumption DEF PInv, ElementsAreProposed, Views
      <4> QED BY <1>9, <4>1
    <3> QED BY <3>1, <3>2
  <2> QED BY <2>1 DEF ElementsAreProposed, Proposed
<1>11. NewViewsAreProposed'
  <2>1. \A w \in Views, s \in SeqNums : \A d : d = newViewMsgs'[w].restriction[s] => Proposed(w, s, d)'
    <3> SUFFICES ASSUME NEW w \in Views, NEW s \in SeqNums, NEW d,
                        d = newViewMsgs[w].restriction[s]
                 PROVE  Proposed(w, s, d)'
      BY <1>2
    <3>1. Proposed(w, s, d) /\ w \in Nat /\ w <= w
      BY BoundsAssumption DEF PInv, NewViewsAreProposed, Views
    <3> QED BY <1>9, <3>1
  <2> QED BY <2>1 DEF NewViewsAreProposed, Proposed
<1> QED BY <1>1, <1>6, <1>10, <1>11 DEF PInv

(* What a quorum of ViewChangeMsgs restricts a sequence number to comes    *)
(* from an honest replica: one of the f+c+1 votes for it, or a signer of   *)
(* the certificate.                                                        *)
LEMMA RestrictionIsProposed ==
    ASSUME PInv, NEW w \in Views, NEW m \in ViewChangeSets(w), NEW s \in SeqNums
    PROVE  Proposed(w, s, RestrictionOn(m, s))
<1>1. PICK Q \in SUBSET Replicas :
          /\ Cardinality(Q) = ViewChangeQuorum
          /\ \A q \in Q \ Byz : viewChangeMsgs[q][w] # NoMsg
          /\ \E b \in [Q \cap Byz -> ByzViewChangeMsgs(w)] :
                m = [q \in Q |-> IF q \in Byz THEN b[q] ELSE viewChangeMsgs[q][w]]
  BY DEF ViewChangeSets
<1>2. PICK b \in [Q \cap Byz -> ByzViewChangeMsgs(w)] :
          m = [q \in Q |-> IF q \in Byz THEN b[q] ELSE viewChangeMsgs[q][w]]
  BY <1>1
<1>3. w \in Nat /\ DOMAIN m = Q
  BY <1>2, BoundsAssumption DEF Views
<1>4. ASSUME NEW q \in Q, q \in Honest PROVE Proposed(w, s, m[q].elems[s].dig)
  BY <1>2, <1>4 DEF PInv, ElementsAreProposed, Honest
<1>5. CASE FastSelected(m, s) # {}
  <2> DEFINE d == CHOOSE x \in FastSelected(m, s) : TRUE
  <2>1. d \in FastSelected(m, s)
    BY <1>5
  <2> HIDE DEF d
  <2>2. Cardinality(FastVotes(m, s, d)) >= F + C + 1
    BY <2>1 DEF FastSelected
  <2>3. FastVotes(m, s, d) \subseteq Q /\ FastVotes(m, s, d) \subseteq Replicas
    BY <1>3 DEF FastVotes
  <2>4. Cardinality(FastVotes(m, s, d)) > F
    BY <2>2, <2>3, LargerSet, ConfigAssumption
  <2>5. PICK q \in Honest : q \in FastVotes(m, s, d)
    BY <2>3, <2>4, HonestMembers
  <2>6. q \in Q /\ m[q].elems[s].dig = d
    BY <2>3, <2>5 DEF FastVotes
  <2>7. RestrictionOn(m, s) = d
    BY <1>5 DEF RestrictionOn, d
  <2> QED BY <1>4, <2>6, <2>7
<1>6. CASE FastSelected(m, s) = {} /\ CertifiedIn(m, s) # {}
  <2> DEFINE q == SelectedSlow(m, s)
             e == m[q].elems[s]
  <2>1. q \in Q /\ e.cert # NoCert
    <3>1. TypeOK
      BY DEF PInv, IInv
    <3>2. q \in CertifiedIn(m, s)
      BY <1>6, <3>1, ViewChangeSetsType, SelectedSlowType
    <3> QED BY <1>3, <3>2 DEF CertifiedIn
  <2>2. RestrictionOn(m, s) = e.dig
    BY <1>6 DEF RestrictionOn
  <2> HIDE DEF q
  <2>3. CASE q \in Honest
    BY <1>4, <2>1, <2>2, <2>3
  <2>4. CASE q \notin Honest
    <3>1. q \in Byz
      BY <2>1, <2>4 DEF Honest
    <3>2. m[q] \in ByzViewChangeMsgs(w)
      BY <1>2, <2>1, <3>1
    <3>3. e \in ByzElements(w, s)
      BY <3>2 DEF ByzViewChangeMsgs
    <3>4. e.cert \in 0 .. w - 1 /\ Certificate("PREPARE", e.cert, s, e.dig)
      BY <2>1, <3>3 DEF ByzElements, NoElem
    <3>5. PICK r \in Honest :
              [type |-> "PREPARE", rep |-> r, view |-> e.cert, seq |-> s, dig |-> e.dig] \in shares
      BY <3>4, CertificateSigner
    <3>6. Proposed(e.cert, s, e.dig)
      BY <3>5 DEF PInv, SharesAreProposed
    <3>7. 0 .. e.cert \subseteq 0 .. w
      BY <1>3, <3>4
    <3> QED BY <2>2, <3>6, <3>7 DEF Proposed
  <2> QED BY <2>3, <2>4
<1>7. CASE FastSelected(m, s) = {} /\ CertifiedIn(m, s) = {}
  <2>1. RestrictionOn(m, s) = Null
    BY <1>7 DEF RestrictionOn
  <2> QED BY <2>1, NothingIsProposed
<1> QED BY <1>5, <1>6, <1>7

(* So does what its NewViewMsg determines. *)
LEMMA OutcomeIsProposed ==
    ASSUME PInv, NEW w \in Views, NEW m \in ViewChangeSets(w), NEW s \in SeqNums
    PROVE  Proposed(w, s, Outcome(m).restriction[s])
<1>1. Outcome(m).restriction[s] \in {RestrictionOn(m, s), None}
  BY DEF Outcome
<1> QED BY <1>1, RestrictionIsProposed, NothingIsProposed

(* tryToEnterView and onNewView *)
LEMMA EnterViewIsProposed ==
    ASSUME PInv, IInv', NEW r \in Honest, NEW nv \in NewView, EnterView(r, nv),
           \A s \in SeqNums : Proposed(curView[r], s, nv.restriction[s])
    PROVE  /\ Forward /\ UNCHANGED <<curView, prePrepareMsgs>> /\ ElementsAreProposed'
           /\ LogIsProposed' /\ SharesAreProposed' /\ ExecutedWasProposed'
<1> DEFINE R == RestrictedSeqNums(nv, lastStableSeqNum[r])
           slots == [s \in SeqNums |->
               IF s \notin R THEN seqNumInfo[r][s]
               ELSE [seqNumInfo[r][s] EXCEPT
                        !.pp = IF nv.restriction[s] = None THEN Null ELSE nv.restriction[s],
                        !.slowStarted = TRUE,
                        !.isTimeCorrect = @ \/ r # Primary(curView[r])]]
           new == UNION {PreparePartial(r, s, slots[s]) : s \in R}
<1>1. TypeOK
  BY DEF PInv, IInv
<1>2. /\ seqNumInfo' = [seqNumInfo EXCEPT ![r] = slots]
      /\ shares' = shares \cup new
      /\ UNCHANGED <<curView, viewChangeMsgs, executed, prePrepareMsgs>>
  BY DEF EnterView
<1>3. R \subseteq SeqNums
  BY DEF RestrictedSeqNums
<1> HIDE DEF R
<1>4. \A s \in SeqNums : slots[s].pp \in {Null, seqNumInfo[r][s].pp, nv.restriction[s]}
  <2> SUFFICES ASSUME NEW s \in SeqNums
               PROVE  slots[s].pp \in {Null, seqNumInfo[r][s].pp, nv.restriction[s]}
    OBVIOUS
  <2>1. seqNumInfo[r][s] \in SeqNumInfo
    BY <1>1 DEF TypeOK
  <2> QED BY <2>1 DEF SeqNumInfo
<1>5. \A x \in new : \E s \in SeqNums :
          x.rep = r /\ x.view = curView[r] /\ x.seq = s /\ x.dig = slots[s].pp
  <2> HIDE DEF slots
  <2> QED BY <1>3 DEF PreparePartial, ShareOf
<1>6. seqNumInfo'[r] = slots /\ \A q \in Honest : q # r => seqNumInfo'[q] = seqNumInfo[q]
  BY <1>1, <1>2 DEF TypeOK
<1> HIDE DEF slots, new
<1>7. Forward
  BY <1>1, <1>2, BoundsAssumption DEF Forward, TypeOK, Views
<1>8. \A q \in Honest, s \in SeqNums :
          \/ seqNumInfo'[q][s].pp \in {None, Null, seqNumInfo[q][s].pp}
          \/ (Proposed(curView[q], s, seqNumInfo[q][s].pp))'
  <2> SUFFICES ASSUME NEW q \in Honest, NEW s \in SeqNums,
                      seqNumInfo'[q][s].pp \notin {Null, seqNumInfo[q][s].pp}
               PROVE  (Proposed(curView[q], s, seqNumInfo[q][s].pp))'
    OBVIOUS
  <2>1. q = r /\ seqNumInfo'[q][s].pp = nv.restriction[s]
    BY <1>4, <1>6
  <2> QED BY <1>2, <2>1 DEF Proposed
<1>9. \A x \in shares' :
          x \in shares \/ (x.view = curView'[x.rep] /\ x.dig = seqNumInfo'[x.rep][x.seq].pp)
  BY <1>2, <1>5, <1>6
<1>10. LogIsProposed' /\ SharesAreProposed' /\ ExecutedWasProposed'
  BY <1>2, <1>7, <1>8, <1>9, LogStepIsProposed
<1> QED BY <1>2, <1>7, <1>10, MessagesStayProposed

(* Entering a view as its primary *)
LEMMA EnterViewAsPrimaryIsProposed ==
    ASSUME PInv, NEW r \in Honest, EnterViewAsPrimary(r)
    PROVE  PInv'
<1>1. IInv /\ IInv'
  BY EnterViewAsPrimaryStep DEF PInv
<1>2. TypeOK /\ curView[r] \in Views
  BY <1>1 DEF IInv, TypeOK
<1>3. PICK m \in ViewChangeSets(curView[r]) :
          /\ newViewMsgs' = [newViewMsgs EXCEPT ![curView[r]] = Outcome(m)]
          /\ EnterView(r, Outcome(m))
  BY DEF EnterViewAsPrimary
<1>4. Outcome(m) \in NewView
  BY <1>2, <1>3, ViewChangeSetsType, OutcomeType
<1>5. \A s \in SeqNums : Proposed(curView[r], s, Outcome(m).restriction[s])
  BY <1>2, <1>3, OutcomeIsProposed
<1>6. /\ Forward /\ UNCHANGED prePrepareMsgs /\ ElementsAreProposed'
      /\ LogIsProposed' /\ SharesAreProposed' /\ ExecutedWasProposed'
  BY <1>1, <1>3, <1>4, <1>5, EnterViewIsProposed
<1>7. \A w \in Views : newViewMsgs'[w] = IF w = curView[r] THEN Outcome(m) ELSE newViewMsgs[w]
  BY <1>2, <1>3 DEF TypeOK
<1>8. \A w \in Views, s \in SeqNums : Proposed(w, s, newViewMsgs[w].restriction[s])
  BY DEF PInv, NewViewsAreProposed
<1>9. \A w \in Views, s \in SeqNums : \A d : d = newViewMsgs'[w].restriction[s] => Proposed(w, s, d)
  BY <1>5, <1>7, <1>8
<1>10. NewViewsAreProposed'
  BY <1>6, <1>9 DEF NewViewsAreProposed, Proposed
<1> QED BY <1>1, <1>6, <1>10 DEF PInv

(* Entering a view as a backup *)
LEMMA EnterViewAsBackupIsProposed ==
    ASSUME PInv, NEW r \in Honest, EnterViewAsBackup(r)
    PROVE  PInv'
<1>1. IInv /\ IInv'
  BY EnterViewAsBackupStep DEF PInv
<1>2. TypeOK /\ curView[r] \in Views /\ newViewMsgs' = newViewMsgs
  BY <1>1 DEF IInv, TypeOK, EnterViewAsBackup
<1>3. PICK nv \in (IF Primary(curView[r]) \in Byz
                   THEN {Outcome(m) : m \in ViewChangeSets(curView[r])}
                   ELSE {newViewMsgs[curView[r]]} \ {NoNewView}) : EnterView(r, nv)
  BY DEF EnterViewAsBackup
<1>4. nv \in NewView /\ \A s \in SeqNums : Proposed(curView[r], s, nv.restriction[s])
  <2>1. CASE Primary(curView[r]) \in Byz
    <3>1. PICK m \in ViewChangeSets(curView[r]) : nv = Outcome(m)
      BY <1>3, <2>1
    <3> QED BY <1>2, <3>1, ViewChangeSetsType, OutcomeType, OutcomeIsProposed
  <2>2. CASE Primary(curView[r]) \notin Byz
    BY <1>2, <1>3, <2>2 DEF TypeOK, PInv, NewViewsAreProposed
  <2> QED BY <2>1, <2>2
<1>5. /\ Forward /\ UNCHANGED viewChangeMsgs /\ ElementsAreProposed'
      /\ LogIsProposed' /\ SharesAreProposed' /\ ExecutedWasProposed'
  BY <1>1, <1>3, <1>4, EnterViewIsProposed DEF EnterView
<1> QED BY <1>1, <1>2, <1>5, MessagesStayProposed DEF PInv

-----------------------------------------------------------------------------
(* The theorem *)

(* The initial state satisfies the invariant. *)
LEMMA InitPInv == Init => PInv
<1> SUFFICES ASSUME Init PROVE PInv
  OBVIOUS
<1>1. IInv
  BY InitIInv
<1>2. LogIsProposed /\ ExecutedWasProposed
  BY NothingIsProposed, DigestAssumption DEF Init, LogIsProposed, ExecutedWasProposed, EmptySlot
<1>3. SharesAreProposed
  BY DEF Init, SharesAreProposed
<1>4. ElementsAreProposed /\ NewViewsAreProposed
  BY NothingIsProposed
     DEF Init, ElementsAreProposed, NewViewsAreProposed, NoMsg, NoElem, NoNewView
<1> QED BY <1>1, <1>2, <1>3, <1>4 DEF PInv

(* Every step keeps it. *)
LEMMA NextPInv == PInv /\ [Next]_vars => PInv'
<1> SUFFICES ASSUME PInv, [Next]_vars PROVE PInv'
  OBVIOUS
<1>1. CASE UNCHANGED vars
  <2>1. IInv'
    BY NextIInv DEF PInv
  <2>2. UNCHANGED <<curView, viewChangeMsgs, newViewMsgs, seqNumInfo, shares, executed, prePrepareMsgs>>
    BY <1>1 DEF vars, logVars, viewVars, netVars
  <2> QED BY <2>1, <2>2, QuietStepIsProposed
<1>2. ASSUME NEW r \in Honest, NEW s \in SeqNums, TryToStartSlowPaths(r, s) PROVE PInv'
  <2>1. IInv'
    BY <1>2, TryToStartSlowPathsStep DEF PInv
  <2> QED BY <1>2, <2>1, StartSlowPathIsProposed DEF TryToStartSlowPaths
<1>3. ASSUME NEW r \in Honest, NEW s \in SeqNums, OnStartSlowCommit(r, s) PROVE PInv'
  <2>1. IInv'
    BY <1>3, OnStartSlowCommitStep DEF PInv
  <2> QED BY <1>3, <2>1, StartSlowPathIsProposed DEF OnStartSlowCommit
<1>4. CASE Next
  BY <1>2, <1>3, <1>4, StartConsensusProcessIsProposed, OnPrePrepareIsProposed,
     OnPrepareFullIsProposed, OnCommitFullIsProposed, OnFullCommitProofIsProposed,
     OnSeqNumIsStableIsProposed, MoveToHigherViewIsProposed, EnterViewAsPrimaryIsProposed,
     EnterViewAsBackupIsProposed DEF Next
<1> QED BY <1>1, <1>4

(* Nothing made up is executed: with checkpoints and the time service, for *)
(* every number of views and sequence numbers, each batch of requests an   *)
(* honest replica executes was proposed by the primary of a view the       *)
(* replica has reached.                                                    *)
THEOREM ExecutedIsProposed == Spec => []ExecutedWasProposed
<1>1. PInv => ExecutedWasProposed
  BY DEF PInv
<1> QED BY <1>1, InitPInv, NextPInv, PTL DEF Spec
=============================================================================
