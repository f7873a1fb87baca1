------------------------- MODULE ViewChange_proofs --------------------------
(***************************************************************************)
(* Proofs about ViewChange: a view is left only on f+1 complaints, and the *)
(* replicas of a view entered it with the same NewViewMsg and the same     *)
(* ViewChangeMsgs.                                                         *)
(***************************************************************************)
EXTENDS ViewChange, TLAPS, FiniteSetTheorems, WellFoundedInduction

-----------------------------------------------------------------------------
(* The inductive invariant.  Its parts take the complaints made so far as  *)
(* the parameter a, so that what they say of a replica or a message does   *)
(* not depend on the other variables.                                      *)

(* Complaints <<replica, view>> *)
Pairs == Replicas \X (0..MaxView - 1)

(* All views below v were complained about by f+1 replicas. *)
Left(v, a) == \A u \in 0..v - 1 : Cardinality({c \in a : c[2] = u}) >= F + 1

(* ViewChangeMsgs: the complaints that they carry were made, and so were   *)
(* the ones that allow to leave each earlier view.                         *)
VCs == [type : {"vc"}, from : Replicas, view : 1..MaxView, set : SUBSET Pairs]
GoodVC(x, a) == x \in VCs /\ x.set \subseteq a /\ Left(x.view, a)

(* NewViewMsgs name one ViewChangeMsg of each of 2f+1 replicas. *)
Senders(s) == {x.from : x \in s}
NVs == [type : {"nv"}, from : Replicas, view : 1..MaxView, set : SUBSET VCs]
GoodNV(x) ==
  /\ x \in NVs /\ x.from = Primary(x.view)
  /\ Cardinality(Senders(x.set)) = Smajor
  /\ \A y, z \in x.set : y.from = z.from => y = z

(* The ViewChangeMsgs that a NewViewMsg names, by their senders *)
Named(x, i) == CHOOSE y \in x.set : y.from = i
Foundation(x) == [i \in Replicas |-> IF i \in Senders(x.set) THEN Named(x, i) ELSE NoVC]

(* The types of the record of a replica *)
Managers ==
  [cur : 0..MaxView, act : 0..MaxView, pend : 0..MaxView, in : BOOLEAN,
   agreed : 0..MaxView, waits : BOOLEAN, comps : SUBSET Pairs, stored : SUBSET Pairs,
   vc : [Replicas -> VCs \cup {NoVC}], nv : [Replicas -> NVs \cup {NoNV}],
   pvc : [Replicas -> VCs \cup {NoVC}], pnv : NVs \cup {NoNV}]

TableFits(t, a) == \A i \in Replicas : t[i] # NoVC => GoodVC(t[i], a) /\ t[i].from = i
TablesFit(m, a) ==
  /\ TableFits(m.vc, a) /\ TableFits(m.pvc, a)
  /\ \A i \in Replicas : m.nv[i] # NoNV => GoodNV(m.nv[i])
  /\ m.pnv # NoNV => GoodNV(m.pnv)

ViewsFit(m, a) ==
  /\ m.act <= m.pend /\ m.pend <= m.cur /\ (m.in <=> m.act = m.cur)
  /\ Left(m.cur, a)
  /\ m.comps \subseteq a /\ m.stored \subseteq a /\ \A c \in m.comps : c[2] = m.cur

(* A view that is pending or active rests on its NewViewMsg; what is left of *)
(* an earlier one when the replica moves on is its own ViewChangeMsg.      *)
PendingFits(m, r) ==
  /\ m.cur > 0 => MyLatest(m, r) # NoVC /\ MyLatest(m, r).view = m.cur
  /\ m.pnv = NoNV => \A i \in Replicas : m.pvc[i] = NoVC
  /\ m.pnv # NoNV => \A i \in Replicas \ {r} : m.pvc[i] # NoVC => m.pvc[i] \in m.pnv.set
  /\ m.pend = m.cur =>
       /\ m.pvc = Foundation(m.pnv)
       /\ IF m.cur = 0 THEN m.pnv = NoNV ELSE m.pnv # NoNV /\ m.pnv.view = m.cur

Fits(m, r, a) == m \in Managers /\ TablesFit(m, a) /\ ViewsFit(m, a) /\ PendingFits(m, r)

(* The NewViewMsgs at a replica that its primary has sent: not the one that *)
(* a primary keeps while it waits for PrePrepares.                         *)
Released(m, r) ==
  {m.nv[i] : i \in Replicas} \cup
  (IF r # Primary(m.pnv.view) \/ m.act >= m.pnv.view THEN {m.pnv} ELSE {})

GoodMsg(r, x, a) ==
  \/ x.type = "ask" /\ x = Ask(x.from, x.view) /\ <<x.from, x.view>> \in a
  \/ GoodVC(x, a) /\ x.from # r
  \/ GoodNV(x)

AllReleased ==
  {x \in {p[2] : p \in net} \cup UNION {Released(reps[r], r) : r \in Up} : x.type = "nv" /\ x # NoNV}

(* A view has one NewViewMsg, sent when its primary entered the view. *)
OneNewView ==
  /\ \A x, y \in AllReleased : x.view = y.view => x = y
  /\ \A x \in AllReleased : Primary(x.view) \in Up /\ reps[Primary(x.view)].act >= x.view

IInv ==
  /\ asked \subseteq Pairs
  /\ DOMAIN reps = Replicas /\ \A r \in Up : Fits(reps[r], r, asked)
  /\ \A p \in net : p = <<p[1], p[2]>> /\ p[1] \in Up /\ GoodMsg(p[1], p[2], asked)
  /\ OneNewView

-----------------------------------------------------------------------------
(* Numbers and complaints *)

LEMMA PrimaryIsReplica == \A v \in Nat : Primary(v) \in Replicas
<1>1. N \in Nat /\ N > 0
  BY ViewChangeAssumption
<1> QED BY <1>1 DEF Primary, Replicas

LEMMA NoneIsNoMessage == NoVC \notin VCs /\ NoNV \notin NVs /\ NoVC.view = -1 /\ NoNV.view = -1
                         /\ NoNV.set = {} /\ NoVC.from = -1 /\ -1 \notin Replicas
<1>1. -1 \notin Replicas
  BY ViewChangeAssumption DEF Replicas
<1> QED BY <1>1 DEF NoVC, NoNV, VCs, NVs

LEMMA PairsAreFinite == IsFiniteSet(Pairs)
<1>1. IsFiniteSet(Replicas) /\ IsFiniteSet(0..MaxView - 1)
  BY ViewChangeAssumption, FS_Interval DEF Replicas
<1> QED BY <1>1, FS_Product DEF Pairs

LEMMA LeftDown ==
  ASSUME NEW v \in Int, NEW w \in Int, w <= v, NEW a, Left(v, a)
  PROVE  Left(w, a)
<1>1. \A u \in 0..w - 1 : u \in 0..v - 1
  OBVIOUS
<1> QED BY <1>1 DEF Left

LEMMA LeftGrows ==
  ASSUME NEW b \in SUBSET Pairs, NEW a \in SUBSET b, NEW v, Left(v, a)
  PROVE  Left(v, b)
<1> SUFFICES ASSUME NEW u \in 0..v - 1 PROVE Cardinality({c \in b : c[2] = u}) >= F + 1
  BY DEF Left
<1> DEFINE A == {c \in a : c[2] = u}
           B == {c \in b : c[2] = u}
<1>1. IsFiniteSet(B) /\ A \subseteq B
  <2>1. B \subseteq Pairs
    OBVIOUS
  <2> QED BY <2>1, PairsAreFinite, FS_Subset
<1>2. Cardinality(A) <= Cardinality(B) /\ Cardinality(A) \in Nat /\ Cardinality(B) \in Nat
  BY <1>1, FS_Subset, FS_CardinalityType
<1>3. Cardinality(A) >= F + 1
  BY DEF Left
<1> HIDE DEF A, B
<1> QED BY <1>2, <1>3, ViewChangeAssumption DEF B

(* hasQuorumToLeaveView: the view that is complained about may be left. *)
LEMMA LeftNext ==
  ASSUME NEW a \in SUBSET Pairs, NEW v \in 0..MaxView, Left(v, a),
         NEW comps \in SUBSET a, \A c \in comps : c[2] = v, HasQuorumToLeaveView(comps)
  PROVE  Left(v + 1, a) /\ v + 1 \in 1..MaxView
<1> DEFINE B == {c \in a : c[2] = v}
<1>1. IsFiniteSet(B) /\ comps \subseteq B
  <2>1. B \subseteq Pairs
    OBVIOUS
  <2> QED BY <2>1, PairsAreFinite, FS_Subset
<1>2. /\ Cardinality(comps) <= Cardinality(B) /\ Cardinality(comps) \in Nat
      /\ Cardinality(B) \in Nat /\ IsFiniteSet(comps)
  BY <1>1, FS_Subset, FS_CardinalityType
<1>3. Cardinality(comps) >= F + 1
  BY DEF HasQuorumToLeaveView
<1>4. Cardinality(B) >= F + 1
  <2> HIDE DEF B
  <2> QED BY <1>2, <1>3, ViewChangeAssumption
<1>5. comps # {}
  <2>1. Cardinality(comps) # 0
    BY <1>2, <1>3, ViewChangeAssumption
  <2> QED BY <1>2, <2>1, FS_EmptySet
<1>6. v \in 0..MaxView - 1
  <2>1. PICK c \in comps : TRUE
    BY <1>5
  <2>2. c \in Pairs /\ c[2] = v
    BY <2>1
  <2> QED BY <2>2 DEF Pairs
<1>7. v + 1 \in 1..MaxView
  BY <1>6, ViewChangeAssumption
<1>8. \A u \in 0..(v + 1) - 1 : u \in 0..v - 1 \/ u = v
  BY <1>6, ViewChangeAssumption
<1> QED BY <1>4, <1>7, <1>8 DEF Left

-----------------------------------------------------------------------------
(* Moving to a higher view *)

Mine(r, v, c) == [type |-> "vc", from |-> r, view |-> v, set |-> c]
NoVCs == [i \in Replicas |-> NoVC]

LEMMA ResetIs ==
  ASSUME NEW m \in Managers, NEW r \in Replicas, PendingFits(m, r)
  PROVE  Reset(m, r) = [m EXCEPT !.vc = [m.vc EXCEPT ![r] = MyLatest(m, r)],
                                 !.pvc = NoVCs, !.pnv = NoNV]
<1>1. CASE m.pnv = NoNV
  <2>1. m.pvc = NoVCs
    BY <1>1 DEF PendingFits, NoVCs, Managers
  <2>2. MyLatest(m, r) = m.vc[r]
    BY <2>1 DEF MyLatest, NoVCs
  <2>3. [m.vc EXCEPT ![r] = m.vc[r]] = m.vc
    BY DEF Managers
  <2> QED BY <1>1, <2>1, <2>2, <2>3 DEF Reset, Managers
<1>2. CASE m.pnv # NoNV
  BY <1>2 DEF Reset, Managers, MyLatest, NoVCs
<1> QED BY <1>1, <1>2

(* MoveToHigherView, in one update *)
MoveTo(m, r, v, c) ==
  [m EXCEPT !.cur = v, !.in = FALSE, !.comps = {}, !.stored = IF m.in THEN c ELSE m.stored,
            !.vc = IF m.in \/ m.pvc[r] = NoVC THEN [m.vc EXCEPT ![r] = Mine(r, v, c)] ELSE m.vc,
            !.pvc = IF m.in THEN NoVCs
                    ELSE IF m.pvc[r] # NoVC THEN [m.pvc EXCEPT ![r] = Mine(r, v, c)] ELSE m.pvc,
            !.pnv = IF m.in THEN NoNV ELSE m.pnv]

LEMMA MoveIs ==
  ASSUME NEW m \in Managers, NEW r \in Replicas, PendingFits(m, r), NEW v, NEW c
  PROVE  Move([m EXCEPT !.comps = c], r, v) = MoveTo(m, r, v, c)
<1> USE DEF MoveTo
<1> DEFINE k == [m EXCEPT !.comps = c]
<1>1. CASE m.in
  <2>1. CASE m.pnv = NoNV
    <3>1. m.pvc = NoVCs
      BY <2>1 DEF PendingFits, NoVCs, Managers
    <3>2. Reset(k, r) = k
      BY <2>1 DEF Reset, Managers
    <3> QED BY <1>1, <2>1, <3>1, <3>2 DEF Move, Managers, Mine
  <2>2. CASE m.pnv # NoNV
    <3> DEFINE w == IF m.pvc[r] # NoVC THEN m.pvc[r] ELSE m.vc[r]
    <3>1. Reset(k, r) = [k EXCEPT !.vc = [m.vc EXCEPT ![r] = w], !.pvc = NoVCs, !.pnv = NoNV]
      BY <2>2 DEF Reset, Managers, NoVCs
    <3> HIDE DEF w
    <3>2. [[m.vc EXCEPT ![r] = w] EXCEPT ![r] = Mine(r, v, c)] = [m.vc EXCEPT ![r] = Mine(r, v, c)]
      BY DEF Managers
    <3> QED BY <1>1, <3>1, <3>2 DEF Move, Managers, Mine
  <2> QED BY <2>1, <2>2
<1>2. CASE ~m.in /\ m.pvc[r] # NoVC
  BY <1>2 DEF Move, Managers, Mine
<1>3. CASE ~m.in /\ m.pvc[r] = NoVC
  BY <1>3 DEF Move, Managers, Mine
<1> QED BY <1>1, <1>2, <1>3

(* The replica goes from m to n, does not enter a view, and takes over no  *)
(* NewViewMsg that was not sent.                                           *)
Moves(m, n, r, a) ==
  /\ Fits(n, r, a) /\ n.act = m.act /\ m.cur <= n.cur /\ m.pend <= n.pend
  /\ Released(n, r) \subseteq Released(m, r) \cup {NoNV}

LEMMA MovesTransitive ==
  ASSUME NEW r, NEW a, NEW m, NEW k, NEW n, Fits(m, r, a), Moves(m, k, r, a), Moves(k, n, r, a)
  PROVE  Moves(m, n, r, a)
<1>1. m \in Managers /\ k \in Managers /\ n \in Managers
  BY DEF Moves, Fits
<1>2. /\ m.cur \in Int /\ k.cur \in Int /\ n.cur \in Int
      /\ m.pend \in Int /\ k.pend \in Int /\ n.pend \in Int
  BY <1>1, ViewChangeAssumption DEF Managers
<1> QED BY <1>2 DEF Moves

LEMMA MovesReflexive ==
  ASSUME NEW r, NEW a, NEW m, Fits(m, r, a)
  PROVE  Moves(m, m, r, a)
<1>1. m.cur \in Int /\ m.pend \in Int
  BY ViewChangeAssumption DEF Fits, Managers
<1> QED BY <1>1 DEF Moves

(* MoveToHigherView keeps the invariant, if the views below v may be left. *)
LEMMA MoveFits ==
  ASSUME NEW a \in SUBSET Pairs, NEW r \in Replicas, NEW m, Fits(m, r, a), NEW c \in SUBSET a,
         NEW v \in 1..MaxView, m.cur < v, Left(v, a)
  PROVE  LET n == Move([m EXCEPT !.comps = c], r, v)
         IN  Moves(m, n, r, a) /\ n.cur = v /\ n.in = FALSE
<1> DEFINE mine == Mine(r, v, c)
           st == IF m.in THEN c ELSE m.stored
           vc == IF m.in \/ m.pvc[r] = NoVC THEN [m.vc EXCEPT ![r] = mine] ELSE m.vc
           pvc == IF m.in THEN NoVCs
                  ELSE IF m.pvc[r] # NoVC THEN [m.pvc EXCEPT ![r] = mine] ELSE m.pvc
           pnv == IF m.in THEN NoNV ELSE m.pnv
           n == [m EXCEPT !.cur = v, !.in = FALSE, !.comps = {}, !.stored = st,
                          !.vc = vc, !.pvc = pvc, !.pnv = pnv]
<1>0. m \in Managers /\ TablesFit(m, a) /\ ViewsFit(m, a) /\ PendingFits(m, r)
  BY DEF Fits
<1>1. Move([m EXCEPT !.comps = c], r, v) = n
  <2>1. Move([m EXCEPT !.comps = c], r, v) = MoveTo(m, r, v, c)
    BY <1>0, MoveIs, Zenon
  <2>2. MoveTo(m, r, v, c) = n
    BY Zenon DEF MoveTo
  <2> QED BY <2>1, <2>2
<1>2. mine \in VCs /\ GoodVC(mine, a) /\ mine # NoVC /\ mine.from = r /\ mine.view = v
  <2>1. mine \in VCs
    BY DEF Mine, VCs
  <2> QED BY <2>1, NoneIsNoMessage DEF Mine, GoodVC
<1>3. /\ m.vc \in [Replicas -> VCs \cup {NoVC}] /\ m.pvc \in [Replicas -> VCs \cup {NoVC}]
      /\ m.pnv \in NVs \cup {NoNV} /\ m.stored \in SUBSET Pairs /\ m.in \in BOOLEAN
      /\ m.cur \in 0..MaxView /\ m.act \in 0..MaxView /\ m.pend \in 0..MaxView
  BY <1>0 DEF Managers
<1> HIDE DEF mine
<1>4. vc \in [Replicas -> VCs \cup {NoVC}] /\ pvc \in [Replicas -> VCs \cup {NoVC}]
  BY <1>2, <1>3 DEF NoVCs
<1>5. pnv \in NVs \cup {NoNV} /\ st \in SUBSET Pairs
  BY <1>3
<1>6. \A i \in Replicas : vc[i] = (IF i = r /\ (m.in \/ m.pvc[r] = NoVC) THEN mine ELSE m.vc[i])
  BY <1>3
<1>7. \A i \in Replicas : pvc[i] = IF m.in THEN NoVC
                                   ELSE IF i = r /\ m.pvc[r] # NoVC THEN mine ELSE m.pvc[i]
  BY <1>3 DEF NoVCs
<1>8. pnv = NoNV \/ (pnv = m.pnv /\ ~m.in)
  BY Zenon
<1>9. st \in SUBSET a
  BY <1>0 DEF ViewsFit
<1>p. m.in => pnv = NoNV
  OBVIOUS
<1> HIDE DEF vc, pvc, pnv, st
<1>10. /\ n \in Managers /\ n.cur = v /\ n.in = FALSE /\ n.comps = {} /\ n.stored = st
       /\ n.vc = vc /\ n.pvc = pvc /\ n.pnv = pnv /\ n.nv = m.nv /\ n.act = m.act /\ n.pend = m.pend
  <2>1. v \in 0..MaxView /\ {} \in SUBSET Pairs
    BY ViewChangeAssumption
  <2> QED BY <1>0, <1>4, <1>5, <2>1 DEF Managers
<1> HIDE DEF n
<1>11. TablesFit(n, a)
  BY <1>0, <1>2, <1>6, <1>7, <1>8, <1>10 DEF TablesFit, TableFits
<1>12. ViewsFit(n, a)
  <2>1. m.act <= m.pend /\ m.pend < v /\ m.act # v
    BY <1>0, <1>3, ViewChangeAssumption DEF ViewsFit
  <2> QED BY <1>3, <1>9, <1>10, <2>1 DEF ViewsFit
<1>13. PendingFits(n, r)
  <2>1. n.pend # n.cur
    BY <1>0, <1>3, <1>10, ViewChangeAssumption DEF ViewsFit
  <2>2. MyLatest(n, r) = mine
    BY <1>2, <1>6, <1>7, <1>10 DEF MyLatest
  <2>3. n.pnv = NoNV => \A i \in Replicas : n.pvc[i] = NoVC
    <3>1. ~m.in /\ m.pnv = NoNV => \A i \in Replicas : m.pvc[i] = NoVC
      BY <1>0 DEF PendingFits
    <3>2. n.pnv = NoNV => m.in \/ m.pnv = NoNV
      BY <1>8, <1>10 DEF pnv
    <3> QED BY <1>7, <1>10, <3>1, <3>2
  <2>4. n.pnv # NoNV => \A i \in Replicas \ {r} : n.pvc[i] # NoVC => n.pvc[i] \in n.pnv.set
    BY <1>0, <1>7, <1>8, <1>10 DEF PendingFits
  <2> QED BY <1>2, <1>10, <2>1, <2>2, <2>3, <2>4 DEF PendingFits
<1>14. Released(n, r) \subseteq Released(m, r) \cup {NoNV}
  BY <1>8, <1>10 DEF Released
<1>15. m.cur <= v /\ m.pend <= m.pend
  BY <1>3
<1> QED BY <1>1, <1>10, <1>11, <1>12, <1>13, <1>14, <1>15 DEF Moves, Fits

LEMMA MoveKeepingComplaints ==
  ASSUME NEW a \in SUBSET Pairs, NEW r \in Replicas, NEW m, Fits(m, r, a),
         NEW v \in 1..MaxView, m.cur < v, Left(v, a)
  PROVE  LET n == Move(m, r, v) IN Moves(m, n, r, a) /\ n.cur = v /\ n.in = FALSE
<1>1. m.comps \in SUBSET a /\ [m EXCEPT !.comps = m.comps] = m
  BY DEF Fits, ViewsFit, Managers
<1>2. LET n == Move([m EXCEPT !.comps = m.comps], r, v)
      IN  Moves(m, n, r, a) /\ n.cur = v /\ n.in = FALSE
  BY <1>1, MoveFits, Zenon
<1> QED BY <1>1, <1>2, Zenon

(* Other complaints about the current view *)
LEMMA CompsFit ==
  ASSUME NEW a \in SUBSET Pairs, NEW r \in Replicas, NEW m, Fits(m, r, a), NEW c \in SUBSET a,
         \A x \in c : x[2] = m.cur
  PROVE  Moves(m, [m EXCEPT !.comps = c], r, a)
<1> DEFINE n == [m EXCEPT !.comps = c]
<1>0. m \in Managers /\ TablesFit(m, a) /\ ViewsFit(m, a) /\ PendingFits(m, r)
  BY DEF Fits
<1>1. /\ n \in Managers /\ n.comps = c /\ n.cur = m.cur /\ n.act = m.act /\ n.pend = m.pend
      /\ n.in = m.in /\ n.stored = m.stored /\ n.vc = m.vc /\ n.pvc = m.pvc /\ n.nv = m.nv
      /\ n.pnv = m.pnv
  <2>1. c \in SUBSET Pairs
    OBVIOUS
  <2> QED BY <1>0, <2>1 DEF Managers
<1>2. m.cur <= m.cur /\ m.pend <= m.pend
  BY <1>0, ViewChangeAssumption DEF Managers
<1> HIDE DEF n
<1>3. TablesFit(n, a) /\ ViewsFit(n, a) /\ PendingFits(n, r)
  BY <1>0, <1>1 DEF TablesFit, ViewsFit, PendingFits, MyLatest
<1>4. Released(n, r) = Released(m, r)
  BY <1>1 DEF Released
<1> QED BY <1>1, <1>2, <1>3, <1>4 DEF n, Moves, Fits

(* tryToGoToNextView *)
LEMMA Next1Fits ==
  ASSUME NEW a \in SUBSET Pairs, NEW r \in Replicas, NEW m, Fits(m, r, a)
  PROVE  Moves(m, Next1(m, r), r, a)
<1>1. CASE HasQuorumToLeaveView(m.comps)
  <2>1. m.cur \in 0..MaxView /\ Left(m.cur, a) /\ m.comps \in SUBSET a /\ \A c \in m.comps : c[2] = m.cur
    BY DEF Fits, Managers, ViewsFit
  <2>2. Left(m.cur + 1, a) /\ m.cur + 1 \in 1..MaxView
    BY <1>1, <2>1, LeftNext, Zenon
  <2>3. m.cur < m.cur + 1
    BY <2>1
  <2> QED BY <1>1, <2>2, <2>3, MoveKeepingComplaints, Zenon DEF Next1
<1>2. CASE ~HasQuorumToLeaveView(m.comps)
  BY <1>2, MovesReflexive DEF Next1
<1> QED BY <1>1, <1>2

-----------------------------------------------------------------------------
(* onMessage<ViewChangeMsg> up to the view that the replica is in then *)

(* A bounded set of natural numbers has a greatest element. *)
LEMMA HighestExists ==
  ASSUME NEW b \in Nat, NEW S \in SUBSET (0..b), S # {}
  PROVE  Max(S) \in S /\ \A y \in S : y <= Max(S)
<1> DEFINE T == {b - y : y \in S}
           R == OpToRel(<, Nat)
<1>1. T \in SUBSET Nat /\ T # {}
  <2>1. \A y \in S : b - y \in Nat
    OBVIOUS
  <2> QED BY <2>1
<1>2. PICK z \in T : \A y \in T : ~(<<y, z>> \in R)
  <2>1. IsWellFoundedOn(R, Nat)
    BY NatLessThanWellFounded
  <2> HIDE DEF R, T
  <2> QED BY <1>1, <2>1, WFMin
<1>3. \A y \in T : ~(y < z)
  BY <1>1, <1>2 DEF OpToRel
<1>4. PICK x \in S : z = b - x
  BY <1>2
<1>5. \A y \in S : x >= y
  <2> SUFFICES ASSUME NEW y \in S PROVE x >= y
    OBVIOUS
  <2>1. ~(b - y < b - x)
    BY <1>3, <1>4
  <2>2. x \in Int /\ y \in Int
    OBVIOUS
  <2> QED BY <2>1, <2>2
<1>6. Max(S) \in S /\ \A y \in S : Max(S) >= y
  BY <1>5 DEF Max
<1>7. \A y \in S : y \in Int
  OBVIOUS
<1> QED BY <1>6, <1>7

(* A message of another replica is kept. *)
LEMMA AddFits ==
  ASSUME NEW a \in SUBSET Pairs, NEW r \in Replicas, NEW m, Fits(m, r, a), NEW x, GoodVC(x, a), x.from # r
  PROVE  Moves(m, [m EXCEPT !.vc[x.from] = x], r, a)
<1> DEFINE t == [m.vc EXCEPT ![x.from] = x]
           n == [m EXCEPT !.vc = t]
<1>0. m \in Managers /\ TablesFit(m, a) /\ ViewsFit(m, a) /\ PendingFits(m, r)
  BY DEF Fits
<1>1. x \in VCs /\ x.from \in Replicas
  BY DEF GoodVC, VCs
<1>2. t \in [Replicas -> VCs \cup {NoVC}] /\ t[r] = m.vc[r]
      /\ \A i \in Replicas : t[i] = IF i = x.from THEN x ELSE m.vc[i]
  BY <1>0, <1>1 DEF Managers
<1>3. [m EXCEPT !.vc[x.from] = x] = n
  BY <1>0, <1>1 DEF Managers
<1> HIDE DEF t
<1>4. /\ n \in Managers /\ n.vc = t /\ n.cur = m.cur /\ n.act = m.act /\ n.pend = m.pend
      /\ n.in = m.in /\ n.stored = m.stored /\ n.comps = m.comps /\ n.pvc = m.pvc /\ n.nv = m.nv
      /\ n.pnv = m.pnv
  BY <1>0, <1>2 DEF Managers
<1>5. m.cur <= m.cur /\ m.pend <= m.pend
  BY <1>0, ViewChangeAssumption DEF Managers
<1> HIDE DEF n
<1>6. TablesFit(n, a)
  BY <1>0, <1>2, <1>4 DEF TablesFit, TableFits
<1>7. ViewsFit(n, a) /\ PendingFits(n, r)
  BY <1>0, <1>2, <1>4 DEF ViewsFit, PendingFits, MyLatest
<1>8. Released(n, r) = Released(m, r)
  BY <1>4 DEF Released
<1> QED BY <1>3, <1>4, <1>5, <1>6, <1>7, <1>8 DEF Moves, Fits

(* computeCorrectRelevantViewNumbers: some message names a view that high. *)
LEMMA KnownViewFacts ==
  ASSUME NEW a \in SUBSET Pairs, NEW r \in Replicas, NEW m, Fits(m, r, a), NEW k \in Nat \ {0},
         KnownView(m, r, k) > m.cur
  PROVE  KnownView(m, r, k) \in 1..MaxView /\ Left(KnownView(m, r, k), a)
<1> DEFINE view(i) == IF i = r THEN MyLatest(m, r).view ELSE m.vc[i].view
           known == {v \in m.pend + 1..MaxView : Cardinality({i \in Replicas : view(i) >= v}) >= k}
           v == KnownView(m, r, k)
<1>0. m \in Managers /\ TablesFit(m, a) /\ ViewsFit(m, a) /\ PendingFits(m, r)
  BY DEF Fits
<1>1. m.pend \in 0..MaxView /\ m.cur \in 0..MaxView /\ m.pend <= m.cur
  BY <1>0 DEF Managers, ViewsFit
<1>2. v = IF known = {} THEN m.pend ELSE Max(known)
  BY DEF KnownView
<1>3. known # {}
  <2> HIDE DEF known
  <2> QED BY <1>1, <1>2, ViewChangeAssumption
<1>4. v \in known
  <2>1. known \in SUBSET (0..MaxView)
    BY <1>1, ViewChangeAssumption
  <2> HIDE DEF known, v
  <2> QED BY <1>2, <1>3, <2>1, HighestExists, ViewChangeAssumption
<1>5. v \in 1..MaxView /\ Cardinality({i \in Replicas : view(i) >= v}) >= k
  <2> HIDE DEF v, view
  <2> QED BY <1>1, <1>4, ViewChangeAssumption
<1> HIDE DEF v, known
<1>6. PICK i \in Replicas : view(i) >= v
  <2> DEFINE S == {i \in Replicas : view(i) >= v}
  <2>1. S # {}
    <3>1. Cardinality(S) >= k
      BY <1>5
    <3>2. Cardinality({}) = 0
      BY FS_EmptySet
    <3> HIDE DEF S
    <3> QED BY <3>1, <3>2
  <2> QED BY <2>1
<1>7. PICK x : view(i) = x.view /\ (x = NoVC \/ GoodVC(x, a))
  BY <1>0 DEF MyLatest, TablesFit, TableFits
<1>8. x.view >= v
  BY <1>6, <1>7
<1>9. GoodVC(x, a)
  BY <1>5, <1>7, <1>8, NoneIsNoMessage
<1>10. x.view \in Int /\ Left(x.view, a)
  BY <1>9 DEF GoodVC, VCs
<1>11. Left(v, a)
  BY <1>5, <1>8, <1>10, LeftDown
<1> QED BY <1>5, <1>11 DEF v

LEMMA FollowsCorrectFits ==
  ASSUME NEW a \in SUBSET Pairs, NEW r \in Replicas, NEW m, Fits(m, r, a)
  PROVE  Moves(m, FollowsCorrect(m, r), r, a)
<1> DEFINE v == KnownView(m, r, F + 1)
<1>1. CASE v > m.cur
  <2>1. F + 1 \in Nat \ {0}
    BY ViewChangeAssumption
  <2>2. v \in 1..MaxView /\ Left(v, a)
    BY <1>1, <2>1, KnownViewFacts
  <2>3. m.cur < v
    <3>1. m.cur \in Int
      BY ViewChangeAssumption DEF Fits, Managers
    <3> HIDE DEF v
    <3> QED BY <1>1, <2>2, <3>1
  <2>4. FollowsCorrect(m, r) = Move(m, r, v)
    BY <1>1 DEF FollowsCorrect
  <2> HIDE DEF v
  <2>5. Moves(m, Move(m, r, v), r, a)
    BY <2>2, <2>3, <2>4, MoveKeepingComplaints, Zenon
  <2> QED BY <2>3, <2>4, <2>5
<1>2. CASE ~(v > m.cur)
  BY <1>2, MovesReflexive DEF FollowsCorrect
<1> QED BY <1>1, <1>2

LEMMA FollowsPrimaryFits ==
  ASSUME NEW a \in SUBSET Pairs, NEW r \in Replicas, NEW m, Fits(m, r, a), NEW x, GoodVC(x, a)
  PROVE  Moves(m, FollowsPrimary(m, r, x), r, a)
<1>1. CASE x.from = Primary(m.cur) /\ x.view > m.cur
  <2> DEFINE v == m.cur + 1
  <2>1. x.view \in 1..MaxView /\ m.cur \in 0..MaxView /\ Left(x.view, a)
    BY DEF GoodVC, VCs, Fits, Managers
  <2>2. v \in 1..MaxView /\ m.cur < v /\ v <= x.view /\ v \in Int /\ x.view \in Int
    BY <1>1, <2>1, ViewChangeAssumption
  <2>3. FollowsPrimary(m, r, x) = Move(m, r, v)
    BY <1>1 DEF FollowsPrimary
  <2> HIDE DEF v
  <2>4. Left(v, a)
    BY <2>1, <2>2, LeftDown
  <2>5. Moves(m, Move(m, r, v), r, a)
    BY <2>2, <2>3, <2>4, MoveKeepingComplaints, Zenon
  <2> QED BY <2>3, <2>4, <2>5
<1>2. CASE ~(x.from = Primary(m.cur) /\ x.view > m.cur)
  BY <1>2, MovesReflexive DEF FollowsPrimary
<1> QED BY <1>1, <1>2

(* processComplaintsFromViewChangeMessage: real complaints, and about the  *)
(* view before that of the message.                                        *)
LEMMA ComplaintsFacts ==
  ASSUME NEW a \in SUBSET Pairs, NEW r \in Replicas, NEW m, Fits(m, r, a), NEW x, GoodVC(x, a)
  PROVE  /\ Complaints(m, x) \in SUBSET a
         /\ x.view = m.cur + 1 => \A c \in Complaints(m, x) : c[2] = m.cur
<1>1. m.comps \in SUBSET a /\ (\A c \in m.comps : c[2] = m.cur) /\ x.set \in SUBSET a
      /\ m.cur \in 0..MaxView
  BY DEF Fits, ViewsFit, GoodVC, Managers
<1>2. \A c \in a : c[2] \in Int
  BY DEF Pairs
<1>3. \A c \in Complaints(m, x) : c \in m.comps \/ (c \in x.set /\ c[2] + 1 = x.view)
  BY DEF Complaints
<1> QED BY <1>1, <1>2, <1>3

LEMMA JumpedFits ==
  ASSUME NEW a \in SUBSET Pairs, NEW r \in Replicas, NEW m, Fits(m, r, a), NEW x, GoodVC(x, a)
  PROVE  Moves(m, Jumped(m, r, x), r, a)
<1> DEFINE comps == IF x.view > m.cur THEN Complaints(m, x) ELSE m.comps
           next == x.view <= m.cur + 1
           v == m.cur + 1
<1>0. /\ m.cur \in 0..MaxView /\ Left(m.cur, a) /\ m.comps \in SUBSET a
      /\ \A c \in m.comps : c[2] = m.cur
  BY DEF Fits, Managers, ViewsFit
<1>1. x.view \in 1..MaxView /\ Left(x.view, a)
  BY DEF GoodVC, VCs
<1>2. comps \in SUBSET a
  BY <1>0, ComplaintsFacts
<1>3. next => \A c \in comps : c[2] = m.cur
  <2>1. CASE x.view > m.cur /\ next
    <3>1. x.view = m.cur + 1
      BY <1>0, <1>1, <2>1, ViewChangeAssumption
    <3> QED BY <2>1, <3>1, ComplaintsFacts
  <2>2. CASE ~(x.view > m.cur)
    BY <1>0, <2>2
  <2> QED BY <2>1, <2>2
<1>4. Jumped(m, r, x) =
        IF next /\ HasQuorumToLeaveView(comps) THEN Move([m EXCEPT !.comps = comps], r, v)
        ELSE IF HasQuorumToLeaveView(m.comps) THEN Move(m, r, v)
        ELSE IF HasQuorumToLeaveView(comps) THEN Move([m EXCEPT !.comps = comps], r, x.view)
        ELSE IF next THEN [m EXCEPT !.comps = comps] ELSE m
  BY DEF Jumped
<1>5. v = m.cur + 1 /\ m.cur < v /\ v \in Int
  BY <1>0
<1>6. ~next => m.cur < x.view
  BY <1>0, <1>1, ViewChangeAssumption
<1> HIDE DEF comps, next, v
<1>7. CASE next /\ HasQuorumToLeaveView(comps)
  <2>1. Left(v, a) /\ v \in 1..MaxView
    BY <1>0, <1>2, <1>3, <1>5, <1>7, LeftNext
  <2>2. Moves(m, Move([m EXCEPT !.comps = comps], r, v), r, a)
    BY <1>2, <1>5, <2>1, MoveFits, Zenon
  <2> QED BY <1>4, <1>7, <2>2
<1>8. CASE ~(next /\ HasQuorumToLeaveView(comps)) /\ HasQuorumToLeaveView(m.comps)
  <2>1. Left(v, a) /\ v \in 1..MaxView
    BY <1>0, <1>5, <1>8, LeftNext
  <2>2. Moves(m, Move(m, r, v), r, a)
    BY <1>5, <2>1, MoveKeepingComplaints, Zenon
  <2> QED BY <1>4, <1>8, <2>2
<1>9. CASE ~next /\ ~HasQuorumToLeaveView(m.comps) /\ HasQuorumToLeaveView(comps)
  <2>1. Moves(m, Move([m EXCEPT !.comps = comps], r, x.view), r, a)
    BY <1>1, <1>2, <1>6, <1>9, MoveFits, Zenon
  <2> QED BY <1>4, <1>9, <2>1
<1>10. CASE ~HasQuorumToLeaveView(m.comps) /\ ~HasQuorumToLeaveView(comps) /\ next
  <2>1. Moves(m, [m EXCEPT !.comps = comps], r, a)
    BY <1>2, <1>3, <1>10, CompsFit, Zenon
  <2> QED BY <1>4, <1>10, <2>1
<1>11. CASE ~HasQuorumToLeaveView(m.comps) /\ ~HasQuorumToLeaveView(comps) /\ ~next
  BY <1>4, <1>11, MovesReflexive
<1> QED BY <1>7, <1>8, <1>9, <1>10, <1>11

-----------------------------------------------------------------------------
(* Pending views *)

(* The k first numbers of a set are at most k. *)
LEMMA FirstOnes ==
  ASSUME NEW S \in SUBSET Replicas, NEW k \in Nat
  PROVE  LET Q == {i \in S : Cardinality({j \in S : j < i}) < k}
         IN  IsFiniteSet(Q) /\ Cardinality(Q) <= k
<1> DEFINE rank(i) == {j \in S : j < i}
           Q == {i \in S : Cardinality(rank(i)) < k}
<1>1. IsFiniteSet(Replicas) /\ N - 1 \in Nat
  BY ViewChangeAssumption, FS_Interval DEF Replicas
<1>2. IsFiniteSet(Q) /\ \A i : IsFiniteSet(rank(i))
  <2>1. Q \subseteq Replicas /\ \A i : rank(i) \subseteq Replicas
    OBVIOUS
  <2> HIDE DEF Q, rank
  <2> QED BY <1>1, <2>1, FS_Subset
<1>3. CASE Q = {}
  <2>1. Cardinality({}) = 0
    BY FS_EmptySet
  <2>2. IsFiniteSet(Q) /\ Cardinality(Q) <= k
    <3> HIDE DEF Q
    <3> QED BY <1>2, <1>3, <2>1
  <2> QED BY <2>2, Zenon
<1>4. CASE Q # {}
  <2> DEFINE x == Max(Q)
  <2>1. x \in Q /\ \A y \in Q : y <= x
    <3>1. Q \in SUBSET (0..N - 1)
      BY DEF Replicas
    <3> HIDE DEF Q
    <3> QED BY <1>1, <1>4, <3>1, HighestExists
  <2>2. x \in S /\ Cardinality(rank(x)) < k
    BY <2>1
  <2>3. \A y \in Q : y = x \/ y < x
    <3>1. \A y \in Q : y \in Int
      BY DEF Replicas
    <3> HIDE DEF Q, x
    <3> QED BY <2>1, <3>1
  <2>4. Q \subseteq rank(x) \cup {x}
    <3>1. \A y \in Q : y \in S
      OBVIOUS
    <3> HIDE DEF Q, x
    <3> QED BY <2>3, <3>1
  <2> HIDE DEF rank, x, Q
  <2>5. /\ Cardinality(rank(x) \cup {x}) <= Cardinality(rank(x)) + 1
        /\ IsFiniteSet(rank(x) \cup {x}) /\ Cardinality(rank(x)) \in Nat
    <3> DEFINE A == rank(x)
    <3>1. IsFiniteSet(A)
      BY <1>2
    <3> HIDE DEF A
    <3>2. /\ Cardinality(A \cup {x}) <= Cardinality(A) + 1
          /\ IsFiniteSet(A \cup {x}) /\ Cardinality(A) \in Nat
      BY <3>1, FS_AddElement, FS_CardinalityType
    <3> QED BY <3>2 DEF A
  <2>6. /\ Cardinality(Q) <= Cardinality(rank(x) \cup {x})
        /\ Cardinality(Q) \in Nat /\ Cardinality(rank(x) \cup {x}) \in Nat
    BY <1>2, <2>4, <2>5, FS_Subset, FS_CardinalityType
  <2>7. Cardinality(Q) <= k
    BY <2>2, <2>5, <2>6
  <2> QED BY <1>2, <2>7 DEF Q, rank
<1> QED BY <1>3, <1>4

(* The ViewChangeMsgs of S in the table t *)
Table(t, S) == [i \in Replicas |-> IF i \in S THEN t[i] ELSE NoVC]
Image(t, S) == {t[i] : i \in S}

LEMMA FoundationIs ==
  ASSUME NEW S \in SUBSET Replicas, NEW t, \A i \in S : t[i] \in VCs /\ t[i].from = i,
         NEW x, x.set = Image(t, S)
  PROVE  /\ Foundation(x) = Table(t, S)
         /\ Senders(x.set) = S
         /\ \A y, z \in x.set : y.from = z.from => y = z
<1>1. Senders(x.set) = S
  BY DEF Senders, Image
<1>2. \A y, z \in x.set : y.from = z.from => y = z
  BY DEF Image
<1>3. \A i \in S : Named(x, i) = t[i]
  <2> SUFFICES ASSUME NEW i \in S PROVE Named(x, i) = t[i]
    OBVIOUS
  <2>1. t[i] \in x.set /\ t[i].from = i
    BY DEF Image
  <2>2. Named(x, i) \in x.set /\ Named(x, i).from = i
    BY <2>1, Zenon DEF Named
  <2> QED BY <1>2, <2>1, <2>2, Zenon
<1> QED BY <1>1, <1>2, <1>3 DEF Foundation, Table

(* The tables after a view was found pending, or not *)
Pended(m, nvs, t, S, x) ==
  [m EXCEPT !.nv = nvs, !.pvc = Table(t, S),
            !.vc = [i \in Replicas |-> IF i \in S THEN NoVC ELSE t[i]],
            !.pnv = x, !.pend = m.cur]
NotPended(m, nvs, t) == [m EXCEPT !.nv = nvs, !.vc = t, !.pvc = NoVCs, !.pnv = NoNV]

LEMMA PendingStep ==
  ASSUME NEW a \in SUBSET Pairs, NEW r \in Replicas, NEW m, Fits(m, r, a), ~m.in,
         NEW S \in SUBSET Replicas, NEW t \in [Replicas -> VCs \cup {NoVC}],
         NEW nvs \in [Replicas -> NVs \cup {NoNV}], NEW x \in NVs,
         \A i \in S : t[i] # NoVC, t[r] # NoVC, t[r].view = m.cur,
         TableFits(t, a),
         \A i \in Replicas : nvs[i] = m.nv[i] \/ nvs[i] = NoNV,
         GoodNV(x), x.view = m.cur, x.set = Image(t, S),
         r = Primary(m.cur) \/ x \in Released(m, r)
  PROVE  Moves(m, Pended(m, nvs, t, S, x), r, a)
<1> DEFINE pvc == Table(t, S)
           vc == [i \in Replicas |-> IF i \in S THEN NoVC ELSE t[i]]
           n == [m EXCEPT !.nv = nvs, !.pvc = pvc, !.vc = vc, !.pnv = x, !.pend = m.cur]
<1>0. m \in Managers /\ TablesFit(m, a) /\ ViewsFit(m, a) /\ PendingFits(m, r)
  BY DEF Fits
<1>1. pvc \in [Replicas -> VCs \cup {NoVC}] /\ vc \in [Replicas -> VCs \cup {NoVC}]
  BY DEF Table
<1>2. /\ \A i \in Replicas : pvc[i] = IF i \in S THEN t[i] ELSE NoVC
      /\ \A i \in Replicas : vc[i] = IF i \in S THEN NoVC ELSE t[i]
  BY DEF Table
<1>3. Foundation(x) = pvc
  <2>1. \A i \in S : t[i] \in VCs /\ t[i].from = i
    BY DEF GoodVC, TableFits
  <2> QED BY <2>1, FoundationIs
<1> HIDE DEF pvc, vc
<1>4. m.cur \in 0..MaxView /\ m.act \in 0..MaxView /\ m.pend \in 0..MaxView
  BY <1>0 DEF Managers
<1>5. /\ n \in Managers /\ n.nv = nvs /\ n.pvc = pvc /\ n.vc = vc /\ n.pnv = x /\ n.pend = m.cur
      /\ n.cur = m.cur /\ n.act = m.act /\ n.in = m.in /\ n.comps = m.comps /\ n.stored = m.stored
  BY <1>0, <1>1, <1>4 DEF Managers
<1> HIDE DEF n
<1>6. TablesFit(n, a)
  BY <1>0, <1>2, <1>5 DEF TablesFit, TableFits
<1>7. ViewsFit(n, a)
  BY <1>0, <1>4, <1>5 DEF ViewsFit
<1>8. x # NoNV /\ x.view \in 1..MaxView
  BY NoneIsNoMessage DEF NVs
<1>9. PendingFits(n, r)
  <2>1. MyLatest(n, r) = t[r]
    BY <1>2, <1>5 DEF MyLatest
  <2>2. \A i \in Replicas : n.pvc[i] # NoVC => n.pvc[i] \in x.set
    BY <1>2, <1>5 DEF Image
  <2>3. m.cur # 0
    BY <1>8
  <2> QED BY <1>3, <1>5, <1>8, <2>1, <2>2, <2>3 DEF PendingFits
<1>10. Released(n, r) \subseteq Released(m, r) \cup {NoNV}
  <2>1. m.act < m.cur
    BY <1>0, <1>4, ViewChangeAssumption DEF ViewsFit
  <2>2. ~(m.act >= m.cur)
    BY <1>4, <2>1
  <2> QED BY <1>5, <2>2 DEF Released
<1>11. m.cur <= m.cur /\ m.pend <= m.cur
  BY <1>0, <1>4 DEF ViewsFit
<1>12. Moves(m, n, r, a)
  BY <1>0, <1>5, <1>6, <1>7, <1>9, <1>10, <1>11 DEF Moves, Fits
<1> QED BY <1>12, Zenon DEF n, pvc, vc, Pended

LEMMA NotPendingStep ==
  ASSUME NEW a \in SUBSET Pairs, NEW r \in Replicas, NEW m, Fits(m, r, a), m.pend # m.cur,
         NEW t \in [Replicas -> VCs \cup {NoVC}], t[r] # NoVC, t[r].view = m.cur,
         TableFits(t, a),
         NEW nvs \in [Replicas -> NVs \cup {NoNV}],
         \A i \in Replicas : nvs[i] = m.nv[i] \/ nvs[i] = NoNV
  PROVE  Moves(m, NotPended(m, nvs, t), r, a)
<1> DEFINE n == [m EXCEPT !.nv = nvs, !.vc = t, !.pvc = NoVCs, !.pnv = NoNV]
<1>0. m \in Managers /\ TablesFit(m, a) /\ ViewsFit(m, a) /\ PendingFits(m, r)
  BY DEF Fits
<1>1. /\ n \in Managers /\ n.nv = nvs /\ n.pvc = NoVCs /\ n.vc = t /\ n.pnv = NoNV /\ n.pend = m.pend
      /\ n.cur = m.cur /\ n.act = m.act /\ n.in = m.in /\ n.comps = m.comps /\ n.stored = m.stored
  <2>1. NoVCs \in [Replicas -> VCs \cup {NoVC}] /\ NoNV \in NVs \cup {NoNV}
    BY DEF NoVCs
  <2> QED BY <1>0, <2>1 DEF Managers
<1> HIDE DEF n
<1>2. \A i \in Replicas : NoVCs[i] = NoVC
  BY DEF NoVCs
<1>3. TablesFit(n, a)
  BY <1>0, <1>1, <1>2 DEF TablesFit, TableFits
<1>4. ViewsFit(n, a)
  BY <1>0, <1>1 DEF ViewsFit
<1>5. PendingFits(n, r)
  <2>1. MyLatest(n, r) = t[r]
    BY <1>1, <1>2 DEF MyLatest
  <2> QED BY <1>1, <1>2, <2>1 DEF PendingFits
<1>6. Released(n, r) \subseteq Released(m, r) \cup {NoNV}
  BY <1>1 DEF Released
<1>7. m.cur <= m.cur /\ m.pend <= m.pend
  BY <1>0, ViewChangeAssumption DEF Managers
<1>8. Moves(m, n, r, a)
  BY <1>1, <1>3, <1>4, <1>5, <1>6, <1>7 DEF Moves, Fits
<1> QED BY <1>8, Zenon DEF n, NotPended

(* The ViewChangeMsgs once the own one is back among them *)
Latest(m, r) == [m.vc EXCEPT ![r] = MyLatest(m, r)]

LEMMA ResetClears ==
  ASSUME NEW a \in SUBSET Pairs, NEW r \in Replicas, NEW m, Fits(m, r, a)
  PROVE  Reset(m, r) = NotPended(m, m.nv, Latest(m, r))
<1>0. m \in Managers /\ PendingFits(m, r)
  BY DEF Fits
<1>1. Reset(m, r) = [m EXCEPT !.vc = Latest(m, r), !.pvc = NoVCs, !.pnv = NoNV]
  BY <1>0, ResetIs, Zenon DEF Latest
<1> QED BY <1>0, <1>1 DEF NotPended, Managers

LEMMA LatestFits ==
  ASSUME NEW a \in SUBSET Pairs, NEW r \in Replicas, NEW m, Fits(m, r, a), m.pend # m.cur
  PROVE  /\ Latest(m, r) \in [Replicas -> VCs \cup {NoVC}]
         /\ Latest(m, r)[r] # NoVC /\ Latest(m, r)[r].view = m.cur
         /\ TableFits(Latest(m, r), a)
         /\ m.cur > 0 /\ m.nv \in [Replicas -> NVs \cup {NoNV}] /\ m.cur \in 0..MaxView
<1>0. m \in Managers /\ TablesFit(m, a) /\ ViewsFit(m, a) /\ PendingFits(m, r)
  BY DEF Fits
<1>1. /\ m.vc \in [Replicas -> VCs \cup {NoVC}] /\ m.pvc \in [Replicas -> VCs \cup {NoVC}]
      /\ m.cur \in 0..MaxView /\ m.pend \in 0..MaxView /\ m.nv \in [Replicas -> NVs \cup {NoNV}]
  BY <1>0 DEF Managers
<1>2. m.cur > 0
  BY <1>0, <1>1, ViewChangeAssumption DEF ViewsFit
<1>3. MyLatest(m, r) \in VCs \cup {NoVC} /\ MyLatest(m, r) # NoVC /\ MyLatest(m, r).view = m.cur
  BY <1>0, <1>1, <1>2 DEF PendingFits, MyLatest
<1>4. GoodVC(MyLatest(m, r), a) /\ MyLatest(m, r).from = r
  BY <1>0, <1>3 DEF MyLatest, TablesFit, TableFits
<1>5. Latest(m, r) \in [Replicas -> VCs \cup {NoVC}]
  BY <1>1, <1>3 DEF Latest
<1>6. \A i \in Replicas : Latest(m, r)[i] = IF i = r THEN MyLatest(m, r) ELSE m.vc[i]
  BY <1>1 DEF Latest
<1>8. TableFits(Latest(m, r), a)
  BY <1>0, <1>4, <1>6 DEF TablesFit, TableFits
<1> QED BY <1>1, <1>2, <1>3, <1>5, <1>6, <1>8

(* tryMoveToPendingViewAsPrimary: the NewViewMsg names exactly 2f+1. *)
LEMMA PrimaryPendingFits ==
  ASSUME NEW a \in SUBSET Pairs, NEW r \in Replicas, NEW m, Fits(m, r, a), ~m.in, m.pend # m.cur,
         r = Primary(m.cur)
  PROVE  Moves(m, PrimaryPending(m, r), r, a)
<1> DEFINE t == Latest(m, r)
           k == Reset(m, r)
           others == {i \in Replicas \ {r} : t[i].view = m.cur}
           Q == {i \in others : Cardinality({j \in others : j < i}) < Smajor - 1}
           S == {r} \cup Q
           nvs == [m.nv EXCEPT ![r] = NoNV]
           x == [type |-> "nv", from |-> r, view |-> m.cur, set |-> Image(t, S)]
<1>1. /\ t \in [Replicas -> VCs \cup {NoVC}] /\ t[r] # NoVC /\ t[r].view = m.cur
      /\ TableFits(t, a)
      /\ k = NotPended(m, m.nv, t)
      /\ m.cur > 0 /\ m.nv \in [Replicas -> NVs \cup {NoNV}] /\ m.cur \in 0..MaxView
  <2>1. t \in [Replicas -> VCs \cup {NoVC}] /\ t[r] # NoVC /\ t[r].view = m.cur
    BY LatestFits
  <2>2. TableFits(t, a)
    BY LatestFits
  <2>3. k = NotPended(m, m.nv, t)
    BY ResetClears
  <2>4. m.cur > 0 /\ m.nv \in [Replicas -> NVs \cup {NoNV}] /\ m.cur \in 0..MaxView
    BY LatestFits
  <2> QED BY <2>1, <2>2, <2>3, <2>4, Zenon
<1>0. m \in Managers
  BY DEF Fits
<1>2. k.vc = t /\ k.cur = m.cur /\ k.nv = m.nv
  BY <1>0, <1>1 DEF Managers, NotPended
<1>3. nvs \in [Replicas -> NVs \cup {NoNV}] /\ \A i \in Replicas : nvs[i] = m.nv[i] \/ nvs[i] = NoNV
  BY <1>1
<1>4. S \in SUBSET Replicas /\ \A i \in S : t[i] # NoVC
  <2>1. \A i \in others : t[i] # NoVC
    <3>1. NoVC.view # m.cur
      BY <1>1, NoneIsNoMessage
    <3> QED BY <3>1
  <2> QED BY <1>1, <2>1
<1>5. IsFiniteSet(S) /\ Cardinality(S) <= Smajor /\ Cardinality(S) \in Nat
  <2>1. others \in SUBSET Replicas
    OBVIOUS
  <2>2. Smajor - 1 \in Nat /\ Smajor \in Nat
    BY ViewChangeAssumption DEF Smajor
  <2>3. IsFiniteSet(Q) /\ Cardinality(Q) <= Smajor - 1
    <3> HIDE DEF others
    <3> QED BY <2>1, <2>2, FirstOnes, Zenon
  <2> HIDE DEF Q
  <2>4. IsFiniteSet(Q \cup {r}) /\ Cardinality(Q \cup {r}) <= Cardinality(Q) + 1
        /\ Cardinality(Q) \in Nat /\ Cardinality(Q \cup {r}) \in Nat
    <3>1. /\ IsFiniteSet(Q \cup {r})
          /\ Cardinality(Q \cup {r}) = IF r \in Q THEN Cardinality(Q) ELSE Cardinality(Q) + 1
      BY <2>3, FS_AddElement, Zenon
    <3>2. Cardinality(Q) \in Nat /\ Cardinality(Q \cup {r}) \in Nat
      BY <2>3, <3>1, FS_CardinalityType, Zenon
    <3> QED BY <3>1, <3>2
  <2>5. S = Q \cup {r}
    OBVIOUS
  <2> HIDE DEF S
  <2> QED BY <2>2, <2>3, <2>4, <2>5
<1>6. PrimaryPending(m, r) =
        IF Cardinality(S) < Smajor THEN [k EXCEPT !.nv = nvs]
        ELSE Pended(k, nvs, t, S, x)
  BY <1>2 DEF PrimaryPending, Table, Image, Pended
<1> HIDE DEF t, k, S, nvs
<1>7. CASE Cardinality(S) < Smajor
  <2>1. [k EXCEPT !.nv = nvs] = NotPended(m, nvs, t)
    BY <1>0, <1>1 DEF Managers, NotPended
  <2>2. Moves(m, NotPended(m, nvs, t), r, a)
    BY <1>1, <1>3, NotPendingStep
  <2> QED BY <1>6, <1>7, <2>1, <2>2
<1>8. CASE ~(Cardinality(S) < Smajor)
  <2>1. Cardinality(S) = Smajor
    BY <1>5, <1>8, ViewChangeAssumption DEF Smajor
  <2>2. \A i \in S : t[i] \in VCs /\ t[i].from = i
    BY <1>1, <1>4 DEF TableFits
  <2>3. x.set = Image(t, S) /\ x.from = r /\ x.view = m.cur
    OBVIOUS
  <2>4. Image(t, S) \in SUBSET VCs
    BY <2>2 DEF Image
  <2>5. x \in NVs
    BY <1>1, <2>4 DEF NVs
  <2> HIDE DEF x
  <2>6. Senders(x.set) = S /\ \A y, z \in x.set : y.from = z.from => y = z
    BY <1>4, <2>2, <2>3, FoundationIs
  <2>7. GoodNV(x)
    BY <2>1, <2>3, <2>5, <2>6 DEF GoodNV
  <2>8. Moves(m, Pended(m, nvs, t, S, x), r, a)
    BY <1>1, <1>3, <1>4, <2>3, <2>5, <2>7, PendingStep
  <2>9. Pended(k, nvs, t, S, x) = Pended(m, nvs, t, S, x)
    BY <1>0, <1>1 DEF Managers, Pended, NotPended
  <2> QED BY <1>6, <1>8, <2>8, <2>9
<1> QED BY <1>7, <1>8

(* tryMoveToPendingViewAsNonPrimary: the messages found are all of those   *)
(* that the NewViewMsg names.                                              *)
LEMMA OtherPendingFits ==
  ASSUME NEW a \in SUBSET Pairs, NEW r \in Replicas, NEW m, Fits(m, r, a), ~m.in, m.pend # m.cur
  PROVE  Moves(m, OtherPending(m, r), r, a)
<1> DEFINE t == Latest(m, r)
           k == Reset(m, r)
           P == Primary(m.cur)
           x == m.nv[P]
           S == {i \in Replicas : t[i].view = m.cur /\ t[i] \in x.set}
           nvs == [m.nv EXCEPT ![P] = NoNV]
<1>1. /\ t \in [Replicas -> VCs \cup {NoVC}] /\ t[r] # NoVC /\ t[r].view = m.cur /\ TableFits(t, a)
      /\ k = NotPended(m, m.nv, t)
      /\ m.cur > 0 /\ m.nv \in [Replicas -> NVs \cup {NoNV}] /\ m.cur \in 0..MaxView
  <2>1. k = NotPended(m, m.nv, t)
    BY ResetClears
  <2> QED BY <2>1, LatestFits
<1>0. m \in Managers /\ TablesFit(m, a)
  BY DEF Fits
<1>2. k.vc = t /\ k.cur = m.cur /\ k.nv = m.nv
  BY <1>0, <1>1 DEF Managers, NotPended
<1>3. P \in Replicas /\ x \in NVs \cup {NoNV} /\ x \in Released(m, r)
  <2>1. P \in Replicas
    BY <1>1, PrimaryIsReplica
  <2> QED BY <1>1, <2>1 DEF Released
<1>4. nvs \in [Replicas -> NVs \cup {NoNV}] /\ \A i \in Replicas : nvs[i] = m.nv[i] \/ nvs[i] = NoNV
  BY <1>1
<1>5. OtherPending(m, r) =
        IF x.view # m.cur \/ Cardinality(S) < Smajor THEN k
        ELSE [k EXCEPT !.pvc = Table(t, S),
                       !.vc = [i \in Replicas |-> IF i \in S THEN NoVC ELSE t[i]],
                       !.nv[P] = NoNV, !.pnv = x, !.pend = m.cur]
  BY <1>2 DEF OtherPending, Table
<1>6. S \in SUBSET Replicas /\ \A i \in S : t[i].view = m.cur /\ t[i] \in x.set
  OBVIOUS
<1>7. \A i \in Replicas : t[i].view = m.cur /\ t[i] \in x.set => i \in S
  OBVIOUS
<1>g. x # NoNV => GoodNV(x)
  BY <1>0, <1>3 DEF TablesFit
<1> HIDE DEF t, k, S, nvs, P, x
<1>8. CASE x.view # m.cur \/ Cardinality(S) < Smajor
  <2>1. Moves(m, NotPended(m, m.nv, t), r, a)
    BY <1>1, NotPendingStep
  <2> QED BY <1>1, <1>5, <1>8, <2>1
<1>9. CASE ~(x.view # m.cur \/ Cardinality(S) < Smajor)
  <2>1. x # NoNV /\ GoodNV(x) /\ x \in NVs /\ x.view = m.cur
    BY <1>1, <1>3, <1>9, <1>g, NoneIsNoMessage
  <2>2. \A i \in S : t[i] # NoVC /\ t[i] \in VCs /\ t[i].from = i
    <3>1. NoVC.view # m.cur
      BY <1>1, NoneIsNoMessage
    <3> QED BY <1>1, <1>6, <3>1 DEF TableFits
  <2>3. S \subseteq Senders(x.set)
    BY <1>6, <2>2 DEF Senders
  <2>4. x.set \in SUBSET VCs
    BY <2>1 DEF NVs
  <2>5. Senders(x.set) \in SUBSET Replicas
    BY <2>4 DEF Senders, VCs
  <2>6. S = Senders(x.set)
    <3> DEFINE R == Senders(x.set)
    <3>1. IsFiniteSet(R)
      <4>1. IsFiniteSet(Replicas)
        BY ViewChangeAssumption, FS_Interval DEF Replicas
      <4> QED BY <2>5, <4>1, FS_Subset
    <3>2. Cardinality(R) = Smajor
      BY <2>1 DEF GoodNV
    <3> HIDE DEF R
    <3>3. /\ IsFiniteSet(S) /\ Cardinality(S) <= Cardinality(R) /\ Cardinality(S) \in Nat
          /\ Cardinality(R) \in Nat /\ (Cardinality(S) = Cardinality(R) => S = R)
      BY <2>3, <3>1, FS_Subset, FS_CardinalityType DEF R
    <3> QED BY <1>9, <3>2, <3>3 DEF R
  <2>7. x.set = Image(t, S)
    <3>1. \A y \in x.set : y.from \in S
      BY <2>6 DEF Senders
    <3>2. \A y, z \in x.set : y.from = z.from => y = z
      BY <2>1 DEF GoodNV
    <3>3. \A y \in x.set : y = t[y.from]
      <4> SUFFICES ASSUME NEW y \in x.set PROVE y = t[y.from]
        OBVIOUS
      <4>1. y.from \in S
        BY <3>1
      <4>2. t[y.from] \in x.set /\ t[y.from].from = y.from
        BY <1>6, <2>2, <4>1
      <4> QED BY <3>2, <4>2
    <3> QED BY <1>6, <3>1, <3>3 DEF Image
  <2>8. Moves(m, Pended(m, nvs, t, S, x), r, a)
    <3>1. \A i \in S : t[i] # NoVC
      BY <2>2
    <3> QED BY <1>1, <1>3, <1>4, <1>6, <2>1, <2>7, <3>1, PendingStep
  <2>9. [k EXCEPT !.pvc = Table(t, S),
                  !.vc = [i \in Replicas |-> IF i \in S THEN NoVC ELSE t[i]],
                  !.nv[P] = NoNV, !.pnv = x, !.pend = m.cur]
        = Pended(m, nvs, t, S, x)
    BY <1>0, <1>1 DEF Managers, Pended, NotPended, nvs
  <2> QED BY <1>5, <1>9, <2>8, <2>9
<1> QED BY <1>8, <1>9

-----------------------------------------------------------------------------
(* Entering a view *)

(* The replica goes from m to n and may enter a view: a primary then sends *)
(* its NewViewMsg.                                                         *)
NewlySent(m, n, r) == n.in /\ n.act > m.act /\ r = Primary(n.cur)
Goes(m, n, r, a) ==
  /\ Fits(n, r, a) /\ m.act <= n.act
  /\ Released(n, r) \subseteq Released(m, r) \cup {NoNV} \cup (IF NewlySent(m, n, r) THEN {n.pnv} ELSE {})

LEMMA MovesGoes ==
  ASSUME NEW r, NEW a, NEW m, NEW n, Moves(m, n, r, a)
  PROVE  Goes(m, n, r, a)
<1>1. n.act \in 0..MaxView
  BY DEF Moves, Fits, Managers
<1>2. m.act <= n.act
  BY <1>1 DEF Moves
<1> QED BY <1>2 DEF Moves, Goes

LEMMA MovesThenGoes ==
  ASSUME NEW r, NEW a, NEW m, NEW k, NEW n, Moves(m, k, r, a), Goes(k, n, r, a)
  PROVE  Goes(m, n, r, a)
BY DEF Moves, Goes, NewlySent

LEMMA ActivateFits ==
  ASSUME NEW a \in SUBSET Pairs, NEW r \in Replicas, NEW m, Fits(m, r, a), m.pend = m.cur
  PROVE  Goes(m, [m EXCEPT !.act = m.cur, !.in = TRUE, !.waits = FALSE], r, a)
<1> DEFINE n == [m EXCEPT !.act = m.cur, !.in = TRUE, !.waits = FALSE]
<1>0. m \in Managers /\ TablesFit(m, a) /\ ViewsFit(m, a) /\ PendingFits(m, r)
  BY DEF Fits
<1>1. m.cur \in 0..MaxView /\ m.act \in 0..MaxView
  BY <1>0 DEF Managers
<1>2. /\ n \in Managers /\ n.act = m.cur /\ n.in = TRUE /\ n.cur = m.cur /\ n.pend = m.pend
      /\ n.nv = m.nv /\ n.vc = m.vc /\ n.pvc = m.pvc /\ n.pnv = m.pnv /\ n.comps = m.comps
      /\ n.stored = m.stored
  BY <1>0, <1>1 DEF Managers
<1> HIDE DEF n
<1>3. TablesFit(n, a)
  BY <1>0, <1>2 DEF TablesFit
<1>4. ViewsFit(n, a)
  BY <1>0, <1>1, <1>2 DEF ViewsFit
<1>5. PendingFits(n, r)
  BY <1>0, <1>2 DEF PendingFits, MyLatest
<1>6. m.act <= m.cur
  BY <1>0, <1>1 DEF ViewsFit
<1>7. CASE m.cur = 0
  <2>1. m.pnv = NoNV
    BY <1>0, <1>7 DEF PendingFits
  <2>2. Released(n, r) \subseteq Released(m, r) \cup {NoNV}
    BY <1>2, <2>1 DEF Released
  <2> QED BY <1>2, <1>3, <1>4, <1>5, <1>6, <2>2 DEF Goes, Fits, n
<1>8. CASE m.cur # 0 /\ r # Primary(m.cur)
  <2>1. m.pnv.view = m.cur
    BY <1>0, <1>8 DEF PendingFits
  <2>2. Released(n, r) \subseteq Released(m, r)
    BY <1>2, <1>8, <2>1 DEF Released
  <2> QED BY <1>2, <1>3, <1>4, <1>5, <1>6, <2>2 DEF Goes, Fits, n
<1>9. CASE m.cur # 0 /\ m.act = m.cur
  <2>1. Released(n, r) = Released(m, r)
    BY <1>2, <1>9 DEF Released
  <2> QED BY <1>2, <1>3, <1>4, <1>5, <1>6, <2>1 DEF Goes, Fits, n
<1>10. CASE m.act # m.cur /\ r = Primary(m.cur)
  <2>1. NewlySent(m, n, r)
    BY <1>1, <1>2, <1>6, <1>10 DEF NewlySent
  <2>2. Released(n, r) \subseteq Released(m, r) \cup {n.pnv}
    BY <1>2 DEF Released
  <2> QED BY <1>2, <1>3, <1>4, <1>5, <1>6, <2>1, <2>2 DEF Goes, Fits, n
<1> QED BY <1>7, <1>8, <1>9, <1>10

(* Fields that no part of the invariant mentions *)
LEMMA QuietFits ==
  ASSUME NEW a \in SUBSET Pairs, NEW r \in Replicas, NEW m, Fits(m, r, a),
         NEW b \in BOOLEAN, NEW v \in 0..MaxView
  PROVE  Moves(m, [m EXCEPT !.waits = b], r, a) /\ Moves(m, [m EXCEPT !.agreed = v], r, a)
<1>0. m \in Managers /\ TablesFit(m, a) /\ ViewsFit(m, a) /\ PendingFits(m, r)
  BY DEF Fits
<1>1. m.cur <= m.cur /\ m.pend <= m.pend
  BY <1>0, ViewChangeAssumption DEF Managers
<1>2. ASSUME NEW n \in Managers, n.act = m.act, n.in = m.in, n.cur = m.cur, n.pend = m.pend,
             n.nv = m.nv, n.vc = m.vc, n.pvc = m.pvc, n.pnv = m.pnv, n.comps = m.comps,
             n.stored = m.stored
      PROVE  Moves(m, n, r, a)
  <2>1. TablesFit(n, a)
    BY <1>0, <1>2 DEF TablesFit
  <2>2. ViewsFit(n, a)
    BY <1>0, <1>2 DEF ViewsFit
  <2>3. PendingFits(n, r)
    BY <1>0, <1>2 DEF PendingFits, MyLatest
  <2>4. Released(n, r) = Released(m, r)
    BY <1>2 DEF Released
  <2> QED BY <1>1, <1>2, <2>1, <2>2, <2>3, <2>4 DEF Moves, Fits
<1> DEFINE n1 == [m EXCEPT !.waits = b]
           n2 == [m EXCEPT !.agreed = v]
<1>3. /\ n1 \in Managers /\ n1.act = m.act /\ n1.in = m.in /\ n1.cur = m.cur /\ n1.pend = m.pend
      /\ n1.nv = m.nv /\ n1.vc = m.vc /\ n1.pvc = m.pvc /\ n1.pnv = m.pnv /\ n1.comps = m.comps
      /\ n1.stored = m.stored
  BY <1>0 DEF Managers
<1>4. /\ n2 \in Managers /\ n2.act = m.act /\ n2.in = m.in /\ n2.cur = m.cur /\ n2.pend = m.pend
      /\ n2.nv = m.nv /\ n2.vc = m.vc /\ n2.pvc = m.pvc /\ n2.pnv = m.pnv /\ n2.comps = m.comps
      /\ n2.stored = m.stored
  BY <1>0 DEF Managers
<1> HIDE DEF n1, n2
<1>5. Moves(m, n1, r, a)
  BY <1>2, <1>3
<1>6. Moves(m, n2, r, a)
  BY <1>2, <1>4
<1> QED BY <1>5, <1>6, Zenon DEF n1, n2

(* tryToEnterView *)
LEMMA EnterFits ==
  ASSUME NEW a \in SUBSET Pairs, NEW r \in Replicas, NEW m, Fits(m, r, a), NEW lacks \in BOOLEAN,
         m.cur = m.pend \/ ~m.in
  PROVE  Goes(m, Enter(m, r, lacks), r, a)
<1> DEFINE p == IF m.cur = m.pend THEN m
                ELSE IF r = Primary(m.cur) THEN PrimaryPending(m, r) ELSE OtherPending(m, r)
           waits == IF m.cur = m.pend THEN m.waits ELSE lacks
<1>1. Moves(m, p, r, a)
  <2>1. CASE m.cur = m.pend
    <3>1. p = m
      BY <2>1
    <3> QED BY <3>1, MovesReflexive
  <2>2. CASE m.cur # m.pend /\ r = Primary(m.cur)
    <3>1. p = PrimaryPending(m, r) /\ m.pend # m.cur /\ ~m.in
      BY <2>2
    <3> QED BY <2>2, <3>1, PrimaryPendingFits
  <2>3. CASE m.cur # m.pend /\ r # Primary(m.cur)
    <3>1. p = OtherPending(m, r) /\ m.pend # m.cur /\ ~m.in
      BY <2>3
    <3> QED BY <3>1, OtherPendingFits
  <2> QED BY <2>1, <2>2, <2>3
<1>2. Fits(p, r, a)
  BY <1>1 DEF Moves
<1>3. Enter(m, r, lacks) =
        IF p.pend # p.cur THEN [p EXCEPT !.waits = FALSE]
        ELSE IF waits THEN [p EXCEPT !.waits = TRUE]
        ELSE [p EXCEPT !.act = p.cur, !.in = TRUE, !.waits = FALSE]
  BY Zenon DEF Enter
<1> HIDE DEF p, waits
<1>q. ASSUME NEW b \in BOOLEAN PROVE Goes(m, [p EXCEPT !.waits = b], r, a)
  <2>1. 0 \in 0..MaxView
    BY ViewChangeAssumption
  <2>2. Moves(p, [p EXCEPT !.waits = b], r, a)
    BY <1>2, <2>1, QuietFits, Zenon
  <2>3. Goes(p, [p EXCEPT !.waits = b], r, a)
    BY <2>2, MovesGoes, Zenon
  <2> QED BY <1>1, <2>3, MovesThenGoes, Zenon
<1>4. CASE p.pend # p.cur
  <2>1. Enter(m, r, lacks) = [p EXCEPT !.waits = FALSE]
    BY <1>3, <1>4, Zenon
  <2> QED BY <1>q, <2>1, Zenon
<1>5. CASE p.pend = p.cur /\ waits
  <2>1. Enter(m, r, lacks) = [p EXCEPT !.waits = TRUE]
    BY <1>3, <1>5, Zenon
  <2> QED BY <1>q, <2>1, Zenon
<1>6. CASE p.pend = p.cur /\ ~waits
  <2>1. Enter(m, r, lacks) = [p EXCEPT !.act = p.cur, !.in = TRUE, !.waits = FALSE]
    BY <1>3, <1>6, Zenon
  <2>2. Goes(p, [p EXCEPT !.act = p.cur, !.in = TRUE, !.waits = FALSE], r, a)
    BY <1>2, <1>6, ActivateFits, Zenon
  <2> QED BY <1>1, <2>1, <2>2, MovesThenGoes, Zenon
<1> QED BY <1>4, <1>5, <1>6

LEMMA AgreesFits ==
  ASSUME NEW a \in SUBSET Pairs, NEW r \in Replicas, NEW m, Fits(m, r, a), NEW lacks \in BOOLEAN
  PROVE  Goes(m, Agrees(m, r, lacks), r, a)
<1>0. m \in Managers
  BY DEF Fits
<1>1. CASE m.in \/ KnownView(m, r, Smajor) # m.cur
  <2>1. Agrees(m, r, lacks) = m
    BY <1>1, Zenon DEF Agrees
  <2>2. Goes(m, m, r, a)
    BY MovesReflexive, MovesGoes
  <2> QED BY <2>1, <2>2
<1>2. CASE ~(m.in \/ KnownView(m, r, Smajor) # m.cur)
  <2> DEFINE v == IF m.agreed < m.cur THEN m.cur ELSE m.agreed
             k == [m EXCEPT !.agreed = v]
  <2>1. v \in 0..MaxView
    BY <1>0 DEF Managers
  <2>2. Agrees(m, r, lacks) = Enter(k, r, lacks)
    BY <1>2, Zenon DEF Agrees
  <2> HIDE DEF v
  <2>3. Moves(m, k, r, a)
    BY <2>1, QuietFits, Zenon
  <2>4. k.in = m.in
    BY <1>0 DEF Managers
  <2> HIDE DEF k
  <2>5. Goes(k, Enter(k, r, lacks), r, a)
    BY <1>2, <2>3, <2>4, EnterFits DEF Moves
  <2> QED BY <2>2, <2>3, <2>5, MovesThenGoes, Zenon
<1> QED BY <1>1, <1>2

-----------------------------------------------------------------------------
(* Steps *)

LEMMA FitsGrow ==
  ASSUME NEW b \in SUBSET Pairs, NEW a \in SUBSET b, NEW m, NEW r, Fits(m, r, a)
  PROVE  Fits(m, r, b)
<1>1. \A x : GoodVC(x, a) => GoodVC(x, b)
  BY LeftGrows DEF GoodVC
<1>2. TablesFit(m, b)
  BY <1>1 DEF Fits, TablesFit, TableFits
<1>3. ViewsFit(m, b)
  <2>1. Left(m.cur, a) /\ ViewsFit(m, a)
    BY DEF Fits, ViewsFit
  <2>2. Left(m.cur, b)
    BY <2>1, LeftGrows
  <2> QED BY <2>1, <2>2 DEF ViewsFit
<1> QED BY <1>2, <1>3 DEF Fits

LEMMA GoodMsgGrows ==
  ASSUME NEW b \in SUBSET Pairs, NEW a \in SUBSET b, NEW r, NEW x, GoodMsg(r, x, a)
  PROVE  GoodMsg(r, x, b)
<1>1. GoodVC(x, a) => GoodVC(x, b)
  BY LeftGrows DEF GoodVC
<1> QED BY <1>1 DEF GoodMsg

LEMMA ReleasedIs ==
  \A x : x \in AllReleased <=> /\ x.type = "nv" /\ x # NoNV
                               /\ \/ \E p \in net : x = p[2]
                                  \/ \E q \in Up : x \in Released(reps[q], q)
BY DEF AllReleased

(* What a replica that has left view 0 sends *)
LEMMA LatestIsGood ==
  ASSUME NEW a \in SUBSET Pairs, NEW r \in Replicas, NEW m, Fits(m, r, a), m.cur > 0
  PROVE  GoodVC(MyLatest(m, r), a) /\ MyLatest(m, r).from = r /\ MyLatest(m, r).type = "vc"
<1>1. MyLatest(m, r) # NoVC
  BY DEF Fits, PendingFits
<1>2. GoodVC(MyLatest(m, r), a) /\ MyLatest(m, r).from = r
  BY <1>1 DEF Fits, TablesFit, TableFits, MyLatest
<1> QED BY <1>2 DEF GoodVC, VCs

LEMMA ActiveNewView ==
  ASSUME NEW a \in SUBSET Pairs, NEW r \in Replicas, NEW m, Fits(m, r, a), m.in, m.cur # 0
  PROVE  /\ GoodNV(m.pnv) /\ m.pnv # NoNV /\ m.pnv.view = m.cur /\ m.act = m.cur
         /\ m.pnv \in Released(m, r) /\ m.pvc = Foundation(m.pnv) /\ m.pnv.type = "nv"
<1>1. m.cur \in 0..MaxView /\ m.act = m.cur /\ m.pend \in 0..MaxView /\ m.act <= m.pend /\ m.pend <= m.cur
  BY DEF Fits, ViewsFit, Managers
<1>2. m.pend = m.cur
  BY <1>1, ViewChangeAssumption
<1>3. m.pnv # NoNV /\ m.pnv.view = m.cur /\ m.pvc = Foundation(m.pnv)
  BY <1>2 DEF Fits, PendingFits
<1>4. GoodNV(m.pnv)
  BY <1>3 DEF Fits, TablesFit
<1>5. m.pnv \in Released(m, r)
  <2>1. m.act >= m.pnv.view
    BY <1>1, <1>3
  <2> QED BY <2>1 DEF Released
<1> QED BY <1>1, <1>3, <1>4, <1>5 DEF GoodNV, NVs

(* A step of the replica r: it may release its NewViewMsg when it enters a *)
(* view that it is the primary of, at most once.                           *)
LEMMA ReplicaStep ==
  ASSUME IInv, NEW r \in Up, NEW n, asked' \in SUBSET Pairs, asked \subseteq asked',
         reps' = [reps EXCEPT ![r] = n],
         Fits(n, r, asked'), reps[r].act <= n.act,
         Released(n, r) \subseteq Released(reps[r], r) \cup {NoNV} \cup {p[2] : p \in net}
                                  \cup (IF NewlySent(reps[r], n, r) THEN {n.pnv} ELSE {}),
         \A p \in net' : \/ p \in net
                         \/ /\ p = <<p[1], p[2]>> /\ p[1] \in Up /\ GoodMsg(p[1], p[2], asked')
                            /\ p[2].type = "nv" => NewlySent(reps[r], n, r) /\ p[2] = n.pnv
  PROVE  IInv'
<1> DEFINE m == reps[r]
<1>0. /\ r \in Replicas /\ asked \subseteq Pairs /\ DOMAIN reps = Replicas
      /\ \A q \in Up : Fits(reps[q], q, asked) /\ q \in Replicas
      /\ \A p \in net : p = <<p[1], p[2]>> /\ p[1] \in Up /\ GoodMsg(p[1], p[2], asked)
      /\ OneNewView
  BY DEF IInv, Up
<1>1. reps'[r] = n /\ (\A q \in Up \ {r} : reps'[q] = reps[q]) /\ DOMAIN reps' = Replicas
  BY <1>0
<1>2. \A q \in Up : Fits(reps'[q], q, asked')
  <2> SUFFICES ASSUME NEW q \in Up PROVE Fits(reps'[q], q, asked')
    OBVIOUS
  <2>1. CASE q = r
    BY <1>1, <2>1
  <2>2. CASE q # r
    BY <1>0, <1>1, <2>2, FitsGrow
  <2> QED BY <2>1, <2>2
<1>3. \A p \in net' : p = <<p[1], p[2]>> /\ p[1] \in Up /\ GoodMsg(p[1], p[2], asked')
  <2> SUFFICES ASSUME NEW p \in net' PROVE p = <<p[1], p[2]>> /\ p[1] \in Up /\ GoodMsg(p[1], p[2], asked')
    OBVIOUS
  <2>1. CASE p \in net
    <3>1. p = <<p[1], p[2]>> /\ p[1] \in Up /\ GoodMsg(p[1], p[2], asked)
      BY <1>0, <2>1
    <3> QED BY <3>1, GoodMsgGrows
  <2>2. CASE p \notin net
    BY <2>2
  <2> QED BY <2>1, <2>2
<1>4. \A x \in AllReleased' : x \in AllReleased \/ (NewlySent(m, n, r) /\ x = n.pnv)
  <2> SUFFICES ASSUME NEW x \in AllReleased', ~(NewlySent(m, n, r) /\ x = n.pnv) PROVE x \in AllReleased
    OBVIOUS
  <2>1. /\ x.type = "nv" /\ x # NoNV
        /\ (\E p \in net' : x = p[2]) \/ (\E q \in Up : x \in Released(reps'[q], q))
    BY DEF AllReleased, Released, Up, Replicas, Primary
  <2>2. CASE \E p \in net' : x = p[2]
    BY <2>1, <2>2, ReleasedIs
  <2>3. CASE \E q \in Up : x \in Released(reps'[q], q)
    <3>1. PICK q \in Up : x \in Released(reps'[q], q)
      BY <2>3
    <3>2. CASE q # r
      BY <1>1, <2>1, <3>1, <3>2, ReleasedIs
    <3>3. CASE q = r
      <4>1. x \in Released(n, r)
        BY <1>1, <3>1, <3>3
      <4>2. x \in Released(m, r) \/ \E p \in net : x = p[2]
        BY <2>1, <4>1
      <4> QED BY <2>1, <4>2, ReleasedIs
    <3> QED BY <3>2, <3>3
  <2> QED BY <2>1, <2>2, <2>3
<1>5. \A q \in Up : reps[q].act \in 0..MaxView /\ reps'[q].act \in 0..MaxView /\ reps[q].act <= reps'[q].act
  <2>1. \A q \in Up : reps[q].act \in 0..MaxView /\ reps'[q].act \in 0..MaxView
    BY <1>0, <1>2 DEF Fits, Managers
  <2> QED BY <1>1, <2>1
<1>6. \A x \in AllReleased : /\ x.view \in 1..MaxView /\ Primary(x.view) \in Up
                             /\ reps[Primary(x.view)].act >= x.view
  <2> SUFFICES ASSUME NEW x \in AllReleased PROVE x.view \in 1..MaxView
    BY <1>0 DEF OneNewView
  <2>1. /\ x.type = "nv" /\ x # NoNV
        /\ (\E p \in net : x = p[2]) \/ (\E q \in Up : x \in Released(reps[q], q))
    BY ReleasedIs
  <2>2. CASE \E p \in net : x = p[2]
    <3>1. GoodNV(x)
      BY <1>0, <2>1, <2>2 DEF GoodMsg, GoodVC, VCs
    <3> QED BY <3>1 DEF GoodNV, NVs
  <2>3. CASE \E q \in Up : x \in Released(reps[q], q)
    <3>1. PICK q \in Up : x \in Released(reps[q], q)
      BY <2>3
    <3>2. GoodNV(x)
      BY <1>0, <2>1, <3>1 DEF Released, Fits, TablesFit
    <3> QED BY <3>2 DEF GoodNV, NVs
  <2> QED BY <2>1, <2>2, <2>3
<1>7. NewlySent(m, n, r) => /\ n.pnv.view \in 1..MaxView /\ Primary(n.pnv.view) = r
                            /\ n.act = n.pnv.view /\ n.act > m.act
  <2> SUFFICES ASSUME NewlySent(m, n, r) PROVE n.pnv.view \in 1..MaxView /\ Primary(n.pnv.view) = r
                            /\ n.act = n.pnv.view /\ n.act > m.act
    OBVIOUS
  <2>1. n.in /\ n.act > m.act /\ r = Primary(n.cur)
    BY DEF NewlySent
  <2>2. n.act \in 0..MaxView /\ n.act = n.cur /\ m.act \in 0..MaxView
    BY <1>0, <2>1 DEF Fits, ViewsFit, Managers
  <2>3. n.cur # 0
    BY <2>1, <2>2
  <2>4. GoodNV(n.pnv) /\ n.pnv.view = n.cur
    BY <1>0, <2>1, <2>3, ActiveNewView
  <2> QED BY <2>1, <2>2, <2>4 DEF GoodNV, NVs
<1>8. \A x \in AllReleased : ~(NewlySent(m, n, r) /\ x.view = n.pnv.view)
  <2> SUFFICES ASSUME NEW x \in AllReleased, NewlySent(m, n, r), x.view = n.pnv.view PROVE FALSE
    OBVIOUS
  <2>1. reps[r].act >= x.view /\ reps[r].act \in 0..MaxView /\ x.view \in 1..MaxView
    BY <1>5, <1>6, <1>7
  <2>2. n.act = x.view /\ n.act > reps[r].act
    BY <1>7
  <2> QED BY <2>1, <2>2
<1>9. OneNewView'
  <2>1. \A x, y \in AllReleased' : x.view = y.view => x = y
    BY <1>0, <1>4, <1>8 DEF OneNewView
  <2>2. ASSUME NEW x \in AllReleased' PROVE Primary(x.view) \in Up /\ reps'[Primary(x.view)].act >= x.view
    <3>1. CASE x \in AllReleased
      <4>1. /\ x.view \in 1..MaxView /\ Primary(x.view) \in Up
            /\ reps[Primary(x.view)].act >= x.view
        BY <1>6, <3>1
      <4> DEFINE P == Primary(x.view)
      <4>2. P \in Up /\ reps[P].act >= x.view
        BY <4>1
      <4> HIDE DEF P
      <4>3. reps'[P].act >= x.view
        BY <1>5, <4>1, <4>2
      <4> QED BY <4>2, <4>3 DEF P
    <3>2. CASE NewlySent(m, n, r) /\ x = n.pnv
      BY <1>1, <1>5, <1>7, <3>2
    <3> QED BY <1>4, <3>1, <3>2
  <2> QED BY <2>1, <2>2 DEF OneNewView, Primary, Up, Replicas
<1> QED BY <1>1, <1>2, <1>3, <1>9 DEF IInv, Fits, TablesFit, TableFits

(* Step: what the replica sends is backed by what it knows. *)
LEMMA StepHolds ==
  ASSUME IInv, NEW r \in Up, NEW n, NEW used, NEW more, asked' \in SUBSET Pairs, asked \subseteq asked',
         Step(r, n, used, more), Fits(n, r, asked'), reps[r].act <= n.act,
         Released(n, r) \subseteq Released(reps[r], r) \cup {NoNV} \cup {p[2] : p \in net}
                                  \cup (IF NewlySent(reps[r], n, r) THEN {n.pnv} ELSE {}),
         \A x \in more : \E c \in asked' : x = Ask(c[1], c[2]) /\ c = <<c[1], c[2]>>
  PROVE  IInv'
<1> DEFINE m == reps[r]
<1>1. reps' = [reps EXCEPT ![r] = n] /\ net' = (net \ used) \cup ToAll(r, Sends(m, n, r) \cup more)
  BY DEF Step
<1>2. r \in Replicas /\ Fits(m, r, asked)
  BY DEF IInv, Up
<1>3. m.cur \in 0..MaxView /\ n.cur \in 0..MaxView /\ m.act \in 0..MaxView /\ n.act \in 0..MaxView
  BY <1>2 DEF Fits, Managers
<1>4. ASSUME NEW p \in net', p \notin net
      PROVE  /\ p = <<p[1], p[2]>> /\ p[1] \in Up /\ GoodMsg(p[1], p[2], asked')
             /\ p[2].type = "nv" => NewlySent(m, n, r) /\ p[2] = n.pnv
  <2>1. p \in ToAll(r, Sends(m, n, r) \cup more)
    BY <1>1, <1>4
  <2>2. p = <<p[1], p[2]>> /\ p[1] \in Up /\ p[1] # r /\ p[2] \in Sends(m, n, r) \cup more
    BY <2>1 DEF ToAll
  <2>3. CASE n.cur > m.cur /\ p[2] = MyLatest(n, r)
    <3>1. GoodVC(p[2], asked') /\ p[2].from = r /\ p[2].type = "vc"
      BY <1>2, <1>3, <2>3, LatestIsGood
    <3> QED BY <2>2, <3>1 DEF GoodMsg
  <2>4. CASE NewlySent(m, n, r) /\ p[2] = n.pnv
    <3>1. n.in /\ n.cur # 0
      <4>1. n.in /\ n.act > m.act /\ n.act = n.cur
        BY <2>4 DEF NewlySent, Fits, ViewsFit
      <4> QED BY <1>3, <4>1
    <3>2. GoodNV(p[2])
      BY <1>2, <2>4, <3>1, ActiveNewView
    <3> QED BY <2>2, <2>4, <3>2 DEF GoodMsg
  <2>5. CASE p[2] \in more
    <3>1. PICK c \in asked' : p[2] = Ask(c[1], c[2]) /\ c = <<c[1], c[2]>>
      BY <2>5
    <3>2. p[2].type = "ask" /\ p[2].from = c[1] /\ p[2].view = c[2]
      BY <3>1 DEF Ask
    <3> QED BY <2>2, <3>1, <3>2 DEF GoodMsg
  <2> QED BY <2>2, <2>3, <2>4, <2>5 DEF Sends, NewlySent
<1> HIDE DEF m
<1>5. \A p \in net' : \/ p \in net
                      \/ /\ p = <<p[1], p[2]>> /\ p[1] \in Up /\ GoodMsg(p[1], p[2], asked')
                         /\ p[2].type = "nv" => NewlySent(reps[r], n, r) /\ p[2] = n.pnv
  BY <1>4 DEF m
<1> QED BY <1>1, <1>5, ReplicaStep

LEMMA GoesHolds ==
  ASSUME IInv, NEW r \in Up, NEW n, NEW used, NEW more, asked' \in SUBSET Pairs, asked \subseteq asked',
         Step(r, n, used, more), Goes(reps[r], n, r, asked'),
         \A x \in more : \E c \in asked' : x = Ask(c[1], c[2]) /\ c = <<c[1], c[2]>>
  PROVE  IInv'
<1>1. /\ Fits(n, r, asked') /\ reps[r].act <= n.act
      /\ Released(n, r) \subseteq Released(reps[r], r) \cup {NoNV} \cup {p[2] : p \in net}
                                  \cup (IF NewlySent(reps[r], n, r) THEN {n.pnv} ELSE {})
  BY DEF Goes
<1> QED BY <1>1, StepHolds

-----------------------------------------------------------------------------
(* The actions *)

LEMMA ComplainsFits ==
  ASSUME NEW a \in SUBSET Pairs, NEW r \in Replicas, NEW m, Fits(m, r, a), NEW c \in a, c[2] = m.cur
  PROVE  Goes(m, Next1([m EXCEPT !.comps = @ \cup {c}], r), r, a)
<1> DEFINE s == m.comps \cup {c}
           k == [m EXCEPT !.comps = s]
<1>1. s \in SUBSET a /\ \A x \in s : x[2] = m.cur
  BY DEF Fits, ViewsFit
<1> HIDE DEF s
<1>2. Moves(m, k, r, a)
  BY <1>1, CompsFit, Zenon
<1> HIDE DEF k
<1>3. Fits(k, r, a)
  BY <1>2 DEF Moves
<1>4. Moves(k, Next1(k, r), r, a)
  BY <1>3, Next1Fits
<1>5. Goes(m, Next1(k, r), r, a)
  BY <1>2, <1>3, <1>4, MovesTransitive, MovesGoes
<1> QED BY <1>5, Zenon DEF k, s

LEMMA TimerHolds ==
  ASSUME IInv, NEW r \in Up, Timer(r)
  PROVE  IInv'
<1> DEFINE m == reps[r]
           c == <<r, m.cur>>
           n == Next1([m EXCEPT !.comps = @ \cup {c}], r)
<1>1. /\ m.cur < MaxView /\ asked' = asked \cup {c}
      /\ Step(r, n, {}, {Ask(r, m.cur)})
  BY DEF Timer
<1>2. r \in Replicas /\ Fits(m, r, asked) /\ asked \in SUBSET Pairs
  BY DEF IInv, Up
<1>3. m.cur \in 0..MaxView - 1
  BY <1>1, <1>2, ViewChangeAssumption DEF Fits, Managers
<1>4. c \in Pairs /\ c[1] = r /\ c[2] = m.cur /\ c = <<c[1], c[2]>>
  BY <1>2, <1>3 DEF Pairs
<1>5. asked' \in SUBSET Pairs /\ asked \in SUBSET asked' /\ c \in asked'
  BY <1>1, <1>2, <1>4
<1>6. Fits(m, r, asked')
  BY <1>2, <1>5, FitsGrow
<1> HIDE DEF m, c
<1>7. Goes(m, n, r, asked')
  BY <1>2, <1>4, <1>5, <1>6, ComplainsFits, Zenon
<1> HIDE DEF n
<1>8. \A x \in {Ask(r, m.cur)} : \E d \in asked' : x = Ask(d[1], d[2]) /\ d = <<d[1], d[2]>>
  BY <1>4, <1>5
<1> QED BY <1>1, <1>5, <1>7, <1>8, GoesHolds DEF m

LEMMA OnAskHolds ==
  ASSUME IInv, NEW r \in Up, NEW x, OnAsk(r, x)
  PROVE  IInv'
<1> DEFINE m == reps[r]
           c == <<x.from, x.view>>
           n == IF x.view = m.cur THEN Next1([m EXCEPT !.comps = @ \cup {c}], r) ELSE m
<1>1. <<r, x>> \in net /\ x.type = "ask" /\ Step(r, n, {<<r, x>>}, {}) /\ asked' = asked
  BY Zenon DEF OnAsk
<1>2. r \in Replicas /\ Fits(m, r, asked) /\ asked \in SUBSET Pairs /\ GoodMsg(r, x, asked)
  BY <1>1 DEF IInv, Up
<1>3. c \in asked /\ c[2] = x.view
  BY <1>1, <1>2 DEF GoodMsg, GoodVC, VCs, GoodNV, NVs
<1> HIDE DEF m, c
<1>4. Goes(m, n, r, asked)
  <2>1. CASE x.view = m.cur
    <3>1. n = Next1([m EXCEPT !.comps = @ \cup {c}], r)
      BY <2>1, Zenon
    <3> QED BY <1>2, <1>3, <2>1, <3>1, ComplainsFits, Zenon
  <2>2. CASE x.view # m.cur
    BY <1>2, <2>2, MovesReflexive, MovesGoes
  <2> QED BY <2>1, <2>2
<1> HIDE DEF n
<1> QED BY <1>1, <1>2, <1>4, GoesHolds DEF m

LEMMA OnViewChangeHolds ==
  ASSUME IInv, NEW r \in Up, NEW x, NEW lacks \in BOOLEAN, OnViewChange(r, x, lacks)
  PROVE  IInv'
<1> DEFINE m == reps[r]
           m1 == [m EXCEPT !.vc[x.from] = x]
           m2 == Jumped(m1, r, x)
           m3 == FollowsPrimary(m2, r, x)
           m4 == FollowsCorrect(m3, r)
           n == IF Addable(m, x) THEN Agrees(m4, r, lacks) ELSE m
<1>1. <<r, x>> \in net /\ x.type = "vc" /\ Step(r, n, {<<r, x>>}, {}) /\ asked' = asked
  BY Zenon DEF OnViewChange
<1>2. r \in Replicas /\ Fits(m, r, asked) /\ asked \in SUBSET Pairs /\ GoodMsg(r, x, asked)
  BY <1>1 DEF IInv, Up
<1>3. GoodVC(x, asked) /\ x.from # r
  BY <1>1, <1>2 DEF GoodMsg, GoodNV, NVs
<1> HIDE DEF m
<1>4. Goes(m, n, r, asked)
  <2>1. Moves(m, m1, r, asked)
    BY <1>2, <1>3, AddFits, Zenon
  <2> HIDE DEF m1
  <2>2. Moves(m1, m2, r, asked) /\ Fits(m1, r, asked)
    BY <1>2, <1>3, <2>1, JumpedFits DEF Moves
  <2> HIDE DEF m2
  <2>3. Moves(m2, m3, r, asked) /\ Fits(m2, r, asked)
    BY <1>2, <1>3, <2>2, FollowsPrimaryFits DEF Moves
  <2> HIDE DEF m3
  <2>4. Moves(m3, m4, r, asked) /\ Fits(m3, r, asked)
    BY <1>2, <2>3, FollowsCorrectFits DEF Moves
  <2> HIDE DEF m4
  <2>5. Goes(m4, Agrees(m4, r, lacks), r, asked)
    BY <1>2, <2>4, AgreesFits DEF Moves
  <2>6. Moves(m, m4, r, asked)
    BY <1>2, <2>1, <2>2, <2>3, <2>4, MovesTransitive
  <2>7. Goes(m, Agrees(m4, r, lacks), r, asked)
    BY <2>5, <2>6, MovesThenGoes
  <2>8. Goes(m, m, r, asked)
    BY <1>2, MovesReflexive, MovesGoes
  <2> QED BY <2>7, <2>8
<1> HIDE DEF n
<1> QED BY <1>1, <1>2, <1>4, GoesHolds DEF m

(* add(NewViewMsg) *)
LEMMA NewViewFits ==
  ASSUME NEW a \in SUBSET Pairs, NEW r \in Replicas, NEW m, Fits(m, r, a), NEW x, GoodNV(x)
  PROVE  LET k == [m EXCEPT !.nv[x.from] = x]
         IN  /\ Fits(k, r, a) /\ k.act = m.act /\ k.in = m.in
             /\ Released(k, r) \subseteq Released(m, r) \cup {x}
<1> DEFINE t == [m.nv EXCEPT ![x.from] = x]
           k == [m EXCEPT !.nv = t]
<1>0. m \in Managers /\ TablesFit(m, a) /\ ViewsFit(m, a) /\ PendingFits(m, r)
  BY DEF Fits
<1>1. x \in NVs /\ x.from \in Replicas /\ m.nv \in [Replicas -> NVs \cup {NoNV}]
  BY <1>0 DEF GoodNV, NVs, Managers
<1>2. t \in [Replicas -> NVs \cup {NoNV}] /\ \A i \in Replicas : t[i] = x \/ t[i] = m.nv[i]
  BY <1>1
<1> HIDE DEF t
<1>3. /\ k \in Managers /\ k.nv = t /\ k.cur = m.cur /\ k.act = m.act /\ k.pend = m.pend /\ k.in = m.in
      /\ k.vc = m.vc /\ k.pvc = m.pvc /\ k.pnv = m.pnv /\ k.comps = m.comps /\ k.stored = m.stored
  BY <1>0, <1>2 DEF Managers
<1> HIDE DEF k
<1>4. TablesFit(k, a)
  BY <1>0, <1>2, <1>3 DEF TablesFit
<1>5. ViewsFit(k, a)
  BY <1>0, <1>3 DEF ViewsFit
<1>6. PendingFits(k, r)
  BY <1>0, <1>3 DEF PendingFits, MyLatest
<1>7. Released(k, r) \subseteq Released(m, r) \cup {x}
  BY <1>2, <1>3 DEF Released
<1>8. Fits(k, r, a)
  BY <1>3, <1>4, <1>5, <1>6 DEF Fits
<1> QED BY <1>3, <1>7, <1>8, Zenon DEF k, t

LEMMA OnNewViewHolds ==
  ASSUME IInv, NEW r \in Up, NEW x, NEW lacks \in BOOLEAN, OnNewView(r, x, lacks)
  PROVE  IInv'
<1> DEFINE m == reps[r]
           k == [m EXCEPT !.nv[x.from] = x]
           n == IF x.view <= m.pend THEN m ELSE IF m.in THEN k ELSE Enter(k, r, lacks)
<1>1. <<r, x>> \in net /\ x.type = "nv" /\ Step(r, n, {<<r, x>>}, {}) /\ asked' = asked
  BY Zenon DEF OnNewView
<1>2. r \in Replicas /\ Fits(m, r, asked) /\ asked \in SUBSET Pairs /\ GoodMsg(r, x, asked)
  BY <1>1 DEF IInv, Up
<1>3. GoodNV(x)
  BY <1>1, <1>2 DEF GoodMsg, GoodVC, VCs
<1>m. <<r, x>>[2] = x
  OBVIOUS
<1>4. x \in {p[2] : p \in net}
  BY <1>1, <1>m
<1> HIDE DEF m
<1>5. /\ Fits(k, r, asked) /\ k.act = m.act /\ k.in = m.in
      /\ Released(k, r) \subseteq Released(m, r) \cup {x}
  BY <1>2, <1>3, NewViewFits, Zenon
<1> HIDE DEF k
<1>6. Goes(m, m, r, asked) /\ Goes(k, k, r, asked)
  BY <1>2, <1>5, MovesReflexive, MovesGoes
<1>7. ~m.in => Goes(k, Enter(k, r, lacks), r, asked)
  BY <1>2, <1>5, EnterFits
<1>8. Goes(m, n, r, asked) \/ Goes(k, n, r, asked)
  BY <1>6, <1>7
<1> HIDE DEF n
<1>9. /\ Fits(n, r, asked) /\ m.act <= n.act
      /\ Released(n, r) \subseteq Released(m, r) \cup {NoNV} \cup {p[2] : p \in net}
                                  \cup (IF NewlySent(m, n, r) THEN {n.pnv} ELSE {})
  BY <1>4, <1>5, <1>8 DEF Goes, NewlySent
<1> QED BY <1>1, <1>2, <1>9, StepHolds DEF m

LEMMA OnMissingPrePrepareHolds ==
  ASSUME IInv, NEW r \in Up, NEW lacks \in BOOLEAN, OnMissingPrePrepare(r, lacks)
  PROVE  IInv'
<1> DEFINE m == reps[r]
           k == [m EXCEPT !.waits = FALSE]
           n == Enter(k, r, lacks)
<1>1. Step(r, n, {}, {}) /\ asked' = asked
  BY Zenon DEF OnMissingPrePrepare
<1>2. r \in Replicas /\ Fits(m, r, asked) /\ asked \in SUBSET Pairs /\ 0 \in 0..MaxView
  BY ViewChangeAssumption DEF IInv, Up
<1> HIDE DEF m
<1>3. Moves(m, k, r, asked)
  BY <1>2, QuietFits, Zenon
<1>4. k.cur = k.pend \/ ~k.in
  BY <1>3 DEF Moves, Fits, ViewsFit, Managers
<1> HIDE DEF k
<1>5. Goes(k, n, r, asked)
  BY <1>2, <1>3, <1>4, EnterFits DEF Moves
<1> HIDE DEF n
<1>6. Goes(m, n, r, asked)
  BY <1>3, <1>5, MovesThenGoes
<1> QED BY <1>1, <1>2, <1>6, GoesHolds DEF m

(* Steps that change messages in flight only *)
LEMMA QuietStep ==
  ASSUME IInv, UNCHANGED <<reps, asked>>,
         \A p \in net' : \/ p \in net
                         \/ /\ p = <<p[1], p[2]>> /\ p[1] \in Up /\ GoodMsg(p[1], p[2], asked)
                            /\ p[2].type = "nv" => p[2] \in AllReleased
  PROVE  IInv'
<1>1. \A x \in AllReleased' : x \in AllReleased
  <2> SUFFICES ASSUME NEW x \in AllReleased' PROVE x \in AllReleased
    OBVIOUS
  <2>1. /\ x.type = "nv" /\ x # NoNV
        /\ (\E p \in net' : x = p[2]) \/ (\E q \in Up : x \in Released(reps[q], q))
    BY DEF AllReleased, Released, Up, Replicas, Primary
  <2> QED BY <2>1, ReleasedIs
<1>2. OneNewView'
  BY <1>1 DEF IInv, OneNewView, Primary, Up, Replicas
<1>3. \A p \in net' : p = <<p[1], p[2]>> /\ p[1] \in Up /\ GoodMsg(p[1], p[2], asked)
  BY DEF IInv
<1> QED BY <1>2, <1>3 DEF IInv

LEMMA HelpIsGood ==
  ASSUME IInv, NEW q \in Up, NEW r \in Up, q # r, NEW x \in Help(q, r)
  PROVE  GoodMsg(r, x, asked) /\ (x.type = "nv" => x \in AllReleased)
<1> DEFINE a == reps[q]
           b == reps[r]
<1>1. q \in Replicas /\ r \in Replicas /\ Fits(a, q, asked) /\ Fits(b, r, asked) /\ asked \in SUBSET Pairs
  BY DEF IInv, Up
<1>2. a.cur \in 0..MaxView /\ b.cur \in 0..MaxView /\ a \in Managers
  BY <1>1 DEF Fits, Managers
<1>3. \/ b.cur < a.cur /\ x = MyLatest(a, q)
      \/ x \in Offered(a) /\ x.from \in Missing(b, r)
      \/ a.cur > 0 /\ a.in /\ x = a.pnv
      \/ \E c \in a.comps : x = Ask(c[1], c[2])
  BY DEF Help
<1> HIDE DEF a, b
<1>4. CASE b.cur < a.cur /\ x = MyLatest(a, q)
  <2>1. GoodVC(x, asked) /\ x.from = q /\ x.type = "vc"
    BY <1>1, <1>2, <1>4, LatestIsGood
  <2> QED BY <2>1 DEF GoodMsg
<1>5. CASE x \in Offered(a) /\ x.from \in Missing(b, r)
  <2>1. \E i \in Replicas : x = a.vc[i] \/ x = a.pvc[i]
    BY <1>5 DEF Offered, Newer
  <2>2. x.from \in Replicas /\ x.from # r
    BY <1>5 DEF Missing
  <2>3. x # NoVC
    BY <2>2, NoneIsNoMessage
  <2>4. GoodVC(x, asked)
    BY <1>1, <2>1, <2>3 DEF Fits, TablesFit, TableFits
  <2> QED BY <2>2, <2>4 DEF GoodMsg, GoodVC, VCs
<1>6. CASE a.cur > 0 /\ a.in /\ x = a.pnv
  <2>1. GoodNV(x) /\ x # NoNV /\ x.type = "nv" /\ x \in Released(a, q)
    BY <1>1, <1>2, <1>6, ActiveNewView
  <2>2. x \in AllReleased
    BY <2>1, ReleasedIs DEF a
  <2> QED BY <2>1, <2>2 DEF GoodMsg
<1>7. CASE \E c \in a.comps : x = Ask(c[1], c[2])
  <2>1. PICK c \in a.comps : x = Ask(c[1], c[2])
    BY <1>7
  <2>2. c \in asked /\ c = <<c[1], c[2]>>
    BY <1>1, <2>1 DEF Fits, ViewsFit, Pairs
  <2>3. x.type = "ask" /\ x.from = c[1] /\ x.view = c[2]
    BY <2>1 DEF Ask
  <2> QED BY <2>1, <2>2, <2>3 DEF GoodMsg
<1> QED BY <1>3, <1>4, <1>5, <1>6, <1>7

LEMMA StatusHolds ==
  ASSUME IInv, NEW q \in Up, NEW r \in Up, Status(q, r)
  PROVE  IInv'
<1>1. q # r /\ net' = net \cup ({r} \X Help(q, r)) /\ UNCHANGED <<reps, asked>>
  BY DEF Status
<1>2. ASSUME NEW p \in net', p \notin net
      PROVE  /\ p = <<p[1], p[2]>> /\ p[1] \in Up /\ GoodMsg(p[1], p[2], asked)
             /\ p[2].type = "nv" => p[2] \in AllReleased
  <2>1. p = <<p[1], p[2]>> /\ p[1] = r /\ p[2] \in Help(q, r)
    BY <1>1, <1>2
  <2> QED BY <1>1, <2>1, HelpIsGood
<1> QED BY <1>1, <1>2, QuietStep

-----------------------------------------------------------------------------
(* Restarts *)

LEMMA FreshIs ==
  /\ Fresh \in Managers /\ Fresh.cur = 0 /\ Fresh.act = 0 /\ Fresh.pend = 0 /\ Fresh.in = TRUE
  /\ Fresh.comps = {} /\ Fresh.stored = {} /\ Fresh.vc = NoVCs /\ Fresh.pvc = NoVCs
  /\ Fresh.nv = [i \in Replicas |-> NoNV] /\ Fresh.pnv = NoNV
BY ViewChangeAssumption DEF Fresh, Managers, NoVCs

LEMMA RestoredInsideFits ==
  ASSUME NEW a \in SUBSET Pairs, NEW r \in Replicas, NEW m, Fits(m, r, a), m.in
  PROVE  LET n == RestoredInside(m, r)
         IN  Fits(n, r, a) /\ n.act = m.act /\ Released(n, r) \subseteq Released(m, r) \cup {NoNV}
<1> DEFINE own == IF m.pvc[r] = NoVC THEN m.vc[r] ELSE NoVC
           t == [Fresh.vc EXCEPT ![r] = own]
           nvs == Fresh.nv
           n == [Fresh EXCEPT !.cur = m.act, !.act = m.act, !.pend = m.act, !.agreed = m.act,
                              !.stored = m.stored, !.pvc = m.pvc, !.pnv = m.pnv, !.vc = t]
<1>0. m \in Managers /\ TablesFit(m, a) /\ ViewsFit(m, a) /\ PendingFits(m, r)
  BY DEF Fits
<1>1. RestoredInside(m, r) = n
  BY Zenon DEF RestoredInside
<1>2. m.act = m.cur /\ m.pend = m.cur /\ m.act \in 0..MaxView
  BY <1>0, ViewChangeAssumption DEF ViewsFit, Managers
<1>3. /\ own \in VCs \cup {NoVC} /\ (own # NoVC => GoodVC(own, a) /\ own.from = r)
      /\ (IF m.pvc[r] # NoVC THEN m.pvc[r] ELSE own) = MyLatest(m, r)
  BY <1>0 DEF Managers, TablesFit, TableFits, MyLatest
<1> HIDE DEF own
<1>4. t \in [Replicas -> VCs \cup {NoVC}] /\ \A i \in Replicas : t[i] = IF i = r THEN own ELSE NoVC
  BY <1>3, FreshIs DEF NoVCs
<1>5. nvs \in [Replicas -> NVs \cup {NoNV}] /\ \A i \in Replicas : nvs[i] = NoNV
  BY FreshIs
<1> HIDE DEF t, nvs
<1>6. /\ n \in Managers /\ n.cur = m.cur /\ n.act = m.act /\ n.pend = m.pend /\ n.in = TRUE
      /\ n.comps = {} /\ n.stored = m.stored /\ n.vc = t /\ n.nv = nvs /\ n.pvc = m.pvc /\ n.pnv = m.pnv
  BY <1>0, <1>2, <1>4, <1>5, FreshIs DEF Managers
<1> HIDE DEF n
<1>7. TablesFit(n, a)
  BY <1>0, <1>3, <1>4, <1>5, <1>6 DEF TablesFit, TableFits
<1>8. ViewsFit(n, a)
  BY <1>0, <1>2, <1>6 DEF ViewsFit
<1>9. PendingFits(n, r)
  <2>1. MyLatest(n, r) = MyLatest(m, r)
    BY <1>3, <1>4, <1>6 DEF MyLatest
  <2> QED BY <1>0, <1>6, <2>1 DEF PendingFits
<1>10. Released(n, r) \subseteq Released(m, r) \cup {NoNV}
  BY <1>5, <1>6 DEF Released
<1> QED BY <1>1, <1>6, <1>7, <1>8, <1>9, <1>10 DEF Fits

LEMMA RestoredOutsideFits ==
  ASSUME NEW a \in SUBSET Pairs, NEW r \in Replicas, NEW m, Fits(m, r, a), ~m.in
  PROVE  LET n == RestoredOutside(m, r)
         IN  Fits(n, r, a) /\ n.act = m.act /\ Released(n, r) \subseteq Released(m, r) \cup {NoNV}
<1> DEFINE own == Mine(r, m.act + 1, m.stored)
           t == [Fresh.vc EXCEPT ![r] = own]
           nvs == Fresh.nv
           n == [Fresh EXCEPT !.in = FALSE, !.cur = m.act + 1, !.act = m.act, !.pend = m.act,
                              !.agreed = m.act, !.stored = m.stored, !.vc = t]
<1>0. m \in Managers /\ TablesFit(m, a) /\ ViewsFit(m, a) /\ PendingFits(m, r)
  BY DEF Fits
<1>1. RestoredOutside(m, r) = n
  BY Zenon DEF RestoredOutside, Mine
<1>2. m.act \in 0..MaxView /\ m.act + 1 \in 1..MaxView /\ m.act + 1 <= m.cur /\ m.cur \in 0..MaxView
  BY <1>0, ViewChangeAssumption DEF ViewsFit, Managers
<1>3. Left(m.act + 1, a)
  BY <1>0, <1>2, LeftDown DEF ViewsFit
<1>4. own \in VCs /\ GoodVC(own, a) /\ own.from = r /\ own.view = m.act + 1 /\ own # NoVC
  <2>1. own \in VCs
    BY <1>0, <1>2 DEF Mine, VCs, Managers
  <2> QED BY <1>0, <1>3, <2>1, NoneIsNoMessage DEF Mine, GoodVC, ViewsFit
<1> HIDE DEF own
<1>5. t \in [Replicas -> VCs \cup {NoVC}] /\ \A i \in Replicas : t[i] = IF i = r THEN own ELSE NoVC
  BY <1>4, FreshIs DEF NoVCs
<1>6. /\ nvs \in [Replicas -> NVs \cup {NoNV}] /\ \A i \in Replicas : nvs[i] = NoNV
      /\ NoVCs \in [Replicas -> VCs \cup {NoVC}] /\ \A i \in Replicas : NoVCs[i] = NoVC
  BY FreshIs DEF NoVCs
<1> HIDE DEF t, nvs
<1>7. /\ n \in Managers /\ n.cur = m.act + 1 /\ n.act = m.act /\ n.pend = m.act /\ n.in = FALSE
      /\ n.comps = {} /\ n.stored = m.stored /\ n.vc = t /\ n.nv = nvs /\ n.pvc = NoVCs /\ n.pnv = NoNV
  <2>1. m.act + 1 \in 0..MaxView /\ m.stored \in SUBSET Pairs
    BY <1>0, <1>2 DEF Managers
  <2>2. Fresh \in Managers /\ Fresh.comps = {} /\ Fresh.pvc = NoVCs /\ Fresh.pnv = NoNV
    BY FreshIs
  <2> QED BY <1>2, <1>5, <1>6, <2>1, <2>2 DEF Managers, nvs
<1> HIDE DEF n
<1>8. TablesFit(n, a)
  BY <1>4, <1>5, <1>6, <1>7 DEF TablesFit, TableFits
<1>9. ViewsFit(n, a)
  BY <1>0, <1>2, <1>3, <1>7 DEF ViewsFit
<1>10. PendingFits(n, r)
  <2>1. MyLatest(n, r) = own
    BY <1>5, <1>6, <1>7 DEF MyLatest
  <2>2. n.pend # n.cur
    BY <1>2, <1>7
  <2> QED BY <1>4, <1>6, <1>7, <2>1, <2>2 DEF PendingFits
<1>11. Released(n, r) \subseteq Released(m, r) \cup {NoNV}
  BY <1>6, <1>7 DEF Released
<1> QED BY <1>1, <1>7, <1>8, <1>9, <1>10, <1>11 DEF Fits

LEMMA RestartHolds ==
  ASSUME IInv, NEW r \in Up, Restart(r)
  PROVE  IInv'
<1> DEFINE m == reps[r]
           n == IF m.in THEN RestoredInside(m, r) ELSE RestoredOutside(m, r)
<1>1. reps' = [reps EXCEPT ![r] = n] /\ net' = net /\ asked' = asked
  BY Zenon DEF Restart
<1>2. r \in Replicas /\ Fits(m, r, asked) /\ asked \in SUBSET Pairs
  BY DEF IInv, Up
<1>3. Fits(n, r, asked) /\ n.act = m.act /\ Released(n, r) \subseteq Released(m, r) \cup {NoNV}
  <2> HIDE DEF m
  <2>1. CASE m.in
    <3>1. n = RestoredInside(m, r)
      BY <2>1
    <3> QED BY <1>2, <2>1, <3>1, RestoredInsideFits, Zenon
  <2>2. CASE ~m.in
    <3>1. n = RestoredOutside(m, r)
      BY <2>2
    <3> QED BY <1>2, <2>2, <3>1, RestoredOutsideFits, Zenon
  <2> QED BY <2>1, <2>2
<1> HIDE DEF n
<1>4. m.act <= n.act
  BY <1>2, <1>3 DEF Fits, Managers
<1> QED BY <1>1, <1>2, <1>3, <1>4, ReplicaStep

-----------------------------------------------------------------------------
(* The invariant *)

LEMMA InitHolds == Init => IInv
<1> SUFFICES ASSUME Init PROVE IInv
  OBVIOUS
<1>1. reps = [r \in Replicas |-> Fresh] /\ net = {} /\ asked = {}
  BY DEF Init
<1>2. Foundation(NoNV) = NoVCs
  BY NoneIsNoMessage DEF Foundation, Senders, NoVCs
<1>3. \A i \in Replicas : NoVCs[i] = NoVC /\ [j \in Replicas |-> NoNV][i] = NoNV
  BY DEF NoVCs
<1>4. ASSUME NEW r \in Up PROVE Fits(Fresh, r, {})
  <2>1. TablesFit(Fresh, {})
    BY <1>3, FreshIs DEF TablesFit, TableFits
  <2>2. ViewsFit(Fresh, {})
    <3>1. Left(0, {})
      BY DEF Left
    <3> QED BY <3>1, FreshIs DEF ViewsFit
  <2>3. PendingFits(Fresh, r)
    BY <1>2, <1>3, FreshIs DEF PendingFits
  <2> QED BY <2>1, <2>2, <2>3, FreshIs DEF Fits
<1>5. \A r \in Up : reps[r] = Fresh
  BY <1>1 DEF Up
<1>6. \A r \in Up : \A x \in Released(reps[r], r) : x = NoNV
  BY <1>3, <1>5, FreshIs DEF Released
<1>7. AllReleased = {}
  BY <1>1, <1>6, ReleasedIs
<1>8. OneNewView
  BY <1>7 DEF OneNewView
<1> QED BY <1>1, <1>4, <1>5, <1>8 DEF IInv

LEMMA NextHolds ==
  ASSUME IInv, [Next]_vars
  PROVE  IInv'
<1>1. \A p \in net : p = <<p[1], p[2]>> /\ p[1] \in Up
  BY DEF IInv
<1>2. ASSUME NEW r \in Up, Timer(r) \/ Restart(r) PROVE IInv'
  BY <1>2, TimerHolds, RestartHolds
<1>2a. ASSUME NEW r \in Up, NEW lacks \in BOOLEAN, OnMissingPrePrepare(r, lacks) PROVE IInv'
  BY <1>2a, OnMissingPrePrepareHolds
<1>3. ASSUME NEW p \in net, OnAsk(p[1], p[2]) PROVE IInv'
  BY <1>1, <1>3, OnAskHolds
<1>4. ASSUME NEW p \in net, Lose(p) PROVE IInv'
  <2>1. net' = net \ {p} /\ UNCHANGED <<reps, asked>>
    BY <1>4 DEF Lose
  <2> QED BY <2>1, QuietStep
<1>5. ASSUME NEW p \in net, NEW lacks \in BOOLEAN,
             OnViewChange(p[1], p[2], lacks) \/ OnNewView(p[1], p[2], lacks)
      PROVE  IInv'
  BY <1>1, <1>5, OnViewChangeHolds, OnNewViewHolds
<1>6. ASSUME NEW q \in Up, NEW r \in Up, Status(q, r) PROVE IInv'
  BY <1>6, StatusHolds
<1>7. CASE UNCHANGED vars
  <2>1. UNCHANGED <<reps, asked>> /\ net' = net
    BY <1>7 DEF vars
  <2> QED BY <2>1, QuietStep
<1> QED BY <1>2, <1>2a, <1>3, <1>4, <1>5, <1>6, <1>7 DEF Next

(* Two replicas in one view hold the NewViewMsg that its primary sent, and *)
(* a NewViewMsg determines the ViewChangeMsgs.                             *)
LEMMA InvIsSafe ==
  ASSUME IInv
  PROVE  ViewChangeSafe
<1>0. \A r \in Up : r \in Replicas /\ Fits(reps[r], r, asked)
  BY DEF IInv, Up
<1>1. TypeOK
  <2> SUFFICES ASSUME NEW r \in Up, NEW m, m = reps[r]
               PROVE  /\ m.act <= m.pend /\ m.pend <= m.cur /\ m.cur <= MaxView
                      /\ m.in => m.act = m.cur /\ m.pend = m.cur
                      /\ m.cur > m.act => MyLatest(m, r).view = m.cur
                      /\ m.pnv # NoNV => {m.pvc[i] : i \in {j \in Replicas : m.pvc[j] # NoVC /\ j # r}}
                                         \subseteq m.pnv.set
                      /\ \A c \in m.comps : c[2] = m.cur
    BY DEF TypeOK
  <2>1. m \in Managers /\ ViewsFit(m, asked) /\ PendingFits(m, r)
    BY <1>0 DEF Fits
  <2>2. m.act \in 0..MaxView /\ m.pend \in 0..MaxView /\ m.cur \in 0..MaxView
    BY <2>1 DEF Managers
  <2>3. m.act <= m.pend /\ m.pend <= m.cur /\ (m.in <=> m.act = m.cur) /\ \A c \in m.comps : c[2] = m.cur
    BY <2>1 DEF ViewsFit
  <2>4. m.cur <= MaxView /\ (m.in => m.act = m.cur /\ m.pend = m.cur)
    BY <2>2, <2>3
  <2>5. m.cur > m.act => MyLatest(m, r).view = m.cur
    BY <2>1, <2>2 DEF PendingFits
  <2>6. m.pnv # NoNV => {m.pvc[i] : i \in {j \in Replicas : m.pvc[j] # NoVC /\ j # r}} \subseteq m.pnv.set
    BY <2>1 DEF PendingFits
  <2> QED BY <2>3, <2>4, <2>5, <2>6
<1>2. LeftOnComplaints
  BY <1>0 DEF LeftOnComplaints, Fits, ViewsFit, Left
<1>3. SameFoundation
  <2> SUFFICES ASSUME NEW r \in Up, NEW q \in Up, reps[r].in, reps[q].in, reps[r].cur = reps[q].cur
               PROVE  reps[r].pnv = reps[q].pnv /\ reps[r].pvc = reps[q].pvc
    BY DEF SameFoundation
  <2>1. CASE reps[r].cur = 0
    <3>1. ASSUME NEW i \in Up, reps[i].cur = 0
          PROVE  reps[i].pnv = NoNV /\ reps[i].pvc = Foundation(NoNV)
      <4>1. reps[i].pend = 0
        BY <1>0, <3>1 DEF Fits, ViewsFit, Managers
      <4> QED BY <1>0, <3>1, <4>1 DEF Fits, PendingFits
    <3> QED BY <2>1, <3>1
  <2>2. CASE reps[r].cur # 0
    <3>1. asked \in SUBSET Pairs
      BY DEF IInv
    <3>2. ASSUME NEW i \in Up, reps[i].in, reps[i].cur # 0
          PROVE  /\ reps[i].pnv \in AllReleased /\ reps[i].pnv.view = reps[i].cur
                 /\ reps[i].pvc = Foundation(reps[i].pnv)
      <4>1. /\ reps[i].pnv # NoNV /\ reps[i].pnv.view = reps[i].cur
            /\ reps[i].pnv \in Released(reps[i], i) /\ reps[i].pvc = Foundation(reps[i].pnv)
            /\ reps[i].pnv.type = "nv"
        BY <1>0, <3>1, <3>2, ActiveNewView
      <4> QED BY <4>1, ReleasedIs
    <3>3. reps[r].pnv \in AllReleased /\ reps[q].pnv \in AllReleased /\ reps[r].pnv.view = reps[q].pnv.view
      BY <2>2, <3>2
    <3>4. reps[r].pnv = reps[q].pnv
      BY <3>3 DEF IInv, OneNewView
    <3> QED BY <2>2, <3>2, <3>4
  <2> QED BY <2>1, <2>2
<1> QED BY <1>1, <1>2, <1>3 DEF ViewChangeSafe

(* Whatever is lost, delayed or reordered and however often replicas       *)
(* restart: a view is left only when f+1 replicas complained about it, and *)
(* the replicas in a view entered it with the same NewViewMsg and the same *)
(* ViewChangeMsgs, for all N, F, sets of silent replicas and views. Those  *)
(* that act follow the protocol: a primary that does not can move the      *)
(* others with a ViewChangeMsg alone (ReplicaImp, ViewsManager).           *)
THEOREM ViewsAreSafe == Spec => []ViewChangeSafe
<1>1. IInv /\ [Next]_vars => IInv'
  BY NextHolds
<1>2. IInv => ViewChangeSafe
  BY InvIsSafe
<1> QED BY <1>1, <1>2, InitHolds, PTL DEF Spec

(* The primary of a view sends one NewViewMsg for it, also when it waits   *)
(* for PrePrepares, restarts or answers status reports: of the NewViewMsgs *)
(* on their way and at the replicas no two differ for one view, and the    *)
(* primary has entered the view (ViewsManager::tryToEnterView).            *)
THEOREM OneNewViewPerView == Spec => []OneNewView
<1>1. IInv /\ [Next]_vars => IInv'
  BY NextHolds
<1>2. IInv => OneNewView
  BY DEF IInv
<1> QED BY <1>1, <1>2, InitHolds, PTL DEF Spec
=============================================================================
