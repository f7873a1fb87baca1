----------------------------- MODULE ViewChange -----------------------------
(***************************************************************************)
(* How the replicas leave a view and agree on the next one: complaints     *)
(* (ReplicaAsksToLeaveViewMsg), ViewChangeMsgs with the complaints they    *)
(* carry, NewViewMsgs, status reports, and the tables of ViewsManager.     *)
(*                                                                         *)
(* What the ViewChangeMsgs say about requests is in Sbft; here a message   *)
(* is its sender, its view and its complaints.  Messages may be delayed,   *)
(* reordered and lost; replicas may restart.                               *)
(***************************************************************************)
EXTENDS Integers, FiniteSets, FiniteSetsExt

CONSTANTS
  N, F,                             \* cVal is 0
  Down,                             \* replicas that never act
  Gaps,                             \* replicas that may lack PrePrepares of a pending view
  MaxView, MaxLosses, MaxRestarts,  \* bounds
  Early,                            \* replicas whose request timer may expire
  Reports                           \* status reports are answered

ASSUME ViewChangeAssumption == N \in Nat \ {0} /\ F \in Nat /\ MaxView \in Nat

Replicas == 0..(N - 1)
Up == Replicas \ Down
Primary(v) == v % N
Smajor == 2 * F + 1

NoVC == [type |-> "vc", from |-> -1, view |-> -1, set |-> {}]
NoNV == [type |-> "nv", from |-> -1, view |-> -1, set |-> {}]
Ask(r, v) == [type |-> "ask", from |-> r, view |-> v, set |-> {}]

VARIABLES
  reps,      \* the ViewsManager and the view fields of each replica
  net,       \* messages in flight: <<receiver, message>>
  asked,     \* history: complaints, <<replica, view>>
  losses, restarts

vars == <<reps, net, asked, losses, restarts>>

Fresh ==
  [cur |-> 0, act |-> 0, pend |-> 0, in |-> TRUE, agreed |-> 0, waits |-> FALSE,
   comps |-> {}, stored |-> {},           \* complainedReplicas; those of the stored exit
   vc |-> [i \in Replicas |-> NoVC],      \* viewChangeMessages
   nv |-> [i \in Replicas |-> NoNV],      \* newViewMessages
   pvc |-> [i \in Replicas |-> NoVC],     \* viewChangeMsgsOfPendingView
   pnv |-> NoNV]                          \* newViewMsgOfOfPendingView

Init ==
  /\ reps = [r \in Replicas |-> Fresh]
  /\ net = {} /\ asked = {} /\ losses = 0 /\ restarts = 0

(***************************************************************************)
(* ViewsManager, on the record m of the replica r                          *)
(***************************************************************************)
MyLatest(m, r) == IF m.pvc[r] # NoVC THEN m.pvc[r] ELSE m.vc[r]

\* resetDataOfLatestPendingAndKeepMyViewChange
Reset(m, r) ==
  IF m.pnv = NoNV THEN m
  ELSE [m EXCEPT !.vc[r] = IF m.pvc[r] # NoVC THEN m.pvc[r] ELSE @,
                 !.pvc = [i \in Replicas |-> NoVC], !.pnv = NoNV]

HasQuorumToLeaveView(comps) == Cardinality(comps) >= F + 1

\* MoveToHigherView: a new ViewChangeMsg, or the view number and complaints of
\* the last one changed in place.
Move(m, r, v) ==
  LET mine == [type |-> "vc", from |-> r, view |-> v, set |-> m.comps]
      left == IF m.in THEN [Reset(m, r) EXCEPT !.vc[r] = mine, !.stored = m.comps]
              ELSE IF m.pvc[r] # NoVC THEN [m EXCEPT !.pvc[r] = mine]
              ELSE [m EXCEPT !.vc[r] = mine]
  IN  [left EXCEPT !.in = FALSE, !.cur = v, !.comps = {}]

\* add(ViewChangeMsg): a message that a NewViewMsg refers to is not replaced.
Addable(m, x) ==
  LET nv == m.nv[Primary(x.view)]
  IN  /\ x.view > m.pend
      /\ nv # NoNV => /\ nv.view <= x.view
                      /\ ~(nv.view = x.view /\ m.vc[x.from].view = x.view /\ m.vc[x.from] \in nv.set)

\* processComplaintsFromViewChangeMessage: in the order of the issuers, until
\* there is a quorum.
Complaints(m, x) ==
  LET read == {c \in x.set : /\ Cardinality({d \in x.set : d[1] < c[1]}) <= F + 1
                             /\ c[2] + 1 = x.view}
      have == IF x.view = m.cur + 1 THEN m.comps ELSE {}
  IN  have \cup {c \in read : ~HasQuorumToLeaveView(have \cup {d \in read : d[1] < c[1]})}

\* computeCorrectRelevantViewNumbers
KnownView(m, r, k) ==
  LET view(i) == IF i = r THEN MyLatest(m, r).view ELSE m.vc[i].view
      known == {v \in m.pend + 1..MaxView : Cardinality({i \in Replicas : view(i) >= v}) >= k}
  IN  IF known = {} THEN m.pend ELSE Max(known)

\* tryMoveToPendingViewAsPrimary: the own message and the first others.
PrimaryPending(m0, r) ==
  LET m == Reset(m0, r)
      others == {i \in Replicas \ {r} : m.vc[i].view = m.cur}
      S == {r} \cup {i \in others : Cardinality({j \in others : j < i}) < Smajor - 1}
  IN  IF Cardinality(S) < Smajor THEN [m EXCEPT !.nv[r] = NoNV]
      ELSE [m EXCEPT !.nv[r] = NoNV,
                     !.pvc = [i \in Replicas |-> IF i \in S THEN m.vc[i] ELSE NoVC],
                     !.vc = [i \in Replicas |-> IF i \in S THEN NoVC ELSE m.vc[i]],
                     !.pnv = [type |-> "nv", from |-> r, view |-> m.cur, set |-> {m.vc[i] : i \in S}],
                     !.pend = m.cur]

\* tryMoveToPendingViewAsNonPrimary: exactly the messages of the NewViewMsg.
OtherPending(m0, r) ==
  LET m == Reset(m0, r)
      nv == m.nv[Primary(m.cur)]
      S == {i \in Replicas : m.vc[i].view = m.cur /\ m.vc[i] \in nv.set}
  IN  IF nv.view # m.cur \/ Cardinality(S) < Smajor THEN m
      ELSE [m EXCEPT !.pvc = [i \in Replicas |-> IF i \in S THEN m.vc[i] ELSE NoVC],
                     !.vc = [i \in Replicas |-> IF i \in S THEN NoVC ELSE m.vc[i]],
                     !.nv[Primary(m.cur)] = NoNV, !.pnv = nv, !.pend = m.cur]

\* tryToEnterView; lacks: PrePrepares of the new view are missing.
Enter(m, r, lacks) ==
  LET p == IF m.cur = m.pend THEN m
           ELSE IF r = Primary(m.cur) THEN PrimaryPending(m, r) ELSE OtherPending(m, r)
      waits == IF m.cur = m.pend THEN m.waits ELSE lacks
  IN  IF p.pend # p.cur THEN [p EXCEPT !.waits = FALSE]
      ELSE IF waits THEN [p EXCEPT !.waits = TRUE]
      ELSE [p EXCEPT !.act = p.cur, !.in = TRUE, !.waits = FALSE]

(***************************************************************************)
(* ReplicaImp                                                              *)
(***************************************************************************)
\* What r sends to all when it goes from m to n: its ViewChangeMsg of a new
\* view, its NewViewMsg when it enters as the primary.
Sends(m, n, r) ==
  (IF n.cur > m.cur THEN {MyLatest(n, r)} ELSE {})
  \cup (IF n.in /\ n.act > m.act /\ r = Primary(n.cur) THEN {n.pnv} ELSE {})
ToAll(r, msgs) == (Up \ {r}) \X msgs

Step(r, new, used, more) ==
  \E n \in {new} :
    /\ reps' = [reps EXCEPT ![r] = n]
    /\ net' = (net \ used) \cup ToAll(r, Sends(reps[r], n, r) \cup more)

NeverNext(m, r) == m
\* tryToGoToNextView
Next1(m, r) == IF HasQuorumToLeaveView(m.comps) THEN Move(m, r, m.cur + 1) ELSE m

\* onViewsChangeTimer, askToLeaveView
Timer(r) ==
  LET m == reps[r]
  IN  /\ m.cur < MaxView /\ r # Primary(m.cur)
      /\ IF m.in THEN r \in Early /\ <<r, m.cur>> \notin m.comps ELSE m.agreed = m.cur
      /\ asked' = asked \cup {<<r, m.cur>>}
      /\ Step(r, Next1([m EXCEPT !.comps = @ \cup {<<r, m.cur>>}], r), {}, {Ask(r, m.cur)})
      /\ UNCHANGED <<losses, restarts>>

\* onMessage<ReplicaAsksToLeaveViewMsg>
OnAsk(r, x) ==
  LET m == reps[r]
  IN  /\ <<r, x>> \in net /\ x.type = "ask"
      /\ Step(r, IF x.view = m.cur THEN Next1([m EXCEPT !.comps = @ \cup {<<x.from, x.view>>}], r) ELSE m,
              {<<r, x>>}, {})
      /\ UNCHANGED <<asked, losses, restarts>>

\* onMessage<ViewChangeMsg>, in the order of the code
Jumped(m, r, x) ==
  LET comps == IF x.view > m.cur THEN Complaints(m, x) ELSE m.comps
      next == x.view <= m.cur + 1
  IN  IF next /\ HasQuorumToLeaveView(comps) THEN Move([m EXCEPT !.comps = comps], r, m.cur + 1)
      ELSE IF HasQuorumToLeaveView(m.comps) THEN Move(m, r, m.cur + 1)
      ELSE IF HasQuorumToLeaveView(comps) THEN Move([m EXCEPT !.comps = comps], r, x.view)
      ELSE IF next THEN [m EXCEPT !.comps = comps] ELSE m
FollowsPrimary(m, r, x) ==
  IF x.from = Primary(m.cur) /\ x.view > m.cur THEN Move(m, r, m.cur + 1) ELSE m
FollowsCorrect(m, r) ==
  LET v == KnownView(m, r, F + 1) IN IF v > m.cur THEN Move(m, r, v) ELSE m
Agrees(m, r, lacks) ==
  IF m.in \/ KnownView(m, r, Smajor) # m.cur THEN m
  ELSE Enter([m EXCEPT !.agreed = IF @ < m.cur THEN m.cur ELSE @], r, lacks)

OnViewChange(r, x, lacks) ==
  /\ <<r, x>> \in net /\ x.type = "vc" /\ (lacks => r \in Gaps)
  /\ \E m1 \in {[reps[r] EXCEPT !.vc[x.from] = x]} :
     \E m2 \in {Jumped(m1, r, x)} :
     \E m3 \in {FollowsPrimary(m2, r, x)} :
     \E m4 \in {FollowsCorrect(m3, r)} :
       Step(r, IF Addable(reps[r], x) THEN Agrees(m4, r, lacks) ELSE reps[r], {<<r, x>>}, {})
  /\ UNCHANGED <<asked, losses, restarts>>

\* onMessage<NewViewMsg>
OnNewView(r, x, lacks) ==
  LET m == reps[r]
      n == [m EXCEPT !.nv[x.from] = x]
  IN  /\ <<r, x>> \in net /\ x.type = "nv" /\ (lacks => r \in Gaps)
      /\ Step(r, IF x.view <= m.pend THEN m ELSE IF m.in THEN n ELSE Enter(n, r, lacks), {<<r, x>>}, {})
      /\ UNCHANGED <<asked, losses, restarts>>

\* The missing PrePrepares arrive: addPotentiallyMissingPP, then tryToEnterView,
\* also when the pending view that lacked them was left meanwhile.
OnMissingPrePrepare(r, lacks) ==
  /\ reps[r].waits /\ (lacks => r \in Gaps)
  /\ Step(r, Enter([reps[r] EXCEPT !.waits = FALSE], r, lacks), {}, {})
  /\ UNCHANGED <<asked, losses, restarts>>

\* The ViewChangeMsgs that the status report of r asks for: none while it waits
\* for PrePrepares, even those of a pending view that it has left.
Missing(m, r) ==
  IF m.in \/ m.waits \/ m.pend = m.cur THEN {} ELSE {i \in Replicas \ {r} : m.vc[i].view < m.cur}
\* getViewChangeMsgsForView: outside a view the later message of every replica.
Newer(m, i) == IF m.vc[i].view > m.pvc[i].view THEN m.vc[i] ELSE m.pvc[i]
OfferedOutside(m) == {x \in {m.vc[i] : i \in Replicas} : x.view >= m.cur}
Offered(m) ==
  IF m.in THEN {m.pvc[i] : i \in Replicas}
  ELSE {x \in {Newer(m, i) : i \in Replicas} : x.view >= m.cur}
\* onMessage<ReplicaStatusMsg>: what q answers to the report of r.
HasNewView(m) == m.pend = m.cur \/ m.nv[Primary(m.cur)].view = m.cur
Help(q, r) ==
  LET a == reps[q]
      b == reps[r]
      behind == IF b.cur < a.cur THEN {MyLatest(a, q)} ELSE {}
      outside == b.cur = a.cur /\ ~b.in /\ a.cur > 0
      views == IF outside THEN {x \in Offered(a) : x.from \in Missing(b, r)} ELSE {}
      new == IF outside /\ q = Primary(a.cur) /\ a.in /\ ~HasNewView(b) THEN {a.pnv} ELSE {}
      asks == IF b.cur = a.cur THEN {Ask(c[1], c[2]) : c \in a.comps \ b.comps} ELSE {}
  IN  behind \cup views \cup new \cup asks
Status(q, r) ==
  /\ Reports /\ q # r /\ ~({r} \X Help(q, r) \subseteq net)
  /\ net' = net \cup ({r} \X Help(q, r))
  /\ UNCHANGED <<reps, asked, losses, restarts>>

Lose(p) ==
  /\ losses < MaxLosses /\ losses' = losses + 1
  /\ net' = net \ {p}
  /\ UNCHANGED <<reps, asked, restarts>>

\* A restart keeps the view, or the exit from it, and forgets received messages.
RestoredOutside(m, r) ==
  [Fresh EXCEPT !.in = FALSE, !.cur = m.act + 1, !.act = m.act, !.pend = m.act, !.agreed = m.act,
                !.stored = m.stored,
                !.vc[r] = [type |-> "vc", from |-> r, view |-> m.act + 1, set |-> m.stored]]
RestoredBare(m, r) ==
  [Fresh EXCEPT !.cur = m.act, !.act = m.act, !.pend = m.act, !.agreed = m.act, !.stored = m.stored]
RestoredInside(m, r) ==
  [Fresh EXCEPT !.cur = m.act, !.act = m.act, !.pend = m.act, !.agreed = m.act,
                !.stored = m.stored, !.pvc = m.pvc, !.pnv = m.pnv,
                !.vc[r] = IF m.pvc[r] = NoVC THEN m.vc[r] ELSE NoVC]
Restart(r) ==
  /\ restarts < MaxRestarts /\ restarts' = restarts + 1
  /\ reps' = [reps EXCEPT ![r] = IF @.in THEN RestoredInside(@, r) ELSE RestoredOutside(@, r)]
  /\ UNCHANGED <<net, asked, losses>>

Next ==
  \/ \E r \in Up : Timer(r) \/ Restart(r)
  \/ \E r \in Up, lacks \in BOOLEAN : OnMissingPrePrepare(r, lacks)
  \/ \E p \in net : OnAsk(p[1], p[2]) \/ Lose(p)
  \/ \E p \in net, lacks \in BOOLEAN : OnViewChange(p[1], p[2], lacks) \/ OnNewView(p[1], p[2], lacks)
  \/ \E q, r \in Up : Status(q, r)

Spec == Init /\ [][Next]_vars

\* Messages are handled, status reports are repeated; timers may never expire.
Deliver(r) ==
  \E p \in net : p[1] = r /\ (OnAsk(r, p[2]) \/ OnViewChange(r, p[2], FALSE) \/ OnNewView(r, p[2], FALSE))

(***************************************************************************)
(* Properties                                                              *)
(***************************************************************************)
\* The assertions of ViewsManager on its tables, and the relation of the views.
TypeOK ==
  \A r \in Up : LET m == reps[r] IN
    /\ m.act <= m.pend /\ m.pend <= m.cur /\ m.cur <= MaxView
    /\ m.in => m.act = m.cur /\ m.pend = m.cur
    /\ m.cur > m.act => MyLatest(m, r).view = m.cur
    /\ m.pnv # NoNV => {m.pvc[i] : i \in {j \in Replicas : m.pvc[j] # NoVC /\ j # r}} \subseteq m.pnv.set
    /\ \A c \in m.comps : c[2] = m.cur

\* A view is left only after f+1 replicas complained about it
\* (hasQuorumToLeaveView): a ViewChangeMsg of the primary, of f+1 replicas or
\* with complaints, on which others leave too, goes back to them. The replicas
\* here follow the protocol, up to the ones that are down: a primary that does
\* not can make the others leave its view with a ViewChangeMsg of its own.
LeftOnComplaints ==
  \A r \in Up : \A v \in 0..reps[r].cur - 1 : Cardinality({c \in asked : c[2] = v}) >= F + 1

\* Replicas in one view entered it with the same NewViewMsg and the same
\* ViewChangeMsgs, from which they computed its restrictions.
SameFoundation ==
  \A r, q \in Up :
    reps[r].in /\ reps[q].in /\ reps[r].cur = reps[q].cur =>
      reps[r].pnv = reps[q].pnv /\ reps[r].pvc = reps[q].pvc

\* The safety of leaving and entering views: the tables of ViewsManager keep
\* their assertions, replicas that follow the protocol do not leave a view on
\* fewer than f+1 complaints, and those of a view start it from the same messages.
ViewChangeSafe == TypeOK /\ LeftOnComplaints /\ SameFoundation

\* A replica outside the view that its primary entered is never left without
\* help: if no message is on its way to it, and nobody has left the view, a
\* status report brings it one that it lacks. The exception is a replica with
\* the NewViewMsg that still waits for PrePrepares of a view that it left: it
\* asks for no ViewChangeMsg before its next attempt to enter a view
\* (hasViewChangeMessageForFutureView).
HelpIsAvailable ==
  \A r \in Up :
    LET m == reps[r]
        p == Primary(m.cur)
    IN  /\ ~m.in /\ m.pend < m.cur /\ ~(m.waits /\ HasNewView(m)) /\ p \in Up /\ reps[p].in /\ reps[p].cur = m.cur
        /\ \A q \in Up : reps[q].cur <= m.cur
        /\ \A x \in net : x[1] # r
        => \E q \in Up \ {r} : Help(q, r) # {}

\* f+1 replicas have asked to leave the view v.
Asked(v) == Cardinality({c \in asked : c[2] = v}) >= F + 1
============================================================================
