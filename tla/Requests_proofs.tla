-------------------------- MODULE Requests_proofs --------------------------
(***************************************************************************)
(* Proofs about the way of a client's request before and after agreement.  *)
(*   PreExec: what the primary passes on for consensus was computed by     *)
(*     F + 1 replicas for that very request.  For every set of replicas,   *)
(*     every F, every set of outcomes and any number of requests.          *)
(*   Clients (Table, below): the tables of ClientsManager match the        *)
(*     reserved pages, and a request is executed once.  For every size of  *)
(*     a client batch, of the queue and of the log, any number of batches, *)
(*     restarts and state transfers.                                       *)
(*   PreExecBatch (Slots, below): the primary releases every batch of      *)
(*     pre-processing.  For every size and number of batches.              *)
(***************************************************************************)
EXTENDS PreExec, Integers, FiniteSetTheorems, WellFoundedInduction, TLAPS

(* A finite group with its primary, and what the bounds range over *)
Setup ==
    /\ IsFiniteSet(Replicas) /\ Primary \in Replicas
    /\ F \in Nat /\ MaxSeq \in Nat /\ MaxRetry \in Nat \ {0}

-----------------------------------------------------------------------------
(* The parts of the inductive invariant *)

(* A RequestProcessingState *)
States ==
    [seq : Seqs, now : BOOLEAN, hash : Outcomes \cup {None}, n : Nat, rejected : SUBSET Peers,
     hashes : [Outcomes -> SUBSET Replicas]]

(* The hashes a state e has collected are those of executions of its       *)
(* request, and the primary's own is there once it has executed.           *)
Collected(e, done) ==
    /\ e \in States
    /\ e.now \/ e.hash \in Outcomes
    /\ \A o \in Outcomes : \A r \in e.hashes[o] : <<r, e.seq, o>> \in done

EntryIsCollected == entry # None => Collected(entry, ran) /\ hist <= entry.seq

(* A reply that is not a rejection says what its sender computed. *)
RepliesAreTrue ==
    \A m \in replies :
        /\ m.from \in Peers /\ m.seq \in Seqs
        /\ m.status # "REJECT" => m.o \in Outcomes /\ <<m.from, m.seq, m.o>> \in ran

Requests == [to : Peers, seq : Seqs, retry : Nat]

RequestsAreKnown == reqs \subseteq Requests /\ busy \in [Peers -> Requests \cup {None}]

PassedIsOrdered ==
    /\ passed \in Seq([seq : Seqs, o : Outcomes, sigs : SUBSET Replicas])
    /\ \A i \in 1 .. Len(passed) : passed[i].seq <= hist

PInv ==
    /\ hist \in 0 .. MaxSeq /\ retry \in 1 .. MaxRetry
    /\ EntryIsCollected /\ RepliesAreTrue /\ RequestsAreKnown /\ PassedIsOrdered
    /\ ComputedByQuorum /\ NeverOlder

-----------------------------------------------------------------------------
(* What a state becomes *)

(* A hash is added by a replica that computed it. *)
LEMMA AddSignatureCollects ==
    ASSUME NEW e, NEW done, Collected(e, done), NEW o \in Outcomes, NEW r \in Replicas,
           <<r, e.seq, o>> \in done
    PROVE  Collected(AddSignature(e, o, r), done) /\ AddSignature(e, o, r).seq = e.seq
<1> DEFINE d == AddSignature(e, o, r)
<1>1. /\ d.seq = e.seq /\ d.now = e.now /\ d.hash = e.hash /\ d.n = e.n + 1
      /\ d.rejected = e.rejected
      /\ d.hashes = [e.hashes EXCEPT ![o] = @ \cup {r}]
  BY DEF AddSignature, Collected, States
<1>2. d \in States
  <2>1. /\ e.hashes \in [Outcomes -> SUBSET Replicas] /\ e.n + 1 \in Nat /\ e \in States
        /\ [e.hashes EXCEPT ![o] = @ \cup {r}] \in [Outcomes -> SUBSET Replicas]
    BY DEF Collected, States
  <2> QED BY <2>1 DEF AddSignature, States
<1>3. \A p \in Outcomes : \A q \in d.hashes[p] : <<q, d.seq, p>> \in done
  <2>1. e.hashes \in [Outcomes -> SUBSET Replicas]
    BY DEF Collected, States
  <2> HIDE DEF d
  <2> QED BY <1>1, <2>1 DEF Collected
<1> HIDE DEF d
<1>4. Collected(d, done)
  BY <1>1, <1>2, <1>3 DEF Collected
<1> QED BY <1>1, <1>4 DEF d

(* The primary's own result. *)
LEMMA PrimaryCollects ==
    ASSUME Setup, NEW e, NEW done, Collected(e, done), NEW o \in Outcomes,
           <<Primary, e.seq, o>> \in done
    PROVE  /\ Collected(HandlePrimaryPreProcessed(e, o), done)
           /\ HandlePrimaryPreProcessed(e, o).seq = e.seq
<1> DEFINE d == IF Primary \in e.hashes[o] THEN e ELSE AddSignature(e, o, Primary)
<1>1. Collected(d, done) /\ d.seq = e.seq
  BY AddSignatureCollects DEF Setup
<1>2. HandlePrimaryPreProcessed(e, o) = [d EXCEPT !.now = FALSE, !.hash = o]
  BY DEF HandlePrimaryPreProcessed
<1> HIDE DEF d
<1> QED BY <1>1, <1>2 DEF Collected, States

(* The reply of a peer. *)
LEMMA ReplyCollects ==
    ASSUME NEW e, NEW done, Collected(e, done), NEW m, m.from \in Peers,
           m.status # "REJECT" => m.o \in Outcomes /\ <<m.from, e.seq, m.o>> \in done
    PROVE  /\ Collected(HandlePreProcessReply(e, m), done)
           /\ HandlePreProcessReply(e, m).seq = e.seq
<1>1. CASE m.status = "REJECT"
  <2>1. [e EXCEPT !.rejected = @ \cup {m.from}].seq = e.seq
    BY DEF Collected, States
  <2>2. Collected([e EXCEPT !.rejected = @ \cup {m.from}], done)
    BY DEF Collected, States
  <2> QED BY <1>1, <2>1, <2>2 DEF HandlePreProcessReply
<1>2. CASE m.status # "REJECT"
  <2>1. m.from \in Replicas /\ m.o \in Outcomes
    BY <1>2 DEF Peers
  <2> QED BY <1>2, <2>1, AddSignatureCollects DEF HandlePreProcessReply
<1> QED BY <1>1, <1>2

(* F + 1 replicas came to outcome o for request s. *)
Computed(s, o, done) ==
    Cardinality({r \in Replicas : <<r, s, o>> \in done}) >= NumOfRequiredReplies

(* A result is only passed on when F + 1 hashes are equal. *)
LEMMA CompleteIsEqual ==
    ASSUME NEW e, NEW o, ConsensusResult(e, o) = "COMPLETE"
    PROVE  EnoughEqual(e, o)
BY DEF ConsensusResult

(* F + 1 equal hashes are as many executions with that outcome. *)
LEMMA EqualIsComputed ==
    ASSUME Setup, NEW e, NEW done, Collected(e, done), NEW o \in Outcomes, EnoughEqual(e, o)
    PROVE  Computed(e.seq, o, done)
<1> DEFINE R == {r \in Replicas : <<r, e.seq, o>> \in done}
<1>1. e.hashes[o] \subseteq R /\ R \subseteq Replicas
  BY DEF Collected, States
<1>2. IsFiniteSet(R)
  BY <1>1, FS_Subset DEF Setup
<1> HIDE DEF R
<1>3. IsFiniteSet(e.hashes[o]) /\ Cardinality(e.hashes[o]) <= Cardinality(R)
  BY <1>1, <1>2, FS_Subset
<1>4. Cardinality(e.hashes[o]) \in Nat /\ Cardinality(R) \in Nat
  BY <1>2, <1>3, FS_CardinalityType
<1>5. Cardinality(R) >= NumOfRequiredReplies
  BY <1>3, <1>4 DEF EnoughEqual, NumOfRequiredReplies, Setup
<1> QED BY <1>5 DEF R, Computed

(* What is in a sequence over S is in S. *)
LEMMA ElementIsTyped ==
    ASSUME NEW S, NEW s \in Seq(S)
    PROVE  \A i \in 1 .. Len(s) : s[i] \in S
OBVIOUS

(* What was computed stays computed. *)
LEMMA ComputedStays ==
    ASSUME Setup, NEW done, NEW more, done \subseteq more, NEW s, NEW o, Computed(s, o, done)
    PROVE  Computed(s, o, more)
<1> DEFINE D == {r \in Replicas : <<r, s, o>> \in done}
           M == {r \in Replicas : <<r, s, o>> \in more}
<1>1. D \subseteq M /\ M \subseteq Replicas
  OBVIOUS
<1>2. Cardinality(D) >= NumOfRequiredReplies
  BY DEF Computed
<1> SUFFICES Cardinality(M) >= NumOfRequiredReplies
  BY DEF Computed
<1> HIDE DEF D, M
<1>3. IsFiniteSet(M)
  BY <1>1, FS_Subset DEF Setup
<1>4. IsFiniteSet(D) /\ Cardinality(D) <= Cardinality(M)
  BY <1>1, <1>3, FS_Subset
<1>5. Cardinality(D) \in Nat /\ Cardinality(M) \in Nat /\ NumOfRequiredReplies \in Nat
  BY <1>3, <1>4, FS_CardinalityType DEF NumOfRequiredReplies, Setup
<1> QED BY <1>2, <1>4, <1>5

(* What a state has collected stays true. *)
LEMMA CollectedStays ==
    ASSUME NEW e, NEW done, NEW more, done \subseteq more, Collected(e, done)
    PROVE  Collected(e, more)
BY DEF Collected

(* The results that were passed on stay as they are, whatever is executed. *)
LEMMA PassedStays ==
    ASSUME Setup, PInv, ran \subseteq ran', UNCHANGED <<passed, hist>>
    PROVE  PassedIsOrdered' /\ ComputedByQuorum' /\ NeverOlder'
<1>1. PassedIsOrdered' /\ NeverOlder'
  BY DEF PInv, PassedIsOrdered, NeverOlder
<1>2. ASSUME NEW i \in 1 .. Len(passed) PROVE Computed(passed[i].seq, passed[i].o, ran')
  <2>1. Computed(passed[i].seq, passed[i].o, ran)
    BY DEF PInv, ComputedByQuorum, Computed
  <2> QED BY <2>1, ComputedStays
<1>3. ComputedByQuorum'
  BY <1>2 DEF ComputedByQuorum, Computed
<1> QED BY <1>1, <1>3

(* holdCompleteOrCancelRequest *)
LEMMA DecideStep ==
    ASSUME Setup, PInv, NEW e, Collected(e, ran'), hist <= e.seq, NEW o \in Outcomes,
           Decide(e, o), ran \subseteq ran', UNCHANGED retry, RepliesAreTrue', RequestsAreKnown'
    PROVE  PInv'
<1>1. /\ e.seq \in Seqs /\ e.seq \in 0 .. MaxSeq /\ hist \in 0 .. MaxSeq /\ e \in States
      /\ passed \in Seq([seq : Seqs, o : Outcomes, sigs : SUBSET Replicas])
  BY DEF Collected, States, Seqs, PInv, PassedIsOrdered, Setup
<1>2. CASE ConsensusResult(e, o) # "COMPLETE"
  <2>1. UNCHANGED <<passed, hist, replica>> /\ entry' \in {e, None}
    BY <1>2 DEF Decide
  <2>2. EntryIsCollected'
    BY <2>1 DEF EntryIsCollected
  <2> QED BY <2>1, <2>2, PassedStays DEF PInv
<1>3. CASE ConsensusResult(e, o) = "COMPLETE"
  <2> DEFINE x == [seq |-> e.seq, o |-> o, sigs |-> ResultSignatures(e, o)]
  <2>1. entry' = None /\ passed' = Append(passed, x) /\ hist' = e.seq
    BY <1>3 DEF Decide
  <2>2. x \in [seq : Seqs, o : Outcomes, sigs : SUBSET Replicas]
    <3>1. ResultSignatures(e, o) \in SUBSET Replicas
      <4>1. e.hash \in Outcomes
        BY <1>3 DEF Collected, ConsensusResult
      <4> QED BY <1>1, <4>1 DEF ResultSignatures, Signatures, States, Setup
    <3> QED BY <1>1, <3>1
  <2>3. Computed(e.seq, o, ran')
    BY <1>3, CompleteIsEqual, EqualIsComputed
  <2>4. x.seq = e.seq /\ x.o = o
    OBVIOUS
  <2> HIDE DEF x
  <2>5. /\ passed' \in Seq([seq : Seqs, o : Outcomes, sigs : SUBSET Replicas])
        /\ Len(passed') = Len(passed) + 1 /\ passed'[Len(passed) + 1] = x
        /\ \A i \in 1 .. Len(passed) : passed'[i] = passed[i]
    BY <1>1, <2>1, <2>2
  <2>6. /\ \A i \in 1 .. Len(passed) : passed[i].seq <= hist
        /\ \A i \in 1 .. Len(passed) : passed[i].seq \in Seqs
    <3>1. \A i \in 1 .. Len(passed) : passed[i] \in [seq : Seqs, o : Outcomes, sigs : SUBSET Replicas]
      BY <1>1, ElementIsTyped
    <3>2. \A i \in 1 .. Len(passed) : passed[i].seq <= hist
      BY DEF PInv, PassedIsOrdered
    <3> QED BY <3>1, <3>2
  <2>7. \A i \in 1 .. Len(passed) : passed[i].seq <= e.seq
    BY <1>1, <2>6 DEF Seqs
  <2>8. \A i \in 1 .. Len(passed') : i \in 1 .. Len(passed) \/ i = Len(passed) + 1
    BY <1>1, <2>5
  <2>9. PassedIsOrdered'
    BY <1>1, <2>1, <2>4, <2>5, <2>7, <2>8 DEF PassedIsOrdered, Seqs
  <2>10. NeverOlder'
    <3>1. \A i, j \in 1 .. Len(passed) : i < j => passed[i].seq <= passed[j].seq
      BY DEF PInv, NeverOlder
    <3>2. Len(passed) \in Nat
      BY <1>1
    <3>3. ASSUME NEW i \in 1 .. Len(passed'), NEW j \in 1 .. Len(passed'), i < j
          PROVE  passed'[i].seq <= passed'[j].seq
      <4>1. i \in 1 .. Len(passed)
        BY <2>5, <3>2, <3>3
      <4>2. CASE j \in 1 .. Len(passed)
        BY <2>5, <3>1, <3>3, <4>1, <4>2
      <4>3. CASE j = Len(passed) + 1
        BY <2>4, <2>5, <2>7, <4>1, <4>3
      <4> QED BY <2>8, <4>2, <4>3
    <3> QED BY <3>3 DEF NeverOlder
  <2>11. ComputedByQuorum'
    <3>1. ASSUME NEW i \in 1 .. Len(passed') PROVE Computed(passed'[i].seq, passed'[i].o, ran')
      <4>1. CASE i \in 1 .. Len(passed)
        <5>1. Computed(passed[i].seq, passed[i].o, ran)
          BY <4>1 DEF PInv, ComputedByQuorum, Computed
        <5>2. Computed(passed[i].seq, passed[i].o, ran')
          BY <5>1, ComputedStays
        <5> QED BY <2>5, <4>1, <5>2
      <4>2. CASE i = Len(passed) + 1
        BY <2>3, <2>4, <2>5, <4>2
      <4> QED BY <2>8, <4>1, <4>2
    <3> QED BY <3>1 DEF ComputedByQuorum, Computed
  <2>12. EntryIsCollected'
    BY <2>1 DEF EntryIsCollected
  <2> QED BY <1>1, <2>1, <2>9, <2>10, <2>11, <2>12 DEF PInv
<1> QED BY <1>2, <1>3

-----------------------------------------------------------------------------
(* Every action keeps the invariant *)

(* What is most frequent among the hashes is an outcome. *)
LEMMA MostFrequentIsOutcome == ASSUME NEW e, NEW o \in MostFrequent(e) PROVE o \in Outcomes
BY DEF MostFrequent

(* The primary registers a request of the client. *)
LEMMA ClientRequestStep == ASSUME Setup, PInv, NEW s \in Seqs, ClientRequest(s) PROVE PInv'
<1>1. /\ entry' = NewState(s) /\ retry' = retry + 1 /\ retry < MaxRetry /\ ~(hist > s)
      /\ reqs' = reqs \cup {[to |-> r, seq |-> s, retry |-> retry + 1] : r \in Peers}
      /\ UNCHANGED <<hist, busy, replies, ran, passed>>
  BY DEF ClientRequest, Register, PreProcessedBefore
<1>2. retry' \in 1 .. MaxRetry /\ retry + 1 \in Nat /\ hist \in 0 .. MaxSeq
  BY <1>1 DEF PInv, Setup
<1>3. EntryIsCollected'
  <2>1. Collected(NewState(s), ran) /\ NewState(s).seq = s
    BY DEF NewState, Collected, States
  <2>2. hist <= s
    BY <1>1, <1>2 DEF Seqs
  <2> QED BY <1>1, <2>1, <2>2 DEF EntryIsCollected
<1>4. RequestsAreKnown'
  BY <1>1, <1>2 DEF PInv, RequestsAreKnown, Requests
<1>5. RepliesAreTrue'
  BY <1>1 DEF PInv, RepliesAreTrue
<1> QED BY <1>1, <1>2, <1>3, <1>4, <1>5, PassedStays DEF PInv

(* The primary executes the request it registered. *)
LEMMA PrimaryExecutesStep == ASSUME Setup, PInv, PrimaryExecutes PROVE PInv'
<1>1. PICK o \in Outcomes :
        /\ entry # None
        /\ ran' = ran \cup {<<Primary, entry.seq, o>>}
        /\ \E h \in MostFrequent(HandlePrimaryPreProcessed(entry, o)) :
               Decide(HandlePrimaryPreProcessed(entry, o), h)
        /\ UNCHANGED <<retry, reqs, busy, replies>>
  BY DEF PrimaryExecutes
<1> DEFINE e == HandlePrimaryPreProcessed(entry, o)
<1>2. Collected(entry, ran) /\ hist <= entry.seq /\ ran \subseteq ran'
  BY <1>1 DEF PInv, EntryIsCollected
<1>3. Collected(e, ran') /\ e.seq = entry.seq
  <2>1. Collected(entry, ran') /\ <<Primary, entry.seq, o>> \in ran'
    BY <1>1, <1>2, CollectedStays
  <2> QED BY <2>1, PrimaryCollects
<1>4. PICK h \in MostFrequent(e) : Decide(e, h)
  BY <1>1
<1> HIDE DEF e
<1>5. h \in Outcomes /\ hist <= e.seq
  BY <1>2, <1>3, MostFrequentIsOutcome
<1>6. RepliesAreTrue' /\ RequestsAreKnown'
  BY <1>1, <1>2 DEF PInv, RepliesAreTrue, RequestsAreKnown
<1> QED BY <1>1, <1>2, <1>3, <1>4, <1>5, <1>6, DecideStep

(* Requests that are sent again are requests. *)
LEMMA ResendIsKnown ==
    ASSUME PInv, NEW e \in States
    PROVE  ResendTo(e) \subseteq Requests
BY DEF ResendTo, Requests, States, PInv

(* The primary adds the reply of a replica, and perhaps decides. *)
LEMMA ReceiveReplyStep == ASSUME Setup, PInv, ReceiveReply PROVE PInv'
<1>1. PICK m \in replies :
        /\ replies' = replies \ {m}
        /\ IF entry = None \/ entry.seq # m.seq
           THEN UNCHANGED <<entry, last, passed, hist, replica, reqs>>
           ELSE LET e == HandlePreProcessReply(entry, m)
                IN IF m.status = "REJECT"
                   THEN entry' = e /\ UNCHANGED <<last, passed, hist, replica, reqs>>
                   ELSE \E h \in MostFrequent(e) :
                          IF ConsensusResult(e, h) = "CONTINUE"
                          THEN /\ reqs' = reqs \cup ResendTo(e)
                               /\ Decide([e EXCEPT !.rejected = {}], h)
                          ELSE Decide(e, h) /\ UNCHANGED reqs
        /\ UNCHANGED <<retry, busy, ran>>
  BY DEF ReceiveReply
<1>2. RepliesAreTrue'
  BY <1>1 DEF PInv, RepliesAreTrue
<1>3. CASE entry = None \/ entry.seq # m.seq
  BY <1>1, <1>2, <1>3, PassedStays DEF PInv, EntryIsCollected, RequestsAreKnown
<1>4. CASE ~(entry = None \/ entry.seq # m.seq)
  <2> DEFINE e == HandlePreProcessReply(entry, m)
  <2>1. Collected(entry, ran) /\ hist <= entry.seq /\ entry.seq = m.seq
    BY <1>4 DEF PInv, EntryIsCollected
  <2>2. /\ m.from \in Peers
        /\ m.status # "REJECT" => m.o \in Outcomes /\ <<m.from, entry.seq, m.o>> \in ran
    BY <1>1, <2>1 DEF PInv, RepliesAreTrue
  <2>3. Collected(e, ran) /\ e.seq = entry.seq
    BY <2>1, <2>2, ReplyCollects
  <2> HIDE DEF e
  <2>4. CASE m.status = "REJECT"
    <3>1. entry' = e /\ UNCHANGED <<passed, hist, reqs>>
      BY <1>1, <1>4, <2>4 DEF e
    <3> QED BY <1>1, <1>2, <2>1, <2>3, <3>1, PassedStays DEF PInv, EntryIsCollected, RequestsAreKnown
  <2>5. CASE m.status # "REJECT"
    <3>1. PICK h \in MostFrequent(e) :
            IF ConsensusResult(e, h) = "CONTINUE"
            THEN reqs' = reqs \cup ResendTo(e) /\ Decide([e EXCEPT !.rejected = {}], h)
            ELSE Decide(e, h) /\ UNCHANGED reqs
      BY <1>1, <1>4, <2>5 DEF e
    <3>2. h \in Outcomes /\ hist <= e.seq
      BY <2>1, <2>3, MostFrequentIsOutcome
    <3>3. CASE ConsensusResult(e, h) = "CONTINUE"
      <4> DEFINE d == [e EXCEPT !.rejected = {}]
      <4>1. Collected(d, ran) /\ d.seq = e.seq
        BY <2>3 DEF Collected, States
      <4>2. ResendTo(e) \subseteq Requests
        BY <2>3, ResendIsKnown DEF Collected
      <4>3. RequestsAreKnown'
        BY <1>1, <3>1, <3>3, <4>2 DEF PInv, RequestsAreKnown
      <4>4. Decide(d, h)
        BY <3>1, <3>3
      <4> HIDE DEF d
      <4>5. Collected(d, ran') /\ hist <= d.seq /\ ran \subseteq ran' /\ UNCHANGED retry
        BY <1>1, <3>2, <4>1
      <4> QED BY <1>2, <3>2, <4>3, <4>4, <4>5, DecideStep
    <3>4. CASE ConsensusResult(e, h) # "CONTINUE"
      <4>1. Decide(e, h) /\ RequestsAreKnown' /\ Collected(e, ran') /\ ran \subseteq ran'
        BY <1>1, <2>3, <3>1, <3>4 DEF PInv, RequestsAreKnown
      <4> QED BY <1>1, <1>2, <3>2, <4>1, DecideStep
    <3> QED BY <3>3, <3>4
  <2> QED BY <2>4, <2>5
<1> QED BY <1>3, <1>4

(* The timer of the primary gives up or asks for a retry. *)
LEMMA StatusTimerStep ==
    ASSUME Setup, PInv, StatusTimerExpires \/ StatusTimerResends
    PROVE  PInv'
<1>1. UNCHANGED <<hist, retry, busy, replies, ran, passed>>
  BY DEF StatusTimerExpires, StatusTimerResends
<1>2. RepliesAreTrue'
  BY <1>1 DEF PInv, RepliesAreTrue
<1>3. CASE StatusTimerExpires
  BY <1>1, <1>2, <1>3, PassedStays DEF StatusTimerExpires, PInv, EntryIsCollected, RequestsAreKnown
<1>4. CASE StatusTimerResends
  <2>1. /\ entry # None /\ entry' = [entry EXCEPT !.rejected = {}]
        /\ reqs' = reqs \cup ResendTo(entry)
    BY <1>4 DEF StatusTimerResends
  <2>2. Collected(entry, ran) /\ hist <= entry.seq
    BY <2>1 DEF PInv, EntryIsCollected
  <2>3. Collected(entry', ran) /\ entry'.seq = entry.seq
    BY <2>1, <2>2 DEF Collected, States
  <2>4. EntryIsCollected'
    BY <1>1, <2>2, <2>3 DEF EntryIsCollected
  <2>5. RequestsAreKnown'
    BY <1>1, <2>1, <2>2, ResendIsKnown DEF PInv, RequestsAreKnown, Collected
  <2> QED BY <1>1, <1>2, <2>4, <2>5, PassedStays DEF PInv
<1> QED BY <1>3, <1>4

(* The peers *)
LEMMA PeerReceivesStep == ASSUME Setup, PInv, PeerReceives PROVE PInv'
<1>1. PICK m \in reqs :
        /\ reqs' = reqs \ {m}
        /\ IF busy[m.to] = None
           THEN busy' = [busy EXCEPT ![m.to] = m] /\ UNCHANGED replies
           ELSE /\ replies' = replies \cup {[from |-> m.to, seq |-> m.seq, retry |-> m.retry,
                                             status |-> "REJECT"]}
                /\ UNCHANGED busy
        /\ UNCHANGED <<entry, hist, retry, ran, passed>>
  BY DEF PeerReceives
<1>2. m \in Requests /\ m.to \in Peers /\ m.seq \in Seqs
  BY <1>1 DEF PInv, RequestsAreKnown, Requests
<1>3. RequestsAreKnown'
  BY <1>1, <1>2 DEF PInv, RequestsAreKnown
<1>4. RepliesAreTrue'
  <2> DEFINE x == [from |-> m.to, seq |-> m.seq, retry |-> m.retry, status |-> "REJECT"]
  <2>1. x.from = m.to /\ x.seq = m.seq /\ x.status = "REJECT"
    OBVIOUS
  <2>2. replies' \subseteq replies \cup {x} /\ ran' = ran
    BY <1>1
  <2> HIDE DEF x
  <2> QED BY <1>2, <2>1, <2>2 DEF PInv, RepliesAreTrue
<1>5. EntryIsCollected'
  BY <1>1 DEF PInv, EntryIsCollected
<1> QED BY <1>1, <1>3, <1>4, <1>5, PassedStays DEF PInv

(* Another replica executes what it was asked to, and replies. *)
LEMMA PeerExecutesStep == ASSUME Setup, PInv, PeerExecutes PROVE PInv'
<1>1. PICK r \in Peers, o \in Outcomes :
        /\ busy[r] # None
        /\ busy' = [busy EXCEPT ![r] = None]
        /\ ran' = ran \cup {<<r, busy[r].seq, o>>}
        /\ replies' = replies \cup {[from |-> r, seq |-> busy[r].seq, retry |-> busy[r].retry, o |-> o,
                                     status |-> IF o.op = "SUCCESS" THEN "GOOD" ELSE "FAILED"]}
        /\ UNCHANGED <<entry, hist, retry, reqs, passed>>
  BY DEF PeerExecutes
<1>2. busy[r].seq \in Seqs /\ ran \subseteq ran'
  BY <1>1 DEF PInv, RequestsAreKnown, Requests
<1>3. RequestsAreKnown'
  BY <1>1 DEF PInv, RequestsAreKnown
<1>4. RepliesAreTrue'
  <2> DEFINE x == [from |-> r, seq |-> busy[r].seq, retry |-> busy[r].retry, o |-> o,
                   status |-> IF o.op = "SUCCESS" THEN "GOOD" ELSE "FAILED"]
  <2>1. x.from = r /\ x.seq = busy[r].seq /\ x.o = o
    OBVIOUS
  <2>2. replies' = replies \cup {x} /\ <<r, busy[r].seq, o>> \in ran'
    BY <1>1
  <2> HIDE DEF x
  <2> QED BY <1>2, <2>1, <2>2 DEF PInv, RepliesAreTrue
<1>5. EntryIsCollected'
  <2>1. ASSUME entry # None PROVE Collected(entry, ran') /\ hist <= entry.seq
    BY <1>2, <2>1, CollectedStays DEF PInv, EntryIsCollected
  <2> QED BY <1>1, <2>1 DEF EntryIsCollected
<1> QED BY <1>1, <1>2, <1>3, <1>4, <1>5, PassedStays DEF PInv

-----------------------------------------------------------------------------
(* The theorem *)

(* Initially nothing was requested and nothing was passed on. *)
LEMMA PInvInit == ASSUME Setup, Init PROVE PInv
<1>1. passed = <<>> /\ Len(passed) = 0
  BY DEF Init
<1>2. PassedIsOrdered /\ ComputedByQuorum /\ NeverOlder
  BY <1>1 DEF PassedIsOrdered, ComputedByQuorum, NeverOlder
<1>3. hist \in 0 .. MaxSeq /\ retry \in 1 .. MaxRetry
  BY DEF Init, Setup
<1>4. EntryIsCollected /\ RepliesAreTrue /\ RequestsAreKnown
  BY DEF Init, EntryIsCollected, RepliesAreTrue, RequestsAreKnown
<1> QED BY <1>2, <1>3, <1>4 DEF PInv

(* Every step keeps the invariant. *)
LEMMA PInvStep == ASSUME Setup, PInv, [Next]_vars PROVE PInv'
<1>1. CASE UNCHANGED vars \/ ReplicaMoves
  <2>1. UNCHANGED <<entry, hist, retry, reqs, busy, replies, ran, passed>>
    BY <1>1 DEF vars, ReplicaMoves
  <2>2. EntryIsCollected' /\ RepliesAreTrue' /\ RequestsAreKnown'
    BY <2>1 DEF PInv, EntryIsCollected, RepliesAreTrue, RequestsAreKnown
  <2> QED BY <2>1, <2>2, PassedStays DEF PInv
<1>2. CASE \E s \in Seqs : ClientRequest(s)
  BY <1>2, ClientRequestStep
<1>3. CASE PrimaryExecutes
  BY <1>3, PrimaryExecutesStep
<1>4. CASE ReceiveReply
  BY <1>4, ReceiveReplyStep
<1>5. CASE StatusTimerExpires \/ StatusTimerResends
  BY <1>5, StatusTimerStep
<1>6. CASE PeerReceives
  BY <1>6, PeerReceivesStep
<1>7. CASE PeerExecutes
  BY <1>7, PeerExecutesStep
<1> QED BY <1>1, <1>2, <1>3, <1>4, <1>5, <1>6, <1>7 DEF Next

(* However late, repeated or rejected the answers of the peers are, a      *)
(* result that definePreProcessingConsensusResult completes was computed   *)
(* by F + 1 different replicas for that very request, and after a request  *)
(* no older one of the client is passed on (isRequestPreProcessedBefore).  *)
THEOREM ResultsAreAgreed == ASSUME Setup PROVE Spec => []AgreedByQuorum
<1>1. Init => PInv
  BY PInvInit
<1>2. PInv /\ [Next]_vars => PInv'
  BY PInvStep
<1>3. PInv => AgreedByQuorum
  <2> SUFFICES ASSUME PInv PROVE TypeOK
    BY DEF PInv, AgreedByQuorum
  <2>1. \A i \in 1 .. Len(passed) : passed[i] \in [seq : Seqs, o : Outcomes, sigs : SUBSET Replicas]
    BY ElementIsTyped DEF PInv, PassedIsOrdered
  <2>2. entry # None => /\ entry.seq \in Seqs /\ (entry.now \/ entry.hash \in Outcomes)
                        /\ entry.n \in Nat /\ entry.rejected \subseteq Peers
    BY DEF PInv, EntryIsCollected, Collected, States
  <2> QED BY <2>1, <2>2 DEF PInv, TypeOK
<1> QED BY <1>1, <1>2, <1>3, PTL DEF Spec

-----------------------------------------------------------------------------
(***************************************************************************)
(* The tables of ClientsManager                                            *)
(***************************************************************************)
CONSTANTS MaxNumOfReqsPerClient, MaxNumOfRequestsInBatch, MaxPrimaryQueueSize, ConcurrencyLevel,
          ProposalSize, Batches, MaxRestarts, StaleDuplicates
VARIABLES requestsMap, committed, saved, pages, isPrimary, requestsQueueOfPrimary, mainLog, sent,
          answered, executions, restarts

Table == INSTANCE Clients WITH replies <- saved

TableSizes ==
    /\ MaxNumOfReqsPerClient \in Nat \ {0} /\ MaxNumOfRequestsInBatch \in Nat
    /\ MaxPrimaryQueueSize \in Nat /\ ConcurrencyLevel \in Nat
    /\ ProposalSize \in Nat /\ Batches \in Nat /\ MaxRestarts \in Nat

(* The client batch of a request *)
BatchOf(q) == (q - 1) \div MaxNumOfReqsPerClient

-----------------------------------------------------------------------------
(* Numbers.  The batch and the index of a request are quotient and         *)
(* remainder.                                                              *)

LEMMA LeastNat ==
    ASSUME NEW S \in SUBSET Nat, S # {}
    PROVE  \E x \in S : \A y \in S : x <= y
<1> DEFINE R == OpToRel(<, Nat)
<1>1. IsWellFoundedOn(R, Nat)
  BY NatLessThanWellFounded
<1>2. PICK x \in S : \A y \in S : ~(<<y, x>> \in R)
  <2> HIDE DEF R
  <2> QED BY <1>1, WFMin
<1>3. \A y \in S : ~(y < x)
  BY <1>2 DEF OpToRel
<1> QED BY <1>3

LEMMA GreatestNat ==
    ASSUME NEW b \in Nat, NEW S \in SUBSET (0 .. b), S # {}
    PROVE  \E x \in S : \A y \in S : y <= x
<1> DEFINE T == {n \in 0 .. b : b - n \in S}
<1>1. T \in SUBSET Nat /\ T # {}
  <2>1. PICK x \in S : TRUE OBVIOUS
  <2>2. b - x \in T BY <2>1
  <2> QED BY <2>2
<1>2. PICK n \in T : \A m \in T : n <= m
  <2> HIDE DEF T
  <2> QED BY <1>1, LeastNat
<1>3. \A y \in S : b - y \in T
  OBVIOUS
<1>4. \A y \in S : n <= b - y
  BY <1>2, <1>3
<1> QED BY <1>2, <1>4

(* Induction over the steps of a loop, for the set of steps at which       *)
(* something holds                                                         *)
LEMMA StepByStep ==
    ASSUME NEW S, 0 \in S, \A k \in Nat : k \in S => k + 1 \in S
    PROVE  \A k \in Nat : k \in S
<1> SUFFICES ASSUME Nat \ S # {} PROVE FALSE
  OBVIOUS
<1>1. PICK x \in Nat \ S : \A y \in Nat \ S : x <= y
  <2> DEFINE D == Nat \ S
  <2>1. D \in SUBSET Nat /\ D # {}
    OBVIOUS
  <2> HIDE DEF D
  <2>2. \E x \in D : \A y \in D : x <= y
    BY <2>1, LeastNat
  <2> QED BY <2>2 DEF D
<1>2. x # 0 /\ x - 1 \in Nat /\ x = (x - 1) + 1
  BY <1>1
<1>3. x - 1 \in S
  BY <1>1, <1>2
<1> QED BY <1>1, <1>2, <1>3

LEMMA Positive == ASSUME NEW x \in Int, NEW n \in Nat \ {0}, n * x > 0 PROVE x > 0
<1> SUFFICES ASSUME x <= 0 PROVE FALSE
  OBVIOUS
<1>1. n * x <= 0
  BY SMTT(30)
<1>2. n * x \in Int
  OBVIOUS
<1> QED BY <1>1, <1>2

LEMMA Distributes == ASSUME NEW n \in Nat, NEW x \in Int, NEW y \in Int PROVE n * (x - y) = n * x - n * y
BY SMTT(30)

LEMMA Remainder ==
    ASSUME NEW T \in Nat \ {0}, NEW x \in Int
    PROVE  x % T \in 0 .. T - 1 /\ x \div T \in Int /\ x = T * (x \div T) + (x % T)
<1>1. x % T \in 0 .. T - 1
  BY SMTT(30)
<1>2. x \div T \in Int
  BY SMTT(30)
<1>3. x = T * (x \div T) + (x % T)
  BY SMTT(30)
<1> QED BY <1>1, <1>2, <1>3

LEMMA Division ==
    ASSUME NEW a \in Nat, NEW n \in Nat \ {0}
    PROVE  a \div n \in Nat /\ a % n \in 0 .. n - 1 /\ a = n * (a \div n) + (a % n)
<1>0. a \in Int
  OBVIOUS
<1>1. a % n \in 0 .. n - 1
  BY <1>0, Remainder, Zenon
<1>2. a \div n \in Int
  BY <1>0, Remainder, Zenon
<1>3. a = n * (a \div n) + (a % n)
  BY <1>0, Remainder, Zenon
<1> DEFINE d == a \div n
           m == a % n
<1>4. d \in Int /\ m \in 0 .. n - 1 /\ a = n * d + m
  BY <1>1, <1>2, <1>3
<1> HIDE DEF d, m
<1>5. n * (d - (-1)) = n * d - n * (-1) /\ n * (-1) = -n /\ n * d \in Int
  BY <1>4, Distributes
<1>6. n * (d - (-1)) > 0 /\ d - (-1) \in Int
  BY <1>4, <1>5
<1>7. d - (-1) > 0
  BY <1>6, Positive
<1>8. d \in Nat
  BY <1>4, <1>7
<1> QED BY <1>1, <1>3, <1>8 DEF d

LEMMA BatchFacts ==
    ASSUME TableSizes, NEW q \in Nat \ {0}
    PROVE  /\ BatchOf(q) \in Nat /\ Table!Index(q) \in Table!Indices
           /\ q = MaxNumOfReqsPerClient * BatchOf(q) + Table!Index(q) + 1
<1> DEFINE n == MaxNumOfReqsPerClient
           a == q - 1
<1>1. n \in Nat \ {0} /\ a \in Nat /\ q = a + 1
  BY DEF TableSizes
<1> HIDE DEF n, a
<1>2. a \div n \in Nat /\ a % n \in 0 .. n - 1 /\ a = n * (a \div n) + (a % n)
  BY <1>1, Division
<1>3. BatchOf(q) = a \div n /\ Table!Index(q) = a % n /\ Table!Indices = 0 .. n - 1
  BY DEF BatchOf, Table!Index, Table!Indices, n, a
<1> DEFINE d == a \div n
           m == a % n
<1>4. d \in Nat /\ m \in Int /\ a = n * d + m
  BY <1>1, <1>2
<1> HIDE DEF d, m
<1>5. n * d \in Int
  BY <1>1, <1>4
<1>6. \A x, y, z, w \in Int : w = x + y /\ z = w + 1 => z = x + y + 1
  OBVIOUS
<1>7. q = n * d + m + 1
  BY <1>1, <1>4, <1>5, <1>6
<1> QED BY <1>2, <1>3, <1>7 DEF n, d, m

(* The requests of the first s batches *)
LEMMA BatchOrder ==
    ASSUME TableSizes, NEW q \in Nat \ {0}, NEW s \in Nat
    PROVE  BatchOf(q) < s <=> q <= s * MaxNumOfReqsPerClient
<1> DEFINE n == MaxNumOfReqsPerClient
           b == BatchOf(q)
           i == Table!Index(q)
<1>1. n \in Nat \ {0} /\ b \in Nat /\ i \in 0 .. n - 1 /\ q = n * b + i + 1
  BY BatchFacts DEF TableSizes, Table!Indices
<1> HIDE DEF n, b, i
<1>2. /\ n * (s - b) = n * s - n * b /\ n * (b - s) = n * b - n * s /\ n * s = s * n
      /\ n * s \in Nat /\ n * b \in Nat
  BY <1>1, Distributes
<1>3. ASSUME b < s PROVE q <= s * n
  <2>1. n * (s - b) >= n
    <3>1. s - b - 1 \in Nat /\ s - b \in Int
      BY <1>1, <1>3
    <3>2. n * (s - b - 1) \in Nat
      BY <1>1, <3>1
    <3>3. n * (s - b - 1) = n * (s - b) - n * 1
      BY <1>1, <3>1, Distributes
    <3>4. n * 1 = n /\ n * (s - b) \in Int
      BY <1>1, <3>1
    <3> QED BY <1>1, <3>2, <3>3, <3>4
  <2>2. n * s >= n * b + n
    BY <1>1, <1>2, <2>1
  <2> QED BY <1>1, <1>2, <2>2
<1>4. ASSUME q <= s * n PROVE b < s
  <2>1. n * (s - b) > 0
    BY <1>1, <1>2, <1>4
  <2>2. s - b > 0
    BY <1>1, <2>1, Positive
  <2> QED BY <1>1, <2>2
<1> QED BY <1>3, <1>4 DEF n, b

(* A request is known by its batch and its index. *)
LEMMA SameRequest ==
    ASSUME TableSizes, NEW p \in Nat \ {0}, NEW q \in Nat \ {0},
           BatchOf(p) = BatchOf(q), Table!Index(p) = Table!Index(q)
    PROVE  p = q
<1>1. /\ p = MaxNumOfReqsPerClient * BatchOf(p) + Table!Index(p) + 1
      /\ q = MaxNumOfReqsPerClient * BatchOf(q) + Table!Index(q) + 1
  BY BatchFacts
<1> QED BY <1>1

LEMMA TableCardinality == \A S : Table!Cardinality(S) = Cardinality(S)
BY DEF Table!Cardinality, Cardinality

-----------------------------------------------------------------------------
(* The loops over the requests of a message *)

(* The loop of Track has a result for every number of requests. *)
TrackRun(f, p0, rs, m) ==
    f = [k \in 0 .. m |-> IF k = 0 THEN p0 ELSE Table!TrackOne(rs[k], f[k - 1])]

LEMMA TrackRuns ==
    ASSUME NEW p0, NEW rs
    PROVE  \A m \in Nat : \E f : TrackRun(f, p0, rs, m)
<1> DEFINE S == {m \in Nat : \E f : TrackRun(f, p0, rs, m)}
<1>1. 0 \in S
  <2> DEFINE f == [k \in 0 .. 0 |-> p0]
  <2>1. TrackRun(f, p0, rs, 0)
    BY DEF TrackRun
  <2> HIDE DEF f
  <2> QED BY <2>1
<1>2. ASSUME NEW m \in Nat, m \in S PROVE m + 1 \in S
  <2>1. PICK f : TrackRun(f, p0, rs, m)
    BY <1>2
  <2> DEFINE g == [k \in 0 .. m + 1 |-> IF k = 0 THEN p0 ELSE Table!TrackOne(rs[k], f[k - 1])]
  <2>2. \A k \in 0 .. m : g[k] = f[k]
    BY <2>1 DEF TrackRun
  <2>3. \A k \in 0 .. m + 1 : k # 0 => k - 1 \in 0 .. m
    OBVIOUS
  <2>4. TrackRun(g, p0, rs, m + 1)
    BY <2>2, <2>3 DEF TrackRun
  <2>5. m + 1 \in Nat
    OBVIOUS
  <2> HIDE DEF g
  <2> QED BY <2>4, <2>5
<1> HIDE DEF S
<1>3. \A m \in Nat : m \in S
  BY <1>1, <1>2, StepByStep
<1> QED BY <1>3 DEF S

LEMMA TrackIsLoop ==
    ASSUME NEW p0, NEW rs, Len(rs) \in Nat
    PROVE  \E f : /\ Table!Track(p0, rs) = f[Len(rs)] /\ f[0] = p0
                  /\ \A k \in 1 .. Len(rs) : f[k] = Table!TrackOne(rs[k], f[k - 1])
<1> DEFINE run == CHOOSE f : TrackRun(f, p0, rs, Len(rs))
<1>1. TrackRun(run, p0, rs, Len(rs))
  <2> HIDE DEF TrackRun
  <2>1. \E f : TrackRun(f, p0, rs, Len(rs))
    BY TrackRuns
  <2> QED BY <2>1
<1>2. Table!Track(p0, rs) = run[Len(rs)]
  BY DEF Table!Track, TrackRun
<1> HIDE DEF run
<1>3. run[0] = p0 /\ \A k \in 1 .. Len(rs) : run[k] = Table!TrackOne(rs[k], run[k - 1])
  BY <1>1 DEF TrackRun
<1> QED BY <1>2, <1>3

(* So has the loop of AddRequests. *)
AddRun(f, p0, rs, m) ==
    f = [k \in 0 .. m |-> IF k = 0 THEN p0 ELSE Table!AddRequest(rs[k], f[k - 1])]

LEMMA AddRuns ==
    ASSUME NEW p0, NEW rs
    PROVE  \A m \in Nat : \E f : AddRun(f, p0, rs, m)
<1> DEFINE S == {m \in Nat : \E f : AddRun(f, p0, rs, m)}
<1>1. 0 \in S
  <2> DEFINE f == [k \in 0 .. 0 |-> p0]
  <2>1. AddRun(f, p0, rs, 0)
    BY DEF AddRun
  <2> HIDE DEF f
  <2> QED BY <2>1
<1>2. ASSUME NEW m \in Nat, m \in S PROVE m + 1 \in S
  <2>1. PICK f : AddRun(f, p0, rs, m)
    BY <1>2
  <2> DEFINE g == [k \in 0 .. m + 1 |-> IF k = 0 THEN p0 ELSE Table!AddRequest(rs[k], f[k - 1])]
  <2>2. \A k \in 0 .. m : g[k] = f[k]
    BY <2>1 DEF AddRun
  <2>3. \A k \in 0 .. m + 1 : k # 0 => k - 1 \in 0 .. m
    OBVIOUS
  <2>4. AddRun(g, p0, rs, m + 1)
    BY <2>2, <2>3 DEF AddRun
  <2>5. m + 1 \in Nat
    OBVIOUS
  <2> HIDE DEF g
  <2> QED BY <2>4, <2>5
<1> HIDE DEF S
<1>3. \A m \in Nat : m \in S
  BY <1>1, <1>2, StepByStep
<1> QED BY <1>3 DEF S

LEMMA AddIsLoop ==
    ASSUME NEW rs, Len(rs) \in Nat
    PROVE  \E f : /\ Table!AddRequests(rs) = f[Len(rs)] /\ f[0] = [pending |-> requestsMap, added |-> <<>>]
                  /\ \A k \in 1 .. Len(rs) : f[k] = Table!AddRequest(rs[k], f[k - 1])
<1> DEFINE p0 == [pending |-> requestsMap, added |-> <<>>]
           run == CHOOSE f : AddRun(f, p0, rs, Len(rs))
<1>1. AddRun(run, p0, rs, Len(rs))
  <2> HIDE DEF AddRun, p0
  <2>1. \E f : AddRun(f, p0, rs, Len(rs))
    BY AddRuns
  <2> QED BY <2>1
<1>2. Table!AddRequests(rs) = run[Len(rs)]
  BY DEF Table!AddRequests, AddRun
<1> HIDE DEF run
<1>3. run[0] = p0 /\ \A k \in 1 .. Len(rs) : run[k] = Table!AddRequest(rs[k], run[k - 1])
  BY <1>1 DEF AddRun
<1> QED BY <1>2, <1>3

-----------------------------------------------------------------------------
(* What the loops keep *)

LEMMA ReqIdsFinite == ASSUME TableSizes PROVE IsFiniteSet(Table!ReqIds)
<1>1. Batches * MaxNumOfReqsPerClient \in Nat
  BY DEF TableSizes
<1> QED BY <1>1, FS_Interval DEF Table!ReqIds

(* A set of requests that may be recorded *)
Pending(p) ==
    /\ p \in SUBSET Table!ReqIds /\ Cardinality(p) <= MaxNumOfReqsPerClient
    /\ \A q \in p : ~Table!hasReply(q)

LEMMA PendingShrinks == ASSUME TableSizes, NEW p, Pending(p), NEW r \in SUBSET p PROVE Pending(r)
<1>1. IsFiniteSet(p) /\ IsFiniteSet(r)
  BY ReqIdsFinite, FS_Subset DEF Pending
<1>2. Cardinality(r) <= Cardinality(p) /\ Cardinality(r) \in Nat /\ Cardinality(p) \in Nat
  BY <1>1, FS_Subset, FS_CardinalityType
<1> QED BY <1>2 DEF Pending, TableSizes

LEMMA PendingGrows ==
    ASSUME TableSizes, NEW p, Pending(p), NEW q \in Table!ReqIds, Table!CanBecomePending(q, p)
    PROVE  Pending(p \cup {q})
<1>1. IsFiniteSet(p)
  BY ReqIdsFinite, FS_Subset DEF Pending
<1>2. q \notin p /\ ~Table!hasReply(q) /\ Cardinality(p) # MaxNumOfReqsPerClient
  BY TableCardinality DEF Table!CanBecomePending
<1>3. Cardinality(p \cup {q}) = Cardinality(p) + 1 /\ Cardinality(p) \in Nat
  BY <1>1, <1>2, FS_AddElement, FS_CardinalityType
<1> QED BY <1>2, <1>3 DEF Pending, TableSizes

LEMMA TrackOneKeeps ==
    ASSUME TableSizes, NEW p, Pending(p), NEW q \in Table!ReqIds
    PROVE  Pending(Table!TrackOne(q, p))
<1> DEFINE r == Table!RemoveOutOfBounds(q, p)
<1>1. r \in SUBSET p
  BY DEF Table!RemoveOutOfBounds
<1>2. Table!TrackOne(q, p) = IF Table!CanBecomePending(q, r) THEN r \cup {q} ELSE r
  BY DEF Table!TrackOne
<1> HIDE DEF r
<1>3. Pending(r)
  BY <1>1, PendingShrinks
<1>4. CASE Table!CanBecomePending(q, r)
  BY <1>2, <1>3, <1>4, PendingGrows
<1>5. CASE ~Table!CanBecomePending(q, r)
  BY <1>2, <1>3, <1>5
<1> QED BY <1>4, <1>5

LEMMA TrackKeeps ==
    ASSUME TableSizes, NEW p, Pending(p), NEW rs \in Seq(Table!ReqIds)
    PROVE  Pending(Table!Track(p, rs))
<1>0. Len(rs) \in Nat
  OBVIOUS
<1>1. PICK f : /\ Table!Track(p, rs) = f[Len(rs)] /\ f[0] = p
               /\ \A k \in 1 .. Len(rs) : f[k] = Table!TrackOne(rs[k], f[k - 1])
  BY <1>0, TrackIsLoop
<1> DEFINE S == {k \in Nat : k <= Len(rs) => Pending(f[k])}
<1>2. 0 \in S
  BY <1>1
<1>3. ASSUME NEW k \in Nat, k \in S PROVE k + 1 \in S
  <2> SUFFICES ASSUME k + 1 <= Len(rs) PROVE Pending(f[k + 1])
    OBVIOUS
  <2>1. Pending(f[k])
    BY <1>0, <1>3
  <2>2. k + 1 \in 1 .. Len(rs) /\ (k + 1) - 1 = k
    BY <1>0
  <2>3. f[k + 1] = Table!TrackOne(rs[k + 1], f[k])
    BY <1>1, <2>2
  <2>4. rs[k + 1] \in Table!ReqIds
    BY <2>2
  <2> QED BY <2>1, <2>3, <2>4, TrackOneKeeps
<1> HIDE DEF S
<1>4. \A k \in Nat : k \in S
  BY <1>2, <1>3, StepByStep
<1> QED BY <1>0, <1>1, <1>4 DEF S

(* Requests in the order of their batches *)
Sorted(s) == \A i, j \in DOMAIN s : i < j => BatchOf(s[i]) <= BatchOf(s[j])

(* What addRequestToPrePrepareMessage keeps, after the first k requests *)
AddFits(acc, rs, k) ==
    /\ Pending(acc.pending) /\ requestsMap \in SUBSET acc.pending
    /\ acc.added \in Seq(Table!ReqIds)
    /\ \A x \in DOMAIN acc.added : \E j \in 1 .. k : acc.added[x] = rs[j]
    /\ Sorted(rs) => Sorted(acc.added)

LEMMA AddOneKeeps ==
    ASSUME TableSizes, NEW rs \in Seq(Table!ReqIds), NEW k \in Nat, k + 1 <= Len(rs),
           NEW acc, AddFits(acc, rs, k)
    PROVE  AddFits(Table!AddRequest(rs[k + 1], acc), rs, k + 1)
<1> DEFINE q == rs[k + 1]
<1>0. q \in Table!ReqIds /\ k + 1 \in DOMAIN rs /\ Len(rs) \in Nat
  OBVIOUS
<1>1. CASE ~Table!CanBecomePending(q, acc.pending)
  <2>1. Table!AddRequest(q, acc) = acc
    BY <1>1 DEF Table!AddRequest
  <2>2. \A x \in DOMAIN acc.added : \E j \in 1 .. k + 1 : acc.added[x] = rs[j]
    BY DEF AddFits
  <2> QED BY <2>1, <2>2 DEF AddFits
<1>2. CASE Table!CanBecomePending(q, acc.pending)
  <2> DEFINE p == acc.pending \cup {q}
             a == Append(acc.added, q)
  <2>1. Table!AddRequest(q, acc) = [pending |-> p, added |-> a]
    BY <1>2 DEF Table!AddRequest
  <2>2. Pending(p) /\ requestsMap \in SUBSET p
    BY <1>0, <1>2, PendingGrows DEF AddFits
  <2>3. acc.added \in Seq(Table!ReqIds)
    BY DEF AddFits
  <2>4. /\ a \in Seq(Table!ReqIds) /\ Len(a) = Len(acc.added) + 1 /\ a[Len(acc.added) + 1] = q
        /\ \A x \in DOMAIN acc.added : a[x] = acc.added[x]
        /\ DOMAIN a = DOMAIN acc.added \cup {Len(acc.added) + 1}
        /\ Len(acc.added) \in Nat /\ DOMAIN acc.added = 1 .. Len(acc.added)
    BY <1>0, <2>3
  <2> HIDE DEF a, p, q
  <2>5. \A x \in DOMAIN a : \E j \in 1 .. k + 1 : a[x] = rs[j]
    <3> SUFFICES ASSUME NEW x \in DOMAIN a PROVE \E j \in 1 .. k + 1 : a[x] = rs[j]
      OBVIOUS
    <3>1. CASE x \in DOMAIN acc.added
      <4>1. PICK j \in 1 .. k : acc.added[x] = rs[j]
        BY <3>1 DEF AddFits
      <4> QED BY <2>4, <3>1, <4>1
    <3>2. CASE x = Len(acc.added) + 1
      BY <2>4, <3>2 DEF q
    <3> QED BY <2>4, <3>1, <3>2
  <2>6. ASSUME Sorted(rs) PROVE Sorted(a)
    <3> SUFFICES ASSUME NEW i \in DOMAIN a, NEW j \in DOMAIN a, i < j
                 PROVE  BatchOf(a[i]) <= BatchOf(a[j])
      BY DEF Sorted
    <3>1. CASE j \in DOMAIN acc.added
      <4>1. i \in DOMAIN acc.added
        BY <2>4, <3>1
      <4> QED BY <2>4, <2>6, <3>1, <4>1 DEF AddFits, Sorted
    <3>2. CASE j = Len(acc.added) + 1
      <4>1. i \in DOMAIN acc.added
        BY <2>4, <3>2
      <4>2. PICK m \in 1 .. k : acc.added[i] = rs[m]
        BY <4>1 DEF AddFits
      <4>3. m \in DOMAIN rs /\ m < k + 1
        BY <1>0
      <4>4. BatchOf(rs[m]) <= BatchOf(rs[k + 1])
        BY <1>0, <2>6, <4>3 DEF Sorted
      <4> QED BY <2>4, <3>2, <4>1, <4>2, <4>4 DEF q
    <3> QED BY <2>4, <3>1, <3>2
  <2>7. AddFits([pending |-> p, added |-> a], rs, k + 1)
    BY <2>2, <2>4, <2>5, <2>6 DEF AddFits
  <2> QED BY <2>1, <2>7 DEF q
<1> QED BY <1>1, <1>2

LEMMA AddKeeps ==
    ASSUME TableSizes, Pending(requestsMap), NEW rs \in Seq(Table!ReqIds)
    PROVE  AddFits(Table!AddRequests(rs), rs, Len(rs))
<1>0. Len(rs) \in Nat
  OBVIOUS
<1>1. PICK f : /\ Table!AddRequests(rs) = f[Len(rs)]
               /\ f[0] = [pending |-> requestsMap, added |-> <<>>]
               /\ \A k \in 1 .. Len(rs) : f[k] = Table!AddRequest(rs[k], f[k - 1])
  BY <1>0, AddIsLoop
<1> DEFINE S == {k \in Nat : k <= Len(rs) => AddFits(f[k], rs, k)}
<1>2. 0 \in S
  <2>1. f[0].pending = requestsMap /\ f[0].added = <<>>
    BY <1>1
  <2>2. f[0].added \in Seq(Table!ReqIds) /\ DOMAIN f[0].added = {}
    BY <2>1
  <2> QED BY <2>1, <2>2 DEF AddFits, Sorted
<1>3. ASSUME NEW k \in Nat, k \in S PROVE k + 1 \in S
  <2> SUFFICES ASSUME k + 1 <= Len(rs) PROVE AddFits(f[k + 1], rs, k + 1)
    OBVIOUS
  <2>1. AddFits(f[k], rs, k)
    BY <1>0, <1>3
  <2>2. k + 1 \in 1 .. Len(rs) /\ (k + 1) - 1 = k
    BY <1>0
  <2>3. f[k + 1] = Table!AddRequest(rs[k + 1], f[k])
    BY <1>1, <2>2
  <2> QED BY <2>1, <2>3, AddOneKeeps
<1> HIDE DEF S
<1>4. \A k \in Nat : k \in S
  BY <1>2, <1>3, StepByStep
<1> QED BY <1>0, <1>1, <1>4 DEF S

-----------------------------------------------------------------------------
(* The primary's queue *)

(* r is s without its first d requests *)
Suffix(r, s, d) ==
    /\ r \in Seq(Table!ReqIds) /\ Len(r) = Len(s) - d
    /\ \A i \in 1 .. Len(r) : r[i] = s[i + d]

LEMMA SuffixOfRequests ==
    ASSUME NEW s \in Seq(Table!ReqIds), NEW d \in 0 .. Len(s)
    PROVE  Suffix(SubSeq(s, d + 1, Len(s)), s, d)
<1>1. Len(s) \in Nat
  OBVIOUS
<1>2. \A i \in 1 .. Len(s) : s[i] \in Table!ReqIds
  OBVIOUS
<1>3. /\ Len(SubSeq(s, d + 1, Len(s))) = Len(s) - d
      /\ \A i \in 1 .. Len(s) - d : SubSeq(s, d + 1, Len(s))[i] = s[i + d]
      /\ SubSeq(s, d + 1, Len(s)) \in Seq(Table!ReqIds)
  BY <1>1, <1>2
<1> QED BY <1>1, <1>3 DEF Suffix

LEMMA SuffixOfSuffix ==
    ASSUME NEW s \in Seq(Table!ReqIds), NEW r, NEW t, NEW d \in 0 .. Len(s), Suffix(r, s, d),
           NEW e \in 0 .. Len(r), Suffix(t, r, e)
    PROVE  Suffix(t, s, d + e) /\ d + e \in 0 .. Len(s)
<1>1. Len(s) \in Nat /\ Len(r) \in Nat /\ Len(t) \in Nat
  BY DEF Suffix
<1>2. Len(r) = Len(s) - d /\ Len(t) = Len(r) - e /\ d \in Nat /\ e \in Nat
  BY DEF Suffix
<1>3. ASSUME NEW i \in 1 .. Len(t) PROVE t[i] = s[i + (d + e)]
  <2>1. i + e \in 1 .. Len(r) /\ i + (d + e) = (i + e) + d
    BY <1>1, <1>2
  <2>2. t[i] = r[i + e] /\ r[i + e] = s[(i + e) + d]
    BY <2>1 DEF Suffix
  <2> QED BY <2>1, <2>2
<1>4. t \in Seq(Table!ReqIds)
  BY DEF Suffix
<1>5. Len(t) = Len(s) - (d + e) /\ d + e \in 0 .. Len(s)
  BY <1>1, <1>2
<1> QED BY <1>3, <1>4, <1>5 DEF Suffix

LEMMA WithoutDuplicatesIsSuffix ==
    ASSUME NEW s \in Seq(Table!ReqIds)
    PROVE  \E d \in 0 .. Len(s) : Suffix(Table!WithoutDuplicates(s), s, d)
<1> DEFINE kept == {i \in 1 .. Len(s) : Table!CanBecomePending(s[i], requestsMap)}
<1>1. Table!WithoutDuplicates(s)
        = IF kept = {} THEN <<>> ELSE SubSeq(s, Table!Min(kept), Len(s))
  BY DEF Table!WithoutDuplicates
<1>2. kept \in SUBSET (1 .. Len(s)) /\ Len(s) \in Nat
  OBVIOUS
<1> HIDE DEF kept
<1>3. CASE kept = {}
  <2>1. Suffix(<<>>, s, Len(s)) /\ Len(s) \in 0 .. Len(s)
    BY <1>2 DEF Suffix
  <2> QED BY <1>1, <1>3, <2>1
<1>4. CASE kept # {}
  <2>1. \E x \in kept : \A y \in kept : x <= y
    BY <1>2, <1>4, LeastNat
  <2>2. Table!Min(kept) \in kept
    BY <2>1 DEF Table!Min
  <2> DEFINE m == Table!Min(kept)
             d == m - 1
  <2>3. m \in 1 .. Len(s)
    BY <1>2, <2>2
  <2>4. d \in 0 .. Len(s) /\ d + 1 = m
    BY <1>2, <2>3
  <2>5. Table!WithoutDuplicates(s) = SubSeq(s, m, Len(s))
    BY <1>1, <1>4
  <2> HIDE DEF m, d
  <2>6. Table!WithoutDuplicates(s) = SubSeq(s, d + 1, Len(s))
    BY <2>4, <2>5
  <2> QED BY <2>4, <2>6, SuffixOfRequests
<1> QED BY <1>3, <1>4

(* What tryToSendPrePrepareMsg does with a queue: it drops d requests from *)
(* its head, and may propose some of those, in their order                 *)
Proposed(s, d, a) ==
    /\ a \in Seq(Table!ReqIds) /\ Len(mainLog) < ConcurrencyLevel
    /\ \A x \in DOMAIN a : \E j \in 1 .. d : a[x] = s[j]
    /\ Sorted(s) => Sorted(a)
    /\ mainLog' = Append(mainLog, [reqs |-> a, committed |-> FALSE])
Sending(s, d) ==
    /\ Suffix(requestsQueueOfPrimary', s, d)
    /\ Pending(requestsMap') /\ requestsMap \in SUBSET requestsMap'
    /\ mainLog' = mainLog \/ \E a : Proposed(s, d, a)

LEMMA TryToSendSends ==
    ASSUME TableSizes, Pending(requestsMap), NEW s \in Seq(Table!ReqIds),
           Table!TryToSendPrePrepareMsg(s)
    PROVE  \E d \in 0 .. Len(s) : Sending(s, d)
<1> DEFINE w == Table!WithoutDuplicates(s)
<1>0. Len(s) \in Nat
  OBVIOUS
<1>1. PICK d \in 0 .. Len(s) : Suffix(w, s, d)
  BY WithoutDuplicatesIsSuffix
<1>2. CASE requestsQueueOfPrimary' = s /\ UNCHANGED <<requestsMap, mainLog>>
  <2>1. Suffix(s, s, 0) /\ 0 \in 0 .. Len(s)
    BY <1>0 DEF Suffix
  <2>2. Sending(s, 0)
    BY <1>2, <2>1 DEF Sending
  <2> QED BY <2>1, <2>2
<1>3. CASE requestsQueueOfPrimary' = w /\ UNCHANGED <<requestsMap, mainLog>>
  BY <1>1, <1>3 DEF Sending
<1>4. ASSUME NEW n \in 1 .. Len(w), Table!CheckSendPrePrepareMsgPrerequisites(s),
             requestsQueueOfPrimary' = SubSeq(w, n + 1, Len(w)),
             requestsMap' = Table!AddRequests(SubSeq(w, 1, n)).pending,
             mainLog' = IF Table!AddRequests(SubSeq(w, 1, n)).added = <<>> THEN mainLog
                        ELSE Append(mainLog, [reqs |-> Table!AddRequests(SubSeq(w, 1, n)).added,
                                              committed |-> FALSE])
      PROVE  \E e \in 0 .. Len(s) : Sending(s, e)
  <2> DEFINE rs == SubSeq(w, 1, n)
             batch == Table!AddRequests(rs)
             a == batch.added
             e == d + n
  <2>0. w \in Seq(Table!ReqIds) /\ Len(w) \in Nat /\ Len(w) = Len(s) - d /\ n \in 0 .. Len(w)
    BY <1>0, <1>1 DEF Suffix
  <2> HIDE DEF w
  <2>1. Suffix(requestsQueueOfPrimary', w, n)
    BY <1>4, <2>0, SuffixOfRequests
  <2>2. Suffix(requestsQueueOfPrimary', s, e) /\ e \in 0 .. Len(s)
    BY <1>1, <2>0, <2>1, SuffixOfSuffix
  <2>3. rs \in Seq(Table!ReqIds) /\ Len(rs) = n /\ \A j \in 1 .. n : rs[j] = w[j]
    BY <2>0
  <2>4. \A j \in 1 .. n : rs[j] = s[j + d] /\ j + d \in 1 .. e /\ j + d \in DOMAIN s
    BY <1>0, <1>1, <2>0, <2>3 DEF Suffix
  <2>5. Sorted(s) => Sorted(rs)
    <3> SUFFICES ASSUME Sorted(s), NEW i \in DOMAIN rs, NEW j \in DOMAIN rs, i < j
                 PROVE  BatchOf(rs[i]) <= BatchOf(rs[j])
      BY DEF Sorted
    <3>1. i \in 1 .. n /\ j \in 1 .. n /\ i + d < j + d
      BY <2>3
    <3> QED BY <2>4, <3>1 DEF Sorted
  <2> HIDE DEF rs
  <2>6. AddFits(batch, rs, n)
    BY <2>3, AddKeeps
  <2>7. requestsMap' = batch.pending /\ mainLog' = IF a = <<>> THEN mainLog
                        ELSE Append(mainLog, [reqs |-> a, committed |-> FALSE])
    BY <1>4 DEF rs
  <2> HIDE DEF batch, e
  <2>8. Pending(requestsMap') /\ requestsMap \in SUBSET requestsMap'
    BY <2>6, <2>7 DEF AddFits
  <2>9. CASE a = <<>>
    BY <2>2, <2>7, <2>8, <2>9 DEF Sending
  <2>10. CASE a # <<>>
    <3>1. Len(mainLog) < ConcurrencyLevel
      BY <1>4 DEF Table!CheckSendPrePrepareMsgPrerequisites
    <3>2. ASSUME NEW x \in DOMAIN a PROVE \E j \in 1 .. e : a[x] = s[j]
      <4>1. PICK j \in 1 .. n : a[x] = rs[j]
        BY <2>6 DEF AddFits
      <4> QED BY <2>4, <4>1
    <3>3. a \in Seq(Table!ReqIds) /\ (Sorted(s) => Sorted(a))
      BY <2>5, <2>6 DEF AddFits
    <3>4. Proposed(s, e, a)
      BY <2>7, <2>10, <3>1, <3>2, <3>3 DEF Proposed
    <3> QED BY <2>2, <2>8, <3>4 DEF Sending
  <2> QED BY <2>9, <2>10
<1> QED BY <1>2, <1>3, <1>4 DEF Table!TryToSendPrePrepareMsg

-----------------------------------------------------------------------------
(* The table is sound *)

TableTyped ==
    /\ committed \in SUBSET requestsMap
    /\ pages \in [Table!Indices -> Table!ReqIds \cup {0}]
    /\ isPrimary \in BOOLEAN
    /\ requestsQueueOfPrimary \in Seq(Table!ReqIds)
    /\ Len(requestsQueueOfPrimary) <= MaxPrimaryQueueSize
    /\ mainLog \in Seq(Table!PrePrepare) /\ Len(mainLog) <= ConcurrencyLevel
    /\ sent \in 0 .. Batches /\ answered \in SUBSET Table!ReqIds
    /\ executions \in [Table!ReqIds -> 0 .. 2] /\ restarts \in 0 .. MaxRestarts

PagesAtIndex == \A i \in Table!Indices : pages[i] # 0 => Table!Index(pages[i]) = i

(* A reply is saved in the page of its request's index, and only a primary *)
(* has requests in its queue                                               *)
TableInv ==
    /\ TableTyped /\ Pending(requestsMap) /\ saved = pages /\ PagesAtIndex
    /\ ~isPrimary => requestsQueueOfPrimary = <<>>

LEMMA TableIsSoundNow ==
    ASSUME TableInv
    PROVE  Table!TypeOK /\ Table!RepliesMatchPages /\ Table!AnsweredNotPending
<1>1. Table!TypeOK
  BY TableCardinality DEF TableInv, TableTyped, Pending, Table!TypeOK, Table!None
<1> QED BY <1>1 DEF TableInv, Pending, Table!RepliesMatchPages, Table!AnsweredNotPending

LEMMA RequestFacts ==
    ASSUME TableSizes, NEW q \in Table!ReqIds
    PROVE  q \in Nat \ {0} /\ BatchOf(q) \in Nat /\ Table!Index(q) \in Table!Indices
<1>1. q \in Nat \ {0}
  BY DEF TableSizes, Table!ReqIds
<1> QED BY <1>1, BatchFacts

(* The page of an index after the requests of a PrePrepare are executed *)
LEMMA PageSaved ==
    ASSUME TableSizes, NEW rs \in Seq(Table!ReqIds), NEW i \in Table!Indices
    PROVE  \/ Table!Places(rs, i) = {} /\ Table!SavePages(rs)[i] = pages[i]
           \/ \E k \in Table!Places(rs, i) : /\ Table!SavePages(rs)[i] = rs[k]
                                             /\ \A y \in Table!Places(rs, i) : y <= k
<1> DEFINE P == Table!Places(rs, i)
<1>1. Table!SavePages(rs)[i] = IF P = {} THEN pages[i] ELSE rs[Table!Max(P)]
  BY DEF Table!SavePages
<1>2. P \in SUBSET (0 .. Len(rs)) /\ P \in SUBSET Int /\ Len(rs) \in Nat
  BY DEF Table!Places
<1> HIDE DEF P
<1>3. CASE P # {}
  <2>1. \E x \in P : \A y \in P : y <= x
    BY <1>2, <1>3, GreatestNat
  <2>2. \E x \in P : \A y \in P : x >= y
    BY <1>2, <2>1
  <2>3. Table!Max(P) \in P /\ \A y \in P : Table!Max(P) >= y
    BY <2>2 DEF Table!Max
  <2> QED BY <1>1, <1>2, <1>3, <2>3 DEF P
<1> QED BY <1>1, <1>3 DEF P

LEMMA PagesSaved ==
    ASSUME TableSizes, TableInv, NEW rs \in Seq(Table!ReqIds)
    PROVE  /\ Table!SavePages(rs) \in [Table!Indices -> Table!ReqIds \cup {0}]
           /\ \A i \in Table!Indices :
                /\ \/ Table!SavePages(rs)[i] = pages[i]
                   \/ Table!SavePages(rs)[i] \in Table!ToSet(rs)
                /\ Table!SavePages(rs)[i] # 0 => Table!Index(Table!SavePages(rs)[i]) = i
                /\ pages[i] # 0 => Table!SavePages(rs)[i] # 0
           /\ Table!SaveReplies(rs) = Table!SavePages(rs)
           /\ Table!LoadReplies(saved, Table!SavePages(rs)) = Table!SavePages(rs)
<1> DEFINE P == Table!SavePages(rs)
<1>1. DOMAIN P = Table!Indices /\ P = [i \in Table!Indices |-> P[i]]
  BY DEF Table!SavePages
<1>2. ASSUME NEW i \in Table!Indices
      PROVE  /\ P[i] = pages[i] \/ P[i] \in Table!ToSet(rs)
             /\ P[i] \in Table!ReqIds \cup {0}
             /\ P[i] # 0 => Table!Index(P[i]) = i
             /\ pages[i] # 0 => P[i] # 0
             /\ Table!Places(rs, i) = {} => P[i] = pages[i]
             /\ Table!Places(rs, i) # {} => P[i] # 0
  <2>1. CASE Table!Places(rs, i) = {} /\ P[i] = pages[i]
    BY <2>1 DEF TableInv, TableTyped, PagesAtIndex
  <2>2. ASSUME NEW k \in Table!Places(rs, i), P[i] = rs[k]
        PROVE  /\ P[i] \in Table!ToSet(rs) /\ P[i] \in Table!ReqIds /\ Table!Index(P[i]) = i
               /\ P[i] # 0
    <3>1. k \in DOMAIN rs /\ Table!Index(rs[k]) = i
      BY DEF Table!Places
    <3>2. rs[k] \in Table!ReqIds /\ rs[k] \in Table!ToSet(rs)
      BY <3>1 DEF Table!ToSet
    <3> QED BY <2>2, <3>1, <3>2, RequestFacts
  <2>3. \/ P[i] = pages[i] /\ Table!Places(rs, i) = {}
        \/ \E k \in Table!Places(rs, i) : P[i] = rs[k]
    BY PageSaved
  <2> QED BY <2>1, <2>2, <2>3
<1>3. P \in [Table!Indices -> Table!ReqIds \cup {0}]
  <2> HIDE DEF P
  <2> QED BY <1>1, <1>2
<1>4. Table!SaveReplies(rs) = [i \in Table!Indices |->
        IF Table!Places(rs, i) = {} THEN saved[i] ELSE Table!InsertReply(saved, P[i], i)]
  BY DEF Table!SaveReplies, Table!SavePages
<1>5. Table!LoadReplies(saved, P) = [i \in Table!Indices |->
        IF P[i] = 0 THEN saved[i] ELSE Table!InsertReply(saved, P[i], i)]
  BY DEF Table!LoadReplies, Table!None
<1> HIDE DEF P
<1>6. ASSUME NEW i \in Table!Indices, P[i] # 0 PROVE Table!InsertReply(saved, P[i], i) = P[i]
  <2>1. \A j \in Table!Indices \ {i} : saved[j] # P[i]
    BY <1>2, <1>6 DEF TableInv, PagesAtIndex
  <2> QED BY <2>1 DEF Table!InsertReply
<1>7. saved = pages
  BY DEF TableInv
<1>8. Table!SaveReplies(rs) = P
  <2>1. \A i \in Table!Indices :
          (IF Table!Places(rs, i) = {} THEN saved[i] ELSE Table!InsertReply(saved, P[i], i)) = P[i]
    BY <1>2, <1>6, <1>7
  <2> QED BY <1>1, <1>4, <2>1
<1>9. Table!LoadReplies(saved, P) = P
  <2>1. \A i \in Table!Indices :
          (IF P[i] = 0 THEN saved[i] ELSE Table!InsertReply(saved, P[i], i)) = P[i]
    BY <1>2, <1>6, <1>7
  <2> QED BY <1>1, <1>5, <2>1
<1> QED BY <1>2, <1>3, <1>8, <1>9 DEF P

(* A request is recorded, and kept in the tables, as long as no reply for  *)
(* it is saved                                                             *)
LEMMA PendingAfter ==
    ASSUME TableSizes, Pending(requestsMap), NEW p \in SUBSET requestsMap,
           requestsMap' = p, \A q \in p : \A i \in Table!Indices : saved'[i] # q
    PROVE  Pending(requestsMap)'
<1>1. Pending(p)
  BY PendingShrinks
<1> QED BY <1>1 DEF Pending, Table!hasReply

LEMMA PendingSame ==
    ASSUME Pending(requestsMap'), saved' = saved
    PROVE  Pending(requestsMap)'
BY DEF Pending, Table!hasReply

LEMMA CountTyped ==
    ASSUME executions \in [Table!ReqIds -> 0 .. 2], NEW rs
    PROVE  Table!Count(rs) \in [Table!ReqIds -> 0 .. 2]
BY DEF Table!Count

LEMMA TableInit == ASSUME TableSizes, Table!Init PROVE TableInv
<1>1. <<>> \in Seq(Table!ReqIds) /\ <<>> \in Seq(Table!PrePrepare) /\ Len(<<>>) = 0
  OBVIOUS
<1>2. Pending({})
  BY FS_EmptySet DEF Pending, TableSizes
<1>3. pages = [i \in Table!Indices |-> 0] /\ saved = pages
  BY DEF Table!Init, Table!None
<1>4. isPrimary \in BOOLEAN
  BY DEF Table!Init
<1>5. TableTyped
  BY <1>1, <1>3, <1>4 DEF TableTyped, Table!Init, TableSizes
<1> QED BY <1>1, <1>2, <1>3, <1>5 DEF TableInv, PagesAtIndex, Table!Init

LEMMA InNetworkIds == ASSUME TableSizes, TableInv PROVE Table!InNetwork \in SUBSET Table!ReqIds
<1> SUFFICES ASSUME NEW q \in Table!InNetwork PROVE q \in Table!ReqIds
  OBVIOUS
<1>1. sent \in Nat /\ sent <= Batches /\ Batches \in Nat /\ MaxNumOfReqsPerClient \in Nat \ {0}
  BY DEF TableInv, TableTyped, TableSizes
<1>2. sent * MaxNumOfReqsPerClient \in Nat /\ Batches * MaxNumOfReqsPerClient \in Nat
  BY <1>1
<1>3. q \in Nat \ {0} /\ q <= sent * MaxNumOfReqsPerClient
  BY <1>2 DEF Table!InNetwork
<1>4. BatchOf(q) < sent /\ BatchOf(q) \in Nat
  BY <1>1, <1>3, BatchOrder, BatchFacts
<1>5. BatchOf(q) < Batches
  BY <1>1, <1>4
<1>6. q <= Batches * MaxNumOfReqsPerClient
  BY <1>1, <1>3, <1>5, BatchOrder
<1> QED BY <1>2, <1>3, <1>6 DEF Table!ReqIds

LEMMA ProposalsTyped ==
    ASSUME TableSizes, TableInv, NEW rs \in Table!OthersProposals
    PROVE  rs \in Seq(Table!ReqIds) /\ \A k \in DOMAIN rs : rs[k] \in Table!InNetwork
<1>1. PICK n \in 1 .. ProposalSize : rs \in [1 .. n -> Table!InNetwork]
  BY DEF Table!OthersProposals
<1>2. n \in Nat
  BY DEF TableSizes
<1> QED BY <1>1, <1>2, InNetworkIds

LEMMA LogTyped ==
    ASSUME NEW lg \in Seq(Table!PrePrepare), NEW rs \in Seq(Table!ReqIds)
    PROVE  /\ Append(lg, [reqs |-> rs, committed |-> FALSE]) \in Seq(Table!PrePrepare)
           /\ Len(Append(lg, [reqs |-> rs, committed |-> FALSE])) = Len(lg) + 1
<1>1. [reqs |-> rs, committed |-> FALSE] \in Table!PrePrepare
  BY DEF Table!PrePrepare
<1> QED BY <1>1

(* The head of the log, when it is executed *)
LEMMA HeadTyped ==
    ASSUME TableSizes, TableInv, mainLog # <<>>
    PROVE  /\ Head(mainLog) = mainLog[1] /\ Head(mainLog).reqs \in Seq(Table!ReqIds)
           /\ Tail(mainLog) \in Seq(Table!PrePrepare) /\ Len(Tail(mainLog)) = Len(mainLog) - 1
           /\ Len(Tail(mainLog)) <= ConcurrencyLevel /\ Len(mainLog) \in Nat
<1>1. mainLog \in Seq(Table!PrePrepare) /\ Len(mainLog) <= ConcurrencyLevel
  BY DEF TableInv, TableTyped
<1>2. /\ Head(mainLog) = mainLog[1] /\ Head(mainLog) \in Table!PrePrepare /\ Len(mainLog) \in Nat
      /\ Tail(mainLog) \in Seq(Table!PrePrepare) /\ Len(Tail(mainLog)) = Len(mainLog) - 1
  BY <1>1
<1>3. Head(mainLog).reqs \in Seq(Table!ReqIds)
  BY <1>2 DEF Table!PrePrepare
<1> QED BY <1>1, <1>2, <1>3 DEF TableSizes

(* What is left alone by a step that moves only the client's state *)
LEMMA TableRests ==
    ASSUME TableInv, UNCHANGED <<requestsMap, committed, saved, pages, isPrimary,
                                 requestsQueueOfPrimary, mainLog>>,
           sent' \in 0 .. Batches, answered' \in SUBSET Table!ReqIds,
           executions' \in [Table!ReqIds -> 0 .. 2], restarts' \in 0 .. MaxRestarts
    PROVE  TableInv'
<1>1. Pending(requestsMap)' /\ PagesAtIndex'
  BY PendingSame DEF TableInv, PagesAtIndex
<1> QED BY <1>1 DEF TableInv, TableTyped

LEMMA ClientSteps ==
    ASSUME TableSizes, TableInv, Table!ClientSend \/ \E q \in Table!ReqIds : Table!RetransmitReply(q)
    PROVE  TableInv'
<1> USE DEF Table!tables
<1>0. sent \in 0 .. Batches /\ answered \in SUBSET Table!ReqIds
      /\ executions \in [Table!ReqIds -> 0 .. 2] /\ restarts \in 0 .. MaxRestarts
  BY DEF TableInv, TableTyped
<1>1. CASE Table!ClientSend
  <2>1. sent' \in 0 .. Batches
    BY <1>0, <1>1 DEF Table!ClientSend, TableSizes
  <2> QED BY <1>0, <1>1, <2>1, TableRests DEF Table!ClientSend
<1>2. ASSUME NEW q \in Table!ReqIds, Table!RetransmitReply(q) PROVE TableInv'
  BY <1>0, <1>2, TableRests DEF Table!RetransmitReply
<1> QED BY <1>1, <1>2

LEMMA SendingStep ==
    ASSUME TableSizes, TableInv, isPrimary, NEW s \in Seq(Table!ReqIds), Len(s) <= MaxPrimaryQueueSize,
           Table!TryToSendPrePrepareMsg(s),
           UNCHANGED <<committed, saved, pages, isPrimary, sent, answered, executions, restarts>>
    PROVE  TableInv'
<1>1. PICK d \in 0 .. Len(s) : Sending(s, d)
  BY TryToSendSends DEF TableInv
<1>2. requestsQueueOfPrimary' \in Seq(Table!ReqIds)
      /\ Len(requestsQueueOfPrimary') <= MaxPrimaryQueueSize
  <2>1. /\ requestsQueueOfPrimary' \in Seq(Table!ReqIds)
        /\ Len(requestsQueueOfPrimary') = Len(s) - d /\ Len(s) \in Nat
    BY <1>1 DEF Sending, Suffix
  <2> QED BY <2>1 DEF TableSizes
<1>3. mainLog' \in Seq(Table!PrePrepare) /\ Len(mainLog') <= ConcurrencyLevel
  <2>0. mainLog \in Seq(Table!PrePrepare) /\ Len(mainLog) <= ConcurrencyLevel
    BY DEF TableInv, TableTyped
  <2>1. CASE mainLog' = mainLog
    BY <2>0, <2>1
  <2>2. ASSUME NEW a, Proposed(s, d, a)
        PROVE  mainLog' \in Seq(Table!PrePrepare) /\ Len(mainLog') <= ConcurrencyLevel
    <3>1. /\ a \in Seq(Table!ReqIds) /\ Len(mainLog) < ConcurrencyLevel
          /\ mainLog' = Append(mainLog, [reqs |-> a, committed |-> FALSE])
      BY <2>2 DEF Proposed
    <3>2. mainLog' \in Seq(Table!PrePrepare) /\ Len(mainLog') = Len(mainLog) + 1 /\ Len(mainLog) \in Nat
      BY <2>0, <3>1, LogTyped
    <3> QED BY <3>1, <3>2 DEF TableSizes
  <2> QED BY <1>1, <2>1, <2>2 DEF Sending
<1>4. Pending(requestsMap)' /\ committed' \in SUBSET requestsMap'
  <2>1. Pending(requestsMap') /\ requestsMap \in SUBSET requestsMap'
    BY <1>1 DEF Sending
  <2> QED BY <2>1, PendingSame DEF TableInv, TableTyped
<1>5. TableTyped'
  BY <1>2, <1>3, <1>4 DEF TableInv, TableTyped
<1>6. PagesAtIndex'
  BY DEF TableInv, PagesAtIndex
<1> QED BY <1>4, <1>5, <1>6 DEF TableInv

LEMMA PrimarySteps ==
    ASSUME TableSizes, TableInv,
           Table!TryToSend \/ \E q \in Table!ReqIds : Table!OnClientRequestAtPrimary(q)
    PROVE  TableInv'
<1>0. /\ requestsQueueOfPrimary \in Seq(Table!ReqIds)
      /\ Len(requestsQueueOfPrimary) <= MaxPrimaryQueueSize
  BY DEF TableInv, TableTyped
<1>1. CASE Table!TryToSend
  BY <1>0, <1>1, SendingStep DEF Table!TryToSend, Table!CheckSendPrePrepareMsgPrerequisites
<1>2. ASSUME NEW q \in Table!ReqIds, Table!OnClientRequestAtPrimary(q) PROVE TableInv'
  <2> DEFINE s == Append(requestsQueueOfPrimary, q)
  <2>1. /\ Len(requestsQueueOfPrimary) < MaxPrimaryQueueSize /\ isPrimary
        /\ Table!TryToSendPrePrepareMsg(s)
        /\ UNCHANGED <<committed, saved, pages, isPrimary, sent, answered, executions, restarts>>
    BY <1>2 DEF Table!OnClientRequestAtPrimary
  <2>2. s \in Seq(Table!ReqIds) /\ Len(s) = Len(requestsQueueOfPrimary) + 1
        /\ Len(requestsQueueOfPrimary) \in Nat
    BY <1>0
  <2>3. Len(s) <= MaxPrimaryQueueSize
    BY <2>1, <2>2 DEF TableSizes
  <2> HIDE DEF s
  <2> QED BY <2>1, <2>2, <2>3, SendingStep
<1> QED BY <1>1, <1>2

LEMMA BackupSteps ==
    ASSUME TableSizes, TableInv,
           \/ \E q \in Table!ReqIds : Table!OnClientRequestAtBackup(q)
           \/ \E rs \in Table!OthersProposals : Table!OnPrePrepare(rs)
    PROVE  TableInv'
<1>1. ASSUME NEW q \in Table!ReqIds, Table!OnClientRequestAtBackup(q) PROVE TableInv'
  <2>1. /\ Table!CanBecomePending(q, requestsMap) /\ requestsMap' = requestsMap \cup {q}
        /\ UNCHANGED <<committed, saved, pages, isPrimary, requestsQueueOfPrimary, mainLog, sent,
                       answered, executions, restarts>>
    BY <1>1 DEF Table!OnClientRequestAtBackup
  <2>2. Pending(requestsMap')
    BY <2>1, PendingGrows DEF TableInv
  <2>3. Pending(requestsMap)' /\ PagesAtIndex'
    BY <2>1, <2>2, PendingSame DEF TableInv, PagesAtIndex
  <2> QED BY <2>1, <2>3 DEF TableInv, TableTyped
<1>2. ASSUME NEW rs \in Table!OthersProposals, Table!OnPrePrepare(rs) PROVE TableInv'
  <2>1. /\ Len(mainLog) < ConcurrencyLevel
        /\ mainLog' = Append(mainLog, [reqs |-> rs, committed |-> FALSE])
        /\ requestsMap' = Table!Track(requestsMap, rs)
        /\ committed' = committed \cap requestsMap'
        /\ UNCHANGED <<saved, pages, isPrimary, requestsQueueOfPrimary, sent, answered, executions,
                       restarts>>
    BY <1>2 DEF Table!OnPrePrepare
  <2>2. rs \in Seq(Table!ReqIds)
    BY ProposalsTyped
  <2>3. Pending(requestsMap')
    BY <2>1, <2>2, TrackKeeps DEF TableInv
  <2>4. Pending(requestsMap)' /\ PagesAtIndex'
    BY <2>1, <2>3, PendingSame DEF TableInv, PagesAtIndex
  <2>5. mainLog' \in Seq(Table!PrePrepare) /\ Len(mainLog') <= ConcurrencyLevel
    <3>1. mainLog \in Seq(Table!PrePrepare) /\ Len(mainLog) \in Nat
      BY DEF TableInv, TableTyped
    <3>2. mainLog' \in Seq(Table!PrePrepare) /\ Len(mainLog') = Len(mainLog) + 1
      BY <2>1, <2>2, <3>1, LogTyped
    <3> QED BY <2>1, <3>1, <3>2 DEF TableSizes
  <2>6. TableTyped'
    BY <2>1, <2>5 DEF TableInv, TableTyped
  <2> QED BY <2>1, <2>4, <2>6 DEF TableInv
<1> QED BY <1>1, <1>2

LEMMA CommitStep ==
    ASSUME TableSizes, TableInv, NEW k \in DOMAIN mainLog, Table!OnCommitted(k)
    PROVE  TableInv'
<1>1. /\ mainLog' = [mainLog EXCEPT ![k].committed = TRUE]
      /\ committed' = committed \cup (Table!ToSet(mainLog[k].reqs) \cap requestsMap)
      /\ UNCHANGED <<requestsMap, saved, pages, isPrimary, requestsQueueOfPrimary, sent, answered,
                     executions, restarts>>
  BY DEF Table!OnCommitted
<1>2. mainLog \in Seq(Table!PrePrepare)
  BY DEF TableInv, TableTyped
<1>3. mainLog[k] \in Table!PrePrepare
  BY <1>2
<1>4. [mainLog[k] EXCEPT !.committed = TRUE] \in Table!PrePrepare
  BY <1>3 DEF Table!PrePrepare
<1>5. mainLog' \in Seq(Table!PrePrepare) /\ Len(mainLog') = Len(mainLog)
  BY <1>1, <1>2, <1>4
<1>6. Pending(requestsMap)' /\ PagesAtIndex'
  BY <1>1, PendingSame DEF TableInv, PagesAtIndex
<1>7. TableTyped'
  BY <1>1, <1>5 DEF TableInv, TableTyped
<1> QED BY <1>1, <1>6, <1>7 DEF TableInv

LEMMA ToSetTyped == ASSUME NEW rs \in Seq(Table!ReqIds) PROVE Table!ToSet(rs) \in SUBSET Table!ReqIds
BY DEF Table!ToSet

LEMMA ExecuteStep == ASSUME TableSizes, TableInv, Table!ExecuteNext PROVE TableInv'
<1> DEFINE rs == Head(mainLog).reqs
           P == Table!SavePages(rs)
<1>1. /\ mainLog # <<>> /\ saved' = Table!SaveReplies(rs) /\ pages' = P
      /\ requestsMap' = requestsMap \ Table!ToSet(rs) /\ committed' = committed \ Table!ToSet(rs)
      /\ executions' = Table!Count(rs) /\ mainLog' = Tail(mainLog)
      /\ answered' = answered \/ answered' = answered \cup Table!ToSet(rs)
      /\ UNCHANGED <<isPrimary, requestsQueueOfPrimary, sent, restarts>>
  BY DEF Table!ExecuteNext, Table!Reply
<1>2. rs \in Seq(Table!ReqIds) /\ mainLog' \in Seq(Table!PrePrepare) /\ Len(mainLog') <= ConcurrencyLevel
  BY <1>1, HeadTyped
<1>3. Table!ToSet(rs) \in SUBSET Table!ReqIds
  BY <1>2, ToSetTyped
<1> HIDE DEF rs
<1>4. /\ P \in [Table!Indices -> Table!ReqIds \cup {0}]
      /\ \A i \in Table!Indices : /\ P[i] = pages[i] \/ P[i] \in Table!ToSet(rs)
                                  /\ P[i] # 0 => Table!Index(P[i]) = i
      /\ Table!SaveReplies(rs) = P
  BY <1>2, PagesSaved
<1>5. Table!Count(rs) \in [Table!ReqIds -> 0 .. 2]
  BY CountTyped DEF TableInv, TableTyped
<1> HIDE DEF P
<1>6. \A q \in requestsMap' : \A i \in Table!Indices : saved'[i] # q
  BY <1>1, <1>4 DEF TableInv, Pending, Table!hasReply
<1>7. Pending(requestsMap)'
  <2>1. requestsMap' \in SUBSET requestsMap
    BY <1>1
  <2> QED BY <1>6, <2>1, PendingAfter DEF TableInv
<1>8. TableTyped'
  BY <1>1, <1>2, <1>3, <1>4, <1>5 DEF TableInv, TableTyped
<1>9. PagesAtIndex'
  BY <1>1, <1>4 DEF PagesAtIndex
<1> QED BY <1>1, <1>4, <1>7, <1>8, <1>9 DEF TableInv

LEMMA TransferStep == ASSUME TableSizes, TableInv, Table!StateTransfer PROVE TableInv'
<1> DEFINE rs == Head(mainLog).reqs
           P == Table!SavePages(rs)
<1>1. /\ mainLog # <<>> /\ saved' = Table!LoadReplies(saved, pages') /\ pages' = P
      /\ requestsMap' = Table!KeptAfterLoad(requestsMap, pages')
      /\ committed' = committed \cap requestsMap'
      /\ executions' = Table!Count(rs) /\ mainLog' = Tail(mainLog)
      /\ answered' = answered \/ answered' = answered \cup Table!ToSet(rs)
      /\ restarts < MaxRestarts /\ restarts' = restarts + 1
      /\ UNCHANGED <<isPrimary, requestsQueueOfPrimary, sent>>
  BY DEF Table!StateTransfer, Table!Reply
<1>2. rs \in Seq(Table!ReqIds) /\ mainLog' \in Seq(Table!PrePrepare) /\ Len(mainLog') <= ConcurrencyLevel
  BY <1>1, HeadTyped
<1>3. Table!ToSet(rs) \in SUBSET Table!ReqIds
  BY <1>2, ToSetTyped
<1> HIDE DEF rs
<1>4. /\ P \in [Table!Indices -> Table!ReqIds \cup {0}]
      /\ \A i \in Table!Indices : P[i] # 0 => Table!Index(P[i]) = i
      /\ Table!LoadReplies(saved, P) = P
  BY <1>2, PagesSaved
<1>5. Table!Count(rs) \in [Table!ReqIds -> 0 .. 2] /\ restarts' \in 0 .. MaxRestarts
  BY <1>1, CountTyped DEF TableInv, TableTyped, TableSizes
<1> HIDE DEF P
<1>6. requestsMap' \in SUBSET requestsMap /\ \A q \in requestsMap' : \A i \in Table!Indices : P[i] < q
  BY <1>1 DEF Table!KeptAfterLoad
<1>7. \A q \in requestsMap' : \A i \in Table!Indices : saved'[i] # q
  <2> SUFFICES ASSUME NEW q \in requestsMap', NEW i \in Table!Indices, saved'[i] = q PROVE FALSE
    OBVIOUS
  <2>1. q \in Table!ReqIds
    BY <1>6 DEF TableInv, Pending
  <2>2. q \in Nat
    BY <2>1, RequestFacts
  <2>3. P[i] = q /\ P[i] < q
    BY <1>1, <1>4, <1>6
  <2> QED BY <2>2, <2>3
<1>8. Pending(requestsMap)'
  BY <1>6, <1>7, PendingAfter DEF TableInv
<1>9. TableTyped'
  BY <1>1, <1>2, <1>3, <1>4, <1>5 DEF TableInv, TableTyped
<1>10. PagesAtIndex'
  BY <1>1, <1>4 DEF PagesAtIndex
<1> QED BY <1>1, <1>4, <1>8, <1>9, <1>10 DEF TableInv

LEMMA NothingPending == ASSUME TableSizes, requestsMap' = {} PROVE Pending(requestsMap)'
<1>1. Cardinality({}) = 0
  BY FS_EmptySet
<1> QED BY <1>1 DEF Pending, TableSizes

LEMMA ViewStep ==
    ASSUME TableSizes, TableInv, NEW primary \in BOOLEAN, Table!OnNewView(primary)
    PROVE  TableInv'
<1>1. PICK kept \in 0 .. Len(mainLog) : mainLog' = SubSeq(mainLog, 1, kept)
  BY DEF Table!OnNewView
<1>2. /\ requestsMap' = {} /\ committed' = {} /\ requestsQueueOfPrimary' = <<>>
      /\ UNCHANGED <<saved, pages, sent, answered, executions, restarts>>
  BY DEF Table!OnNewView
<1>3. isPrimary' \in BOOLEAN
  BY Zenon DEF Table!OnNewView
<1>4. mainLog' \in Seq(Table!PrePrepare) /\ Len(mainLog') <= ConcurrencyLevel
  <2>1. mainLog \in Seq(Table!PrePrepare) /\ Len(mainLog) <= ConcurrencyLevel /\ Len(mainLog) \in Nat
    BY DEF TableInv, TableTyped
  <2>2. \A k \in 1 .. kept : mainLog[k] \in Table!PrePrepare
    BY <2>1
  <2>3. mainLog' \in Seq(Table!PrePrepare) /\ Len(mainLog') = kept
    BY <1>1, <2>1, <2>2
  <2> QED BY <1>1, <2>1, <2>3 DEF TableSizes
<1>5. Pending(requestsMap)' /\ PagesAtIndex'
  BY <1>2, NothingPending DEF TableInv, PagesAtIndex
<1>6. <<>> \in Seq(Table!ReqIds) /\ Len(<<>>) = 0
  OBVIOUS
<1>7. TableTyped'
  BY <1>2, <1>3, <1>4, <1>6 DEF TableInv, TableTyped, TableSizes
<1> QED BY <1>2, <1>5, <1>7 DEF TableInv

LEMMA RestartStep == ASSUME TableSizes, TableInv, Table!Restart PROVE TableInv'
<1> DEFINE Z == [i \in Table!Indices |-> 0]
<1>1. /\ requestsMap' = {} /\ committed' = {} /\ requestsQueueOfPrimary' = <<>>
      /\ saved' = Table!LoadReplies(Z, pages) /\ restarts < MaxRestarts /\ restarts' = restarts + 1
      /\ UNCHANGED <<pages, isPrimary, mainLog, sent, answered, executions>>
  BY DEF Table!Restart, Table!None
<1>2. Table!LoadReplies(Z, pages) = pages
  <2>1. Table!LoadReplies(Z, pages) = [i \in Table!Indices |->
          IF pages[i] = 0 THEN Z[i] ELSE Table!InsertReply(Z, pages[i], i)]
    BY DEF Table!LoadReplies, Table!None
  <2>2. ASSUME NEW i \in Table!Indices, pages[i] # 0 PROVE Table!InsertReply(Z, pages[i], i) = pages[i]
    BY <2>2 DEF Table!InsertReply
  <2>3. pages = [i \in Table!Indices |-> pages[i]]
    BY DEF TableInv, TableTyped
  <2>4. \A i \in Table!Indices :
          (IF pages[i] = 0 THEN Z[i] ELSE Table!InsertReply(Z, pages[i], i)) = pages[i]
    BY <2>2
  <2> HIDE DEF Z
  <2> QED BY <2>1, <2>3, <2>4
<1>3. Pending(requestsMap)' /\ PagesAtIndex'
  BY <1>1, NothingPending DEF TableInv, PagesAtIndex
<1>4. <<>> \in Seq(Table!ReqIds) /\ Len(<<>>) = 0 /\ restarts' \in 0 .. MaxRestarts
  BY <1>1 DEF TableInv, TableTyped, TableSizes
<1>5. TableTyped'
  BY <1>1, <1>4 DEF TableInv, TableTyped, TableSizes
<1> QED BY <1>1, <1>2, <1>3, <1>5 DEF TableInv

LEMMA TableNext == ASSUME TableSizes, TableInv, [Table!Next]_(Table!vars) PROVE TableInv'
<1>1. CASE UNCHANGED Table!vars
  <2>1. UNCHANGED <<requestsMap, committed, saved, pages, isPrimary, requestsQueueOfPrimary, mainLog,
                    sent, answered, executions, restarts>>
    BY <1>1 DEF Table!vars
  <2> QED BY <2>1, TableRests DEF TableInv, TableTyped
<1>2. CASE Table!ClientSend \/ \E q \in Table!ReqIds : Table!RetransmitReply(q)
  BY <1>2, ClientSteps
<1>3. CASE Table!TryToSend \/ \E q \in Table!ReqIds : Table!OnClientRequestAtPrimary(q)
  BY <1>3, PrimarySteps
<1>4. CASE \/ \E q \in Table!ReqIds : Table!OnClientRequestAtBackup(q)
           \/ \E rs \in Table!OthersProposals : Table!OnPrePrepare(rs)
  BY <1>4, BackupSteps
<1>5. CASE \E k \in DOMAIN mainLog : Table!OnCommitted(k)
  BY <1>5, CommitStep
<1>6. CASE Table!ExecuteNext
  BY <1>6, ExecuteStep
<1>7. CASE Table!StateTransfer
  BY <1>7, TransferStep
<1>8. CASE \E primary \in BOOLEAN : Table!OnNewView(primary)
  BY <1>8, ViewStep
<1>9. CASE Table!Restart
  BY <1>9, RestartStep
<1> QED BY <1>1, <1>2, <1>3, <1>4, <1>5, <1>6, <1>7, <1>8, <1>9 DEF Table!Next

(* The replies known are those in the reserved pages, so that the reply    *)
(* that allocateReplyFromSavedOne loads is the one asked for, also after   *)
(* loadInfoFromReservedPages in a restart or a state transfer; no request  *)
(* with a reply is pending; and the limits of ClientsManager are kept.     *)
(* Requests may be delivered again at any time.                            *)
THEOREM RequestTableIsSound ==
    ASSUME TableSizes
    PROVE  Table!Spec => [](Table!TypeOK /\ Table!RepliesMatchPages /\ Table!AnsweredNotPending)
<1>1. Table!Init => TableInv
  BY TableInit
<1>2. TableInv /\ [Table!Next]_(Table!vars) => TableInv'
  BY TableNext
<1>3. TableInv => Table!TypeOK /\ Table!RepliesMatchPages /\ Table!AnsweredNotPending
  BY TableIsSoundNow
<1> QED BY <1>1, <1>2, <1>3, PTL DEF Table!Spec

-----------------------------------------------------------------------------
(* A request is executed once *)

(* A sequence of requests comes after the requests executed so far, and in *)
(* the order of their batches; the client has sent st batches              *)
InOrder(s, ex, st) ==
    /\ Sorted(s)
    /\ \A x \in DOMAIN s : /\ BatchOf(s[x]) < st
                           /\ \A q \in Table!ReqIds : ex[q] # 0 => BatchOf(q) <= BatchOf(s[x])

Before(a, b) == \A x \in DOMAIN a : \A y \in DOMAIN b : BatchOf(a[x]) <= BatchOf(b[y])

(* The PrePrepares of the log and then the queue are in that order *)
LogInOrder(lg, qu, ex, st) ==
    /\ \A j \in DOMAIN lg : InOrder(lg[j].reqs, ex, st) /\ Before(lg[j].reqs, qu)
    /\ \A j, k \in DOMAIN lg : j < k => Before(lg[j].reqs, lg[k].reqs)
    /\ InOrder(qu, ex, st)

(* The page of an index holds the latest request executed of that index,   *)
(* and a client has all replies to the batches before its last one         *)
OnceInv ==
    /\ \A q \in Table!ReqIds : executions[q] <= 1
    /\ \A i \in Table!Indices : pages[i] # 0 => executions[pages[i]] # 0
    /\ \A q \in Table!ReqIds : executions[q] # 0 =>
          /\ pages[Table!Index(q)] # 0 /\ BatchOf(q) <= BatchOf(pages[Table!Index(q)])
          /\ BatchOf(q) < sent
    /\ \A q \in Table!ReqIds : BatchOf(q) + 1 < sent => q \in answered
    /\ LogInOrder(mainLog, requestsQueueOfPrimary, executions, sent)

LEMMA OnceInit == ASSUME TableSizes, Table!Init PROVE OnceInv
<1>1. /\ pages = [i \in Table!Indices |-> 0] /\ executions = [q \in Table!ReqIds |-> 0]
      /\ mainLog = <<>> /\ requestsQueueOfPrimary = <<>> /\ sent = 0
  BY DEF Table!Init, Table!None
<1>2. DOMAIN <<>> = {}
  OBVIOUS
<1>3. LogInOrder(mainLog, requestsQueueOfPrimary, executions, sent)
  BY <1>1, <1>2 DEF LogInOrder, InOrder, Sorted
<1>4. \A q \in Table!ReqIds : ~(BatchOf(q) + 1 < sent)
  <2> SUFFICES ASSUME NEW q \in Table!ReqIds PROVE ~(BatchOf(q) + 1 < 0)
    BY <1>1
  <2>1. BatchOf(q) \in Nat
    BY RequestFacts
  <2> QED BY <2>1
<1> QED BY <1>1, <1>3, <1>4 DEF OnceInv

(* A request in the network is one of the last batch. *)
LEMMA NewRequest ==
    ASSUME TableSizes, ~StaleDuplicates, TableInv, OnceInv, NEW q \in Table!InNetwork
    PROVE  q \in Table!ReqIds /\ BatchOf(q) \in Nat /\ BatchOf(q) + 1 = sent
<1>1. q \in Table!ReqIds
  BY InNetworkIds
<1>2. q \in Nat \ {0} /\ BatchOf(q) \in Nat /\ sent \in Nat
  BY <1>1, RequestFacts DEF TableInv, TableTyped
<1>3. q <= sent * MaxNumOfReqsPerClient /\ q \notin answered
  <2>1. sent * MaxNumOfReqsPerClient \in Nat
    BY <1>2 DEF TableSizes
  <2> QED BY <2>1 DEF Table!InNetwork
<1>4. BatchOf(q) < sent
  BY <1>2, <1>3, BatchOrder
<1>5. ~(BatchOf(q) + 1 < sent)
  BY <1>1, <1>3 DEF OnceInv
<1> QED BY <1>1, <1>2, <1>4, <1>5

LEMMA EntryTyped ==
    ASSUME TableInv, NEW j \in DOMAIN mainLog
    PROVE  mainLog[j].reqs \in Seq(Table!ReqIds)
<1>1. mainLog \in Seq(Table!PrePrepare)
  BY DEF TableInv, TableTyped
<1>2. mainLog[j] \in Table!PrePrepare
  BY <1>1
<1> QED BY <1>2 DEF Table!PrePrepare

(* Requests of the last batch come after all others. *)
LEMMA NewInOrder ==
    ASSUME TableSizes, ~StaleDuplicates, TableInv, OnceInv, NEW rs \in Seq(Table!ReqIds),
           \A k \in DOMAIN rs : rs[k] \in Table!InNetwork
    PROVE  /\ InOrder(rs, executions, sent)
           /\ \A j \in DOMAIN mainLog : Before(mainLog[j].reqs, rs)
<1>0. \A k \in DOMAIN rs : BatchOf(rs[k]) \in Nat /\ BatchOf(rs[k]) + 1 = sent
  BY NewRequest
<1>1. Sorted(rs)
  BY <1>0 DEF Sorted
<1>2. ASSUME NEW x \in DOMAIN rs, NEW q \in Table!ReqIds, executions[q] # 0
      PROVE  BatchOf(q) <= BatchOf(rs[x])
  <2>1. BatchOf(q) \in Nat /\ BatchOf(q) < sent
    BY <1>2, RequestFacts DEF OnceInv
  <2> QED BY <1>0, <2>1
<1>3. \A x \in DOMAIN rs : BatchOf(rs[x]) < sent
  BY <1>0
<1>4. ASSUME NEW j \in DOMAIN mainLog PROVE Before(mainLog[j].reqs, rs)
  <2> DEFINE a == mainLog[j].reqs
  <2>1. a \in Seq(Table!ReqIds)
    BY EntryTyped
  <2>2. InOrder(a, executions, sent)
    BY DEF OnceInv, LogInOrder
  <2> HIDE DEF a
  <2> SUFFICES ASSUME NEW x \in DOMAIN a, NEW y \in DOMAIN rs PROVE BatchOf(a[x]) <= BatchOf(rs[y])
    BY DEF Before, a
  <2>3. a[x] \in Table!ReqIds
    BY <2>1
  <2>4. BatchOf(a[x]) \in Nat /\ BatchOf(a[x]) < sent
    BY <2>2, <2>3, RequestFacts DEF InOrder
  <2> QED BY <1>0, <2>4
<1> QED BY <1>1, <1>2, <1>3, <1>4 DEF InOrder

(* A PrePrepare is put at the end of the log. *)
LEMMA OrderExtends ==
    ASSUME NEW lg \in Seq(Table!PrePrepare), NEW qu, NEW ex, NEW st, LogInOrder(lg, qu, ex, st),
           NEW a, InOrder(a, ex, st), NEW r, InOrder(r, ex, st), Before(a, r),
           \A j \in DOMAIN lg : Before(lg[j].reqs, a) /\ Before(lg[j].reqs, r)
    PROVE  LogInOrder(Append(lg, [reqs |-> a, committed |-> FALSE]), r, ex, st)
<1> DEFINE e == [reqs |-> a, committed |-> FALSE]
           l == Append(lg, e)
<1>1. /\ DOMAIN l = DOMAIN lg \cup {Len(lg) + 1} /\ l[Len(lg) + 1] = e
      /\ \A j \in DOMAIN lg : l[j] = lg[j]
      /\ DOMAIN lg = 1 .. Len(lg) /\ Len(lg) \in Nat
  OBVIOUS
<1>2. e.reqs = a
  OBVIOUS
<1> HIDE DEF l, e
<1>3. ASSUME NEW j \in DOMAIN l PROVE InOrder(l[j].reqs, ex, st) /\ Before(l[j].reqs, r)
  <2>1. CASE j \in DOMAIN lg
    BY <1>1, <2>1 DEF LogInOrder
  <2>2. CASE j = Len(lg) + 1
    BY <1>1, <1>2, <2>2
  <2> QED BY <1>1, <2>1, <2>2
<1>4. ASSUME NEW j \in DOMAIN l, NEW k \in DOMAIN l, j < k PROVE Before(l[j].reqs, l[k].reqs)
  <2>0. j \in DOMAIN lg
    BY <1>1, <1>4
  <2>1. CASE k \in DOMAIN lg
    BY <1>1, <1>4, <2>0, <2>1 DEF LogInOrder
  <2>2. CASE k = Len(lg) + 1
    BY <1>1, <1>2, <2>0, <2>2
  <2> QED BY <1>1, <2>1, <2>2
<1>5. LogInOrder(l, r, ex, st)
  BY <1>3, <1>4 DEF LogInOrder
<1> QED BY <1>5 DEF l, e

LEMMA SuffixInOrder ==
    ASSUME NEW s \in Seq(Table!ReqIds), NEW d \in 0 .. Len(s), NEW r, Suffix(r, s, d),
           NEW ex, NEW st, InOrder(s, ex, st)
    PROVE  /\ InOrder(r, ex, st)
           /\ \A a : Before(a, s) => Before(a, r)
<1>1. \A i \in DOMAIN r : i + d \in DOMAIN s /\ r[i] = s[i + d] /\ i \in Nat
  BY DEF Suffix
<1>2. d \in Nat /\ \A i, j \in Nat : i < j => i + d < j + d
  OBVIOUS
<1>3. Sorted(r)
  <2> SUFFICES ASSUME NEW i \in DOMAIN r, NEW j \in DOMAIN r, i < j
               PROVE  BatchOf(r[i]) <= BatchOf(r[j])
    BY DEF Sorted
  <2>1. i + d \in DOMAIN s /\ j + d \in DOMAIN s /\ i + d < j + d
    BY <1>1, <1>2
  <2>2. BatchOf(s[i + d]) <= BatchOf(s[j + d])
    BY <2>1 DEF InOrder, Sorted
  <2> QED BY <1>1, <2>2
<1>4. InOrder(r, ex, st)
  BY <1>1, <1>3 DEF InOrder
<1> QED BY <1>1, <1>4 DEF Before

(* tryToSendPrePrepareMsg keeps the order. *)
LEMMA SendingInOrder ==
    ASSUME TableSizes, TableInv, OnceInv, NEW s \in Seq(Table!ReqIds),
           InOrder(s, executions, sent), \A j \in DOMAIN mainLog : Before(mainLog[j].reqs, s),
           Table!TryToSendPrePrepareMsg(s), UNCHANGED <<pages, sent, answered, executions>>
    PROVE  OnceInv'
<1>1. PICK d \in 0 .. Len(s) : Sending(s, d)
  BY TryToSendSends DEF TableInv
<1> DEFINE r == requestsQueueOfPrimary'
<1>2. Suffix(r, s, d)
  BY <1>1 DEF Sending
<1> HIDE DEF r
<1>3. InOrder(r, executions, sent) /\ \A j \in DOMAIN mainLog : Before(mainLog[j].reqs, r)
  BY <1>2, SuffixInOrder
<1>4. LogInOrder(mainLog', r, executions, sent)
  <2>1. CASE mainLog' = mainLog
    BY <1>3, <2>1 DEF OnceInv, LogInOrder
  <2>2. ASSUME NEW a, Proposed(s, d, a) PROVE LogInOrder(mainLog', r, executions, sent)
    <3>1. Sorted(a) /\ \A x \in DOMAIN a : \E j \in 1 .. d : a[x] = s[j]
      BY <2>2 DEF Proposed, InOrder
    <3>2. \A j \in 1 .. d : j \in DOMAIN s
      OBVIOUS
    <3>3. InOrder(a, executions, sent)
      BY <3>1, <3>2 DEF InOrder
    <3>4. \A j \in DOMAIN mainLog : Before(mainLog[j].reqs, a)
      BY <3>1, <3>2 DEF Before
    <3>5. Before(a, r)
      <4> SUFFICES ASSUME NEW x \in DOMAIN a, NEW y \in DOMAIN r
                   PROVE  BatchOf(a[x]) <= BatchOf(r[y])
        BY DEF Before
      <4>1. PICK j \in 1 .. d : a[x] = s[j]
        BY <3>1
      <4>2. y + d \in DOMAIN s /\ r[y] = s[y + d] /\ j < y + d
        BY <1>2 DEF Suffix
      <4>3. BatchOf(s[j]) <= BatchOf(s[y + d])
        BY <3>2, <4>2 DEF InOrder, Sorted
      <4> QED BY <4>1, <4>2, <4>3
    <3>6. mainLog' = Append(mainLog, [reqs |-> a, committed |-> FALSE])
      BY <2>2 DEF Proposed
    <3>7. mainLog \in Seq(Table!PrePrepare) /\ LogInOrder(mainLog, requestsQueueOfPrimary, executions, sent)
      BY DEF TableInv, TableTyped, OnceInv
    <3> QED BY <1>3, <3>3, <3>4, <3>5, <3>6, <3>7, OrderExtends
  <2> QED BY <1>1, <2>1, <2>2 DEF Sending
<1>5. LogInOrder(mainLog, requestsQueueOfPrimary, executions, sent)'
  BY <1>4 DEF r
<1> QED BY <1>5 DEF OnceInv

LEMMA InOrderAfter ==
    ASSUME NEW s, NEW ex, NEW st, InOrder(s, ex, st), NEW rs, Before(rs, s), NEW ey,
           \A q \in Table!ReqIds : ey[q] # 0 => ex[q] # 0 \/ \E m \in DOMAIN rs : rs[m] = q
    PROVE  InOrder(s, ey, st)
<1>1. ASSUME NEW x \in DOMAIN s, NEW q \in Table!ReqIds, ey[q] # 0 PROVE BatchOf(q) <= BatchOf(s[x])
  BY <1>1 DEF InOrder, Before
<1> QED BY <1>1 DEF InOrder

(* The first PrePrepare of the log is executed, here or elsewhere: what it *)
(* executes was not executed before, for a request executed before it is   *)
(* the latest of its index, and its reply is known.                        *)
LEMMA ExecutedOnce ==
    ASSUME TableSizes, TableInv, OnceInv, mainLog # <<>>, NEW rs, rs = Head(mainLog).reqs,
           pages' = Table!SavePages(rs), executions' = Table!Count(rs), mainLog' = Tail(mainLog),
           UNCHANGED <<requestsQueueOfPrimary, sent>>, answered \in SUBSET answered'
    PROVE  OnceInv'
<1>0. /\ mainLog \in Seq(Table!PrePrepare) /\ saved = pages /\ PagesAtIndex
      /\ pages \in [Table!Indices -> Table!ReqIds \cup {0}]
      /\ executions \in [Table!ReqIds -> 0 .. 2]
  BY DEF TableInv, TableTyped
<1>1. rs \in Seq(Table!ReqIds) /\ rs = mainLog[1].reqs /\ 1 \in DOMAIN mainLog /\ Len(mainLog) \in Nat
  BY <1>0, HeadTyped
<1>2. /\ InOrder(rs, executions, sent) /\ Before(rs, requestsQueueOfPrimary)
      /\ \A k \in DOMAIN mainLog : 1 < k => Before(rs, mainLog[k].reqs)
  BY <1>1 DEF OnceInv, LogInOrder
<1>3. \A q \in Table!RequestSet(rs) :
         q \in Table!ReqIds /\ ~Table!hasReply(q) /\ \E k \in DOMAIN rs : rs[k] = q
  BY <1>1 DEF Table!RequestSet, Table!ToSet
<1>4. ASSUME NEW q \in Table!RequestSet(rs) PROVE executions[q] = 0
  <2> SUFFICES ASSUME executions[q] # 0 PROVE FALSE
    OBVIOUS
  <2> DEFINE i == Table!Index(q)
             y == pages[i]
  <2>1. PICK k \in DOMAIN rs : rs[k] = q
    BY <1>3
  <2>2. q \in Table!ReqIds /\ q \in Nat \ {0} /\ i \in Table!Indices /\ BatchOf(q) \in Nat
    BY <1>3, RequestFacts
  <2>3. y # 0 /\ BatchOf(q) <= BatchOf(y)
    BY <2>2 DEF OnceInv
  <2>4. y \in Table!ReqIds /\ executions[y] # 0 /\ Table!Index(y) = i
    BY <1>0, <2>2, <2>3 DEF OnceInv, PagesAtIndex
  <2>5. BatchOf(y) \in Nat /\ y \in Nat \ {0}
    BY <2>4, RequestFacts
  <2>6. BatchOf(y) <= BatchOf(q)
    BY <1>2, <2>1, <2>4 DEF InOrder
  <2>7. BatchOf(y) = BatchOf(q)
    BY <2>2, <2>3, <2>5, <2>6
  <2>8. y = q
    BY <2>2, <2>4, <2>5, <2>7, SameRequest
  <2>9. Table!hasReply(q)
    BY <1>0, <2>2, <2>8 DEF Table!hasReply
  <2> QED BY <1>3, <2>9
<1>5. ASSUME NEW q \in Table!ReqIds
      PROVE  /\ executions'[q] <= 1
             /\ executions'[q] # 0 => executions[q] # 0 \/ q \in Table!RequestSet(rs)
             /\ executions[q] # 0 => executions'[q] # 0
             /\ q \in Table!RequestSet(rs) => executions'[q] # 0
  <2>1. executions'[q] = IF q \in Table!RequestSet(rs) /\ executions[q] < 2
                         THEN executions[q] + 1 ELSE executions[q]
    BY DEF Table!Count
  <2>2. executions[q] \in 0 .. 2 /\ executions[q] <= 1
    BY <1>0 DEF OnceInv
  <2> QED BY <1>4, <2>1, <2>2
<1>6. ASSUME NEW i \in Table!Indices
      PROVE  \/ Table!Places(rs, i) = {} /\ pages'[i] = pages[i]
             \/ \E k \in Table!Places(rs, i) : /\ pages'[i] = rs[k]
                                               /\ \A m \in Table!Places(rs, i) : m <= k
  BY <1>1, PageSaved
<1>7. \A i \in Table!Indices : \A k \in Table!Places(rs, i) :
         k \in DOMAIN rs /\ rs[k] \in Table!RequestSet(rs) /\ Table!Index(rs[k]) = i
  BY DEF Table!Places
<1>8. ASSUME NEW i \in Table!Indices, pages'[i] # 0 PROVE executions'[pages'[i]] # 0
  <2>1. CASE pages'[i] = pages[i]
    <3>1. pages[i] \in Table!ReqIds /\ executions[pages[i]] # 0
      BY <1>0, <1>8, <2>1 DEF OnceInv
    <3> QED BY <1>5, <2>1, <3>1
  <2>2. ASSUME NEW k \in Table!Places(rs, i), pages'[i] = rs[k] PROVE executions'[pages'[i]] # 0
    BY <1>3, <1>5, <1>7, <2>2
  <2> QED BY <1>6, <2>1, <2>2
<1>9. ASSUME NEW q \in Table!ReqIds, executions'[q] # 0
      PROVE  /\ pages'[Table!Index(q)] # 0 /\ BatchOf(q) <= BatchOf(pages'[Table!Index(q)])
             /\ BatchOf(q) < sent
  <2> DEFINE i == Table!Index(q)
  <2>1. i \in Table!Indices /\ BatchOf(q) \in Nat
    BY RequestFacts
  <2>2. executions[q] # 0 \/ q \in Table!RequestSet(rs)
    BY <1>5, <1>9
  <2>3. ASSUME q \in Table!RequestSet(rs)
        PROVE  \E m \in Table!Places(rs, i) : rs[m] = q
    BY <1>3, <2>3 DEF Table!Places
  <2>4. BatchOf(q) < sent
    BY <1>2, <1>3, <2>2 DEF InOrder, OnceInv
  <2>5. CASE Table!Places(rs, i) = {} /\ pages'[i] = pages[i]
    <3>1. executions[q] # 0
      BY <2>2, <2>3, <2>5
    <3> QED BY <2>4, <2>5, <3>1 DEF OnceInv
  <2>6. ASSUME NEW k \in Table!Places(rs, i), pages'[i] = rs[k],
               \A m \in Table!Places(rs, i) : m <= k
        PROVE  pages'[i] # 0 /\ BatchOf(q) <= BatchOf(pages'[i])
    <3>1. k \in DOMAIN rs /\ rs[k] \in Table!ReqIds
      BY <1>1, <1>7, <2>1
    <3>2. rs[k] # 0 /\ BatchOf(rs[k]) \in Nat
      BY <3>1, RequestFacts
    <3>3. CASE executions[q] # 0
      BY <1>2, <2>6, <3>1, <3>2, <3>3 DEF InOrder
    <3>4. CASE q \in Table!RequestSet(rs)
      <4>1. PICK m \in Table!Places(rs, i) : rs[m] = q
        BY <2>3, <3>4
      <4>2. m \in DOMAIN rs /\ m <= k
        BY <1>7, <2>1, <2>6
      <4>3. m = k \/ m < k
        BY <1>1, <3>1, <4>2
      <4>4. BatchOf(rs[m]) <= BatchOf(rs[k])
        BY <1>2, <3>1, <3>2, <4>2, <4>3 DEF InOrder, Sorted
      <4> QED BY <2>6, <3>2, <4>1, <4>4
    <3> QED BY <2>2, <3>3, <3>4
  <2>7. pages'[i] # 0 /\ BatchOf(q) <= BatchOf(pages'[i])
    BY <1>6, <2>1, <2>5, <2>6
  <2> QED BY <2>4, <2>7
<1>10. \A q \in Table!ReqIds : executions'[q] # 0 =>
          executions[q] # 0 \/ \E m \in DOMAIN rs : rs[m] = q
  BY <1>3, <1>5
<1>11. LogInOrder(mainLog', requestsQueueOfPrimary', executions', sent')
  <2>1. \A j \in DOMAIN mainLog' : mainLog'[j] = mainLog[j + 1] /\ j + 1 \in DOMAIN mainLog /\ 1 < j + 1
    BY <1>0, <1>1
  <2>2. InOrder(requestsQueueOfPrimary, executions', sent)
    BY <1>2, <1>10, InOrderAfter DEF OnceInv, LogInOrder
  <2>3. ASSUME NEW j \in DOMAIN mainLog'
        PROVE  InOrder(mainLog'[j].reqs, executions', sent) /\ Before(mainLog'[j].reqs, requestsQueueOfPrimary)
    <3>1. InOrder(mainLog[j + 1].reqs, executions, sent) /\ Before(mainLog[j + 1].reqs, requestsQueueOfPrimary)
          /\ Before(rs, mainLog[j + 1].reqs)
      BY <1>2, <2>1 DEF OnceInv, LogInOrder
    <3>2. InOrder(mainLog[j + 1].reqs, executions', sent)
      BY <1>10, <3>1, InOrderAfter
    <3> QED BY <2>1, <3>1, <3>2
  <2>4. ASSUME NEW j \in DOMAIN mainLog', NEW k \in DOMAIN mainLog', j < k
        PROVE  Before(mainLog'[j].reqs, mainLog'[k].reqs)
    <3>1. j + 1 < k + 1
      BY <1>0, <1>1, <2>4
    <3> QED BY <2>1, <3>1 DEF OnceInv, LogInOrder
  <2> QED BY <2>2, <2>3, <2>4 DEF LogInOrder
<1>12. \A q \in Table!ReqIds : BatchOf(q) + 1 < sent' => q \in answered'
  BY DEF OnceInv
<1> QED BY <1>5, <1>8, <1>9, <1>11, <1>12 DEF OnceInv

LEMMA OnceClientSteps ==
    ASSUME TableSizes, TableInv, OnceInv,
           Table!ClientSend \/ \E q \in Table!ReqIds : Table!RetransmitReply(q)
    PROVE  OnceInv'
<1> USE DEF Table!tables
<1>1. CASE Table!ClientSend
  <2>1. /\ 1 .. sent * MaxNumOfReqsPerClient \in SUBSET answered /\ sent' = sent + 1
        /\ UNCHANGED <<pages, requestsQueueOfPrimary, mainLog, answered, executions>>
    BY <1>1 DEF Table!ClientSend
  <2>2. sent \in Nat /\ sent * MaxNumOfReqsPerClient \in Nat
    BY DEF TableInv, TableTyped, TableSizes
  <2>3. ASSUME NEW q \in Table!ReqIds, BatchOf(q) + 1 < sent' PROVE q \in answered'
    <3>1. q \in Nat \ {0} /\ BatchOf(q) \in Nat
      BY RequestFacts
    <3>2. BatchOf(q) < sent
      BY <2>1, <2>2, <2>3, <3>1
    <3>3. q <= sent * MaxNumOfReqsPerClient
      BY <2>2, <3>1, <3>2, BatchOrder
    <3> QED BY <2>1, <2>2, <3>1, <3>3
  <2>4. ASSUME NEW q \in Table!ReqIds, BatchOf(q) < sent PROVE BatchOf(q) < sent'
    <3>1. BatchOf(q) \in Nat
      BY RequestFacts
    <3> QED BY <2>1, <2>2, <2>4, <3>1
  <2>5. ASSUME NEW s \in Seq(Table!ReqIds), InOrder(s, executions, sent)
        PROVE  InOrder(s, executions, sent')
    BY <2>4, <2>5 DEF InOrder
  <2>6. requestsQueueOfPrimary \in Seq(Table!ReqIds)
    BY DEF TableInv, TableTyped
  <2>7. LogInOrder(mainLog, requestsQueueOfPrimary, executions, sent')
    <3>1. \A j \in DOMAIN mainLog : InOrder(mainLog[j].reqs, executions, sent')
      BY <2>5, EntryTyped DEF OnceInv, LogInOrder
    <3> QED BY <2>5, <2>6, <3>1 DEF OnceInv, LogInOrder
  <2> QED BY <2>1, <2>3, <2>4, <2>7 DEF OnceInv
<1>2. ASSUME NEW q \in Table!ReqIds, Table!RetransmitReply(q) PROVE OnceInv'
  <2>1. /\ answered' = answered \cup {q}
        /\ UNCHANGED <<pages, requestsQueueOfPrimary, mainLog, sent, executions>>
    BY <1>2 DEF Table!RetransmitReply
  <2> QED BY <2>1 DEF OnceInv
<1> QED BY <1>1, <1>2

LEMMA OncePrimarySteps ==
    ASSUME TableSizes, ~StaleDuplicates, TableInv, OnceInv,
           Table!TryToSend \/ \E q \in Table!ReqIds : Table!OnClientRequestAtPrimary(q)
    PROVE  OnceInv'
<1> DEFINE qu == requestsQueueOfPrimary
<1>0. /\ qu \in Seq(Table!ReqIds) /\ InOrder(qu, executions, sent)
      /\ \A j \in DOMAIN mainLog : Before(mainLog[j].reqs, qu)
  BY DEF TableInv, TableTyped, OnceInv, LogInOrder
<1>1. CASE Table!TryToSend
  BY <1>0, <1>1, SendingInOrder DEF Table!TryToSend
<1>2. ASSUME NEW q \in Table!ReqIds, Table!OnClientRequestAtPrimary(q) PROVE OnceInv'
  <2> DEFINE s == Append(qu, q)
  <2>1. /\ q \in Table!InNetwork /\ Table!TryToSendPrePrepareMsg(s)
        /\ UNCHANGED <<pages, sent, answered, executions>>
    BY <1>2 DEF Table!OnClientRequestAtPrimary
  <2> HIDE DEF qu
  <2>2. /\ s \in Seq(Table!ReqIds) /\ DOMAIN s = DOMAIN qu \cup {Len(qu) + 1} /\ s[Len(qu) + 1] = q
        /\ \A i \in DOMAIN qu : s[i] = qu[i]
        /\ Len(qu) \in Nat /\ DOMAIN qu = 1 .. Len(qu)
    BY <1>0
  <2> DEFINE one == <<q>>
  <2>3. one \in Seq(Table!ReqIds) /\ DOMAIN one = {1} /\ one[1] = q
    OBVIOUS
  <2> HIDE DEF one, s
  <2>4. InOrder(one, executions, sent) /\ \A j \in DOMAIN mainLog : Before(mainLog[j].reqs, one)
    BY <2>1, <2>3, NewInOrder
  <2>5. \A i \in DOMAIN qu : BatchOf(qu[i]) <= BatchOf(q)
    <3> SUFFICES ASSUME NEW i \in DOMAIN qu PROVE BatchOf(qu[i]) <= BatchOf(q)
      OBVIOUS
    <3>1. BatchOf(q) + 1 = sent /\ BatchOf(q) \in Nat
      BY <2>1, NewRequest
    <3>2. qu[i] \in Table!ReqIds /\ BatchOf(qu[i]) < sent
      BY <1>0 DEF InOrder
    <3>3. BatchOf(qu[i]) \in Nat
      BY <3>2, RequestFacts
    <3> QED BY <3>1, <3>2, <3>3
  <2>6. Sorted(s)
    <3> SUFFICES ASSUME NEW i \in DOMAIN s, NEW j \in DOMAIN s, i < j
                 PROVE  BatchOf(s[i]) <= BatchOf(s[j])
      BY DEF Sorted
    <3>1. i \in DOMAIN qu
      BY <2>2
    <3>2. CASE j \in DOMAIN qu
      BY <1>0, <2>2, <3>1, <3>2 DEF InOrder, Sorted
    <3>3. CASE j = Len(qu) + 1
      BY <2>2, <2>5, <3>1, <3>3
    <3> QED BY <2>2, <3>2, <3>3
  <2>7. /\ BatchOf(q) < sent
        /\ \A x \in Table!ReqIds : executions[x] # 0 => BatchOf(x) <= BatchOf(q)
    BY <2>3, <2>4 DEF InOrder
  <2>8. InOrder(s, executions, sent)
    <3> SUFFICES ASSUME NEW i \in DOMAIN s
                 PROVE  /\ BatchOf(s[i]) < sent
                        /\ \A x \in Table!ReqIds : executions[x] # 0 => BatchOf(x) <= BatchOf(s[i])
      BY <2>6 DEF InOrder
    <3>1. CASE i \in DOMAIN qu
      BY <1>0, <2>2, <3>1 DEF InOrder
    <3>2. CASE i = Len(qu) + 1
      BY <2>2, <2>7, <3>2
    <3> QED BY <2>2, <3>1, <3>2
  <2>9. ASSUME NEW j \in DOMAIN mainLog PROVE Before(mainLog[j].reqs, s)
    <3> SUFFICES ASSUME NEW x \in DOMAIN mainLog[j].reqs, NEW y \in DOMAIN s
                 PROVE  BatchOf(mainLog[j].reqs[x]) <= BatchOf(s[y])
      BY DEF Before
    <3>1. CASE y \in DOMAIN qu
      BY <1>0, <2>2, <3>1 DEF Before
    <3>2. CASE y = Len(qu) + 1
      BY <2>2, <2>3, <2>4, <3>2 DEF Before
    <3> QED BY <2>2, <3>1, <3>2
  <2> QED BY <2>1, <2>2, <2>8, <2>9, SendingInOrder
<1> QED BY <1>1, <1>2

LEMMA OnceBackupSteps ==
    ASSUME TableSizes, ~StaleDuplicates, TableInv, OnceInv,
           \/ \E q \in Table!ReqIds : Table!OnClientRequestAtBackup(q)
           \/ \E rs \in Table!OthersProposals : Table!OnPrePrepare(rs)
    PROVE  OnceInv'
<1>1. ASSUME NEW q \in Table!ReqIds, Table!OnClientRequestAtBackup(q) PROVE OnceInv'
  <2>1. UNCHANGED <<pages, requestsQueueOfPrimary, mainLog, sent, answered, executions>>
    BY <1>1 DEF Table!OnClientRequestAtBackup
  <2> QED BY <2>1 DEF OnceInv
<1>2. ASSUME NEW rs \in Table!OthersProposals, Table!OnPrePrepare(rs) PROVE OnceInv'
  <2>1. /\ ~isPrimary /\ mainLog' = Append(mainLog, [reqs |-> rs, committed |-> FALSE])
        /\ UNCHANGED <<pages, requestsQueueOfPrimary, sent, answered, executions>>
    BY <1>2 DEF Table!OnPrePrepare
  <2>2. rs \in Seq(Table!ReqIds) /\ \A k \in DOMAIN rs : rs[k] \in Table!InNetwork
    BY ProposalsTyped
  <2>3. InOrder(rs, executions, sent) /\ \A j \in DOMAIN mainLog : Before(mainLog[j].reqs, rs)
    BY <2>2, NewInOrder
  <2>4. requestsQueueOfPrimary = <<>> /\ Before(rs, <<>>) /\ mainLog \in Seq(Table!PrePrepare)
    BY <2>1 DEF TableInv, TableTyped, Before
  <2>5. /\ LogInOrder(mainLog, requestsQueueOfPrimary, executions, sent)
        /\ InOrder(requestsQueueOfPrimary, executions, sent)
        /\ \A j \in DOMAIN mainLog : Before(mainLog[j].reqs, requestsQueueOfPrimary)
    BY DEF OnceInv, LogInOrder
  <2>6. LogInOrder(mainLog', requestsQueueOfPrimary, executions, sent)
    BY <2>1, <2>3, <2>4, <2>5, OrderExtends
  <2> QED BY <2>1, <2>6 DEF OnceInv
<1> QED BY <1>1, <1>2

LEMMA OnceCommitStep ==
    ASSUME TableSizes, TableInv, OnceInv, NEW k \in DOMAIN mainLog, Table!OnCommitted(k)
    PROVE  OnceInv'
<1>1. /\ mainLog' = [mainLog EXCEPT ![k].committed = TRUE]
      /\ UNCHANGED <<pages, requestsQueueOfPrimary, sent, answered, executions>>
  BY DEF Table!OnCommitted
<1>2. mainLog \in Seq(Table!PrePrepare)
  BY DEF TableInv, TableTyped
<1>3. mainLog[k] \in Table!PrePrepare
  BY <1>2
<1>4. [mainLog[k] EXCEPT !.committed = TRUE].reqs = mainLog[k].reqs
  BY <1>3 DEF Table!PrePrepare
<1>5. DOMAIN mainLog' = DOMAIN mainLog
  BY <1>1
<1>6. \A j \in DOMAIN mainLog : mainLog'[j].reqs = mainLog[j].reqs
  BY <1>1, <1>4
<1>7. LogInOrder(mainLog', requestsQueueOfPrimary, executions, sent)
  BY <1>5, <1>6 DEF OnceInv, LogInOrder
<1> QED BY <1>1, <1>7 DEF OnceInv

LEMMA OnceExecuteSteps ==
    ASSUME TableSizes, TableInv, OnceInv, Table!ExecuteNext \/ Table!StateTransfer
    PROVE  OnceInv'
<1> DEFINE rs == Head(mainLog).reqs
<1>1. /\ mainLog # <<>> /\ pages' = Table!SavePages(rs) /\ executions' = Table!Count(rs)
      /\ mainLog' = Tail(mainLog) /\ UNCHANGED <<requestsQueueOfPrimary, sent>>
      /\ answered' = answered \/ answered' = answered \cup Table!ToSet(rs)
  BY DEF Table!ExecuteNext, Table!StateTransfer, Table!Reply
<1>2. answered \in SUBSET answered'
  BY <1>1
<1> QED BY <1>1, <1>2, ExecutedOnce

LEMMA OnceClears ==
    ASSUME TableSizes, TableInv, OnceInv, NEW kept \in 0 .. Len(mainLog),
           mainLog' = SubSeq(mainLog, 1, kept) \/ mainLog' = mainLog, requestsQueueOfPrimary' = <<>>,
           UNCHANGED <<pages, sent, answered, executions>>
    PROVE  OnceInv'
<1>1. mainLog \in Seq(Table!PrePrepare) /\ Len(mainLog) \in Nat /\ kept \in Nat
  BY DEF TableInv, TableTyped
<1>2. \A j \in DOMAIN mainLog' : j \in DOMAIN mainLog /\ mainLog'[j] = mainLog[j]
  BY <1>1
<1>3. \A a : Before(a, <<>>)
  BY DEF Before
<1>4. InOrder(<<>>, executions, sent)
  BY DEF InOrder, Sorted
<1>5. LogInOrder(mainLog', <<>>, executions, sent)
  BY <1>2, <1>3, <1>4 DEF OnceInv, LogInOrder
<1> QED BY <1>5 DEF OnceInv

LEMMA OnceNext ==
    ASSUME TableSizes, ~StaleDuplicates, TableInv, OnceInv, [Table!Next]_(Table!vars)
    PROVE  OnceInv'
<1>1. CASE UNCHANGED Table!vars
  <2>1. UNCHANGED <<pages, requestsQueueOfPrimary, mainLog, sent, answered, executions>>
    BY <1>1 DEF Table!vars
  <2> QED BY <2>1 DEF OnceInv
<1>2. CASE Table!ClientSend \/ \E q \in Table!ReqIds : Table!RetransmitReply(q)
  BY <1>2, OnceClientSteps
<1>3. CASE Table!TryToSend \/ \E q \in Table!ReqIds : Table!OnClientRequestAtPrimary(q)
  BY <1>3, OncePrimarySteps
<1>4. CASE \/ \E q \in Table!ReqIds : Table!OnClientRequestAtBackup(q)
           \/ \E rs \in Table!OthersProposals : Table!OnPrePrepare(rs)
  BY <1>4, OnceBackupSteps
<1>5. CASE \E k \in DOMAIN mainLog : Table!OnCommitted(k)
  BY <1>5, OnceCommitStep
<1>6. CASE Table!ExecuteNext \/ Table!StateTransfer
  BY <1>6, OnceExecuteSteps
<1>7. ASSUME NEW primary \in BOOLEAN, Table!OnNewView(primary) PROVE OnceInv'
  <2>1. PICK kept \in 0 .. Len(mainLog) : mainLog' = SubSeq(mainLog, 1, kept)
    BY <1>7 DEF Table!OnNewView
  <2>2. requestsQueueOfPrimary' = <<>> /\ UNCHANGED <<pages, sent, answered, executions>>
    BY <1>7 DEF Table!OnNewView
  <2> QED BY <2>1, <2>2, OnceClears
<1>8. CASE Table!Restart
  <2>1. /\ requestsQueueOfPrimary' = <<>> /\ mainLog' = mainLog
        /\ UNCHANGED <<pages, sent, answered, executions>>
    BY <1>8 DEF Table!Restart
  <2>2. 0 \in 0 .. Len(mainLog)
    BY DEF TableInv, TableTyped
  <2> QED BY <2>1, <2>2, OnceClears
<1> QED BY <1>1, <1>2, <1>3, <1>4, <1>5, <1>6, <1>7, <1>8 DEF Table!Next

(* With copies that outlive the answers: the page of an index holds a      *)
(* request that was executed, and one that was executed again is not the   *)
(* only one of its index.                                                  *)
AgainInv ==
    /\ \A i \in Table!Indices : pages[i] # 0 => executions[pages[i]] # 0
    /\ \A q \in Table!ReqIds : executions[q] # 0 => pages[Table!Index(q)] # 0
    /\ \A q \in Table!ReqIds : executions[q] <= 1 \/ Table!ReplyReplaced(q)

LEMMA AgainInit == ASSUME TableSizes, Table!Init PROVE AgainInv
<1>1. pages = [i \in Table!Indices |-> 0] /\ executions = [q \in Table!ReqIds |-> 0]
  BY DEF Table!Init, Table!None
<1> QED BY <1>1 DEF AgainInv

LEMMA AgainExecuteSteps ==
    ASSUME TableSizes, TableInv, AgainInv, Table!ExecuteNext \/ Table!StateTransfer
    PROVE  AgainInv'
<1> DEFINE rs == Head(mainLog).reqs
<1>0. mainLog # <<>> /\ pages' = Table!SavePages(rs) /\ executions' = Table!Count(rs)
  BY DEF Table!ExecuteNext, Table!StateTransfer
<1>1. /\ rs \in Seq(Table!ReqIds) /\ saved = pages /\ PagesAtIndex
      /\ pages \in [Table!Indices -> Table!ReqIds \cup {0}]
      /\ executions \in [Table!ReqIds -> 0 .. 2]
  BY <1>0, HeadTyped DEF TableInv, TableTyped
<1> HIDE DEF rs
<1>2. \A q \in Table!RequestSet(rs) :
         q \in Table!ReqIds /\ ~Table!hasReply(q) /\ \E k \in DOMAIN rs : rs[k] = q
  BY <1>1 DEF Table!RequestSet, Table!ToSet
<1>3. ASSUME NEW q \in Table!ReqIds
      PROVE  /\ executions'[q] \in 0 .. 2 /\ executions[q] \in 0 .. 2
             /\ executions'[q] # 0 => executions[q] # 0 \/ q \in Table!RequestSet(rs)
             /\ executions[q] > 0 => executions'[q] > 0
             /\ q \in Table!RequestSet(rs) => executions'[q] # 0
             /\ q \notin Table!RequestSet(rs) \/ executions[q] = 0 =>
                  executions'[q] <= 1 \/ executions'[q] = executions[q]
  <2>1. executions'[q] = IF q \in Table!RequestSet(rs) /\ executions[q] < 2
                         THEN executions[q] + 1 ELSE executions[q]
    BY <1>0 DEF Table!Count
  <2>2. executions[q] \in 0 .. 2
    BY <1>1
  <2> QED BY <2>1, <2>2
<1>4. ASSUME NEW i \in Table!Indices
      PROVE  \/ Table!Places(rs, i) = {} /\ pages'[i] = pages[i]
             \/ \E k \in Table!Places(rs, i) : pages'[i] = rs[k]
  BY <1>0, <1>1, PageSaved
<1>5. \A i \in Table!Indices : \A k \in Table!Places(rs, i) :
         k \in DOMAIN rs /\ rs[k] \in Table!RequestSet(rs) /\ rs[k] \in Table!ReqIds /\ rs[k] # 0
  <2>1. \A q \in Table!ReqIds : q # 0
    BY RequestFacts
  <2> QED BY <1>1, <2>1 DEF Table!Places
<1>6. ASSUME NEW i \in Table!Indices, pages'[i] # 0 PROVE executions'[pages'[i]] # 0
  <2>1. CASE pages'[i] = pages[i]
    <3>1. pages[i] \in Table!ReqIds /\ executions[pages[i]] # 0
      BY <1>1, <1>6, <2>1 DEF AgainInv
    <3> QED BY <1>3, <2>1, <3>1
  <2>2. ASSUME NEW k \in Table!Places(rs, i), pages'[i] = rs[k] PROVE executions'[pages'[i]] # 0
    BY <1>3, <1>5, <2>2
  <2> QED BY <1>4, <2>1, <2>2
<1>7. ASSUME NEW q \in Table!ReqIds, executions'[q] # 0 PROVE pages'[Table!Index(q)] # 0
  <2> DEFINE i == Table!Index(q)
  <2>1. i \in Table!Indices
    BY RequestFacts
  <2>2. CASE \E k \in Table!Places(rs, i) : pages'[i] = rs[k]
    BY <1>5, <2>1, <2>2
  <2>3. CASE Table!Places(rs, i) = {} /\ pages'[i] = pages[i]
    <3>1. q \notin Table!RequestSet(rs)
      BY <1>2, <2>3 DEF Table!Places
    <3>2. executions[q] # 0
      BY <1>3, <1>7, <3>1
    <3> QED BY <2>3, <3>2 DEF AgainInv
  <2> QED BY <1>4, <2>1, <2>2, <2>3
<1>8. ASSUME NEW q \in Table!ReqIds PROVE executions'[q] <= 1 \/ Table!ReplyReplaced(q)'
  <2>1. ASSUME NEW p \in Table!ReqIds \ {q}, Table!Index(p) = Table!Index(q), executions[p] > 0
        PROVE  Table!ReplyReplaced(q)'
    <3>1. executions'[p] > 0
      BY <1>3, <2>1
    <3> QED BY <2>1, <3>1 DEF Table!ReplyReplaced
  <2>2. CASE q \in Table!RequestSet(rs) /\ executions[q] # 0
    <3> DEFINE i == Table!Index(q)
               y == pages[i]
    <3>1. i \in Table!Indices /\ y # 0
      BY <2>2, RequestFacts DEF AgainInv
    <3>2. y \in Table!ReqIds /\ executions[y] # 0 /\ Table!Index(y) = i
      BY <1>1, <3>1 DEF AgainInv, PagesAtIndex
    <3>3. y # q
      BY <1>1, <1>2, <2>2, <3>1 DEF Table!hasReply
    <3>4. executions[y] > 0
      BY <1>3, <3>2
    <3> QED BY <2>1, <3>2, <3>3, <3>4
  <2>3. CASE ~(q \in Table!RequestSet(rs) /\ executions[q] # 0)
    <3>1. executions'[q] <= 1 \/ executions'[q] = executions[q]
      BY <1>3, <2>3
    <3>2. CASE Table!ReplyReplaced(q)
      BY <2>1, <3>2 DEF Table!ReplyReplaced
    <3> QED BY <3>1, <3>2 DEF AgainInv
  <2> QED BY <2>2, <2>3
<1> QED BY <1>6, <1>7, <1>8 DEF AgainInv

LEMMA AgainNext ==
    ASSUME TableSizes, TableInv, AgainInv, [Table!Next]_(Table!vars)
    PROVE  AgainInv'
<1>1. CASE UNCHANGED <<pages, executions>>
  BY <1>1 DEF AgainInv, Table!ReplyReplaced
<1>2. CASE Table!ExecuteNext \/ Table!StateTransfer
  BY <1>2, AgainExecuteSteps
<1> QED
  BY <1>1, <1>2
  DEF Table!Next, Table!vars, Table!tables, Table!ClientSend, Table!RetransmitReply,
      Table!OnClientRequestAtPrimary, Table!OnClientRequestAtBackup, Table!OnPrePrepare,
      Table!OnCommitted, Table!TryToSend, Table!OnNewView, Table!Restart

(* No request is executed twice: executeRequestsInPrePrepareMsg leaves out *)
(* the requests that have a reply, and the reply of a request that may     *)
(* still be ordered was not overwritten by one of a later client batch.    *)
(* If copies of requests may outlive their answers (StaleDuplicates), a    *)
(* request is executed again only when another one was executed at its     *)
(* place in the client batch.                                              *)
THEOREM RequestsExecuteOnce ==
    ASSUME TableSizes
    PROVE  Table!Spec => []Table!ExecutedAtMostOnce
<1>1. CASE ~StaleDuplicates
  <2>1. Table!Init => TableInv /\ OnceInv
    BY TableInit, OnceInit
  <2>2. TableInv /\ OnceInv /\ [Table!Next]_(Table!vars) => TableInv' /\ OnceInv'
    BY <1>1, TableNext, OnceNext
  <2>3. TableInv /\ OnceInv => Table!ExecutedAtMostOnce
    <3> SUFFICES ASSUME TableInv, OnceInv, NEW q \in Table!ReqIds PROVE ~(executions[q] > 1)
      BY DEF Table!ExecutedAtMostOnce
    <3> QED BY DEF TableInv, TableTyped, OnceInv
  <2> QED BY <2>1, <2>2, <2>3, PTL DEF Table!Spec
<1>2. CASE StaleDuplicates
  <2>1. Table!Init => TableInv /\ AgainInv
    BY TableInit, AgainInit
  <2>2. TableInv /\ AgainInv /\ [Table!Next]_(Table!vars) => TableInv' /\ AgainInv'
    BY TableNext, AgainNext
  <2>3. TableInv /\ AgainInv => Table!ExecutedAtMostOnce
    <3> SUFFICES ASSUME TableInv, AgainInv, NEW q \in Table!ReqIds, executions[q] > 1
                 PROVE  Table!ReplyReplaced(q)
      BY <1>2 DEF Table!ExecutedAtMostOnce
    <3>1. executions[q] \in 0 .. 2
      BY DEF TableInv, TableTyped
    <3> QED BY <3>1 DEF AgainInv
  <2> QED BY <2>1, <2>2, <2>3, PTL DEF Table!Spec
<1> QED BY <1>1, <1>2

-----------------------------------------------------------------------------
(***************************************************************************)
(* The slots of a client at the primary of pre-execution                   *)
(***************************************************************************)
CONSTANTS Size, MaxBatches, MaxMsgs, MaxViews, Roles, MayDecline, QuickTimeouts
VARIABLES primary, batch, slot, loop, jobs, timer, msgs, views, abandoned

Slots == INSTANCE PreExecBatch

(* The replica is the primary and stays it, and no request expires before  *)
(* its batch is registered; batches of every size                          *)
StaysPrimary ==
    /\ Size \in Nat /\ MaxBatches \in Nat /\ MaxMsgs \in Nat
    /\ Roles = {TRUE} /\ MaxViews = 0 /\ QuickTimeouts = FALSE

Occupied == {o \in Slots!Offsets : slot[o] # Slots!Free}

SlotRequests == [cid : Slots!Batches, msg : Nat, client : {TRUE}, req : {TRUE}, now : BOOLEAN]
SlotJobs == [off : Slots!Offsets, cid : Slots!Batches, msg : Nat, primary : {TRUE},
             at : {"run"}, todo : {<<>>}]
ClientBatches == [kind : {"client"}, cid : Slots!Batches, off : Nat, skip : Nat, launch : BOOLEAN]
BatchStates == [cid : 0 .. MaxBatches, size : {0, Size}, registered : BOOLEAN,
                inProcess : BOOLEAN, done : Nat, replies : {<<>>}]

SlotsTyped ==
    /\ primary = TRUE /\ views \in Nat /\ msgs \in Nat /\ abandoned = FALSE
    /\ timer \in 0 .. Size
    /\ batch \in BatchStates
    /\ slot \in [Slots!Offsets -> {Slots!Free} \cup SlotRequests]
    /\ \/ loop = Slots!Idle
       \/ /\ loop \in ClientBatches /\ loop.off <= Size
          /\ loop.launch => loop.off < Size
    /\ jobs \in SUBSET SlotJobs

(* What is occupied belongs to the batch, and a job runs for a request     *)
(* that is marked as being executed.                                       *)
SlotsBelong ==
    /\ \/ batch = Slots!NoBatch
       \/ /\ batch.registered /\ batch.inProcess /\ batch.size = Size /\ Size # 0
          /\ batch.cid \in Slots!Batches
    /\ batch = Slots!NoBatch => Occupied = {}
    /\ \A o \in Occupied : slot[o].cid = batch.cid
    /\ \A j \in jobs : /\ j.off \in Occupied /\ slot[j.off].now
                       /\ j.cid = batch.cid /\ j.msg = slot[j.off].msg

(* The requests of the batch that the loop has registered up to now        *)
Launching == IF loop.launch THEN 1 ELSE 0
LoopCounts ==
    /\ batch.done = 0 /\ Cardinality(Occupied) + loop.skip = loop.off + Launching
    /\ \A o \in Slots!Offsets : o >= loop.off => o \notin Occupied \/ (loop.launch /\ o = loop.off)
    /\ loop.launch => loop.off \in Occupied /\ \A j \in jobs : j.off # loop.off
    /\ \A o \in Occupied : slot[o].msg = msgs
    /\ batch # Slots!NoBatch => batch.cid = loop.cid /\ Occupied # {}

(* Between two messages every request of the batch is done or has its      *)
(* slot, and when none has the timer is about to end the batch; while a    *)
(* batch is registered those up to now have it, except the declined ones.  *)
EveryRequestCounts ==
    /\ loop = Slots!Idle /\ batch # Slots!NoBatch =>
         /\ batch.done + Cardinality(Occupied) = Size
         /\ Occupied # {} \/ timer # 0
    /\ loop # Slots!Idle => LoopCounts

SlotsInv == SlotsTyped /\ SlotsBelong /\ EveryRequestCounts

LEMMA OccupiedIsFinite ==
    ASSUME StaysPrimary, NEW S \in SUBSET Slots!Offsets
    PROVE  IsFiniteSet(S) /\ Cardinality(S) \in Nat /\ (S # {} <=> Cardinality(S) > 0)
<1>1. IsFiniteSet(Slots!Offsets)
  BY FS_Interval DEF StaysPrimary, Slots!Offsets
<1>2. IsFiniteSet(S)
  BY <1>1, FS_Subset
<1>3. Cardinality(S) \in Nat
  BY <1>2, FS_CardinalityType
<1>4. Cardinality(S) = 0 <=> S = {}
  BY <1>2, FS_EmptySet
<1> QED BY <1>2, <1>3, <1>4

LEMMA OccupiedCounts ==
    ASSUME StaysPrimary
    PROVE  /\ IsFiniteSet(Occupied) /\ Cardinality(Occupied) \in Nat
           /\ (Occupied # {} <=> Cardinality(Occupied) > 0)
<1>1. Occupied \in SUBSET Slots!Offsets
  BY DEF Occupied
<1> QED BY <1>1, OccupiedIsFinite

(* What a slot holds *)
LEMMA SlotIs ==
    ASSUME StaysPrimary, SlotsTyped, NEW o \in Occupied
    PROVE  o \in Slots!Offsets /\ slot[o] \in SlotRequests
BY DEF Occupied, SlotsTyped

LEMMA RequestIsNotFree == ASSUME StaysPrimary, NEW r \in SlotRequests PROVE r # Slots!Free
<1>1. r.cid # 0
  BY DEF Slots!Batches, StaysPrimary, SlotRequests
<1> QED BY <1>1 DEF Slots!Free

LEMMA NoBatchIsTyped == ASSUME StaysPrimary PROVE Slots!NoBatch \in BatchStates
BY DEF Slots!NoBatch, StaysPrimary, BatchStates

LEMMA SlotsInit == ASSUME StaysPrimary, Slots!Init PROVE SlotsInv
<1>1. /\ primary = TRUE /\ batch = Slots!NoBatch /\ slot = [o \in Slots!Offsets |-> Slots!Free]
      /\ loop = Slots!Idle /\ jobs = {} /\ timer = 0 /\ msgs = 0 /\ views = 0 /\ abandoned = FALSE
  BY DEF Slots!Init, StaysPrimary
<1>2. Occupied = {}
  BY <1>1 DEF Occupied
<1>3. SlotsTyped
  <2>1. slot \in [Slots!Offsets -> {Slots!Free} \cup SlotRequests]
    BY <1>1
  <2>2. 0 \in 0 .. Size
    BY DEF StaysPrimary
  <2> QED BY <1>1, <2>1, <2>2, NoBatchIsTyped DEF SlotsTyped
<1> QED BY <1>1, <1>2, <1>3 DEF SlotsInv, SlotsBelong, EveryRequestCounts

(* A message begins. *)
LEMMA SlotsBegin ==
    ASSUME StaysPrimary, SlotsInv, NEW c \in Slots!Batches, Slots!ClientBatch(c)
    PROVE  SlotsInv'
<1>1. /\ loop = Slots!Idle /\ ~batch.registered /\ msgs' = msgs + 1
      /\ loop' = [kind |-> "client", cid |-> c, off |-> 0, skip |-> 0, launch |-> FALSE]
      /\ UNCHANGED <<primary, batch, slot, jobs, timer, views, abandoned>>
  BY DEF Slots!ClientBatch, Slots!Message
<1>2. batch = Slots!NoBatch /\ Occupied = {}
  BY <1>1 DEF SlotsInv, SlotsBelong
<1>3. Occupied' = Occupied
  BY <1>1 DEF Occupied
<1>4. /\ loop' \in ClientBatches /\ loop'.off = 0 /\ loop'.skip = 0 /\ loop'.launch = FALSE
      /\ loop'.kind = "client"
  BY <1>1 DEF ClientBatches
<1>5. SlotsTyped'
  BY <1>1, <1>4 DEF SlotsInv, SlotsTyped, StaysPrimary
<1>6. SlotsBelong'
  BY <1>1, <1>3 DEF SlotsInv, SlotsBelong
<1>7. EveryRequestCounts'
  <2>1. batch.done = 0
    BY <1>2 DEF Slots!NoBatch
  <2>2. Cardinality(Occupied') = 0
    BY <1>2, <1>3, FS_EmptySet
  <2>3. loop' # Slots!Idle
    BY <1>4 DEF Slots!Idle
  <2>4. Launching' = 0
    BY <1>4 DEF Launching
  <2>5. LoopCounts'
    BY <1>1, <1>2, <1>3, <1>4, <2>1, <2>2, <2>4 DEF LoopCounts
  <2> QED BY <2>3, <2>5 DEF EveryRequestCounts
<1> QED BY <1>5, <1>6, <1>7 DEF SlotsInv

(* The loop at work *)
LEMMA AtWork ==
    ASSUME StaysPrimary, SlotsInv, loop.kind = "client"
    PROVE  /\ loop # Slots!Idle /\ loop \in ClientBatches /\ loop.off <= Size
           /\ loop.off \in Nat /\ loop.skip \in Nat /\ loop.cid \in Slots!Batches
           /\ loop.launch \in BOOLEAN /\ (loop.launch => loop.off < Size)
           /\ LoopCounts
<1>1. loop # Slots!Idle
  BY DEF Slots!Idle
<1>2. loop \in ClientBatches /\ loop.off <= Size /\ (loop.launch => loop.off < Size)
  BY <1>1 DEF SlotsInv, SlotsTyped
<1> QED BY <1>1, <1>2 DEF SlotsInv, EveryRequestCounts, ClientBatches

(* The next request, and the loop after it *)
LEMMA LoopMoves ==
    ASSUME StaysPrimary, loop \in ClientBatches, loop.off < Size, NEW k \in {0, 1},
           loop' = [loop EXCEPT !.off = @ + 1, !.skip = @ + k, !.launch = FALSE]
    PROVE  /\ loop' \in ClientBatches /\ loop'.off = loop.off + 1 /\ loop'.skip = loop.skip + k
           /\ loop'.launch = FALSE /\ loop'.cid = loop.cid /\ loop'.off <= Size
           /\ Launching' = 0 /\ loop' # Slots!Idle
<1>1. loop' = [kind |-> "client", cid |-> loop.cid, off |-> loop.off + 1, skip |-> loop.skip + k,
               launch |-> FALSE]
  BY DEF ClientBatches
<1>2. /\ loop.off \in Nat /\ loop.skip \in Nat /\ loop.cid \in Slots!Batches
      /\ loop.off + 1 \in Nat /\ loop.skip + k \in Nat
  BY DEF ClientBatches
<1>3. /\ loop' \in ClientBatches /\ loop'.off = loop.off + 1 /\ loop'.skip = loop.skip + k
      /\ loop'.launch = FALSE /\ loop'.cid = loop.cid /\ loop'.kind = "client"
  BY <1>1, <1>2 DEF ClientBatches
<1>4. loop'.off <= Size
  BY <1>2, <1>3 DEF StaysPrimary
<1>5. loop' # Slots!Idle
  BY <1>3 DEF Slots!Idle
<1> QED BY <1>3, <1>4, <1>5 DEF Launching

LEMMA SlotsDecline ==
    ASSUME StaysPrimary, SlotsInv, Slots!ClientRequestDeclined
    PROVE  SlotsInv'
<1>0. primary = TRUE
  BY DEF SlotsInv, SlotsTyped
<1>1. /\ loop.kind = "client" /\ loop.off < Size /\ loop.launch = FALSE
      /\ loop' = [loop EXCEPT !.off = @ + 1, !.skip = @ + 1, !.launch = FALSE]
      /\ UNCHANGED <<primary, batch, slot, jobs, timer, msgs, views, abandoned>>
  BY <1>0 DEF Slots!ClientRequestDeclined, Slots!NextRequest, Slots!Handles
<1>2. /\ loop \in ClientBatches /\ loop.off \in Nat /\ loop.skip \in Nat /\ LoopCounts
  BY <1>1, AtWork
<1>3. /\ loop' \in ClientBatches /\ loop'.off = loop.off + 1 /\ loop'.skip = loop.skip + 1
      /\ loop'.launch = FALSE /\ loop'.cid = loop.cid /\ loop'.off <= Size
      /\ Launching' = 0 /\ loop' # Slots!Idle
  BY <1>1, <1>2, LoopMoves
<1>4. Occupied' = Occupied /\ Cardinality(Occupied) \in Nat
  BY <1>1, OccupiedCounts DEF Occupied
<1>5. SlotsTyped'
  BY <1>1, <1>3 DEF SlotsInv, SlotsTyped
<1>6. SlotsBelong'
  BY <1>1, <1>4 DEF SlotsInv, SlotsBelong
<1>7. LoopCounts'
  <2>1. Cardinality(Occupied) + loop.skip = loop.off
    BY <1>1, <1>2 DEF LoopCounts, Launching
  <2>2. \A o \in Slots!Offsets : o >= loop'.off => o \notin Occupied'
    BY <1>1, <1>2, <1>3, <1>4 DEF LoopCounts, Slots!Offsets
  <2>3. Cardinality(Occupied') + loop'.skip = loop'.off + Launching'
    BY <1>2, <1>3, <1>4, <2>1
  <2> QED BY <1>1, <1>2, <1>3, <1>4, <2>2, <2>3 DEF LoopCounts
<1> QED BY <1>3, <1>5, <1>6, <1>7 DEF SlotsInv, EveryRequestCounts

LEMMA SlotsRegister ==
    ASSUME StaysPrimary, SlotsInv, Slots!ClientRequestRegistered
    PROVE  SlotsInv'
<1> DEFINE o == loop.off
           request == [cid |-> loop.cid, msg |-> msgs, client |-> TRUE, req |-> TRUE, now |-> FALSE]
<1>0. primary = TRUE
  BY DEF SlotsInv, SlotsTyped
<1>1. /\ loop.kind = "client" /\ o < Size /\ loop.launch = FALSE /\ slot[o] = Slots!Free
      /\ slot' = [slot EXCEPT ![o] = request]
      /\ batch' = Slots!StartBatch(batch, loop.cid)
      /\ loop' = [loop EXCEPT !.launch = TRUE]
      /\ UNCHANGED <<primary, jobs, timer, msgs, views, abandoned>>
  BY <1>0 DEF Slots!ClientRequestRegistered, Slots!Handles
<1>2. /\ loop \in ClientBatches /\ loop.off \in Nat /\ loop.skip \in Nat
      /\ loop.cid \in Slots!Batches /\ LoopCounts
  BY <1>1, AtWork
<1>3. o \in Slots!Offsets /\ o \notin Occupied /\ Size # 0
  BY <1>1, <1>2 DEF Slots!Offsets, StaysPrimary, LoopCounts
<1>4. request \in SlotRequests /\ request.cid = loop.cid /\ request.msg = msgs
  BY <1>2 DEF SlotsInv, SlotsTyped, SlotRequests
<1> HIDE DEF request
<1>5. request # Slots!Free
  BY <1>4, RequestIsNotFree
<1>6. \A x \in Slots!Offsets : slot'[x] = IF x = o THEN request ELSE slot[x]
  BY <1>1, <1>3 DEF SlotsInv, SlotsTyped
<1>7. Occupied' = Occupied \cup {o}
  BY <1>3, <1>5, <1>6 DEF Occupied
<1>8. Cardinality(Occupied') = Cardinality(Occupied) + 1 /\ Cardinality(Occupied) \in Nat
  BY <1>3, <1>7, OccupiedCounts, FS_AddElement
<1>9. /\ loop' \in ClientBatches /\ loop'.off = loop.off /\ loop'.skip = loop.skip
      /\ loop'.launch = TRUE /\ loop'.cid = loop.cid /\ loop' # Slots!Idle
  <2>1. loop' = [kind |-> "client", cid |-> loop.cid, off |-> loop.off, skip |-> loop.skip,
                 launch |-> TRUE]
    BY <1>1, <1>2 DEF ClientBatches
  <2>2. /\ loop' \in ClientBatches /\ loop'.off = loop.off /\ loop'.skip = loop.skip
        /\ loop'.launch = TRUE /\ loop'.cid = loop.cid /\ loop'.kind = "client"
    BY <1>2, <2>1 DEF ClientBatches
  <2> QED BY <2>2 DEF Slots!Idle
<1>10. /\ batch' \in BatchStates /\ batch'.registered /\ batch'.inProcess /\ batch'.size = Size
       /\ batch'.cid = loop.cid /\ batch'.done = 0 /\ batch' # Slots!NoBatch
  <2>0. batch \in BatchStates
    BY DEF SlotsInv, SlotsTyped
  <2>c. loop.cid \in 0 .. MaxBatches
    BY <1>2 DEF Slots!Batches, StaysPrimary
  <2>1. CASE batch = Slots!NoBatch
    <3>1. ~batch.inProcess /\ batch.done = 0
      BY <2>1 DEF Slots!NoBatch
    <3>2. batch' = [batch EXCEPT !.registered = TRUE, !.inProcess = TRUE, !.cid = loop.cid,
                                 !.size = Size]
      BY <1>1, <3>1 DEF Slots!StartBatch
    <3>3. batch'.registered = TRUE
      BY <2>0, <3>2 DEF BatchStates
    <3>4. batch' # Slots!NoBatch
      BY <3>3 DEF Slots!NoBatch
    <3> QED BY <2>0, <2>c, <3>1, <3>2, <3>4 DEF BatchStates
  <2>2. CASE batch # Slots!NoBatch
    <3>1. batch.registered /\ batch.inProcess /\ batch.size = Size
      BY <2>2 DEF SlotsInv, SlotsBelong
    <3>2. batch' = batch
      BY <1>1, <3>1 DEF Slots!StartBatch
    <3> QED BY <1>2, <2>0, <2>2, <3>1, <3>2 DEF LoopCounts
  <2> QED BY <2>1, <2>2
<1>11. SlotsTyped'
  <2>1. slot' \in [Slots!Offsets -> {Slots!Free} \cup SlotRequests]
    BY <1>1, <1>3, <1>4 DEF SlotsInv, SlotsTyped
  <2> QED BY <1>1, <1>2, <1>9, <1>10, <2>1 DEF SlotsInv, SlotsTyped, StaysPrimary
<1>12. SlotsBelong'
  <2>1. \A x \in Occupied : /\ x \in Slots!Offsets /\ x # o /\ slot'[x] = slot[x]
                            /\ slot[x].cid = loop.cid /\ batch.cid = loop.cid
    BY <1>2, <1>3, <1>6 DEF SlotsInv, SlotsBelong, LoopCounts, Occupied
  <2>2. \A x \in Occupied' : slot'[x].cid = batch'.cid
    BY <1>3, <1>4, <1>6, <1>7, <1>10, <2>1
  <2>3. \A j \in jobs' : /\ j.off \in Occupied' /\ slot'[j.off].now
                         /\ j.cid = batch'.cid /\ j.msg = slot'[j.off].msg
    <3>1. \A j \in jobs : /\ j.off \in Occupied /\ slot[j.off].now
                          /\ j.cid = batch.cid /\ j.msg = slot[j.off].msg
      BY DEF SlotsInv, SlotsBelong
    <3> QED BY <1>1, <1>7, <1>10, <2>1, <3>1
  <2>4. batch'.cid \in Slots!Batches
    BY <1>2, <1>10
  <2> QED BY <1>3, <1>10, <2>2, <2>3, <2>4 DEF SlotsBelong
<1>13. LoopCounts'
  <2>1. Cardinality(Occupied) + loop.skip = loop.off
    BY <1>1, <1>2 DEF LoopCounts, Launching
  <2>2. Cardinality(Occupied') + loop'.skip = loop'.off + Launching'
    BY <1>2, <1>8, <1>9, <2>1 DEF Launching
  <2>3. \A x \in Slots!Offsets : x >= loop'.off =>
          x \notin Occupied' \/ (loop'.launch /\ x = loop'.off)
    BY <1>1, <1>2, <1>7, <1>9 DEF LoopCounts
  <2>4. loop'.launch => loop'.off \in Occupied' /\ \A j \in jobs' : j.off # loop'.off
    BY <1>1, <1>3, <1>7, <1>9 DEF SlotsInv, SlotsBelong
  <2>5. \A x \in Occupied' : slot'[x].msg = msgs'
    <3>1. \A x \in Occupied : slot[x].msg = msgs /\ x \in Slots!Offsets
      BY <1>2 DEF LoopCounts, Occupied
    <3> QED BY <1>1, <1>3, <1>4, <1>6, <1>7, <3>1
  <2> QED BY <1>7, <1>9, <1>10, <2>2, <2>3, <2>4, <2>5 DEF LoopCounts
<1> QED BY <1>9, <1>11, <1>12, <1>13 DEF SlotsInv, EveryRequestCounts

(* The mark of a request is set or cleared. *)
LEMMA MarkIsSet ==
    ASSUME StaysPrimary, SlotsTyped, NEW o \in Occupied, NEW now \in BOOLEAN,
           slot' = Slots!SetNow(o, now)
    PROVE  /\ slot' \in [Slots!Offsets -> {Slots!Free} \cup SlotRequests]
           /\ Occupied' = Occupied
           /\ \A x \in Occupied : /\ slot'[x].cid = slot[x].cid /\ slot'[x].msg = slot[x].msg
                                  /\ x # o => slot'[x].now = slot[x].now
           /\ slot'[o].now = now
<1> DEFINE r == [slot[o] EXCEPT !.now = now]
<1>1. o \in Slots!Offsets /\ slot[o] \in SlotRequests /\ slot[o] # Slots!Free
  BY SlotIs DEF Occupied
<1>2. r \in SlotRequests /\ r.cid = slot[o].cid /\ r.msg = slot[o].msg /\ r.now = now
  BY <1>1 DEF SlotRequests
<1>3. slot' = [slot EXCEPT ![o] = r]
  BY <1>1 DEF Slots!SetNow
<1> HIDE DEF r
<1>4. r # Slots!Free
  BY <1>2, RequestIsNotFree
<1>5. \A x \in Slots!Offsets : slot'[x] = IF x = o THEN r ELSE slot[x]
  BY <1>1, <1>3 DEF SlotsTyped
<1>6. Occupied' = Occupied
  BY <1>1, <1>4, <1>5 DEF Occupied
<1>7. slot' \in [Slots!Offsets -> {Slots!Free} \cup SlotRequests]
  BY <1>2, <1>3 DEF SlotsTyped
<1> QED BY <1>1, <1>2, <1>5, <1>6, <1>7 DEF Occupied

LEMMA SlotsLaunch ==
    ASSUME StaysPrimary, SlotsInv, Slots!ClientRequestLaunched
    PROVE  SlotsInv'
<1> DEFINE o == loop.off
           job == [off |-> o, cid |-> loop.cid, msg |-> msgs, primary |-> TRUE, at |-> "run",
                   todo |-> <<>>]
<1>0. primary = TRUE
  BY DEF SlotsInv, SlotsTyped
<1>1. /\ loop.kind = "client" /\ o < Size /\ loop.launch = TRUE
      /\ slot' = Slots!SetNow(o, TRUE) /\ jobs' = jobs \cup {job}
      /\ loop' = [loop EXCEPT !.off = @ + 1, !.skip = @ + 0, !.launch = FALSE]
      /\ UNCHANGED <<primary, batch, timer, msgs, views, abandoned>>
  BY <1>0 DEF Slots!ClientRequestLaunched, Slots!Handles, Slots!Launch, Slots!NextRequest,
              Slots!NewJob
<1>2. /\ loop \in ClientBatches /\ loop.off \in Nat /\ loop.skip \in Nat
      /\ loop.cid \in Slots!Batches /\ LoopCounts
  BY <1>1, AtWork
<1>3. o \in Occupied /\ o \in Slots!Offsets /\ slot[o].msg = msgs /\ batch.cid = loop.cid
  BY <1>1, <1>2 DEF LoopCounts, Occupied, SlotsInv, SlotsBelong
<1>4. /\ loop' \in ClientBatches /\ loop'.off = loop.off + 1 /\ loop'.skip = loop.skip + 0
      /\ loop'.launch = FALSE /\ loop'.cid = loop.cid /\ loop'.off <= Size
      /\ Launching' = 0 /\ loop' # Slots!Idle
  BY <1>1, <1>2, LoopMoves
<1>5. /\ slot' \in [Slots!Offsets -> {Slots!Free} \cup SlotRequests]
      /\ Occupied' = Occupied
      /\ \A x \in Occupied : /\ slot'[x].cid = slot[x].cid /\ slot'[x].msg = slot[x].msg
                             /\ x # o => slot'[x].now = slot[x].now
      /\ slot'[o].now = TRUE
  BY <1>1, <1>3, MarkIsSet DEF SlotsInv
<1>6. Cardinality(Occupied) \in Nat
  BY OccupiedCounts
<1>7. /\ job \in SlotJobs /\ job.off = o /\ job.cid = loop.cid /\ job.msg = msgs
  BY <1>2, <1>3 DEF SlotsInv, SlotsTyped, SlotJobs
<1> HIDE DEF job
<1>8. SlotsTyped'
  <2>1. jobs' \in SUBSET SlotJobs
    BY <1>1, <1>7 DEF SlotsInv, SlotsTyped
  <2> QED BY <1>1, <1>4, <1>5, <2>1 DEF SlotsInv, SlotsTyped
<1>9. SlotsBelong'
  <2>1. \A j \in jobs' : /\ j.off \in Occupied' /\ slot'[j.off].now
                         /\ j.cid = batch'.cid /\ j.msg = slot'[j.off].msg
    <3>1. \A j \in jobs : /\ j.off \in Occupied /\ slot[j.off].now
                          /\ j.cid = batch.cid /\ j.msg = slot[j.off].msg
      BY DEF SlotsInv, SlotsBelong
    <3>2. \A j \in jobs : j.off # o => slot'[j.off].now /\ j.msg = slot'[j.off].msg
      BY <1>5, <3>1
    <3>3. \A j \in jobs : j.off # o
      BY <1>1, <1>2 DEF LoopCounts
    <3>4. job.off \in Occupied' /\ slot'[job.off].now /\ job.msg = slot'[job.off].msg
      BY <1>3, <1>5, <1>7
    <3> QED BY <1>1, <1>3, <1>5, <1>7, <3>1, <3>2, <3>3, <3>4
  <2>2. \A x \in Occupied' : slot'[x].cid = batch'.cid
    BY <1>1, <1>5 DEF SlotsInv, SlotsBelong
  <2> QED BY <1>1, <1>5, <2>1, <2>2 DEF SlotsInv, SlotsBelong
<1>10. LoopCounts'
  <2>1. Cardinality(Occupied) + loop.skip = loop.off + 1
    BY <1>1, <1>2 DEF LoopCounts, Launching
  <2>2. Cardinality(Occupied') + loop'.skip = loop'.off + Launching'
    BY <1>2, <1>4, <1>5, <1>6, <2>1
  <2>3. \A x \in Slots!Offsets : x >= loop'.off => x \notin Occupied'
    BY <1>2, <1>4, <1>5 DEF LoopCounts, Slots!Offsets
  <2>4. \A x \in Occupied' : slot'[x].msg = msgs'
    BY <1>1, <1>2, <1>5 DEF LoopCounts
  <2> QED BY <1>1, <1>2, <1>4, <1>5, <2>2, <2>3, <2>4 DEF LoopCounts
<1> QED BY <1>4, <1>8, <1>9, <1>10 DEF SlotsInv, EveryRequestCounts

LEMMA SlotsEnd ==
    ASSUME StaysPrimary, SlotsInv, Slots!ClientBatchEnds
    PROVE  SlotsInv'
<1>0. primary = TRUE
  BY DEF SlotsInv, SlotsTyped
<1>1. /\ loop.kind = "client" /\ loop.off = Size
      /\ batch' = IF loop.skip < Size THEN [batch EXCEPT !.done = @ + loop.skip] ELSE batch
      /\ loop' = Slots!Idle
      /\ UNCHANGED <<primary, slot, jobs, timer, msgs, views, abandoned>>
  BY <1>0 DEF Slots!ClientBatchEnds
<1>2. /\ loop.off \in Nat /\ loop.skip \in Nat /\ loop.launch = FALSE /\ LoopCounts
  <2>1. /\ loop.off \in Nat /\ loop.skip \in Nat /\ LoopCounts
        /\ loop.launch \in BOOLEAN /\ (loop.launch => loop.off < Size)
    BY <1>1, AtWork
  <2> QED BY <1>1, <2>1
<1>3. /\ Occupied' = Occupied /\ Cardinality(Occupied) \in Nat
      /\ (Occupied # {} <=> Cardinality(Occupied) > 0)
      /\ batch.done = 0 /\ Cardinality(Occupied) + loop.skip = Size
  BY <1>1, <1>2, OccupiedCounts DEF Occupied, LoopCounts, Launching
<1>4. batch \in BatchStates
  BY DEF SlotsInv, SlotsTyped
<1>5. CASE loop.skip < Size
  <2>1. Occupied # {}
    BY <1>1, <1>2, <1>3, <1>5
  <2>2. /\ batch # Slots!NoBatch /\ batch.registered /\ batch.inProcess /\ batch.size = Size
        /\ batch.cid \in Slots!Batches /\ Size # 0
    BY <2>1 DEF SlotsInv, SlotsBelong
  <2>3. batch' = [batch EXCEPT !.done = loop.skip]
    BY <1>1, <1>2, <1>3, <1>4, <1>5 DEF BatchStates
  <2>4. /\ batch'.registered /\ batch'.inProcess /\ batch'.size = Size /\ batch'.cid = batch.cid
        /\ batch'.done = loop.skip /\ batch' \in BatchStates
    BY <1>2, <1>4, <2>2, <2>3 DEF BatchStates
  <2>5. batch' # Slots!NoBatch
    BY <2>4 DEF Slots!NoBatch
  <2>6. SlotsTyped'
    BY <1>1, <2>4 DEF SlotsInv, SlotsTyped
  <2>7. SlotsBelong'
    BY <1>1, <1>3, <2>2, <2>4, <2>5 DEF SlotsInv, SlotsBelong
  <2>8. EveryRequestCounts'
    BY <1>1, <1>2, <1>3, <2>1, <2>4 DEF EveryRequestCounts
  <2> QED BY <2>6, <2>7, <2>8 DEF SlotsInv
<1>6. CASE ~(loop.skip < Size)
  <2>1. Occupied = {}
    BY <1>1, <1>2, <1>3, <1>6
  <2>2. batch' = Slots!NoBatch /\ batch' = batch
    BY <1>1, <1>2, <1>6, <2>1 DEF LoopCounts
  <2>3. SlotsTyped'
    BY <1>1, <2>2 DEF SlotsInv, SlotsTyped
  <2>4. SlotsBelong'
    BY <1>1, <1>3, <2>2 DEF SlotsInv, SlotsBelong
  <2>5. EveryRequestCounts'
    BY <1>1, <2>2 DEF EveryRequestCounts
  <2> QED BY <2>3, <2>4, <2>5 DEF SlotsInv
<1> QED BY <1>5, <1>6

(* A request is released: the batch ends with the last one, at once or     *)
(* when the timer has passed.                                              *)
LEMMA SlotsRelease ==
    ASSUME StaysPrimary, SlotsInv, loop = Slots!Idle, NEW o \in Occupied,
           slot' = Slots!Released(o),
           \/ batch' = IF Slots!ReleaseFrom(batch, o).done >= Size THEN Slots!NoBatch
                       ELSE Slots!ReleaseFrom(batch, o)
           \/ batch' = Slots!ReleaseFrom(batch, o) /\ timer' # 0,
           jobs' \in SUBSET jobs, \A j \in jobs' : j.off # o, timer' \in 0 .. Size,
           UNCHANGED <<primary, loop, msgs, views, abandoned>>
    PROVE  SlotsInv'
<1> DEFINE b == Slots!ReleaseFrom(batch, o)
<1>1. /\ o \in Slots!Offsets /\ slot[o] # Slots!Free /\ Occupied # {}
      /\ batch # Slots!NoBatch /\ batch.done + Cardinality(Occupied) = Size
      /\ batch.registered /\ batch.inProcess /\ batch.size = Size /\ batch.cid \in Slots!Batches
      /\ Size # 0 /\ batch \in BatchStates
  BY DEF SlotsInv, SlotsBelong, EveryRequestCounts, Occupied, SlotsTyped
<1>2. \A x \in Slots!Offsets : slot'[x] = IF x = o THEN Slots!Free ELSE slot[x]
  BY <1>1 DEF Slots!Released, SlotsInv, SlotsTyped
<1>3. Occupied' = Occupied \ {o}
  BY <1>2 DEF Occupied
<1>4. /\ Cardinality(Occupied) \in Nat /\ Cardinality(Occupied') = Cardinality(Occupied) - 1
      /\ Cardinality(Occupied') \in Nat /\ (Occupied' # {} <=> Cardinality(Occupied') > 0)
  <2>1. Occupied' \in SUBSET Slots!Offsets
    BY <1>3 DEF Occupied
  <2>2. Cardinality(Occupied') \in Nat /\ (Occupied' # {} <=> Cardinality(Occupied') > 0)
    BY <2>1, OccupiedIsFinite
  <2>3. Cardinality(Occupied \ {o}) = Cardinality(Occupied) - 1
    BY OccupiedCounts, FS_RemoveElement
  <2> QED BY <1>3, <2>2, <2>3, OccupiedCounts
<1>5. /\ b.done = batch.done + 1 /\ b.registered /\ b.inProcess /\ b.size = Size
      /\ b.cid = batch.cid /\ b \in BatchStates /\ batch.done \in Nat
  BY <1>1 DEF Slots!ReleaseFrom, BatchStates
<1>6. \/ batch' = IF b.done >= Size THEN Slots!NoBatch ELSE b
      \/ batch' = b /\ timer' # 0
  OBVIOUS
<1> HIDE DEF b
<1>7. b.done >= Size <=> Occupied' = {}
  BY <1>1, <1>4, <1>5 DEF StaysPrimary
<1>8. b # Slots!NoBatch
  BY <1>5 DEF Slots!NoBatch
<1>9. SlotsTyped'
  <2>1. slot' \in [Slots!Offsets -> {Slots!Free} \cup SlotRequests]
    BY <1>1 DEF SlotsInv, SlotsTyped, Slots!Released
  <2>2. batch' = Slots!NoBatch \/ batch' = b
    BY <1>6
  <2> QED BY <1>5, <2>1, <2>2, NoBatchIsTyped DEF SlotsInv, SlotsTyped
<1>10. \A x \in Occupied' : slot'[x] = slot[x] /\ slot[x].cid = batch.cid
  BY <1>2, <1>3 DEF SlotsInv, SlotsBelong, Occupied
<1>11. \A j \in jobs' : /\ j.off \in Occupied' /\ slot'[j.off].now
                        /\ j.cid = batch.cid /\ j.msg = slot'[j.off].msg
  <2>1. \A j \in jobs : /\ j.off \in Occupied /\ slot[j.off].now
                        /\ j.cid = batch.cid /\ j.msg = slot[j.off].msg
    BY DEF SlotsInv, SlotsBelong
  <2> QED BY <1>3, <1>10, <2>1
<1>12. CASE batch' = Slots!NoBatch
  <2>1. Occupied' = {}
    BY <1>6, <1>7, <1>8, <1>12
  <2>2. SlotsBelong' /\ EveryRequestCounts'
    BY <1>11, <1>12, <2>1 DEF SlotsBelong, EveryRequestCounts
  <2> QED BY <1>9, <2>2 DEF SlotsInv
<1>13. CASE batch' = b
  <2>1. Occupied' # {} \/ timer' # 0
    BY <1>6, <1>7, <1>8, <1>13
  <2>2. SlotsBelong'
    BY <1>1, <1>5, <1>8, <1>10, <1>11, <1>13 DEF SlotsBelong
  <2>3. batch'.done + Cardinality(Occupied') = Size
    BY <1>1, <1>4, <1>5, <1>13
  <2>4. EveryRequestCounts'
    BY <2>1, <2>3 DEF EveryRequestCounts
  <2> QED BY <1>9, <2>2, <2>4 DEF SlotsInv
<1> QED BY <1>6, <1>12, <1>13

(* Complete and CancelRequest release one request of the batch. *)
LEMMA CompleteReleases ==
    ASSUME StaysPrimary, SlotsInv, NEW o \in Occupied, NEW c, c = batch.cid,
           Slots!Complete(o, c) \/ Slots!CancelRequest(o, c)
    PROVE  /\ slot' = Slots!Released(o)
           /\ batch' = IF Slots!ReleaseFrom(batch, o).done >= Size THEN Slots!NoBatch
                       ELSE Slots!ReleaseFrom(batch, o)
<1> DEFINE b == Slots!ReleaseFrom(batch, o)
<1>1. slot' = Slots!Released(o) /\ batch' = Slots!Finalized(b, c)
  BY DEF Slots!Complete, Slots!CancelRequest
<1>2. batch.size = Size /\ batch.cid \in Slots!Batches /\ Size # 0
  BY DEF SlotsInv, SlotsBelong
<1>3. b.cid = batch.cid /\ b.size = batch.size
  BY DEF SlotsInv, SlotsTyped, Slots!ReleaseFrom, BatchStates
<1>4. batch.cid # 0
  BY <1>2 DEF Slots!Batches
<1> HIDE DEF b
<1>5. batch' = IF b.done >= Size THEN Slots!NoBatch ELSE b
  BY <1>1, <1>2, <1>3, <1>4 DEF Slots!Finalized
<1> QED BY <1>1, <1>5 DEF b

LEMMA SlotsJobEnds ==
    ASSUME StaysPrimary, SlotsInv, NEW j \in jobs, Slots!PrimaryJobEnds(j)
    PROVE  SlotsInv'
<1>0. /\ jobs' = jobs \ {j} /\ UNCHANGED <<primary, loop, timer, msgs, views, abandoned>>
      /\ \/ slot[j.off] = Slots!Free /\ UNCHANGED <<slot, batch>>
         \/ slot' = Slots!SetNow(j.off, FALSE) /\ UNCHANGED batch
         \/ /\ ~Slots!Registering(j.off)
            /\ Slots!Complete(j.off, j.cid) \/ Slots!CancelRequest(j.off, j.cid)
  BY DEF Slots!PrimaryJobEnds
<1>1. /\ j.off \in Occupied /\ j.off \in Slots!Offsets /\ slot[j.off] # Slots!Free
      /\ j.cid = batch.cid /\ j.msg = slot[j.off].msg
  BY DEF SlotsInv, SlotsBelong, Occupied
<1>2. \A k \in jobs' : k \in jobs /\ k.off # j.off
  <2> SUFFICES ASSUME NEW k \in jobs, k # j, k.off = j.off PROVE FALSE
    BY <1>0
  <2>1. k \in SlotJobs /\ j \in SlotJobs
    BY DEF SlotsInv, SlotsTyped
  <2>2. k.cid = batch.cid /\ k.msg = slot[k.off].msg
    BY DEF SlotsInv, SlotsBelong
  <2>3. k.cid = j.cid /\ k.msg = j.msg /\ k.primary = j.primary /\ k.at = j.at /\ k.todo = j.todo
    BY <1>1, <2>1, <2>2 DEF SlotJobs
  <2>4. k = j
    BY <2>1, <2>3 DEF SlotJobs
  <2> QED BY <2>4
<1>3. CASE slot' = Slots!SetNow(j.off, FALSE) /\ UNCHANGED batch
  <2>1. /\ slot' \in [Slots!Offsets -> {Slots!Free} \cup SlotRequests]
        /\ Occupied' = Occupied
        /\ \A x \in Occupied : /\ slot'[x].cid = slot[x].cid /\ slot'[x].msg = slot[x].msg
                               /\ x # j.off => slot'[x].now = slot[x].now
    BY <1>1, <1>3, MarkIsSet DEF SlotsInv
  <2>2. SlotsTyped'
    BY <1>0, <1>3, <2>1 DEF SlotsInv, SlotsTyped
  <2>3. SlotsBelong'
    <3>1. \A k \in jobs' : /\ k.off \in Occupied' /\ slot'[k.off].now
                           /\ k.cid = batch'.cid /\ k.msg = slot'[k.off].msg
      <4>1. \A k \in jobs : /\ k.off \in Occupied /\ slot[k.off].now
                            /\ k.cid = batch.cid /\ k.msg = slot[k.off].msg
        BY DEF SlotsInv, SlotsBelong
      <4> QED BY <1>2, <1>3, <2>1, <4>1
    <3>2. \A x \in Occupied' : slot'[x].cid = batch'.cid
      BY <1>3, <2>1 DEF SlotsInv, SlotsBelong
    <3> QED BY <1>3, <2>1, <3>1, <3>2 DEF SlotsInv, SlotsBelong
  <2>4. loop # Slots!Idle => LoopCounts'
    <3> SUFFICES ASSUME loop # Slots!Idle PROVE LoopCounts'
      OBVIOUS
    <3>1. LoopCounts
      BY DEF SlotsInv, EveryRequestCounts
    <3>2. Launching' = Launching /\ \A k \in jobs' : k \in jobs
      BY <1>0 DEF Launching
    <3> QED BY <1>0, <1>3, <2>1, <3>1, <3>2 DEF LoopCounts
  <2>5. EveryRequestCounts'
    BY <1>0, <1>3, <2>1, <2>4 DEF SlotsInv, EveryRequestCounts
  <2> QED BY <2>2, <2>3, <2>5 DEF SlotsInv
<1>4. CASE /\ ~Slots!Registering(j.off)
           /\ Slots!Complete(j.off, j.cid) \/ Slots!CancelRequest(j.off, j.cid)
  <2>1. loop = Slots!Idle
    BY <1>1, <1>4 DEF Slots!Registering, SlotsInv, EveryRequestCounts, LoopCounts
  <2>2. /\ slot' = Slots!Released(j.off)
        /\ batch' = IF Slots!ReleaseFrom(batch, j.off).done >= Size THEN Slots!NoBatch
                    ELSE Slots!ReleaseFrom(batch, j.off)
    BY <1>1, <1>4, CompleteReleases
  <2>3. jobs' \in SUBSET jobs /\ (\A k \in jobs' : k.off # j.off) /\ timer' \in 0 .. Size
    BY <1>0, <1>2 DEF SlotsInv, SlotsTyped
  <2> QED BY <1>0, <1>1, <2>1, <2>2, <2>3, SlotsRelease
<1> QED BY <1>0, <1>1, <1>3, <1>4

LEMMA SlotsReply ==
    ASSUME StaysPrimary, SlotsInv, NEW o \in Slots!Offsets, Slots!ReplyDecides(o)
    PROVE  SlotsInv'
<1>1. /\ loop = Slots!Idle /\ slot[o] # Slots!Free /\ ~slot[o].now
      /\ Slots!Complete(o, batch.cid) \/ Slots!CancelRequest(o, batch.cid)
      /\ UNCHANGED <<primary, loop, jobs, timer, msgs, views, abandoned>>
  BY DEF Slots!ReplyDecides
<1>2. o \in Occupied
  BY <1>1 DEF Occupied
<1>3. /\ slot' = Slots!Released(o)
      /\ batch' = IF Slots!ReleaseFrom(batch, o).done >= Size THEN Slots!NoBatch
                  ELSE Slots!ReleaseFrom(batch, o)
  BY <1>1, <1>2, CompleteReleases
<1>4. jobs' \in SUBSET jobs /\ (\A j \in jobs' : j.off # o) /\ timer' \in 0 .. Size
  BY <1>1, <1>2 DEF SlotsInv, SlotsBelong, SlotsTyped
<1> QED BY <1>1, <1>2, <1>3, <1>4, SlotsRelease

LEMMA SlotsExpire ==
    ASSUME StaysPrimary, SlotsInv, NEW o \in Slots!Offsets, Slots!TimerExpires(o)
    PROVE  SlotsInv'
<1>1. /\ slot[o] # Slots!Free /\ ~slot[o].now /\ ~Slots!Registering(o)
      /\ slot' = Slots!Released(o) /\ batch' = Slots!ReleaseFrom(batch, o) /\ timer' = o + 1
      /\ abandoned' = (abandoned \/ Slots!Running(o))
      /\ UNCHANGED <<primary, loop, jobs, msgs, views>>
  BY DEF Slots!TimerExpires, Slots!MayExpire, StaysPrimary
<1>2. o \in Occupied
  BY <1>1 DEF Occupied
<1>3. loop = Slots!Idle
  BY <1>1, <1>2 DEF Slots!Registering, SlotsInv, EveryRequestCounts, LoopCounts
<1>4. \A j \in jobs : j.off # o
  BY <1>1 DEF SlotsInv, SlotsBelong
<1>5. UNCHANGED abandoned
  <2>1. ~Slots!Running(o)
    BY <1>4 DEF Slots!Running
  <2> QED BY <1>1, <2>1 DEF SlotsInv, SlotsTyped
<1>6. timer' \in 0 .. Size /\ timer' # 0
  BY <1>1 DEF Slots!Offsets, StaysPrimary
<1> QED BY <1>1, <1>2, <1>3, <1>4, <1>5, <1>6, SlotsRelease

LEMMA SlotsTimerEnds == ASSUME StaysPrimary, SlotsInv, Slots!TimerEnds PROVE SlotsInv'
<1>1. /\ timer' = 0
      /\ batch' = IF batch.size # 0 /\ batch.done >= batch.size THEN Slots!NoBatch ELSE batch
      /\ UNCHANGED <<primary, slot, loop, jobs, msgs, views, abandoned>>
  BY DEF Slots!TimerEnds
<1>2. Occupied' = Occupied
  BY <1>1 DEF Occupied
<1>3. batch' \in {batch, Slots!NoBatch} /\ batch' \in BatchStates
  BY <1>1, NoBatchIsTyped DEF SlotsInv, SlotsTyped
<1>4. SlotsTyped'
  BY <1>1, <1>3 DEF SlotsInv, SlotsTyped, StaysPrimary
<1>5. CASE batch = Slots!NoBatch
  <2>1. batch' = batch
    BY <1>3, <1>5
  <2>2. SlotsBelong'
    BY <1>1, <1>2, <2>1 DEF SlotsInv, SlotsBelong
  <2>3. LoopCounts => LoopCounts'
    BY <1>1, <1>2, <2>1 DEF LoopCounts, Launching
  <2> QED BY <1>1, <1>2, <1>4, <1>5, <2>1, <2>2, <2>3 DEF SlotsInv, EveryRequestCounts
<1>6. CASE batch # Slots!NoBatch /\ loop # Slots!Idle
  <2>1. LoopCounts /\ batch.size = Size /\ Size # 0
    BY <1>6 DEF SlotsInv, EveryRequestCounts, SlotsBelong
  <2>2. batch' = batch
    BY <1>1, <2>1 DEF LoopCounts, StaysPrimary
  <2>3. SlotsBelong'
    BY <1>1, <1>2, <2>2 DEF SlotsInv, SlotsBelong
  <2>4. LoopCounts'
    BY <1>1, <1>2, <2>1, <2>2 DEF LoopCounts, Launching
  <2> QED BY <1>1, <1>4, <1>6, <2>3, <2>4 DEF SlotsInv, EveryRequestCounts
<1>7. CASE batch # Slots!NoBatch /\ loop = Slots!Idle
  <2>1. /\ batch.done + Cardinality(Occupied) = Size /\ batch.size = Size /\ Size # 0
        /\ batch.done \in Nat
    BY <1>7 DEF SlotsInv, EveryRequestCounts, SlotsBelong, SlotsTyped, BatchStates
  <2>2. Cardinality(Occupied) \in Nat /\ (Occupied # {} <=> Cardinality(Occupied) > 0)
    BY OccupiedCounts
  <2>3. batch.done >= Size <=> Occupied = {}
    BY <2>1, <2>2 DEF StaysPrimary
  <2>4. CASE Occupied = {}
    <3>1. batch' = Slots!NoBatch
      BY <1>1, <2>1, <2>3, <2>4
    <3>2. jobs' = {}
      BY <1>1, <2>4 DEF SlotsInv, SlotsBelong
    <3> QED BY <1>1, <1>2, <1>4, <1>7, <2>4, <3>1, <3>2 DEF SlotsInv, SlotsBelong, EveryRequestCounts
  <2>5. CASE Occupied # {}
    <3>1. batch' = batch
      BY <1>1, <2>1, <2>3, <2>5
    <3>2. SlotsBelong'
      BY <1>1, <1>2, <3>1 DEF SlotsInv, SlotsBelong
    <3> QED BY <1>1, <1>2, <1>4, <1>7, <2>1, <2>5, <3>1, <3>2 DEF SlotsInv, EveryRequestCounts
  <2> QED BY <2>4, <2>5
<1> QED BY <1>5, <1>6, <1>7

LEMMA SlotsNext == ASSUME StaysPrimary, SlotsInv, [Slots!Next]_(Slots!vars) PROVE SlotsInv'
<1>0. primary = TRUE
  BY DEF SlotsInv, SlotsTyped
<1>j. \A j \in jobs : j.primary = TRUE /\ j.at = "run"
  BY DEF SlotsInv, SlotsTyped, SlotJobs
<1>k. loop.kind # "primary"
  BY DEF SlotsInv, SlotsTyped, Slots!Idle, ClientBatches
<1>1. CASE UNCHANGED Slots!vars
  <2>1. Occupied' = Occupied
    BY <1>1 DEF Slots!vars, Occupied
  <2>2. LoopCounts => LoopCounts'
    BY <1>1, <2>1 DEF Slots!vars, LoopCounts, Launching
  <2> QED BY <1>1, <2>1, <2>2 DEF Slots!vars, SlotsInv, SlotsTyped, SlotsBelong, EveryRequestCounts
<1>2. CASE \E c \in Slots!Batches : Slots!ClientBatch(c) \/ Slots!PrimaryBatch(c)
  BY <1>0, <1>2, SlotsBegin DEF Slots!PrimaryBatch
<1>3. CASE Slots!ClientRequestDeclined
  BY <1>3, SlotsDecline
<1>4. CASE Slots!ClientRequestRegistered
  BY <1>4, SlotsRegister
<1>5. CASE Slots!ClientRequestLaunched
  BY <1>5, SlotsLaunch
<1>6. CASE Slots!ClientBatchEnds
  BY <1>6, SlotsEnd
<1>7. CASE \/ Slots!PreProcessRequestRejected \/ Slots!PreProcessRequestRegistered
           \/ Slots!PreProcessRequestLaunched \/ Slots!PrimaryBatchEnds
  BY <1>7, <1>k DEF Slots!PreProcessRequestRejected, Slots!PreProcessRequestRegistered,
                    Slots!PreProcessRequestLaunched, Slots!PrimaryBatchEnds, Slots!Handles
<1>8. ASSUME NEW j \in jobs,
             \/ Slots!PrimaryJobEnds(j) \/ Slots!PeerJobEnds(j) \/ Slots!PeerJobCollects(j)
             \/ Slots!PeerJobReleases(j) \/ Slots!PeerJobResets(j) \/ Slots!PeerJobClears(j)
      PROVE  SlotsInv'
  <2>1. Slots!PrimaryJobEnds(j)
    BY <1>8, <1>j DEF Slots!PeerJobEnds, Slots!PeerJobCollects, Slots!PeerJobReleases,
                      Slots!PeerJobResets, Slots!PeerJobClears
  <2> QED BY <2>1, SlotsJobEnds
<1>9. CASE \E o \in Slots!Offsets : Slots!ReplyDecides(o) \/ Slots!TimerExpires(o)
  BY <1>9, SlotsReply, SlotsExpire
<1>10. CASE Slots!TimerEnds
  BY <1>10, SlotsTimerEnds
<1>11. CASE Slots!ViewChange
  <2>1. views < 0 /\ views \in Nat
    BY <1>11 DEF Slots!ViewChange, SlotsInv, SlotsTyped, StaysPrimary
  <2> QED BY <2>1
<1> QED BY <1>1, <1>2, <1>3, <1>4, <1>5, <1>6, <1>7, <1>8, <1>9, <1>10, <1>11 DEF Slots!Next

(* At the primary no batch is left behind when its requests are gone, so   *)
(* that the next one of the client is accepted, and the timer gives up no  *)
(* request while its job runs: as long as the replica stays the primary    *)
(* and a request does not expire before its batch is registered.  On the   *)
(* other replicas, which do not count the requests they decline, a batch   *)
(* may be left behind.                                                     *)
THEOREM PrimaryReleasesBatches ==
    ASSUME StaysPrimary
    PROVE  Slots!Spec => [](Slots!TypeOK /\ Slots!NoBatchLeftBehind /\ Slots!NotExpiredWhileRunning)
<1>1. Slots!Init => SlotsInv
  BY SlotsInit
<1>2. SlotsInv /\ [Slots!Next]_(Slots!vars) => SlotsInv'
  BY SlotsNext
<1>3. SlotsInv => Slots!TypeOK /\ Slots!NoBatchLeftBehind /\ Slots!NotExpiredWhileRunning
  <2> SUFFICES ASSUME SlotsInv
               PROVE  Slots!TypeOK /\ Slots!NoBatchLeftBehind /\ Slots!NotExpiredWhileRunning
    OBVIOUS
  <2>1. Slots!NoBatchLeftBehind
    <3> SUFFICES ASSUME loop = Slots!Idle, timer = 0, \A o \in Slots!Offsets : slot[o] = Slots!Free
                 PROVE  ~batch.registered
      BY DEF Slots!NoBatchLeftBehind
    <3>1. Occupied = {}
      BY DEF Occupied
    <3>2. batch = Slots!NoBatch
      BY <3>1 DEF SlotsInv, EveryRequestCounts
    <3> QED BY <3>2 DEF Slots!NoBatch
  <2>2. Slots!TypeOK
    <3>1. batch.inProcess => batch.registered
      BY DEF SlotsInv, SlotsBelong, Slots!NoBatch
    <3>2. loop # Slots!Idle => loop.off \in 0 .. Size /\ loop.skip <= loop.off
      <4> SUFFICES ASSUME loop # Slots!Idle PROVE loop.off \in 0 .. Size /\ loop.skip <= loop.off
        OBVIOUS
      <4>1. /\ loop.off \in Nat /\ loop.off <= Size /\ loop.skip \in Nat /\ LoopCounts
        BY DEF SlotsInv, SlotsTyped, ClientBatches, EveryRequestCounts
      <4>2. Cardinality(Occupied) \in Nat /\ (Occupied # {} <=> Cardinality(Occupied) > 0)
        BY OccupiedCounts
      <4>3. Launching = 0 \/ (Launching = 1 /\ Occupied # {})
        BY <4>1 DEF Launching, LoopCounts
      <4>4. Cardinality(Occupied) + loop.skip = loop.off + Launching
        BY <4>1 DEF LoopCounts
      <4> QED BY <4>1, <4>2, <4>3, <4>4 DEF StaysPrimary
    <3>3. /\ batch.cid \in 0 .. MaxBatches /\ batch.size \in {0, Size} /\ batch.replies = <<>>
          /\ \A j \in jobs : j.off \in Slots!Offsets /\ j.todo = <<>>
      BY DEF SlotsInv, SlotsTyped, BatchStates, SlotJobs
    <3>4. <<>> \in Seq(Slots!Offsets)
      OBVIOUS
    <3> QED BY <3>1, <3>2, <3>3, <3>4 DEF SlotsInv, SlotsTyped, Slots!TypeOK
  <2> QED BY <2>1, <2>2 DEF SlotsInv, SlotsTyped, Slots!NotExpiredWhileRunning
<1> QED BY <1>1, <1>2, <1>3, PTL DEF Slots!Spec
=============================================================================
