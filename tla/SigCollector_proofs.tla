------------------------- MODULE SigCollector_proofs ------------------------
(***************************************************************************)
(* Proofs about SigCollector: the results of the background jobs meet the  *)
(* collector they were computed for.  For every set of replicas that fits  *)
(* a 16 bit counter, every number of required shares, of views and of      *)
(* state transfers.                                                        *)
(***************************************************************************)
EXTENDS SigCollector, FiniteSetTheorems, TLAPS

(* A replica among fewer than 2^16, and what the bounds range over *)
Setup ==
    /\ IsFiniteSet(Replicas) /\ Cardinality(Replicas) < UInt16 /\ Self \in Replicas
    /\ Required \in Nat /\ MaxView \in Nat /\ MaxTransfers \in Nat

-----------------------------------------------------------------------------
(* The parts of the inductive invariant *)

Counted(c) == c.numberOfUnknownSignatures = Cardinality(UsableShares(c))

(* What the collector c holds belongs to view v, and only an accepted      *)
(* PrePrepare starts it.                                                   *)
CollectorFits(c, v, active, pp) ==
    /\ Counted(c)
    /\ c.expectedView \in {NoView, v}
    /\ c.expectedView # NoView => active /\ pp
    /\ c.combinedValid # "bad"
    /\ c.combinedValid # "none" => c.expectedView = v
    /\ c.processing => c.expectedView = v /\ c.combinedValid = "none"
    /\ c.partial[Self] # "none" => pp
    /\ \A r \in c.invalid : c.partial[r] # "none"

(* A job of the collector's view says what the collector would compute.    *)
JobFits(c, j) ==
    /\ c.combinedValid = "none"
    /\ j.kind = "verify" => c.candidate # "none" /\ (j.valid <=> c.candidate = "good")
    /\ j.kind = "combine" => j.bad \subseteq UsableShares(c)

(* Among the jobs J, those of the current view. *)
JobsFit(c, J, v, active, pp, inside) ==
    /\ \A j \in J : j.view <= v /\ (j.view = v => active /\ pp)
    /\ \A j, k \in J : j.view = k.view => j = k
    /\ inside /\ c.expectedView = v =>
           /\ c.processing <=> \E j \in J : j.view = v
           /\ \A j \in J : j.view = v => JobFits(c, j)

BeforeTransfer ==
    transfers = 0 => ~collectingState /\ ~aborted /\ (prePrepare => collector.expectedView = curView)

CInv ==
    /\ TypeOK
    /\ CollectorFits(collector, curView, viewActive, prePrepare)
    /\ JobsFit(collector, jobs, curView, viewActive, prePrepare, insideActiveWindow)
    /\ BeforeTransfer

-----------------------------------------------------------------------------
(* Counting shares *)

(* What is below 2^16 fits the counter. *)
LEMMA Fits16 == ASSUME NEW n \in Nat, n < UInt16 PROVE n \in 0 .. UInt16 - 1
<1>1. UInt16 \in Nat
  BY DEF UInt16
<1> QED BY <1>1

(* The usable shares are as many as a 16 bit counter can count. *)
LEMMA UsableFinite ==
    ASSUME Setup, NEW c
    PROVE  /\ IsFiniteSet(UsableShares(c)) /\ Cardinality(UsableShares(c)) \in Nat
           /\ Cardinality(UsableShares(c)) < UInt16
<1>1. UsableShares(c) \in SUBSET Replicas
  BY DEF UsableShares
<1>2. IsFiniteSet(UsableShares(c)) /\ Cardinality(UsableShares(c)) <= Cardinality(Replicas)
  BY <1>1, FS_Subset DEF Setup
<1>3. Cardinality(UsableShares(c)) \in Nat /\ Cardinality(Replicas) \in Nat
  BY <1>2, FS_CardinalityType DEF Setup
<1> QED BY <1>2, <1>3 DEF Setup, UInt16

(* What addMsgWithPartialSignature and onCompletionOfSignaturesProcessing  *)
(* make of a collector                                                     *)
WithShare(c, r, sig) ==
    [c EXCEPT !.partial[r] = sig, !.numberOfUnknownSignatures = (@ + 1) % UInt16]

WithoutBad(c, bad) ==
    [c EXCEPT !.processing = FALSE, !.invalid = @ \cup bad,
              !.numberOfUnknownSignatures = (@ - Cardinality(bad)) % UInt16]

IsWithShare(c, r, sig, d) ==
    /\ c \in Collector /\ Counted(c) /\ r \in Replicas /\ sig \in {"good", "bad"}
    /\ c.partial[r] = "none" /\ \A q \in c.invalid : c.partial[q] # "none"
    /\ d = WithShare(c, r, sig)

(* One more share is one more in the counter. *)
LEMMA CountOneMore ==
    ASSUME Setup, NEW c, NEW r, NEW sig, NEW d, IsWithShare(c, r, sig, d)
    PROVE  /\ d \in Collector /\ Counted(d) /\ UsableShares(c) \subseteq UsableShares(d)
           /\ \A q \in Replicas : d.partial[q] = IF q = r THEN sig ELSE c.partial[q]
           /\ d.invalid = c.invalid
           /\ d.expectedView = c.expectedView /\ d.candidate = c.candidate
           /\ d.combinedValid = c.combinedValid /\ d.processing = c.processing
<1> USE DEF IsWithShare
<1>1. /\ d.partial = [c.partial EXCEPT ![r] = sig] /\ d.invalid = c.invalid
      /\ d.expectedView = c.expectedView /\ d.candidate = c.candidate
      /\ d.combinedValid = c.combinedValid /\ d.processing = c.processing
      /\ d.numberOfUnknownSignatures = (c.numberOfUnknownSignatures + 1) % UInt16
  BY DEF Collector, WithShare
<1>2. c.partial \in [Replicas -> Sigs] /\ c.numberOfUnknownSignatures \in 0 .. UInt16 - 1
  BY DEF Collector
<1>3. UsableShares(d) = UsableShares(c) \cup {r} /\ r \notin UsableShares(c)
  BY <1>1, <1>2 DEF UsableShares
<1>4. Cardinality(UsableShares(d)) = Cardinality(UsableShares(c)) + 1
  BY <1>3, UsableFinite, FS_AddElement
<1>a. /\ Cardinality(UsableShares(c)) \in Nat /\ Cardinality(UsableShares(d)) < UInt16
      /\ c.numberOfUnknownSignatures = Cardinality(UsableShares(c))
  BY UsableFinite DEF Counted
<1>5. d.numberOfUnknownSignatures = c.numberOfUnknownSignatures + 1
  BY <1>1, <1>4, <1>a DEF UInt16
<1>6. d.numberOfUnknownSignatures \in 0 .. UInt16 - 1
  <2>1. Cardinality(UsableShares(c)) + 1 \in 0 .. UInt16 - 1
    BY <1>4, <1>a, Fits16
  <2> QED BY <1>5, <1>a, <2>1, Zenon
<1>7. d.partial \in [Replicas -> Sigs]
  BY <1>1, <1>2 DEF Sigs
<1>8. d \in Collector
  BY <1>6, <1>7 DEF Collector, WithShare
<1>9. \A q \in Replicas : d.partial[q] = IF q = r THEN sig ELSE c.partial[q]
  BY <1>1, <1>2
<1>10. Counted(d) /\ UsableShares(c) \subseteq UsableShares(d)
  <2>1. c.numberOfUnknownSignatures = Cardinality(UsableShares(c))
    BY DEF Counted
  <2> QED BY <1>3, <1>4, <1>5, <2>1 DEF Counted
<1> QED BY <1>1, <1>8, <1>9, <1>10, Zenon

IsWithoutBad(c, bad, d) ==
    /\ c \in Collector /\ Counted(c) /\ bad \subseteq UsableShares(c)
    /\ d = WithoutBad(c, bad)

(* Shares found to be bad leave the counter. *)
LEMMA CountBad ==
    ASSUME Setup, NEW c, NEW bad, NEW d, IsWithoutBad(c, bad, d)
    PROVE  /\ d \in Collector /\ Counted(d)
           /\ d.partial = c.partial /\ d.invalid = c.invalid \cup bad
           /\ d.expectedView = c.expectedView /\ d.candidate = c.candidate
           /\ d.combinedValid = c.combinedValid /\ d.processing = FALSE
<1> USE DEF IsWithoutBad
<1>1. /\ d.partial = c.partial /\ d.invalid = c.invalid \cup bad
      /\ d.expectedView = c.expectedView /\ d.candidate = c.candidate
      /\ d.combinedValid = c.combinedValid /\ d.processing = FALSE
      /\ d.numberOfUnknownSignatures = (c.numberOfUnknownSignatures - Cardinality(bad)) % UInt16
  BY DEF Collector, WithoutBad
<1>2. UsableShares(d) = UsableShares(c) \ bad
  BY <1>1 DEF UsableShares
<1>3. /\ IsFiniteSet(bad) /\ Cardinality(bad) \in Nat
      /\ Cardinality(bad) <= Cardinality(UsableShares(c))
  BY UsableFinite, FS_Subset, FS_CardinalityType
<1>4. Cardinality(UsableShares(d)) = Cardinality(UsableShares(c)) - Cardinality(bad)
  <2>1. bad \cap UsableShares(c) = bad /\ UsableShares(c) \cap bad = bad
    OBVIOUS
  <2>2. IsFiniteSet(UsableShares(c))
    BY UsableFinite
  <2> DEFINE U == UsableShares(c)
  <2> HIDE DEF U
  <2>3. IsFiniteSet(U) /\ U \cap bad = bad
    BY <2>1, <2>2 DEF U
  <2>4. Cardinality(U \ bad) = Cardinality(U) - Cardinality(U \cap bad)
    BY <1>3, <2>3, FS_Difference
  <2> QED BY <1>2, <2>3, <2>4 DEF U
<1>a. /\ Cardinality(UsableShares(c)) \in Nat /\ Cardinality(UsableShares(c)) < UInt16
      /\ c.numberOfUnknownSignatures = Cardinality(UsableShares(c))
  BY UsableFinite DEF Counted
<1>5. d.numberOfUnknownSignatures = c.numberOfUnknownSignatures - Cardinality(bad)
  BY <1>1, <1>3, <1>a DEF UInt16
<1>6. d.numberOfUnknownSignatures \in 0 .. UInt16 - 1
  <2>1. Cardinality(UsableShares(c)) - Cardinality(bad) \in 0 .. UInt16 - 1
    <3>1. /\ Cardinality(UsableShares(c)) - Cardinality(bad) \in Nat
          /\ Cardinality(UsableShares(c)) - Cardinality(bad) < UInt16
      BY <1>3, <1>a DEF UInt16
    <3> QED BY <3>1, Fits16
  <2> QED BY <1>5, <1>a, <2>1, Zenon
<1>7. d.invalid \in SUBSET Replicas
  <2>1. bad \subseteq Replicas
    BY DEF UsableShares
  <2> QED BY <1>1, <2>1 DEF Collector
<1>8. d \in Collector
  BY <1>6, <1>7 DEF Collector, WithoutBad
<1> QED BY <1>1, <1>4, <1>5, <1>8 DEF Counted

-----------------------------------------------------------------------------
(* trySendToBkThread *)

(* A job given out is the only one of its view, and fits. *)
LEMMA TrySendFits ==
    ASSUME Setup, NEW c \in Collector, NEW J \in SUBSET Job, NEW v \in Views,
           NEW active, NEW pp, NEW inside, inside,
           CollectorFits(c, v, active, pp), JobsFit(c, J, v, active, pp, inside),
           c.combinedValid = "none", TrySendToBkThread(c, J)
    PROVE  /\ collector' \in Collector /\ jobs' \in SUBSET Job
           /\ CollectorFits(collector', v, active, pp)
           /\ JobsFit(collector', jobs', v, active, pp, inside)
           /\ collector'.expectedView = c.expectedView
<1>1. CASE NewJobs(c) = {}
  <2>1. collector' = c /\ jobs' = J
    BY <1>1 DEF TrySendToBkThread
  <2> QED BY <2>1
<1>2. ASSUME NEW j \in NewJobs(c), collector' = [c EXCEPT !.processing = TRUE], jobs' = J \cup {j}
      PROVE  /\ collector' \in Collector /\ jobs' \in SUBSET Job
             /\ CollectorFits(collector', v, active, pp)
             /\ JobsFit(collector', jobs', v, active, pp, inside)
             /\ collector'.expectedView = c.expectedView
  <2>1. ~c.processing /\ c.expectedView # NoView /\ c.expectedView = v
    BY <1>2 DEF NewJobs, CollectorFits
  <2>2. \A k \in J : k.view # v
    BY <2>1 DEF JobsFit
  <2>3. /\ collector' \in Collector /\ collector'.processing
        /\ collector'.expectedView = c.expectedView /\ collector'.partial = c.partial
        /\ collector'.invalid = c.invalid /\ collector'.candidate = c.candidate
        /\ collector'.combinedValid = c.combinedValid
        /\ collector'.numberOfUnknownSignatures = c.numberOfUnknownSignatures
    BY <1>2 DEF Collector
  <2>4. UsableShares(collector') = UsableShares(c)
    BY <2>3 DEF UsableShares
  <2>5. j \in Job /\ j.view = v /\ JobFits(c, j)
    <3>1. CASE c.candidate # "none"
      <4>1. j = VerifyJob(c)
        BY <1>2, <2>1, <3>1 DEF NewJobs
      <4> QED BY <2>1, <3>1, <4>1 DEF VerifyJob, Job, JobFits
    <3>2. CASE c.candidate = "none"
      <4>1. PICK S \in SUBSET UsableShares(c) : j = CombineJob(c, S)
        BY <1>2, <2>1, <3>2 DEF NewJobs
      <4>2. S \subseteq Replicas
        BY DEF UsableShares
      <4>3. (\A r \in S : c.partial[r] = "good") \in BOOLEAN
        OBVIOUS
      <4>4. {r \in S : c.partial[r] = "bad"} \subseteq UsableShares(c)
        OBVIOUS
      <4> QED BY <2>1, <4>1, <4>2, <4>3, <4>4 DEF CombineJob, Job, JobFits
    <3> QED BY <3>1, <3>2
  <2>6. CollectorFits(collector', v, active, pp)
    BY <2>1, <2>3, <2>4 DEF CollectorFits, Counted
  <2>7. JobsFit(collector', jobs', v, active, pp, inside)
    <3>1. \A k \in jobs' : k.view <= v /\ (k.view = v => active /\ pp)
      <4>1. v <= v /\ active /\ pp
        BY <2>1 DEF CollectorFits, Views, Setup
      <4> QED BY <1>2, <2>5, <4>1 DEF JobsFit
    <3>2. \A k, l \in jobs' : k.view = l.view => k = l
      BY <1>2, <2>2, <2>5 DEF JobsFit
    <3>3. \A k \in jobs' : k.view = v => JobFits(collector', k)
      BY <1>2, <2>2, <2>3, <2>4, <2>5 DEF JobFits
    <3> QED BY <1>2, <2>3, <2>5, <3>1, <3>2, <3>3 DEF JobsFit
  <2> QED BY <1>2, <2>3, <2>5, <2>6, <2>7
<1> QED BY <1>1, <1>2 DEF TrySendToBkThread

-----------------------------------------------------------------------------
(* Every action keeps the invariant *)

(* What a message or a result leaves in the collector fits, so what        *)
(* trySendToBkThread makes of it does.                                     *)
LEMMA SentStep ==
    ASSUME Setup, CInv, Relevant, NEW c \in Collector, NEW J \in SUBSET Job, NEW pp \in BOOLEAN,
           CollectorFits(c, curView, viewActive, pp),
           JobsFit(c, J, curView, viewActive, pp, insideActiveWindow), c.combinedValid = "none",
           transfers = 0 => (pp => c.expectedView = curView),
           TrySendToBkThread(c, J), prePrepare' = pp, UNCHANGED <<ctxVars, aborted>>
    PROVE  CInv'
<1>1. /\ UNCHANGED <<curView, viewActive, insideActiveWindow, collectingState, transfers, aborted>>
      /\ insideActiveWindow /\ TypeOK /\ BeforeTransfer
  BY DEF ctxVars, Relevant, CInv
<1>2. /\ collector' \in Collector /\ jobs' \in SUBSET Job
      /\ CollectorFits(collector', curView, viewActive, pp)
      /\ JobsFit(collector', jobs', curView, viewActive, pp, insideActiveWindow)
      /\ collector'.expectedView = c.expectedView
  <2>1. curView \in Views
    BY <1>1 DEF TypeOK
  <2> QED BY <1>1, <2>1, TrySendFits
<1>3. TypeOK'
  BY <1>1, <1>2 DEF TypeOK
<1>4. CollectorFits(collector, curView, viewActive, prePrepare)'
  BY <1>1, <1>2 DEF CollectorFits, Counted, UsableShares
<1>5. JobsFit(collector, jobs, curView, viewActive, prePrepare, insideActiveWindow)'
  BY <1>1, <1>2 DEF JobsFit, JobFits, UsableShares
<1>6. BeforeTransfer'
  BY <1>1, <1>2 DEF BeforeTransfer
<1> QED BY <1>3, <1>4, <1>5, <1>6 DEF CInv

(* A collector that is not given out yet, and its fields *)
LEMMA CollectorType ==
    ASSUME TypeOK
    PROVE  /\ collector \in Collector /\ curView \in Views /\ curView # NoView
           /\ NoView \notin Views /\ jobs \in SUBSET Job
BY DEF TypeOK, Views, NoView

(* A PrePrepare is accepted; the collector's assertions hold. *)
LEMMA AddPrePrepareStep == ASSUME Setup, CInv, AddPrePrepare PROVE CInv'
<1> DEFINE c == [collector EXCEPT !.expectedView = curView]
<1>1. /\ TypeOK /\ CollectorFits(collector, curView, viewActive, prePrepare)
      /\ JobsFit(collector, jobs, curView, viewActive, prePrepare, insideActiveWindow)
      /\ Relevant /\ viewActive /\ insideActiveWindow /\ ~prePrepare
  BY DEF CInv, AddPrePrepare, Relevant
<1>2. collector.expectedView = NoView /\ ~collector.processing /\ collector.partial[Self] = "none"
  BY <1>1, CollectorType DEF CollectorFits
<1>3. prePrepare' = TRUE /\ TrySendToBkThread(c, jobs) /\ UNCHANGED aborted /\ UNCHANGED ctxVars
  BY <1>2 DEF AddPrePrepare, Assert
<1>4. /\ c \in Collector /\ c.expectedView = curView /\ c.processing = collector.processing
      /\ c.partial = collector.partial /\ c.invalid = collector.invalid
      /\ c.combinedValid = collector.combinedValid /\ c.candidate = collector.candidate
      /\ c.numberOfUnknownSignatures = collector.numberOfUnknownSignatures
  BY <1>1, CollectorType DEF Collector
<1> HIDE DEF c
<1>5. UsableShares(c) = UsableShares(collector)
  BY <1>4 DEF UsableShares
<1>6. c.combinedValid = "none"
  BY <1>1, <1>2, <1>4, CollectorType DEF CollectorFits
<1>7. CollectorFits(c, curView, viewActive, TRUE)
  BY <1>1, <1>2, <1>4, <1>5, <1>6 DEF CollectorFits, Counted
<1>8. JobsFit(c, jobs, curView, viewActive, TRUE, insideActiveWindow)
  BY <1>1, <1>2, <1>4 DEF JobsFit
<1> QED BY <1>1, <1>3, <1>4, <1>6, <1>7, <1>8, CollectorType, SentStep

(* A share is added. *)
LEMMA AddPartialSignatureStep ==
    ASSUME Setup, CInv, Relevant, NEW r \in Replicas, NEW sig \in {"good", "bad"},
           r = Self => prePrepare, AddPartialSignature(r, sig),
           UNCHANGED <<ctxVars, prePrepare, aborted>>
    PROVE  CInv'
<1> DEFINE c == WithShare(collector, r, sig)
<1>1. /\ TypeOK /\ CollectorFits(collector, curView, viewActive, prePrepare) /\ BeforeTransfer
      /\ JobsFit(collector, jobs, curView, viewActive, prePrepare, insideActiveWindow)
      /\ collector \in Collector /\ jobs \in SUBSET Job /\ prePrepare \in BOOLEAN
      /\ collector.partial \in [Replicas -> Sigs]
  BY CollectorType DEF CInv, TypeOK, Collector
<1>2. /\ collector.combinedValid = "none" /\ collector.partial[r] = "none"
      /\ TrySendToBkThread(c, jobs)
  BY DEF AddPartialSignature, WithShare
<1>3. /\ c \in Collector /\ Counted(c) /\ UsableShares(collector) \subseteq UsableShares(c)
      /\ \A q \in Replicas : c.partial[q] = IF q = r THEN sig ELSE collector.partial[q]
      /\ c.invalid = collector.invalid
      /\ c.expectedView = collector.expectedView /\ c.candidate = collector.candidate
      /\ c.combinedValid = collector.combinedValid /\ c.processing = collector.processing
  <2>1. Counted(collector) /\ \A q \in collector.invalid : collector.partial[q] # "none"
    BY <1>1 DEF CollectorFits
  <2>2. IsWithShare(collector, r, sig, c)
    BY <1>1, <1>2, <2>1 DEF IsWithShare
  <2> HIDE DEF c
  <2> QED BY <2>2, CountOneMore
<1> HIDE DEF c
<1>4. CollectorFits(c, curView, viewActive, prePrepare)
  <2>1. c.partial[Self] # "none" => prePrepare
    BY <1>1, <1>3 DEF CollectorFits, Setup
  <2>2. \A q \in c.invalid : c.partial[q] # "none"
    BY <1>1, <1>3 DEF CollectorFits, Collector
  <2> QED BY <1>1, <1>3, <2>1, <2>2 DEF CollectorFits
<1>5. JobsFit(c, jobs, curView, viewActive, prePrepare, insideActiveWindow)
  BY <1>1, <1>3 DEF JobsFit, JobFits
<1> QED BY <1>1, <1>2, <1>3, <1>4, <1>5, SentStep DEF BeforeTransfer

(* A combined signature is received. *)
LEMMA OnPrepareFullStep ==
    ASSUME Setup, CInv, NEW sig \in {"good", "bad"}, OnPrepareFull(sig)
    PROVE  CInv'
<1> DEFINE c == [collector EXCEPT !.candidate = sig]
<1>1. /\ TypeOK /\ CollectorFits(collector, curView, viewActive, prePrepare) /\ BeforeTransfer
      /\ JobsFit(collector, jobs, curView, viewActive, prePrepare, insideActiveWindow)
      /\ collector \in Collector /\ jobs \in SUBSET Job /\ prePrepare \in BOOLEAN
  BY CollectorType DEF CInv, TypeOK
<1>2. /\ Relevant /\ collector.combinedValid = "none" /\ collector.candidate = "none"
      /\ TrySendToBkThread(c, jobs) /\ UNCHANGED <<ctxVars, prePrepare, aborted>>
  BY DEF OnPrepareFull
<1>3. /\ c \in Collector /\ c.expectedView = collector.expectedView
      /\ c.processing = collector.processing /\ c.partial = collector.partial
      /\ c.invalid = collector.invalid /\ c.combinedValid = collector.combinedValid
      /\ c.numberOfUnknownSignatures = collector.numberOfUnknownSignatures
  BY <1>1 DEF Collector, Sigs
<1> HIDE DEF c
<1>4. UsableShares(c) = UsableShares(collector)
  BY <1>3 DEF UsableShares
<1>5. CollectorFits(c, curView, viewActive, prePrepare)
  BY <1>1, <1>3, <1>4 DEF CollectorFits, Counted
<1>6. JobsFit(c, jobs, curView, viewActive, prePrepare, insideActiveWindow)
  BY <1>1, <1>2, <1>3, <1>4 DEF JobsFit, JobFits
<1> QED BY <1>1, <1>2, <1>3, <1>5, <1>6, SentStep DEF BeforeTransfer

(* The empty collector fits any view. *)
LEMMA EmptyFits ==
    ASSUME Setup, NEW v \in Views, NEW active, NEW pp
    PROVE  Empty \in Collector /\ CollectorFits(Empty, v, active, pp)
<1>1. UsableShares(Empty) = {}
  BY DEF UsableShares, Empty
<1>2. 0 \in 0 .. UInt16 - 1
  BY Fits16 DEF UInt16
<1>3. Empty \in Collector
  BY <1>2 DEF Empty, Collector, Sigs
<1>4. Counted(Empty)
  BY <1>1, FS_EmptySet DEF Counted, Empty
<1> QED BY <1>3, <1>4 DEF CollectorFits, Empty, Setup

(* A job the collector does not wait for is dropped without a trace. *)
LEMMA ForgetJob ==
    ASSUME NEW c, NEW J, NEW v, NEW active, NEW pp, NEW inside,
           JobsFit(c, J, v, active, pp, inside), NEW j \in J,
           inside /\ c.expectedView = v => j.view # v
    PROVE  JobsFit(c, J \ {j}, v, active, pp, inside)
BY DEF JobsFit

(* Once the job of the current view is done, a collector that does not     *)
(* wait has none.                                                          *)
LEMMA DoneJob ==
    ASSUME NEW c, NEW J, NEW v, NEW active, NEW pp, NEW inside,
           JobsFit(c, J, v, active, pp, inside), NEW j \in J, j.view = v,
           NEW d, d.processing = FALSE
    PROVE  JobsFit(d, J \ {j}, v, active, pp, inside)
BY DEF JobsFit

(* What a step leaves that does not give out a job. *)
LEMMA QuietStep ==
    ASSUME Setup, CInv, collector' \in Collector, jobs' \in SUBSET Job,
           UNCHANGED <<ctxVars, prePrepare, aborted>>,
           CollectorFits(collector', curView, viewActive, prePrepare),
           JobsFit(collector', jobs', curView, viewActive, prePrepare, insideActiveWindow),
           transfers = 0 => (prePrepare => collector'.expectedView = curView)
    PROVE  CInv'
<1>1. /\ UNCHANGED <<curView, viewActive, insideActiveWindow, collectingState, transfers,
                     prePrepare, aborted>>
      /\ TypeOK /\ BeforeTransfer
  BY DEF ctxVars, CInv
<1>2. TypeOK' /\ BeforeTransfer'
  BY <1>1 DEF TypeOK, BeforeTransfer
<1>3. CollectorFits(collector, curView, viewActive, prePrepare)'
  BY <1>1 DEF CollectorFits, Counted, UsableShares
<1>4. JobsFit(collector, jobs, curView, viewActive, prePrepare, insideActiveWindow)'
  BY <1>1 DEF JobsFit, JobFits, UsableShares
<1> QED BY <1>2, <1>3, <1>4 DEF CInv

(* A result that comes during a state transfer, or is not relevant. *)
LEMMA DroppedStep ==
    ASSUME Setup, CInv, NEW j \in jobs, ~aborted,
           ResetWhileCollecting(j) \/ DropResult(j), UNCHANGED ctxVars
    PROVE  CInv'
<1>1. /\ TypeOK /\ CollectorFits(collector, curView, viewActive, prePrepare) /\ BeforeTransfer
      /\ JobsFit(collector, jobs, curView, viewActive, prePrepare, insideActiveWindow)
      /\ collector \in Collector /\ jobs \in SUBSET Job /\ curView \in Views /\ curView # NoView
  BY CollectorType DEF CInv
<1>2. jobs' = jobs \ {j} /\ jobs' \in SUBSET Job /\ UNCHANGED <<ctxVars, prePrepare, aborted>>
  BY <1>1 DEF ResetWhileCollecting, DropResult
<1>3. CASE ResetWhileCollecting(j)
  <2>1. collector' = Empty /\ collectingState
    BY <1>3 DEF ResetWhileCollecting
  <2>2. Empty \in Collector /\ CollectorFits(Empty, curView, viewActive, prePrepare)
    BY <1>1, EmptyFits
  <2>3. Empty.expectedView = NoView
    BY DEF Empty
  <2>4. JobsFit(Empty, jobs \ {j}, curView, viewActive, prePrepare, insideActiveWindow)
    BY <1>1, <2>3 DEF JobsFit
  <2>5. transfers # 0
    BY <1>1, <2>1 DEF BeforeTransfer
  <2> QED BY <1>2, <2>1, <2>2, <2>4, <2>5, QuietStep
<1>4. CASE DropResult(j)
  <2>1. collector' = collector /\ ~ResultRelevant(j)
    BY <1>4 DEF DropResult
  <2>2. insideActiveWindow => j.view # curView
    BY <1>1, <2>1 DEF ResultRelevant, JobsFit
  <2>3. JobsFit(collector, jobs \ {j}, curView, viewActive, prePrepare, insideActiveWindow)
    BY <1>1, <2>2, ForgetJob
  <2>4. transfers = 0 => (prePrepare => collector.expectedView = curView)
    BY <1>1 DEF BeforeTransfer
  <2> QED BY <1>1, <1>2, <2>1, <2>3, <2>4, QuietStep
<1> QED BY <1>3, <1>4

(* A relevant result finds the collector waiting for it, unless a state    *)
(* transfer came in between and the assertion stops the replica.           *)
LEMMA UsedStep ==
    ASSUME Setup, CInv, NEW j \in jobs, ~aborted, UseResult(j), UNCHANGED ctxVars
    PROVE  CInv'
<1>1. /\ TypeOK /\ CollectorFits(collector, curView, viewActive, prePrepare) /\ BeforeTransfer
      /\ JobsFit(collector, jobs, curView, viewActive, prePrepare, insideActiveWindow)
      /\ collector \in Collector /\ jobs \in SUBSET Job /\ curView \in Views /\ curView # NoView
      /\ prePrepare \in BOOLEAN
  BY CollectorType DEF CInv, TypeOK
<1>2. viewActive /\ curView = j.view /\ insideActiveWindow /\ ~collectingState /\ prePrepare
  BY <1>1 DEF UseResult, ResultRelevant, JobsFit
<1> DEFINE expected == /\ collector.expectedView = j.view
                       /\ collector.processing /\ collector.combinedValid = "none"
                       /\ j.kind = "verify" => collector.candidate # "none"
<1>3. collector.expectedView = curView => expected /\ JobFits(collector, j)
  BY <1>1, <1>2 DEF JobsFit, JobFits
<1>4. transfers = 0 => expected
  BY <1>1, <1>2, <1>3 DEF BeforeTransfer
<1>5. CASE ~expected
  <2>1. aborted' = TRUE /\ UNCHANGED <<collector, jobs, prePrepare>>
    BY <1>5 DEF UseResult, Assert
  <2>2. UNCHANGED <<curView, viewActive, insideActiveWindow, collectingState, transfers>>
    BY DEF ctxVars
  <2>3. TypeOK' /\ BeforeTransfer'
    BY <1>1, <1>4, <1>5, <2>1, <2>2 DEF TypeOK, BeforeTransfer
  <2>4. CollectorFits(collector, curView, viewActive, prePrepare)'
    BY <1>1, <2>1, <2>2 DEF CollectorFits, Counted, UsableShares
  <2>5. JobsFit(collector, jobs, curView, viewActive, prePrepare, insideActiveWindow)'
    BY <1>1, <2>1, <2>2 DEF JobsFit, JobFits, UsableShares
  <2> QED BY <2>3, <2>4, <2>5 DEF CInv
<1>6. CASE expected
  <2>1. /\ UNCHANGED <<ctxVars, aborted>>
        /\ \/ j.kind = "combine" /\ j.valid /\ SignaturesCombined(j)
           \/ j.kind = "combine" /\ ~j.valid /\ BadSignaturesFound(j)
           \/ j.kind = "verify" /\ CombinedSigVerified(j)
    BY <1>6 DEF UseResult, Assert
  <2>2. JobFits(collector, j) /\ collector.expectedView = curView /\ Relevant
    BY <1>2, <1>3, <1>6 DEF Relevant
  <2>3. jobs \ {j} \in SUBSET Job /\ collector.combinedValid = "none"
    BY <1>1, <1>6
  <2> HIDE DEF expected
  <2>4. CASE j.kind = "combine" /\ j.valid /\ SignaturesCombined(j)
    <3>1. /\ collector' \in Collector /\ collector'.processing = FALSE
          /\ collector'.combinedValid = "good" /\ collector'.expectedView = curView
          /\ collector'.partial = collector.partial /\ collector'.invalid = collector.invalid
          /\ collector'.numberOfUnknownSignatures = collector.numberOfUnknownSignatures
      BY <1>1, <2>2, <2>4 DEF SignaturesCombined, Collector, Sigs
    <3>2. UsableShares(collector') = UsableShares(collector)
      BY <3>1 DEF UsableShares
    <3>3. CollectorFits(collector', curView, viewActive, prePrepare)
      BY <1>1, <1>2, <2>2, <3>1, <3>2 DEF CollectorFits, Counted
    <3>4. jobs' = jobs \ {j} /\ UNCHANGED <<ctxVars, prePrepare, aborted>>
      BY <2>1, <2>4 DEF SignaturesCombined
    <3>5. JobsFit(collector', jobs', curView, viewActive, prePrepare, insideActiveWindow)
      BY <1>1, <1>2, <3>1, <3>4 DEF JobsFit
    <3> QED BY <2>3, <3>1, <3>3, <3>4, <3>5, QuietStep
  <2>5. CASE j.kind = "combine" /\ ~j.valid /\ BadSignaturesFound(j)
    <3> DEFINE c == WithoutBad(collector, j.bad)
    <3>1. TrySendToBkThread(c, jobs \ {j}) /\ UNCHANGED prePrepare
      BY <2>5 DEF BadSignaturesFound, WithoutBad
    <3>2. IsWithoutBad(collector, j.bad, c)
      BY <1>1, <2>2, <2>5 DEF IsWithoutBad, JobFits, CollectorFits
    <3> HIDE DEF c
    <3>3. /\ c \in Collector /\ Counted(c)
          /\ c.partial = collector.partial /\ c.invalid = collector.invalid \cup j.bad
          /\ c.expectedView = collector.expectedView /\ c.candidate = collector.candidate
          /\ c.combinedValid = collector.combinedValid /\ c.processing = FALSE
      BY <3>2, CountBad
    <3>4. \A r \in j.bad : collector.partial[r] # "none"
      BY <2>2, <2>5 DEF JobFits, UsableShares
    <3>5. CollectorFits(c, curView, viewActive, prePrepare)
      BY <1>1, <1>2, <2>2, <3>3, <3>4 DEF CollectorFits
    <3>6. JobsFit(c, jobs \ {j}, curView, viewActive, prePrepare, insideActiveWindow)
      BY <1>1, <1>2, <3>3, DoneJob
    <3> QED BY <1>1, <1>2, <2>1, <2>2, <2>3, <3>1, <3>3, <3>5, <3>6, SentStep
  <2>6. CASE j.kind = "verify" /\ CombinedSigVerified(j) /\ j.valid
    <3>1. /\ collector' \in Collector /\ collector'.processing = FALSE
          /\ collector'.combinedValid = "good" /\ collector'.expectedView = curView
          /\ collector'.partial = collector.partial /\ collector'.invalid = collector.invalid
          /\ collector'.numberOfUnknownSignatures = collector.numberOfUnknownSignatures
      BY <1>1, <2>2, <2>6 DEF CombinedSigVerified, Collector, Sigs, JobFits
    <3>2. UsableShares(collector') = UsableShares(collector)
      BY <3>1 DEF UsableShares
    <3>3. CollectorFits(collector', curView, viewActive, prePrepare)
      BY <1>1, <1>2, <2>2, <3>1, <3>2 DEF CollectorFits, Counted
    <3>4. jobs' = jobs \ {j} /\ UNCHANGED <<ctxVars, prePrepare, aborted>>
      BY <2>1, <2>6 DEF CombinedSigVerified
    <3>5. JobsFit(collector', jobs', curView, viewActive, prePrepare, insideActiveWindow)
      BY <1>1, <1>2, <3>1, <3>4 DEF JobsFit
    <3> QED BY <2>3, <3>1, <3>3, <3>4, <3>5, QuietStep
  <2>7. CASE j.kind = "verify" /\ CombinedSigVerified(j) /\ ~j.valid
    <3> DEFINE c == [collector EXCEPT !.processing = FALSE, !.candidate = "none"]
    <3>1. TrySendToBkThread(c, jobs \ {j}) /\ UNCHANGED prePrepare
      BY <2>7 DEF CombinedSigVerified
    <3>2. /\ c \in Collector /\ c.expectedView = collector.expectedView /\ c.processing = FALSE
          /\ c.partial = collector.partial /\ c.invalid = collector.invalid
          /\ c.combinedValid = collector.combinedValid
          /\ c.numberOfUnknownSignatures = collector.numberOfUnknownSignatures
      BY <1>1 DEF Collector, Sigs
    <3> HIDE DEF c
    <3>3. UsableShares(c) = UsableShares(collector)
      BY <3>2 DEF UsableShares
    <3>4. CollectorFits(c, curView, viewActive, prePrepare)
      BY <1>1, <1>2, <2>2, <3>2, <3>3 DEF CollectorFits, Counted
    <3>5. JobsFit(c, jobs \ {j}, curView, viewActive, prePrepare, insideActiveWindow)
      BY <1>1, <1>2, <3>2, DoneJob
    <3> QED BY <1>1, <1>2, <2>1, <2>2, <2>3, <3>1, <3>2, <3>4, <3>5, SentStep
  <2> QED BY <2>1, <2>4, <2>5, <2>6, <2>7
<1> QED BY <1>5, <1>6

(* What happens to the slot meanwhile: the view is left or entered, the    *)
(* window moves, a state transfer starts or ends.                          *)
LEMMA SlotStep ==
    ASSUME Setup, CInv,
           ExitView \/ EnterView \/ LeaveWindow \/ StartStateTransfer \/ StateTransferComplete
    PROVE  CInv'
<1>1. /\ TypeOK /\ CollectorFits(collector, curView, viewActive, prePrepare) /\ BeforeTransfer
      /\ JobsFit(collector, jobs, curView, viewActive, prePrepare, insideActiveWindow)
      /\ collector \in Collector /\ jobs \in SUBSET Job /\ curView \in Views /\ curView # NoView
      /\ MaxView \in Nat /\ MaxTransfers \in Nat
  BY CollectorType DEF CInv, Setup
<1>2. CASE ExitView
  <2>1. /\ curView' = curView + 1 /\ curView' \in Views /\ viewActive' = FALSE
        /\ prePrepare' = FALSE /\ collector' = Empty
        /\ UNCHANGED <<insideActiveWindow, collectingState, transfers, jobs, aborted>>
    BY <1>1, <1>2 DEF ExitView, Views
  <2>2. Empty \in Collector /\ CollectorFits(Empty, curView', viewActive', prePrepare')
    BY <2>1, EmptyFits
  <2>3. Empty.expectedView = NoView /\ NoView # curView'
    BY <1>1, <2>1 DEF Empty, Views, NoView
  <2>4. TypeOK' /\ BeforeTransfer'
    BY <1>1, <2>1, <2>2 DEF TypeOK, BeforeTransfer
  <2>5. CollectorFits(collector, curView, viewActive, prePrepare)'
    BY <2>1, <2>2 DEF CollectorFits, Counted, UsableShares
  <2>6. \A j \in jobs : j.view \in Int /\ j.view <= curView
    BY <1>1 DEF JobsFit, Job, Views
  <2>7. \A j \in jobs : j.view <= curView' /\ j.view # curView'
    BY <1>1, <2>1, <2>6 DEF Views
  <2>8. JobsFit(collector, jobs, curView, viewActive, prePrepare, insideActiveWindow)'
    BY <1>1, <2>1, <2>3, <2>7 DEF JobsFit
  <2> QED BY <2>4, <2>5, <2>8 DEF CInv
<1>3. CASE EnterView
  <2>1. /\ viewActive' = TRUE /\ ~viewActive
        /\ UNCHANGED <<curView, insideActiveWindow, collectingState, transfers, prePrepare,
                       collector, jobs, aborted>>
    BY <1>3 DEF EnterView
  <2>2. TypeOK' /\ BeforeTransfer'
    BY <1>1, <2>1 DEF TypeOK, BeforeTransfer
  <2>3. CollectorFits(collector, curView, viewActive, prePrepare)'
    BY <1>1, <2>1 DEF CollectorFits, Counted, UsableShares
  <2>4. JobsFit(collector, jobs, curView, viewActive, prePrepare, insideActiveWindow)'
    BY <1>1, <2>1 DEF JobsFit, JobFits, UsableShares
  <2> QED BY <2>2, <2>3, <2>4 DEF CInv
<1>4. CASE LeaveWindow
  <2>1. /\ UNCHANGED <<curView, viewActive, collectingState, transfers, prePrepare, collector,
                       jobs, aborted>>
        /\ insideActiveWindow' = FALSE
    BY <1>4 DEF LeaveWindow
  <2>2. TypeOK' /\ BeforeTransfer'
    BY <1>1, <2>1 DEF TypeOK, BeforeTransfer
  <2>3. CollectorFits(collector, curView, viewActive, prePrepare)'
    BY <1>1, <2>1 DEF CollectorFits, Counted, UsableShares
  <2>4. JobsFit(collector, jobs, curView, viewActive, prePrepare, insideActiveWindow)'
    BY <1>1, <2>1 DEF JobsFit
  <2> QED BY <2>2, <2>3, <2>4 DEF CInv
<1>5. CASE StartStateTransfer \/ StateTransferComplete
  <2>1. /\ UNCHANGED <<curView, viewActive, insideActiveWindow, prePrepare, collector, jobs, aborted>>
        /\ collectingState' \in BOOLEAN /\ transfers' \in 0 .. MaxTransfers /\ transfers' # 0
    <3>1. CASE StartStateTransfer
      BY <1>1, <3>1 DEF TypeOK, StartStateTransfer
    <3>2. CASE StateTransferComplete
      <4>1. transfers # 0
        BY <1>1, <3>2 DEF BeforeTransfer, StateTransferComplete
      <4> QED BY <1>1, <3>2, <4>1 DEF TypeOK, StateTransferComplete
    <3> QED BY <1>5, <3>1, <3>2
  <2>2. TypeOK' /\ BeforeTransfer'
    BY <1>1, <2>1 DEF TypeOK, BeforeTransfer
  <2>3. CollectorFits(collector, curView, viewActive, prePrepare)'
    BY <1>1, <2>1 DEF CollectorFits, Counted, UsableShares
  <2>4. JobsFit(collector, jobs, curView, viewActive, prePrepare, insideActiveWindow)'
    BY <1>1, <2>1 DEF JobsFit, JobFits, UsableShares
  <2> QED BY <2>2, <2>3, <2>4 DEF CInv
<1> QED BY <1>2, <1>3, <1>4, <1>5

-----------------------------------------------------------------------------
(* The theorem *)

(* A collector starts without shares and without jobs. *)
LEMMA CInvInit == ASSUME Setup, Init PROVE CInv
<1>1. 0 \in Views /\ 0 \in 0 .. MaxTransfers
  BY DEF Views, Setup
<1>2. collector \in Collector /\ CollectorFits(collector, curView, viewActive, prePrepare)
  BY <1>1, EmptyFits DEF Init
<1>3. TypeOK
  BY <1>1, <1>2 DEF Init, TypeOK
<1>4. JobsFit(collector, jobs, curView, viewActive, prePrepare, insideActiveWindow)
  <2>1. collector.processing = FALSE
    BY DEF Init, Empty
  <2> QED BY <2>1 DEF Init, JobsFit
<1> QED BY <1>2, <1>3, <1>4 DEF CInv, BeforeTransfer, Init

(* Every step keeps the invariant. *)
LEMMA CInvStep == ASSUME Setup, CInv, [Next]_vars PROVE CInv'
<1>1. CASE UNCHANGED vars
  <2>1. UNCHANGED <<curView, viewActive, insideActiveWindow, collectingState, prePrepare,
                    collector, jobs, transfers, aborted>>
    BY <1>1 DEF vars
  <2> QED BY <2>1 DEF CInv, TypeOK, CollectorFits, Counted, UsableShares, JobsFit, JobFits,
                      BeforeTransfer
<1>2. CASE AddPrePrepare
  BY <1>2, AddPrePrepareStep
<1>3. CASE SendPreparePartial
  <2>1. Self \in Replicas /\ "good" \in {"good", "bad"}
    BY DEF Setup
  <2> QED BY <1>3, <2>1, AddPartialSignatureStep DEF SendPreparePartial
<1>4. ASSUME NEW r \in Replicas, NEW sig \in {"good", "bad"}, OnPreparePartial(r, sig) PROVE CInv'
  BY <1>4, AddPartialSignatureStep DEF OnPreparePartial
<1>5. ASSUME NEW sig \in {"good", "bad"}, OnPrepareFull(sig) PROVE CInv'
  BY <1>5, OnPrepareFullStep
<1>6. ASSUME NEW j \in jobs, OnResult(j) PROVE CInv'
  <2>1. ~aborted /\ UNCHANGED ctxVars
    BY <1>6 DEF OnResult
  <2>2. CASE ResetWhileCollecting(j) \/ DropResult(j)
    BY <1>6, <2>1, <2>2, DroppedStep
  <2>3. CASE UseResult(j)
    BY <1>6, <2>1, <2>3, UsedStep
  <2> QED BY <1>6, <2>2, <2>3 DEF OnResult
<1>7. CASE ExitView \/ EnterView \/ LeaveWindow \/ StartStateTransfer \/ StateTransferComplete
  BY <1>7, SlotStep
<1> QED BY <1>1, <1>2, <1>3, <1>4, <1>5, <1>6, <1>7 DEF Next

(* The jobs of the collector's view are one or none. *)
LEMMA OneJob == ASSUME Setup, CInv PROVE OneJobPerCollector
<1> DEFINE Mine == {j \in jobs : j.view = collector.expectedView}
<1> SUFFICES ASSUME insideActiveWindow
             PROVE  Cardinality(Mine) = IF collector.processing THEN 1 ELSE 0
  BY DEF OneJobPerCollector
<1>1. /\ CollectorFits(collector, curView, viewActive, prePrepare)
      /\ JobsFit(collector, jobs, curView, viewActive, prePrepare, insideActiveWindow)
      /\ collector.processing \in BOOLEAN /\ jobs \in SUBSET Job
      /\ curView # NoView /\ NoView \notin Views
  BY CollectorType DEF CInv, Collector
<1>2. CASE collector.processing
  <2>1. PICK j \in jobs : j.view = collector.expectedView
    BY <1>1, <1>2 DEF CollectorFits, JobsFit
  <2>2. Mine = {j}
    BY <1>1, <2>1 DEF JobsFit
  <2> QED BY <1>2, <2>2, FS_Singleton
<1>3. CASE ~collector.processing
  <2>1. Mine = {}
    BY <1>1, <1>3 DEF CollectorFits, JobsFit, Job
  <2> QED BY <1>3, <2>1, FS_EmptySet
<1> QED BY <1>2, <1>3

(* A certificate the collector holds as valid was verified in the current  *)
(* view, its counter never wraps, a collector that waits for the           *)
(* background has exactly one job there, and as long as no state transfer  *)
(* was started every result meets the assertions of the collector it is    *)
(* brought to (onCompletionOfSignaturesProcessing and                      *)
(* onCompletionOfCombinedSigVerification).                                 *)
THEOREM CollectorIsSafe == ASSUME Setup PROVE Spec => []CollectorSafe
<1>1. Init => CInv
  BY CInvInit
<1>2. CInv /\ [Next]_vars => CInv'
  BY CInvStep
<1>3. CInv => CollectorSafe
  <2>1. ASSUME CInv PROVE CollectorSound
    BY <2>1 DEF CInv, CollectorFits, Counted, CollectorSound
  <2>2. ASSUME CInv PROVE transfers = 0 => AssertionsHold
    BY <2>2 DEF CInv, BeforeTransfer, AssertionsHold
  <2> QED BY <2>1, <2>2, OneJob DEF CInv, CollectorSafe
<1> QED BY <1>1, <1>2, <1>3, PTL DEF Spec
=============================================================================
