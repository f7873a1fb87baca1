------------------------ MODULE StateTransfer_proofs ------------------------
(***************************************************************************)
(* Proofs about the destination of state transfer, for every number of     *)
(* sources of which at most F are faulty, every range size that checkConfig *)
(* accepts, every number of checkpoints, blocks and chunks, crashes and     *)
(* discarded summaries: only vouched checkpoints are fetched, only blocks  *)
(* of the agreed chain are put, the stages keep to their order, and the    *)
(* assertions of the handlers hold.                                        *)
(*   ResPages (Res, below): the reserved pages a replica loads are the     *)
(*     latest, and without a crash its checkpoints and what it serves are  *)
(*     those of every other replica.  For every set of pages, every number *)
(*     of checkpoints, kept checkpoints, virtual blocks and cycles.        *)
(*   BlockCommit (Put, below): the blocks that the data store counts as    *)
(*     there are there, after any number of crashes and for both           *)
(*     blockchains; without a crash the categorized one is never aborted.  *)
(*   StSource (Src, below): a source sends, in order, what it was asked    *)
(*     for.  For every set of destinations, every number of blocks and     *)
(*     chunks and every size of a batch.                                   *)
(***************************************************************************)
EXTENDS StateTransfer, TLAPS, FiniteSetTheorems, SequenceTheorems, WellFoundedInduction

-----------------------------------------------------------------------------
(* Numbers *)

(* A non-empty set of natural numbers has a least element. *)
LEMMA LeastNat ==
  ASSUME NEW S \in SUBSET Nat, S # {}
  PROVE  \E x \in S : \A y \in S : x <= y
<1> DEFINE R == OpToRel(<, Nat)
<1>1. IsWellFoundedOn(R, Nat)
  BY NatLessThanWellFounded
<1>2. PICK x \in S : \A y \in S : ~(<<y, x>> \in R)
  <2> HIDE DEF R
  <2> QED BY <1>1, WFMin
<1>3. \A y \in S : ~(y < x)
  BY <1>2 DEF OpToRel
<1> QED BY <1>3

(* The rest of a division, and what it is the rest of *)
LEMMA Remainder ==
  ASSUME NEW T \in Nat \ {0}, NEW x \in Nat
  PROVE  x % T \in 0..T - 1 /\ x \div T \in Nat /\ x = T * (x \div T) + (x % T)
<1>1. x % T \in 0..T - 1
  BY SMTT(30)
<1>2. x \div T \in Nat
  BY SMTT(30)
<1>3. x = T * (x \div T) + (x % T)
  BY SMTT(30)
<1> QED BY <1>1, <1>2, <1>3

(* Multiples leave no rest, and dividing them gives the factor. *)
LEMMA Multiples ==
  ASSUME NEW T \in Nat \ {0}, NEW x \in Nat
  PROVE  T * x \in Nat /\ (T * x) % T = 0 /\ (T * x) \div T = x
<1>1. T * x \in Nat
  BY SMTT(30)
<1>2. (T * x) \div T = x
  BY SMTT(30)
<1>3. T * x = T * ((T * x) \div T) + ((T * x) % T) /\ (T * x) % T \in 0..T - 1
  <2> HIDE <1>2
  <2> QED BY <1>1, Remainder
<1>4. (T * x) % T = 0
  BY <1>1, <1>2, <1>3
<1> QED BY <1>1, <1>2, <1>4

(* Multiples keep the order of the factors. *)
LEMMA ScaleUp ==
  ASSUME NEW T \in Nat \ {0}, NEW x \in Nat, NEW y \in Nat, x <= y
  PROVE  T * x <= T * y /\ T * x \in Nat /\ T * y \in Nat
<1>1. y - x \in Nat /\ T * (y - x) >= 0
  BY SMTT(30)
<1>2. T * (y - x) = T * y - T * x
  BY SMTT(30)
<1>3. T * x \in Nat /\ T * y \in Nat
  BY SMTT(30)
<1> QED BY <1>1, <1>2, <1>3

LEMMA ScaleDown ==
  ASSUME NEW T \in Nat \ {0}, NEW x \in Nat, NEW y \in Nat, T * x <= T * y
  PROVE  x <= y
<1> SUFFICES ASSUME y + 1 <= x PROVE FALSE
  OBVIOUS
<1>1. T * (y + 1) <= T * x /\ T * (y + 1) \in Nat /\ T * x \in Nat
  BY ScaleUp
<1>2. T * (y + 1) = T * y + T
  BY SMTT(30)
<1>3. T * y \in Nat
  BY SMTT(30)
<1> QED BY <1>1, <1>2, <1>3

(* Division keeps the order. *)
LEMMA DivOrder ==
  ASSUME NEW T \in Nat \ {0}, NEW x \in Nat, NEW y \in Nat, x <= y
  PROVE  x \div T <= y \div T
<1>1. x % T \in 0..T - 1 /\ x \div T \in Nat /\ x = T * (x \div T) + (x % T)
  BY Remainder
<1>2. y % T \in 0..T - 1 /\ y \div T \in Nat /\ y = T * (y \div T) + (y % T)
  BY Remainder
<1>a. DEFINE p == x \div T q == y \div T
<1> SUFFICES ASSUME q + 1 <= p PROVE FALSE
  BY <1>1, <1>2
<1>3. T * (q + 1) <= T * p /\ T * (q + 1) = T * q + T /\ T * p \in Nat /\ T * q \in Nat
  <2> HIDE DEF p, q
  <2>1. p \in Nat /\ q \in Nat
    BY <1>1, <1>2 DEF p, q
  <2>2. T * (q + 1) <= T * p /\ T * p \in Nat
    BY <2>1, ScaleUp
  <2>3. T * (q + 1) = T * q + T /\ T * q \in Nat
    BY <2>1, SMTT(30)
  <2> QED BY <2>2, <2>3
<1>4. x >= T * p /\ y < T * q + T
  BY <1>1, <1>2, <1>3
<1> QED BY <1>3, <1>4

-----------------------------------------------------------------------------
(* Range validation blocks and batches *)

(* The last range validation block up to b, and the first one from b on *)
LEMMA PrevRvbFacts ==
  ASSUME ConfigChecks, NEW b \in Nat
  PROVE  /\ PrevRvb(b) \in Nat /\ IsRvb(PrevRvb(b))
         /\ PrevRvb(b) <= b /\ b < PrevRvb(b) + FetchRange
<1>1. FetchRange \in Nat \ {0}
  BY DEF ConfigChecks
<1>2. b % FetchRange \in 0..FetchRange - 1 /\ b \div FetchRange \in Nat
      /\ b = FetchRange * (b \div FetchRange) + (b % FetchRange)
  BY <1>1, Remainder
<1>3. /\ FetchRange * (b \div FetchRange) \in Nat
      /\ (FetchRange * (b \div FetchRange)) % FetchRange = 0
  BY <1>1, <1>2, Multiples
<1> QED BY <1>1, <1>2, <1>3 DEF PrevRvb, IsRvb

LEMMA PrevRvbOrder ==
  ASSUME ConfigChecks, NEW a \in Nat, NEW b \in Nat, a <= b
  PROVE  PrevRvb(a) <= PrevRvb(b)
<1>1. FetchRange \in Nat \ {0}
  BY DEF ConfigChecks
<1>2. a \div FetchRange \in Nat /\ b \div FetchRange \in Nat
  BY <1>1, Remainder
<1>3. a \div FetchRange <= b \div FetchRange
  BY <1>1, DivOrder
<1> QED BY <1>1, <1>2, <1>3, ScaleUp DEF PrevRvb

LEMMA NextRvbFacts ==
  ASSUME ConfigChecks, NEW b \in Nat
  PROVE  NextRvb(b) \in Nat /\ IsRvb(NextRvb(b)) /\ b <= NextRvb(b)
<1>1. FetchRange \in Nat \ {0}
  BY DEF ConfigChecks
<1>2. CASE IsRvb(b)
  BY <1>2 DEF NextRvb
<1>3. CASE ~IsRvb(b)
  <2>1. PrevRvb(b) \in Nat /\ b < PrevRvb(b) + FetchRange
    BY PrevRvbFacts
  <2>2. b \div FetchRange \in Nat
    BY <1>1, Remainder
  <2>3. FetchRange * (b \div FetchRange) + FetchRange = FetchRange * (b \div FetchRange + 1)
    BY <1>1, <2>2, SMTT(30)
  <2>4. (FetchRange * (b \div FetchRange + 1)) % FetchRange = 0
    <3>1. b \div FetchRange + 1 \in Nat
      BY <2>2
    <3> QED BY <1>1, <3>1, Multiples
  <2>5. IsRvb(PrevRvb(b) + FetchRange)
    BY <2>3, <2>4 DEF IsRvb, PrevRvb
  <2> QED BY <1>1, <1>3, <2>1, <2>5 DEF NextRvb
<1> QED BY <1>2, <1>3

(* A range validation block is not above the last block of its group. *)
LEMMA GroupOfFacts ==
  ASSUME ConfigChecks, NEW v \in Nat, v > 0, IsRvb(v)
  PROVE  GroupOf(v) \in 1..v /\ v <= GroupOf(v) * RvtK * FetchRange
<1>1. FetchRange \in Nat \ {0} /\ RvtK \in Nat \ {0}
  BY DEF ConfigChecks
<1> DEFINE q == v \div FetchRange
           g == (q - 1) \div RvtK + 1
<1>2. q \in Nat /\ v = FetchRange * q
  <2>1. v % FetchRange = 0
    BY DEF IsRvb
  <2>2. q \in Nat /\ v = FetchRange * q + (v % FetchRange)
    BY <1>1, Remainder
  <2>3. FetchRange * q \in Nat
    BY <1>1, <2>2, SMTT(30)
  <2> QED BY <2>1, <2>2, <2>3
<1>3. GroupOf(v) = g
  BY DEF GroupOf
<1> HIDE DEF q
<1>4. q >= 1
  <2> SUFFICES ASSUME q = 0 PROVE FALSE
    BY <1>2
  <2> QED BY <1>1, <1>2, SMTT(30)
<1>5. q <= v
  <2>1. (FetchRange - 1) * q >= 0
    BY <1>1, <1>2, SMTT(30)
  <2>2. (FetchRange - 1) * q = FetchRange * q - q
    BY <1>1, <1>2, SMTT(30)
  <2> QED BY <1>2, <2>1, <2>2
<1>6. q - 1 \in Nat
  BY <1>2, <1>4
<1>7. /\ (q - 1) % RvtK \in 0..RvtK - 1 /\ (q - 1) \div RvtK \in Nat
      /\ q - 1 = RvtK * ((q - 1) \div RvtK) + ((q - 1) % RvtK)
  BY <1>1, <1>6, Remainder
<1> DEFINE p == (q - 1) \div RvtK
<1>8. p \in Nat /\ RvtK * p \in Nat /\ RvtK * p <= q - 1 /\ q <= RvtK * p + RvtK
  <2>1. p \in Nat /\ RvtK * p \in Nat
    BY <1>1, <1>7, SMTT(30)
  <2> QED BY <1>1, <1>2, <1>7, <2>1
<1>9. g = p + 1
  OBVIOUS
<1> HIDE DEF p, g
<1>10. g \in Nat /\ g >= 1 /\ g <= q
  <2>1. (RvtK - 1) * p >= 0 /\ (RvtK - 1) * p = RvtK * p - p
    BY <1>1, <1>8, SMTT(30)
  <2> QED BY <1>2, <1>8, <1>9, <2>1
<1>11. q <= RvtK * g /\ RvtK * g \in Nat
  <2>1. RvtK * (p + 1) = RvtK * p + RvtK
    BY <1>1, <1>8, SMTT(30)
  <2> QED BY <1>1, <1>8, <1>9, <2>1
<1>12. FetchRange * q <= FetchRange * (RvtK * g)
  BY <1>1, <1>2, <1>11, ScaleUp
<1>13. FetchRange * (RvtK * g) = g * RvtK * FetchRange
  BY <1>1, <1>10, SMTT(30)
<1> QED BY <1>2, <1>3, <1>5, <1>10, <1>12, <1>13

(* A group that a range needs has a block of the range at or below its last *)
(* block, and is no greater than the range's last block.                   *)
LEMMA GroupNeededFacts ==
  ASSUME ConfigChecks, NEW from \in Nat \ {0}, NEW to \in Nat, NEW groups,
         GroupNeeded(from, to, groups) # 0
  PROVE  LET g == GroupNeeded(from, to, groups)
         IN  /\ g \in 1..to
             /\ from <= g * RvtK * FetchRange
             /\ from <= PrevRvb(to)
<1> DEFINE missing == Groups(from, to) \ Stored(groups)
           g == GroupNeeded(from, to, groups)
           n == NextRvb(from)
           p == PrevRvb(to)
<1>0. FetchRange \in Nat \ {0} /\ RvtK \in Nat \ {0}
  BY DEF ConfigChecks
<1>1. missing # {} /\ g = CHOOSE x \in missing : \A h \in missing : x <= h
  BY DEF GroupNeeded
<1>2. n \in Nat /\ IsRvb(n) /\ from <= n /\ n > 0
  <2>1. n \in Nat /\ IsRvb(n) /\ from <= n
    BY NextRvbFacts
  <2> QED BY <2>1
<1>3. p \in Nat /\ IsRvb(p) /\ p <= to
  BY PrevRvbFacts
<1>4. n <= p /\ missing \subseteq GroupOf(n)..GroupOf(p)
  BY <1>1, <1>2, <1>3 DEF Groups
<1>5. GroupOf(n) \in 1..n /\ n <= GroupOf(n) * RvtK * FetchRange
  BY <1>2, GroupOfFacts
<1>6. GroupOf(p) \in 1..p
  <2>1. p > 0
    BY <1>2, <1>3, <1>4
  <2> QED BY <1>3, <2>1, GroupOfFacts
<1>7. missing \in SUBSET Nat
  BY <1>4, <1>5, <1>6
<1>8. \E x \in missing : \A h \in missing : x <= h
  <2> HIDE DEF missing
  <2> QED BY <1>1, <1>7, LeastNat
<1>9. g \in GroupOf(n)..GroupOf(p)
  <2> HIDE DEF g
  <2> QED BY <1>1, <1>4, <1>8
<1> HIDE DEF g, n, p
<1>10. g \in 1..to
  BY <1>2, <1>3, <1>5, <1>6, <1>9
<1>11. GroupOf(n) * RvtK * FetchRange <= g * RvtK * FetchRange
  <2>1. /\ (RvtK * FetchRange) \in Nat \ {0}
        /\ GroupOf(n) * RvtK * FetchRange = (RvtK * FetchRange) * GroupOf(n)
        /\ g * RvtK * FetchRange = (RvtK * FetchRange) * g
    <3>1. g \in Nat /\ GroupOf(n) \in Nat
      BY <1>5, <1>10
    <3> QED BY <1>0, <3>1, SMTT(30)
  <2>2. g \in Nat /\ GroupOf(n) \in Nat /\ GroupOf(n) <= g
    BY <1>2, <1>3, <1>5, <1>6, <1>9
  <2>3. (RvtK * FetchRange) * GroupOf(n) <= (RvtK * FetchRange) * g
    BY <2>1, <2>2, ScaleUp
  <2> QED BY <2>1, <2>3
<1>12. g * RvtK * FetchRange \in Nat /\ GroupOf(n) * RvtK * FetchRange \in Nat
  <2>1. g \in Nat /\ GroupOf(n) \in Nat
    BY <1>5, <1>10
  <2> QED BY <1>0, <2>1, SMTT(30)
<1>13. from <= g * RvtK * FetchRange
  <2> DEFINE x == GroupOf(n) * RvtK * FetchRange
             y == g * RvtK * FetchRange
  <2>1. x \in Nat /\ y \in Nat /\ x <= y /\ n <= x
    BY <1>5, <1>11, <1>12
  <2> HIDE DEF x, y
  <2>2. from <= y
    BY <1>2, <2>1
  <2> QED BY <2>2 DEF y
<1>14. from <= p
  BY <1>2, <1>3, <1>4
<1> QED BY <1>10, <1>13, <1>14 DEF g, p

(* computeNextBatchToFetch: a batch is not empty, does not go beyond the   *)
(* last required block, and ends with it or with a range validation block, *)
(* whose digest is known.                                                  *)
LEMMA NextBatchFacts ==
  ASSUME ConfigChecks, NEW min \in Nat \ {0}, NEW last \in Nat, min <= last, NEW groups
  PROVE  LET fe == NextBatch(min, last, groups)
         IN  \E max \in min..last :
               /\ fe = [min |-> min, max |-> max, next |-> max, digest |-> 0]
               /\ IsRvb(max) \/ max = last
<1> DEFINE top     == min + ChunksInBatch - 1
           aligned == IF PrevRvb(top) >= min THEN PrevRvb(top) ELSE top
           capped  == AtMost(aligned, last)
           bound   == GroupBound(min, capped, groups, last)
           max     == AtMost(capped, bound)
<1>0. /\ FetchRange \in Nat \ {0} /\ RvtK \in Nat \ {0} /\ ChunksInBatch \in Nat \ {0}
      /\ FetchRange <= ChunksInBatch
  BY DEF ConfigChecks
<1>1. top \in Nat
  BY <1>0
<1>2. PrevRvb(top) \in Nat /\ IsRvb(PrevRvb(top)) /\ top < PrevRvb(top) + FetchRange
  <2> HIDE DEF top
  <2> QED BY <1>1, PrevRvbFacts
<1>3. aligned \in Nat /\ min <= aligned /\ IsRvb(aligned)
  <2>1. PrevRvb(top) >= min
    BY <1>0, <1>2
  <2> HIDE DEF top
  <2> QED BY <1>2, <2>1
<1> HIDE DEF aligned
<1>4. capped \in min..last /\ (IsRvb(capped) \/ capped = last)
  BY <1>3 DEF AtMost
<1> HIDE DEF capped
<1>5. bound = capped \/ (bound \in Nat /\ min <= bound /\ IsRvb(bound))
  <2> DEFINE g == GroupNeeded(min, capped, groups)
  <2>1. CASE Cardinality(Groups(min, capped)) < 2 \/ g = 0
    BY <2>1 DEF GroupBound
  <2>2. CASE ~(Cardinality(Groups(min, capped)) < 2 \/ g = 0)
    <3>1. capped \in Nat /\ capped <= last
      BY <1>4
    <3>2. g \in 1..capped /\ min <= g * RvtK * FetchRange /\ min <= PrevRvb(capped)
      BY <2>2, <3>1, GroupNeededFacts
    <3> DEFINE x == g * RvtK * FetchRange
    <3>3. bound = IF x <= PrevRvb(last) THEN x ELSE PrevRvb(last)
      BY <2>2 DEF GroupBound
    <3> HIDE DEF g
    <3>4. x \in Nat /\ IsRvb(x)
      <4>1. g \in Nat
        BY <3>1, <3>2
      <4>2. g * RvtK \in Nat /\ x = FetchRange * (g * RvtK)
        BY <1>0, <4>1, SMTT(30)
      <4> QED BY <1>0, <4>2, Multiples DEF IsRvb
    <3>5. PrevRvb(last) \in Nat /\ IsRvb(PrevRvb(last))
      BY PrevRvbFacts
    <3>6. PrevRvb(capped) <= PrevRvb(last) /\ PrevRvb(capped) \in Nat
      BY <3>1, PrevRvbOrder, PrevRvbFacts
    <3>7. min <= PrevRvb(last) /\ min <= x
      BY <3>2, <3>5, <3>6
    <3> HIDE DEF x, bound
    <3> QED BY <3>3, <3>4, <3>5, <3>7
  <2> QED BY <2>1, <2>2
<1> HIDE DEF bound
<1>6. max \in min..last /\ (IsRvb(max) \/ max = last)
  BY <1>4, <1>5 DEF AtMost
<1>7. NextBatch(min, last, groups) = [min |-> min, max |-> max, next |-> max, digest |-> 0]
  BY DEF NextBatch, max, bound, capped, aligned, top
<1> HIDE DEF max
<1> QED BY <1>6, <1>7

-----------------------------------------------------------------------------
(* The inductive invariant *)

(* The loop of processData and the checkpoint summaries *)
Runs == [on : BOOLEAN, last : BOOLEAN, dig : {"none", "right", "wrong"}, expired : BOOLEAN,
         overdue : BOOLEAN, bad : BOOLEAN]

(* A selector between two handlers: retransmissions are below their limit, *)
(* and votes are counted only for a nominated primary.                     *)
SelectorFits(s) ==
  /\ s \in Selectors
  /\ s.retries < MaxRetransmissions \/ s.retries = 0
  /\ s.nominated = NoReplica => s.votes = 0

(* A source that follows the protocol describes checkpoints that exist, as *)
(* they are.                                                               *)
CertsFit ==
  \A c \in Cps, s \in Honest : certs[c][s] # "none" => certs[c][s] = "right" /\ c <= newest

(* Blocks or pages are being fetched. *)
Fetches == ~complete /\ psd.fetching /\ psd.target # NoTarget

AllRight(n) == \A b \in 1..n : blocks[b] = "right"

(* The data store: the required blocks end with the last block of the      *)
(* target, everything below them is in place; without required blocks, all *)
(* blocks of the target are.                                               *)
StoreFits ==
  /\ ~psd.fetching => psd.target = NoTarget
  /\ complete => psd.fetching /\ psd.target = NoTarget /\ AllRight(MaxBlockOf(psd.stored))
  /\ psd.target = NoTarget => psd.last = 0
  /\ psd.last = 0 <=> psd.first = 0
  /\ psd.last > 0 => /\ psd.last = MaxBlockOf(psd.target.cp) /\ psd.first <= psd.last
                     /\ AllRight(psd.first - 1)
  /\ psd.target # NoTarget /\ psd.last = 0 => AllRight(MaxBlockOf(psd.target.cp))

(* The batch: it starts with the first required block, and its blocks above *)
(* the one expected next are in place.                                     *)
BatchFits ==
  /\ fetch.min = psd.first /\ fetch.min <= fetch.next
  /\ fetch.next <= fetch.max /\ fetch.max <= psd.last
  /\ IsRvb(fetch.max) \/ fetch.max = psd.last
  /\ fetch.next # fetch.max => fetch.digest = fetch.next
  /\ \A b \in fetch.next + 1..fetch.max : blocks[b] = "right"

(* What is in memory fits the stage of the cycle. *)
StageFits ==
  /\ run.on => Fetches
  /\ ~complete /\ psd.fetching /\ psd.target = NoTarget =>
       IsReset(sel) /\ fetch = NoFetch /\ pending = {}
  /\ Fetches => sel.preferred # {}
  /\ Fetches /\ psd.last > 0 => BatchFits
  /\ Fetches /\ psd.last = 0 => fetch = PagesFetch

Typed == TypeOK /\ run \in Runs /\ rvb \in Seq(1..VBlock)

IInv ==
  /\ ConfigChecks /\ Typed /\ SelectorFits(sel) /\ CertsFit /\ FetchedIsRight
  /\ StoreFits /\ StageFits

-----------------------------------------------------------------------------
(* The selector: every operation leaves one that fits, and one with        *)
(* preferred replicas where the caller asks for a source.                  *)

LEMMA OtherSources == \A r : Sources \ {r} # {}
<1> SUFFICES ASSUME NEW r, Sources \subseteq {r} PROVE FALSE
  OBVIOUS
<1>1. IsFiniteSet(Sources) /\ Cardinality(Sources) > 1
  BY StateTransferAssumption
<1>2. IsFiniteSet({r}) /\ Cardinality({r}) = 1
  BY FS_Singleton
<1>3. Cardinality(Sources) <= Cardinality({r})
  BY <1>2, FS_Subset
<1>4. Cardinality(Sources) \in Nat
  BY <1>1, FS_CardinalityType
<1> QED BY <1>1, <1>2, <1>3, <1>4

LEMMA Limits ==
  /\ MaxRetransmissions \in Nat /\ MinPrePrepares \in Nat \ {0} /\ NoReplica \notin Sources
  /\ 0 \in 0..MaxRetransmissions /\ 0 \in 0..MinPrePrepares /\ 1 \in 0..MinPrePrepares
BY StateTransferAssumption

LEMMA ResetFits == SelectorFits(ResetSelector) /\ IsReset(ResetSelector)
BY Limits DEF SelectorFits, Selectors, ResetSelector, IsReset

LEMMA RefillFits ==
  ASSUME NEW s, SelectorFits(s)
  PROVE  SelectorFits(Refill(s)) /\ Refill(s).preferred # {}
<1>1. Sources \ {s.primary} # {}
  BY OtherSources
<1> QED BY <1>1 DEF SelectorFits, Selectors, Refill

LEMMA StampFits ==
  ASSUME NEW s, SelectorFits(s), NEW ongoing \in BOOLEAN
  PROVE  SelectorFits(Stamp(s, ongoing)) /\ Stamp(s, ongoing).preferred = s.preferred
<1>1. CASE ongoing
  <2>1. Stamp(s, ongoing) = [s EXCEPT !.stamped = TRUE, !.ongoing = TRUE]
    BY <1>1 DEF Stamp, SelectorFits, Selectors
  <2> QED BY <2>1 DEF SelectorFits, Selectors
<1>2. CASE ~ongoing
  <2>1. Stamp(s, ongoing) = [s EXCEPT !.stamped = TRUE, !.ongoing = FALSE, !.retries = 0]
    BY <1>2 DEF Stamp, SelectorFits, Selectors
  <2> QED BY <2>1, Limits DEF SelectorFits, Selectors
<1> QED BY <1>1, <1>2

LEMMA RemoveFits ==
  ASSUME NEW s, SelectorFits(s)
  PROVE  SelectorFits(RemoveCurrent(s)) /\ RemoveCurrent(s).preferred # {}
<1> DEFINE t == [s EXCEPT !.preferred = @ \ {s.current}, !.current = NoReplica]
<1>1. SelectorFits(t)
  BY DEF SelectorFits, Selectors
<1>2. RemoveCurrent(s) = Refill(t)
  BY DEF RemoveCurrent
<1> HIDE DEF t
<1> QED BY <1>1, <1>2, RefillFits

LEMMA PreferFits ==
  ASSUME NEW s, SelectorFits(s), NEW V \in SUBSET Sources
  PROVE  SelectorFits([s EXCEPT !.preferred = V]) /\ [s EXCEPT !.preferred = V].preferred = V
BY DEF SelectorFits, Selectors

(* A source that stays has retransmissions left. *)
LEMMA NotedFits ==
  ASSUME NEW s, SelectorFits(s), NEW bad \in BOOLEAN, NEW expired \in BOOLEAN,
         NEW last, NEW overdue, Replacement(s, bad, expired, last, overdue) = "no"
  PROVE  SelectorFits(Noted(s, bad, expired)) /\ Noted(s, bad, expired).preferred = s.preferred
<1> DEFINE n == Noted(s, bad, expired)
<1>1. n = s \/ n = [s EXCEPT !.retries = @ + 1, !.ongoing = FALSE]
  BY DEF Noted
<1>2. ~(n.retries >= MaxRetransmissions)
  BY DEF Replacement
<1>a. s.retries \in 0..MaxRetransmissions
  BY DEF SelectorFits, Selectors
<1>b. s.retries + 1 \in Nat
  BY <1>a, Limits
<1>3. n.retries \in Nat
  <2> HIDE DEF n
  <2>1. CASE n = s
    BY <1>a, <2>1, Limits
  <2>2. CASE n = [s EXCEPT !.retries = @ + 1, !.ongoing = FALSE]
    <3>1. n.retries = s.retries + 1
      BY <2>2 DEF SelectorFits, Selectors
    <3> QED BY <1>b, <3>1
  <2> QED BY <1>1, <2>1, <2>2
<1>4. n.retries < MaxRetransmissions
  BY <1>2, <1>3, Limits
<1> HIDE DEF n
<1>5. CASE n = s
  BY <1>5 DEF n
<1>6. CASE n = [s EXCEPT !.retries = @ + 1, !.ongoing = FALSE]
  <2>1. n.retries = s.retries + 1
    BY <1>6 DEF SelectorFits, Selectors
  <2> DEFINE k == s.retries + 1
  <2>2. k \in 0..MaxRetransmissions /\ k < MaxRetransmissions
    BY <1>4, <1>a, <2>1, Limits
  <2>3. n = [s EXCEPT !.retries = k, !.ongoing = FALSE]
    BY <1>6
  <2> HIDE DEF k
  <2>4. SelectorFits(n) /\ n.preferred = s.preferred
    BY <2>2, <2>3, Limits DEF SelectorFits, Selectors
  <2> QED BY <2>4 DEF n
<1> QED BY <1>1, <1>5, <1>6

LEMMA UpdateFits ==
  ASSUME NEW s, SelectorFits(s), NEW bad \in BOOLEAN, NEW expired \in BOOLEAN,
         NEW t \in UpdateSource(Noted(s, bad, expired))
  PROVE  SelectorFits(t) /\ t.preferred # {}
<1> DEFINE n == Noted(s, bad, expired)
           e == [n EXCEPT !.preferred = @ \ {n.current}]
           rest == Refill(e)
<1>1. n = s \/ n = [s EXCEPT !.retries = @ + 1, !.ongoing = FALSE]
  BY DEF Noted
<1>2. PICK r \in rest.preferred :
         t = [rest EXCEPT !.current = r, !.stamped = FALSE, !.ongoing = FALSE, !.retries = 0]
  BY DEF UpdateSource
<1> DEFINE Loose == [preferred : SUBSET Sources, current : Sources \cup {NoReplica},
                     stamped : BOOLEAN, ongoing : BOOLEAN, retries : Nat,
                     primary : Sources \cup {NoReplica}, nominated : Sources \cup {NoReplica},
                     votes : 0..MinPrePrepares]
<1>3. n \in Loose /\ (n.nominated = NoReplica => n.votes = 0)
  <2> HIDE DEF n
  <2>1. s \in Loose /\ (s.nominated = NoReplica => s.votes = 0)
    <3>1. 0..MaxRetransmissions \subseteq Nat
      BY Limits
    <3> QED BY <3>1 DEF SelectorFits, Selectors
  <2> DEFINE k == s.retries + 1
  <2>2. k \in Nat
    BY <2>1
  <2>3. CASE n = [s EXCEPT !.retries = @ + 1, !.ongoing = FALSE]
    <3>1. n = [s EXCEPT !.retries = k, !.ongoing = FALSE]
      BY <2>3
    <3> HIDE DEF k
    <3> QED BY <2>1, <2>2, <3>1
  <2> QED BY <1>1, <2>1, <2>3
<1> HIDE DEF n
<1>4. e \in Loose /\ (e.nominated = NoReplica => e.votes = 0)
  BY <1>3
<1> HIDE DEF e
<1>5. rest \in Loose /\ (rest.nominated = NoReplica => rest.votes = 0)
  BY <1>4 DEF Refill
<1> HIDE DEF rest
<1> QED BY <1>2, <1>5, Limits DEF SelectorFits, Selectors

LEMMA BelieveFits ==
  ASSUME NEW s, SelectorFits(s), NEW p \in Sources
  PROVE  SelectorFits(Believe(s, p)) /\ (s.preferred # {} => Believe(s, p).preferred # {})
<1> DEFINE old == IF s.primary = NoReplica THEN s
                  ELSE [s EXCEPT !.preferred = @ \cup {s.primary}]
           less == [old EXCEPT !.preferred = @ \ {p}]
           without == IF p \in old.preferred THEN Refill(less) ELSE old
<1>1. SelectorFits(old) /\ (s.preferred # {} => old.preferred # {})
  BY DEF SelectorFits, Selectors
<1> HIDE DEF old
<1>2. SelectorFits(less)
  BY <1>1 DEF SelectorFits, Selectors
<1> HIDE DEF less
<1>3. SelectorFits(without) /\ (s.preferred # {} => without.preferred # {})
  BY <1>1, <1>2, RefillFits
<1>4. Believe(s, p) = [Forget(without) EXCEPT !.primary = p]
  BY DEF Believe, old, less
<1> HIDE DEF without
<1> QED BY <1>3, <1>4, Limits DEF SelectorFits, Selectors, Forget

LEMMA PrimaryFits ==
  ASSUME NEW s, SelectorFits(s), NEW p \in Sources
  PROVE  /\ SelectorFits(UpdateCurrentPrimary(s, p))
         /\ s.preferred # {} => UpdateCurrentPrimary(s, p).preferred # {}
<1> DEFINE u == UpdateCurrentPrimary(s, p)
           n == s.votes + 1
<1>1. CASE p = s.primary
  BY <1>1 DEF UpdateCurrentPrimary
<1>2. CASE p # s.primary /\ s.nominated = NoReplica
  <2>1. u = [s EXCEPT !.nominated = p, !.votes = n]
    BY <1>2 DEF UpdateCurrentPrimary
  <2>2. n = 1
    BY <1>2 DEF SelectorFits
  <2> HIDE DEF n
  <2> QED BY <2>1, <2>2, Limits DEF SelectorFits, Selectors
<1>3. CASE p # s.primary /\ s.nominated # NoReplica /\ p # s.nominated /\ ~(n >= MinPrePrepares)
  <2>1. u = Forget(s)
    BY <1>3 DEF UpdateCurrentPrimary
  <2> QED BY <2>1, Limits DEF SelectorFits, Selectors, Forget
<1>4. CASE p # s.primary /\ s.nominated # NoReplica /\ p = s.nominated /\ ~(n >= MinPrePrepares)
  <2>1. u = [s EXCEPT !.votes = n]
    BY <1>4 DEF UpdateCurrentPrimary
  <2> QED BY <1>4, <2>1, Limits DEF SelectorFits, Selectors
<1>5. CASE p # s.primary /\ s.nominated # NoReplica /\ n >= MinPrePrepares
  <2>1. u = Believe(s, p)
    BY <1>5 DEF UpdateCurrentPrimary
  <2> QED BY <2>1, BelieveFits
<1> QED BY <1>1, <1>2, <1>3, <1>4, <1>5

-----------------------------------------------------------------------------
(* Blocks, stages and types *)

Targets == [cp : 0..MaxCp, right : BOOLEAN]
Stores == [fetching : BOOLEAN, target : Targets, first : 0..MaxBlock, last : 0..MaxBlock,
           stored : 0..MaxCp]
Batches == [min : 0..VBlock, max : 0..VBlock, next : 0..VBlock, digest : 0..VBlock]
Certs == [Cps -> [Sources -> {"none", "right", "wrong"}]]

LEMMA BlockNumbers ==
  /\ MaxCp \in Nat \ {0} /\ MaxBlock \in Nat \ {0} /\ VBlock \in Nat /\ VBlock = MaxBlock + 1
  /\ \A c \in 0..MaxCp : MaxBlockOf(c) \in 0..MaxBlock
  /\ \A c \in 1..MaxCp : MaxBlockOf(c) \in 1..MaxBlock
  /\ MaxBlockOf(0) = 0
<1>1. MaxCp \in Nat \ {0} /\ BlocksPerCp \in Nat \ {0}
  BY StateTransferAssumption
<1>2. \A c \in 0..MaxCp : MaxBlockOf(c) = BlocksPerCp * c
  BY <1>1, SMTT(30) DEF MaxBlockOf
<1>3. MaxBlock = BlocksPerCp * MaxCp
  BY <1>1, <1>2 DEF MaxBlock
<1>4. \A c \in 0..MaxCp : /\ BlocksPerCp * c <= BlocksPerCp * MaxCp
                          /\ BlocksPerCp * c \in Nat /\ BlocksPerCp * MaxCp \in Nat
  BY <1>1, ScaleUp
<1>5. \A c \in 1..MaxCp : BlocksPerCp * 1 <= BlocksPerCp * c
  BY <1>1, ScaleUp
<1>6. BlocksPerCp * 1 >= 1 /\ BlocksPerCp * 0 = 0
  BY <1>1
<1>7. \A c \in 0..MaxCp : MaxBlockOf(c) \in 0..MaxBlock
  BY <1>2, <1>3, <1>4
<1>8. \A c \in 1..MaxCp : MaxBlockOf(c) \in 1..MaxBlock
  <2> SUFFICES ASSUME NEW c \in 1..MaxCp PROVE MaxBlockOf(c) \in 1..MaxBlock
    OBVIOUS
  <2>1. c \in 0..MaxCp
    BY <1>1
  <2>2. BlocksPerCp * 1 <= BlocksPerCp * c /\ BlocksPerCp * c \in Nat
    BY <1>4, <1>5, <2>1
  <2>3. MaxBlockOf(c) >= 1
    BY <1>1, <1>2, <2>1, <2>2
  <2> QED BY <1>7, <2>1, <2>3
<1>9. MaxBlock \in Nat \ {0}
  <2>1. MaxCp \in 1..MaxCp
    BY <1>1
  <2>2. MaxBlock >= 1
    BY <1>3, <1>4, <1>5, <1>6, <2>1
  <2>3. MaxBlock \in Nat
    BY <1>3, <1>4, <2>1
  <2> QED BY <2>2, <2>3
<1>10. VBlock \in Nat /\ VBlock = MaxBlock + 1
  BY <1>9 DEF VBlock
<1> QED BY <1>1, <1>2, <1>6, <1>7, <1>8, <1>9, <1>10

LEMMA FreshValues ==
  /\ NoTarget \in Targets /\ NoFetch \in Batches /\ PagesFetch \in Batches
  /\ Idle \in Runs /\ <<>> \in Seq(1..VBlock)
  /\ NoCerts \in Certs /\ 0 \in 0..MaxBlock /\ 0 \in 0..ResetCount
<1>1. 0 \in 0..MaxCp /\ 0 \in 0..VBlock /\ VBlock \in 0..VBlock
  BY BlockNumbers
<1>2. NoFetch \in Batches
  BY <1>1, Zenon DEF NoFetch, Batches
<1>4. PagesFetch \in Batches
  BY <1>1, <1>2 DEF PagesFetch, Batches
<1>5. 0 \in 0..MaxBlock
  BY BlockNumbers
<1>6. 0 \in 0..ResetCount
  BY StateTransferAssumption
<1>7. NoTarget \in Targets
  BY <1>1, Zenon DEF NoTarget, Targets
<1>8. Idle \in Runs /\ <<>> \in Seq(1..VBlock) /\ NoCerts \in Certs
  BY DEF Idle, Runs, NoCerts, Certs
<1> QED BY <1>2, <1>4, <1>5, <1>6, <1>7, <1>8

LEMMA Shapes ==
  ASSUME Typed
  PROVE  /\ psd \in Stores /\ blocks \in [1..MaxBlock -> {"none", "right", "wrong"}]
         /\ pages \in Targets /\ fetch \in Batches /\ sel \in Selectors /\ certs \in Certs
         /\ asks \in 0..ResetCount /\ complete \in BOOLEAN /\ newest \in 1..MaxCp
         /\ run \in Runs /\ rvb \in Seq(1..VBlock)
BY DEF Typed, TypeOK, Stores, Targets, Batches, Certs, Cps

(* Types of the next state, from the types of its parts *)
LEMMA ShapesNext ==
  ASSUME psd' \in Stores, blocks' \in [1..MaxBlock -> {"none", "right", "wrong"}],
         pages' \in Targets, fetch' \in Batches, SelectorFits(sel)', certs' \in Certs,
         asks' \in 0..ResetCount, complete' \in BOOLEAN, newest' \in 1..MaxCp,
         run' \in Runs, rvb' \in Seq(1..VBlock)
  PROVE  Typed'
<1>1. \A i \in 1..Len(rvb') : rvb'[i] \in 1..VBlock
  BY ElementOfSeq
<1>2. sel' \in Selectors
  BY DEF SelectorFits
<1> QED BY <1>1, <1>2, Zenon DEF Typed, TypeOK, Stores, Targets, Batches, Certs, Cps

LEMMA StageFacts ==
  ASSUME Typed
  PROVE  /\ FetchingState = "finalizing" <=> complete
         /\ FetchingState = "not" <=> ~complete /\ ~psd.fetching
         /\ FetchingState = "summaries" <=> ~complete /\ psd.fetching /\ psd.target = NoTarget
         /\ FetchingState = "blocks" <=> Fetches /\ psd.last > 0
         /\ FetchingState = "pages" <=> Fetches /\ psd.last = 0
<1>1. psd.last \in Nat
  <2>1. psd.last \in 0..MaxBlock
    BY Shapes DEF Stores
  <2> QED BY <2>1, BlockNumbers
<1>2. complete \in BOOLEAN /\ psd.fetching \in BOOLEAN
  BY Shapes DEF Stores
<1>3. psd.last > 0 <=> psd.last # 0
  BY <1>1
<1>4. CASE complete
  BY <1>4 DEF FetchingState, Fetches
<1>5. CASE ~complete /\ ~psd.fetching
  BY <1>5 DEF FetchingState, Fetches
<1>6. CASE ~complete /\ psd.fetching /\ psd.target = NoTarget
  BY <1>6 DEF FetchingState, Fetches
<1>7. CASE ~complete /\ psd.fetching /\ psd.target # NoTarget /\ psd.last > 0
  BY <1>3, <1>7 DEF FetchingState, Fetches
<1>8. CASE ~complete /\ psd.fetching /\ psd.target # NoTarget /\ psd.last = 0
  BY <1>3, <1>8 DEF FetchingState, Fetches
<1> QED BY <1>2, <1>3, <1>4, <1>5, <1>6, <1>7, <1>8

(* The blocks up to the last reachable one are there. *)
LEMMA ReachableFacts ==
  /\ Reachable(blocks) \in 0..MaxBlock
  /\ \A b \in 1..Reachable(blocks) : blocks[b] # "none"
<1> DEFINE P(n) == /\ \A b \in 1..n : blocks[b] # "none"
                   /\ n = MaxBlock \/ blocks[n + 1] = "none"
           S == {n \in 0..MaxBlock : n = MaxBlock \/ blocks[n + 1] = "none"}
<1>1. S \in SUBSET Nat /\ S # {}
  <2>1. MaxBlock \in S
    BY BlockNumbers
  <2> QED BY <2>1, BlockNumbers
<1>2. PICK n \in S : \A m \in S : n <= m
  <2> HIDE DEF S
  <2> QED BY <1>1, LeastNat
<1>3. ASSUME NEW b \in 1..n, blocks[b] = "none" PROVE FALSE
  <2>1. b - 1 \in 0..MaxBlock /\ (b - 1) + 1 = b /\ b - 1 < n
    BY BlockNumbers
  <2>2. b - 1 \in S
    BY <1>3, <2>1
  <2> QED BY <1>2, <2>1, <2>2, BlockNumbers
<1>4. \E x \in 0..MaxBlock : P(x)
  BY <1>2, <1>3
<1>5. Reachable(blocks) = CHOOSE x \in 0..MaxBlock : P(x)
  BY DEF Reachable
<1> HIDE DEF P
<1>6. Reachable(blocks) \in 0..MaxBlock /\ P(Reachable(blocks))
  BY <1>4, <1>5
<1> QED BY <1>6 DEF P

-----------------------------------------------------------------------------
(* Steps outside of the loop of processData *)

LEMMA InitHolds == Init => IInv
<1> SUFFICES ASSUME Init PROVE IInv
  OBVIOUS
<1> USE DEF Init
<1>1. SelectorFits(sel) /\ IsReset(sel)
  BY ResetFits
<1>2. psd.fetching = FALSE /\ psd.target = NoTarget /\ psd.first = 0 /\ psd.last = 0
      /\ complete = FALSE /\ run.on = FALSE
  BY DEF Idle
<1>3. Typed
  <2>1. psd \in Stores
    <3>1. 0 \in 0..MaxCp /\ 0 \in 0..MaxBlock /\ NoTarget \in Targets
      BY BlockNumbers, FreshValues
    <3> QED BY <3>1, Zenon DEF Stores
  <2>2. blocks \in [1..MaxBlock -> {"none", "right", "wrong"}]
    OBVIOUS
  <2>3. \A i \in 1..Len(rvb) : rvb[i] \in 1..VBlock
    OBVIOUS
  <2>4. sel \in Selectors
    BY <1>1 DEF SelectorFits
  <2>5. pages \in Targets /\ fetch \in Batches /\ certs \in Certs /\ asks \in 0..ResetCount
        /\ complete \in BOOLEAN /\ newest \in Cps /\ run \in Runs /\ rvb \in Seq(1..VBlock)
    BY FreshValues
  <2> HIDE DEF Init
  <2> QED BY <2>1, <2>2, <2>3, <2>4, <2>5, Zenon
          DEF Typed, TypeOK, Stores, Targets, Batches, Certs
<1>4. CertsFit
  BY DEF CertsFit, NoCerts, Honest
<1>5. FetchedIsRight
  <2>1. pages.right = TRUE
    BY DEF NoTarget
  <2> QED BY <1>2, <2>1 DEF FetchedIsRight, TargetVouched
<1>6. StoreFits
  BY <1>2 DEF StoreFits
<1>7. StageFits
  BY <1>2 DEF StageFits, Fetches
<1> QED BY <1>1, <1>3, <1>4, <1>5, <1>6, <1>7 DEF IInv

(* A new cycle starts from nothing but the data store. *)
LEMMA NewCycleStep ==
  ASSUME IInv, NewCycle, UNCHANGED <<blocks, pages, newest>>
  PROVE  IInv'
<1> USE DEF NewCycle, ResetVolatile
<1>0. Typed /\ ConfigChecks /\ FetchedIsRight
  BY DEF IInv
<1>s. /\ psd \in Stores /\ blocks \in [1..MaxBlock -> {"none", "right", "wrong"}]
      /\ pages \in Targets /\ newest \in 1..MaxCp
  BY <1>0, Shapes
<1>1. SelectorFits(sel)' /\ IsReset(sel)'
  BY ResetFits
<1>2. /\ psd'.fetching = TRUE /\ psd'.target = NoTarget /\ psd'.first = 0 /\ psd'.last = 0
      /\ complete' = FALSE /\ run'.on = FALSE /\ psd' \in Stores
  BY <1>s, FreshValues DEF Idle, Stores
<1>3. Typed'
  BY <1>1, <1>2, <1>s, FreshValues, ShapesNext
<1>4. CertsFit'
  BY DEF CertsFit, NoCerts, Honest
<1>5. FetchedIsRight'
  BY <1>0, <1>2 DEF FetchedIsRight, TargetVouched
<1>6. StoreFits'
  BY <1>2 DEF StoreFits
<1>7. StageFits'
  BY <1>1, <1>2 DEF StageFits, Fetches
<1> QED BY <1>0, <1>1, <1>3, <1>4, <1>5, <1>6, <1>7 DEF IInv, ConfigChecks

LEMMA OnTimerSummariesStep ==
  ASSUME IInv, OnTimerSummaries
  PROVE  IInv'
<1> USE DEF OnTimerSummaries
<1>0. Typed /\ ConfigChecks /\ FetchedIsRight /\ CertsFit /\ StoreFits /\ StageFits /\ SelectorFits(sel)
  BY DEF IInv
<1>1. certs' \in Certs /\ asks' \in 0..ResetCount
  <2>1. certs \in Certs /\ asks \in 0..ResetCount
    BY <1>0, Shapes
  <2>2. CASE asks + 1 > ResetCount
    BY <2>2, FreshValues
  <2>3. CASE ~(asks + 1 > ResetCount)
    BY <2>1, <2>3, StateTransferAssumption
  <2> QED BY <2>2, <2>3
<1>2. CertsFit'
  <2>1. certs' = certs \/ certs' = NoCerts
    OBVIOUS
  <2>2. CASE certs' = certs
    BY <1>0, <2>2 DEF CertsFit
  <2>3. CASE certs' = NoCerts
    BY <2>3 DEF CertsFit, NoCerts, Honest
  <2> QED BY <2>1, <2>2, <2>3
<1>3. SelectorFits(sel)'
  BY <1>0 DEF SelectorFits
<1>4. Typed'
  BY <1>0, <1>1, <1>3, Shapes, ShapesNext
<1>5. FetchedIsRight'
  BY <1>0 DEF FetchedIsRight, TargetVouched
<1>6. StoreFits'
  BY <1>0 DEF StoreFits, AllRight
<1>7. StageFits'
  BY <1>0 DEF StageFits, Fetches, BatchFits, IsReset
<1> QED BY <1>0, <1>2, <1>3, <1>4, <1>5, <1>6, <1>7 DEF IInv, ConfigChecks

LEMMA OnTimerFinalizeStep ==
  ASSUME IInv, OnTimerFinalize
  PROVE  IInv'
<1> USE DEF OnTimerFinalize, ResetVolatile
<1>0. Typed /\ ConfigChecks /\ FetchedIsRight /\ StoreFits
  BY DEF IInv
<1>s. /\ psd \in Stores /\ blocks \in [1..MaxBlock -> {"none", "right", "wrong"}]
      /\ pages \in Targets /\ newest \in 1..MaxCp /\ rvb \in Seq(1..VBlock)
  BY <1>0, Shapes
<1>a. complete
  BY <1>0, StageFacts
<1>1. SelectorFits(sel)' /\ IsReset(sel)'
  BY ResetFits
<1>2. /\ psd'.fetching = FALSE /\ psd'.target = NoTarget /\ psd'.first = 0 /\ psd'.last = 0
      /\ complete' = FALSE /\ run'.on = FALSE /\ psd' \in Stores
  <2>1. psd.target = NoTarget /\ psd.last = 0 /\ psd.first = 0
    BY <1>0, <1>a DEF StoreFits
  <2> QED BY <1>s, <2>1 DEF Idle, Stores
<1>3. Typed'
  BY <1>1, <1>2, <1>s, FreshValues, ShapesNext
<1>4. CertsFit'
  BY DEF CertsFit, NoCerts, Honest
<1>5. FetchedIsRight'
  BY <1>0, <1>2 DEF FetchedIsRight, TargetVouched
<1>6. StoreFits'
  BY <1>2 DEF StoreFits
<1>7. StageFits'
  BY <1>1, <1>2 DEF StageFits, Fetches
<1> QED BY <1>0, <1>1, <1>3, <1>4, <1>5, <1>6, <1>7 DEF IInv, ConfigChecks

LEMMA NewCheckpointStep ==
  ASSUME IInv, NewCheckpoint
  PROVE  IInv'
<1> USE DEF NewCheckpoint
<1>0. Typed /\ ConfigChecks /\ FetchedIsRight /\ CertsFit /\ StoreFits /\ StageFits /\ SelectorFits(sel)
  BY DEF IInv
<1>1. newest \in 1..MaxCp /\ newest' \in 1..MaxCp /\ newest <= newest'
  BY <1>0, Shapes, BlockNumbers
<1>2. CertsFit'
  BY <1>0, <1>1, BlockNumbers DEF CertsFit, Cps
<1>3. SelectorFits(sel)'
  BY <1>0 DEF SelectorFits
<1>4. Typed'
  BY <1>0, <1>1, <1>3, Shapes, ShapesNext
<1>5. FetchedIsRight'
  <2>1. psd.target.cp \in Nat
    <3>1. psd.target.cp \in 0..MaxCp
      BY <1>0, Shapes DEF Stores, Targets
    <3> QED BY <3>1, BlockNumbers
  <2>2. psd.target # NoTarget => psd.target.right /\ psd.target.cp <= newest'
    BY <1>0, <1>1, <2>1 DEF FetchedIsRight, TargetVouched
  <2> QED BY <1>0, <2>2 DEF FetchedIsRight, TargetVouched
<1>6. StoreFits'
  BY <1>0 DEF StoreFits, AllRight
<1>7. StageFits'
  BY <1>0 DEF StageFits, Fetches, BatchFits, IsReset
<1> QED BY <1>0, <1>2, <1>3, <1>4, <1>5, <1>6, <1>7 DEF IInv, ConfigChecks

LEMMA OnPrePrepareStep ==
  ASSUME IInv, NEW p \in Sources, OnPrePrepare(p)
  PROVE  IInv'
<1> USE DEF OnPrePrepare
<1>0. Typed /\ ConfigChecks /\ FetchedIsRight /\ CertsFit /\ StoreFits /\ StageFits /\ SelectorFits(sel)
  BY DEF IInv
<1>1. SelectorFits(sel') /\ (sel.preferred # {} => sel'.preferred # {})
  BY <1>0, PrimaryFits
<1>2. CertsFit'
  BY <1>0 DEF CertsFit
<1>3. SelectorFits(sel)'
  BY <1>1 DEF SelectorFits
<1>4. Typed'
  BY <1>0, <1>3, Shapes, ShapesNext
<1>5. FetchedIsRight'
  BY <1>0 DEF FetchedIsRight, TargetVouched
<1>6. StoreFits'
  BY <1>0 DEF StoreFits, AllRight
<1>7. StageFits'
  <2>1. ~(~complete /\ psd.fetching /\ psd.target = NoTarget)
    BY <1>0, StageFacts
  <2> QED BY <1>0, <1>1, <2>1 DEF StageFits, Fetches, BatchFits
<1> QED BY <1>0, <1>2, <1>3, <1>4, <1>5, <1>6, <1>7 DEF IInv, ConfigChecks

(* The certificate of a checkpoint: more than F replicas include one that  *)
(* follows the protocol, so the checkpoint exists and is described as it   *)
(* is.                                                                     *)
LEMMA CertificateIsVouched ==
  ASSUME IInv, NEW s \in Sources, NEW c \in Cps, NEW v \in {"right", "wrong"},
         s \in Honest => c \in StoredAtSource /\ v = "right",
         Complete([certs EXCEPT ![c][s] = v], c, v)
  PROVE  /\ v = "right" /\ c <= newest
         /\ Vouchers([certs EXCEPT ![c][s] = v], c, v) # {}
         /\ Vouchers([certs EXCEPT ![c][s] = v], c, v) \in SUBSET Sources
<1> DEFINE ce == [certs EXCEPT ![c][s] = v]
           V == Vouchers(ce, c, v)
<1>0. Typed /\ CertsFit
  BY DEF IInv
<1>1. certs \in Certs
  BY <1>0, Shapes
<1>2. \A x \in Sources : ce[c][x] = IF x = s THEN v ELSE certs[c][x]
  BY <1>1 DEF Certs
<1> HIDE DEF ce
<1>3. V \in SUBSET Sources /\ Cardinality(V) > F
  BY DEF Vouchers, Complete, ce
<1>4. IsFiniteSet(Sources) /\ Faulty \subseteq Sources /\ F \in Nat /\ Cardinality(Faulty) <= F
  BY StateTransferAssumption
<1>5. IsFiniteSet(Faulty) /\ IsFiniteSet(V)
  BY <1>3, <1>4, FS_Subset
<1>6. Cardinality(V) \in Nat /\ Cardinality(Faulty) \in Nat
  BY <1>5, FS_CardinalityType
<1>7. ~(V \subseteq Faulty)
  <2> SUFFICES ASSUME V \subseteq Faulty PROVE FALSE
    OBVIOUS
  <2>1. Cardinality(V) <= Cardinality(Faulty)
    BY <1>5, FS_Subset
  <2> QED BY <1>3, <1>4, <1>6, <2>1
<1>8. PICK h \in V : h \in Honest
  BY <1>3, <1>7 DEF Honest
<1>9. h \in Sources /\ ce[c][h] = v
  BY <1>8 DEF Vouchers
<1>10. CASE h = s
  BY <1>3, <1>8, <1>10 DEF StoredAtSource, ce
<1>11. CASE h # s
  <2>1. certs[c][h] = v
    BY <1>2, <1>9, <1>11
  <2>2. v = "right" /\ c <= newest
    BY <1>0, <1>8, <2>1 DEF CertsFit
  <2> QED BY <1>3, <1>8, <2>2 DEF ce
<1> QED BY <1>10, <1>11

LEMMA OnCheckpointSummaryStep ==
  ASSUME IInv, NEW s \in Sources, NEW c \in Cps, NEW v \in {"right", "wrong"},
         OnCheckpointSummary(s, c, v)
  PROVE  IInv'
<1> DEFINE ce == [certs EXCEPT ![c][s] = v]
           from == Reachable(blocks) + 1
           last == MaxBlockOf(c)
           V == Vouchers(ce, c, v)
<1>0. Typed /\ ConfigChecks /\ FetchedIsRight /\ CertsFit /\ StoreFits /\ StageFits /\ SelectorFits(sel)
  BY DEF IInv
<1>s. /\ psd \in Stores /\ blocks \in [1..MaxBlock -> {"none", "right", "wrong"}]
      /\ pages \in Targets /\ fetch \in Batches /\ sel \in Selectors /\ certs \in Certs
      /\ asks \in 0..ResetCount /\ complete \in BOOLEAN /\ newest \in 1..MaxCp
      /\ run \in Runs /\ rvb \in Seq(1..VBlock)
  BY <1>0, Shapes
<1>a. /\ ~complete /\ psd.fetching /\ psd.target = NoTarget
      /\ s \in Honest => c \in StoredAtSource /\ v = "right"
      /\ UNCHANGED <<blocks, pages, rvb, pending, complete, newest>>
  BY <1>0, StageFacts DEF OnCheckpointSummary
<1>1. CASE ~Complete(ce, c, v)
  <2>1. certs' = ce /\ UNCHANGED <<psd, fetch, sel, asks, run>>
    BY <1>1 DEF OnCheckpointSummary
  <2>2. certs' \in Certs
    BY <1>s, <2>1 DEF Certs
  <2>3. CertsFit'
    <3> SUFFICES ASSUME NEW d \in Cps, NEW h \in Honest, certs'[d][h] # "none"
                 PROVE  certs'[d][h] = "right" /\ d <= newest
      BY <1>a DEF CertsFit
    <3>1. h \in Sources
      BY DEF Honest
    <3>2. certs'[d][h] = IF d = c /\ h = s THEN v ELSE certs[d][h]
      BY <1>s, <2>1, <3>1 DEF Certs
    <3> QED BY <1>0, <1>a, <3>2 DEF CertsFit, StoredAtSource
  <2>4. SelectorFits(sel)'
    BY <1>0, <2>1 DEF SelectorFits
  <2>5. Typed'
    BY <1>s, <1>a, <2>1, <2>2, <2>4, ShapesNext
  <2>6. FetchedIsRight' /\ StoreFits' /\ StageFits'
    BY <1>0, <1>a, <2>1 DEF FetchedIsRight, TargetVouched, StoreFits, AllRight, StageFits,
       Fetches, BatchFits, IsReset
  <2> QED BY <1>0, <2>3, <2>4, <2>5, <2>6 DEF IInv, ConfigChecks
<1>2. CASE Complete(ce, c, v)
  <2>1. /\ certs' = NoCerts /\ asks' = 0
        /\ psd' = [psd EXCEPT !.target = [cp |-> c, right |-> (v = "right")],
                              !.first = IF last >= from THEN from ELSE 0,
                              !.last = IF last >= from THEN last ELSE 0]
        /\ fetch' = IF last >= from THEN NextBatch(from, last, <<>>) ELSE PagesFetch
        /\ sel' = [sel EXCEPT !.preferred = V]
        /\ run' = [Idle EXCEPT !.on = TRUE]
    BY <1>2 DEF OnCheckpointSummary
  <2>2. v = "right" /\ c <= newest /\ V # {} /\ V \in SUBSET Sources
    BY <1>2, <1>a, CertificateIsVouched
  <2>3. Reachable(blocks) \in 0..MaxBlock /\ \A b \in 1..Reachable(blocks) : blocks[b] = "right"
    <3>1. \A b \in 1..MaxBlock : blocks[b] = "none" \/ blocks[b] = "right"
      BY <1>0, <1>s DEF FetchedIsRight
    <3> QED BY <3>1, ReachableFacts, BlockNumbers
  <2>4. c \in 1..MaxCp /\ c # 0 /\ last \in 1..MaxBlock /\ from \in Nat \ {0} /\ last \in Nat
    BY <2>3, BlockNumbers DEF Cps
  <2> DEFINE tg == [cp |-> c, right |-> TRUE]
             fi == IF last >= from THEN from ELSE 0
             la == IF last >= from THEN last ELSE 0
  <2>5. tg \in Targets /\ tg # NoTarget /\ tg.cp = c /\ tg.right = TRUE
    <3>1. c \in 0..MaxCp
      BY <2>4, BlockNumbers
    <3>2. tg \in Targets
      BY <3>1, Zenon DEF Targets
    <3>3. tg.cp # NoTarget.cp
      BY <2>4 DEF NoTarget
    <3> QED BY <3>2, <3>3
  <2>6. fi \in 0..MaxBlock /\ la \in 0..MaxBlock
    BY <2>3, <2>4, BlockNumbers
  <2>7. psd' = [psd EXCEPT !.target = tg, !.first = fi, !.last = la]
    BY <2>1, <2>2
  <2> HIDE DEF tg, fi, la
  <2>8. /\ psd' \in Stores /\ psd'.target = tg /\ psd'.first = fi /\ psd'.last = la
        /\ psd'.fetching = psd.fetching
    BY <1>s, <2>5, <2>6, <2>7 DEF Stores
  <2>9. SelectorFits(sel)' /\ sel'.preferred # {}
    <3>1. SelectorFits(sel') /\ sel'.preferred = V
      BY <1>0, <2>1, <2>2, PreferFits
    <3> QED BY <2>2, <3>1 DEF SelectorFits
  <2>10. run' \in Runs /\ run'.on = TRUE
    BY <2>1 DEF Idle, Runs
  <2>11. CertsFit'
    BY <2>1 DEF CertsFit, NoCerts, Honest
  <2>12. FetchedIsRight'
    BY <1>0, <1>a, <2>2, <2>5, <2>8 DEF FetchedIsRight, TargetVouched
  <2>13. CASE last >= from
    <3>1. fi = from /\ la = last /\ from <= last
      BY <2>4, <2>13 DEF fi, la
    <3>2. PICK max \in from..last :
            /\ fetch' = [min |-> from, max |-> max, next |-> max, digest |-> 0]
            /\ IsRvb(max) \/ max = last
      BY <1>0, <2>1, <2>4, <2>13, <3>1, NextBatchFacts
    <3>3. fetch' \in Batches
      <4>1. from \in 0..VBlock /\ max \in 0..VBlock /\ 0 \in 0..VBlock
        BY <2>3, <2>4, BlockNumbers
      <4> HIDE DEF from, last
      <4> QED BY <3>2, <4>1 DEF Batches
    <3>4. fetch'.min = from /\ fetch'.max = max /\ fetch'.next = max
      BY <3>2
    <3>5. Typed'
      BY <1>s, <1>a, <2>1, <2>8, <2>9, <2>10, <3>3, FreshValues, ShapesNext
    <3>6. AllRight(from - 1)'
      BY <1>a, <2>3, BlockNumbers DEF AllRight
    <3>7. StoreFits'
      BY <1>a, <2>4, <2>5, <2>8, <3>1, <3>6 DEF StoreFits
    <3>8. BatchFits'
      <4>1. from <= max /\ max <= last /\ from \in Nat /\ max \in Nat
        BY <2>4
      <4>2. max + 1..max = {}
        BY <4>1
      <4> HIDE DEF from, last
      <4> QED BY <2>8, <3>1, <3>2, <3>4, <4>1, <4>2 DEF BatchFits
    <3>9. StageFits'
      BY <1>a, <2>4, <2>5, <2>8, <2>9, <2>10, <3>1, <3>8 DEF StageFits, Fetches
    <3> QED BY <1>0, <2>9, <2>11, <2>12, <3>5, <3>7, <3>9 DEF IInv, ConfigChecks
  <2>14. CASE ~(last >= from)
    <3>1. fi = 0 /\ la = 0 /\ last <= Reachable(blocks)
      BY <2>3, <2>4, <2>14, BlockNumbers DEF fi, la
    <3>2. fetch' = PagesFetch
      BY <2>1, <2>14
    <3>3. Typed'
      BY <1>s, <1>a, <2>1, <2>8, <2>9, <2>10, <3>2, FreshValues, ShapesNext
    <3>4. AllRight(MaxBlockOf(c))'
      <4>1. \A b \in 1..last : b \in 1..Reachable(blocks)
        BY <2>3, <2>4, <3>1, BlockNumbers
      <4> QED BY <1>a, <2>3, <4>1 DEF AllRight
    <3>5. StoreFits'
      BY <1>a, <2>5, <2>8, <3>1, <3>4 DEF StoreFits
    <3>6. StageFits'
      BY <1>a, <2>5, <2>8, <2>9, <2>10, <3>1, <3>2 DEF StageFits, Fetches
    <3> QED BY <1>0, <2>9, <2>11, <2>12, <3>3, <3>5, <3>6 DEF IInv, ConfigChecks
  <2> QED BY <2>13, <2>14
<1> QED BY <1>1, <1>2

(* A handler or an iteration that neither puts a block nor ends a stage *)
LEMMA LoopFrame ==
  ASSUME IInv, Fetches, UNCHANGED <<psd, blocks, pages, fetch, certs, asks, complete, newest>>,
         rvb' \in Seq(1..VBlock), run' \in Runs, SelectorFits(sel)', sel'.preferred # {}
  PROVE  IInv'
<1>0. Typed /\ ConfigChecks /\ FetchedIsRight /\ CertsFit /\ StoreFits /\ StageFits
  BY DEF IInv
<1>1. Typed'
  BY <1>0, Shapes, ShapesNext
<1>2. CertsFit'
  BY <1>0 DEF CertsFit
<1>3. FetchedIsRight'
  BY <1>0 DEF FetchedIsRight, TargetVouched
<1>4. StoreFits'
  BY <1>0 DEF StoreFits, AllRight
<1>5. StageFits'
  BY <1>0 DEF StageFits, Fetches, BatchFits
<1> QED BY <1>0, <1>1, <1>2, <1>3, <1>4, <1>5 DEF IInv, ConfigChecks

LEMMA CollectingFetches ==
  ASSUME IInv, FetchingState \in {"blocks", "pages"}
  PROVE  Fetches /\ sel.preferred # {} /\ rvb \in Seq(1..VBlock) /\ run \in Runs /\ SelectorFits(sel)
<1>1. Typed /\ StageFits
  BY DEF IInv
<1>2. Fetches
  BY <1>1, StageFacts
<1> QED BY <1>1, <1>2, Shapes DEF IInv, StageFits

LEMMA ItemTypes ==
  ASSUME NEW s, NEW i \in Items(s)
  PROVE  i.last \in BOOLEAN /\ i.dig \in {"none", "right", "wrong"}
<1>1. CASE s \in Honest
  <2>1. PICK a \in asked : i \in Answers(a)
    BY <1>1 DEF Items
  <2>2. \E b \in a.min..a.max, c \in 1..Chunks :
          i = [b |-> b, c |-> c, kind |-> "right",
               dig |-> IF Position(a, b, c) = 0 /\ a.group # 0 THEN "right" ELSE "none",
               last |-> Position(a, b, c) = ChunksInBatch - 1
                        \/ (b = a.min /\ (b # VBlock \/ c = Chunks))]
    BY <2>1 DEF Answers
  <2> QED BY <2>2
<1>2. CASE s \notin Honest
  BY <1>2 DEF Items
<1> QED BY <1>1, <1>2

LEMMA OnItemDataStep ==
  ASSUME IInv, NEW s, NEW i \in Items(s), OnItemData(s, i)
  PROVE  IInv'
<1>1. Fetches /\ sel.preferred # {} /\ rvb \in Seq(1..VBlock) /\ run \in Runs /\ SelectorFits(sel)
  BY CollectingFetches DEF OnItemData, Collecting
<1>2. sel' = Stamp(sel, FALSE)
      /\ UNCHANGED <<psd, blocks, pages, fetch, rvb, certs, asks, complete, newest>>
  BY DEF OnItemData
<1>3. SelectorFits(sel)' /\ sel'.preferred # {}
  <2>1. SelectorFits(sel') /\ sel'.preferred = sel.preferred
    BY <1>1, <1>2, StampFits
  <2> QED BY <1>1, <2>1 DEF SelectorFits
<1>4. run' \in Runs
  <2>1. run' = run \/ \E overdue \in BOOLEAN :
           run' = [Idle EXCEPT !.on = TRUE, !.last = i.last, !.dig = i.dig, !.overdue = overdue]
    BY DEF OnItemData
  <2>2. i.last \in BOOLEAN /\ i.dig \in {"none", "right", "wrong"} /\ Idle \in Runs
    BY ItemTypes, FreshValues
  <2> QED BY <1>1, <2>1, <2>2 DEF Runs
<1> QED BY <1>1, <1>2, <1>3, <1>4, LoopFrame

LEMMA OnTimerDataStep ==
  ASSUME IInv, NEW expired \in BOOLEAN, OnTimerData(expired)
  PROVE  IInv'
<1>1. Fetches /\ sel.preferred # {} /\ rvb \in Seq(1..VBlock) /\ run \in Runs /\ SelectorFits(sel)
  BY CollectingFetches DEF OnTimerData, Collecting
<1>2. run' = [Idle EXCEPT !.on = TRUE, !.expired = expired]
      /\ UNCHANGED <<psd, blocks, pages, fetch, rvb, sel, certs, asks, complete, newest>>
  BY DEF OnTimerData
<1>3. run' \in Runs
  BY <1>2, FreshValues DEF Runs
<1>4. SelectorFits(sel)'
  BY <1>1, <1>2 DEF SelectorFits
<1> QED BY <1>1, <1>2, <1>3, <1>4, LoopFrame

LEMMA OnRejectFetchingStep ==
  ASSUME IInv, NEW s, OnRejectFetching(s)
  PROVE  IInv'
<1>1. Fetches /\ sel.preferred # {} /\ rvb \in Seq(1..VBlock) /\ run \in Runs /\ SelectorFits(sel)
  BY CollectingFetches DEF OnRejectFetching, Collecting
<1>2. CASE /\ sel' = RemoveCurrent(sel)
           /\ run' = [Idle EXCEPT !.on = TRUE]
           /\ UNCHANGED <<psd, blocks, pages, fetch, rvb, certs, asks, complete, newest>>
  <2>1. SelectorFits(sel') /\ sel'.preferred # {}
    BY <1>1, <1>2, RemoveFits
  <2>2. SelectorFits(sel)'
    BY <2>1 DEF SelectorFits
  <2>3. run' \in Runs
    BY <1>2, FreshValues DEF Runs
  <2> QED BY <1>1, <1>2, <2>1, <2>2, <2>3, LoopFrame
<1>3. CASE NewCycle /\ UNCHANGED <<blocks, pages, newest>>
  BY <1>3, NewCycleStep
<1> QED BY <1>2, <1>3 DEF OnRejectFetching

-----------------------------------------------------------------------------
(* The loop of processData *)

(* The groups whose digests are stored *)
LEMMA StoreGroupType ==
  ASSUME IInv, Fetches, psd.last > 0, GroupNeeded(fetch.min, fetch.max, rvb) # 0
  PROVE  StoreGroup(rvb, GroupNeeded(fetch.min, fetch.max, rvb)) \in Seq(1..VBlock)
<1> DEFINE g == GroupNeeded(fetch.min, fetch.max, rvb)
           more == Append(rvb, g)
<1>0. Typed /\ ConfigChecks /\ BatchFits /\ StoreFits
  BY DEF IInv, StageFits
<1>1. /\ psd.first \in 0..MaxBlock /\ psd.last \in 0..MaxBlock /\ rvb \in Seq(1..VBlock)
      /\ fetch.min \in 0..VBlock /\ fetch.max \in 0..VBlock /\ fetch.next \in 0..VBlock
  BY <1>0, Shapes DEF Stores, Batches
<1>2. fetch.min \in Nat \ {0} /\ fetch.max \in Nat /\ fetch.max <= MaxBlock
  <2>1. psd.first # 0 /\ fetch.min = psd.first /\ fetch.max <= psd.last
    BY <1>0, <1>1, BlockNumbers DEF StoreFits, BatchFits
  <2> QED BY <1>1, <2>1, BlockNumbers
<1>3. g \in 1..fetch.max
  BY <1>0, <1>2, GroupNeededFacts
<1>4. g \in 1..VBlock
  BY <1>2, <1>3, BlockNumbers
<1> HIDE DEF g
<1>5. more \in Seq(1..VBlock) /\ more # <<>> /\ Len(more) = Len(rvb) + 1
  BY <1>1, <1>4, AppendProperties
<1>6. Tail(more) \in Seq(1..VBlock)
  <2> HIDE DEF more
  <2> QED BY <1>5, HeadTailProperties
<1>7. StoreGroup(rvb, g) = IF Len(more) > 2 THEN Tail(more) ELSE more
  BY DEF StoreGroup
<1> HIDE DEF more
<1>8. StoreGroup(rvb, g) \in Seq(1..VBlock)
  BY <1>5, <1>6, <1>7
<1> QED BY <1>8 DEF g

(* Without items there is no full block. *)
LEMMA NothingIsFull == \A b : ~IsFull({}, b)
<1> SUFFICES ASSUME NEW b PROVE Cardinality(Reached({}, b)) # Chunks
  BY DEF IsFull
<1>1. Reached({}, b) = {}
  BY DEF Reached, ChunksOf
<1>2. Cardinality({}) = 0
  BY FS_EmptySet
<1> QED BY <1>1, <1>2, StateTransferAssumption

(* A block that is put is right; the other blocks stay. *)
LEMMA PutRight ==
  ASSUME IInv, NEW b \in 1..MaxBlock, PutBlock(b, TRUE)
  PROVE  /\ blocks' \in [1..MaxBlock -> {"none", "right", "wrong"}]
         /\ \A x \in 1..MaxBlock : blocks'[x] = IF x = b THEN "right" ELSE blocks[x]
         /\ \A x \in 1..MaxBlock : blocks'[x] # "wrong"
<1>1. blocks \in [1..MaxBlock -> {"none", "right", "wrong"}]
  BY Shapes DEF IInv
<1>2. \A x \in 1..MaxBlock : blocks[x] # "wrong"
  BY DEF IInv, FetchedIsRight
<1>3. blocks' = [blocks EXCEPT ![b] = "right"]
  BY DEF PutBlock
<1>4. \A x \in 1..MaxBlock : blocks'[x] = IF x = b THEN "right" ELSE blocks[x]
  BY <1>1, <1>3
<1> QED BY <1>1, <1>2, <1>3, <1>4

(* What is known in the stage of the blocks *)
LEMMA BlocksStage ==
  ASSUME IInv, Fetches, psd.last > 0
  PROVE  /\ psd.first \in 1..MaxBlock /\ psd.last \in 1..MaxBlock
         /\ psd.last = MaxBlockOf(psd.target.cp) /\ AllRight(psd.first - 1)
         /\ BatchFits /\ psd.target.right = TRUE
         /\ fetch.min \in 1..MaxBlock /\ fetch.max \in 1..MaxBlock /\ fetch.next \in 1..MaxBlock
<1>0. Typed /\ StoreFits /\ BatchFits /\ FetchedIsRight
  BY DEF IInv, StageFits
<1>1. /\ psd.first \in 0..MaxBlock /\ psd.last \in 0..MaxBlock /\ psd.target.right \in BOOLEAN
      /\ fetch.min \in 0..VBlock /\ fetch.max \in 0..VBlock /\ fetch.next \in 0..VBlock
  BY <1>0, Shapes DEF Stores, Batches, Targets
<1>2. psd.last # 0 /\ psd.first # 0
  BY <1>0, <1>1, BlockNumbers DEF StoreFits
<1>3. /\ fetch.min = psd.first /\ fetch.min <= fetch.next
      /\ fetch.next <= fetch.max /\ fetch.max <= psd.last
  BY <1>0 DEF BatchFits
<1>4. psd.last = MaxBlockOf(psd.target.cp) /\ AllRight(psd.first - 1)
  BY <1>0 DEF StoreFits
<1>5. psd.target.right = TRUE
  BY <1>0, <1>1 DEF FetchedIsRight, TargetVouched, Fetches
<1> QED BY <1>0, <1>1, <1>2, <1>3, <1>4, <1>5, BlockNumbers

(* A valid block is one of the agreed chain. *)
LEMMA CheckedIsRight ==
  ASSUME IInv, Fetches, psd.last > 0, NEW isRight \in BOOLEAN, NEW b, NEW groups,
         CheckBlock(b, isRight, groups)
  PROVE  isRight
<1>1. psd.target.right = TRUE
  BY BlocksStage
<1>2. CASE IsRvb(b)
  BY <1>2 DEF CheckBlock
<1>3. CASE ~IsRvb(b) /\ b = fetch.max /\ b = psd.last
  BY <1>1, <1>3 DEF CheckBlock
<1>4. CASE ~IsRvb(b) /\ ~(b = fetch.max /\ b = psd.last)
  BY <1>4 DEF CheckBlock
<1> QED BY <1>2, <1>3, <1>4

LEMMA AcceptBlockStep ==
  ASSUME IInv, Fetches, psd.last > 0, NEW s, NEW new, NEW p, NEW groups \in Seq(1..VBlock),
         SelectorFits(s), s.preferred # {},
         RawBlockIsRight(pending, fetch.next, run.dig), ~LastInCycle(fetch.next),
         AcceptBlock(s, new, p, groups), UNCHANGED newest
  PROVE  IInv'
<1> DEFINE b == fetch.next
           fe == IF b = fetch.min THEN NextBatch(fetch.max + 1, psd.last, groups)
                 ELSE [fetch EXCEPT !.next = b - 1, !.digest = b - 1]
<1>0. Typed /\ ConfigChecks /\ FetchedIsRight /\ CertsFit /\ StoreFits /\ StageFits
  BY DEF IInv
<1>s. /\ psd \in Stores /\ pages \in Targets /\ fetch \in Batches /\ certs \in Certs
      /\ asks \in 0..ResetCount /\ complete \in BOOLEAN /\ newest \in 1..MaxCp
      /\ run \in Runs
  BY <1>0, Shapes
<1>b. /\ psd.first \in 1..MaxBlock /\ psd.last \in 1..MaxBlock
      /\ psd.last = MaxBlockOf(psd.target.cp) /\ AllRight(psd.first - 1)
      /\ BatchFits /\ psd.target.right = TRUE
      /\ fetch.min \in 1..MaxBlock /\ fetch.max \in 1..MaxBlock /\ b \in 1..MaxBlock
  BY BlocksStage
<1>c. /\ fetch.min = psd.first /\ fetch.min <= b /\ b <= fetch.max /\ fetch.max <= psd.last
      /\ IsRvb(fetch.max) \/ fetch.max = psd.last
      /\ \A x \in b + 1..fetch.max : blocks[x] = "right"
  BY <1>b DEF BatchFits
<1>1. /\ PutBlock(b, RawBlockIsRight(pending, b, run.dig))
      /\ psd' = IF b = fetch.min THEN [psd EXCEPT !.first = fetch.max + 1] ELSE psd
      /\ fetch' = fe /\ rvb' = groups /\ UNCHANGED <<pages, certs, asks, complete>>
  BY DEF AcceptBlock
<1>2. /\ sel' = s \/ sel' = Stamp(s, TRUE)
      /\ run' = Idle \/ run' = [run EXCEPT !.bad = FALSE, !.overdue = FALSE]
  BY DEF AcceptBlock, Send, Done, Again
<1>3. SelectorFits(sel)' /\ sel'.preferred # {}
  <2>1. SelectorFits(sel') /\ sel'.preferred = s.preferred
    BY <1>2, StampFits
  <2> QED BY <2>1 DEF SelectorFits
<1>4. run' \in Runs
  BY <1>2, <1>s, FreshValues DEF Runs
<1>5. PutBlock(b, TRUE)
  BY <1>1 DEF PutBlock
<1>6. /\ blocks' \in [1..MaxBlock -> {"none", "right", "wrong"}]
      /\ \A x \in 1..MaxBlock : blocks'[x] = IF x = b THEN "right" ELSE blocks[x]
      /\ \A x \in 1..MaxBlock : blocks'[x] # "wrong"
  BY <1>b, <1>5, PutRight
<1>7. CertsFit'
  BY <1>0, <1>1 DEF CertsFit
<1> HIDE DEF b
<1>8. \A x \in b..fetch.max : blocks'[x] = "right"
  <2> SUFFICES ASSUME NEW x \in b..fetch.max PROVE blocks'[x] = "right"
    OBVIOUS
  <2>1. x \in 1..MaxBlock /\ (x = b \/ x \in b + 1..fetch.max)
    BY <1>b, BlockNumbers
  <2> QED BY <1>6, <1>c, <2>1
<1>9. \A x \in 1..psd.first - 1 : blocks'[x] = "right"
  <2> SUFFICES ASSUME NEW x \in 1..psd.first - 1 PROVE blocks'[x] = "right"
    OBVIOUS
  <2>1. x \in 1..MaxBlock /\ blocks[x] = "right"
    BY <1>b, BlockNumbers DEF AllRight
  <2> QED BY <1>6, <2>1
<1>10. CASE b = fetch.min
  <2>1. fetch.max # psd.last
    BY <1>10 DEF LastInCycle, b
  <2> DEFINE f == fetch.max + 1
  <2>2. f \in 0..MaxBlock /\ f \in Nat \ {0} /\ f <= psd.last /\ psd.last \in Nat /\ f - 1 = fetch.max
    BY <1>b, <1>c, <2>1, BlockNumbers
  <2>3. psd' = [psd EXCEPT !.first = f]
    BY <1>1, <1>10
  <2> HIDE DEF f
  <2>4. /\ psd' \in Stores /\ psd'.target = psd.target /\ psd'.first = f /\ psd'.last = psd.last
        /\ psd'.fetching = psd.fetching /\ psd'.stored = psd.stored
    BY <1>s, <2>2, <2>3 DEF Stores
  <2>5. PICK max \in f..psd.last :
          /\ fetch' = [min |-> f, max |-> max, next |-> max, digest |-> 0]
          /\ IsRvb(max) \/ max = psd.last
    <3>1. fetch' = NextBatch(f, psd.last, groups)
      BY <1>1, <1>10 DEF f
    <3> QED BY <1>0, <2>2, <3>1, NextBatchFacts
  <2>6. f \in 0..VBlock /\ max \in 0..VBlock /\ 0 \in 0..VBlock /\ f <= max /\ max <= psd.last /\ max \in Nat
    BY <1>b, <2>2, BlockNumbers
  <2>7. fetch' \in Batches /\ fetch'.min = f /\ fetch'.max = max /\ fetch'.next = max
    BY <2>5, <2>6 DEF Batches
  <2>8. Typed'
    BY <1>s, <1>1, <1>3, <1>4, <1>6, <2>4, <2>7, ShapesNext
  <2>9. FetchedIsRight'
    BY <1>0, <1>1, <1>6, <2>4 DEF FetchedIsRight, TargetVouched
  <2>10. \A x \in 1..f - 1 : blocks'[x] = "right"
    <3>1. \A x \in 1..fetch.max : x \in 1..psd.first - 1 \/ x \in b..fetch.max
      BY <1>b, <1>c, <1>10, BlockNumbers
    <3> QED BY <1>8, <1>9, <2>2, <3>1
  <2>11. StoreFits'
    <3>1. psd'.last # 0 /\ psd'.first # 0 /\ psd'.target # NoTarget /\ ~complete' /\ psd'.fetching
      BY <1>1, <1>b, <2>2, <2>4, BlockNumbers DEF Fetches
    <3> QED BY <1>b, <2>2, <2>4, <2>10, <3>1 DEF StoreFits, AllRight
  <2>12. BatchFits'
    <3>1. max + 1..max = {}
      BY <2>6
    <3> QED BY <2>4, <2>5, <2>6, <2>7, <3>1 DEF BatchFits
  <2>13. StageFits'
    <3>1. Fetches' /\ psd'.last # 0
      BY <1>1, <1>b, <2>4, BlockNumbers DEF Fetches
    <3> QED BY <1>3, <2>12, <3>1 DEF StageFits, Fetches
  <2> QED BY <1>0, <1>3, <1>7, <2>8, <2>9, <2>11, <2>13 DEF IInv, ConfigChecks
<1>11. CASE b # fetch.min
  <2> DEFINE k == b - 1
  <2>1. k \in 0..VBlock /\ k \in Nat /\ fetch.min <= k /\ k <= fetch.max /\ k + 1 = b
    BY <1>b, <1>c, <1>11, BlockNumbers
  <2>2. psd' = psd /\ fetch' = [fetch EXCEPT !.next = k, !.digest = k]
    BY <1>1, <1>11 DEF b
  <2> HIDE DEF k
  <2>3. /\ fetch' \in Batches /\ fetch'.min = fetch.min /\ fetch'.max = fetch.max
        /\ fetch'.next = k /\ fetch'.digest = k
    BY <1>s, <2>1, <2>2 DEF Batches
  <2>4. Typed'
    BY <1>s, <1>1, <1>3, <1>4, <1>6, <2>2, <2>3, ShapesNext
  <2>5. FetchedIsRight'
    BY <1>0, <1>1, <1>6, <2>2 DEF FetchedIsRight, TargetVouched
  <2>6. StoreFits'
    <3>1. psd.last # 0 /\ psd.first # 0 /\ psd.target # NoTarget /\ ~complete' /\ psd.fetching
      BY <1>1, <1>b, BlockNumbers DEF Fetches
    <3>2. psd.first <= psd.last
      BY <1>0 DEF StoreFits
    <3> QED BY <1>9, <1>b, <2>2, <3>1, <3>2 DEF StoreFits, AllRight
  <2>7. BatchFits'
    BY <1>8, <1>c, <2>1, <2>2, <2>3 DEF BatchFits
  <2>8. StageFits'
    <3>1. Fetches' /\ psd'.last # 0
      BY <1>1, <1>b, <2>2, BlockNumbers DEF Fetches
    <3> QED BY <1>3, <2>7, <3>1 DEF StageFits, Fetches
  <2> QED BY <1>0, <1>3, <1>7, <2>4, <2>5, <2>6, <2>8 DEF IInv, ConfigChecks
<1> QED BY <1>10, <1>11

LEMMA AcceptLastBlockStep ==
  ASSUME IInv, Fetches, psd.last > 0, NEW s, NEW p, SelectorFits(s), s.preferred # {},
         RawBlockIsRight(pending, fetch.next, run.dig), LastInCycle(fetch.next),
         AcceptLastBlock(s, p), UNCHANGED newest
  PROVE  IInv'
<1> DEFINE b == fetch.next
<1>0. Typed /\ ConfigChecks /\ FetchedIsRight /\ CertsFit /\ StoreFits /\ StageFits
  BY DEF IInv
<1>s. /\ psd \in Stores /\ pages \in Targets /\ certs \in Certs /\ rvb \in Seq(1..VBlock)
      /\ asks \in 0..ResetCount /\ complete \in BOOLEAN /\ newest \in 1..MaxCp
  BY <1>0, Shapes
<1>b. /\ psd.first \in 1..MaxBlock /\ psd.last \in 1..MaxBlock
      /\ psd.last = MaxBlockOf(psd.target.cp) /\ AllRight(psd.first - 1)
      /\ BatchFits /\ fetch.max \in 1..MaxBlock /\ b \in 1..MaxBlock
  BY BlocksStage
<1>c. /\ b = psd.first /\ fetch.max = psd.last
      /\ \A x \in b + 1..fetch.max : blocks[x] = "right"
  BY <1>b DEF BatchFits, LastInCycle
<1>1. /\ PutBlock(b, RawBlockIsRight(pending, b, run.dig))
      /\ psd' = [psd EXCEPT !.first = 0, !.last = 0]
      /\ fetch' = PagesFetch /\ sel' = Stamp(s, TRUE) /\ run' = Idle
      /\ UNCHANGED <<pages, rvb, certs, asks, complete>>
  BY DEF AcceptLastBlock, Send, Done
<1>2. SelectorFits(sel)' /\ sel'.preferred # {}
  <2>1. SelectorFits(sel') /\ sel'.preferred = s.preferred
    BY <1>1, StampFits
  <2> QED BY <2>1 DEF SelectorFits
<1>3. PutBlock(b, TRUE)
  BY <1>1 DEF PutBlock
<1>4. /\ blocks' \in [1..MaxBlock -> {"none", "right", "wrong"}]
      /\ \A x \in 1..MaxBlock : blocks'[x] = IF x = b THEN "right" ELSE blocks[x]
      /\ \A x \in 1..MaxBlock : blocks'[x] # "wrong"
  BY <1>b, <1>3, PutRight
<1> HIDE DEF b
<1>5. \A x \in 1..psd.last : blocks'[x] = "right"
  <2> SUFFICES ASSUME NEW x \in 1..psd.last PROVE blocks'[x] = "right"
    OBVIOUS
  <2>1. x \in 1..MaxBlock /\ (x \in 1..psd.first - 1 \/ x = b \/ x \in b + 1..fetch.max)
    BY <1>b, <1>c, BlockNumbers
  <2> QED BY <1>b, <1>c, <1>4, <2>1 DEF AllRight
<1>6. /\ psd' \in Stores /\ psd'.target = psd.target /\ psd'.first = 0 /\ psd'.last = 0
      /\ psd'.fetching = psd.fetching
  BY <1>s, <1>1, FreshValues DEF Stores
<1>7. Typed'
  BY <1>s, <1>1, <1>2, <1>4, <1>6, FreshValues, ShapesNext
<1>8. CertsFit'
  BY <1>0, <1>1 DEF CertsFit
<1>9. FetchedIsRight'
  BY <1>0, <1>1, <1>4, <1>6 DEF FetchedIsRight, TargetVouched
<1>10. StoreFits'
  <2>1. \A x \in 1..MaxBlockOf(psd'.target.cp) : blocks'[x] = "right"
    BY <1>5, <1>6, <1>b
  <2>2. ~complete' /\ psd'.fetching /\ psd'.target # NoTarget
    BY <1>1, <1>6 DEF Fetches
  <2> QED BY <1>6, <2>1, <2>2 DEF StoreFits, AllRight
<1>11. StageFits'
  <2>1. Fetches' /\ run'.on = FALSE /\ ~(psd'.last > 0)
    BY <1>1, <1>6 DEF Fetches, Idle
  <2>2. fetch' = PagesFetch
    BY <1>1
  <2> QED BY <1>2, <2>1, <2>2 DEF StageFits, Fetches
<1> QED BY <1>0, <1>2, <1>7, <1>8, <1>9, <1>10, <1>11 DEF IInv, ConfigChecks

LEMMA AcceptPagesStep ==
  ASSUME IInv, Fetches, psd.last = 0, NEW s, NEW p, SelectorFits(s), s.preferred # {},
         AcceptPages(s, p), UNCHANGED newest
  PROVE  IInv'
<1>0. Typed /\ ConfigChecks /\ FetchedIsRight /\ CertsFit /\ StoreFits /\ StageFits
  BY DEF IInv
<1>s. /\ psd \in Stores /\ blocks \in [1..MaxBlock -> {"none", "right", "wrong"}]
      /\ pages \in Targets /\ fetch \in Batches /\ certs \in Certs /\ rvb \in Seq(1..VBlock)
      /\ asks \in 0..ResetCount /\ newest \in 1..MaxCp
  BY <1>0, Shapes
<1>1. /\ pages' = psd.target /\ complete' = TRUE /\ sel' = s /\ run' = Idle
      /\ psd' = [psd EXCEPT !.stored = psd.target.cp, !.target = NoTarget]
      /\ UNCHANGED <<blocks, fetch, rvb, certs, asks>>
  BY DEF AcceptPages, Done
<1>2. SelectorFits(sel)' /\ sel'.preferred # {}
  BY <1>1 DEF SelectorFits
<1>3. psd.target \in Targets /\ psd.target.cp \in 0..MaxCp
  BY <1>s DEF Stores, Targets
<1>4. /\ psd' \in Stores /\ psd'.target = NoTarget /\ psd'.first = psd.first /\ psd'.last = 0
      /\ psd'.fetching = psd.fetching /\ psd'.stored = psd.target.cp
  BY <1>s, <1>1, <1>3, FreshValues DEF Stores
<1>5. Typed'
  BY <1>s, <1>1, <1>2, <1>3, <1>4, FreshValues, ShapesNext
<1>6. CertsFit'
  BY <1>0, <1>1 DEF CertsFit
<1>7. FetchedIsRight'
  BY <1>0, <1>1, <1>4 DEF FetchedIsRight, TargetVouched, Fetches
<1>8. StoreFits'
  <2>1. \A x \in 1..MaxBlockOf(psd'.stored) : blocks'[x] = "right"
    BY <1>0, <1>1, <1>4 DEF StoreFits, AllRight, Fetches
  <2>2. psd.first = 0
    BY <1>0 DEF StoreFits
  <2> QED BY <1>1, <1>4, <2>1, <2>2 DEF StoreFits, AllRight, Fetches
<1>9. StageFits'
  BY <1>1, <1>4 DEF StageFits, Fetches, Idle
<1> QED BY <1>0, <1>2, <1>5, <1>6, <1>7, <1>8, <1>9 DEF IInv, ConfigChecks

(* One iteration, with the source and the items it starts with *)
LEMMA IterateStep ==
  ASSUME IInv, Fetches, NEW s, NEW new, NEW p, p = pending \/ p = {},
         SelectorFits(s), s.preferred # {}, Iterate(s, new, p), UNCHANGED newest
  PROVE  IInv'
<1> DEFINE b      == fetch.next
           rest   == p \ ChunksOf(p, b)
           groups == IF run.dig # "none" /\ DigestsAccepted(p, b)
                     THEN StoreGroup(rvb, GroupNeeded(fetch.min, fetch.max, rvb)) ELSE rvb
           isRight == RawBlockIsRight(p, b, run.dig)
           valid  == /\ run.dig = "none" \/ DigestsAccepted(p, b)
                     /\ CheckBlock(b, isRight, groups)
<1>0. Typed /\ StageFits /\ rvb \in Seq(1..VBlock) /\ run \in Runs
  BY Shapes DEF IInv
<1>1. ASSUME NEW p2, NEW groups2 \in Seq(1..VBlock), BadData(s, p2, groups2)
      PROVE  IInv'
  <2>1. /\ run' = [run EXCEPT !.bad = TRUE, !.overdue = FALSE] /\ sel' = s /\ rvb' = groups2
        /\ UNCHANGED <<psd, blocks, pages, fetch, certs, asks, complete>>
    BY <1>1 DEF BadData, Again
  <2>2. run' \in Runs
    BY <1>0, <2>1 DEF Runs
  <2>3. SelectorFits(sel)' /\ sel'.preferred # {}
    BY <2>1 DEF SelectorFits
  <2> QED BY <2>1, <2>2, <2>3, LoopFrame
<1>2. ASSUME AskAgain(s, new, p) PROVE IInv'
  <2>1. /\ run' = Idle /\ (sel' = s \/ sel' = Stamp(s, TRUE))
        /\ UNCHANGED <<psd, blocks, pages, fetch, rvb, certs, asks, complete>>
    BY <1>2 DEF AskAgain, Send, Done
  <2>2. run' \in Runs /\ rvb' \in Seq(1..VBlock)
    BY <1>0, <2>1, FreshValues
  <2>3. SelectorFits(sel') /\ sel'.preferred = s.preferred
    BY <2>1, StampFits
  <2>4. SelectorFits(sel)' /\ sel'.preferred # {}
    BY <2>3 DEF SelectorFits
  <2> QED BY <2>1, <2>2, <2>4, LoopFrame
<1>3. CASE HasMalformed(p, b)
  <2>1. BadData(s, p, rvb)
    BY <1>3 DEF Iterate
  <2> QED BY <1>0, <1>1, <2>1
<1>4. CASE ~HasMalformed(p, b) /\ ~IsFull(p, b)
  <2>1. AskAgain(s, new, p)
    BY <1>4 DEF Iterate
  <2> QED BY <1>2, <2>1
<1>5. CASE ~HasMalformed(p, b) /\ IsFull(p, b) /\ FetchingState = "blocks"
  <2>1. p = pending
    BY <1>5, NothingIsFull
  <2>2. psd.last > 0
    BY <1>0, <1>5, StageFacts
  <2>3. groups \in Seq(1..VBlock)
    BY <1>0, <2>2, StoreGroupType DEF DigestsAccepted
  <2>4. isRight \in BOOLEAN
    BY DEF RawBlockIsRight
  <2>5. IF ~valid THEN BadData(s, rest, groups)
        ELSE IF LastInCycle(b) THEN AcceptLastBlock(s, rest)
             ELSE AcceptBlock(s, new, rest, groups)
    BY <1>5 DEF Iterate
  <2> HIDE DEF groups, rest, b
  <2>6. CASE ~valid
    BY <1>1, <2>3, <2>5, <2>6
  <2>7. CASE valid
    <3> HIDE DEF isRight
    <3>1. isRight
      BY <2>2, <2>4, <2>7, CheckedIsRight
    <3>2. RawBlockIsRight(pending, fetch.next, run.dig)
      BY <2>1, <3>1 DEF isRight, b
    <3>3. CASE LastInCycle(b)
      <4>1. AcceptLastBlock(s, rest) /\ LastInCycle(fetch.next)
        BY <2>5, <2>7, <3>3 DEF b
      <4> QED BY <2>2, <3>2, <4>1, AcceptLastBlockStep
    <3>4. CASE ~LastInCycle(b)
      <4>1. AcceptBlock(s, new, rest, groups) /\ ~LastInCycle(fetch.next)
        BY <2>5, <2>7, <3>4 DEF b
      <4> QED BY <2>2, <2>3, <3>2, <4>1, AcceptBlockStep
    <3> QED BY <3>3, <3>4
  <2> QED BY <2>6, <2>7
<1>6. CASE ~HasMalformed(p, b) /\ IsFull(p, b) /\ FetchingState # "blocks"
  <2>1. psd.last = 0
    <3>1. psd.last \in 0..MaxBlock
      BY <1>0, Shapes DEF Stores
    <3>2. ~(psd.last > 0)
      BY <1>0, <1>6, StageFacts
    <3> QED BY <3>1, <3>2, BlockNumbers
  <2>2. IF PagesAreRight(p, b) THEN AcceptPages(s, rest) ELSE BadData(s, rest, rvb)
    BY <1>6 DEF Iterate
  <2> HIDE DEF rest, b
  <2>3. CASE PagesAreRight(p, b)
    BY <2>1, <2>2, <2>3, AcceptPagesStep
  <2>4. CASE ~PagesAreRight(p, b)
    BY <1>0, <1>1, <2>2, <2>4
  <2> QED BY <2>3, <2>4
<1> QED BY <1>3, <1>4, <1>5, <1>6

LEMMA ProcessDataStep ==
  ASSUME IInv, ProcessData
  PROVE  IInv'
<1> DEFINE mode  == Replacement(sel, run.bad, run.expired, run.last, run.overdue)
           noted == Noted(sel, run.bad, run.expired)
<1>0. Typed /\ StageFits /\ SelectorFits(sel) /\ run \in Runs
  BY Shapes DEF IInv
<1>1. Fetches /\ sel.preferred # {} /\ newest' = newest
  BY <1>0 DEF ProcessData, StageFits
<1>2. run.bad \in BOOLEAN /\ run.expired \in BOOLEAN
  BY <1>0 DEF Runs
<1>3. CASE mode = "no"
  <2>1. Iterate(noted, FALSE, pending)
    BY <1>3 DEF ProcessData
  <2>2. SelectorFits(noted) /\ noted.preferred # {}
    BY <1>0, <1>1, <1>2, <1>3, NotedFits
  <2> HIDE DEF noted
  <2> QED BY <1>1, <2>1, <2>2, IterateStep
<1>4. CASE mode # "no"
  <2>1. PICK s \in UpdateSource(noted) :
           Iterate(s, TRUE, IF mode = "immediate" THEN {} ELSE pending)
    BY <1>4 DEF ProcessData
  <2>2. SelectorFits(s) /\ s.preferred # {}
    BY <1>0, <1>2, UpdateFits
  <2> DEFINE p == IF mode = "immediate" THEN {} ELSE pending
  <2>3. Iterate(s, TRUE, p) /\ (p = pending \/ p = {})
    BY <2>1
  <2> HIDE DEF p
  <2> QED BY <1>1, <2>2, <2>3, IterateStep
<1> QED BY <1>3, <1>4

(* The replica starts again from the data store: what it derives from it fits *)
(* the stage that it is in.                                                *)
LEMMA RestartStep ==
  ASSUME IInv, Restart
  PROVE  IInv'
<1> DEFINE collecting == psd.fetching /\ psd.target # NoTarget
<1>0. Typed /\ ConfigChecks /\ FetchedIsRight /\ StoreFits
  BY DEF IInv
<1>s. /\ psd \in Stores /\ blocks \in [1..MaxBlock -> {"none", "right", "wrong"}]
      /\ pages \in Targets /\ newest \in 1..MaxCp /\ complete \in BOOLEAN
      /\ psd.first \in 0..MaxBlock /\ psd.last \in 0..MaxBlock /\ psd.fetching \in BOOLEAN
  BY <1>0, Shapes DEF Stores
<1>1. /\ psd' = IF BlocksDone THEN [psd EXCEPT !.first = 0, !.last = 0] ELSE psd
      /\ fetch' = CASE ~collecting -> NoFetch
                    [] collecting /\ psd'.last > 0 -> NextBatch(psd.first, psd.last, <<>>)
                    [] OTHER -> PagesFetch
      /\ sel' = IF collecting THEN Refill(ResetSelector) ELSE ResetSelector
      /\ rvb' = <<>> /\ pending' = {} /\ certs' = NoCerts /\ asks' = 0 /\ run' = Idle
      /\ complete' = FALSE
      /\ UNCHANGED <<blocks, pages, newest>>
  BY DEF Restart
<1>2. SelectorFits(sel)' /\ (collecting => sel'.preferred # {}) /\ (~collecting => IsReset(sel)')
  <2>1. SelectorFits(ResetSelector) /\ IsReset(ResetSelector)
    BY ResetFits
  <2>2. SelectorFits(Refill(ResetSelector)) /\ Refill(ResetSelector).preferred # {}
    BY <2>1, RefillFits
  <2>3. CASE collecting
    <3>1. sel' = Refill(ResetSelector)
      BY <1>1, <2>3
    <3> QED BY <2>2, <2>3, <3>1 DEF SelectorFits
  <2>4. CASE ~collecting
    <3>1. sel' = ResetSelector
      BY <1>1, <2>4
    <3> QED BY <2>1, <2>4, <3>1 DEF SelectorFits, IsReset
  <2> QED BY <2>3, <2>4
<1>3. run' \in Runs /\ run'.on = FALSE
  BY <1>1, FreshValues DEF Idle
<1>4. CertsFit'
  BY <1>1 DEF CertsFit, NoCerts, Honest
<1>5. /\ psd' \in Stores /\ psd'.target = psd.target /\ psd'.fetching = psd.fetching
      /\ BlocksDone => psd'.first = 0 /\ psd'.last = 0
      /\ ~BlocksDone => psd' = psd
  BY <1>s, <1>1, FreshValues DEF Stores
<1>6. FetchedIsRight'
  BY <1>0, <1>1, <1>5 DEF FetchedIsRight, TargetVouched
<1>7. ~complete'
  BY <1>1
<1>8. ASSUME fetch' \in Batches PROVE Typed'
  BY <1>s, <1>1, <1>2, <1>3, <1>5, <1>8, FreshValues, ShapesNext
<1>9. CASE ~collecting
  <2>1. psd.target = NoTarget /\ psd.last = 0 /\ psd.first = 0
    BY <1>0, <1>9 DEF StoreFits
  <2>2. ~BlocksDone
    BY <2>1 DEF BlocksDone
  <2>3. psd' = psd /\ fetch' = NoFetch
    BY <1>1, <1>5, <1>9, <2>2
  <2>4. Typed'
    BY <1>8, <2>3, FreshValues
  <2>5. StoreFits'
    BY <1>0, <1>7, <2>1, <2>3 DEF StoreFits
  <2>6. StageFits'
    BY <1>1, <1>2, <1>3, <1>9, <2>1, <2>3 DEF StageFits, Fetches
  <2> QED BY <1>0, <1>2, <1>4, <1>6, <2>4, <2>5, <2>6 DEF IInv, ConfigChecks
<1>10. CASE collecting /\ BlocksDone
  <2>1. psd'.last = 0 /\ psd'.first = 0 /\ ~(psd'.last > 0)
    BY <1>5, <1>10
  <2>2. fetch' = PagesFetch
    BY <1>1, <1>10, <2>1
  <2>3. Typed'
    BY <1>8, <2>2, FreshValues
  <2>4. AllRight(MaxBlockOf(psd.target.cp))'
    <3>1. psd.last = MaxBlockOf(psd.target.cp) /\ Reachable(blocks) = psd.last
      BY <1>0, <1>10 DEF StoreFits, BlocksDone
    <3>2. \A b \in 1..psd.last : blocks[b] # "none" /\ b \in 1..MaxBlock
      BY <1>s, <3>1, ReachableFacts, BlockNumbers
    <3>3. \A b \in 1..psd.last : blocks[b] = "right"
      BY <1>0, <1>s, <3>2 DEF FetchedIsRight
    <3> QED BY <1>1, <1>5, <3>1, <3>3 DEF AllRight
  <2>5. StoreFits'
    BY <1>5, <1>7, <1>10, <2>1, <2>4 DEF StoreFits
  <2>6. StageFits'
    BY <1>1, <1>2, <1>3, <1>5, <1>10, <2>1, <2>2 DEF StageFits, Fetches
  <2> QED BY <1>0, <1>2, <1>4, <1>6, <2>3, <2>5, <2>6 DEF IInv, ConfigChecks
<1>11. CASE collecting /\ ~BlocksDone /\ psd.last = 0
  <2>1. psd' = psd /\ psd'.last = 0 /\ ~(psd'.last > 0)
    BY <1>5, <1>11
  <2>2. fetch' = PagesFetch
    BY <1>1, <1>11, <2>1
  <2>3. Typed'
    BY <1>8, <2>2, FreshValues
  <2>4. StoreFits'
    BY <1>0, <1>1, <1>7, <1>11, <2>1 DEF StoreFits, AllRight
  <2>5. StageFits'
    BY <1>1, <1>2, <1>3, <1>11, <2>1, <2>2 DEF StageFits, Fetches
  <2> QED BY <1>0, <1>2, <1>4, <1>6, <2>3, <2>4, <2>5 DEF IInv, ConfigChecks
<1>12. CASE collecting /\ ~BlocksDone /\ psd.last # 0
  <2>1. psd' = psd /\ psd'.last > 0 /\ psd.last > 0
    BY <1>s, <1>5, <1>12, BlockNumbers
  <2>2. /\ psd.first \in Nat \ {0} /\ psd.last \in Nat /\ psd.first <= psd.last
        /\ psd.first \in 0..VBlock /\ \A x \in psd.first..psd.last : x \in 0..VBlock
    BY <1>0, <1>s, <1>12, <2>1, BlockNumbers DEF StoreFits
  <2>3. fetch' = NextBatch(psd.first, psd.last, <<>>)
    BY <1>1, <1>12, <2>1
  <2>4. PICK max \in psd.first..psd.last :
          /\ fetch' = [min |-> psd.first, max |-> max, next |-> max, digest |-> 0]
          /\ IsRvb(max) \/ max = psd.last
    BY <1>0, <2>2, <2>3, NextBatchFacts
  <2>5. fetch' \in Batches
    <3>1. max \in 0..VBlock /\ 0 \in 0..VBlock
      BY <2>2, BlockNumbers
    <3> QED BY <2>2, <2>4, <3>1 DEF Batches
  <2>6. Typed'
    BY <1>8, <2>5
  <2>7. StoreFits'
    BY <1>0, <1>1, <1>7, <1>12, <2>1 DEF StoreFits, AllRight
  <2>8. BatchFits'
    <3>1. psd.first <= max /\ max <= psd.last /\ max + 1..max = {}
      BY <2>2
    <3>2. fetch'.min = psd.first /\ fetch'.max = max /\ fetch'.next = max
      BY <2>4
    <3> QED BY <2>1, <2>4, <3>1, <3>2 DEF BatchFits
  <2>9. StageFits'
    BY <1>1, <1>2, <1>3, <1>12, <2>1, <2>8 DEF StageFits, Fetches
  <2> QED BY <1>0, <1>2, <1>4, <1>6, <2>6, <2>7, <2>9 DEF IInv, ConfigChecks
<1> QED BY <1>9, <1>10, <1>11, <1>12

LEMMA Stutter ==
  ASSUME IInv, UNCHANGED vars
  PROVE  IInv'
BY DEF IInv, vars, ConfigChecks, Typed, TypeOK, SelectorFits, CertsFit, FetchedIsRight, TargetVouched,
       StoreFits, AllRight, StageFits, Fetches, BatchFits, IsReset

LEMMA NextStep == IInv /\ [Next]_vars => IInv'
<1> SUFFICES ASSUME IInv, [Next]_vars PROVE IInv'
  OBVIOUS
<1>1. CASE StartCollectingState
  BY <1>1, NewCycleStep DEF StartCollectingState
<1>2. CASE OnTimerSummaries
  BY <1>2, OnTimerSummariesStep
<1>3. CASE ProcessData
  BY <1>3, ProcessDataStep
<1>4. CASE OnTimerFinalize
  BY <1>4, OnTimerFinalizeStep
<1>5. CASE NewCheckpoint
  BY <1>5, NewCheckpointStep
<1>6. CASE Restart
  BY <1>6, RestartStep
<1>7. ASSUME NEW s \in Up, NEW c \in Cps, NEW v \in {"right", "wrong"}, OnCheckpointSummary(s, c, v)
      PROVE  IInv'
  BY <1>7, OnCheckpointSummaryStep DEF Up
<1>8. ASSUME NEW s \in Up, NEW i \in Items(s), OnItemData(s, i) PROVE IInv'
  BY <1>8, OnItemDataStep
<1>9. ASSUME NEW s \in Up, OnRejectFetching(s) PROVE IInv'
  BY <1>9, OnRejectFetchingStep
<1>10. ASSUME NEW expired \in BOOLEAN, OnTimerData(expired) PROVE IInv'
  BY <1>10, OnTimerDataStep
<1>11. ASSUME NEW p \in Sources, OnPrePrepare(p) PROVE IInv'
  BY <1>11, OnPrePrepareStep
<1>12. CASE UNCHANGED vars
  BY <1>12, Stutter
<1> QED BY <1>1, <1>2, <1>3, <1>4, <1>5, <1>6, <1>7, <1>8, <1>9, <1>10, <1>11, <1>12 DEF Next

LEMMA StagesFit == IInv => BlocksBeforePages
<1> SUFFICES ASSUME IInv PROVE BlocksBeforePages
  OBVIOUS
<1>1. Typed /\ StoreFits
  BY DEF IInv
<1> QED BY <1>1, StageFacts DEF StoreFits, AllRight, Fetches, BlocksBeforePages

LEMMA AssertsFit == IInv => AssertsHold
<1> SUFFICES ASSUME IInv PROVE AssertsHold
  OBVIOUS
<1>1. Typed /\ StoreFits /\ StageFits
  BY DEF IInv
<1>2. TypeOK
  BY <1>1 DEF Typed
<1>3. FetchingState = "summaries" =>
        IsReset(sel) /\ fetch = NoFetch /\ pending = {} /\ psd.first = 0 /\ psd.last = 0
  BY <1>1, StageFacts DEF StoreFits, StageFits
<1>4. FetchingState \in {"blocks", "pages"} => sel.preferred # {}
  BY <1>1, StageFacts DEF StageFits
<1>5. ASSUME FetchingState = "blocks"
      PROVE  /\ fetch.next \in fetch.min..fetch.max /\ fetch.max <= psd.last
             /\ \/ IsRvb(fetch.next) \/ fetch.next = psd.last
                \/ fetch.next # fetch.max /\ fetch.digest = fetch.next
  <2>1. Fetches /\ psd.last > 0
    BY <1>1, <1>5, StageFacts
  <2>2. /\ BatchFits /\ fetch.min \in 1..MaxBlock /\ fetch.max \in 1..MaxBlock
        /\ fetch.next \in 1..MaxBlock
    BY <2>1, BlocksStage
  <2>3. fetch.next \in fetch.min..fetch.max
    BY <2>2, BlockNumbers DEF BatchFits
  <2> QED BY <2>2, <2>3 DEF BatchFits
<1>6. FetchingState = "pages" => fetch = PagesFetch /\ psd.first = 0 /\ psd.last = 0
  BY <1>1, StageFacts DEF StoreFits, StageFits
<1> QED BY <1>2, <1>3, <1>4, <1>5, <1>6 DEF AssertsHold

-----------------------------------------------------------------------------
(* Whatever at most F faulty sources send, in whatever order and number of *)
(* cycles, crashes and rejections, the target of a cycle is a checkpoint   *)
(* that exists, processData puts only blocks of the agreed chain and       *)
(* stores only the pages of the agreed checkpoint.                         *)
THEOREM FetchesOnlyRight == Spec => []FetchedIsRight
<1>1. IInv => FetchedIsRight
  BY DEF IInv
<1> QED BY <1>1, InitHolds, NextStep, PTL DEF Spec

(* All blocks of a checkpoint are in place, and right, before its reserved *)
(* pages are fetched and when its transfer completes, also after a crash   *)
(* between any two steps of processData.                                   *)
THEOREM StagesKeepOrder == Spec => []BlocksBeforePages
BY StagesFit, InitHolds, NextStep, PTL DEF Spec

(* The ConcordAsserts of the destination never fail: the state is clean    *)
(* when a certificate is complete, a source can be chosen while data are   *)
(* collected, checkBlock has a digest for every block it compares, and the *)
(* required blocks of the data store are those of the stage.               *)
THEOREM DestinationAsserts == Spec => []AssertsHold
BY AssertsFit, InitHolds, NextStep, PTL DEF Spec

-----------------------------------------------------------------------------
(***************************************************************************)
(* The reserved pages and the stored checkpoints, for every set of pages,  *)
(* every number of checkpoints, of those that are kept and of cached       *)
(* virtual blocks, any number of cycles and of crashes.                    *)
(***************************************************************************)
CONSTANTS Pages, MaxVBlocks, MaxPageCrashes, MaxFetches
VARIABLES written, executed, saved, stored, descs, first, last, fetching, ending,
          cache, served, pageFaults

Res == INSTANCE ResPages WITH
  MaxCrashes <- MaxPageCrashes, pending <- saved, faults <- pageFaults

PageSizes ==
  /\ IsFiniteSet(Pages) /\ MaxCp \in Nat /\ MaxStored \in Nat \ {0}
  /\ MaxVBlocks \in Nat \ {0} /\ MaxPageCrashes \in Nat /\ MaxFetches \in Nat

(* The pages at checkpoint c when the intervals write w *)
TruthOf(w, c) ==
  [p \in Pages |-> LET ks == {k \in 1..c : p \in w[k]}
                   IN  IF ks = {} THEN Res!NoPage ELSE [c |-> Res!Max(ks), v |-> Res!Max(ks)]]

(* A checkpoint has one version of a page. *)
Keyed(ver) == \A a, b \in ver : a.p = b.p /\ a.c = b.c => a = b

(* Of the versions up to a checkpoint one is kept. *)
OneUpTo(ver, c) == \A a, b \in ver : a.p = b.p /\ a.c <= c /\ b.c <= c => a = b

(* The interval m is the last of the first c ones that writes p. *)
NewestWrite(w, p, c, m) == m \in 1..c /\ p \in w[m] /\ \A k \in 1..c : p \in w[k] => k <= m

-----------------------------------------------------------------------------
(* What execution wrote *)

LEMMA WriteCases ==
  ASSUME NEW w, NEW c \in Nat, NEW p \in Pages
  PROVE  \/ (\A k \in 1..c : p \notin w[k]) /\ TruthOf(w, c)[p] = Res!NoPage
         \/ \E m \in 1..c : NewestWrite(w, p, c, m) /\ TruthOf(w, c)[p] = [c |-> m, v |-> m]
<1> DEFINE ks == {k \in 1..c : p \in w[k]}
<1>1. TruthOf(w, c)[p] = IF ks = {} THEN Res!NoPage ELSE [c |-> Res!Max(ks), v |-> Res!Max(ks)]
  BY DEF TruthOf
<1>2. CASE ks = {}
  BY <1>1, <1>2
<1>3. CASE ks # {}
  <2> DEFINE T == {n \in 0..c : c - n \in ks}
  <2>1. T \in SUBSET Nat /\ T # {}
    <3>1. PICK k \in ks : TRUE
      BY <1>3
    <3>2. c - k \in T
      BY <3>1
    <3>3. T \in SUBSET Nat
      OBVIOUS
    <3> HIDE DEF T
    <3> QED BY <3>2, <3>3
  <2>2. PICK n \in T : \A m \in T : n <= m
    <3> HIDE DEF T
    <3> QED BY <2>1, LeastNat
  <2>3. \A k \in ks : c - k \in T
    OBVIOUS
  <2>4. c - n \in ks /\ \A k \in ks : c - n >= k
    BY <2>2, <2>3
  <2>5. Res!Max(ks) \in ks /\ \A k \in ks : Res!Max(ks) >= k
    <3> HIDE DEF ks, T
    <3> QED BY <2>4 DEF Res!Max
  <2>6. NewestWrite(w, p, c, Res!Max(ks))
    BY <2>5 DEF NewestWrite
  <2> QED BY <1>1, <1>3, <2>5, <2>6
<1> QED BY <1>2, <1>3

LEMMA WriteIs ==
  ASSUME NEW w, NEW c \in Nat, NEW p \in Pages, NEW m, NewestWrite(w, p, c, m)
  PROVE  TruthOf(w, c)[p] = [c |-> m, v |-> m]
<1>1. m \in 1..c /\ p \in w[m] /\ \A k \in 1..c : p \in w[k] => k <= m
  BY DEF NewestWrite
<1>2. PICK n \in 1..c : NewestWrite(w, p, c, n) /\ TruthOf(w, c)[p] = [c |-> n, v |-> n]
  BY <1>1, WriteCases
<1>3. n <= m /\ m <= n
  BY <1>1, <1>2 DEF NewestWrite
<1>4. n = m
  BY <1>1, <1>2, <1>3
<1> QED BY <1>2, <1>4

(* Only the intervals up to c matter. *)
LEMMA WritesUpTo ==
  ASSUME NEW w, NEW u, NEW c \in Nat, \A k \in 1..c : w[k] = u[k]
  PROVE  TruthOf(w, c) = TruthOf(u, c)
<1>1. ASSUME NEW p \in Pages PROVE TruthOf(w, c)[p] = TruthOf(u, c)[p]
  <2>1. {k \in 1..c : p \in w[k]} = {k \in 1..c : p \in u[k]}
    OBVIOUS
  <2> QED BY <2>1 DEF TruthOf
<1> QED BY <1>1 DEF TruthOf

(* Intervals that do not write a page leave it alone. *)
LEMMA WritesSkip ==
  ASSUME NEW w, NEW b \in Nat, NEW c \in Nat, b <= c, NEW p \in Pages,
         \A k \in 1..c : k > b => p \notin w[k]
  PROVE  TruthOf(w, c)[p] = TruthOf(w, b)[p]
<1>1. {k \in 1..c : p \in w[k]} = {k \in 1..b : p \in w[k]}
  OBVIOUS
<1> QED BY <1>1 DEF TruthOf

-----------------------------------------------------------------------------
(* The versions in the store *)

Newest(ver, p, c, e) ==
  e \in ver /\ e.p = p /\ e.c <= c /\ \A y \in ver : y.p = p /\ y.c <= c => y.c <= e.c

LEMMA PageIs ==
  ASSUME NEW ver \in SUBSET Res!Versions, Keyed(ver), NEW c \in Nat, NEW p, NEW e,
         Newest(ver, p, c, e)
  PROVE  Res!GetResPage(ver, p, c) = [c |-> e.c, v |-> e.v]
<1> DEFINE older == {x \in ver : x.p = p /\ x.c <= c}
           top == CHOOSE x \in older : \A y \in older : y.c <= x.c
<1>1. e \in older /\ \A y \in older : y.c <= e.c
  BY DEF Newest
<1>2. top \in older /\ \A y \in older : y.c <= top.c
  <2> HIDE DEF older
  <2> QED BY <1>1
<1>3. top.c \in Int /\ e.c \in Int
  BY <1>1, <1>2 DEF Res!Versions, Res!Cps
<1>4. top.c = e.c
  <2> HIDE DEF older, top
  <2> QED BY <1>1, <1>2, <1>3
<1>5. top = e
  <2> HIDE DEF top
  <2> QED BY <1>1, <1>2, <1>4 DEF Keyed
<1>6. Res!GetResPage(ver, p, c) = IF older = {} THEN Res!NoPage ELSE [c |-> top.c, v |-> top.v]
  BY DEF Res!GetResPage
<1> HIDE DEF older, top
<1> QED BY <1>1, <1>5, <1>6

LEMMA PageCases ==
  ASSUME PageSizes, NEW ver \in SUBSET Res!Versions, Keyed(ver), NEW c \in Nat, NEW p
  PROVE  \/ (\A e \in ver : ~(e.p = p /\ e.c <= c)) /\ Res!GetResPage(ver, p, c) = Res!NoPage
         \/ \E e \in ver : Newest(ver, p, c, e)
<1> DEFINE older == {x \in ver : x.p = p /\ x.c <= c}
<1>1. CASE older = {}
  <2>1. Res!GetResPage(ver, p, c) = Res!NoPage
    BY <1>1 DEF Res!GetResPage
  <2> QED BY <1>1, <2>1
<1>2. CASE older # {}
  <2> DEFINE T == {n \in 0..MaxCp : \E x \in older : n = MaxCp - x.c}
  <2>0. \A x \in older : x.c \in 1..MaxCp
    BY DEF Res!Versions, Res!Cps
  <2>3. \A x \in older : MaxCp - x.c \in T
    <3> SUFFICES ASSUME NEW x \in older PROVE MaxCp - x.c \in T
      OBVIOUS
    <3>1. MaxCp - x.c \in 0..MaxCp
      BY <2>0 DEF PageSizes
    <3> QED BY <3>1
  <2>1. T \in SUBSET Nat /\ T # {}
    <3>1. PICK x \in older : TRUE
      BY <1>2
    <3> QED BY <2>3, <3>1
  <2>2. PICK n \in T : \A m \in T : n <= m
    <3> HIDE DEF T
    <3> QED BY <2>1, LeastNat
  <2>4. PICK x \in older : n = MaxCp - x.c
    BY <2>2
  <2>5. \A y \in older : y.c <= x.c
    <3> SUFFICES ASSUME NEW y \in older PROVE y.c <= x.c
      OBVIOUS
    <3>1. MaxCp - x.c <= MaxCp - y.c
      BY <2>2, <2>3, <2>4
    <3>2. x.c \in 1..MaxCp /\ y.c \in 1..MaxCp
      BY <2>0
    <3> QED BY <3>1, <3>2 DEF PageSizes
  <2>6. Newest(ver, p, c, x)
    BY <2>4, <2>5 DEF Newest
  <2> QED BY <2>6
<1> QED BY <1>1, <1>2

(* Where no version is newer than b, a later checkpoint has the same pages. *)
LEMMA PagesStay ==
  ASSUME NEW ver \in SUBSET Res!Versions, NEW b \in Nat, NEW c \in Nat, b <= c, NEW p,
         \A e \in ver : e.p = p => e.c <= b
  PROVE  Res!GetResPage(ver, p, c) = Res!GetResPage(ver, p, b)
<1>1. \A e \in ver : e.c \in Int
  BY DEF Res!Versions, Res!Cps
<1>2. {e \in ver : e.p = p /\ e.c <= c} = {e \in ver : e.p = p /\ e.c <= b}
  BY <1>1
<1> QED BY <1>2 DEF Res!GetResPage

(* Deleting what newer versions cover leaves the pages from min on. *)
LEMMA DeleteKeepsPages ==
  ASSUME PageSizes, NEW ver \in SUBSET Res!Versions, Keyed(ver), NEW min \in Nat, NEW c \in Nat,
         min <= c, NEW p
  PROVE  Res!GetResPage(Res!DeleteCovered(ver, min), p, c) = Res!GetResPage(ver, p, c)
<1> DEFINE left == Res!DeleteCovered(ver, min)
<1>1. left \in SUBSET ver /\ left \in SUBSET Res!Versions /\ Keyed(left)
  BY DEF Res!DeleteCovered, Keyed
<1>2. CASE \A e \in ver : ~(e.p = p /\ e.c <= c)
  <2>1. {e \in left : e.p = p /\ e.c <= c} = {e \in ver : e.p = p /\ e.c <= c}
    BY <1>1, <1>2
  <2> QED BY <2>1 DEF Res!GetResPage
<1>3. ASSUME NEW e \in ver, Newest(ver, p, c, e)
      PROVE  Res!GetResPage(left, p, c) = Res!GetResPage(ver, p, c)
  <2>1. \A n \in ver : n.c \in Int
    BY DEF Res!Versions, Res!Cps
  <2>2. ~\E n \in ver : n.p = e.p /\ n.c <= min /\ e.c < n.c
    BY <1>3, <2>1 DEF Newest
  <2>3. e \in left
    BY <2>2 DEF Res!DeleteCovered
  <2>4. Newest(left, p, c, e)
    BY <1>1, <1>3, <2>3 DEF Newest
  <2> HIDE DEF left
  <2> QED BY <1>1, <1>3, <2>4, PageIs
<1> QED BY <1>2, <1>3, PageCases

-----------------------------------------------------------------------------
(* The inductive invariants *)

VersionsServed == [cp : Res!Cps, known : 0..MaxCp, pages : SUBSET Res!Versions]

PagesTyped ==
  /\ written \in [Res!Cps -> SUBSET Pages] /\ executed \in 0..MaxCp
  /\ saved \in [Pages -> 0..MaxCp] /\ stored \in SUBSET Res!Versions
  /\ first \in 0..MaxCp /\ last \in 0..MaxCp
  /\ \A d \in descs : d.cp \in Res!Cps
  /\ fetching \in BOOLEAN
  /\ pageFaults \in [crashes : Nat, fetches : Nat]

(* The last stored checkpoint is the one executed last, the one that is    *)
(* being finalized, or one that a state transfer fetched; what is kept are *)
(* one version of a page up to the first stored checkpoint, and those of   *)
(* fewer than MaxStored checkpoints after it.                              *)
StoreIsKept ==
  /\ executed <= last /\ (fetching \/ last = executed \/ last = executed + 1)
  /\ first <= last /\ last < first + MaxStored
  /\ Keyed(stored) /\ OneUpTo(stored, first)
  /\ \A e \in stored : e.c <= last
  /\ last > 0 => Res!HasDesc(descs, last)
  /\ \A d \in descs : first <= d.cp /\ d.cp <= last

(* What the replica is executing now is the last that anything is written in. *)
NothingAhead == \A k \in Res!Cps : k > executed + 1 /\ k > last => written[k] = {}

(* A saved page is the latest of its page, and one that is not saved was   *)
(* not written since the last checkpoint.                                  *)
SavedIsLatest ==
  /\ fetching => \A p \in Pages : saved[p] = 0
  /\ executed < MaxCp =>
       \A p \in Pages : saved[p] # 0 => saved[p] = TruthOf(written, executed + 1)[p].v
  /\ executed < MaxCp /\ ~fetching /\ last = executed =>
       \A p \in Pages : saved[p] = 0 => p \notin written[executed + 1]

StoredIsLatest ==
  \A p \in Pages : Res!GetResPage(stored, p, last).v = TruthOf(written, last)[p].v

CacheFits ==
  cache \in SUBSET VersionsServed /\ IsFiniteSet(cache) /\ Cardinality(cache) <= MaxVBlocks

(* A cycle ends with the pages of a checkpoint above all that was executed. *)
EndingFits ==
  /\ ending \in {"no", "callbacks", "done"}
  /\ ending # "no" => fetching /\ \A k \in Res!Cps : k > last => written[k] = {}
  /\ ending = "done" => executed = last

LatestInv ==
  PagesTyped /\ StoreIsKept /\ NothingAhead /\ SavedIsLatest /\ StoredIsLatest /\ CacheFits

(* Without a crash every version is of the interval that wrote it, and the *)
(* pages of every checkpoint that has a descriptor can be read.            *)
SavedIsNew ==
  \A p \in Pages : saved[p] # 0 =>
     /\ executed < MaxCp /\ last = executed /\ saved[p] = executed + 1
     /\ p \in written[executed + 1]

StoredIsTrue ==
  /\ \A e \in stored : e.v = e.c /\ e.p \in written[e.c]
  /\ \A d \in descs : /\ d.pages = TruthOf(written, d.cp)
                      /\ \A p \in Pages : Res!GetResPage(stored, p, d.cp) = TruthOf(written, d.cp)[p]

(* A virtual block leads from the pages of one checkpoint to the other's. *)
LeadsTo(w, b) == Res!Apply(TruthOf(w, b.known), b.pages) = TruthOf(w, b.cp)

AnswersAreTrue ==
  /\ \A b \in cache : b.known < b.cp /\ b.cp <= last /\ LeadsTo(written, b)
  /\ served.cp > 0 => served.cp \in Res!Cps /\ served.known \in 0..MaxCp /\ served.known < served.cp
                      /\ served.cp <= last /\ LeadsTo(written, served)

AgreeInv == SavedIsNew /\ StoredIsTrue /\ AnswersAreTrue

-----------------------------------------------------------------------------
(* deleteOldCheckpoints *)

LEMMA MinRelevantIs ==
  ASSUME PageSizes, NEW ds, NEW c \in Res!Cps
  PROVE  /\ Res!MinRelevant(ds, c) \in 0..c
         /\ c < Res!MinRelevant(ds, c) + MaxStored
<1>0. c \in 1..MaxCp
  BY DEF Res!Cps
<1>1. CASE c < MaxStored
  <2>1. Res!MinRelevant(ds, c) = 0
    BY <1>1 DEF Res!MinRelevant
  <2> QED BY <1>0, <1>1, <2>1 DEF PageSizes
<1>2. CASE ~(c < MaxStored)
  <2> DEFINE from == {m \in (c - MaxStored + 1)..c : m = c \/ Res!HasDesc(ds, m)}
  <2>1. Res!MinRelevant(ds, c) = Res!Min(from)
    BY <1>2 DEF Res!MinRelevant
  <2>2. c \in from /\ from \in SUBSET Nat
    BY <1>0, <1>2 DEF PageSizes
  <2>3. \E x \in from : \A y \in from : x <= y
    <3> HIDE DEF from
    <3> QED BY <2>2, LeastNat
  <2>4. Res!Min(from) \in from
    <3> HIDE DEF from
    <3> QED BY <2>3 DEF Res!Min
  <2>5. Res!Min(from) \in (c - MaxStored + 1)..c
    BY <2>4
  <2> QED BY <1>0, <1>2, <2>1, <2>5 DEF PageSizes
<1> QED BY <1>1, <1>2

LEMMA DeleteOldKeeps ==
  ASSUME PageSizes, NEW ver \in SUBSET Res!Versions, Keyed(ver), NEW ds, NEW c \in Res!Cps,
         first \in 0..c, OneUpTo(ver, first), \A e \in ver : e.c <= c,
         \A d \in ds : d.cp \in Res!Cps /\ first <= d.cp /\ d.cp <= c,
         Res!HasDesc(ds, c), Res!DeleteOldCheckpoints(ver, ds, c)
  PROVE  /\ last' = c /\ first' \in 0..c /\ c < first' + MaxStored
         /\ stored' \in SUBSET ver /\ Keyed(stored') /\ OneUpTo(stored', first')
         /\ descs' \in SUBSET ds /\ Res!HasDesc(descs', c)
         /\ \A d \in descs' : first' <= d.cp
         /\ \A p, b : b \in first'..c => Res!GetResPage(stored', p, b) = Res!GetResPage(ver, p, b)
<1> DEFINE min == Res!MinRelevant(ds, c)
           old == min >= 2 /\ min > first
<1>0. c \in 1..MaxCp /\ c \in Nat
  BY DEF Res!Cps, PageSizes
<1>1. min \in 0..c /\ c < min + MaxStored
  BY MinRelevantIs
<1>2. /\ stored' = IF old THEN Res!DeleteCovered(ver, min) ELSE ver
      /\ descs' = IF old THEN {d \in ds : d.cp >= min} ELSE ds
      /\ first' = IF min > first THEN min ELSE first
      /\ last' = c
  BY DEF Res!DeleteOldCheckpoints
<1>v. \A e \in ver : e.c \in 1..MaxCp
  BY DEF Res!Versions, Res!Cps
<1> HIDE DEF min
<1>3. first' \in 0..c /\ c < first' + MaxStored
  BY <1>0, <1>1, <1>2 DEF PageSizes
<1>4. PICK x \in ds : x.cp = c
  BY DEF Res!HasDesc
<1>5. CASE old
  <2>1. stored' = Res!DeleteCovered(ver, min) /\ descs' = {d \in ds : d.cp >= min} /\ first' = min
    BY <1>2, <1>5
  <2>2. stored' \in SUBSET ver
    BY <2>1 DEF Res!DeleteCovered
  <2>3. Keyed(stored')
    BY <2>2 DEF Keyed
  <2>4. OneUpTo(stored', first')
    <3> SUFFICES ASSUME NEW a \in stored', NEW b \in stored', a.p = b.p, a.c <= min, b.c <= min
                 PROVE  a = b
      BY <2>1 DEF OneUpTo
    <3>1. a \in ver /\ b \in ver
      BY <2>2
    <3>2. ~(a.c < b.c) /\ ~(b.c < a.c)
      BY <2>1, <3>1 DEF Res!DeleteCovered
    <3>3. a.c = b.c
      BY <1>v, <3>1, <3>2
    <3> QED BY <3>1, <3>3 DEF Keyed
  <2>5. Res!HasDesc(descs', c)
    <3>1. x \in descs'
      BY <1>0, <1>1, <1>4, <2>1
    <3> QED BY <1>4, <3>1 DEF Res!HasDesc
  <2>6. descs' \in SUBSET ds /\ \A d \in descs' : first' <= d.cp
    <3>1. \A d \in ds : d.cp \in Int
      BY DEF Res!Cps
    <3> QED BY <1>1, <2>1, <3>1
  <2>7. ASSUME NEW p, NEW b \in first'..c
        PROVE  Res!GetResPage(stored', p, b) = Res!GetResPage(ver, p, b)
    <3>1. b \in Nat /\ min <= b /\ min \in Nat
      BY <1>0, <1>1, <2>1, <2>7
    <3> QED BY <2>1, <3>1, DeleteKeepsPages
  <2> QED BY <1>2, <1>3, <2>2, <2>3, <2>4, <2>5, <2>6, <2>7
<1>6. CASE ~old
  <2>1. stored' = ver /\ descs' = ds
    BY <1>2, <1>6
  <2>2. first' = first \/ (first' = 1 /\ first = 0)
    BY <1>1, <1>2, <1>6
  <2>3. OneUpTo(ver, first')
    <3>1. CASE first' = 1
      <4> SUFFICES ASSUME NEW a \in ver, NEW b \in ver, a.p = b.p, a.c <= 1, b.c <= 1
                   PROVE  a = b
        BY <3>1 DEF OneUpTo
      <4>1. a.c = b.c
        BY <1>v
      <4> QED BY <4>1 DEF Keyed
    <3>2. CASE first' = first
      BY <3>2
    <3> QED BY <2>2, <3>1, <3>2
  <2>4. \A d \in ds : first' <= d.cp
    BY <2>2 DEF Res!Cps
  <2> QED BY <1>2, <1>3, <2>1, <2>3, <2>4
<1> QED BY <1>5, <1>6

-----------------------------------------------------------------------------
(* The steps preserve LatestInv *)

LEMMA LatestInit == ASSUME PageSizes, Res!Init PROVE LatestInv
<1>1. /\ written = [k \in Res!Cps |-> {}] /\ executed = 0
      /\ saved = [p \in Pages |-> 0] /\ stored = {}
      /\ descs = {} /\ first = 0 /\ last = 0 /\ fetching = FALSE /\ cache = {}
      /\ pageFaults = [crashes |-> 0, fetches |-> 0]
  BY DEF Res!Init
<1>2. PagesTyped
  <2>1. 0 \in 0..MaxCp
    BY DEF PageSizes
  <2>2. saved \in [Pages -> 0..MaxCp] /\ written \in [Res!Cps -> SUBSET Pages]
    BY <1>1, <2>1
  <2>3. pageFaults \in [crashes : Nat, fetches : Nat]
    BY <1>1
  <2> QED BY <1>1, <2>1, <2>2, <2>3 DEF PagesTyped
<1>3. StoreIsKept
  BY <1>1 DEF StoreIsKept, Keyed, OneUpTo, PageSizes
<1>4. NothingAhead /\ CacheFits
  <2>1. IsFiniteSet({}) /\ Cardinality({}) = 0
    BY FS_EmptySet
  <2> QED BY <1>1, <2>1 DEF NothingAhead, CacheFits, PageSizes
<1>5. SavedIsLatest
  BY <1>1 DEF SavedIsLatest, Res!Cps, PageSizes
<1>6. StoredIsLatest
  <2>1. ASSUME NEW p \in Pages
        PROVE  Res!GetResPage(stored, p, last) = TruthOf(written, last)[p]
    <3>1. Res!GetResPage(stored, p, last) = Res!NoPage
      BY <1>1 DEF Res!GetResPage
    <3>2. {k \in 1..last : p \in written[k]} = {}
      BY <1>1
    <3> QED BY <3>1, <3>2 DEF TruthOf
  <2> QED BY <2>1 DEF StoredIsLatest
<1> QED BY <1>2, <1>3, <1>4, <1>5, <1>6 DEF LatestInv

LEMMA SaveKeepsLatest ==
  ASSUME PageSizes, LatestInv, NEW q \in Pages, Res!SaveReservedPage(q)
  PROVE  LatestInv'
<1> DEFINE i == executed + 1
<1>0. /\ ~fetching /\ i <= MaxCp /\ last < i
      /\ written' = [written EXCEPT ![i] = @ \cup {q}]
      /\ saved' = [saved EXCEPT ![q] = i]
      /\ UNCHANGED <<executed, stored, descs, first, last, fetching, cache, pageFaults>>
  BY DEF Res!SaveReservedPage, Res!Interval
<1>1. /\ PagesTyped /\ executed \in 0..MaxCp /\ i \in Res!Cps /\ last \in Nat
      /\ MaxCp \in Nat /\ executed < MaxCp
  BY <1>0 DEF LatestInv, PagesTyped, Res!Cps, PageSizes
<1>2. last = executed
  BY <1>0, <1>1 DEF LatestInv, StoreIsKept
<1>3. /\ \A k \in Res!Cps : k # i => written'[k] = written[k]
      /\ written'[i] = written[i] \cup {q}
  BY <1>0, <1>1 DEF PagesTyped
<1>4. PagesTyped'
  <2>1. written' \in [Res!Cps -> SUBSET Pages]
    BY <1>0, <1>1 DEF PagesTyped
  <2>2. saved' \in [Pages -> 0..MaxCp]
    BY <1>0, <1>1 DEF PagesTyped, Res!Cps
  <2> QED BY <1>0, <1>1, <2>1, <2>2 DEF PagesTyped
<1>5. StoreIsKept' /\ CacheFits'
  BY <1>0 DEF LatestInv, StoreIsKept, CacheFits, Res!HasDesc
<1>6. NothingAhead'
  BY <1>0, <1>1, <1>3 DEF LatestInv, NothingAhead, Res!Cps
<1>7. SavedIsLatest'
  <2>1. ASSUME NEW p \in Pages, saved'[p] # 0
        PROVE  saved'[p] = TruthOf(written', i)[p].v
    <3>1. CASE p = q
      <4>1. NewestWrite(written', p, i, i)
        BY <1>1, <1>3, <3>1 DEF NewestWrite
      <4>2. TruthOf(written', i)[p] = [c |-> i, v |-> i]
        BY <1>1, <4>1, WriteIs
      <4>3. saved'[p] = i
        BY <1>0, <1>1, <3>1 DEF PagesTyped
      <4> QED BY <4>2, <4>3
    <3>2. CASE p # q
      <4>1. {k \in 1..i : p \in written'[k]} = {k \in 1..i : p \in written[k]}
        BY <1>0, <1>1, <1>3, <3>2 DEF Res!Cps
      <4>2. TruthOf(written', i)[p] = TruthOf(written, i)[p]
        BY <4>1 DEF TruthOf
      <4>3. saved'[p] = saved[p]
        BY <1>0, <1>1, <3>2 DEF PagesTyped
      <4> QED BY <1>0, <1>1, <2>1, <4>2, <4>3 DEF LatestInv, SavedIsLatest
    <3> QED BY <3>1, <3>2
  <2>2. ASSUME NEW p \in Pages, saved'[p] = 0
        PROVE  p \notin written'[i]
    <3>1. p # q
      BY <1>0, <1>1, <2>2 DEF PagesTyped
    <3>2. saved[p] = 0
      BY <1>0, <1>1, <2>2, <3>1 DEF PagesTyped
    <3>3. p \notin written[i]
      BY <1>0, <1>1, <1>2, <3>2 DEF LatestInv, SavedIsLatest
    <3> QED BY <1>3, <3>1, <3>3
  <2> QED BY <1>0, <2>1, <2>2 DEF SavedIsLatest
<1>8. StoredIsLatest'
  <2>1. \A k \in 1..last : written[k] = written'[k]
    BY <1>0, <1>1, <1>3 DEF Res!Cps
  <2>2. TruthOf(written, last) = TruthOf(written', last)
    BY <1>1, <2>1, WritesUpTo
  <2> QED BY <1>0, <2>2 DEF LatestInv, StoredIsLatest
<1> QED BY <1>4, <1>5, <1>6, <1>7, <1>8 DEF LatestInv

(* The versions of a new checkpoint beside the stored ones *)
LEMMA NewVersions ==
  ASSUME PageSizes, LatestInv, NEW c \in Res!Cps, last <= c,
         NEW new \in SUBSET Res!Versions, \A e \in new : last < e.c /\ e.c <= c, Keyed(new)
  PROVE  /\ stored \cup new \in SUBSET Res!Versions /\ Keyed(stored \cup new)
         /\ first \in 0..c /\ OneUpTo(stored \cup new, first)
         /\ \A e \in stored \cup new : e.c <= c
<1>1. /\ stored \in SUBSET Res!Versions /\ first \in Nat /\ last \in Nat /\ first <= last
      /\ Keyed(stored) /\ OneUpTo(stored, first) /\ \A e \in stored : e.c <= last
  BY DEF LatestInv, PagesTyped, StoreIsKept
<1>2. \A e \in stored \cup new : e.c \in Int
  BY <1>1 DEF Res!Versions, Res!Cps
<1>c. c \in Int
  BY DEF Res!Cps
<1>3. Keyed(stored \cup new)
  <2> SUFFICES ASSUME NEW a \in stored \cup new, NEW b \in stored \cup new, a.p = b.p, a.c = b.c
               PROVE  a = b
    BY DEF Keyed
  <2>1. (a \in stored /\ b \in stored) \/ (a \in new /\ b \in new)
    BY <1>1, <1>2
  <2> QED BY <1>1, <2>1 DEF Keyed
<1>4. OneUpTo(stored \cup new, first)
  <2> SUFFICES ASSUME NEW a \in stored \cup new, NEW b \in stored \cup new, a.p = b.p,
                      a.c <= first, b.c <= first
               PROVE  a = b
    BY DEF OneUpTo
  <2>1. a \in stored /\ b \in stored
    BY <1>1, <1>2
  <2> QED BY <1>1, <2>1 DEF OneUpTo
<1>5. \A e \in stored \cup new : e.c <= c
  BY <1>1, <1>2, <1>c
<1> QED BY <1>1, <1>3, <1>4, <1>5, <1>c

LEMMA CreateKeepsLatest ==
  ASSUME PageSizes, LatestInv, Res!CreateCheckpointOfCurrentState
  PROVE  LET c == executed + 1
             ver == stored \cup Res!Associated(c)
         IN  /\ LatestInv'
             /\ ~fetching /\ c <= MaxCp /\ last = executed /\ last' = c
             /\ \A p \in Pages : saved[p] # 0 => Res!GetResPage(ver, p, c) = [c |-> c, v |-> saved[p]]
             /\ \A p \in Pages : saved[p] = 0 => Res!GetResPage(ver, p, c) = Res!GetResPage(stored, p, last)
             /\ \A e \in Res!Associated(c) : e.p \in Pages /\ e.c = c /\ e.v = saved[e.p] /\ saved[e.p] # 0
             /\ stored' \in SUBSET ver
             /\ \A d \in descs' : d \in descs \/ (d.cp = c /\ d.pages = Res!Descriptor(ver, c))
             /\ \A p, b : b \in first'..c => Res!GetResPage(stored', p, b) = Res!GetResPage(ver, p, b)
<1> DEFINE c == executed + 1
           new == Res!Associated(c)
           ver == stored \cup new
           ds == descs \cup {[cp |-> c, pages |-> Res!Descriptor(ver, c)]}
<1>0. /\ ~fetching /\ c <= MaxCp /\ last < c
      /\ Res!DeleteOldCheckpoints(ver, ds, c)
      /\ saved' = [p \in Pages |-> 0]
      /\ UNCHANGED <<written, executed, fetching, cache, pageFaults>>
  BY DEF Res!CreateCheckpointOfCurrentState, Res!Interval
<1>1. /\ PagesTyped /\ executed \in 0..MaxCp /\ c \in Res!Cps /\ last \in Nat
      /\ MaxCp \in Nat /\ executed < MaxCp
  BY <1>0 DEF LatestInv, PagesTyped, Res!Cps, PageSizes
<1>2. last = executed
  BY <1>0, <1>1 DEF LatestInv, StoreIsKept
<1>3. \A e \in new : e \in Res!Versions /\ e.c = c /\ e.v = saved[e.p]
  BY <1>1 DEF Res!Associated, Res!Versions, PagesTyped, Res!Cps
<1>4. Keyed(new)
  BY DEF Keyed, Res!Associated
<1>5. \A p \in Pages : saved[p] # 0 => [p |-> p, c |-> c, v |-> saved[p]] \in new
  BY DEF Res!Associated
<1>w. \A e \in new : saved[e.p] # 0
  BY DEF Res!Associated
<1>x. \A d \in ds : d \in descs \/ (d.cp = c /\ d.pages = Res!Descriptor(ver, c))
  <2> HIDE DEF ver
  <2> QED OBVIOUS
<1> HIDE DEF new
<1>6. /\ ver \in SUBSET Res!Versions /\ Keyed(ver) /\ first \in 0..c /\ OneUpTo(ver, first)
      /\ \A e \in ver : e.c <= c
  <2>1. new \in SUBSET Res!Versions /\ \A e \in new : last < e.c /\ e.c <= c
    BY <1>0, <1>1, <1>3
  <2> QED BY <1>0, <1>1, <1>4, <2>1, NewVersions
<1>d. c \in Nat /\ executed \in Nat
  BY <1>1
<1> HIDE DEF ver
<1>7. /\ \A d \in ds : d.cp \in Res!Cps /\ first <= d.cp /\ d.cp <= c
      /\ Res!HasDesc(ds, c)
  <2>1. \A d \in descs : d.cp \in Res!Cps /\ first <= d.cp /\ d.cp <= last
    BY DEF LatestInv, PagesTyped, StoreIsKept
  <2>2. \A d \in descs : d.cp <= c
    BY <1>0, <1>1, <2>1 DEF Res!Cps
  <2>3. first <= c
    BY <1>6
  <2> DEFINE d == [cp |-> c, pages |-> Res!Descriptor(ver, c)]
  <2>4. d.cp = c /\ d \in ds
    OBVIOUS
  <2>5. Res!HasDesc(ds, c)
    <3> HIDE DEF ds, d
    <3> QED BY <2>4 DEF Res!HasDesc
  <2>6. ASSUME NEW x \in ds PROVE x.cp \in Res!Cps /\ first <= x.cp /\ x.cp <= c
    <3>1. CASE x \in descs
      BY <2>1, <2>2, <3>1
    <3>2. CASE x = d
      BY <1>1, <1>d, <2>3, <3>2
    <3> QED BY <2>6, <3>1, <3>2
  <2> QED BY <2>5, <2>6
<1> HIDE DEF ds
<1>8. /\ last' = c /\ first' \in 0..c /\ c < first' + MaxStored
      /\ stored' \in SUBSET ver /\ Keyed(stored') /\ OneUpTo(stored', first')
      /\ descs' \in SUBSET ds /\ Res!HasDesc(descs', c)
      /\ \A d \in descs' : first' <= d.cp
      /\ \A p, b : b \in first'..c => Res!GetResPage(stored', p, b) = Res!GetResPage(ver, p, b)
  <2> HIDE DEF c
  <2> QED BY <1>0, <1>1, <1>6, <1>7, DeleteOldKeeps
<1>9. ASSUME NEW p \in Pages, saved[p] # 0
      PROVE  Res!GetResPage(ver, p, c) = [c |-> c, v |-> saved[p]]
  <2> DEFINE e == [p |-> p, c |-> c, v |-> saved[p]]
  <2>1. e \in ver
    BY <1>5, <1>9 DEF ver
  <2>2. Newest(ver, p, c, e)
    BY <1>1, <1>6, <2>1 DEF Newest
  <2>3. Res!GetResPage(ver, p, c) = [c |-> e.c, v |-> e.v]
    <3> HIDE DEF e, c
    <3> QED BY <1>6, <1>d, <2>2, PageIs
  <2> QED BY <2>3
<1>10. ASSUME NEW p \in Pages, saved[p] = 0
       PROVE  Res!GetResPage(ver, p, c) = Res!GetResPage(stored, p, last)
  <2>1. \A x \in ver : x.p = p => x \in stored
    BY <1>w, <1>10 DEF ver
  <2>2. \A x \in stored : x.c <= last
    BY DEF LatestInv, StoreIsKept
  <2>3. Res!GetResPage(ver, p, c) = Res!GetResPage(ver, p, last)
    BY <1>0, <1>1, <1>6, <1>d, <2>1, <2>2, PagesStay
  <2>4. {x \in ver : x.p = p /\ x.c <= last} = {x \in stored : x.p = p /\ x.c <= last}
    BY <2>1 DEF ver
  <2>5. Res!GetResPage(ver, p, last) = Res!GetResPage(stored, p, last)
    BY <2>4 DEF Res!GetResPage
  <2> QED BY <2>3, <2>5
<1>11. PagesTyped'
  <2>1. saved' \in [Pages -> 0..MaxCp]
    BY <1>0 DEF PageSizes
  <2>2. last' \in 0..MaxCp /\ first' \in 0..MaxCp
    BY <1>0, <1>1, <1>8
  <2> QED BY <1>0, <1>1, <1>6, <1>7, <1>8, <2>1, <2>2 DEF PagesTyped
<1>12. StoreIsKept'
  <2>1. \A e \in stored' : e.c <= last'
    BY <1>6, <1>8
  <2>2. first' <= last' /\ last' < first' + MaxStored
    BY <1>8
  <2>3. \A d \in descs' : first' <= d.cp /\ d.cp <= last'
    BY <1>7, <1>8
  <2>4. (Res!HasDesc(descs, last))'
    BY <1>8 DEF Res!HasDesc
  <2>5. last' = executed' + 1 /\ executed' <= last'
    BY <1>0, <1>8, <1>d
  <2> QED BY <1>8, <2>1, <2>2, <2>3, <2>4, <2>5 DEF StoreIsKept, Keyed, OneUpTo
<1>13. NothingAhead' /\ CacheFits'
  <2>1. ASSUME NEW k \in Res!Cps, k > executed' + 1 PROVE written'[k] = {}
    BY <1>0, <1>1, <1>2, <2>1 DEF LatestInv, NothingAhead, Res!Cps
  <2> QED BY <1>0, <2>1 DEF LatestInv, NothingAhead, CacheFits
<1>14. SavedIsLatest'
  BY <1>0, <1>1, <1>8 DEF SavedIsLatest
<1>15. StoredIsLatest'
  <2> SUFFICES ASSUME NEW p \in Pages
               PROVE  Res!GetResPage(stored', p, c).v = TruthOf(written, c)[p].v
    BY <1>0, <1>8 DEF StoredIsLatest
  <2>1. Res!GetResPage(stored', p, c) = Res!GetResPage(ver, p, c)
    BY <1>8
  <2>2. CASE saved[p] # 0
    <3>1. saved[p] = TruthOf(written, c)[p].v
      BY <1>1, <2>2 DEF LatestInv, SavedIsLatest
    <3>2. Res!GetResPage(ver, p, c) = [c |-> c, v |-> saved[p]]
      BY <1>9, <2>2
    <3>3. Res!GetResPage(ver, p, c).v = saved[p]
      <4> HIDE DEF c
      <4> QED BY <3>2
    <3> QED BY <2>1, <3>1, <3>3
  <2>3. CASE saved[p] = 0
    <3>1. p \notin written[c]
      BY <1>0, <1>1, <1>2, <2>3 DEF LatestInv, SavedIsLatest
    <3>2. \A k \in 1..c : k > last => p \notin written[k]
      BY <1>1, <1>2, <3>1
    <3>3. TruthOf(written, c)[p] = TruthOf(written, last)[p]
      BY <1>0, <1>1, <1>d, <3>2, WritesSkip
    <3> QED BY <1>10, <2>1, <2>3, <3>3 DEF LatestInv, StoredIsLatest
  <2> QED BY <2>2, <2>3
<1>16. LatestInv'
  BY <1>11, <1>12, <1>13, <1>14, <1>15 DEF LatestInv
<1>17. \A d \in descs' : d \in descs \/ (d.cp = c /\ d.pages = Res!Descriptor(ver, c))
  BY <1>8, <1>x
<1>18. \A e \in new : e.p \in Pages
  BY <1>3 DEF Res!Versions
<1> QED BY <1>0, <1>2, <1>3, <1>8, <1>9, <1>10, <1>16, <1>17, <1>18, <1>w DEF ver, new

LEMMA FinalizeKeepsLatest ==
  ASSUME PageSizes, LatestInv, Res!FinalizeExecution
  PROVE  LatestInv'
<1> DEFINE i == executed + 1
<1>0. /\ ~fetching /\ i <= MaxCp /\ last = i /\ executed' = i
      /\ UNCHANGED <<written, saved, stored, descs, first, last, fetching, cache, pageFaults>>
  BY DEF Res!FinalizeExecution, Res!Interval
<1>1. PagesTyped /\ executed \in 0..MaxCp /\ MaxCp \in Nat /\ executed < MaxCp
  BY <1>0 DEF LatestInv, PagesTyped, PageSizes
<1>2. PagesTyped'
  BY <1>0, <1>1 DEF PagesTyped
<1>3. StoreIsKept' /\ CacheFits' /\ StoredIsLatest'
  BY <1>0, <1>1 DEF LatestInv, StoreIsKept, CacheFits, StoredIsLatest, Res!HasDesc
<1>4. NothingAhead'
  BY <1>0, <1>1 DEF LatestInv, NothingAhead, Res!Cps
<1>5. SavedIsLatest'
  <2>1. ASSUME i < MaxCp PROVE written[i + 1] = {}
    BY <1>0, <1>1, <2>1 DEF LatestInv, NothingAhead, Res!Cps
  <2>2. ASSUME i < MaxCp, NEW p \in Pages, saved[p] # 0
        PROVE  saved[p] = TruthOf(written, i + 1)[p].v
    <3>1. \A k \in 1..(i + 1) : k > i => p \notin written[k]
      BY <1>1, <2>1, <2>2
    <3>2. i \in Nat /\ i + 1 \in Nat /\ i <= i + 1
      BY <1>1
    <3>3. TruthOf(written, i + 1)[p] = TruthOf(written, i)[p]
      <4> HIDE DEF i
      <4> QED BY <3>1, <3>2, WritesSkip
    <3>4. saved[p] = TruthOf(written, i)[p].v
      BY <1>1, <2>2 DEF LatestInv, SavedIsLatest
    <3> QED BY <3>3, <3>4
  <2> QED BY <1>0, <2>1, <2>2 DEF SavedIsLatest
<1> QED BY <1>2, <1>3, <1>4, <1>5 DEF LatestInv

LEMMA CrashKeepsLatest ==
  ASSUME PageSizes, LatestInv, Res!Crash
  PROVE  LatestInv'
<1> DEFINE i == executed + 1
           redone == IF i <= MaxCp /\ ~fetching THEN written[i] ELSE {}
<1>0. /\ pageFaults' = [pageFaults EXCEPT !.crashes = @ + 1] /\ cache' = {}
      /\ UNCHANGED <<written, executed, stored, descs, first, last, fetching>>
  BY DEF Res!Crash
<1>a. PICK again \in SUBSET redone : saved' = [p \in Pages |-> IF p \in again THEN i ELSE saved[p]]
  BY DEF Res!Crash, Res!Interval
<1>1. PagesTyped /\ executed \in 0..MaxCp /\ MaxCp \in Nat
  BY DEF LatestInv, PagesTyped, PageSizes
<1>2. \A p \in again : i <= MaxCp /\ ~fetching /\ p \in written[i]
  BY <1>a
<1>3. \A p \in Pages : saved'[p] = IF p \in again THEN i ELSE saved[p]
  BY <1>a
<1>4. PagesTyped'
  <2>1. \A p \in Pages : saved'[p] \in 0..MaxCp
    BY <1>1, <1>2, <1>3 DEF PagesTyped
  <2>2. saved' \in [Pages -> 0..MaxCp]
    BY <1>a, <2>1
  <2>3. pageFaults' \in [crashes : Nat, fetches : Nat]
    BY <1>0, <1>1 DEF PagesTyped
  <2> QED BY <1>0, <1>1, <2>2, <2>3 DEF PagesTyped
<1>5. StoreIsKept' /\ StoredIsLatest' /\ NothingAhead'
  BY <1>0 DEF LatestInv, StoreIsKept, StoredIsLatest, NothingAhead, Res!HasDesc
<1>6. CacheFits'
  <2>1. IsFiniteSet({}) /\ Cardinality({}) = 0
    BY FS_EmptySet
  <2> QED BY <1>0, <2>1 DEF CacheFits, PageSizes
<1>7. SavedIsLatest'
  <2>1. ASSUME fetching, NEW p \in Pages PROVE saved'[p] = 0
    BY <1>2, <1>3, <2>1 DEF LatestInv, SavedIsLatest
  <2>2. ASSUME executed < MaxCp, NEW p \in Pages, saved'[p] # 0
        PROVE  saved'[p] = TruthOf(written, i)[p].v
    <3>1. CASE p \in again
      <4>1. NewestWrite(written, p, i, i)
        BY <1>1, <1>2, <3>1 DEF NewestWrite
      <4>2. i \in Nat
        BY <1>1
      <4>3. TruthOf(written, i)[p] = [c |-> i, v |-> i]
        <5> HIDE DEF i
        <5> QED BY <4>1, <4>2, WriteIs
      <4> QED BY <1>3, <3>1, <4>3
    <3>2. CASE p \notin again
      BY <1>3, <2>2, <3>2 DEF LatestInv, SavedIsLatest
    <3> QED BY <3>1, <3>2
  <2>3. ASSUME executed < MaxCp, ~fetching, last = executed, NEW p \in Pages, saved'[p] = 0
        PROVE  p \notin written[i]
    <3>1. saved[p] = 0
      BY <1>1, <1>3, <2>3
    <3> QED BY <2>3, <3>1 DEF LatestInv, SavedIsLatest
  <2> QED BY <1>0, <2>1, <2>2, <2>3 DEF SavedIsLatest
<1> QED BY <1>4, <1>5, <1>6, <1>7 DEF LatestInv

LEMMA StartKeepsLatest ==
  ASSUME PageSizes, LatestInv, Res!StartCollectingState
  PROVE  LatestInv'
<1>0. /\ pageFaults' = [pageFaults EXCEPT !.fetches = @ + 1] /\ cache' = {} /\ fetching' = TRUE
      /\ saved' = [p \in Pages |-> 0]
      /\ UNCHANGED <<written, executed, stored, descs, first, last>>
  BY DEF Res!StartCollectingState
<1>1. PagesTyped
  BY DEF LatestInv
<1>2. PagesTyped'
  <2>1. saved' \in [Pages -> 0..MaxCp]
    BY <1>0 DEF PageSizes
  <2>2. pageFaults' \in [crashes : Nat, fetches : Nat]
    BY <1>0, <1>1 DEF PagesTyped
  <2> QED BY <1>0, <1>1, <2>1, <2>2 DEF PagesTyped
<1>3. StoreIsKept' /\ StoredIsLatest' /\ NothingAhead'
  BY <1>0 DEF LatestInv, StoreIsKept, StoredIsLatest, NothingAhead, Res!HasDesc
<1>4. CacheFits'
  <2>1. IsFiniteSet({}) /\ Cardinality({}) = 0
    BY FS_EmptySet
  <2> QED BY <1>0, <2>1 DEF CacheFits, PageSizes
<1>5. SavedIsLatest'
  BY <1>0 DEF SavedIsLatest
<1> QED BY <1>2, <1>3, <1>4, <1>5 DEF LatestInv

(* What a replica stores that executed everything up to checkpoint c *)
Peer(w, c) ==
  {e \in {[p |-> p, c |-> k, v |-> k] : p \in Pages, k \in Res!Cps} : e.p \in w[e.c] /\ e.c <= c}

LEMMA PeerIsTrue ==
  ASSUME PageSizes, NEW c \in Res!Cps, NEW w
  PROVE  /\ Peer(w, c) \in SUBSET Res!Versions /\ Keyed(Peer(w, c))
         /\ \A e \in Peer(w, c) : e.v = e.c /\ e.p \in w[e.c] /\ e.c <= c
         /\ \A p \in Pages : Res!GetResPage(Peer(w, c), p, c) = TruthOf(w, c)[p]
<1> DEFINE peer == Peer(w, c)
<1>0. c \in 1..MaxCp /\ c \in Nat
  BY DEF Res!Cps, PageSizes
<1>1. \A e \in peer : e \in Res!Versions /\ e.v = e.c /\ e.p \in w[e.c] /\ e.c <= c
  BY DEF Peer, Res!Versions
<1>2. Keyed(peer)
  BY DEF Peer, Keyed
<1>3. ASSUME NEW p \in Pages, NEW k \in Res!Cps, p \in w[k], k <= c
      PROVE  [p |-> p, c |-> k, v |-> k] \in peer
  BY <1>3 DEF Peer
<1> HIDE DEF peer
<1>4. ASSUME NEW p \in Pages
      PROVE  Res!GetResPage(peer, p, c) = TruthOf(w, c)[p]
  <2>1. CASE (\A k \in 1..c : p \notin w[k]) /\ TruthOf(w, c)[p] = Res!NoPage
    <3>1. {e \in peer : e.p = p /\ e.c <= c} = {}
      BY <1>1, <2>1 DEF Res!Versions, Res!Cps
    <3>2. Res!GetResPage(peer, p, c) = Res!NoPage
      BY <3>1 DEF Res!GetResPage
    <3> QED BY <2>1, <3>2
  <2>2. ASSUME NEW m \in 1..c, NewestWrite(w, p, c, m), TruthOf(w, c)[p] = [c |-> m, v |-> m]
        PROVE  Res!GetResPage(peer, p, c) = TruthOf(w, c)[p]
    <3> DEFINE e == [p |-> p, c |-> m, v |-> m]
    <3>0. m \in Res!Cps /\ m <= c
      BY <1>0 DEF Res!Cps, PageSizes
    <3>1. m \in Res!Cps /\ m <= c /\ p \in w[m] /\ \A k \in 1..c : p \in w[k] => k <= m
      BY <2>2, <3>0 DEF NewestWrite
    <3>2. e \in peer
      BY <1>3, <3>1
    <3>3. ASSUME NEW y \in peer, y.p = p, y.c <= c PROVE y.c <= m
      <4>1. y.c \in 1..c /\ p \in w[y.c]
        BY <1>1, <1>0, <3>3 DEF Res!Versions, Res!Cps
      <4> QED BY <3>1, <4>1
    <3>4. Newest(peer, p, c, e)
      BY <3>1, <3>2, <3>3 DEF Newest
    <3>5. peer \in SUBSET Res!Versions
      BY <1>1
    <3>6. Res!GetResPage(peer, p, c) = [c |-> e.c, v |-> e.v]
      <4> HIDE DEF e
      <4> QED BY <1>0, <1>2, <3>4, <3>5, PageIs
    <3> QED BY <2>2, <3>6
  <2> QED BY <1>0, <2>1, <2>2, WriteCases
<1> QED BY <1>1, <1>2, <1>4 DEF peer

(* createVBlock takes versions of the store, at most one of a page. *)
LEMMA VBlockIs ==
  ASSUME PageSizes, NEW ver \in SUBSET Res!Versions, Keyed(ver), NEW c \in Nat, NEW known \in Nat
  PROVE  /\ Res!VBlock(ver, c, known) \in SUBSET ver /\ Keyed(Res!VBlock(ver, c, known))
         /\ \A e \in Res!VBlock(ver, c, known) : known < e.c /\ e.c <= c
<1> DEFINE G(p) == Res!GetResPage(ver, p, c)
           block == Res!VBlock(ver, c, known)
<1>1. block = {[p |-> p, c |-> G(p).c, v |-> G(p).v] : p \in {q \in Pages : G(q).c > known}}
  BY DEF Res!VBlock
<1>2. ASSUME NEW p \in Pages, G(p).c > known
      PROVE  /\ [p |-> p, c |-> G(p).c, v |-> G(p).v] \in ver
             /\ G(p).c <= c /\ known < G(p).c
  <2>1. G(p) # Res!NoPage
    BY <1>2 DEF Res!NoPage
  <2>2. PICK e \in ver : Newest(ver, p, c, e)
    BY <2>1, PageCases
  <2>3. G(p) = [c |-> e.c, v |-> e.v]
    BY <2>2, PageIs
  <2>4. e = [p |-> e.p, c |-> e.c, v |-> e.v] /\ e.c \in Int
    BY DEF Res!Versions, Res!Cps
  <2>5. e.p = p /\ e.c <= c
    BY <2>2 DEF Newest
  <2>6. G(p).c = e.c /\ G(p).v = e.v
    <3> HIDE DEF G
    <3> QED BY <2>3
  <2>7. [p |-> p, c |-> G(p).c, v |-> G(p).v] = e
    <3> HIDE DEF G
    <3> QED BY <2>4, <2>5, <2>6
  <2>8. known < e.c
    <3> HIDE DEF G
    <3> QED BY <1>2, <2>4, <2>6
  <2> QED BY <2>5, <2>6, <2>7, <2>8
<1> HIDE DEF block, G
<1>3. ASSUME NEW e \in block
      PROVE  e \in ver /\ known < e.c /\ e.c <= c /\ e.p \in Pages
             /\ e = [p |-> e.p, c |-> G(e.p).c, v |-> G(e.p).v]
  <2>1. PICK p \in Pages : G(p).c > known /\ e = [p |-> p, c |-> G(p).c, v |-> G(p).v]
    BY <1>1, <1>3
  <2>2. e.p = p /\ e.c = G(p).c
    BY <2>1
  <2> QED BY <1>2, <2>1, <2>2
<1>4. Keyed(block)
  BY <1>3 DEF Keyed
<1> QED BY <1>3, <1>4 DEF block

LEMMA FetchFacts ==
  ASSUME PageSizes, LatestInv, NEW c \in Res!Cps, NEW w \in [Res!Cps -> SUBSET Pages],
         Res!FetchPages(c, w)
  PROVE  LET new == Res!VBlock(Peer(w, c), c, last)
             ver == stored \cup new
         IN  /\ fetching /\ last <= c /\ executed <= c /\ written' = w
             /\ UNCHANGED <<executed, saved, fetching, cache, served, pageFaults>>
             /\ \A k \in Res!Cps : k <= last => w[k] = written[k]
             /\ \A k \in Res!Cps : k > c => w[k] = {}
             /\ new \in SUBSET Res!Versions
             /\ \A e \in new : e.v = e.c /\ e.p \in w[e.c] /\ last < e.c /\ e.c <= c
             /\ Keyed(ver) /\ \A e \in ver : e.c <= c
             /\ \A p \in Pages : Res!GetResPage(ver, p, c) = TruthOf(w, c)[p]
             /\ last' = c /\ first' \in 0..c /\ c < first' + MaxStored
             /\ stored' \in SUBSET ver /\ Keyed(stored') /\ OneUpTo(stored', first')
             /\ \A d \in descs' : \/ d \in descs /\ d.cp # c
                                  \/ d.cp = c /\ d.pages = TruthOf(w, c)
             /\ Res!HasDesc(descs', c)
             /\ \A d \in descs' : first' <= d.cp /\ d.cp <= c
             /\ \A p, b : b \in first'..c => Res!GetResPage(stored', p, b) = Res!GetResPage(ver, p, b)
<1> DEFINE peer == Peer(w, c)
           new == Res!VBlock(peer, c, last)
           ver == stored \cup new
           desc == [cp |-> c, pages |-> Res!Descriptor(peer, c)]
           ds == {d \in descs : d.cp # c} \cup {desc}
<1>0. /\ fetching /\ c >= last /\ c >= executed /\ written' = w
      /\ UNCHANGED <<executed, saved, fetching, cache, served, pageFaults>>
      /\ \A k \in Res!Cps : k > c => w[k] = {}
      /\ \A k \in Res!Cps : k <= last => w[k] = written[k]
      /\ Res!Descriptor(ver, c) = Res!Descriptor(peer, c)
      /\ Res!DeleteOldCheckpoints(ver, ds, c)
  BY DEF Res!FetchPages, Peer
<1>1. /\ last \in Nat /\ executed \in Nat /\ c \in Nat /\ c \in 1..MaxCp /\ MaxCp \in Nat
      /\ last <= c /\ executed <= c
  BY <1>0 DEF LatestInv, PagesTyped, Res!Cps, PageSizes
<1>2. /\ peer \in SUBSET Res!Versions /\ Keyed(peer)
      /\ \A e \in peer : e.v = e.c /\ e.p \in w[e.c] /\ e.c <= c
      /\ \A p \in Pages : Res!GetResPage(peer, p, c) = TruthOf(w, c)[p]
  BY PeerIsTrue
<1>3. new \in SUBSET peer /\ Keyed(new) /\ \A e \in new : last < e.c /\ e.c <= c
  <2> HIDE DEF peer
  <2> QED BY <1>1, <1>2, VBlockIs
<1>4. Res!Descriptor(peer, c) = TruthOf(w, c)
  BY <1>2 DEF Res!Descriptor, TruthOf
<1>5. \A p \in Pages : Res!GetResPage(ver, p, c) = TruthOf(w, c)[p]
  <2> HIDE DEF ver, peer
  <2>1. \A p \in Pages : Res!GetResPage(ver, p, c) = Res!Descriptor(ver, c)[p]
    BY DEF Res!Descriptor
  <2> QED BY <1>0, <1>4, <2>1
<1> HIDE DEF peer, new
<1>6. /\ ver \in SUBSET Res!Versions /\ Keyed(ver) /\ first \in 0..c /\ OneUpTo(ver, first)
      /\ \A e \in ver : e.c <= c
  BY <1>1, <1>2, <1>3, NewVersions
<1> HIDE DEF ver
<1>7. desc.cp = c /\ desc.pages = TruthOf(w, c)
  BY <1>4
<1> HIDE DEF desc
<1>8. /\ \A d \in ds : d.cp \in Res!Cps /\ first <= d.cp /\ d.cp <= c
      /\ Res!HasDesc(ds, c)
  <2>1. \A d \in descs : d.cp \in Res!Cps /\ first <= d.cp /\ d.cp <= last
    BY DEF LatestInv, PagesTyped, StoreIsKept
  <2>2. \A d \in descs : d.cp <= c
    BY <1>1, <2>1 DEF Res!Cps
  <2>3. first <= c /\ c <= c
    BY <1>1, <1>6
  <2>4. Res!HasDesc(ds, c)
    BY <1>7 DEF Res!HasDesc
  <2> QED BY <1>7, <2>1, <2>2, <2>3, <2>4
<1>9. \A d \in ds : (d \in descs /\ d.cp # c) \/ (d.cp = c /\ d.pages = TruthOf(w, c))
  BY <1>7
<1> HIDE DEF ds
<1>10. /\ last' = c /\ first' \in 0..c /\ c < first' + MaxStored
       /\ stored' \in SUBSET ver /\ Keyed(stored') /\ OneUpTo(stored', first')
       /\ descs' \in SUBSET ds /\ Res!HasDesc(descs', c)
       /\ \A d \in descs' : first' <= d.cp
       /\ \A p, b : b \in first'..c => Res!GetResPage(stored', p, b) = Res!GetResPage(ver, p, b)
  BY <1>0, <1>6, <1>8, DeleteOldKeeps
<1>11. \A d \in descs' : /\ (d \in descs /\ d.cp # c) \/ (d.cp = c /\ d.pages = TruthOf(w, c))
                         /\ first' <= d.cp /\ d.cp <= c
  BY <1>8, <1>9, <1>10
<1>12. /\ new \in SUBSET Res!Versions
       /\ \A e \in new : e.v = e.c /\ e.p \in w[e.c] /\ last < e.c /\ e.c <= c
  BY <1>2, <1>3
<1> QED BY <1>0, <1>1, <1>5, <1>6, <1>10, <1>11, <1>12 DEF ver, new, peer

LEMMA FetchKeepsLatest ==
  ASSUME PageSizes, LatestInv, NEW c \in Res!Cps, NEW w \in [Res!Cps -> SUBSET Pages],
         Res!FetchPages(c, w)
  PROVE  LatestInv'
<1> DEFINE ver == stored \cup Res!VBlock(Peer(w, c), c, last)
<1>0. /\ fetching /\ last <= c /\ executed <= c /\ written' = w
      /\ UNCHANGED <<executed, saved, fetching, cache, served, pageFaults>>
      /\ \A k \in Res!Cps : k > c => w[k] = {}
      /\ ver \in SUBSET Res!Versions /\ \A e \in ver : e.c <= c
      /\ \A p \in Pages : Res!GetResPage(ver, p, c) = TruthOf(w, c)[p]
      /\ last' = c /\ first' \in 0..c /\ c < first' + MaxStored
      /\ stored' \in SUBSET ver /\ Keyed(stored') /\ OneUpTo(stored', first')
      /\ \A d \in descs' : \/ d \in descs /\ d.cp # c
                           \/ d.cp = c /\ d.pages = TruthOf(w, c)
      /\ Res!HasDesc(descs', c)
      /\ \A d \in descs' : first' <= d.cp /\ d.cp <= c
      /\ \A p, b : b \in first'..c => Res!GetResPage(stored', p, b) = Res!GetResPage(ver, p, b)
  <2>1. stored \in SUBSET Res!Versions
    BY DEF LatestInv, PagesTyped
  <2> QED BY <2>1, FetchFacts
<1> HIDE DEF ver
<1>1. PagesTyped /\ executed \in Nat /\ c \in 1..MaxCp /\ MaxCp \in Nat
  BY DEF LatestInv, PagesTyped, Res!Cps, PageSizes
<1>2. PagesTyped'
  <2>1. executed' \in 0..MaxCp /\ last' \in 0..MaxCp /\ first' \in 0..MaxCp
    BY <1>0, <1>1
  <2>2. \A d \in descs' : d.cp \in Res!Cps
    BY <1>0, <1>1 DEF PagesTyped
  <2> QED BY <1>0, <1>1, <2>1, <2>2 DEF PagesTyped
<1>3. StoreIsKept'
  <2>1. first' <= last' /\ last' < first' + MaxStored
    BY <1>0
  <2>2. (Res!HasDesc(descs, last))'
    BY <1>0 DEF Res!HasDesc
  <2> QED BY <1>0, <2>1, <2>2 DEF StoreIsKept, Keyed, OneUpTo
<1>5. NothingAhead'
  BY <1>0, <1>1 DEF NothingAhead, Res!Cps
<1>6. CacheFits'
  BY <1>0 DEF LatestInv, CacheFits
<1>7. SavedIsLatest'
  <2>1. \A p \in Pages : saved'[p] = 0
    BY <1>0 DEF LatestInv, SavedIsLatest
  <2> QED BY <1>0, <2>1 DEF SavedIsLatest
<1>8. StoredIsLatest'
  <2>1. c \in first'..c
    BY <1>0, <1>1
  <2>2. \A p \in Pages : Res!GetResPage(stored', p, c) = TruthOf(w, c)[p]
    BY <1>0, <2>1
  <2> QED BY <1>0, <2>2 DEF StoredIsLatest
<1> QED BY <1>2, <1>3, <1>5, <1>6, <1>7, <1>8 DEF LatestInv

LEMMA EndKeepsLatest ==
  ASSUME PageSizes, LatestInv, EndingFits, Res!OnTransferringComplete \/ Res!FinalizeCycle
  PROVE  LatestInv'
<1>0. /\ fetching /\ \A k \in Res!Cps : k > last => written[k] = {}
      /\ UNCHANGED <<written, saved, stored, descs, first, last, pageFaults>>
      /\ executed' = last /\ fetching' \in BOOLEAN /\ (UNCHANGED cache \/ cache' = {})
  BY DEF Res!OnTransferringComplete, Res!FinalizeCycle, EndingFits
<1>1. PagesTyped /\ last \in Nat /\ MaxCp \in Nat
  BY DEF LatestInv, PagesTyped, PageSizes
<1>2. PagesTyped'
  BY <1>0, <1>1 DEF PagesTyped
<1>3. StoreIsKept' /\ StoredIsLatest' /\ NothingAhead'
  BY <1>0, <1>1 DEF LatestInv, StoreIsKept, StoredIsLatest, NothingAhead, Res!HasDesc
<1>4. CacheFits'
  <2>1. IsFiniteSet({}) /\ Cardinality({}) = 0
    BY FS_EmptySet
  <2>2. CASE cache' = {}
    BY <2>1, <2>2 DEF CacheFits, PageSizes
  <2>3. CASE UNCHANGED cache
    BY <2>3 DEF LatestInv, CacheFits
  <2> QED BY <1>0, <2>2, <2>3
<1>5. SavedIsLatest'
  <2>1. \A p \in Pages : saved'[p] = 0
    BY <1>0 DEF LatestInv, SavedIsLatest
  <2>2. last < MaxCp => written[last + 1] = {}
    BY <1>0, <1>1 DEF Res!Cps
  <2> QED BY <1>0, <2>1, <2>2 DEF SavedIsLatest
<1> QED BY <1>2, <1>3, <1>4, <1>5 DEF LatestInv

LEMMA EndingInit == ASSUME Res!Init PROVE EndingFits
BY DEF Res!Init, EndingFits

LEMMA EndingStep ==
  ASSUME PageSizes, LatestInv, EndingFits, [Res!Next]_(Res!vars)
  PROVE  EndingFits'
<1>1. CASE UNCHANGED Res!vars
  BY <1>1 DEF Res!vars, EndingFits
<1>2. CASE \E p \in Pages : Res!SaveReservedPage(p)
  BY <1>2 DEF Res!SaveReservedPage, EndingFits
<1>3. CASE Res!CreateCheckpointOfCurrentState \/ Res!FinalizeExecution
  BY <1>3 DEF Res!CreateCheckpointOfCurrentState, Res!FinalizeExecution, EndingFits
<1>4. CASE Res!Crash
  BY <1>4 DEF Res!Crash, EndingFits
<1>5. CASE Res!StartCollectingState
  BY <1>5 DEF Res!StartCollectingState, EndingFits
<1>6. ASSUME NEW c \in Res!Cps, NEW w \in [Res!Cps -> SUBSET Pages], Res!FetchPages(c, w)
      PROVE  EndingFits'
  <2>1. fetching /\ UNCHANGED fetching /\ written' = w /\ last' = c /\ \A k \in Res!Cps : k > c => w[k] = {}
    BY <1>6, FetchFacts
  <2>2. ending' = "callbacks"
    BY <1>6 DEF Res!FetchPages
  <2> QED BY <2>1, <2>2 DEF EndingFits
<1>7. CASE Res!OnTransferringComplete \/ Res!FinalizeCycle
  BY <1>7 DEF Res!OnTransferringComplete, Res!FinalizeCycle, EndingFits
<1>8. CASE \E c \in Res!Cps, known \in 0..MaxCp : known < c /\ Res!OnFetchResPages(c, known)
  BY <1>8 DEF Res!OnFetchResPages, EndingFits
<1> QED BY <1>1, <1>2, <1>3, <1>4, <1>5, <1>6, <1>7, <1>8 DEF Res!Next

(* The cache has a smallest key. *)
LEMMA SmallestKey ==
  ASSUME PageSizes, NEW C \in SUBSET VersionsServed, C # {}
  PROVE  \E z \in C : ~\E y \in C : Res!Below(y, z)
<1> DEFINE cps == {n \in 0..MaxCp : \E b \in C : b.cp = n}
<1>0. \A b \in C : b.cp \in 0..MaxCp /\ b.known \in 0..MaxCp
  BY DEF VersionsServed, Res!Cps
<1>1. \A b \in C : b.cp \in cps
  BY <1>0
<1>2. cps \in SUBSET Nat /\ cps # {}
  BY <1>1
<1>3. PICK m \in cps : \A n \in cps : m <= n
  <2> HIDE DEF cps
  <2> QED BY <1>2, LeastNat
<1>4. PICK a \in C : a.cp = m
  BY <1>3
<1> DEFINE ks == {n \in 0..MaxCp : \E b \in C : b.cp = m /\ b.known = n}
<1>5. \A b \in C : b.cp = m => b.known \in ks
  BY <1>0
<1>6. ks \in SUBSET Nat /\ ks # {}
  BY <1>4, <1>5
<1>7. PICK k \in ks : \A n \in ks : k <= n
  <2> HIDE DEF ks
  <2> QED BY <1>6, LeastNat
<1>8. PICK z \in C : z.cp = m /\ z.known = k
  BY <1>7
<1>9. \A y \in C : m <= y.cp /\ (y.cp = m => k <= y.known)
  BY <1>1, <1>3, <1>5, <1>7
<1>10. \A y \in C : y.cp \in Int /\ y.known \in Int
  BY <1>0
<1>11. ~\E y \in C : Res!Below(y, z)
  BY <1>8, <1>9, <1>10 DEF Res!Below
<1> QED BY <1>8, <1>11

LEMMA PageCardinality == \A S : Res!Cardinality(S) = Cardinality(S)
BY DEF Res!Cardinality, Cardinality

LEMMA CacheKeepsRoom ==
  ASSUME PageSizes, CacheFits, NEW e \in VersionsServed
  PROVE  /\ Res!InCache(e) \in SUBSET (cache \cup {e})
         /\ IsFiniteSet(Res!InCache(e)) /\ Cardinality(Res!InCache(e)) <= MaxVBlocks
<1> DEFINE rest == IF Cardinality(cache) = MaxVBlocks
                   THEN {x \in cache : \E y \in cache : Res!Below(y, x)} ELSE cache
<1>0. cache \in SUBSET VersionsServed /\ IsFiniteSet(cache) /\ Cardinality(cache) <= MaxVBlocks
  BY DEF CacheFits
<1>1. Res!InCache(e) = {e} \cup rest
  BY PageCardinality DEF Res!InCache
<1>2. rest \in SUBSET cache
  OBVIOUS
<1>3. Cardinality(cache) \in Nat /\ MaxVBlocks \in Nat \ {0}
  BY <1>0, FS_CardinalityType DEF PageSizes
<1>4. IsFiniteSet(rest) /\ Cardinality(rest) < MaxVBlocks /\ Cardinality(rest) \in Nat
  <2>1. CASE Cardinality(cache) = MaxVBlocks
    <3>1. cache # {}
      BY <1>3, <2>1, FS_EmptySet
    <3>2. PICK z \in cache : ~\E y \in cache : Res!Below(y, z)
      BY <1>0, <3>1, SmallestKey
    <3>3. z \notin rest
      BY <2>1, <3>2
    <3>4. rest # cache
      <4> HIDE DEF rest
      <4> QED BY <3>2, <3>3
    <3> HIDE DEF rest
    <3>5. IsFiniteSet(rest) /\ Cardinality(rest) < Cardinality(cache) /\ Cardinality(rest) \in Nat
      <4>1. IsFiniteSet(rest) /\ Cardinality(rest) <= Cardinality(cache)
        BY <1>0, <1>2, FS_Subset
      <4>2. Cardinality(rest) # Cardinality(cache)
        BY <1>0, <1>2, <3>4, FS_Subset
      <4> QED BY <1>3, <4>1, <4>2, FS_CardinalityType
    <3> QED BY <2>1, <3>5
  <2>2. CASE Cardinality(cache) # MaxVBlocks
    <3>1. rest = cache
      BY <2>2
    <3> QED BY <1>0, <1>3, <2>2, <3>1
  <2> QED BY <2>1, <2>2
<1> HIDE DEF rest
<1>5. IsFiniteSet(rest \cup {e}) /\ Cardinality(rest \cup {e}) <= Cardinality(rest) + 1
  <2>1. /\ IsFiniteSet(rest \cup {e})
        /\ Cardinality(rest \cup {e}) = IF e \in rest THEN Cardinality(rest) ELSE Cardinality(rest) + 1
    BY <1>4, FS_AddElement
  <2> QED BY <1>4, <2>1
<1>6. Cardinality(rest \cup {e}) \in Nat
  BY <1>5, FS_CardinalityType
<1>7. Res!InCache(e) = rest \cup {e}
  BY <1>1
<1> QED BY <1>2, <1>3, <1>4, <1>5, <1>6, <1>7

(* The answer to FetchResPagesMsg, from the store or from the cache *)
LEMMA AnswerFacts ==
  ASSUME PageSizes, LatestInv, NEW c \in Res!Cps, NEW known \in 0..MaxCp, known < c,
         Res!OnFetchResPages(c, known)
  PROVE  LET new == [cp |-> c, known |-> known, pages |-> Res!VBlock(stored, c, known)]
         IN  /\ UNCHANGED <<written, executed, saved, stored, descs, first, last, fetching, pageFaults>>
             /\ Res!HasDesc(descs, c) /\ new \in VersionsServed
             /\ \/ UNCHANGED cache /\ \E e \in cache : e.cp = c /\ e.known = known /\ served' = e
                \/ served' = new /\ cache' = Res!InCache(new)
<1> DEFINE new == [cp |-> c, known |-> known, pages |-> Res!VBlock(stored, c, known)]
           hit == Res!Cached(c, known)
<1>0. /\ UNCHANGED <<written, executed, saved, stored, descs, first, last, fetching, pageFaults>>
      /\ Res!HasDesc(descs, c)
      /\ IF hit # {}
         THEN served' = [(CHOOSE e \in hit : TRUE) EXCEPT !.known = known] /\ UNCHANGED cache
         ELSE served' = new /\ cache' = Res!InCache(new)
  BY DEF Res!OnFetchResPages
<1>1. stored \in SUBSET Res!Versions /\ Keyed(stored) /\ c \in Nat /\ known \in Nat
  BY DEF LatestInv, PagesTyped, StoreIsKept, Res!Cps, PageSizes
<1>2. Res!VBlock(stored, c, known) \in SUBSET Res!Versions
  BY <1>1, VBlockIs
<1>3. new \in VersionsServed
  BY <1>2 DEF VersionsServed
<1>4. CASE hit # {}
  <2> DEFINE e == CHOOSE x \in hit : TRUE
  <2>1. e \in hit
    <3> HIDE DEF hit
    <3> QED BY <1>4
  <2>2. e \in cache /\ e.cp = c /\ e.known = known
    <3> HIDE DEF e
    <3> QED BY <2>1 DEF Res!Cached
  <2>3. e \in VersionsServed
    BY <2>2 DEF LatestInv, CacheFits
  <2>4. served' = [e EXCEPT !.known = known] /\ UNCHANGED cache
    BY <1>0, <1>4
  <2> HIDE DEF e
  <2>5. [e EXCEPT !.known = known] = e
    BY <2>2, <2>3 DEF VersionsServed
  <2> QED BY <1>0, <1>3, <2>2, <2>4, <2>5
<1>5. CASE hit = {}
  BY <1>0, <1>3, <1>5
<1> QED BY <1>4, <1>5

LEMMA AnswerKeepsLatest ==
  ASSUME PageSizes, LatestInv, NEW c \in Res!Cps, NEW known \in 0..MaxCp, known < c,
         Res!OnFetchResPages(c, known)
  PROVE  LatestInv'
<1> DEFINE new == [cp |-> c, known |-> known, pages |-> Res!VBlock(stored, c, known)]
<1>1. /\ UNCHANGED <<written, executed, saved, stored, descs, first, last, fetching, pageFaults>>
      /\ new \in VersionsServed /\ (UNCHANGED cache \/ cache' = Res!InCache(new))
  BY AnswerFacts
<1> HIDE DEF new
<1>2. PagesTyped' /\ StoreIsKept' /\ NothingAhead' /\ SavedIsLatest' /\ StoredIsLatest'
  BY <1>1 DEF LatestInv, PagesTyped, StoreIsKept, NothingAhead, SavedIsLatest, StoredIsLatest, Res!HasDesc
<1>3. CacheFits'
  <2>1. CASE UNCHANGED cache
    BY <2>1 DEF LatestInv, CacheFits
  <2>2. CASE cache' = Res!InCache(new)
    <3>1. CacheFits
      BY DEF LatestInv
    <3>2. /\ cache' \in SUBSET (cache \cup {new})
          /\ IsFiniteSet(cache') /\ Cardinality(cache') <= MaxVBlocks
      BY <1>1, <2>2, <3>1, CacheKeepsRoom
    <3> QED BY <1>1, <3>1, <3>2 DEF CacheFits
  <2> QED BY <1>1, <2>1, <2>2
<1> QED BY <1>2, <1>3 DEF LatestInv

LEMMA LatestStep == ASSUME PageSizes, LatestInv, EndingFits, [Res!Next]_(Res!vars) PROVE LatestInv'
<1>1. CASE UNCHANGED Res!vars
  BY <1>1 DEF Res!vars, LatestInv, PagesTyped, StoreIsKept, NothingAhead, SavedIsLatest,
              StoredIsLatest, CacheFits, Res!HasDesc
<1>2. CASE \E p \in Pages : Res!SaveReservedPage(p)
  BY <1>2, SaveKeepsLatest
<1>3. CASE Res!CreateCheckpointOfCurrentState
  BY <1>3, CreateKeepsLatest
<1>4. CASE Res!FinalizeExecution
  BY <1>4, FinalizeKeepsLatest
<1>5. CASE Res!Crash
  BY <1>5, CrashKeepsLatest
<1>6. CASE Res!StartCollectingState
  BY <1>6, StartKeepsLatest
<1>7. CASE \E c \in Res!Cps, w \in [Res!Cps -> SUBSET Pages] : Res!FetchPages(c, w)
  BY <1>7, FetchKeepsLatest
<1>8. CASE \E c \in Res!Cps, known \in 0..MaxCp : known < c /\ Res!OnFetchResPages(c, known)
  BY <1>8, AnswerKeepsLatest
<1>9. CASE Res!OnTransferringComplete \/ Res!FinalizeCycle
  BY <1>9, EndKeepsLatest
<1> QED BY <1>1, <1>2, <1>3, <1>4, <1>5, <1>6, <1>7, <1>8, <1>9 DEF Res!Next

LEMMA TruthIs == \A c : Res!Truth(c) = TruthOf(written, c)
BY DEF Res!Truth, TruthOf

LEMMA LoadsLatest == ASSUME PageSizes, LatestInv PROVE Res!LoadIsLatest
<1> DEFINE i == executed + 1
<1> SUFFICES ASSUME ~fetching, i <= MaxCp, NEW p \in Pages
             PROVE  Res!LoadReservedPage(p) = TruthOf(written, i)[p].v
  BY TruthIs DEF Res!LoadIsLatest, Res!Interval
<1>0. Res!LoadReservedPage(p) = IF saved[p] # 0 THEN saved[p] ELSE Res!GetResPage(stored, p, last).v
  BY DEF Res!LoadReservedPage
<1>1. executed \in Nat /\ last \in Nat /\ executed < MaxCp /\ i \in Nat /\ (last = executed \/ last = i)
  BY DEF LatestInv, PagesTyped, StoreIsKept, PageSizes
<1>2. CASE saved[p] # 0
  BY <1>0, <1>1, <1>2 DEF LatestInv, SavedIsLatest
<1>3. CASE saved[p] = 0
  <2>1. Res!LoadReservedPage(p) = TruthOf(written, last)[p].v
    BY <1>0, <1>3 DEF LatestInv, StoredIsLatest
  <2>2. CASE last = i
    BY <2>1, <2>2
  <2>3. CASE last = executed
    <3>1. p \notin written[i]
      BY <1>1, <1>3, <2>3 DEF LatestInv, SavedIsLatest
    <3>2. (\A k \in 1..i : k > last => p \notin written[k]) /\ last <= i
      BY <1>1, <2>3, <3>1
    <3>3. TruthOf(written, i)[p] = TruthOf(written, last)[p]
      <4> HIDE DEF i
      <4> QED BY <1>1, <3>2, WritesSkip
    <3> QED BY <2>1, <3>3
  <2> QED BY <1>1, <2>2, <2>3
<1> QED BY <1>2, <1>3

LEMMA StoreHasABound == ASSUME PageSizes, LatestInv PROVE Res!StoreIsBounded
<1> DEFINE places == 0..MaxStored - 1
           f == [e \in stored |-> <<e.p, IF e.c <= first THEN 0 ELSE e.c - first>>]
<1>0. /\ stored \in SUBSET Res!Versions /\ first \in Nat /\ last \in Nat /\ MaxStored \in Nat \ {0}
      /\ first <= last /\ last < first + MaxStored
      /\ Keyed(stored) /\ OneUpTo(stored, first) /\ \A e \in stored : e.c <= last
  BY DEF LatestInv, PagesTyped, StoreIsKept, PageSizes
<1>1. \A e \in stored : e.p \in Pages /\ e.c \in Nat
  BY <1>0 DEF Res!Versions, Res!Cps
<1>2. f \in [stored -> Pages \X places]
  <2>1. \A e \in stored : (IF e.c <= first THEN 0 ELSE e.c - first) \in places
    BY <1>0, <1>1
  <2> QED BY <1>1, <2>1
<1>3. ASSUME NEW a \in stored, NEW b \in stored, f[a] = f[b] PROVE a = b
  <2>1. a.p = b.p /\ (IF a.c <= first THEN 0 ELSE a.c - first) = (IF b.c <= first THEN 0 ELSE b.c - first)
    BY <1>3
  <2>2. CASE a.c <= first
    <3>1. b.c <= first
      BY <1>0, <1>1, <2>1, <2>2
    <3> QED BY <1>0, <2>1, <2>2, <3>1 DEF OneUpTo
  <2>3. CASE ~(a.c <= first)
    <3>1. a.c = b.c
      BY <1>0, <1>1, <2>1, <2>3
    <3> QED BY <1>0, <2>1, <3>1 DEF Keyed
  <2> QED BY <2>2, <2>3
<1>4. f \in Injection(stored, Pages \X places)
  <2> HIDE DEF f, places
  <2> QED BY <1>2, <1>3 DEF Injection, IsInjective
<1>5. IsFiniteSet(places) /\ Cardinality(places) = MaxStored
  BY <1>0, FS_Interval
<1> HIDE DEF f, places
<1>6. IsFiniteSet(Pages) /\ Cardinality(Pages) \in Nat
  BY FS_CardinalityType DEF PageSizes
<1>7. /\ IsFiniteSet(Pages \X places)
      /\ Cardinality(Pages \X places) = Cardinality(Pages) * Cardinality(places)
  BY <1>5, <1>6, FS_Product
<1>8. IsFiniteSet(stored) /\ Cardinality(stored) <= Cardinality(Pages \X places)
  BY <1>4, <1>7, FS_Injection
<1>9. Cardinality(stored) \in Nat /\ Cardinality(Pages \X places) \in Nat
  BY <1>7, <1>8, FS_CardinalityType
<1>10. Cardinality(stored) <= Cardinality(Pages) * (MaxStored + 1)
  <2>1. Cardinality(stored) <= Cardinality(Pages) * MaxStored
    BY <1>5, <1>7, <1>8
  <2>2. ASSUME NEW s \in Nat, NEW n \in Nat, NEW m \in Nat, s <= n * m PROVE s <= n * (m + 1)
    <3>1. n * (m + 1) = n * m + n /\ n * m \in Nat
      BY SMTT(30)
    <3> QED BY <2>2, <3>1
  <2> HIDE <1>9
  <2> QED BY <1>0, <1>6, <1>9, <2>1, <2>2
<1>11. last > 0 => Res!HasDesc(descs, last) /\ \A d \in descs : d.cp \in first..last
  <2>1. \A d \in descs : d.cp \in Int
    BY DEF LatestInv, PagesTyped, Res!Cps
  <2> QED BY <1>0, <2>1 DEF LatestInv, StoreIsKept
<1>12. Cardinality(cache) <= MaxVBlocks
  BY DEF LatestInv, CacheFits
<1> QED BY <1>0, <1>10, <1>11, <1>12, PageCardinality DEF Res!StoreIsBounded

(* loadReservedPage returns what execution wrote last, whatever crash or   *)
(* cycle of state transfer fell in between, and the store keeps no more    *)
(* than MaxStored versions of a page, the cache no more than MaxVBlocks    *)
(* virtual blocks.                                                         *)
THEOREM PagesAreLatest ==
  ASSUME PageSizes PROVE Res!Spec => [](Res!TypeOK /\ Res!LoadIsLatest /\ Res!StoreIsBounded)
<1>1. Res!Init => LatestInv /\ EndingFits
  BY LatestInit, EndingInit
<1>2. LatestInv /\ EndingFits /\ [Res!Next]_(Res!vars) => (LatestInv /\ EndingFits)'
  BY LatestStep, EndingStep
<1>3. LatestInv /\ EndingFits => Res!TypeOK /\ Res!LoadIsLatest /\ Res!StoreIsBounded
  <2>1. LatestInv /\ EndingFits => Res!TypeOK
    BY DEF LatestInv, PagesTyped, EndingFits, Res!TypeOK
  <2> QED BY <2>1, LoadsLatest, StoreHasABound
<1> QED BY <1>1, <1>2, <1>3, PTL DEF Res!Spec

-----------------------------------------------------------------------------
(* Without a crash: the steps preserve AgreeInv *)

(* What was answered stays true: what is written up to the last checkpoint *)
(* does not change.                                                        *)
LEMMA AnswersStay ==
  ASSUME PageSizes, LatestInv, LatestInv', AnswersAreTrue, last <= last',
         \A k \in 1..last : written'[k] = written[k],
         cache' \in SUBSET cache, UNCHANGED served
  PROVE  AnswersAreTrue'
<1>0. last \in Nat /\ last' \in Nat
  BY DEF LatestInv, PagesTyped
<1>1. ASSUME NEW n \in Nat, n <= last PROVE TruthOf(written', n) = TruthOf(written, n)
  <2>1. \A k \in 1..n : written'[k] = written[k]
    BY <1>0, <1>1
  <2> QED BY <2>1, WritesUpTo
<1>2. ASSUME NEW b, b.cp \in Res!Cps, b.known \in 0..MaxCp, b.known < b.cp, b.cp <= last, LeadsTo(written, b)
      PROVE  b.cp <= last' /\ LeadsTo(written', b)
  <2>1. b.cp \in Nat /\ b.known \in Nat /\ b.known <= last /\ b.cp <= last'
    BY <1>0, <1>2 DEF Res!Cps, PageSizes
  <2>2. TruthOf(written', b.known) = TruthOf(written, b.known) /\ TruthOf(written', b.cp) = TruthOf(written, b.cp)
    BY <1>1, <1>2, <2>1
  <2> QED BY <1>2, <2>1, <2>2 DEF LeadsTo
<1>3. ASSUME NEW b \in cache' PROVE b.known < b.cp /\ b.cp <= last' /\ LeadsTo(written', b)
  <2>1. b \in cache /\ b \in VersionsServed
    BY <1>3 DEF LatestInv, CacheFits
  <2>2. b.cp \in Res!Cps /\ b.known \in 0..MaxCp
    BY <2>1 DEF VersionsServed
  <2>3. b.known < b.cp /\ b.cp <= last /\ LeadsTo(written, b)
    BY <2>1 DEF AnswersAreTrue
  <2> QED BY <1>2, <2>2, <2>3
<1>4. ASSUME served.cp > 0
      PROVE  /\ served.cp \in Res!Cps /\ served.known \in 0..MaxCp /\ served.known < served.cp
             /\ served.cp <= last' /\ LeadsTo(written', served)
  BY <1>2, <1>4 DEF AnswersAreTrue
<1> QED BY <1>3, <1>4 DEF AnswersAreTrue, LeadsTo

(* The pages of the last checkpoint *)
LEMMA LastIsTrue ==
  ASSUME PageSizes, LatestInv, StoredIsTrue, NEW p \in Pages
  PROVE  Res!GetResPage(stored, p, last) = TruthOf(written, last)[p]
<1>0. last \in Nat /\ stored \in SUBSET Res!Versions
  BY DEF LatestInv, PagesTyped
<1>1. CASE last = 0
  <2>1. {e \in stored : e.p = p /\ e.c <= last} = {}
    BY <1>0, <1>1 DEF Res!Versions, Res!Cps
  <2>2. {k \in 1..last : p \in written[k]} = {}
    BY <1>1
  <2>3. Res!GetResPage(stored, p, last) = Res!NoPage
    BY <2>1 DEF Res!GetResPage
  <2> QED BY <2>2, <2>3 DEF TruthOf
<1>2. CASE last # 0
  <2>1. Res!HasDesc(descs, last)
    BY <1>0, <1>2 DEF LatestInv, StoreIsKept
  <2> QED BY <2>1 DEF Res!HasDesc, StoredIsTrue
<1> QED BY <1>1, <1>2

(* A destination that has the pages of checkpoint known gets those of c. *)
LEMMA VBlockLeads ==
  ASSUME PageSizes, LatestInv, StoredIsTrue, NEW c \in Res!Cps, Res!HasDesc(descs, c),
         NEW known \in 0..MaxCp, known < c
  PROVE  Res!Apply(TruthOf(written, known), Res!VBlock(stored, c, known)) = TruthOf(written, c)
<1> DEFINE block == Res!VBlock(stored, c, known)
           G(p) == Res!GetResPage(stored, p, c)
           base == TruthOf(written, known)
           truth == TruthOf(written, c)
<1>0. c \in Nat /\ known \in Nat /\ c \in 1..MaxCp
  BY DEF Res!Cps, PageSizes
<1>1. block = {[p |-> p, c |-> G(p).c, v |-> G(p).v] : p \in {q \in Pages : G(q).c > known}}
  BY DEF Res!VBlock
<1>2. \A p \in Pages : G(p) = truth[p]
  <2>1. PICK d \in descs : d.cp = c
    BY DEF Res!HasDesc
  <2> QED BY <2>1 DEF StoredIsTrue
<1> HIDE DEF block, G
<1>3. ASSUME NEW p \in Pages
      PROVE  (IF \E e \in block : e.p = p
              THEN LET e == CHOOSE x \in block : x.p = p IN [c |-> e.c, v |-> e.v]
              ELSE base[p]) = truth[p]
  <2>1. \A e \in block : e.p = p => e = [p |-> p, c |-> G(p).c, v |-> G(p).v] /\ G(p).c > known
    BY <1>1
  <2>2. \/ (\A k \in 1..c : p \notin written[k]) /\ truth[p] = Res!NoPage
        \/ \E m \in 1..c : NewestWrite(written, p, c, m) /\ truth[p] = [c |-> m, v |-> m]
    BY <1>0, WriteCases
  <2>3. CASE G(p).c > known
    <3>1. [p |-> p, c |-> G(p).c, v |-> G(p).v] \in block
      BY <1>1, <2>3
    <3>2. \E e \in block : e.p = p
      BY <3>1
    <3> DEFINE e == CHOOSE x \in block : x.p = p
    <3>3. e \in block /\ e.p = p
      BY <3>2
    <3> HIDE DEF e
    <3>4. e = [p |-> p, c |-> G(p).c, v |-> G(p).v]
      BY <2>1, <3>3
    <3>5. e.c = G(p).c /\ e.v = G(p).v
      BY <3>4
    <3>6. [c |-> G(p).c, v |-> G(p).v] = truth[p]
      <4>1. truth[p] = [c |-> truth[p].c, v |-> truth[p].v]
        <5> HIDE DEF truth
        <5> QED BY <2>2 DEF Res!NoPage
      <4> QED BY <1>2, <4>1
    <3> QED BY <3>2, <3>5, <3>6 DEF e
  <2>4. CASE ~(G(p).c > known)
    <3>1. ~\E e \in block : e.p = p
      BY <2>1, <2>4
    <3>2. \A k \in 1..c : k > known => p \notin written[k]
      <4>1. ~(truth[p].c > known)
        BY <1>2, <2>4
      <4>2. CASE \A k \in 1..c : p \notin written[k]
        BY <4>2
      <4>3. ASSUME NEW m \in 1..c, NewestWrite(written, p, c, m), truth[p] = [c |-> m, v |-> m]
            PROVE  \A k \in 1..c : k > known => p \notin written[k]
        <5>1. m <= known
          <6>1. truth[p].c = m
            <7> HIDE DEF truth
            <7> QED BY <4>3
          <6> QED BY <1>0, <4>1, <6>1
        <5> QED BY <1>0, <4>3, <5>1 DEF NewestWrite
      <4> QED BY <2>2, <4>2, <4>3
    <3>3. truth[p] = base[p]
      BY <1>0, <3>2, WritesSkip
    <3> QED BY <3>1, <3>3
  <2> QED BY <2>3, <2>4
<1>4. Res!Apply(base, block)
        = [p \in Pages |-> IF \E e \in block : e.p = p
                           THEN LET e == CHOOSE x \in block : x.p = p IN [c |-> e.c, v |-> e.v]
                           ELSE base[p]]
  BY DEF Res!Apply
<1>5. truth = [p \in Pages |-> truth[p]]
  BY DEF TruthOf
<1> HIDE DEF truth, base
<1>6. Res!Apply(base, block) = truth
  BY <1>3, <1>4, <1>5
<1> QED BY <1>6 DEF truth, base, block

LEMMA AgreeInit == ASSUME PageSizes, Res!Init PROVE AgreeInv
<1>1. /\ saved = [p \in Pages |-> 0] /\ stored = {} /\ descs = {} /\ cache = {}
      /\ served = [cp |-> 0, known |-> 0, pages |-> {}]
  BY DEF Res!Init, Res!NothingServed
<1>2. ~(served.cp > 0)
  BY <1>1
<1> QED BY <1>1, <1>2 DEF AgreeInv, SavedIsNew, StoredIsTrue, AnswersAreTrue

LEMMA SaveKeepsAgree ==
  ASSUME PageSizes, LatestInv, LatestInv', AgreeInv, NEW q \in Pages, Res!SaveReservedPage(q)
  PROVE  AgreeInv'
<1> DEFINE i == executed + 1
<1>0. /\ ~fetching /\ i <= MaxCp /\ last < i
      /\ written' = [written EXCEPT ![i] = @ \cup {q}]
      /\ saved' = [saved EXCEPT ![q] = i]
      /\ UNCHANGED <<executed, stored, descs, first, last, fetching, cache, served, pageFaults>>
  BY DEF Res!SaveReservedPage, Res!Interval
<1>1. /\ PagesTyped /\ executed \in Nat /\ i \in Res!Cps /\ last \in Nat
      /\ MaxCp \in Nat /\ executed < MaxCp /\ last = executed
  BY <1>0 DEF LatestInv, PagesTyped, StoreIsKept, Res!Cps, PageSizes
<1>2. /\ \A k \in Res!Cps : k # i => written'[k] = written[k]
      /\ written'[i] = written[i] \cup {q}
  BY <1>0, <1>1 DEF PagesTyped
<1>3. \A k \in 1..last : written'[k] = written[k]
  BY <1>0, <1>1, <1>2 DEF Res!Cps
<1>4. SavedIsNew'
  <2> SUFFICES ASSUME NEW p \in Pages, saved'[p] # 0
               PROVE  saved'[p] = i /\ p \in written'[i]
    BY <1>0, <1>1 DEF SavedIsNew
  <2>1. CASE p = q
    BY <1>0, <1>1, <1>2, <2>1 DEF PagesTyped
  <2>2. CASE p # q
    <3>1. saved'[p] = saved[p]
      BY <1>0, <1>1, <2>2 DEF PagesTyped
    <3> QED BY <1>2, <3>1 DEF AgreeInv, SavedIsNew
  <2> QED BY <2>1, <2>2
<1>5. StoredIsTrue'
  <2>1. ASSUME NEW e \in stored PROVE e.v = e.c /\ e.p \in written'[e.c]
    <3>1. e.c \in 1..last
      BY <1>1 DEF LatestInv, StoreIsKept, PagesTyped, Res!Versions, Res!Cps
    <3> QED BY <1>3, <3>1 DEF AgreeInv, StoredIsTrue
  <2>2. ASSUME NEW d \in descs PROVE TruthOf(written', d.cp) = TruthOf(written, d.cp)
    <3>1. d.cp \in Nat /\ d.cp <= last
      BY DEF LatestInv, StoreIsKept, PagesTyped, Res!Cps, PageSizes
    <3>2. \A k \in 1..d.cp : written'[k] = written[k]
      BY <1>1, <1>3, <3>1
    <3> QED BY <3>1, <3>2, WritesUpTo
  <2> QED BY <1>0, <2>1, <2>2 DEF AgreeInv, StoredIsTrue
<1>6. AnswersAreTrue'
  <2>1. last <= last' /\ cache' \in SUBSET cache /\ UNCHANGED served
    BY <1>0, <1>1
  <2> QED BY <1>3, <2>1, AnswersStay DEF AgreeInv
<1> QED BY <1>4, <1>5, <1>6 DEF AgreeInv

LEMMA CreateKeepsAgree ==
  ASSUME PageSizes, LatestInv, LatestInv', AgreeInv, Res!CreateCheckpointOfCurrentState
  PROVE  AgreeInv'
<1> DEFINE c == executed + 1
           new == Res!Associated(c)
           ver == stored \cup new
<1>0. /\ ~fetching /\ c <= MaxCp /\ last = executed /\ last' = c
      /\ \A p \in Pages : saved[p] # 0 => Res!GetResPage(ver, p, c) = [c |-> c, v |-> saved[p]]
      /\ \A p \in Pages : saved[p] = 0 => Res!GetResPage(ver, p, c) = Res!GetResPage(stored, p, last)
      /\ \A e \in new : e.p \in Pages /\ e.c = c /\ e.v = saved[e.p] /\ saved[e.p] # 0
      /\ stored' \in SUBSET ver
      /\ \A d \in descs' : d \in descs \/ (d.cp = c /\ d.pages = Res!Descriptor(ver, c))
      /\ \A p, b : b \in first'..c => Res!GetResPage(stored', p, b) = Res!GetResPage(ver, p, b)
  BY CreateKeepsLatest
<1>1. saved' = [p \in Pages |-> 0] /\ UNCHANGED <<written, executed, cache, served>>
  BY DEF Res!CreateCheckpointOfCurrentState
<1>2. PagesTyped /\ executed \in Nat /\ last \in Nat /\ MaxCp \in Nat /\ c \in Nat /\ executed < MaxCp
  BY <1>0 DEF LatestInv, PagesTyped, PageSizes
<1> HIDE DEF new, ver
<1>3. \A p \in Pages : Res!GetResPage(ver, p, c) = TruthOf(written, c)[p]
  <2> SUFFICES ASSUME NEW p \in Pages PROVE Res!GetResPage(ver, p, c) = TruthOf(written, c)[p]
    OBVIOUS
  <2>1. CASE saved[p] # 0
    <3>1. saved[p] = c /\ p \in written[c]
      BY <2>1 DEF AgreeInv, SavedIsNew
    <3>2. NewestWrite(written, p, c, c)
      BY <1>2, <3>1 DEF NewestWrite
    <3>3. TruthOf(written, c)[p] = [c |-> c, v |-> c]
      <4> HIDE DEF c
      <4> QED BY <1>2, <3>2, WriteIs
    <3>4. Res!GetResPage(ver, p, c) = [c |-> c, v |-> saved[p]]
      BY <1>0, <2>1
    <3> HIDE DEF c
    <3> QED BY <3>1, <3>3, <3>4
  <2>2. CASE saved[p] = 0
    <3>1. Res!GetResPage(ver, p, c) = TruthOf(written, last)[p]
      BY <1>0, <2>2, LastIsTrue DEF AgreeInv
    <3>2. p \notin written[c]
      BY <1>0, <1>2, <2>2 DEF LatestInv, SavedIsLatest
    <3>3. (\A k \in 1..c : k > last => p \notin written[k]) /\ last <= c
      BY <1>0, <1>2, <3>2
    <3>4. TruthOf(written, c)[p] = TruthOf(written, last)[p]
      <4> HIDE DEF c
      <4> QED BY <1>2, <3>3, WritesSkip
    <3> QED BY <3>1, <3>4
  <2> QED BY <2>1, <2>2
<1>4. SavedIsNew'
  BY <1>1 DEF SavedIsNew
<1>5. StoredIsTrue'
  <2>1. ASSUME NEW e \in stored' PROVE e.v = e.c /\ e.p \in written[e.c]
    <3>1. CASE e \in stored
      BY <3>1 DEF AgreeInv, StoredIsTrue
    <3>2. CASE e \in new
      <4>1. e.p \in Pages /\ e.c = c /\ e.v = saved[e.p] /\ saved[e.p] # 0
        BY <1>0, <3>2
      <4>2. saved[e.p] = c /\ e.p \in written[c]
        BY <4>1 DEF AgreeInv, SavedIsNew
      <4> QED BY <4>1, <4>2
    <3> QED BY <1>0, <2>1, <3>1, <3>2 DEF ver
  <2>2. ASSUME NEW d \in descs'
        PROVE  /\ d.pages = TruthOf(written, d.cp)
               /\ \A p \in Pages : Res!GetResPage(stored', p, d.cp) = TruthOf(written, d.cp)[p]
    <3>1. d.cp \in first'..c
      <4>1. d.cp \in Int /\ first' \in Int /\ first' <= d.cp /\ d.cp <= last'
        BY <2>2 DEF LatestInv, PagesTyped, StoreIsKept, Res!Cps
      <4> QED BY <1>0, <1>2, <4>1
    <3>2. \A p : Res!GetResPage(stored', p, d.cp) = Res!GetResPage(ver, p, d.cp)
      BY <1>0, <3>1
    <3>3. CASE d \in descs
      <4>1. d.cp \in Int /\ d.cp <= last
        BY <3>3 DEF LatestInv, PagesTyped, StoreIsKept, Res!Cps
      <4>2. \A e \in new : ~(e.c <= d.cp)
        BY <1>0, <1>2, <4>1
      <4>3. ASSUME NEW p \in Pages
            PROVE  Res!GetResPage(ver, p, d.cp) = Res!GetResPage(stored, p, d.cp)
        <5>1. {e \in ver : e.p = p /\ e.c <= d.cp} = {e \in stored : e.p = p /\ e.c <= d.cp}
          BY <4>2 DEF ver
        <5> QED BY <5>1 DEF Res!GetResPage
      <4> QED BY <3>2, <3>3, <4>3 DEF AgreeInv, StoredIsTrue
    <3>4. CASE d.cp = c /\ d.pages = Res!Descriptor(ver, c)
      <4>1. Res!Descriptor(ver, c) = TruthOf(written, c)
        <5> HIDE DEF c
        <5> QED BY <1>3 DEF Res!Descriptor, TruthOf
      <4> HIDE DEF c
      <4> QED BY <1>3, <3>2, <3>4, <4>1
    <3> QED BY <1>0, <2>2, <3>3, <3>4
  <2> QED BY <1>1, <2>1, <2>2 DEF StoredIsTrue
<1>6. AnswersAreTrue'
  <2>1. last <= last' /\ cache' \in SUBSET cache /\ UNCHANGED served
    BY <1>0, <1>1, <1>2
  <2> QED BY <1>1, <2>1, AnswersStay DEF AgreeInv
<1> QED BY <1>4, <1>5, <1>6 DEF AgreeInv

LEMMA FetchKeepsAgree ==
  ASSUME PageSizes, LatestInv, LatestInv', AgreeInv, NEW c \in Res!Cps,
         NEW w \in [Res!Cps -> SUBSET Pages], Res!FetchPages(c, w)
  PROVE  AgreeInv'
<1> DEFINE new == Res!VBlock(Peer(w, c), c, last)
           ver == stored \cup new
<1>0. /\ fetching /\ last <= c /\ written' = w /\ UNCHANGED <<saved, cache, served>>
      /\ \A k \in Res!Cps : k <= last => w[k] = written[k]
      /\ \A e \in new : e.v = e.c /\ e.p \in w[e.c] /\ last < e.c /\ e.c <= c
      /\ \A p \in Pages : Res!GetResPage(ver, p, c) = TruthOf(w, c)[p]
      /\ last' = c /\ first' \in 0..c /\ stored' \in SUBSET ver
      /\ \A d \in descs' : \/ d \in descs /\ d.cp # c
                           \/ d.cp = c /\ d.pages = TruthOf(w, c)
      /\ \A d \in descs' : first' <= d.cp /\ d.cp <= c
      /\ \A p, b : b \in first'..c => Res!GetResPage(stored', p, b) = Res!GetResPage(ver, p, b)
  BY FetchFacts
<1>v. \A e \in new : e.c \in Int
  <2>1. new \in SUBSET Res!Versions
    BY FetchFacts
  <2> QED BY <2>1 DEF Res!Versions, Res!Cps
<1> HIDE DEF new, ver
<1>1. last \in Nat /\ last <= MaxCp /\ c \in Nat /\ MaxCp \in Nat
  BY DEF LatestInv, PagesTyped, Res!Cps, PageSizes
<1>2. \A k \in 1..last : written'[k] = written[k]
  BY <1>0, <1>1 DEF Res!Cps
<1>3. SavedIsNew'
  BY <1>0 DEF SavedIsNew, LatestInv, SavedIsLatest
<1>4. StoredIsTrue'
  <2>1. ASSUME NEW e \in stored' PROVE e.v = e.c /\ e.p \in w[e.c]
    <3>1. CASE e \in stored
      <4>1. e.c \in Res!Cps /\ e.c <= last
        BY <3>1 DEF LatestInv, StoreIsKept, PagesTyped, Res!Versions
      <4> QED BY <1>0, <3>1, <4>1 DEF AgreeInv, StoredIsTrue
    <3>2. CASE e \in new
      BY <1>0, <3>2
    <3> QED BY <1>0, <2>1, <3>1, <3>2 DEF ver
  <2>2. ASSUME NEW d \in descs'
        PROVE  /\ d.pages = TruthOf(w, d.cp)
               /\ \A p \in Pages : Res!GetResPage(stored', p, d.cp) = TruthOf(w, d.cp)[p]
    <3>1. d.cp \in first'..c
      <4>1. d.cp \in Int
        BY <2>2 DEF LatestInv, PagesTyped, Res!Cps
      <4> QED BY <1>0, <1>1, <2>2, <4>1
    <3>2. \A p : Res!GetResPage(stored', p, d.cp) = Res!GetResPage(ver, p, d.cp)
      BY <1>0, <3>1
    <3>3. CASE d \in descs
      <4>1. d.cp \in Nat /\ d.cp <= last
        BY <3>3 DEF LatestInv, PagesTyped, StoreIsKept, Res!Cps, PageSizes
      <4>2. \A e \in new : ~(e.c <= d.cp)
        BY <1>0, <1>1, <1>v, <4>1
      <4>3. ASSUME NEW p \in Pages
            PROVE  Res!GetResPage(ver, p, d.cp) = Res!GetResPage(stored, p, d.cp)
        <5>1. {e \in ver : e.p = p /\ e.c <= d.cp} = {e \in stored : e.p = p /\ e.c <= d.cp}
          BY <4>2 DEF ver
        <5> QED BY <5>1 DEF Res!GetResPage
      <4>4. \A k \in 1..d.cp : w[k] = written[k]
        BY <1>0, <1>1, <1>2, <4>1
      <4>5. TruthOf(w, d.cp) = TruthOf(written, d.cp)
        BY <4>1, <4>4, WritesUpTo
      <4> QED BY <3>2, <3>3, <4>3, <4>5 DEF AgreeInv, StoredIsTrue
    <3>4. CASE d.cp = c /\ d.pages = TruthOf(w, c)
      BY <1>0, <3>2, <3>4
    <3> QED BY <1>0, <2>2, <3>3, <3>4
  <2> QED BY <1>0, <2>1, <2>2 DEF StoredIsTrue
<1>5. AnswersAreTrue'
  <2>1. last <= last' /\ cache' \in SUBSET cache /\ UNCHANGED served
    BY <1>0
  <2> QED BY <1>2, <2>1, AnswersStay DEF AgreeInv
<1> QED BY <1>3, <1>4, <1>5 DEF AgreeInv

LEMMA AnswerKeepsAgree ==
  ASSUME PageSizes, LatestInv, AgreeInv, NEW c \in Res!Cps, NEW known \in 0..MaxCp, known < c,
         Res!OnFetchResPages(c, known)
  PROVE  AgreeInv'
<1> DEFINE new == [cp |-> c, known |-> known, pages |-> Res!VBlock(stored, c, known)]
<1>0. /\ UNCHANGED <<written, executed, saved, stored, descs, first, last, fetching, pageFaults>>
      /\ Res!HasDesc(descs, c) /\ new \in VersionsServed
      /\ \/ UNCHANGED cache /\ \E e \in cache : e.cp = c /\ e.known = known /\ served' = e
         \/ served' = new /\ cache' = Res!InCache(new)
  BY AnswerFacts
<1>1. SavedIsNew' /\ StoredIsTrue'
  BY <1>0 DEF AgreeInv, SavedIsNew, StoredIsTrue
<1>2. c <= last
  BY <1>0 DEF Res!HasDesc, LatestInv, StoreIsKept
<1>3. new.cp = c /\ new.known = known /\ new.pages = Res!VBlock(stored, c, known)
  OBVIOUS
<1>4. LeadsTo(written, new)
  <2> HIDE DEF new
  <2> QED BY <1>0, <1>3, VBlockLeads DEF LeadsTo, AgreeInv
<1> HIDE DEF new
<1>5. CASE UNCHANGED cache /\ \E e \in cache : e.cp = c /\ e.known = known /\ served' = e
  <2>1. PICK e \in cache : e.cp = c /\ e.known = known /\ served' = e
    BY <1>5
  <2>2. e.known < e.cp /\ e.cp <= last /\ LeadsTo(written, e)
    BY <2>1 DEF AgreeInv, AnswersAreTrue
  <2>3. \A b \in cache : b.known < b.cp /\ b.cp <= last /\ LeadsTo(written, b)
    BY DEF AgreeInv, AnswersAreTrue
  <2>4. AnswersAreTrue'
    BY <1>0, <1>5, <2>1, <2>2, <2>3 DEF AnswersAreTrue, LeadsTo
  <2> QED BY <1>1, <2>4 DEF AgreeInv
<1>6. CASE served' = new /\ cache' = Res!InCache(new)
  <2>1. cache' \in SUBSET (cache \cup {new})
    BY <1>0, <1>6, CacheKeepsRoom DEF LatestInv
  <2>2. \A b \in cache' : b.known < b.cp /\ b.cp <= last /\ LeadsTo(written, b)
    BY <1>2, <1>3, <1>4, <2>1 DEF AgreeInv, AnswersAreTrue
  <2>3. AnswersAreTrue'
    BY <1>0, <1>2, <1>3, <1>4, <1>6, <2>2 DEF AnswersAreTrue, LeadsTo
  <2> QED BY <1>1, <2>3 DEF AgreeInv
<1> QED BY <1>0, <1>1, <1>5, <1>6 DEF AgreeInv

LEMMA AgreeStep ==
  ASSUME PageSizes, MaxPageCrashes = 0, LatestInv, LatestInv', EndingFits, AgreeInv,
         [Res!Next]_(Res!vars)
  PROVE  AgreeInv'
<1>1. CASE UNCHANGED Res!vars
  BY <1>1 DEF Res!vars, AgreeInv, SavedIsNew, StoredIsTrue, AnswersAreTrue, LeadsTo
<1>2. CASE \E p \in Pages : Res!SaveReservedPage(p)
  BY <1>2, SaveKeepsAgree
<1>3. CASE Res!CreateCheckpointOfCurrentState
  BY <1>3, CreateKeepsAgree
<1>4. CASE Res!FinalizeExecution
  <2>1. /\ last = executed + 1 /\ UNCHANGED <<written, saved, stored, descs, last, cache, served>>
    BY <1>4 DEF Res!FinalizeExecution, Res!Interval
  <2>2. executed \in Nat
    BY DEF LatestInv, PagesTyped
  <2>3. SavedIsNew'
    BY <2>1, <2>2 DEF AgreeInv, SavedIsNew
  <2> QED BY <2>1, <2>3 DEF AgreeInv, StoredIsTrue, AnswersAreTrue, LeadsTo
<1>5. CASE Res!Crash
  <2>1. pageFaults.crashes < 0 /\ pageFaults.crashes \in Nat
    BY <1>5 DEF Res!Crash, LatestInv, PagesTyped
  <2> QED BY <2>1
<1>6. CASE Res!StartCollectingState
  <2>1. /\ saved' = [p \in Pages |-> 0] /\ cache' = {}
        /\ UNCHANGED <<written, stored, descs, last, served>>
    BY <1>6 DEF Res!StartCollectingState
  <2>2. SavedIsNew'
    BY <2>1 DEF SavedIsNew
  <2> QED BY <2>1, <2>2 DEF AgreeInv, StoredIsTrue, AnswersAreTrue, LeadsTo
<1>7. CASE \E c \in Res!Cps, w \in [Res!Cps -> SUBSET Pages] : Res!FetchPages(c, w)
  BY <1>7, FetchKeepsAgree
<1>8. CASE \E c \in Res!Cps, known \in 0..MaxCp : known < c /\ Res!OnFetchResPages(c, known)
  BY <1>8, AnswerKeepsAgree
<1>9. CASE Res!OnTransferringComplete \/ Res!FinalizeCycle
  <2>1. /\ UNCHANGED <<written, saved, stored, descs, last, served>> /\ cache' \in SUBSET cache
        /\ fetching
    BY <1>9 DEF Res!OnTransferringComplete, Res!FinalizeCycle, EndingFits
  <2>2. SavedIsNew'
    BY <2>1 DEF SavedIsNew, LatestInv, SavedIsLatest
  <2> QED BY <2>1, <2>2 DEF AgreeInv, StoredIsTrue, AnswersAreTrue, LeadsTo
<1> QED BY <1>1, <1>2, <1>3, <1>4, <1>5, <1>6, <1>7, <1>8, <1>9 DEF Res!Next

(* A replica that does not crash has, for every stored checkpoint, the     *)
(* descriptor of the digest that the replicas compare; what it answers to  *)
(* FetchResPagesMsg, from the store or from its cache, completes the pages *)
(* of the checkpoint asked for, and so it can for every checkpoint that it *)
(* announces.  A crash between the checkpoint and the end of the execution *)
(* leaves saved pages that the next checkpoint takes for its own.          *)
THEOREM PagesAgree ==
  ASSUME PageSizes, MaxPageCrashes = 0
  PROVE  Res!Spec => [](Res!CheckpointsAgree /\ Res!ServedIsRight /\ Res!SummariesAreServed)
<1>1. Res!Init => LatestInv /\ EndingFits /\ AgreeInv
  BY LatestInit, AgreeInit, EndingInit
<1>2. LatestInv /\ EndingFits /\ AgreeInv /\ [Res!Next]_(Res!vars) => LatestInv' /\ EndingFits' /\ AgreeInv'
  BY LatestStep, EndingStep, AgreeStep
<1>3. LatestInv /\ AgreeInv => Res!CheckpointsAgree /\ Res!ServedIsRight /\ Res!SummariesAreServed
  <2> SUFFICES ASSUME LatestInv, AgreeInv
               PROVE  Res!CheckpointsAgree /\ Res!ServedIsRight /\ Res!SummariesAreServed
    OBVIOUS
  <2>1. Res!CheckpointsAgree
    BY TruthIs DEF AgreeInv, StoredIsTrue, Res!CheckpointsAgree
  <2>2. Res!ServedIsRight
    BY TruthIs DEF AgreeInv, AnswersAreTrue, LeadsTo, Res!ServedIsRight
  <2>3. Res!SummariesAreServed
    BY TruthIs, VBlockLeads DEF AgreeInv, Res!Summaries, Res!SummariesAreServed
  <2> QED BY <2>1, <2>2, <2>3
<1> QED BY <1>1, <1>2, <1>3, PTL DEF Res!Spec

-----------------------------------------------------------------------------
(***************************************************************************)
(* Putting and linking the blocks of a cycle, for every configuration that *)
(* checkConfig accepts, every number of blocks, both blockchains and any   *)
(* number of crashes.                                                      *)
(***************************************************************************)
CONSTANTS V4, LastRequired, MaxPutCrashes
VARIABLES linked, st, lastSt, required, pc, range, digests, io, ppq, pp, ppUpper, ppMax,
          aborted, putCrashes

Put == INSTANCE BlockCommit WITH
  Last <- LastRequired, MaxCrashes <- MaxPutCrashes,
  first <- required, fetch <- range, rvb <- digests, crashes <- putCrashes

PutSizes ==
  /\ V4 \in BOOLEAN /\ LastRequired \in Nat \ {0}
  /\ MaxPutCrashes \in Nat

(* Block b is in one of the two chains, now and after a step. *)
Here(b) == b <= linked \/ b \in st
HereNext(b) == b <= linked' \/ b \in st'

(***************************************************************************)
(* The parts of the inductive invariant                                    *)
(***************************************************************************)
Numbers == 0..LastRequired
Blocks == 1..LastRequired
Ranges == [min : Blocks, max : Blocks, next : Blocks, digest : {0}]
Puts == [b : Blocks, at : {"queued", "written", "bigger", "done"}]

PutTyped ==
  /\ ConfigChecks
  /\ linked \in Numbers /\ st \subseteq Blocks /\ lastSt \in Numbers /\ required \in Numbers
  /\ pc \in {"fetch", "drain", "txn", "wait", "link", "end", "pages"}
  /\ range \in Ranges /\ range.min <= range.next /\ range.next <= range.max
  /\ io \in Seq(Puts) /\ Len(io) <= ChunksInBatch
  /\ ppq \in Seq(Numbers) /\ pp \in Numbers /\ ppMax \in Numbers /\ ppUpper \in Numbers
  /\ putCrashes \in Nat

(* What the data store says, and the batch in memory, fit the stage. *)
RangeFits ==
  /\ pc \in {"fetch", "drain", "txn", "wait"} => required = range.min
  /\ pc \in {"drain", "txn"} => range.max < LastRequired
  /\ pc = "wait" => range.max = LastRequired /\ range.next = range.min
  /\ required = 0 => pc = "pages"
  /\ pc \notin {"fetch", "drain"} => io = <<>>

(* The blocks of this batch, or of the cycle at its end, that were handed  *)
(* to the workers                                                          *)
HandedOver ==
  CASE pc \in {"fetch", "wait"} -> range.next + 1..range.max
    [] pc \in {"drain", "txn"} -> range.min..range.max
    [] OTHER -> Blocks

(* They are in a chain, or a job for them waits in the pool. *)
NoneIsLost ==
  \A b \in HandedOver : Here(b) \/ \E i \in 1..Len(io) : io[i].b = b /\ io[i].at = "queued"

(* What a worker has written stays. *)
WrittenIsHere == \A i \in 1..Len(io) : io[i].at # "queued" => Here(io[i].b)

PutInv == PutTyped /\ RangeFits /\ NoneIsLost /\ WrittenIsHere /\ Put!RequiredIsMissing

(***************************************************************************)
(* Batches, sets of blocks and the pool                                    *)
(***************************************************************************)
LEMMA PutConfig == Put!ConfigChecks <=> ConfigChecks
BY DEF Put!ConfigChecks, ConfigChecks

LEMMA PutCardinality == \A S : Put!Cardinality(S) = Cardinality(S)
BY DEF Put!Cardinality, Cardinality

(* The batches are those of the destination. *)
LEMMA PutBatch ==
  ASSUME ConfigChecks, NEW min \in Blocks, NEW groups, LastRequired \in Nat
  PROVE  \E max \in Blocks :
           /\ min <= max
           /\ Put!NextBatch(min, LastRequired, groups)
                = [min |-> min, max |-> max, next |-> max, digest |-> 0]
<1>1. \A b : Put!PrevRvb(b) = PrevRvb(b) /\ Put!NextRvb(b) = NextRvb(b) /\ Put!GroupOf(b) = GroupOf(b)
  BY DEF Put!PrevRvb, PrevRvb, Put!NextRvb, NextRvb, Put!IsRvb, IsRvb, Put!GroupOf, GroupOf
<1>2. \A a, b : Put!AtMost(a, b) = AtMost(a, b)
  BY DEF Put!AtMost, AtMost
<1>3. \A from, to : Put!Groups(from, to) = Groups(from, to)
  BY <1>1 DEF Put!Groups, Groups
<1>4. Put!Stored(groups) = Stored(groups)
  BY DEF Put!Stored, Stored
<1>5. \A from, to : Put!GroupNeeded(from, to, groups) = GroupNeeded(from, to, groups)
  <2> TAKE from, to
  <2> DEFINE Least(S) == CHOOSE g \in S : \A h \in S : g <= h
             A == Groups(from, to) \ Stored(groups)
             B == Put!Groups(from, to) \ Put!Stored(groups)
  <2>1. A = B
    BY <1>3, <1>4
  <2>2. GroupNeeded(from, to, groups) = IF A = {} THEN 0 ELSE Least(A)
    BY DEF GroupNeeded
  <2>3. Put!GroupNeeded(from, to, groups) = IF B = {} THEN 0 ELSE Least(B)
    BY DEF Put!GroupNeeded
  <2> HIDE DEF Least, A, B
  <2> QED BY <2>1, <2>2, <2>3
<1>6. \A from, to, last1 : Put!GroupBound(from, to, groups, last1) = GroupBound(from, to, groups, last1)
  BY <1>1, <1>3, <1>5, PutCardinality DEF Put!GroupBound, GroupBound
<1>7. Put!NextBatch(min, LastRequired, groups) = NextBatch(min, LastRequired, groups)
  BY <1>1, <1>2, <1>6 DEF Put!NextBatch, NextBatch
<1>8. min \in Nat \ {0} /\ min <= LastRequired
  BY DEF Blocks
<1>9. PICK max \in min..LastRequired :
        NextBatch(min, LastRequired, groups) = [min |-> min, max |-> max, next |-> max, digest |-> 0]
  BY <1>8, NextBatchFacts
<1> QED BY <1>7, <1>8, <1>9 DEF Blocks

LEMMA GreatestIs ==
  ASSUME NEW m \in Nat, NEW S \in SUBSET (0..m), S # {}
  PROVE  Put!Greatest(S) \in S /\ \A y \in S : y <= Put!Greatest(S)
<1> DEFINE D == {k \in 0..m : m - k \in S}
<1>1. D \in SUBSET Nat /\ D # {}
  <2>1. PICK x \in S : TRUE
    OBVIOUS
  <2>2. x \in 0..m
    BY <2>1
  <2>3. m - x \in 0..m /\ m - (m - x) = x
    BY <2>2
  <2>4. m - x \in D
    BY <2>1, <2>3
  <2>5. D \subseteq Nat
    OBVIOUS
  <2> HIDE DEF D
  <2> QED BY <2>4, <2>5
<1>2. PICK d \in D : \A e \in D : d <= e
  BY <1>1, LeastNat
<1>3. \A y \in S : y <= m - d
  <2> TAKE y \in S
  <2>1. m - y \in D
    <3>1. y \in 0..m
      OBVIOUS
    <3>2. m - y \in 0..m /\ m - (m - y) = y
      BY <3>1
    <3> QED BY <3>2
  <2>2. d <= m - y
    BY <1>2, <2>1
  <2> QED BY <2>2
<1>4. \E x \in S : \A y \in S : y <= x
  BY <1>2, <1>3
<1> QED BY <1>4 DEF Put!Greatest

LEMMA GreatestNumber ==
  ASSUME NEW m \in Nat, NEW S \in SUBSET (0..m)
  PROVE  Put!Greatest(S) \in 0..m
<1>1. CASE S = {}
  BY <1>1 DEF Put!Greatest
<1>2. CASE S # {}
  BY <1>2, GreatestIs
<1> QED BY <1>1, <1>2

(* finalizePutblockAsync drops jobs at the front that are done. *)
LEMMA UnfinishedIs ==
  ASSUME PutTyped
  PROVE  \E n \in 0..Len(io) :
           /\ Put!Unfinished \in Seq(Puts) /\ Len(Put!Unfinished) = Len(io) - n
           /\ \A i \in 1..n : io[i].at = "done"
           /\ \A i \in 1..Len(io) - n : Put!Unfinished[i] = io[i + n]
           /\ Len(io) > 0 /\ io[1].at = "done" => n > 0
<1> DEFINE N == {k \in 0..Len(io) : \A i \in 1..k : io[i].at = "done"}
           n == Put!Greatest(N)
<1>0. io \in Seq(Puts) /\ Len(io) \in Nat
  BY DEF PutTyped
<1>1. n \in N /\ \A k \in N : k <= n
  <2>1. 0 \in N
    BY <1>0
  <2>2. N \in SUBSET (0..Len(io))
    OBVIOUS
  <2> HIDE DEF N
  <2> QED BY <1>0, <2>1, <2>2, GreatestIs
<1>2. Put!Unfinished = SubSeq(io, 1 + n, Len(io))
  BY DEF Put!Unfinished
<1>3. n \in 0..Len(io) /\ \A i \in 1..n : io[i].at = "done"
  <2> HIDE DEF n
  <2> QED BY <1>1
<1>4. Len(io) > 0 /\ io[1].at = "done" => n > 0
  <2> SUFFICES ASSUME Len(io) > 0, io[1].at = "done" PROVE n > 0
    OBVIOUS
  <2>1. 1 \in N
    <3>1. \A i \in 1..1 : io[i].at = "done"
      OBVIOUS
    <3> QED BY <1>0, <3>1
  <2> HIDE DEF n
  <2> QED BY <1>0, <1>1, <1>3, <2>1
<1> HIDE DEF n
<1>5. /\ SubSeq(io, 1 + n, Len(io)) \in Seq(Puts)
      /\ Len(SubSeq(io, 1 + n, Len(io))) = Len(io) - n
      /\ \A i \in 1..Len(io) - n : SubSeq(io, 1 + n, Len(io))[i] = io[i + n]
  <2>1. \A i \in 1 + n..Len(io) : io[i] \in Puts
    BY <1>0, <1>3
  <2>2. 1 + n \in Int /\ Len(io) \in Int
    BY <1>0, <1>3
  <2> DEFINE u == SubSeq(io, 1 + n, Len(io))
  <2>3. /\ u \in Seq(Puts)
        /\ Len(u) = IF 1 + n <= Len(io) THEN Len(io) - (1 + n) + 1 ELSE 0
        /\ \A i \in 1..Len(io) - (1 + n) + 1 : u[i] = io[(1 + n) + i - 1]
    BY <2>1, <2>2, SubSeqProperties
  <2> HIDE DEF u
  <2>4. Len(u) = Len(io) - n
    BY <1>0, <1>3, <2>3
  <2>5. \A i \in 1..Len(io) - n : u[i] = io[i + n]
    <3> TAKE i \in 1..Len(io) - n
    <3>1. i \in 1..Len(io) - (1 + n) + 1 /\ (1 + n) + i - 1 = i + n
      BY <1>0, <1>3
    <3> QED BY <2>3, <3>1
  <2> QED BY <2>3, <2>4, <2>5 DEF u
<1> QED BY <1>2, <1>3, <1>4, <1>5

(***************************************************************************)
(* Every step keeps the invariant                                          *)
(***************************************************************************)
LEMMA PutShapes ==
  ASSUME PutSizes, PutInv
  PROVE  /\ LastRequired \in Nat /\ Blocks \subseteq Nat /\ Numbers \subseteq Nat /\ Blocks \subseteq Numbers
         /\ linked \in Nat /\ lastSt \in Nat /\ required \in Nat /\ st \subseteq Blocks
         /\ range.min \in Blocks /\ range.max \in Blocks /\ range.next \in Blocks
         /\ range = [min |-> range.min, max |-> range.max, next |-> range.next, digest |-> 0]
         /\ io \in Seq(Puts) /\ Len(io) \in Nat
         /\ \A i \in 1..Len(io) : io[i] \in Puts /\ io[i].b \in Blocks /\ io[i].b \in Nat
<1>1. LastRequired \in Nat /\ Blocks \subseteq Nat /\ Numbers \subseteq Nat /\ Blocks \subseteq Numbers
  BY DEF PutSizes, Blocks, Numbers
<1>2. linked \in Nat /\ lastSt \in Nat /\ required \in Nat /\ st \subseteq Blocks
  BY <1>1 DEF PutInv, PutTyped
<1>3. range \in Ranges /\ io \in Seq(Puts)
  BY DEF PutInv, PutTyped
<1>4. /\ range.min \in Blocks /\ range.max \in Blocks /\ range.next \in Blocks
      /\ range = [min |-> range.min, max |-> range.max, next |-> range.next, digest |-> 0]
  BY <1>3 DEF Ranges
<1>5. \A i \in 1..Len(io) : io[i] \in Puts
  BY <1>3
<1>6. \A p \in Puts : p.b \in Blocks
  BY DEF Puts
<1>7. Len(io) \in Nat
  BY <1>3
<1> HIDE DEF Blocks, Numbers
<1> QED BY <1>1, <1>2, <1>3, <1>4, <1>5, <1>6, <1>7

(* Linking the next block takes it from one chain to the other. *)
LEMMA LinkKeepsBlocks ==
  ASSUME PutSizes, PutInv, linked + 1 \in st, linked' = linked + 1, st' = st \ {linked + 1}
  PROVE  /\ linked' \in Numbers /\ st' \subseteq Blocks
         /\ \A b \in Nat : Here(b) => HereNext(b)
         /\ \A b \in st' : b > linked'
<1>1. linked \in Nat /\ st \subseteq Blocks /\ linked + 1 \in Blocks
  BY DEF PutInv, PutTyped, Numbers
<1>2. \A b \in st : b > linked /\ b \in Nat
  BY <1>1 DEF PutInv, Put!RequiredIsMissing, Blocks
<1> QED BY <1>1, <1>2 DEF PutSizes, Here, HereNext, Numbers, Blocks

(* A step that leaves the batch alone and loses no block keeps the rest. *)
LEMMA BlocksStay ==
  ASSUME PutSizes, PutInv, UNCHANGED <<required, pc, range, io>>,
         \A b \in Nat : Here(b) => HereNext(b), \A b \in st' : b > linked'
  PROVE  RangeFits' /\ NoneIsLost' /\ WrittenIsHere' /\ Put!RequiredIsMissing'
<1>0. LastRequired \in Nat /\ required \in Nat /\ range \in Ranges /\ io \in Seq(Puts)
      /\ Blocks \subseteq Nat
  BY DEF PutSizes, PutInv, PutTyped, Numbers, Blocks
<1>1. RangeFits'
  BY DEF PutInv, RangeFits
<1>2. HandedOver' = HandedOver /\ HandedOver \subseteq Nat
  BY <1>0 DEF HandedOver, Ranges
<1>3. NoneIsLost'
  BY <1>2 DEF PutInv, NoneIsLost, Here, HereNext
<1>4. WrittenIsHere'
  BY PutShapes DEF PutInv, WrittenIsHere, Here, HereNext
<1>5. Put!RequiredIsMissing'
  <2>1. \A b \in 1..(IF required = 0 THEN LastRequired ELSE required - 1) : b \in Nat /\ Here(b)
    BY <1>0 DEF PutInv, Put!RequiredIsMissing, Here
  <2> QED BY <2>1 DEF Put!RequiredIsMissing, Here, HereNext
<1> QED BY <1>1, <1>3, <1>4, <1>5

LEMMA PutInit == ASSUME PutSizes, Put!Init PROVE PutInv
<1>1. /\ linked = 0 /\ st = {} /\ lastSt = 0 /\ required = 1 /\ pc = "fetch" /\ io = <<>>
      /\ ppq = <<>> /\ pp = 0 /\ ppUpper = 0 /\ ppMax = 0 /\ putCrashes = 0
      /\ range = Put!NextBatch(1, LastRequired, <<>>) /\ ConfigChecks
  BY PutConfig DEF Put!Init
<1>2. LastRequired \in Nat /\ 1 \in Blocks /\ Blocks \subseteq Nat
  BY DEF PutSizes, Blocks
<1>3. PICK max \in Blocks : 1 <= max /\ range = [min |-> 1, max |-> max, next |-> max, digest |-> 0]
  BY <1>1, <1>2, PutBatch
<1>4. PutTyped
  BY <1>1, <1>2, <1>3 DEF PutSizes, PutTyped, ConfigChecks, Numbers, Ranges
<1>5. RangeFits
  BY <1>1, <1>3 DEF RangeFits
<1>6. HandedOver = {}
  BY <1>1, <1>2, <1>3 DEF HandedOver
<1> QED BY <1>1, <1>2, <1>4, <1>5, <1>6 DEF PutInv, NoneIsLost, WrittenIsHere, Put!RequiredIsMissing

(* A worker writes a block that no chain has. *)
LEMMA WorkerWritesStep ==
  ASSUME PutSizes, PutInv, NEW i \in 1..Len(io), Put!WorkerWrites(i)
  PROVE  PutInv'
<1> DEFINE b == io[i].b
           at == IF Put!HaveBlock(b) THEN "done" ELSE "written"
<1>0. /\ io \in Seq(Puts) /\ io[i] \in Puts /\ b \in Blocks /\ Blocks \subseteq Nat
      /\ st \subseteq Blocks /\ linked \in Nat /\ Len(io) \in Nat
  BY PutShapes
<1>1. /\ io' = [io EXCEPT ![i].at = at] /\ io[i].at = "queued"
      /\ st' = IF Put!HaveBlock(b) THEN st ELSE st \cup {b}
      /\ UNCHANGED <<linked, lastSt, required, pc, range, digests, ppq, pp, ppUpper, ppMax, putCrashes>>
  BY DEF Put!WorkerWrites, Put!Finish
<1>2. Put!HaveBlock(b) => Here(b)
  BY DEF Put!HaveBlock, Put!InStChain, Here
<1>3. ~Put!HaveBlock(b) => b > linked
  <2>1. b \in Nat
    BY <1>0
  <2> HIDE DEF b
  <2> QED BY <1>0, <2>1 DEF Put!HaveBlock
<1>4. /\ io' \in Seq(Puts) /\ Len(io') = Len(io)
      /\ \A j \in 1..Len(io) : io'[j] = IF j = i THEN [io[i] EXCEPT !.at = at] ELSE io[j]
  <2>1. [io[i] EXCEPT !.at = at] \in Puts
    BY <1>0 DEF Puts
  <2>2. io' = [io EXCEPT ![i] = [io[i] EXCEPT !.at = at]]
    BY <1>1
  <2> HIDE DEF at
  <2> QED BY <1>0, <2>1, <2>2
<1>5. [io[i] EXCEPT !.at = at].b = b /\ [io[i] EXCEPT !.at = at].at = at /\ at # "queued"
  BY <1>0 DEF Puts
<1>6. (\A x \in Nat : Here(x) => HereNext(x)) /\ HereNext(b)
  BY <1>0, <1>1, <1>2 DEF Here, HereNext
<1>7. \A x \in st' : x > linked'
  BY <1>0, <1>1, <1>3 DEF PutInv, Put!RequiredIsMissing
<1> HIDE DEF b, at
<1>8. PutTyped'
  <2>1. st' \subseteq Blocks
    BY <1>0, <1>1
  <2> QED BY <1>1, <1>4, <2>1 DEF PutInv, PutTyped
<1>9. RangeFits'
  <2>1. io # <<>>
    BY <1>0
  <2>2. pc \in {"fetch", "drain"}
    BY <2>1 DEF PutInv, RangeFits
  <2> QED BY <1>1, <2>2 DEF PutInv, RangeFits
<1>10. NoneIsLost'
  <2>1. HandedOver' = HandedOver /\ HandedOver \subseteq Nat
    BY <1>0, <1>1 DEF HandedOver, PutInv, PutTyped, Ranges
  <2> SUFFICES ASSUME NEW x \in HandedOver
               PROVE  HereNext(x) \/ \E j \in 1..Len(io') : io'[j].b = x /\ io'[j].at = "queued"
    BY <2>1 DEF NoneIsLost, Here, HereNext
  <2>2. CASE Here(x)
    BY <1>6, <2>1, <2>2
  <2>3. CASE \E j \in 1..Len(io) : io[j].b = x /\ io[j].at = "queued"
    <3>1. PICK j \in 1..Len(io) : io[j].b = x /\ io[j].at = "queued"
      BY <2>3
    <3>2. CASE j = i
      BY <1>6, <3>1, <3>2 DEF b
    <3>3. CASE j # i
      BY <1>4, <3>1, <3>3
    <3> QED BY <3>2, <3>3
  <2> QED BY <2>2, <2>3 DEF PutInv, NoneIsLost
<1>11. WrittenIsHere'
  <2> SUFFICES ASSUME NEW j \in 1..Len(io), io'[j].at # "queued" PROVE HereNext(io'[j].b)
    BY <1>4 DEF WrittenIsHere, Here, HereNext
  <2>1. CASE j = i
    BY <1>4, <1>5, <1>6, <2>1
  <2>2. CASE j # i
    <3>1. io'[j] = io[j] /\ io[j].b \in Nat
      BY PutShapes, <1>4, <2>2
    <3> QED BY <1>6, <3>1 DEF PutInv, WrittenIsHere
  <2> QED BY <2>1, <2>2
<1>12. Put!RequiredIsMissing'
  <2>1. LastRequired \in Nat /\ required \in Nat
    BY DEF PutSizes, PutInv, PutTyped, Numbers
  <2>2. \A x \in 1..(IF required = 0 THEN LastRequired ELSE required - 1) : x \in Nat /\ Here(x)
    BY <2>1 DEF PutInv, Put!RequiredIsMissing, Here
  <2> QED BY <1>1, <1>6, <1>7, <2>2 DEF Put!RequiredIsMissing, Here, HereNext
<1> QED BY <1>8, <1>9, <1>10, <1>11, <1>12 DEF PutInv

(* A worker announces a block it has written. *)
LEMMA AnnounceStep ==
  ASSUME PutSizes, PutInv, NEW i \in 1..Len(io), NEW a \in {"bigger", "done"},
         io[i].at # "queued", io' = [io EXCEPT ![i].at = a], lastSt' \in Numbers,
         UNCHANGED <<linked, st, required, pc, range, ppq, pp, ppUpper, ppMax, putCrashes>>
  PROVE  PutInv'
<1>0. io \in Seq(Puts) /\ io[i] \in Puts /\ Len(io) \in Nat
  BY PutShapes
<1>1. [io[i] EXCEPT !.at = a] \in Puts /\ [io[i] EXCEPT !.at = a].b = io[i].b
      /\ [io[i] EXCEPT !.at = a].at = a
  BY <1>0 DEF Puts
<1>2. /\ io' \in Seq(Puts) /\ Len(io') = Len(io)
      /\ \A j \in 1..Len(io) : io'[j] = IF j = i THEN [io[i] EXCEPT !.at = a] ELSE io[j]
  <2>1. io' = [io EXCEPT ![i] = [io[i] EXCEPT !.at = a]]
    OBVIOUS
  <2> QED BY <1>0, <1>1, <2>1
<1>3. \A j \in 1..Len(io) : io'[j].b = io[j].b /\ (io'[j].at = "queued" <=> io[j].at = "queued")
  BY <1>1, <1>2
<1>4. PutTyped'
  BY <1>2 DEF PutInv, PutTyped
<1>5. RangeFits'
  <2>1. io # <<>>
    BY <1>0
  <2>2. pc \in {"fetch", "drain"}
    BY <2>1 DEF PutInv, RangeFits
  <2> QED BY <2>2 DEF PutInv, RangeFits
<1>6. HandedOver' = HandedOver
  BY DEF HandedOver
<1>7. NoneIsLost'
  BY <1>2, <1>3, <1>6 DEF PutInv, NoneIsLost, Here
<1>8. WrittenIsHere'
  BY <1>2, <1>3 DEF PutInv, WrittenIsHere, Here
<1>9. Put!RequiredIsMissing'
  BY DEF PutInv, Put!RequiredIsMissing
<1> QED BY <1>4, <1>5, <1>7, <1>8, <1>9 DEF PutInv

LEMMA WorkStep ==
  ASSUME PutSizes, PutInv, NEW i \in 1..Len(io), Put!Work(i)
  PROVE  PutInv'
<1>0. io[i].b \in Numbers /\ lastSt \in Numbers
  BY PutShapes DEF PutInv, PutTyped
<1>1. CASE Put!WorkerWrites(i)
  BY <1>1, WorkerWritesStep
<1>2. CASE Put!WorkerCompares(i)
  <2>1. /\ io[i].at = "written" /\ lastSt' \in {lastSt, io[i].b}
        /\ \E a \in {"bigger", "done"} : io' = [io EXCEPT ![i].at = a]
        /\ UNCHANGED <<linked, st, required, pc, range, ppq, pp, ppUpper, ppMax, putCrashes>>
    BY <1>2 DEF Put!WorkerCompares, Put!Finish
  <2>2. PICK a \in {"bigger", "done"} : io' = [io EXCEPT ![i].at = a]
    BY <2>1
  <2>3. lastSt' \in Numbers /\ io[i].at # "queued"
    BY <1>0, <2>1
  <2> QED BY <2>1, <2>2, <2>3, AnnounceStep
<1>3. CASE Put!WorkerStores(i)
  <2>1. /\ io[i].at = "bigger" /\ lastSt' = io[i].b /\ io' = [io EXCEPT ![i].at = "done"]
        /\ UNCHANGED <<linked, st, required, pc, range, ppq, pp, ppUpper, ppMax, putCrashes>>
    BY <1>3 DEF Put!WorkerStores, Put!Finish
  <2>2. lastSt' \in Numbers /\ io[i].at # "queued"
    BY <1>0, <2>1
  <2> QED BY <2>1, <2>2, AnnounceStep
<1> QED BY <1>1, <1>2, <1>3 DEF Put!Work

(* A block of the batch is handed to the pool. *)
LEMMA PutAsyncStep ==
  ASSUME PutSizes, PutInv, Put!PutAsync
  PROVE  PutInv'
<1> DEFINE new == [b |-> range.next, at |-> "queued"]
           u == Put!Unfinished
<1>0. /\ pc = "fetch" /\ ~Put!LastInCycle(range.next) /\ (Len(io) = ChunksInBatch => io[1].at = "done")
      /\ io' = Append(u, new)
      /\ IF range.next = range.min THEN pc' = "drain" /\ UNCHANGED range
         ELSE range' = [range EXCEPT !.next = @ - 1] /\ UNCHANGED pc
      /\ UNCHANGED <<linked, st, lastSt, required, ppq, pp, ppUpper, ppMax, putCrashes>>
  BY DEF Put!PutAsync, Put!PoolSize
<1>s. /\ LastRequired \in Nat /\ Blocks \subseteq Nat
      /\ range.min \in Blocks /\ range.max \in Blocks /\ range.next \in Blocks
      /\ range = [min |-> range.min, max |-> range.max, next |-> range.next, digest |-> 0]
      /\ io \in Seq(Puts) /\ Len(io) \in Nat
  BY PutShapes
<1>1. PICK n \in 0..Len(io) :
           /\ u \in Seq(Puts) /\ Len(u) = Len(io) - n
           /\ \A i \in 1..n : io[i].at = "done"
           /\ \A i \in 1..Len(io) - n : u[i] = io[i + n]
           /\ Len(io) > 0 /\ io[1].at = "done" => n > 0
  BY UnfinishedIs DEF PutInv
<1> HIDE DEF u
<1>2. new \in Puts /\ new.b = range.next /\ new.at = "queued"
  BY <1>s DEF Puts
<1> HIDE DEF new
<1>3. /\ io' \in Seq(Puts) /\ Len(io') = Len(io) - n + 1 /\ io'[Len(io) - n + 1] = new
      /\ \A i \in 1..Len(io) - n : io'[i] = io[i + n]
  BY <1>0, <1>1, <1>2, <1>s
<1>4. Len(io') <= ChunksInBatch
  <2>1. ChunksInBatch \in Nat \ {0} /\ Len(io) <= ChunksInBatch
    BY DEF PutInv, PutTyped, ConfigChecks
  <2>2. CASE Len(io) = ChunksInBatch
    BY <1>0, <1>1, <1>3, <2>1, <2>2
  <2>3. CASE Len(io) < ChunksInBatch
    BY <1>1, <1>3, <1>s, <2>1, <2>3
  <2> QED BY <1>s, <2>1, <2>2, <2>3
<1>5. /\ range.min <= range.next /\ range.next <= range.max
      /\ range.min \in Nat /\ range.max \in Nat /\ range.next \in Nat /\ required = range.min
      /\ range.min # 0
  BY <1>0, <1>s DEF PutInv, PutTyped, RangeFits, Blocks
<1>6. \/ pc' = "drain" /\ range' = range /\ range.next = range.min /\ range.max < LastRequired
      \/ /\ pc' = "fetch" /\ range.next - 1 \in Blocks /\ range.min <= range.next - 1
         /\ range' = [min |-> range.min, max |-> range.max, next |-> range.next - 1, digest |-> 0]
  <2>1. CASE range.next = range.min
    <3>1. range.max # LastRequired /\ range.max <= LastRequired
      BY <1>0, <1>s, <2>1 DEF Put!LastInCycle, Blocks
    <3> QED BY <1>0, <1>5, <1>s, <2>1, <3>1
  <2>2. CASE range.next # range.min
    <3>1. range.next - 1 \in Blocks /\ range.min <= range.next - 1
      BY <1>5, <1>s, <2>2 DEF Blocks
    <3> QED BY <1>0, <1>s, <2>2, <3>1
  <2> QED BY <2>1, <2>2
<1>7. PutTyped'
  <2>1. range' \in Ranges /\ range'.min <= range'.next /\ range'.next <= range'.max
    BY <1>5, <1>6, <1>s DEF Ranges
  <2> QED BY <1>0, <1>3, <1>4, <1>6, <2>1 DEF PutInv, PutTyped
<1>8. RangeFits'
  BY <1>0, <1>5, <1>6 DEF PutInv, RangeFits
<1>9. NoneIsLost'
  <2>1. HandedOver' = HandedOver \cup {range.next}
    BY <1>0, <1>5, <1>6 DEF HandedOver
  <2>2. \E j \in 1..Len(io') : io'[j].b = range.next /\ io'[j].at = "queued"
    BY <1>1, <1>2, <1>3, <1>s
  <2>3. ASSUME NEW x \in HandedOver, ~Here(x)
        PROVE  \E j \in 1..Len(io') : io'[j].b = x /\ io'[j].at = "queued"
    <3>1. PICK k \in 1..Len(io) : io[k].b = x /\ io[k].at = "queued"
      BY <2>3 DEF PutInv, NoneIsLost
    <3>2. k > n
      BY <1>1, <1>s, <3>1
    <3>3. k - n \in 1..Len(io) - n /\ (k - n) + n = k
      BY <1>1, <1>s, <3>1, <3>2
    <3>4. k - n \in 1..Len(io') /\ io'[k - n] = io[k]
      BY <1>1, <1>3, <1>s, <3>3
    <3> QED BY <3>1, <3>4
  <2>4. \A x : HereNext(x) <=> Here(x)
    BY <1>0 DEF Here, HereNext
  <2> QED BY <2>1, <2>2, <2>3, <2>4 DEF NoneIsLost, Here, HereNext
<1>10. WrittenIsHere'
  <2>1. ASSUME NEW j \in 1..Len(io'), io'[j].at # "queued" PROVE HereNext(io'[j].b)
    <3>1. j # Len(io) - n + 1
      BY <1>2, <1>3, <2>1
    <3>2. j \in 1..Len(io) - n /\ j + n \in 1..Len(io)
      BY <1>1, <1>3, <1>s, <3>1
    <3>3. io'[j] = io[j + n]
      BY <1>3, <3>2
    <3> QED BY <1>0, <2>1, <3>2, <3>3 DEF PutInv, WrittenIsHere, Here, HereNext
  <2> QED BY <2>1 DEF WrittenIsHere, Here, HereNext
<1>11. Put!RequiredIsMissing'
  BY <1>0 DEF PutInv, Put!RequiredIsMissing
<1> QED BY <1>7, <1>8, <1>9, <1>10, <1>11 DEF PutInv

(* When the pool is empty, all that was handed over is in a chain. *)
LEMMA AllDoneHere ==
  ASSUME PutInv, Put!AllDone
  PROVE  \A b \in HandedOver : Here(b)
BY DEF PutInv, NoneIsLost, Put!AllDone

LEMMA DrainStep ==
  ASSUME PutSizes, PutInv, Put!Drain
  PROVE  PutInv'
<1>0. /\ pc = "drain" /\ Put!AllDone /\ io' = <<>> /\ ppq' = Append(ppq, range.max)
      /\ ppUpper' = range.max /\ pc' = "txn"
      /\ UNCHANGED <<linked, st, lastSt, required, range, pp, ppMax, putCrashes>>
  BY DEF Put!Drain
<1>1. range.max \in Numbers /\ ppq \in Seq(Numbers)
  BY PutShapes DEF PutInv, PutTyped
<1>2. ppq' \in Seq(Numbers) /\ io' \in Seq(Puts) /\ Len(io') = 0 /\ Len(io') <= ChunksInBatch
  BY <1>0, <1>1 DEF PutInv, PutTyped, ConfigChecks
<1>3. PutTyped'
  BY <1>0, <1>1, <1>2 DEF PutInv, PutTyped
<1>4. RangeFits'
  BY <1>0 DEF PutInv, RangeFits
<1>5. HandedOver' = HandedOver
  BY <1>0 DEF HandedOver
<1>6. NoneIsLost'
  BY <1>0, <1>5, AllDoneHere DEF NoneIsLost, Here
<1>7. WrittenIsHere'
  BY <1>2 DEF WrittenIsHere
<1>8. Put!RequiredIsMissing'
  BY <1>0 DEF PutInv, Put!RequiredIsMissing
<1> QED BY <1>3, <1>4, <1>6, <1>7, <1>8 DEF PutInv

(* The data store counts a batch as there when all its blocks are. *)
LEMMA CommitTxnStep ==
  ASSUME PutSizes, PutInv, Put!CommitTxn
  PROVE  PutInv'
<1>0. /\ pc = "txn" /\ required' = range.max + 1 /\ pc' = "fetch"
      /\ range' = Put!NextBatch(range.max + 1, LastRequired, digests)
      /\ UNCHANGED <<linked, st, lastSt, io, ppq, pp, ppUpper, ppMax, putCrashes>>
  BY DEF Put!CommitTxn
<1>1. /\ LastRequired \in Nat /\ Blocks \subseteq Nat /\ linked \in Nat
      /\ range.min \in Blocks /\ range.max \in Blocks /\ range.next \in Blocks
      /\ required = range.min /\ range.max < LastRequired /\ io = <<>> /\ ConfigChecks
  BY <1>0, PutShapes DEF PutInv, PutTyped, RangeFits
<1>2. range.max + 1 \in Blocks
  BY <1>1 DEF Blocks
<1>3. PICK max \in Blocks :
        range.max + 1 <= max /\ range' = [min |-> range.max + 1, max |-> max, next |-> max, digest |-> 0]
  BY <1>0, <1>1, <1>2, PutBatch
<1>4. PutTyped'
  <2>1. range' \in Ranges /\ range'.min <= range'.next /\ range'.next <= range'.max
    BY <1>1, <1>2, <1>3 DEF Ranges
  <2>2. required' \in Numbers
    BY <1>0, <1>2 DEF Blocks, Numbers
  <2> QED BY <1>0, <2>1, <2>2 DEF PutInv, PutTyped
<1>5. RangeFits'
  BY <1>0, <1>1, <1>2, <1>3 DEF RangeFits, Blocks
<1>6. HandedOver' = {}
  BY <1>0, <1>1, <1>3 DEF HandedOver
<1>7. NoneIsLost' /\ WrittenIsHere'
  BY <1>0, <1>1, <1>6 DEF NoneIsLost, WrittenIsHere
<1>8. \A b \in range.min..range.max : Here(b)
  <2>1. HandedOver = range.min..range.max
    BY <1>0 DEF HandedOver
  <2>2. Put!AllDone
    BY <1>1 DEF Put!AllDone
  <2> QED BY <2>1, <2>2, AllDoneHere
<1>9. Put!RequiredIsMissing'
  <2>1. \A b \in 1..range.min - 1 : Here(b)
    BY <1>1 DEF PutInv, Put!RequiredIsMissing, Here, Blocks
  <2>2. \A b \in 1..range.max : b \in range.min..range.max \/ b \in 1..range.min - 1
    BY <1>1 DEF Blocks
  <2>3. required' # 0 /\ required' - 1 = range.max
    BY <1>0, <1>1, <1>2 DEF Blocks
  <2>4. \A b \in 1..range.max : HereNext(b)
    BY <1>0, <1>8, <2>1, <2>2 DEF Here, HereNext
  <2> QED BY <1>0, <2>3, <2>4 DEF PutInv, Put!RequiredIsMissing, HereNext
<1> QED BY <1>4, <1>5, <1>7, <1>9 DEF PutInv

LEMMA LastBlockStep ==
  ASSUME PutSizes, PutInv, Put!LastBlock
  PROVE  PutInv'
<1>0. /\ pc = "fetch" /\ Put!LastInCycle(range.next) /\ Put!AllDone /\ io' = <<>> /\ pc' = "wait"
      /\ ppq' \in {ppq, Append(ppq, required - 1)}
      /\ UNCHANGED <<linked, st, lastSt, required, range, pp, ppUpper, ppMax, putCrashes>>
  BY DEF Put!LastBlock
<1>1. required = range.min /\ range.min \in Blocks /\ ppq \in Seq(Numbers)
  BY <1>0, PutShapes DEF PutInv, PutTyped, RangeFits
<1>2. required - 1 \in Numbers
  BY <1>1 DEF PutSizes, Numbers, Blocks
<1>3. ppq' \in Seq(Numbers) /\ io' \in Seq(Puts) /\ Len(io') = 0 /\ Len(io') <= ChunksInBatch
  BY <1>0, <1>1, <1>2 DEF PutInv, PutTyped, ConfigChecks
<1>4. PutTyped'
  BY <1>0, <1>3 DEF PutInv, PutTyped
<1>5. RangeFits'
  BY <1>0 DEF PutInv, RangeFits, Put!LastInCycle
<1>6. HandedOver' = HandedOver
  BY <1>0 DEF HandedOver
<1>7. NoneIsLost'
  BY <1>0, <1>6, AllDoneHere DEF NoneIsLost, Here
<1>8. WrittenIsHere'
  BY <1>3 DEF WrittenIsHere
<1>9. Put!RequiredIsMissing'
  BY <1>0 DEF PutInv, Put!RequiredIsMissing
<1> QED BY <1>4, <1>5, <1>7, <1>8, <1>9 DEF PutInv

(* With the last block all blocks of the cycle are there. *)
LEMMA PutLastStep ==
  ASSUME PutSizes, PutInv, Put!PutLast
  PROVE  PutInv'
<1> DEFINE b == range.next
<1>0. /\ pc = "wait"
      /\ \/ Put!HaveBlock(b) /\ pc' = "end" /\ UNCHANGED <<st, lastSt>>
         \/ /\ ~Put!HaveBlock(b) /\ st' = st \cup {b} /\ pc' = "link"
            /\ lastSt' = Put!Greatest({lastSt, b})
      /\ UNCHANGED <<linked, required, range, io, ppq, pp, ppUpper, ppMax, putCrashes>>
  BY DEF Put!PutLast
<1>1. /\ LastRequired \in Nat /\ Blocks \subseteq Nat /\ linked \in Nat /\ st \subseteq Blocks
      /\ range.min \in Blocks /\ range.max = LastRequired /\ b = range.min /\ required = range.min
      /\ io = <<>> /\ lastSt \in Numbers /\ b \in Blocks
  BY <1>0, PutShapes DEF PutInv, PutTyped, RangeFits
<1> HIDE DEF b
<1>2. lastSt' \in Numbers
  <2>1. {lastSt, b} \in SUBSET (0..LastRequired)
    BY <1>1 DEF Numbers, Blocks
  <2>2. Put!Greatest({lastSt, b}) \in 0..LastRequired
    BY <1>1, <2>1, GreatestNumber
  <2> QED BY <1>0, <1>1, <2>2 DEF Numbers
<1>3. HereNext(b) /\ \A x : Here(x) => HereNext(x)
  BY <1>0 DEF Here, HereNext, Put!HaveBlock, Put!InStChain
<1>4. \A x \in st' : x > linked'
  <2>1. \A x \in st : x > linked
    BY DEF PutInv, Put!RequiredIsMissing
  <2>2. ~Put!HaveBlock(b) => b > linked
    <3>1. b \in Nat
      BY <1>1
    <3> QED BY <1>1, <3>1 DEF Put!HaveBlock
  <2> QED BY <1>0, <2>1, <2>2
<1>5. \A x \in Blocks : HereNext(x)
  <2>1. HandedOver = b + 1..LastRequired
    BY <1>0, <1>1 DEF HandedOver, b
  <2>2. \A x \in b + 1..LastRequired : Here(x)
    BY <1>1, <2>1, AllDoneHere DEF Put!AllDone
  <2>3. \A x \in 1..b - 1 : Here(x)
    BY <1>1 DEF PutInv, Put!RequiredIsMissing, Here, Blocks
  <2>4. \A x \in Blocks : x = b \/ x \in 1..b - 1 \/ x \in b + 1..LastRequired
    BY <1>1 DEF Blocks
  <2> QED BY <1>3, <2>2, <2>3, <2>4
<1>6. PutTyped'
  <2>1. st' \subseteq Blocks
    BY <1>0, <1>1
  <2> QED BY <1>0, <1>2, <2>1 DEF PutInv, PutTyped
<1>7. RangeFits'
  BY <1>0, <1>1 DEF RangeFits, Blocks
<1>8. HandedOver' = Blocks
  BY <1>0 DEF HandedOver
<1>9. NoneIsLost' /\ WrittenIsHere'
  BY <1>0, <1>1, <1>5, <1>8 DEF NoneIsLost, WrittenIsHere, Here, HereNext
<1>10. Put!RequiredIsMissing'
  <2>1. \A x \in 1..(IF required = 0 THEN LastRequired ELSE required - 1) : x \in Blocks
    BY <1>1 DEF Blocks
  <2> QED BY <1>0, <1>4, <1>5, <2>1 DEF Put!RequiredIsMissing, HereNext
<1> QED BY <1>6, <1>7, <1>9, <1>10 DEF PutInv

LEMMA LinkStChainStep ==
  ASSUME PutSizes, PutInv, Put!LinkStChain
  PROVE  PutInv'
<1>0. /\ pc = "link"
      /\ UNCHANGED <<required, range, io, ppq, pp, ppUpper, ppMax, putCrashes>>
  BY DEF Put!LinkStChain
<1>1. CASE linked < lastSt /\ linked + 1 \in st
  <2>1. linked' = linked + 1 /\ st' = st \ {linked + 1} /\ UNCHANGED <<lastSt, pc>>
    BY <1>1 DEF Put!LinkStChain
  <2>2. /\ linked' \in Numbers /\ st' \subseteq Blocks
        /\ \A b \in Nat : Here(b) => HereNext(b)
        /\ \A b \in st' : b > linked'
    BY <1>1, <2>1, LinkKeepsBlocks
  <2>3. RangeFits' /\ NoneIsLost' /\ WrittenIsHere' /\ Put!RequiredIsMissing'
    BY <1>0, <2>1, <2>2, BlocksStay
  <2>4. PutTyped'
    BY <1>0, <2>1, <2>2 DEF PutInv, PutTyped
  <2> QED BY <2>3, <2>4 DEF PutInv
<1>2. CASE ~(linked < lastSt /\ linked + 1 \in st)
  <2>1. pc' = "end" /\ lastSt' \in {lastSt, 0} /\ UNCHANGED <<linked, st>>
    BY <1>2 DEF Put!LinkStChain
  <2>2. 0 \in Numbers
    BY DEF PutSizes, Numbers
  <2>3. PutTyped'
    BY <1>0, <2>1, <2>2 DEF PutInv, PutTyped
  <2>4. RangeFits'
    BY <1>0, <2>1 DEF PutInv, RangeFits
  <2>5. HandedOver' = HandedOver
    BY <1>0, <2>1 DEF HandedOver
  <2>6. NoneIsLost' /\ WrittenIsHere' /\ Put!RequiredIsMissing'
    BY <1>0, <2>1, <2>5 DEF PutInv, NoneIsLost, WrittenIsHere, Put!RequiredIsMissing, Here
  <2> QED BY <2>3, <2>4, <2>6 DEF PutInv
<1> QED BY <1>1, <1>2

LEMMA EndOfBlocksStep ==
  ASSUME PutSizes, PutInv, Put!EndOfBlocks
  PROVE  PutInv'
<1>0. /\ pc = "end" /\ required' = 0 /\ pc' = "pages"
      /\ UNCHANGED <<linked, st, lastSt, range, io, ppq, pp, ppUpper, ppMax, putCrashes>>
  BY DEF Put!EndOfBlocks
<1>1. PutTyped'
  BY <1>0 DEF PutInv, PutTyped, PutSizes, Numbers
<1>2. RangeFits' /\ io = <<>>
  BY <1>0 DEF PutInv, RangeFits
<1>3. HandedOver' = HandedOver /\ HandedOver = Blocks
  BY <1>0 DEF HandedOver
<1>4. \A b \in Blocks : Here(b)
  BY <1>2, <1>3, AllDoneHere DEF Put!AllDone
<1>5. NoneIsLost' /\ WrittenIsHere'
  BY <1>0, <1>3 DEF PutInv, NoneIsLost, WrittenIsHere, Here
<1>6. Put!RequiredIsMissing'
  BY <1>0, <1>4 DEF PutInv, Put!RequiredIsMissing, Here, Blocks
<1> QED BY <1>1, <1>2, <1>5, <1>6 DEF PutInv

(* The post-processing thread *)
LEMMA PostProcessStep ==
  ASSUME PutSizes, PutInv, Put!PostProcess
  PROVE  PutInv'
<1>0. /\ UNCHANGED <<linked, st, lastSt, required, pc, range, io, ppUpper, putCrashes>>
      /\ \/ UNCHANGED <<ppq, pp, ppMax>>
         \/ /\ ppq # <<>> /\ ppq' = Tail(ppq)
            /\ pp' \in {pp, Head(ppq)} /\ ppMax' \in {ppMax, Head(ppq)}
  BY DEF Put!PostProcess, Put!Abort
<1>1. ppq \in Seq(Numbers)
  BY DEF PutInv, PutTyped
<1>2. ppq # <<>> => Head(ppq) \in Numbers /\ Tail(ppq) \in Seq(Numbers)
  BY <1>1
<1>3. PutTyped'
  BY <1>0, <1>2 DEF PutInv, PutTyped
<1>4. RangeFits' /\ NoneIsLost' /\ WrittenIsHere' /\ Put!RequiredIsMissing'
  <2>1. (\A b \in Nat : Here(b) => HereNext(b)) /\ \A b \in st' : b > linked'
    BY <1>0 DEF Here, HereNext, PutInv, Put!RequiredIsMissing
  <2> QED BY <1>0, <2>1, BlocksStay
<1> QED BY <1>3, <1>4 DEF PutInv

LEMMA LinkOneStep ==
  ASSUME PutSizes, PutInv, Put!LinkOne
  PROVE  PutInv'
<1>0. UNCHANGED <<lastSt, required, pc, range, io, ppq, ppUpper, putCrashes>>
  BY DEF Put!LinkOne
<1>1. CASE linked < pp /\ linked + 1 \in st
  <2>1. linked' = linked + 1 /\ st' = st \ {linked + 1} /\ UNCHANGED <<pp, ppMax>>
    BY <1>1 DEF Put!LinkOne
  <2>2. /\ linked' \in Numbers /\ st' \subseteq Blocks
        /\ \A b \in Nat : Here(b) => HereNext(b)
        /\ \A b \in st' : b > linked'
    BY <1>1, <2>1, LinkKeepsBlocks
  <2>3. RangeFits' /\ NoneIsLost' /\ WrittenIsHere' /\ Put!RequiredIsMissing'
    BY <1>0, <2>2, BlocksStay
  <2>4. PutTyped'
    BY <1>0, <2>1, <2>2 DEF PutInv, PutTyped
  <2> QED BY <2>3, <2>4 DEF PutInv
<1>2. CASE ~(linked < pp /\ linked + 1 \in st)
  <2>1. ppMax' = pp /\ pp' = 0 /\ UNCHANGED <<linked, st>>
    BY <1>2 DEF Put!LinkOne
  <2>2. PutTyped'
    BY <1>0, <2>1 DEF PutInv, PutTyped, PutSizes, Numbers
  <2>3. (\A b \in Nat : Here(b) => HereNext(b)) /\ \A b \in st' : b > linked'
    BY <2>1 DEF Here, HereNext, PutInv, Put!RequiredIsMissing
  <2>4. RangeFits' /\ NoneIsLost' /\ WrittenIsHere' /\ Put!RequiredIsMissing'
    BY <1>0, <2>3, BlocksStay
  <2> QED BY <2>2, <2>4 DEF PutInv
<1> QED BY <1>1, <1>2

(* After a crash the blocks in a row are linked, and the others stay. *)
LEMMA PutRestartStep ==
  ASSUME PutSizes, PutInv, Put!Restart
  PROVE  PutInv'
<1> DEFINE R == {n \in linked..LastRequired : \A b \in linked + 1..n : b \in st}
           reach == Put!Greatest(R)
           left == st \ (1..reach)
<1>0. /\ linked' = reach /\ st' = left /\ lastSt' = Put!Greatest(left)
      /\ putCrashes' \in {putCrashes, putCrashes + 1}
      /\ required' = IF reach = LastRequired THEN 0 ELSE required
      /\ range' = IF reach = LastRequired THEN range ELSE Put!NextBatch(required, LastRequired, <<>>)
      /\ pc' = IF reach = LastRequired THEN "pages" ELSE "fetch"
      /\ io' = <<>> /\ ppq' = <<>> /\ pp' = 0 /\ ppUpper' = 0 /\ ppMax' = 0
  BY DEF Put!Restart
<1>s. /\ LastRequired \in Nat /\ Blocks \subseteq Nat /\ linked \in Nat /\ linked <= LastRequired
      /\ st \subseteq Blocks /\ required \in Nat /\ required <= LastRequired /\ ConfigChecks
  BY PutShapes DEF PutInv, PutTyped, Numbers
<1>1. reach \in R /\ \A n \in R : n <= reach
  <2>1. R \in SUBSET (0..LastRequired)
    BY <1>s
  <2>2. linked \in R
    BY <1>s
  <2> HIDE DEF R
  <2> QED BY <1>s, <2>1, <2>2, GreatestIs
<1>2. reach \in Nat /\ linked <= reach /\ reach <= LastRequired /\ \A b \in linked + 1..reach : b \in st
  <2> HIDE DEF reach
  <2> QED BY <1>1, <1>s
<1> HIDE DEF reach
<1>3. /\ left \subseteq Blocks /\ \A b \in left : b > reach
      /\ \A b \in Nat : Here(b) => HereNext(b)
  <2>1. \A b \in st : b \in Nat /\ b > 0
    BY <1>s DEF Blocks
  <2> QED BY <1>0, <1>2, <1>s, <2>1 DEF Here, HereNext
<1>4. Put!Greatest(left) \in Numbers
  <2>1. left \in SUBSET (0..LastRequired)
    BY <1>3 DEF Blocks
  <2> HIDE DEF left
  <2> QED BY <1>s, <2>1, GreatestNumber DEF Numbers
<1> HIDE DEF left
<1>5. \A b \in 1..reach : HereNext(b)
  BY <1>0, <1>2 DEF HereNext
(* The data store says that all blocks are there only if they are. *)
<1>6. reach # LastRequired => required \in Blocks
  <2> SUFFICES ASSUME required = 0 PROVE reach = LastRequired
    BY <1>s DEF Blocks
  <2>1. \A b \in 1..LastRequired : b <= linked \/ b \in st
    BY DEF PutInv, Put!RequiredIsMissing
  <2>2. LastRequired \in R
    BY <1>s, <2>1
  <2> QED BY <1>1, <1>2, <1>s, <2>2
<1>7. \/ /\ reach = LastRequired /\ range' = range /\ pc' = "pages" /\ required' = 0
      \/ /\ reach # LastRequired /\ pc' = "fetch" /\ required' = required /\ required \in Blocks
         /\ \E max \in Blocks : /\ required <= max
                                /\ range' = [min |-> required, max |-> max, next |-> max, digest |-> 0]
  <2>1. CASE reach = LastRequired
    BY <1>0, <2>1
  <2>2. CASE reach # LastRequired
    BY <1>0, <1>6, <1>s, <2>2, PutBatch
  <2> QED BY <2>1, <2>2
<1>8. PutTyped'
  <2>1. range' \in Ranges /\ range'.min <= range'.next /\ range'.next <= range'.max
    <3>1. CASE reach = LastRequired
      BY <1>7, <3>1 DEF PutInv, PutTyped
    <3>2. CASE reach # LastRequired
      BY <1>7, <1>s, <3>2 DEF Ranges
    <3> QED BY <3>1, <3>2
  <2>2. /\ linked' \in Numbers /\ st' \subseteq Blocks /\ lastSt' \in Numbers /\ required' \in Numbers
        /\ pc' \in {"fetch", "pages"} /\ pp' \in Numbers /\ ppMax' \in Numbers /\ ppUpper' \in Numbers
        /\ putCrashes' \in Nat
    <3>1. 0 \in Numbers /\ reach \in Numbers /\ required \in Numbers
      BY <1>2, <1>s DEF Numbers
    <3>2. putCrashes \in Nat
      BY DEF PutInv, PutTyped
    <3> QED BY <1>0, <1>3, <1>4, <3>1, <3>2
  <2>3. io' \in Seq(Puts) /\ Len(io') <= ChunksInBatch /\ ppq' \in Seq(Numbers)
    BY <1>0 DEF PutInv, PutTyped, ConfigChecks
  <2> QED BY <1>s, <2>1, <2>2, <2>3 DEF PutTyped
<1>9. RangeFits'
  <2>1. CASE reach = LastRequired
    BY <1>0, <1>7, <2>1 DEF RangeFits
  <2>2. CASE reach # LastRequired
    <3>1. pc' = "fetch" /\ required' = required /\ required # 0 /\ range'.min = required
      BY <1>7, <1>s, <2>2 DEF Blocks
    <3> QED BY <3>1 DEF RangeFits
  <2> QED BY <2>1, <2>2
<1>10. \A b \in HandedOver' : HereNext(b)
  <2>1. CASE reach = LastRequired
    BY <1>5, <1>7, <2>1 DEF HandedOver, Blocks
  <2>2. CASE reach # LastRequired
    <3>1. HandedOver' = {}
      BY <1>7, <1>s, <2>2 DEF HandedOver
    <3> QED BY <3>1
  <2> QED BY <2>1, <2>2
<1>11. NoneIsLost' /\ WrittenIsHere'
  BY <1>0, <1>10 DEF NoneIsLost, WrittenIsHere, Here, HereNext
<1>12. Put!RequiredIsMissing'
  <2>1. \A b \in 1..(IF required' = 0 THEN LastRequired ELSE required' - 1) : HereNext(b)
    <3>1. CASE reach = LastRequired
      BY <1>5, <1>7, <3>1
    <3>2. CASE reach # LastRequired
      <4>1. required' # 0 /\ required' = required
        BY <1>7, <3>2 DEF Blocks
      <4>2. \A b \in 1..required - 1 : b \in Nat /\ Here(b)
        BY <1>s, <4>1 DEF PutInv, Put!RequiredIsMissing, Here
      <4> QED BY <1>3, <4>1, <4>2
    <3> QED BY <3>1, <3>2
  <2> QED BY <1>0, <1>3, <2>1 DEF Put!RequiredIsMissing, HereNext
<1> QED BY <1>8, <1>9, <1>11, <1>12 DEF PutInv

LEMMA PutStep ==
  ASSUME PutSizes, PutInv, [Put!Next]_(Put!vars)
  PROVE  PutInv'
<1>1. CASE Put!StThread
  BY <1>1, PutAsyncStep, DrainStep, CommitTxnStep, LastBlockStep, PutLastStep, LinkStChainStep,
     EndOfBlocksStep DEF Put!StThread
<1>2. CASE Put!PostProcess
  BY <1>2, PostProcessStep
<1>3. CASE Put!LinkOne
  BY <1>3, LinkOneStep
<1>4. CASE Put!Restart
  BY <1>4, PutRestartStep
<1>5. CASE Put!Finished \/ UNCHANGED Put!vars
  <2>1. UNCHANGED Put!vars
    BY <1>5 DEF Put!Finished
  <2>2. UNCHANGED <<linked, st, lastSt, required, pc, range, io, ppq, pp, ppUpper, ppMax, putCrashes>>
    BY <2>1 DEF Put!vars
  <2>3. PutTyped'
    BY <2>2 DEF PutInv, PutTyped
  <2>4. (\A b \in Nat : Here(b) => HereNext(b)) /\ \A b \in st' : b > linked'
    BY <2>2 DEF Here, HereNext, PutInv, Put!RequiredIsMissing
  <2>5. RangeFits' /\ NoneIsLost' /\ WrittenIsHere' /\ Put!RequiredIsMissing'
    BY <2>2, <2>4, BlocksStay
  <2> QED BY <2>3, <2>5 DEF PutInv
<1>6. CASE \E i \in 1..Len(io) : Put!Work(i)
  BY <1>6, WorkStep
<1> QED BY <1>1, <1>2, <1>3, <1>4, <1>5, <1>6 DEF Put!Next

(* Whatever the order in which the workers write and the threads link, and *)
(* whenever the process crashes: the blocks that the data store counts as  *)
(* there are in one of the two chains, and in one only; the ranges and the *)
(* pool keep their bounds.                                                 *)
THEOREM RequiredBlocksAreMissing ==
  ASSUME PutSizes
  PROVE  Put!Spec => [](Put!TypeOK /\ Put!RequiredIsMissing)
<1>1. Put!Init => PutInv
  BY PutInit
<1>2. PutInv /\ [Put!Next]_(Put!vars) => PutInv'
  BY PutStep
<1>3. PutInv => Put!TypeOK /\ Put!RequiredIsMissing
  <2> SUFFICES ASSUME PutInv PROVE Put!TypeOK
    BY DEF PutInv
  <2>1. range.min \in 1..LastRequired /\ range.max \in 1..LastRequired /\ range.next \in 1..LastRequired
    BY PutShapes DEF Blocks
  <2>2. range.next \in range.min..range.max /\ range.max <= LastRequired
    BY <2>1 DEF PutInv, PutTyped, PutSizes
  <2> QED BY <2>1, <2>2 DEF PutInv, PutTyped, Put!TypeOK, Put!PoolSize, Numbers, Blocks
<1> QED BY <1>1, <1>2, <1>3, PTL DEF Put!Spec

-----------------------------------------------------------------------------
(* Without a crash, on the categorized blockchain, nothing ends the process. *)
SteadySizes == PutSizes /\ V4 = FALSE /\ MaxPutCrashes = 0

Staged == pc \in {"fetch", "drain", "txn", "wait"}

(* The state transfer chain knows its last block, but for those that a     *)
(* worker has written and is about to announce.                            *)
Announced ==
  Staged \/ pc = "link" =>
    /\ linked <= lastSt
    /\ \A b \in st : b <= lastSt \/ \E i \in 1..Len(io) : io[i].b = b /\ io[i].at = "written"

(* No block is there before its batch, nor in its batch before its turn. *)
OnTime(b) == b <= range.max /\ (pc \in {"fetch", "wait"} => b < range.min \/ b > range.next)
NothingEarly ==
  Staged =>
    /\ \A b \in Blocks : Here(b) => OnTime(b)
    /\ \A i \in 1..Len(io) : io[i].at # "bigger" /\ OnTime(io[i].b)

(* Batches are linked in their order, and only when they are written. *)
Linking == IF pp = 0 THEN ppMax ELSE pp
Submitted == IF pc = "txn" THEN range.max ELSE range.min - 1
QueueInOrder ==
  IF Staged
  THEN /\ linked <= Linking /\ Linking <= lastSt /\ Linking <= Submitted
       /\ \A i \in 1..Len(ppq) : Linking <= ppq[i] /\ ppq[i] <= lastSt /\ ppq[i] <= Submitted
       /\ \A i, j \in 1..Len(ppq) : i <= j => ppq[i] <= ppq[j]
  ELSE ppq = <<>> /\ pp = 0

NotStopped == aborted = "no" /\ putCrashes = 0 /\ (pc = "end" => lastSt = 0)

(* The bound is that of the batches handed over, so that it is not reached *)
(* while one of them is being linked.                                      *)
BoundFits == Staged => ppUpper = Submitted /\ (pp # 0 => ppMax < pp)

SteadyInv == NotStopped /\ Announced /\ NothingEarly /\ QueueInOrder

LEMMA SteadyInit == ASSUME SteadySizes, Put!Init PROVE SteadyInv
<1>1. /\ linked = 0 /\ st = {} /\ lastSt = 0 /\ pc = "fetch" /\ io = <<>>
      /\ ppq = <<>> /\ pp = 0 /\ ppMax = 0 /\ putCrashes = 0 /\ aborted = "no"
      /\ range = Put!NextBatch(1, LastRequired, <<>>) /\ ConfigChecks
  BY PutConfig DEF Put!Init
<1>2. LastRequired \in Nat /\ 1 \in Blocks /\ \A b \in Blocks : b > 0 /\ b \in Nat
  BY DEF SteadySizes, PutSizes, Blocks
<1>3. PICK max \in Blocks : 1 <= max /\ range = [min |-> 1, max |-> max, next |-> max, digest |-> 0]
  BY <1>1, <1>2, PutBatch
<1>4. NotStopped
  BY <1>1 DEF NotStopped
<1>5. Announced
  BY <1>1 DEF Announced, Staged
<1>6. NothingEarly
  BY <1>1, <1>2 DEF NothingEarly, Here
<1>7. QueueInOrder
  BY <1>1, <1>3 DEF QueueInOrder, Staged, Linking, Submitted
<1> QED BY <1>4, <1>5, <1>6, <1>7 DEF SteadyInv

(* When the pool is empty, the last block of the chain is known. *)
LEMMA KnownWhenDone ==
  ASSUME PutSizes, PutInv, SteadyInv, Staged, Put!AllDone, NEW b \in Blocks, Here(b)
  PROVE  b <= lastSt
<1>1. b \in Nat /\ linked \in Nat /\ lastSt \in Nat
  BY PutShapes
<1> QED BY <1>1 DEF SteadyInv, Announced, Here, Put!AllDone

LEMMA SteadyNumbers ==
  ASSUME PutSizes, PutInv
  PROVE  /\ pp \in Nat /\ ppMax \in Nat /\ Linking \in Nat /\ Submitted \in Nat
         /\ ppq \in Seq(Numbers) /\ Len(ppq) \in Nat /\ \A i \in 1..Len(ppq) : ppq[i] \in Nat
<1>1. pp \in Nat /\ ppMax \in Nat /\ ppq \in Seq(Numbers)
  BY DEF PutInv, PutTyped, Numbers
<1>2. range.max \in Nat /\ range.min - 1 \in Nat
  BY PutShapes DEF Blocks
<1>3. \A i \in 1..Len(ppq) : ppq[i] \in Nat
  <2>1. \A i \in 1..Len(ppq) : ppq[i] \in Numbers
    BY <1>1
  <2> QED BY <2>1, PutShapes
<1> QED BY <1>1, <1>2, <1>3 DEF Linking, Submitted

(* A worker *)
LEMMA SteadyWork ==
  ASSUME SteadySizes, PutInv, SteadyInv, NEW i \in 1..Len(io), Put!Work(i)
  PROVE  SteadyInv'
<1> DEFINE b == io[i].b
<1>p. PutSizes /\ V4 = FALSE
  BY DEF SteadySizes
<1>s. /\ io \in Seq(Puts) /\ Len(io) \in Nat /\ io[i] \in Puts /\ b \in Blocks /\ b \in Nat
      /\ linked \in Nat /\ lastSt \in Nat /\ Blocks \subseteq Nat /\ st \subseteq Blocks
      /\ \A j \in 1..Len(io) : io[j] \in Puts
  BY <1>p, PutShapes
<1>0. Staged /\ pc \in {"fetch", "drain"}
  <2>1. io # <<>>
    BY <1>s
  <2> QED BY <2>1 DEF PutInv, RangeFits, Staged
<1>1. io[i].at # "bigger"
  BY <1>0 DEF SteadyInv, NothingEarly
<1>2. PICK a \in {"written", "done"} :
        /\ io' = [io EXCEPT ![i].at = a] /\ lastSt' \in {lastSt, b} /\ lastSt <= lastSt'
        /\ st' \in {st, st \cup {b}} /\ io[i].at \in {"queued", "written"}
        /\ io[i].at = "queued" => (st' = st \/ a = "written")
        /\ io[i].at = "written" => b <= lastSt' /\ st' = st
        /\ UNCHANGED <<linked, pc, range, ppq, pp, ppMax, aborted, putCrashes>>
  <2>1. CASE Put!WorkerWrites(i)
    <3>1. \/ /\ io' = [io EXCEPT ![i].at = "done"] /\ st' = st
          \/ /\ io' = [io EXCEPT ![i].at = "written"] /\ st' = st \cup {b}
      BY <2>1 DEF Put!WorkerWrites, Put!Finish
    <3>2. /\ io[i].at = "queued"
          /\ UNCHANGED <<linked, lastSt, pc, range, ppq, pp, ppMax, aborted, putCrashes>>
      BY <2>1 DEF Put!WorkerWrites
    <3> HIDE DEF b
    <3> QED BY <1>s, <3>1, <3>2
  <2>2. CASE Put!WorkerCompares(i)
    <3>1. /\ io' = [io EXCEPT ![i].at = "done"] /\ io[i].at = "written"
          /\ lastSt' = IF lastSt >= b THEN lastSt ELSE b
          /\ UNCHANGED <<linked, st, pc, range, ppq, pp, ppMax, aborted, putCrashes>>
      BY <1>p, <2>2 DEF Put!WorkerCompares, Put!Finish
    <3> HIDE DEF b
    <3> QED BY <1>s, <3>1
  <2>3. CASE Put!WorkerStores(i)
    BY <1>1, <2>3 DEF Put!WorkerStores
  <2> QED BY <2>1, <2>2, <2>3 DEF Put!Work
<1>3. /\ Len(io') = Len(io)
      /\ \A j \in 1..Len(io) : /\ io'[j].b = io[j].b
                               /\ io'[j].at = IF j = i THEN a ELSE io[j].at
  <2>1. [io[i] EXCEPT !.at = a].b = io[i].b /\ [io[i] EXCEPT !.at = a].at = a
    BY <1>s DEF Puts
  <2>2. io' = [io EXCEPT ![i] = [io[i] EXCEPT !.at = a]]
    BY <1>2
  <2>3. Len(io') = Len(io) /\ \A j \in 1..Len(io) : io'[j] = IF j = i THEN [io[i] EXCEPT !.at = a] ELSE io[j]
    BY <1>s, <2>2
  <2> QED BY <2>1, <2>3
<1>4. b <= lastSt' \/ io'[i].at = "written" \/ st' = st
  BY <1>2, <1>3
<1>m. lastSt' \in Nat
  BY <1>2, <1>s
<1>5. Announced'
  <2>1. linked' <= lastSt'
    BY <1>0, <1>2, <1>m, <1>s DEF SteadyInv, Announced
  <2>2. ASSUME NEW x \in st'
        PROVE  x <= lastSt' \/ \E j \in 1..Len(io') : io'[j].b = x /\ io'[j].at = "written"
    <3>1. CASE x \in st
      <4>1. x \in Nat
        BY <1>s, <3>1
      <4>2. CASE x <= lastSt
        BY <1>2, <1>m, <1>s, <4>1, <4>2
      <4>3. CASE \E j \in 1..Len(io) : io[j].b = x /\ io[j].at = "written"
        <5>1. PICK j \in 1..Len(io) : io[j].b = x /\ io[j].at = "written"
          BY <4>3
        <5>2. CASE j = i
          BY <1>2, <5>1, <5>2
        <5>3. CASE j # i
          BY <1>3, <5>1, <5>3
        <5> QED BY <5>2, <5>3
      <4> QED BY <1>0, <3>1, <4>2, <4>3 DEF SteadyInv, Announced
    <3>2. CASE x \notin st
      <4>1. x = b /\ st' # st
        BY <1>2, <2>2, <3>2
      <4>2. b <= lastSt' \/ io'[i].at = "written"
        BY <1>4, <4>1
      <4> QED BY <1>3, <4>1, <4>2
    <3> QED BY <3>1, <3>2
  <2> QED BY <2>1, <2>2 DEF Announced
<1>6. NothingEarly'
  <2>0. \A x \in Nat : OnTime(x) => OnTime(x)'
    BY <1>2 DEF OnTime
  <2>1. \A x \in Blocks : HereNext(x) => OnTime(x)
    BY <1>0, <1>2 DEF SteadyInv, NothingEarly, Here, HereNext
  <2>2. \A j \in 1..Len(io) : io[j].at # "bigger" /\ OnTime(io[j].b) /\ io[j].b \in Nat
    BY <1>0, <1>p, PutShapes DEF SteadyInv, NothingEarly
  <2>3. \A j \in 1..Len(io') : io'[j].at # "bigger" /\ io'[j].b \in Nat /\ OnTime(io'[j].b)
    BY <1>3, <2>2
  <2> QED BY <1>2, <1>s, <2>1, <2>3 DEF NothingEarly, OnTime, Here, HereNext
<1>7. QueueInOrder'
  <2>1. /\ Linking' = Linking /\ Submitted' = Submitted /\ Staged'
    BY <1>0, <1>2 DEF Linking, Submitted, Staged
  <2>2. Linking \in Nat /\ \A j \in 1..Len(ppq) : ppq[j] \in Nat
    BY <1>p, SteadyNumbers
  <2> QED BY <1>0, <1>2, <1>m, <1>s, <2>1, <2>2 DEF SteadyInv, QueueInOrder
<1>8. NotStopped'
  BY <1>0, <1>2 DEF SteadyInv, NotStopped
<1> QED BY <1>5, <1>6, <1>7, <1>8 DEF SteadyInv

(* Handing a block to the pool *)
LEMMA SteadyPutAsync ==
  ASSUME SteadySizes, PutInv, SteadyInv, Put!PutAsync
  PROVE  SteadyInv'
<1> DEFINE new == [b |-> range.next, at |-> "queued"]
           u == Put!Unfinished
<1>p. PutSizes
  BY DEF SteadySizes
<1>0. /\ pc = "fetch" /\ io' = Append(u, new)
      /\ IF range.next = range.min THEN pc' = "drain" /\ UNCHANGED range
         ELSE range' = [range EXCEPT !.next = @ - 1] /\ UNCHANGED pc
      /\ UNCHANGED <<linked, st, lastSt, ppq, pp, ppMax, aborted, putCrashes>>
  BY DEF Put!PutAsync
<1>s. /\ Blocks \subseteq Nat
      /\ range.min \in Nat /\ range.max \in Nat /\ range.next \in Nat /\ range.next <= range.max
      /\ range = [min |-> range.min, max |-> range.max, next |-> range.next, digest |-> 0]
      /\ io \in Seq(Puts) /\ Len(io) \in Nat /\ range.next \in Blocks
      /\ \A j \in 1..Len(io) : io[j].b \in Nat
  BY <1>p, PutShapes DEF PutInv, PutTyped
<1>1. PICK n \in 0..Len(io) :
           /\ u \in Seq(Puts) /\ Len(u) = Len(io) - n
           /\ \A i \in 1..n : io[i].at = "done"
           /\ \A i \in 1..Len(io) - n : u[i] = io[i + n]
  BY UnfinishedIs DEF PutInv
<1> HIDE DEF u
<1>2. new \in Puts /\ new.b = range.next /\ new.at = "queued"
  BY <1>s DEF Puts
<1> HIDE DEF new
<1>3. /\ Len(io') = Len(io) - n + 1 /\ io'[Len(io) - n + 1] = new
      /\ \A i \in 1..Len(io) - n : io'[i] = io[i + n]
  BY <1>0, <1>1, <1>2, <1>s
<1>4. \/ pc' = "drain" /\ range' = range
      \/ /\ pc' = "fetch" /\ range.next # range.min
         /\ range' = [min |-> range.min, max |-> range.max, next |-> range.next - 1, digest |-> 0]
  BY <1>0, <1>s
<1>5. Staged /\ Staged'
  BY <1>0, <1>4 DEF Staged
<1>6. Announced'
  <2>1. ASSUME NEW x \in st
        PROVE  x <= lastSt \/ \E j \in 1..Len(io') : io'[j].b = x /\ io'[j].at = "written"
    <3>1. CASE \E k \in 1..Len(io) : io[k].b = x /\ io[k].at = "written"
      <4>1. PICK k \in 1..Len(io) : io[k].b = x /\ io[k].at = "written"
        BY <3>1
      <4>2. k > n
        BY <1>1, <1>s, <4>1
      <4>3. k - n \in 1..Len(io) - n /\ (k - n) + n = k
        BY <1>1, <1>s, <4>1, <4>2
      <4>4. k - n \in 1..Len(io') /\ io'[k - n] = io[k]
        BY <1>1, <1>3, <1>s, <4>3
      <4> QED BY <4>1, <4>4
    <3> QED BY <1>5, <2>1, <3>1 DEF SteadyInv, Announced
  <2> QED BY <1>0, <1>5, <2>1 DEF SteadyInv, Announced
<1>7. NothingEarly'
  <2>1. \A x \in Nat : OnTime(x) => OnTime(x)'
    BY <1>0, <1>4, <1>s DEF OnTime
  <2>2. range.next <= range'.max /\ (pc' \in {"fetch", "wait"} => range.next > range'.next)
    BY <1>4, <1>s
  <2>3. ASSUME NEW j \in 1..Len(io')
        PROVE  io'[j].at # "bigger" /\ io'[j].b \in Nat
               /\ io'[j].b <= range'.max
               /\ (pc' \in {"fetch", "wait"} => io'[j].b < range'.min \/ io'[j].b > range'.next)
    <3>1. CASE j = Len(io) - n + 1
      BY <1>2, <1>3, <1>s, <2>2, <3>1
    <3>2. CASE j # Len(io) - n + 1
      <4>1. j \in 1..Len(io) - n /\ j + n \in 1..Len(io)
        BY <1>1, <1>3, <1>s, <3>2
      <4>2. io'[j] = io[j + n] /\ io[j + n].b \in Nat
        BY <1>3, <1>s, <4>1
      <4>3. io[j + n].at # "bigger" /\ OnTime(io[j + n].b)
        BY <1>5, <4>1 DEF SteadyInv, NothingEarly
      <4> QED BY <2>1, <4>2, <4>3 DEF OnTime
    <3> QED BY <3>1, <3>2
  <2>4. \A x \in Blocks : Here(x)' => OnTime(x)'
    BY <1>0, <1>5, <1>s, <2>1 DEF SteadyInv, NothingEarly, Here
  <2> QED BY <2>3, <2>4 DEF NothingEarly, OnTime
<1>8. QueueInOrder'
  <2>1. Linking' = Linking /\ Submitted' = Submitted
    BY <1>0, <1>4, <1>s DEF Linking, Submitted
  <2> QED BY <1>0, <1>5, <2>1 DEF SteadyInv, QueueInOrder
<1>9. NotStopped'
  BY <1>0, <1>4 DEF SteadyInv, NotStopped
<1> QED BY <1>6, <1>7, <1>8, <1>9 DEF SteadyInv

LEMMA SteadyDrain ==
  ASSUME SteadySizes, PutInv, SteadyInv, Put!Drain
  PROVE  SteadyInv'
<1>p. PutSizes
  BY DEF SteadySizes
<1>0. /\ pc = "drain" /\ Put!AllDone /\ io' = <<>> /\ ppq' = Append(ppq, range.max) /\ pc' = "txn"
      /\ UNCHANGED <<linked, st, lastSt, range, pp, ppMax, aborted, putCrashes>>
  BY DEF Put!Drain
<1>1. Staged /\ Staged'
  BY <1>0 DEF Staged
<1>s. /\ Blocks \subseteq Nat /\ range.max \in Blocks /\ range.min \in Nat /\ range.max \in Nat
      /\ range.min <= range.max /\ lastSt \in Nat /\ st \subseteq Blocks
  BY <1>p, PutShapes DEF PutInv, PutTyped, Blocks
<1>n. /\ pp \in Nat /\ ppMax \in Nat /\ Linking \in Nat
      /\ ppq \in Seq(Numbers) /\ Len(ppq) \in Nat /\ \A i \in 1..Len(ppq) : ppq[i] \in Nat
  BY <1>p, SteadyNumbers
<1>2. Announced'
  <2>1. \A b \in st : b <= lastSt
    BY <1>0, <1>1, <1>p, <1>s, KnownWhenDone DEF Here
  <2> QED BY <1>0, <1>1, <2>1 DEF SteadyInv, Announced
<1>3. NothingEarly'
  BY <1>0, <1>1 DEF SteadyInv, NothingEarly, OnTime, Here
<1>4. QueueInOrder'
  <2>1. range.max <= lastSt
    <3>1. range.max \in HandedOver
      BY <1>0, <1>s DEF HandedOver
    <3> QED BY <1>0, <1>1, <1>p, <1>s, <3>1, AllDoneHere, KnownWhenDone
  <2>2. Linking' = Linking /\ Submitted = range.min - 1 /\ Submitted' = range.max
    BY <1>0 DEF Linking, Submitted
  <2>3. /\ Len(ppq') = Len(ppq) + 1 /\ ppq'[Len(ppq) + 1] = range.max
        /\ \A i \in 1..Len(ppq) : ppq'[i] = ppq[i]
    BY <1>0, <1>n
  <2>4. \A i \in 1..Len(ppq) : Linking <= ppq[i] /\ ppq[i] <= lastSt /\ ppq[i] <= range.max
    BY <1>1, <1>n, <1>s, <2>2 DEF SteadyInv, QueueInOrder
  <2>5. linked <= Linking /\ Linking <= lastSt /\ Linking <= range.max
    BY <1>1, <1>n, <1>s, <2>2 DEF SteadyInv, QueueInOrder
  <2>6. \A i \in 1..Len(ppq') : Linking <= ppq'[i] /\ ppq'[i] <= lastSt /\ ppq'[i] <= range.max
    BY <1>n, <1>s, <2>1, <2>3, <2>4, <2>5
  <2>7. \A i, j \in 1..Len(ppq') : i <= j => ppq'[i] <= ppq'[j]
    <3> TAKE i, j \in 1..Len(ppq')
    <3>1. CASE j = Len(ppq) + 1
      BY <2>3, <2>6, <3>1
    <3>2. CASE j # Len(ppq) + 1
      <4> SUFFICES ASSUME i <= j PROVE ppq'[i] <= ppq'[j]
        OBVIOUS
      <4>1. i \in 1..Len(ppq) /\ j \in 1..Len(ppq)
        BY <1>n, <2>3, <3>2
      <4> QED BY <1>1, <2>3, <4>1 DEF SteadyInv, QueueInOrder
    <3> QED BY <3>1, <3>2
  <2> QED BY <1>0, <1>1, <2>2, <2>5, <2>6, <2>7 DEF QueueInOrder
<1>5. NotStopped'
  BY <1>0 DEF SteadyInv, NotStopped
<1> QED BY <1>2, <1>3, <1>4, <1>5 DEF SteadyInv

LEMMA SteadyCommitTxn ==
  ASSUME SteadySizes, PutInv, SteadyInv, Put!CommitTxn
  PROVE  SteadyInv'
<1>p. PutSizes
  BY DEF SteadySizes
<1>0. /\ pc = "txn" /\ pc' = "fetch"
      /\ range' = Put!NextBatch(range.max + 1, LastRequired, digests)
      /\ UNCHANGED <<linked, st, lastSt, io, ppq, pp, ppMax, aborted, putCrashes>>
  BY DEF Put!CommitTxn
<1>1. /\ LastRequired \in Nat /\ Blocks \subseteq Nat /\ range.max \in Blocks /\ range.max \in Nat
      /\ range.max < LastRequired /\ io = <<>> /\ ConfigChecks
  BY <1>0, <1>p, PutShapes DEF PutInv, PutTyped, RangeFits
<1>2. range.max + 1 \in Blocks
  BY <1>1 DEF Blocks
<1>3. PICK max \in Blocks :
        range.max + 1 <= max /\ range' = [min |-> range.max + 1, max |-> max, next |-> max, digest |-> 0]
  BY <1>0, <1>1, <1>2, PutBatch
<1>4. Staged /\ Staged'
  BY <1>0 DEF Staged
<1>5. Announced'
  BY <1>0, <1>4 DEF SteadyInv, Announced
<1>6. NothingEarly'
  <2>1. \A b \in Blocks : Here(b) => b <= range.max
    BY <1>4 DEF SteadyInv, NothingEarly, OnTime
  <2>2. \A b \in Blocks : Here(b) => b <= range'.max /\ b < range'.min
    BY <1>1, <1>3, <2>1
  <2> QED BY <1>0, <1>1, <2>2 DEF NothingEarly, OnTime, Here
<1>7. QueueInOrder'
  <2>1. Linking' = Linking /\ Submitted' = Submitted
    BY <1>0, <1>1, <1>3 DEF Linking, Submitted
  <2> QED BY <1>0, <1>4, <2>1 DEF SteadyInv, QueueInOrder
<1>8. NotStopped'
  BY <1>0 DEF SteadyInv, NotStopped
<1> QED BY <1>5, <1>6, <1>7, <1>8 DEF SteadyInv

LEMMA SteadyLastBlock ==
  ASSUME SteadySizes, PutInv, SteadyInv, Put!LastBlock
  PROVE  SteadyInv'
<1>p. PutSizes
  BY DEF SteadySizes
<1>0. /\ pc = "fetch" /\ Put!AllDone /\ io' = <<>> /\ pc' = "wait"
      /\ ppq' = IF ppMax = 0 /\ required - 1 > linked + 1 THEN Append(ppq, required - 1) ELSE ppq
      /\ UNCHANGED <<linked, st, lastSt, range, pp, ppMax, aborted, putCrashes>>
  BY DEF Put!LastBlock
<1>1. Staged /\ Staged'
  BY <1>0 DEF Staged
<1>s. /\ Blocks \subseteq Nat /\ required = range.min /\ range.min \in Nat /\ range.min \in Blocks
      /\ lastSt \in Nat /\ linked \in Nat /\ st \subseteq Blocks /\ LastRequired \in Nat
  BY <1>0, <1>p, PutShapes DEF PutInv, RangeFits
<1>n. /\ pp \in Nat /\ ppMax \in Nat /\ Linking \in Nat
      /\ ppq \in Seq(Numbers) /\ Len(ppq) \in Nat /\ \A i \in 1..Len(ppq) : ppq[i] \in Nat
  BY <1>p, SteadyNumbers
<1>2. Announced'
  <2>1. \A b \in st : b <= lastSt
    BY <1>0, <1>1, <1>p, <1>s, KnownWhenDone DEF Here
  <2> QED BY <1>0, <1>1, <2>1 DEF SteadyInv, Announced
<1>3. NothingEarly'
  BY <1>0, <1>1 DEF SteadyInv, NothingEarly, OnTime, Here
<1>4. QueueInOrder'
  <2>2. Linking' = Linking /\ Submitted = range.min - 1 /\ Submitted' = Submitted
    BY <1>0 DEF Linking, Submitted
  <2>3. CASE ppq' = ppq
    BY <1>0, <1>1, <2>2, <2>3 DEF SteadyInv, QueueInOrder
  <2>4. CASE ppq' # ppq
    <3> DEFINE m == range.min - 1
    <3>1. required - 1 > linked + 1 /\ ppq' = Append(ppq, m)
      BY <1>0, <1>s, <2>4
    <3>2. m \in Blocks /\ m \in Nat
      BY <1>s, <3>1 DEF Blocks
    <3>3. Here(m)
      BY <1>s, <3>1 DEF PutInv, Put!RequiredIsMissing, Here, Blocks
    <3>4. m <= lastSt
      BY <1>0, <1>1, <1>p, <3>2, <3>3, KnownWhenDone
    <3>5. Linking <= m /\ linked <= Linking /\ Linking <= lastSt
      BY <1>1, <2>2 DEF SteadyInv, QueueInOrder
    <3> HIDE DEF m
    <3>6. /\ Len(ppq') = Len(ppq) + 1 /\ ppq'[Len(ppq) + 1] = m
          /\ \A i \in 1..Len(ppq) : ppq'[i] = ppq[i]
      BY <1>n, <3>1
    <3>7. \A i \in 1..Len(ppq) : Linking <= ppq[i] /\ ppq[i] <= lastSt /\ ppq[i] <= m
      BY <1>1, <2>2 DEF SteadyInv, QueueInOrder, m
    <3>8. \A i \in 1..Len(ppq') : Linking <= ppq'[i] /\ ppq'[i] <= lastSt /\ ppq'[i] <= m
      BY <1>n, <1>s, <3>2, <3>4, <3>5, <3>6, <3>7
    <3>9. \A i, j \in 1..Len(ppq') : i <= j => ppq'[i] <= ppq'[j]
      <4> TAKE i, j \in 1..Len(ppq')
      <4>1. CASE j = Len(ppq) + 1
        BY <3>6, <3>8, <4>1
      <4>2. CASE j # Len(ppq) + 1
        <5> SUFFICES ASSUME i <= j PROVE ppq'[i] <= ppq'[j]
          OBVIOUS
        <5>1. i \in 1..Len(ppq) /\ j \in 1..Len(ppq)
          BY <1>n, <3>6, <4>2
        <5> QED BY <1>1, <3>6, <5>1 DEF SteadyInv, QueueInOrder
      <4> QED BY <4>1, <4>2
    <3> QED BY <1>0, <1>1, <2>2, <3>5, <3>8, <3>9 DEF QueueInOrder, m
  <2> QED BY <2>3, <2>4
<1>5. NotStopped'
  BY <1>0 DEF SteadyInv, NotStopped
<1> QED BY <1>2, <1>3, <1>4, <1>5 DEF SteadyInv

LEMMA SteadyPutLast ==
  ASSUME SteadySizes, PutInv, SteadyInv, BoundFits, Put!PutLast
  PROVE  SteadyInv'
<1> DEFINE b == range.next
<1>p. PutSizes
  BY DEF SteadySizes
<1>0. /\ pc = "wait" /\ Put!PostProcessingDone
      /\ \/ Put!HaveBlock(b)
         \/ /\ st' = st \cup {b} /\ pc' = "link" /\ lastSt' = Put!Greatest({lastSt, b})
      /\ UNCHANGED <<linked, io, ppq, pp, ppMax, aborted, putCrashes>>
  BY DEF Put!PutLast
<1>1. /\ LastRequired \in Nat /\ b \in Nat /\ b \in Blocks /\ lastSt \in Nat /\ linked \in Nat
      /\ st \subseteq Blocks /\ Blocks \subseteq Nat /\ b = range.min
      /\ lastSt \in Numbers /\ io = <<>>
  BY <1>0, <1>p, PutShapes DEF PutInv, PutTyped, RangeFits
<1>2. Staged
  BY <1>0 DEF Staged
<1>3. ~Put!HaveBlock(b)
  <2> SUFFICES ASSUME Put!HaveBlock(b) PROVE FALSE
    OBVIOUS
  <2>1. Here(b)
    BY DEF Put!HaveBlock, Put!InStChain, Here
  <2>2. OnTime(b)
    BY <1>1, <1>2, <2>1 DEF SteadyInv, NothingEarly
  <2> QED BY <1>0, <1>1, <2>2 DEF OnTime
<1> HIDE DEF b
<1>4. lastSt' \in Nat /\ lastSt <= lastSt' /\ b <= lastSt'
  <2> DEFINE G == Put!Greatest({lastSt, b})
  <2>1. {lastSt, b} \in SUBSET (0..LastRequired)
    BY <1>1 DEF Numbers, Blocks
  <2>2. G \in {lastSt, b} /\ \A y \in {lastSt, b} : y <= G
    BY <1>1, <2>1, GreatestIs
  <2> HIDE DEF G
  <2>3. lastSt' = G
    BY <1>0, <1>3 DEF G
  <2> QED BY <1>1, <2>2, <2>3
<1>5. Announced'
  <2>1. linked <= lastSt /\ \A x \in st : x <= lastSt /\ x \in Nat
    BY <1>1, <1>2 DEF SteadyInv, Announced
  <2>2. st' = st \cup {b} /\ linked' = linked
    BY <1>0, <1>3
  <2>3. linked' <= lastSt' /\ \A x \in st' : x <= lastSt'
    BY <1>1, <1>4, <2>1, <2>2
  <2> QED BY <2>3 DEF Announced
<1>6. ppq = <<>> /\ pp = 0
  <2>1. ppq = <<>> /\ ppUpper = ppMax
    BY <1>0 DEF Put!PostProcessingDone
  <2>2. ppUpper = Submitted /\ (pp # 0 => ppMax < pp /\ pp <= Submitted)
    BY <1>2 DEF BoundFits, SteadyInv, QueueInOrder, Linking
  <2>3. pp \in Nat /\ ppMax \in Nat
    BY <1>1 DEF PutInv, PutTyped, Numbers
  <2> QED BY <2>1, <2>2, <2>3
<1>7. NothingEarly' /\ QueueInOrder' /\ NotStopped'
  BY <1>0, <1>3, <1>6 DEF SteadyInv, NothingEarly, QueueInOrder, NotStopped, Staged
<1> QED BY <1>5, <1>7 DEF SteadyInv

(* All blocks are there, so that the chain is linked to its end. *)
LEMMA SteadyLinkStChain ==
  ASSUME SteadySizes, PutInv, SteadyInv, Put!LinkStChain
  PROVE  SteadyInv'
<1>p. PutSizes
  BY DEF SteadySizes
<1>0. pc = "link" /\ UNCHANGED <<io, ppq, pp, ppMax, aborted, putCrashes>> /\ ~Staged
  BY DEF Put!LinkStChain, Staged
<1>s. /\ linked \in Nat /\ lastSt \in Nat /\ st \subseteq Blocks /\ Blocks \subseteq Nat
      /\ LastRequired \in Nat /\ lastSt <= LastRequired
  BY <1>p, PutShapes DEF PutInv, PutTyped, Numbers
<1>1. CASE linked < lastSt /\ linked + 1 \in st
  <2>1. linked' = linked + 1 /\ st' = st \ {linked + 1} /\ UNCHANGED <<lastSt, pc>>
    BY <1>1 DEF Put!LinkStChain
  <2>2. Announced'
    BY <1>0, <1>1, <1>s, <2>1 DEF SteadyInv, Announced
  <2>3. NothingEarly' /\ QueueInOrder' /\ NotStopped'
    BY <1>0, <2>1 DEF SteadyInv, NothingEarly, QueueInOrder, NotStopped, Staged
  <2> QED BY <2>2, <2>3 DEF SteadyInv
<1>2. CASE ~(linked < lastSt /\ linked + 1 \in st)
  <2>1. pc' = "end" /\ lastSt' = (IF linked < lastSt THEN lastSt ELSE 0) /\ UNCHANGED <<linked, st>>
    BY <1>2 DEF Put!LinkStChain
  <2>2. ~(linked < lastSt)
    <3> SUFFICES ASSUME linked < lastSt PROVE FALSE
      OBVIOUS
    <3>1. linked + 1 \in Blocks
      BY <1>s DEF Blocks
    <3>2. HandedOver = Blocks /\ io = <<>>
      BY <1>0 DEF HandedOver, PutInv, RangeFits
    <3>3. Here(linked + 1)
      BY <3>1, <3>2, AllDoneHere DEF Put!AllDone
    <3> QED BY <1>2, <1>s, <3>3 DEF Here
  <2> QED BY <1>0, <2>1, <2>2 DEF SteadyInv, Announced, NothingEarly, QueueInOrder, NotStopped, Staged
<1> QED BY <1>1, <1>2

LEMMA SteadyEnd ==
  ASSUME SteadySizes, PutInv, SteadyInv, Put!EndOfBlocks
  PROVE  SteadyInv'
<1>0. /\ pc = "end" /\ pc' = "pages" /\ UNCHANGED <<io, ppq, pp, ppMax, putCrashes>>
      /\ aborted' = IF lastSt > linked THEN "checkUnreachableBlocks" ELSE "no"
  BY DEF Put!EndOfBlocks
<1>1. lastSt = 0 /\ linked \in Nat
  BY <1>0, PutShapes DEF SteadySizes, SteadyInv, NotStopped
<1>2. aborted' = "no"
  BY <1>0, <1>1
<1> QED BY <1>0, <1>2 DEF SteadyInv, Announced, NothingEarly, QueueInOrder, NotStopped, Staged

(* The next batch to link is not below what is linked and not above what   *)
(* is written.                                                             *)
LEMMA SteadyPostProcess ==
  ASSUME SteadySizes, PutInv, SteadyInv, Put!PostProcess
  PROVE  SteadyInv'
<1> DEFINE u == Head(ppq)
<1>p. PutSizes /\ V4 = FALSE
  BY DEF SteadySizes
<1>0. pp = 0 /\ ppq # <<>>
  BY DEF Put!PostProcess
<1>1. Staged
  BY <1>0 DEF SteadyInv, QueueInOrder
<1>n. /\ ppMax \in Nat /\ ppq \in Seq(Numbers) /\ Len(ppq) \in Nat /\ \A i \in 1..Len(ppq) : ppq[i] \in Nat
      /\ linked \in Nat /\ lastSt \in Nat
  BY <1>p, SteadyNumbers, PutShapes
<1>2. u = ppq[1] /\ 1 \in 1..Len(ppq) /\ u \in Nat
  BY <1>0, <1>n
<1> HIDE DEF u
<1>3. linked <= ppMax /\ ppMax <= u /\ u <= lastSt /\ u <= Submitted
  BY <1>0, <1>1, <1>2 DEF SteadyInv, QueueInOrder, Linking
<1>4. ~(u # ppMax /\ (u < ppMax \/ Put!CannotPostProcess(u) \/ (~Put!FullyLinked(u) /\ Put!EmptyRange(u))))
  BY <1>2, <1>3, <1>n, <1>p DEF Put!CannotPostProcess, Put!EmptyRange
<1>5. /\ ppq' = Tail(ppq)
      /\ \/ ppMax' = u /\ UNCHANGED pp
         \/ u # ppMax /\ pp' = u /\ UNCHANGED ppMax
      /\ UNCHANGED <<linked, st, lastSt, pc, range, io, aborted, putCrashes>>
  BY <1>4 DEF Put!PostProcess, u
<1>6. Linking' = u
  <2>1. u # ppMax => u # 0
    BY <1>2, <1>3, <1>n
  <2> QED BY <1>0, <1>5, <2>1 DEF Linking
<1>7. /\ Len(ppq') = Len(ppq) - 1
      /\ \A i \in 1..Len(ppq') : ppq'[i] = ppq[i + 1] /\ i + 1 \in 1..Len(ppq)
  BY <1>0, <1>5, <1>n
<1>8. Staged' /\ Submitted' = Submitted
  BY <1>1, <1>5 DEF Staged, Submitted
<1>9. QueueInOrder'
  <2>1. linked <= u
    BY <1>2, <1>3, <1>n
  <2>2. /\ \A i \in 1..Len(ppq) : ppq[i] <= lastSt /\ ppq[i] <= Submitted
        /\ \A i, j \in 1..Len(ppq) : i <= j => ppq[i] <= ppq[j]
    BY <1>1 DEF SteadyInv, QueueInOrder
  <2>3. \A i \in 1..Len(ppq') : u <= ppq'[i] /\ ppq'[i] <= lastSt /\ ppq'[i] <= Submitted
    <3> TAKE i \in 1..Len(ppq')
    <3>1. 1 <= i + 1 /\ i + 1 \in 1..Len(ppq) /\ ppq'[i] = ppq[i + 1]
      BY <1>7
    <3> QED BY <1>2, <2>2, <3>1
  <2>4. \A i, j \in 1..Len(ppq') : i <= j => ppq'[i] <= ppq'[j]
    <3> SUFFICES ASSUME NEW i \in 1..Len(ppq'), NEW j \in 1..Len(ppq'), i <= j
                 PROVE  ppq'[i] <= ppq'[j]
      OBVIOUS
    <3>1. i + 1 <= j + 1 /\ i + 1 \in 1..Len(ppq) /\ j + 1 \in 1..Len(ppq)
      BY <1>7
    <3> QED BY <1>7, <2>2, <3>1
  <2> QED BY <1>3, <1>5, <1>6, <1>8, <2>1, <2>3, <2>4 DEF QueueInOrder
<1>10. Announced'
  BY <1>1, <1>5 DEF SteadyInv, Announced
<1>11. NothingEarly'
  BY <1>1, <1>5 DEF SteadyInv, NothingEarly, OnTime, Here
<1>12. NotStopped'
  BY <1>5 DEF SteadyInv, NotStopped
<1> QED BY <1>9, <1>10, <1>11, <1>12 DEF SteadyInv

LEMMA SteadyLinkOne ==
  ASSUME SteadySizes, PutInv, SteadyInv, Put!LinkOne
  PROVE  SteadyInv'
<1>p. PutSizes
  BY DEF SteadySizes
<1>0. pp # 0 /\ UNCHANGED <<lastSt, pc, range, io, ppq, aborted, putCrashes>>
  BY DEF Put!LinkOne
<1>1. Staged /\ Staged' /\ Submitted' = Submitted
  BY <1>0 DEF SteadyInv, QueueInOrder, Staged, Submitted
<1>n. linked \in Nat /\ lastSt \in Nat /\ pp \in Nat /\ Blocks \subseteq Nat /\ st \subseteq Blocks
  BY <1>p, SteadyNumbers, PutShapes
<1>2. Linking = pp /\ linked <= pp /\ pp <= lastSt
  BY <1>0, <1>1 DEF SteadyInv, QueueInOrder, Linking
<1>3. CASE linked < pp /\ linked + 1 \in st
  <2>1. linked' = linked + 1 /\ st' = st \ {linked + 1} /\ UNCHANGED <<pp, ppMax>>
    BY <1>3 DEF Put!LinkOne
  <2>2. \A b \in Blocks : HereNext(b) => Here(b)
    BY <1>3, <1>n, <2>1 DEF Here, HereNext
  <2>3. Announced'
    BY <1>0, <1>1, <1>2, <1>3, <1>n, <2>1 DEF SteadyInv, Announced
  <2>4. NothingEarly'
    BY <1>0, <1>1, <2>2 DEF SteadyInv, NothingEarly, OnTime, Here, HereNext
  <2>5. QueueInOrder'
    <3>1. Linking' = Linking /\ linked' <= Linking
      BY <1>2, <1>3, <1>n, <2>1 DEF Linking
    <3> QED BY <1>0, <1>1, <3>1 DEF SteadyInv, QueueInOrder
  <2>6. NotStopped'
    BY <1>0 DEF SteadyInv, NotStopped
  <2> QED BY <2>3, <2>4, <2>5, <2>6 DEF SteadyInv
<1>4. CASE ~(linked < pp /\ linked + 1 \in st)
  <2>1. ppMax' = pp /\ pp' = 0 /\ UNCHANGED <<linked, st>>
    BY <1>4 DEF Put!LinkOne
  <2>2. Linking' = Linking
    BY <1>2, <2>1 DEF Linking
  <2>3. Announced' /\ NotStopped'
    BY <1>0, <1>1, <2>1 DEF SteadyInv, Announced, NotStopped
  <2>4. NothingEarly'
    BY <1>0, <1>1, <2>1 DEF SteadyInv, NothingEarly, OnTime, Here
  <2>5. QueueInOrder'
    BY <1>0, <1>1, <2>1, <2>2 DEF SteadyInv, QueueInOrder
  <2> QED BY <2>3, <2>4, <2>5 DEF SteadyInv
<1> QED BY <1>3, <1>4

(* The bound moves with the batches. *)
LEMMA SteadyBound ==
  ASSUME SteadySizes, PutInv, SteadyInv, BoundFits, [Put!Next]_(Put!vars)
  PROVE  BoundFits'
<1>0. /\ pp \in Nat /\ ppMax \in Nat /\ ppUpper \in Nat /\ range.min \in Nat /\ range.max \in Nat
      /\ LastRequired \in Nat /\ aborted = "no" /\ putCrashes = 0 /\ MaxPutCrashes = 0
  BY PutShapes DEF PutInv, PutTyped, Numbers, SteadySizes, SteadyInv, NotStopped
<1>1. CASE Put!PutAsync
  <2>1. pc = "fetch" /\ pc' \in {"fetch", "drain"} /\ range'.min = range.min
    BY <1>1, PutShapes DEF Put!PutAsync, SteadySizes
  <2>2. UNCHANGED <<ppUpper, pp, ppMax>>
    BY <1>1 DEF Put!PutAsync
  <2> QED BY <2>1, <2>2 DEF BoundFits, Staged, Submitted
<1>2. CASE Put!Drain
  BY <1>2 DEF Put!Drain, BoundFits, Staged, Submitted
<1>3. CASE Put!CommitTxn
  <2>1. pc = "txn" /\ pc' = "fetch" /\ UNCHANGED <<ppUpper, pp, ppMax>>
    BY <1>3 DEF Put!CommitTxn
  <2>2. range'.min - 1 = range.max
    BY <1>0, <1>3 DEF Put!CommitTxn, Put!NextBatch
  <2> QED BY <2>1, <2>2 DEF BoundFits, Staged, Submitted
<1>4. CASE Put!LastBlock
  BY <1>4 DEF Put!LastBlock, BoundFits, Staged, Submitted
<1>5. CASE Put!PutLast \/ Put!LinkStChain \/ Put!EndOfBlocks
  <2>1. pc' \in {"link", "end", "pages"}
    BY <1>5 DEF Put!PutLast, Put!LinkStChain, Put!EndOfBlocks
  <2> QED BY <2>1 DEF BoundFits, Staged
<1>6. CASE Put!PostProcess
  <2>1. UNCHANGED <<pc, range, ppUpper>>
    BY <1>6 DEF Put!PostProcess, Put!Abort
  <2>2. Staged => (pp' # 0 => ppMax' < pp')
    <3> SUFFICES ASSUME Staged, pp' # 0 PROVE ppMax' < pp'
      OBVIOUS
    <3>1. pp = 0 /\ ppq # <<>> /\ pp' \in {pp, Head(ppq)}
      BY <1>6 DEF Put!PostProcess, Put!Abort
    <3>2. pp' = Head(ppq) /\ Head(ppq) # ppMax /\ ppMax' = ppMax
      BY <1>6, <3>1 DEF Put!PostProcess, Put!Abort
    <3>3. ppq \in Seq(Numbers)
      BY DEF PutInv, PutTyped
    <3>4. Len(ppq) > 0 /\ Head(ppq) = ppq[1] /\ Head(ppq) \in Nat
      BY <1>0, <3>1, <3>3 DEF Numbers
    <3>5. ppMax <= ppq[1]
      BY <3>1, <3>3, <3>4 DEF SteadyInv, QueueInOrder, Linking
    <3> QED BY <1>0, <3>2, <3>4, <3>5
  <2> QED BY <2>1, <2>2 DEF BoundFits, Staged, Submitted
<1>7. CASE Put!LinkOne
  <2>1. UNCHANGED <<pc, range, ppUpper>>
    BY <1>7 DEF Put!LinkOne
  <2>2. pp' = 0 \/ UNCHANGED <<pp, ppMax>>
    BY <1>7 DEF Put!LinkOne
  <2> QED BY <2>1, <2>2 DEF BoundFits, Staged, Submitted
<1>8. CASE Put!Restart
  BY <1>0, <1>8 DEF Put!Restart
<1>9. CASE Put!Finished \/ UNCHANGED Put!vars
  BY <1>9 DEF Put!Finished, Put!vars, BoundFits, Staged, Submitted
<1>10. CASE \E i \in 1..Len(io) : Put!Work(i)
  <2>1. UNCHANGED <<pc, range, ppUpper, pp, ppMax>>
    BY <1>10 DEF Put!Work, Put!WorkerWrites, Put!WorkerCompares, Put!WorkerStores
  <2> QED BY <2>1 DEF BoundFits, Staged, Submitted
<1> QED BY <1>1, <1>2, <1>3, <1>4, <1>5, <1>6, <1>7, <1>8, <1>9, <1>10 DEF Put!Next, Put!StThread

LEMMA SteadyStep ==
  ASSUME SteadySizes, PutInv, SteadyInv, BoundFits, [Put!Next]_(Put!vars)
  PROVE  SteadyInv'
<1>1. CASE Put!StThread
  BY <1>1, SteadyPutAsync, SteadyDrain, SteadyCommitTxn, SteadyLastBlock, SteadyPutLast,
     SteadyLinkStChain, SteadyEnd DEF Put!StThread
<1>2. CASE Put!PostProcess \/ Put!LinkOne
  BY <1>2, SteadyPostProcess, SteadyLinkOne
<1>3. CASE Put!Restart
  <2>1. aborted = "no" /\ putCrashes = 0
    BY DEF SteadyInv, NotStopped
  <2>2. aborted # "no" \/ putCrashes < 0
    BY <1>3 DEF Put!Restart, SteadySizes
  <2> QED BY <2>1, <2>2
<1>4. CASE Put!Finished \/ UNCHANGED Put!vars
  <2>1. UNCHANGED <<linked, st, lastSt, pc, range, io, ppq, pp, ppMax, aborted, putCrashes>>
    BY <1>4 DEF Put!Finished, Put!vars
  <2>2. Staged' = Staged /\ Linking' = Linking /\ Submitted' = Submitted
    BY <2>1 DEF Staged, Linking, Submitted
  <2>3. Announced' /\ NotStopped'
    BY <2>1, <2>2 DEF SteadyInv, Announced, NotStopped
  <2>4. NothingEarly'
    BY <2>1, <2>2 DEF SteadyInv, NothingEarly, OnTime, Here
  <2>5. QueueInOrder'
    BY <2>1, <2>2 DEF SteadyInv, QueueInOrder
  <2> QED BY <2>3, <2>4, <2>5 DEF SteadyInv
<1>5. CASE \E i \in 1..Len(io) : Put!Work(i)
  BY <1>5, SteadyWork
<1> QED BY <1>1, <1>2, <1>3, <1>4, <1>5 DEF Put!Next

(* As long as the process does not crash, no assertion of the state        *)
(* transfer and no exception of the categorized blockchain ends it: a      *)
(* batch is linked when all its blocks are written and announced, the      *)
(* batches in their order, and at the end of the cycle no block is left in *)
(* the state transfer chain.                                               *)
THEOREM SteadyNeverAborts ==
  ASSUME SteadySizes
  PROVE  Put!Spec => []Put!NothingAborts
<1>0. Put!Init => BoundFits
  <2> SUFFICES ASSUME Put!Init PROVE BoundFits
    OBVIOUS
  <2>1. ppUpper = 0 /\ pp = 0 /\ pc = "fetch" /\ range.min = 1
    BY DEF Put!Init, Put!NextBatch
  <2> QED BY <2>1 DEF BoundFits, Submitted
<1>1. Put!Init => PutInv /\ SteadyInv
  BY PutInit, SteadyInit DEF SteadySizes
<1>2. PutInv /\ SteadyInv /\ BoundFits /\ [Put!Next]_(Put!vars) => PutInv' /\ SteadyInv' /\ BoundFits'
  BY PutStep, SteadyStep, SteadyBound DEF SteadySizes
<1>3. SteadyInv => Put!NothingAborts
  BY DEF SteadyInv, NotStopped, Put!NothingAborts
<1> QED BY <1>0, <1>1, <1>2, <1>3, PTL DEF Put!Spec

-----------------------------------------------------------------------------
(***************************************************************************)
(* The source, for every set of destinations, number and size of blocks,   *)
(* size of a batch, with and without prefetching.                          *)
(***************************************************************************)
CONSTANTS Dests, MaxServed, PreFetch, MaxSeq, Head0, Modes
VARIABLES low, head, mode, session, batch, ctxs, seqNums, held, busy, out, refused

Src == INSTANCE StSource WITH
  MaxBlock <- MaxServed, N <- ChunksInBatch, last <- seqNums

SourceSizes ==
  /\ MaxServed \in Nat \ {0} /\ Chunks \in Nat \ {0} /\ ChunksInBatch \in Nat \ {0}
  /\ MaxSeq \in Nat /\ Head0 \in 1..MaxServed

(***************************************************************************)
(* The parts of the inductive invariant                                    *)
(***************************************************************************)
Served == 1..MaxServed
Contexts == [b : Served, fut : {"running", "found", "missing", "taken"}]
Sessions == [owner : Dests \cup {Src!NoOne}, open : BOOLEAN, expired : BOOLEAN]
SourceBatches ==
  [active : BOOLEAN, dest : Dests \cup {Src!NoOne}, next : 0..MaxServed, chunk : 0..Chunks + 1,
   getNext : BOOLEAN, prefetch : 0..MaxServed, dig : BOOLEAN, req : Src!Requests]
ItemsSent == [b : 0..MaxServed, c : 0..Chunks + 1, dig : BOOLEAN, last : BOOLEAN, right : BOOLEAN]

SourceTyped ==
  /\ low \in Served /\ head \in Served /\ mode \in {"not", "dest", "final"}
  /\ session \in Sessions /\ batch \in SourceBatches
  /\ ctxs \in Seq(Contexts) /\ Len(ctxs) <= ChunksInBatch
  /\ seqNums \in [Dests -> 0..MaxSeq] /\ held \in BOOLEAN /\ busy \in BOOLEAN
  /\ out \in Seq(ItemsSent)

(* Where a batch is: how many chunks lie before the next one *)
BatchAt ==
  batch.active =>
    /\ batch.req.min <= batch.next /\ batch.next <= batch.req.max /\ batch.chunk > 0
    /\ Chunks * (batch.req.max - batch.next) + batch.chunk = batch.req.known + Len(out) + 1
    /\ batch.dig <=> batch.req.group /\ out = <<>>

(* The contexts at the front are the blocks of the batch still to be sent, *)
(* and only the one whose chunks are being sent was taken.                 *)
ContextsLine ==
  Src!Sending =>
    /\ batch.dest = session.owner
    /\ Len(ctxs) >= batch.next - batch.req.min + 1
    /\ \A i \in 1..batch.next - batch.req.min + 1 :
         /\ ctxs[i].b = batch.next - i + 1
         /\ ctxs[i].fut = "taken" => i = 1 /\ ~batch.getNext

SourceInv == SourceTyped /\ BatchAt /\ ContextsLine /\ Src!AnswerInOrder /\ Src!PoolIsFree

(***************************************************************************)
(* Requests, places and contexts                                           *)
(***************************************************************************)
LEMMA DivisionIs ==
  ASSUME NEW T \in Nat \ {0}, NEW q \in Nat, NEW r \in 0..T - 1
  PROVE  (T * q + r) \div T = q /\ (T * q + r) % T = r
<1> DEFINE k == T * q + r
           d == k \div T
           e == k % T
<1>1. T * q \in Nat /\ k \in Nat
  <2>1. T * q \in Nat
    BY SMTT(30)
  <2> QED BY <2>1
<1>2. e \in 0..T - 1 /\ d \in Nat /\ k = T * d + e
  <2> HIDE DEF k
  <2> QED BY <1>1, Remainder
<1>3. T * d \in Nat
  <2> HIDE DEF d
  <2> QED BY <1>2, SMTT(30)
<1> HIDE DEF d, e
<1>4. d = q
  <2>1. CASE d < q
    <3>1. d + 1 \in Nat /\ d + 1 <= q
      BY <1>2, <2>1
    <3>2. T * (d + 1) <= T * q
      BY <3>1, ScaleUp
    <3>3. T * (d + 1) = T * d + T
      BY <1>2, SMTT(30)
    <3> QED BY <1>1, <1>2, <1>3, <3>2, <3>3
  <2>2. CASE q < d
    <3>1. q + 1 \in Nat /\ q + 1 <= d
      BY <1>2, <2>2
    <3>2. T * (q + 1) <= T * d
      BY <1>2, <3>1, ScaleUp
    <3>3. T * (q + 1) = T * q + T
      BY SMTT(30)
    <3> QED BY <1>1, <1>2, <1>3, <3>2, <3>3
  <2> QED BY <1>2, <2>1, <2>2
<1>5. e = r
  BY <1>1, <1>2, <1>3, <1>4
<1> QED BY <1>4, <1>5 DEF d, e

LEMMA RequestIs ==
  ASSUME SourceSizes, NEW m \in Src!Requests
  PROVE  /\ m.min \in Served /\ m.max \in Served /\ m.cycle \in Served
         /\ m.known \in 0..Chunks /\ m.group \in BOOLEAN /\ m.min <= m.max /\ m.max <= m.cycle
         /\ m.min \in Nat /\ m.max \in Nat /\ m.cycle \in Nat /\ m.known \in Nat /\ m.min > 0
<1>1. /\ m \in [min : 1..MaxServed, max : 1..MaxServed, cycle : 1..MaxServed,
                known : 0..Chunks, group : BOOLEAN]
      /\ m.min <= m.max /\ m.max <= m.cycle
  BY DEF Src!Requests
<1>2. /\ m.min \in Served /\ m.max \in Served /\ m.cycle \in Served
      /\ m.known \in 0..Chunks /\ m.group \in BOOLEAN
  BY <1>1 DEF Served
<1> QED BY <1>1, <1>2 DEF Served, SourceSizes

LEMMA PlaceIs ==
  ASSUME SourceSizes, NEW m \in Src!Requests, NEW i \in Nat \ {0}, NEW b \in Nat, b <= m.max,
         NEW c \in 1..Chunks, Chunks * (m.max - b) + c = m.known + i
  PROVE  <<b, c>> = Src!Place(m, i)
<1> DEFINE k == m.known + i - 1
           q == m.max - b
<1>1. m.max \in Nat /\ m.known \in Nat /\ Chunks \in Nat \ {0} /\ q \in Nat /\ c - 1 \in 0..Chunks - 1
  BY RequestIs DEF SourceSizes
<1>2. Chunks * q \in Nat
  <2> HIDE DEF q
  <2> QED BY <1>1, SMTT(30)
<1>3. k = Chunks * q + (c - 1)
  BY <1>1, <1>2
<1>4. k \div Chunks = q /\ k % Chunks = c - 1
  <2> HIDE DEF q, k
  <2> QED BY <1>1, <1>3, DivisionIs
<1>5. m.max - q = b /\ (c - 1) + 1 = c
  BY <1>1
<1>6. Src!Place(m, i) = <<m.max - (k \div Chunks), (k % Chunks) + 1>>
  BY DEF Src!Place
<1> HIDE DEF k, q
<1> QED BY <1>4, <1>5, <1>6

LEMMA SourceShapes ==
  ASSUME SourceSizes, SourceTyped
  PROVE  /\ Served \subseteq Nat /\ batch.next \in Nat /\ batch.chunk \in Nat /\ batch.prefetch \in Nat
         /\ batch.req \in Src!Requests /\ batch.active \in BOOLEAN /\ batch.dig \in BOOLEAN
         /\ batch.getNext \in BOOLEAN
         /\ session.open \in BOOLEAN /\ Len(ctxs) \in Nat /\ Len(out) \in Nat
         /\ DOMAIN ctxs = 1..Len(ctxs) /\ DOMAIN out = 1..Len(out)
         /\ \A i \in 1..Len(ctxs) : ctxs[i] \in Contexts
         /\ (ctxs # <<>> <=> Len(ctxs) > 0) /\ (out = <<>> <=> Len(out) = 0)
<1>1. batch \in SourceBatches /\ session \in Sessions
  BY DEF SourceTyped
<1>2. /\ batch.next \in Nat /\ batch.chunk \in Nat /\ batch.prefetch \in Nat
      /\ batch.req \in Src!Requests /\ batch.active \in BOOLEAN /\ batch.dig \in BOOLEAN
      /\ batch.getNext \in BOOLEAN
  BY <1>1 DEF SourceBatches, SourceSizes
<1>3. session.open \in BOOLEAN
  BY <1>1 DEF Sessions
<1>4. Served \subseteq Nat
  BY DEF Served
<1>5. ctxs \in Seq(Contexts) /\ out \in Seq(ItemsSent)
  BY DEF SourceTyped
<1>6. /\ Len(ctxs) \in Nat /\ Len(out) \in Nat
      /\ DOMAIN ctxs = 1..Len(ctxs) /\ DOMAIN out = 1..Len(out)
      /\ \A i \in 1..Len(ctxs) : ctxs[i] \in Contexts
      /\ (ctxs # <<>> <=> Len(ctxs) > 0) /\ (out = <<>> <=> Len(out) = 0)
  BY <1>5
<1> QED BY <1>2, <1>3, <1>4, <1>6

LEMMA SourceInit == ASSUME SourceSizes, Src!Init PROVE SourceInv
<1>1. /\ low = 1 /\ head = Head0 /\ mode = "not" /\ held = TRUE
      /\ session = Src!Closed /\ batch = Src!NoBatch /\ ctxs = <<>>
      /\ seqNums = [d \in Dests |-> 0] /\ busy = FALSE /\ out = <<>>
  BY DEF Src!Init
<1>2. Src!NoRequest \in Src!Requests
  BY DEF Src!NoRequest, Src!Requests, SourceSizes
<1>3. batch \in SourceBatches /\ ~batch.active
  BY <1>1, <1>2 DEF SourceBatches, Src!NoBatch, SourceSizes
<1>4. session \in Sessions /\ ~session.open
  BY <1>1 DEF Sessions, Src!Closed
<1>5. SourceTyped
  <2>1. low \in Served /\ head \in Served
    BY <1>1 DEF SourceSizes, Served
  <2>2. ctxs \in Seq(Contexts) /\ Len(ctxs) <= ChunksInBatch /\ out \in Seq(ItemsSent)
    BY <1>1 DEF SourceSizes
  <2>3. seqNums \in [Dests -> 0..MaxSeq]
    BY <1>1 DEF SourceSizes
  <2> QED BY <1>1, <1>3, <1>4, <2>1, <2>2, <2>3 DEF SourceTyped
<1>6. BatchAt /\ ContextsLine /\ Src!PoolIsFree
  BY <1>1, <1>3, <1>4 DEF BatchAt, ContextsLine, Src!Sending, Src!PoolIsFree
<1>7. Src!AnswerInOrder
  BY <1>1 DEF Src!AnswerInOrder
<1> QED BY <1>5, <1>6, <1>7 DEF SourceInv

(* A step that leaves the batch and its contexts alone and opens no session *)
LEMMA SourceFrame ==
  ASSUME SourceSizes, SourceInv, SourceTyped', UNCHANGED <<batch, ctxs, out>>,
         session'.open => session.open /\ session'.owner = session.owner,
         refused' = refused \/ refused' # Src!NoReject,
         mode' = "dest" => mode = "dest"
  PROVE  SourceInv'
<1>1. BatchAt'
  BY DEF SourceInv, BatchAt
<1>2. ContextsLine'
  BY DEF SourceInv, ContextsLine, Src!Sending
<1>3. Src!AnswerInOrder'
  BY DEF SourceInv, Src!AnswerInOrder
<1>4. Src!PoolIsFree'
  BY DEF SourceInv, Src!PoolIsFree
<1> QED BY <1>1, <1>2, <1>3, <1>4 DEF SourceInv

(***************************************************************************)
(* Every step keeps the invariant                                          *)
(***************************************************************************)
LEMMA SessionIs ==
  ASSUME SourceTyped
  PROVE  /\ Src!Closed \in Sessions /\ ~Src!Closed.open
         /\ \A d \in Dests : /\ Src!Opened(d) \in Sessions /\ Src!Opened(d).open
                             /\ Src!Opened(d).owner = d
         /\ Src!Refreshed \in Sessions /\ Src!Refreshed.open = session.open
         /\ Src!Refreshed.owner = session.owner
<1>1. session \in Sessions
  BY DEF SourceTyped
<1>2. Src!Closed \in Sessions /\ ~Src!Closed.open
  BY DEF Src!Closed, Sessions
<1>3. \A d \in Dests : /\ Src!Opened(d) \in Sessions /\ Src!Opened(d).open
                       /\ Src!Opened(d).owner = d
  BY DEF Src!Opened, Sessions
<1>4. /\ Src!Refreshed \in Sessions /\ Src!Refreshed.open = session.open
      /\ Src!Refreshed.owner = session.owner
  BY <1>1 DEF Src!Refreshed, Sessions
<1> QED BY <1>2, <1>3, <1>4

(* Jobs for the blocks from b down to min *)
LEMMA BlocksAre ==
  ASSUME SourceSizes, NEW m \in Src!Requests, m.max - m.min + 1 <= ChunksInBatch
  PROVE  LET g == Src!GetBlocks(m.max, m.min, m.max - m.min + 1)
         IN  /\ g \in Seq(Contexts) /\ Len(g) = m.max - m.min + 1
             /\ \A i \in 1..m.max - m.min + 1 : g[i].b = m.max - i + 1 /\ g[i].fut = "running"
<1> DEFINE n == m.max - m.min + 1
           g == Src!GetBlocks(m.max, m.min, n)
<1>0. /\ m.min \in Nat /\ m.max \in Nat /\ m.min > 0 /\ m.min <= m.max /\ m.max <= MaxServed
      /\ MaxServed \in Nat
  BY RequestIs DEF Served, SourceSizes
<1>1. n \in Nat
  BY <1>0
<1>2. g = [i \in 1..n |-> [b |-> m.max - i + 1, fut |-> "running"]]
  <2>1. Src!Smaller(n, m.max - m.min + 1) = n
    BY <1>1 DEF Src!Smaller
  <2> QED BY <2>1 DEF Src!GetBlocks, Src!Context
<1>3. \A i \in 1..n : [b |-> m.max - i + 1, fut |-> "running"] \in Contexts
  BY <1>0 DEF Contexts, Served
<1> HIDE DEF n, g
<1>4. g \in Seq(Contexts) /\ Len(g) = n
  BY <1>1, <1>2, <1>3
<1>5. \A i \in 1..n : g[i].b = m.max - i + 1 /\ g[i].fut = "running"
  BY <1>2
<1> QED BY <1>4, <1>5 DEF n, g

(* A request that is accepted starts a batch of the session's owner. *)
LEMMA AcceptStep ==
  ASSUME SourceSizes, SourceInv, NEW d \in Dests, NEW m \in Src!Requests,
         Src!Refusal(m, d) = "none", Src!Accept(m, d),
         seqNums' \in [Dests -> 0..MaxSeq], UNCHANGED <<low, head, mode, held>>
  PROVE  SourceInv'
<1> DEFINE n == m.max - m.min + 1
<1>0. /\ session' = Src!Opened(d) /\ batch' = Src!NewBatch(m, d) /\ Src!SourcePrepareBatch(m)
      /\ busy' = TRUE /\ out' = <<>>
  BY DEF Src!Accept
<1>m. /\ m.min \in Served /\ m.max \in Served /\ m.cycle \in Served
      /\ m.known \in 0..Chunks /\ m.group \in BOOLEAN /\ m.min <= m.max /\ m.max <= m.cycle
      /\ m.min \in Nat /\ m.max \in Nat /\ m.cycle \in Nat /\ m.known \in Nat
      /\ Chunks \in Nat \ {0} /\ ChunksInBatch \in Nat \ {0} /\ MaxServed \in Nat /\ m.cycle <= MaxServed
      /\ n \in Nat
  BY RequestIs DEF SourceSizes, Served
<1>t. SourceTyped
  BY DEF SourceInv
<1>1. n <= ChunksInBatch /\ ~Src!ActiveDestination
  BY <1>m DEF Src!Refusal
<1>2. mode # "dest"
  BY <1>1 DEF Src!ActiveDestination, Src!Sending, SourceInv, Src!PoolIsFree
<1>3. /\ ctxs' \in Seq(Contexts) /\ Len(ctxs') = n
      /\ \A i \in 1..n : ctxs'[i].b = m.max - i + 1 /\ ctxs'[i].fut # "taken"
  <2>1. CASE Src!Predicted(m)
    <3>1. ctxs' = ctxs
      BY <1>0, <2>1 DEF Src!SourcePrepareBatch
    <3>2. ctxs \in Seq(Contexts) /\ DOMAIN ctxs = 1..Len(ctxs)
      BY <1>t, SourceShapes DEF SourceTyped
    <3>3. Len(ctxs) = n /\ \A i \in DOMAIN ctxs : ctxs[i].b = m.max - i + 1 /\ ctxs[i].fut # "taken"
      BY <2>1 DEF Src!Predicted
    <3> HIDE DEF n
    <3> QED BY <3>1, <3>2, <3>3
  <2>2. CASE ~Src!Predicted(m)
    <3>1. ctxs' = Src!GetBlocks(m.max, m.min, n)
      BY <1>0, <2>2 DEF Src!SourcePrepareBatch
    <3>2. /\ ctxs' \in Seq(Contexts) /\ Len(ctxs') = n
          /\ \A i \in 1..n : ctxs'[i].b = m.max - i + 1 /\ ctxs'[i].fut = "running"
      BY <1>1, <3>1, BlocksAre
    <3> HIDE DEF n
    <3> QED BY <3>2
  <2> QED BY <2>1, <2>2
<1>4. batch' = [active |-> TRUE, dest |-> d, next |-> m.max, chunk |-> m.known + 1,
                getNext |-> (m.known = 0), dig |-> m.group, req |-> m,
                prefetch |-> IF PreFetch THEN Src!Smaller(m.cycle, m.max + ChunksInBatch) ELSE 0]
  BY <1>0 DEF Src!NewBatch
<1>5. batch' \in SourceBatches
  <2>1. (IF PreFetch THEN Src!Smaller(m.cycle, m.max + ChunksInBatch) ELSE 0) \in 0..MaxServed
    BY <1>m DEF Src!Smaller
  <2>2. m.max \in 0..MaxServed /\ m.known + 1 \in 0..Chunks + 1 /\ (m.known = 0) \in BOOLEAN
    BY <1>m
  <2> HIDE DEF n
  <2> QED BY <1>4, <1>m, <2>1, <2>2 DEF SourceBatches
<1>6. SourceTyped'
  <2>1. session' \in Sessions
    BY <1>0, <1>t, SessionIs
  <2>2. out' \in Seq(ItemsSent)
    BY <1>0
  <2> QED BY <1>0, <1>1, <1>3, <1>5, <1>t, <2>1, <2>2 DEF SourceTyped
<1>7. BatchAt'
  <2>1. Len(out') = 0
    BY <1>0
  <2>2. m.max - m.max = 0 /\ Chunks * 0 = 0
    BY <1>m
  <2>3. Chunks * (m.max - m.max) + (m.known + 1) = m.known + 0 + 1
    BY <1>m, <2>2
  <2> QED BY <1>0, <1>4, <1>m, <2>1, <2>3 DEF BatchAt
<1>8. ContextsLine'
  <2>1. session'.owner = d
    BY <1>0, <1>t, SessionIs
  <2>2. batch'.dest = d /\ batch'.next = m.max /\ batch'.req = m
    BY <1>4
  <2> QED BY <1>3, <1>m, <2>1, <2>2 DEF ContextsLine
<1>9. Src!AnswerInOrder'
  BY <1>0 DEF Src!AnswerInOrder
<1>10. Src!PoolIsFree'
  BY <1>2 DEF Src!PoolIsFree
<1> QED BY <1>6, <1>7, <1>8, <1>9, <1>10 DEF SourceInv

LEMMA OnFetchBlocksStep ==
  ASSUME SourceSizes, SourceInv, NEW d \in Dests, NEW seq \in 1..MaxSeq, Src!OnFetchBlocks(d, seq)
  PROVE  SourceInv'
<1>t. SourceTyped
  BY DEF SourceInv
<1>0. seqNums' \in [Dests -> 0..MaxSeq] /\ UNCHANGED <<low, head, mode, held>>
  <2>1. seqNums' = [seqNums EXCEPT ![d] = seq] /\ UNCHANGED <<low, head, mode, held>>
    BY DEF Src!OnFetchBlocks, Src!Fresh
  <2>2. seqNums \in [Dests -> 0..MaxSeq] /\ seq \in 0..MaxSeq
    BY <1>t DEF SourceTyped, SourceSizes
  <2> QED BY <2>1, <2>2
<1>1. CASE \E m \in Src!Requests : Src!Refusal(m, d) = "none" /\ Src!Accept(m, d)
  BY <1>0, <1>1, AcceptStep
<1>2. CASE \E x \in {[why |-> Src!Refusal(m, d), b |-> m.max] : m \in Src!Requests} :
             /\ x.why # "none"
             /\ Src!Reject(IF x.why = "digests" THEN Src!Opened(d) ELSE session, d, x.why, x.b)
             /\ UNCHANGED <<batch, ctxs, busy, out>>
  <2>1. PICK x : /\ x.why # "none"
                 /\ Src!Reject(IF x.why = "digests" THEN Src!Opened(d) ELSE session, d, x.why, x.b)
                 /\ UNCHANGED <<batch, ctxs, busy, out>>
    BY <1>2
  <2>2. /\ session' = Src!ClosedFor(IF x.why = "digests" THEN Src!Opened(d) ELSE session, d)
        /\ refused' = [why |-> x.why, b |-> x.b]
    BY <2>1 DEF Src!Reject
  <2>3. refused' # Src!NoReject
    BY <2>1, <2>2 DEF Src!NoReject
  <2>4. session' \in {Src!Closed, session}
    BY <1>t, <2>2, SessionIs DEF Src!ClosedFor
  <2>5. session' \in Sessions /\ (session'.open => session.open /\ session'.owner = session.owner)
    BY <1>t, <2>4, SessionIs DEF SourceTyped
  <2>6. SourceTyped'
    BY <1>0, <1>t, <2>1, <2>5 DEF SourceTyped
  <2> QED BY <1>0, <2>1, <2>3, <2>5, <2>6, SourceFrame
<1> QED BY <1>1, <1>2 DEF Src!OnFetchBlocks

(* A batch that is being sent has a context, and taking its block leaves   *)
(* the others as they are.                                                 *)
LEMMA TakenIs ==
  ASSUME SourceSizes, SourceTyped, BatchAt, ContextsLine, Src!Sending
  PROVE  /\ Len(ctxs) > 0 /\ ctxs # <<>>
         /\ Src!Taken \in Seq(Contexts) /\ Len(Src!Taken) = Len(ctxs)
         /\ \A i \in 1..Len(ctxs) : Src!Taken[i].b = ctxs[i].b /\ (i # 1 => Src!Taken[i] = ctxs[i])
<1>s. /\ batch.next \in Nat /\ batch.req \in Src!Requests /\ Len(ctxs) \in Nat
      /\ DOMAIN ctxs = 1..Len(ctxs) /\ \A i \in 1..Len(ctxs) : ctxs[i] \in Contexts
  BY SourceShapes
<1>t. ctxs \in Seq(Contexts)
  BY DEF SourceTyped
<1>1. Len(ctxs) > 0 /\ ctxs # <<>>
  <2>1. batch.req.min \in Nat /\ batch.req.min <= batch.next
    BY <1>s, RequestIs DEF BatchAt, Src!Sending
  <2>2. Len(ctxs) >= batch.next - batch.req.min + 1
    BY DEF ContextsLine
  <2>3. Len(ctxs) > 0
    BY <1>s, <2>1, <2>2
  <2> QED BY <2>3
<1> DEFINE c == [ctxs[1] EXCEPT !.fut = IF batch.getNext THEN "taken" ELSE @]
<1>2. Src!Taken = [ctxs EXCEPT ![1] = c]
  BY DEF Src!Taken
<1>3. ctxs[1] \in Contexts
  BY <1>1, <1>s
<1>4. c \in Contexts /\ c.b = ctxs[1].b
  BY <1>3 DEF Contexts
<1> HIDE DEF c
<1>5. /\ Src!Taken \in Seq(Contexts) /\ Len(Src!Taken) = Len(ctxs)
      /\ \A i \in 1..Len(ctxs) : Src!Taken[i] = IF i = 1 THEN c ELSE ctxs[i]
  BY <1>t, <1>1, <1>2, <1>4
<1> QED BY <1>1, <1>4, <1>5

LEMMA AbortStep ==
  ASSUME SourceSizes, SourceInv, NEW why \in {"missing", "chunk", "digests"}, Src!Abort(why),
         Src!Sending, UNCHANGED <<low, head, mode, seqNums, held>>
  PROVE  SourceInv'
<1>t. SourceTyped
  BY DEF SourceInv
<1>0. /\ session' = Src!ClosedFor(Src!Closed, batch.dest) /\ refused' = [why |-> why, b |-> batch.next]
      /\ batch' = [batch EXCEPT !.active = FALSE] /\ busy' = FALSE
      /\ ctxs' = Src!Taken /\ UNCHANGED out
  BY DEF Src!Abort, Src!Reject
<1>c. ctxs' \in Seq(Contexts) /\ Len(ctxs') = Len(ctxs)
  BY <1>0, TakenIs DEF SourceInv
<1>1. session' = Src!Closed /\ session' \in Sessions /\ ~session'.open
  BY <1>0, <1>t, SessionIs DEF Src!ClosedFor
<1>2. refused' # Src!NoReject
  BY <1>0 DEF Src!NoReject
<1>3. batch' \in SourceBatches /\ ~batch'.active /\ batch'.req = batch.req
  <2>1. batch \in SourceBatches
    BY <1>t DEF SourceTyped
  <2> QED BY <1>0, <2>1 DEF SourceBatches
<1>4. SourceTyped'
  BY <1>0, <1>1, <1>3, <1>c, <1>t DEF SourceTyped
<1>5. BatchAt' /\ ContextsLine'
  BY <1>1, <1>3 DEF BatchAt, ContextsLine, Src!Sending
<1>6. Src!AnswerInOrder'
  BY <1>0, <1>2, <1>3 DEF SourceInv, Src!AnswerInOrder
<1>7. Src!PoolIsFree'
  BY DEF SourceInv, Src!PoolIsFree, Src!Sending
<1> QED BY <1>4, <1>5, <1>6, <1>7 DEF SourceInv

(* After a chunk the batch is at the next one. *)
LEMMA AdvancedIs ==
  ASSUME SourceSizes, SourceTyped, BatchAt, batch.active, batch.chunk <= Chunks
  PROVE  /\ Src!Advanced \in SourceBatches
         /\ Src!Advanced.active = ~Src!BatchDone /\ Src!Advanced.dig = FALSE
         /\ Src!Advanced.dest = batch.dest /\ Src!Advanced.req = batch.req
         /\ Src!Advanced.next = (IF Src!BlockDone /\ ~Src!BatchDone THEN batch.next - 1 ELSE batch.next)
         /\ ~Src!BatchDone =>
              /\ Src!Advanced.chunk = (IF Src!BlockDone THEN 1 ELSE batch.chunk + 1)
              /\ Src!Advanced.getNext = Src!BlockDone
<1>0. batch \in SourceBatches
  BY DEF SourceTyped
<1>s. /\ batch.next \in Nat /\ batch.chunk \in Nat /\ batch.prefetch \in Nat
      /\ Len(out) \in Nat /\ batch.req \in Src!Requests /\ Chunks \in Nat \ {0}
  BY SourceShapes DEF SourceSizes
<1>m. batch.req.min \in Nat /\ batch.req.min > 0 /\ batch.req.min <= batch.next
  BY <1>s, RequestIs DEF BatchAt
<1>1. Src!BatchDone \in BOOLEAN /\ Src!BlockDone \in BOOLEAN
  BY DEF Src!BatchDone, Src!BlockDone
<1> DEFINE pr == IF Src!BlockDone /\ batch.prefetch > 0 THEN batch.prefetch - 1 ELSE batch.prefetch
           nx == IF Src!BlockDone /\ ~Src!BatchDone THEN batch.next - 1 ELSE batch.next
           ck == IF Src!BatchDone THEN batch.chunk ELSE IF Src!BlockDone THEN 1 ELSE batch.chunk + 1
<1>2. Src!Advanced = [batch EXCEPT !.active = ~Src!BatchDone, !.dig = FALSE, !.prefetch = pr,
                        !.next = nx, !.chunk = ck, !.getNext = (Src!BlockDone /\ ~Src!BatchDone)]
  BY DEF Src!Advanced
<1>b. batch.prefetch \in 0..MaxServed /\ batch.next \in 0..MaxServed /\ MaxServed \in Nat
  BY <1>0 DEF SourceBatches, SourceSizes
<1>3. pr \in 0..MaxServed
  BY <1>b
<1>4. nx \in 0..MaxServed
  BY <1>b, <1>m
<1>5. ck \in 0..Chunks + 1
  <2>1. ~Src!BlockDone => batch.chunk < Chunks
    BY <1>s DEF Src!BlockDone
  <2> QED BY <1>s, <2>1
<1> HIDE DEF pr, nx, ck
<1>6. /\ Src!Advanced \in SourceBatches
      /\ Src!Advanced.active = ~Src!BatchDone /\ Src!Advanced.dig = FALSE
      /\ Src!Advanced.dest = batch.dest /\ Src!Advanced.req = batch.req
      /\ Src!Advanced.next = nx /\ Src!Advanced.chunk = ck
      /\ Src!Advanced.getNext = (Src!BlockDone /\ ~Src!BatchDone)
  BY <1>0, <1>1, <1>2, <1>3, <1>4, <1>5 DEF SourceBatches
<1>7. ~Src!BatchDone => Src!Advanced.getNext = Src!BlockDone
  BY <1>1, <1>6
<1> QED BY <1>6, <1>7 DEF nx, ck

(* The contexts after a chunk: the front one goes when its block is done. *)
LEMMA ContextsAfter ==
  ASSUME SourceSizes, SourceTyped, BatchAt, ContextsLine, Src!Sending,
         ctxs' = IF Src!BlockDone THEN Src!Finalized ELSE Src!Taken
  PROVE  /\ ctxs' \in Seq(Contexts) /\ Len(ctxs') <= ChunksInBatch
         /\ Src!BlockDone =>
              /\ Len(ctxs') >= Len(ctxs) - 1
              /\ \A i \in 1..Len(ctxs) - 1 : ctxs'[i] = ctxs[i + 1]
         /\ ~Src!BlockDone =>
              /\ Len(ctxs') = Len(ctxs)
              /\ \A i \in 1..Len(ctxs) : ctxs'[i].b = ctxs[i].b /\ (i # 1 => ctxs'[i] = ctxs[i])
<1>s. /\ batch.req \in Src!Requests /\ Len(ctxs) \in Nat
  BY SourceShapes
<1>t. ctxs \in Seq(Contexts) /\ Len(ctxs) <= ChunksInBatch /\ ChunksInBatch \in Nat
  BY DEF SourceTyped, SourceSizes
<1>1. Len(ctxs) > 0 /\ ctxs # <<>>
  BY TakenIs
<1>2. CASE Src!BlockDone
  <2> DEFINE extra == IF batch.prefetch > batch.req.max THEN <<Src!Context(batch.prefetch)>> ELSE <<>>
             tl == Tail(ctxs)
  <2>1. ctxs' = tl \o extra
    BY <1>2 DEF Src!Finalized
  <2>2. extra \in Seq(Contexts) /\ Len(extra) <= 1 /\ Len(extra) \in Nat
    <3>1. CASE batch.prefetch > batch.req.max
      <4>1. batch.prefetch \in 0..MaxServed /\ MaxServed \in Nat
        BY DEF SourceTyped, SourceBatches, SourceSizes
      <4>2. batch.prefetch \in Served
        BY <1>s, <3>1, <4>1, RequestIs DEF Served
      <4>3. Src!Context(batch.prefetch) \in Contexts
        BY <4>2 DEF Src!Context, Contexts
      <4>4. extra = <<Src!Context(batch.prefetch)>>
        BY <3>1
      <4> QED BY <4>3, <4>4
    <3>2. CASE ~(batch.prefetch > batch.req.max)
      <4>1. extra = <<>>
        BY <3>2
      <4> QED BY <4>1
    <3> QED BY <3>1, <3>2
  <2>3. /\ tl \in Seq(Contexts) /\ Len(tl) = Len(ctxs) - 1
        /\ \A i \in 1..Len(ctxs) - 1 : tl[i] = ctxs[i + 1]
    BY <1>1, <1>t, HeadTailProperties
  <2> HIDE DEF extra, tl
  <2>4. /\ tl \o extra \in Seq(Contexts) /\ Len(tl \o extra) = Len(tl) + Len(extra)
        /\ \A i \in 1..Len(tl) : (tl \o extra)[i] = tl[i]
    BY <2>2, <2>3
  <2>5. Len(ctxs') <= ChunksInBatch /\ Len(ctxs') >= Len(ctxs) - 1
    BY <1>1, <1>s, <1>t, <2>1, <2>2, <2>3, <2>4
  <2> QED BY <1>2, <2>1, <2>3, <2>4, <2>5
<1>3. CASE ~Src!BlockDone
  BY <1>3, <1>t, TakenIs
<1> QED BY <1>2, <1>3

LEMMA SendChunkStep ==
  ASSUME SourceSizes, SourceInv, Src!Sending, Src!SendChunk,
         UNCHANGED <<low, head, mode, seqNums, held>>
  PROVE  SourceInv'
<1> DEFINE L == Len(out)
           n == batch.next - batch.req.min + 1
<1>i. SourceTyped /\ BatchAt /\ ContextsLine
  BY DEF SourceInv
<1>0. /\ batch.chunk <= Chunks
      /\ out' = Append(out, Src!Item) /\ ctxs' = (IF Src!BlockDone THEN Src!Finalized ELSE Src!Taken)
      /\ batch' = Src!Advanced
      /\ session' = IF Src!BatchDone /\ batch.req.max = batch.req.cycle THEN Src!Closed ELSE Src!Refreshed
      /\ busy' \in BOOLEAN /\ refused' = refused
  BY DEF Src!SendChunk
<1>s. /\ batch.next \in Nat /\ batch.chunk \in Nat /\ batch.req \in Src!Requests
      /\ batch.active /\ session.open /\ batch.dig \in BOOLEAN /\ batch.getNext \in BOOLEAN
      /\ Len(ctxs) \in Nat /\ L \in Nat /\ DOMAIN out = 1..L /\ (out = <<>> <=> L = 0)
      /\ Chunks \in Nat \ {0} /\ ChunksInBatch \in Nat \ {0}
  BY <1>i, SourceShapes DEF Src!Sending, SourceSizes
<1>m. batch.req.min \in Nat /\ batch.req.max \in Nat /\ batch.req.known \in Nat
  BY <1>s, RequestIs
<1>a. /\ batch.req.min <= batch.next /\ batch.next <= batch.req.max /\ batch.chunk > 0
      /\ Chunks * (batch.req.max - batch.next) + batch.chunk = batch.req.known + L + 1
  BY <1>i, <1>s DEF BatchAt
<1>g. batch.dig <=> (batch.req.group /\ out = <<>>)
  BY <1>i, <1>s DEF BatchAt
<1>n. n \in Nat /\ n > 0 /\ batch.chunk \in 1..Chunks
  BY <1>0, <1>s, <1>m, <1>a
<1>p. /\ Chunks * (batch.req.max - batch.next) + batch.chunk = batch.req.known + (L + 1)
      /\ Chunks * (batch.req.max - batch.next) + (batch.chunk + 1) = batch.req.known + (L + 1) + 1
      /\ batch.chunk = Chunks =>
           Chunks * (batch.req.max - (batch.next - 1)) + 1 = batch.req.known + (L + 1) + 1
  <2>1. PICK q \in Nat : q = batch.req.max - batch.next
    BY <1>s, <1>m, <1>a
  <2>2. Chunks * q \in Nat /\ Chunks * (q + 1) = Chunks * q + Chunks
    <3>1. Chunks \in Nat
      BY <1>s
    <3> QED BY <3>1, SMTT(30)
  <2>3. PICK z \in Nat : z = Chunks * q
    BY <2>2
  <2>4. batch.req.max - (batch.next - 1) = q + 1
    BY <1>s, <1>m, <2>1
  <2>5. Chunks * (batch.req.max - batch.next) = z /\ Chunks * (batch.req.max - (batch.next - 1)) = z + Chunks
    BY <2>1, <2>2, <2>3, <2>4
  <2>6. z + batch.chunk = batch.req.known + L + 1
    BY <1>a, <2>5
  <2> HIDE DEF L
  <2>7. /\ z + batch.chunk = batch.req.known + (L + 1)
        /\ z + (batch.chunk + 1) = batch.req.known + (L + 1) + 1
        /\ batch.chunk = Chunks => z + Chunks + 1 = batch.req.known + (L + 1) + 1
    BY <1>s, <1>m, <2>6
  <2> QED BY <2>5, <2>7
<1>1. /\ batch' \in SourceBatches
      /\ batch'.active = ~Src!BatchDone /\ batch'.dig = FALSE
      /\ batch'.dest = batch.dest /\ batch'.req = batch.req
      /\ batch'.next = (IF Src!BlockDone /\ ~Src!BatchDone THEN batch.next - 1 ELSE batch.next)
      /\ ~Src!BatchDone =>
              /\ batch'.chunk = (IF Src!BlockDone THEN 1 ELSE batch.chunk + 1)
              /\ batch'.getNext = Src!BlockDone
  BY <1>0, <1>i, <1>s, AdvancedIs
<1>2. /\ ctxs' \in Seq(Contexts) /\ Len(ctxs') <= ChunksInBatch
      /\ Src!BlockDone =>
           /\ Len(ctxs') >= Len(ctxs) - 1
           /\ \A i \in 1..Len(ctxs) - 1 : ctxs'[i] = ctxs[i + 1]
      /\ ~Src!BlockDone =>
           /\ Len(ctxs') = Len(ctxs)
           /\ \A i \in 1..Len(ctxs) : ctxs'[i].b = ctxs[i].b /\ (i # 1 => ctxs'[i] = ctxs[i])
  BY <1>0, <1>i, ContextsAfter
<1>3. /\ Src!Item \in ItemsSent /\ Src!Item.b = batch.next /\ Src!Item.c = batch.chunk
      /\ Src!Item.dig = batch.dig
      /\ Src!Item.last = (L + 1 >= ChunksInBatch \/ batch.next - 1 < batch.req.min)
  <2>1. batch.next \in 0..MaxServed /\ batch.chunk \in 0..Chunks + 1 /\ batch.dig \in BOOLEAN
    BY <1>i DEF SourceTyped, SourceBatches
  <2>2. Src!Item = [b |-> batch.next, c |-> batch.chunk, dig |-> batch.dig,
                    last |-> (L + 1 >= ChunksInBatch \/ batch.next - 1 < batch.req.min),
                    right |-> (Src!Ctx.fut \in {"found", "taken"})]
    BY DEF Src!Item
  <2> HIDE DEF L
  <2> QED BY <2>1, <2>2 DEF ItemsSent
<1>4. /\ out' \in Seq(ItemsSent) /\ Len(out') = L + 1 /\ out'[L + 1] = Src!Item
      /\ DOMAIN out' = 1..L + 1 /\ out' # <<>>
      /\ \A i \in 1..L : out'[i] = out[i]
  <2>1. out \in Seq(ItemsSent)
    BY <1>i DEF SourceTyped
  <2> QED BY <1>0, <1>3, <2>1
<1>5. session' \in Sessions /\ session'.owner \in {session.owner, Src!Closed.owner}
      /\ (session'.open => session' = Src!Refreshed) /\ Src!Refreshed.owner = session.owner
  <2>1. /\ Src!Closed \in Sessions /\ ~Src!Closed.open /\ Src!Refreshed \in Sessions
        /\ Src!Refreshed.owner = session.owner
    BY <1>i, SessionIs
  <2> QED BY <1>0, <2>1
<1>6. SourceTyped'
  BY <1>0, <1>1, <1>2, <1>4, <1>5, <1>i DEF SourceTyped
<1>d. /\ Src!BlockDone <=> batch.chunk = Chunks
      /\ Src!BatchDone <=> (L + 1 >= ChunksInBatch \/ (Src!BlockDone /\ batch.next - 1 < batch.req.min))
  BY DEF Src!BlockDone, Src!BatchDone
<1>7. BatchAt'
  <2> SUFFICES ASSUME ~Src!BatchDone
               PROVE  /\ batch.req.min <= batch'.next /\ batch'.next <= batch.req.max /\ batch'.chunk > 0
                      /\ Chunks * (batch.req.max - batch'.next) + batch'.chunk = batch.req.known + (L + 1) + 1
                      /\ batch'.dig <=> (batch.req.group /\ out' = <<>>)
    BY <1>1, <1>4 DEF BatchAt
  <2> HIDE DEF L
  <2>g. batch'.dig <=> (batch.req.group /\ out' = <<>>)
    BY <1>1, <1>4
  <2>1. CASE Src!BlockDone
    <3>1. batch'.next = batch.next - 1 /\ batch'.chunk = 1 /\ batch.chunk = Chunks
          /\ ~(batch.next - 1 < batch.req.min)
      BY <1>1, <1>d, <2>1
    <3>2. Chunks * (batch.req.max - batch'.next) + batch'.chunk = batch.req.known + (L + 1) + 1
      BY <1>p, <3>1
    <3>3. batch.req.min <= batch'.next /\ batch'.next <= batch.req.max /\ batch'.chunk > 0
      BY <1>a, <1>m, <1>s, <3>1
    <3> QED BY <2>g, <3>2, <3>3
  <2>2. CASE ~Src!BlockDone
    <3>1. batch'.next = batch.next /\ batch'.chunk = batch.chunk + 1
      BY <1>1, <2>2
    <3>2. Chunks * (batch.req.max - batch'.next) + batch'.chunk = batch.req.known + (L + 1) + 1
      BY <1>p, <3>1
    <3>3. batch.req.min <= batch'.next /\ batch'.next <= batch.req.max /\ batch'.chunk > 0
      BY <1>a, <1>m, <1>s, <3>1
    <3> QED BY <2>g, <3>2, <3>3
  <2> QED BY <2>1, <2>2
<1>8. ContextsLine'
  <2> SUFFICES ASSUME ~Src!BatchDone, session'.open
               PROVE  /\ batch.dest = session'.owner
                      /\ Len(ctxs') >= batch'.next - batch.req.min + 1
                      /\ \A i \in 1..batch'.next - batch.req.min + 1 :
                           /\ ctxs'[i].b = batch'.next - i + 1
                           /\ ctxs'[i].fut = "taken" => i = 1 /\ ~batch'.getNext
    BY <1>1 DEF ContextsLine, Src!Sending
  <2>1. batch.dest = session'.owner
    BY <1>5, <1>i DEF ContextsLine
  <2>2. /\ Len(ctxs) >= n
        /\ \A i \in 1..n : ctxs[i].b = batch.next - i + 1 /\ (ctxs[i].fut = "taken" => i = 1)
    <3>1. /\ Len(ctxs) >= batch.next - batch.req.min + 1
          /\ \A i \in 1..batch.next - batch.req.min + 1 :
               /\ ctxs[i].b = batch.next - i + 1
               /\ ctxs[i].fut = "taken" => i = 1 /\ ~batch.getNext
      BY <1>i DEF ContextsLine
    <3> QED BY <3>1
  <2>3. CASE Src!BlockDone
    <3>1. batch'.next = batch.next - 1 /\ batch'.next - batch.req.min + 1 = n - 1
      BY <1>1, <1>m, <1>s, <2>3
    <3>2. Len(ctxs') >= n - 1
      <4>1. Len(ctxs') >= Len(ctxs) - 1 /\ Len(ctxs') \in Nat
        BY <1>2, <2>3
      <4> HIDE DEF n
      <4> QED BY <1>n, <1>s, <2>2, <4>1
    <3>3. ASSUME NEW i \in 1..n - 1
          PROVE  ctxs'[i].b = batch'.next - i + 1 /\ ctxs'[i].fut # "taken"
      <4>1. i \in 1..Len(ctxs) - 1 /\ i + 1 \in 1..n /\ i + 1 # 1
        <5> HIDE DEF n
        <5> QED BY <1>n, <1>s, <2>2
      <4>2. ctxs'[i] = ctxs[i + 1]
        BY <1>2, <2>3, <4>1
      <4>3. ctxs[i + 1].b = batch.next - (i + 1) + 1 /\ ctxs[i + 1].fut # "taken"
        BY <2>2, <4>1
      <4>4. batch.next - (i + 1) + 1 = batch'.next - i + 1
        BY <1>s, <3>1
      <4> QED BY <4>2, <4>3, <4>4
    <3> QED BY <2>1, <3>1, <3>2, <3>3
  <2>4. CASE ~Src!BlockDone
    <3>1. batch'.next = batch.next /\ ~batch'.getNext
      BY <1>1, <2>4
    <3>2. \A i \in 1..n : i \in 1..Len(ctxs)
      <4> HIDE DEF n
      <4> QED BY <1>n, <1>s, <2>2
    <3> HIDE DEF n
    <3>3. \A i \in 1..n : ctxs'[i].b = batch.next - i + 1 /\ (ctxs'[i].fut = "taken" => i = 1)
      BY <1>2, <2>2, <2>4, <3>2
    <3> QED BY <1>2, <2>1, <2>2, <2>4, <3>1, <3>3 DEF n
  <2> QED BY <2>3, <2>4
<1>9. Src!AnswerInOrder'
  <2>1. <<batch.next, batch.chunk>> = Src!Place(batch.req, L + 1)
    <3>1. L + 1 \in Nat \ {0}
      BY <1>s
    <3>2. batch.req \in Src!Requests /\ batch.next \in Nat
      BY <1>s
    <3> HIDE DEF L
    <3> QED BY <1>a, <1>n, <1>p, <3>1, <3>2, PlaceIs, ZenonT(60)
  <2>2. \A i \in DOMAIN out : <<out[i].b, out[i].c>> = Src!Place(batch.req, i)
                              /\ (out[i].dig <=> (batch.req.group /\ i = 1))
    BY DEF SourceInv, Src!AnswerInOrder
  <2>3. ASSUME NEW i \in 1..L + 1
        PROVE  <<out'[i].b, out'[i].c>> = Src!Place(batch.req, i)
               /\ (out'[i].dig <=> (batch.req.group /\ i = 1))
    <3>1. CASE i = L + 1
      <4>1. out'[i] = Src!Item
        BY <1>4, <3>1
      <4>2. i = 1 <=> out = <<>>
        BY <1>s, <3>1
      <4>3. <<out'[i].b, out'[i].c>> = Src!Place(batch.req, i)
        BY <1>3, <2>1, <3>1, <4>1
      <4>4. out'[i].dig <=> (batch.req.group /\ i = 1)
        BY <1>3, <1>g, <4>1, <4>2
      <4> QED BY <4>3, <4>4
    <3>2. CASE i # L + 1
      <4>1. i \in 1..L
        BY <1>s, <3>2
      <4> QED BY <1>4, <1>s, <2>2, <4>1
    <3> QED BY <3>1, <3>2
  <2>4. ~batch'.active => out'[L + 1].last
    BY <1>1, <1>3, <1>4, <1>d
  <2>5. Src!Last(out)' = out'[L + 1]
    BY <1>4 DEF Src!Last
  <2>6. \A i \in 1..L + 1 : Src!Place(batch.req, i)' = Src!Place(batch.req, i)
    BY <1>1 DEF Src!Place
  <2> HIDE DEF L
  <2> QED BY <1>1, <1>4, <2>3, <2>4, <2>5, <2>6 DEF Src!AnswerInOrder, Src!Place
<1>10. Src!PoolIsFree'
  BY DEF SourceInv, Src!PoolIsFree, Src!Sending
<1> QED BY <1>6, <1>7, <1>8, <1>9, <1>10 DEF SourceInv

LEMMA ContinueSendBatchStep ==
  ASSUME SourceSizes, SourceInv, Src!ContinueSendBatch
  PROVE  SourceInv'
<1>0. Src!Sending /\ UNCHANGED <<low, head, mode, seqNums, held>>
  BY DEF Src!ContinueSendBatch
<1>1. CASE Src!Wait
  <2>1. busy' = FALSE /\ session' = Src!Refreshed /\ UNCHANGED <<batch, ctxs, out, refused>>
    BY <1>1 DEF Src!Wait
  <2>2. session' \in Sessions /\ session'.open = session.open /\ session'.owner = session.owner
    BY <2>1, SessionIs DEF SourceInv
  <2>3. SourceTyped'
    BY <1>0, <2>1, <2>2 DEF SourceInv, SourceTyped
  <2> QED BY <1>0, <2>1, <2>2, <2>3, SourceFrame
<1>2. CASE Src!NotFound
  BY <1>0, <1>2, AbortStep DEF Src!NotFound
<1>3. CASE Src!IllegalChunk
  BY <1>0, <1>3, AbortStep DEF Src!IllegalChunk
<1>4. CASE Src!NoDigests
  BY <1>0, <1>4, AbortStep DEF Src!NoDigests
<1>5. CASE Src!SendChunk
  BY <1>0, <1>5, SendChunkStep
<1> QED BY <1>1, <1>2, <1>3, <1>4, <1>5 DEF Src!ContinueSendBatch

(* A job that ends changes what its context holds, and never takes it. *)
LEMMA WorkerStep ==
  ASSUME SourceSizes, SourceInv, NEW i \in DOMAIN ctxs, Src!Worker(i)
  PROVE  SourceInv'
<1>t. SourceTyped
  BY DEF SourceInv
<1>s. /\ ctxs \in Seq(Contexts) /\ Len(ctxs) \in Nat /\ i \in 1..Len(ctxs) /\ ctxs[i] \in Contexts
      /\ batch.next \in Nat /\ batch.req \in Src!Requests
  BY <1>t, SourceShapes DEF SourceTyped
<1>0. UNCHANGED <<low, head, mode, session, batch, seqNums, held, busy, out, refused>>
  BY DEF Src!Worker
<1> DEFINE read == IF ctxs[i].fut = "running" /\ ctxs[i].b \in low..head THEN "found" ELSE "missing"
           c == [ctxs[i] EXCEPT !.fut = read]
<1>1. ctxs' = [ctxs EXCEPT ![i] = c]
  BY DEF Src!Worker
<1>2. c \in Contexts /\ c.b = ctxs[i].b /\ c.fut # "taken"
  <2>1. read \in {"found", "missing"}
    OBVIOUS
  <2> HIDE DEF read
  <2> QED BY <1>s, <2>1 DEF Contexts
<1> HIDE DEF c
<1>3. /\ ctxs' \in Seq(Contexts) /\ Len(ctxs') = Len(ctxs)
      /\ \A j \in 1..Len(ctxs) : ctxs'[j] = IF j = i THEN c ELSE ctxs[j]
  BY <1>s, <1>1, <1>2
<1>4. SourceTyped'
  BY <1>0, <1>3, <1>t DEF SourceTyped
<1>5. BatchAt'
  BY <1>0 DEF SourceInv, BatchAt
<1>6. ContextsLine'
  <2> DEFINE n == batch.next - batch.req.min + 1
  <2> SUFFICES ASSUME Src!Sending
               PROVE  /\ batch.dest = session.owner /\ Len(ctxs') >= n
                      /\ \A j \in 1..n : /\ ctxs'[j].b = batch.next - j + 1
                                         /\ ctxs'[j].fut = "taken" => j = 1 /\ ~batch.getNext
    BY <1>0 DEF ContextsLine, Src!Sending
  <2>1. /\ batch.dest = session.owner /\ Len(ctxs) >= n
        /\ \A j \in 1..n : /\ ctxs[j].b = batch.next - j + 1
                           /\ ctxs[j].fut = "taken" => j = 1 /\ ~batch.getNext
    BY DEF SourceInv, ContextsLine
  <2>2. n \in Int
    BY <1>s, RequestIs
  <2> HIDE DEF n
  <2>3. \A j \in 1..n : j \in 1..Len(ctxs)
    BY <1>s, <2>1, <2>2
  <2> QED BY <1>2, <1>3, <2>1, <2>3
<1>7. Src!AnswerInOrder'
  BY <1>0 DEF SourceInv, Src!AnswerInOrder
<1>8. Src!PoolIsFree'
  <2>1. ctxs # <<>>
    BY <1>s
  <2> QED BY <1>0, <2>1 DEF SourceInv, Src!PoolIsFree
<1> QED BY <1>4, <1>5, <1>6, <1>7, <1>8 DEF SourceInv

(* A reset ends the session, the batch and the contexts. *)
LEMMA StResetStep ==
  ASSUME SourceSizes, SourceInv, Src!StReset, mode' \in {"dest", "not"},
         UNCHANGED <<low, head, held, busy, refused>>
  PROVE  SourceInv'
<1>t. SourceTyped
  BY DEF SourceInv
<1>0. /\ session' = Src!Closed /\ batch' = [batch EXCEPT !.active = FALSE] /\ ctxs' = <<>>
      /\ out' = <<>> /\ seqNums' = [d \in Dests |-> 0]
  BY DEF Src!StReset
<1>1. session' \in Sessions /\ ~session'.open
  BY <1>0, <1>t, SessionIs
<1>2. batch' \in SourceBatches /\ ~batch'.active
  <2>1. batch \in SourceBatches
    BY <1>t DEF SourceTyped
  <2> QED BY <1>0, <2>1 DEF SourceBatches
<1>3. SourceTyped'
  <2>1. ctxs' \in Seq(Contexts) /\ Len(ctxs') <= ChunksInBatch /\ out' \in Seq(ItemsSent)
    BY <1>0 DEF SourceSizes
  <2>2. seqNums' \in [Dests -> 0..MaxSeq]
    BY <1>0 DEF SourceSizes
  <2> QED BY <1>0, <1>1, <1>2, <1>t, <2>1, <2>2 DEF SourceTyped
<1>4. BatchAt' /\ ContextsLine'
  BY <1>1, <1>2 DEF BatchAt, ContextsLine, Src!Sending
<1>5. Src!AnswerInOrder' /\ Src!PoolIsFree'
  BY <1>0, <1>1 DEF Src!AnswerInOrder, Src!PoolIsFree
<1> QED BY <1>3, <1>4, <1>5 DEF SourceInv

LEMMA SourceStep == ASSUME SourceSizes, SourceInv, [Src!Next]_Src!vars PROVE SourceInv'
<1>t. SourceTyped
  BY DEF SourceInv
<1>1. ASSUME NEW d \in Dests, NEW seq \in 1..MaxSeq, Src!OnFetchBlocks(d, seq) PROVE SourceInv'
  BY <1>1, OnFetchBlocksStep
<1>2. CASE Src!ContinueSendBatch
  BY <1>2, ContinueSendBatchStep
<1>3. ASSUME NEW i \in DOMAIN ctxs, Src!Worker(i) PROVE SourceInv'
  BY <1>3, WorkerStep
<1>4. CASE Src!StartCollectingState
  BY <1>4, StResetStep DEF Src!StartCollectingState
<1>5. CASE Src!Complete
  <2>1. /\ mode' = "final" /\ head' \in head..MaxServed
        /\ UNCHANGED <<low, session, batch, ctxs, seqNums, held, busy, out, refused>>
    BY <1>5 DEF Src!Complete
  <2>2. head \in Served
    BY <1>t DEF SourceTyped
  <2>3. head' \in Served
    BY <2>1, <2>2 DEF Served, SourceSizes
  <2>4. SourceTyped'
    BY <1>t, <2>1, <2>3 DEF SourceTyped
  <2> QED BY <2>1, <2>4, SourceFrame
<1>6. CASE Src!FinalizeCycle
  BY <1>6, StResetStep DEF Src!FinalizeCycle
<1>7. CASE Src!Expire
  <2>1. /\ session' = [session EXCEPT !.expired = TRUE]
        /\ UNCHANGED <<low, head, mode, batch, ctxs, seqNums, held, busy, out, refused>>
    BY <1>7 DEF Src!Expire
  <2>2. session' \in Sessions /\ session'.open = session.open /\ session'.owner = session.owner
    <3>1. session \in Sessions
      BY <1>t DEF SourceTyped
    <3> QED BY <2>1, <3>1 DEF Sessions
  <2>3. SourceTyped'
    BY <1>t, <2>1, <2>2 DEF SourceTyped
  <2> QED BY <2>1, <2>2, <2>3, SourceFrame
<1>8. CASE Src!AddBlock
  <2>1. /\ head < MaxServed /\ head' = head + 1
        /\ UNCHANGED <<low, mode, session, batch, ctxs, seqNums, held, busy, out, refused>>
    BY <1>8 DEF Src!AddBlock
  <2>2. head' \in Served
    BY <1>t, <2>1 DEF SourceTyped, Served, SourceSizes
  <2>3. SourceTyped'
    BY <1>t, <2>1, <2>2 DEF SourceTyped
  <2> QED BY <2>1, <2>3, SourceFrame
<1>9. CASE Src!Prune
  <2>1. /\ low < head /\ low' = low + 1 /\ held' = FALSE
        /\ UNCHANGED <<head, mode, session, batch, ctxs, seqNums, busy, out, refused>>
    BY <1>9 DEF Src!Prune
  <2>2. low' \in Served
    BY <1>t, <2>1 DEF SourceTyped, Served, SourceSizes
  <2>3. SourceTyped'
    BY <1>t, <2>1, <2>2 DEF SourceTyped
  <2> QED BY <2>1, <2>3, SourceFrame
<1>10. CASE UNCHANGED Src!vars
  <2>1. UNCHANGED <<low, head, mode, session, batch, ctxs, seqNums, held, busy, out, refused>>
    BY <1>10 DEF Src!vars
  <2>2. SourceTyped'
    BY <1>t, <2>1 DEF SourceTyped
  <2> QED BY <2>1, <2>2, SourceFrame
<1> QED BY <1>1, <1>2, <1>3, <1>4, <1>5, <1>6, <1>7, <1>8, <1>9, <1>10 DEF Src!Next

LEMMA SourceInvServes ==
  ASSUME SourceSizes, SourceInv
  PROVE  Src!TypeOK /\ Src!ContextsServe /\ Src!AnswerInOrder /\ Src!PoolIsFree
<1>t. SourceTyped
  BY DEF SourceInv
<1>1. Src!TypeOK
  <2>1. batch \in [active : BOOLEAN, dest : Dests \cup {Src!NoOne}, next : 0..MaxServed,
                   chunk : 0..Chunks + 1, getNext : BOOLEAN, prefetch : 0..MaxServed + ChunksInBatch,
                   dig : BOOLEAN, req : Src!Requests]
    <3>1. batch \in SourceBatches
      BY <1>t DEF SourceTyped
    <3>2. 0..MaxServed \subseteq 0..MaxServed + ChunksInBatch
      BY DEF SourceSizes
    <3> QED BY <3>1, <3>2 DEF SourceBatches
  <2>2. ctxs \in Src!BoundedSeq([b : 1..MaxServed, fut : {"running", "found", "missing", "taken"}],
                                ChunksInBatch)
    <3>1. /\ ctxs \in Seq(Contexts) /\ Len(ctxs) \in 0..ChunksInBatch
      BY <1>t DEF SourceTyped, SourceSizes
    <3>2. ctxs \in [1..Len(ctxs) -> Contexts]
      BY <3>1
    <3>3. ctxs \in UNION {[1..k -> Contexts] : k \in 0..ChunksInBatch}
      BY <3>1, <3>2
    <3> QED BY <3>3 DEF Src!BoundedSeq, Src!SeqOf, Contexts, Served
  <2> QED BY <1>t, <2>1, <2>2 DEF SourceTyped, Served, Sessions, Src!TypeOK
<1>2. Src!ContextsServe
  <2> SUFFICES ASSUME Src!Sending
               PROVE  /\ batch.dest = session.owner /\ ctxs # <<>> /\ Src!Ctx.b = batch.next
                      /\ batch.getNext => Src!Ctx.fut # "taken"
    BY DEF Src!ContextsServe
  <2> DEFINE n == batch.next - batch.req.min + 1
  <2>1. /\ batch.dest = session.owner /\ Len(ctxs) >= n
        /\ \A j \in 1..n : /\ ctxs[j].b = batch.next - j + 1
                           /\ ctxs[j].fut = "taken" => j = 1 /\ ~batch.getNext
    BY DEF SourceInv, ContextsLine
  <2>s. /\ batch.next \in Nat /\ batch.req \in Src!Requests /\ Len(ctxs) \in Nat
        /\ (ctxs # <<>> <=> Len(ctxs) > 0)
    BY <1>t, SourceShapes
  <2>2. n \in Nat /\ n > 0
    <3>1. batch.req.min \in Nat /\ batch.req.min <= batch.next
      BY <2>s, RequestIs DEF SourceInv, BatchAt, Src!Sending
    <3> QED BY <2>s, <3>1
  <2> HIDE DEF n
  <2>3. ctxs # <<>> /\ 1 \in 1..n
    BY <2>1, <2>2, <2>s
  <2>4. Src!Ctx = ctxs[1]
    BY <2>3 DEF Src!Ctx
  <2>5. batch.next - 1 + 1 = batch.next
    BY <2>s
  <2> QED BY <2>1, <2>3, <2>4, <2>5
<1> QED BY <1>1, <1>2 DEF SourceInv

(***************************************************************************)
(* THEOREM.  Whatever the destinations, the number of blocks, the chunks   *)
(* of a block and the size of a batch, with and without prefetching: the   *)
(* contexts of a batch are there in the order of its blocks while it is    *)
(* sent to the owner of the session, and what was sent in answer to a      *)
(* request (FetchBlocksMsg) is, in order, a prefix of what it asks for;    *)
(* while the replica is a destination itself, no context and no session of *)
(* the source is left.                                                     *)
(***************************************************************************)
THEOREM SourceServesInOrder ==
  ASSUME SourceSizes
  PROVE  Src!Spec => [](Src!TypeOK /\ Src!ContextsServe /\ Src!AnswerInOrder /\ Src!PoolIsFree)
<1>1. Src!Init => SourceInv
  BY SourceInit
<1>2. SourceInv /\ [Src!Next]_(Src!vars) => SourceInv'
  BY SourceStep
<1>3. SourceInv => Src!TypeOK /\ Src!ContextsServe /\ Src!AnswerInOrder /\ Src!PoolIsFree
  BY SourceInvServes
<1> QED BY <1>1, <1>2, <1>3, PTL DEF Src!Spec
=============================================================================
