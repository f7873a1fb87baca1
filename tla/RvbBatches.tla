---------------------------- MODULE RvbBatches ----------------------------
(***************************************************************************)
(* Range validation blocks (RVBManager) and the batches of blocks in which *)
(* BCStateTran fetches.  Every FetchRange-th block is a range validation   *)
(* block (RVB); RvtK of them make a group, whose digests come together.    *)
(***************************************************************************)
EXTENDS Naturals, Sequences, FiniteSets

CONSTANTS
  FetchRange,       \* config_.fetchRangeSize
  RvtK,             \* config_.RVT_K
  ChunksInBatch     \* config_.maxNumberOfChunksInBatch

ConfigChecks ==           \* checkConfig
  /\ FetchRange \in Nat \ {0} /\ RvtK \in Nat \ {0} /\ ChunksInBatch \in Nat \ {0}
  /\ FetchRange * RvtK > ChunksInBatch
  /\ FetchRange <= ChunksInBatch

IsRvb(b) == b % FetchRange = 0
PrevRvb(b) == FetchRange * (b \div FetchRange)
NextRvb(b) == IF IsRvb(b) THEN b ELSE PrevRvb(b) + FetchRange
GroupOf(v) == (v \div FetchRange - 1) \div RvtK + 1
Groups(from, to) ==
  IF NextRvb(from) > PrevRvb(to) THEN {} ELSE GroupOf(NextRvb(from))..GroupOf(PrevRvb(to))
Stored(groups) == {groups[i] : i \in 1..Len(groups)}

\* The first group of the range whose digests are not stored, 0 if none.
GroupNeeded(from, to, groups) ==
  LET missing == Groups(from, to) \ Stored(groups)
  IN IF missing = {} THEN 0 ELSE CHOOSE g \in missing : \A h \in missing : g <= h

\* getRvbGroupMaxBlockIdOfNonStoredRvbGroup
GroupBound(from, to, groups, last) ==
  LET g   == GroupNeeded(from, to, groups)
      top == g * RvtK * FetchRange
  IN IF Cardinality(Groups(from, to)) < 2 \/ g = 0 THEN to
     ELSE IF top <= PrevRvb(last) THEN top ELSE PrevRvb(last)

AtMost(a, b) == IF a < b THEN a ELSE b

NextBatchUnaligned(min, last, groups) ==
  LET max == AtMost(min + ChunksInBatch - 1, last)
  IN [min |-> min, max |-> max, next |-> max, digest |-> 0]
NextBatch(min, last, groups) ==
  LET top     == min + ChunksInBatch - 1
      aligned == IF PrevRvb(top) >= min THEN PrevRvb(top) ELSE top
      capped  == AtMost(aligned, last)
      max     == AtMost(capped, GroupBound(min, capped, groups, last))
  IN [min |-> min, max |-> max, next |-> max, digest |-> 0]

\* The digests of at most two groups are kept.
StoreGroup(groups, g) ==
  LET more == Append(groups, g) IN IF Len(more) > 2 THEN Tail(more) ELSE more
=============================================================================
