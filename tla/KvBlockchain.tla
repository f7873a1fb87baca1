--------------------------- MODULE KvBlockchain ---------------------------
(***************************************************************************)
(* The categorized key-value blockchain: blocks are added by execution or  *)
(* linked from the state transfer chain, the genesis block is pruned, and  *)
(* the last block is deleted when a replica that crashed brings its chain  *)
(* back to its metadata.  Two categories keep the keys: the versioned one  *)
(* and the block merkle one, whose tree has a leaf per block.  Column      *)
(* families are functions; every action is one write batch.                *)
(*                                                                         *)
(* log keeps the pruned blocks too: the BLOCKS column family is log on     *)
(* genesis..last, and the rest is history for the properties.              *)
(***************************************************************************)
EXTENDS Naturals, FiniteSets, FiniteSetsExt

CONSTANTS
  VKeys,      \* keys of the versioned category
  MKeys,      \* keys of the block merkle category
  Kinds,      \* what a block may do to a key: "put", "del", "stale" (stale on update)
  MaxBlock    \* bound on block ids

VARIABLES
  genesis,      \* genesis_block_id_
  last,         \* last_reachable_block_id_
  log,          \* the blocks by id
  ver,          \* versioned category: values, latest versions, active keys
  mer,          \* block merkle category: keys, latest versions, active keys
  pruned,       \* active keys of a pruned block
  trees,        \* leaves of the tree at a version, NoTree once nodes are gone
  root,         \* the latest tree version
  stale,        \* tree versions with an entry in the stale index
  lastDeleted,  \* getLastDeletedTreeVersion()
  cache,        \* last_raw_block_
  raw,          \* the next block of the state transfer chain, NoBlock if none
  prunedAt,     \* history: last when a block was last pruned
  undone        \* history: a block was deleted that an earlier pruning had seen

vars == <<genesis, last, log, ver, mer, pruned, trees, root, stale, lastDeleted, cache, raw,
          prunedAt, undone>>

Blocks == 1..MaxBlock
Versions == 1..(2 * MaxBlock)
Touched(u) == {k \in DOMAIN u : u[k] # "no"}

VUpdates == [VKeys -> {"no"} \cup Kinds]
MUpdates == [MKeys -> {"no"} \cup (Kinds \ {"stale"})]
Updates == [v : VUpdates, m : MUpdates]

NoVersion == [ver |-> 0, deleted |-> FALSE]
NoBlock == [id |-> 0]
NoLeaf == [kind |-> "none", keys |-> {}]
NoLeaves == [b \in Blocks |-> NoLeaf]
NoTree == [b \in {} |-> NoLeaf]

Empty(keys) ==
  [values |-> [k \in keys |-> [b \in Blocks |-> "none"]],
   latest |-> [k \in keys |-> NoVersion],
   active |-> [k \in keys |-> 0]]

(***************************************************************************)
(* A category's keys                                                       *)
(***************************************************************************)
Add(c, b, u) ==
  [c EXCEPT
    !.values = [k \in DOMAIN u |->
      IF u[k] = "no" THEN @[k] ELSE [@[k] EXCEPT ![b] = IF u[k] = "del" THEN "del" ELSE "put"]],
    !.latest = [k \in DOMAIN u |->
      IF u[k] = "no" THEN @[k] ELSE [ver |-> b, deleted |-> u[k] = "del"]]]

\* The version before b that the iterator finds.
Previous(c, k, b) ==
  LET found == {v \in 1..(b - 1) : c.values[k][v] # "none"}
  IN IF found = {} THEN NoVersion
     ELSE [ver |-> Max(found), deleted |-> c.values[k][Max(found)] = "del"]

DeleteLastReachable(c, b, u) ==
  [c EXCEPT
    !.values = [k \in DOMAIN u |-> IF u[k] = "no" THEN @[k] ELSE [@[k] EXCEPT ![b] = "none"]],
    !.latest = [k \in DOMAIN u |-> IF u[k] = "no" THEN @[k] ELSE Previous(c, k, b)]]

\* What pruning block b does to a key it wrote: a value that is stale, is a
\* tombstone or has a newer version goes, with the latest version if that is b.
Inactive(c, k, b, u) ==
  u[k] = "stale" \/ (u[k] = "del" /\ c.latest[k].ver = b) \/ c.latest[k].ver > b

Deleted(row, versions) == [b \in Blocks |-> IF b \in versions THEN "none" ELSE row[b]]

DeleteGenesis(c, b, u) ==
  LET gone(k) == IF Inactive(c, k, b, u) THEN {b} ELSE {}
  IN [values |-> [k \in DOMAIN u |->
        IF u[k] = "no" THEN c.values[k] ELSE Deleted(c.values[k], {c.active[k]} \cup gone(k))],
      latest |-> [k \in DOMAIN u |->
        IF u[k] # "no" /\ Inactive(c, k, b, u) /\ c.latest[k].ver = b THEN NoVersion
        ELSE c.latest[k]],
      active |-> [k \in DOMAIN u |->
        IF u[k] = "no" THEN c.active[k] ELSE IF Inactive(c, k, b, u) THEN 0 ELSE b]]

(***************************************************************************)
(* The merkle tree over blocks                                             *)
(***************************************************************************)
LeavesAt(v) == IF v = 0 THEN NoLeaves ELSE trees[v]

\* Pruned blocks that lose active keys to block b, and what they keep.
Rewritten(u) == {mer.active[k] : k \in {x \in Touched(u) : mer.active[x] # 0}}
(* mutant: pruned blocks keep keys that moved on *)
StillActiveAll(b, u) == pruned[b]
StillActive(b, u) ==
  IF b \in Rewritten(u) THEN pruned[b] \ {k \in Touched(u) : mer.active[k] = b} ELSE pruned[b]

PrunedAfter(g, u) ==
  [b \in Blocks |->
    IF b = g THEN {k \in Touched(u) : ~Inactive(mer, k, g, u)} ELSE StillActive(b, u)]

PrunedLeaves(g, u) ==
  [b \in Blocks |->
    IF b = g \/ b \in Rewritten(u)
    THEN IF PrunedAfter(g, u)[b] = {} THEN NoLeaf
         ELSE [kind |-> "active", keys |-> PrunedAfter(g, u)[b]]
    ELSE LeavesAt(root)[b]]

\* Deleting the stale nodes of version v makes version v - 1 unreadable.
WithoutStale(t, versions) == [v \in Versions |-> IF v + 1 \in versions THEN NoTree ELSE t[v]]

----------------------------------------------------------------------------
Init ==
  /\ genesis = 0 /\ last = 0
  /\ log = [b \in Blocks |-> NoBlock]
  /\ ver = Empty(VKeys) /\ mer = Empty(MKeys)
  /\ pruned = [b \in Blocks |-> {}]
  /\ trees = [v \in Versions |-> NoTree]
  /\ root = 0 /\ stale = {} /\ lastDeleted = 0
  /\ cache = NoBlock /\ raw = NoBlock
  /\ prunedAt = 0 /\ undone = FALSE

\* A block as it is read back from the column families (RawBlock).
FromStorage(b) ==
  [id |-> b, genesis |-> log[b].genesis, hash |-> log[b].hash,
   v |-> [k \in VKeys |-> log[b].v[k]], m |-> [k \in MKeys |-> log[b].m[k]]]

\* computeParentBlockDigest: the cached block only if it is the parent.
Parent(b) ==
  IF b = 1 THEN NoBlock ELSE IF cache.id = b - 1 THEN cache ELSE FromStorage(b - 1)

NewLeaves(b, m) ==
  [LeavesAt(root) EXCEPT ![b] = [kind |-> "whole", keys |-> Touched(m)]]

\* addBlock(CategoryInput&&, NativeWriteBatch&) and setAddedBlockId.
Append(u, g) ==
  LET b == last + 1
      merkle == Touched(u.m) # {}
      leaves == IF merkle THEN NewLeaves(b, u.m) ELSE NoLeaves
      version == IF merkle THEN root + 1 ELSE 0
  IN /\ b <= MaxBlock
     /\ log' = [log EXCEPT ![b] = [id |-> b, genesis |-> g, v |-> u.v, m |-> u.m,
                                   parent |-> Parent(b), hash |-> leaves, version |-> version]]
     /\ cache' = [id |-> b, genesis |-> g, hash |-> leaves, v |-> u.v, m |-> u.m]
     /\ ver' = Add(ver, b, u.v)
     /\ mer' = Add(mer, b, u.m)
     /\ IF merkle
        THEN /\ trees' = [trees EXCEPT ![version] = leaves]
             /\ root' = version
             /\ stale' = stale \cup {version}
        ELSE UNCHANGED <<trees, root, stale>>
     /\ last' = b
     /\ genesis' = IF genesis = 0 THEN 1 ELSE genesis
     /\ UNCHANGED <<pruned, lastDeleted, prunedAt, undone>>

AddBlock(u) == raw = NoBlock /\ Append(u, genesis) /\ UNCHANGED raw

\* A category that does not exist: the cache has been replaced when this is found.
AddBlockFails(u) ==
  /\ raw = NoBlock
  /\ last < MaxBlock
  /\ cache' = [id |-> last + 1, genesis |-> genesis, hash |-> NoLeaves, v |-> u.v, m |-> u.m]
  /\ UNCHANGED <<genesis, last, log, ver, mer, pruned, trees, root, stale, lastDeleted, raw,
                 prunedAt, undone>>

\* deleteStaleBatch writes on its own, before the batch of the pruned block.
StaleBefore(v) == (lastDeleted + 1)..(v - 1)

PruneGenesis ==
  LET u == log[genesis]
      merkle == Touched(u.m) # {}
  IN /\ 1 <= genesis /\ genesis < last
     /\ ver' = DeleteGenesis(ver, genesis, u.v)
     /\ mer' = DeleteGenesis(mer, genesis, u.m)
     /\ IF merkle
        THEN /\ pruned' = PrunedAfter(genesis, u.m)
             /\ trees' = [WithoutStale(trees, StaleBefore(u.version) \cup {u.version})
                          EXCEPT ![root + 1] = PrunedLeaves(genesis, u.m)]
             /\ root' = root + 1
             /\ stale' = (stale \cup {root + 1}) \ (StaleBefore(u.version) \cup {u.version})
             /\ lastDeleted' = u.version
        ELSE UNCHANGED <<pruned, trees, root, stale, lastDeleted>>
     /\ genesis' = genesis + 1
     /\ prunedAt' = last
     /\ UNCHANGED <<last, log, cache, undone>>

DeleteGenesisBlock == raw = NoBlock /\ PruneGenesis /\ UNCHANGED raw

\* A crash between the two writes of a pruning.
PruneCrashes ==
  LET v == log[genesis].version
  IN /\ 1 <= genesis /\ genesis < last
     /\ Touched(log[genesis].m) # {}
     /\ trees' = WithoutStale(trees, StaleBefore(v))
     /\ stale' = stale \ StaleBefore(v)
     /\ lastDeleted' = v - 1
     /\ cache' = NoBlock
     /\ UNCHANGED <<genesis, last, log, ver, mer, pruned, root, raw, prunedAt, undone>>

DeleteLastReachableBlock ==
  LET u == log[last]
  IN /\ raw = NoBlock
     /\ last # 0 /\ last # genesis
     /\ ver' = DeleteLastReachable(ver, last, u.v)
     /\ mer' = DeleteLastReachable(mer, last, u.m)
     /\ IF Touched(u.m) # {}
        THEN /\ trees' = [trees EXCEPT ![u.version] = NoTree]
             /\ stale' = stale \ {u.version}
             /\ root' = u.version - 1
        ELSE UNCHANGED <<trees, stale, root>>
     /\ log' = [log EXCEPT ![last] = NoBlock]
     /\ last' = last - 1
     /\ undone' = (undone \/ last <= prunedAt)
     /\ UNCHANGED <<genesis, pruned, lastDeleted, cache, raw, prunedAt>>

\* The next block of another replica's chain, which was pruned up to g when it
\* added the block.
ReceiveBlock(u, g) ==
  /\ raw = NoBlock
  /\ last < MaxBlock
  /\ raw' = [id |-> last + 1, genesis |-> g, v |-> u.v, m |-> u.m]
  /\ UNCHANGED <<genesis, last, log, ver, mer, pruned, trees, root, stale, lastDeleted, cache,
                 prunedAt, undone>>

\* pruneOnSTLink: one block at a time.
MustPrune == genesis < raw.genesis
LinkPrunes == raw # NoBlock /\ MustPrune /\ PruneGenesis /\ UNCHANGED raw

\* writeSTLinkTransaction
LinkBlock ==
  /\ raw # NoBlock
  /\ ~MustPrune
  /\ Append([v |-> raw.v, m |-> raw.m], raw.genesis)
  /\ raw' = NoBlock

\* The caches are read from storage again; linking goes on in the constructor.
Restart ==
  /\ cache' = NoBlock
  /\ UNCHANGED <<genesis, last, log, ver, mer, pruned, trees, root, stale, lastDeleted, raw,
                 prunedAt, undone>>

Next ==
  \/ \E u \in Updates : AddBlock(u) \/ AddBlockFails(u) \/ \E g \in genesis..last : ReceiveBlock(u, g)
  \/ DeleteGenesisBlock \/ PruneCrashes \/ DeleteLastReachableBlock
  \/ LinkPrunes \/ LinkBlock \/ Restart

Spec == Init /\ [][Next]_vars

----------------------------------------------------------------------------
(***************************************************************************)
(* Properties                                                              *)
(***************************************************************************)
\* The last block that was there when block b was pruned, as the blocks tell it:
\* the first one that records a later genesis was added right after.
LastWhenPruned(b) ==
  LET after == {x \in (b + 1)..last : log[x].genesis > b}
  IN IF after = {} THEN last ELSE Min(after) - 1

\* Key k of a pruned block b is active: nothing had replaced it when b was pruned,
\* and no block that replaced it later has been pruned.
IsActive(k, b, u(_)) ==
  /\ u(b)[k] = "put"
  /\ \A x \in (b + 1)..last : u(x)[k] # "no" => x > LastWhenPruned(b) /\ x >= genesis

ExpectedValue(k, b, u(_)) ==
  IF b > last THEN "none"
  ELSE IF b < genesis THEN (IF IsActive(k, b, u) THEN "put" ELSE "none")
  ELSE IF u(b)[k] = "no" THEN "none" ELSE IF u(b)[k] = "del" THEN "del" ELSE "put"

KeysFollowChain(c, keys, u(_)) ==
  \A k \in keys :
    /\ \A b \in Blocks : c.values[k][b] = ExpectedValue(k, b, u)
    /\ c.latest[k] = Previous(c, k, MaxBlock + 1)
    /\ \A b \in Blocks : c.active[k] = b <=> b < genesis /\ IsActive(k, b, u)

VOf(b) == log[b].v
MOf(b) == log[b].m

LeavesFollowChain ==
  \A b \in Blocks : LeavesAt(root)[b] =
    LET keys == {k \in MKeys : IsActive(k, b, MOf)}
    IN IF b > last THEN NoLeaf
       ELSE IF b >= genesis
       THEN IF Touched(log[b].m) = {} THEN NoLeaf ELSE [kind |-> "whole", keys |-> Touched(log[b].m)]
       ELSE IF keys = {} THEN NoLeaf ELSE [kind |-> "active", keys |-> keys]

\* What a replica stores is a function of the blocks and of the genesis block:
\* values, latest versions, the index of active keys and the leaves of the tree.
\* So a replica that linked the blocks has what the one that executed them has.
\* Not once a deleted block had been there when an older block was pruned.
StorageFollowsChain ==
  undone \/ ( /\ KeysFollowChain(ver, VKeys, VOf)
              /\ KeysFollowChain(mer, MKeys, MOf)
              /\ LeavesFollowChain)

\* A block's parent digest is that of the block before it as storage gives it
\* back, whatever the cached block was.
ParentsMatch ==
  \A b \in (genesis + 1)..last : log[b].parent = FromStorage(b - 1)

ReadBack(c, b, u) == \A k \in Touched(u) : u[k] # "del" => c.values[k][b] = "put"

\* The assertions of pruning, deleting and reading blocks: blocks that are there
\* can be read back, the latest root and the nodes below it exist, a pruned block
\* that is rewritten is on record with the values of its active keys, and the
\* stale index has no hole.
ReadsSucceed ==
  /\ \A b \in genesis..last : b # 0 => ReadBack(ver, b, log[b].v) /\ ReadBack(mer, b, log[b].m)
  /\ root # 0 => trees[root] # NoTree
  /\ genesis # 0 => LET u == log[genesis] IN
       /\ \A k \in Touched(u.v) : ver.latest[k].ver >= genesis
       /\ \A k \in Touched(u.m) : mer.latest[k].ver >= genesis
       /\ \A b \in Rewritten(u.m) : pruned[b] # {}
       /\ Touched(u.m) # {} => /\ lastDeleted < u.version
                               /\ (lastDeleted + 1)..u.version \subseteq stale
  /\ \A b \in Blocks : \A k \in pruned[b] : mer.values[k][b] = "put"
=============================================================================
