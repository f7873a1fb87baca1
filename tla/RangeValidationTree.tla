------------------------ MODULE RangeValidationTree ------------------------
(***************************************************************************)
(* The tree of range validation blocks (RVBs) of state transfer.  RVBs are *)
(* added at the right and removed at the left; the nodes above them, the   *)
(* root and the arrays of open nodes are updated in place, and a node's    *)
(* value is its own initial value plus those of its children, kept by      *)
(* additions and subtractions along the path to the root.  Replicas        *)
(* compare values, so the tree must depend on the range alone.             *)
(*                                                                         *)
(* A node is named by its level and the index of the first RVB it can      *)
(* hold.  A value is a formal sum: how often the initial value of each     *)
(* node and RVB (level 0) was added, which the sum modulo a number hides.  *)
(***************************************************************************)
EXTENDS Integers, Sequences, FiniteSets, SequencesExt

CONSTANTS
  K,          \* RVT_K
  MaxIndex,   \* bound: RVB indexes
  MaxLevel    \* bound: levels of the tree

VARIABLES
  tree,       \* id_to_node_, root_, leftmost_rvt_node_, rightmost_rvt_node_
  min, max    \* min_rvb_index_ and max_rvb_index_, 0 if the tree is empty

vars == <<tree, min, max>>

Levels == 1..MaxLevel
NoNode == <<0, 0>>
Level(id) == id[1]
Index(id) == id[2]

\* NodeInfo::parentRvbIndexFromChild
ParentIndex(i, l) == ((i - 1) \div K^(l + 1)) * K^(l + 1) + 1
NextId(id) == <<Level(id), Index(id) + K^Level(id)>>

Ids == {<<l, i>> \in (0..MaxLevel) \X (1..(MaxIndex + K^MaxLevel)) : (i - 1) % K^l = 0}
Zero == [id \in {} |-> 0]
Coefficient(v, id) == IF id \in DOMAIN v THEN v[id] ELSE 0
\* Sums keep no entry that is 0.
Combine(v, w, sign) ==
  LET dom == DOMAIN v \union DOMAIN w
      c(id) == Coefficient(v, id) + sign * Coefficient(w, id)
  IN [id \in {x \in dom : c(x) # 0} |-> c(id)]
Plus(v, w) == Combine(v, w, 1)
Minus(v, w) == Combine(v, w, -1)
\* computeNodeInitialValue
Initial(id) == [x \in {id} |-> 1]

Empty == [node |-> [id \in {} |-> 0], root |-> NoNode, ok |-> TRUE,
          left |-> [l \in Levels |-> NoNode], right |-> [l \in Levels |-> NoNode]]

Init == tree = Empty /\ min = 0 /\ max = 0

(***************************************************************************)
(* Nodes                                                                   *)
(***************************************************************************)
Check(t, p) == [t EXCEPT !.ok = @ /\ p]
\* A new node above a node of level l and index i.
NewId(l, i) == <<l + 1, ParentIndex(i, l)>>
Insert(t, id) ==
  [Check(t, id \notin DOMAIN t.node) EXCEPT
     !.node = [x \in DOMAIN @ \union {id} |->
                 IF x = id THEN [parent |-> NoNode, kids |-> <<>>, inserted |-> -1,
                                 val |-> Initial(id)]
                 ELSE @[x]]]
AddValue(t, id, v) == [t EXCEPT !.node[id].val = Plus(@, v)]

Position(id) == (Index(id) - ParentIndex(Index(id), Level(id))) \div K^Level(id)
\* pushChildId: the first child decides how many insertions are left.
PushChild(t, id, kid) ==
  LET n == t.node[id]
      c == IF n.inserted = -1 THEN Position(kid) ELSE n.inserted
      sorted == n.kids = <<>> \/ Index(Last(n.kids)) < Index(kid)
  IN [Check(t, c < K /\ sorted) EXCEPT
        !.node[id].kids = Append(@, kid), !.node[id].inserted = c + 1]
PopChild(t, id, kid) ==
  [Check(t, t.node[id].kids # <<>> /\ Head(t.node[id].kids) = kid) EXCEPT
     !.node[id].kids = Tail(@)]

\* updateOpenRvtNodeArrays
BothOrNone(t, l) == t.left[l] # t.right[l] => t.left[l] # NoNode /\ t.right[l] # NoNode
AddToRight(t, id) ==
  [Check(t, BothOrNone(t, Level(id))) EXCEPT
            !.right[Level(id)] = id,
            !.left[Level(id)] = IF @ = NoNode THEN id ELSE @]
CheckRemove(t, id) ==
  LET l == Level(id)
  IN [Check(t, BothOrNone(t, l) /\ ~(id = t.right[l] /\ id # t.left[l])) EXCEPT
        !.left[l] = IF @ # id THEN @
                    ELSE IF NextId(id) \in DOMAIN t.node THEN NextId(id) ELSE NoNode,
        !.right[l] = IF @ = id THEN NoNode ELSE @]

OpenForInsertion(t, l) ==
  LET r == t.right[l]
  IN IF r # NoNode /\ t.node[r].inserted # -1 /\ t.node[r].inserted < K THEN r ELSE NoNode

\* addValueToInternalNodes: from a node up to the root.
RECURSIVE AddValueUp(_, _, _)
AddValueUp(t, id, v) ==
  IF id = NoNode THEN t
  ELSE LET u == AddValue(Check(t, (t.node[id].parent = NoNode) = (t.root = id)), id, v)
       IN AddValueUp(u, u.node[id].parent, v)

\* setNewRoot for a node.
SetNewRoot(t, new) ==
  LET grown == IF t.root = NoNode THEN t
               ELSE IF Level(new) > Level(t.root) THEN [t EXCEPT !.node[t.root].parent = new]
               ELSE CheckRemove(t, t.root)
      step == Level(new) - Level(t.root)
      checked == Check(grown, t.root = NoNode \/ step \in {-1, 1})
  IN AddToRight([checked EXCEPT !.root = new, !.node[new].parent = NoNode], new)

(***************************************************************************)
(* addRightNode                                                            *)
(***************************************************************************)
Attach(t, kid, id) == PushChild([t EXCEPT !.node[kid].parent = id], id, kid)
\* A new node above kid, not the root.
NewAbove(t, kid) ==
  LET id == NewId(Level(kid), Index(kid))
  IN AddToRight(PushChild(Insert(t, id), id, kid), id)

\* The first loop of addInternalNode: up to the level of the root.
RECURSIVE AddBelowRoot(_, _, _)
AddBelowRoot(t, cur, v) ==
  IF Level(cur) = Level(t.root) THEN [t |-> t, cur |-> cur]
  ELSE IF t.node[cur].parent # NoNode
  THEN AddBelowRoot(AddValue(t, t.node[cur].parent, v), t.node[cur].parent, v)
  ELSE LET open == OpenForInsertion(t, Level(cur) + 1)
           id == NewId(Level(cur), Index(cur))
       IN IF open # NoNode
          THEN AddBelowRoot(AddValue(Attach(t, cur, open), open, v), open, v)
          ELSE AddBelowRoot([AddValue(NewAbove(t, cur), id, v) EXCEPT !.node[cur].parent = id],
                            id, Plus(v, Initial(id)))

\* The second loop: the root and its new sibling get parents, level by level,
\* until they share one.
RECURSIVE GrowRoot(_, _)
GrowRoot(t, cur) ==
  LET root == t.root
      rootUp == NewId(Level(root), Index(root))
      curUp == NewId(Level(cur), Index(cur))
      t1 == AddValue(PushChild(Insert(t, rootUp), rootUp, root), rootUp, t.node[root].val)
      t2 == SetNewRoot(t1, rootUp)
  IN IF rootUp = curUp
     THEN AddValue(Attach(t2, cur, rootUp), rootUp, t.node[cur].val)
     ELSE GrowRoot(AddValue([NewAbove(t2, cur) EXCEPT !.node[cur].parent = curUp],
                            curUp, t.node[cur].val), curUp)

AddInternalNode(t, id) ==
  LET below == AddBelowRoot(t, id, Initial(id))
  IN IF below.cur = below.t.root THEN below.t ELSE GrowRoot(below.t, below.cur)

AddRvbNode(t, leaf) ==
  LET open == OpenForInsertion(t, 1)
      id == NewId(0, Index(leaf))
      added == NewAbove(t, leaf)
      rooted == IF t.root = NoNode THEN SetNewRoot(added, id) ELSE added
  IN IF open # NoNode
     THEN AddValueUp(PushChild(t, open, leaf), open, Initial(leaf))
     ELSE AddValueUp(AddInternalNode(rooted, id), id, Initial(leaf))

\* The first RVB need not be the first of its group, because of pruning.
AddRightNode(i) ==
  /\ i \in 1..MaxIndex /\ (max > 0 => i = max + 1)
  /\ tree' = AddRvbNode(tree, <<0, i>>)
  /\ max' = i /\ min' = IF min = 0 THEN i ELSE min

(***************************************************************************)
(* removeLeftNode                                                          *)
(***************************************************************************)
Erase(t, ids) == [t EXCEPT !.node = [x \in DOMAIN @ \ ids |-> @[x]]]

KeepInitial(t, parent, id) == t
\* A node that is removed takes its initial value with it.
DropInitial(t, parent, id) == AddValueUp(t, parent, Minus(Zero, Initial(id)))

\* The first loop of removeAndUpdateInternalNodes: trim up to the root.
RECURSIVE Trim(_, _, _, _, _)
Trim(t, cur, bottom, leaf, erased) ==
  IF cur = t.root
  THEN [t |-> [t EXCEPT !.node[cur].val = Minus(@, Initial(leaf))], erased |-> erased]
  ELSE LET p == t.node[cur].parent
           gone == t.node[cur].kids = <<>>
           popped == IF gone THEN PopChild(t, p, cur) ELSE t
           dropped == IF gone /\ cur # bottom
                      THEN DropInitial(CheckRemove(popped, cur), p, cur) ELSE popped
       IN Trim([dropped EXCEPT !.node[cur].val = Minus(@, Initial(leaf))], p, bottom, leaf,
               IF gone THEN erased \union {cur} ELSE erased)

\* The second loop: a root with one child is replaced by it.
RECURSIVE Shrink(_, _)
Shrink(t, erased) ==
  LET l == Level(t.root)
      next == t.right[l - 1]
      checked == Check(t, t.right[l - 1] = t.left[l - 1])
  IN IF l = 1 \/ Len(t.node[t.root].kids) # 1 THEN Erase(t, erased)
     ELSE Shrink(SetNewRoot(CheckRemove(checked, t.root), next), erased \union {t.root})

RemoveRvbNode(t, leaf) ==
  LET id == t.left[1]
      single == Len(t.node[id].kids) = 1
      t1 == IF single THEN DropInitial(CheckRemove(t, id), t.node[id].parent, id) ELSE t
      trimmed == Trim(PopChild(t1, id, leaf), id, id, leaf, IF single THEN {id} ELSE {})
  IN IF trimmed.t.node[trimmed.t.root].kids = <<>>
     THEN [Empty EXCEPT !.ok = trimmed.t.ok /\ Level(trimmed.t.root) = 1]
     ELSE Shrink(trimmed.t, trimmed.erased)

RemoveLeftNode ==
  /\ tree.root # NoNode
  /\ tree' = RemoveRvbNode(tree, <<0, min>>)
  /\ IF tree'.root = NoNode THEN min' = 0 /\ max' = 0 ELSE min' = min + 1 /\ UNCHANGED max

(***************************************************************************)
(* Serialisation and queries                                               *)
(***************************************************************************)
Leaves == UNION {ToSet(tree.node[id].kids) : id \in {x \in DOMAIN tree.node : Level(x) = 1}}
Indexes == {Index(id) : id \in Leaves}

\* getSerializedRvbData and setSerializedRvbData: the bounds are found again.
Reload ==
  /\ tree.root # NoNode
  /\ min' = CHOOSE i \in Indexes : \A j \in Indexes : i <= j
  /\ max' = CHOOSE i \in Indexes : \A j \in Indexes : i >= j
  /\ tree' = AddToRight([tree EXCEPT !.node[tree.root].parent = NoNode], tree.root)

MaxSibling(i) == ParentIndex(i, 0) + K - 1
RECURSIVE GetRvbGroupIds(_, _)
GetRvbGroupIds(i, end) ==
  IF i > end THEN <<>> ELSE <<<<1, ParentIndex(i, 0)>>>> \o GetRvbGroupIds(MaxSibling(i) + 1, end)
GetRvbIds(g) == [j \in 1..Len(tree.node[g].kids) |-> Index(Head(tree.node[g].kids)) + j - 1]
\* The group getDirectParentValueStr looks up.
DirectParent(i) ==
  <<1, IF i <= K THEN 1 ELSE IF i % K = 0 THEN i - K + 1 ELSE i - (i % K) + 1>>

Next == (\E i \in 1..MaxIndex : AddRightNode(i)) \/ RemoveLeftNode \/ Reload

Spec == Init /\ [][Next]_vars

(***************************************************************************)
(* Properties                                                              *)
(***************************************************************************)
TypeOK ==
  /\ min \in 0..max /\ max \in 0..MaxIndex
  /\ DOMAIN tree.node \subseteq Ids /\ tree.root \in DOMAIN tree.node \union {NoNode}

\* The tree of a range: one node for every group that has an RVB, on the levels
\* up to the first that has a single node.
NodesOn(l) == {<<l, ParentIndex(i, l - 1)>> : i \in min..max}
Height == CHOOSE l \in Levels :
            Cardinality(NodesOn(l)) = 1 /\ \A m \in 1..(l - 1) : Cardinality(NodesOn(m)) > 1
Covered(id) == {i \in min..max : ParentIndex(i, Level(id) - 1) = Index(id)}
NodeSet == UNION {NodesOn(l) : l \in 1..Height}
Children(id) ==
  IF Level(id) = 1 THEN {<<0, i>> : i \in Covered(id)}
  ELSE {<<Level(id) - 1, ParentIndex(i, Level(id) - 2)>> : i \in Covered(id)}
Below(id) ==
  {id} \union {<<0, i>> : i \in Covered(id)}
       \union {<<l, ParentIndex(i, l - 1)>> : l \in 1..(Level(id) - 1), i \in Covered(id)}

\* However RVBs are added and removed, the tree is the one of its range: the
\* nodes, their children, the root and the open nodes of every level, and each
\* value counts the node and everything below it once.  The assertions on the
\* open nodes, the children and the root that the updates make do not fail.
TreeIsCanonical ==
  /\ tree.ok
  /\ min = 0 => tree = Empty
  /\ min > 0 =>
       /\ DOMAIN tree.node = NodeSet
       /\ tree.root \in NodesOn(Height)
       /\ \A l \in 1..Height :
            /\ tree.left[l] = <<l, ParentIndex(min, l - 1)>>
            /\ tree.right[l] = <<l, ParentIndex(max, l - 1)>>
       /\ \A l \in Levels : l > Height => tree.left[l] = NoNode /\ tree.right[l] = NoNode
       /\ \A id \in NodeSet :
            /\ ToSet(tree.node[id].kids) = Children(id)
            /\ tree.node[id].val = [x \in Below(id) |-> 1]
            /\ id # tree.root => tree.node[id].parent = NewId(Level(id), Index(id))

\* The groups of a range hold exactly its RVBs, and the group whose value is
\* asked for an RVB is the one that holds it.
GroupsPartition ==
  min > 0 =>
    /\ FlattenSeq([j \in 1..Len(GetRvbGroupIds(min, max)) |-> GetRvbIds(GetRvbGroupIds(min, max)[j])])
         = [j \in 1..(max - min + 1) |-> min + j - 1]
    /\ \A i \in min..max : <<0, i>> \in ToSet(tree.node[DirectParent(i)].kids)
=============================================================================
