----------------------------- MODULE WindowMap ------------------------------
(***************************************************************************)
(* What SequenceWithActiveWindow promises: a map from numbers to items,    *)
(* with no word about cells.  Numbers from first on, WindowSize of them,   *)
(* are active; up to WindowHistory windows of numbers before them can      *)
(* still be read; every other number has lost its item.                    *)
(***************************************************************************)
EXTENDS Integers

CONSTANTS WindowSize, Resolution, WindowHistory, MaxNumber, Items, Empty

VARIABLES
    first,                \* first number of the active window
    oldest,               \* first number that can be read, at most first
    item                  \* the item of every number

Numbers == {n \in 0 .. MaxNumber : n % Resolution = 0}
Firsts == {n \in Numbers : n + WindowSize - 1 <= MaxNumber}

Active(n) == first <= n /\ n < first + WindowSize
Readable(n) == oldest <= n /\ n < first + WindowSize

Init ==
    /\ first \in Firsts /\ oldest = first
    /\ item = [n \in Numbers |-> Empty]

Write(n, x) ==
    /\ Active(n)
    /\ item' = [item EXCEPT ![n] = x]
    /\ UNCHANGED <<first, oldest>>

Forget(newFirst) ==
    /\ first' = newFirst /\ oldest' = newFirst
    /\ item' = [n \in Numbers |-> Empty]

(* Items of numbers that are kept stay as they are, and the numbers that   *)
(* become active have none                                                 *)
Slide(newFirst) ==
    /\ newFirst > first /\ newFirst <= first + WindowSize
    /\ first' = newFirst
    /\ LET limit == newFirst - WindowHistory * WindowSize
       IN  oldest' = IF oldest > limit THEN oldest ELSE limit
    /\ item' = [n \in Numbers |-> IF n < oldest' THEN Empty ELSE item[n]]

Next ==
    \/ \E n \in Numbers, x \in Items \cup {Empty} : Write(n, x)
    \/ \E n \in Firsts : Slide(n)
    \/ \E n \in Firsts : Forget(n)

Spec == Init /\ [][Next]_<<first, oldest, item>>
=============================================================================
