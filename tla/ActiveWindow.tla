---------------------------- MODULE ActiveWindow ----------------------------
(***************************************************************************)
(* SequenceWithActiveWindow: the ring of cells behind the replica's        *)
(* mainLog and checkpointsLog.  The numbers of the active window and, if   *)
(* WindowHistory is not 0, of the windows before it live in one array that *)
(* wraps around; a cell is used again for a later number.                  *)
(***************************************************************************)
EXTENDS Integers

CONSTANTS
    WindowSize, Resolution, WindowHistory,
    Items, Empty,         \* what a cell can hold; a cell just reset
    MaxNumber             \* bound: the last number of a window

VARIABLES
    beginningOfActiveWindow, firstItemOfActiveWindow, numItemsInsideInactiveWindow,
    workingWindow

vars == <<beginningOfActiveWindow, firstItemOfActiveWindow, numItemsInsideInactiveWindow,
          workingWindow>>

-----------------------------------------------------------------------------

numItemsInsideActiveWindow == WindowSize \div Resolution
maxNumItemsInsideInactiveWindow == WindowHistory * numItemsInsideActiveWindow
totalItems == maxNumItemsInsideInactiveWindow + numItemsInsideActiveWindow
Cells == 0 .. totalItems - 1

Numbers == {n \in 0 .. MaxNumber : n % Resolution = 0}
Firsts == {n \in Numbers : n + WindowSize - 1 <= MaxNumber}

insideActiveWindow(n) ==
    n >= beginningOfActiveWindow /\ n < beginningOfActiveWindow + WindowSize

getBeginningOfInactiveWindow ==
    beginningOfActiveWindow - numItemsInsideInactiveWindow * Resolution

isPresentInHistory(n) ==
    /\ numItemsInsideInactiveWindow > 0
    /\ n >= getBeginningOfInactiveWindow /\ n < beginningOfActiveWindow

(* The cell get(n) and getFromHistory(n) return a reference to *)
cellOfActive(n) ==
    (firstItemOfActiveWindow + (n - beginningOfActiveWindow) \div Resolution) % totalItems

cellOfHistory(n) ==
    (firstItemOfActiveWindow - numItemsInsideInactiveWindow + totalItems
        + (n - getBeginningOfInactiveWindow) \div Resolution) % totalItems

(* getFromActiveWindowOrHistory, Empty for a number it asserts on *)
Lookup(n) ==
    IF insideActiveWindow(n) THEN workingWindow[cellOfActive(n)]
    ELSE IF isPresentInHistory(n) THEN workingWindow[cellOfHistory(n)]
    ELSE Empty

Init ==
    /\ beginningOfActiveWindow \in Firsts
    /\ firstItemOfActiveWindow = 0
    /\ numItemsInsideInactiveWindow = 0
    /\ workingWindow = [i \in Cells |-> Empty]

(* What the users do with get(n): they put something there or reset it     *)
Put(n, x) ==
    /\ insideActiveWindow(n)
    /\ workingWindow' = [workingWindow EXCEPT ![cellOfActive(n)] = x]
    /\ UNCHANGED <<beginningOfActiveWindow, firstItemOfActiveWindow, numItemsInsideInactiveWindow>>

ResetAll(windowFirst) ==
    /\ workingWindow' = [i \in Cells |-> Empty]
    /\ beginningOfActiveWindow' = windowFirst
    /\ numItemsInsideInactiveWindow' = 0
    /\ UNCHANGED firstItemOfActiveWindow

(* mutant: the cells of the numbers that leave are reset, not of those that come *)
ScrollResettingOld(newFirst) ==
    LET advance == (newFirst - beginningOfActiveWindow) \div Resolution
        inactive == numItemsInsideInactiveWindow + advance
        reused == {(firstItemOfActiveWindow + k) % totalItems : k \in 0 .. advance - 1}
    IN  /\ workingWindow' = [i \in Cells |-> IF i \in reused THEN Empty ELSE workingWindow[i]]
        /\ firstItemOfActiveWindow' = (firstItemOfActiveWindow + advance) % totalItems
        /\ beginningOfActiveWindow' = newFirst
        /\ numItemsInsideInactiveWindow' =
               IF inactive > maxNumItemsInsideInactiveWindow THEN maxNumItemsInsideInactiveWindow
               ELSE inactive

(* The part of advanceActiveWindow that moves the window over the cells *)
Scroll(newFirst) ==
    LET advance == (newFirst - beginningOfActiveWindow) \div Resolution
        oldActiveEnd == (firstItemOfActiveWindow + numItemsInsideActiveWindow) % totalItems
        reused == {(oldActiveEnd + k) % totalItems : k \in 0 .. advance - 1}
        inactive == numItemsInsideInactiveWindow + advance
    IN  /\ workingWindow' = [i \in Cells |-> IF i \in reused THEN Empty ELSE workingWindow[i]]
        /\ firstItemOfActiveWindow' = (firstItemOfActiveWindow + advance) % totalItems
        /\ beginningOfActiveWindow' = newFirst
        /\ numItemsInsideInactiveWindow' =
               IF inactive > maxNumItemsInsideInactiveWindow THEN maxNumItemsInsideInactiveWindow
               ELSE inactive

AdvanceActiveWindow(newFirst) ==
    /\ newFirst > beginningOfActiveWindow
    /\ \/ newFirst - beginningOfActiveWindow > WindowSize /\ ResetAll(newFirst)
       \/ newFirst - beginningOfActiveWindow <= WindowSize /\ Scroll(newFirst)

Next ==
    \/ \E n \in Numbers, x \in Items \cup {Empty} : Put(n, x)
    \/ \E n \in Firsts : ResetAll(n)
    \/ \E n \in Firsts : AdvanceActiveWindow(n)

Spec == Init /\ [][Next]_vars

-----------------------------------------------------------------------------
(* Properties *)

(* Every variable keeps its type; the history never has more items than    *)
(* there are cells beside the active window's ("numItemsInsideInactive-    *)
(* Window_ <= maxNumItemsInsideInactiveWindow", asserted by getFromHistory)*)
TypeOK ==
    /\ beginningOfActiveWindow \in Firsts
    /\ firstItemOfActiveWindow \in Cells
    /\ numItemsInsideInactiveWindow \in 0 .. maxNumItemsInsideInactiveWindow
    /\ workingWindow \in [Cells -> Items \cup {Empty}]

(* The ring of cells implements the map of WindowMap: a number that is     *)
(* active or in the history is read from the cell it was written to, and a *)
(* number that becomes active never meets what an earlier number left.     *)
Map == INSTANCE WindowMap WITH
           first <- beginningOfActiveWindow,
           oldest <- getBeginningOfInactiveWindow,
           item <- [n \in Numbers |-> Lookup(n)]
ImplementsMap == Map!Spec
=============================================================================
