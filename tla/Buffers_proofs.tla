--------------------------- MODULE Buffers_proofs --------------------------
(***************************************************************************)
(* Proofs about a buffer and about the streams of a thin replica.          *)
(*                                                                         *)
(* SequenceWithActiveWindow, a ring of cells that are used again, is a map *)
(* from numbers to items: ActiveWindow implements WindowMap under the      *)
(* mapping Map, for every size the class template accepts.  Numbers are    *)
(* compared by their indices (the number divided by the resolution); a     *)
(* number's cell is its distance to the window's first number, modulo the  *)
(* number of cells, in the history as in the window.                       *)
(*                                                                         *)
(* The queue of a thin replica's subscription: the stream that joins the   *)
(* history read from storage with the queue has no gap and no repetition,  *)
(* whatever size the queue has and whenever it overflows.                  *)
(*                                                                         *)
(* The client of the thin replicas: what it delivers are the updates it    *)
(* asked for, in order and right, whatever F servers answer and whichever  *)
(* streams fail.                                                           *)
(***************************************************************************)
EXTENDS ActiveWindow, Sequences, FiniteSetTheorems, TLAPS

(* What the static_asserts of the class template require of its parameters *)
Sizes ==
    /\ Resolution \in Nat \ {0} /\ WindowSize \in Nat \ {0} /\ WindowSize % Resolution = 0
    /\ WindowHistory \in Nat /\ MaxNumber \in Nat

(* Multiples of the resolution compare as their indices do. *)
LEMMA ScaleOrder ==
    ASSUME NEW R \in Nat \ {0}, NEW x \in Int, NEW y \in Int
    PROVE  (R * x < R * y <=> x < y)
<1>1. CASE x < y
  <2>1. y - x >= 1 /\ R * (y - x) >= R * 1
    BY <1>1, SMTT(30)
  <2>2. R * (y - x) = R * y - R * x
    BY SMTT(30)
  <2> QED BY <1>1, <2>1, <2>2
<1>2. CASE x >= y
  <2>1. x - y >= 0 /\ R * (x - y) >= 0
    BY <1>2, SMTT(30)
  <2>2. R * (x - y) = R * x - R * y
    BY SMTT(30)
  <2> QED BY <1>2, <2>1, <2>2
<1> QED BY <1>1, <1>2

(* Dividing a multiple gives its index. *)
LEMMA ScaleDiv ==
    ASSUME NEW R \in Nat \ {0}, NEW x \in Int
    PROVE  (R * x) \div R = x /\ (x * R) \div R = x
BY SMTT(30)

(* Products of differences *)
LEMMA Distribute ==
    ASSUME NEW R \in Int, NEW k \in Int, NEW y \in Int
    PROVE  /\ R * (k - y) = R * k - R * y /\ R * y = y * R
           /\ R * k \in Int /\ R * y \in Int
BY SMTT(30)

(* A number that leaves no rest is a multiple. *)
LEMMA Multiple ==
    ASSUME NEW R \in Nat \ {0}, NEW n \in Int, n % R = 0
    PROVE  n = R * (n \div R) /\ n \div R \in Int
BY SMTT(30)

(* The rest of a division, and what it is the rest of *)
LEMMA Remainder ==
    ASSUME NEW T \in Nat \ {0}, NEW x \in Int
    PROVE  x % T \in 0 .. T - 1 /\ x \div T \in Int /\ x = T * (x \div T) + (x % T)
<1>1. x % T \in 0 .. T - 1
  BY SMTT(30)
<1>2. x \div T \in Int
  BY SMTT(30)
<1>3. x = T * (x \div T) + (x % T)
  BY SMTT(30)
<1> QED BY <1>1, <1>2, <1>3

(* Going once around the ring leads to the same cell. *)
LEMMA OnceAround ==
    ASSUME NEW T \in Nat \ {0}, NEW x \in Int
    PROVE  (x + T) % T = x % T
<1> DEFINE q == x \div T r == x % T s == (x + T) % T p == (x + T) \div T
<1>1. r \in 0 .. T - 1 /\ q \in Int /\ x = T * q + r
  BY Remainder
<1>2. s \in 0 .. T - 1 /\ p \in Int /\ x + T = T * p + s
  <2>1. x + T \in Int
    OBVIOUS
  <2> QED BY <2>1, Remainder
<1> HIDE DEF q, r, s, p
<1>3. T * (q + 1) = T * q + T /\ T * (p + 1) = T * p + T /\ T * (q + 2) = T * q + T + T
  BY <1>1, <1>2, SMTT(30)
<1>4. T * p < T * (q + 2) /\ T * q < T * p
  <2>1. T * q \in Int /\ T * p \in Int
    BY <1>1, <1>2, SMTT(30)
  <2> QED BY <1>1, <1>2, <1>3, <2>1
<1>5. p < q + 2 /\ q < p
  BY <1>1, <1>2, <1>4, ScaleOrder
<1>6. p = q + 1
  BY <1>1, <1>2, <1>5
<1>7. r = s
  BY <1>1, <1>2, <1>3, <1>6
<1> QED BY <1>7 DEF r, s

(* Less than a round away is another cell. *)
LEMMA LessThanARound ==
    ASSUME NEW T \in Nat \ {0}, NEW x \in Int, NEW y \in Int, x < y, y < x + T
    PROVE  x % T # y % T
<1> SUFFICES ASSUME x % T = y % T PROVE FALSE
  OBVIOUS
<1> DEFINE q == x \div T p == y \div T
<1>1. x % T \in 0 .. T - 1 /\ q \in Int /\ x = T * q + (x % T)
  BY Remainder
<1>2. p \in Int /\ y = T * p + (x % T)
  <2>1. p \in Int /\ y = T * p + (y % T)
    BY Remainder
  <2> QED BY <2>1
<1> HIDE DEF q, p
<1>3. T * (q + 1) = T * q + T /\ T * q \in Int /\ T * p \in Int
  BY <1>1, <1>2, SMTT(30)
<1>4. T * q < T * p /\ T * p < T * (q + 1)
  BY <1>1, <1>2, <1>3
<1>5. q < p /\ p < q + 1
  BY <1>1, <1>2, <1>4, ScaleOrder
<1> QED BY <1>1, <1>2, <1>5

(* Taking the rest early makes no difference. *)
LEMMA RestEarly ==
    ASSUME NEW T \in Nat \ {0}, NEW x \in 0 .. 2 * T - 1, NEW k \in Int
    PROVE  ((x % T) + k) % T = (x + k) % T
<1>1. CASE x < T
  <2>1. x % T = x
    BY <1>1, SMTT(30)
  <2> QED BY <2>1
<1>2. CASE x >= T
  <2>1. x % T = x - T
    BY <1>2, SMTT(30)
  <2>2. x - T + k \in Int /\ x - T + k + T = x + k
    OBVIOUS
  <2> QED BY <2>1, <2>2, OnceAround
<1> QED BY <1>1, <1>2

Index(n) == n \div Resolution

(* What Lookup(n) reads in a ring with the given first number, first cell, *)
(* length of the history and contents.                                     *)
Ring(b, i) ==
    b \in Firsts /\ i \in 0 .. maxNumItemsInsideInactiveWindow

Read(b, f, i, cells, n) ==
    IF Index(b) - i <= Index(n) /\ Index(n) < Index(b) + numItemsInsideActiveWindow
    THEN cells[(f + totalItems + (Index(n) - Index(b))) % totalItems]
    ELSE Empty

(* The sizes in items and in numbers *)
LEMMA SizesFacts ==
    ASSUME Sizes
    PROVE  /\ numItemsInsideActiveWindow \in Nat \ {0}
           /\ WindowSize = Resolution * numItemsInsideActiveWindow
           /\ maxNumItemsInsideInactiveWindow \in Nat
           /\ totalItems \in Nat \ {0}
           /\ totalItems = maxNumItemsInsideInactiveWindow + numItemsInsideActiveWindow
           /\ WindowHistory * WindowSize = Resolution * maxNumItemsInsideInactiveWindow
<1> DEFINE K == numItemsInsideActiveWindow
<1>1. WindowSize = Resolution * K /\ K \in Int
  BY Multiple DEF Sizes, numItemsInsideActiveWindow
<1> HIDE DEF K
<1>2. K >= 1
  <2>1. Resolution * 0 < Resolution * K
    BY <1>1 DEF Sizes
  <2> QED BY <1>1, <2>1, ScaleOrder DEF Sizes
<1>3. K \in Nat \ {0}
  BY <1>1, <1>2
<1>4. WindowHistory * K \in Nat
  BY <1>3, SMTT(30) DEF Sizes
<1>5. WindowHistory * (Resolution * K) = Resolution * (WindowHistory * K)
  BY <1>3, SMTT(30) DEF Sizes
<1> QED BY <1>1, <1>3, <1>4, <1>5 DEF K, maxNumItemsInsideInactiveWindow, totalItems

(* A number is its index times the resolution, so that numbers compare as  *)
(* their indices do.                                                       *)
LEMMA IndexFacts ==
    ASSUME Sizes, NEW n \in Numbers
    PROVE  /\ n \in Nat /\ Index(n) \in Nat /\ n = Resolution * Index(n)
<1>1. n \in Nat /\ n % Resolution = 0
  BY DEF Numbers, Sizes
<1>2. n = Resolution * Index(n) /\ Index(n) \in Int
  BY <1>1, Multiple DEF Index, Sizes
<1>3. Index(n) >= 0
  <2>1. ~(Resolution * Index(n) < Resolution * 0)
    BY <1>1, <1>2 DEF Sizes
  <2> QED BY <1>2, <2>1, ScaleOrder DEF Sizes
<1> QED BY <1>1, <1>2, <1>3

(* Two numbers, shifted by a number of items, compare as their indices do. *)
LEMMA CompareIndices ==
    ASSUME Sizes, NEW n \in Numbers, NEW m \in Numbers, NEW x \in Int
    PROVE  /\ n < m + Resolution * x <=> Index(n) < Index(m) + x
           /\ n < m <=> Index(n) < Index(m)
           /\ n = m <=> Index(n) = Index(m)
           /\ (n - m) \div Resolution = Index(n) - Index(m)
           /\ m + Resolution * x = Resolution * (Index(m) + x)
<1>1. /\ n = Resolution * Index(n) /\ Index(n) \in Nat
      /\ m = Resolution * Index(m) /\ Index(m) \in Nat
  BY IndexFacts
<1> DEFINE j == Index(n) k == Index(m)
<1>2. Resolution \in Nat \ {0}
  BY DEF Sizes
<1>3. Resolution * (k + x) = Resolution * k + Resolution * x /\ k + x \in Int
  <2> HIDE DEF k
  <2> QED BY <1>1, <1>2, SMTT(30) DEF k
<1>4. Resolution * (j - k) = Resolution * j - Resolution * k /\ j - k \in Int
  <2> HIDE DEF j, k
  <2> QED BY <1>1, <1>2, SMTT(30) DEF j, k
<1>5. Resolution * j < Resolution * (k + x) <=> j < k + x
  BY <1>1, <1>2, <1>3, ScaleOrder
<1>6. Resolution * j < Resolution * k <=> j < k
  BY <1>1, <1>2, ScaleOrder
<1>7. (Resolution * (j - k)) \div Resolution = j - k
  BY <1>2, <1>4, ScaleDiv
<1> QED BY <1>1, <1>3, <1>4, <1>5, <1>6, <1>7

(* get, getFromHistory and the test before them read the cell at the       *)
(* number's distance.                                                      *)
LEMMA LookupReads ==
    ASSUME Sizes, NEW b, NEW f, NEW i, NEW cells, Ring(b, i),
           f \in Cells, NEW n \in Numbers
    PROVE  (IF n >= b /\ n < b + WindowSize
            THEN cells[(f + (n - b) \div Resolution) % totalItems]
            ELSE IF i > 0 /\ n >= b - i * Resolution /\ n < b
            THEN cells[(f - i + totalItems + (n - (b - i * Resolution)) \div Resolution) % totalItems]
            ELSE Empty)
           = Read(b, f, i, cells, n)
<1> DEFINE j == Index(n) k == Index(b) K == numItemsInsideActiveWindow T == totalItems
<1>1. b \in Numbers /\ i \in Nat /\ f \in Nat
  BY SizesFacts DEF Ring, Firsts, Cells
<1>2. /\ K \in Nat \ {0} /\ T \in Nat \ {0} /\ WindowSize = Resolution * K
      /\ Resolution \in Nat \ {0} /\ K <= T /\ f < T
  BY SizesFacts DEF Sizes, Cells
<1>3. j \in Nat /\ k \in Nat
  BY <1>1, IndexFacts
<1>4. n < b + Resolution * K <=> j < k + K
  BY <1>1, <1>2, CompareIndices
<1>5. n < b <=> j < k
  BY <1>1, CompareIndices
<1>6. n < b + Resolution * (-i) <=> j < k + (-i)
  BY <1>1, CompareIndices
<1>7. b + Resolution * (-i) = b - i * Resolution /\ b - i * Resolution \in Int
  <2>1. b \in Int /\ Resolution \in Int /\ i \in Int
    BY <1>1, IndexFacts DEF Sizes
  <2> QED BY <2>1, SMTT(30)
<1>8. (n - b) \div Resolution = j - k
  BY <1>1, CompareIndices
<1>9. (n - (b - i * Resolution)) \div Resolution = j - k + i
  <2>1. b - i * Resolution = Resolution * (k + (-i))
    BY <1>1, <1>7, CompareIndices
  <2>2. n = Resolution * j
    BY IndexFacts
  <2>3. n - (b - i * Resolution) = Resolution * (j - k + i)
    <3> HIDE DEF j, k
    <3> QED BY <1>1, <1>2, <1>3, <2>1, <2>2, SMTT(30)
  <2>4. j - k + i \in Int
    BY <1>1, <1>3
  <2> QED BY <1>2, <2>3, <2>4, ScaleDiv
<1>10. n \in Nat /\ b \in Nat
  BY <1>1, IndexFacts
<1> HIDE DEF j, k, K, T
<1>11. CASE j >= k /\ j < k + K
  <2>1. n >= b /\ n < b + WindowSize
    BY <1>2, <1>3, <1>4, <1>5, <1>10, <1>11
  <2>2. (f + (j - k)) % T = (f + T + (j - k)) % T
    <3> DEFINE x == f + (j - k)
    <3>1. x \in Int
      BY <1>1, <1>3
    <3>2. f + T + (j - k) = x + T
      BY <1>1, <1>2, <1>3
    <3> HIDE DEF x
    <3>3. x % T = (x + T) % T
      BY <1>2, <3>1, OnceAround
    <3> QED BY <3>2, <3>3 DEF x
  <2>3. k - i <= j
    BY <1>1, <1>3, <1>11
  <2> QED BY <1>8, <1>11, <2>1, <2>2, <2>3 DEF Read, j, k, K, T
<1>12. CASE j < k /\ k - i <= j
  <2>1. ~(n >= b /\ n < b + WindowSize) /\ i > 0 /\ n >= b - i * Resolution /\ n < b
    BY <1>1, <1>3, <1>5, <1>6, <1>7, <1>10, <1>12
  <2>2. f - i + T + (j - k + i) = f + T + (j - k)
    BY <1>1, <1>2, <1>3
  <2>3. j < k + K
    BY <1>2, <1>3, <1>12
  <2> QED BY <1>9, <1>12, <2>1, <2>2, <2>3 DEF Read, j, k, K, T
<1>13. CASE ~(j < k + K) \/ ~(k - i <= j)
  <2>1. ~(n >= b /\ n < b + WindowSize)
    BY <1>1, <1>2, <1>3, <1>4, <1>5, <1>10, <1>13
  <2>2. ~(n >= b - i * Resolution /\ n < b)
    BY <1>1, <1>2, <1>3, <1>5, <1>6, <1>7, <1>10, <1>13
  <2> QED BY <1>13, <2>1, <2>2 DEF Read, j, k, K, T
<1> QED BY <1>1, <1>2, <1>3, <1>11, <1>12, <1>13

(* One write and one move of the window, of the ring with first number b,  *)
(* first cell f, a history of i items and the given contents.              *)
IsWritten(b, f, i, cells, n, x, cells2) ==
    /\ f \in Cells /\ Ring(b, i) /\ DOMAIN cells = Cells
    /\ n \in Numbers /\ n >= b /\ n < b + WindowSize
    /\ cells2 = [cells EXCEPT ![(f + (n - b) \div Resolution) % totalItems] = x]

IsScrolled(b, f, i, cells, a, b2, f2, i2, cells2) ==
    LET K == numItemsInsideActiveWindow
        H == maxNumItemsInsideInactiveWindow
        reused == {(((f + K) % totalItems) + k) % totalItems : k \in 0 .. a - 1}
    IN  /\ f \in Cells /\ Ring(b, i) /\ DOMAIN cells = Cells
        /\ b2 \in Firsts /\ b < b2 /\ b2 <= b + WindowSize
        /\ a = (b2 - b) \div Resolution
        /\ f2 = (f + a) % totalItems
        /\ i2 = IF i + a > H THEN H ELSE i + a
        /\ cells2 = [c \in Cells |-> IF c \in reused THEN Empty ELSE cells[c]]

(* Writing to the cell of an active number changes what is read for that   *)
(* number and for no other.                                                *)
LEMMA ReadWritten ==
    ASSUME Sizes, NEW b, NEW f, NEW i, NEW cells, NEW n, NEW x, NEW cells2,
           IsWritten(b, f, i, cells, n, x, cells2), NEW m \in Numbers
    PROVE  Read(b, f, i, cells2, m) = IF m = n THEN x ELSE Read(b, f, i, cells, m)
<1>0. /\ f \in Cells /\ Ring(b, i) /\ DOMAIN cells = Cells
      /\ n \in Numbers /\ n >= b /\ n < b + WindowSize
      /\ cells2 = [cells EXCEPT ![(f + (n - b) \div Resolution) % totalItems] = x]
  BY DEF IsWritten
<1> DEFINE j == Index(n) k == Index(b) l == Index(m)
           K == numItemsInsideActiveWindow T == totalItems
<1>1. b \in Numbers /\ i \in Nat /\ i <= T - K /\ f \in Nat /\ f < T
  BY <1>0, SizesFacts DEF Ring, Firsts, Cells
<1>2. K \in Nat \ {0} /\ T \in Nat \ {0} /\ WindowSize = Resolution * K
  BY SizesFacts
<1>3. j \in Nat /\ k \in Nat /\ l \in Nat /\ n \in Nat /\ b \in Nat
  BY <1>0, <1>1, IndexFacts
<1>4. /\ n < b + Resolution * K <=> j < k + K
      /\ n < b <=> j < k
      /\ (n - b) \div Resolution = j - k
      /\ m = n <=> l = j
  BY <1>0, <1>1, <1>2, CompareIndices
<1>5. k <= j /\ j < k + K
  BY <1>0, <1>2, <1>3, <1>4
<1> HIDE DEF j, k, l, K, T
<1>6. (f + (j - k)) % T = (f + T + (j - k)) % T /\ (f + T + (j - k)) % T \in 0 .. T - 1
  <2>1. f + (j - k) \in Int /\ f + (j - k) + T = f + T + (j - k) /\ f + T + (j - k) \in Int
    BY <1>1, <1>2, <1>3
  <2>2. (f + (j - k) + T) % T = (f + (j - k)) % T
    BY <1>2, <2>1, OnceAround
  <2>3. (f + T + (j - k)) % T \in 0 .. T - 1
    BY <1>2, <2>1, Remainder
  <2> QED BY <2>1, <2>2, <2>3
<1>7. CASE m = n
  BY <1>0, <1>1, <1>3, <1>4, <1>5, <1>6, <1>7 DEF Read, j, k, l, K, T, Cells
<1>8. CASE m # n /\ k - i <= l /\ l < k + K
  <2>1. f + T + (l - k) \in Int /\ f + T + (j - k) \in Int /\ l # j
    BY <1>1, <1>2, <1>3, <1>4, <1>8
  <2>2. (f + T + (l - k)) % T # (f + T + (j - k)) % T
    <3>1. CASE l < j
      <4>1. f + T + (l - k) < f + T + (j - k) /\ f + T + (j - k) < f + T + (l - k) + T
        BY <1>1, <1>2, <1>3, <1>5, <1>8, <3>1
      <4> QED BY <1>2, <2>1, <4>1, LessThanARound
    <3>2. CASE j < l
      <4>1. f + T + (j - k) < f + T + (l - k) /\ f + T + (l - k) < f + T + (j - k) + T
        BY <1>1, <1>2, <1>3, <1>5, <1>8, <3>2
      <4> QED BY <1>2, <2>1, <4>1, LessThanARound
    <3> QED BY <1>3, <2>1, <3>1, <3>2
  <2> QED BY <1>0, <1>4, <1>6, <1>8, <2>2 DEF Read, j, k, l, K, T
<1>9. CASE m # n /\ ~(k - i <= l /\ l < k + K)
  BY <1>9 DEF Read, k, l, K
<1> QED BY <1>7, <1>8, <1>9

(* Moving the window by at most its size: what is still read is what was   *)
(* read before, and the numbers that become active read as Empty.          *)
LEMMA ReadScrolled ==
    ASSUME Sizes, NEW b, NEW f, NEW i, NEW cells, NEW a, NEW b2, NEW f2, NEW i2, NEW cells2,
           IsScrolled(b, f, i, cells, a, b2, f2, i2, cells2), NEW m \in Numbers
    PROVE  Read(b2, f2, i2, cells2, m)
           = IF Index(m) < Index(b2) - i2 THEN Empty ELSE Read(b, f, i, cells, m)
<1> DEFINE reused == {(((f + numItemsInsideActiveWindow) % totalItems) + k) % totalItems : k \in 0 .. a - 1}
<1>0. /\ f \in Cells /\ Ring(b, i) /\ DOMAIN cells = Cells
      /\ b2 \in Firsts /\ b < b2 /\ b2 <= b + WindowSize
      /\ a = (b2 - b) \div Resolution
      /\ f2 = (f + a) % totalItems
      /\ i2 = IF i + a > maxNumItemsInsideInactiveWindow
              THEN maxNumItemsInsideInactiveWindow ELSE i + a
      /\ cells2 = [c \in Cells |-> IF c \in reused THEN Empty ELSE cells[c]]
  BY DEF IsScrolled
<1> DEFINE k == Index(b) k2 == Index(b2) l == Index(m) H == maxNumItemsInsideInactiveWindow
           K == numItemsInsideActiveWindow T == totalItems
<1>1. b \in Numbers /\ b2 \in Numbers /\ i \in Nat /\ i <= H /\ f \in Nat /\ f < T
  BY <1>0, SizesFacts DEF Ring, Firsts, Cells
<1>2. K \in Nat \ {0} /\ T \in Nat \ {0} /\ WindowSize = Resolution * K /\ H \in Nat /\ T = H + K
  BY SizesFacts
<1>3. k \in Nat /\ k2 \in Nat /\ l \in Nat /\ b \in Nat /\ b2 \in Nat
  BY <1>0, <1>1, IndexFacts
<1>4. b < b2 <=> k < k2
  BY <1>1, CompareIndices
<1>5. (b2 - b) \div Resolution = k2 - k
  BY <1>1, CompareIndices
<1>6. a = k2 - k /\ 0 < a /\ a <= K
  <2>1. b < b2 + Resolution * (-K) <=> k < k2 + (-K)
    BY <1>1, <1>2, CompareIndices
  <2>2. Resolution * (-K) = - WindowSize
    BY <1>2, SMTT(30) DEF Sizes
  <2>3. ~(b < b2 + Resolution * (-K))
    BY <1>0, <1>1, <1>2, <1>3, <2>2 DEF Sizes
  <2> QED BY <1>0, <1>2, <1>3, <1>4, <1>5, <2>1, <2>3
<1> HIDE DEF k, k2, l, H, K, T, reused
<1>7. i2 = IF i + a > H THEN H ELSE i + a
  BY <1>0 DEF H
<1>8. i2 \in Nat /\ i2 <= H /\ i2 <= i + a
  BY <1>1, <1>2, <1>3, <1>6, <1>7
<1>9. \A y \in Int : (f + K + y) % T = (f + K + T + y) % T
  <2> SUFFICES ASSUME NEW y \in Int PROVE (f + K + y) % T = (f + K + T + y) % T
    OBVIOUS
  <2>1. f + K + y \in Int /\ f + K + y + T = f + K + T + y
    BY <1>1, <1>2
  <2> QED BY <1>2, <2>1, OnceAround
<1>10. reused = {(f + K + T + y) % T : y \in 0 .. a - 1}
  <2>1. f + K \in 0 .. 2 * T - 1
    BY <1>1, <1>2
  <2>2. \A y \in Int : (((f + K) % T) + y) % T = (f + K + y) % T
    BY <1>2, <2>1, RestEarly
  <2>3. \A y \in 0 .. a - 1 : (((f + K) % T) + y) % T = (f + K + T + y) % T
    BY <1>9, <2>2
  <2> QED BY <2>3 DEF K, T, reused
<1>11. (((f + a) % T) + T + (l - k2)) % T = (f + T + (l - k)) % T
  <2>1. f + a \in 0 .. 2 * T - 1 /\ T + (l - k2) \in Int
    BY <1>1, <1>2, <1>3, <1>6
  <2>2. (((f + a) % T) + (T + (l - k2))) % T = (f + a + (T + (l - k2))) % T
    BY <1>2, <2>1, RestEarly
  <2>3. (f + a) % T \in Int
    BY <1>2, <2>1, Remainder
  <2>4. f + a + (T + (l - k2)) = f + T + (l - k)
    BY <1>1, <1>2, <1>3, <1>6
  <2>5. ((f + a) % T) + (T + (l - k2)) = ((f + a) % T) + T + (l - k2)
    BY <1>2, <1>3, <2>3
  <2> QED BY <2>2, <2>4, <2>5
<1>12. (f + T + (l - k)) % T \in Cells
  <2>1. f + T + (l - k) \in Int
    BY <1>1, <1>2, <1>3
  <2> QED BY <1>2, <2>1, Remainder DEF Cells, T
<1>13. CASE l < k2 - i2
  <2>1. ~(k2 - i2 <= l)
    BY <1>3, <1>8, <1>13
  <2> QED BY <1>13, <2>1 DEF Read, l, k2
<1>14. CASE ~(l < k2 - i2) /\ l < k + K
  <2>1. l < k2 + K /\ k - i <= l /\ k2 - i2 <= l
    BY <1>1, <1>2, <1>3, <1>6, <1>8, <1>14
  <2>2. (f + T + (l - k)) % T \notin reused
    <3> SUFFICES ASSUME NEW y \in 0 .. a - 1 PROVE (f + T + (l - k)) % T # (f + K + T + y) % T
      BY <1>10
    <3>1. f + T + (l - k) \in Int /\ f + K + T + y \in Int
      BY <1>1, <1>2, <1>3, <1>6
    <3>2. f + T + (l - k) < f + K + T + y /\ f + K + T + y < f + T + (l - k) + T
      BY <1>1, <1>2, <1>3, <1>6, <1>8, <1>14
    <3> QED BY <1>2, <3>1, <3>2, LessThanARound
  <2>3. cells2[(f + T + (l - k)) % T] = cells[(f + T + (l - k)) % T]
    BY <1>0, <1>12, <2>2
  <2> QED BY <1>0, <1>11, <1>14, <2>1, <2>3 DEF Read, k, k2, l, K, T
<1>15. CASE ~(l < k + K) /\ l < k2 + K
  <2>1. k2 - i2 <= l
    BY <1>1, <1>2, <1>3, <1>6, <1>8, <1>15
  <2>2. (f + T + (l - k)) % T \in reused
    <3>1. l - k - K \in 0 .. a - 1 /\ f + K + T + (l - k - K) = f + T + (l - k)
      BY <1>1, <1>2, <1>3, <1>6, <1>15
    <3> QED BY <1>10, <3>1
  <2>3. cells2[(f + T + (l - k)) % T] = Empty
    BY <1>0, <1>12, <2>2
  <2> QED BY <1>0, <1>11, <1>15, <2>1, <2>3 DEF Read, k, k2, l, K, T
<1>16. CASE ~(l < k + K) /\ ~(l < k2 + K)
  BY <1>16 DEF Read, k, k2, l, K
<1> QED BY <1>13, <1>14, <1>15, <1>16 DEF k2, l

-----------------------------------------------------------------------------
(* The ring keeps its shape *)

(* The initial ring has its shape. *)
LEMMA InitType == ASSUME Sizes PROVE Init => TypeOK
<1> SUFFICES ASSUME Init PROVE TypeOK
  OBVIOUS
<1>1. totalItems \in Nat \ {0} /\ maxNumItemsInsideInactiveWindow \in Nat
  BY SizesFacts
<1> QED BY <1>1 DEF Init, TypeOK, Cells

(* advanceActiveWindow keeps it. *)
LEMMA ScrollType ==
    ASSUME Sizes, TypeOK, NEW n \in Firsts, beginningOfActiveWindow < n,
           n - beginningOfActiveWindow <= WindowSize, Scroll(n)
    PROVE  TypeOK'
<1> DEFINE b == beginningOfActiveWindow
           a == (n - b) \div Resolution
           H == maxNumItemsInsideInactiveWindow
           T == totalItems
<1>1. T \in Nat \ {0} /\ H \in Nat /\ b \in Numbers /\ n \in Numbers
  BY SizesFacts DEF TypeOK, Firsts
<1>2. a \in Nat
  <2>1. a = Index(n) - Index(b) /\ Index(n) \in Nat /\ Index(b) \in Nat /\ (b < n <=> Index(b) < Index(n))
    BY <1>1, CompareIndices, IndexFacts
  <2> QED BY <2>1
<1>3. /\ \E S : workingWindow' = [c \in Cells |-> IF c \in S THEN Empty ELSE workingWindow[c]]
      /\ firstItemOfActiveWindow' = (firstItemOfActiveWindow + a) % T
      /\ beginningOfActiveWindow' = n
      /\ numItemsInsideInactiveWindow' = IF numItemsInsideInactiveWindow + a > H THEN H
                                         ELSE numItemsInsideInactiveWindow + a
  BY DEF Scroll
<1> HIDE DEF a
<1>4. workingWindow' \in [Cells -> Items \cup {Empty}]
  BY <1>3 DEF TypeOK
<1>5. firstItemOfActiveWindow' \in Cells
  <2>1. firstItemOfActiveWindow + a \in Int
    BY <1>1, <1>2 DEF TypeOK, Cells
  <2>2. (firstItemOfActiveWindow + a) % T \in 0 .. T - 1
    BY <1>1, <2>1, Remainder
  <2> QED BY <1>3, <2>2 DEF Cells
<1>6. numItemsInsideInactiveWindow' \in 0 .. H
  <2>1. numItemsInsideInactiveWindow \in 0 .. H
    BY DEF TypeOK
  <2> HIDE DEF H
  <2> QED BY <1>1, <1>2, <1>3, <2>1
<1> QED BY <1>3, <1>4, <1>5, <1>6 DEF TypeOK

(* So does a write, *)
LEMMA PutType == ASSUME TypeOK, NEW n, NEW x \in Items \cup {Empty}, Put(n, x) PROVE TypeOK'
BY DEF TypeOK, Put

(* resetAll, *)
LEMMA ResetAllType == ASSUME Sizes, TypeOK, NEW n \in Firsts, ResetAll(n) PROVE TypeOK'
<1>1. maxNumItemsInsideInactiveWindow \in Nat
  BY SizesFacts
<1> QED BY <1>1 DEF TypeOK, ResetAll

(* A first number of a window is a number. *)
LEMMA NumberFacts ==
    ASSUME Sizes, NEW n \in Firsts
    PROVE  n \in Numbers /\ n \in Nat /\ WindowSize \in Nat
BY DEF Firsts, Numbers, Sizes

(* and every step. *)
LEMMA NextType == ASSUME Sizes, TypeOK, [Next]_vars PROVE TypeOK'
<1>1. CASE UNCHANGED vars
  BY <1>1 DEF vars, TypeOK
<1>2. ASSUME NEW n \in Firsts, AdvanceActiveWindow(n) PROVE TypeOK'
  <2>1. CASE ResetAll(n)
    BY <2>1, ResetAllType
  <2>2. CASE n - beginningOfActiveWindow <= WindowSize /\ Scroll(n)
    <3>1. n \in Nat /\ beginningOfActiveWindow \in Nat
      BY NumberFacts DEF TypeOK
    <3> QED BY <1>2, <2>2, <3>1, ScrollType DEF AdvanceActiveWindow
  <2> QED BY <1>2, <2>1, <2>2 DEF AdvanceActiveWindow
<1> QED BY <1>1, <1>2, PutType, ResetAllType DEF Next

(* The variables keep their types for every window size, resolution and    *)
(* length of the history: the history never holds more items than there    *)
(* are cells for it.                                                       *)
LEMMA WindowType == ASSUME Sizes PROVE Spec => []TypeOK
<1>1. TypeOK /\ [Next]_vars => TypeOK'
  BY NextType
<1> QED BY <1>1, InitType, PTL DEF Spec

-----------------------------------------------------------------------------
(* The ring implements the map *)

(* Lookup, in this state and in the next one *)
LEMMA LookupIsRead ==
    ASSUME Sizes, NEW n \in Numbers
    PROVE  /\ TypeOK => Lookup(n) = Read(beginningOfActiveWindow, firstItemOfActiveWindow,
                                         numItemsInsideInactiveWindow, workingWindow, n)
           /\ TypeOK' => Lookup(n)' = Read(beginningOfActiveWindow', firstItemOfActiveWindow',
                                           numItemsInsideInactiveWindow', workingWindow', n)
<1>1. ASSUME TypeOK
      PROVE  Lookup(n) = Read(beginningOfActiveWindow, firstItemOfActiveWindow,
                              numItemsInsideInactiveWindow, workingWindow, n)
  <2>1. /\ Ring(beginningOfActiveWindow, numItemsInsideInactiveWindow)
        /\ firstItemOfActiveWindow \in Cells
    BY <1>1 DEF Ring, TypeOK
  <2> QED BY <2>1, LookupReads
          DEF Lookup, insideActiveWindow, isPresentInHistory, cellOfActive, cellOfHistory,
              getBeginningOfInactiveWindow
<1>2. ASSUME TypeOK'
      PROVE  Lookup(n)' = Read(beginningOfActiveWindow', firstItemOfActiveWindow',
                               numItemsInsideInactiveWindow', workingWindow', n)
  <2>1. /\ Ring(beginningOfActiveWindow', numItemsInsideInactiveWindow')
        /\ firstItemOfActiveWindow' \in Cells
    BY <1>2 DEF Ring, TypeOK
  <2> QED BY <2>1, LookupReads
          DEF Lookup, insideActiveWindow, isPresentInHistory, cellOfActive, cellOfHistory,
              getBeginningOfInactiveWindow
<1> QED BY <1>1, <1>2

(* Nothing has been written yet. *)
LEMMA InitMap == ASSUME Sizes PROVE Init => Map!Init
<1> SUFFICES ASSUME Init PROVE Map!Init
  OBVIOUS
<1>1. TypeOK
  BY InitType
<1>2. getBeginningOfInactiveWindow = beginningOfActiveWindow
  <2>1. beginningOfActiveWindow \in Nat /\ Resolution \in Nat
    BY <1>1, NumberFacts DEF TypeOK, Sizes
  <2>2. 0 * Resolution = 0
    BY <2>1
  <2> QED BY <2>1, <2>2 DEF Init, getBeginningOfInactiveWindow
<1>3. \A n \in Numbers : Lookup(n) = Empty
  <2> SUFFICES ASSUME NEW n \in Numbers PROVE Lookup(n) = Empty
    OBVIOUS
  <2>1. ~isPresentInHistory(n)
    BY DEF Init, isPresentInHistory
  <2>2. cellOfActive(n) \in Cells
    <3>1. (n - beginningOfActiveWindow) \div Resolution \in Int /\ totalItems \in Nat \ {0}
      <4>1. beginningOfActiveWindow \in Numbers
        BY <1>1, NumberFacts DEF TypeOK
      <4> QED BY <4>1, CompareIndices, IndexFacts, SizesFacts
    <3> DEFINE q == (n - beginningOfActiveWindow) \div Resolution
    <3> HIDE DEF q
    <3>2. firstItemOfActiveWindow + q \in Int
      BY <3>1 DEF Init, q
    <3>3. (firstItemOfActiveWindow + q) % totalItems \in 0 .. totalItems - 1
      BY <3>1, <3>2, Remainder
    <3> QED BY <3>3 DEF cellOfActive, Cells, q
  <2> QED BY <2>1, <2>2 DEF Init, Lookup
<1>4. beginningOfActiveWindow \in Map!Firsts
  BY DEF Init, Firsts, Numbers, Map!Firsts, Map!Numbers
<1> QED BY <1>2, <1>3, <1>4 DEF Map!Init, Map!Numbers, Numbers

(* Writing through get(n) writes the item of n. *)
LEMMA PutIsWrite ==
    ASSUME Sizes, TypeOK, TypeOK', NEW n \in Numbers, NEW x \in Items \cup {Empty}, Put(n, x)
    PROVE  Map!Write(n, x)
<1>1. /\ n >= beginningOfActiveWindow /\ n < beginningOfActiveWindow + WindowSize
      /\ workingWindow' = [workingWindow EXCEPT ![cellOfActive(n)] = x]
      /\ UNCHANGED <<beginningOfActiveWindow, firstItemOfActiveWindow, numItemsInsideInactiveWindow>>
  BY DEF Put, insideActiveWindow
<1>2. /\ Ring(beginningOfActiveWindow, numItemsInsideInactiveWindow)
      /\ firstItemOfActiveWindow \in Cells /\ DOMAIN workingWindow = Cells
  BY DEF Ring, TypeOK
<1>3. \A m \in Numbers : Lookup(m)' = IF m = n THEN x ELSE Lookup(m)
  <2> SUFFICES ASSUME NEW m \in Numbers PROVE Lookup(m)' = IF m = n THEN x ELSE Lookup(m)
    OBVIOUS
  <2>1. Lookup(m)' = Read(beginningOfActiveWindow, firstItemOfActiveWindow,
                          numItemsInsideInactiveWindow, workingWindow', m)
    BY <1>1, LookupIsRead
  <2>2. Lookup(m) = Read(beginningOfActiveWindow, firstItemOfActiveWindow,
                         numItemsInsideInactiveWindow, workingWindow, m)
    BY LookupIsRead
  <2> DEFINE b == beginningOfActiveWindow f == firstItemOfActiveWindow
             i == numItemsInsideInactiveWindow
  <2>3. Read(b, f, i, workingWindow', m)
        = IF m = n THEN x ELSE Read(b, f, i, workingWindow, m)
    <3>1. IsWritten(b, f, i, workingWindow, n, x, workingWindow')
      BY <1>1, <1>2 DEF cellOfActive, IsWritten
    <3> QED BY <3>1, ReadWritten
  <2> QED BY <2>1, <2>2, <2>3
<1>4. [m \in Numbers |-> Lookup(m)]' = [[m \in Numbers |-> Lookup(m)] EXCEPT ![n] = x]
  <2>1. [m \in Numbers |-> Lookup(m)]' = [m \in Numbers |-> Lookup(m)']
    OBVIOUS
  <2>2. [[m \in Numbers |-> Lookup(m)] EXCEPT ![n] = x]
            = [m \in Numbers |-> IF m = n THEN x ELSE Lookup(m)]
    OBVIOUS
  <2> QED BY <1>3, <2>1, <2>2
<1>5. beginningOfActiveWindow <= n
  BY <1>1, NumberFacts, IndexFacts DEF TypeOK
<1> QED BY <1>1, <1>4, <1>5 DEF Map!Write, Map!Active, getBeginningOfInactiveWindow, Numbers

(* resetAll forgets every item. *)
LEMMA ResetAllIsForget ==
    ASSUME Sizes, TypeOK', NEW n \in Firsts, ResetAll(n)
    PROVE  Map!Forget(n)
<1>1. /\ beginningOfActiveWindow' = n /\ numItemsInsideInactiveWindow' = 0
      /\ workingWindow' = [c \in Cells |-> Empty]
  BY DEF ResetAll
<1>2. getBeginningOfInactiveWindow' = n
  <2>1. n \in Nat /\ Resolution \in Nat
    BY NumberFacts DEF Sizes
  <2>2. 0 * Resolution = 0
    BY <2>1
  <2> QED BY <1>1, <2>1, <2>2 DEF getBeginningOfInactiveWindow
<1>3. \A m \in Numbers : Lookup(m)' = Empty
  <2> SUFFICES ASSUME NEW m \in Numbers PROVE Lookup(m)' = Empty
    OBVIOUS
  <2> DEFINE f == firstItemOfActiveWindow'
             y == f + totalItems + (Index(m) - Index(n))
  <2>1. Lookup(m)' = Read(n, f, 0, workingWindow', m)
    BY <1>1, LookupIsRead
  <2>2. y \in Int /\ totalItems \in Nat \ {0}
    <3>1. f \in Int
      BY DEF TypeOK, Cells
    <3>2. Index(m) \in Nat /\ Index(n) \in Nat /\ totalItems \in Nat \ {0}
      BY NumberFacts, IndexFacts, SizesFacts
    <3> HIDE DEF f
    <3> QED BY <3>1, <3>2
  <2>3. y % totalItems \in Cells
    <3> HIDE DEF y
    <3> QED BY <2>2, Remainder DEF Cells
  <2> QED BY <1>1, <2>1, <2>3 DEF Read
<1>4. [m \in Numbers |-> Lookup(m)]' = [m \in Numbers |-> Empty]
  BY <1>3
<1> QED BY <1>1, <1>2, <1>4 DEF Map!Forget, Map!Numbers, Numbers

(* advanceActiveWindow, by at most a window, slides the map. *)
LEMMA ScrollIsSlide ==
    ASSUME Sizes, TypeOK, TypeOK', NEW n \in Firsts, beginningOfActiveWindow < n,
           n - beginningOfActiveWindow <= WindowSize, Scroll(n)
    PROVE  Map!Slide(n)
<1> DEFINE b == beginningOfActiveWindow
           f == firstItemOfActiveWindow
           i == numItemsInsideInactiveWindow
           a == (n - b) \div Resolution
           H == maxNumItemsInsideInactiveWindow
           i2 == IF i + a > H THEN H ELSE i + a
           reused == {(((f + numItemsInsideActiveWindow) % totalItems) + k) % totalItems : k \in 0 .. a - 1}
           oldest2 == n - i2 * Resolution
<1>1. /\ workingWindow' = [c \in Cells |-> IF c \in reused THEN Empty ELSE workingWindow[c]]
      /\ firstItemOfActiveWindow' = (f + a) % totalItems
      /\ beginningOfActiveWindow' = n
      /\ numItemsInsideInactiveWindow' = i2
  BY DEF Scroll
<1>2. /\ Ring(b, i) /\ f \in Cells /\ DOMAIN workingWindow = Cells
      /\ b \in Firsts /\ b \in Numbers /\ n \in Numbers /\ b \in Nat /\ n \in Nat
      /\ WindowSize \in Nat /\ n <= b + WindowSize
  BY NumberFacts DEF Ring, TypeOK
<1>3. /\ Resolution \in Nat \ {0} /\ H \in Nat /\ i \in Nat /\ i <= H /\ Index(b) \in Nat
      /\ Index(n) \in Nat /\ a = Index(n) - Index(b) /\ a > 0
      /\ WindowHistory * WindowSize = Resolution * H
  <2>1. H \in Nat /\ i \in Nat /\ i <= H /\ WindowHistory * WindowSize = Resolution * H
    BY SizesFacts DEF TypeOK
  <2>2. Index(b) \in Nat /\ Index(n) \in Nat /\ a = Index(n) - Index(b) /\ (b < n <=> Index(b) < Index(n))
    BY <1>2, IndexFacts, CompareIndices
  <2> QED BY <2>1, <2>2 DEF Sizes
<1>4. \A m \in Numbers : Lookup(m)' = IF Index(m) < Index(n) - i2 THEN Empty ELSE Lookup(m)
  <2> SUFFICES ASSUME NEW m \in Numbers
               PROVE  Lookup(m)' = IF Index(m) < Index(n) - i2 THEN Empty ELSE Lookup(m)
    OBVIOUS
  <2>1. Lookup(m)' = Read(n, (f + a) % totalItems, i2, workingWindow', m)
    BY <1>1, LookupIsRead
  <2>2. Lookup(m) = Read(b, f, i, workingWindow, m)
    BY LookupIsRead
  <2>3. Read(n, (f + a) % totalItems, i2, workingWindow', m)
        = IF Index(m) < Index(n) - i2 THEN Empty ELSE Read(b, f, i, workingWindow, m)
    <3>1. IsScrolled(b, f, i, workingWindow, a, n, (f + a) % totalItems, i2, workingWindow')
      BY <1>1, <1>2 DEF IsScrolled
    <3> HIDE DEF i2, a
    <3> QED BY <3>1, ReadScrolled
  <2> QED BY <1>1, <2>1, <2>2, <2>3
<1> HIDE DEF a
<1>5. i2 \in Nat /\ i2 <= H
  BY <1>3
<1> HIDE DEF i2
<1>6. \A m \in Numbers : m < oldest2 <=> Index(m) < Index(n) - i2
  <2> SUFFICES ASSUME NEW m \in Numbers PROVE m < oldest2 <=> Index(m) < Index(n) - i2
    OBVIOUS
  <2>1. m < n + Resolution * (-i2) <=> Index(m) < Index(n) + (-i2)
    BY <1>2, <1>5, CompareIndices
  <2>2. n + Resolution * (-i2) = n - i2 * Resolution
    BY <1>2, <1>3, <1>5, SMTT(30)
  <2>3. Index(n) + (-i2) = Index(n) - i2
    BY <1>3, <1>5
  <2> QED BY <2>1, <2>2, <2>3
<1>7. getBeginningOfInactiveWindow' = oldest2
  BY <1>1 DEF getBeginningOfInactiveWindow
<1>8. oldest2 = LET limit == n - WindowHistory * WindowSize
                IN  IF getBeginningOfInactiveWindow > limit THEN getBeginningOfInactiveWindow ELSE limit
  <2>1. getBeginningOfInactiveWindow = Resolution * (Index(b) - i)
    <3>1. b = Resolution * Index(b)
      BY <1>2, IndexFacts
    <3>2. b - i * Resolution = Resolution * (Index(b) - i)
      <4>1. Resolution * (Index(b) - i) = Resolution * Index(b) - i * Resolution
        BY <1>3, Distribute
      <4> QED BY <3>1, <4>1
    <3> QED BY <3>2 DEF getBeginningOfInactiveWindow
  <2>2. \A y \in Int : n - y * Resolution = Resolution * (Index(n) - y)
    <3>1. n = Resolution * Index(n)
      BY <1>2, IndexFacts
    <3>2. \A y \in Int : Resolution * (Index(n) - y) = Resolution * Index(n) - y * Resolution
      BY <1>3, Distribute
    <3> QED BY <3>1, <3>2
  <2>3. n - WindowHistory * WindowSize = Resolution * (Index(n) - H)
    <3>1. Resolution * H = H * Resolution
      BY <1>3, SMTT(30)
    <3>2. n - H * Resolution = Resolution * (Index(n) - H)
      BY <1>3, <2>2
    <3> QED BY <1>3, <3>1, <3>2
  <2>4. oldest2 = Resolution * (Index(n) - i2)
    BY <1>5, <2>2
  <2>5. Resolution * (Index(n) - H) < Resolution * (Index(b) - i) <=> Index(n) - H < Index(b) - i
    <3>1. Index(n) - H \in Int /\ Index(b) - i \in Int
      BY <1>3
    <3> QED BY <1>3, <3>1, ScaleOrder
  <2>6. /\ Resolution * (Index(n) - H) \in Int /\ Resolution * (Index(b) - i) \in Int
    BY <1>3, SMTT(30)
  <2>7. CASE i + a > H
    <3>1. i2 = H /\ ~(Index(n) - H < Index(b) - i)
      BY <1>3, <2>7 DEF i2
    <3> QED BY <2>1, <2>3, <2>4, <2>5, <2>6, <3>1
  <2>8. CASE i + a = H
    <3>1. i2 = H /\ ~(Index(n) - H < Index(b) - i)
      BY <1>3, <2>8 DEF i2
    <3> QED BY <2>1, <2>3, <2>4, <2>5, <2>6, <3>1
  <2>9. CASE i + a < H
    <3>1. Index(n) - i2 = Index(b) - i /\ Index(n) - H < Index(b) - i
      BY <1>3, <2>9 DEF i2
    <3> QED BY <2>1, <2>3, <2>4, <2>5, <2>6, <3>1
  <2> QED BY <1>3, <2>7, <2>8, <2>9
<1> HIDE DEF oldest2
<1>9. [m \in Numbers |-> Lookup(m)]' =
          [m \in Numbers |-> IF m < oldest2 THEN Empty ELSE [k \in Numbers |-> Lookup(k)][m]]
  <2>1. [m \in Numbers |-> Lookup(m)]' = [m \in Numbers |-> Lookup(m)']
    OBVIOUS
  <2>2. \A m \in Numbers : [k \in Numbers |-> Lookup(k)][m] = Lookup(m)
    OBVIOUS
  <2> QED BY <1>4, <1>6, <2>1, <2>2
<1> QED BY <1>1, <1>2, <1>7, <1>8, <1>9 DEF Map!Slide, Map!Numbers, Numbers

(* The ring of cells with wrap-around and reuse implements a plain map     *)
(* from numbers to items, for every window size, resolution, length of the *)
(* history and set of items the class can be instantiated with: what is    *)
(* read for a number that is active or in the history is what was last     *)
(* written for it since it became active, and a number that becomes active *)
(* has no item.                                                            *)
THEOREM RingImplementsMap == ASSUME Sizes PROVE Spec => ImplementsMap
<1>1. TypeOK /\ TypeOK' /\ [Next]_vars =>
          [Map!Next]_<<beginningOfActiveWindow, getBeginningOfInactiveWindow,
                       [n \in Numbers |-> Lookup(n)]>>
  <2> SUFFICES ASSUME TypeOK, TypeOK', [Next]_vars
               PROVE  Map!Next \/ UNCHANGED <<beginningOfActiveWindow, getBeginningOfInactiveWindow,
                                               [n \in Numbers |-> Lookup(n)]>>
    OBVIOUS
  <2>1. CASE UNCHANGED vars
    BY <2>1 DEF vars, getBeginningOfInactiveWindow, Lookup, insideActiveWindow,
                isPresentInHistory, cellOfActive, cellOfHistory
  <2>2. ASSUME NEW n \in Numbers, NEW x \in Items \cup {Empty}, Put(n, x) PROVE Map!Next
    <3>1. Map!Write(n, x) /\ n \in Map!Numbers
      BY <2>2, PutIsWrite DEF Numbers, Map!Numbers
    <3> QED BY <3>1 DEF Map!Next
  <2>3. ASSUME NEW n \in Firsts, ResetAll(n) PROVE Map!Next
    <3>1. Map!Forget(n) /\ n \in Map!Firsts
      BY <2>3, ResetAllIsForget DEF Firsts, Numbers, Map!Firsts, Map!Numbers
    <3> QED BY <3>1 DEF Map!Next
  <2>4. ASSUME NEW n \in Firsts, AdvanceActiveWindow(n) PROVE Map!Next
    <3>1. CASE ResetAll(n)
      BY <2>3, <3>1
    <3>2. CASE n - beginningOfActiveWindow <= WindowSize /\ Scroll(n)
      <4>1. beginningOfActiveWindow < n
        BY <2>4, NumberFacts DEF AdvanceActiveWindow, TypeOK
      <4>2. Map!Slide(n) /\ n \in Map!Firsts
        BY <3>2, <4>1, ScrollIsSlide DEF Firsts, Numbers, Map!Firsts, Map!Numbers
      <4> QED BY <4>2 DEF Map!Next
    <3> QED BY <2>4, <3>1, <3>2 DEF AdvanceActiveWindow
  <2> QED BY <2>1, <2>2, <2>3, <2>4 DEF Next
<1> QED BY <1>1, InitMap, WindowType, PTL DEF Spec, ImplementsMap, Map!Spec

-----------------------------------------------------------------------------
(* The live updates of a subscription.  The parameters and the state of    *)
(* LiveUpdates:                                                            *)
CONSTANTS MaxBlock, Head0, Size
VARIABLES genesis, head, pushed, subscribed, queue, slow, newest, pc, req, next, end,
          sent, status, aborted, skipped

Live == INSTANCE LiveUpdates

(* At least the genesis block, and a buffer of any size *)
LiveSizes == MaxBlock \in Nat /\ Head0 \in 1..MaxBlock /\ Size \in Nat

(* The queue and the stream by their ends *)
First == IF queue = <<>> THEN 0 ELSE queue[1]
Last == IF queue = <<>> THEN 0 ELSE queue[Len(queue)]
Queued == Len(queue)
Sent == Len(sent)
LastSent == IF sent = <<>> THEN 0 ELSE sent[Len(sent)]
(* The update that is taken next, queued or still to be pushed *)
Upcoming == IF Queued > 0 THEN First ELSE pushed + 1

(* Behind the first block that was transferred past the updates, blocks    *)
(* may be missing.                                                         *)
Skips(b) == skipped > 0 /\ b > skipped
Succeeds(a, b) == b > a /\ (b = a + 1 \/ Skips(b))
Resumes(b) == b > LastSent /\ (b = req + Sent \/ Skips(b))

(* The queue holds blocks in a row, and so does what was sent, but for     *)
(* that.                                                                   *)
Chained ==
    /\ queue \in Seq(Nat)
    /\ \A i \in 1..(Len(queue) - 1) : Succeeds(queue[i], queue[i + 1])
Newer == \A i \in 1..Len(queue) : queue[i] <= newest
Gapless ==
    /\ sent \in Seq(Nat)
    /\ \A i \in 1..Len(sent) : sent[i] <= LastSent /\ (sent[i] = req + i - 1 \/ Skips(sent[i]))
    /\ \A i, j \in 1..Len(sent) : i < j => sent[i] < sent[j]

(* What is pushed and queued was written. *)
LiveTyped ==
    /\ genesis \in Nat /\ head \in Nat /\ pushed \in Nat /\ newest \in Nat /\ skipped \in Nat
    /\ First \in Nat /\ Last \in Nat /\ Queued \in Nat /\ Sent \in Nat /\ LastSent \in Nat
    /\ req \in Nat /\ next \in Nat /\ end \in Nat
    /\ genesis > 0 /\ genesis <= head /\ head <= MaxBlock
    /\ newest <= pushed /\ pushed <= head /\ skipped <= pushed

Flags == slow \in BOOLEAN /\ subscribed \in BOOLEAN /\ aborted = FALSE

(* The queue ends at the block pushed last, unless it overflowed. *)
QueueFits ==
    /\ Queued <= Size
    /\ Queued > 0 => subscribed /\ First <= newest
    /\ Queued > 0 /\ ~slow => Succeeds(Last, pushed + 1)

(* At each place of the reader: what was sent, what is read next and how   *)
(* the update taken next lies to it.  The live part starts where reading   *)
(* ended.                                                                  *)
ReaderFits ==
    /\ pc \notin {"request", "check", "subscribe", "done"} => subscribed
    /\ pc \notin {"request", "done"} => req > 0
    /\ pc \in {"request", "check", "subscribe", "last", "waiting", "pop", "sync", "range"} =>
         Sent = 0
    /\ pc \in {"check", "subscribe", "last"} => req <= head + 1
    /\ pc \in {"waiting", "pop"} => end + 1 = req
    /\ pc \in {"sync", "range"} => req <= head
    /\ pc \in {"read", "fill"} => Resumes(next) /\ next <= end + 1
    /\ pc \in {"first", "overlap", "drop"} => Resumes(end + 1)
    /\ pc = "pop" => Queued > 0
    /\ pc \in {"fill", "overlap"} => Queued > 0 /\ First <= end
    /\ pc = "drop" /\ ~slow => Upcoming <= end \/ Skips(Upcoming)
    /\ pc = "live" /\ ~slow => Resumes(Upcoming)

LInv == Chained /\ Newer /\ Gapless /\ LiveTyped /\ Flags /\ QueueFits /\ ReaderFits

(* What the operations on the queue and on the stream do to their ends *)
LEMMA QueueSame ==
    ASSUME Chained, Newer, queue' = queue, skipped' = skipped, newest' = newest
    PROVE  Chained' /\ Newer' /\ First' = First /\ Last' = Last /\ Queued' = Queued
BY DEF Chained, Newer, First, Last, Queued, Succeeds, Skips

LEMMA QueueHead ==
    ASSUME Chained, queue # <<>>
    PROVE  Queued > 0 /\ Queued \in Nat /\ Head(queue) = First /\ First \in Nat /\ Upcoming = First
BY DEF Chained, First, Queued, Upcoming

LEMMA QueueEmptied ==
    ASSUME queue' = <<>> PROVE Chained' /\ Newer' /\ First' = 0 /\ Last' = 0 /\ Queued' = 0
<1>1. Len(queue') = 0 /\ queue' \in Seq(Nat)
  OBVIOUS
<1> QED BY <1>1 DEF Chained, Newer, First, Last, Queued

LEMMA QueueTail ==
    ASSUME Chained, Newer, queue # <<>>, queue' = Tail(queue), skipped' = skipped, newest' = newest
    PROVE  /\ Chained' /\ Newer' /\ First' \in Nat /\ Last' \in Nat /\ Queued' = Queued - 1 /\ Queued' \in Nat
           /\ Queued' > 0 => Succeeds(First, First') /\ Last' = Last /\ First' <= newest
           /\ Queued' = 0 => Last = First
<1>1. Len(queue) \in Nat \ {0} /\ First = queue[1] /\ Last = queue[Len(queue)] /\ queue[1] \in Nat
  BY DEF Chained, First, Last
<1>2. queue' \in Seq(Nat) /\ Len(queue') = Len(queue) - 1 /\ Len(queue') \in Nat
  BY <1>1 DEF Chained
<1>3. \A i \in 1..Len(queue') : queue'[i] = queue[i + 1] /\ queue'[i] \in Nat /\ i + 1 \in 1..Len(queue)
  BY <1>1, <1>2 DEF Chained
<1>4. Newer'
  BY <1>3 DEF Newer
<1>5. Chained'
  <2>1. ASSUME NEW i \in 1..(Len(queue') - 1) PROVE (Succeeds(queue[i], queue[i + 1]))'
    <3>1. queue'[i] = queue[i + 1] /\ queue'[i + 1] = queue[i + 2] /\ i + 1 \in 1..(Len(queue) - 1)
      BY <1>2, <1>3
    <3>2. Succeeds(queue[i + 1], queue[(i + 1) + 1])
      BY <3>1 DEF Chained
    <3>3. (i + 1) + 1 = i + 2
      OBVIOUS
    <3> QED BY <3>1, <3>2, <3>3 DEF Succeeds, Skips
  <2> QED BY <1>2, <2>1 DEF Chained
<1>6. CASE Len(queue') = 0
  BY <1>1, <1>2, <1>4, <1>5, <1>6 DEF First, Last, Queued
<1>7. CASE Len(queue') > 0
  <2> queue' # <<>>
    BY <1>7
  <2>1. First' = queue'[1] /\ Last' = queue'[Len(queue')]
    BY DEF First, Last
  <2>2. First' = queue[2] /\ Last' = queue[Len(queue)] /\ First' \in Nat /\ Last' \in Nat
    BY <1>1, <1>2, <1>3, <1>7, <2>1
  <2>3. Succeeds(queue[1], queue[1 + 1])
    BY <1>1, <1>2, <1>7 DEF Chained
  <2>4. First' <= newest
    BY <1>1, <1>2, <1>7, <2>2 DEF Newer
  <2> QED BY <1>1, <1>2, <1>4, <1>5, <1>7, <2>2, <2>3, <2>4 DEF Queued
<1> QED BY <1>2, <1>6, <1>7

LEMMA QueueAppend ==
    ASSUME Chained, Newer, newest \in Nat, NEW b \in Nat, queue' = Append(queue, b), newest' = b, newest <= b,
           skipped' = skipped, Queued > 0 => Succeeds(Last, b)
    PROVE  /\ Chained' /\ Newer' /\ Queued' = Queued + 1 /\ Last' = b
           /\ First' = IF Queued = 0 THEN b ELSE First
<1>1. /\ queue' \in Seq(Nat) /\ Len(queue') = Len(queue) + 1 /\ Len(queue) \in Nat
      /\ queue'[Len(queue) + 1] = b /\ \A i \in 1..Len(queue) : queue'[i] = queue[i] /\ queue[i] \in Nat
  BY DEF Chained
<1>2. Newer'
  <2>1. ASSUME NEW i \in 1..Len(queue') PROVE queue'[i] <= b
    <3>1. CASE i = Len(queue) + 1
      BY <1>1, <3>1
    <3>2. CASE i \in 1..Len(queue)
      <4>1. queue'[i] <= newest /\ queue'[i] \in Nat
        BY <1>1, <3>2 DEF Newer
      <4> QED BY <4>1
    <3> QED BY <1>1, <3>1, <3>2
  <2> QED BY <2>1 DEF Newer
<1>3. Queued' = Queued + 1 /\ Last' = b /\ First' = (IF Queued = 0 THEN b ELSE First)
  <2>1. queue' # <<>> /\ Last' = queue'[Len(queue')] /\ First' = queue'[1]
    BY <1>1 DEF Last, First
  <2>2. CASE Len(queue) = 0
    BY <1>1, <2>1, <2>2 DEF Queued
  <2>3. CASE Len(queue) > 0
    BY <1>1, <2>1, <2>3 DEF Queued, First
  <2> QED BY <1>1, <2>2, <2>3
<1>4. Chained'
  <2>1. ASSUME NEW i \in 1..(Len(queue') - 1) PROVE (Succeeds(queue[i], queue[i + 1]))'
    <3>1. CASE i = Len(queue)
      <4>1. Last = queue[i] /\ queue'[i] = queue[i] /\ queue'[i + 1] = b /\ Queued > 0
        BY <1>1, <3>1 DEF Last, Queued
      <4> QED BY <4>1 DEF Succeeds, Skips
    <3>2. CASE i \in 1..(Len(queue) - 1)
      <4>1. queue'[i] = queue[i] /\ queue'[i + 1] = queue[i + 1] /\ Succeeds(queue[i], queue[i + 1])
        BY <1>1, <3>2 DEF Chained
      <4> QED BY <4>1 DEF Succeeds, Skips
    <3> QED BY <1>1, <3>1, <3>2
  <2> QED BY <1>1, <2>1 DEF Chained
<1> QED BY <1>2, <1>3, <1>4

LEMMA StreamSame ==
    ASSUME Gapless, sent' = sent, req' = req, skipped' = skipped
    PROVE  Gapless' /\ Sent' = Sent /\ LastSent' = LastSent
BY DEF Gapless, Sent, LastSent, Skips

LEMMA StreamStarts ==
    ASSUME Gapless, sent' = sent, Sent = 0 PROVE Gapless' /\ Sent' = 0 /\ LastSent' = LastSent
BY DEF Gapless, Sent, LastSent

LEMMA StreamGrows ==
    ASSUME Gapless, req \in Nat, skipped \in Nat, LastSent \in Nat, req' = req, skipped' = skipped,
           NEW b \in Nat, Resumes(b), sent' = Append(sent, b)
    PROVE  Gapless' /\ Sent' = Sent + 1 /\ LastSent' = b
<1>1. /\ sent' \in Seq(Nat) /\ Len(sent') = Len(sent) + 1 /\ Len(sent) \in Nat
      /\ sent'[Len(sent) + 1] = b /\ \A i \in 1..Len(sent) : sent'[i] = sent[i] /\ sent[i] \in Nat
  BY DEF Gapless
<1>2. LastSent' = b
  BY <1>1 DEF LastSent
<1>3. \A i \in 1..Len(sent) : sent'[i] < b
  <2>1. ASSUME NEW i \in 1..Len(sent) PROVE sent'[i] < b
    <3>1. sent[i] <= LastSent /\ LastSent < b
      BY DEF Gapless, Resumes
    <3> QED BY <1>1, <3>1
  <2> QED BY <2>1
<1>4. ASSUME NEW i \in 1..Len(sent')
      PROVE  sent'[i] <= b /\ (sent'[i] = req' + i - 1 \/ (Skips(sent[i]))')
  <2>1. CASE i = Len(sent) + 1
    <3>1. sent'[i] = b /\ i - 1 = Len(sent)
      BY <1>1, <2>1
    <3>2. b = req + Len(sent) \/ Skips(b)
      BY DEF Resumes, Sent
    <3>3. CASE b = req + Len(sent)
      BY <1>1, <2>1, <3>1, <3>3
    <3>4. CASE Skips(b)
      BY <3>1, <3>4 DEF Skips
    <3> QED BY <3>2, <3>3, <3>4
  <2>2. CASE i \in 1..Len(sent)
    BY <1>1, <1>3, <2>2 DEF Gapless, Skips
  <2> QED BY <1>1, <2>1, <2>2
<1>5. ASSUME NEW i \in 1..Len(sent'), NEW j \in 1..Len(sent'), i < j PROVE sent'[i] < sent'[j]
  <2>1. i \in 1..Len(sent)
    BY <1>1, <1>5
  <2>2. CASE j = Len(sent) + 1
    BY <1>1, <1>3, <2>1, <2>2
  <2>3. CASE j \in 1..Len(sent)
    BY <1>1, <1>5, <2>1, <2>3 DEF Gapless
  <2> QED BY <1>1, <2>2, <2>3
<1> QED BY <1>1, <1>2, <1>4, <1>5 DEF Gapless, Sent

LEMMA LiveInit == ASSUME LiveSizes, Live!Init PROVE LInv
<1>1. /\ First = 0 /\ Last = 0 /\ Queued = 0 /\ Sent = 0 /\ LastSent = 0
      /\ Len(queue) = 0 /\ Len(sent) = 0 /\ queue \in Seq(Nat) /\ sent \in Seq(Nat)
  BY DEF Live!Init, First, Last, Queued, Sent, LastSent
<1>2. Chained /\ Newer /\ Gapless
  BY <1>1 DEF Chained, Newer, Gapless
<1>3. LiveTyped
  BY <1>1 DEF LiveSizes, Live!Init, LiveTyped
<1>4. Flags
  BY DEF Live!Init, Flags
<1>5. pc = "request"
  BY DEF Live!Init
<1>6. QueueFits
  BY <1>1 DEF LiveSizes, QueueFits
<1>7. ReaderFits
  BY <1>1, <1>5 DEF ReaderFits
<1> QED BY <1>2, <1>3, <1>4, <1>6, <1>7 DEF LInv

(* The state of the subscription, unchanged *)
Stream == <<subscribed, queue, slow, newest, pc, req, next, end, sent, aborted>>

(* Blocks that are written or pruned *)
LEMMA StorageSteps == ASSUME LiveSizes, LInv, Live!WriteBlock \/ Live!Prune PROVE LInv'
<1>1. UNCHANGED Stream /\ UNCHANGED <<pushed, skipped>>
  BY DEF Live!WriteBlock, Live!Prune, Live!buffer, Live!local, Live!result, Stream
<1>2. Chained' /\ Newer' /\ First' = First /\ Last' = Last /\ Queued' = Queued
  BY <1>1, QueueSame DEF LInv, Stream
<1>3. Gapless' /\ Sent' = Sent /\ LastSent' = LastSent
  BY <1>1, StreamSame DEF LInv, Stream
<1>4. Flags'
  BY <1>1 DEF LInv, Flags, Stream
<1>5. LiveTyped' /\ head <= head'
  BY <1>1, <1>2, <1>3 DEF LiveSizes, LInv, LiveTyped, Live!WriteBlock, Live!Prune, Stream
<1>6. QueueFits'
  BY <1>1, <1>2 DEF LInv, QueueFits, Succeeds, Skips, Stream
<1>7. ReaderFits'
  <2>1. (req <= head + 1 => req' <= head' + 1) /\ (req <= head => req' <= head')
    <3>1. head \in Nat /\ head' \in Nat /\ head <= head' /\ req \in Nat /\ req' = req
      BY <1>1, <1>5 DEF LInv, LiveTyped, Stream
    <3>2. \A r, a, b \in Nat : a <= b => (r <= a + 1 => r <= b + 1) /\ (r <= a => r <= b)
      OBVIOUS
    <3> QED BY <3>1, <3>2
  <2>2. Upcoming' = Upcoming
    BY <1>1, <1>2 DEF Upcoming
  <2> QED BY <1>1, <1>2, <1>3, <2>1, <2>2 DEF LInv, ReaderFits, Resumes, Skips, Stream
<1> QED BY <1>2, <1>3, <1>4, <1>5, <1>6, <1>7 DEF LInv

(* A block that is transferred: past the updates, it becomes the bound     *)
(* behind which blocks may be missing.                                     *)
LEMMA TransferStep == ASSUME LiveSizes, LInv, Live!TransferBlock PROVE LInv'
<1>1. /\ UNCHANGED Stream /\ genesis' = genesis /\ head' = head + 1 /\ pushed' = head + 1 /\ pushed = head
      /\ head < MaxBlock
      /\ skipped' = (IF Live!OnUpdates /\ skipped = 0 THEN head + 1 ELSE skipped)
  BY DEF Live!TransferBlock, Live!buffer, Live!local, Live!result, Stream
<1>2. head \in Nat /\ skipped \in Nat /\ skipped <= head /\ skipped' \in Nat /\ skipped' <= pushed'
  BY <1>1 DEF LInv, LiveTyped
<1>3. \A b \in Nat : Skips(b) => Skips(b)'
  BY <1>1, <1>2 DEF Skips
<1>4. queue' = queue /\ sent' = sent /\ req' = req /\ newest' = newest
  BY <1>1 DEF Stream
<1>5. First' = First /\ Last' = Last /\ Queued' = Queued /\ Sent' = Sent /\ LastSent' = LastSent
  BY <1>4 DEF First, Last, Queued, Sent, LastSent
<1>6. Chained'
  <2>1. ASSUME NEW i \in 1..(Len(queue') - 1) PROVE (Succeeds(queue[i], queue[i + 1]))'
    <3>1. Succeeds(queue[i], queue[i + 1]) /\ queue[i + 1] \in Nat
      BY <1>4 DEF LInv, Chained
    <3> QED BY <1>3, <1>4, <3>1 DEF Succeeds
  <2> QED BY <1>4, <2>1 DEF LInv, Chained
<1>7. Newer'
  BY <1>4 DEF LInv, Newer
<1>8. Gapless'
  <2>1. \A i \in 1..Len(sent) : Skips(sent[i]) => (Skips(sent[i]))'
    BY <1>3, <1>4 DEF LInv, Gapless
  <2> QED BY <1>4, <1>5, <2>1 DEF LInv, Gapless
<1>9. Flags'
  BY <1>1 DEF LInv, Flags, Stream
<1>10. LiveTyped'
  BY <1>1, <1>2, <1>4, <1>5 DEF LiveSizes, LInv, LiveTyped, Stream
<1>11. Live!OnUpdates => \A b \in Nat : b > pushed' => (Skips(b))'
  BY <1>1, <1>2 DEF Skips
<1>12. QueueFits'
  <2>1. ASSUME Queued > 0, ~slow PROVE (Succeeds(Last, pushed + 1))'
    <3>1. Live!OnUpdates
      BY <2>1 DEF Live!OnUpdates, Queued
    <3>2. Last < pushed + 1 /\ Last \in Nat /\ pushed \in Nat /\ pushed' = pushed + 1
      BY <1>1, <2>1 DEF LInv, QueueFits, Succeeds, LiveTyped
    <3>3. pushed' + 1 > Last /\ pushed' + 1 \in Nat /\ pushed' + 1 > pushed'
      BY <3>2
    <3>4. (Skips(pushed + 1))'
      BY <1>11, <3>1, <3>3 DEF Skips
    <3> QED BY <1>5, <3>3, <3>4 DEF Succeeds
  <2> QED BY <1>1, <1>4, <1>5, <2>1 DEF LInv, QueueFits, Stream
<1>13. \A b \in Nat : Resumes(b) => Resumes(b)'
  BY <1>3, <1>4, <1>5 DEF Resumes
<1>14. ReaderFits'
  <2>1. pc' = pc /\ slow' = slow /\ next' = next /\ end' = end /\ subscribed' = subscribed
    BY <1>1 DEF Stream
  <2>2. next \in Nat /\ end + 1 \in Nat /\ pushed + 1 \in Nat /\ First \in Nat /\ Queued \in Nat
    BY DEF LInv, LiveTyped
  <2>3. (Resumes(next) => Resumes(next)') /\ (Resumes(end + 1) => Resumes(end + 1)')
    <3>1. Resumes(next) => Resumes(next)'
      BY <1>13, <2>1, <2>2 DEF Resumes, Skips
    <3>2. Resumes(end + 1) => Resumes(end + 1)'
      BY <1>13, <2>1, <2>2 DEF Resumes, Skips
    <3> QED BY <3>1, <3>2
  <2>4. (req <= head + 1 => req' <= head' + 1) /\ (req <= head => req' <= head')
    BY <1>1, <1>2, <1>4 DEF LInv, LiveTyped
  <2>5. ASSUME pc \in {"drop", "live"} PROVE
          /\ Upcoming <= end \/ Skips(Upcoming) => Upcoming' <= end' \/ Skips(Upcoming)'
          /\ Resumes(Upcoming) => Resumes(Upcoming)'
    <3>1. CASE Queued > 0
      <4>1. Upcoming' = First /\ Upcoming = First
        BY <1>5, <3>1 DEF Upcoming
      <4>2. (Skips(First) => Skips(First)') /\ (Resumes(First) => Resumes(First)')
        BY <1>3, <1>5, <1>13, <2>2 DEF Resumes, Skips
      <4> QED BY <1>5, <2>1, <4>1, <4>2 DEF Resumes, Skips
    <3>2. CASE ~(Queued > 0)
      <4>1. Upcoming' = pushed' + 1 /\ Upcoming = pushed + 1
        BY <1>5, <3>2 DEF Upcoming
      <4>2. Live!OnUpdates
        BY <2>5 DEF Live!OnUpdates
      <4>3. (Skips(pushed + 1))'
        <5>1. pushed' + 1 \in Nat /\ pushed' + 1 > pushed'
          BY <1>1, <1>2
        <5> QED BY <1>11, <4>2, <5>1 DEF Skips
      <4>4. Skips(Upcoming)'
        BY <4>1, <4>3 DEF Skips
      <4>5. Upcoming > LastSent => Upcoming' > LastSent'
        BY <1>1, <1>2, <1>5, <4>1 DEF LInv, LiveTyped
      <4> QED BY <4>4, <4>5 DEF Resumes
    <3> QED BY <3>1, <3>2
  <2> QED BY <1>4, <1>5, <2>1, <2>3, <2>4, <2>5 DEF LInv, ReaderFits
<1> QED BY <1>6, <1>7, <1>8, <1>9, <1>10, <1>12, <1>14 DEF LInv

LEMMA PushStep == ASSUME LiveSizes, LInv, Live!UpdateSubBuffers PROVE LInv'
<1>1. /\ UNCHANGED <<genesis, head, skipped, subscribed, pc, req, next, end, sent, aborted>>
      /\ pushed < head /\ pushed' = pushed + 1
  BY DEF Live!UpdateSubBuffers, Live!storage, Live!local, Live!result
<1>2. Gapless' /\ Sent' = Sent /\ LastSent' = LastSent
  BY <1>1, StreamSame DEF LInv
<1>3. pushed \in Nat /\ pushed + 1 \in Nat /\ skipped \in Nat /\ newest \in Nat /\ newest <= pushed
  BY DEF LInv, LiveTyped
<1>4. CASE UNCHANGED <<queue, slow>> /\ (newest' = newest \/ newest' = pushed') /\ (~subscribed \/ slow)
  <2>1. Chained' /\ First' = First /\ Last' = Last /\ Queued' = Queued
    BY <1>1, <1>4 DEF LInv, Chained, Succeeds, Skips, First, Last, Queued
  <2>2. LiveTyped' /\ newest <= newest'
    BY <1>1, <1>2, <1>3, <1>4, <2>1 DEF LInv, LiveTyped
  <2>3. Newer'
    <3>1. ASSUME NEW i \in 1..Len(queue) PROVE queue[i] <= newest'
      <4>1. queue[i] <= newest /\ queue[i] \in Nat /\ newest' \in Nat
        <5>1. queue \in Seq(Nat) /\ newest' \in Nat
          BY <2>2 DEF LInv, Chained, LiveTyped
        <5>2. queue[i] <= newest
          BY DEF LInv, Newer
        <5> QED BY <5>1, <5>2
      <4> QED BY <1>3, <2>2, <4>1
    <3> QED BY <1>4, <3>1 DEF Newer
  <2>4. Flags'
    BY <1>1, <1>4 DEF LInv, Flags
  <2>5. QueueFits'
    BY <1>1, <1>4, <2>1, <2>2 DEF LInv, LiveTyped, QueueFits
  <2>6. ReaderFits'
    BY <1>1, <1>2, <1>4, <2>1 DEF LInv, ReaderFits, Resumes, Skips
  <2> QED BY <1>2, <2>1, <2>2, <2>3, <2>4, <2>5, <2>6 DEF LInv
<1>5. CASE UNCHANGED <<queue, newest>> /\ slow' = TRUE
  <2>1. Chained' /\ Newer' /\ First' = First /\ Last' = Last /\ Queued' = Queued
    BY <1>1, <1>5, QueueSame DEF LInv
  <2>2. LiveTyped'
    BY <1>1, <1>2, <1>3, <1>5, <2>1 DEF LInv, LiveTyped
  <2>3. Flags'
    BY <1>1, <1>5 DEF LInv, Flags
  <2>4. QueueFits'
    BY <1>1, <1>5, <2>1 DEF LInv, QueueFits
  <2>5. ReaderFits'
    BY <1>1, <1>2, <1>5, <2>1 DEF LInv, ReaderFits, Resumes, Skips
  <2> QED BY <1>2, <2>1, <2>2, <2>3, <2>4, <2>5 DEF LInv
<1>6. CASE /\ subscribed /\ ~slow /\ Len(queue) # Size
           /\ queue' = Append(queue, pushed + 1) /\ newest' = pushed + 1 /\ slow' = slow
  <2>1. Queued > 0 => Succeeds(Last, pushed + 1)
    BY <1>6 DEF LInv, QueueFits
  <2>2. /\ Chained' /\ Newer' /\ Queued' = Queued + 1 /\ Last' = pushed + 1
        /\ First' = IF Queued = 0 THEN pushed + 1 ELSE First
    <3>1. newest <= pushed + 1
      BY <1>3
    <3> QED BY <1>1, <1>3, <1>6, <2>1, <3>1, QueueAppend DEF LInv
  <2>3. Queued \in Nat /\ First \in Nat /\ Queued <= Size /\ Size \in Nat /\ Queued # Size
    BY <1>6 DEF LiveSizes, LInv, LiveTyped, QueueFits, Queued
  <2>4. Upcoming' = Upcoming /\ Queued' > 0
    BY <1>1, <2>2, <2>3 DEF Upcoming
  <2>5. LiveTyped'
    BY <1>1, <1>2, <1>3, <1>6, <2>2, <2>3 DEF LInv, LiveTyped
  <2>6. Flags'
    BY <1>1, <1>6 DEF LInv, Flags
  <2>7. QueueFits'
    <3>1. Queued' <= Size
      BY <2>2, <2>3
    <3>2. First' <= newest'
      BY <1>3, <1>6, <2>2, <2>3 DEF LInv, QueueFits
    <3>3. (Succeeds(Last, pushed + 1))'
      BY <1>1, <1>3, <2>2 DEF Succeeds
    <3> QED BY <1>1, <1>6, <3>1, <3>2, <3>3 DEF QueueFits
  <2>8. ReaderFits'
    <3>1. Queued > 0 => First' = First
      BY <2>2, <2>3
    <3>2. Resumes(Upcoming) => Resumes(Upcoming)'
      BY <1>1, <1>2, <2>4 DEF Resumes, Skips
    <3>3. Upcoming <= end \/ Skips(Upcoming) => Upcoming' <= end' \/ Skips(Upcoming)'
      BY <1>1, <2>4 DEF Skips
    <3>4. (Resumes(next) => Resumes(next)') /\ (Resumes(end + 1) => Resumes(end + 1)')
      BY <1>1, <1>2 DEF Resumes, Skips
    <3> QED BY <1>1, <1>2, <1>6, <2>4, <3>1, <3>2, <3>3, <3>4 DEF LInv, ReaderFits
  <2> QED BY <1>2, <2>2, <2>5, <2>6, <2>7, <2>8 DEF LInv
<1> QED
  <2>1. CASE ~subscribed
    BY <1>4, <2>1 DEF Live!UpdateSubBuffers
  <2>2. CASE subscribed /\ slow
    BY <1>1, <1>4, <2>2 DEF Live!UpdateSubBuffers, Live!PushToBuffer
  <2>3. CASE subscribed /\ ~slow /\ Len(queue) = Size
    BY <1>5, <2>3 DEF Live!UpdateSubBuffers, Live!PushToBuffer
  <2>4. CASE subscribed /\ ~slow /\ Len(queue) # Size
    BY <1>6, <2>4 DEF Live!UpdateSubBuffers, Live!PushToBuffer
  <2> QED BY <2>1, <2>2, <2>3, <2>4

(* SubscribeToUpdates: a subscription ends, or gets as far as the history. *)
LEMMA EndOfStream ==
    ASSUME LiveSizes, LInv, pc' = "done",
           UNCHANGED <<genesis, head, skipped, pushed, newest, slow, req, next, end, sent, aborted>>,
           UNCHANGED <<subscribed, queue>> \/ (subscribed' = FALSE /\ queue' = <<>>)
    PROVE  LInv'
<1>1. Gapless' /\ Sent' = Sent /\ LastSent' = LastSent
  BY StreamSame DEF LInv
<1>2. Flags'
  BY DEF LInv, Flags
<1>3. ReaderFits'
  BY DEF ReaderFits
<1>4. CASE UNCHANGED <<subscribed, queue>>
  <2>1. Chained' /\ Newer' /\ First' = First /\ Last' = Last /\ Queued' = Queued
    BY <1>4, QueueSame DEF LInv
  <2>2. LiveTyped' /\ QueueFits'
    BY <1>1, <1>4, <2>1 DEF LInv, LiveTyped, QueueFits, Succeeds, Skips
  <2> QED BY <1>1, <1>2, <1>3, <2>1, <2>2 DEF LInv
<1>5. CASE subscribed' = FALSE /\ queue' = <<>>
  <2>1. Chained' /\ Newer' /\ First' = 0 /\ Last' = 0 /\ Queued' = 0
    BY <1>5, QueueEmptied
  <2>2. LiveTyped' /\ QueueFits'
    BY <1>1, <2>1 DEF LiveSizes, LInv, LiveTyped, QueueFits
  <2> QED BY <1>1, <1>2, <1>3, <2>1, <2>2 DEF LInv
<1> QED BY <1>4, <1>5

(* A step of the subscription that only moves on: pc and the range change. *)
LEMMA StreamMovesOn ==
    ASSUME LInv,
           UNCHANGED <<genesis, head, skipped, pushed, subscribed, queue, slow, newest, req, sent, aborted>>,
           next' \in Nat, end' \in Nat, ReaderFits'
    PROVE  LInv'
<1>1. /\ Gapless' /\ Sent' = Sent /\ LastSent' = LastSent
      /\ Chained' /\ Newer' /\ First' = First /\ Last' = Last /\ Queued' = Queued
  BY StreamSame, QueueSame DEF LInv
<1>2. Flags'
  BY DEF LInv, Flags
<1>3. LiveTyped' /\ QueueFits'
  BY <1>1 DEF LInv, LiveTyped, QueueFits, Succeeds, Skips
<1> QED BY <1>1, <1>2, <1>3 DEF LInv

LEMMA RequestSteps ==
    ASSUME LiveSizes, LInv,
           \/ Live!Cancel \/ Live!IsUpdatePruned \/ Live!SubscribeToLiveUpdates \/ Live!GetLastBlockId
           \/ \E b \in 1..(MaxBlock + 1) : Live!IsRequestOutOfRange(b)
    PROVE  LInv'
<1> USE DEF Live!storage, Live!buffer, Live!local, Live!result, Live!Return, Live!Cleanup
<1>1. CASE Live!Cancel
  BY <1>1, EndOfStream DEF Live!Cancel
<1>2. CASE Live!IsUpdatePruned
  <2>1. CASE req < genesis
    BY <1>2, <2>1, EndOfStream DEF Live!IsUpdatePruned
  <2>2. CASE ~(req < genesis)
    <3>1. /\ pc = "check" /\ pc' = "subscribe"
          /\ UNCHANGED <<genesis, head, skipped, pushed, subscribed, queue, slow, newest, req, next, end, sent, aborted>>
      BY <1>2, <2>2 DEF Live!IsUpdatePruned
    <3>2. Sent' = Sent
      BY <3>1 DEF Sent
    <3>3. ReaderFits'
      BY <3>1, <3>2 DEF LInv, ReaderFits
    <3> QED BY <3>1, <3>3, StreamMovesOn DEF LInv, LiveTyped
  <2> QED BY <2>1, <2>2
<1>3. CASE Live!SubscribeToLiveUpdates
  <2>1. /\ pc = "subscribe" /\ pc' = "last" /\ subscribed' = TRUE /\ queue' = <<>> /\ slow' = FALSE
        /\ newest' = 0 /\ UNCHANGED <<genesis, head, skipped, pushed, req, next, end, sent, aborted>>
    BY <1>3 DEF Live!SubscribeToLiveUpdates
  <2>2. Chained' /\ Newer' /\ First' = 0 /\ Last' = 0 /\ Queued' = 0
    BY <2>1, QueueEmptied
  <2>3. Gapless' /\ Sent' = Sent /\ LastSent' = LastSent
    BY <2>1, StreamSame DEF LInv
  <2>4. Flags'
    BY <2>1 DEF LInv, Flags
  <2>5. LiveTyped' /\ QueueFits'
    BY <2>1, <2>2, <2>3 DEF LiveSizes, LInv, LiveTyped, QueueFits
  <2>6. ReaderFits'
    BY <2>1, <2>3 DEF LInv, ReaderFits
  <2> QED BY <2>2, <2>3, <2>4, <2>5, <2>6 DEF LInv
<1>4. CASE Live!GetLastBlockId
  <2>1. /\ pc = "last" /\ end' = head /\ pc' = IF req = head + 1 THEN "waiting" ELSE "sync"
        /\ UNCHANGED <<genesis, head, skipped, pushed, subscribed, queue, slow, newest, req, next, sent, aborted>>
    BY <1>4 DEF Live!GetLastBlockId, Live!AfterLast
  <2>2. Sent' = Sent
    BY <2>1 DEF Sent
  <2>3. ReaderFits'
    <3>1. Sent = 0 /\ req <= head + 1 /\ head \in Nat /\ req \in Nat /\ subscribed /\ req > 0
      BY <2>1 DEF LInv, ReaderFits, LiveTyped
    <3>2. CASE req = head + 1
      BY <2>1, <2>2, <3>1, <3>2 DEF ReaderFits
    <3>3. CASE req # head + 1
      BY <2>1, <2>2, <3>1, <3>3 DEF ReaderFits
    <3> QED BY <3>2, <3>3
  <2> QED BY <2>1, <2>3, StreamMovesOn DEF LInv, LiveTyped
<1>5. ASSUME NEW b \in 1..(MaxBlock + 1), Live!IsRequestOutOfRange(b) PROVE LInv'
  <2>1. CASE b > head + 1
    BY <1>5, <2>1, EndOfStream DEF Live!IsRequestOutOfRange
  <2>2. CASE ~(b > head + 1)
    <3>1. /\ pc = "request" /\ pc' = "check" /\ req' = b
          /\ UNCHANGED <<genesis, head, skipped, pushed, subscribed, queue, slow, newest, next, end, sent, aborted>>
      BY <1>5, <2>2 DEF Live!IsRequestOutOfRange
    <3>2. Sent = 0 /\ b \in Nat /\ b <= head + 1 /\ b > 0
      BY <2>2, <3>1 DEF LiveSizes, LInv, LiveTyped, ReaderFits
    <3>3. /\ Gapless' /\ Sent' = 0 /\ LastSent' = LastSent
          /\ Chained' /\ Newer' /\ First' = First /\ Last' = Last /\ Queued' = Queued
      BY <3>1, <3>2, StreamStarts, QueueSame DEF LInv
    <3>4. Flags'
      BY <3>1 DEF LInv, Flags
    <3>5. LiveTyped' /\ QueueFits'
      BY <3>1, <3>2, <3>3 DEF LInv, LiveTyped, QueueFits, Succeeds, Skips
    <3>6. ReaderFits'
      BY <3>1, <3>2, <3>3 DEF ReaderFits
    <3> QED BY <3>3, <3>4, <3>5, <3>6 DEF LInv
  <2> QED BY <2>1, <2>2
<1> QED BY <1>1, <1>2, <1>3, <1>4, <1>5

(* Taking an update out of the queue *)
LEMMA QueuePopped ==
    ASSUME LiveSizes, LInv, queue # <<>>, queue' = Tail(queue),
           UNCHANGED <<pushed, skipped, newest, slow, subscribed>>
    PROVE  /\ Chained' /\ Newer' /\ QueueFits' /\ First' \in Nat /\ Last' \in Nat /\ Queued' \in Nat
           /\ Queued > 0 /\ Upcoming = First /\ Upcoming' \in Nat
           /\ ~slow => Succeeds(First, Upcoming')
<1>1. /\ Chained' /\ Newer' /\ First' \in Nat /\ Last' \in Nat /\ Queued' = Queued - 1 /\ Queued' \in Nat
      /\ Queued' > 0 => Succeeds(First, First') /\ Last' = Last /\ First' <= newest
      /\ Queued' = 0 => Last = First
  BY QueueTail DEF LInv
<1>2. Queued > 0 /\ Queued \in Nat /\ Upcoming = First
  BY QueueHead DEF LInv
<1>3. Size \in Nat /\ Queued <= Size /\ subscribed /\ pushed + 1 \in Nat
  BY <1>2 DEF LiveSizes, LInv, LiveTyped, QueueFits
<1>4. ~slow => Succeeds(Last, pushed + 1)
  BY <1>2 DEF LInv, QueueFits
<1>5. QueueFits'
  <2>1. Queued' <= Size
    BY <1>1, <1>2, <1>3
  <2>2. Queued' > 0 /\ ~slow' => (Succeeds(Last, pushed + 1))'
    BY <1>1, <1>4 DEF Succeeds, Skips
  <2> QED BY <1>1, <1>3, <2>1, <2>2 DEF QueueFits
<1>6. Upcoming' \in Nat /\ (~slow => Succeeds(First, Upcoming'))
  <2>1. CASE Queued' > 0
    BY <1>1, <2>1 DEF Upcoming
  <2>2. CASE ~(Queued' > 0)
    <3>1. Upcoming' = pushed + 1
      BY <2>2 DEF Upcoming
    <3>2. Queued' = 0
      <4>1. Queued' \in Nat
        BY QueueTail DEF LInv
      <4> QED BY <2>2, <4>1
    <3> QED BY <1>1, <1>3, <1>4, <3>1, <3>2
  <2> QED BY <2>1, <2>2
<1> QED BY <1>1, <1>2, <1>5, <1>6

LEMMA WaitSteps == ASSUME LiveSizes, LInv, Live!WaitForUpdate \/ Live!DropOlder PROVE LInv'
<1> USE DEF Live!storage, Live!buffer, Live!local, Live!result, Live!Return
<1>1. CASE Live!WaitForUpdate
  <2>1. /\ pc = "waiting" /\ queue # <<>> /\ pc' = IF Head(queue) < end + 1 THEN "pop" ELSE "sync"
        /\ UNCHANGED <<genesis, head, skipped, pushed, subscribed, queue, slow, newest, req, next, end, sent, aborted>>
    BY <1>1 DEF Live!WaitForUpdate
  <2>2. Queued > 0 /\ Head(queue) = First /\ Sent' = Sent /\ Queued' = Queued
    BY <2>1, QueueHead DEF LInv, Sent, Queued
  <2>3. First <= head /\ First \in Nat /\ head \in Nat /\ req \in Nat /\ end \in Nat
    BY <2>2 DEF LInv, LiveTyped, QueueFits
  <2>4. Sent = 0 /\ end + 1 = req /\ subscribed /\ req > 0
    BY <2>1 DEF LInv, ReaderFits
  <2>5. ReaderFits'
    <3>1. CASE First < end + 1
      BY <2>1, <2>2, <2>4, <3>1 DEF ReaderFits
    <3>2. CASE ~(First < end + 1)
      <4>1. req <= head /\ pc' = "sync"
        BY <2>1, <2>2, <2>3, <2>4, <3>2
      <4> QED BY <2>1, <2>2, <2>4, <4>1 DEF ReaderFits
    <3> QED BY <3>1, <3>2
  <2> QED BY <2>1, <2>3, <2>5, StreamMovesOn DEF LInv, LiveTyped
<1>2. CASE Live!DropOlder
  <2>1. CASE pc' = "done"
    BY <1>2, <2>1, EndOfStream DEF Live!DropOlder
  <2>2. CASE pc' # "done"
    <3>1. /\ pc = "pop" /\ pc' = "waiting" /\ queue' = Tail(queue) /\ ~slow
          /\ UNCHANGED <<genesis, head, skipped, pushed, subscribed, slow, newest, req, next, end, sent, aborted>>
      BY <1>2, <2>2 DEF Live!DropOlder
    <3>2. queue # <<>>
      BY <3>1 DEF LInv, ReaderFits, Queued
    <3>3. Chained' /\ Newer' /\ QueueFits' /\ First' \in Nat /\ Last' \in Nat /\ Queued' \in Nat
      BY <3>1, <3>2, QueuePopped
    <3>4. Gapless' /\ Sent' = Sent /\ LastSent' = LastSent
      BY <3>1, StreamSame DEF LInv
    <3>5. Flags'
      BY <3>1 DEF LInv, Flags
    <3>6. LiveTyped'
      BY <3>1, <3>3, <3>4 DEF LInv, LiveTyped
    <3>7. ReaderFits'
      BY <3>1, <3>4 DEF LInv, ReaderFits
    <3> QED BY <3>3, <3>4, <3>5, <3>6, <3>7 DEF LInv
  <2> QED BY <2>1, <2>2
<1> QED BY <1>1, <1>2

(* syncAndSend: reading the history *)
LEMMA ReadSteps ==
    ASSUME LiveSizes, LInv,
           Live!CheckPruned \/ Live!StartReading \/ Live!ReadAndSend \/ Live!ReadDone
    PROVE  LInv'
<1> USE DEF Live!storage, Live!buffer, Live!local, Live!result, Live!Return, Live!Cleanup
<1>1. CASE Live!CheckPruned
  <2>1. CASE req < genesis
    BY <1>1, <2>1, EndOfStream DEF Live!CheckPruned
  <2>2. CASE ~(req < genesis)
    <3>1. /\ pc = "sync" /\ pc' = "range"
          /\ UNCHANGED <<genesis, head, skipped, pushed, subscribed, queue, slow, newest, req, next, end, sent, aborted>>
      BY <1>1, <2>2 DEF Live!CheckPruned
    <3>2. Sent' = Sent
      BY <3>1 DEF Sent
    <3>3. ReaderFits'
      BY <3>1, <3>2 DEF LInv, ReaderFits
    <3> QED BY <3>1, <3>3, StreamMovesOn DEF LInv, LiveTyped
  <2> QED BY <2>1, <2>2
<1>2. CASE Live!StartReading
  <2>1. pc = "range" /\ Sent = 0 /\ subscribed /\ req <= head /\ req \in Nat /\ head \in Nat /\ req > 0
    BY <1>2 DEF Live!StartReading, LInv, LiveTyped, ReaderFits
  <2>2. /\ pc' = "read" /\ next' = req /\ end' = head
        /\ UNCHANGED <<genesis, head, skipped, pushed, subscribed, queue, slow, newest, req, sent, aborted>>
    <3>1. ~(req > head)
      BY <2>1
    <3> QED BY <1>2, <3>1 DEF Live!StartReading
  <2>3. Sent' = 0 /\ LastSent' = 0
    BY <2>1, <2>2 DEF Sent, LastSent, LInv, Gapless
  <2>4. Resumes(next)' /\ next' <= end' + 1
    BY <2>1, <2>2, <2>3 DEF Resumes
  <2>5. ReaderFits'
    BY <2>1, <2>2, <2>4 DEF ReaderFits
  <2> QED BY <2>1, <2>2, <2>5, StreamMovesOn
<1>3. CASE Live!ReadAndSend
  <2>1. CASE next < genesis
    <3>1. ~(next >= genesis)
      BY <2>1 DEF LInv, LiveTyped
    <3> QED BY <1>3, <3>1, EndOfStream DEF Live!ReadAndSend
  <2>2. CASE ~(next < genesis)
    <3>1. /\ pc \in {"read", "fill"} /\ next <= end /\ sent' = Append(sent, next) /\ next' = next + 1
          /\ UNCHANGED <<genesis, head, skipped, pushed, subscribed, queue, slow, newest, pc, req, end, aborted>>
      BY <1>3, <2>2 DEF Live!ReadAndSend
    <3>2. Resumes(next) /\ next \in Nat /\ req \in Nat /\ skipped \in Nat /\ LastSent \in Nat /\ end \in Nat
          /\ Sent \in Nat
      BY <3>1 DEF LInv, LiveTyped, ReaderFits
    <3>3. Gapless' /\ Sent' = Sent + 1 /\ LastSent' = next
      BY <3>1, <3>2, StreamGrows DEF LInv
    <3>4. Chained' /\ Newer' /\ First' = First /\ Last' = Last /\ Queued' = Queued
      BY <3>1, QueueSame DEF LInv
    <3>5. Flags'
      BY <3>1 DEF LInv, Flags
    <3>6. LiveTyped' /\ QueueFits'
      BY <3>1, <3>2, <3>3, <3>4 DEF LInv, LiveTyped, QueueFits, Succeeds, Skips
    <3>7. Resumes(next)' /\ next' <= end' + 1
      BY <3>1, <3>2, <3>3 DEF Resumes, Skips
    <3>8. ReaderFits'
      BY <3>1, <3>4, <3>7 DEF LInv, ReaderFits
    <3> QED BY <3>3, <3>4, <3>5, <3>6, <3>8 DEF LInv
  <2> QED BY <2>1, <2>2
<1>4. CASE Live!ReadDone
  <2>1. /\ pc \in {"read", "fill"} /\ next > end /\ pc' = IF pc = "read" THEN "first" ELSE "overlap"
        /\ UNCHANGED <<genesis, head, skipped, pushed, subscribed, queue, slow, newest, req, next, end, sent, aborted>>
    BY <1>4 DEF Live!ReadDone
  <2>2. Sent' = Sent /\ LastSent' = LastSent /\ Queued' = Queued /\ First' = First
    BY <2>1 DEF Sent, LastSent, Queued, First
  <2>3. Resumes(next) /\ next = end + 1 /\ subscribed
    BY <2>1 DEF LInv, LiveTyped, ReaderFits
  <2>4. Resumes(end + 1)'
    BY <2>1, <2>2, <2>3 DEF Resumes, Skips
  <2>5. ReaderFits'
    BY <2>1, <2>2, <2>3, <2>4 DEF LInv, ReaderFits
  <2> QED BY <2>1, <2>5, StreamMovesOn DEF LInv, LiveTyped
<1> QED BY <1>1, <1>2, <1>3, <1>4

(* syncAndSend: the history joins the live updates *)
LEMMA JoinSteps ==
    ASSUME LiveSizes, LInv, Live!FirstUpdate \/ Live!CheckOverlap PROVE LInv'
<1> USE DEF Live!storage, Live!buffer, Live!local, Live!result
<1>1. CASE Live!FirstUpdate
  <2>1. /\ pc = "first" /\ queue # <<>>
        /\ \/ Head(queue) = end + 1 /\ pc' = "live" /\ UNCHANGED <<next, end>>
           \/ Head(queue) > end + 1 /\ next' = end + 1 /\ end' = newest /\ pc' = "fill"
           \/ ~(Head(queue) = end + 1) /\ ~(Head(queue) > end + 1) /\ pc' = "overlap" /\ UNCHANGED <<next, end>>
        /\ UNCHANGED <<genesis, head, skipped, pushed, subscribed, queue, slow, newest, req, sent, aborted>>
    BY <1>1 DEF Live!FirstUpdate, Live!InSync, Live!Gap, Live!GapEnd
  <2>2. /\ Queued > 0 /\ Head(queue) = First /\ Upcoming = First
        /\ Sent' = Sent /\ LastSent' = LastSent /\ Queued' = Queued /\ First' = First
    BY <2>1, QueueHead, QueueSame DEF LInv, Sent, LastSent
  <2>3. /\ subscribed /\ Resumes(end + 1) /\ First \in Nat /\ end \in Nat /\ newest \in Nat
        /\ next \in Nat /\ Queued \in Nat /\ First <= newest /\ req > 0
    BY <2>1, <2>2 DEF LInv, LiveTyped, QueueFits, ReaderFits
  <2>4. CASE First = end + 1 /\ pc' = "live" /\ UNCHANGED <<next, end>>
    <3>1. Upcoming' = end + 1
      BY <2>2, <2>4 DEF Upcoming
    <3>2. Resumes(Upcoming)'
      BY <2>1, <2>2, <2>3, <3>1 DEF Resumes, Skips
    <3>3. ReaderFits'
      BY <2>1, <2>3, <2>4, <3>2 DEF ReaderFits
    <3> QED BY <2>1, <2>3, <2>4, <3>3, StreamMovesOn
  <2>5. CASE First > end + 1 /\ next' = end + 1 /\ end' = newest /\ pc' = "fill"
    <3>1. Resumes(next)'
      BY <2>1, <2>2, <2>3, <2>5 DEF Resumes, Skips
    <3>2. Queued' > 0 /\ First' <= end' /\ subscribed' /\ next' \in Nat
      BY <2>1, <2>2, <2>3, <2>5
    <3>3. next' <= end' + 1
      <4>1. \A e, f, n \in Nat : f > e + 1 /\ f <= n => e + 1 <= n + 1
        OBVIOUS
      <4> QED BY <2>3, <2>5, <4>1
    <3>4. ReaderFits'
      BY <2>1, <2>3, <2>5, <3>1, <3>2, <3>3 DEF ReaderFits
    <3> QED BY <2>1, <2>3, <2>5, <3>2, <3>4, StreamMovesOn
  <2>6. CASE ~(First = end + 1) /\ ~(First > end + 1) /\ pc' = "overlap" /\ UNCHANGED <<next, end>>
    <3>1. Resumes(end + 1)'
      BY <2>1, <2>2, <2>3, <2>6 DEF Resumes, Skips
    <3>2. Queued' > 0 /\ First' <= end' /\ subscribed'
      BY <2>1, <2>2, <2>3, <2>6
    <3>3. ReaderFits'
      BY <2>1, <2>3, <2>6, <3>1, <3>2 DEF ReaderFits
    <3> QED BY <2>1, <2>3, <2>6, <3>3, StreamMovesOn
  <2> QED BY <2>1, <2>2, <2>4, <2>5, <2>6
<1>2. CASE Live!CheckOverlap
  <2>1. /\ pc = "overlap" /\ subscribed /\ Resumes(end + 1) /\ Queued > 0 /\ First <= end
        /\ First \in Nat /\ end \in Nat /\ next \in Nat /\ req > 0
    BY <1>2 DEF Live!CheckOverlap, LInv, LiveTyped, ReaderFits
  <2>2. queue # <<>> /\ Head(queue) = First
    BY <2>1, QueueHead DEF LInv, Queued
  <2>3. ~(Head(queue) > end)
    BY <2>1, <2>2
  <2>4. /\ pc' = "drop"
        /\ UNCHANGED <<genesis, head, skipped, pushed, subscribed, queue, slow, newest, req, next, end, sent, aborted>>
    BY <1>2, <2>3 DEF Live!CheckOverlap
  <2>5. Sent' = Sent /\ LastSent' = LastSent /\ Queued' = Queued /\ First' = First
    BY <2>4, QueueSame DEF LInv, Sent, LastSent
  <2>6. Resumes(end + 1)' /\ Upcoming' <= end'
    BY <2>1, <2>4, <2>5 DEF Resumes, Skips, Upcoming
  <2>7. ReaderFits'
    BY <2>1, <2>4, <2>6 DEF ReaderFits
  <2> QED BY <2>1, <2>4, <2>7, StreamMovesOn
<1> QED BY <1>1, <1>2

LEMMA LiveSteps ==
    ASSUME LiveSizes, LInv, Live!DropOverlap \/ Live!SendLive PROVE LInv'
<1> USE DEF Live!storage, Live!buffer, Live!local, Live!result, Live!Return, Live!Cleanup
<1>1. CASE slow
  BY <1>1, EndOfStream DEF Live!DropOverlap, Live!SendLive
<1>2. CASE ~slow /\ Live!DropOverlap
  <2>1. /\ pc = "drop" /\ queue # <<>> /\ queue' = Tail(queue)
        /\ pc' = IF Head(queue) < end THEN "drop" ELSE "live"
        /\ UNCHANGED <<genesis, head, skipped, pushed, subscribed, slow, newest, req, next, end, sent, aborted>>
    BY <1>2 DEF Live!DropOverlap, Live!StillOverlaps
  <2>2. /\ Chained' /\ Newer' /\ QueueFits' /\ First' \in Nat /\ Last' \in Nat /\ Queued' \in Nat
        /\ Upcoming = First /\ Upcoming' \in Nat /\ Succeeds(First, Upcoming')
    BY <1>2, <2>1, QueuePopped
  <2>3. Head(queue) = First /\ First \in Nat
    BY <2>1, QueueHead DEF LInv
  <2>4. Gapless' /\ Sent' = Sent /\ LastSent' = LastSent
    BY <2>1, StreamSame DEF LInv
  <2>5. LiveTyped'
    BY <2>1, <2>2, <2>4 DEF LInv, LiveTyped
  <2>6. Flags'
    BY <2>1 DEF LInv, Flags
  <2>7. /\ subscribed /\ Resumes(end + 1) /\ (First <= end \/ Skips(First)) /\ req > 0
        /\ end \in Nat /\ LastSent \in Nat /\ skipped \in Nat
    BY <1>2, <2>1, <2>2 DEF LInv, LiveTyped, ReaderFits
  <2>8. CASE First < end
    <3>1. Upcoming' <= end' \/ Skips(Upcoming)'
      BY <2>1, <2>2, <2>3, <2>7, <2>8 DEF Succeeds, Skips
    <3>2. Resumes(end + 1)'
      BY <2>1, <2>4, <2>7 DEF Resumes, Skips
    <3>3. pc' = "drop"
      BY <2>1, <2>3, <2>8
    <3>4. ReaderFits'
      BY <2>1, <2>7, <3>1, <3>2, <3>3 DEF ReaderFits
    <3> QED BY <2>2, <2>4, <2>5, <2>6, <3>4 DEF LInv
  <2>9. CASE ~(First < end)
    <3>1. pc' = "live"
      BY <2>1, <2>3, <2>9
    <3>2. Upcoming' > LastSent
      <4>1. LastSent < end + 1 /\ Upcoming' > First
        BY <2>2, <2>7 DEF Resumes, Succeeds
      <4> QED BY <2>2, <2>3, <2>7, <2>9, <4>1
    <3>3. Upcoming' = req + Sent \/ Skips(Upcoming')
      <4>1. CASE First = end
        <5>1. Upcoming' = end + 1 \/ Skips(Upcoming')
          BY <2>2, <4>1 DEF Succeeds
        <5>2. end + 1 = req + Sent \/ Skips(end + 1)
          BY <2>7 DEF Resumes
        <5> QED BY <5>1, <5>2 DEF Skips
      <4>2. CASE First # end
        <5>1. Skips(First) /\ Upcoming' > First
          BY <2>2, <2>3, <2>7, <2>9, <4>2 DEF Succeeds
        <5> QED BY <2>2, <2>3, <2>7, <5>1 DEF Skips
      <4> QED BY <4>1, <4>2
    <3>4. Resumes(Upcoming)'
      BY <2>1, <2>4, <3>2, <3>3 DEF Resumes, Skips
    <3>5. ReaderFits'
      BY <2>1, <2>7, <3>1, <3>4 DEF ReaderFits
    <3> QED BY <2>2, <2>4, <2>5, <2>6, <3>5 DEF LInv
  <2> QED BY <2>8, <2>9
<1>3. CASE ~slow /\ Live!SendLive
  <2>1. /\ pc = "live" /\ queue # <<>> /\ queue' = Tail(queue) /\ sent' = Append(sent, Head(queue))
        /\ UNCHANGED <<genesis, head, skipped, pushed, subscribed, slow, newest, pc, req, next, end, aborted>>
    BY <1>3 DEF Live!SendLive
  <2>2. /\ Chained' /\ Newer' /\ QueueFits' /\ First' \in Nat /\ Last' \in Nat /\ Queued' \in Nat
        /\ Upcoming = First /\ Upcoming' \in Nat /\ Succeeds(First, Upcoming')
    BY <1>3, <2>1, QueuePopped
  <2>3. Head(queue) = First /\ First \in Nat
    BY <2>1, QueueHead DEF LInv
  <2>4. /\ subscribed /\ Resumes(First) /\ req > 0
        /\ req \in Nat /\ Sent \in Nat /\ LastSent \in Nat /\ skipped \in Nat
    BY <1>3, <2>1, <2>2 DEF LInv, LiveTyped, ReaderFits
  <2>5. Gapless' /\ Sent' = Sent + 1 /\ LastSent' = First
    BY <2>1, <2>3, <2>4, StreamGrows DEF LInv
  <2>6. LiveTyped'
    BY <2>1, <2>2, <2>3, <2>5 DEF LInv, LiveTyped
  <2>7. Flags'
    BY <2>1 DEF LInv, Flags
  <2>8. Resumes(Upcoming)'
    <3>1. Upcoming' > First /\ (Upcoming' = First + 1 \/ Skips(Upcoming'))
      BY <2>2 DEF Succeeds
    <3>2. Upcoming' = req + (Sent + 1) \/ Skips(Upcoming')
      <4>1. CASE Skips(First)
        BY <2>2, <2>3, <2>4, <3>1, <4>1 DEF Skips
      <4>2. CASE First = req + Sent
        BY <2>3, <2>4, <3>1, <4>2
      <4> QED BY <2>4, <4>1, <4>2 DEF Resumes
    <3> QED BY <2>1, <2>5, <3>1, <3>2 DEF Resumes, Skips
  <2>9. ReaderFits'
    BY <2>1, <2>4, <2>8 DEF ReaderFits
  <2> QED BY <2>2, <2>5, <2>6, <2>7, <2>9 DEF LInv
<1> QED BY <1>1, <1>2, <1>3

(***************************************************************************)
(* SubscribeToUpdates and syncAndSend: whatever is written, pushed and     *)
(* pruned meanwhile, and whenever blocks arrive by state transfer, a       *)
(* subscriber gets the blocks from the one it asked for on in order, none  *)
(* twice, and misses one only behind a block that was transferred while    *)
(* updates were queued or sent live; the assertions of syncAndSend hold.   *)
(* For every size of the queue and every history.                          *)
(***************************************************************************)
THEOREM UpdatesAreGapless ==
    ASSUME LiveSizes
    PROVE  Live!Spec => [](Live!TypeOK /\ Live!StreamIsGapless /\ Live!SyncAssertions)
<1>1. Live!Init => LInv
  BY LiveInit
<1>2. LInv /\ [Live!Next]_(Live!vars) => LInv'
  <2>1. CASE LInv /\ UNCHANGED Live!vars
    <3>1. UNCHANGED <<genesis, head, skipped, pushed, subscribed, queue, slow, newest, pc, req, next, end, sent, aborted>>
      BY <2>1 DEF Live!vars
    <3>2. Sent' = Sent /\ LastSent' = LastSent /\ Queued' = Queued /\ First' = First /\ Upcoming' = Upcoming
      BY <3>1 DEF Sent, LastSent, Queued, First, Upcoming
    <3>3. ReaderFits'
      BY <2>1, <3>1, <3>2 DEF LInv, ReaderFits, Resumes, Skips
    <3> QED BY <2>1, <3>1, <3>3, StreamMovesOn DEF LInv, LiveTyped
  <2>2. CASE LInv /\ Live!Next
    BY <2>2, StorageSteps, TransferStep, PushStep, RequestSteps, WaitSteps, ReadSteps, JoinSteps, LiveSteps
    DEF Live!Next
  <2> QED BY <2>1, <2>2
<1>3. LInv => Live!TypeOK /\ Live!StreamIsGapless /\ Live!SyncAssertions
  <2> SUFFICES ASSUME LInv PROVE Live!TypeOK /\ Live!StreamIsGapless /\ Live!SyncAssertions
    OBVIOUS
  <2>1. Live!StreamIsGapless
    <3>1. DOMAIN sent = 1..Len(sent)
      BY DEF LInv, Gapless
    <3>2. ASSUME NEW i \in 1..Len(sent) PROVE sent[i] = req + i - 1 \/ (skipped > 0 /\ skipped < sent[i])
      BY DEF LInv, LiveTyped, Gapless, Skips
    <3>3. \A i, j \in 1..Len(sent) : i < j => sent[i] < sent[j]
      BY DEF LInv, Gapless
    <3> QED BY <3>1, <3>2, <3>3 DEF Live!StreamIsGapless
  <2>2. Live!SyncAssertions
    BY DEF LInv, Flags, Live!SyncAssertions
  <2>3. /\ genesis \in 1..MaxBlock /\ head \in genesis..MaxBlock /\ pushed \in 0..head
        /\ Len(queue) <= Size /\ newest \in 0..head /\ skipped \in 0..pushed
    BY DEF LiveSizes, LInv, LiveTyped, QueueFits, Queued
  <2>4. queue # <<>> => subscribed
    BY QueueHead DEF LInv, QueueFits
  <2> QED BY <2>1, <2>2, <2>3, <2>4 DEF LInv, Flags, Live!TypeOK
<1> QED BY <1>1, <1>2, <1>3, PTL DEF Live!Spec

-----------------------------------------------------------------------------
(* The client of the thin replicas.  The parameters and the state of       *)
(* ThinReplicaClient:                                                      *)
CONSTANTS F, Faulty, MaxUpdate, Pruning, MaxSubscriptions
VARIABLES serverHead, low, data, hash, conn, latest, ok, clientPc, todo, records, hasData,
          outOfRange, notFound, delivered, first, subs, thrown

Client == INSTANCE ThinReplicaClient
            WITH head <- serverHead, pc <- clientPc, queue <- delivered

(* At most F faulty servers.  The streams of an earlier subscription may   *)
(* still be open in a later one, so there is one.                          *)
ClientSizes ==
    /\ F \in Nat /\ Faulty \subseteq Client!Servers /\ Cardinality(Faulty) <= F
    /\ MaxUpdate \in Nat \ {0} /\ MaxSubscriptions = 1

(* The update that is awaited *)
Awaited(l) == Client!Update(l + 1, TRUE)
NoRecords == [s \in Client!Servers |-> Client!NoRecord]

(* The types of the state *)
ClientTyped ==
    /\ serverHead \in [Client!Servers -> 0..MaxUpdate] /\ low \in [Client!Servers -> Nat]
    /\ hash \in [Client!Servers -> Int]
    /\ records \in [Client!Servers -> Client!Updates \cup {Client!NoRecord}]
    /\ conn \in Client!Servers /\ todo \subseteq Client!Servers
    /\ data \in Int /\ latest \in Nat /\ first \in Nat /\ notFound \in Nat /\ subs \in Nat

(* What a correct server sent in this round is the awaited update, and its *)
(* stream is after it; the other streams are at it or do not work.         *)
HonestFits(h, rec, l) ==
    \A s \in Client!Honest :
        /\ rec[s] \in {Client!NoRecord, Awaited(l)}
        /\ rec[s] = Client!NoRecord => h[s] \in {Client!None, Client!Broken, l + 1}
        /\ rec[s] # Client!NoRecord => h[s] \in {Client!None, Client!Broken, l + 2} /\ l + 1 <= MaxUpdate

(* The servers that have pruned the awaited update *)
Refusing(S, n, lo, l) ==
    Cardinality(S) = n /\ \A s \in S \cap Client!Honest : lo[s] > l + 1

(* What holds in the rounds of a subscription, place by place: the data    *)
(* server has no hash stream, the servers that are still to be asked have  *)
(* no record, and as many servers as were counted refused the update.      *)
RoundFits ==
    /\ clientPc # "idle" =>
         /\ HonestFits(hash, records, latest) /\ hash[conn] = Client!None
         /\ Len(delivered) + first = latest + 1 /\ thrown = "none" /\ subs # 0
    /\ clientPc = "readBlock" =>
         /\ records = NoRecords /\ notFound = 0
         /\ conn \in Client!Honest => data \in {Client!None, Client!Broken, latest + 1}
    /\ clientPc = "find" =>
         /\ conn \notin todo /\ \A s \in todo : records[s] = Client!NoRecord
         /\ conn \in Client!Honest /\ hasData => data = latest + 2
         /\ \E S \in SUBSET (Client!Servers \ todo) : Refusing(S, notFound, low, latest)
    /\ clientPc = "rotate" => Client!Agreement
    /\ subs = 0 => hash = [s \in Client!Servers |-> Client!None]

(* What the application got *)
DeliveredFits ==
    /\ delivered \in Seq([id : Nat, right : BOOLEAN])
    /\ \A i \in 1..Len(delivered) : delivered[i] = Client!Update(first + i - 1, TRUE)

(* Once something was delivered, the servers' ranges are not counted. *)
OkIsSet == hasData \in BOOLEAN /\ ok \in BOOLEAN /\ (delivered # <<>> => ok)

CInv == ClientTyped /\ RoundFits /\ DeliveredFits /\ OkIsSet /\ Client!ExceptionsAreJustified

LEMMA ServersFinite ==
    ASSUME ClientSizes
    PROVE  /\ IsFiniteSet(Client!Servers) /\ Client!N \in Nat /\ Client!N > 0 /\ 0 \in Client!Servers
           /\ \A S \in SUBSET Client!Servers : IsFiniteSet(S) /\ Cardinality(S) \in Nat
<1>1. Client!N \in Nat /\ Client!N > 0
  BY DEF ClientSizes, Client!N
<1>2. IsFiniteSet(Client!Servers) /\ 0 \in Client!Servers
  BY <1>1, FS_Interval DEF Client!Servers
<1>3. ASSUME NEW S \in SUBSET Client!Servers PROVE IsFiniteSet(S) /\ Cardinality(S) \in Nat
  BY <1>2, FS_Subset, FS_CardinalityType
<1> QED BY <1>1, <1>2, <1>3

(* More than F servers: one of them is correct. *)
LEMMA OneIsHonest ==
    ASSUME ClientSizes, NEW S \in SUBSET Client!Servers, Cardinality(S) >= F + 1
    PROVE  \E s \in S : s \in Client!Honest
<1> SUFFICES ASSUME S \subseteq Faulty PROVE FALSE
  BY DEF Client!Honest
<1>1. IsFiniteSet(Faulty)
  BY ServersFinite DEF ClientSizes
<1>2. Cardinality(S) <= Cardinality(Faulty) /\ Cardinality(S) \in Nat /\ Cardinality(Faulty) \in Nat
  BY <1>1, FS_Subset, FS_CardinalityType, ServersFinite
<1> QED BY <1>2 DEF ClientSizes

(* Of 2F + 1 servers F + 1 are correct. *)
LEMMA MostAreHonest ==
    ASSUME ClientSizes, NEW S \in SUBSET Client!Servers, Cardinality(S) >= 2 * F + 1
    PROVE  Cardinality(S \ Faulty) >= F + 1
<1>1. IsFiniteSet(S) /\ IsFiniteSet(Faulty) /\ Cardinality(S) \in Nat /\ Cardinality(Faulty) \in Nat
  BY ServersFinite DEF ClientSizes
<1>2. /\ Cardinality(S \ Faulty) = Cardinality(S) - Cardinality(S \cap Faulty)
      /\ Cardinality(S \cap Faulty) <= Cardinality(Faulty) /\ Cardinality(S \cap Faulty) \in Nat
  <2>1. IsFiniteSet(S \cap Faulty) /\ Cardinality(S \cap Faulty) <= Cardinality(Faulty)
    BY <1>1, FS_Subset
  <2> QED BY <1>1, <2>1, FS_Difference, FS_CardinalityType
<1> QED BY <1>1, <1>2 DEF ClientSizes

(* What a read may bring *)
LEMMA AnswerCases ==
    ASSUME NEW s \in Client!Servers, NEW p \in Int, NEW a \in Client!Answers(s, p)
    PROVE  \/ a.r \in {"timeout", "failure", "range"}
           \/ p # Client!Broken /\ s \in Faulty /\ a.r = "success" /\ a.u \in Client!Updates
           \/ s \in Faulty /\ a.r = "found"
           \/ p # Client!Broken /\ s \notin Faulty /\ a.r = "found" /\ p < low[s]
           \/ /\ p # Client!Broken /\ s \notin Faulty /\ a.r = "success"
              /\ a.u = Client!Update(p, TRUE) /\ ~(p < low[s]) /\ p <= serverHead[s]
<1>1. CASE p = Client!Broken
  BY <1>1 DEF Client!Answers
<1>2. CASE p # Client!Broken /\ s \in Faulty
  <2>1. \/ a \in {[r |-> x, u |-> Client!NoRecord] : x \in {"timeout", "failure"}}
        \/ a \in {[r |-> "success", u |-> u] : u \in Client!Updates}
        \/ a \in {[r |-> x, u |-> Client!NoRecord] : x \in {"range", "found"}}
    BY <1>2 DEF Client!Answers
  <2>2. CASE a \in {[r |-> x, u |-> Client!NoRecord] : x \in {"timeout", "failure"}}
    <3>1. PICK x \in {"timeout", "failure"} : a = [r |-> x, u |-> Client!NoRecord]
      BY <2>2
    <3>2. a.r \in {"timeout", "failure"}
      BY <3>1
    <3> QED BY <3>2
  <2>3. CASE a \in {[r |-> "success", u |-> u] : u \in Client!Updates}
    <3>1. PICK u \in Client!Updates : a = [r |-> "success", u |-> u]
      BY <2>3
    <3>2. a.r = "success" /\ a.u \in Client!Updates
      BY <3>1
    <3> QED BY <1>2, <3>2
  <2>4. CASE a \in {[r |-> x, u |-> Client!NoRecord] : x \in {"range", "found"}}
    <3>1. PICK x \in {"range", "found"} : a = [r |-> x, u |-> Client!NoRecord]
      BY <2>4
    <3>2. a.r \in {"range", "found"}
      BY <3>1
    <3> QED BY <1>2, <3>2
  <2> QED BY <2>1, <2>2, <2>3, <2>4
<1>3. CASE p # Client!Broken /\ s \notin Faulty
  <2>1. \/ a \in {[r |-> x, u |-> Client!NoRecord] : x \in {"timeout", "failure"}}
        \/ a \in {[r |-> "range", u |-> Client!NoRecord]}
        \/ p < low[s] /\ a \in {[r |-> "found", u |-> Client!NoRecord]}
        \/ ~(p < low[s]) /\ p <= serverHead[s] /\ a \in {[r |-> "success", u |-> Client!Update(p, TRUE)]}
    BY <1>3, Zenon DEF Client!Answers
  <2>2. CASE a \in {[r |-> x, u |-> Client!NoRecord] : x \in {"timeout", "failure"}}
    <3>1. PICK x \in {"timeout", "failure"} : a = [r |-> x, u |-> Client!NoRecord]
      BY <2>2
    <3>2. a.r \in {"timeout", "failure"}
      BY <3>1
    <3> QED BY <3>2
  <2>3. CASE a = [r |-> "range", u |-> Client!NoRecord]
    <3>1. a.r = "range"
      BY <2>3
    <3> QED BY <3>1
  <2>4. CASE p < low[s] /\ a = [r |-> "found", u |-> Client!NoRecord]
    BY <1>3, <2>4
  <2>5. CASE /\ ~(p < low[s]) /\ p <= serverHead[s]
             /\ a = [r |-> "success", u |-> Client!Update(p, TRUE)]
    BY <1>3, <2>5
  <2> QED BY <2>1, <2>2, <2>3, <2>4, <2>5
<1> QED BY <1>1, <1>2, <1>3

(* An answer has an update, and the stream moves. *)
LEMMA AnswerIsTyped ==
    ASSUME ClientSizes, ClientTyped, NEW s \in Client!Servers, NEW p \in Int,
           NEW a \in Client!Answers(s, p)
    PROVE  /\ a.r = "success" => a.u \in Client!Updates
           /\ Client!After(s, p, a.r) \in Int
<1>1. CASE a.r = "success" /\ s \notin Faulty
  <2>1. a.u = Client!Update(p, TRUE) /\ ~(p < low[s]) /\ p <= serverHead[s]
    BY <1>1, AnswerCases
  <2>2. p \in 0..MaxUpdate
    <3>1. low[s] \in Nat /\ serverHead[s] \in 0..MaxUpdate /\ MaxUpdate \in Nat
      BY DEF ClientSizes, ClientTyped
    <3> QED BY <2>1, <3>1
  <2> QED BY <2>1, <2>2 DEF Client!Updates, Client!Update, Client!After, Client!None, Client!Broken
<1>2. CASE ~(a.r = "success" /\ s \notin Faulty)
  <2>1. a.r = "success" => a.u \in Client!Updates
    BY <1>2, AnswerCases
  <2> QED BY <2>1 DEF Client!After, Client!None, Client!Broken
<1> QED BY <1>1, <1>2

(* A correct server answers with the awaited update or refuses it for a    *)
(* reason.                                                                 *)
LEMMA HonestAnswer ==
    ASSUME ClientSizes, ClientTyped, NEW s \in Client!Honest,
           NEW p \in {Client!Broken, latest + 1}, NEW a \in Client!Answers(s, p)
    PROVE  /\ a.r = "success" => /\ a.u = Awaited(latest) /\ latest + 1 <= MaxUpdate
                                 /\ Client!After(s, p, a.r) = latest + 2
           /\ a.r # "success" => Client!After(s, p, a.r) \in {Client!None, Client!Broken}
           /\ a.r = "found" => low[s] > latest + 1
<1>1. s \in Client!Servers /\ s \notin Faulty /\ p \in Int
  BY DEF Client!Honest, ClientTyped, Client!Broken
<1>2. serverHead[s] \in 0..MaxUpdate /\ low[s] \in Nat /\ latest \in Nat /\ MaxUpdate \in Nat
  BY <1>1 DEF ClientTyped, ClientSizes
<1>3. CASE a.r = "success"
  <2>1. a.u = Client!Update(p, TRUE) /\ p <= serverHead[s] /\ p = latest + 1
    BY <1>1, <1>3, AnswerCases
  <2>2. Client!After(s, p, a.r) = p + 1
    BY <1>1, <1>3 DEF Client!After
  <2>3. latest + 1 <= MaxUpdate /\ p + 1 = latest + 2
    BY <1>2, <2>1
  <2> QED BY <1>3, <2>1, <2>2, <2>3 DEF Awaited
<1>4. CASE a.r # "success"
  <2>1. Client!After(s, p, a.r) \in {Client!None, Client!Broken}
    BY <1>4 DEF Client!After
  <2>2. a.r = "found" => p < low[s] /\ p = latest + 1
    BY <1>1, AnswerCases
  <2>3. a.r = "found" => low[s] > latest + 1
    BY <1>2, <2>2
  <2> QED BY <1>4, <2>1, <2>3
<1> QED BY <1>3, <1>4

(* The Cardinality of the instance is the one of the library. *)
LEMMA SameCardinality == \A S : Client!Cardinality(S) = Cardinality(S)
BY DEF Client!Cardinality, Cardinality

LEMMA AgreedMeans ==
    ASSUME NEW u, Client!Agreed(u)
    PROVE  u # Client!NoRecord /\ Cardinality(Client!Voters(u)) >= F + 1
BY SameCardinality DEF Client!Agreed

(* What F + 1 servers agree on is the awaited update. *)
LEMMA AgreedIsAwaited ==
    ASSUME ClientSizes, ClientTyped, HonestFits(hash, records, latest), Client!Agreement
    PROVE  /\ Client!AgreedUpdate = Awaited(latest) /\ latest + 1 <= MaxUpdate
           /\ Client!Agreed(Client!AgreedUpdate)
<1>1. Client!AgreedUpdate \in Client!Updates /\ Client!Agreed(Client!AgreedUpdate)
  BY DEF Client!Agreement, Client!AgreedUpdate
<1>2. PICK s \in Client!Voters(Client!AgreedUpdate) : s \in Client!Honest
  <2>1. Client!Voters(Client!AgreedUpdate) \in SUBSET Client!Servers
    BY DEF Client!Voters
  <2>2. Cardinality(Client!Voters(Client!AgreedUpdate)) >= F + 1
    BY <1>1, AgreedMeans
  <2> QED BY <2>1, <2>2, OneIsHonest
<1>3. records[s] = Client!AgreedUpdate /\ records[s] # Client!NoRecord
  BY <1>1, <1>2 DEF Client!Voters, Client!Agreed
<1> QED BY <1>1, <1>2, <1>3 DEF HonestFits

(* Streams that are closed fit every round. *)
LEMMA ClosedFits == ASSUME NEW h, NEW l, \A s \in Client!Honest : h[s] = Client!None
                    PROVE  HonestFits(h, NoRecords, l)
BY DEF HonestFits, NoRecords, Client!Honest

LEMMA ClientInit == ASSUME ClientSizes, Client!Init PROVE CInv
<1>1. Client!Servers # {} /\ 0 \in Client!Servers /\ MaxUpdate \in Nat \ {0}
  BY ServersFinite DEF ClientSizes
<1>2. ClientTyped
  <2>1. serverHead \in [Client!Servers -> 0..1] /\ 0..1 \subseteq 0..MaxUpdate
    BY <1>1 DEF Client!Init
  <2>2. serverHead \in [Client!Servers -> 0..MaxUpdate]
    BY <2>1
  <2>3. /\ low = [s \in Client!Servers |-> 1] /\ hash = [s \in Client!Servers |-> -1]
        /\ records = [s \in Client!Servers |-> Client!NoRecord] /\ todo = {} /\ conn = 0 /\ data = -1
        /\ latest = 0 /\ first = 0 /\ notFound = 0 /\ subs = 0
    BY DEF Client!Init, Client!None
  <2> QED BY <1>1, <2>2, <2>3 DEF ClientTyped
<1>3. RoundFits
  BY DEF Client!Init, RoundFits
<1>4. DeliveredFits
  BY DEF Client!Init, DeliveredFits
<1>5. OkIsSet
  BY DEF Client!Init, OkIsSet
<1>6. Client!ExceptionsAreJustified
  BY DEF Client!Init, Client!ExceptionsAreJustified
<1> QED BY <1>2, <1>3, <1>4, <1>5, <1>6 DEF CInv

(* The servers publish and prune. *)
LEMMA ServerSteps ==
    ASSUME ClientSizes, CInv, NEW s \in Client!Servers, Client!AddUpdate(s) \/ Client!PruneUpdate(s)
    PROVE  CInv'
<1>1. UNCHANGED <<data, hash, conn, latest, ok, clientPc, todo, records, hasData, outOfRange, notFound,
                  delivered, first, subs, thrown>>
  BY DEF Client!AddUpdate, Client!PruneUpdate, Client!streams, Client!round, Client!app
<1>2. /\ serverHead' \in [Client!Servers -> 0..MaxUpdate] /\ low' \in [Client!Servers -> Nat]
      /\ \A t \in Client!Servers : low[t] <= low'[t]
  <2>1. /\ serverHead \in [Client!Servers -> 0..MaxUpdate] /\ low \in [Client!Servers -> Nat]
        /\ MaxUpdate \in Nat
    BY DEF ClientSizes, CInv, ClientTyped
  <2>2. CASE Client!AddUpdate(s)
    <3>1. low' = low /\ serverHead[s] < MaxUpdate
          /\ serverHead' = [serverHead EXCEPT ![s] = serverHead[s] + 1]
      BY <2>2 DEF Client!AddUpdate
    <3>2. serverHead[s] + 1 \in 0..MaxUpdate
      BY <2>1, <3>1
    <3> QED BY <2>1, <3>1, <3>2
  <2>3. CASE Client!PruneUpdate(s)
    <3>1. serverHead' = serverHead /\ low' = [low EXCEPT ![s] = low[s] + 1]
      BY <2>3 DEF Client!PruneUpdate
    <3> QED BY <2>1, <3>1
  <2> QED BY <2>2, <2>3
<1>3. ClientTyped'
  BY <1>1, <1>2 DEF CInv, ClientTyped
<1>4. \A t \in Client!Servers : low[t] > latest + 1 => low'[t] > latest' + 1
  <2>1. latest \in Nat /\ \A t \in Client!Servers : low[t] \in Nat /\ low'[t] \in Nat
    BY <1>2 DEF CInv, ClientTyped
  <2>2. \A a, b, c \in Nat : a <= b /\ a > c + 1 => b > c + 1
    OBVIOUS
  <2> QED BY <1>1, <1>2, <2>1, <2>2
<1>5. RoundFits'
  <2>1. ASSUME NEW S \in SUBSET (Client!Servers \ todo), Refusing(S, notFound, low, latest)
        PROVE  Refusing(S, notFound', low', latest')
    BY <1>1, <1>4, <2>1 DEF Refusing
  <2>2. HonestFits(hash, records, latest) => HonestFits(hash', records', latest')
    BY <1>1
  <2>3. Client!Agreement => Client!Agreement'
    BY <1>1 DEF Client!Agreement, Client!Agreed, Client!Voters
  <2> QED BY <1>1, <2>1, <2>2, <2>3 DEF CInv, RoundFits
<1>6. DeliveredFits' /\ OkIsSet'
  BY <1>1 DEF CInv, DeliveredFits, OkIsSet
<1>7. Client!ExceptionsAreJustified'
  <2>1. \A t \in Client!Honest : low[t] > latest + 1 => low'[t] > latest' + 1
    BY <1>4 DEF Client!Honest
  <2> QED BY <1>1, <2>1 DEF CInv, Client!ExceptionsAreJustified
<1> QED BY <1>3, <1>5, <1>6, <1>7 DEF CInv

(* A step to the start of a round *)
LEMMA FreshRound ==
    ASSUME Client!NextRound("readBlock"), HonestFits(hash', NoRecords, latest'),
           hash'[conn'] = Client!None,
           conn' \in Client!Honest => data' \in {Client!None, Client!Broken, latest' + 1},
           Len(delivered') + first' = latest' + 1, thrown' = "none", subs' # 0
    PROVE  RoundFits'
BY DEF Client!NextRound, RoundFits, NoRecords

(* What the start of a round sets *)
LEMMA RoundTyped ==
    ASSUME NEW p, Client!NextRound(p)
    PROVE  /\ records' \in [Client!Servers -> Client!Updates \cup {Client!NoRecord}]
           /\ todo' \subseteq Client!Servers /\ notFound' \in Nat /\ hasData' \in BOOLEAN
           /\ clientPc' = p
BY DEF Client!NextRound

(* The first subscription: no stream is open. *)
LEMMA SubscribeStep ==
    ASSUME ClientSizes, CInv, NEW u \in 1..MaxUpdate, Client!Subscribe(u) PROVE CInv'
<1>1. /\ clientPc = "idle" /\ subs < 1 /\ subs' = subs + 1 /\ first' = u /\ latest' = u - 1
      /\ delivered' = <<>> /\ thrown' = "none" /\ UNCHANGED <<serverHead, low, ok>>
      /\ hash' = [hash EXCEPT ![0] = Client!None, ![conn] = Client!None]
      /\ data' \in {Client!None, u - 1 + 1} /\ conn' = 0 /\ Client!NextRound("readBlock")
  BY DEF Client!Subscribe, Client!ResetDataStreamTo, ClientSizes
<1>2. u \in Nat /\ u > 0 /\ u - 1 \in Nat /\ u - 1 + 1 = u /\ subs = 0 /\ subs' = 1
  BY <1>1 DEF CInv, ClientTyped, ClientSizes
<1>3. hash = [s \in Client!Servers |-> Client!None] /\ conn \in Client!Servers /\ 0 \in Client!Servers
  BY <1>2, ServersFinite DEF CInv, RoundFits, ClientTyped
<1>4. hash' = [s \in Client!Servers |-> Client!None]
  BY <1>1, <1>3
<1>5. ClientTyped'
  <2>0. Client!None \in Int
    BY DEF Client!None
  <2>1. hash' \in [Client!Servers -> Int]
    BY <1>4, <2>0
  <2>3. latest' \in Nat /\ first' \in Nat /\ subs' \in Nat
    BY <1>1, <1>2
  <2>2. data' \in Int
    <3>1. u - 1 + 1 \in Int
      BY <1>2
    <3> QED BY <1>1, <2>0, <3>1
  <2> QED BY <1>1, <1>3, <2>1, <2>2, <2>3, RoundTyped DEF CInv, ClientTyped
<1>6. RoundFits'
  <2>1. HonestFits(hash', NoRecords, latest') /\ hash'[conn'] = Client!None
    BY <1>1, <1>3, <1>4, ClosedFits DEF Client!Honest
  <2>2. Len(delivered') + first' = latest' + 1 /\ data' \in {Client!None, Client!Broken, latest' + 1}
    BY <1>1, <1>2
  <2> QED BY <1>1, <1>2, <2>1, <2>2, FreshRound
<1>7. DeliveredFits'
  BY <1>1 DEF DeliveredFits
<1>8. OkIsSet'
  BY <1>1, RoundTyped DEF CInv, OkIsSet
<1>9. Client!ExceptionsAreJustified'
  BY <1>1 DEF Client!ExceptionsAreJustified
<1> QED BY <1>5, <1>6, <1>7, <1>8, <1>9 DEF CInv

(* A step that ends the subscription *)
LEMMA EndOfSubscription ==
    ASSUME ClientSizes, CInv, clientPc # "idle", Client!NextRound("idle"),
           UNCHANGED <<serverHead, low, data, conn, latest, ok, delivered, first, subs>>,
           hash' \in [Client!Servers -> Int], Client!ExceptionsAreJustified'
    PROVE  CInv'
<1>1. ClientTyped'
  BY RoundTyped DEF CInv, ClientTyped
<1>2. RoundFits'
  BY RoundTyped DEF CInv, RoundFits
<1>3. DeliveredFits'
  BY DEF CInv, DeliveredFits
<1>4. OkIsSet'
  BY RoundTyped DEF CInv, OkIsSet
<1> QED BY <1>1, <1>2, <1>3, <1>4 DEF CInv

LEMMA UnsubscribeStep == ASSUME ClientSizes, CInv, Client!Unsubscribe PROVE CInv'
<1>1. /\ clientPc \in {"readBlock", "find"} /\ Client!NextRound("idle")
      /\ UNCHANGED <<serverHead, low, data, hash, conn, latest, ok, delivered, first, subs, thrown>>
  BY DEF Client!Unsubscribe, Client!streams, Client!app
<1>2. Client!ExceptionsAreJustified'
  BY <1>1 DEF CInv, Client!ExceptionsAreJustified
<1>3. hash' \in [Client!Servers -> Int] /\ clientPc # "idle"
  BY <1>1 DEF CInv, ClientTyped
<1> QED BY <1>1, <1>2, <1>3, EndOfSubscription

(* The data stream is read. *)
LEMMA ReadBlockStep == ASSUME ClientSizes, CInv, Client!ReadBlock PROVE CInv'
<1>1. /\ clientPc = "readBlock" /\ clientPc' = "find" /\ todo' = Client!Servers \ {conn}
      /\ UNCHANGED <<serverHead, low, hash, conn, latest, ok, delivered, first, subs, thrown>>
  BY DEF Client!ReadBlock, Client!app
<1>2. PICK a \in IF data = Client!None THEN {[r |-> "failure", u |-> Client!NoRecord]}
                 ELSE Client!Answers(conn, data) :
        /\ data' = IF data = Client!None THEN Client!None ELSE Client!After(conn, data, a.r)
        /\ hasData' = (a.r = "success")
        /\ records' = IF a.r = "success" THEN Client!Recorded(conn, a.u) ELSE records
        /\ Client!Counted(a.r)
  BY DEF Client!ReadBlock
<1>3. /\ conn \in Client!Servers /\ data \in Int /\ latest \in Nat /\ records = NoRecords
      /\ notFound = 0 /\ HonestFits(hash, records, latest)
      /\ conn \in Client!Honest => data \in {Client!None, Client!Broken, latest + 1}
  BY <1>1 DEF CInv, ClientTyped, RoundFits
<1>4. /\ a.r = "success" => a.u \in Client!Updates
      /\ data' \in Int
  <2>1. CASE data = Client!None
    BY <1>2, <2>1 DEF Client!None
  <2>2. CASE data # Client!None
    BY <1>2, <1>3, <2>2, AnswerIsTyped DEF CInv
  <2> QED BY <2>1, <2>2
<1>5. ASSUME conn \in Client!Honest
      PROVE  /\ a.r = "success" => /\ a.u = Awaited(latest) /\ latest + 1 <= MaxUpdate
                                   /\ data' = latest + 2
             /\ a.r = "found" => low[conn] > latest + 1
  <2>1. CASE data = Client!None
    BY <1>2, <2>1
  <2>2. CASE data # Client!None
    BY <1>2, <1>3, <1>5, <2>2, HonestAnswer DEF CInv
  <2> QED BY <2>1, <2>2
<1>6. notFound' = IF a.r = "found" THEN 1 ELSE 0
  BY <1>2, <1>3 DEF Client!Counted
<1>7. /\ records' \in [Client!Servers -> Client!Updates \cup {Client!NoRecord}]
      /\ \A s \in Client!Servers : s # conn => records'[s] = Client!NoRecord
      /\ records'[conn] # Client!NoRecord => a.r = "success" /\ records'[conn] = a.u
  BY <1>2, <1>3, <1>4 DEF Client!Recorded, NoRecords
<1>8. ClientTyped'
  BY <1>1, <1>4, <1>6, <1>7 DEF CInv, ClientTyped
<1>9. RoundFits'
  <2>1. HonestFits(hash', records', latest')
    <3>1. hash[conn] = Client!None
      BY <1>1 DEF CInv, RoundFits
    <3>2. \A s \in Client!Honest : s \in Client!Servers /\ records[s] = Client!NoRecord
      BY <1>3 DEF NoRecords, Client!Honest
    <3> QED BY <1>1, <1>3, <1>5, <1>7, <3>1, <3>2 DEF HonestFits
  <2>2. conn' \notin todo' /\ \A s \in todo' : records'[s] = Client!NoRecord
    BY <1>1, <1>7
  <2>3. conn' \in Client!Honest /\ hasData' => data' = latest' + 2
    BY <1>1, <1>2, <1>5
  <2>4. \E S \in SUBSET (Client!Servers \ todo') : Refusing(S, notFound', low', latest')
    <3>1. CASE a.r = "found"
      <4>1. Cardinality({conn}) = 1
        BY FS_Singleton
      <4>2. Refusing({conn}, notFound', low', latest')
        BY <1>1, <1>5, <1>6, <3>1, <4>1 DEF Refusing
      <4> QED BY <1>1, <1>3, <4>2
    <3>2. CASE a.r # "found"
      <4>1. Refusing({}, notFound', low', latest')
        BY <1>6, <3>2, FS_EmptySet DEF Refusing
      <4> QED BY <4>1
    <3> QED BY <3>1, <3>2
  <2> QED BY <1>1, <2>1, <2>2, <2>3, <2>4 DEF CInv, RoundFits
<1>10. DeliveredFits' /\ Client!ExceptionsAreJustified'
  BY <1>1 DEF CInv, DeliveredFits, Client!ExceptionsAreJustified
<1>11. OkIsSet'
  BY <1>1, <1>2 DEF CInv, OkIsSet
<1> QED BY <1>8, <1>9, <1>10, <1>11 DEF CInv

(* Hash streams are opened and read until F + 1 servers agree. *)
LEMMA OpenTimesOutStep == ASSUME ClientSizes, CInv, Client!OpenTimesOut PROVE CInv'
<1>1. /\ clientPc = "find" /\ todo' \subseteq todo
      /\ UNCHANGED <<serverHead, low, data, hash, conn, latest, ok, clientPc, records, hasData, outOfRange,
                     notFound, delivered, first, subs, thrown>>
  BY DEF Client!OpenTimesOut, Client!streams, Client!round, Client!app
<1>2. ClientTyped'
  BY <1>1 DEF CInv, ClientTyped
<1>3. RoundFits'
  <2>1. PICK S \in SUBSET (Client!Servers \ todo) : Refusing(S, notFound, low, latest)
    BY <1>1 DEF CInv, RoundFits
  <2>2. S \in SUBSET (Client!Servers \ todo') /\ Refusing(S, notFound', low', latest')
    BY <1>1, <2>1
  <2>3. HonestFits(hash', records', latest')
    BY <1>1 DEF CInv, RoundFits
  <2> QED BY <1>1, <2>2, <2>3 DEF CInv, RoundFits
<1>4. DeliveredFits' /\ OkIsSet' /\ Client!ExceptionsAreJustified'
  BY <1>1 DEF CInv, DeliveredFits, OkIsSet, Client!ExceptionsAreJustified
<1> QED BY <1>2, <1>3, <1>4 DEF CInv

LEMMA ReadUpdateHashStep == ASSUME ClientSizes, CInv, Client!ReadUpdateHash PROVE CInv'
<1> DEFINE Pos(s) == IF hash[s] = Client!None THEN latest + 1 ELSE hash[s]
<1>1. /\ clientPc = "find"
      /\ UNCHANGED <<serverHead, low, data, conn, latest, ok, clientPc, hasData, delivered, first, subs, thrown>>
  BY DEF Client!ReadUpdateHash, Client!app
<1>2. PICK s \in todo :
        /\ \E a \in Client!Answers(s, Pos(s)) :
             /\ hash' = [hash EXCEPT ![s] = Client!After(s, Pos(s), a.r)]
             /\ records' = IF a.r = "success" THEN Client!Recorded(s, a.u) ELSE records
             /\ Client!Counted(a.r)
        /\ todo' = todo \ {s}
  BY DEF Client!ReadUpdateHash
<1>3. PICK a \in Client!Answers(s, Pos(s)) :
        /\ hash' = [hash EXCEPT ![s] = Client!After(s, Pos(s), a.r)]
        /\ records' = IF a.r = "success" THEN Client!Recorded(s, a.u) ELSE records
        /\ Client!Counted(a.r)
  BY <1>2
<1>4. /\ s \in Client!Servers /\ s # conn /\ records[s] = Client!NoRecord /\ latest \in Nat
      /\ hash \in [Client!Servers -> Int] /\ HonestFits(hash, records, latest) /\ notFound \in Nat
      /\ records \in [Client!Servers -> Client!Updates \cup {Client!NoRecord}]
      /\ todo \subseteq Client!Servers
  BY <1>1, <1>2 DEF CInv, ClientTyped, RoundFits
<1>5. Pos(s) \in Int
  BY <1>4
<1> HIDE DEF Pos
<1>6. (a.r = "success" => a.u \in Client!Updates) /\ Client!After(s, Pos(s), a.r) \in Int
  BY <1>3, <1>4, <1>5, AnswerIsTyped DEF CInv
<1>7. ASSUME s \in Client!Honest
      PROVE  /\ a.r = "success" => /\ a.u = Awaited(latest) /\ latest + 1 <= MaxUpdate
                                   /\ hash'[s] = latest + 2
             /\ a.r # "success" => hash'[s] \in {Client!None, Client!Broken}
             /\ a.r = "found" => low[s] > latest + 1
  <2>1. Pos(s) \in {Client!Broken, latest + 1}
    BY <1>4, <1>7 DEF HonestFits, Pos
  <2>2. hash'[s] = Client!After(s, Pos(s), a.r)
    BY <1>3, <1>4
  <2> QED BY <1>3, <1>7, <2>1, <2>2, HonestAnswer DEF CInv
<1>8. notFound' = IF a.r = "found" THEN notFound + 1 ELSE notFound
  BY <1>3, <1>4 DEF Client!Counted
<1>9. /\ records' \in [Client!Servers -> Client!Updates \cup {Client!NoRecord}]
      /\ hash' \in [Client!Servers -> Int]
      /\ \A t \in Client!Servers : t # s => records'[t] = records[t] /\ hash'[t] = hash[t]
      /\ a.r # "success" => records'[s] = Client!NoRecord
      /\ a.r = "success" => records'[s] = IF a.u.id < latest THEN records[s] ELSE a.u
  BY <1>3, <1>4, <1>6 DEF Client!Recorded
<1>10. ClientTyped'
  BY <1>1, <1>2, <1>4, <1>8, <1>9 DEF CInv, ClientTyped
<1>11. RoundFits'
  <2>1. HonestFits(hash', records', latest')
    <3> SUFFICES ASSUME NEW t \in Client!Honest
                 PROVE  /\ records'[t] \in {Client!NoRecord, Awaited(latest)}
                        /\ records'[t] = Client!NoRecord => hash'[t] \in {Client!None, Client!Broken, latest + 1}
                        /\ records'[t] # Client!NoRecord =>
                             hash'[t] \in {Client!None, Client!Broken, latest + 2} /\ latest + 1 <= MaxUpdate
      BY <1>1 DEF HonestFits
    <3>1. CASE t # s
      <4>1. t \in Client!Servers
        BY DEF Client!Honest
      <4> QED BY <1>4, <1>9, <3>1, <4>1 DEF HonestFits
    <3>2. CASE t = s /\ a.r = "success"
      <4>1. records'[s] = Awaited(latest)
        <5>1. a.u = Awaited(latest) /\ a.u.id = latest + 1
          BY <1>7, <3>2 DEF Awaited, Client!Update
        <5>2. ~(a.u.id < latest)
          BY <1>4, <5>1
        <5> QED BY <1>9, <3>2, <5>1, <5>2
      <4>2. Awaited(latest) # Client!NoRecord
        BY <1>4 DEF Awaited, Client!NoRecord, Client!Update
      <4> QED BY <1>7, <3>2, <4>1, <4>2
    <3>3. CASE t = s /\ a.r # "success"
      BY <1>7, <1>9, <3>3
    <3> QED BY <3>1, <3>2, <3>3
  <2>2. conn' \notin todo' /\ \A t \in todo' : records'[t] = Client!NoRecord
    BY <1>1, <1>2, <1>4, <1>9 DEF CInv, RoundFits
  <2>3. \E S \in SUBSET (Client!Servers \ todo') : Refusing(S, notFound', low', latest')
    <3>1. PICK S \in SUBSET (Client!Servers \ todo) : Refusing(S, notFound, low, latest)
      BY <1>1 DEF CInv, RoundFits
    <3>2. CASE a.r = "found"
      <4>1. s \notin S /\ IsFiniteSet(S)
        BY <1>2, <3>1, ServersFinite
      <4>2. Cardinality(S \cup {s}) = notFound + 1
        BY <3>1, <4>1, FS_AddElement DEF Refusing
      <4>3. Refusing(S \cup {s}, notFound', low', latest')
        BY <1>1, <1>7, <1>8, <3>1, <3>2, <4>2 DEF Refusing
      <4> QED BY <1>2, <1>4, <4>3
    <3>3. CASE a.r # "found"
      BY <1>1, <1>2, <1>8, <3>1, <3>3
    <3> QED BY <3>2, <3>3
  <2>4. hash'[conn'] = Client!None
    BY <1>1, <1>4, <1>9 DEF CInv, RoundFits, ClientTyped
  <2> QED BY <1>1, <2>1, <2>2, <2>3, <2>4 DEF CInv, RoundFits
<1>12. DeliveredFits' /\ OkIsSet' /\ Client!ExceptionsAreJustified'
  BY <1>1 DEF CInv, DeliveredFits, OkIsSet, Client!ExceptionsAreJustified
<1> QED BY <1>10, <1>11, <1>12 DEF CInv

(* 2F + 1 records and no agreement: this cannot be. *)
LEMMA MismatchAgrees ==
    ASSUME ClientSizes, ClientTyped, HonestFits(hash, records, latest), Client!Mismatch
    PROVE  Client!Agreement
<1> DEFINE R == {s \in Client!Servers : records[s] # Client!NoRecord}
<1>1. Cardinality(R) >= 2 * F + 1 /\ R \in SUBSET Client!Servers
  BY SameCardinality DEF Client!Mismatch
<1>2. Cardinality(R \ Faulty) >= F + 1
  BY <1>1, MostAreHonest
<1>3. \A s \in R \ Faulty : records[s] = Awaited(latest) /\ latest + 1 <= MaxUpdate
  BY DEF HonestFits, Client!Honest
<1>4. R \ Faulty \subseteq Client!Voters(Awaited(latest))
  BY <1>3 DEF Client!Voters
<1>5. Client!Voters(Awaited(latest)) \in SUBSET Client!Servers
  BY DEF Client!Voters
<1>6. Cardinality(Client!Voters(Awaited(latest))) >= F + 1
  <2>1. /\ Cardinality(R \ Faulty) <= Cardinality(Client!Voters(Awaited(latest)))
        /\ Cardinality(R \ Faulty) \in Nat /\ Cardinality(Client!Voters(Awaited(latest))) \in Nat
    BY <1>1, <1>4, <1>5, ServersFinite, FS_Subset
  <2> QED BY <1>2, <2>1 DEF ClientSizes
<1>7. PICK s \in R \ Faulty : s \in Client!Honest
  BY <1>1, <1>2, OneIsHonest
<1>8. latest \in Nat /\ latest + 1 <= MaxUpdate /\ MaxUpdate \in Nat
  BY <1>3, <1>7 DEF ClientTyped, ClientSizes
<1>9. Awaited(latest) \in Client!Updates /\ Awaited(latest) # Client!NoRecord
  BY <1>8 DEF Awaited, Client!Updates, Client!Update, Client!NoRecord, Client!None
<1> QED BY <1>6, <1>9, SameCardinality DEF Client!Agreement, Client!Agreed

(* The index of the next data server *)
LEMMA NextServer == ASSUME ClientSizes, ClientTyped PROVE (conn + 1) % Client!N \in Client!Servers
<1>1. \A a \in Nat, n \in Nat \ {0} : a % n \in 0..(n - 1)
  OBVIOUS
<1>2. Client!N \in Nat \ {0} /\ conn + 1 \in Nat
  BY ServersFinite DEF ClientTyped, Client!Servers
<1> QED BY <1>1, <1>2 DEF Client!Servers

(* All streams are closed and the data stream is opened anew. *)
LEMMA StartsAgain ==
    ASSUME ClientSizes, CInv, clientPc # "idle",
           Client!ResetDataStreamTo((conn + 1) % Client!N, Client!CloseAllHashStreams, latest),
           Client!NextRound("readBlock"),
           UNCHANGED <<serverHead, low, latest, ok, delivered, first, subs, thrown>>
    PROVE  CInv'
<1>1. /\ hash' = [Client!CloseAllHashStreams EXCEPT ![(conn + 1) % Client!N] = Client!None,
                                                    ![conn] = Client!None]
      /\ data' \in {Client!None, latest + 1} /\ conn' = (conn + 1) % Client!N
  BY DEF Client!ResetDataStreamTo
<1>2. conn' \in Client!Servers /\ conn \in Client!Servers /\ latest \in Nat
  BY <1>1, NextServer DEF CInv, ClientTyped
<1>3. hash' \in [Client!Servers -> {Client!None}]
  BY <1>1, <1>2 DEF Client!CloseAllHashStreams
<1>4. ClientTyped'
  <2>1. Client!None \in Int /\ latest + 1 \in Int
    BY <1>2 DEF Client!None
  <2>2. data' \in Int
    BY <1>1, <2>1
  <2>3. hash' \in [Client!Servers -> Int]
    BY <1>3, <2>1
  <2> QED BY <1>2, <2>2, <2>3, RoundTyped DEF CInv, ClientTyped
<1>5. RoundFits'
  <2>1. HonestFits(hash', NoRecords, latest') /\ hash'[conn'] = Client!None
    BY <1>2, <1>3, ClosedFits DEF Client!Honest
  <2>2. Len(delivered') + first' = latest' + 1 /\ thrown' = "none" /\ subs' # 0
    BY DEF CInv, RoundFits
  <2> QED BY <1>1, <2>1, <2>2, FreshRound
<1>6. DeliveredFits'
  BY DEF CInv, DeliveredFits
<1>7. OkIsSet'
  BY RoundTyped DEF CInv, OkIsSet
<1>8. Client!ExceptionsAreJustified'
  BY DEF CInv, Client!ExceptionsAreJustified
<1> QED BY <1>4, <1>5, <1>6, <1>7, <1>8 DEF CInv

(* Every server was asked and no F + 1 of them agree. *)
LEMMA NoAgreementStep == ASSUME ClientSizes, CInv, Client!NoAgreement PROVE CInv'
<1>1. /\ clientPc = "find" /\ ~Client!Agreement /\ UNCHANGED <<serverHead, low, latest, ok>>
      /\ \/ Client!Mismatch
         \/ Client!TooFarAhead /\ Client!Throw("range")
         \/ Client!Pruned /\ Client!Throw("found")
         \/ /\ Client!ResetDataStreamTo((conn + 1) % Client!N, Client!CloseAllHashStreams, latest)
            /\ Client!NextRound("readBlock") /\ UNCHANGED <<delivered, first, subs, thrown>>
  BY DEF Client!NoAgreement, Client!app
<1>2. ~Client!Mismatch
  BY <1>1, MismatchAgrees DEF CInv, RoundFits
<1>3. Client!None \in Int /\ hash \in [Client!Servers -> Int]
  BY DEF CInv, ClientTyped, Client!None
<1>4. Client!CloseAllHashStreams \in [Client!Servers -> Int]
  BY <1>3 DEF Client!CloseAllHashStreams
<1>5. CASE Client!TooFarAhead /\ Client!Throw("range")
  <2>1. /\ thrown' = "range" /\ hash' = Client!CloseAllHashStreams /\ Client!NextRound("idle")
        /\ UNCHANGED <<data, conn, delivered, first, subs>>
    BY <1>5 DEF Client!Throw
  <2>2. delivered = <<>>
    BY <1>5 DEF Client!TooFarAhead, CInv, OkIsSet
  <2>3. Client!ExceptionsAreJustified'
    BY <2>1, <2>2 DEF Client!ExceptionsAreJustified
  <2> QED BY <1>1, <1>4, <2>1, <2>3, EndOfSubscription
<1>6. CASE Client!Pruned /\ Client!Throw("found")
  <2>1. /\ thrown' = "found" /\ hash' = Client!CloseAllHashStreams /\ Client!NextRound("idle")
        /\ UNCHANGED <<data, conn, delivered, first, subs>>
    BY <1>6 DEF Client!Throw
  <2>2. PICK S \in SUBSET (Client!Servers \ todo) : Refusing(S, notFound, low, latest)
    BY <1>1 DEF CInv, RoundFits
  <2>3. Cardinality(S) >= F + 1 /\ S \in SUBSET Client!Servers
    BY <1>6, <2>2 DEF Client!Pruned, Refusing
  <2>4. PICK s \in S : s \in Client!Honest
    BY <2>3, OneIsHonest
  <2>5. low[s] > latest + 1
    BY <2>2, <2>4 DEF Refusing
  <2>6. Client!ExceptionsAreJustified'
    BY <1>1, <2>1, <2>4, <2>5 DEF Client!ExceptionsAreJustified
  <2> QED BY <1>1, <1>4, <2>1, <2>6, EndOfSubscription
<1>7. CASE /\ Client!ResetDataStreamTo((conn + 1) % Client!N, Client!CloseAllHashStreams, latest)
           /\ Client!NextRound("readBlock") /\ UNCHANGED <<delivered, first, subs, thrown>>
  BY <1>1, <1>7, StartsAgain
<1> QED BY <1>1, <1>2, <1>5, <1>6, <1>7

LEMMA RotationFailsStep == ASSUME ClientSizes, CInv, Client!RotationFails PROVE CInv'
<1>1. /\ clientPc # "idle" /\ Client!NextRound("readBlock")
      /\ Client!ResetDataStreamTo((conn + 1) % Client!N, Client!CloseAllHashStreams, latest)
      /\ UNCHANGED <<serverHead, low, latest, ok, delivered, first, subs, thrown>>
  BY DEF Client!RotationFails, Client!app
<1> QED BY <1>1, StartsAgain

(* The agreed update is delivered: the kept streams are after it. *)
LEMMA DeliverStep ==
    ASSUME ClientSizes, CInv, clientPc # "idle", Client!Agreement, Client!Deliver(Client!AgreedUpdate),
           NEW hs \in [Client!Servers -> Int], HonestFits(hs, records, latest),
           hash' = Client!KeptStreams(Client!AgreedUpdate, hs), conn' \in Client!Servers, data' \in Int,
           hs[conn'] = Client!None, conn' \in Client!Honest => data' = latest + 2
    PROVE  CInv'
<1>1. /\ Client!AgreedUpdate = Awaited(latest) /\ latest + 1 <= MaxUpdate
      /\ Client!Agreed(Awaited(latest)) /\ Awaited(latest) # Client!NoRecord
  BY AgreedIsAwaited DEF CInv, RoundFits, Client!Agreed
<1>2. Awaited(latest).id = latest + 1 /\ Awaited(latest) \in [id : Nat, right : BOOLEAN]
  <2>1. latest + 1 \in Nat
    BY DEF CInv, ClientTyped
  <2> QED BY <2>1 DEF Awaited, Client!Update
<1>3. /\ ok' = TRUE /\ latest' = latest + 1 /\ delivered' = Append(delivered, Awaited(latest))
      /\ Client!NextRound("readBlock") /\ UNCHANGED <<serverHead, low, first, subs, thrown>>
  BY <1>1, <1>2 DEF Client!Deliver
<1>4. /\ latest \in Nat /\ first \in Nat /\ Len(delivered) + first = latest + 1 /\ thrown = "none"
      /\ subs # 0 /\ delivered \in Seq([id : Nat, right : BOOLEAN]) /\ Len(delivered) \in Nat
  BY DEF CInv, ClientTyped, RoundFits, DeliveredFits
<1>5. hash' \in [Client!Servers -> Int] /\ hash'[conn'] = Client!None
  <2>1. Client!None \in Int
    BY DEF Client!None
  <2> QED BY <2>1 DEF Client!KeptStreams
<1>6. latest' \in Nat /\ latest' + 1 = latest + 2
  BY <1>3, <1>4
<1>7. ClientTyped'
  BY <1>3, <1>5, <1>6, RoundTyped DEF CInv, ClientTyped
<1>8. HonestFits(hash', NoRecords, latest')
  <2> SUFFICES ASSUME NEW s \in Client!Honest
               PROVE  /\ NoRecords[s] = Client!NoRecord
                      /\ hash'[s] \in {Client!None, Client!Broken, latest' + 1}
    BY DEF HonestFits
  <2>1. s \in Client!Servers
    BY DEF Client!Honest
  <2>2. CASE s \in Client!Voters(Awaited(latest))
    <3>1. records[s] # Client!NoRecord
      BY <1>1, <2>2 DEF Client!Voters
    <3>2. hash'[s] = hs[s]
      BY <1>1, <2>1, <2>2 DEF Client!KeptStreams
    <3> QED BY <1>6, <2>1, <3>1, <3>2 DEF HonestFits, NoRecords
  <2>3. CASE s \notin Client!Voters(Awaited(latest))
    <3>1. hash'[s] = Client!None
      BY <1>1, <2>1, <2>3 DEF Client!KeptStreams
    <3> QED BY <2>1, <3>1 DEF NoRecords
  <2> QED BY <2>2, <2>3
<1>9. Len(delivered') = Len(delivered) + 1 /\ delivered' \in Seq([id : Nat, right : BOOLEAN])
  BY <1>2, <1>3, <1>4
<1>10. RoundFits'
  <2>1. Len(delivered') + first' = latest' + 1
    BY <1>3, <1>4, <1>9
  <2>2. conn' \in Client!Honest => data' \in {Client!None, Client!Broken, latest' + 1}
    BY <1>6
  <2> QED BY <1>3, <1>4, <1>5, <1>8, <2>1, <2>2, FreshRound
<1>11. DeliveredFits'
  <2>1. ASSUME NEW i \in 1..Len(delivered') PROVE delivered'[i] = Client!Update(first' + i - 1, TRUE)
    <3>1. CASE i <= Len(delivered)
      <4>1. i \in 1..Len(delivered)
        BY <1>4, <1>9, <3>1
      <4>2. delivered'[i] = delivered[i]
        BY <1>2, <1>3, <1>4, <4>1
      <4> QED BY <1>3, <4>1, <4>2 DEF CInv, DeliveredFits
    <3>2. CASE ~(i <= Len(delivered))
      <4>1. i = Len(delivered) + 1 /\ first + i - 1 = latest + 1
        BY <1>4, <1>9, <3>2
      <4>2. delivered'[i] = Awaited(latest)
        BY <1>2, <1>3, <1>4, <4>1
      <4> QED BY <1>3, <4>1, <4>2 DEF Awaited
    <3> QED BY <3>1, <3>2
  <2> QED BY <1>9, <2>1 DEF DeliveredFits
<1>12. OkIsSet'
  BY <1>3, RoundTyped DEF OkIsSet
<1>13. Client!ExceptionsAreJustified'
  BY <1>3, <1>4 DEF Client!ExceptionsAreJustified
<1> QED BY <1>7, <1>10, <1>11, <1>12, <1>13 DEF CInv

LEMMA VerifiedStep == ASSUME ClientSizes, CInv, Client!Verified PROVE CInv'
<1>1. /\ clientPc = "find" /\ Client!Agreement /\ hasData /\ UNCHANGED <<data, conn>>
      /\ Client!Deliver(Client!AgreedUpdate) /\ hash' = Client!KeptStreams(Client!AgreedUpdate, hash)
  BY DEF Client!Verified
<1>2. /\ HonestFits(hash, records, latest) /\ hash \in [Client!Servers -> Int] /\ data' \in Int
      /\ conn' \in Client!Servers /\ hash[conn'] = Client!None
      /\ conn' \in Client!Honest => data' = latest + 2
  BY <1>1 DEF CInv, ClientTyped, RoundFits
<1>3. clientPc # "idle"
  BY <1>1
<1> QED BY <1>1, <1>2, <1>3, DeliverStep

LEMMA StartRotationStep == ASSUME ClientSizes, CInv, Client!StartRotation PROVE CInv'
<1>1. /\ clientPc = "find" /\ clientPc' = "rotate" /\ Client!Agreement /\ todo' \subseteq Client!Servers
      /\ UNCHANGED <<serverHead, low, data, hash, conn, latest, ok, records, hasData, outOfRange, notFound,
                     delivered, first, subs, thrown>>
  BY DEF Client!StartRotation, Client!Voters, Client!streams, Client!round, Client!app
<1>2. Client!Agreement'
  BY <1>1 DEF Client!Agreement, Client!Agreed, Client!Voters
<1>3. ClientTyped'
  BY <1>1 DEF CInv, ClientTyped
<1>4. RoundFits'
  <2>1. HonestFits(hash', records', latest')
    BY <1>1 DEF CInv, RoundFits
  <2> QED BY <1>1, <1>2, <2>1 DEF CInv, RoundFits
<1>5. DeliveredFits' /\ OkIsSet' /\ Client!ExceptionsAreJustified'
  BY <1>1 DEF CInv, DeliveredFits, OkIsSet, Client!ExceptionsAreJustified
<1> QED BY <1>3, <1>4, <1>5 DEF CInv

(* The data stream moves to a server of the agreement. *)
LEMMA RotateStep == ASSUME ClientSizes, CInv, Client!Rotate PROVE CInv'
<1> DEFINE hs(s) == [hash EXCEPT ![s] = Client!None, ![conn] = Client!None]
           Same == UNCHANGED <<serverHead, low, latest, ok, clientPc, records, hasData, outOfRange, notFound,
                               delivered, first, subs, thrown>>
<1>1. PICK s \in todo :
        /\ clientPc = "rotate" /\ conn' = s
        /\ \/ data' = Client!None /\ hash' = hs(s) /\ todo' = todo \ {s} /\ Same
           \/ \E a \in Client!Answers(s, latest + 1) :
                /\ data' = Client!After(s, latest + 1, a.r)
                /\ \/ /\ a.r = "success" /\ Client!Matches(a.u)
                      /\ hash' = Client!KeptStreams(Client!AgreedUpdate, hs(s)) /\ Client!Deliver(a.u)
                   \/ hash' = hs(s) /\ todo' = todo \ {s} /\ Same
  BY DEF Client!Rotate, Client!round, Client!app
<1>2. /\ s \in Client!Servers /\ conn \in Client!Servers /\ latest \in Nat /\ latest + 1 \in Int
      /\ hash \in [Client!Servers -> Int] /\ HonestFits(hash, records, latest) /\ Client!Agreement
      /\ todo \subseteq Client!Servers /\ Client!None \in Int
  BY <1>1 DEF CInv, ClientTyped, RoundFits, Client!None
<1>3. hs(s) \in [Client!Servers -> Int] /\ hs(s)[s] = Client!None
  BY <1>2
<1>4. HonestFits(hs(s), records, latest)
  <2>1. \A t \in Client!Honest : hs(s)[t] = Client!None \/ hs(s)[t] = hash[t]
    BY <1>2 DEF Client!Honest
  <2> HIDE DEF hs
  <2> QED BY <1>2, <2>1 DEF HonestFits
<1> HIDE DEF hs
<1>5. CASE hash' = hs(s) /\ todo' = todo \ {s} /\ Same /\ data' \in Int
  <2>1. ClientTyped'
    BY <1>1, <1>2, <1>3, <1>5 DEF CInv, ClientTyped
  <2>2. RoundFits'
    <3>1. HonestFits(hash', records', latest') /\ hash'[conn'] = Client!None
      BY <1>1, <1>3, <1>4, <1>5
    <3>2. Client!Agreement'
      BY <1>2, <1>5 DEF Client!Agreement, Client!Agreed, Client!Voters
    <3> QED BY <1>1, <1>5, <3>1, <3>2 DEF CInv, RoundFits
  <2>3. DeliveredFits' /\ OkIsSet' /\ Client!ExceptionsAreJustified'
    BY <1>5 DEF CInv, DeliveredFits, OkIsSet, Client!ExceptionsAreJustified
  <2> QED BY <2>1, <2>2, <2>3 DEF CInv
<1>6. ASSUME NEW a \in Client!Answers(s, latest + 1), data' = Client!After(s, latest + 1, a.r)
      PROVE  data' \in Int /\ (s \in Client!Honest /\ a.r = "success" => data' = latest + 2)
  BY <1>2, <1>6, AnswerIsTyped, HonestAnswer DEF CInv
<1>7. ASSUME NEW a \in Client!Answers(s, latest + 1), data' = Client!After(s, latest + 1, a.r),
             a.r = "success", Client!Matches(a.u),
             hash' = Client!KeptStreams(Client!AgreedUpdate, hs(s)), Client!Deliver(a.u)
      PROVE  CInv'
  <2>1. Client!Deliver(Client!AgreedUpdate) /\ clientPc # "idle"
    BY <1>1, <1>7 DEF Client!Matches
  <2> QED BY <1>1, <1>2, <1>3, <1>4, <1>6, <1>7, <2>1, DeliverStep
<1> HIDE DEF Same
<1> QED BY <1>1, <1>2, <1>5, <1>6, <1>7

(* Every step keeps the invariant. *)
LEMMA ClientNext == ASSUME ClientSizes, CInv, [Client!Next]_(Client!vars) PROVE CInv'
<1>1. CASE Client!Next
  BY <1>1, ServerSteps, SubscribeStep, UnsubscribeStep, ReadBlockStep, OpenTimesOutStep,
     ReadUpdateHashStep, NoAgreementStep, VerifiedStep, StartRotationStep, RotateStep,
     RotationFailsStep DEF Client!Next
<1>2. CASE UNCHANGED Client!vars
  <2>1. UNCHANGED <<serverHead, low, data, hash, conn, latest, ok, clientPc, todo, records, hasData,
                    outOfRange, notFound, delivered, first, subs, thrown>>
    BY <1>2 DEF Client!vars, Client!streams, Client!round, Client!app
  <2>2. ClientTyped' /\ DeliveredFits' /\ OkIsSet' /\ Client!ExceptionsAreJustified'
    BY <2>1 DEF CInv, ClientTyped, DeliveredFits, OkIsSet, Client!ExceptionsAreJustified
  <2>3. RoundFits'
    <3>1. Client!Agreement => Client!Agreement'
      BY <2>1 DEF Client!Agreement, Client!Agreed, Client!Voters
    <3> QED BY <2>1, <3>1 DEF CInv, RoundFits
  <2> QED BY <2>2, <2>3 DEF CInv
<1> QED BY <1>1, <1>2

LEMMA ClientIsRight ==
    ASSUME ClientSizes, CInv
    PROVE  Client!DeliveredInOrder /\ Client!StreamsAreAligned /\ Client!ExceptionsAreJustified
<1>1. Client!DeliveredInOrder
  <2>1. delivered \in Seq([id : Nat, right : BOOLEAN])
    BY DEF CInv, DeliveredFits
  <2>2. DOMAIN delivered = 1..Len(delivered)
    BY <2>1
  <2> QED BY <2>2 DEF CInv, DeliveredFits, Client!DeliveredInOrder
<1>2. Client!StreamsAreAligned
  <2>1. CASE clientPc = "readBlock"
    <3>1. \A s \in Client!Honest : s \in Client!Servers
      BY DEF Client!Honest
    <3> QED BY <2>1, <3>1 DEF CInv, RoundFits, HonestFits, NoRecords, Client!StreamsAreAligned
  <2>2. CASE clientPc # "readBlock"
    BY <2>2 DEF Client!StreamsAreAligned
  <2> QED BY <2>1, <2>2
<1> QED BY <1>1, <1>2 DEF CInv

(***************************************************************************)
(* ThinReplicaClient::receiveUpdates, with at most F servers that answer   *)
(* anything and streams that time out or fail at any point: the            *)
(* application gets the updates from the one it asked for on, in order,    *)
(* each once and each the right one; at the start of a round the streams   *)
(* of the correct servers are at the awaited update; and an exception is   *)
(* raised only for a reason.  For every F and any number of updates, for   *)
(* the first subscription of a client.                                     *)
(***************************************************************************)
THEOREM UpdatesAreVerified ==
    ASSUME ClientSizes
    PROVE  Client!Spec => [](/\ Client!DeliveredInOrder /\ Client!StreamsAreAligned
                             /\ Client!ExceptionsAreJustified)
<1>1. Client!Init => CInv
  BY ClientInit
<1>2. CInv /\ [Client!Next]_(Client!vars) => CInv'
  BY ClientNext
<1>3. CInv => /\ Client!DeliveredInOrder /\ Client!StreamsAreAligned
              /\ Client!ExceptionsAreJustified
  BY ClientIsRight
<1> QED BY <1>1, <1>2, <1>3, PTL DEF Client!Spec
=============================================================================
