--------------------------- MODULE FieldPartsProof ---------------------------
(***************************************************************************)
(* Theorems about the n-to-m redistribution, for any ranks on both sides,  *)
(* blocks, hidden blocks and element sizes: what calculate_n_to_m returns  *)
(* are the overlaps of the blocks, and the two sides expect as much of a   *)
(* part as they send each other.                                           *)
(*                                                                         *)
(* The sums and the walk over the bytes are recursive functions: they are  *)
(* shown to satisfy their equations first (Follows), and inductions on the *)
(* bytes take the least counterexample.                                    *)
(***************************************************************************)
EXTENDS FieldParts, FiniteSetTheorems, SequenceTheorems, WellFoundedInduction, TLAPS

-----------------------------------------------------------------------------
(* A set of natural numbers has a least member. *)
LEMMA LeastNat ==
  ASSUME NEW S \in SUBSET Nat, S # {}
  PROVE  \E n \in S : \A m \in S : n <= m
<1> DEFINE R == OpToRel(<, Nat)
<1>1. \A m, n \in Nat : m < n => <<m, n>> \in R
  BY DEF OpToRel
<1>2. IsWellFoundedOn(R, Nat)
  BY NatLessThanWellFounded
<1> HIDE DEF R
<1>3. PICK n \in S : \A m \in S : ~ (<<m, n>> \in R)
  BY <1>2, WFMin
<1>4. \A m \in S : ~ (m < n)
  BY <1>1, <1>3
<1> QED
  BY <1>4

(* A function of the numbers up to n that follows step from base. *)
Follows(g, n, S, base, step) ==
  /\ g \in [0 .. n -> S]
  /\ g[0] = base
  /\ \A i \in 1 .. n : g[i] = step[<<i, g[i - 1]>>]

(* There is one such function.                                              *)
LEMMA SomeFollows ==
  ASSUME NEW S, NEW base \in S, NEW step \in [Nat \X S -> S], NEW n \in Nat
  PROVE  \E g : Follows(g, n, S, base, step)
<1> DEFINE Bad == {m \in Nat : ~ \E g : Follows(g, m, S, base, step)}
<1>1. SUFFICES ASSUME Bad # {} PROVE FALSE
  OBVIOUS
<1>2. PICK m \in Bad : \A l \in Bad : m <= l
  BY <1>1, LeastNat
<1>3. CASE m = 0
  <2>1. Follows([i \in 0 .. 0 |-> base], 0, S, base, step)
    BY DEF Follows
  <2> QED
    BY <1>2, <1>3, <2>1
<1>4. CASE m # 0
  <2>1. m - 1 \in Nat /\ m - 1 \notin Bad
    BY <1>2, <1>4
  <2>2. PICK g : Follows(g, m - 1, S, base, step)
    BY <2>1
  <2> DEFINE h == [i \in 0 .. m |-> IF i = m THEN step[<<m, g[m - 1]>>] ELSE g[i]]
  <2>3. \A i \in 0 .. m - 1 : g[i] \in S /\ h[i] = g[i]
    BY <2>1, <2>2 DEF Follows
  <2>4. m \in Nat /\ m \in 0 .. m /\ m - 1 \in 0 .. m - 1 /\ m - 1 # m
    BY <2>1
  <2>5. <<m, g[m - 1]>> \in Nat \X S
    BY <2>3, <2>4
  <2>6. h[m] = step[<<m, g[m - 1]>>] /\ step[<<m, g[m - 1]>>] \in S
    BY <2>4, <2>5
  <2>7. DOMAIN h = 0 .. m /\ \A i \in 0 .. m : i = m \/ i \in 0 .. m - 1
    BY <2>4
  <2>8. h = [i \in 0 .. m |-> h[i]]
    OBVIOUS
  <2> HIDE DEF h
  <2>9. \A i \in 0 .. m : h[i] \in S
    BY <2>3, <2>6, <2>7
  <2>10. h \in [0 .. m -> S]
    BY <2>8, <2>9
  <2>11. ASSUME NEW i \in 1 .. m PROVE h[i] = step[<<i, h[i - 1]>>]
    <3>1. CASE i = m
      BY <2>3, <2>4, <2>6, <3>1
    <3>2. CASE i # m
      <4>1. i \in 1 .. m - 1 /\ i - 1 \in 0 .. m - 1 /\ i \in 0 .. m - 1
        BY <2>4, <3>2
      <4> QED
        BY <2>2, <2>3, <4>1 DEF Follows
    <3> QED
      BY <3>1, <3>2
  <2>12. h[0] = base
    BY <2>2, <2>3, <2>4 DEF Follows
  <2>13. Follows(h, m, S, base, step)
    BY <2>10, <2>11, <2>12 DEF Follows
  <2> QED
    BY <1>2, <2>13
<1> QED
  BY <1>3, <1>4

(* Two such functions agree. *)
LEMMA SameFollows ==
  ASSUME NEW S, NEW base, NEW step, NEW m \in Nat, NEW n \in Nat,
         NEW g, NEW h, Follows(g, m, S, base, step), Follows(h, n, S, base, step)
  PROVE  \A i \in Nat : i <= m /\ i <= n => g[i] = h[i]
<1> DEFINE Bad == {i \in Nat : i <= m /\ i <= n /\ g[i] # h[i]}
<1>1. SUFFICES ASSUME Bad # {} PROVE FALSE
  OBVIOUS
<1>2. PICK i \in Bad : \A l \in Bad : i <= l
  BY <1>1, LeastNat
<1>3. i # 0
  BY <1>2 DEF Follows
<1>4. i - 1 \in Nat /\ i - 1 \notin Bad
  BY <1>2, <1>3
<1>5. g[i - 1] = h[i - 1]
  BY <1>2, <1>4
<1>6. i \in 1 .. m /\ i \in 1 .. n
  BY <1>2, <1>3
<1> QED
  BY <1>2, <1>5, <1>6 DEF Follows


(* The recursion of a sum of partial values and the step that it takes.  *)
SumStep(f) == [p \in Nat \X Nat |-> p[2] + IF f[p[1] - 1] \in Nat THEN f[p[1] - 1] ELSE 0]

(* So is the sum.                                                           *)
LEMMA PartialSumFollows ==
  ASSUME NEW f, NEW n \in Nat, \A i \in 0 .. n - 1 : f[i] \in Nat
  PROVE  \E s : Follows(s, n, Nat, 0, SumStep(f)) /\ PartialSum(f, n) = s[n]
<1> DEFINE body(s) == [i \in 0 .. n |-> IF i = 0 THEN 0 ELSE s[i - 1] + f[i - 1]]
           sum == CHOOSE s : s = body(s)
<1>1. PartialSum(f, n) = sum[n]
  BY DEF PartialSum
<1>2. SumStep(f) \in [Nat \X Nat -> Nat]
  BY DEF SumStep
<1>3. \A i \in 1 .. n, v \in Nat : SumStep(f)[<<i, v>>] = v + f[i - 1]
  <2>1. ASSUME NEW i \in 1 .. n, NEW v \in Nat PROVE SumStep(f)[<<i, v>>] = v + f[i - 1]
    <3>1. i \in Nat /\ i - 1 \in 0 .. n - 1
      OBVIOUS
    <3> QED
      BY <3>1 DEF SumStep
  <2> QED
    BY <2>1
<1>4. PICK g : Follows(g, n, Nat, 0, SumStep(f))
  BY <1>2, SomeFollows
<1>5. g = body(g)
  <2>1. g = [i \in 0 .. n |-> g[i]] /\ g[0] = 0
    BY <1>4 DEF Follows
  <2>2. ASSUME NEW i \in 1 .. n PROVE g[i] = g[i - 1] + f[i - 1]
    <3>1. i - 1 \in 0 .. n
      OBVIOUS
    <3>2. g[i - 1] \in Nat /\ g[i] = SumStep(f)[<<i, g[i - 1]>>]
      BY <1>4, <3>1 DEF Follows
    <3> QED
      BY <1>3, <3>2
  <2>3. ASSUME NEW i \in 0 .. n PROVE g[i] = IF i = 0 THEN 0 ELSE g[i - 1] + f[i - 1]
    <3>1. i = 0 \/ i \in 1 .. n
      OBVIOUS
    <3> QED
      BY <2>1, <2>2, <3>1
  <2> QED
    BY <2>1, <2>3
<1>6. sum = body(sum)
  BY <1>5
<1> HIDE DEF sum
<1>7. sum = [i \in 0 .. n |-> sum[i]]
  BY <1>6
<1>8. sum[0] = 0 /\ \A i \in 1 .. n : sum[i] = sum[i - 1] + f[i - 1]
  BY <1>6
<1>9. \A i \in 0 .. n : sum[i] \in Nat
  <2> DEFINE Bad == {i \in Nat : i <= n /\ sum[i] \notin Nat}
  <2>1. SUFFICES ASSUME Bad # {} PROVE FALSE
    OBVIOUS
  <2>2. PICK i \in Bad : \A l \in Bad : i <= l
    BY <2>1, LeastNat
  <2>3. i # 0
    BY <1>8, <2>2
  <2>4. i - 1 \in Nat /\ i - 1 \notin Bad /\ i \in 1 .. n /\ i - 1 \in 0 .. n - 1
    BY <2>2, <2>3
  <2>5. sum[i - 1] \in Nat /\ f[i - 1] \in Nat
    BY <2>2, <2>4
  <2> QED
    BY <1>8, <2>2, <2>4, <2>5
<1>10. Follows(sum, n, Nat, 0, SumStep(f))
  <2>1. sum \in [0 .. n -> Nat]
    BY <1>7, <1>9
  <2>2. ASSUME NEW i \in 1 .. n PROVE sum[i] = SumStep(f)[<<i, sum[i - 1]>>]
    <3>1. i - 1 \in 0 .. n
      OBVIOUS
    <3> QED
      BY <1>3, <1>8, <1>9, <3>1
  <2> QED
    BY <1>8, <2>1, <2>2 DEF Follows
<1> QED
  BY <1>1, <1>10

(* A sum grows by its next value. *)
LEMMA PartialSumNext ==
  ASSUME NEW f, NEW n \in Nat, \A i \in 0 .. n : f[i] \in Nat
  PROVE  /\ PartialSum(f, n) \in Nat
         /\ PartialSum(f, n + 1) = PartialSum(f, n) + f[n]
<1>1. PICK s : Follows(s, n, Nat, 0, SumStep(f)) /\ PartialSum(f, n) = s[n]
  BY PartialSumFollows
<1>2. PICK t : Follows(t, n + 1, Nat, 0, SumStep(f)) /\ PartialSum(f, n + 1) = t[n + 1]
  <2>1. n + 1 \in Nat /\ (n + 1) - 1 = n
    OBVIOUS
  <2> QED
    BY <2>1, PartialSumFollows
<1>3. SumStep(f) \in [Nat \X Nat -> Nat]
  BY DEF SumStep
<1>4. s[n] = t[n]
  <2>1. n + 1 \in Nat /\ n <= n + 1 /\ n <= n /\ 0 \in Nat
    OBVIOUS
  <2>2. \A i \in Nat : i <= n /\ i <= n + 1 => s[i] = t[i]
    BY <1>1, <1>2, <2>1, SameFollows
  <2> QED
    BY <2>1, <2>2
<1>5. t[n] \in Nat /\ t[n + 1] = SumStep(f)[<<n + 1, t[n]>>]
  <2>1. n \in 0 .. n + 1 /\ n + 1 \in 1 .. n + 1 /\ (n + 1) - 1 = n
    OBVIOUS
  <2> QED
    BY <1>2, <2>1 DEF Follows
<1>6. SumStep(f)[<<n + 1, t[n]>>] = t[n] + f[n]
  <2>1. n + 1 \in Nat /\ (n + 1) - 1 = n /\ f[n] \in Nat
    OBVIOUS
  <2> QED
    BY <1>5, <2>1 DEF SumStep
<1> QED
  BY <1>1, <1>2, <1>4, <1>5, <1>6

(* The empty sum.                                                           *)
LEMMA PartialSumZero ==
  ASSUME NEW f
  PROVE  PartialSum(f, 0) = 0
<1>1. PICK s : Follows(s, 0, Nat, 0, SumStep(f)) /\ PartialSum(f, 0) = s[0]
  BY PartialSumFollows
<1> QED
  BY <1>1 DEF Follows
-----------------------------------------------------------------------------
(***************************************************************************)
(* Blocks: where each begins, and in which one a byte is.                  *)
(***************************************************************************)
(* What both sides cut the field into: m blocks, of which none that begins *)
(* before the end of the field is empty.                                   *)
Solid(b, m) ==
  /\ m \in Nat \ {0}
  /\ b \in [0 .. m - 1 -> Nat]
  /\ \A j \in 0 .. m - 1 : Before(b, j) < Before(b, m) => b[j] > 0

(* Bytes in front of the next block.                                        *)
LEMMA BeforeNext ==
  ASSUME NEW m \in Nat, NEW b \in [0 .. m - 1 -> Nat], NEW j \in 0 .. m - 1
  PROVE  Before(b, j) \in Nat /\ Before(b, j + 1) = Before(b, j) + b[j]
<1>1. j \in Nat /\ \A i \in 0 .. j : b[i] \in Nat
  OBVIOUS
<1> QED
  BY <1>1, PartialSumNext DEF Before

(* Bytes in front of a block are a natural number.                          *)
LEMMA BeforeNat ==
  ASSUME NEW m \in Nat, NEW b \in [0 .. m - 1 -> Nat], NEW j \in 0 .. m
  PROVE  Before(b, j) \in Nat /\ (j = 0 => Before(b, j) = 0)
<1>1. CASE j = 0
  BY <1>1, PartialSumZero DEF Before
<1>2. CASE j # 0
  <2>1. j - 1 \in 0 .. m - 1 /\ (j - 1) + 1 = j
    BY <1>2
  <2>2. Before(b, j - 1) \in Nat /\ Before(b, (j - 1) + 1) = Before(b, j - 1) + b[j - 1]
    BY <2>1, BeforeNext
  <2>3. b[j - 1] \in Nat
    BY <2>1
  <2> QED
    BY <1>2, <2>1, <2>2, <2>3
<1> QED
  BY <1>1, <1>2

(* Blocks begin in the order of their ranks. *)
LEMMA BeforeMonotone ==
  ASSUME NEW m \in Nat, NEW b \in [0 .. m - 1 -> Nat],
         NEW i \in 0 .. m, NEW j \in 0 .. m, i <= j
  PROVE  Before(b, i) <= Before(b, j)
<1> DEFINE Bad == {l \in Nat : i <= l /\ l <= m /\ ~ (Before(b, i) <= Before(b, l))}
<1>1. SUFFICES ASSUME Bad # {} PROVE FALSE
  OBVIOUS
<1>2. PICK l \in Bad : \A k \in Bad : l <= k
  BY <1>1, LeastNat
<1>3. Before(b, i) \in Nat
  BY BeforeNat
<1>4. l # i
  BY <1>2, <1>3
<1>5. l - 1 \in 0 .. m - 1 /\ i <= l - 1 /\ (l - 1) + 1 = l /\ l - 1 \in Nat
  BY <1>2, <1>4
<1>6. Before(b, i) <= Before(b, l - 1)
  BY <1>2, <1>5
<1>7. Before(b, l - 1) \in Nat /\ Before(b, (l - 1) + 1) = Before(b, l - 1) + b[l - 1]
  BY <1>5, BeforeNext
<1>8. b[l - 1] \in Nat
  BY <1>5
<1>9. Before(b, l) = Before(b, l - 1) + b[l - 1]
  BY <1>5, <1>7
<1>10. Before(b, i) <= Before(b, l)
  BY <1>3, <1>6, <1>7, <1>8, <1>9
<1> QED
  BY <1>2, <1>10

(* A byte is in one block. *)
LEMMA OneBlock ==
  ASSUME NEW m \in Nat, NEW b \in [0 .. m - 1 -> Nat], NEW n \in Nat,
         NEW i \in 0 .. m - 1, NEW j \in 0 .. m - 1,
         Before(b, i) <= n, n < Before(b, i) + b[i],
         Before(b, j) <= n, n < Before(b, j) + b[j]
  PROVE  i = j
<1>1. \A k \in 0 .. m - 1 : /\ Before(b, k) \in Nat
                            /\ Before(b, k + 1) = Before(b, k) + b[k]
                            /\ b[k] \in Nat
  BY BeforeNext
<1>2. \A k, l \in 0 .. m : k <= l => Before(b, k) <= Before(b, l)
  BY BeforeMonotone
<1>3. CASE i < j
  <2>1. i + 1 \in 0 .. m /\ j \in 0 .. m /\ i + 1 <= j
    BY <1>3
  <2>2. Before(b, i + 1) <= Before(b, j)
    BY <1>2, <2>1
  <2>3. /\ Before(b, i) \in Nat /\ b[i] \in Nat /\ Before(b, j) \in Nat
        /\ Before(b, i + 1) = Before(b, i) + b[i]
    BY <1>1
  <2> QED
    BY <2>2, <2>3
<1>4. CASE j < i
  <2>1. j + 1 \in 0 .. m /\ i \in 0 .. m /\ j + 1 <= i
    BY <1>4
  <2>2. Before(b, j + 1) <= Before(b, i)
    BY <1>2, <2>1
  <2>3. /\ Before(b, j) \in Nat /\ b[j] \in Nat /\ Before(b, i) \in Nat
        /\ Before(b, j + 1) = Before(b, j) + b[j]
    BY <1>1
  <2> QED
    BY <2>2, <2>3
<1> QED
  BY <1>3, <1>4

(* After n bytes a side is at the end of byte n, in the block of that byte. *)
Reached(b, m, n, rank, index) ==
  /\ rank \in 0 .. m - 1
  /\ index \in 1 .. b[rank]
  /\ n = Before(b, rank) + index

(* The walk begins in the first block. *)
LEMMA ReachedFirst ==
  ASSUME NEW b, NEW m, Solid(b, m), Before(b, m) > 0
  PROVE  Reached(b, m, 1, 0, 1) /\ b[0] > 0
<1>1. 0 \in 0 .. m - 1 /\ b[0] \in Nat /\ 0 \in 0 .. m /\ m \in Nat
  BY DEF Solid
<1>2. Before(b, 0) = 0
  BY <1>1, BeforeNat DEF Solid
<1>3. b[0] > 0
  BY <1>1, <1>2 DEF Solid
<1> QED
  BY <1>1, <1>2, <1>3 DEF Reached

(* One byte more, in the same block or in the one behind it. *)
LEMMA ReachedNext ==
  ASSUME NEW b, NEW m, Solid(b, m), NEW n \in Nat, n < Before(b, m),
         NEW rank, NEW index, Reached(b, m, n, rank, index)
  PROVE  /\ AtBorder(index, b[rank]) =>
              Reached(b, m, n + 1, rank + 1, 1) /\ n = Before(b, rank + 1)
         /\ ~ AtBorder(index, b[rank]) => Reached(b, m, n + 1, rank, index + 1)
<1>1. /\ rank \in 0 .. m - 1 /\ rank \in Nat /\ m \in Nat /\ b[rank] \in Nat
      /\ index \in 1 .. b[rank] /\ n = Before(b, rank) + index
  BY DEF Reached, Solid
<1>2. Before(b, rank) \in Nat /\ Before(b, rank + 1) = Before(b, rank) + b[rank]
  BY <1>1, BeforeNext DEF Solid
<1>3. ASSUME AtBorder(index, b[rank]) PROVE Reached(b, m, n + 1, rank + 1, 1) /\ n = Before(b, rank + 1)
  <2>1. index = b[rank]
    BY <1>1, <1>3 DEF AtBorder
  <2>2. n = Before(b, rank + 1)
    BY <1>1, <1>2, <2>1
  <2>3. rank + 1 # m
    BY <2>2
  <2>4. rank + 1 \in 0 .. m - 1
    BY <1>1, <2>3
  <2>5. b[rank + 1] > 0 /\ b[rank + 1] \in Nat
    BY <2>2, <2>4 DEF Solid
  <2>6. 1 \in 1 .. b[rank + 1]
    BY <2>5
  <2> QED
    BY <2>2, <2>4, <2>6 DEF Reached
<1>4. ASSUME ~ AtBorder(index, b[rank]) PROVE Reached(b, m, n + 1, rank, index + 1)
  <2>1. index < b[rank]
    BY <1>1, <1>4 DEF AtBorder
  <2>2. index + 1 \in 1 .. b[rank] /\ n + 1 = Before(b, rank) + (index + 1)
    BY <1>1, <1>2, <2>1
  <2> QED
    BY <1>1, <2>2 DEF Reached
<1> QED
  BY <1>3, <1>4
-----------------------------------------------------------------------------
(***************************************************************************)
(* The blocks of the server ranks.                                         *)
(***************************************************************************)
LEMMA Division ==
  ASSUME NEW e \in Nat, NEW c \in Nat \ {0}
  PROVE  e \div c \in Nat /\ e - (e \div c) * c \in 0 .. c - 1
<1>1. e \div c \in Int /\ c * (e \div c) <= e /\ e < c * (e \div c) + c
  OBVIOUS
<1> DEFINE q == e \div c
<1>2. q \in Int /\ c * q <= e /\ e < c * q + c
  BY <1>1
<1> HIDE DEF q
<1>3. q >= 0
  <2>1. SUFFICES ASSUME q + 1 <= 0 PROVE FALSE
    BY <1>2
  <2>2. c * (q + 1) <= 0
    BY <1>2, <2>1
  <2>3. c * (q + 1) = c * q + c
    BY <1>2
  <2> QED
    BY <1>2, <2>2, <2>3
<1>4. q * c = c * q /\ c * q \in Int
  BY <1>2
<1>5. e - q * c \in 0 .. c - 1
  BY <1>2, <1>4
<1> QED
  BY <1>2, <1>3, <1>5 DEF q

(* A multiple divided by its element.                                       *)
LEMMA Multiple ==
  ASSUME NEW bytes \in Nat \ {0}, NEW e \in Nat
  PROVE  (bytes * e) \div bytes = e
<1>1. (bytes * e) \div bytes \in Nat /\ (bytes * e) - ((bytes * e) \div bytes) * bytes \in 0 .. bytes - 1
  <2>1. bytes * e \in Nat
    OBVIOUS
  <2> QED
    BY <2>1, Division
<1> DEFINE q == (bytes * e) \div bytes
<1>2. q \in Nat /\ bytes * e - q * bytes \in 0 .. bytes - 1
  BY <1>1
<1> HIDE DEF q
<1>3. ~ (q < e)
  <2>1. SUFFICES ASSUME q + 1 <= e PROVE FALSE
    BY <1>2
  <2>2. bytes * (q + 1) <= bytes * e
    BY <1>2, <2>1
  <2>3. bytes * (q + 1) = q * bytes + bytes
    BY <1>2
  <2> QED
    BY <1>2, <2>2, <2>3
<1>4. ~ (q > e)
  <2>1. SUFFICES ASSUME e + 1 <= q PROVE FALSE
    BY <1>2
  <2>2. bytes * (e + 1) <= bytes * q
    BY <1>2, <2>1
  <2>3. bytes * (e + 1) = bytes * e + bytes /\ q * bytes = bytes * q
    BY <1>2
  <2> QED
    BY <1>2, <2>2, <2>3
<1> QED
  BY <1>2, <1>3, <1>4 DEF q

(* Elements of the server ranks below s when each has q and the first r    *)
(* have one more.                                                          *)
ElementsBelow(q, r, s) == s * q + IF s < r THEN s ELSE r

(* The blocks of the server ranks add up to the field, and an empty one    *)
(* begins at its end.                                                      *)
LEMMA ServerBlocks ==
  ASSUME NEW bytes \in Nat \ {0}, NEW e \in Nat
  PROVE  LET servers == calculate_local_vect_sizes_server(bytes * e, bytes)
         IN Before(servers, CommSize) = bytes * e /\ Solid(servers, CommSize)
<1> DEFINE servers == calculate_local_vect_sizes_server(bytes * e, bytes)
           q == e \div CommSize
           r == e - q * CommSize
<1>1. CommSize \in Nat \ {0}
  BY FieldAssumption
<1>2. q \in Nat /\ r \in 0 .. CommSize - 1 /\ r \in Nat
  <2>1. e \div CommSize \in Nat /\ e - (e \div CommSize) * CommSize \in 0 .. CommSize - 1
    BY <1>1, Division
  <2> QED
    BY <2>1
<1>3. (bytes * e) \div bytes = e
  BY Multiple
<1>4. servers = [s \in 0 .. CommSize - 1 |-> bytes * (q + IF s < r THEN 1 ELSE 0)]
  BY <1>3 DEF calculate_local_vect_sizes_server, ServerRanks
<1>5. e = q * CommSize + r
  BY <1>1, <1>2
<1> HIDE DEF servers, q, r
<1>6. \A s \in 0 .. CommSize - 1 :
        /\ servers[s] = bytes * (q + IF s < r THEN 1 ELSE 0)
        /\ servers[s] \in Nat
  BY <1>2, <1>4
<1>7. servers \in [0 .. CommSize - 1 -> Nat]
  BY <1>4, <1>6
<1>8. \A s \in 0 .. CommSize : ElementsBelow(q, r, s) \in Nat
  BY <1>1, <1>2 DEF ElementsBelow
<1>9. \A s \in 0 .. CommSize - 1 :
        ElementsBelow(q, r, s + 1) = ElementsBelow(q, r, s) + (q + IF s < r THEN 1 ELSE 0)
  <2>1. ASSUME NEW s \in 0 .. CommSize - 1
        PROVE  ElementsBelow(q, r, s + 1) = ElementsBelow(q, r, s) + (q + IF s < r THEN 1 ELSE 0)
    <3>1. (s + 1) * q = s * q + q /\ s * q \in Nat
      BY <1>1, <1>2
    <3> QED
      BY <1>1, <1>2, <3>1 DEF ElementsBelow
  <2> QED
    BY <2>1
<1>10. \A s \in 0 .. CommSize : Before(servers, s) = bytes * ElementsBelow(q, r, s)
  <2> DEFINE Bad == {s \in Nat : s <= CommSize /\ Before(servers, s) # bytes * ElementsBelow(q, r, s)}
  <2>1. SUFFICES ASSUME Bad # {} PROVE FALSE
    BY <1>1
  <2>2. PICK s \in Bad : \A t \in Bad : s <= t
    BY <2>1, LeastNat
  <2>3. s # 0
    <3>1. Before(servers, 0) = 0
      BY <1>1, <1>7, BeforeNat
    <3>2. ElementsBelow(q, r, 0) = 0
      BY <1>2 DEF ElementsBelow
    <3> QED
      BY <2>2, <3>1, <3>2
  <2>4. s - 1 \in Nat /\ s - 1 \in 0 .. CommSize - 1 /\ (s - 1) + 1 = s /\ s - 1 \notin Bad
    BY <1>1, <2>2, <2>3
  <2> DEFINE l == s - 1
             one == IF l < r THEN 1 ELSE 0
  <2>5. l \in 0 .. CommSize - 1 /\ l + 1 = s /\ one \in Nat
    BY <2>4
  <2>6. Before(servers, l) = bytes * ElementsBelow(q, r, l)
    BY <1>1, <2>4
  <2>7. servers[l] = bytes * (q + one)
    BY <1>6, <2>4
  <2>8. ElementsBelow(q, r, s) = ElementsBelow(q, r, l) + (q + one)
    BY <1>9, <2>4
  <2> HIDE DEF l, one
  <2>9. Before(servers, s) = Before(servers, l) + servers[l]
    BY <1>1, <1>7, <2>5, BeforeNext
  <2>10. ElementsBelow(q, r, l) \in Nat
    <3>1. l \in 0 .. CommSize
      BY <1>1, <2>5
    <3> QED
      BY <1>8, <3>1
  <2>11. bytes * (ElementsBelow(q, r, l) + (q + one)) = bytes * ElementsBelow(q, r, l) + bytes * (q + one)
    BY <1>2, <2>5, <2>10
  <2> QED
    BY <2>2, <2>6, <2>7, <2>8, <2>9, <2>11
<1>11. ElementsBelow(q, r, CommSize) = e
  <2>1. CommSize * q = q * CommSize
    BY <1>1, <1>2
  <2> QED
    BY <1>1, <1>2, <1>5, <2>1 DEF ElementsBelow
<1>12. Before(servers, CommSize) = bytes * e
  BY <1>1, <1>10, <1>11
<1>13. ASSUME NEW s \in 0 .. CommSize - 1, Before(servers, s) < Before(servers, CommSize)
       PROVE  servers[s] > 0
  <2>1. SUFFICES ASSUME ~ (servers[s] > 0) PROVE FALSE
    OBVIOUS
  <2>2. servers[s] = bytes * (q + IF s < r THEN 1 ELSE 0)
    BY <1>6
  <2>3. q = 0 /\ ~ (s < r)
    <3>1. q + (IF s < r THEN 1 ELSE 0) \in Nat
      BY <1>2
    <3>2. ASSUME q + (IF s < r THEN 1 ELSE 0) > 0 PROVE FALSE
      <4> DEFINE n == q + (IF s < r THEN 1 ELSE 0)
      <4>1. n \in Nat \ {0} /\ servers[s] = bytes * n
        BY <2>2, <3>1, <3>2
      <4> HIDE DEF n
      <4>2. bytes * n > 0
        BY <4>1
      <4> QED
        BY <2>1, <4>1, <4>2
    <3> QED
      BY <1>2, <3>1, <3>2
  <2>4. ElementsBelow(q, r, s) = r /\ e = r
    BY <1>1, <1>2, <1>5, <2>3 DEF ElementsBelow
  <2>5. Before(servers, s) = bytes * e
    <3>1. s \in 0 .. CommSize
      BY <1>1
    <3> QED
      BY <1>10, <2>4, <3>1
  <2> QED
    BY <1>12, <1>13, <2>5
<1>14. Solid(servers, CommSize)
  BY <1>1, <1>7, <1>13 DEF Solid
<1> QED
  BY <1>12, <1>14 DEF servers
-----------------------------------------------------------------------------
(***************************************************************************)
(* The walk over the bytes of the field.                                   *)
(***************************************************************************)
Part ==
  [rank_runner : Nat, local_offset_runner : Nat,
   rank_server : Nat, local_offset_server : Nat, send_count : Nat]
WalkStates == [parts : Seq(Part) \ {<<>>}, index_in_runner : Nat, index_in_server : Nat]

LastPart(w) == w.parts[Len(w.parts)]
NextRunner(sizes, w) == AtBorder(w.index_in_runner, sizes[LastPart(w).rank_runner])
NextServer(servers, w) == AtBorder(w.index_in_server, servers[LastPart(w).rank_server])

(* The last part of the list is one.                                        *)
LEMMA LastOfWalk ==
  ASSUME NEW w \in WalkStates
  PROVE  /\ Len(w.parts) \in Nat \ {0} /\ Len(w.parts) \in DOMAIN w.parts
         /\ DOMAIN w.parts = 1 .. Len(w.parts)
         /\ w.parts \in Seq(Part) /\ LastPart(w) \in Part /\ Last(w.parts) = LastPart(w)
         /\ w.index_in_runner \in Nat /\ w.index_in_server \in Nat
<1>1. w.parts \in Seq(Part) /\ w.parts # <<>> /\ w.index_in_runner \in Nat /\ w.index_in_server \in Nat
  BY DEF WalkStates
<1>2. Len(w.parts) \in Nat /\ Len(w.parts) # 0 /\ DOMAIN w.parts = 1 .. Len(w.parts)
  BY <1>1
<1>3. w.parts[Len(w.parts)] \in Part
  BY <1>1, <1>2
<1> QED
  BY <1>1, <1>2, <1>3 DEF LastPart, Last

(* The fields of a part.                                                    *)
LEMMA FieldsOfPart ==
  ASSUME NEW p \in Part
  PROVE  /\ p.rank_runner \in Nat /\ p.local_offset_runner \in Nat
         /\ p.rank_server \in Nat /\ p.local_offset_server \in Nat /\ p.send_count \in Nat
BY DEF Part

(* The part of the next byte and its places in the blocks. *)
IndexInRunner(sizes, w) == IF NextRunner(sizes, w) THEN 0 ELSE w.index_in_runner
IndexInServer(servers, w) == IF NextServer(servers, w) THEN 0 ELSE w.index_in_server
NewPart(sizes, servers, w) ==
  [rank_runner |-> LastPart(w).rank_runner + IF NextRunner(sizes, w) THEN 1 ELSE 0,
   local_offset_runner |-> IndexInRunner(sizes, w),
   rank_server |-> LastPart(w).rank_server + IF NextServer(servers, w) THEN 1 ELSE 0,
   local_offset_server |-> IndexInServer(servers, w),
   send_count |-> 1]
GrownPart(w) == [LastPart(w) EXCEPT !.send_count = @ + 1]

(* A byte behind a border starts a part. *)
LEMMA NextByteStarts ==
  ASSUME NEW sizes, NEW servers, NEW w \in WalkStates, NextRunner(sizes, w) \/ NextServer(servers, w)
  PROVE  /\ NextByte(sizes, servers, w).parts = Append(w.parts, NewPart(sizes, servers, w))
         /\ NewPart(sizes, servers, w) \in Part
         /\ LastPart(NextByte(sizes, servers, w)) = NewPart(sizes, servers, w)
         /\ NextByte(sizes, servers, w).index_in_runner = IndexInRunner(sizes, w) + 1
         /\ NextByte(sizes, servers, w).index_in_server = IndexInServer(servers, w) + 1
         /\ NextByte(sizes, servers, w) \in WalkStates
<1> DEFINE v == NextByte(sizes, servers, w)
           runner == IndexInRunner(sizes, w)
           server == IndexInServer(servers, w)
           new == NewPart(sizes, servers, w)
<1>1. /\ w.parts \in Seq(Part) /\ LastPart(w) \in Part /\ Last(w.parts) = LastPart(w)
      /\ w.index_in_runner \in Nat /\ w.index_in_server \in Nat
  BY LastOfWalk
<1>2. v = [parts |-> Append(w.parts, new), index_in_runner |-> runner + 1, index_in_server |-> server + 1]
  BY <1>1 DEF NextByte, NextRunner, NextServer, NewPart, IndexInRunner, IndexInServer
<1>3. runner \in Nat /\ server \in Nat
  BY <1>1 DEF IndexInRunner, IndexInServer
<1>4. new \in Part
  <2>1. LastPart(w).rank_runner \in Nat /\ LastPart(w).rank_server \in Nat
    BY <1>1, FieldsOfPart
  <2> HIDE DEF runner, server
  <2> QED
    BY <1>3, <2>1 DEF Part, NewPart, runner, server
<1> HIDE DEF v, new, runner, server
<1>5. /\ Append(w.parts, new) \in Seq(Part) /\ Append(w.parts, new) # <<>>
      /\ Append(w.parts, new)[Len(Append(w.parts, new))] = new
  BY <1>1, <1>4
<1>6. v \in WalkStates
  BY <1>2, <1>3, <1>5 DEF WalkStates
<1>7. LastPart(v) = new
  BY <1>2, <1>5 DEF LastPart
<1>8. v.parts = Append(w.parts, new) /\ v.index_in_runner = runner + 1 /\ v.index_in_server = server + 1
  BY <1>2
<1> QED
  BY <1>4, <1>6, <1>7, <1>8 DEF v, new, runner, server

(* Another belongs to the last part. *)
LEMMA NextByteGrows ==
  ASSUME NEW sizes, NEW servers, NEW w \in WalkStates, ~ NextRunner(sizes, w), ~ NextServer(servers, w)
  PROVE  /\ NextByte(sizes, servers, w).parts = [w.parts EXCEPT ![Len(w.parts)] = GrownPart(w)]
         /\ GrownPart(w) \in Part
         /\ LastPart(NextByte(sizes, servers, w)) = GrownPart(w)
         /\ Len(NextByte(sizes, servers, w).parts) = Len(w.parts)
         /\ NextByte(sizes, servers, w).index_in_runner = w.index_in_runner + 1
         /\ NextByte(sizes, servers, w).index_in_server = w.index_in_server + 1
         /\ NextByte(sizes, servers, w) \in WalkStates
<1> DEFINE v == NextByte(sizes, servers, w)
           new == GrownPart(w)
           parts == [w.parts EXCEPT ![Len(w.parts)] = new]
<1>1. /\ w.parts \in Seq(Part) /\ LastPart(w) \in Part /\ Last(w.parts) = LastPart(w)
      /\ Len(w.parts) \in Nat \ {0} /\ Len(w.parts) \in DOMAIN w.parts
      /\ w.index_in_runner \in Nat /\ w.index_in_server \in Nat
  BY LastOfWalk
<1>2. [w.parts EXCEPT ![Len(w.parts)].send_count = @ + 1] = parts
  BY DEF LastPart, GrownPart
<1>3. v = [parts |-> parts, index_in_runner |-> w.index_in_runner + 1, index_in_server |-> w.index_in_server + 1]
  <2>1. v = [parts |-> [w.parts EXCEPT ![Len(w.parts)].send_count = @ + 1],
             index_in_runner |-> w.index_in_runner + 1, index_in_server |-> w.index_in_server + 1]
    BY <1>1 DEF NextByte, NextRunner, NextServer
  <2> QED
    BY <1>2, <2>1
<1>4. new \in Part
  <2> DEFINE last == LastPart(w)
  <2>1. last \in Part
    BY <1>1
  <2> HIDE DEF last
  <2>2. last.send_count + 1 \in Nat
    BY <2>1 DEF Part
  <2>3. [last EXCEPT !.send_count = @ + 1] \in Part
    BY <2>1, <2>2 DEF Part
  <2> QED
    BY <2>3 DEF last, GrownPart
<1> HIDE DEF new
<1>5. parts \in Seq(Part) /\ Len(parts) = Len(w.parts) /\ parts[Len(parts)] = new
  BY <1>1, <1>4, ExceptSeq
<1>6. parts # <<>>
  BY <1>1, <1>5
<1> HIDE DEF v, parts
<1>7. v \in WalkStates
  BY <1>1, <1>3, <1>5, <1>6 DEF WalkStates
<1>8. v.parts = parts /\ LastPart(v) = new
  BY <1>3, <1>5 DEF LastPart
<1>9. v.index_in_runner = w.index_in_runner + 1 /\ v.index_in_server = w.index_in_server + 1
  BY <1>3
<1> QED
  BY <1>4, <1>5, <1>7, <1>8, <1>9 DEF v, parts, new

(* In either case both sides move on. *)
LEMMA NextByteMoves ==
  ASSUME NEW sizes, NEW servers, NEW w \in WalkStates
  PROVE  /\ NextByte(sizes, servers, w).index_in_runner = IndexInRunner(sizes, w) + 1
         /\ NextByte(sizes, servers, w).index_in_server = IndexInServer(servers, w) + 1
<1>1. Last(w.parts) = LastPart(w)
  BY LastOfWalk
<1> QED
  BY <1>1 DEF NextByte, NextRunner, NextServer, IndexInRunner, IndexInServer

(* The ranks go on behind a border only. *)
LEMMA NextByteRanks ==
  ASSUME NEW sizes, NEW servers, NEW w \in WalkStates
  PROVE  /\ LastPart(NextByte(sizes, servers, w)).rank_runner =
              LastPart(w).rank_runner + IF NextRunner(sizes, w) THEN 1 ELSE 0
         /\ LastPart(NextByte(sizes, servers, w)).rank_server =
              LastPart(w).rank_server + IF NextServer(servers, w) THEN 1 ELSE 0
<1> DEFINE v == NextByte(sizes, servers, w)
           k == LastPart(w).rank_runner
           s == LastPart(w).rank_server
<1>1. LastPart(w) \in Part /\ k \in Nat /\ s \in Nat
  BY LastOfWalk, FieldsOfPart
<1>2. CASE NextRunner(sizes, w) \/ NextServer(servers, w)
  <2>1. LastPart(v) = NewPart(sizes, servers, w)
    BY <1>2, NextByteStarts
  <2> QED
    BY <2>1 DEF NewPart
<1>3. CASE ~ NextRunner(sizes, w) /\ ~ NextServer(servers, w)
  <2>1. LastPart(v) = GrownPart(w)
    BY <1>3, NextByteGrows
  <2>2. LastPart(v).rank_runner = k /\ LastPart(v).rank_server = s
    BY <1>1, <2>1 DEF GrownPart, Part
  <2> HIDE DEF v, k, s
  <2>3. /\ LastPart(v).rank_runner = k + IF NextRunner(sizes, w) THEN 1 ELSE 0
        /\ LastPart(v).rank_server = s + IF NextServer(servers, w) THEN 1 ELSE 0
    BY <1>1, <1>3, <2>2
  <2> QED
    BY <2>3 DEF v, k, s
<1> QED
  BY <1>2, <1>3

(* The walk keeps its type.                                                 *)
LEMMA NextByteTyped ==
  ASSUME NEW sizes, NEW servers, NEW w \in WalkStates
  PROVE  NextByte(sizes, servers, w) \in WalkStates
BY NextByteStarts, NextByteGrows

(* Before the first byte there is one part, which is empty.                 *)
LEMMA StartTyped ==
  Start \in WalkStates
<1> DEFINE first == [rank_runner |-> 0, local_offset_runner |-> 0,
                     rank_server |-> 0, local_offset_server |-> 0, send_count |-> 0]
<1>1. first \in Part
  BY DEF Part
<1>2. Start = [parts |-> <<first>>, index_in_runner |-> 0, index_in_server |-> 0]
  BY DEF Start
<1> HIDE DEF first
<1>3. <<first>> \in Seq(Part) /\ <<first>> # <<>>
  BY <1>1
<1> QED
  BY <1>2, <1>3 DEF WalkStates

WalkStep(sizes, servers) == [p \in Nat \X WalkStates |-> NextByte(sizes, servers, p[2])]

(* The steps of the walk as a function.                                     *)
LEMMA WalkStepTyped ==
  ASSUME NEW sizes, NEW servers
  PROVE  /\ WalkStep(sizes, servers) \in [Nat \X WalkStates -> WalkStates]
         /\ \A i \in Nat, w \in WalkStates : WalkStep(sizes, servers)[<<i, w>>] = NextByte(sizes, servers, w)
<1>1. \A p \in Nat \X WalkStates : NextByte(sizes, servers, p[2]) \in WalkStates
  BY NextByteTyped
<1> QED
  BY <1>1 DEF WalkStep

(* The walk follows NextByte from Start.                                    *)
LEMMA WalkFollows ==
  ASSUME NEW sizes, NEW servers, NEW n \in Nat
  PROVE  \E f : Follows(f, n, WalkStates, Start, WalkStep(sizes, servers)) /\ Walk(sizes, servers, n) = f[n]
<1> DEFINE step == WalkStep(sizes, servers)
           body(f) == [i \in 0 .. n |-> IF i = 0 THEN Start ELSE NextByte(sizes, servers, f[i - 1])]
           walk == CHOOSE f : f = body(f)
<1>1. Walk(sizes, servers, n) = walk[n]
  BY DEF Walk
<1>2. /\ step \in [Nat \X WalkStates -> WalkStates]
      /\ \A i \in Nat, w \in WalkStates : step[<<i, w>>] = NextByte(sizes, servers, w)
  BY WalkStepTyped
<1> HIDE DEF step
<1>3. PICK f : Follows(f, n, WalkStates, Start, step)
  BY <1>2, StartTyped, SomeFollows
<1>4. f = body(f)
  <2>1. f = [i \in 0 .. n |-> f[i]] /\ f[0] = Start
    BY <1>3 DEF Follows
  <2>2. ASSUME NEW i \in 1 .. n PROVE f[i] = NextByte(sizes, servers, f[i - 1])
    <3>1. i - 1 \in 0 .. n /\ i \in Nat
      OBVIOUS
    <3>2. f[i - 1] \in WalkStates /\ f[i] = step[<<i, f[i - 1]>>]
      BY <1>3, <3>1 DEF Follows
    <3> QED
      BY <1>2, <3>1, <3>2
  <2>3. ASSUME NEW i \in 0 .. n PROVE f[i] = IF i = 0 THEN Start ELSE NextByte(sizes, servers, f[i - 1])
    <3>1. i = 0 \/ i \in 1 .. n
      OBVIOUS
    <3> QED
      BY <2>1, <2>2, <3>1
  <2> QED
    BY <2>1, <2>3
<1>5. walk = body(walk)
  BY <1>4
<1> HIDE DEF walk
<1>6. walk = [i \in 0 .. n |-> walk[i]]
  BY <1>5
<1>7. walk[0] = Start /\ \A i \in 1 .. n : walk[i] = NextByte(sizes, servers, walk[i - 1])
  BY <1>5
<1>8. \A i \in 0 .. n : walk[i] \in WalkStates
  <2> DEFINE Bad == {i \in Nat : i <= n /\ walk[i] \notin WalkStates}
  <2>1. SUFFICES ASSUME Bad # {} PROVE FALSE
    OBVIOUS
  <2>2. PICK i \in Bad : \A l \in Bad : i <= l
    BY <2>1, LeastNat
  <2>3. i # 0
    BY <1>7, <2>2, StartTyped
  <2>4. i - 1 \in Nat /\ i - 1 \notin Bad /\ i \in 1 .. n
    BY <2>2, <2>3
  <2>5. walk[i - 1] \in WalkStates
    BY <2>2, <2>4
  <2> QED
    BY <1>7, <2>2, <2>4, <2>5, NextByteTyped
<1>9. Follows(walk, n, WalkStates, Start, step)
  <2>1. walk \in [0 .. n -> WalkStates]
    BY <1>6, <1>8
  <2>2. ASSUME NEW i \in 1 .. n PROVE walk[i] = step[<<i, walk[i - 1]>>]
    <3>1. i - 1 \in 0 .. n /\ i \in Nat
      OBVIOUS
    <3> QED
      BY <1>2, <1>7, <1>8, <3>1
  <2> QED
    BY <1>7, <2>1, <2>2 DEF Follows
<1> QED
  BY <1>1, <1>9 DEF step

(* One byte more is NextByte.                                               *)
LEMMA WalkNext ==
  ASSUME NEW sizes, NEW servers, NEW n \in Nat
  PROVE  /\ Walk(sizes, servers, n) \in WalkStates
         /\ Walk(sizes, servers, n + 1) = NextByte(sizes, servers, Walk(sizes, servers, n))
<1> DEFINE step == WalkStep(sizes, servers)
<1>1. PICK f : Follows(f, n, WalkStates, Start, step) /\ Walk(sizes, servers, n) = f[n]
  BY WalkFollows
<1>2. PICK g : Follows(g, n + 1, WalkStates, Start, step) /\ Walk(sizes, servers, n + 1) = g[n + 1]
  <2>1. n + 1 \in Nat
    OBVIOUS
  <2> QED
    BY <2>1, WalkFollows
<1>3. \A i \in Nat, w \in WalkStates : step[<<i, w>>] = NextByte(sizes, servers, w)
  BY WalkStepTyped
<1> HIDE DEF step
<1>4. f[n] = g[n]
  <2>1. n + 1 \in Nat /\ n <= n + 1 /\ n <= n
    OBVIOUS
  <2>2. \A i \in Nat : i <= n /\ i <= n + 1 => f[i] = g[i]
    BY <1>1, <1>2, <2>1, SameFollows
  <2> QED
    BY <2>1, <2>2
<1>5. g[n] \in WalkStates /\ g[n + 1] = step[<<n + 1, g[n]>>] /\ n + 1 \in Nat
  <2>1. n \in 0 .. n + 1 /\ n + 1 \in 1 .. n + 1 /\ (n + 1) - 1 = n
    OBVIOUS
  <2> QED
    BY <1>2, <2>1 DEF Follows
<1> QED
  BY <1>1, <1>2, <1>3, <1>4, <1>5

(* No byte.                                                                 *)
LEMMA WalkZero ==
  ASSUME NEW sizes, NEW servers
  PROVE  Walk(sizes, servers, 0) = Start
<1>1. PICK f : /\ Follows(f, 0, WalkStates, Start, WalkStep(sizes, servers))
               /\ Walk(sizes, servers, 0) = f[0]
  BY WalkFollows
<1> QED
  BY <1>1 DEF Follows
-----------------------------------------------------------------------------
(***************************************************************************)
(* No pair of ranks has two parts.                                         *)
(***************************************************************************)
(* A part has ranks behind those of the parts before it. *)
Ascending(parts) ==
  \A i, j \in DOMAIN parts : i < j =>
    /\ parts[i].rank_runner <= parts[j].rank_runner
    /\ parts[i].rank_server <= parts[j].rank_server
    /\ parts[i].rank_runner < parts[j].rank_runner \/ parts[i].rank_server < parts[j].rank_server

(* A new part is behind the last one.                                       *)
LEMMA AscendingStep ==
  ASSUME NEW sizes, NEW servers, NEW w \in WalkStates, Ascending(w.parts)
  PROVE  Ascending(NextByte(sizes, servers, w).parts)
<1> DEFINE v == NextByte(sizes, servers, w)
           l == Len(w.parts)
<1>1. /\ w.parts \in Seq(Part) /\ LastPart(w) \in Part /\ LastPart(w) = w.parts[l]
      /\ l \in Nat \ {0} /\ DOMAIN w.parts = 1 .. l
  BY LastOfWalk DEF LastPart
<1>2. \A i \in 1 .. l : w.parts[i].rank_runner \in Nat /\ w.parts[i].rank_server \in Nat
  BY <1>1, FieldsOfPart
<1>3. CASE NextRunner(sizes, w) \/ NextServer(servers, w)
  <2> DEFINE a == IF NextRunner(sizes, w) THEN 1 ELSE 0
             c == IF NextServer(servers, w) THEN 1 ELSE 0
             new == NewPart(sizes, servers, w)
  <2>1. /\ v.parts = Append(w.parts, new)
        /\ new.rank_runner = LastPart(w).rank_runner + a
        /\ new.rank_server = LastPart(w).rank_server + c
    <3>1. v.parts = Append(w.parts, new)
      BY <1>3, NextByteStarts
    <3>2. /\ new.rank_runner = LastPart(w).rank_runner + a
          /\ new.rank_server = LastPart(w).rank_server + c
      BY DEF NewPart
    <3> QED
      BY <3>1, <3>2
  <2>2. a \in Nat /\ c \in Nat /\ (a > 0 \/ c > 0)
    BY <1>3
  <2> HIDE DEF v, new, a, c
  <2>3. /\ DOMAIN v.parts = 1 .. l + 1 /\ v.parts[l + 1] = new
        /\ \A i \in 1 .. l : v.parts[i] = w.parts[i]
    BY <1>1, <2>1
  <2>4. /\ LastPart(w).rank_runner \in Nat /\ LastPart(w).rank_server \in Nat
        /\ new.rank_runner >= LastPart(w).rank_runner /\ new.rank_server >= LastPart(w).rank_server
        /\ new.rank_runner > LastPart(w).rank_runner \/ new.rank_server > LastPart(w).rank_server
        /\ new.rank_runner \in Nat /\ new.rank_server \in Nat
    <3>1. l \in 1 .. l
      BY <1>1
    <3>2. LastPart(w).rank_runner \in Nat /\ LastPart(w).rank_server \in Nat
      BY <1>1, <1>2, <3>1
    <3> QED
      BY <2>1, <2>2, <3>2
  <2>5. ASSUME NEW i \in DOMAIN v.parts, NEW j \in DOMAIN v.parts, i < j
        PROVE  /\ v.parts[i].rank_runner <= v.parts[j].rank_runner
               /\ v.parts[i].rank_server <= v.parts[j].rank_server
               /\ \/ v.parts[i].rank_runner < v.parts[j].rank_runner
                  \/ v.parts[i].rank_server < v.parts[j].rank_server
    <3>1. i \in 1 .. l /\ j \in 1 .. l + 1
      BY <1>1, <2>3, <2>5
    <3>2. CASE j \in 1 .. l
      BY <1>1, <2>3, <2>5, <3>1, <3>2 DEF Ascending
    <3>3. CASE j = l + 1
      <4>1. v.parts[j] = new /\ v.parts[i] = w.parts[i]
        BY <2>3, <3>1, <3>3
      <4>2. /\ w.parts[i].rank_runner \in Nat /\ w.parts[i].rank_server \in Nat
            /\ w.parts[i].rank_runner <= LastPart(w).rank_runner
            /\ w.parts[i].rank_server <= LastPart(w).rank_server
        <5>1. CASE i = l
          BY <1>1, <1>2, <3>1, <5>1
        <5>2. CASE i # l
          <6>1. i < l /\ l \in 1 .. l
            BY <1>1, <3>1, <5>2
          <6> QED
            BY <1>1, <1>2, <3>1, <6>1 DEF Ascending
        <5> QED
          BY <5>1, <5>2
      <4> QED
        BY <2>4, <4>1, <4>2
    <3> QED
      BY <1>1, <3>1, <3>2, <3>3
  <2>6. Ascending(v.parts)
    BY <2>5 DEF Ascending
  <2> QED
    BY <2>6 DEF v
<1>4. CASE ~ NextRunner(sizes, w) /\ ~ NextServer(servers, w)
  <2> DEFINE new == GrownPart(w)
  <2>1. v.parts = [w.parts EXCEPT ![l] = new] /\ new = [LastPart(w) EXCEPT !.send_count = @ + 1]
    BY <1>4, NextByteGrows DEF GrownPart
  <2> HIDE DEF v, new
  <2>2. new.rank_runner = w.parts[l].rank_runner /\ new.rank_server = w.parts[l].rank_server
    BY <1>1, <2>1 DEF Part
  <2>3. DOMAIN v.parts = 1 .. l
    BY <1>1, <2>1
  <2>4. \A i \in 1 .. l : /\ v.parts[i].rank_runner = w.parts[i].rank_runner
                          /\ v.parts[i].rank_server = w.parts[i].rank_server
    BY <1>1, <2>1, <2>2
  <2>5. Ascending(v.parts)
    BY <1>1, <2>3, <2>4 DEF Ascending
  <2> QED
    BY <2>5 DEF v
<1> QED
  BY <1>3, <1>4

(* The parts ascend, whatever the blocks are.                               *)
LEMMA WalkAscending ==
  ASSUME NEW sizes, NEW servers, NEW n \in Nat
  PROVE  Ascending(Walk(sizes, servers, n).parts)
<1> DEFINE Bad == {i \in Nat : ~ Ascending(Walk(sizes, servers, i).parts)}
<1>1. SUFFICES ASSUME Bad # {} PROVE FALSE
  OBVIOUS
<1>2. PICK i \in Bad : \A l \in Bad : i <= l
  BY <1>1, LeastNat
<1>3. i # 0
  <2>1. Ascending(Start.parts)
    BY DEF Ascending, Start
  <2> QED
    BY <1>2, <2>1, WalkZero
<1>4. i - 1 \in Nat /\ i - 1 \notin Bad /\ (i - 1) + 1 = i
  BY <1>2, <1>3
<1>5. Ascending(Walk(sizes, servers, i - 1).parts)
  BY <1>4
<1>6. /\ Walk(sizes, servers, i - 1) \in WalkStates
      /\ Walk(sizes, servers, (i - 1) + 1) = NextByte(sizes, servers, Walk(sizes, servers, i - 1))
  BY <1>4, WalkNext
<1>7. Ascending(Walk(sizes, servers, i).parts)
  BY <1>4, <1>5, <1>6, AscendingStep
<1> QED
  BY <1>2, <1>7

(* What both sides calculate is a sequence of parts in which a pair of     *)
(* ranks has no more than one.                                             *)
OnePerPair(parts) ==
  \A i, j \in DOMAIN parts :
    parts[i].rank_runner = parts[j].rank_runner /\ parts[i].rank_server = parts[j].rank_server => i = j

LEMMA ListOfParts ==
  ASSUME NEW sizes \in [RunnerRanks -> Nat], NEW bytes
  PROVE  /\ calculate_n_to_m(sizes, bytes) \in Seq(Part)
         /\ OnePerPair(calculate_n_to_m(sizes, bytes))
<1> DEFINE total == sum_vec(sizes)
           servers == calculate_local_vect_sizes_server(total, bytes)
           parts == calculate_n_to_m(sizes, bytes)
<1>1. total \in Nat
  <2>1. RunnerSize \in Nat /\ RunnerSize \in 0 .. RunnerSize
    BY FieldAssumption
  <2>2. sizes \in [0 .. RunnerSize - 1 -> Nat]
    BY DEF RunnerRanks
  <2> QED
    BY <2>1, <2>2, BeforeNat DEF sum_vec, Before
<1>2. CASE total = 0
  <2>1. parts = <<>>
    BY <1>2 DEF calculate_n_to_m
  <2> QED
    BY <2>1 DEF OnePerPair
<1>3. CASE total # 0
  <2>1. parts = Walk(sizes, servers, total).parts
    BY <1>3 DEF calculate_n_to_m
  <2>2. Walk(sizes, servers, total) \in WalkStates /\ Ascending(Walk(sizes, servers, total).parts)
    BY <1>1, WalkNext, WalkAscending
  <2> HIDE DEF parts, total, servers
  <2>3. parts \in Seq(Part) /\ Ascending(parts)
    BY <2>1, <2>2, LastOfWalk
  <2>4. DOMAIN parts = 1 .. Len(parts) /\ Len(parts) \in Nat
    BY <2>3
  <2>5. \A i \in DOMAIN parts : parts[i].rank_runner \in Nat /\ parts[i].rank_server \in Nat
    <3>1. \A i \in DOMAIN parts : parts[i] \in Part
      BY <2>3, <2>4
    <3> QED
      BY <3>1, FieldsOfPart
  <2>6. ASSUME NEW i \in DOMAIN parts, NEW j \in DOMAIN parts,
               parts[i].rank_runner = parts[j].rank_runner, parts[i].rank_server = parts[j].rank_server
        PROVE  i = j
    <3>1. ~ (i < j) /\ ~ (j < i)
      BY <2>3, <2>5, <2>6 DEF Ascending
    <3> QED
      BY <2>4, <3>1
  <2> QED
    BY <2>3, <2>6 DEF OnePerPair, parts
<1> QED
  BY <1>2, <1>3
-----------------------------------------------------------------------------
(***************************************************************************)
(* The parts are what the blocks of the two sides have in common.          *)
(***************************************************************************)
From(sizes, servers, k, s) ==
  IF Before(sizes, k) >= Before(servers, s) THEN Before(sizes, k) ELSE Before(servers, s)
To(sizes, servers, k, s) ==
  IF Before(sizes, k) + sizes[k] <= Before(servers, s) + servers[s]
  THEN Before(sizes, k) + sizes[k] ELSE Before(servers, s) + servers[s]

(* What the first n bytes of the field contribute to a pair of ranks.      *)
Overlap(sizes, servers, k, s, n) ==
  [rank_runner |-> k,
   local_offset_runner |-> From(sizes, servers, k, s) - Before(sizes, k),
   rank_server |-> s,
   local_offset_server |-> From(sizes, servers, k, s) - Before(servers, s),
   send_count |-> (IF To(sizes, servers, k, s) <= n THEN To(sizes, servers, k, s) ELSE n)
                  - From(sizes, servers, k, s)]

Begun(sizes, servers, k, s, n) ==
  /\ k \in RunnerRanks /\ s \in ServerRanks
  /\ From(sizes, servers, k, s) < To(sizes, servers, k, s)
  /\ From(sizes, servers, k, s) < n

(* The blocks of both sides, of the same length together. *)
TwoSides(sizes, servers) ==
  /\ Solid(sizes, RunnerSize) /\ Solid(servers, CommSize)
  /\ Before(sizes, RunnerSize) = Before(servers, CommSize)

Precise(sizes, servers, w, n) ==
  /\ w \in WalkStates
  /\ Reached(sizes, RunnerSize, n, LastPart(w).rank_runner, w.index_in_runner)
  /\ Reached(servers, CommSize, n, LastPart(w).rank_server, w.index_in_server)
  /\ \A i \in DOMAIN w.parts :
       LET p == w.parts[i] IN
       /\ Begun(sizes, servers, p.rank_runner, p.rank_server, n)
       /\ p = Overlap(sizes, servers, p.rank_runner, p.rank_server, n)
  /\ \A k \in RunnerRanks, s \in ServerRanks :
       Begun(sizes, servers, k, s, n) =>
         \E i \in DOMAIN w.parts : w.parts[i].rank_runner = k /\ w.parts[i].rank_server = s

(* The ends of overlaps are natural numbers.                                *)
LEMMA Ends ==
  ASSUME NEW sizes, NEW servers, TwoSides(sizes, servers), NEW k \in RunnerRanks, NEW s \in ServerRanks
  PROVE  /\ Before(sizes, k) \in Nat /\ sizes[k] \in Nat
         /\ Before(servers, s) \in Nat /\ servers[s] \in Nat
         /\ From(sizes, servers, k, s) \in Nat /\ To(sizes, servers, k, s) \in Nat
<1>1. /\ k \in 0 .. RunnerSize - 1 /\ sizes \in [0 .. RunnerSize - 1 -> Nat] /\ RunnerSize \in Nat
      /\ s \in 0 .. CommSize - 1 /\ servers \in [0 .. CommSize - 1 -> Nat] /\ CommSize \in Nat
  BY DEF TwoSides, Solid, RunnerRanks, ServerRanks
<1>2. Before(sizes, k) \in Nat /\ Before(servers, s) \in Nat
  BY <1>1, BeforeNext
<1>3. sizes[k] \in Nat /\ servers[s] \in Nat
  BY <1>1
<1> QED
  BY <1>2, <1>3 DEF From, To

(* Byte n, the one after the first n, is in the blocks of a single pair.   *)
LEMMA OnePair ==
  ASSUME NEW sizes, NEW servers, TwoSides(sizes, servers), NEW n \in Nat,
         NEW K \in RunnerRanks, NEW S \in ServerRanks,
         Before(sizes, K) <= n, n < Before(sizes, K) + sizes[K],
         Before(servers, S) <= n, n < Before(servers, S) + servers[S],
         NEW k \in RunnerRanks, NEW s \in ServerRanks,
         From(sizes, servers, k, s) <= n, n < To(sizes, servers, k, s)
  PROVE  k = K /\ s = S
<1>1. /\ k \in 0 .. RunnerSize - 1 /\ K \in 0 .. RunnerSize - 1
      /\ sizes \in [0 .. RunnerSize - 1 -> Nat] /\ RunnerSize \in Nat
      /\ s \in 0 .. CommSize - 1 /\ S \in 0 .. CommSize - 1
      /\ servers \in [0 .. CommSize - 1 -> Nat] /\ CommSize \in Nat
  BY DEF TwoSides, Solid, RunnerRanks, ServerRanks
<1>2. /\ Before(sizes, k) \in Nat /\ sizes[k] \in Nat
      /\ Before(servers, s) \in Nat /\ servers[s] \in Nat
  BY Ends
<1>3. Before(sizes, k) <= n /\ n < Before(sizes, k) + sizes[k]
  BY <1>2 DEF From, To
<1>4. Before(servers, s) <= n /\ n < Before(servers, s) + servers[s]
  BY <1>2 DEF From, To
<1>5. k = K
  BY <1>1, <1>3, OneBlock
<1>6. s = S
  BY <1>1, <1>4, OneBlock
<1> QED
  BY <1>5, <1>6

(* Another pair of ranks gets nothing of byte n. *)
LEMMA OtherPairs ==
  ASSUME NEW sizes, NEW servers, TwoSides(sizes, servers), NEW n \in Nat,
         NEW K \in RunnerRanks, NEW S \in ServerRanks,
         Before(sizes, K) <= n, n < Before(sizes, K) + sizes[K],
         Before(servers, S) <= n, n < Before(servers, S) + servers[S],
         NEW k \in RunnerRanks, NEW s \in ServerRanks, k # K \/ s # S
  PROVE  /\ Begun(sizes, servers, k, s, n + 1) <=> Begun(sizes, servers, k, s, n)
         /\ Begun(sizes, servers, k, s, n) =>
              Overlap(sizes, servers, k, s, n + 1) = Overlap(sizes, servers, k, s, n)
<1> DEFINE f == From(sizes, servers, k, s)
           t == To(sizes, servers, k, s)
<1>1. f \in Nat /\ t \in Nat
  BY Ends
<1>2. ~ (f <= n /\ n < t)
  BY OnePair
<1>3. Begun(sizes, servers, k, s, n + 1) <=> f < t /\ f < n + 1
  BY DEF Begun
<1>4. Begun(sizes, servers, k, s, n) <=> f < t /\ f < n
  BY DEF Begun
<1>5. ASSUME t <= n PROVE Overlap(sizes, servers, k, s, n + 1) = Overlap(sizes, servers, k, s, n)
  <2>1. t <= n + 1
    BY <1>1, <1>5
  <2> QED
    BY <1>5, <2>1 DEF Overlap
<1> HIDE DEF f, t
<1> QED
  BY <1>1, <1>2, <1>3, <1>4, <1>5

(* The first byte is the first of the first overlap.                        *)
LEMMA PreciseFirst ==
  ASSUME NEW sizes, NEW servers, TwoSides(sizes, servers), Before(sizes, RunnerSize) > 0
  PROVE  Precise(sizes, servers, Walk(sizes, servers, 1), 1)
<1> DEFINE w == Walk(sizes, servers, 1)
           first == [rank_runner |-> 0, local_offset_runner |-> 0,
                     rank_server |-> 0, local_offset_server |-> 0, send_count |-> 1]
<1>1. w = NextByte(sizes, servers, Start) /\ Start \in WalkStates
  <2>1. 0 \in Nat /\ 0 + 1 = 1
    OBVIOUS
  <2> QED
    BY <2>1, WalkNext, WalkZero, StartTyped
<1>2. /\ Reached(sizes, RunnerSize, 1, 0, 1) /\ sizes[0] > 0
      /\ Reached(servers, CommSize, 1, 0, 1) /\ servers[0] > 0
  BY ReachedFirst DEF TwoSides
<1>3. 0 \in RunnerRanks /\ 0 \in ServerRanks
  BY <1>2 DEF Reached, RunnerRanks, ServerRanks
<1>4. /\ Before(sizes, 0) \in Nat /\ sizes[0] \in Nat /\ Before(servers, 0) \in Nat /\ servers[0] \in Nat
  BY <1>3, Ends
<1>5. Before(sizes, 0) = 0 /\ Before(servers, 0) = 0
  BY <1>2, <1>4 DEF Reached
<1>6. /\ LastPart(Start).rank_runner = 0 /\ LastPart(Start).rank_server = 0
      /\ Start.index_in_runner = 0 /\ Start.index_in_server = 0
      /\ Len(Start.parts) = 1 /\ GrownPart(Start) = first
  BY DEF Start, LastPart, GrownPart
<1>7. ~ NextRunner(sizes, Start) /\ ~ NextServer(servers, Start)
  BY <1>2, <1>4, <1>6 DEF NextRunner, NextServer, AtBorder
<1>8. /\ w.parts = [Start.parts EXCEPT ![1] = first] /\ LastPart(w) = first
      /\ w.index_in_runner = 1 /\ w.index_in_server = 1 /\ w \in WalkStates
  <2>1. /\ w.parts = [Start.parts EXCEPT ![Len(Start.parts)] = GrownPart(Start)]
        /\ LastPart(w) = GrownPart(Start) /\ w \in WalkStates
        /\ w.index_in_runner = Start.index_in_runner + 1
        /\ w.index_in_server = Start.index_in_server + 1
    BY <1>1, <1>7, NextByteGrows
  <2> HIDE DEF w, first
  <2> QED
    BY <1>6, <2>1
<1>9. DOMAIN w.parts = {1} /\ w.parts[1] = first
  BY <1>8 DEF Start
<1> HIDE DEF w
<1>10. first = Overlap(sizes, servers, 0, 0, 1) /\ Begun(sizes, servers, 0, 0, 1)
  <2>1. From(sizes, servers, 0, 0) = 0
    BY <1>5 DEF From
  <2>2. To(sizes, servers, 0, 0) >= 1 /\ To(sizes, servers, 0, 0) \in Nat
    BY <1>2, <1>4, <1>5 DEF To
  <2>3. (IF To(sizes, servers, 0, 0) <= 1 THEN To(sizes, servers, 0, 0) ELSE 1) = 1
    BY <2>2
  <2>4. Overlap(sizes, servers, 0, 0, 1) = first
    BY <1>5, <2>1, <2>3 DEF Overlap
  <2> QED
    BY <1>3, <2>1, <2>2, <2>4 DEF Begun
<1>11. ASSUME NEW k \in RunnerRanks, NEW s \in ServerRanks, Begun(sizes, servers, k, s, 1)
       PROVE  \E i \in DOMAIN w.parts : w.parts[i].rank_runner = k /\ w.parts[i].rank_server = s
  <2>1. From(sizes, servers, k, s) \in Nat /\ To(sizes, servers, k, s) \in Nat
    BY Ends
  <2>2. From(sizes, servers, k, s) <= 0 /\ 0 < To(sizes, servers, k, s)
    BY <1>11, <2>1 DEF Begun
  <2>3. k = 0 /\ s = 0
    BY <1>2, <1>3, <1>4, <1>5, <2>2, OnePair
  <2> QED
    BY <1>9, <2>3
<1>12. Precise(sizes, servers, w, 1)
  BY <1>2, <1>8, <1>9, <1>10, <1>11 DEF Precise
<1> QED
  BY <1>12 DEF w
(* Where byte n is: in the blocks of the last part, which it may start.    *)
LEMMA PlaceOfNext ==
  ASSUME NEW sizes, NEW servers, TwoSides(sizes, servers), NEW n \in Nat, n < Before(sizes, RunnerSize),
         NEW w, Precise(sizes, servers, w, n)
  PROVE  LET v == NextByte(sizes, servers, w)
             K == LastPart(v).rank_runner
             S == LastPart(v).rank_server
         IN /\ Reached(sizes, RunnerSize, n + 1, K, v.index_in_runner)
            /\ Reached(servers, CommSize, n + 1, S, v.index_in_server)
            /\ NextRunner(sizes, w) => n = Before(sizes, K)
            /\ NextServer(servers, w) => n = Before(servers, S)
            /\ ~ NextRunner(sizes, w) =>
                 K = LastPart(w).rank_runner /\ w.index_in_runner = n - Before(sizes, K)
            /\ ~ NextServer(servers, w) =>
                 S = LastPart(w).rank_server /\ w.index_in_server = n - Before(servers, S)
<1> DEFINE v == NextByte(sizes, servers, w)
           K == LastPart(v).rank_runner
           S == LastPart(v).rank_server
           k == LastPart(w).rank_runner
           s == LastPart(w).rank_server
<1>1. /\ w \in WalkStates
      /\ Reached(sizes, RunnerSize, n, k, w.index_in_runner)
      /\ Reached(servers, CommSize, n, s, w.index_in_server)
  BY DEF Precise
<1>2. k \in RunnerRanks /\ s \in ServerRanks
  BY <1>1 DEF Reached, RunnerRanks, ServerRanks
<1>3. Before(sizes, k) \in Nat /\ Before(servers, s) \in Nat /\ sizes[k] \in Nat /\ servers[s] \in Nat
  BY <1>2, Ends
<1>4. k \in Nat /\ s \in Nat /\ w.index_in_runner \in Nat /\ w.index_in_server \in Nat
  BY <1>1, <1>3 DEF Reached
<1>5. w.index_in_runner = n - Before(sizes, k) /\ w.index_in_server = n - Before(servers, s)
  BY <1>1, <1>3, <1>4 DEF Reached
<1>6. /\ NextRunner(sizes, w) => Reached(sizes, RunnerSize, n + 1, k + 1, 1) /\ n = Before(sizes, k + 1)
      /\ ~ NextRunner(sizes, w) => Reached(sizes, RunnerSize, n + 1, k, w.index_in_runner + 1)
  BY <1>1, ReachedNext DEF NextRunner, TwoSides
<1>7. /\ NextServer(servers, w) => Reached(servers, CommSize, n + 1, s + 1, 1) /\ n = Before(servers, s + 1)
      /\ ~ NextServer(servers, w) => Reached(servers, CommSize, n + 1, s, w.index_in_server + 1)
  BY <1>1, ReachedNext DEF NextServer, TwoSides
<1>8. /\ NextRunner(sizes, w) => K = k + 1 /\ v.index_in_runner = 1
      /\ ~ NextRunner(sizes, w) => K = k /\ v.index_in_runner = w.index_in_runner + 1
      /\ NextServer(servers, w) => S = s + 1 /\ v.index_in_server = 1
      /\ ~ NextServer(servers, w) => S = s /\ v.index_in_server = w.index_in_server + 1
  <2>1. /\ v.index_in_runner = IndexInRunner(sizes, w) + 1
        /\ v.index_in_server = IndexInServer(servers, w) + 1
    BY <1>1, NextByteMoves
  <2>2. /\ K = k + IF NextRunner(sizes, w) THEN 1 ELSE 0
        /\ S = s + IF NextServer(servers, w) THEN 1 ELSE 0
    BY <1>1, NextByteRanks
  <2> HIDE DEF v, K, S, k, s
  <2> QED
    BY <1>4, <2>1, <2>2 DEF IndexInRunner, IndexInServer
<1> HIDE DEF v, K, S, k, s
<1>9. Reached(sizes, RunnerSize, n + 1, K, v.index_in_runner)
  BY <1>6, <1>8
<1>10. Reached(servers, CommSize, n + 1, S, v.index_in_server)
  BY <1>7, <1>8
<1>11. /\ NextRunner(sizes, w) => n = Before(sizes, K)
       /\ NextServer(servers, w) => n = Before(servers, S)
  BY <1>6, <1>7, <1>8
<1>12. /\ ~ NextRunner(sizes, w) => K = k /\ w.index_in_runner = n - Before(sizes, K)
       /\ ~ NextServer(servers, w) => S = s /\ w.index_in_server = n - Before(servers, S)
  BY <1>5, <1>8
<1> QED
  BY <1>9, <1>10, <1>11, <1>12 DEF v, K, S, k, s

(* The next byte belongs to the last part, or to a part of its own.         *)
LEMMA PreciseNext ==
  ASSUME NEW sizes, NEW servers, TwoSides(sizes, servers), NEW n \in Nat, n < Before(sizes, RunnerSize),
         NEW w, Precise(sizes, servers, w, n), Ascending(w.parts)
  PROVE  Precise(sizes, servers, NextByte(sizes, servers, w), n + 1)
<1> DEFINE v == NextByte(sizes, servers, w)
           K == LastPart(v).rank_runner
           S == LastPart(v).rank_server
           l == Len(w.parts)
<1>1. w \in WalkStates /\ v \in WalkStates
  BY NextByteTyped DEF Precise
<1>2. /\ w.parts \in Seq(Part) /\ l \in Nat \ {0} /\ DOMAIN w.parts = 1 .. l
      /\ LastPart(w) = w.parts[l] /\ LastPart(w) \in Part
  BY <1>1, LastOfWalk DEF LastPart
<1>3. /\ Reached(sizes, RunnerSize, n + 1, K, v.index_in_runner)
      /\ Reached(servers, CommSize, n + 1, S, v.index_in_server)
      /\ NextRunner(sizes, w) => n = Before(sizes, K)
      /\ NextServer(servers, w) => n = Before(servers, S)
      /\ ~ NextRunner(sizes, w) => K = LastPart(w).rank_runner /\ w.index_in_runner = n - Before(sizes, K)
      /\ ~ NextServer(servers, w) => S = LastPart(w).rank_server /\ w.index_in_server = n - Before(servers, S)
  BY PlaceOfNext
<1>4. K \in RunnerRanks /\ S \in ServerRanks
  BY <1>3 DEF Reached, RunnerRanks, ServerRanks
<1>5. /\ Before(sizes, K) \in Nat /\ sizes[K] \in Nat /\ Before(servers, S) \in Nat /\ servers[S] \in Nat
  BY <1>4, Ends
<1>6. /\ Before(sizes, K) <= n /\ n < Before(sizes, K) + sizes[K]
      /\ Before(servers, S) <= n /\ n < Before(servers, S) + servers[S]
  BY <1>3, <1>5 DEF Reached
<1>7. /\ From(sizes, servers, K, S) \in Nat /\ From(sizes, servers, K, S) <= n
      /\ To(sizes, servers, K, S) \in Nat /\ n + 1 <= To(sizes, servers, K, S)
  BY <1>5, <1>6 DEF From, To
<1>8. \A k \in RunnerRanks, s \in ServerRanks : k # K \/ s # S =>
        /\ Begun(sizes, servers, k, s, n + 1) <=> Begun(sizes, servers, k, s, n)
        /\ Begun(sizes, servers, k, s, n) =>
             Overlap(sizes, servers, k, s, n + 1) = Overlap(sizes, servers, k, s, n)
  BY <1>4, <1>6, OtherPairs
<1>9. \A i \in 1 .. l :
        /\ Begun(sizes, servers, w.parts[i].rank_runner, w.parts[i].rank_server, n)
        /\ w.parts[i] = Overlap(sizes, servers, w.parts[i].rank_runner, w.parts[i].rank_server, n)
        /\ w.parts[i].rank_runner \in RunnerRanks /\ w.parts[i].rank_server \in ServerRanks
  BY <1>2 DEF Precise, Begun
<1>10. \A k \in RunnerRanks, s \in ServerRanks : Begun(sizes, servers, k, s, n) =>
         \E i \in 1 .. l : w.parts[i].rank_runner = k /\ w.parts[i].rank_server = s
  BY <1>2 DEF Precise
<1>11. Begun(sizes, servers, K, S, n + 1)
  BY <1>4, <1>7 DEF Begun
<1>12. (IF To(sizes, servers, K, S) <= n + 1 THEN To(sizes, servers, K, S) ELSE n + 1) = n + 1
  BY <1>7
<1>13. CASE NextRunner(sizes, w) \/ NextServer(servers, w)
  <2>1. v.parts = Append(w.parts, LastPart(v)) /\ LastPart(v) = NewPart(sizes, servers, w)
    BY <1>1, <1>13, NextByteStarts
  <2>2. From(sizes, servers, K, S) = n
    BY <1>3, <1>5, <1>6, <1>13 DEF From
  <2>3. /\ IndexInRunner(sizes, w) = n - Before(sizes, K)
        /\ IndexInServer(servers, w) = n - Before(servers, S)
    BY <1>3, <1>5 DEF IndexInRunner, IndexInServer
  <2>4. LastPart(v) = Overlap(sizes, servers, K, S, n + 1)
    <3>1. LastPart(v) = [rank_runner |-> K, local_offset_runner |-> n - Before(sizes, K),
                         rank_server |-> S, local_offset_server |-> n - Before(servers, S), send_count |-> 1]
      BY <2>1, <2>3 DEF NewPart
    <3>2. (n + 1) - n = 1
      OBVIOUS
    <3> QED
      BY <1>12, <2>2, <3>1, <3>2 DEF Overlap
  <2> DEFINE new == LastPart(v)
  <2>5. new.rank_runner = K /\ new.rank_server = S /\ new = Overlap(sizes, servers, K, S, n + 1)
    BY <2>4
  <2> HIDE DEF v, K, S, new, l
  <2>6. /\ DOMAIN v.parts = 1 .. l + 1 /\ v.parts[l + 1] = new
        /\ \A i \in 1 .. l : v.parts[i] = w.parts[i]
    BY <1>2, <2>1 DEF l, new
  <2>7. ASSUME NEW i \in 1 .. l
        PROVE  w.parts[i].rank_runner # K \/ w.parts[i].rank_server # S
    BY <1>7, <1>9, <2>2 DEF Begun
  <2>8. ASSUME NEW i \in DOMAIN v.parts
        PROVE  /\ Begun(sizes, servers, v.parts[i].rank_runner, v.parts[i].rank_server, n + 1)
               /\ v.parts[i] = Overlap(sizes, servers, v.parts[i].rank_runner, v.parts[i].rank_server, n + 1)
    <3>1. CASE i = l + 1
      BY <1>11, <2>5, <2>6, <3>1
    <3>2. CASE i # l + 1
      <4>1. i \in 1 .. l
        BY <1>2, <2>6, <3>2 DEF l
      <4>2. v.parts[i] = w.parts[i]
        BY <2>6, <4>1
      <4> DEFINE k == w.parts[i].rank_runner
                 s == w.parts[i].rank_server
      <4>3. /\ k \in RunnerRanks /\ s \in ServerRanks /\ Begun(sizes, servers, k, s, n)
            /\ w.parts[i] = Overlap(sizes, servers, k, s, n) /\ (k # K \/ s # S)
        BY <1>9, <2>7, <4>1
      <4> HIDE DEF k, s
      <4>4. Begun(sizes, servers, k, s, n + 1) /\ w.parts[i] = Overlap(sizes, servers, k, s, n + 1)
        BY <1>8, <4>3
      <4> QED
        BY <4>2, <4>4 DEF k, s
    <3> QED
      BY <3>1, <3>2
  <2>9. ASSUME NEW k \in RunnerRanks, NEW s \in ServerRanks, Begun(sizes, servers, k, s, n + 1)
        PROVE  \E i \in DOMAIN v.parts : v.parts[i].rank_runner = k /\ v.parts[i].rank_server = s
    <3>1. CASE k = K /\ s = S
      <4>1. l + 1 \in DOMAIN v.parts
        BY <1>2, <2>6 DEF l
      <4> QED
        BY <2>5, <2>6, <3>1, <4>1
    <3>2. CASE k # K \/ s # S
      <4>1. PICK i \in 1 .. l : w.parts[i].rank_runner = k /\ w.parts[i].rank_server = s
        BY <1>8, <1>10, <2>9, <3>2
      <4>2. i \in DOMAIN v.parts
        BY <1>2, <2>6 DEF l
      <4> QED
        BY <2>6, <4>1, <4>2
    <3> QED
      BY <3>1, <3>2
  <2>10. v \in WalkStates /\ K = LastPart(v).rank_runner /\ S = LastPart(v).rank_server
    BY <1>1 DEF v, K, S
  <2>11. Precise(sizes, servers, v, n + 1)
    BY <1>3, <2>8, <2>9, <2>10 DEF Precise
  <2> QED
    BY <2>11 DEF v
<1>14. CASE ~ NextRunner(sizes, w) /\ ~ NextServer(servers, w)
  <2> DEFINE new == LastPart(v)
             old == LastPart(w)
  <2>1. v.parts = [w.parts EXCEPT ![l] = new] /\ new = [old EXCEPT !.send_count = @ + 1]
    <3>1. v.parts = [w.parts EXCEPT ![l] = GrownPart(w)]
      BY <1>1, <1>14, NextByteGrows
    <3>2. LastPart(v) = GrownPart(w)
      BY <1>1, <1>14, NextByteGrows
    <3> HIDE DEF v, l
    <3> QED
      BY <3>1, <3>2 DEF GrownPart
  <2>2. old.rank_runner = K /\ old.rank_server = S
    BY <1>3, <1>14
  <2>3. l \in 1 .. l /\ old = w.parts[l]
    BY <1>2
  <2>4. old = Overlap(sizes, servers, K, S, n) /\ From(sizes, servers, K, S) < n
    BY <1>9, <2>2, <2>3 DEF Begun
  <2>5. (IF To(sizes, servers, K, S) <= n THEN To(sizes, servers, K, S) ELSE n) = n
    BY <1>7
  <2>6. new = Overlap(sizes, servers, K, S, n + 1)
    <3> DEFINE f == From(sizes, servers, K, S)
    <3>1. old = [rank_runner |-> K, local_offset_runner |-> f - Before(sizes, K),
                 rank_server |-> S, local_offset_server |-> f - Before(servers, S), send_count |-> n - f]
      BY <2>4, <2>5 DEF Overlap
    <3>2. Overlap(sizes, servers, K, S, n + 1) =
            [rank_runner |-> K, local_offset_runner |-> f - Before(sizes, K),
             rank_server |-> S, local_offset_server |-> f - Before(servers, S), send_count |-> (n + 1) - f]
      BY <1>12 DEF Overlap
    <3>3. (n - f) + 1 = (n + 1) - f
      BY <1>7
    <3> HIDE DEF new, old, f, K, S
    <3> QED
      BY <2>1, <3>1, <3>2, <3>3
  <2>7. new.rank_runner = K /\ new.rank_server = S
    OBVIOUS
  <2> HIDE DEF v, K, S, new, l, old
  <2>8. /\ DOMAIN v.parts = 1 .. l /\ v.parts[l] = new
        /\ \A i \in 1 .. l : i # l => v.parts[i] = w.parts[i]
    BY <1>2, <2>1, <2>3
  <2>9. ASSUME NEW i \in 1 .. l, i # l
        PROVE  w.parts[i].rank_runner # K \/ w.parts[i].rank_server # S
    <3>1. i < l /\ w.parts[l].rank_runner = K /\ w.parts[l].rank_server = S
      BY <1>2, <2>2, <2>3, <2>9 DEF l
    <3>2. /\ w.parts[i].rank_runner < w.parts[l].rank_runner \/ w.parts[i].rank_server < w.parts[l].rank_server
      BY <1>2, <2>3, <3>1 DEF Ascending, l
    <3>3. K \in Nat /\ S \in Nat
      BY <1>4 DEF RunnerRanks, ServerRanks
    <3> QED
      BY <3>1, <3>2, <3>3
  <2>10. ASSUME NEW i \in DOMAIN v.parts
         PROVE  /\ Begun(sizes, servers, v.parts[i].rank_runner, v.parts[i].rank_server, n + 1)
                /\ v.parts[i] = Overlap(sizes, servers, v.parts[i].rank_runner, v.parts[i].rank_server, n + 1)
    <3>1. CASE i = l
      BY <1>11, <2>6, <2>7, <2>8, <3>1
    <3>2. CASE i # l
      <4>1. i \in 1 .. l /\ v.parts[i] = w.parts[i]
        BY <2>8, <3>2
      <4> DEFINE k == w.parts[i].rank_runner
                 s == w.parts[i].rank_server
      <4>3. /\ k \in RunnerRanks /\ s \in ServerRanks /\ Begun(sizes, servers, k, s, n)
            /\ w.parts[i] = Overlap(sizes, servers, k, s, n) /\ (k # K \/ s # S)
        BY <1>9, <2>9, <3>2, <4>1
      <4> HIDE DEF k, s
      <4>4. Begun(sizes, servers, k, s, n + 1) /\ w.parts[i] = Overlap(sizes, servers, k, s, n + 1)
        BY <1>8, <4>3
      <4> QED
        BY <4>1, <4>4 DEF k, s
    <3> QED
      BY <3>1, <3>2
  <2>11. ASSUME NEW k \in RunnerRanks, NEW s \in ServerRanks, Begun(sizes, servers, k, s, n + 1)
         PROVE  \E i \in DOMAIN v.parts : v.parts[i].rank_runner = k /\ v.parts[i].rank_server = s
    <3>1. CASE k = K /\ s = S
      BY <2>3, <2>7, <2>8, <3>1
    <3>2. CASE k # K \/ s # S
      <4>1. PICK i \in 1 .. l : w.parts[i].rank_runner = k /\ w.parts[i].rank_server = s
        BY <1>8, <1>10, <2>11, <3>2
      <4>2. i # l
        BY <2>2, <2>3, <3>2, <4>1
      <4> QED
        BY <2>8, <4>1, <4>2
    <3> QED
      BY <3>1, <3>2
  <2>12. v \in WalkStates /\ K = LastPart(v).rank_runner /\ S = LastPart(v).rank_server
    BY <1>1 DEF v, K, S
  <2>13. Precise(sizes, servers, v, n + 1)
    BY <1>3, <2>10, <2>11, <2>12 DEF Precise
  <2> QED
    BY <2>13 DEF v
<1> QED
  BY <1>13, <1>14

(* What the walk has made of n bytes are the overlaps up to there.          *)
LEMMA WalkPrecise ==
  ASSUME NEW sizes, NEW servers, TwoSides(sizes, servers),
         NEW n \in Nat, n > 0, n <= Before(sizes, RunnerSize)
  PROVE  Precise(sizes, servers, Walk(sizes, servers, n), n)
<1> DEFINE Bad == {i \in Nat : /\ i > 0 /\ i <= n
                               /\ ~ Precise(sizes, servers, Walk(sizes, servers, i), i)}
<1>1. SUFFICES ASSUME Bad # {} PROVE FALSE
  OBVIOUS
<1>2. PICK i \in Bad : \A j \in Bad : i <= j
  BY <1>1, LeastNat
<1>3. RunnerSize \in Nat /\ Before(sizes, RunnerSize) \in Nat
  <2>1. /\ RunnerSize \in Nat /\ RunnerSize \in 0 .. RunnerSize
        /\ sizes \in [0 .. RunnerSize - 1 -> Nat]
    BY DEF TwoSides, Solid
  <2> QED
    BY <2>1, BeforeNat
<1>4. i # 1
  BY <1>2, <1>3, PreciseFirst
<1>5. i - 1 \in Nat /\ i - 1 > 0 /\ i - 1 <= n /\ (i - 1) + 1 = i /\ i - 1 < Before(sizes, RunnerSize)
  BY <1>2, <1>3, <1>4
<1>6. i - 1 \notin Bad
  BY <1>2, <1>5
<1> DEFINE w == Walk(sizes, servers, i - 1)
<1>7. Precise(sizes, servers, w, i - 1)
  BY <1>5, <1>6
<1>8. Walk(sizes, servers, (i - 1) + 1) = NextByte(sizes, servers, w) /\ Ascending(w.parts)
  BY <1>5, WalkNext, WalkAscending
<1> DEFINE l == i - 1
<1>9. l \in Nat /\ l < Before(sizes, RunnerSize) /\ Precise(sizes, servers, w, l) /\ Ascending(w.parts)
  BY <1>5, <1>7, <1>8
<1> HIDE DEF w, l
<1>10. Precise(sizes, servers, NextByte(sizes, servers, w), l + 1)
  BY <1>9, PreciseNext
<1>11. Precise(sizes, servers, Walk(sizes, servers, i), i)
  BY <1>5, <1>8, <1>10 DEF l
<1> QED
  BY <1>2, <1>11

(* The larger of two numbers.                                               *)
LEMMA MaxOfTwo ==
  ASSUME NEW a \in Int, NEW b \in Int
  PROVE  Max({a, b}) = IF a >= b THEN a ELSE b
<1> DEFINE m == IF a >= b THEN a ELSE b
<1>1. m \in {a, b} /\ \A y \in {a, b} : m >= y
  OBVIOUS
<1>2. \A x \in {a, b} : (\A y \in {a, b} : x >= y) => x = m
  OBVIOUS
<1> HIDE DEF m
<1>3. Max({a, b}) = m
  BY <1>1, <1>2 DEF Max
<1> QED
  BY <1>3 DEF m

(* The smaller of two numbers.                                              *)
LEMMA MinOfTwo ==
  ASSUME NEW a \in Int, NEW b \in Int
  PROVE  Min({a, b}) = IF a <= b THEN a ELSE b
<1> DEFINE m == IF a <= b THEN a ELSE b
<1>1. m \in {a, b} /\ \A y \in {a, b} : m <= y
  OBVIOUS
<1>2. \A x \in {a, b} : (\A y \in {a, b} : x <= y) => x = m
  OBVIOUS
<1> HIDE DEF m
<1>3. Min({a, b}) = m
  BY <1>1, <1>2 DEF Min
<1> QED
  BY <1>3 DEF m

(* An overlap as Overlaps states it. *)
WholeOverlap(sizes, servers, k, s) ==
  [rank_runner |-> k,
   local_offset_runner |-> From(sizes, servers, k, s) - Before(sizes, k),
   rank_server |-> s,
   local_offset_server |-> From(sizes, servers, k, s) - Before(servers, s),
   send_count |-> To(sizes, servers, k, s) - From(sizes, servers, k, s)]

(* The reference definition, in the terms of the walk.                      *)
LEMMA OverlapsAre ==
  ASSUME NEW sizes, NEW bytes,
         TwoSides(sizes, calculate_local_vect_sizes_server(sum_vec(sizes), bytes))
  PROVE  LET servers == calculate_local_vect_sizes_server(sum_vec(sizes), bytes)
         IN Overlaps(sizes, bytes) =
              {WholeOverlap(sizes, servers, p[1], p[2]) :
                 p \in {p \in RunnerRanks \X ServerRanks :
                          From(sizes, servers, p[1], p[2]) < To(sizes, servers, p[1], p[2])}}
<1> DEFINE servers == calculate_local_vect_sizes_server(sum_vec(sizes), bytes)
           from(k, s) == Max({Before(sizes, k), Before(servers, s)})
           to(k, s) == Min({Before(sizes, k) + sizes[k], Before(servers, s) + servers[s]})
           overlap(k, s) ==
             [rank_runner |-> k, local_offset_runner |-> from(k, s) - Before(sizes, k),
              rank_server |-> s, local_offset_server |-> from(k, s) - Before(servers, s),
              send_count |-> to(k, s) - from(k, s)]
<1>1. Overlaps(sizes, bytes) =
        {overlap(p[1], p[2]) : p \in {p \in RunnerRanks \X ServerRanks : from(p[1], p[2]) < to(p[1], p[2])}}
  BY DEF Overlaps
<1> HIDE DEF servers
<1>2. ASSUME NEW p \in RunnerRanks \X ServerRanks
      PROVE  /\ from(p[1], p[2]) = From(sizes, servers, p[1], p[2])
             /\ to(p[1], p[2]) = To(sizes, servers, p[1], p[2])
  <2> DEFINE k == p[1]
             s == p[2]
  <2>1. k \in RunnerRanks /\ s \in ServerRanks
    OBVIOUS
  <2> HIDE DEF k, s
  <2>2. /\ Before(sizes, k) \in Nat /\ sizes[k] \in Nat
        /\ Before(servers, s) \in Nat /\ servers[s] \in Nat
    BY <2>1, Ends DEF servers
  <2>3. from(k, s) = From(sizes, servers, k, s)
    BY <2>2, MaxOfTwo DEF From
  <2> DEFINE x == Before(sizes, k) + sizes[k]
             y == Before(servers, s) + servers[s]
  <2>4. x \in Int /\ y \in Int
    BY <2>2
  <2>5. To(sizes, servers, k, s) = IF x <= y THEN x ELSE y
    BY DEF To
  <2> HIDE DEF x, y
  <2>6. Min({x, y}) = IF x <= y THEN x ELSE y
    BY <2>4, MinOfTwo
  <2>7. to(k, s) = To(sizes, servers, k, s)
    BY <2>5, <2>6 DEF x, y
  <2> QED
    BY <2>3, <2>7 DEF k, s
<1>3. \A p \in RunnerRanks \X ServerRanks :
        overlap(p[1], p[2]) = WholeOverlap(sizes, servers, p[1], p[2])
  BY <1>2 DEF WholeOverlap
<1>4. {p \in RunnerRanks \X ServerRanks : from(p[1], p[2]) < to(p[1], p[2])}
        = {p \in RunnerRanks \X ServerRanks :
             From(sizes, servers, p[1], p[2]) < To(sizes, servers, p[1], p[2])}
  BY <1>2
<1> HIDE DEF from, to, overlap
<1> QED
  BY <1>1, <1>3, <1>4 DEF servers

(* The whole list. *)
LEMMA PartsAre ==
  ASSUME NEW sizes, Solid(sizes, RunnerSize),
         NEW bytes \in Nat \ {0}, NEW e \in Nat, sum_vec(sizes) = bytes * e
  PROVE  ToSet(calculate_n_to_m(sizes, bytes)) = Overlaps(sizes, bytes)
<1> DEFINE servers == calculate_local_vect_sizes_server(sum_vec(sizes), bytes)
           total == sum_vec(sizes)
           parts == calculate_n_to_m(sizes, bytes)
           pairs == {p \in RunnerRanks \X ServerRanks :
                       From(sizes, servers, p[1], p[2]) < To(sizes, servers, p[1], p[2])}
<1>1. total = Before(sizes, RunnerSize)
  BY DEF sum_vec, Before
<1>2. Before(servers, CommSize) = total /\ Solid(servers, CommSize)
  BY ServerBlocks
<1>3. TwoSides(sizes, servers)
  BY <1>1, <1>2 DEF TwoSides
<1>4. Overlaps(sizes, bytes) = {WholeOverlap(sizes, servers, p[1], p[2]) : p \in pairs}
  BY <1>3, OverlapsAre
<1>5. parts = IF total = 0 THEN <<>> ELSE Walk(sizes, servers, total).parts
  BY DEF calculate_n_to_m
<1>6. ToSet(parts) = {parts[i] : i \in DOMAIN parts}
  BY DEF ToSet
<1>7. /\ RunnerSize \in Nat /\ RunnerSize \in 0 .. RunnerSize
      /\ sizes \in [0 .. RunnerSize - 1 -> Nat] /\ total \in Nat
  <2>1. RunnerSize \in Nat /\ RunnerSize \in 0 .. RunnerSize /\ sizes \in [0 .. RunnerSize - 1 -> Nat]
    BY DEF Solid
  <2> QED
    BY <1>1, <2>1, BeforeNat
<1> HIDE DEF servers, total, parts
<1>8. \A k \in RunnerRanks, s \in ServerRanks :
        /\ From(sizes, servers, k, s) \in Nat /\ To(sizes, servers, k, s) \in Nat
        /\ To(sizes, servers, k, s) <= total
  <2>1. ASSUME NEW k \in RunnerRanks, NEW s \in ServerRanks
        PROVE  /\ From(sizes, servers, k, s) \in Nat /\ To(sizes, servers, k, s) \in Nat
               /\ To(sizes, servers, k, s) <= total
    <3>1. /\ Before(sizes, k) \in Nat /\ sizes[k] \in Nat /\ Before(servers, s) \in Nat /\ servers[s] \in Nat
          /\ From(sizes, servers, k, s) \in Nat /\ To(sizes, servers, k, s) \in Nat
      BY <1>3, Ends
    <3>2. k \in 0 .. RunnerSize - 1 /\ k + 1 \in 0 .. RunnerSize /\ k + 1 <= RunnerSize
      BY <1>7 DEF RunnerRanks
    <3>3. Before(sizes, k + 1) = Before(sizes, k) + sizes[k]
      BY <1>7, <3>2, BeforeNext
    <3>4. Before(sizes, k + 1) <= Before(sizes, RunnerSize)
      BY <1>7, <3>2, BeforeMonotone
    <3>5. Before(sizes, k) + sizes[k] <= total
      BY <1>1, <3>3, <3>4
    <3>6. To(sizes, servers, k, s) <= Before(sizes, k) + sizes[k]
      BY <3>1 DEF To
    <3> QED
      BY <1>7, <3>1, <3>5, <3>6
  <2> QED
    BY <2>1
<1>9. CASE total = 0
  <2>1. parts = <<>>
    BY <1>5, <1>9
  <2>2. pairs = {}
    BY <1>8, <1>9
  <2> QED
    BY <1>4, <1>6, <2>1, <2>2 DEF parts
<1>10. CASE total # 0
  <2> DEFINE w == Walk(sizes, servers, total)
  <2>1. Precise(sizes, servers, w, total)
    BY <1>1, <1>3, <1>7, <1>10, WalkPrecise
  <2>2. parts = w.parts
    BY <1>5, <1>10
  <2> HIDE DEF w
  <2>3. ASSUME NEW k \in RunnerRanks, NEW s \in ServerRanks
        PROVE  /\ Begun(sizes, servers, k, s, total) <=> From(sizes, servers, k, s) < To(sizes, servers, k, s)
               /\ Overlap(sizes, servers, k, s, total) = WholeOverlap(sizes, servers, k, s)
    <3>1. /\ From(sizes, servers, k, s) \in Nat /\ To(sizes, servers, k, s) \in Nat
          /\ To(sizes, servers, k, s) <= total
      BY <1>8
    <3>2. Overlap(sizes, servers, k, s, total) = WholeOverlap(sizes, servers, k, s)
      BY <3>1 DEF Overlap, WholeOverlap
    <3> QED
      BY <1>7, <3>1, <3>2 DEF Begun
  <2>4. ASSUME NEW i \in DOMAIN parts
        PROVE  parts[i] \in Overlaps(sizes, bytes)
    <3> DEFINE k == parts[i].rank_runner
               s == parts[i].rank_server
    <3>1. Begun(sizes, servers, k, s, total) /\ parts[i] = Overlap(sizes, servers, k, s, total)
      BY <2>1, <2>2 DEF Precise
    <3> HIDE DEF k, s
    <3>2. k \in RunnerRanks /\ s \in ServerRanks
      BY <3>1 DEF Begun
    <3>3. From(sizes, servers, k, s) < To(sizes, servers, k, s) /\ parts[i] = WholeOverlap(sizes, servers, k, s)
      BY <2>3, <3>1, <3>2
    <3>4. <<k, s>> \in pairs
      BY <3>2, <3>3
    <3> HIDE DEF pairs
    <3> QED
      BY <1>4, <3>3, <3>4
  <2>5. ASSUME NEW o \in Overlaps(sizes, bytes)
        PROVE  \E i \in DOMAIN parts : parts[i] = o
    <3>1. PICK p \in pairs : o = WholeOverlap(sizes, servers, p[1], p[2])
      BY <1>4
    <3> DEFINE k == p[1]
               s == p[2]
    <3>2. k \in RunnerRanks /\ s \in ServerRanks /\ From(sizes, servers, k, s) < To(sizes, servers, k, s)
      OBVIOUS
    <3>3. o = WholeOverlap(sizes, servers, k, s)
      BY <3>1
    <3> HIDE DEF k, s
    <3>4. Begun(sizes, servers, k, s, total) /\ o = Overlap(sizes, servers, k, s, total)
      BY <2>3, <3>2, <3>3
    <3>5. PICK i \in DOMAIN parts : parts[i].rank_runner = k /\ parts[i].rank_server = s
      BY <2>1, <2>2, <3>2, <3>4 DEF Precise
    <3>6. parts[i] = Overlap(sizes, servers, k, s, total)
      BY <2>1, <2>2, <3>5 DEF Precise
    <3> QED
      BY <3>4, <3>6
  <2>6. {parts[i] : i \in DOMAIN parts} = Overlaps(sizes, bytes)
    BY <2>4, <2>5
  <2> QED
    BY <1>6, <2>6 DEF parts
<1> QED
  BY <1>9, <1>10

(* A part goes to a rank of the server, whatever the blocks of the runner. *)
LEMMA WalkOnServer ==
  ASSUME NEW sizes \in [RunnerRanks -> Nat], NEW servers, Solid(servers, CommSize),
         NEW n \in Nat, n > 0, n <= Before(servers, CommSize)
  PROVE  LET w == Walk(sizes, servers, n)
         IN w \in WalkStates /\ Reached(servers, CommSize, n, LastPart(w).rank_server, w.index_in_server)
<1> DEFINE on(i) == Reached(servers, CommSize, i, LastPart(Walk(sizes, servers, i)).rank_server,
                            Walk(sizes, servers, i).index_in_server)
           Bad == {i \in Nat : i > 0 /\ i <= n /\ ~ on(i)}
<1>1. \A i \in Nat : Walk(sizes, servers, i) \in WalkStates
  BY WalkNext
<1>2. SUFFICES ASSUME Bad # {} PROVE FALSE
  BY <1>1
<1>3. PICK i \in Bad : \A j \in Bad : i <= j
  BY <1>2, LeastNat
<1>4. CommSize \in Nat /\ Before(servers, CommSize) \in Nat /\ servers \in [0 .. CommSize - 1 -> Nat]
  <2>1. CommSize \in Nat /\ CommSize \in 0 .. CommSize /\ servers \in [0 .. CommSize - 1 -> Nat]
    BY DEF Solid
  <2> QED
    BY <2>1, BeforeNat
<1>5. i - 1 \in Nat /\ (i - 1) + 1 = i /\ i - 1 < Before(servers, CommSize)
  BY <1>3, <1>4
<1> DEFINE l == i - 1
           w == Walk(sizes, servers, l)
           v == Walk(sizes, servers, i)
<1>6. w \in WalkStates /\ v = NextByte(sizes, servers, w) /\ l \in Nat /\ l + 1 = i
  <2>1. l \in Nat /\ l + 1 = i
    BY <1>5
  <2> HIDE DEF l
  <2>2. w \in WalkStates /\ Walk(sizes, servers, l + 1) = NextByte(sizes, servers, w)
    BY <2>1, WalkNext
  <2> QED
    BY <2>1, <2>2
<1>7. /\ LastPart(v).rank_server = LastPart(w).rank_server + IF NextServer(servers, w) THEN 1 ELSE 0
      /\ v.index_in_server = IndexInServer(servers, w) + 1
  BY <1>6, NextByteRanks, NextByteMoves
<1>8. CASE l = 0
  <2>1. w = Start
    BY <1>8, WalkZero
  <2>2. LastPart(w).rank_server = 0 /\ w.index_in_server = 0
    <3>1. LastPart(Start).rank_server = 0 /\ Start.index_in_server = 0
      BY DEF Start, LastPart
    <3> HIDE DEF w
    <3> QED
      BY <2>1, <3>1
  <2>3. Reached(servers, CommSize, 1, 0, 1) /\ servers[0] > 0
    BY <1>5, <1>8, ReachedFirst
  <2>4. servers[0] \in Nat
    BY <1>4, <2>3 DEF Reached
  <2>5. ~ NextServer(servers, w)
    BY <2>2, <2>3, <2>4 DEF NextServer, AtBorder
  <2>6. LastPart(v).rank_server = 0 /\ v.index_in_server = 1 /\ i = 1
    BY <1>6, <1>7, <1>8, <2>2, <2>5 DEF IndexInServer
  <2> QED
    BY <1>3, <2>3, <2>6
<1>9. CASE l # 0
  <2>1. l \notin Bad
    BY <1>3, <1>5
  <2>2. Reached(servers, CommSize, l, LastPart(w).rank_server, w.index_in_server)
    BY <1>3, <1>5, <1>9, <2>1
  <2> DEFINE s == LastPart(w).rank_server
             index == w.index_in_server
  <2>3. /\ AtBorder(index, servers[s]) => Reached(servers, CommSize, l + 1, s + 1, 1)
        /\ ~ AtBorder(index, servers[s]) => Reached(servers, CommSize, l + 1, s, index + 1)
    <3>1. l \in Nat /\ l < Before(servers, CommSize)
      BY <1>5
    <3> HIDE DEF l, s, index, w
    <3> QED
      BY <2>2, <3>1, ReachedNext DEF s, index
  <2>4. s \in Nat /\ index \in Nat
    BY <1>6, LastOfWalk, FieldsOfPart
  <2>5. NextServer(servers, w) <=> AtBorder(index, servers[s])
    BY DEF NextServer
  <2>6. /\ LastPart(v).rank_server = s + IF NextServer(servers, w) THEN 1 ELSE 0
        /\ v.index_in_server = (IF NextServer(servers, w) THEN 0 ELSE index) + 1
    BY <1>7 DEF IndexInServer
  <2>7. on(i) <=> Reached(servers, CommSize, i, LastPart(v).rank_server, v.index_in_server)
    OBVIOUS
  <2> HIDE DEF s, index, v, w, on
  <2>8. Reached(servers, CommSize, i, LastPart(v).rank_server, v.index_in_server)
    BY <1>6, <2>3, <2>4, <2>5, <2>6
  <2>9. on(i)
    BY <2>7, <2>8
  <2> QED
    BY <1>3, <2>9
<1> QED
  BY <1>8, <1>9

(* A part is for a server rank that exists.                                 *)
LEMMA RanksOfServer ==
  ASSUME NEW sizes \in [RunnerRanks -> Nat],
         NEW bytes \in Nat \ {0}, NEW e \in Nat, sum_vec(sizes) = bytes * e,
         NEW i \in DOMAIN calculate_n_to_m(sizes, bytes)
  PROVE  calculate_n_to_m(sizes, bytes)[i].rank_server \in ServerRanks
<1> DEFINE servers == calculate_local_vect_sizes_server(sum_vec(sizes), bytes)
           total == sum_vec(sizes)
           parts == calculate_n_to_m(sizes, bytes)
<1>1. Before(servers, CommSize) = total /\ Solid(servers, CommSize)
  BY ServerBlocks
<1>2. parts = IF total = 0 THEN <<>> ELSE Walk(sizes, servers, total).parts
  BY DEF calculate_n_to_m
<1>3. total \in Nat
  <2>1. CommSize \in Nat /\ CommSize \in 0 .. CommSize /\ servers \in [0 .. CommSize - 1 -> Nat]
    BY <1>1 DEF Solid
  <2> HIDE DEF servers, total
  <2> QED
    BY <1>1, <2>1, BeforeNat
<1>4. i \in DOMAIN parts
  OBVIOUS
<1> DEFINE w == Walk(sizes, servers, total)
<1> HIDE DEF parts, servers, total
<1>5. total # 0
  BY <1>2, <1>4
<1>6. w \in WalkStates /\ Reached(servers, CommSize, total, LastPart(w).rank_server, w.index_in_server)
  BY <1>1, <1>3, <1>5, WalkOnServer
<1>7. Ascending(w.parts)
  BY <1>3, WalkAscending
<1> HIDE DEF w
<1>8. parts = w.parts
  BY <1>2, <1>5 DEF w
<1> DEFINE l == Len(w.parts)
<1>9. /\ w.parts \in Seq(Part) /\ l \in Nat \ {0} /\ DOMAIN w.parts = 1 .. l /\ LastPart(w) = w.parts[l]
  BY <1>6, LastOfWalk DEF LastPart
<1>10. LastPart(w).rank_server \in 0 .. CommSize - 1 /\ CommSize \in Nat
  BY <1>6, FieldAssumption DEF Reached
<1>11. i \in 1 .. l /\ parts[i] \in Part
  BY <1>4, <1>8, <1>9
<1>12. parts[i].rank_server \in Nat
  BY <1>11, FieldsOfPart
<1>13. parts[i].rank_server <= LastPart(w).rank_server
  <2>1. CASE i = l
    BY <1>8, <1>9, <1>10, <2>1
  <2>2. CASE i # l
    <3>1. i < l /\ l \in 1 .. l
      BY <1>9, <1>11, <2>2
    <3> QED
      BY <1>7, <1>8, <1>9, <1>11, <3>1 DEF Ascending
  <2> QED
    BY <2>1, <2>2
<1> QED
  BY <1>10, <1>12, <1>13 DEF ServerRanks, parts
-----------------------------------------------------------------------------
(***************************************************************************)
(* What the runner ranks say of their blocks.                              *)
(***************************************************************************)
IsProduct(n, size, count) == n \in Nat /\ n = size * count

(* A chunk has count elements of its size.                                  *)
LEMMA LengthOfChunk ==
  ASSUME NEW rank, NEW varid, NEW kind, NEW size, NEW count, NEW n, IsProduct(n, size, count)
  PROVE  Len(Chunk(rank, varid, kind, size, count).values) = n
<1> DEFINE values == Chunk(rank, varid, kind, size, count).values
<1>1. n \in Nat
  BY DEF IsProduct
<1>2. values = [i \in 1 .. n |-> values[i]]
  BY DEF Chunk, IsProduct
<1> HIDE DEF values
<1>3. values \in Seq({values[i] : i \in 1 .. n}) /\ DOMAIN values = 1 .. n
  BY <1>1, <1>2
<1>4. Len(values) = n
  BY <1>1, <1>3
<1> QED
  BY <1>4 DEF values

(* A sum of two.                                                            *)
LEMMA SumOfTwo ==
  ASSUME NEW f, f[0] \in Nat, f[1] \in Nat
  PROVE  PartialSum(f, 2) = f[0] + f[1]
<1>1. PartialSum(f, 0) = 0
  BY PartialSumZero
<1>2. PartialSum(f, 0 + 1) = PartialSum(f, 0) + f[0]
  <2>1. \A i \in 0 .. 0 : f[i] \in Nat
    OBVIOUS
  <2> QED
    BY <2>1, PartialSumNext
<1>3. PartialSum(f, 1 + 1) = PartialSum(f, 1) + f[1]
  <2>1. \A i \in 0 .. 1 : f[i] \in Nat
    <3>1. \A i \in 0 .. 1 : i = 0 \/ i = 1
      OBVIOUS
    <3> QED
      BY <3>1
  <2> QED
    BY <2>1, PartialSumNext
<1> QED
  BY <1>1, <1>2, <1>3

(* A sum of three.                                                          *)
LEMMA SumOfThree ==
  ASSUME NEW f, f[0] \in Nat, f[1] \in Nat, f[2] \in Nat
  PROVE  PartialSum(f, 3) = f[0] + f[1] + f[2]
<1>1. PartialSum(f, 2) = f[0] + f[1]
  BY SumOfTwo
<1>2. PartialSum(f, 2 + 1) = PartialSum(f, 2) + f[2]
  <2>1. \A i \in 0 .. 2 : f[i] \in Nat
    <3>1. \A i \in 0 .. 2 : i = 0 \/ i = 1 \/ i = 2
      OBVIOUS
    <3> QED
      BY <3>1
  <2> QED
    BY <2>1, PartialSumNext
<1> QED
  BY <1>1, <1>2

AssimilatedSize(chunks) == VectSize(chunks, TRUE)
HiddenSize(chunks) == VectSize(chunks, FALSE)

(* With the vector interface the sizes are multiples of the elements'.     *)
LEMMA SizesOfVector ==
  ASSUME NEW rank, NEW size, NEW count, NEW size_hidden, NEW count_hidden,
         NEW n, IsProduct(n, size, count), NEW h, IsProduct(h, size_hidden, count_hidden)
  PROVE  /\ AssimilatedSize(AsVector(rank, size, count, size_hidden, count_hidden)) = n
         /\ HiddenSize(AsVector(rank, size, count, size_hidden, count_hidden)) = h
<1> DEFINE c == Chunk(rank, 1, TRUE, size, count)
           d == Chunk(rank, 2, FALSE, size_hidden, count_hidden)
           chunks == AsVector(rank, size, count, size_hidden, count_hidden)
<1>1. Len(c.values) = n /\ Len(d.values) = h
  <2>1. Len(c.values) = n
    BY LengthOfChunk, Zenon
  <2>2. Len(d.values) = h
    BY LengthOfChunk, Zenon
  <2> QED
    BY <2>1, <2>2
<1>2. c.is_assimilated = TRUE /\ d.is_assimilated = FALSE
  BY DEF Chunk
<1>3. chunks = <<c, d>>
  BY DEF AsVector
<1> HIDE DEF c, d, chunks
<1>4. n \in Nat /\ h \in Nat
  BY DEF IsProduct
<1>5. Len(chunks) = 2 /\ chunks[1] = c /\ chunks[2] = d
  BY <1>3
<1>6. ASSUME NEW kind \in BOOLEAN
      PROVE  /\ ChunkSizes(chunks, kind)[0] = IF kind THEN n ELSE 0
             /\ ChunkSizes(chunks, kind)[1] = IF kind THEN 0 ELSE h
  <2> DEFINE f == ChunkSizes(chunks, kind)
  <2>1. 0 \in 0 .. Len(chunks) - 1 /\ 1 \in 0 .. Len(chunks) - 1
    BY <1>5
  <2>2. /\ f[0] = IF chunks[0 + 1].is_assimilated = kind THEN Len(chunks[0 + 1].values) ELSE 0
        /\ f[1] = IF chunks[1 + 1].is_assimilated = kind THEN Len(chunks[1 + 1].values) ELSE 0
    BY <2>1 DEF ChunkSizes
  <2> HIDE DEF f
  <2>3. /\ f[0] = IF c.is_assimilated = kind THEN Len(c.values) ELSE 0
        /\ f[1] = IF d.is_assimilated = kind THEN Len(d.values) ELSE 0
    BY <1>5, <2>2
  <2>4. CASE kind = TRUE
    BY <1>1, <1>2, <2>3, <2>4 DEF f
  <2>5. CASE kind = FALSE
    BY <1>1, <1>2, <2>3, <2>5 DEF f
  <2> QED
    BY <2>4, <2>5
<1>7. VectSize(chunks, TRUE) = n
  <2> DEFINE f == ChunkSizes(chunks, TRUE)
  <2>1. f[0] = n /\ f[1] = 0
    BY <1>6
  <2> HIDE DEF f
  <2>2. PartialSum(f, 2) = f[0] + f[1]
    BY <1>4, <2>1, SumOfTwo
  <2>3. PartialSum(f, 2) = n
    BY <1>4, <2>1, <2>2
  <2> QED
    BY <1>5, <2>3 DEF VectSize, f
<1>8. VectSize(chunks, FALSE) = h
  <2> DEFINE f == ChunkSizes(chunks, FALSE)
  <2>1. f[0] = 0 /\ f[1] = h
    BY <1>6
  <2> HIDE DEF f
  <2>2. PartialSum(f, 2) = f[0] + f[1]
    BY <1>4, <2>1, SumOfTwo
  <2>3. PartialSum(f, 2) = h
    BY <1>4, <2>1, <2>2
  <2> QED
    BY <1>5, <2>3 DEF VectSize, f
<1> QED
  BY <1>7, <1>8 DEF chunks, AssimilatedSize, HiddenSize

(* The chunks of a kind have as many bytes together. *)
LEMMA SizesOfChunks ==
  ASSUME NEW rank, NEW size \in Nat, NEW count \in Nat, NEW size_hidden, NEW count_hidden,
         NEW n, IsProduct(n, size, count), NEW h, IsProduct(h, size_hidden, count_hidden)
  PROVE  /\ AssimilatedSize(melissa_add_chunk(rank, size, count, size_hidden, count_hidden)) = n
         /\ HiddenSize(melissa_add_chunk(rank, size, count, size_hidden, count_hidden)) = h
<1> DEFINE half == count \div 2
           c == Chunk(rank, 1, TRUE, size, half)
           d == Chunk(rank, 2, FALSE, size_hidden, count_hidden)
           e == Chunk(rank, 3, TRUE, size, count - half)
           chunks == melissa_add_chunk(rank, size, count, size_hidden, count_hidden)
<1>1. half \in Nat /\ count - half \in Nat
  OBVIOUS
<1>2. chunks = <<c, d, e>>
  BY DEF melissa_add_chunk
<1> HIDE DEF half
<1>a. PICK front : IsProduct(front, size, half)
  BY <1>1 DEF IsProduct
<1>b. PICK back : IsProduct(back, size, count - half)
  BY <1>1 DEF IsProduct
<1>3. /\ Len(c.values) = front /\ Len(d.values) = h
      /\ Len(e.values) = back
  <2>1. Len(c.values) = front
    BY <1>a, LengthOfChunk, Zenon
  <2>2. Len(d.values) = h
    BY LengthOfChunk, Zenon
  <2>3. Len(e.values) = back
    BY <1>b, LengthOfChunk, Zenon
  <2> QED
    BY <2>1, <2>2, <2>3
<1>4. c.is_assimilated = TRUE /\ d.is_assimilated = FALSE /\ e.is_assimilated = TRUE
  BY DEF Chunk
<1>5. front + back = n /\ front \in Nat /\ back \in Nat /\ n \in Nat /\ h \in Nat
  BY <1>1, <1>a, <1>b DEF IsProduct
<1> HIDE DEF c, d, e, chunks
<1>6. Len(chunks) = 3 /\ chunks[1] = c /\ chunks[2] = d /\ chunks[3] = e
  BY <1>2
<1>7. ASSUME NEW kind \in BOOLEAN
      PROVE  /\ ChunkSizes(chunks, kind)[0] = IF kind THEN front ELSE 0
             /\ ChunkSizes(chunks, kind)[1] = IF kind THEN 0 ELSE h
             /\ ChunkSizes(chunks, kind)[2] = IF kind THEN back ELSE 0
  <2> DEFINE f == ChunkSizes(chunks, kind)
  <2>1. 0 \in 0 .. Len(chunks) - 1 /\ 1 \in 0 .. Len(chunks) - 1 /\ 2 \in 0 .. Len(chunks) - 1
    BY <1>6
  <2>2. /\ f[0] = IF chunks[0 + 1].is_assimilated = kind THEN Len(chunks[0 + 1].values) ELSE 0
        /\ f[1] = IF chunks[1 + 1].is_assimilated = kind THEN Len(chunks[1 + 1].values) ELSE 0
        /\ f[2] = IF chunks[2 + 1].is_assimilated = kind THEN Len(chunks[2 + 1].values) ELSE 0
    BY <2>1 DEF ChunkSizes
  <2> HIDE DEF f
  <2>3. /\ f[0] = IF c.is_assimilated = kind THEN Len(c.values) ELSE 0
        /\ f[1] = IF d.is_assimilated = kind THEN Len(d.values) ELSE 0
        /\ f[2] = IF e.is_assimilated = kind THEN Len(e.values) ELSE 0
    BY <1>6, <2>2
  <2>4. CASE kind = TRUE
    BY <1>3, <1>4, <2>3, <2>4 DEF f
  <2>5. CASE kind = FALSE
    BY <1>3, <1>4, <2>3, <2>5 DEF f
  <2> QED
    BY <2>4, <2>5
<1>8. VectSize(chunks, TRUE) = n
  <2> DEFINE f == ChunkSizes(chunks, TRUE)
  <2>1. f[0] = front /\ f[1] = 0 /\ f[2] = back
    BY <1>7
  <2> HIDE DEF f
  <2>2. PartialSum(f, 3) = f[0] + f[1] + f[2]
    BY <1>5, <2>1, SumOfThree
  <2>3. PartialSum(f, 3) = front + back
    BY <1>5, <2>1, <2>2
  <2> QED
    BY <1>5, <1>6, <2>3 DEF VectSize, f
<1>9. VectSize(chunks, FALSE) = h
  <2> DEFINE f == ChunkSizes(chunks, FALSE)
  <2>1. f[0] = 0 /\ f[1] = h /\ f[2] = 0
    BY <1>7
  <2> HIDE DEF f
  <2>2. PartialSum(f, 3) = f[0] + f[1] + f[2]
    BY <1>5, <2>1, SumOfThree
  <2>3. PartialSum(f, 3) = h
    BY <1>5, <2>1, <2>2
  <2> QED
    BY <1>6, <2>3 DEF VectSize, f
<1> QED
  BY <1>8, <1>9 DEF chunks, AssimilatedSize, HiddenSize

(* A sum of multiples is one. *)
IsMultiple(x, size) == \E e \in Nat : x = size * e

LEMMA SumOfMultiples ==
  ASSUME NEW m \in Nat, NEW b \in [0 .. m - 1 -> Nat], NEW size \in Nat,
         \A j \in 0 .. m - 1 : IsMultiple(b[j], size)
  PROVE  IsMultiple(Before(b, m), size)
<1> DEFINE Bad == {i \in Nat : i <= m /\ ~ IsMultiple(Before(b, i), size)}
<1>1. SUFFICES ASSUME Bad # {} PROVE FALSE
  OBVIOUS
<1>2. PICK i \in Bad : \A j \in Bad : i <= j
  BY <1>1, LeastNat
<1>3. i # 0
  <2>1. 0 \in 0 .. m /\ size * 0 = 0
    OBVIOUS
  <2>2. Before(b, 0) = 0
    BY <2>1, BeforeNat
  <2> QED
    BY <1>2, <2>1, <2>2 DEF IsMultiple
<1>4. i - 1 \in Nat /\ i - 1 \in 0 .. m - 1 /\ (i - 1) + 1 = i /\ i - 1 <= m /\ i - 1 \notin Bad
  BY <1>2, <1>3
<1> DEFINE l == i - 1
<1>5. l \in 0 .. m - 1 /\ l + 1 = i
  BY <1>4
<1>6. PICK d \in Nat : Before(b, l) = size * d
  BY <1>4 DEF IsMultiple
<1>7. PICK e \in Nat : b[l] = size * e
  BY <1>4 DEF IsMultiple
<1> HIDE DEF l
<1>8. Before(b, l + 1) = Before(b, l) + b[l]
  BY <1>5, BeforeNext
<1>9. size * d + size * e = size * (d + e) /\ d + e \in Nat
  OBVIOUS
<1>10. Before(b, i) = size * (d + e)
  BY <1>5, <1>6, <1>7, <1>8, <1>9
<1> QED
  BY <1>2, <1>9, <1>10 DEF IsMultiple

(* The layout does not change. *)
LayoutTyped ==
  /\ layout.sizes \in [RunnerRanks -> Nat] /\ layout.hidden \in [RunnerRanks -> Nat]
  /\ layout.bytes \in Nat \ {0} /\ layout.bytes_hidden \in Nat \ {0}
  /\ IsMultiple(sum_vec(layout.sizes), layout.bytes)
  /\ IsMultiple(sum_vec(layout.hidden), layout.bytes_hidden)

(* Blocks as the model has them, each a multiple of an element. *)
Scaled(b, bytes, counts) == b = [k \in RunnerRanks |-> bytes * counts[k]]

(* The model tells the server multiples of its elements.                    *)
LEMMA InitialLayout ==
  ASSUME Init
  PROVE  \E bytes, bytes_hidden \in ElementSizes, sizes \in Layouts, hidden \in HiddenLayouts :
           /\ Scaled(layout.sizes, bytes, sizes) /\ Scaled(layout.hidden, bytes_hidden, hidden)
           /\ \/ layout.bytes = bytes /\ layout.bytes_hidden = bytes_hidden
              \/ layout.bytes = 1 /\ layout.bytes_hidden = 1
<1>1. PICK bytes \in ElementSizes, bytes_hidden \in ElementSizes, sizes \in Layouts, hidden \in HiddenLayouts :
        \/ /\ memory = [k \in RunnerRanks |-> AsVector(k, bytes, sizes[k], bytes_hidden, hidden[k])]
           /\ layout = InitWithVector(bytes, bytes_hidden, memory)
        \/ /\ memory = [k \in RunnerRanks |-> melissa_add_chunk(k, bytes, sizes[k], bytes_hidden, hidden[k])]
           /\ layout = melissa_commit_chunks(memory)
  BY DEF Init
<1>2. /\ bytes \in Nat /\ bytes_hidden \in Nat
      /\ \A k \in RunnerRanks : sizes[k] \in Nat /\ hidden[k] \in Nat
  BY FieldAssumption
<1>3. CASE /\ memory = [k \in RunnerRanks |-> AsVector(k, bytes, sizes[k], bytes_hidden, hidden[k])]
           /\ layout = InitWithVector(bytes, bytes_hidden, memory)
  <2>1. \A k \in RunnerRanks : /\ VectSize(memory[k], TRUE) = bytes * sizes[k]
                               /\ VectSize(memory[k], FALSE) = bytes_hidden * hidden[k]
    <3>1. ASSUME NEW k \in RunnerRanks
          PROVE  /\ VectSize(memory[k], TRUE) = bytes * sizes[k]
                 /\ VectSize(memory[k], FALSE) = bytes_hidden * hidden[k]
      <4>1. memory[k] = AsVector(k, bytes, sizes[k], bytes_hidden, hidden[k])
        BY <1>3
      <4>2. sizes[k] \in Nat /\ hidden[k] \in Nat
        BY <1>2
      <4>3. PICK n : IsProduct(n, bytes, sizes[k])
        BY <1>2, <4>2 DEF IsProduct
      <4>4. PICK h : IsProduct(h, bytes_hidden, hidden[k])
        BY <1>2, <4>2 DEF IsProduct
      <4>5. AssimilatedSize(memory[k]) = n /\ HiddenSize(memory[k]) = h
        BY <1>2, <4>1, <4>2, <4>3, <4>4, SizesOfVector
      <4> QED
        BY <4>3, <4>4, <4>5 DEF IsProduct, AssimilatedSize, HiddenSize
    <3> QED
      BY <3>1
  <2>2. layout.sizes = [k \in RunnerRanks |-> VectSize(memory[k], TRUE)]
    BY <1>3 DEF InitWithVector
  <2>3. layout.hidden = [k \in RunnerRanks |-> VectSize(memory[k], FALSE)]
    BY <1>3 DEF InitWithVector
  <2>4. layout.bytes = bytes /\ layout.bytes_hidden = bytes_hidden
    BY <1>3 DEF InitWithVector
  <2>5. Scaled(layout.sizes, bytes, sizes) /\ Scaled(layout.hidden, bytes_hidden, hidden)
    BY <2>1, <2>2, <2>3 DEF Scaled
  <2> QED
    BY <2>4, <2>5
<1>4. CASE /\ memory = [k \in RunnerRanks |-> melissa_add_chunk(k, bytes, sizes[k], bytes_hidden, hidden[k])]
           /\ layout = melissa_commit_chunks(memory)
  <2>1. \A k \in RunnerRanks : /\ VectSize(memory[k], TRUE) = bytes * sizes[k]
                               /\ VectSize(memory[k], FALSE) = bytes_hidden * hidden[k]
    <3>1. ASSUME NEW k \in RunnerRanks
          PROVE  /\ VectSize(memory[k], TRUE) = bytes * sizes[k]
                 /\ VectSize(memory[k], FALSE) = bytes_hidden * hidden[k]
      <4>1. memory[k] = melissa_add_chunk(k, bytes, sizes[k], bytes_hidden, hidden[k])
        BY <1>4
      <4>2. sizes[k] \in Nat /\ hidden[k] \in Nat
        BY <1>2
      <4>3. PICK n : IsProduct(n, bytes, sizes[k])
        BY <1>2, <4>2 DEF IsProduct
      <4>4. PICK h : IsProduct(h, bytes_hidden, hidden[k])
        BY <1>2, <4>2 DEF IsProduct
      <4>5. AssimilatedSize(memory[k]) = n /\ HiddenSize(memory[k]) = h
        BY <1>2, <4>1, <4>2, <4>3, <4>4, SizesOfChunks
      <4> QED
        BY <4>3, <4>4, <4>5 DEF IsProduct, AssimilatedSize, HiddenSize
    <3> QED
      BY <3>1
  <2>2. layout.sizes = [k \in RunnerRanks |-> VectSize(memory[k], TRUE)]
    BY <1>4 DEF melissa_commit_chunks
  <2>3. layout.hidden = [k \in RunnerRanks |-> VectSize(memory[k], FALSE)]
    BY <1>4 DEF melissa_commit_chunks
  <2>4. layout.bytes = 1 /\ layout.bytes_hidden = 1
    BY <1>4 DEF melissa_commit_chunks
  <2>5. Scaled(layout.sizes, bytes, sizes) /\ Scaled(layout.hidden, bytes_hidden, hidden)
    BY <2>1, <2>2, <2>3 DEF Scaled
  <2> QED
    BY <2>4, <2>5
<1> QED
  BY <1>1, <1>3, <1>4

(* They add up to a multiple.                                               *)
LEMMA ScaledTyped ==
  ASSUME NEW b, NEW bytes \in Nat \ {0}, NEW counts \in [RunnerRanks -> Nat], Scaled(b, bytes, counts)
  PROVE  /\ b \in [RunnerRanks -> Nat]
         /\ IsMultiple(sum_vec(b), bytes) /\ IsMultiple(sum_vec(b), 1)
<1>1. /\ RunnerSize \in Nat \ {0} /\ RunnerRanks = 0 .. RunnerSize - 1
      /\ \A k \in RunnerRanks : counts[k] \in Nat
  BY FieldAssumption DEF RunnerRanks
<1>2. \A k \in RunnerRanks : b[k] = bytes * counts[k]
  BY DEF Scaled
<1>3. \A k \in RunnerRanks : bytes * counts[k] \in Nat
  BY <1>1
<1>4. b \in [RunnerRanks -> Nat]
  BY <1>3 DEF Scaled
<1>5. b \in [0 .. RunnerSize - 1 -> Nat] /\ RunnerSize \in Nat /\ RunnerSize \in 0 .. RunnerSize
  BY <1>1, <1>4
<1>6. IsMultiple(Before(b, RunnerSize), bytes)
  <2>1. \A j \in 0 .. RunnerSize - 1 : IsMultiple(b[j], bytes)
    BY <1>1, <1>2 DEF IsMultiple
  <2> QED
    BY <1>5, <2>1, SumOfMultiples
<1>7. Before(b, RunnerSize) \in Nat
  BY <1>5, BeforeNat
<1>8. Before(b, RunnerSize) = 1 * Before(b, RunnerSize)
  BY <1>7
<1>9. sum_vec(b) = Before(b, RunnerSize)
  BY DEF sum_vec, Before
<1>10. IsMultiple(Before(b, RunnerSize), 1)
  BY <1>7, <1>8 DEF IsMultiple
<1> QED
  BY <1>4, <1>6, <1>9, <1>10

(* The layout that the server is told.                                      *)
LEMMA InitTyped ==
  ASSUME Init
  PROVE  LayoutTyped
<1>1. PICK bytes \in ElementSizes, bytes_hidden \in ElementSizes, sizes \in Layouts, hidden \in HiddenLayouts :
           /\ Scaled(layout.sizes, bytes, sizes) /\ Scaled(layout.hidden, bytes_hidden, hidden)
           /\ \/ layout.bytes = bytes /\ layout.bytes_hidden = bytes_hidden
              \/ layout.bytes = 1 /\ layout.bytes_hidden = 1
  BY InitialLayout
<1>2. /\ bytes \in Nat \ {0} /\ bytes_hidden \in Nat \ {0} /\ 1 \in Nat \ {0}
      /\ sizes \in [RunnerRanks -> Nat] /\ hidden \in [RunnerRanks -> Nat]
  BY FieldAssumption
<1>3. /\ layout.sizes \in [RunnerRanks -> Nat]
      /\ IsMultiple(sum_vec(layout.sizes), bytes)
      /\ IsMultiple(sum_vec(layout.sizes), 1)
  BY <1>1, <1>2, ScaledTyped
<1>4. /\ layout.hidden \in [RunnerRanks -> Nat]
      /\ IsMultiple(sum_vec(layout.hidden), bytes_hidden)
      /\ IsMultiple(sum_vec(layout.hidden), 1)
  BY <1>1, <1>2, ScaledTyped
<1>5. CASE layout.bytes = bytes /\ layout.bytes_hidden = bytes_hidden
  BY <1>2, <1>3, <1>4, <1>5 DEF LayoutTyped
<1>6. CASE layout.bytes = 1 /\ layout.bytes_hidden = 1
  BY <1>2, <1>3, <1>4, <1>6 DEF LayoutTyped
<1> QED
  BY <1>1, <1>5, <1>6

(***************************************************************************)
(* The code subtracts 1 from the size of a block: with an empty block in   *)
(* front of others it never gets behind its border.                        *)
(***************************************************************************)
EmptyBlocksLast ==
  \A sizes \in Layouts \cup HiddenLayouts :
    \A j, k \in RunnerRanks : j < k /\ sizes[k] > 0 => sizes[j] > 0

LayoutSolid == Solid(layout.sizes, RunnerSize) /\ Solid(layout.hidden, RunnerSize)

(* Blocks where the empty ones are last have no border without a byte.      *)
LEMMA EmptyTail ==
  ASSUME NEW m \in Nat \ {0}, NEW b \in [0 .. m - 1 -> Nat],
         \A j, k \in 0 .. m - 1 : j < k /\ b[k] > 0 => b[j] > 0
  PROVE  Solid(b, m)
<1>1. ASSUME NEW j \in 0 .. m - 1, Before(b, j) < Before(b, m), ~ (b[j] > 0)
      PROVE  FALSE
  <2> DEFINE Bad == {i \in Nat : j <= i /\ i <= m /\ Before(b, i) # Before(b, j)}
  <2>1. Before(b, j) \in Nat /\ Before(b, m) \in Nat
    <3>1. j \in 0 .. m /\ m \in 0 .. m
      OBVIOUS
    <3> QED
      BY <3>1, BeforeNat
  <2>2. m \in Bad
    BY <1>1, <2>1
  <2>3. PICK i \in Bad : \A l \in Bad : i <= l
    BY <2>2, LeastNat
  <2>4. i # j
    BY <2>3
  <2>5. /\ i - 1 \in Nat /\ i - 1 \in 0 .. m - 1 /\ (i - 1) + 1 = i /\ j <= i - 1 /\ i - 1 <= m
        /\ i - 1 \notin Bad
    BY <2>3, <2>4
  <2> DEFINE l == i - 1
  <2>6. l \in 0 .. m - 1 /\ l + 1 = i /\ j <= l /\ Before(b, l) = Before(b, j)
    BY <2>5
  <2> HIDE DEF l
  <2>7. Before(b, l + 1) = Before(b, l) + b[l]
    BY <2>6, BeforeNext
  <2>8. ~ (b[l] > 0)
    BY <1>1, <2>6
  <2>9. b[l] = 0
    BY <2>6, <2>8
  <2> QED
    BY <2>1, <2>3, <2>6, <2>7, <2>9
<1> QED
  BY <1>1 DEF Solid

(* So do blocks of larger elements.                                         *)
LEMMA ScaledSolid ==
  ASSUME NEW b, NEW bytes \in Nat \ {0}, NEW counts \in [RunnerRanks -> Nat], Scaled(b, bytes, counts),
         \A j, k \in RunnerRanks : j < k /\ counts[k] > 0 => counts[j] > 0
  PROVE  Solid(b, RunnerSize)
<1>1. /\ RunnerSize \in Nat \ {0} /\ RunnerRanks = 0 .. RunnerSize - 1
      /\ \A k \in RunnerRanks : counts[k] \in Nat
  BY FieldAssumption DEF RunnerRanks
<1>2. \A k \in RunnerRanks : b[k] = bytes * counts[k]
  BY DEF Scaled
<1>3. \A c \in Nat : bytes * c > 0 <=> c > 0
  OBVIOUS
<1>4. \A k \in RunnerRanks : b[k] > 0 <=> counts[k] > 0
  BY <1>1, <1>2, <1>3
<1>5. b \in [0 .. RunnerSize - 1 -> Nat]
  BY <1>1, ScaledTyped
<1>6. \A j, k \in 0 .. RunnerSize - 1 : j < k /\ b[k] > 0 => b[j] > 0
  BY <1>1, <1>4
<1> QED
  BY <1>1, <1>5, <1>6, EmptyTail

(* The layout has only such blocks if the model has.                        *)
LEMMA InitSolid ==
  ASSUME Init, EmptyBlocksLast
  PROVE  LayoutSolid
<1>1. PICK bytes \in ElementSizes, bytes_hidden \in ElementSizes, sizes \in Layouts, hidden \in HiddenLayouts :
           /\ Scaled(layout.sizes, bytes, sizes) /\ Scaled(layout.hidden, bytes_hidden, hidden)
  BY InitialLayout
<1>2. /\ bytes \in Nat \ {0} /\ bytes_hidden \in Nat \ {0}
      /\ sizes \in [RunnerRanks -> Nat] /\ hidden \in [RunnerRanks -> Nat]
  BY FieldAssumption
<1>3. Solid(layout.sizes, RunnerSize)
  <2>1. \A j, k \in RunnerRanks : j < k /\ sizes[k] > 0 => sizes[j] > 0
    BY DEF EmptyBlocksLast
  <2> QED
    BY <1>1, <1>2, <2>1, ScaledSolid
<1>4. Solid(layout.hidden, RunnerSize)
  <2>1. \A j, k \in RunnerRanks : j < k /\ hidden[k] > 0 => hidden[j] > 0
    BY DEF EmptyBlocksLast
  <2> QED
    BY <1>1, <1>2, <2>1, ScaledSolid
<1> QED
  BY <1>3, <1>4 DEF LayoutSolid

-----------------------------------------------------------------------------
(***************************************************************************)
(* The parts that a rank finds.  The assertions compare the rank of one    *)
(* side in the two lists; a part and the hidden part at its place are for  *)
(* the same pair when the runner and the server have made the comparison.  *)
(***************************************************************************)
Paired(parts, parts_hidden, side, rank) ==
  SameLength(parts, parts_hidden) /\ GoTogether(parts, parts_hidden, side, rank)

(* The least of one number.                                                 *)
LEMMA MinOfOne ==
  ASSUME NEW i \in Int
  PROVE  Min({i}) = i
<1>1. Min({i, i}) = i
  BY MinOfTwo
<1>2. {i, i} = {i}
  OBVIOUS
<1> QED
  BY <1>1, <1>2

(* The pair of a part has that part only. *)
LEMMA FirstIsThePart ==
  ASSUME NEW parts \in Seq(Part), OnePerPair(parts), NEW i \in DOMAIN parts, NEW s, NEW k,
         parts[i].rank_server = s, parts[i].rank_runner = k
  PROVE  FirstOf(parts, s, k) = parts[i]
<1> DEFINE found == Mine(parts, "rank_server", s) \cap Mine(parts, "rank_runner", k)
<1>1. i \in found
  BY DEF Mine
<1>2. \A j \in found : j = i
  <2>1. ASSUME NEW j \in found PROVE j = i
    <3>1. j \in DOMAIN parts /\ parts[j].rank_server = s /\ parts[j].rank_runner = k
      BY DEF Mine
    <3> QED
      BY <3>1 DEF OnePerPair
  <2> QED
    BY <2>1
<1>3. found = {i} /\ i \in Int
  BY <1>1, <1>2
<1>4. Min(found) = i
  BY <1>3, MinOfOne
<1> HIDE DEF found
<1>5. FirstOf(parts, s, k) = IF found = {} THEN NoPart ELSE parts[Min(found)]
  BY DEF FirstOf, found
<1> QED
  BY <1>1, <1>4, <1>5

(* Without a list nothing is found.                                         *)
LEMMA FirstOfNone ==
  ASSUME NEW s, NEW k
  PROVE  FirstOf(<<>>, s, k) = NoPart
<1>1. Mine(<<>>, "rank_server", s) = {}
  BY DEF Mine
<1> QED
  BY <1>1 DEF FirstOf

(* Nor has it another hidden part than that at its place.                   *)
LEMMA FirstIsTheHiddenPart ==
  ASSUME NEW parts \in Seq(Part), NEW parts_hidden \in Seq(Part), OnePerPair(parts_hidden),
         NEW i \in DOMAIN parts, NEW s, NEW k,
         parts[i].rank_server = s, parts[i].rank_runner = k,
         Paired(parts, parts_hidden, "rank_server", s), Paired(parts, parts_hidden, "rank_runner", k)
  PROVE  FirstOf(parts_hidden, s, k) = HiddenOf(parts_hidden, i)
<1>1. CASE parts_hidden = <<>>
  BY <1>1, FirstOfNone DEF HiddenOf
<1>2. CASE parts_hidden # <<>>
  <2>1. i \in DOMAIN parts_hidden
    <3>1. Len(parts_hidden) = Len(parts)
      BY <1>2 DEF Paired, SameLength
    <3> QED
      BY <3>1
  <2>2. i \in Mine(parts, "rank_server", s) /\ i \in Mine(parts, "rank_runner", k)
    BY DEF Mine
  <2>3. parts_hidden[i].rank_server = s /\ parts_hidden[i].rank_runner = k
    BY <1>2, <2>2 DEF Paired, GoTogether
  <2>4. FirstOf(parts_hidden, s, k) = parts_hidden[i]
    BY <2>1, <2>3, FirstIsThePart
  <2> QED
    BY <1>2, <2>4 DEF HiddenOf
<1> QED
  BY <1>1, <1>2

-----------------------------------------------------------------------------
(***************************************************************************)
(* The invariant.                                                          *)
(***************************************************************************)
(* The server ranks have what calculate_n_to_m returns, and it has passed  *)
(* their assertions.                                                       *)
FieldCalculated ==
  field # NoField =>
    /\ field.parts = Parts /\ field.parts_hidden = PartsHidden
    /\ \A s \in ServerRanks : Paired(Parts, PartsHidden, "rank_server", s)

Connection(i) == [part |-> Parts[i], hidden |-> HiddenOf(PartsHidden, i)]

(* So have the runner ranks that are connected. *)
ConnectionsCalculated ==
  /\ connected_server_ranks = [k \in RunnerRanks |-> connected_server_ranks[k]]
  /\ \A k \in RunnerRanks : \A csr \in connected_server_ranks[k] :
       /\ Paired(Parts, PartsHidden, "rank_runner", k)
       /\ \E i \in Mine(Parts, "rank_runner", k) : csr = Connection(i)

(* A message is as long as the parts that it was cut with. *)
FromRunner(m) ==
  /\ Paired(Parts, PartsHidden, "rank_runner", m.rank_runner)
  /\ \E i \in Mine(Parts, "rank_runner", m.rank_runner) :
       /\ m.rank_server = Parts[i].rank_server
       /\ Fits(Parts[i], m.values) /\ Fits(HiddenOf(PartsHidden, i), m.hidden)

FromServer(m) ==
  /\ field # NoField
  /\ Fits(FirstOf(Parts, m.rank_server, m.rank_runner), m.values)
  /\ Fits(FirstOf(PartsHidden, m.rank_server, m.rank_runner), m.hidden)

MessagesFit ==
  \A m \in wire : \/ m.to = "server" /\ FromRunner(m)
                  \/ m.to = "runner" /\ FromServer(m)

Exchanged ==
  LayoutTyped /\ FieldCalculated /\ ConnectionsCalculated /\ MessagesFit /\ SizesAgree

(* Both lists have one part for a pair.                                     *)
LEMMA PartsTyped ==
  ASSUME LayoutTyped
  PROVE  /\ Parts \in Seq(Part) /\ OnePerPair(Parts)
         /\ PartsHidden \in Seq(Part) /\ OnePerPair(PartsHidden)
         /\ \A i \in DOMAIN Parts : Parts[i].rank_server \in ServerRanks
<1>1. /\ layout.sizes \in [RunnerRanks -> Nat] /\ layout.hidden \in [RunnerRanks -> Nat]
      /\ layout.bytes \in Nat \ {0} /\ IsMultiple(sum_vec(layout.sizes), layout.bytes)
  BY DEF LayoutTyped
<1>2. PICK e \in Nat : sum_vec(layout.sizes) = layout.bytes * e
  BY <1>1 DEF IsMultiple
<1>3. Parts \in Seq(Part) /\ OnePerPair(Parts)
  BY <1>1, ListOfParts DEF Parts
<1>4. PartsHidden \in Seq(Part) /\ OnePerPair(PartsHidden)
  BY <1>1, ListOfParts DEF PartsHidden
<1>5. \A i \in DOMAIN Parts : Parts[i].rank_server \in ServerRanks
  BY <1>1, <1>2, RanksOfServer DEF Parts
<1> QED
  BY <1>3, <1>4, <1>5

(* What the two sides find for a part. *)
LEMMA SameParts ==
  ASSUME LayoutTyped, FieldCalculated, field # NoField,
         NEW k, Paired(Parts, PartsHidden, "rank_runner", k), NEW i \in Mine(Parts, "rank_runner", k),
         NEW s, s = Parts[i].rank_server
  PROVE  /\ s \in ServerRanks
         /\ FirstOf(Parts, s, k) = Parts[i] /\ FirstOf(PartsHidden, s, k) = HiddenOf(PartsHidden, i)
<1>1. i \in DOMAIN Parts /\ Parts[i].rank_runner = k
  BY DEF Mine
<1>2. s \in ServerRanks
  BY <1>1, PartsTyped
<1>3. Paired(Parts, PartsHidden, "rank_server", s)
  BY <1>2 DEF FieldCalculated
<1>4. FirstOf(Parts, s, k) = Parts[i]
  BY <1>1, PartsTyped, FirstIsThePart
<1>5. FirstOf(PartsHidden, s, k) = HiddenOf(PartsHidden, i)
  BY <1>1, <1>3, PartsTyped, FirstIsTheHiddenPart
<1> QED
  BY <1>2, <1>4, <1>5

(* A slice is as long as its part.                                          *)
LEMMA FitsSlice ==
  ASSUME NEW part, NEW block, NEW offset
  PROVE  Fits(part, Slice(block, offset, part.send_count))
BY DEF Fits, Slice

-----------------------------------------------------------------------------
(***************************************************************************)
(* The steps.                                                              *)
(***************************************************************************)
LEMMA SameLayout ==
  ASSUME LayoutTyped, UNCHANGED layout
  PROVE  LayoutTyped' /\ Parts' = Parts /\ PartsHidden' = PartsHidden
BY DEF LayoutTyped, Parts, PartsHidden

(* The lists depend on the layout alone, and with them what fits.           *)
LEMMA SameFromRunner ==
  ASSUME Parts' = Parts, PartsHidden' = PartsHidden
  PROVE  \A m : FromRunner(m)' <=> FromRunner(m)
BY DEF FromRunner

(* The same for the answers.                                                *)
LEMMA SameFromServer ==
  ASSUME Parts' = Parts, PartsHidden' = PartsHidden, field' # NoField
  PROVE  \A m : FromServer(m) => FromServer(m)'
BY DEF FromServer

(* A step that leaves the field alone.                                      *)
LEMMA FieldKept ==
  ASSUME LayoutTyped, UNCHANGED <<layout, field>>, FieldCalculated
  PROVE  FieldCalculated'
BY SameLayout DEF FieldCalculated

(* A step that leaves the connections alone.                                *)
LEMMA ConnectionsKept ==
  ASSUME LayoutTyped, UNCHANGED <<layout, connected_server_ranks>>, ConnectionsCalculated
  PROVE  ConnectionsCalculated'
BY SameLayout DEF ConnectionsCalculated, Connection

(* Messages keep their length.                                              *)
LEMMA MessagesKept ==
  ASSUME LayoutTyped, UNCHANGED <<layout, field>>, MessagesFit
  PROVE  \A m \in wire : (m.to = "server" /\ FromRunner(m)') \/ (m.to = "runner" /\ FromServer(m)')
BY SameLayout DEF MessagesFit, FromRunner, FromServer

(* The server calculates its parts.                                         *)
LEMMA CalculatesParts ==
  ASSUME Exchanged, broadcast_field_information_and_calculate_parts
  PROVE  Exchanged'
<1>1. /\ LayoutTyped /\ FieldCalculated /\ ConnectionsCalculated /\ MessagesFit /\ SizesAgree
      /\ UNCHANGED <<layout, connected_server_ranks, wire>> /\ failed = {} /\ field = NoField
  BY DEF Exchanged, broadcast_field_information_and_calculate_parts
<1>2. LayoutTyped' /\ Parts' = Parts /\ PartsHidden' = PartsHidden
  BY <1>1, SameLayout
<1>3. ConnectionsCalculated'
  BY <1>1, ConnectionsKept
<1>4. MessagesFit'
  <2>1. \A m \in wire : m.to = "server" /\ FromRunner(m)
    BY <1>1 DEF MessagesFit, FromServer
  <2> QED
    BY <1>1, <1>2, <2>1, SameFromRunner DEF MessagesFit
<1>5. FieldCalculated' /\ SizesAgree'
  <2>1. CASE /\ SameLength(Parts, PartsHidden)
             /\ \A s \in ServerRanks : GoTogether(Parts, PartsHidden, "rank_server", s)
             /\ calculate_parts(Parts, PartsHidden) /\ UNCHANGED failed
    <3>1. field'.parts = Parts /\ field'.parts_hidden = PartsHidden
      BY <2>1 DEF calculate_parts
    <3> QED
      BY <1>1, <1>2, <2>1, <3>1 DEF FieldCalculated, Paired, SizesAgree
  <2>2. CASE failed' = {"server"} /\ UNCHANGED <<field, member>>
    BY <1>1, <2>2, FieldKept DEF SizesAgree
  <2> QED
    BY <2>1, <2>2 DEF broadcast_field_information_and_calculate_parts
<1> QED
  BY <1>2, <1>3, <1>4, <1>5 DEF Exchanged

(* A runner rank connects.                                                  *)
LEMMA Connects ==
  ASSUME Exchanged, NEW k \in RunnerRanks, initConnections(k)
  PROVE  Exchanged'
<1>1. /\ LayoutTyped /\ FieldCalculated /\ ConnectionsCalculated /\ MessagesFit /\ SizesAgree
      /\ UNCHANGED <<layout, field, wire>> /\ failed = {}
  BY DEF Exchanged, initConnections
<1>2. LayoutTyped' /\ Parts' = Parts /\ PartsHidden' = PartsHidden
  BY <1>1, SameLayout
<1>3. FieldCalculated'
  BY <1>1, FieldKept
<1>4. MessagesFit'
  BY <1>1, MessagesKept DEF MessagesFit
<1>5. CASE /\ SameLength(Parts, PartsHidden) /\ GoTogether(Parts, PartsHidden, "rank_runner", k)
           /\ connected_server_ranks' = [connected_server_ranks EXCEPT ![k] =
                {[part |-> Parts[i], hidden |-> HiddenOf(PartsHidden, i)] : i \in Mine(Parts, "rank_runner", k)}]
           /\ UNCHANGED failed
  <2> DEFINE new == {Connection(i) : i \in Mine(Parts, "rank_runner", k)}
  <2>1. connected_server_ranks' = [connected_server_ranks EXCEPT ![k] = new]
    BY <1>5 DEF Connection
  <2>2. \A csr \in new : /\ Paired(Parts, PartsHidden, "rank_runner", k)
                         /\ \E i \in Mine(Parts, "rank_runner", k) : csr = Connection(i)
    BY <1>5 DEF Paired
  <2>3. \A i : Connection(i)' = Connection(i)
    BY <1>2 DEF Connection
  <2> HIDE DEF new
  <2>4. \A j \in RunnerRanks : connected_server_ranks'[j] = IF j = k THEN new ELSE connected_server_ranks[j]
    BY <1>1, <2>1 DEF ConnectionsCalculated
  <2>5. connected_server_ranks' = [j \in RunnerRanks |-> connected_server_ranks'[j]]
    BY <1>1, <2>1 DEF ConnectionsCalculated
  <2>6. ConnectionsCalculated'
    <3>1. \A j \in RunnerRanks : \A csr \in connected_server_ranks'[j] :
            /\ Paired(Parts, PartsHidden, "rank_runner", j)
            /\ \E i \in Mine(Parts, "rank_runner", j) : csr = Connection(i)
      BY <1>1, <2>2, <2>4 DEF ConnectionsCalculated
    <3> QED
      BY <1>2, <2>3, <2>5, <3>1 DEF ConnectionsCalculated
  <2> QED
    BY <1>1, <1>2, <1>3, <1>4, <1>5, <2>6 DEF Exchanged, SizesAgree
<1>6. CASE failed' = {"runner"} /\ UNCHANGED <<connected_server_ranks, at>>
  <2>1. ConnectionsCalculated'
    BY <1>1, <1>6, ConnectionsKept
  <2> QED
    BY <1>2, <1>3, <1>4, <1>6, <2>1 DEF Exchanged, SizesAgree
<1> QED
  BY <1>5, <1>6 DEF initConnections

(* A runner rank sends its parts.                                           *)
LEMMA PutsState ==
  ASSUME Exchanged, NEW k \in RunnerRanks, putState(k)
  PROVE  Exchanged'
<1>1. /\ LayoutTyped /\ FieldCalculated /\ ConnectionsCalculated /\ MessagesFit /\ SizesAgree
      /\ UNCHANGED <<layout, field, connected_server_ranks, failed>>
  BY DEF Exchanged, putState
<1>2. LayoutTyped' /\ Parts' = Parts /\ PartsHidden' = PartsHidden
  BY <1>1, SameLayout
<1>3. FieldCalculated' /\ ConnectionsCalculated' /\ SizesAgree'
  BY <1>1, FieldKept, ConnectionsKept DEF SizesAgree
<1> DEFINE sent(csr) ==
       Message("server", csr.part.rank_server, k,
               Slice(Buffer(memory[k], TRUE), csr.part.local_offset_runner, csr.part.send_count),
               Slice(Buffer(memory[k], FALSE), csr.hidden.local_offset_runner, csr.hidden.send_count))
<1>4. wire' = wire \cup {sent(csr) : csr \in connected_server_ranks[k]}
  BY DEF putState
<1>5. ASSUME NEW csr \in connected_server_ranks[k]
      PROVE  sent(csr).to = "server" /\ FromRunner(sent(csr))
  <2>1. Paired(Parts, PartsHidden, "rank_runner", k)
    BY <1>1, <1>5 DEF ConnectionsCalculated
  <2>2. PICK i \in Mine(Parts, "rank_runner", k) : csr = Connection(i)
    BY <1>1, <1>5 DEF ConnectionsCalculated
  <2>3. csr.part = Parts[i] /\ csr.hidden = HiddenOf(PartsHidden, i)
    BY <2>2 DEF Connection
  <2> DEFINE m == sent(csr)
  <2>4. /\ m.to = "server" /\ m.rank_runner = k /\ m.rank_server = csr.part.rank_server
        /\ m.values = Slice(Buffer(memory[k], TRUE), csr.part.local_offset_runner, csr.part.send_count)
        /\ m.hidden = Slice(Buffer(memory[k], FALSE), csr.hidden.local_offset_runner, csr.hidden.send_count)
    BY DEF Message
  <2> HIDE DEF m
  <2>5. Fits(csr.part, m.values) /\ Fits(csr.hidden, m.hidden)
    BY <2>4, FitsSlice
  <2>6. m.rank_server = Parts[i].rank_server /\ Fits(Parts[i], m.values) /\ Fits(HiddenOf(PartsHidden, i), m.hidden)
    BY <2>3, <2>4, <2>5
  <2>7. FromRunner(m)
    BY <2>1, <2>4, <2>6 DEF FromRunner
  <2> QED
    BY <2>4, <2>7 DEF m
<1> HIDE DEF sent
<1>6. MessagesFit'
  <2>1. \A m \in wire : (m.to = "server" /\ FromRunner(m)') \/ (m.to = "runner" /\ FromServer(m)')
    BY <1>1, MessagesKept
  <2> DEFINE new == {sent(csr) : csr \in connected_server_ranks[k]}
  <2>2. \A m \in new : m.to = "server" /\ FromRunner(m)
    BY <1>5
  <2>3. wire' = wire \cup new
    BY <1>4
  <2> HIDE DEF new
  <2>4. \A m \in new : m.to = "server" /\ FromRunner(m)'
    BY <1>2, <2>2, SameFromRunner
  <2> QED
    BY <2>1, <2>3, <2>4 DEF MessagesFit
<1> QED
  BY <1>2, <1>3, <1>6 DEF Exchanged

(* A server rank takes a part: it finds the one the runner has cut.         *)
LEMMA Stores ==
  ASSUME Exchanged, NEW m \in wire, store_background_state_part(m)
  PROVE  Exchanged'
<1>1. /\ LayoutTyped /\ FieldCalculated /\ ConnectionsCalculated /\ MessagesFit /\ SizesAgree
      /\ UNCHANGED <<layout, field, connected_server_ranks>>
      /\ field # NoField /\ m.to = "server" /\ wire' = wire \ {m}
  BY DEF Exchanged, store_background_state_part
<1>2. LayoutTyped'
  BY <1>1, SameLayout
<1>3. FieldCalculated' /\ ConnectionsCalculated'
  BY <1>1, FieldKept, ConnectionsKept
<1>4. MessagesFit'
  BY <1>1, MessagesKept DEF MessagesFit
<1>5. FromRunner(m)
  BY <1>1 DEF MessagesFit
<1>6. PICK i \in Mine(Parts, "rank_runner", m.rank_runner) :
        /\ m.rank_server = Parts[i].rank_server
        /\ Fits(Parts[i], m.values) /\ Fits(HiddenOf(PartsHidden, i), m.hidden)
  BY <1>5 DEF FromRunner
<1>7. Paired(Parts, PartsHidden, "rank_runner", m.rank_runner)
  BY <1>5 DEF FromRunner
<1>8. /\ FirstOf(Parts, m.rank_server, m.rank_runner) = Parts[i]
      /\ FirstOf(PartsHidden, m.rank_server, m.rank_runner) = HiddenOf(PartsHidden, i)
  BY <1>1, <1>6, <1>7, SameParts
<1>9. field.parts = Parts /\ field.parts_hidden = PartsHidden
  BY <1>1 DEF FieldCalculated
<1>10. /\ Fits(getPart(m.rank_server, m.rank_runner), m.values)
       /\ Fits(getPartHidden(m.rank_server, m.rank_runner), m.hidden)
  BY <1>6, <1>8, <1>9 DEF getPart, getPartHidden
<1>11. UNCHANGED failed
  BY <1>10 DEF store_background_state_part
<1> QED
  BY <1>1, <1>2, <1>3, <1>4, <1>11 DEF Exchanged, SizesAgree

(* The server answers.                                                      *)
LEMMA Updates ==
  ASSUME Exchanged, Update
  PROVE  Exchanged'
<1>1. /\ LayoutTyped /\ FieldCalculated /\ ConnectionsCalculated /\ MessagesFit /\ SizesAgree
      /\ UNCHANGED <<layout, field, connected_server_ranks, failed>> /\ field # NoField
      /\ wire' = wire \cup {launch_sub_task(do_update_step, p[1], p[2]) : p \in stored}
  BY DEF Exchanged, Update, AllStored
<1>2. LayoutTyped' /\ Parts' = Parts /\ PartsHidden' = PartsHidden
  BY <1>1, SameLayout
<1>3. FieldCalculated' /\ ConnectionsCalculated' /\ SizesAgree'
  BY <1>1, FieldKept, ConnectionsKept DEF SizesAgree
<1>4. ASSUME NEW updated, NEW s, NEW k
      PROVE  LET m == launch_sub_task(updated, s, k) IN m.to = "runner" /\ FromServer(m)
  <2> DEFINE m == launch_sub_task(updated, s, k)
  <2>1. field.parts = Parts /\ field.parts_hidden = PartsHidden
    BY <1>1 DEF FieldCalculated
  <2>2. /\ m.to = "runner" /\ m.rank_server = s /\ m.rank_runner = k
        /\ m.values = Slice(updated[s].analysis, getPart(s, k).local_offset_server, getPart(s, k).send_count)
        /\ m.hidden = Slice(updated[s].hidden, getPartHidden(s, k).local_offset_server, getPartHidden(s, k).send_count)
    BY DEF launch_sub_task, Message
  <2>3. getPart(s, k) = FirstOf(Parts, s, k) /\ getPartHidden(s, k) = FirstOf(PartsHidden, s, k)
    BY <2>1 DEF getPart, getPartHidden
  <2> HIDE DEF m
  <2>4. Fits(getPart(s, k), m.values) /\ Fits(getPartHidden(s, k), m.hidden)
    BY <2>2, FitsSlice
  <2>5. FromServer(m)
    BY <1>1, <2>2, <2>3, <2>4 DEF FromServer
  <2> QED
    BY <2>2, <2>5 DEF m
<1>5. MessagesFit'
  <2>1. \A m \in wire : (m.to = "server" /\ FromRunner(m)') \/ (m.to = "runner" /\ FromServer(m)')
    BY <1>1, MessagesKept
  <2> DEFINE new == {launch_sub_task(do_update_step, p[1], p[2]) : p \in stored}
  <2>2. \A m \in new : m.to = "runner" /\ FromServer(m)
    BY <1>4
  <2>3. wire' = wire \cup new
    BY <1>1
  <2> HIDE DEF new
  <2>4. field' # NoField
    BY <1>1
  <2>5. \A m \in new : m.to = "runner" /\ FromServer(m)'
    BY <1>2, <2>2, <2>4, SameFromServer
  <2> QED
    BY <2>1, <2>3, <2>5 DEF MessagesFit
<1> QED
  BY <1>2, <1>3, <1>5 DEF Exchanged

(* A runner rank puts the answers together.                                 *)
LEMMA GetsState ==
  ASSUME Exchanged, NEW k \in RunnerRanks, getState(k)
  PROVE  Exchanged'
<1>1. /\ LayoutTyped /\ FieldCalculated /\ ConnectionsCalculated /\ MessagesFit /\ SizesAgree
      /\ UNCHANGED <<layout, field, connected_server_ranks>>
      /\ wire' = wire \ {Received(k, csr) : csr \in connected_server_ranks[k]}
  BY DEF Exchanged, getState
<1>2. LayoutTyped'
  BY <1>1, SameLayout
<1>3. FieldCalculated' /\ ConnectionsCalculated'
  BY <1>1, FieldKept, ConnectionsKept
<1>4. MessagesFit'
  <2>1. \A m \in wire' : m \in wire
    BY <1>1
  <2> QED
    BY <1>1, <2>1, MessagesKept DEF MessagesFit
<1>5. ASSUME NEW csr \in connected_server_ranks[k]
      PROVE  Fits(csr.part, Received(k, csr).values) /\ Fits(csr.hidden, Received(k, csr).hidden)
  <2> DEFINE m == Received(k, csr)
  <2>1. m \in wire /\ m.to = "runner" /\ m.rank_runner = k /\ m.rank_server = csr.part.rank_server
    <3>1. \E n \in wire : n.to = "runner" /\ n.rank_runner = k /\ n.rank_server = csr.part.rank_server
      BY DEF getState
    <3> QED
      BY <3>1 DEF Received
  <2> HIDE DEF m
  <2>2. FromServer(m)
    BY <1>1, <2>1 DEF MessagesFit
  <2>3. PICK i \in Mine(Parts, "rank_runner", k) : csr = Connection(i)
    BY <1>1, <1>5 DEF ConnectionsCalculated
  <2>4. Paired(Parts, PartsHidden, "rank_runner", k)
    BY <1>1, <1>5 DEF ConnectionsCalculated
  <2>5. csr.part = Parts[i] /\ csr.hidden = HiddenOf(PartsHidden, i)
    BY <2>3 DEF Connection
  <2>6. field # NoField
    BY <2>2 DEF FromServer
  <2>7. m.rank_server = Parts[i].rank_server
    BY <2>1, <2>5
  <2>8. /\ FirstOf(Parts, m.rank_server, k) = csr.part
        /\ FirstOf(PartsHidden, m.rank_server, k) = csr.hidden
    BY <1>1, <2>4, <2>5, <2>6, <2>7, SameParts
  <2>9. Fits(csr.part, m.values) /\ Fits(csr.hidden, m.hidden)
    BY <2>1, <2>2, <2>8 DEF FromServer
  <2> QED
    BY <2>9 DEF m
<1>6. UNCHANGED failed
  BY <1>5 DEF getState
<1> QED
  BY <1>1, <1>2, <1>3, <1>4, <1>6 DEF Exchanged, SizesAgree

(* Every step.                                                              *)
LEMMA Exchanges ==
  ASSUME Exchanged, [Next]_vars
  PROVE  Exchanged'
<1>1. CASE broadcast_field_information_and_calculate_parts
  BY <1>1, CalculatesParts
<1>2. ASSUME NEW k \in RunnerRanks, initConnections(k) PROVE Exchanged'
  BY <1>2, Connects
<1>3. ASSUME NEW k \in RunnerRanks, putState(k) PROVE Exchanged'
  BY <1>3, PutsState
<1>4. ASSUME NEW k \in RunnerRanks, getState(k) PROVE Exchanged'
  BY <1>4, GetsState
<1>5. ASSUME NEW m \in wire, store_background_state_part(m) PROVE Exchanged'
  BY <1>5, Stores
<1>6. CASE Update
  BY <1>6, Updates
<1>7. CASE UNCHANGED vars
  <2>1. /\ LayoutTyped /\ FieldCalculated /\ ConnectionsCalculated /\ MessagesFit /\ SizesAgree
        /\ UNCHANGED <<layout, field, connected_server_ranks, failed, wire>>
    BY <1>7 DEF Exchanged, vars
  <2>2. LayoutTyped' /\ FieldCalculated' /\ ConnectionsCalculated' /\ SizesAgree'
    BY <2>1, SameLayout, FieldKept, ConnectionsKept DEF SizesAgree
  <2>3. MessagesFit'
    BY <2>1, MessagesKept DEF MessagesFit
  <2> QED
    BY <2>2, <2>3 DEF Exchanged
<1> QED
  BY <1>1, <1>2, <1>3, <1>4, <1>5, <1>6, <1>7 DEF Next

(* The initial states.                                                      *)
LEMMA ExchangedAtFirst ==
  ASSUME Init
  PROVE  Exchanged
<1>1. /\ field = NoField /\ connected_server_ranks = [k \in RunnerRanks |-> {}] /\ wire = {} /\ failed = {}
  BY DEF Init
<1>2. FieldCalculated /\ ConnectionsCalculated /\ MessagesFit /\ SizesAgree
  BY <1>1 DEF FieldCalculated, ConnectionsCalculated, MessagesFit, SizesAgree
<1> QED
  BY <1>2, InitTyped DEF Exchanged

(* Whatever passes the assertions of calculate_parts and initConnections   *)
(* about hidden parts can be exchanged: no check of                        *)
(* store_background_state_part or getState on the length of what arrives   *)
(* fails, in any order of the ranks' steps, also with empty blocks.        *)
THEOREM SizesAlwaysAgree == Spec => []SizesAgree
<1>1. Init => Exchanged
  BY ExchangedAtFirst
<1>2. Exchanged /\ [Next]_vars => Exchanged'
  BY Exchanges
<1>3. Exchanged => SizesAgree
  BY DEF Exchanged
<1> QED
  BY <1>1, <1>2, <1>3, PTL DEF Spec

(* calculate_n_to_m gives both sides the overlaps of their blocks, each    *)
(* with its offsets, and nothing else: no byte is left out or sent twice.  *)
(* An empty block in front of another one is excluded: its size minus one  *)
(* is the largest size_t, the walk stays on it, and the parts are wrong.   *)
THEOREM PartsAlwaysOverlap ==
  ASSUME EmptyBlocksLast
  PROVE  Spec => []PartsAreOverlaps
<1> DEFINE IInv == Exchanged /\ LayoutSolid
<1>1. Init => IInv
  BY ExchangedAtFirst, InitSolid
<1>2. IInv /\ [Next]_vars => IInv'
  <2>1. [Next]_vars => UNCHANGED layout
    BY DEF Next, vars, broadcast_field_information_and_calculate_parts, initConnections, putState, getState,
           store_background_state_part, Update
  <2>2. LayoutSolid /\ UNCHANGED layout => LayoutSolid'
    BY DEF LayoutSolid, Solid
  <2> QED
    BY <2>1, <2>2, Exchanges
<1>3. IInv => PartsAreOverlaps
  <2>1. SUFFICES ASSUME Exchanged, LayoutSolid, field # NoField
                 PROVE  /\ ToSet(field.parts) = Overlaps(layout.sizes, layout.bytes)
                        /\ ToSet(field.parts_hidden) = Overlaps(layout.hidden, layout.bytes_hidden)
    BY DEF PartsAreOverlaps
  <2>2. field.parts = Parts /\ field.parts_hidden = PartsHidden /\ LayoutTyped
    BY <2>1 DEF Exchanged, FieldCalculated
  <2>3. ToSet(Parts) = Overlaps(layout.sizes, layout.bytes)
    <3>1. PICK e \in Nat : sum_vec(layout.sizes) = layout.bytes * e
      BY <2>2 DEF LayoutTyped, IsMultiple
    <3>2. layout.bytes \in Nat \ {0} /\ Solid(layout.sizes, RunnerSize)
      BY <2>1, <2>2 DEF LayoutTyped, LayoutSolid
    <3> QED
      BY <3>1, <3>2, PartsAre DEF Parts
  <2>4. ToSet(PartsHidden) = Overlaps(layout.hidden, layout.bytes_hidden)
    <3>1. PICK e \in Nat : sum_vec(layout.hidden) = layout.bytes_hidden * e
      BY <2>2 DEF LayoutTyped, IsMultiple
    <3>2. layout.bytes_hidden \in Nat \ {0} /\ Solid(layout.hidden, RunnerSize)
      BY <2>1, <2>2 DEF LayoutTyped, LayoutSolid
    <3> QED
      BY <3>1, <3>2, PartsAre DEF PartsHidden
  <2> QED
    BY <2>2, <2>3, <2>4
<1> QED
  BY <1>1, <1>2, <1>3, PTL DEF Spec
=============================================================================
