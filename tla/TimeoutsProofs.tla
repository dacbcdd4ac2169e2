--------------------------- MODULE TimeoutsProofs ---------------------------
(***************************************************************************)
(* Proofs about Timeouts for any number of integers of any widths, any     *)
(* number of values of a byte and any window of the stream.                *)
(*                                                                         *)
(* First the codec: its functions are recursive, so that induction over    *)
(* the bytes is needed.  It is stated of sets of natural numbers, from     *)
(* well-foundedness.  Then an invariant that says what is on the wire, and *)
(* from it that the integers arrive and that calls keep their contract.    *)
(***************************************************************************)
EXTENDS Timeouts, WellFoundedInduction, SequenceTheorems, TLAPS

\* The assumption, taken apart.
LEMMA Constants ==
  /\ Base \in Nat /\ Base >= 2
  /\ Window \in Nat /\ Window >= 1
  /\ Len(Format) \in Nat /\ Turn = 1 .. Len(Format)
  /\ \A i \in Turn : Format[i].width \in Nat /\ Format[i].width >= 1 /\ Format[i].signed \in BOOLEAN
<1> DEFINE Entry == [width : Nat \ {0}, signed : BOOLEAN]
<1>1. /\ Format \in Seq(Entry)
      /\ Base \in Nat \ {0, 1} /\ Window \in Nat \ {0}
  BY TimeoutsAssumption DEF TimeoutsAssumption
<1>2. Len(Format) \in Nat /\ DOMAIN Format = 1 .. Len(Format)
  BY <1>1
<1>3. \A i \in Turn : Format[i] \in Entry
  <2> HIDE DEF Entry
  <2> QED
    BY <1>1, <1>2 DEF Turn
<1> QED
  BY <1>1, <1>2, <1>3 DEF Turn

-----------------------------------------------------------------------------
(* Induction, as a fact about sets of natural numbers *)

Smaller == {ss \in Nat \X Nat : ss[1] < ss[2]}

LEMMA SmallerWellFounded == IsWellFoundedOn(Smaller, Nat)
BY NatLessThanWellFounded DEF OpToRel, Smaller

LEMMA Induction ==
  ASSUME NEW S, 0 \in S, \A n \in Nat : n \in S => n + 1 \in S
  PROVE  \A n \in Nat : n \in S
<1> DEFINE T == {n \in Nat : n \notin S}
<1> SUFFICES ASSUME T # {} PROVE FALSE
  OBVIOUS
<1>1. PICK n \in T : \A m \in T : <<m, n>> \notin Smaller
  BY SmallerWellFounded, WFMin
<1>2. n \in Nat /\ n # 0
  OBVIOUS
<1>3. n - 1 \in Nat /\ <<n - 1, n>> \in Smaller
  BY <1>2 DEF Smaller
<1> QED
  BY <1>1, <1>2, <1>3

\* The same up to a bound.
LEMMA BoundedInduction ==
  ASSUME NEW n \in Nat, NEW S, 0 \in S, \A i \in 0 .. n - 1 : i \in S => i + 1 \in S
  PROVE  \A i \in 0 .. n : i \in S
<1> DEFINE T == {i \in Nat : i <= n => i \in S}
<1>1. 0 \in T
  OBVIOUS
<1>2. \A i \in Nat : i \in T => i + 1 \in T
  OBVIOUS
<1> HIDE DEF T
<1>3. \A i \in Nat : i \in T
  BY <1>1, <1>2, Induction
<1> QED
  BY <1>3 DEF T

\* f is computed by recursion on the numbers up to n, and there is such a function.
Computed(f, n, first, step) ==
  f[0] = first /\ \A i \in 1 .. n : f[i] = step[<<f[i - 1], i>>]

LEMMA Recursion ==
  ASSUME NEW n \in Nat, NEW S, NEW first \in S, NEW step \in [S \X Nat -> S]
  PROVE  \E f \in [0 .. n -> S] : Computed(f, n, first, step)
<1> DEFINE Good(m, f) == Computed(f, m, first, step)
           T == {m \in Nat : \E f \in [0 .. m -> S] : Good(m, f)}
<1>1. 0 \in T
  <2>1. [i \in 0 .. 0 |-> first] \in [0 .. 0 -> S] /\ Good(0, [i \in 0 .. 0 |-> first])
    BY DEF Computed
  <2> QED
    BY <2>1
<1>2. ASSUME NEW m \in Nat, m \in T PROVE m + 1 \in T
  <2>1. PICK f \in [0 .. m -> S] : Good(m, f)
    BY <1>2
  <2> DEFINE g == [i \in 0 .. m + 1 |-> IF i = m + 1 THEN step[<<f[m], m + 1>>] ELSE f[i]]
  <2>2. step[<<f[m], m + 1>>] \in S
    OBVIOUS
  <2>3. g \in [0 .. m + 1 -> S]
    BY <2>2
  <2>4. \A i \in 0 .. m : g[i] = f[i]
    OBVIOUS
  <2>5. g[m + 1] = step[<<f[m], m + 1>>] /\ g[m] = f[m]
    OBVIOUS
  <2> HIDE DEF g
  <2>6. ASSUME NEW i \in 1 .. m + 1 PROVE g[i] = step[<<g[i - 1], i>>]
    <3>1. CASE i = m + 1
      <4>1. i - 1 = m
        BY <3>1
      <4> QED
        BY <2>5, <3>1, <4>1
    <3>2. CASE i \in 1 .. m
      <4>1. i \in 0 .. m /\ i - 1 \in 0 .. m
        BY <3>2
      <4> QED
        BY <2>1, <2>4, <3>2, <4>1 DEF Computed
    <3> QED
      BY <3>1, <3>2
  <2>7. g[0] = first
    BY <2>1, <2>4 DEF Computed
  <2> QED
    BY <2>3, <2>6, <2>7 DEF Computed
<1> HIDE DEF T
<1>3. n \in T
  BY <1>1, <1>2, Induction
<1> QED
  BY <1>3 DEF T

-----------------------------------------------------------------------------
(* The codec *)

\* Values is computed one byte after the other.
LEMMA ValuesAre ==
  ASSUME NEW w \in Nat
  PROVE  \E v \in [0 .. w -> Nat] :
           /\ v[0] = 1 /\ v[w] = Values(w)
           /\ \A i \in 1 .. w : v[i] = Base * v[i - 1]
<1> DEFINE step == [x \in Nat \X Nat |-> Base * x[1]]
           values[i \in 0 .. w] == IF i = 0 THEN 1 ELSE Base * values[i - 1]
<1>1. step \in [Nat \X Nat -> Nat] /\ \A x, i \in Nat : step[<<x, i>>] = Base * x
  BY Constants
<1> HIDE DEF step, values
<1>2. 1 \in Nat
  OBVIOUS
<1>3. PICK v \in [0 .. w -> Nat] : Computed(v, w, 1, step)
  BY <1>1, <1>2, Recursion
<1>4. \A i \in 1 .. w : v[i - 1] \in Nat /\ i \in Nat
  OBVIOUS
<1>5. v[0] = 1 /\ \A i \in 1 .. w : v[i] = Base * v[i - 1]
  BY <1>1, <1>3, <1>4 DEF Computed
<1>6. \A i \in 0 .. w : v[i] = IF i = 0 THEN 1 ELSE Base * v[i - 1]
  BY <1>5
<1>7. v = [i \in 0 .. w |-> IF i = 0 THEN 1 ELSE Base * v[i - 1]]
  BY <1>6
<1>8. values = [i \in 0 .. w |-> IF i = 0 THEN 1 ELSE Base * values[i - 1]]
  BY <1>7, Zenon DEF values
<1>9. Values(w) = values[w]
  BY DEF Values, values
<1>10. ASSUME NEW i \in 0 .. w PROVE values[i] = IF i = 0 THEN 1 ELSE Base * values[i - 1]
  BY <1>8
<1> DEFINE T == {i \in 0 .. w : values[i] = v[i]}
<1>11. 0 \in T
  BY <1>5, <1>10
<1>12. ASSUME NEW i \in 0 .. w - 1, i \in T PROVE i + 1 \in T
  <2>1. i + 1 \in 0 .. w /\ i + 1 # 0 /\ i + 1 \in 1 .. w /\ (i + 1) - 1 = i
    OBVIOUS
  <2> QED
    BY <1>5, <1>10, <1>12, <2>1
<1> HIDE DEF T
<1>13. \A i \in 0 .. w : i \in T
  BY <1>11, <1>12, BoundedInduction
<1> QED
  BY <1>5, <1>9, <1>13 DEF T

LEMMA ValuesPositive ==
  ASSUME NEW w \in Nat
  PROVE  Values(w) \in Nat /\ Values(w) > 0
<1>1. PICK size \in [0 .. w -> Nat] :
           /\ size[0] = 1 /\ size[w] = Values(w)
           /\ \A i \in 1 .. w : size[i] = Base * size[i - 1]
  BY ValuesAre
<1> DEFINE Positive == {i \in 0 .. w : size[i] > 0}
<1>2. 0 \in Positive
  BY <1>1
<1>3. ASSUME NEW i \in 0 .. w - 1, i \in Positive PROVE i + 1 \in Positive
  <2>1. i + 1 \in 1 .. w /\ i + 1 \in 0 .. w /\ i \in 0 .. w /\ (i + 1) - 1 = i
    OBVIOUS
  <2>2. size[i + 1] = Base * size[i] /\ size[i] \in Nat /\ size[i] > 0
    BY <1>1, <1>3, <2>1
  <2>3. Base * size[i] > 0
    BY <2>2, Constants
  <2> QED
    BY <2>1, <2>2, <2>3
<1> HIDE DEF Positive
<1>4. \A i \in 0 .. w : i \in Positive
  BY <1>2, <1>3, BoundedInduction
<1> QED
  BY <1>1, <1>4 DEF Positive

\* The shifts of EncodeBigEndian, and that nothing is left after the last one.
LEMMA ShiftsAre ==
  ASSUME NEW f \in [width : Nat \ {0}, signed : BOOLEAN], NEW n \in Int
  PROVE  \E v \in [0 .. f.width -> Nat] :
           /\ v[0] = n % Values(f.width) /\ v[f.width] = 0
           /\ \A i \in 1 .. f.width : v[i] = v[i - 1] \div Base
           /\ EncodeBigEndian(n, f) = [i \in 1 .. f.width |-> v[f.width - i] % Base]
<1> DEFINE w == f.width
           first == n % Values(w)
           step == [x \in Nat \X Nat |-> x[1] \div Base]
           shifted[i \in 0 .. w] == IF i = 0 THEN first ELSE shifted[i - 1] \div Base
<1>1. w \in Nat
  OBVIOUS
<1>2. EncodeBigEndian(n, f) = [i \in 1 .. w |-> shifted[w - i] % Base]
  BY DEF EncodeBigEndian
<1> HIDE DEF w
<1>3. PICK size \in [0 .. w -> Nat] :
           /\ size[0] = 1 /\ size[w] = Values(w)
           /\ \A i \in 1 .. w : size[i] = Base * size[i - 1]
  BY <1>1, ValuesAre
<1>7. Values(w) \in Nat /\ Values(w) > 0
  BY <1>1, ValuesPositive
<1>8. first \in Nat /\ first < Values(w)
  BY <1>7
<1>9. step \in [Nat \X Nat -> Nat] /\ \A x, i \in Nat : step[<<x, i>>] = x \div Base
  <2>1. \A x \in Nat : x \div Base \in Nat
    BY Constants
  <2> QED
    BY <2>1
<1> HIDE DEF step, shifted, first
<1>10. PICK v \in [0 .. w -> Nat] : Computed(v, w, first, step)
  BY <1>1, <1>8, <1>9, Recursion
<1>11. \A i \in 1 .. w : v[i - 1] \in Nat /\ i \in Nat
  BY <1>1
<1>12. v[0] = first /\ \A i \in 1 .. w : v[i] = v[i - 1] \div Base
  BY <1>9, <1>10, <1>11 DEF Computed
<1>13. v = [i \in 0 .. w |-> IF i = 0 THEN first ELSE v[i - 1] \div Base]
  <2>1. \A i \in 0 .. w : i = 0 \/ i \in 1 .. w
    BY <1>1
  <2> QED
    BY <1>12, <2>1
<1>14. shifted = [i \in 0 .. w |-> IF i = 0 THEN first ELSE shifted[i - 1] \div Base]
  BY <1>13, Zenon DEF shifted
<1>15. ASSUME NEW i \in 0 .. w
       PROVE  shifted[i] = IF i = 0 THEN first ELSE shifted[i - 1] \div Base
  BY <1>14
<1> DEFINE Same == {i \in 0 .. w : shifted[i] = v[i]}
<1>16. 0 \in Same
  BY <1>1, <1>12, <1>15
<1>17. ASSUME NEW i \in 0 .. w - 1, i \in Same PROVE i + 1 \in Same
  <2>1. i + 1 \in 0 .. w /\ i + 1 # 0 /\ i + 1 \in 1 .. w /\ (i + 1) - 1 = i
    BY <1>1
  <2> QED
    BY <1>12, <1>15, <1>17, <2>1
<1> HIDE DEF Same
<1>18. \A i \in 0 .. w : i \in Same
  BY <1>1, <1>16, <1>17, BoundedInduction
<1>19. EncodeBigEndian(n, f) = [i \in 1 .. w |-> v[w - i] % Base]
  <2>1. \A i \in 1 .. w : w - i \in 0 .. w
    BY <1>1
  <2>2. \A i \in 1 .. w : shifted[w - i] = v[w - i]
    BY <1>18, <2>1 DEF Same
  <2> QED
    BY <1>2, <2>2
\* Every shift takes one factor away from the bound.
<1> DEFINE Bounded == {i \in 0 .. w : v[i] < size[w - i]}
<1>20. 0 \in Bounded
  BY <1>1, <1>3, <1>8, <1>12
<1>21. ASSUME NEW i \in 0 .. w - 1, i \in Bounded PROVE i + 1 \in Bounded
  <2>1. /\ i + 1 \in 1 .. w /\ i + 1 \in 0 .. w /\ (i + 1) - 1 = i /\ i \in 0 .. w
        /\ w - i \in 1 .. w /\ (w - i) - 1 = w - (i + 1) /\ w - (i + 1) \in 0 .. w
    BY <1>1
  <2>2. v[i + 1] = v[i] \div Base /\ v[i] \in Nat
    BY <1>12, <2>1
  <2>3. size[w - i] = Base * size[w - (i + 1)] /\ size[w - (i + 1)] \in Nat
    BY <1>3, <2>1
  <2>4. v[i] < Base * size[w - (i + 1)]
    BY <1>21, <2>3
  <2>5. \A x, y \in Nat : x < Base * y => x \div Base < y
    BY Constants
  <2> QED
    BY <2>1, <2>2, <2>3, <2>4, <2>5
<1> HIDE DEF Bounded
<1>22. \A i \in 0 .. w : i \in Bounded
  BY <1>1, <1>20, <1>21, BoundedInduction
<1>23. v[w] = 0
  <2>1. w \in 0 .. w /\ w - w = 0 /\ v[w] \in Nat
    BY <1>1
  <2>2. v[w] < size[0] /\ size[0] = 1
    BY <1>3, <1>22, <2>1 DEF Bounded
  <2> QED
    BY <2>1, <2>2
<1> QED
  BY <1>12, <1>19, <1>23 DEF w, first

\* The sums of DecodeUnsigned.
LEMMA DecodedAre ==
  ASSUME NEW data \in Seq(Nat)
  PROVE  \E v \in [0 .. Len(data) -> Nat] :
           /\ v[0] = 0 /\ v[Len(data)] = DecodeUnsigned(data)
           /\ \A i \in 1 .. Len(data) : v[i] = v[i - 1] * Base + data[i]
<1> DEFINE w == Len(data)
           step == [x \in Nat \X Nat |-> x[1] * Base + IF x[2] \in 1 .. w THEN data[x[2]] ELSE 0]
           value[i \in 0 .. w] == IF i = 0 THEN 0 ELSE value[i - 1] * Base + data[i]
<1>1. w \in Nat /\ \A i \in 1 .. w : data[i] \in Nat
  OBVIOUS
<1>2. DecodeUnsigned(data) = value[w]
  BY DEF DecodeUnsigned
<1> HIDE DEF w, value
<1>3. /\ step \in [Nat \X Nat -> Nat]
      /\ \A x \in Nat, i \in 1 .. w : step[<<x, i>>] = x * Base + data[i]
  <2>1. \A x, y \in Nat : x * Base + y \in Nat
    BY Constants
  <2>2. \A i \in Nat : (IF i \in 1 .. w THEN data[i] ELSE 0) \in Nat
    BY <1>1
  <2>3. \A i \in 1 .. w : i \in Nat
    BY <1>1
  <2> QED
    BY <2>1, <2>2, <2>3
<1> HIDE DEF step
<1>4. 0 \in Nat
  OBVIOUS
<1>5. PICK v \in [0 .. w -> Nat] : Computed(v, w, 0, step)
  BY <1>1, <1>3, <1>4, Recursion
<1>6. \A i \in 1 .. w : v[i - 1] \in Nat
  BY <1>1
<1>7. v[0] = 0 /\ \A i \in 1 .. w : v[i] = v[i - 1] * Base + data[i]
  BY <1>3, <1>5, <1>6 DEF Computed
<1>8. v = [i \in 0 .. w |-> IF i = 0 THEN 0 ELSE v[i - 1] * Base + data[i]]
  <2>1. \A i \in 0 .. w : i = 0 \/ i \in 1 .. w
    BY <1>1
  <2> QED
    BY <1>7, <2>1
<1>9. value = [i \in 0 .. w |-> IF i = 0 THEN 0 ELSE value[i - 1] * Base + data[i]]
  BY <1>8, Zenon DEF value
<1>10. ASSUME NEW i \in 0 .. w
       PROVE  value[i] = IF i = 0 THEN 0 ELSE value[i - 1] * Base + data[i]
  BY <1>9
<1> DEFINE Same == {i \in 0 .. w : value[i] = v[i]}
<1>11. 0 \in Same
  BY <1>1, <1>7, <1>10
<1>12. ASSUME NEW i \in 0 .. w - 1, i \in Same PROVE i + 1 \in Same
  <2>1. i + 1 \in 0 .. w /\ i + 1 # 0 /\ i + 1 \in 1 .. w /\ (i + 1) - 1 = i
    BY <1>1
  <2> QED
    BY <1>7, <1>10, <1>12, <2>1
<1> HIDE DEF Same
<1>13. \A i \in 0 .. w : i \in Same
  BY <1>1, <1>11, <1>12, BoundedInduction
<1>14. v[0] = 0 /\ v[w] = DecodeUnsigned(data)
  BY <1>1, <1>2, <1>7, <1>13 DEF Same
<1> QED
  BY <1>7, <1>14 DEF w

\* An encoded integer has its bytes.
LEMMA EncodedType ==
  ASSUME NEW f \in [width : Nat \ {0}, signed : BOOLEAN], NEW n \in Int
  PROVE  /\ EncodeBigEndian(n, f) \in Seq(0 .. Base - 1)
         /\ Len(EncodeBigEndian(n, f)) = f.width
<1>1. PICK v \in [0 .. f.width -> Nat] :
           EncodeBigEndian(n, f) = [i \in 1 .. f.width |-> v[f.width - i] % Base]
  BY ShiftsAre
<1>2. f.width \in Nat
  OBVIOUS
<1>3. \A i \in 1 .. f.width : v[f.width - i] % Base \in 0 .. Base - 1
  <2>1. \A i \in 1 .. f.width : v[f.width - i] \in Nat
    BY <1>2
  <2>2. \A x \in Nat : x % Base \in 0 .. Base - 1
    BY Constants
  <2> QED
    BY <2>1, <2>2
<1>4. EncodeBigEndian(n, f) \in [1 .. f.width -> 0 .. Base - 1]
  BY <1>1, <1>3
<1> DEFINE w == f.width
           Byte == 0 .. Base - 1
<1>5. ASSUME NEW e \in [1 .. w -> Byte] PROVE e \in Seq(Byte) /\ Len(e) = w
  <2> HIDE DEF w, Byte
  <2> QED
    BY <1>2 DEF w
<1> QED
  BY <1>4, <1>5

\* What EncodeBigEndian has shifted away DecodeBigEndian puts together again.
LEMMA UnsignedRoundTrip ==
  ASSUME NEW f \in [width : Nat \ {0}, signed : BOOLEAN], NEW n \in Int
  PROVE  DecodeUnsigned(EncodeBigEndian(n, f)) = n % Values(f.width)
<1> DEFINE w == f.width
           data == EncodeBigEndian(n, f)
<1>1. PICK shifted \in [0 .. w -> Nat] :
           /\ shifted[0] = n % Values(w) /\ shifted[w] = 0
           /\ \A i \in 1 .. w : shifted[i] = shifted[i - 1] \div Base
           /\ data = [i \in 1 .. w |-> shifted[w - i] % Base]
  BY ShiftsAre
<1>2. w \in Nat
  OBVIOUS
<1>3. data \in Seq(Nat) /\ Len(data) = w
  <2>1. \A x \in 0 .. Base - 1 : x \in Nat
    BY Constants
  <2>2. data \in Seq(0 .. Base - 1) /\ Len(data) = w
    BY EncodedType
  <2> HIDE DEF data, w
  <2> QED
    BY <2>1, <2>2
<1> HIDE DEF data, w
<1>4. PICK value \in [0 .. w -> Nat] :
           /\ value[0] = 0 /\ value[w] = DecodeUnsigned(data)
           /\ \A i \in 1 .. w : value[i] = value[i - 1] * Base + data[i]
  BY <1>3, DecodedAre
<1> DEFINE T == {i \in 0 .. w : value[i] = shifted[w - i]}
<1>5. 0 \in T
  BY <1>1, <1>2, <1>4
<1>6. ASSUME NEW i \in 0 .. w - 1, i \in T PROVE i + 1 \in T
  <2>1. /\ i + 1 \in 1 .. w /\ i + 1 \in 0 .. w /\ (i + 1) - 1 = i
        /\ w - i \in 1 .. w /\ (w - i) - 1 = w - (i + 1) /\ w - (i + 1) \in 0 .. w
    BY <1>2
  <2>2. shifted[w - i] = shifted[w - (i + 1)] \div Base
    BY <1>1, <2>1
  <2>3. data[i + 1] = shifted[w - (i + 1)] % Base
    BY <1>1, <2>1
  <2>4. value[i + 1] = value[i] * Base + data[i + 1]
    BY <1>4, <2>1
  <2>5. value[i] = shifted[w - i]
    BY <1>6
  <2>6. \A x \in Nat : (x \div Base) * Base + (x % Base) = x
    BY Constants
  <2>7. shifted[w - (i + 1)] \in Nat
    BY <2>1
  <2> QED
    BY <2>1, <2>2, <2>3, <2>4, <2>5, <2>6, <2>7
<1> HIDE DEF T
<1>7. \A i \in 0 .. w : i \in T
  BY <1>2, <1>5, <1>6, BoundedInduction
<1>8. value[w] = shifted[0]
  BY <1>2, <1>7 DEF T
<1> QED
  BY <1>1, <1>4, <1>8 DEF data, w

\* Every integer is decoded as the one that was encoded, of whatever width, and
\* signed or not.
THEOREM CodecRoundTrip ==
  ASSUME NEW f \in [width : Nat \ {0}, signed : BOOLEAN], NEW n \in Numbers(f)
  PROVE  DecodeBigEndian(EncodeBigEndian(n, f), f) = n
<1> DEFINE size == Values(f.width)
<1>1. size \in Nat /\ size > 0
  BY ValuesPositive
<1>2. n \in Int /\ n % size = IF n < 0 THEN n + size ELSE n
  <2> HIDE DEF size
  <2>1. n \in -(size \div 2) .. size - 1
    BY <1>1 DEF Numbers, size
  <2> QED
    BY <1>1, <2>1
<1>3. DecodeUnsigned(EncodeBigEndian(n, f)) = n % size
  BY <1>2, UnsignedRoundTrip
<1>4. n < 0 => n + size \notin Numbers(f)
  <2> HIDE DEF size
  <2> QED
    BY <1>1, <1>2 DEF Numbers, size
<1> HIDE DEF size
<1> QED
  BY <1>1, <1>2, <1>3, <1>4 DEF DecodeBigEndian, size

-----------------------------------------------------------------------------
(* The inductive invariant *)

\* The bytes of call c were transferred.
Full(c) == Len(bytes[c]) = Format[c[2]].width

\* How far caller, goroutine and channel of a call may be, one by the other.
Stages ==
  \A c \in Call :
    /\ (caller[c] = "idle") <=> (goroutine[c] = "none")
    /\ goroutine[c] = "none" => bytes[c] = <<>> /\ result[c] = <<>>
    /\ goroutine[c] = "transferring" => Len(bytes[c]) < Format[c[2]].width
    /\ goroutine[c] = "done" => Full(c)
    /\ goroutine[c] = "failed" => closed
    /\ goroutine[c] = "ended" => Full(c) \/ closed
    /\ result[c] = <<"ok">> => Full(c)
    /\ caller[c] = "ok" => Full(c)

\* Calls begin in their order, and the bytes of one come before those of the next.
InOrder ==
  /\ \A c \in Call : goroutine[c] # "none" => MayFollow(c)
  /\ \A e \in {"write", "read"} : \A i, j \in Turn :
       i < j /\ bytes[<<e, j>>] # <<>> => Full(<<e, i>>)

\* What a call has written is the beginning of its integer.
Encoded ==
  \A i \in Turn : \A k \in 1 .. Len(bytes[<<"write", i>>]) :
    bytes[<<"write", i>>][k] = EncodeBigEndian(number[<<"write", i>>], Format[i])[k]

\* What a call has read was written by its counterpart.
Copied ==
  \A i \in Turn : \A k \in 1 .. Len(bytes[<<"read", i>>]) :
    /\ k <= Len(bytes[<<"write", i>>])
    /\ bytes[<<"read", i>>][k] = bytes[<<"write", i>>][k]

\* What a read returns is what its bytes stand for.
Decoded ==
  \A i \in Turn : caller[<<"read", i>>] = "ok" =>
    number[<<"read", i>>] = DecodeBigEndian(bytes[<<"read", i>>], Format[i])

\* A place is the number of a call and that of a byte in it; end e is at the place
\* of the byte it transfers next.
Place == (Nat \ {0}) \X (Nat \ {0})
After(x) == IF x[2] = Format[x[1]].width THEN <<x[1] + 1, 1>> ELSE <<x[1], x[2] + 1>>
IsAt(e, x) ==
  \A i \in Turn :
    /\ i < x[1] => Full(<<e, i>>)
    /\ i = x[1] => Len(bytes[<<e, i>>]) = x[2] - 1 /\ x[2] <= Format[i].width
    /\ i > x[1] => bytes[<<e, i>>] = <<>>

\* The wire holds what was written between the places where the ends are.
\* at[m] is the place of byte m on the wire.
Conveyed ==
  \E at \in [1 .. Len(wire) + 1 -> Place] :
    /\ IsAt("read", at[1])
    /\ IsAt("write", at[Len(wire) + 1])
    /\ \A m \in 1 .. Len(wire) :
         /\ at[m + 1] = After(at[m])
         /\ at[m][1] \in Turn
         /\ at[m][2] <= Len(bytes[<<"write", at[m][1]>>])
         /\ wire[m] = bytes[<<"write", at[m][1]>>][at[m][2]]

TInv == TypeOK /\ Stages /\ InOrder /\ Encoded /\ Copied /\ Decoded /\ Conveyed

-----------------------------------------------------------------------------
(* The initial states *)

\* A call is one end of the stream and the number of an integer.
LEMMA CallsAre ==
  /\ \A c \in Call : c = <<c[1], c[2]>> /\ c[1] \in {"write", "read"} /\ c[2] \in Turn
  /\ \A e \in {"write", "read"}, i \in Turn : <<e, i>> \in Call
  /\ Turn \subseteq Nat \ {0}
  /\ \A c \in Call : Format[c[2]].width \in Nat /\ Format[c[2]].width >= 1
BY Constants DEF Call

LEMMA Formats == \A i \in Turn : Format[i] \in [width : Nat \ {0}, signed : BOOLEAN]
<1> DEFINE Entry == [width : Nat \ {0}, signed : BOOLEAN]
<1> HIDE DEF Entry
<1>1. Format \in Seq(Entry)
  BY TimeoutsAssumption DEF TimeoutsAssumption, Entry
<1>2. \A i \in Turn : Format[i] \in Entry
  BY <1>1 DEF Turn
<1> QED
  BY <1>2 DEF Entry

LEMMA NumbersAre ==
  ASSUME NEW i \in Turn
  PROVE  0 \in Numbers(Format[i]) /\ Numbers(Format[i]) \subseteq Int
<1> DEFINE size == Values(Format[i].width)
<1>1. size \in Nat /\ size > 0
  BY Constants, ValuesPositive
<1> HIDE DEF size
<1> QED
  BY <1>1 DEF Numbers, size

LEMMA InitTInv == Init => TInv
<1> SUFFICES ASSUME Init PROVE TInv
  OBVIOUS
<1> DEFINE Byte == 0 .. Base - 1
<1>1. TypeOK
  <2>1. \A c \in Call : number[c] \in Numbers(Format[c[2]])
    BY NumbersAre, CallsAre DEF Init
  <2>2. number \in [Call -> Int] /\ result \in [Call -> Seq(Outcomes)]
    BY DEF Init
  <2>3. bytes \in [Call -> Seq(Byte)] /\ wire \in Seq(Byte)
    <3> HIDE DEF Byte
    <3> QED
      BY DEF Init
  <2>4. \A c \in Call : Len(bytes[c]) <= Format[c[2]].width /\ Len(result[c]) <= 1
    BY CallsAre DEF Init
  <2>5. Len(wire) <= Window
    BY Constants DEF Init
  <2> QED
    BY <2>1, <2>2, <2>3, <2>4, <2>5 DEF Init, TypeOK
<1>2. Stages /\ InOrder /\ Encoded /\ Copied /\ Decoded
  BY CallsAre DEF Init, Stages, InOrder, Encoded, Copied, Decoded
<1>3. Conveyed
  <2> DEFINE at == [m \in 1 .. Len(wire) + 1 |-> <<1, 1>>]
  <2>1. Len(wire) = 0
    BY DEF Init
  <2>2. at \in [1 .. Len(wire) + 1 -> Place] /\ at[1] = <<1, 1>> /\ at[Len(wire) + 1] = <<1, 1>>
    BY <2>1 DEF Place
  <2>3. IsAt("read", <<1, 1>>) /\ IsAt("write", <<1, 1>>)
    BY CallsAre, Constants DEF Init, IsAt
  <2> HIDE DEF at
  <2> QED
    BY <2>1, <2>2, <2>3 DEF Conveyed
<1> QED
  BY <1>1, <1>2, <1>3 DEF TInv

-----------------------------------------------------------------------------
(* Steps that transfer nothing *)

LEMMA OutcomeInChannel ==
  ASSUME TInv, NEW c \in Call
  PROVE  /\ result[c] \in Seq(Outcomes)
         /\ result[c] # <<>> =>
              Len(result[c]) = 1 /\ result[c] = <<Head(result[c])>> /\ Tail(result[c]) = <<>>
<1>1. result[c] \in Seq(Outcomes) /\ Len(result[c]) <= 1
  BY DEF TInv, TypeOK
<1>2. ASSUME result[c] # <<>>
      PROVE  Len(result[c]) = 1 /\ result[c] = <<Head(result[c])>> /\ Tail(result[c]) = <<>>
  <2>1. Len(result[c]) = 1
    <3>1. Len(result[c]) \in Nat /\ Len(result[c]) # 0
      BY <1>1, <1>2, EmptySeq, LenProperties
    <3>2. \A n \in Nat : n # 0 /\ n <= 1 => n = 1
      OBVIOUS
    <3>3. Len(result[c]) <= 1
      BY <1>1
    <3> QED
      BY <3>1, <3>2, <3>3
  <2>2. Head(result[c]) = result[c][1] /\ Head(result[c]) \in Outcomes
    BY <1>1, <1>2, HeadTailProperties
  <2>3. result[c] = <<Head(result[c])>>
    BY <1>1, <2>1, <2>2, SeqEqual
  <2>4. Tail(result[c]) \in Seq(Outcomes) /\ Len(Tail(result[c])) = 0
    BY <1>1, <1>2, <2>1, HeadTailProperties
  <2>5. Tail(result[c]) = <<>>
    BY <2>4, EmptySeq
  <2> QED
    BY <2>1, <2>3, <2>5
<1> QED
  BY <1>1, <1>2

\* A step that puts r in the channel of a call, or takes what is in it.
LEMMA ChannelTypes ==
  ASSUME TInv, NEW c \in Call, NEW r \in Seq(Outcomes), Len(r) <= 1,
         result' = [result EXCEPT ![c] = r]
  PROVE  /\ result' \in [Call -> Seq(Outcomes)] /\ \A d \in Call : Len(result'[d]) <= 1
         /\ result'[c] = r /\ \A d \in Call : d # c => result'[d] = result[d]
<1>1. result \in [Call -> Seq(Outcomes)] /\ \A d \in Call : Len(result[d]) <= 1
  BY DEF TInv, TypeOK
<1>2. result'[c] = r /\ \A d \in Call : d # c => result'[d] = result[d]
  BY <1>1
<1>3. \A d \in Call : Len(result'[d]) <= 1
  BY <1>1, <1>2
<1> QED
  BY <1>1, <1>2, <1>3

\* What may be in a channel.
LEMMA OutcomeValues ==
  /\ \A r \in {"ok", "error", "timeout"} : <<r>> \in Seq(Outcomes) /\ Len(<<r>>) = 1 /\ <<r>> # <<>>
  /\ <<>> \in Seq(Outcomes) /\ Len(<<>>) = 0
  /\ <<"error">> # <<"ok">> /\ <<"timeout">> # <<"ok">> /\ <<>> # <<"ok">>
BY DEF Outcomes

\* What has been transferred, and what it means, stays.
LEMMA NothingMoves ==
  ASSUME Encoded, Copied, Conveyed, UNCHANGED <<bytes, wire>>,
         \A i \in Turn : bytes[<<"write", i>>] = <<>> \/ number'[<<"write", i>>] = number[<<"write", i>>]
  PROVE  Encoded' /\ Copied' /\ Conveyed'
<1>1. Encoded'
  <2>1. ASSUME NEW i \in Turn, NEW k \in 1 .. Len(bytes[<<"write", i>>])
        PROVE  number'[<<"write", i>>] = number[<<"write", i>>]
    <3>1. CASE bytes[<<"write", i>>] = <<>>
      BY <2>1, <3>1
    <3> QED
      BY <3>1
  <2> QED
    BY <2>1 DEF Encoded
<1>2. Copied'
  BY DEF Copied
<1>3. Conveyed'
  BY DEF Conveyed, IsAt, Full
<1> QED
  BY <1>1, <1>2, <1>3

\* Calls that have returned stay as they are.
LEMMA StillFollow ==
  ASSUME NEW c \in Call, MayFollow(c), \A d \in Call : Returned(d) => caller'[d] = caller[d]
  PROVE  MayFollow(c)'
<1>1. \A i \in 1 .. c[2] - 1 : <<c[1], i>> \in Call
  BY CallsAre, Constants
<1>2. ASSUME NEW i \in 1 .. c[2] - 1, c[1] = "read" PROVE caller'[<<"read", i>>] = "ok"
  BY <1>1, <1>2 DEF MayFollow, Returned
<1>3. ASSUME NEW i \in 1 .. c[2] - 1, c[1] # "read" PROVE Returned(<<"write", i>>)'
  <2>1. c[1] = "write" /\ <<"write", i>> \in Call
    BY <1>1, <1>3, CallsAre
  <2> QED
    BY <1>3, <2>1 DEF MayFollow, Returned
<1> QED
  BY <1>2, <1>3 DEF MayFollow

LEMMA StillInOrder ==
  ASSUME InOrder, UNCHANGED bytes, \A d \in Call : Returned(d) => caller'[d] = caller[d],
         \A c \in Call : goroutine[c] = "none" => goroutine'[c] = "none" \/ MayFollow(c)
  PROVE  InOrder'
<1>1. \A c \in Call : goroutine'[c] # "none" => MayFollow(c)'
  BY StillFollow DEF InOrder
<1> QED
  BY <1>1 DEF InOrder, Full

LEMMA StillDecoded ==
  ASSUME Decoded, UNCHANGED bytes,
         \A c \in Call : caller'[c] = "ok" => caller[c] = "ok" /\ number'[c] = number[c]
  PROVE  Decoded'
BY CallsAre DEF Decoded

LEMMA BeginStep ==
  ASSUME TInv, NEW c \in Call, Begin(c)
  PROVE  TInv'
<1>1. /\ caller[c] = "idle" /\ MayFollow(c)
      /\ caller' = [caller EXCEPT ![c] = "selecting"]
      /\ goroutine' = [goroutine EXCEPT ![c] = "transferring"]
      /\ UNCHANGED <<result, bytes, wire, closed>>
      /\ \/ c[1] = "write" /\ \E n \in Numbers(Format[c[2]]) : number' = [number EXCEPT ![c] = n]
         \/ UNCHANGED number
  BY DEF Begin
<1>2. goroutine[c] = "none" /\ bytes[c] = <<>> /\ result[c] = <<>>
  BY <1>1 DEF TInv, Stages
<1>3. /\ number' \in [Call -> Int] /\ \A d \in Call : number'[d] \in Numbers(Format[d[2]])
      /\ \A d \in Call : d # c => number'[d] = number[d]
  <2>1. \A n \in Numbers(Format[c[2]]) : n \in Int
    BY NumbersAre, CallsAre
  <2> QED
    BY <1>1, <2>1 DEF TInv, TypeOK
<1>4. TypeOK'
  BY <1>1, <1>3 DEF TInv, TypeOK
<1>5. Stages'
  BY <1>1, <1>2, CallsAre DEF TInv, TypeOK, Stages, Full
<1>6. InOrder'
  BY <1>1, StillInOrder DEF TInv, TypeOK, Returned
<1>7. Encoded' /\ Copied' /\ Conveyed'
  BY <1>1, <1>2, <1>3, CallsAre, NothingMoves DEF TInv
<1>8. Decoded'
  BY <1>1, <1>3, StillDecoded DEF TInv, TypeOK
<1> QED
  BY <1>4, <1>5, <1>6, <1>7, <1>8 DEF TInv

\* A number that was read is the one that was written.
LEMMA ReadIsWritten ==
  ASSUME TInv, NEW i \in Turn, Full(<<"read", i>>)
  PROVE  DecodeBigEndian(bytes[<<"read", i>>], Format[i]) = number[<<"write", i>>]
<1> DEFINE r == <<"read", i>>
           w == <<"write", i>>
           data == EncodeBigEndian(number[w], Format[i])
<1>1. /\ r \in Call /\ w \in Call /\ r[2] = i /\ w[2] = i
      /\ Format[i] \in [width : Nat \ {0}, signed : BOOLEAN]
  BY CallsAre, Formats
<1>2. /\ Len(bytes[r]) = Format[i].width /\ number[w] \in Numbers(Format[i])
      /\ number[w] \in Int
  BY <1>1 DEF Full, TInv, TypeOK
<1>3. data \in Seq(0 .. Base - 1) /\ Len(data) = Format[i].width
  BY <1>1, <1>2, EncodedType
<1>4. \A k \in 1 .. Format[i].width : bytes[r][k] = data[k]
  BY <1>2 DEF TInv, Copied, Encoded
<1>5. bytes[r] \in Seq(0 .. Base - 1)
  BY <1>1 DEF TInv, TypeOK
<1>6. bytes[r] = data
  <2> DEFINE Byte == 0 .. Base - 1
  <2> HIDE DEF Byte, data, r
  <2>1. bytes[r] \in Seq(Byte) /\ data \in Seq(Byte)
    BY <1>3, <1>5 DEF Byte
  <2>2. Len(bytes[r]) = Len(data) /\ \A k \in 1 .. Len(bytes[r]) : bytes[r][k] = data[k]
    BY <1>2, <1>3, <1>4
  <2> QED
    BY <2>1, <2>2, SeqEqual
<1> QED
  BY <1>1, <1>2, <1>6, CodecRoundTrip

LEMMA ReceiveStep ==
  ASSUME TInv, NEW c \in Call, Receive(c)
  PROVE  TInv'
<1>1. /\ caller[c] \in {"selecting", "receiving"} /\ result[c] # <<>>
      /\ result' = [result EXCEPT ![c] = Tail(@)]
      /\ UNCHANGED <<goroutine, bytes, wire, closed>>
      /\ \/ /\ Head(result[c]) = "ok"
            /\ caller' = [caller EXCEPT ![c] = "ok"]
            /\ number' = [number EXCEPT ![c] =
                 IF c[1] = "read" THEN DecodeBigEndian(bytes[c], Format[c[2]]) ELSE @]
         \/ caller' = [caller EXCEPT ![c] = "error"] /\ UNCHANGED number
  BY DEF Receive
<1>2. /\ result \in [Call -> Seq(Outcomes)] /\ Len(result[c]) <= 1
      /\ caller \in [Call -> {"idle", "selecting", "expired", "receiving", "ok", "error"}]
      /\ number \in [Call -> Int]
  BY DEF TInv, TypeOK
<1>3. result[c] = <<Head(result[c])>> /\ result' = [result EXCEPT ![c] = <<>>]
  BY <1>1, OutcomeInChannel
<1>4. caller'[c] = "ok" => Full(c)
  BY <1>1, <1>2, <1>3 DEF TInv, Stages
<1>5. /\ number' \in [Call -> Int] /\ \A d \in Call : number'[d] \in Numbers(Format[d[2]])
      /\ \A d \in Call : number'[d] # number[d] => d = c /\ d[1] = "read"
      /\ caller'[c] = "ok" /\ c[1] = "read" =>
           number'[c] = DecodeBigEndian(bytes[c], Format[c[2]])
  <2>1. CASE UNCHANGED number /\ caller'[c] # "ok"
    BY <2>1 DEF TInv, TypeOK
  <2>2. CASE UNCHANGED number /\ c[1] # "read"
    BY <2>2 DEF TInv, TypeOK
  <2>3. CASE caller'[c] = "ok" /\ c[1] = "read"
                 /\ number' = [number EXCEPT ![c] = DecodeBigEndian(bytes[c], Format[c[2]])]
    <3>1. c = <<"read", c[2]>> /\ c[2] \in Turn /\ <<"write", c[2]>> \in Call
      BY <2>3, CallsAre
    <3>2. DecodeBigEndian(bytes[c], Format[c[2]]) = number[<<"write", c[2]>>]
      BY <1>4, <2>3, <3>1, ReadIsWritten
    <3>3. number[<<"write", c[2]>>] \in Numbers(Format[c[2]]) /\ number[<<"write", c[2]>>] \in Int
      BY <1>2, <3>1 DEF TInv, TypeOK
    <3> QED
      BY <1>2, <2>3, <3>2, <3>3 DEF TInv, TypeOK
  <2> QED
    BY <1>1, <1>2, <2>1, <2>2, <2>3
<1>6. TypeOK'
  <2>1. result' \in [Call -> Seq(Outcomes)] /\ \A d \in Call : Len(result'[d]) <= 1
    <3> DEFINE r == <<>>
    <3>1. r \in Seq(Outcomes) /\ Len(r) <= 1
      BY OutcomeValues
    <3> HIDE DEF r
    <3>2. result' = [result EXCEPT ![c] = r]
      BY <1>3 DEF r
    <3> QED
      BY <3>1, <3>2, ChannelTypes
  <2>2. caller' \in [Call -> {"idle", "selecting", "expired", "receiving", "ok", "error"}]
    BY <1>1, <1>2
  <2> QED
    BY <1>1, <1>5, <2>1, <2>2 DEF TInv, TypeOK
<1>7. Stages'
  BY <1>1, <1>2, <1>3, <1>4, OutcomeValues DEF TInv, Stages, Full
<1>8. InOrder'
  BY <1>1, <1>2, StillInOrder DEF TInv, Returned
<1>9. Encoded' /\ Copied' /\ Conveyed'
  <2>1. \A i \in Turn : number'[<<"write", i>>] = number[<<"write", i>>]
    BY <1>5, CallsAre
  <2> QED
    BY <1>1, <2>1, NothingMoves DEF TInv
<1>10. Decoded'
  BY <1>1, <1>2, <1>5, CallsAre DEF TInv, Decoded
<1> QED
  BY <1>6, <1>7, <1>8, <1>9, <1>10 DEF TInv

LEMMA TimerStep ==
  ASSUME TInv, NEW c \in Call, TimerFires(c) \/ OfferTimeout(c)
  PROVE  TInv'
<1>1. /\ UNCHANGED <<goroutine, number, bytes, wire, closed>>
      /\ \/ /\ caller[c] = "selecting" /\ caller' = [caller EXCEPT ![c] = "expired"]
            /\ UNCHANGED result
         \/ /\ caller[c] = "expired" /\ caller' = [caller EXCEPT ![c] = "receiving"]
            /\ result' = [result EXCEPT ![c] = IF @ = <<>> THEN <<"timeout">> ELSE @]
  BY DEF TimerFires, OfferTimeout
<1>2. /\ result \in [Call -> Seq(Outcomes)]
      /\ caller \in [Call -> {"idle", "selecting", "expired", "receiving", "ok", "error"}]
  BY DEF TInv, TypeOK
<1>3. UNCHANGED result \/ result' = [result EXCEPT ![c] = <<"timeout">>]
  <2>1. CASE result' = [result EXCEPT ![c] = IF @ = <<>> THEN <<"timeout">> ELSE @]
    BY <1>2, <2>1
  <2> QED
    BY <1>1, <2>1
<1>4. TypeOK'
  <2>1. result' \in [Call -> Seq(Outcomes)] /\ \A d \in Call : Len(result'[d]) <= 1
    <3> DEFINE r == <<"timeout">>
    <3>1. r \in Seq(Outcomes) /\ Len(r) <= 1
      BY OutcomeValues
    <3> HIDE DEF r
    <3>2. UNCHANGED result \/ result' = [result EXCEPT ![c] = r]
      BY <1>3 DEF r
    <3> QED
      BY <3>1, <3>2, ChannelTypes DEF TInv, TypeOK
  <2> QED
    BY <1>1, <1>2, <2>1 DEF TInv, TypeOK
<1>5. Stages'
  <2>1. /\ \A d \in Call : (result'[d] = <<>> \/ result'[d] = <<"ok">>) => result'[d] = result[d]
        /\ \A d \in Call : d # c => result'[d] = result[d]
    BY <1>2, <1>3, OutcomeValues
  <2>2. \A d \in Call : /\ caller'[d] = "idle" <=> caller[d] = "idle"
                        /\ caller'[d] = "ok" => caller[d] = "ok"
    BY <1>1, <1>2
  <2>3. goroutine[c] # "none"
    BY <1>1 DEF TInv, Stages
  <2> QED
    BY <1>1, <2>1, <2>2, <2>3 DEF TInv, Stages, Full
<1>6. InOrder'
  BY <1>1, <1>2, StillInOrder DEF TInv, Returned
<1>7. Encoded' /\ Copied' /\ Conveyed'
  BY <1>1, NothingMoves DEF TInv
<1>8. Decoded'
  BY <1>1, <1>2, StillDecoded DEF TInv
<1> QED
  BY <1>4, <1>5, <1>6, <1>7, <1>8 DEF TInv

LEMMA OutcomeStep ==
  ASSUME TInv, NEW c \in Call, TransferFails(c) \/ SendOutcome(c)
  PROVE  TInv'
<1>1. /\ UNCHANGED <<caller, number, bytes, wire, closed>>
      /\ \/ /\ goroutine[c] = "transferring" /\ closed
            /\ goroutine' = [goroutine EXCEPT ![c] = "failed"]
            /\ UNCHANGED result
         \/ /\ goroutine[c] \in {"done", "failed"}
            /\ goroutine' = [goroutine EXCEPT ![c] = "ended"]
            /\ \/ goroutine[c] = "done" /\ result' = [result EXCEPT ![c] = <<"ok">>]
               \/ goroutine[c] = "failed" /\ result' = [result EXCEPT ![c] = <<"error">>]
  BY DEF TransferFails, SendOutcome
<1>2. /\ result \in [Call -> Seq(Outcomes)]
      /\ goroutine \in [Call -> {"none", "transferring", "done", "failed", "ended"}]
  BY DEF TInv, TypeOK
<1>3. UNCHANGED result \/ \E r \in {"ok", "error"} : result' = [result EXCEPT ![c] = <<r>>]
  BY <1>1
<1>4. TypeOK'
  <2>1. result' \in [Call -> Seq(Outcomes)] /\ \A d \in Call : Len(result'[d]) <= 1
    <3>1. CASE UNCHANGED result
      BY <3>1 DEF TInv, TypeOK
    <3>2. ASSUME NEW o \in {"ok", "error"}, result' = [result EXCEPT ![c] = <<o>>]
          PROVE  result' \in [Call -> Seq(Outcomes)] /\ \A d \in Call : Len(result'[d]) <= 1
      <4> DEFINE r == <<o>>
      <4>1. r \in Seq(Outcomes) /\ Len(r) <= 1
        BY OutcomeValues
      <4> HIDE DEF r
      <4>2. result' = [result EXCEPT ![c] = r]
        BY <3>2 DEF r
      <4> QED
        BY <4>1, <4>2, ChannelTypes
    <3> QED
      BY <1>3, <3>1, <3>2
  <2> QED
    BY <1>1, <1>2, <2>1 DEF TInv, TypeOK
<1>5. Stages'
  <2>1. /\ \A d \in Call : d # c => goroutine'[d] = goroutine[d] /\ result'[d] = result[d]
        /\ goroutine[c] # "none" /\ goroutine'[c] \in {"failed", "ended"}
    BY <1>1, <1>2
  <2>2. /\ goroutine'[c] = "failed" => closed
        /\ goroutine'[c] = "ended" => Full(c) \/ closed
        /\ result'[c] = <<"ok">> => Full(c)
    BY <1>1, <1>2, OutcomeValues DEF TInv, Stages
  <2> QED
    BY <1>1, <2>1, <2>2 DEF TInv, Stages, Full
<1>6. InOrder'
  BY <1>1, <1>2, StillInOrder DEF TInv
<1>7. Encoded' /\ Copied' /\ Conveyed'
  BY <1>1, NothingMoves DEF TInv
<1>8. Decoded'
  BY <1>1, StillDecoded DEF TInv
<1> QED
  BY <1>4, <1>5, <1>6, <1>7, <1>8 DEF TInv

LEMMA CloseStep ==
  ASSUME TInv, Close \/ UNCHANGED vars
  PROVE  TInv'
<1>1. /\ UNCHANGED <<caller, goroutine, result, number, bytes, wire>>
      /\ closed' \in BOOLEAN /\ (closed => closed')
  BY DEF Close, vars, TInv, TypeOK
<1>2. TypeOK'
  BY <1>1 DEF TInv, TypeOK
<1>3. Stages'
  BY <1>1 DEF TInv, Stages, Full
<1>4. InOrder'
  BY <1>1, StillInOrder DEF TInv
<1>5. Encoded' /\ Copied' /\ Conveyed'
  BY <1>1, NothingMoves DEF TInv
<1>6. Decoded'
  BY <1>1, StillDecoded DEF TInv
<1> QED
  BY <1>2, <1>3, <1>4, <1>5, <1>6 DEF TInv
-----------------------------------------------------------------------------
(* Steps that transfer a byte *)

\* When a call transfers, those before it at its end have transferred all they had.
LEMMA EarlierFull ==
  ASSUME TInv, NEW c \in Call, Served(c), c[1] = "read" \/ ~closed
  PROVE  \A j \in 1 .. c[2] - 1 : Full(<<c[1], j>>)
<1> SUFFICES ASSUME NEW j \in 1 .. c[2] - 1 PROVE Full(<<c[1], j>>)
  OBVIOUS
<1>1. <<c[1], j>> \in Call /\ c[1] \in {"write", "read"}
  BY CallsAre, Constants
<1>2. goroutine[c] = "transferring" /\ goroutine[<<c[1], j>>] # "transferring"
  BY DEF Served
<1>3. MayFollow(c)
  BY <1>2 DEF TInv, InOrder
<1>4. CASE c[1] = "read"
  BY <1>1, <1>3, <1>4 DEF MayFollow, TInv, Stages
<1>5. CASE c[1] = "write" /\ ~closed
  <2>1. caller[<<c[1], j>>] \in {"ok", "error"}
    BY <1>3, <1>5 DEF MayFollow, Returned
  <2>2. goroutine[<<c[1], j>>] \in {"done", "failed", "ended"}
    BY <1>1, <1>2, <2>1 DEF TInv, TypeOK, Stages
  <2> QED
    BY <1>1, <1>5, <2>2 DEF TInv, Stages
<1> QED
  BY <1>1, <1>4, <1>5

\* What Advance does to the bytes of a call.
LEMMA Grown ==
  ASSUME TInv, NEW c \in Call, NEW byte \in 0 .. Base - 1, Advance(c, byte)
  PROVE  /\ bytes' \in [Call -> Seq(0 .. Base - 1)]
         /\ Len(bytes[c]) \in Nat /\ Len(bytes'[c]) = Len(bytes[c]) + 1
         /\ bytes'[c] # <<>>
         /\ bytes'[c][Len(bytes[c]) + 1] = byte
         /\ \A k \in 1 .. Len(bytes[c]) : bytes'[c][k] = bytes[c][k]
         /\ \A d \in Call : d # c => bytes'[d] = bytes[d]
<1> DEFINE Byte == 0 .. Base - 1
<1>1. bytes \in [Call -> Seq(Byte)] /\ byte \in Byte
  BY DEF TInv, TypeOK
<1>2. bytes' = [bytes EXCEPT ![c] = Append(bytes[c], byte)]
  BY DEF Advance
<1> HIDE DEF Byte
<1>3. bytes' \in [Call -> Seq(Byte)] /\ bytes'[c] = Append(bytes[c], byte)
  BY <1>1, <1>2
<1>4. \A d \in Call : d # c => bytes'[d] = bytes[d]
  BY <1>1, <1>2
<1>5. bytes[c] \in Seq(Byte)
  BY <1>1
<1>6. /\ Len(bytes[c]) \in Nat /\ Len(bytes'[c]) = Len(bytes[c]) + 1
      /\ bytes'[c][Len(bytes[c]) + 1] = byte
      /\ \A k \in 1 .. Len(bytes[c]) : bytes'[c][k] = bytes[c][k]
  BY <1>1, <1>3, <1>5
<1>7. bytes'[c] # <<>>
  BY <1>3, <1>6
<1> QED
  BY <1>3, <1>4, <1>6, <1>7 DEF Byte

LEMMA AdvanceStep ==
  ASSUME TInv, NEW c \in Call, NEW byte \in 0 .. Base - 1, Advance(c, byte), Served(c),
         \A j \in 1 .. c[2] - 1 : Full(<<c[1], j>>),
         wire' \in Seq(0 .. Base - 1), Len(wire') <= Window
  PROVE  TypeOK' /\ Stages' /\ InOrder' /\ Decoded'
<1>1. /\ UNCHANGED <<caller, result, number, closed>>
      /\ goroutine' = [goroutine EXCEPT ![c] =
                         IF Len(Append(bytes[c], byte)) = Format[c[2]].width THEN "done" ELSE @]
      /\ bytes' = [bytes EXCEPT ![c] = Append(bytes[c], byte)]
  BY DEF Advance
<1>2. goroutine[c] = "transferring" /\ Len(bytes[c]) < Format[c[2]].width
  BY DEF Served, TInv, Stages
<1>3. /\ bytes' \in [Call -> Seq(0 .. Base - 1)]
      /\ Len(bytes[c]) \in Nat /\ Len(bytes'[c]) = Len(bytes[c]) + 1
      /\ bytes'[c] # <<>>
      /\ \A d \in Call : d # c => bytes'[d] = bytes[d]
  BY Grown
<1>4. /\ goroutine'[c] = IF Len(bytes'[c]) = Format[c[2]].width THEN "done" ELSE "transferring"
      /\ goroutine' \in [Call -> {"none", "transferring", "done", "failed", "ended"}]
      /\ \A d \in Call : d # c => goroutine'[d] = goroutine[d]
  BY <1>1, <1>2 DEF TInv, TypeOK
<1>5. Format[c[2]].width \in Nat /\ Len(bytes'[c]) <= Format[c[2]].width
  BY <1>2, <1>3, CallsAre
<1>6. TypeOK'
  BY <1>1, <1>3, <1>4, <1>5 DEF TInv, TypeOK
<1>7. \A d \in Call : Full(d) => d # c /\ Full(d)'
  BY <1>2, <1>3 DEF Full
<1>8. Stages'
  <2>1. ASSUME NEW d \in Call, d # c PROVE bytes'[d] = bytes[d] /\ goroutine'[d] = goroutine[d]
    BY <1>3, <1>4, <2>1
  <2>2. /\ caller[c] # "idle" /\ caller[c] # "ok" /\ result[c] # <<"ok">>
    BY <1>2, <1>7 DEF TInv, Stages
  <2> DEFINE Stage(d) ==
        /\ (caller[d] = "idle") <=> (goroutine[d] = "none")
        /\ goroutine[d] = "none" => bytes[d] = <<>> /\ result[d] = <<>>
        /\ goroutine[d] = "transferring" => Len(bytes[d]) < Format[d[2]].width
        /\ goroutine[d] = "done" => Full(d)
        /\ goroutine[d] = "failed" => closed
        /\ goroutine[d] = "ended" => Full(d) \/ closed
        /\ result[d] = <<"ok">> => Full(d)
        /\ caller[d] = "ok" => Full(d)
  <2>3. ASSUME NEW d \in Call, d # c PROVE Stage(d)'
    <3>1. Stage(d)
      BY DEF TInv, Stages
    <3>2. Full(d)' <=> Full(d)
      BY <2>1, <2>3 DEF Full
    <3> QED
      BY <1>1, <2>1, <2>3, <3>1, <3>2
  <2>4. Stage(c)'
    <3>1. Len(bytes'[c]) \in Nat /\ Len(bytes'[c]) <= Format[c[2]].width
      BY <1>3, <1>5
    <3>2. CASE Len(bytes'[c]) = Format[c[2]].width
      <4>1. goroutine'[c] = "done" /\ Full(c)'
        BY <1>4, <3>2 DEF Full
      <4> QED
        BY <1>1, <2>2, <4>1
    <3>3. CASE Len(bytes'[c]) # Format[c[2]].width
      <4>1. goroutine'[c] = "transferring" /\ Len(bytes'[c]) < Format[c[2]].width
        BY <1>4, <1>5, <3>1, <3>3
      <4> QED
        BY <1>1, <2>2, <4>1
    <3> QED
      BY <3>2, <3>3
  <2>5. \A d \in Call : Stage(d)'
    BY <2>3, <2>4
  <2> QED
    BY <2>5 DEF Stages
<1>9. InOrder'
  <2>1. ASSUME NEW d \in Call, goroutine'[d] # "none" PROVE MayFollow(d)'
    <3>1. MayFollow(d)
      BY <1>2, <1>4, <2>1 DEF TInv, InOrder
    <3> QED
      BY <1>1, <3>1, StillFollow
  <2>2. ASSUME NEW e \in {"write", "read"}, NEW i \in Turn, NEW j \in Turn,
               i < j, bytes'[<<e, j>>] # <<>>
        PROVE  Full(<<e, i>>)'
    <3>1. <<e, i>> \in Call /\ <<e, j>> \in Call /\ i \in Nat \ {0} /\ j \in Nat
      BY CallsAre
    <3>2. CASE <<e, j>> = c
      <4>1. c[1] = e /\ i \in 1 .. c[2] - 1
        BY <2>2, <3>1, <3>2
      <4> QED
        BY <1>7, <3>1, <4>1
    <3>3. CASE <<e, j>> # c
      BY <1>3, <1>7, <2>2, <3>1, <3>3 DEF TInv, InOrder
    <3> QED
      BY <3>2, <3>3
  <2> QED
    BY <2>1, <2>2 DEF InOrder
<1>10. Decoded'
  <2>1. \A i \in Turn : <<"read", i>> \in Call
    BY CallsAre
  <2>2. \A d \in Call : caller[d] = "ok" => bytes'[d] = bytes[d]
    BY <1>3, <1>7 DEF TInv, Stages
  <2> QED
    BY <1>1, <2>1, <2>2 DEF TInv, Decoded
<1> QED
  BY <1>6, <1>8, <1>9, <1>10

\* An end whose earlier calls are done and whose call c is not is at the next byte of c.
LEMMA PlaceOf ==
  ASSUME TInv, NEW c \in Call, goroutine[c] = "transferring",
         \A j \in 1 .. c[2] - 1 : Full(<<c[1], j>>), NEW x \in Place, IsAt(c[1], x)
  PROVE  x = <<c[2], Len(bytes[c]) + 1>>
<1> DEFINE e == c[1]
<1>1. /\ c = <<e, c[2]>> /\ c[2] \in Turn /\ c[2] \in Nat \ {0}
      /\ x[1] \in Nat \ {0} /\ x[2] \in Nat \ {0} /\ x = <<x[1], x[2]>>
  BY CallsAre DEF Place
<1>2. Len(bytes[c]) < Format[c[2]].width /\ ~Full(c) /\ Len(bytes[c]) \in Nat
  BY CallsAre DEF TInv, Stages, TypeOK, Full
<1>3. ~(x[1] > c[2])
  BY <1>1, <1>2 DEF IsAt
<1>4. ~(x[1] < c[2])
  <2> SUFFICES ASSUME x[1] < c[2] PROVE FALSE
    OBVIOUS
  <2>1. x[1] \in Turn /\ x[1] \in 1 .. c[2] - 1 /\ <<e, x[1]>> \in Call
    BY <1>1, Constants, CallsAre
  <2>2. Full(<<e, x[1]>>) /\ Len(bytes[<<e, x[1]>>]) = x[2] - 1 /\ x[2] <= Format[x[1]].width
    BY <1>1, <2>1 DEF IsAt
  <2> QED
    BY <1>1, <2>1, <2>2, Constants DEF Full
<1>5. x[1] = c[2]
  BY <1>1, <1>3, <1>4
<1>6. Len(bytes[c]) = x[2] - 1
  BY <1>1, <1>5 DEF IsAt
<1> QED
  BY <1>1, <1>2, <1>5, <1>6

\* It moves on with every byte.
LEMMA Moves ==
  ASSUME TInv, NEW c \in Call, NEW byte \in 0 .. Base - 1, Advance(c, byte),
         NEW x \in Place, x = <<c[2], Len(bytes[c]) + 1>>, IsAt(c[1], x),
         NEW y, y = After(x), Len(bytes[c]) < Format[c[2]].width
  PROVE  y \in Place /\ IsAt(c[1], y)'
<1> DEFINE e == c[1]
<1>1. /\ c = <<e, c[2]>> /\ e \in {"write", "read"} /\ c[2] \in Turn
      /\ Turn \subseteq Nat \ {0} /\ Format[c[2]].width \in Nat
      /\ \A i \in Turn : <<e, i>> \in Call /\ (i # c[2] => <<e, i>> # c)
      /\ \A i \in Turn : Format[i].width \in Nat /\ Format[i].width >= 1
  BY CallsAre, Constants
<1>2. /\ Len(bytes[c]) \in Nat /\ Len(bytes'[c]) = Len(bytes[c]) + 1
      /\ \A d \in Call : d # c => bytes'[d] = bytes[d]
  BY Grown
<1>3. /\ \A i \in Turn : i # c[2] => bytes'[<<e, i>>] = bytes[<<e, i>>]
      /\ \A i \in Turn : i < c[2] => Full(<<e, i>>)'
      /\ \A i \in Turn : i > c[2] => bytes'[<<e, i>>] = <<>>
  <2>1. \A i \in Turn : i # c[2] => bytes'[<<e, i>>] = bytes[<<e, i>>]
    BY <1>1, <1>2
  <2>2. \A i \in Turn : i < c[2] => Full(<<e, i>>)
    BY DEF IsAt
  <2>3. \A i \in Turn : i > c[2] => bytes[<<e, i>>] = <<>>
    BY DEF IsAt
  <2> QED
    BY <1>1, <2>1, <2>2, <2>3 DEF Full
<1>4. CASE Len(bytes'[c]) = Format[c[2]].width
  <2>1. y = <<c[2] + 1, 1>> /\ y[1] = c[2] + 1 /\ y[2] = 1 /\ Full(c)'
    BY <1>2, <1>4 DEF After, Full
  <2>2. ASSUME NEW i \in Turn
        PROVE  /\ i < c[2] + 1 => Full(<<e, i>>)'
               /\ i = c[2] + 1 => Len(bytes'[<<e, i>>]) = 0
               /\ i > c[2] + 1 => bytes'[<<e, i>>] = <<>>
    BY <1>1, <1>3, <2>1
  <2>3. y \in Place
    BY <1>1, <2>1 DEF Place
  <2> QED
    BY <1>1, <2>1, <2>2, <2>3 DEF IsAt
<1>5. CASE Len(bytes'[c]) # Format[c[2]].width
  <2>1. y = <<c[2], Len(bytes[c]) + 2>> /\ y[1] = c[2] /\ y[2] = Len(bytes[c]) + 2
    BY <1>2, <1>5 DEF After
  <2>2. y \in Place
    BY <1>1, <1>2, <2>1 DEF Place
  <2>3. Len(bytes[c]) + 2 <= Format[c[2]].width /\ Len(bytes'[c]) = (Len(bytes[c]) + 2) - 1
    BY <1>1, <1>2, <1>5
  <2>4. ASSUME NEW i \in Turn
        PROVE  /\ i < c[2] => Full(<<e, i>>)'
               /\ i = c[2] => Len(bytes'[<<e, i>>]) = y[2] - 1 /\ y[2] <= Format[i].width
               /\ i > c[2] => bytes'[<<e, i>>] = <<>>
    BY <1>1, <1>3, <2>1, <2>3
  <2> QED
    BY <1>1, <2>1, <2>2, <2>4 DEF IsAt
<1> QED
  BY <1>4, <1>5

\* An end that does not move keeps its place.
LEMMA Stays ==
  ASSUME TInv, NEW c \in Call, NEW byte \in 0 .. Base - 1, Advance(c, byte),
         NEW e \in {"write", "read"}, e # c[1], NEW x \in Place, IsAt(e, x)
  PROVE  IsAt(e, x)'
<1>1. \A i \in Turn : bytes'[<<e, i>>] = bytes[<<e, i>>]
  BY Grown, CallsAre
<1> QED
  BY <1>1 DEF IsAt, Full

LEMMA WriteByteStep ==
  ASSUME TInv, NEW c \in Call, WriteByte(c)
  PROVE  TInv'
<1> DEFINE data == EncodeBigEndian(number[c], Format[c[2]])
           last == Len(bytes[c]) + 1
<1>1. /\ c[1] = "write" /\ Served(c) /\ ~closed /\ Len(wire) < Window
      /\ wire' = Append(wire, data[last]) /\ Advance(c, data[last])
  BY DEF WriteByte
<1>2. goroutine[c] = "transferring" /\ Len(bytes[c]) < Format[c[2]].width
  BY <1>1 DEF Served, TInv, Stages
<1>3. c = <<"write", c[2]>> /\ c[2] \in Turn /\ number[c] \in Int
  BY <1>1, CallsAre DEF TInv, TypeOK
<1>4. data \in Seq(0 .. Base - 1) /\ Len(data) = Format[c[2]].width
  BY <1>3, Formats, EncodedType
<1>5. last \in 1 .. Len(data) /\ data[last] \in 0 .. Base - 1
  <2> DEFINE Byte == 0 .. Base - 1
  <2>1. bytes[c] \in Seq(Byte) /\ Len(data) \in Nat
    BY <1>4, CallsAre DEF TInv, TypeOK
  <2> HIDE DEF Byte
  <2>2. last \in 1 .. Len(data)
    BY <1>2, <1>4, <2>1
  <2>3. data \in Seq(Byte)
    BY <1>4 DEF Byte
  <2> HIDE DEF last, data
  <2>4. data[last] \in Byte
    BY <2>2, <2>3
  <2> QED
    BY <2>2, <2>4 DEF Byte
<1> HIDE DEF data
<1>6. \A j \in 1 .. c[2] - 1 : Full(<<c[1], j>>)
  BY <1>1, EarlierFull
<1>7. /\ wire' \in Seq(0 .. Base - 1) /\ Len(wire) \in Nat /\ Len(wire') = Len(wire) + 1
      /\ wire'[Len(wire) + 1] = data[last] /\ \A m \in 1 .. Len(wire) : wire'[m] = wire[m]
  <2> DEFINE Byte == 0 .. Base - 1
  <2>1. wire \in Seq(Byte) /\ data[last] \in Byte
    BY <1>5 DEF TInv, TypeOK
  <2> HIDE DEF Byte, last
  <2>2. /\ wire' \in Seq(Byte) /\ Len(wire) \in Nat /\ Len(wire') = Len(wire) + 1
        /\ wire'[Len(wire) + 1] = data[last] /\ \A m \in 1 .. Len(wire) : wire'[m] = wire[m]
    BY <1>1, <2>1
  <2> QED
    BY <2>2 DEF Byte
<1>8. Len(wire') <= Window
  BY <1>1, <1>7, Constants
<1>9. TypeOK' /\ Stages' /\ InOrder' /\ Decoded'
  BY <1>1, <1>5, <1>6, <1>7, <1>8, AdvanceStep
<1>10. /\ Len(bytes[c]) \in Nat /\ Len(bytes'[c]) = last
       /\ bytes'[c][last] = data[last]
       /\ \A k \in 1 .. Len(bytes[c]) : bytes'[c][k] = bytes[c][k]
       /\ \A d \in Call : d # c => bytes'[d] = bytes[d]
  BY <1>1, <1>5, Grown
<1>11. number' = number
  BY <1>1 DEF Advance
<1>12. ASSUME NEW i \in Turn
       PROVE  /\ <<"write", i>> \in Call
              /\ i # c[2] => bytes'[<<"write", i>>] = bytes[<<"write", i>>]
              /\ bytes'[<<"read", i>>] = bytes[<<"read", i>>]
  <2>1. /\ <<"write", i>> \in Call /\ (i # c[2] => <<"write", i>> # c)
        /\ <<"read", i>> \in Call /\ <<"read", i>> # c
    BY <1>1, <1>3, CallsAre
  <2> QED
    BY <1>10, <2>1
<1> HIDE DEF last
<1>13. ASSUME NEW i \in Turn
       PROVE  /\ Len(bytes[<<"write", i>>]) \in Nat
              /\ \A k \in 1 .. Len(bytes[<<"write", i>>]) :
                   /\ k <= Len(bytes'[<<"write", i>>])
                   /\ bytes'[<<"write", i>>][k] = bytes[<<"write", i>>][k]
  <2>1. Len(bytes[<<"write", i>>]) \in Nat
    BY <1>12 DEF TInv, TypeOK
  <2>2. CASE i = c[2]
    BY <1>3, <1>10, <2>1, <2>2 DEF last
  <2>3. CASE i # c[2]
    <3>1. bytes'[<<"write", i>>] = bytes[<<"write", i>>]
      BY <1>12, <1>13, <2>3
    <3>2. \A k \in 1 .. Len(bytes[<<"write", i>>]) : k <= Len(bytes[<<"write", i>>])
      BY <2>1
    <3> QED
      BY <2>1, <3>1, <3>2
  <2> QED
    BY <2>1, <2>2, <2>3
<1>14. Encoded'
  <2>1. ASSUME NEW i \in Turn, NEW k \in 1 .. Len(bytes'[<<"write", i>>])
        PROVE  bytes'[<<"write", i>>][k] = EncodeBigEndian(number[<<"write", i>>], Format[i])[k]
    <3>1. CASE i = c[2] /\ k = last
      BY <1>3, <1>10, <3>1 DEF data
    <3>2. CASE i = c[2] /\ k # last
      <4>1. <<"write", i>> = c /\ k \in 1 .. Len(bytes[c])
        BY <1>3, <1>10, <3>2 DEF last
      <4> QED
        BY <1>10, <4>1 DEF TInv, Encoded
    <3>3. CASE i # c[2]
      <4>1. bytes'[<<"write", i>>] = bytes[<<"write", i>>]
        BY <1>12, <3>3
      <4> QED
        BY <4>1 DEF TInv, Encoded
    <3> QED
      BY <3>1, <3>2, <3>3
  <2> QED
    BY <1>11, <2>1 DEF Encoded
<1>15. Copied'
  <2>1. ASSUME NEW i \in Turn, NEW k \in 1 .. Len(bytes[<<"read", i>>])
        PROVE  /\ k <= Len(bytes'[<<"write", i>>])
               /\ bytes[<<"read", i>>][k] = bytes'[<<"write", i>>][k]
    <3>1. k <= Len(bytes[<<"write", i>>]) /\ bytes[<<"read", i>>][k] = bytes[<<"write", i>>][k]
      BY <2>1 DEF TInv, Copied
    <3>2. Len(bytes[<<"read", i>>]) \in Nat
      BY CallsAre DEF TInv, TypeOK
    <3>3. k \in 1 .. Len(bytes[<<"write", i>>])
      BY <1>13, <3>1, <3>2
    <3> QED
      BY <1>13, <3>1, <3>3
  <2>2. \A i \in Turn : bytes'[<<"read", i>>] = bytes[<<"read", i>>]
    BY <1>12
  <2> QED
    BY <2>1, <2>2 DEF Copied
<1>16. Conveyed'
  <2>1. PICK n \in Nat : n = Len(wire)
    BY <1>7
  <2>2. PICK at \in [1 .. n + 1 -> Place] :
          /\ IsAt("read", at[1])
          /\ IsAt("write", at[n + 1])
          /\ \A m \in 1 .. n :
               /\ at[m + 1] = After(at[m])
               /\ at[m][1] \in Turn
               /\ at[m][2] <= Len(bytes[<<"write", at[m][1]>>])
               /\ wire[m] = bytes[<<"write", at[m][1]>>][at[m][2]]
    BY <2>1 DEF TInv, Conveyed
  <2>3. PICK x \in Place : x = at[n + 1] /\ IsAt("write", x)
    BY <2>2
  <2>4. x = <<c[2], last>> /\ x[1] = c[2] /\ x[2] = last
    <3>1. x = <<c[2], last>>
      BY <1>1, <1>2, <1>6, <2>3, PlaceOf DEF last
    <3> QED
      BY <3>1
  <2>5. PICK y : y = After(x)
    OBVIOUS
  <2>6. y \in Place /\ IsAt("write", y)'
    BY <1>1, <1>2, <1>5, <2>3, <2>4, <2>5, Moves DEF last
  <2>7. PICK to \in [1 .. n + 2 -> Place] :
          to = [m \in 1 .. n + 2 |-> IF m = n + 2 THEN y ELSE at[m]]
    <3>1. \A m \in 1 .. n + 2 : m # n + 2 => m \in 1 .. n + 1
      BY <2>1
    <3> QED
      BY <2>6, <3>1
  <2>8. /\ \A m \in 1 .. n + 1 : to[m] = at[m]
        /\ to[n + 2] = y /\ to[n + 1] = x /\ to[1] = at[1]
    BY <2>1, <2>3, <2>7
  <2>9. PICK z \in Place : z = at[1] /\ IsAt("read", z)
    BY <2>1, <2>2
  <2>10. IsAt("read", z)'
    BY <1>1, <1>5, <2>9, Stays
  <2>11. ASSUME NEW m \in 1 .. n + 1
         PROVE  /\ to[m + 1] = After(to[m])
                /\ to[m][1] \in Turn
                /\ to[m][2] <= Len(bytes'[<<"write", to[m][1]>>])
                /\ wire'[m] = bytes'[<<"write", to[m][1]>>][to[m][2]]
    <3>1. CASE m = n + 1
      <4>1. to[m] = x /\ m + 1 = n + 2 /\ to[m + 1] = After(x)
        BY <2>1, <2>5, <2>8, <3>1
      <4>2. to[m][1] = c[2] /\ to[m][2] = last /\ <<"write", to[m][1]>> = c
        BY <1>3, <2>4, <4>1
      <4>3. Len(bytes'[c]) = last /\ last <= last /\ wire'[m] = bytes'[c][last]
        BY <1>7, <1>10, <2>1, <3>1 DEF last
      <4> QED
        BY <1>3, <4>1, <4>2, <4>3
    <3>2. CASE m \in 1 .. n
      <4>1. to[m] = at[m] /\ m + 1 \in 1 .. n + 1 /\ to[m + 1] = at[m + 1] /\ at[m] \in Place
        BY <2>1, <2>8, <3>2
      <4>2. PICK i \in Turn, k \in Nat \ {0} : i = at[m][1] /\ k = at[m][2]
        BY <2>2, <3>2, <4>1 DEF Place
      <4>3. /\ at[m + 1] = After(at[m]) /\ k <= Len(bytes[<<"write", i>>])
            /\ wire[m] = bytes[<<"write", i>>][k]
        BY <2>2, <3>2, <4>2
      <4>4. k \in 1 .. Len(bytes[<<"write", i>>])
        BY <1>13, <4>2, <4>3
      <4>5. k <= Len(bytes'[<<"write", i>>]) /\ bytes'[<<"write", i>>][k] = bytes[<<"write", i>>][k]
        BY <1>13, <4>2, <4>4
      <4>6. wire'[m] = wire[m]
        BY <1>7, <2>1, <3>2
      <4> QED
        BY <4>1, <4>2, <4>3, <4>5, <4>6
    <3> QED
      BY <2>1, <3>1, <3>2
  <2>12. Len(wire') = n + 1 /\ (n + 1) + 1 = n + 2
    BY <1>7, <2>1
  <2>13. IsAt("read", to[1])' /\ IsAt("write", to[n + 2])'
    BY <2>6, <2>8, <2>9, <2>10 DEF IsAt
  <2>14. (/\ to \in [1 .. Len(wire) + 1 -> Place]
          /\ IsAt("read", to[1])
          /\ IsAt("write", to[Len(wire) + 1])
          /\ \A m \in 1 .. Len(wire) :
               /\ to[m + 1] = After(to[m])
               /\ to[m][1] \in Turn
               /\ to[m][2] <= Len(bytes[<<"write", to[m][1]>>])
               /\ wire[m] = bytes[<<"write", to[m][1]>>][to[m][2]])'
    BY <2>7, <2>11, <2>12, <2>13
  <2> QED
    BY <2>14, Zenon DEF Conveyed
<1> QED
  BY <1>9, <1>14, <1>15, <1>16 DEF TInv
LEMMA ReadByteStep ==
  ASSUME TInv, NEW c \in Call, ReadByte(c)
  PROVE  TInv'
<1> DEFINE byte == Head(wire)
           next == Len(bytes[c]) + 1
<1>1. /\ c[1] = "read" /\ Served(c) /\ wire # <<>>
      /\ wire' = Tail(wire) /\ Advance(c, byte)
  BY DEF ReadByte
<1>2. goroutine[c] = "transferring" /\ Len(bytes[c]) < Format[c[2]].width
  BY <1>1 DEF Served, TInv, Stages
<1>3. c = <<"read", c[2]>> /\ c[2] \in Turn
  BY <1>1, CallsAre
<1>4. /\ byte \in 0 .. Base - 1 /\ byte = wire[1]
      /\ wire' \in Seq(0 .. Base - 1)
      /\ Len(wire) \in Nat \ {0} /\ Len(wire') = Len(wire) - 1
      /\ \A m \in 1 .. Len(wire) - 1 : wire'[m] = wire[m + 1]
  <2> DEFINE Byte == 0 .. Base - 1
  <2>1. wire \in Seq(Byte)
    BY DEF TInv, TypeOK
  <2> HIDE DEF Byte
  <2>2. /\ Head(wire) \in Byte /\ Head(wire) = wire[1]
        /\ Tail(wire) \in Seq(Byte) /\ Len(wire) \in Nat \ {0}
        /\ Len(Tail(wire)) = Len(wire) - 1
        /\ \A m \in 1 .. Len(wire) - 1 : Tail(wire)[m] = wire[m + 1]
    <3>1. Len(wire) \in Nat /\ Len(wire) # 0
      BY <1>1, <2>1, EmptySeq, LenProperties
    <3> QED
      BY <1>1, <2>1, <3>1, HeadTailProperties
  <2> QED
    BY <1>1, <2>2 DEF Byte
<1>5. Len(wire') <= Window
  <2>1. Len(wire) <= Window
    BY DEF TInv, TypeOK
  <2> QED
    BY <1>4, <2>1, Constants
<1> HIDE DEF byte
<1>6. \A j \in 1 .. c[2] - 1 : Full(<<c[1], j>>)
  BY <1>1, EarlierFull
<1>7. TypeOK' /\ Stages' /\ InOrder' /\ Decoded'
  BY <1>1, <1>4, <1>5, <1>6, AdvanceStep
<1>8. /\ Len(bytes[c]) \in Nat /\ Len(bytes'[c]) = next
      /\ bytes'[c][next] = byte
      /\ \A k \in 1 .. Len(bytes[c]) : bytes'[c][k] = bytes[c][k]
      /\ \A d \in Call : d # c => bytes'[d] = bytes[d]
  BY <1>1, <1>4, Grown
<1>9. number' = number
  BY <1>1 DEF Advance
<1>10. ASSUME NEW i \in Turn
       PROVE  /\ bytes'[<<"write", i>>] = bytes[<<"write", i>>]
              /\ i # c[2] => bytes'[<<"read", i>>] = bytes[<<"read", i>>]
  <2>1. /\ <<"read", i>> \in Call /\ (i # c[2] => <<"read", i>> # c)
        /\ <<"write", i>> \in Call /\ <<"write", i>> # c
    BY <1>1, <1>3, CallsAre
  <2> QED
    BY <1>8, <2>1
<1>11. \A i \in Turn : bytes'[<<"write", i>>] = bytes[<<"write", i>>]
  BY <1>10
<1> HIDE DEF next
<1>12. Encoded'
  BY <1>9, <1>11 DEF TInv, Encoded
<1>13. PICK n \in Nat : n = Len(wire) /\ n >= 1
  BY <1>4
<1>14. PICK at \in [1 .. n + 1 -> Place] :
         /\ IsAt("read", at[1])
         /\ IsAt("write", at[n + 1])
         /\ \A m \in 1 .. n :
              /\ at[m + 1] = After(at[m])
              /\ at[m][1] \in Turn
              /\ at[m][2] <= Len(bytes[<<"write", at[m][1]>>])
              /\ wire[m] = bytes[<<"write", at[m][1]>>][at[m][2]]
  BY <1>13 DEF TInv, Conveyed
<1>15. PICK x \in Place : x = at[1] /\ IsAt("read", x)
  BY <1>13, <1>14
<1>16. x = <<c[2], next>> /\ x[1] = c[2] /\ x[2] = next
  <2>1. x = <<c[2], next>>
    BY <1>1, <1>2, <1>6, <1>15, PlaceOf DEF next
  <2> QED
    BY <2>1
<1>17. /\ at[2] = After(x) /\ next <= Len(bytes[<<"write", c[2]>>])
       /\ byte = bytes[<<"write", c[2]>>][next]
  <2>1. 1 \in 1 .. n /\ 1 + 1 = 2
    BY <1>13
  <2>2. /\ at[2] = After(at[1])
        /\ at[1][2] <= Len(bytes[<<"write", at[1][1]>>])
        /\ wire[1] = bytes[<<"write", at[1][1]>>][at[1][2]]
    BY <1>14, <2>1
  <2> QED
    BY <1>4, <1>15, <1>16, <2>2
<1>18. Copied'
  <2>1. ASSUME NEW i \in Turn, i # c[2], NEW k \in 1 .. Len(bytes[<<"read", i>>])
        PROVE  /\ k <= Len(bytes[<<"write", i>>])
               /\ bytes[<<"read", i>>][k] = bytes[<<"write", i>>][k]
    BY <2>1 DEF TInv, Copied
  <2>2. ASSUME NEW k \in 1 .. next
        PROVE  /\ k <= Len(bytes[<<"write", c[2]>>])
               /\ bytes'[c][k] = bytes[<<"write", c[2]>>][k]
    <3>1. CASE k = next
      BY <1>8, <1>17, <3>1
    <3>2. CASE k # next
      <4>1. k \in 1 .. Len(bytes[c])
        BY <1>8, <3>2 DEF next
      <4>2. k \in 1 .. Len(bytes[<<"read", c[2]>>]) /\ c[2] \in Turn
        BY <1>3, <4>1
      <4>3. /\ k <= Len(bytes[<<"write", c[2]>>])
            /\ bytes[<<"read", c[2]>>][k] = bytes[<<"write", c[2]>>][k]
        BY <4>2 DEF TInv, Copied
      <4> QED
        BY <1>3, <1>8, <4>1, <4>3
    <3> QED
      BY <3>1, <3>2
  <2>3. ASSUME NEW i \in Turn, NEW k \in 1 .. Len(bytes'[<<"read", i>>])
        PROVE  /\ k <= Len(bytes'[<<"write", i>>])
               /\ bytes'[<<"read", i>>][k] = bytes'[<<"write", i>>][k]
    <3>1. CASE i = c[2]
      BY <1>3, <1>8, <1>11, <2>2, <2>3, <3>1
    <3>2. CASE i # c[2]
      BY <1>10, <1>11, <2>1, <2>3, <3>2
    <3> QED
      BY <3>1, <3>2
  <2> QED
    BY <2>3 DEF Copied
<1>19. Conveyed'
  <2>1. PICK y : y = After(x)
    OBVIOUS
  <2>2. y \in Place /\ IsAt("read", y)'
    BY <1>1, <1>2, <1>4, <1>15, <1>16, <2>1, Moves DEF next
  <2>3. PICK z \in Place : z = at[n + 1] /\ IsAt("write", z)
    BY <1>14
  <2>4. IsAt("write", z)'
    BY <1>1, <1>4, <2>3, Stays
  <2>5. PICK to \in [1 .. n -> Place] : to = [m \in 1 .. n |-> at[m + 1]]
    <3>1. \A m \in 1 .. n : m + 1 \in 1 .. n + 1
      OBVIOUS
    <3> QED
      BY <3>1
  <2>6. to[1] = y /\ to[n] = z /\ \A m \in 1 .. n : to[m] = at[m + 1]
    BY <1>13, <1>17, <2>1, <2>3, <2>5
  <2>7. ASSUME NEW m \in 1 .. n - 1
        PROVE  /\ to[m + 1] = After(to[m])
               /\ to[m][1] \in Turn
               /\ to[m][2] <= Len(bytes'[<<"write", to[m][1]>>])
               /\ wire'[m] = bytes'[<<"write", to[m][1]>>][to[m][2]]
    <3>1. PICK l \in 1 .. n : l = m + 1
      OBVIOUS
    <3>2. to[m] = at[l] /\ to[m + 1] = at[l + 1]
      BY <2>6, <3>1
    <3>3. PICK i, k : i \in Turn /\ i = at[l][1] /\ k = at[l][2]
      BY <1>14
    <3>4. /\ at[l + 1] = After(at[l]) /\ k <= Len(bytes[<<"write", i>>])
          /\ wire[l] = bytes[<<"write", i>>][k]
      BY <1>14, <3>3
    <3>5. wire'[m] = wire[l]
      BY <1>4, <1>13, <3>1
    <3>6. bytes'[<<"write", i>>] = bytes[<<"write", i>>]
      BY <1>11, <3>3
    <3> QED
      BY <3>2, <3>3, <3>4, <3>5, <3>6
  <2>8. Len(wire') = n - 1 /\ (n - 1) + 1 = n
    BY <1>4, <1>13
  <2>9. IsAt("read", to[1])' /\ IsAt("write", to[n])'
    BY <2>2, <2>4, <2>6 DEF IsAt
  <2>10. (/\ to \in [1 .. Len(wire) + 1 -> Place]
          /\ IsAt("read", to[1])
          /\ IsAt("write", to[Len(wire) + 1])
          /\ \A m \in 1 .. Len(wire) :
               /\ to[m + 1] = After(to[m])
               /\ to[m][1] \in Turn
               /\ to[m][2] <= Len(bytes[<<"write", to[m][1]>>])
               /\ wire[m] = bytes[<<"write", to[m][1]>>][to[m][2]])'
    BY <2>5, <2>7, <2>8, <2>9
  <2> QED
    BY <2>10, Zenon DEF Conveyed
<1> QED
  BY <1>7, <1>12, <1>18, <1>19 DEF TInv

-----------------------------------------------------------------------------
(* The theorems *)

LEMMA StepTInv == TInv /\ [Next]_vars => TInv'
<1> SUFFICES ASSUME TInv, [Next]_vars PROVE TInv'
  OBVIOUS
<1>1. ASSUME NEW c \in Call, Begin(c) PROVE TInv'
  BY <1>1, BeginStep
<1>2. ASSUME NEW c \in Call, Receive(c) PROVE TInv'
  BY <1>2, ReceiveStep
<1>3. ASSUME NEW c \in Call, TimerFires(c) \/ OfferTimeout(c) PROVE TInv'
  BY <1>3, TimerStep
<1>4. ASSUME NEW c \in Call, WriteByte(c) PROVE TInv'
  BY <1>4, WriteByteStep
<1>5. ASSUME NEW c \in Call, ReadByte(c) PROVE TInv'
  BY <1>5, ReadByteStep
<1>6. ASSUME NEW c \in Call, TransferFails(c) \/ SendOutcome(c) PROVE TInv'
  BY <1>6, OutcomeStep
<1>7. CASE Close \/ UNCHANGED vars
  BY <1>7, CloseStep
<1> QED
  BY <1>1, <1>2, <1>3, <1>4, <1>5, <1>6, <1>7 DEF Next

LEMMA AlwaysTInv == SafeSpec => []TInv
BY InitTInv, StepTInv, PTL DEF SafeSpec

\* Calls, goroutines and channels keep their types: among others, no channel ever
\* holds a second outcome, no call transfers more bytes than its integer has, and
\* every integer that is read is one of its format.
THEOREM TimeoutsTypeCorrect == SafeSpec => []TypeOK
BY AlwaysTInv, PTL DEF TInv

\* Integers are neither mixed up, cut nor shifted by timeouts at either end, however
\* many are sent, of whatever widths, and whatever the stream takes before it blocks.
THEOREM NumbersAlwaysArrive == SafeSpec => []NumbersArrive
<1>1. TInv => NumbersArrive
  <2> SUFFICES ASSUME TInv, NEW i \in Turn, caller[<<"read", i>>] = "ok"
               PROVE  number[<<"read", i>>] = number[<<"write", i>>]
    BY DEF NumbersArrive
  <2>1. Full(<<"read", i>>)
    BY CallsAre DEF TInv, Stages
  <2>2. number[<<"read", i>>] = DecodeBigEndian(bytes[<<"read", i>>], Format[i])
    BY DEF TInv, Decoded
  <2> QED
    BY <2>1, <2>2, ReadIsWritten
<1> QED
  BY <1>1, AlwaysTInv, PTL
-----------------------------------------------------------------------------
(* The contract of a call *)

\* What callers see is unchanged by a step that neither begins nor ends a call, and
\* completes no transfer.
LEMMA Unseen ==
  ASSUME \A c \in Call : Seen(c)' = Seen(c), UNCHANGED bytes
  PROVE  UNCHANGED Calls!vars
BY DEF Calls!vars

LEMMA BeginKeeps ==
  ASSUME TInv, NEW c \in Call, Begin(c)
  PROVE  Calls!Begin(c)
<1>1. /\ caller[c] = "idle" /\ caller' = [caller EXCEPT ![c] = "selecting"]
      /\ UNCHANGED bytes
  BY DEF Begin
<1>2. Seen(c) = "idle" /\ Seen(c)' = "pending"
  BY <1>1 DEF Seen, TInv, TypeOK
<1>3. \A d \in Call : d # c => Seen(d)' = Seen(d)
  BY <1>1 DEF Seen, TInv, TypeOK
<1> QED
  BY <1>1, <1>2, <1>3 DEF Calls!Begin

LEMMA ReceiveReturns ==
  ASSUME TInv, NEW c \in Call, Receive(c)
  PROVE  Calls!Return(c)
<1>1. /\ caller[c] \in {"selecting", "receiving"} /\ result[c] # <<>>
      /\ UNCHANGED bytes
      /\ \/ Head(result[c]) = "ok" /\ caller' = [caller EXCEPT ![c] = "ok"]
         \/ caller' = [caller EXCEPT ![c] = "error"]
  BY DEF Receive
<1>2. Head(result[c]) = "ok" => Len(bytes[c]) = Format[c[2]].width
  BY <1>1, OutcomeInChannel DEF TInv, Stages, Full
<1>3. Seen(c) = "pending" /\ Seen(c)' = caller'[c]
  BY <1>1 DEF Seen, TInv, TypeOK
<1>4. \A d \in Call : d # c => Seen(d)' = Seen(d)
  BY <1>1 DEF Seen, TInv, TypeOK
<1>5. \/ caller'[c] = "ok" /\ Len(bytes[c]) = Format[c[2]].width
      \/ caller'[c] = "error"
  BY <1>1, <1>2 DEF TInv, TypeOK
<1> QED
  BY <1>1, <1>3, <1>4, <1>5 DEF Calls!Return

LEMMA AdvanceTransfers ==
  ASSUME TInv, NEW c \in Call, NEW byte \in 0 .. Base - 1, Advance(c, byte), Served(c)
  PROVE  Calls!Transfer(c) \/ UNCHANGED Calls!vars
<1>1. /\ \A d \in Call : Seen(d)' = Seen(d)
      /\ \A d \in Call : d # c => bytes'[d] = bytes[d]
  BY Grown DEF Advance, Seen
<1>2. Len(bytes[c]) # Format[c[2]].width
  BY CallsAre DEF Served, TInv, TypeOK, Stages
<1>3. Seen(c) \in {"pending", "error"}
  <2>1. caller[c] # "idle" /\ caller[c] # "ok"
    BY <1>2 DEF Served, TInv, Stages, Full
  <2>2. caller[c] \in {"idle", "selecting", "expired", "receiving", "ok", "error"}
    BY DEF TInv, TypeOK
  <2> QED
    BY <2>1, <2>2 DEF Seen
<1>4. CASE Len(bytes'[c]) = Format[c[2]].width
  BY <1>1, <1>3, <1>4 DEF Calls!Transfer
<1>5. CASE Len(bytes'[c]) # Format[c[2]].width
  BY <1>1, <1>2, <1>5 DEF Calls!vars
<1> QED
  BY <1>4, <1>5

\* A byte that is written or read is a byte.
LEMMA NextByte ==
  ASSUME TInv, NEW c \in Call, WriteByte(c) \/ ReadByte(c)
  PROVE  \E byte \in 0 .. Base - 1 : Advance(c, byte) /\ Served(c)
<1> DEFINE Byte == 0 .. Base - 1
<1>1. CASE WriteByte(c)
  <2> DEFINE data == EncodeBigEndian(number[c], Format[c[2]])
             last == Len(bytes[c]) + 1
  <2>1. Served(c) /\ Advance(c, data[last])
    BY <1>1 DEF WriteByte
  <2>2. number[c] \in Int /\ c[2] \in Turn
    BY CallsAre DEF TInv, TypeOK
  <2>3. data \in Seq(Byte) /\ Len(data) = Format[c[2]].width
    BY <2>2, Formats, EncodedType
  <2>4. bytes[c] \in Seq(Byte) /\ Len(bytes[c]) < Format[c[2]].width /\ Format[c[2]].width \in Nat
    BY <2>1, CallsAre DEF Served, TInv, TypeOK, Stages
  <2> HIDE DEF data, Byte
  <2>5. data[last] \in Byte
    BY <2>3, <2>4
  <2> QED
    BY <2>1, <2>5 DEF Byte
<1>2. CASE ReadByte(c)
  <2>1. Served(c) /\ Advance(c, Head(wire)) /\ wire # <<>>
    BY <1>2 DEF ReadByte
  <2>2. wire \in Seq(Byte)
    BY DEF TInv, TypeOK
  <2> HIDE DEF Byte
  <2>3. Head(wire) \in Byte
    BY <2>1, <2>2, HeadTailProperties
  <2> QED
    BY <2>1, <2>3 DEF Byte
<1> QED
  BY <1>1, <1>2

LEMMA StepKeepsContract == TInv /\ [Next]_vars => [Calls!Next]_Calls!vars
<1> SUFFICES ASSUME TInv, [Next]_vars PROVE [Calls!Next]_Calls!vars
  OBVIOUS
<1>1. ASSUME NEW c \in Call, Begin(c) PROVE Calls!Next
  BY <1>1, BeginKeeps DEF Calls!Next
<1>2. ASSUME NEW c \in Call, Receive(c) PROVE Calls!Next
  BY <1>2, ReceiveReturns DEF Calls!Next
<1>3. ASSUME NEW c \in Call, TimerFires(c) \/ OfferTimeout(c) PROVE UNCHANGED Calls!vars
  <2>1. UNCHANGED bytes /\ \A d \in Call : Seen(d)' = Seen(d)
    BY <1>3 DEF TimerFires, OfferTimeout, Seen, TInv, TypeOK
  <2> QED
    BY <2>1, Unseen
<1>4. ASSUME NEW c \in Call, WriteByte(c) \/ ReadByte(c) PROVE [Calls!Next]_Calls!vars
  <2>1. PICK byte \in 0 .. Base - 1 : Advance(c, byte) /\ Served(c)
    BY <1>4, NextByte
  <2> QED
    BY <2>1, AdvanceTransfers DEF Calls!Next
<1>5. ASSUME NEW c \in Call, TransferFails(c) \/ SendOutcome(c) PROVE UNCHANGED Calls!vars
  BY <1>5, Unseen DEF TransferFails, SendOutcome, Seen
<1>6. CASE Close \/ UNCHANGED vars
  BY <1>6, Unseen DEF Close, vars, Seen
<1> QED
  BY <1>1, <1>2, <1>3, <1>4, <1>5, <1>6 DEF Next

\* Reads and writes keep the safety part of their contract: none returns nil before
\* all its bytes were transferred, none returns twice, and nothing is transferred
\* before a call has begun or after it returned nil.
THEOREM CallsKeepContract == SafeSpec => Calls!SafeSpec
<1>1. Init => Calls!Init
  <2> SUFFICES ASSUME Init PROVE Calls!Init
    OBVIOUS
  <2>1. \A c \in Call : Seen(c) = "idle" /\ Len(bytes[c]) = 0
    BY DEF Init, Seen
  <2> QED
    BY <2>1, CallsAre DEF Calls!Init
<1> QED
  BY <1>1, AlwaysTInv, StepKeepsContract, PTL DEF SafeSpec, Calls!SafeSpec
=============================================================================
