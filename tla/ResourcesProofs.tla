-------------------------- MODULE ResourcesProofs --------------------------
(***************************************************************************)
(* For documents of any size and addresses of any width: the filter and    *)
(* the routes of a session are what the gateway published.  The argument   *)
(* goes along the functions the documents pass through.  Each has a lemma  *)
(* that says what it makes of its input as a set, whatever the order the   *)
(* code keeps: addressRangePrefixes, mergePrefixes, applyDNSHosts, the     *)
(* parsers, and then the filter and the routes made of their results.      *)
(*                                                                         *)
(* What a loop does for every input is proved by Induction, and so is that *)
(* the recursive function the model writes for it exists.                  *)
(***************************************************************************)
EXTENDS Resources, FiniteSetTheorems, SequenceTheorems, TLAPS

(* Powers of two, and the loop of addressRangePrefixes. *)

(* Induction on the naturals, for a set: were m missing, the shift by one  *)
(* would map the members up to m into themselves less 0, and one of a      *)
(* finite set is not.                                                      *)
LEMMA Induction ==
    ASSUME NEW S, 0 \in S, \A n \in Nat : n \in S => n + 1 \in S
    PROVE  \A n \in Nat : n \in S
<1> SUFFICES ASSUME NEW m \in Nat, m \notin S PROVE FALSE
    OBVIOUS
<1> DEFINE T == {i \in 0..m : i \in S}
           f == [i \in T |-> i + 1]
<1>1. IsFiniteSet(T) /\ Cardinality(T) \in Nat
    <2>1. IsFiniteSet(0..m)
        BY FS_Interval
    <2>2. T \in SUBSET (0..m)
        OBVIOUS
    <2>3. IsFiniteSet(T)
        BY <2>1, <2>2, FS_Subset
    <2> QED
        BY <2>3, FS_CardinalityType
<1>2. 0 \in T
    OBVIOUS
<1>3. IsFiniteSet(T \ {0}) /\ Cardinality(T \ {0}) = Cardinality(T) - 1
    BY <1>1, <1>2, FS_RemoveElement
<1>4. f \in [T -> T \ {0}]
    OBVIOUS
<1>5. \E x, y \in T : x # y /\ f[x] = f[y]
    <2> HIDE DEF T, f
    <2> QED
        BY <1>1, <1>3, <1>4, FS_PigeonHole
<1> QED
    BY <1>5

(* Powers of two, from the number of subsets of 1..n. *)
LEMMA PowerStep ==
    ASSUME NEW n \in Nat
    PROVE  2^n \in Nat /\ 2^(n + 1) = 2 * 2^n
<1> DEFINE A == SUBSET (1..n)
           f == [T \in A |-> T \cup {n + 1}]
           B == {T \cup {n + 1} : T \in A}
<1>1. IsFiniteSet(A) /\ Cardinality(A) = 2^n /\ Cardinality(A) \in Nat
    <2>1. IsFiniteSet(1..n) /\ Cardinality(1..n) = n
        BY FS_Interval
    <2>2. IsFiniteSet(A) /\ Cardinality(A) = 2^n
        BY <2>1, FS_SUBSET
    <2> QED
        BY <2>2, FS_CardinalityType
<1>2. Cardinality(SUBSET (1..(n + 1))) = 2^(n + 1)
    <2>1. IsFiniteSet(1..(n + 1)) /\ Cardinality(1..(n + 1)) = n + 1
        BY FS_Interval
    <2> QED
        BY <2>1, FS_SUBSET
<1>3. ExistsBijection(A, B)
    <2>1. \A S, T \in A : f[S] = f[T] => S = T
        <3> SUFFICES ASSUME NEW S \in A, NEW T \in A, f[S] = f[T] PROVE S = T
            OBVIOUS
        <3>1. n + 1 \notin S /\ n + 1 \notin T /\ S \cup {n + 1} = T \cup {n + 1}
            OBVIOUS
        <3> QED
            BY <3>1
    <2>2. f \in [A -> B] /\ \A b \in B : \E T \in A : f[T] = b
        OBVIOUS
    <2>3. f \in Bijection(A, B)
        <3> HIDE DEF A, B, f
        <3> QED
            BY <2>1, <2>2 DEF Bijection, Injection, Surjection, IsInjective
    <2> QED
        BY <2>3 DEF ExistsBijection
<1>4. IsFiniteSet(B) /\ Cardinality(B) = Cardinality(A)
    BY <1>1, <1>3, FS_Bijection
<1>5. A \cap B = {}
    OBVIOUS
<1>6. SUBSET (1..(n + 1)) = A \cup B
    <2>1. ASSUME NEW T \in SUBSET (1..(n + 1)) PROVE T \in A \cup B
        <3>1. CASE n + 1 \notin T
            BY <3>1
        <3>2. CASE n + 1 \in T
            <4>1. T \ {n + 1} \in A /\ T = (T \ {n + 1}) \cup {n + 1}
                BY <3>2
            <4> QED
                BY <4>1
        <3> QED
            BY <3>1, <3>2
    <2>2. ASSUME NEW T \in A \cup B PROVE T \subseteq 1..(n + 1)
        OBVIOUS
    <2> QED
        BY <2>1, <2>2
<1>7. Cardinality(A \cup B) = Cardinality(A) + Cardinality(B) - Cardinality({})
    <2> HIDE DEF A, B
    <2> QED
        BY <1>1, <1>4, <1>5, FS_Union
<1>8. Cardinality(A \cup B) = 2 * Cardinality(A)
    <2> HIDE DEF A, B
    <2> QED
        BY <1>1, <1>4, <1>7, FS_EmptySet
<1>9. 2^(n + 1) = 2 * Cardinality(A)
    <2> HIDE DEF A, B
    <2> QED
        BY <1>2, <1>6, <1>8
<1> QED
    <2> HIDE DEF A
    <2> QED
        BY <1>1, <1>9

(* No power of two is zero. *)
LEMMA PowerPositive == \A n \in Nat : 2^n \in Nat \ {0}
<1> DEFINE S == {n \in Nat : 2^n \in Nat \ {0}}
<1>1. 0 \in S
    OBVIOUS
<1>2. \A n \in Nat : n \in S => n + 1 \in S
    BY PowerStep
<1>3. \A n \in Nat : n \in S
    <2> HIDE DEF S
    <2> QED
        BY <1>1, <1>2, Induction
<1> QED
    BY <1>3

(* 2^i divides 2^j. *)
LEMMA PowerDivides ==
    \A i, d \in Nat : \E k \in Nat \ {0} : 2^(i + d) = k * 2^i
<1> TAKE i \in Nat
<1> DEFINE S == {d \in Nat : \E k \in Nat \ {0} : 2^(i + d) = k * 2^i}
<1>1. 0 \in S
    <2>1. 2^(i + 0) = 1 * 2^i
        BY PowerPositive
    <2> QED
        BY <2>1
<1>2. ASSUME NEW d \in Nat, d \in S PROVE d + 1 \in S
    <2>1. PICK k \in Nat \ {0} : 2^(i + d) = k * 2^i
        BY <1>2
    <2>2. 2^(i + d + 1) = 2 * 2^(i + d)
        BY PowerStep
    <2> DEFINE q == 2 * k
    <2>3. q \in Nat \ {0} /\ 2^(i + (d + 1)) = q * 2^i
        BY <2>1, <2>2, PowerPositive
    <2> QED
        <3> HIDE DEF q
        <3> QED
            BY <2>3
<1>3. \A d \in Nat : d \in S
    <2> HIDE DEF S
    <2> QED
        BY <1>1, <1>2, Induction
<1> QED
    BY <1>3

(* A larger exponent gives at least twice the power. *)
LEMMA PowerGrows ==
    ASSUME NEW i \in Nat, NEW j \in Nat
    PROVE  /\ i <= j => 2^i <= 2^j
           /\ i < j => 2 * 2^i <= 2^j
<1>1. ASSUME NEW a \in Nat, NEW b \in Nat, a <= b PROVE 2^a <= 2^b
    <2> DEFINE d == b - a
    <2>1. d \in Nat /\ b = a + d
        BY <1>1
    <2>2. PICK k \in Nat \ {0} : 2^b = k * 2^a
        <3> HIDE DEF d
        <3> QED
            BY <2>1, PowerDivides
    <2>3. 2^a \in Nat
        BY PowerPositive
    <2> QED
        BY <2>2, <2>3
<1>2. i < j => 2^(i + 1) <= 2^j
    BY <1>1
<1> QED
    BY <1>1, <1>2, PowerStep

(* What % and \div are. *)
LEMMA Remainder ==
    ASSUME NEW n \in Nat, NEW m \in Nat \ {0}
    PROVE  /\ n % m \in 0..(m - 1) /\ n \div m \in Nat
           /\ n = m * (n \div m) + (n % m)
OBVIOUS

(* A remainder of zero makes a multiple. *)
LEMMA Multiple ==
    ASSUME NEW n \in Nat, NEW m \in Nat \ {0}
    PROVE  n % m = 0 <=> \E k \in Nat : n = k * m
<1>1. ASSUME n % m = 0 PROVE \E k \in Nat : n = k * m
    <2> DEFINE d == n \div m
    <2>1. d \in Nat /\ n = m * d
        BY <1>1, Remainder
    <2> HIDE DEF d
    <2>2. n = d * m
        BY <2>1
    <2> QED
        BY <2>1, <2>2
<1>2. ASSUME NEW k \in Nat, n = k * m PROVE n % m = 0
    <2> DEFINE d == n \div m
               r == n % m
    <2>1. d \in Nat /\ r \in 0..(m - 1) /\ k * m = m * d + r
        BY <1>2, Remainder
    <2>2. r = 0
        <3> HIDE DEF d, r
        <3>1. CASE k <= d
            <4>1. k * m <= d * m
                BY <3>1, <2>1
            <4> QED
                BY <4>1, <2>1
        <3>2. CASE k > d
            <4>1. k * m >= (d + 1) * m
                BY <3>2, <2>1
            <4>2. (d + 1) * m = m * d + m
                BY <2>1
            <4> QED
                BY <4>1, <4>2, <2>1
        <3> QED
            BY <3>1, <3>2, <2>1
    <2> QED
        BY <2>2
<1> QED
    BY <1>1, <1>2

(* Two multiples of m are at least m apart. *)
LEMMA Apart ==
    ASSUME NEW m \in Nat \ {0}, NEW a \in Nat, NEW b \in Nat, a % m = 0, b % m = 0, a < b
    PROVE  a + m <= b
<1>1. PICK i \in Nat : a = i * m
    BY Multiple
<1>2. PICK j \in Nat : b = j * m
    BY Multiple
<1>3. i < j
    <2>1. j <= i => j * m <= i * m
        OBVIOUS
    <2> QED
        BY <1>1, <1>2, <2>1
<1>4. (i + 1) * m <= j * m
    BY <1>3
<1>5. (i + 1) * m = i * m + m
    OBVIOUS
<1> QED
    BY <1>1, <1>2, <1>4, <1>5

(* Sums and differences of multiples are multiples. *)
LEMMA MultipleSum ==
    ASSUME NEW m \in Nat \ {0}, NEW a \in Nat, NEW b \in Nat, a % m = 0, b % m = 0
    PROVE  /\ (a + b) % m = 0
           /\ b <= a => (a - b) % m = 0
<1>1. PICK i \in Nat : a = i * m
    BY Multiple
<1>2. PICK j \in Nat : b = j * m
    BY Multiple
<1>3. (a + b) % m = 0
    <2> DEFINE k == i + j
               c == a + b
    <2>1. k \in Nat /\ c \in Nat /\ c = k * m
        BY <1>1, <1>2
    <2>2. c % m = 0
        <3> HIDE DEF k, c
        <3> QED
            BY <2>1, Multiple
    <2> QED
        BY <2>2
<1>4. ASSUME b <= a PROVE (a - b) % m = 0
    <2> DEFINE k == i - j
    <2>1. i < j => (i + 1) * m <= j * m
        OBVIOUS
    <2>2. (i + 1) * m = i * m + m
        OBVIOUS
    <2>3. k \in Nat
        BY <1>1, <1>2, <1>4, <2>1, <2>2
    <2>4. a - b = k * m
        BY <1>1, <1>2
    <2> HIDE DEF k
    <2>5. a - b \in Nat
        BY <1>4
    <2> QED
        BY <2>3, <2>4, <2>5, Multiple
<1> QED
    BY <1>3, <1>4

(* What a power of two divides, the smaller ones do. *)
LEMMA AlignedDown ==
    ASSUME NEW i \in Nat, NEW j \in Nat, i <= j, NEW n \in Nat, n % 2^j = 0
    PROVE  n % 2^i = 0
<1> DEFINE d == j - i
           p == 2^i
<1>1. d \in Nat /\ j = i + d
    OBVIOUS
<1>2. p \in Nat \ {0} /\ 2^j \in Nat \ {0}
    BY PowerPositive
<1>3. PICK k \in Nat \ {0} : 2^j = k * p
    <2> HIDE DEF d
    <2> QED
        BY <1>1, PowerDivides
<1>4. PICK l \in Nat : n = l * 2^j
    BY <1>2, Multiple
<1> DEFINE q == l * k
<1>5. q \in Nat /\ n = q * p
    <2> HIDE DEF p
    <2> QED
        BY <1>2, <1>3, <1>4
<1> QED
    <2> HIDE DEF q, p
    <2>1. n % p = 0
        BY <1>2, <1>5, Multiple
    <2> QED
        BY <2>1 DEF p

(* An odd multiple of 2^s is one 2^s away from multiples of 2^(s + 1), on  *)
(* both sides.                                                             *)
LEMMA AlignedUp ==
    ASSUME NEW s \in Nat, NEW n \in Nat, n % 2^s = 0, n % 2^(s + 1) # 0
    PROVE  /\ n >= 2^s
           /\ (n + 2^s) % 2^(s + 1) = 0
           /\ (n - 2^s) % 2^(s + 1) = 0
<1> DEFINE p == 2^s
           q == 2^(s + 1)
<1>1. p \in Nat \ {0} /\ q \in Nat \ {0} /\ q = 2 * p
    BY PowerStep, PowerPositive
<1> SUFFICES n >= p /\ (n + p) % q = 0 /\ (n - p) % q = 0
    OBVIOUS
<1>2. n % p = 0 /\ n % q # 0
    OBVIOUS
<1> HIDE DEF p, q
<1>3. PICK k \in Nat : n = k * p
    BY <1>1, <1>2, Multiple
<1> DEFINE h == k \div 2
<1>4. h \in Nat /\ (k = 2 * h \/ k = 2 * h + 1)
    OBVIOUS
<1> HIDE DEF h
<1>5. k # 2 * h
    <2>1. k = 2 * h => n = h * q
        BY <1>1, <1>3, <1>4
    <2> QED
        BY <1>1, <1>2, <1>4, <2>1, Multiple
<1>6. n = h * q + p
    BY <1>1, <1>3, <1>4, <1>5
<1>7. h * q \in Nat
    BY <1>1, <1>4
<1>8. n - p = h * q /\ n >= p
    BY <1>1, <1>6, <1>7
<1> DEFINE g == h + 1
<1>9. g \in Nat /\ n + p = g * q
    BY <1>1, <1>4, <1>6
<1> DEFINE u == n + p
           d == n - p
<1>10. u \in Nat /\ d \in Nat /\ u = g * q /\ d = h * q
    BY <1>1, <1>8, <1>9
<1>11. u % q = 0 /\ d % q = 0
    <2> HIDE DEF g, u, d
    <2> QED
        BY <1>1, <1>4, <1>9, <1>10, Multiple
<1> QED
    BY <1>8, <1>11

(* A nonempty set of bounded naturals has a maximum. *)
LEMMA MaxIs ==
    ASSUME NEW n \in Nat, NEW S \in SUBSET (0..n), S # {}
    PROVE  Max(S) \in S /\ \A x \in S : x <= Max(S)
<1> DEFINE HasMax(T) == \E x \in T : \A y \in T : x >= y
           U == {m \in Nat : \A T \in SUBSET (0..m) : T # {} => HasMax(T)}
<1>1. 0 \in U
    <2> SUFFICES ASSUME NEW T \in SUBSET (0..0), T # {} PROVE HasMax(T)
        OBVIOUS
    <2>1. PICK x \in T : TRUE
        OBVIOUS
    <2>2. \A y \in T : x >= y
        OBVIOUS
    <2> QED
        BY <2>1, <2>2
<1>2. ASSUME NEW m \in Nat, m \in U PROVE m + 1 \in U
    <2> SUFFICES ASSUME NEW T \in SUBSET (0..(m + 1)), T # {} PROVE HasMax(T)
        OBVIOUS
    <2>1. CASE m + 1 \in T
        BY <2>1
    <2>2. CASE m + 1 \notin T
        <3>1. T \in SUBSET (0..m)
            BY <2>2
        <3> QED
            BY <3>1, <1>2
    <2> QED
        BY <2>1, <2>2
<1>3. \A m \in Nat : m \in U
    <2> HIDE DEF U
    <2> QED
        BY <1>1, <1>2, Induction
<1>4. PICK x \in S : \A y \in S : x >= y
    BY <1>3
<1>5. Max(S) \in S /\ \A y \in S : Max(S) >= y
    BY <1>4 DEF Max
<1> QED
    BY <1>5

(* The minimum of two. *)
LEMMA MinPair ==
    ASSUME NEW a \in Nat, NEW b \in Nat
    PROVE  Min({a, b}) = IF a <= b THEN a ELSE b
<1> DEFINE m == IF a <= b THEN a ELSE b
<1>1. m \in {a, b} /\ \A y \in {a, b} : m <= y
    OBVIOUS
<1>2. \A x \in {a, b} : (\A y \in {a, b} : x <= y) => x = m
    OBVIOUS
<1>3. Min({a, b}) \in {a, b} /\ \A y \in {a, b} : Min({a, b}) <= y
    <2> HIDE DEF m
    <2> QED
        BY <1>1 DEF Min
<1> QED
    BY <1>2, <1>3

(* bits.TrailingZeros32: the largest power of two that divides n. *)
LEMMA AlignmentIs ==
    ASSUME NEW n \in Nat
    PROVE  /\ Alignment(n) \in 0..Width
           /\ n % 2^Alignment(n) = 0
           /\ \A s \in 0..Width : n % 2^s = 0 => s <= Alignment(n)
<1> DEFINE S == {s \in 0..Width : n % 2^s = 0}
<1>1. S \in SUBSET (0..Width) /\ Width \in Nat
    BY WidthAssumption
<1>2. 0 \in S
    BY WidthAssumption
<1>3. Max(S) \in S /\ \A x \in S : x <= Max(S)
    <2> HIDE DEF S
    <2> QED
        BY <1>1, <1>2, MaxIs
<1>4. Alignment(n) = Max(S)
    BY DEF Alignment
<1> QED
    <2>1. Alignment(n) \in S /\ \A x \in S : x <= Alignment(n)
        <3> HIDE DEF S
        <3> QED
            BY <1>3, <1>4
    <2> QED
        BY <2>1

(* The largest power of two in count. *)
LEMMA SizeIs ==
    ASSUME NEW count \in 1..2^Width
    PROVE  /\ Size(count) \in 0..Width
           /\ 2^Size(count) <= count
           /\ count < 2^(Size(count) + 1)
<1> DEFINE S == {s \in 0..Width : 2^s <= count}
<1>1. S \in SUBSET (0..Width) /\ Width \in Nat
    BY WidthAssumption
<1>2. 2^Width \in Nat /\ count \in Nat /\ count >= 1 /\ count <= 2^Width
    BY <1>1, PowerPositive
<1>3. 0 \in S
    BY <1>1, <1>2
<1>4. Max(S) \in S /\ \A x \in S : x <= Max(S)
    <2> HIDE DEF S
    <2> QED
        BY <1>1, <1>3, MaxIs
<1>5. Size(count) = Max(S)
    BY DEF Size
<1>6. Size(count) \in S /\ \A x \in S : x <= Size(count)
    <2> HIDE DEF S
    <2> QED
        BY <1>4, <1>5
<1> DEFINE z == Size(count)
<1>7. z \in 0..Width /\ 2^z <= count
    BY <1>6
<1>8. \A x \in 0..Width : 2^x <= count => x <= z
    BY <1>6
<1> HIDE DEF z, S
<1>9. count < 2^(z + 1)
    <2>1. 2^(z + 1) \in Nat
        BY <1>7, PowerPositive
    <2>2. CASE z = Width
        <3>1. 2^(z + 1) = 2 * 2^Width /\ 2^Width # 0
            BY <1>1, <2>2, PowerStep, PowerPositive
        <3> QED
            BY <1>2, <3>1
    <2>3. CASE z # Width
        <3>1. z + 1 \in 0..Width /\ ~(z + 1 <= z)
            BY <1>1, <1>7, <2>3
        <3>2. ~(2^(z + 1) <= count)
            BY <1>8, <3>1
        <3> QED
            BY <1>2, <2>1, <3>2
    <2> QED
        BY <2>2, <2>3
<1> QED
    BY <1>7, <1>9 DEF z

(* The blocks of masked prefixes. *)
Aligned == {p \in AllPrefixes : p = Masked(p)}
Length(p) == 2^(Width - p.bits)

(* A prefix is masked just when its length divides its address. *)
LEMMA MaskedIs ==
    ASSUME NEW addr \in Nat, NEW s \in 0..Width
    PROVE  LET p == [addr |-> addr, bits |-> Width - s]
           IN p = Masked(p) <=> addr % 2^s = 0
<1> DEFINE p == [addr |-> addr, bits |-> Width - s]
<1>1. 2^s \in Nat \ {0} /\ Width - (Width - s) = s
    BY WidthAssumption, PowerPositive
<1>2. Masked(p) = [addr |-> addr - (addr % 2^s), bits |-> Width - s]
    BY <1>1 DEF Masked
<1>3. addr % 2^s \in Nat
    BY <1>1, Remainder
<1>4. addr - (addr % 2^s) = addr <=> addr % 2^s = 0
    BY <1>3
<1>5. p = Masked(p) <=> addr - (addr % 2^s) = addr
    BY <1>2
<1> QED
    BY <1>4, <1>5

(* The block of a masked prefix begins at its address. *)
LEMMA AlignedIs ==
    ASSUME NEW p \in Aligned
    PROVE  /\ p.addr \in Nat /\ p.addr \in Addresses4 /\ p.bits \in 0..Width
           /\ Width - p.bits \in 0..Width
           /\ Length(p) \in Nat \ {0}
           /\ p.addr % Length(p) = 0
           /\ Block(p) = p.addr..(p.addr + Length(p) - 1)
<1>1. p \in AllPrefixes /\ p = Masked(p)
    BY DEF Aligned
<1>2. 2^Width \in Nat \ {0} /\ Width \in Nat
    BY WidthAssumption, PowerPositive
<1>3. p.addr \in Nat /\ p.addr \in Addresses4 /\ p.bits \in 0..Width /\ p.addr < 2^Width
    BY <1>1, <1>2 DEF AllPrefixes, Addresses4
<1>4. Width - p.bits \in 0..Width /\ Length(p) \in Nat \ {0}
    BY <1>2, <1>3, PowerPositive DEF Length
<1>5. p = [addr |-> p.addr, bits |-> p.bits]
    BY <1>1 DEF AllPrefixes
<1> DEFINE s == Width - p.bits
<1>6. p = [addr |-> p.addr, bits |-> Width - s]
    BY <1>2, <1>3, <1>5
<1>7. p.addr % 2^s = 0
    <2>1. s \in 0..Width
        BY <1>4
    <2> HIDE DEF s
    <2> QED
        BY <1>1, <1>3, <1>6, <2>1, MaskedIs
<1>8. p.addr # Address6
    BY <1>2, <1>3 DEF Address6
<1>9. Block(p) = p.addr..(p.addr + Length(p) - 1)
    BY <1>1, <1>8 DEF Block, Length
<1> QED
    BY <1>3, <1>4, <1>7, <1>9 DEF Length

(* Of two masked prefixes that overlap, the longer lies within the other. *)
LEMMA Nested ==
    ASSUME NEW p \in Aligned, NEW q \in Aligned, q.bits <= p.bits, Block(p) \cap Block(q) # {}
    PROVE  Block(p) \subseteq Block(q)
<1> DEFINE a == p.addr
           b == q.addr
           m == Length(p)
           n == Length(q)
           i == Width - p.bits
           j == Width - q.bits
<1>1. /\ a \in Nat /\ m \in Nat \ {0} /\ a % m = 0 /\ Block(p) = a..(a + m - 1)
      /\ b \in Nat /\ n \in Nat \ {0} /\ b % n = 0 /\ Block(q) = b..(b + n - 1)
      /\ i \in Nat /\ j \in Nat /\ i <= j /\ m = 2^i /\ n = 2^j
    BY AlignedIs, WidthAssumption DEF Length
<1> HIDE DEF a, b, m, n, i, j
<1>2. n % m = 0
    <2> DEFINE d == j - i
    <2>1. d \in Nat /\ j = i + d
        BY <1>1
    <2>2. PICK k \in Nat \ {0} : n = k * m
        <3> HIDE DEF d
        <3> QED
            BY <1>1, <2>1, PowerDivides
    <2> QED
        BY <1>1, <2>2, Multiple
<1>3. b % m = 0
    BY <1>1, AlignedDown
<1> DEFINE e == b + n
<1>4. e \in Nat /\ e % m = 0
    <2>1. b \in Nat /\ n \in Nat /\ m \in Nat \ {0} /\ e \in Nat
        BY <1>1
    <2>2. (b + n) % m = 0
        BY <1>2, <1>3, <2>1, MultipleSum, Zenon
    <2> QED
        BY <2>1, <2>2
<1> HIDE DEF e
<1>5. a < b => a + m <= b
    BY <1>1, <1>3, Apart
<1>6. a < e => a + m <= e
    BY <1>1, <1>4, Apart
<1>7. PICK x : x \in Block(p) /\ x \in Block(q)
    OBVIOUS
<1>8. a >= b /\ a + m <= b + n
    BY <1>1, <1>4, <1>5, <1>6, <1>7 DEF e
<1> QED
    BY <1>1, <1>8

(* One of the addresses of Single(address). *)
LEMMA SingleBlock ==
    ASSUME NEW address \in Addresses
    PROVE  Block(Single(address)) = {address} /\ Masked(Single(address)) = Single(address)
<1>1. 2^Width \in Nat /\ Width \in Nat
    BY WidthAssumption, PowerPositive
<1>2. address \in Nat
    BY <1>1 DEF Addresses, Addresses4, Address6
<1>3. 2^(Width - Width) = 1
    <2>1. Width - Width = 0 /\ 2^0 = 1
        BY <1>1
    <2> QED
        BY <2>1, Zenon
<1>4. Masked(Single(address)) = Single(address)
    <2>1. address - (address % 1) = address
        BY <1>2
    <2>2. Masked(Single(address))
            = [addr |-> address - (address % 2^(Width - Width)), bits |-> Width]
        BY DEF Masked, Single
    <2> QED
        BY <1>3, <2>1, <2>2, Zenon DEF Single
<1>5. Block(Single(address)) = {address}
    <2>1. CASE address = Address6
        BY <2>1 DEF Block, Single
    <2>2. CASE address # Address6
        <3>1. Block(Single(address)) = address..(address + 2^(Width - Width) - 1)
            BY <1>4, <2>2 DEF Block, Single
        <3>2. address + 1 - 1 = address
            BY <1>2
        <3>3. Block(Single(address)) = address..address
            BY <1>3, <3>1, <3>2, Zenon
        <3> QED
            BY <1>2, <3>3
    <2> QED
        BY <2>1, <2>2
<1> QED
    BY <1>4, <1>5

(* The loop of addressRangePrefixes at an address: how far the address and *)
(* what is left of the range allow a block to go, and what they leave.     *)
Left(first, end)   == Size(end - first + 1)
Exponent(first, end) == Min({Alignment(first), Left(first, end)})

(* No block that contains first and begins before it fits into the range.  *)
Fresh(first, start, end) ==
    \/ first - start < 2^Alignment(first)
    \/ Alignment(first) > Left(first, end)

(* Rounds to come: the blocks grow, and then shrink. *)
Measure(first, end) ==
    IF Alignment(first) < Left(first, end) THEN 2 * Width - Alignment(first)
    ELSE Left(first, end) + 1

(* The bounds of an interval within another. *)
LEMMA IntervalInside ==
    ASSUME NEW a \in Int, NEW b \in Int, NEW c \in Int, NEW d \in Int, a <= b,
           a..b \subseteq c..d
    PROVE  c <= a /\ b <= d
<1>1. a \in a..b /\ b \in a..b
    OBVIOUS
<1>2. a \in c..d /\ b \in c..d
    BY <1>1
<1> QED
    BY <1>2

(* The numbers a round of the loop computes. *)
LEMMA RangeFacts ==
    ASSUME NEW end \in Addresses4, NEW first \in 0..end
    PROVE  /\ first \in Nat /\ end \in Nat /\ end < 2^Width /\ 2^Width \in Nat
           /\ Alignment(first) \in 0..Width /\ Left(first, end) \in 0..Width
           /\ first % 2^Alignment(first) = 0
           /\ \A s \in 0..Width : first % 2^s = 0 => s <= Alignment(first)
           /\ 2^Left(first, end) <= end - first + 1
           /\ end - first + 1 < 2^(Left(first, end) + 1)
           /\ Exponent(first, end) = IF Alignment(first) <= Left(first, end)
                                   THEN Alignment(first) ELSE Left(first, end)
<1>1. 2^Width \in Nat /\ Width \in Nat
    BY WidthAssumption, PowerPositive
<1>2. first \in Nat /\ end \in Nat /\ end < 2^Width
    BY <1>1 DEF Addresses4
<1>3. end - first + 1 \in 1..2^Width
    BY <1>1, <1>2
<1>4. /\ Left(first, end) \in 0..Width
      /\ 2^Left(first, end) <= end - first + 1
      /\ end - first + 1 < 2^(Left(first, end) + 1)
    BY <1>3, SizeIs DEF Left
<1>5. /\ Alignment(first) \in 0..Width
      /\ first % 2^Alignment(first) = 0
      /\ \A s \in 0..Width : first % 2^s = 0 => s <= Alignment(first)
    BY <1>2, AlignmentIs
<1>6. Exponent(first, end) = IF Alignment(first) <= Left(first, end)
                           THEN Alignment(first) ELSE Left(first, end)
    BY <1>4, <1>5, MinPair DEF Exponent
<1> QED
    BY <1>1, <1>2, <1>4, <1>5, <1>6

(* What a round appends is a largest block of the range. *)
LEMMA LargestBlock ==
    ASSUME NEW start \in Addresses4, NEW end \in Addresses4, NEW first \in start..end,
           Fresh(first, start, end)
    PROVE  LET p == [addr |-> first, bits |-> Width - Exponent(first, end)]
           IN  /\ p \in Aligned /\ Length(p) = 2^Exponent(first, end)
               /\ p \in LargestBlocks(start, end)
<1> DEFINE a == Alignment(first)
           z == Left(first, end)
           l == Exponent(first, end)
           p == [addr |-> first, bits |-> Width - l]
<1>1. start \in Nat /\ first \in 0..end
    BY DEF Addresses4
<1>2. /\ first \in Nat /\ end \in Nat /\ end < 2^Width /\ 2^Width \in Nat
      /\ a \in 0..Width /\ z \in 0..Width
      /\ first % 2^a = 0
      /\ \A s \in 0..Width : first % 2^s = 0 => s <= a
      /\ 2^z <= end - first + 1
      /\ end - first + 1 < 2^(z + 1)
      /\ l = IF a <= z THEN a ELSE z
    BY <1>1, RangeFacts
<1>3. first - start < 2^a \/ a > z
    BY DEF Fresh
<1> HIDE DEF a, z, l
<1>4. l \in 0..Width /\ l <= a /\ l <= z /\ l \in Nat /\ a \in Nat /\ z \in Nat
    BY <1>2, WidthAssumption
<1>5. first % 2^l = 0
    BY <1>2, <1>4, AlignedDown
<1>6. p \in Aligned /\ Length(p) = 2^l
    <2>1. Width - l \in 0..Width /\ Width - (Width - l) = l
        BY <1>4, WidthAssumption
    <2>2. first \in Addresses4
        BY <1>1, <1>2 DEF Addresses4
    <2>3. p \in AllPrefixes
        BY <2>1, <2>2 DEF AllPrefixes
    <2>4. p = Masked(p)
        BY <1>2, <1>4, <1>5, MaskedIs
    <2> QED
        BY <2>1, <2>3, <2>4 DEF Aligned, Length
<1>7. 2^l \in Nat \ {0} /\ 2^l <= 2^z /\ 2^z \in Nat /\ 2^a \in Nat \ {0}
    BY <1>4, PowerPositive, PowerGrows
<1>8. Block(p) = first..(first + 2^l - 1)
    BY <1>6, AlignedIs
<1>9. Block(p) \subseteq start..end
    BY <1>1, <1>2, <1>7, <1>8
<1>10. ASSUME NEW q \in Aligned, Block(q) \subseteq start..end, Block(p) \subseteq Block(q)
       PROVE  q = p
    <2> DEFINE b == q.addr
               k == Width - q.bits
    <2>1. /\ b \in Nat /\ k \in 0..Width /\ k \in Nat /\ 2^k \in Nat \ {0} /\ b % 2^k = 0
          /\ Block(q) = b..(b + 2^k - 1) /\ q = [addr |-> b, bits |-> Width - k]
        <3>1. q \in AllPrefixes
            BY DEF Aligned
        <3>2. q = [addr |-> q.addr, bits |-> q.bits] /\ q.bits \in 0..Width
            BY <3>1 DEF AllPrefixes
        <3>3. q.bits = Width - k
            BY <3>2, WidthAssumption
        <3> QED
            BY <3>2, <3>3, AlignedIs, WidthAssumption DEF Length
    <2> HIDE DEF b, k
    <2>2. b >= start /\ b + 2^k <= end + 1
        <3> DEFINE y == b + 2^k - 1
        <3>1. y \in Int /\ b <= y /\ b..y \subseteq start..end /\ start \in Int /\ b \in Int
            BY <1>1, <1>10, <2>1
        <3>2. start <= b /\ y <= end
            <4> HIDE DEF y
            <4> QED
                BY <1>2, <3>1, IntervalInside
        <3> QED
            BY <1>2, <2>1, <3>2
    <2>3. b <= first /\ first + 2^l <= b + 2^k
        <3> DEFINE x == first + 2^l - 1
                   y == b + 2^k - 1
        <3>1. x \in Int /\ y \in Int /\ first <= x
            BY <1>2, <1>7, <2>1
        <3>2. first..x \subseteq b..y
            BY <1>8, <1>10, <2>1, Zenon
        <3>3. b <= first /\ x <= y
            <4>1. first \in Int /\ b \in Int
                BY <1>2, <2>1
            <4> HIDE DEF x, y
            <4> QED
                BY <3>1, <3>2, <4>1, IntervalInside
        <3> QED
            BY <1>2, <1>7, <2>1, <3>3
    <2>4. CASE k <= l
        <3>1. 2^k <= 2^l /\ (k < l => 2 * 2^k <= 2^l)
            BY <1>4, <2>1, <2>4, PowerGrows
        <3>2. b = first /\ k = l
            BY <1>2, <1>4, <1>7, <2>1, <2>3, <2>4, <3>1
        <3> QED
            BY <2>1, <3>2
    <2>5. CASE k > l /\ b = first
        <3>1. k <= a
            BY <1>2, <2>1, <2>5
        <3>2. z + 1 <= k
            BY <1>2, <1>4, <2>1, <2>5, <3>1
        <3>3. 2^(z + 1) <= 2^k /\ 2^(z + 1) \in Nat
            BY <1>4, <2>1, <3>2, PowerGrows, PowerPositive
        <3> QED
            BY <1>2, <2>1, <2>2, <2>5, <3>3
    <2>6. CASE k > l /\ b # first
        <3>1. b < first /\ first < b + 2^k
            BY <1>2, <1>7, <2>1, <2>3, <2>6
        <3>2. k > a
            <4> SUFFICES ASSUME k <= a PROVE FALSE
                BY <1>4, <2>1
            <4>1. first % 2^k = 0
                BY <1>2, <1>4, <2>1, AlignedDown
            <4>2. b + 2^k <= first
                BY <1>2, <2>1, <3>1, <4>1, Apart
            <4> QED
                BY <1>2, <2>1, <3>1, <4>2
        <3>3. b % 2^a = 0
            BY <1>4, <2>1, <3>2, AlignedDown
        <3>4. b + 2^a <= first
            BY <1>2, <1>7, <2>1, <3>1, <3>3, Apart
        <3>5. a > z
            BY <1>1, <1>2, <1>3, <1>7, <2>1, <2>2, <3>4
        <3> DEFINE e == b + 2^k
        <3>6. e \in Nat /\ e % 2^a = 0
            <4>1. 2^k % 2^a = 0
                <5> DEFINE d == k - a
                <5>1. d \in Nat /\ k = a + d
                    BY <1>4, <2>1, <3>2
                <5>2. PICK c \in Nat \ {0} : 2^k = c * 2^a
                    <6> HIDE DEF d
                    <6> QED
                        BY <1>4, <5>1, PowerDivides
                <5> QED
                    BY <1>7, <2>1, <5>2, Multiple
            <4>2. b \in Nat /\ 2^k \in Nat /\ 2^a \in Nat \ {0} /\ e \in Nat
                BY <1>7, <2>1
            <4>3. (b + 2^k) % 2^a = 0
                BY <3>3, <4>1, <4>2, MultipleSum, Zenon
            <4> QED
                BY <4>2, <4>3
        <3>7. first < e /\ e <= end + 1
            BY <2>2, <3>1
        <3> HIDE DEF e
        <3>8. first + 2^a <= e
            BY <1>2, <1>7, <3>6, <3>7, Apart
        <3>9. 2^(z + 1) <= 2^a /\ 2^(z + 1) \in Nat
            BY <1>4, <3>5, PowerGrows, PowerPositive
        <3> QED
            BY <1>2, <1>7, <3>6, <3>7, <3>8, <3>9
    <2> QED
        BY <1>4, <2>1, <2>4, <2>5, <2>6
<1>11. p \in LargestBlocks(start, end)
    <2>1. p \in AllPrefixes /\ p = Masked(p)
        BY <1>6 DEF Aligned
    <2> HIDE DEF p
    <2> QED
        BY <1>9, <1>10, <2>1 DEF LargestBlocks, Aligned
<1> QED
    BY <1>6, <1>11 DEF l

(* A round that does not end the loop. *)
LEMMA NextRound ==
    ASSUME NEW start \in Addresses4, NEW end \in Addresses4, NEW first \in start..end,
           Fresh(first, start, end), first + 2^Exponent(first, end) <= end
    PROVE  LET next == first + 2^Exponent(first, end)
           IN  /\ next \in start..end
               /\ Fresh(next, start, end)
               /\ Measure(next, end) < Measure(first, end)
<1> DEFINE a == Alignment(first)
           z == Left(first, end)
           l == Exponent(first, end)
           next == first + 2^l
           c == Alignment(next)
           y == Left(next, end)
<1>1. start \in Nat /\ first \in 0..end /\ end \in Nat /\ Width \in Nat \ {0}
    BY WidthAssumption DEF Addresses4
<1>2. /\ first \in Nat /\ end \in Nat /\ end < 2^Width /\ 2^Width \in Nat
      /\ a \in 0..Width /\ z \in 0..Width
      /\ first % 2^a = 0
      /\ \A s \in 0..Width : first % 2^s = 0 => s <= a
      /\ 2^z <= end - first + 1
      /\ end - first + 1 < 2^(z + 1)
      /\ l = IF a <= z THEN a ELSE z
    BY <1>1, RangeFacts
<1>3. first - start < 2^a \/ a > z
    BY DEF Fresh
<1>4. next <= end
    OBVIOUS
<1> HIDE DEF a, z, l
<1>5. l \in 0..Width /\ l \in Nat /\ a \in Nat /\ z \in Nat
    BY <1>1, <1>2
<1>6. 2^l \in Nat \ {0} /\ 2^a \in Nat \ {0} /\ 2^z \in Nat \ {0}
    BY <1>5, PowerPositive
<1>7. next \in start..end /\ next \in 0..end /\ next \in Nat
    BY <1>1, <1>2, <1>4, <1>6
<1>8. /\ c \in 0..Width /\ y \in 0..Width
      /\ \A s \in 0..Width : next % 2^s = 0 => s <= c
      /\ 2^y <= end - next + 1
    <2> HIDE DEF next
    <2> QED
        BY <1>7, RangeFacts
<1> HIDE DEF c, y
<1>9. 2^y \in Nat \ {0} /\ y \in Nat /\ c \in Nat /\ 2^c \in Nat \ {0}
    BY <1>1, <1>8, PowerPositive
<1>10. Fresh(next, start, end) <=> next - start < 2^c \/ c > y
    BY DEF Fresh, c, y
<1>11. Measure(first, end) = IF a < z THEN 2 * Width - a ELSE z + 1
    BY DEF Measure, a, z
<1>12. Measure(next, end) = IF c < y THEN 2 * Width - c ELSE y + 1
    BY DEF Measure, c, y
<1>13. CASE a < z
    <2>1. l = a /\ next = first + 2^a
        BY <1>2, <1>13
    <2>2. a + 1 \in 0..Width /\ first % 2^(a + 1) # 0
        <3>1. a + 1 \in 0..Width /\ ~(a + 1 <= a)
            BY <1>1, <1>2, <1>13
        <3> QED
            BY <1>2, <3>1
    <2>3. next % 2^(a + 1) = 0
        BY <1>2, <1>5, <2>1, <2>2, AlignedUp
    <2>4. a + 1 <= c
        BY <1>8, <2>2, <2>3
    <2>5. 2^(a + 1) = 2 * 2^a /\ 2^(a + 1) <= 2^c
        BY <1>5, <1>9, <2>4, PowerStep, PowerGrows
    <2>6. next - start < 2^c
        BY <1>1, <1>2, <1>3, <1>5, <1>6, <1>9, <1>13, <2>1, <2>5
    <2>7. a + 1 < Width
        <3> SUFFICES ASSUME a + 1 = Width PROVE FALSE
            BY <1>1, <2>2
        <3>1. z = Width
            BY <1>1, <1>2, <1>13
        <3>2. first = 0
            BY <1>2, <3>1
        <3>3. 0 % 2^Width = 0
            <4>1. 2^Width \in Nat \ {0} /\ 0 = 0 * 2^Width
                BY <1>1, PowerPositive
            <4> QED
                BY <4>1, Multiple
        <3>4. Width <= a
            BY <1>1, <1>2, <3>2, <3>3
        <3> QED
            BY <1>1, <1>5, <3>4
    <2>8. Measure(next, end) < Measure(first, end)
        BY <1>1, <1>2, <1>8, <1>11, <1>12, <1>13, <2>4, <2>7
    <2> QED
        BY <1>7, <1>10, <2>6, <2>8 DEF l
<1>14. CASE a >= z
    <2>1. l = z /\ next = first + 2^z
        BY <1>2, <1>5, <1>14
    <2>2. 2^(z + 1) = 2 * 2^z
        BY <1>5, PowerStep
    <2>3. 2^y < 2^z
        BY <1>1, <1>2, <1>6, <1>8, <1>9, <2>1, <2>2
    <2>4. y < z
        <3>1. z <= y => 2^z <= 2^y
            BY <1>5, <1>9, PowerGrows
        <3> QED
            BY <1>5, <1>6, <1>9, <2>3, <3>1
    <2>5. next % 2^z = 0
        <3>1. first % 2^z = 0
            BY <1>2, <1>5, <1>14, AlignedDown
        <3>2. 2^z % 2^z = 0
            <4>1. 2^z = 1 * 2^z
                BY <1>6
            <4> QED
                BY <1>6, <4>1, Multiple
        <3>3. first \in Nat /\ 2^z \in Nat /\ 2^z \in Nat \ {0}
            BY <1>2, <1>6
        <3>4. (first + 2^z) % 2^z = 0
            BY <3>1, <3>2, <3>3, MultipleSum, Zenon
        <3> QED
            BY <2>1, <3>4
    <2>6. z <= c
        BY <1>2, <1>8, <2>5
    <2>7. Measure(next, end) < Measure(first, end)
        BY <1>1, <1>5, <1>9, <1>11, <1>12, <1>14, <2>4, <2>6
    <2>8. c > y
        BY <1>5, <1>9, <2>4, <2>6
    <2> QED
        BY <1>7, <1>10, <2>7, <2>8 DEF l
<1> QED
    BY <1>5, <1>13, <1>14

(* What a round does, though first and blockSize wrap. *)
LEMMA StepIs ==
    ASSUME NEW end \in Addresses4, NEW loop, NEW first \in 0..end, loop.first = first
    PROVE  LET l == Exponent(first, end)
               next == first + 2^l
           IN  /\ Step(loop, end).prefixes
                    = Append(loop.prefixes, [addr |-> first, bits |-> Width - l])
               /\ Step(loop, end).returned \in BOOLEAN
               /\ next <= end + 1
               /\ Step(loop, end).returned <=> next = end + 1
               /\ ~Step(loop, end).returned => Step(loop, end).first = next
<1> DEFINE a == Alignment(first)
           z == Left(first, end)
           l == Exponent(first, end)
           w == 2^Width
           b == 2^l % w
           next == first + 2^l
<1>1. /\ first \in Nat /\ end \in Nat /\ end < w /\ w \in Nat
      /\ a \in 0..Width /\ z \in 0..Width /\ 2^z <= end - first + 1
      /\ l = IF a <= z THEN a ELSE z
    BY RangeFacts
<1>2. Step(loop, end) = [first    |-> (first + b) % w,
                         prefixes |-> Append(loop.prefixes, [addr |-> first, bits |-> Width - l]),
                         returned |-> (first + b - 1) % w >= end]
    BY DEF Step, Exponent, Left, ReachesLast
<1> HIDE DEF a, z, l
<1>3. l \in Nat /\ l <= z /\ z \in Nat /\ l <= Width /\ Width \in Nat
    BY <1>1, WidthAssumption
<1>4. 2^l \in Nat \ {0} /\ 2^l <= 2^z /\ 2^z \in Nat /\ w \in Nat \ {0}
    BY <1>3, PowerPositive, PowerGrows
<1>5. next <= end + 1 /\ next \in Nat
    BY <1>1, <1>4
<1> HIDE DEF w
<1> DEFINE reached == (first + b - 1) % w >= end
           after == Step(loop, end)
<1>6. /\ after.first = (first + b) % w
      /\ after.prefixes = Append(loop.prefixes, [addr |-> first, bits |-> Width - l])
      /\ after.returned = reached
    <2> HIDE DEF b, reached
    <2>1. after = [first    |-> (first + b) % w,
                   prefixes |-> Append(loop.prefixes, [addr |-> first, bits |-> Width - l]),
                   returned |-> reached]
        BY <1>2 DEF reached
    <2> HIDE DEF after
    <2> QED
        BY <2>1
<1>7. (reached <=> next = end + 1) /\ (~reached => (first + b) % w = next)
    <2>1. CASE l = Width
        <3>1. 2^l = w
            BY <2>1 DEF w
        <3>2. b = 0
            BY <1>4, <3>1
        <3>3. first = 0 /\ end = w - 1 /\ next = end + 1
            BY <1>1, <1>4, <1>5, <3>1
        <3>4. (first + b - 1) % w = w - 1
            <4>1. first + b - 1 = -1
                BY <3>2, <3>3
            <4>2. (-1) % w = w - 1
                BY <1>4
            <4> QED
                BY <4>1, <4>2
        <3> QED
            BY <1>1, <1>4, <3>3, <3>4
    <2>2. CASE l # Width
        <3>1. 2^l < w
            <4>1. 2 * 2^l <= w
                BY <1>3, <2>2, PowerGrows DEF w
            <4> QED
                BY <1>4, <4>1
        <3>2. b = 2^l
            BY <1>4, <3>1
        <3>3. first + b - 1 \in 0..end /\ first + b = next
            BY <1>1, <1>4, <1>5, <3>2
        <3>4. (first + b - 1) % w = first + b - 1
            <4> DEFINE x == first + b - 1
            <4>1. x \in Nat /\ x < w
                BY <1>1, <3>3
            <4>2. x % w = x
                <5> HIDE DEF x
                <5> QED
                    BY <1>4, <4>1
            <4> QED
                BY <4>2
        <3>5. next <= end => next % w = next
            BY <1>1, <1>4, <1>5
        <3>6. reached <=> next = end + 1
            BY <1>1, <1>5, <3>3, <3>4
        <3>7. next # end + 1 => (first + b) % w = next
            BY <1>1, <1>5, <3>3, <3>5
        <3> QED
            BY <3>6, <3>7
    <2> QED
        BY <2>1, <2>2
<1>8. reached \in BOOLEAN
    OBVIOUS
<1> HIDE DEF reached, after, b
<1> QED
    BY <1>5, <1>6, <1>7, <1>8 DEF l, after

(* The loop obeys its own recursion. *)
LEMMA LoopIs ==
    ASSUME NEW start, NEW end
    PROVE  /\ Loop(start, end)[0] = [first |-> start, prefixes |-> <<>>, returned |-> start > end]
           /\ \A n \in 0..(Rounds - 1) :
                  LET before == Loop(start, end)[n]
                  IN Loop(start, end)[n + 1] = IF before.returned THEN before ELSE Step(before, end)
<1> DEFINE base == [first |-> start, prefixes |-> <<>>, returned |-> start > end]
           To(before) == IF before.returned THEN before ELSE Step(before, end)
           Is(f, m) == f = [n \in 0..m |-> IF n = 0 THEN base ELSE To(f[n - 1])]
           S == {m \in Nat : \E f : Is(f, m)}
<1> HIDE DEF base, To
<1>1. 0 \in S
    <2> DEFINE f == [n \in 0..0 |-> base]
    <2>1. Is(f, 0)
        OBVIOUS
    <2> QED
        BY <2>1
<1>2. ASSUME NEW m \in Nat, m \in S PROVE m + 1 \in S
    <2>1. PICK f : Is(f, m)
        BY <1>2
    <2> DEFINE g == [n \in 0..(m + 1) |-> IF n <= m THEN f[n] ELSE To(f[m])]
    <2>2. \A n \in 0..(m + 1) : g[n] = IF n = 0 THEN base ELSE To(g[n - 1])
        <3> SUFFICES ASSUME NEW n \in 0..(m + 1)
                     PROVE  g[n] = IF n = 0 THEN base ELSE To(g[n - 1])
            OBVIOUS
        <3>1. CASE n = 0
            BY <2>1, <3>1
        <3>2. CASE n \in 1..m
            <4>1. g[n] = f[n] /\ g[n - 1] = f[n - 1] /\ f[n] = To(f[n - 1])
                BY <2>1, <3>2
            <4> QED
                BY <3>2, <4>1
        <3>3. CASE n = m + 1
            <4>1. g[n] = To(f[m]) /\ g[n - 1] = f[m]
                BY <3>3
            <4> QED
                BY <3>3, <4>1
        <3> QED
            BY <3>1, <3>2, <3>3
    <2>3. g = [n \in 0..(m + 1) |-> g[n]]
        OBVIOUS
    <2>4. Is(g, m + 1)
        <3> HIDE DEF g
        <3> QED
            BY <2>2, <2>3
    <2> QED
        <3> HIDE DEF g, Is
        <3> QED
            BY <2>4
<1>3. Rounds \in Nat
    BY WidthAssumption DEF Rounds
<1>4. \E f : Is(f, Rounds)
    <2>1. \A m \in Nat : m \in S
        <3> HIDE DEF S
        <3> QED
            BY <1>1, <1>2, Induction
    <2> HIDE DEF Is
    <2> QED
        BY <1>3, <2>1
<1>5. Loop(start, end) = CHOOSE f : Is(f, Rounds)
    BY DEF Loop, To, base
<1>6. Is(Loop(start, end), Rounds)
    <2> HIDE DEF Is
    <2> QED
        BY <1>4, <1>5
<1> DEFINE f == Loop(start, end)
<1>7. \A n \in 0..Rounds : f[n] = IF n = 0 THEN base ELSE To(f[n - 1])
    <2> HIDE DEF f
    <2> QED
        BY <1>6 DEF f
<1>8. f[0] = base
    BY <1>3, <1>7
<1>9. ASSUME NEW n \in 0..(Rounds - 1) PROVE f[n + 1] = To(f[n])
    <2>1. n + 1 \in 0..Rounds /\ n + 1 # 0 /\ (n + 1) - 1 = n
        BY <1>3
    <2>2. f[n + 1] = To(f[(n + 1) - 1])
        BY <1>7, <2>1
    <2> QED
        BY <2>1, <2>2
<1> QED
    BY <1>8, <1>9 DEF base, To

(* The loop after n rounds: it has returned the largest blocks of what it  *)
(* has covered, in order, and has rounds enough for the rest.              *)
RoundInv(loop, start, end, n) ==
    /\ loop.prefixes \in Seq(LargestBlocks(start, end))
    /\ loop.returned \in BOOLEAN
    /\ \A i, j \in DOMAIN loop.prefixes :
           i < j => loop.prefixes[i].addr < loop.prefixes[j].addr
    /\ \A x \in start..end :
           (\E i \in DOMAIN loop.prefixes : x \in Block(loop.prefixes[i]))
               <=> loop.returned \/ x < loop.first
    /\ start > end => loop.prefixes = <<>> /\ loop.returned
    /\ ~loop.returned => /\ loop.first \in start..end
                         /\ \A i \in DOMAIN loop.prefixes : loop.prefixes[i].addr < loop.first
                         /\ Fresh(loop.first, start, end)
                         /\ Measure(loop.first, end) <= Rounds - n

(* There are rounds for every range, whatever its first address. *)
LEMMA MeasureType ==
    ASSUME NEW end \in Addresses4, NEW first \in 0..end
    PROVE  Measure(first, end) \in 1..Rounds
<1>1. Alignment(first) \in 0..Width /\ Left(first, end) \in 0..Width
    BY RangeFacts
<1> QED
    BY <1>1, WidthAssumption DEF Measure, Rounds

(* The loop begins with nothing covered, or returns at once. *)
LEMMA FirstRound ==
    ASSUME NEW start \in Addresses4, NEW end \in Addresses4
    PROVE  RoundInv(Loop(start, end)[0], start, end, 0)
<1> DEFINE loop == Loop(start, end)[0]
           over == start > end
<1>1. loop.first = start /\ loop.prefixes = <<>> /\ loop.returned = over
    <2>1. loop = [first |-> start, prefixes |-> <<>>, returned |-> over]
        BY LoopIs
    <2> HIDE DEF loop, over
    <2> QED
        BY <2>1
<1>2. over \in BOOLEAN /\ start \in Nat /\ end \in Nat
    BY WidthAssumption, PowerPositive DEF Addresses4
<1> HIDE DEF loop
<1>3. ASSUME ~over
      PROVE  /\ start \in start..end /\ Fresh(start, start, end)
             /\ Measure(start, end) <= Rounds - 0
    <2>1. start \in 0..end
        BY <1>2, <1>3
    <2>2. Alignment(start) \in Nat
        BY <2>1, RangeFacts
    <2>3. 2^Alignment(start) \in Nat \ {0}
        BY <2>2, PowerPositive
    <2>4. Measure(start, end) \in 1..Rounds
        BY <2>1, MeasureType
    <2>5. Rounds \in Nat
        BY WidthAssumption DEF Rounds
    <2> QED
        BY <1>2, <2>1, <2>3, <2>4, <2>5 DEF Fresh
<1>4. /\ \A i, j \in DOMAIN loop.prefixes :
           i < j => loop.prefixes[i].addr < loop.prefixes[j].addr
      /\ \A i \in DOMAIN loop.prefixes : FALSE
      /\ loop.prefixes \in Seq(LargestBlocks(start, end))
    BY <1>1
<1>5. \A x \in start..end : ~over /\ ~(x < start)
    BY <1>2
<1> HIDE DEF over
<1>6. start > end => over
    BY DEF over
<1> QED
    BY <1>1, <1>2, <1>3, <1>4, <1>5, <1>6 DEF RoundInv, loop

(* Largest blocks are blocks of masked prefixes. *)
LEMMA LargestAligned ==
    ASSUME NEW start, NEW end
    PROVE  LargestBlocks(start, end) \subseteq Aligned
BY DEF LargestBlocks, Aligned

(* A round covers the next block, or the loop has returned. *)
LEMMA LaterRound ==
    ASSUME NEW start \in Addresses4, NEW end \in Addresses4, NEW n \in 0..(Rounds - 1),
           RoundInv(Loop(start, end)[n], start, end, n)
    PROVE  RoundInv(Loop(start, end)[n + 1], start, end, n + 1)
<1> DEFINE loop == Loop(start, end)[n]
           after == Loop(start, end)[n + 1]
<1>1. after = IF loop.returned THEN loop ELSE Step(loop, end)
    BY LoopIs
<1>2. RoundInv(loop, start, end, n)
    OBVIOUS
<1>3. start \in Nat /\ end \in Nat /\ Rounds \in Nat /\ n \in Nat
    BY WidthAssumption, PowerPositive DEF Addresses4, Rounds
<1> HIDE DEF loop, after
<1>4. CASE loop.returned
    <2>1. after = loop
        BY <1>1, <1>4
    <2> QED
        BY <1>2, <1>4, <2>1 DEF RoundInv, after
<1>5. CASE ~loop.returned
    <2> DEFINE first == loop.first
               l == Exponent(first, end)
               next == first + 2^l
               p == [addr |-> first, bits |-> Width - l]
               old == loop.prefixes
    <2>1. /\ old \in Seq(LargestBlocks(start, end))
          /\ \A i, j \in DOMAIN old : i < j => old[i].addr < old[j].addr
          /\ \A x \in start..end : (\E i \in DOMAIN old : x \in Block(old[i])) <=> x < first
          /\ first \in start..end
          /\ \A i \in DOMAIN old : old[i].addr < first
          /\ Fresh(first, start, end)
          /\ Measure(first, end) <= Rounds - n
        BY <1>2, <1>5 DEF RoundInv
    <2>2. first \in 0..end /\ first \in Nat
        BY <1>3, <2>1
    <2>3. p \in Aligned /\ Length(p) = 2^l /\ p \in LargestBlocks(start, end)
        BY <2>1, LargestBlock
    <2>4. /\ Step(loop, end).prefixes = Append(old, p)
          /\ Step(loop, end).returned \in BOOLEAN
          /\ next <= end + 1
          /\ Step(loop, end).returned <=> next = end + 1
          /\ ~Step(loop, end).returned => Step(loop, end).first = next
        BY <2>2, StepIs
    <2>5. /\ after.prefixes = Append(old, p) /\ after.returned \in BOOLEAN
          /\ after.returned <=> next = end + 1
          /\ ~after.returned => after.first = next
        BY <1>1, <1>5, <2>4
    <2>6. Block(p) = first..(next - 1) /\ 2^l \in Nat \ {0} /\ p.addr = first
        <3>1. Block(p) = p.addr..(p.addr + Length(p) - 1) /\ Length(p) \in Nat \ {0}
            BY <2>3, AlignedIs
        <3>2. p.addr = first
            OBVIOUS
        <3>3. Length(p) = 2^l
            BY <2>3
        <3> HIDE DEF p, l, first
        <3>4. p.addr + Length(p) - 1 = next - 1
            BY <2>2, <3>1, <3>2, <3>3
        <3>5. Block(p) = first..(next - 1)
            BY <3>1, <3>2, <3>4, Zenon
        <3> QED
            BY <3>1, <3>2, <3>3, <3>5
    <2>7. next \in Nat /\ next > first
        BY <2>2, <2>6
    <2>8. next # end + 1 =>
              /\ next \in start..end /\ Fresh(next, start, end)
              /\ Measure(next, end) < Measure(first, end)
        <3>1. next # end + 1 => next <= end
            BY <1>3, <2>4, <2>7
        <3> QED
            BY <2>1, <3>1, NextRound
    <2> HIDE DEF first, next, p, l, old
    <2> DEFINE new == Append(old, p)
    <2>9. /\ new \in Seq(LargestBlocks(start, end)) /\ Len(old) \in Nat
          /\ DOMAIN new = 1..(Len(old) + 1) /\ DOMAIN old = 1..Len(old)
          /\ \A i \in DOMAIN old : new[i] = old[i]
          /\ new[Len(old) + 1] = p
        BY <2>1, <2>3
    <2> HIDE DEF new
    <2>10. \A i \in DOMAIN old : old[i].addr \in Nat
        <3>1. \A i \in DOMAIN old : old[i] \in Aligned
            BY <2>1, LargestAligned
        <3> QED
            BY <3>1, AlignedIs
    <2>11. \A i, j \in DOMAIN new : i < j => new[i].addr < new[j].addr
        BY <2>1, <2>6, <2>9
    <2>12. \A x \in start..end : (\E i \in DOMAIN new : x \in Block(new[i])) <=> x < next
        <3> SUFFICES ASSUME NEW x \in start..end
                     PROVE  (\E i \in DOMAIN new : x \in Block(new[i])) <=> x < next
            OBVIOUS
        <3>1. x < first <=> \E i \in DOMAIN old : x \in Block(old[i])
            BY <2>1
        <3>2. x \in Block(p) <=> first <= x /\ x < next
            BY <1>3, <2>2, <2>6, <2>7
        <3>3. (\E i \in DOMAIN new : x \in Block(new[i]))
                  <=> (\E i \in DOMAIN old : x \in Block(old[i])) \/ x \in Block(p)
            <4>1. \A i \in DOMAIN new : i \in DOMAIN old \/ i = Len(old) + 1
                BY <2>9
            <4>2. \A i \in DOMAIN old : i \in DOMAIN new
                BY <2>9
            <4>3. Len(old) + 1 \in DOMAIN new
                BY <2>9
            <4> QED
                BY <2>9, <4>1, <4>2, <4>3, Zenon
        <3> QED
            BY <1>3, <2>2, <2>7, <3>1, <3>2, <3>3
    <2>13. \A i \in DOMAIN new : new[i].addr < next
        BY <2>1, <2>2, <2>6, <2>7, <2>9, <2>10
    <2>14. \A x \in start..end : x < end + 1
        BY <1>3
    <2>15. Measure(next, end) < Measure(first, end) /\ next \in start..end =>
               Measure(next, end) <= Rounds - (n + 1)
        <3>1. next \in start..end => next \in 0..end
            BY <1>3
        <3>2. Measure(first, end) \in 1..Rounds
            BY <2>2, MeasureType
        <3>3. next \in start..end => Measure(next, end) \in 1..Rounds
            BY <3>1, MeasureType
        <3> QED
            BY <1>3, <2>1, <3>2, <3>3
    <2>16. start <= end
        BY <1>3, <2>1
    <2>17. after.prefixes = new
        BY <2>5 DEF new
    <2>18. \A x \in start..end : (\E i \in DOMAIN new : x \in Block(new[i]))
                                     <=> after.returned \/ x < after.first
        BY <2>5, <2>12, <2>14, Zenon
    <2>19. ~after.returned =>
               /\ after.first \in start..end
               /\ \A i \in DOMAIN new : new[i].addr < after.first
               /\ Fresh(after.first, start, end)
               /\ Measure(after.first, end) <= Rounds - (n + 1)
        BY <2>5, <2>8, <2>13, <2>15, Zenon
    <2>20. RoundInv(after, start, end, n + 1)
        BY <1>3, <2>5, <2>9, <2>11, <2>16, <2>17, <2>18, <2>19 DEF RoundInv
    <2> QED
        BY <2>20 DEF after
<1> QED
    BY <1>4, <1>5

(* No two largest blocks overlap. *)
LEMMA LargestOverlap ==
    ASSUME NEW start, NEW end, NEW p \in LargestBlocks(start, end),
           NEW q \in LargestBlocks(start, end), Block(p) \cap Block(q) # {}
    PROVE  p = q
<1>1. p \in Aligned /\ q \in Aligned
    BY LargestAligned
<1>2. p.bits <= q.bits \/ q.bits <= p.bits
    BY <1>1, AlignedIs
<1>3. Block(p) \subseteq Block(q) \/ Block(q) \subseteq Block(p)
    BY <1>1, <1>2, Nested
<1> QED
    BY <1>3 DEF LargestBlocks

(* After Rounds rounds the loop has returned and covers the range. *)
LEMMA LoopReturns ==
    ASSUME NEW start \in Addresses4, NEW end \in Addresses4
    PROVE  LET loop == Loop(start, end)[Rounds]
               all  == loop.prefixes
           IN  /\ loop.returned
               /\ all \in Seq(LargestBlocks(start, end))
               /\ \A i, j \in DOMAIN all : i < j => all[i].addr < all[j].addr
               /\ \A x \in start..end : \E i \in DOMAIN all : x \in Block(all[i])
               /\ start > end => all = <<>>
<1> DEFINE f == Loop(start, end)
           S == {n \in Nat : n <= Rounds => RoundInv(f[n], start, end, n)}
<1>1. Rounds \in Nat /\ start \in Nat /\ end \in Nat
    BY WidthAssumption, PowerPositive DEF Rounds, Addresses4
<1>2. 0 \in S
    BY FirstRound
<1>3. ASSUME NEW n \in Nat, n \in S PROVE n + 1 \in S
    <2> SUFFICES ASSUME n + 1 <= Rounds PROVE RoundInv(f[n + 1], start, end, n + 1)
        OBVIOUS
    <2>1. n \in 0..(Rounds - 1) /\ n <= Rounds
        BY <1>1
    <2>2. RoundInv(f[n], start, end, n)
        BY <1>3, <2>1
    <2> QED
        BY <2>1, <2>2, LaterRound
<1>4. \A n \in Nat : n \in S
    <2> HIDE DEF S
    <2> QED
        BY <1>2, <1>3, Induction
<1> DEFINE loop == f[Rounds]
<1>5. RoundInv(loop, start, end, Rounds)
    BY <1>1, <1>4
<1> HIDE DEF f, loop
<1>6. loop.returned
    <2> SUFFICES ASSUME ~loop.returned PROVE FALSE
        OBVIOUS
    <2>1. loop.first \in start..end /\ Measure(loop.first, end) <= Rounds - Rounds
        BY <1>5 DEF RoundInv
    <2>2. loop.first \in 0..end
        BY <1>1, <2>1
    <2>3. Measure(loop.first, end) \in 1..Rounds
        BY <2>2, MeasureType
    <2> QED
        BY <1>1, <2>1, <2>3
<1> QED
    BY <1>5, <1>6 DEF RoundInv, loop, f

(* It has returned all of the largest blocks. *)
LEMMA RangeIsLargest ==
    ASSUME NEW start \in Addresses4, NEW end \in Addresses4
    PROVE  Range(addressRangePrefixes(start, end))
               = IF start <= end THEN LargestBlocks(start, end) ELSE {}
<1> DEFINE all == addressRangePrefixes(start, end)
<1>1. /\ all \in Seq(LargestBlocks(start, end))
      /\ \A x \in start..end : \E i \in DOMAIN all : x \in Block(all[i])
      /\ start > end => all = <<>>
    BY LoopReturns DEF addressRangePrefixes
<1> HIDE DEF all
<1>2. start \in Nat /\ end \in Nat
    BY WidthAssumption, PowerPositive DEF Addresses4
<1>3. CASE start > end
    BY <1>1, <1>2, <1>3 DEF Range, all
<1>4. CASE start <= end
    <2>1. Range(all) \subseteq LargestBlocks(start, end)
        BY <1>1 DEF Range
    <2>2. ASSUME NEW q \in LargestBlocks(start, end) PROVE q \in Range(all)
        <3>1. q \in Aligned /\ Block(q) \subseteq start..end
            BY LargestAligned DEF LargestBlocks
        <3>2. q.addr \in Block(q)
            BY <3>1, AlignedIs
        <3>3. PICK i \in DOMAIN all : q.addr \in Block(all[i])
            BY <1>1, <3>1, <3>2
        <3>4. all[i] \in LargestBlocks(start, end)
            BY <1>1
        <3>5. all[i] = q
            BY <3>2, <3>3, <3>4, LargestOverlap
        <3> QED
            BY <3>5 DEF Range
    <2> QED
        BY <1>4, <2>1, <2>2 DEF all
<1> QED
    BY <1>2, <1>3, <1>4

(* addressRangePrefixes is right for every range of every Width. *)
LEMMA RangeCovered ==
    ASSUME NEW start \in Addresses4, NEW end \in Addresses4
    PROVE  Covered(start, end)
<1> DEFINE loop == Loop(start, end)[Rounds]
           all  == loop.prefixes
<1>1. /\ loop.returned
      /\ all \in Seq(LargestBlocks(start, end))
      /\ \A i, j \in DOMAIN all : i < j => all[i].addr < all[j].addr
    BY LoopReturns
<1>2. Range(all) = IF start <= end THEN LargestBlocks(start, end) ELSE {}
    BY RangeIsLargest DEF addressRangePrefixes
<1> HIDE DEF loop
<1>3. \A i \in 1..(Len(all) - 1) : all[i].addr < all[i + 1].addr
    <2> HIDE DEF all
    <2> QED
        BY <1>1
<1> QED
    BY <1>1, <1>2, <1>3 DEF Covered, loop

(* What the prefixes of a range contain. *)
LEMMA RangeIs ==
    ASSUME NEW start \in Addresses4, NEW end \in Addresses4
    PROVE  LET all == addressRangePrefixes(start, end)
           IN  /\ all \in Seq(Aligned)
               /\ \A x : (\E p \in Range(all) : x \in Block(p)) <=> x \in start..end
<1> DEFINE all == addressRangePrefixes(start, end)
<1>1. /\ all \in Seq(LargestBlocks(start, end))
      /\ \A x \in start..end : \E i \in DOMAIN all : x \in Block(all[i])
    BY LoopReturns DEF addressRangePrefixes
<1> HIDE DEF all
<1>2. all \in Seq(Aligned)
    BY <1>1, LargestAligned
<1>3. \A p \in Range(all) : Block(p) \subseteq start..end
    BY <1>1 DEF Range, LargestBlocks
<1> QED
    BY <1>1, <1>2, <1>3 DEF Range, all
-----------------------------------------------------------------------------
(* Sequences that are joined, filtered, sorted and folded. *)

(* What FlattenSeq joins. *)
LEMMA FlattenIs ==
    ASSUME NEW ss, Len(ss) \in Nat \ {0}
    PROVE  \E f : /\ FlattenSeq(ss) = f[Len(ss)]
                  /\ f[1] = ss[1]
                  /\ \A n \in 1..(Len(ss) - 1) : f[n + 1] = f[n] \o ss[n + 1]
<1> DEFINE To(before, n) == before \o ss[n]
           Is(f, m) == f = [n \in 1..m |-> IF n = 1 THEN ss[n] ELSE To(f[n - 1], n)]
           S == {m \in Nat : \E f : Is(f, m + 1)}
           length == Len(ss)
<1>1. FlattenSeq(ss) = (CHOOSE f : Is(f, length))[length]
    BY DEF FlattenSeq
<1> HIDE DEF To, length
<1>2. 0 \in S
    <2> DEFINE f == [n \in 1..(0 + 1) |-> ss[1]]
    <2>1. Is(f, 0 + 1)
        OBVIOUS
    <2> QED
        BY <2>1
<1>3. ASSUME NEW m \in Nat, m \in S PROVE m + 1 \in S
    <2>1. PICK f : Is(f, m + 1)
        BY <1>3
    <2> DEFINE g == [n \in 1..(m + 2) |-> IF n <= m + 1 THEN f[n] ELSE To(f[m + 1], n)]
    <2>2. \A n \in 1..(m + 2) : g[n] = IF n = 1 THEN ss[n] ELSE To(g[n - 1], n)
        <3> SUFFICES ASSUME NEW n \in 1..(m + 2)
                     PROVE  g[n] = IF n = 1 THEN ss[n] ELSE To(g[n - 1], n)
            OBVIOUS
        <3>1. CASE n = 1
            BY <2>1, <3>1
        <3>2. CASE n \in 2..(m + 1)
            <4>1. g[n] = f[n] /\ g[n - 1] = f[n - 1] /\ f[n] = To(f[n - 1], n)
                BY <2>1, <3>2
            <4> QED
                BY <3>2, <4>1
        <3>3. CASE n = m + 2
            <4>1. g[n] = To(f[m + 1], n) /\ g[n - 1] = f[m + 1]
                BY <3>3
            <4> QED
                BY <3>3, <4>1
        <3> QED
            BY <3>1, <3>2, <3>3
    <2>3. g = [n \in 1..(m + 2) |-> g[n]]
        OBVIOUS
    <2>4. Is(g, m + 2)
        <3> HIDE DEF g
        <3> QED
            BY <2>2, <2>3
    <2>5. m + 2 = (m + 1) + 1
        OBVIOUS
    <2> QED
        <3> HIDE DEF g, Is
        <3> QED
            BY <2>4, <2>5
<1>4. length \in Nat \ {0} /\ length - 1 \in Nat /\ (length - 1) + 1 = length
    BY DEF length
<1>5. \E f : Is(f, length)
    <2>1. \A m \in Nat : m \in S
        <3> HIDE DEF S
        <3> QED
            BY <1>2, <1>3, Induction
    <2> HIDE DEF Is
    <2> QED
        BY <1>4, <2>1
<1> DEFINE f == CHOOSE f : Is(f, length)
<1>6. Is(f, length)
    <2> HIDE DEF Is
    <2> QED
        BY <1>5
<1> HIDE DEF f
<1>7. \A n \in 1..length : f[n] = IF n = 1 THEN ss[n] ELSE To(f[n - 1], n)
    BY <1>6
<1>8. f[1] = ss[1]
    BY <1>4, <1>7
<1>9. ASSUME NEW n \in 1..(length - 1) PROVE f[n + 1] = f[n] \o ss[n + 1]
    <2>1. n + 1 \in 1..length /\ n + 1 # 1 /\ (n + 1) - 1 = n
        BY <1>4
    <2>2. f[n + 1] = To(f[(n + 1) - 1], n + 1)
        BY <1>7, <2>1
    <2> QED
        BY <2>1, <2>2 DEF To
<1> QED
    BY <1>1, <1>8, <1>9 DEF f, length

(* Its elements, and how any two of them are related. *)
LEMMA FlattenSeqIs ==
    ASSUME NEW T, NEW ss \in Seq(Seq(T)), NEW R,
           \A i \in DOMAIN ss : \A k, l \in DOMAIN ss[i] : k < l => <<ss[i][k], ss[i][l]>> \in R,
           \A i, j \in DOMAIN ss : i < j =>
               \A k \in DOMAIN ss[i], l \in DOMAIN ss[j] : <<ss[i][k], ss[j][l]>> \in R
    PROVE  /\ FlattenSeq(ss) \in Seq(T)
           /\ \A x : x \in Range(FlattenSeq(ss)) <=> \E i \in DOMAIN ss : x \in Range(ss[i])
           /\ \A a, b \in DOMAIN FlattenSeq(ss) :
                  a < b => <<FlattenSeq(ss)[a], FlattenSeq(ss)[b]>> \in R
<1>1. DOMAIN ss = 1..Len(ss) /\ Len(ss) \in Nat
    OBVIOUS
<1>2. CASE Len(ss) = 0
    <2>1. FlattenSeq(ss) = <<>> /\ DOMAIN ss = {} /\ ss = <<>>
        BY <1>1, <1>2 DEF FlattenSeq
    <2> QED
        BY <2>1 DEF Range
<1> SUFFICES ASSUME Len(ss) # 0
             PROVE  LET s == FlattenSeq(ss)
                    IN  /\ s \in Seq(T)
                        /\ \A x : x \in Range(s) <=> \E i \in DOMAIN ss : x \in Range(ss[i])
                        /\ \A a, b \in DOMAIN s : a < b => <<s[a], s[b]>> \in R
    BY <1>2
<1>3. PICK f : /\ FlattenSeq(ss) = f[Len(ss)] /\ f[1] = ss[1]
               /\ \A n \in 1..(Len(ss) - 1) : f[n + 1] = f[n] \o ss[n + 1]
    BY <1>1, FlattenIs
<1> DEFINE Good(s, n) ==
               /\ s \in Seq(T)
               /\ \A x : x \in Range(s) <=> \E i \in 1..n : x \in Range(ss[i])
               /\ \A a, b \in DOMAIN s : a < b => <<s[a], s[b]>> \in R
           S == {n \in Nat : n + 1 <= Len(ss) => Good(f[n + 1], n + 1)}
<1>4. 0 \in S
    <2> SUFFICES ASSUME 1 <= Len(ss) PROVE Good(f[1], 1)
        OBVIOUS
    <2>1. f[1] = ss[1] /\ 1 \in DOMAIN ss /\ ss[1] \in Seq(T)
        BY <1>1, <1>3
    <2> QED
        BY <2>1
<1>5. ASSUME NEW n \in Nat, n \in S PROVE n + 1 \in S
    <2> SUFFICES ASSUME n + 2 <= Len(ss) PROVE Good(f[n + 2], n + 2)
        OBVIOUS
    <2> DEFINE u == f[n + 1]
               v == ss[n + 2]
               w == u \o v
    <2>1. n + 1 \in 1..(Len(ss) - 1) /\ n + 1 <= Len(ss) /\ (n + 1) + 1 = n + 2
        BY <1>1
    <2>2. Good(u, n + 1)
        <3> HIDE DEF Good
        <3> QED
            BY <1>5, <2>1
    <2>3. f[n + 2] = w
        <3>1. f[(n + 1) + 1] = f[n + 1] \o ss[(n + 1) + 1]
            BY <1>3, <2>1
        <3> QED
            BY <2>1, <3>1
    <2>4. v \in Seq(T) /\ n + 2 \in DOMAIN ss /\ u \in Seq(T)
        BY <1>1, <2>2
    <2> HIDE DEF u, v
    <2>5. /\ w \in Seq(T) /\ Len(w) = Len(u) + Len(v) /\ Len(u) \in Nat /\ Len(v) \in Nat
          /\ DOMAIN w = 1..(Len(u) + Len(v)) /\ DOMAIN u = 1..Len(u) /\ DOMAIN v = 1..Len(v)
          /\ \A a \in DOMAIN u : w[a] = u[a]
          /\ \A a \in DOMAIN v : w[Len(u) + a] = v[a]
          /\ \A a \in DOMAIN w : a \in DOMAIN u \/ (a - Len(u) \in DOMAIN v /\ w[a] = v[a - Len(u)])
        BY <2>4
    <2> HIDE DEF w
    <2>6. \A x : x \in Range(w) <=> x \in Range(u) \/ x \in Range(v)
        <3>1. ASSUME NEW x \in Range(w) PROVE x \in Range(u) \/ x \in Range(v)
            BY <2>5, <3>1 DEF Range
        <3>2. ASSUME NEW x \in Range(u) PROVE x \in Range(w)
            <4>1. PICK a \in DOMAIN u : x = u[a]
                BY <3>2 DEF Range
            <4>2. a \in DOMAIN w
                BY <2>5
            <4> QED
                BY <2>5, <4>1, <4>2 DEF Range
        <3>3. ASSUME NEW x \in Range(v) PROVE x \in Range(w)
            <4>1. PICK a \in DOMAIN v : x = v[a]
                BY <3>3 DEF Range
            <4>2. Len(u) + a \in DOMAIN w
                BY <2>5
            <4> QED
                BY <2>5, <4>1, <4>2 DEF Range
        <3> QED
            BY <3>1, <3>2, <3>3
    <2>7. \A x : x \in Range(w) <=> \E i \in 1..(n + 2) : x \in Range(ss[i])
        <3>1. \A x : x \in Range(u) <=> \E i \in 1..(n + 1) : x \in Range(ss[i])
            BY <2>2
        <3>2. \A i : i \in 1..(n + 2) <=> i \in 1..(n + 1) \/ i = n + 2
            OBVIOUS
        <3> QED
            BY <2>6, <3>1, <3>2, Zenon DEF v
    <2>8. ASSUME NEW a \in DOMAIN w, NEW b \in DOMAIN w, a < b PROVE <<w[a], w[b]>> \in R
        <3>1. CASE b \in DOMAIN u
            <4>1. a \in DOMAIN u
                BY <2>5, <2>8, <3>1
            <4> QED
                BY <2>2, <2>5, <2>8, <3>1, <4>1
        <3>2. CASE b \notin DOMAIN u /\ a \in DOMAIN u
            <4>1. b - Len(u) \in DOMAIN v /\ w[b] = v[b - Len(u)] /\ w[a] = u[a]
                BY <2>5, <3>2
            <4>2. w[a] \in Range(u)
                BY <3>2, <4>1 DEF Range
            <4>3. PICK i \in 1..(n + 1) : w[a] \in Range(ss[i])
                BY <2>2, <4>2
            <4>4. PICK k \in DOMAIN ss[i] : w[a] = ss[i][k]
                BY <4>3 DEF Range
            <4>5. i \in DOMAIN ss /\ i < n + 2
                BY <1>1
            <4> QED
                BY <2>4, <4>1, <4>4, <4>5 DEF v
        <3>3. CASE b \notin DOMAIN u /\ a \notin DOMAIN u
            <4>1. /\ b - Len(u) \in DOMAIN v /\ w[b] = v[b - Len(u)]
                  /\ a - Len(u) \in DOMAIN v /\ w[a] = v[a - Len(u)]
                BY <2>5, <3>3
            <4>2. a - Len(u) < b - Len(u)
                BY <2>5, <2>8
            <4> QED
                BY <2>4, <4>1, <4>2 DEF v
        <3> QED
            BY <3>1, <3>2, <3>3
    <2>9. Good(w, n + 2)
        BY <2>5, <2>7, <2>8
    <2> QED
        <3> HIDE DEF Good
        <3> QED
            BY <2>3, <2>9
<1>6. \A n \in Nat : n \in S
    <2> HIDE DEF S
    <2> QED
        BY <1>4, <1>5, Induction
<1>7. Len(ss) - 1 \in Nat /\ (Len(ss) - 1) + 1 = Len(ss)
    BY <1>1
<1>8. Good(f[Len(ss)], Len(ss))
    <2> HIDE DEF Good
    <2>1. Len(ss) - 1 \in S
        BY <1>6, <1>7
    <2> QED
        BY <1>7, <2>1
<1> QED
    BY <1>1, <1>3, <1>8

(* Where, for a set of elements to keep, keeps them in their order. *)
Kept(s, K) == FlattenSeq([i \in DOMAIN s |-> IF s[i] \in K THEN <<s[i]>> ELSE <<>>])

(* Its elements, and how any two of them are related. *)
LEMMA KeptIs ==
    ASSUME NEW T, NEW s \in Seq(T), NEW K, NEW R,
           \A a, b \in DOMAIN s : a < b => <<s[a], s[b]>> \in R
    PROVE  LET w == Kept(s, K)
           IN  /\ w \in Seq(T)
               /\ \A x : x \in Range(w) <=> x \in Range(s) /\ x \in K
               /\ \A a, b \in DOMAIN w : a < b => <<w[a], w[b]>> \in R
<1> DEFINE ss == [i \in DOMAIN s |-> IF s[i] \in K THEN <<s[i]>> ELSE <<>>]
<1>1. \A i \in DOMAIN s : ss[i] = IF s[i] \in K THEN <<s[i]>> ELSE <<>>
    OBVIOUS
<1>2. DOMAIN ss = DOMAIN s /\ DOMAIN s = 1..Len(s) /\ \A i \in DOMAIN s : s[i] \in T
    OBVIOUS
<1>3. \A i \in DOMAIN s : ss[i] \in Seq(T)
    BY <1>1, <1>2
<1>4. ss \in Seq(Seq(T))
    <2>1. ss \in [1..Len(s) -> Seq(T)] /\ Len(s) \in Nat
        <3> HIDE DEF ss
        <3>1. ss = [i \in 1..Len(s) |-> ss[i]]
            BY <1>2 DEF ss
        <3> QED
            BY <1>2, <1>3, <3>1
    <2> QED
        BY <2>1
<1> HIDE DEF ss
<1>5. \A i \in DOMAIN ss : \A k \in DOMAIN ss[i] : k = 1 /\ ss[i][k] = s[i] /\ s[i] \in K
    BY <1>1, <1>2
<1>6. \A i \in DOMAIN ss : \A k, l \in DOMAIN ss[i] : k < l => <<ss[i][k], ss[i][l]>> \in R
    BY <1>5
<1>7. \A i, j \in DOMAIN ss : i < j =>
          \A k \in DOMAIN ss[i], l \in DOMAIN ss[j] : <<ss[i][k], ss[j][l]>> \in R
    BY <1>2, <1>5
<1>8. /\ FlattenSeq(ss) \in Seq(T)
      /\ \A x : x \in Range(FlattenSeq(ss)) <=> \E i \in DOMAIN ss : x \in Range(ss[i])
      /\ \A a, b \in DOMAIN FlattenSeq(ss) :
             a < b => <<FlattenSeq(ss)[a], FlattenSeq(ss)[b]>> \in R
    BY <1>4, <1>6, <1>7, FlattenSeqIs
<1>9. \A x : (\E i \in DOMAIN ss : x \in Range(ss[i])) <=> x \in Range(s) /\ x \in K
    <2>1. ASSUME NEW x, NEW i \in DOMAIN ss, x \in Range(ss[i]) PROVE x \in Range(s) /\ x \in K
        BY <1>2, <1>5, <2>1 DEF Range
    <2>2. ASSUME NEW x, x \in Range(s), x \in K PROVE \E i \in DOMAIN ss : x \in Range(ss[i])
        <3>1. PICK i \in DOMAIN s : x = s[i]
            BY <2>2 DEF Range
        <3>2. ss[i] = <<x>> /\ i \in DOMAIN ss
            BY <1>1, <1>2, <2>2, <3>1
        <3>3. x \in Range(<<x>>)
            BY DEF Range
        <3> QED
            BY <3>2, <3>3
    <2> QED
        BY <2>1, <2>2
<1> QED
    BY <1>8, <1>9 DEF Kept, ss

(* FlattenSeq joins sequences, whatever their order. *)
LEMMA JoinedIs ==
    ASSUME NEW T, NEW ss \in Seq(Seq(T))
    PROVE  /\ FlattenSeq(ss) \in Seq(T)
           /\ \A x : x \in Range(FlattenSeq(ss)) <=> \E i \in DOMAIN ss : x \in Range(ss[i])
<1> DEFINE R == T \X T
<1>1. \A i \in DOMAIN ss : ss[i] \in Seq(T) /\ \A k \in DOMAIN ss[i] : ss[i][k] \in T
    OBVIOUS
<1>2. \A i \in DOMAIN ss : \A k, l \in DOMAIN ss[i] : k < l => <<ss[i][k], ss[i][l]>> \in R
    BY <1>1
<1>3. \A i, j \in DOMAIN ss : i < j =>
          \A k \in DOMAIN ss[i], l \in DOMAIN ss[j] : <<ss[i][k], ss[j][l]>> \in R
    BY <1>1
<1> HIDE DEF R
<1> QED
    BY <1>2, <1>3, FlattenSeqIs

(* The range of a sequence followed by another. *)
LEMMA RangeConcat ==
    ASSUME NEW T, NEW s \in Seq(T), NEW t \in Seq(T)
    PROVE  s \o t \in Seq(T) /\ Range(s \o t) = Range(s) \cup Range(t)
<1> DEFINE ss == <<s, t>>
           w == s \o t
<1>1. /\ w \in Seq(T) /\ DOMAIN w = 1..(Len(s) + Len(t)) /\ DOMAIN s = 1..Len(s)
      /\ DOMAIN t = 1..Len(t) /\ Len(s) \in Nat /\ Len(t) \in Nat
      /\ \A a \in DOMAIN s : w[a] = s[a]
      /\ \A a \in DOMAIN t : w[Len(s) + a] = t[a]
      /\ \A a \in DOMAIN w : a \in DOMAIN s \/ (a - Len(s) \in DOMAIN t /\ w[a] = t[a - Len(s)])
    OBVIOUS
<1> HIDE DEF w
<1>2. ASSUME NEW x \in Range(w) PROVE x \in Range(s) \/ x \in Range(t)
    BY <1>1, <1>2 DEF Range
<1>3. ASSUME NEW x \in Range(s) PROVE x \in Range(w)
    <2>1. PICK a \in DOMAIN s : x = s[a]
        BY <1>3 DEF Range
    <2>2. a \in DOMAIN w
        BY <1>1
    <2> QED
        BY <1>1, <2>1, <2>2 DEF Range
<1>4. ASSUME NEW x \in Range(t) PROVE x \in Range(w)
    <2>1. PICK a \in DOMAIN t : x = t[a]
        BY <1>4 DEF Range
    <2>2. Len(s) + a \in DOMAIN w
        BY <1>1
    <2> QED
        BY <1>1, <2>1, <2>2 DEF Range
<1>5. Range(w) = Range(s) \cup Range(t)
    BY <1>2, <1>3, <1>4
<1> QED
    BY <1>1, <1>5 DEF w

(* Sorted lists each element once, in the order upTo gives. *)
LEMMA SortedIs ==
    ASSUME NEW S, IsFiniteSet(S), NEW upTo \in [S -> SUBSET S],
           \A x \in S : x \in upTo[x],
           \A x, y \in S : x \in upTo[y] => upTo[x] \subseteq upTo[y],
           \A x, y \in S : x \in upTo[y] \/ y \in upTo[x],
           \A x, y \in S : x \in upTo[y] /\ y \in upTo[x] => x = y
    PROVE  /\ Cardinality(S) \in Nat
           /\ Sorted(S, upTo) \in [1..Cardinality(S) -> S]
           /\ Range(Sorted(S, upTo)) = S
           /\ \A m, n \in 1..Cardinality(S) :
                  m < n => Sorted(S, upTo)[m] \in upTo[Sorted(S, upTo)[n]]
<1> DEFINE N == Cardinality(S)
           rank == [x \in S |-> Cardinality(upTo[x])]
           f == Sorted(S, upTo)
<1>1. N \in Nat /\ IsFiniteSet(1..N) /\ Cardinality(1..N) = N
    <2>1. N \in Nat
        BY FS_CardinalityType
    <2>2. 1 \in Int /\ N \in Int
        BY <2>1
    <2>3. IsFiniteSet(1..N) /\ Cardinality(1..N) = IF 1 > N THEN 0 ELSE N - 1 + 1
        BY <2>2, FS_Interval
    <2> QED
        BY <2>1, <2>3
<1>2. \A x \in S : /\ IsFiniteSet(upTo[x]) /\ Cardinality(upTo[x]) \in Nat
                   /\ Cardinality(upTo[x]) <= N /\ Cardinality(upTo[x]) # 0
    <2> SUFFICES ASSUME NEW x \in S
                 PROVE  /\ IsFiniteSet(upTo[x]) /\ Cardinality(upTo[x]) \in Nat
                        /\ Cardinality(upTo[x]) <= N /\ Cardinality(upTo[x]) # 0
        OBVIOUS
    <2>1. upTo[x] \in SUBSET S /\ upTo[x] # {}
        OBVIOUS
    <2>2. IsFiniteSet(upTo[x]) /\ Cardinality(upTo[x]) <= N
        BY <2>1, FS_Subset
    <2> QED
        BY <2>1, <2>2, FS_CardinalityType, FS_EmptySet
<1>3. \A x, y \in S : x # y /\ x \in upTo[y] => rank[x] < rank[y]
    <2> SUFFICES ASSUME NEW x \in S, NEW y \in S, x # y, x \in upTo[y] PROVE rank[x] < rank[y]
        OBVIOUS
    <2>1. upTo[x] \in SUBSET upTo[y] /\ upTo[x] # upTo[y]
        OBVIOUS
    <2>2. Cardinality(upTo[x]) <= Cardinality(upTo[y]) /\ Cardinality(upTo[x]) # Cardinality(upTo[y])
        BY <1>2, <2>1, FS_Subset
    <2>3. Cardinality(upTo[x]) < Cardinality(upTo[y])
        BY <1>2, <2>2
    <2> QED
        BY <2>3
<1>4. rank \in [S -> 1..N] /\ \A x \in S : rank[x] = Cardinality(upTo[x])
    BY <1>1, <1>2
<1> HIDE DEF rank
<1>5. \A x, y \in S : rank[x] = rank[y] => x = y
    <2> SUFFICES ASSUME NEW x \in S, NEW y \in S, rank[x] = rank[y], x # y PROVE FALSE
        OBVIOUS
    <2>1. rank[x] \in Nat /\ rank[y] \in Nat
        BY <1>1, <1>4
    <2>2. rank[x] < rank[y] \/ rank[y] < rank[x]
        BY <1>3
    <2> QED
        BY <2>1, <2>2
<1>6. \A n \in 1..N : \E x \in S : rank[x] = n
    <2>1. rank \in Injection(S, 1..N)
        BY <1>4, <1>5 DEF Injection, IsInjective
    <2>2. rank \in Surjection(S, 1..N)
        BY <1>1, <2>1, FS_Injection
    <2> QED
        BY <2>2 DEF Surjection
<1>7. f = [n \in 1..N |-> CHOOSE x \in S : rank[x] = n]
    <2>1. \A n \in 1..N : (CHOOSE x \in S : Cardinality(upTo[x]) = n) = CHOOSE x \in S : rank[x] = n
        BY <1>4
    <2> QED
        BY <2>1 DEF Sorted
<1> HIDE DEF f
<1>8. \A n \in 1..N : f[n] \in S /\ rank[f[n]] = n
    <2> SUFFICES ASSUME NEW n \in 1..N PROVE f[n] \in S /\ rank[f[n]] = n
        OBVIOUS
    <2>1. f[n] = CHOOSE x \in S : rank[x] = n
        BY <1>7
    <2>2. \E x \in S : rank[x] = n
        BY <1>6
    <2> QED
        BY <2>1, <2>2, Zenon
<1>9. f \in [1..N -> S] /\ DOMAIN f = 1..N
    BY <1>7, <1>8
<1>10. Range(f) = S
    <2>1. \A n \in DOMAIN f : f[n] \in S
        BY <1>8, <1>9
    <2>2. ASSUME NEW x \in S PROVE \E n \in DOMAIN f : x = f[n]
        <3>1. rank[x] \in 1..N
            BY <1>4
        <3>2. f[rank[x]] = x
            BY <1>5, <1>8, <3>1
        <3> QED
            BY <1>9, <3>1, <3>2
    <2> QED
        BY <2>1, <2>2 DEF Range
<1>11. \A m, n \in 1..N : m < n => f[m] \in upTo[f[n]]
    <2> SUFFICES ASSUME NEW m \in 1..N, NEW n \in 1..N, m < n, f[m] \notin upTo[f[n]] PROVE FALSE
        OBVIOUS
    <2>1. f[m] \in S /\ f[n] \in S /\ rank[f[m]] = m /\ rank[f[n]] = n
        BY <1>8
    <2>2. f[n] \in upTo[f[m]] /\ f[n] # f[m]
        BY <2>1
    <2>3. n < m
        BY <1>3, <2>1, <2>2
    <2> QED
        BY <1>1, <2>3
<1> QED
    BY <1>1, <1>9, <1>10, <1>11 DEF f

(* The recursion of ApplyRecords. *)
LEMMA ApplyRecordsIs ==
    ASSUME NEW list, NEW recordList, Len(recordList) \in Nat
    PROVE  /\ ApplyRecords(list, recordList)[0] = list
           /\ \A n \in 0..(Len(recordList) - 1) : ApplyRecords(list, recordList)[n + 1]
                  = ApplyRecord(ApplyRecords(list, recordList)[n], recordList[n + 1])
<1> DEFINE length == Len(recordList)
           To(before, n) == ApplyRecord(before, recordList[n])
           Is(f, m) == f = [n \in 0..m |-> IF n = 0 THEN list ELSE To(f[n - 1], n)]
           S == {m \in Nat : \E f : Is(f, m)}
           after == ApplyRecords(list, recordList)
<1>1. after = CHOOSE f : Is(f, length)
    BY DEF ApplyRecords
<1> HIDE DEF To, length, after
<1>2. 0 \in S
    <2> DEFINE f == [n \in 0..0 |-> list]
    <2>1. Is(f, 0)
        OBVIOUS
    <2> QED
        BY <2>1
<1>3. ASSUME NEW m \in Nat, m \in S PROVE m + 1 \in S
    <2>1. PICK f : Is(f, m)
        BY <1>3
    <2> DEFINE g == [n \in 0..(m + 1) |-> IF n <= m THEN f[n] ELSE To(f[m], n)]
    <2>2. \A n \in 0..(m + 1) : g[n] = IF n = 0 THEN list ELSE To(g[n - 1], n)
        <3> SUFFICES ASSUME NEW n \in 0..(m + 1)
                     PROVE  g[n] = IF n = 0 THEN list ELSE To(g[n - 1], n)
            OBVIOUS
        <3>1. CASE n = 0
            BY <2>1, <3>1
        <3>2. CASE n \in 1..m
            <4>1. g[n] = f[n] /\ g[n - 1] = f[n - 1] /\ f[n] = To(f[n - 1], n)
                BY <2>1, <3>2
            <4> QED
                BY <3>2, <4>1
        <3>3. CASE n = m + 1
            <4>1. g[n] = To(f[m], n) /\ g[n - 1] = f[m]
                BY <3>3
            <4> QED
                BY <3>3, <4>1
        <3> QED
            BY <3>1, <3>2, <3>3
    <2>3. g = [n \in 0..(m + 1) |-> g[n]]
        OBVIOUS
    <2>4. Is(g, m + 1)
        <3> HIDE DEF g
        <3> QED
            BY <2>2, <2>3
    <2> QED
        <3> HIDE DEF g, Is
        <3> QED
            BY <2>4
<1>4. length \in Nat
    BY DEF length
<1>5. \E f : Is(f, length)
    <2>1. \A m \in Nat : m \in S
        <3> HIDE DEF S
        <3> QED
            BY <1>2, <1>3, Induction
    <2> HIDE DEF Is
    <2> QED
        BY <1>4, <2>1
<1>6. Is(after, length)
    <2> HIDE DEF Is
    <2> QED
        BY <1>1, <1>5
<1>7. \A n \in 0..length : after[n] = IF n = 0 THEN list ELSE To(after[n - 1], n)
    BY <1>6
<1>8. after[0] = list
    BY <1>4, <1>7
<1>9. ASSUME NEW n \in 0..(length - 1) PROVE after[n + 1] = To(after[n], n + 1)
    <2>1. n + 1 \in 0..length /\ n + 1 # 0 /\ (n + 1) - 1 = n
        BY <1>4
    <2>2. after[n + 1] = To(after[(n + 1) - 1], n + 1)
        BY <1>7, <2>1
    <2> QED
        BY <2>1, <2>2
<1> QED
    BY <1>8, <1>9 DEF after, length, To

(* The recursion of MergeSorted. *)
LEMMA MergeSortedIs ==
    ASSUME NEW prefixes, NEW places, Len(prefixes) \in Nat
    PROVE  /\ MergeSorted(prefixes, places)[0] = <<>>
           /\ \A n \in 0..(Len(prefixes) - 1) : MergeSorted(prefixes, places)[n + 1]
                  = AddPrefix(MergeSorted(prefixes, places)[n], prefixes[places[n + 1]])
<1> DEFINE length == Len(prefixes)
           To(before, n) == AddPrefix(before, prefixes[places[n]])
           Is(f, m) == f = [n \in 0..m |-> IF n = 0 THEN <<>> ELSE To(f[n - 1], n)]
           S == {m \in Nat : \E f : Is(f, m)}
           after == MergeSorted(prefixes, places)
<1>1. after = CHOOSE f : Is(f, length)
    BY DEF MergeSorted
<1> HIDE DEF To, length, after
<1>2. 0 \in S
    <2> DEFINE f == [n \in 0..0 |-> <<>>]
    <2>1. Is(f, 0)
        OBVIOUS
    <2> QED
        BY <2>1
<1>3. ASSUME NEW m \in Nat, m \in S PROVE m + 1 \in S
    <2>1. PICK f : Is(f, m)
        BY <1>3
    <2> DEFINE g == [n \in 0..(m + 1) |-> IF n <= m THEN f[n] ELSE To(f[m], n)]
    <2>2. \A n \in 0..(m + 1) : g[n] = IF n = 0 THEN <<>> ELSE To(g[n - 1], n)
        <3> SUFFICES ASSUME NEW n \in 0..(m + 1)
                     PROVE  g[n] = IF n = 0 THEN <<>> ELSE To(g[n - 1], n)
            OBVIOUS
        <3>1. CASE n = 0
            BY <2>1, <3>1
        <3>2. CASE n \in 1..m
            <4>1. g[n] = f[n] /\ g[n - 1] = f[n - 1] /\ f[n] = To(f[n - 1], n)
                BY <2>1, <3>2
            <4> QED
                BY <3>2, <4>1
        <3>3. CASE n = m + 1
            <4>1. g[n] = To(f[m], n) /\ g[n - 1] = f[m]
                BY <3>3
            <4> QED
                BY <3>3, <4>1
        <3> QED
            BY <3>1, <3>2, <3>3
    <2>3. g = [n \in 0..(m + 1) |-> g[n]]
        OBVIOUS
    <2>4. Is(g, m + 1)
        <3> HIDE DEF g
        <3> QED
            BY <2>2, <2>3
    <2> QED
        <3> HIDE DEF g, Is
        <3> QED
            BY <2>4
<1>4. length \in Nat
    BY DEF length
<1>5. \E f : Is(f, length)
    <2>1. \A m \in Nat : m \in S
        <3> HIDE DEF S
        <3> QED
            BY <1>2, <1>3, Induction
    <2> HIDE DEF Is
    <2> QED
        BY <1>4, <2>1
<1>6. Is(after, length)
    <2> HIDE DEF Is
    <2> QED
        BY <1>1, <1>5
<1>7. \A n \in 0..length : after[n] = IF n = 0 THEN <<>> ELSE To(after[n - 1], n)
    BY <1>6
<1>8. after[0] = <<>>
    BY <1>4, <1>7
<1>9. ASSUME NEW n \in 0..(length - 1) PROVE after[n + 1] = To(after[n], n + 1)
    <2>1. n + 1 \in 0..length /\ n + 1 # 0 /\ (n + 1) - 1 = n
        BY <1>4
    <2>2. after[n + 1] = To(after[(n + 1) - 1], n + 1)
        BY <1>7, <2>1
    <2> QED
        BY <2>1, <2>2
<1> QED
    BY <1>8, <1>9 DEF after, length, To
-----------------------------------------------------------------------------
(* mergePrefixes. *)

(* A prefix as the client makes them: masked, of IPv4 or the one of IPv6. *)
CleanPrefixes == Aligned \cup {Single(Address6)}

(* PrefixFrom(address, address.BitLen()) is masked. *)
LEMMA SingleIsClean ==
    ASSUME NEW address \in Addresses
    PROVE  Single(address) \in CleanPrefixes
<1>1. CASE address \in Addresses4
    <2>1. Single(address) \in AllPrefixes
        BY <1>1, WidthAssumption DEF Single, AllPrefixes
    <2> QED
        BY <2>1, SingleBlock DEF CleanPrefixes, Aligned
<1>2. CASE address = Address6
    BY <1>2 DEF CleanPrefixes
<1> QED
    BY <1>1, <1>2 DEF Addresses

(* Masking changes no such prefix, and its block is an interval. *)
LEMMA CleanPrefixIs ==
    ASSUME NEW p \in CleanPrefixes
    PROVE  /\ p.addr \in Nat /\ p.addr \in Addresses /\ p.bits \in 0..Width
           /\ p = [addr |-> p.addr, bits |-> p.bits]
           /\ Masked(p) = p
           /\ \E e \in Nat : p.addr <= e /\ Block(p) = p.addr..e
           /\ p.bits = Width => Block(p) = {p.addr} /\ p = Single(p.addr)
<1>1. CASE p \in Aligned
    <2>1. /\ p.addr \in Nat /\ p.addr \in Addresses4 /\ p.bits \in 0..Width
          /\ Length(p) \in Nat \ {0}
          /\ Block(p) = p.addr..(p.addr + Length(p) - 1)
        BY <1>1, AlignedIs
    <2>2. p \in AllPrefixes /\ p = Masked(p)
        BY <1>1 DEF Aligned
    <2>3. p = [addr |-> p.addr, bits |-> p.bits]
        BY <2>2 DEF AllPrefixes
    <2>4. p.addr \in Addresses
        BY <2>1 DEF Addresses
    <2>5. \E e \in Nat : p.addr <= e /\ Block(p) = p.addr..e
        <3> DEFINE e == p.addr + Length(p) - 1
        <3>1. e \in Nat /\ p.addr <= e /\ Block(p) = p.addr..e
            BY <2>1
        <3> HIDE DEF e
        <3> QED
            BY <3>1
    <2>6. p.bits = Width => p = Single(p.addr)
        BY <2>3 DEF Single
    <2>7. p.bits = Width => Block(p) = {p.addr}
        BY <2>4, <2>6, SingleBlock
    <2> QED
        BY <2>1, <2>2, <2>3, <2>4, <2>5, <2>6, <2>7
<1>2. CASE p = Single(Address6)
    <2>1. Width \in Nat /\ 2^Width \in Nat
        BY WidthAssumption, PowerPositive
    <2>2. Address6 \in Addresses /\ Address6 \in Nat
        BY <2>1 DEF Addresses, Address6
    <2>3. Block(p) = {Address6} /\ Masked(p) = p
        BY <1>2, <2>2, SingleBlock
    <2>4. p.addr = Address6 /\ p.bits = Width /\ p = [addr |-> p.addr, bits |-> p.bits]
        BY <1>2 DEF Single
    <2>5. Address6..Address6 = {Address6}
        BY <2>2
    <2>6. \E e \in Nat : p.addr <= e /\ Block(p) = p.addr..e
        <3>1. Address6 <= Address6
            BY <2>2
        <3> QED
            BY <2>2, <2>3, <2>4, <2>5, <3>1
    <2>7. Width \in 0..Width
        BY <2>1
    <2> QED
        BY <1>2, <2>2, <2>3, <2>4, <2>6, <2>7
<1> QED
    BY <1>1, <1>2 DEF CleanPrefixes

(* Of two that overlap, the longer lies within the other. *)
LEMMA CleanNested ==
    ASSUME NEW p \in CleanPrefixes, NEW q \in CleanPrefixes, q.bits <= p.bits, Overlaps(p, q)
    PROVE  Block(p) \subseteq Block(q)
<1>1. Block(p) \cap Block(q) # {}
    BY DEF Overlaps
<1>2. CASE p.bits = Width
    <2>1. Block(p) = {p.addr}
        BY <1>2, CleanPrefixIs
    <2> QED
        BY <1>1, <2>1
<1>3. CASE p.bits # Width
    <2>1. Width \in Nat /\ p.bits \in 0..Width /\ q.bits \in 0..Width
        BY WidthAssumption, CleanPrefixIs
    <2>2. q.bits # Width
        BY <1>3, <2>1
    <2>3. p \in Aligned /\ q \in Aligned
        BY <1>3, <2>2 DEF CleanPrefixes, Single
    <2> QED
        BY <1>1, <2>3, Nested
<1> QED
    BY <1>2, <1>3

(* What AddPrefix keeps true of the prefixes it merged: they are sorted,   *)
(* none overlaps another, and together they contain what was added.        *)
Ordered(p, q) == p.addr < q.addr \/ (p.addr = q.addr /\ p.bits <= q.bits)
Separate(merged) == \A i, j \in DOMAIN merged :
                      i < j => /\ merged[i].addr <= merged[j].addr
                               /\ ~Overlaps(merged[i], merged[j])

(* One round of mergePrefixes: comparing with the last prefix is enough,   *)
(* as the prefixes come sorted.                                            *)
LEMMA AddPrefixIs ==
    ASSUME NEW merged \in Seq(CleanPrefixes), NEW p \in CleanPrefixes, Separate(merged),
           \A i \in DOMAIN merged : Ordered(merged[i], p)
    PROVE  LET next == AddPrefix(merged, p)
           IN  /\ next \in Seq(CleanPrefixes)
               /\ Separate(next)
               /\ Range(merged) \subseteq Range(next)
               /\ Range(next) \subseteq Range(merged) \cup {p}
               /\ \E r \in Range(next) : Block(p) \subseteq Block(r)
<1> DEFINE next == AddPrefix(merged, p)
           length == Len(merged)
           last == merged[length]
<1>1. length \in Nat /\ DOMAIN merged = 1..length
    OBVIOUS
<1>2. \A i \in DOMAIN merged : merged[i] \in CleanPrefixes
    BY <1>1
<1>3. Masked(p) = p /\ p.addr \in Nat /\ p.bits \in Nat
    BY CleanPrefixIs, WidthAssumption
<1>4. \A r \in CleanPrefixes : r.addr \in Nat /\ r.bits \in Nat
    BY CleanPrefixIs, WidthAssumption
<1>5. CASE merged # <<>> /\ Overlaps(last, p) /\ last.bits <= p.bits
    <2>1. next = merged
        BY <1>5 DEF AddPrefix, Last
    <2>2. length \in DOMAIN merged /\ last \in CleanPrefixes /\ last \in Range(merged)
        <3>1. length # 0
            BY <1>5
        <3> QED
            BY <1>1, <1>2, <3>1 DEF Range
    <2>3. Overlaps(p, last)
        BY <1>5 DEF Overlaps
    <2>4. Block(p) \subseteq Block(last)
        BY <1>5, <2>2, <2>3, CleanNested
    <2> QED
        BY <2>1, <2>2, <2>4
<1>6. CASE ~(merged # <<>> /\ Overlaps(last, p) /\ last.bits <= p.bits)
    <2>1. next = Append(merged, p)
        BY <1>3, <1>6 DEF AddPrefix, Last
    <2>2. /\ next \in Seq(CleanPrefixes) /\ DOMAIN next = 1..(length + 1)
          /\ \A i \in DOMAIN merged : next[i] = merged[i]
          /\ next[length + 1] = p
        BY <1>1, <2>1
    <2> HIDE DEF next
    <2>3. ASSUME NEW i \in DOMAIN merged, Overlaps(merged[i], p) PROVE FALSE
        <3>1. length \in DOMAIN merged /\ i <= length /\ merged # <<>>
            BY <1>1
        <3>2. last \in CleanPrefixes /\ merged[i] \in CleanPrefixes
            BY <1>2, <3>1
        <3>3. Ordered(last, p) /\ Ordered(merged[i], p)
            BY <3>1
        <3>4. PICK e \in Nat : p.addr <= e /\ Block(p) = p.addr..e
            BY CleanPrefixIs
        <3>5. PICK d \in Nat : merged[i].addr <= d /\ Block(merged[i]) = merged[i].addr..d
            BY <3>2, CleanPrefixIs
        <3>6. PICK c \in Nat : last.addr <= c /\ Block(last) = last.addr..c
            BY <3>2, CleanPrefixIs
        <3>7. merged[i].addr \in Nat /\ last.addr \in Nat /\ last.bits \in Nat
            BY <1>4, <3>2
        <3>8. CASE i = length
            <4>1. Overlaps(last, p)
                BY <2>3, <3>8
            <4>2. ~(last.bits <= p.bits)
                BY <1>6, <3>1, <4>1
            <4>3. p.bits <= last.bits
                BY <1>3, <3>7, <4>2
            <4>4. Block(last) \subseteq Block(p)
                BY <3>2, <4>1, <4>3, CleanNested
            <4>5. p.addr <= last.addr
                <5>1. last.addr \in Block(last)
                    BY <3>6, <3>7
                <5>2. last.addr \in p.addr..e
                    BY <3>4, <4>4, <5>1
                <5> QED
                    BY <1>3, <3>7, <5>2
            <4> QED
                BY <1>3, <3>3, <3>7, <4>2, <4>5 DEF Ordered
        <3>9. CASE i # length
            <4>1. i < length
                BY <1>1, <3>1, <3>9
            <4>2. merged[i].addr <= last.addr /\ ~Overlaps(merged[i], last)
                BY <3>1, <4>1 DEF Separate
            <4>3. last.addr <= p.addr
                BY <1>3, <3>3, <3>7 DEF Ordered
            <4>4. PICK x : x \in Block(merged[i]) /\ x \in Block(p)
                BY <2>3 DEF Overlaps
            <4>5. x \in Int /\ x <= d /\ p.addr <= x
                BY <3>4, <3>5, <4>4
            <4>6. last.addr <= d
                BY <1>3, <3>7, <4>3, <4>5
            <4>7. last.addr \in Block(merged[i]) /\ last.addr \in Block(last)
                BY <3>5, <3>6, <3>7, <4>2, <4>6
            <4> QED
                BY <4>2, <4>7 DEF Overlaps
        <3> QED
            BY <3>8, <3>9
    <2>4. Separate(next)
        <3> SUFFICES ASSUME NEW i \in DOMAIN next, NEW j \in DOMAIN next, i < j
                     PROVE  next[i].addr <= next[j].addr /\ ~Overlaps(next[i], next[j])
            BY DEF Separate
        <3>1. CASE j = length + 1
            <4>1. i \in DOMAIN merged /\ next[i] = merged[i] /\ next[j] = p
                BY <1>1, <2>2, <3>1
            <4>2. merged[i].addr <= p.addr
                BY <1>2, <1>3, <1>4, <4>1 DEF Ordered
            <4> QED
                BY <2>3, <4>1, <4>2
        <3>2. CASE j # length + 1
            <4>1. i \in DOMAIN merged /\ j \in DOMAIN merged
                BY <1>1, <2>2, <3>2
            <4> QED
                BY <2>2, <4>1 DEF Separate
        <3> QED
            BY <3>1, <3>2
    <2>5. Range(merged) \subseteq Range(next)
        <3>1. DOMAIN merged \subseteq DOMAIN next
            BY <1>1, <2>2
        <3> QED
            BY <2>2, <3>1 DEF Range
    <2>6. Range(next) \subseteq Range(merged) \cup {p}
        <3>1. \A i \in DOMAIN next : i \in DOMAIN merged \/ i = length + 1
            BY <1>1, <2>2
        <3> QED
            BY <2>2, <3>1 DEF Range
    <2>7. p \in Range(next)
        <3>1. length + 1 \in DOMAIN next
            BY <1>1, <2>2
        <3> QED
            BY <2>2, <3>1 DEF Range
    <2> QED
        BY <2>2, <2>4, <2>5, <2>6, <2>7 DEF next
<1> QED
    BY <1>5, <1>6

(* SortedPlaces lists every place once, in the order of the prefixes. *)
LEMMA SortedPlacesIs ==
    ASSUME NEW prefixes \in Seq(CleanPrefixes)
    PROVE  LET places == SortedPlaces(prefixes)
           IN  /\ places \in [1..Len(prefixes) -> DOMAIN prefixes]
               /\ Range(places) = DOMAIN prefixes
               /\ \A m, n \in 1..Len(prefixes) :
                      m < n => Ordered(prefixes[places[m]], prefixes[places[n]])
<1> DEFINE D == DOMAIN prefixes
           To(i) == {j \in D : \/ Before(prefixes[j], prefixes[i])
                               \/ prefixes[j] = prefixes[i] /\ j <= i}
           upTo == [i \in D |-> To(i)]
           places == SortedPlaces(prefixes)
<1>1. Len(prefixes) \in Nat /\ D = 1..Len(prefixes)
    OBVIOUS
<1>2. IsFiniteSet(D) /\ Cardinality(D) = Len(prefixes)
    <2>1. 1 \in Int /\ Len(prefixes) \in Int
        BY <1>1
    <2>2. /\ IsFiniteSet(1..Len(prefixes))
          /\ Cardinality(1..Len(prefixes)) = IF 1 > Len(prefixes) THEN 0 ELSE Len(prefixes) - 1 + 1
        BY <2>1, FS_Interval
    <2> QED
        BY <1>1, <2>2
<1>3. \A i \in D : /\ prefixes[i] \in CleanPrefixes /\ i \in Nat
                   /\ prefixes[i].addr \in Nat /\ prefixes[i].bits \in Nat
                   /\ prefixes[i] = [addr |-> prefixes[i].addr, bits |-> prefixes[i].bits]
    <2>1. \A i \in D : prefixes[i] \in CleanPrefixes /\ i \in Nat
        BY <1>1
    <2> QED
        BY <2>1, CleanPrefixIs, WidthAssumption
<1>4. places = Sorted(D, upTo)
    BY DEF SortedPlaces
<1>5. upTo \in [D -> SUBSET D] /\ \A i \in D : upTo[i] = To(i)
    OBVIOUS
<1>6. \A i, j \in D : j \in upTo[i] <=> \/ prefixes[j].addr < prefixes[i].addr
                                        \/ /\ prefixes[j].addr = prefixes[i].addr
                                           /\ prefixes[j].bits < prefixes[i].bits
                                        \/ /\ prefixes[j].addr = prefixes[i].addr
                                           /\ prefixes[j].bits = prefixes[i].bits /\ j <= i
    <2> SUFFICES ASSUME NEW i \in D, NEW j \in D
                 PROVE  j \in upTo[i] <=> \/ prefixes[j].addr < prefixes[i].addr
                                          \/ /\ prefixes[j].addr = prefixes[i].addr
                                             /\ prefixes[j].bits < prefixes[i].bits
                                          \/ /\ prefixes[j].addr = prefixes[i].addr
                                             /\ prefixes[j].bits = prefixes[i].bits /\ j <= i
        OBVIOUS
    <2>1. prefixes[j] = prefixes[i] <=>
              prefixes[j].addr = prefixes[i].addr /\ prefixes[j].bits = prefixes[i].bits
        BY <1>3
    <2>2. j \in upTo[i] <=> Before(prefixes[j], prefixes[i]) \/ (prefixes[j] = prefixes[i] /\ j <= i)
        BY <1>5
    <2> QED
        BY <2>1, <2>2 DEF Before
<1> DEFINE a(i) == prefixes[i].addr
           b(i) == prefixes[i].bits
           UpTo(j, i) == \/ a(j) < a(i)
                         \/ a(j) = a(i) /\ b(j) < b(i)
                         \/ a(j) = a(i) /\ b(j) = b(i) /\ j <= i
<1>7. \A i, j \in D : j \in upTo[i] <=> UpTo(j, i)
    BY <1>6
<1>8. \A i \in D : i \in Nat /\ a(i) \in Nat /\ b(i) \in Nat
    BY <1>3
<1> HIDE DEF upTo, places, a, b, D
<1>9. \A i \in D : i \in upTo[i]
    BY <1>7, <1>8
<1>10. \A i, j \in D : i \in upTo[j] => upTo[i] \subseteq upTo[j]
    <2> SUFFICES ASSUME NEW i \in D, NEW j \in D, i \in upTo[j], NEW k \in upTo[i]
                 PROVE  k \in upTo[j]
        OBVIOUS
    <2>1. k \in D
        BY <1>5
    <2>2. UpTo(k, i) /\ UpTo(i, j)
        <3> HIDE DEF UpTo
        <3> QED
            BY <1>7, <2>1
    <2>3. UpTo(k, j)
        BY <1>8, <2>1, <2>2
    <2> QED
        <3> HIDE DEF UpTo
        <3> QED
            BY <1>7, <2>1, <2>3
<1>11. \A i, j \in D : i \in upTo[j] \/ j \in upTo[i]
    <2> SUFFICES ASSUME NEW i \in D, NEW j \in D PROVE i \in upTo[j] \/ j \in upTo[i]
        OBVIOUS
    <2>1. UpTo(i, j) \/ UpTo(j, i)
        BY <1>8
    <2> QED
        <3> HIDE DEF UpTo
        <3> QED
            BY <1>7, <2>1
<1>12. \A i, j \in D : i \in upTo[j] /\ j \in upTo[i] => i = j
    <2> SUFFICES ASSUME NEW i \in D, NEW j \in D, i \in upTo[j], j \in upTo[i] PROVE i = j
        OBVIOUS
    <2>1. UpTo(i, j) /\ UpTo(j, i)
        <3> HIDE DEF UpTo
        <3> QED
            BY <1>7
    <2> QED
        BY <1>8, <2>1
<1>13. /\ places \in [1..Len(prefixes) -> D] /\ Range(places) = D
       /\ \A m, n \in 1..Len(prefixes) : m < n => places[m] \in upTo[places[n]]
    <2>1. /\ Sorted(D, upTo) \in [1..Cardinality(D) -> D]
          /\ Range(Sorted(D, upTo)) = D
          /\ \A m, n \in 1..Cardinality(D) :
                  m < n => Sorted(D, upTo)[m] \in upTo[Sorted(D, upTo)[n]]
        BY <1>2, <1>5, <1>9, <1>10, <1>11, <1>12, SortedIs
    <2> QED
        BY <1>2, <1>4, <2>1
<1>14. \A m, n \in 1..Len(prefixes) : m < n => Ordered(prefixes[places[m]], prefixes[places[n]])
    <2> SUFFICES ASSUME NEW m \in 1..Len(prefixes), NEW n \in 1..Len(prefixes), m < n
                 PROVE  Ordered(prefixes[places[m]], prefixes[places[n]])
        OBVIOUS
    <2> DEFINE i == places[m]
               j == places[n]
    <2>1. i \in D /\ j \in D /\ i \in upTo[j]
        BY <1>13
    <2> HIDE DEF i, j
    <2>2. UpTo(i, j)
        <3> HIDE DEF UpTo
        <3> QED
            BY <1>7, <2>1
    <2>3. \/ a(i) < a(j)
          \/ a(i) = a(j) /\ b(i) <= b(j)
        BY <1>8, <2>1, <2>2
    <2>4. Ordered(prefixes[i], prefixes[j])
        BY <2>3 DEF Ordered, a, b
    <2> QED
        BY <2>4 DEF i, j
<1> QED
    BY <1>13, <1>14 DEF places, D

(* mergePrefixes drops only what another prefix contains, and keeps no two *)
(* that overlap.                                                           *)
LEMMA MergePrefixesIs ==
    ASSUME NEW prefixes \in Seq(CleanPrefixes)
    PROVE  LET merged == mergePrefixes(prefixes)
           IN  /\ merged \in Seq(CleanPrefixes)
               /\ Range(merged) \subseteq Range(prefixes)
               /\ \A p \in Range(prefixes) : \E r \in Range(merged) : Block(p) \subseteq Block(r)
               /\ \A i, j \in DOMAIN merged : i # j => ~Overlaps(merged[i], merged[j])
<1> DEFINE places == SortedPlaces(prefixes)
           after == MergeSorted(prefixes, places)
           N == Len(prefixes)
           q(n) == prefixes[places[n]]
           Good(merged, n) ==
               /\ merged \in Seq(CleanPrefixes)
               /\ Separate(merged)
               /\ \A r \in Range(merged) : \E k \in 1..n : r = q(k)
               /\ \A k \in 1..n : \E r \in Range(merged) : Block(q(k)) \subseteq Block(r)
           S == {n \in Nat : n <= N => Good(after[n], n)}
<1>1. N \in Nat /\ DOMAIN prefixes = 1..N
    OBVIOUS
<1>2. /\ places \in [1..N -> DOMAIN prefixes] /\ Range(places) = DOMAIN prefixes
      /\ \A m, n \in 1..N : m < n => Ordered(q(m), q(n))
    BY SortedPlacesIs
<1>3. after[0] = <<>> /\ \A n \in 0..(N - 1) : after[n + 1] = AddPrefix(after[n], q(n + 1))
    BY <1>1, MergeSortedIs
<1>4. \A n \in 1..N : q(n) \in CleanPrefixes
    BY <1>1, <1>2
<1> HIDE DEF places, after, q
<1>5. 0 \in S
    <2>1. Range(<<>>) = {} /\ <<>> \in Seq(CleanPrefixes) /\ DOMAIN <<>> = {} /\ 1..0 = {}
        BY DEF Range
    <2>2. Good(<<>>, 0)
        BY <2>1 DEF Separate
    <2> QED
        BY <1>3, <2>2
<1>6. ASSUME NEW n \in Nat, n \in S PROVE n + 1 \in S
    <2> SUFFICES ASSUME n + 1 <= N PROVE Good(after[n + 1], n + 1)
        OBVIOUS
    <2> DEFINE merged == after[n]
               next == after[n + 1]
               p == q(n + 1)
    <2>1. n <= N /\ n \in 0..(N - 1) /\ n + 1 \in 1..N
        BY <1>1
    <2>2. Good(merged, n)
        <3> HIDE DEF Good
        <3> QED
            BY <1>6, <2>1
    <2>3. next = AddPrefix(merged, p) /\ p \in CleanPrefixes
        BY <1>3, <1>4, <2>1
    <2> HIDE DEF merged, next
    <2>4. \A i \in DOMAIN merged : Ordered(merged[i], p)
        <3> SUFFICES ASSUME NEW i \in DOMAIN merged PROVE Ordered(merged[i], p)
            OBVIOUS
        <3>1. merged[i] \in Range(merged)
            BY DEF Range
        <3>2. PICK k \in 1..n : merged[i] = q(k)
            BY <2>2, <3>1
        <3>3. k \in 1..N /\ k < n + 1
            BY <1>1, <2>1
        <3> QED
            BY <1>2, <2>1, <3>2, <3>3
    <2>5. /\ next \in Seq(CleanPrefixes) /\ Separate(next)
          /\ Range(merged) \subseteq Range(next)
          /\ Range(next) \subseteq Range(merged) \cup {p}
          /\ \E r \in Range(next) : Block(p) \subseteq Block(r)
        BY <2>2, <2>3, <2>4, AddPrefixIs
    <2>6. \A k : k \in 1..(n + 1) <=> k \in 1..n \/ k = n + 1
        OBVIOUS
    <2>7. \A r \in Range(next) : \E k \in 1..(n + 1) : r = q(k)
        <3> SUFFICES ASSUME NEW r \in Range(next) PROVE \E k \in 1..(n + 1) : r = q(k)
            OBVIOUS
        <3>1. CASE r \in Range(merged)
            BY <2>2, <2>6, <3>1
        <3>2. CASE r = p
            BY <2>6, <3>2
        <3> QED
            BY <2>5, <3>1, <3>2
    <2>8. \A k \in 1..(n + 1) : \E r \in Range(next) : Block(q(k)) \subseteq Block(r)
        <3> SUFFICES ASSUME NEW k \in 1..(n + 1)
                     PROVE  \E r \in Range(next) : Block(q(k)) \subseteq Block(r)
            OBVIOUS
        <3>1. CASE k \in 1..n
            BY <2>2, <2>5, <3>1
        <3>2. CASE k = n + 1
            BY <2>5, <3>2
        <3> QED
            BY <2>6, <3>1, <3>2
    <2>9. Good(next, n + 1)
        BY <2>5, <2>7, <2>8
    <2> QED
        BY <2>9 DEF next
<1>7. Good(after[N], N)
    <2> HIDE DEF Good
    <2>1. \A n \in Nat : n \in S
        <3> HIDE DEF S
        <3> QED
            BY <1>5, <1>6, Induction
    <2>2. N <= N
        BY <1>1
    <2> QED
        BY <1>1, <2>1, <2>2
<1> DEFINE merged == mergePrefixes(prefixes)
<1>8. merged = after[N]
    BY DEF mergePrefixes, after, places
<1> HIDE DEF merged, N
<1>9. \A n \in 1..N : q(n) \in Range(prefixes)
    BY <1>2 DEF Range, q
<1>10. \A p \in Range(prefixes) : \E n \in 1..N : p = q(n)
    BY <1>2 DEF Range, q
<1>11. \A i, j \in DOMAIN merged : i # j => ~Overlaps(merged[i], merged[j])
    <2> SUFFICES ASSUME NEW i \in DOMAIN merged, NEW j \in DOMAIN merged, i # j
                 PROVE  ~Overlaps(merged[i], merged[j])
        OBVIOUS
    <2>1. merged \in Seq(CleanPrefixes) /\ Separate(merged)
        BY <1>7, <1>8
    <2>2. i \in Nat /\ j \in Nat
        BY <2>1
    <2>3. i < j \/ j < i
        BY <2>2
    <2> QED
        BY <2>1, <2>3 DEF Separate, Overlaps
<1> QED
    BY <1>7, <1>8, <1>9, <1>10, <1>11 DEF merged
-----------------------------------------------------------------------------
(* applyDNSHosts. *)

(* What a list of resources consists of. *)
Ports == [start : Nat, end : Nat]
Entries == [domain   : [name : Nat, canonical : BOOLEAN],
            prefixes : Seq(CleanPrefixes),
            ports    : Ports]
ResourceLists == Seq([id : Ids, entries : Seq(Entries)])
DistinctIds(list) == \A i, j \in DOMAIN list : i # j => list[i].id # list[j].id

(* Some entry is of this domain and has these ports; some entry grants a   *)
(* prefix on these ports.                                                  *)
EntryNames(entries, name, ports) ==
    \E j \in DOMAIN entries : entries[j].domain.name = name /\ entries[j].ports = ports
EntryGrants(entries, p, ports) ==
    \E j \in DOMAIN entries : p \in Range(entries[j].prefixes) /\ entries[j].ports = ports
ListNames(list, id, name, ports) ==
    \E i \in DOMAIN list : list[i].id = id /\ EntryNames(list[i].entries, name, ports)
ListGrants(list, p, ports) ==
    \E i \in DOMAIN list : EntryGrants(list[i].entries, p, ports)

HostRecord == [id : Ids, domain : Nat \ {0}, address : Addresses]

(* The entry a record makes when no entry has its domain. *)
LEMMA HostEntryIs ==
    ASSUME NEW record \in HostRecord
    PROVE  /\ HostEntry(record) \in Entries
           /\ HostEntry(record).domain.name = record.domain
           /\ HostEntry(record).ports = wholePortRange
           /\ Range(HostEntry(record).prefixes) = {Single(record.address)}
           /\ wholePortRange \in Ports
<1> DEFINE p == Single(record.address)
<1>1. p \in CleanPrefixes
    BY SingleIsClean DEF HostRecord
<1> HIDE DEF p
<1>2. <<p>> \in Seq(CleanPrefixes) /\ Range(<<p>>) = {p}
    BY <1>1 DEF Range
<1>3. wholePortRange \in Ports
    BY ResourcesAssumption DEF wholePortRange, Ports
<1>4. HostEntry(record) = [domain |-> [name |-> record.domain, canonical |-> TRUE],
                           prefixes |-> <<p>>, ports |-> wholePortRange]
    BY DEF HostEntry, p
<1>5. record.domain \in Nat
    BY DEF HostRecord
<1> QED
    BY <1>2, <1>3, <1>4, <1>5 DEF Entries, p

(* An entry gains the address of a record and keeps its domain and ports. *)
LEMMA WithAddressIs ==
    ASSUME NEW record \in HostRecord, NEW entry \in Entries
    PROVE  LET next == WithAddress(record, entry)
           IN  /\ next \in Entries
               /\ next.domain = entry.domain /\ next.ports = entry.ports
               /\ Range(next.prefixes) = Range(entry.prefixes) \cup {Single(record.address)}
<1> DEFINE p == Single(record.address)
           s == entry.prefixes
           next == WithAddress(record, entry)
<1>1. p \in CleanPrefixes
    BY SingleIsClean DEF HostRecord
<1>2. s \in Seq(CleanPrefixes)
    BY DEF Entries
<1>3. CASE p \in Range(s)
    <2>1. next = entry
        BY <1>3 DEF WithAddress
    <2> QED
        BY <1>3, <2>1
<1>4. CASE p \notin Range(s)
    <2>1. next = [entry EXCEPT !.prefixes = Append(s, p)]
        BY <1>4 DEF WithAddress
    <2> HIDE DEF p, s, next
    <2>2. Append(s, p) \in Seq(CleanPrefixes) /\ Range(Append(s, p)) = Range(s) \cup {p}
        <3>1. <<p>> \in Seq(CleanPrefixes) /\ Range(<<p>>) = {p} /\ Append(s, p) = s \o <<p>>
            BY <1>1, <1>2 DEF Range
        <3>2. s \o <<p>> \in Seq(CleanPrefixes) /\ Range(s \o <<p>>) = Range(s) \cup Range(<<p>>)
            BY <1>2, <3>1, RangeConcat
        <3> QED
            BY <3>1, <3>2, Zenon
    <2>3. /\ next \in Entries /\ next.domain = entry.domain /\ next.ports = entry.ports
          /\ next.prefixes = Append(s, p)
        BY <2>1, <2>2 DEF Entries
    <2> QED
        BY <2>2, <2>3 DEF p, s, next
<1> QED
    BY <1>3, <1>4

(* The entries of a resource that a record joins. *)
Joined(entries, record) ==
    LET named == {j \in DOMAIN entries : NamedBy(record, entries[j])}
    IN IF named = {} THEN Append(entries, HostEntry(record))
       ELSE [j \in DOMAIN entries |->
                IF j \in named THEN WithAddress(record, entries[j]) ELSE entries[j]]

(* They grant the address on the ports of the entries the record names. *)
LEMMA JoinedEntries ==
    ASSUME NEW record \in HostRecord, NEW entries \in Seq(Entries)
    PROVE  LET next == Joined(entries, record)
           IN  /\ next \in Seq(Entries)
               /\ \A name, ports :
                      EntryNames(next, name, ports) <=>
                          \/ EntryNames(entries, name, ports)
                          \/ /\ name = record.domain /\ ports = wholePortRange
                             /\ \A q : ~EntryNames(entries, record.domain, q)
               /\ \A p, ports :
                      EntryGrants(next, p, ports) <=>
                          \/ EntryGrants(entries, p, ports)
                          \/ p = Single(record.address) /\ EntryNames(next, record.domain, ports)
<1> DEFINE next == Joined(entries, record)
           N == Len(entries)
           e == HostEntry(record)
           single == Single(record.address)
           named == {j \in DOMAIN entries : NamedBy(record, entries[j])}
<1>1. N \in Nat /\ DOMAIN entries = 1..N /\ \A j \in DOMAIN entries : entries[j] \in Entries
    OBVIOUS
<1>2. /\ e \in Entries /\ e.domain.name = record.domain /\ e.ports = wholePortRange
      /\ Range(e.prefixes) = {single}
    BY HostEntryIs
<1>3. \A j \in DOMAIN entries : j \in named <=> entries[j].domain.name = record.domain
    BY DEF NamedBy
<1> HIDE DEF e, single
<1>4. CASE named = {}
    <2>1. next = Append(entries, e)
        BY <1>4 DEF Joined, e
    <2>2. /\ next \in Seq(Entries) /\ DOMAIN next = 1..(N + 1)
          /\ \A j \in 1..N : next[j] = entries[j]
          /\ next[N + 1] = e
        BY <1>1, <1>2, <2>1
    <2> HIDE DEF next, N
    <2>3. \A j : j \in 1..(N + 1) <=> j \in 1..N \/ j = N + 1
        BY <1>1
    <2>4. \A q : ~EntryNames(entries, record.domain, q)
        BY <1>3, <1>4 DEF EntryNames
    <2> HIDE DEF named
    <2>5. \A name, ports : EntryNames(next, name, ports) <=>
              EntryNames(entries, name, ports) \/ (name = record.domain /\ ports = wholePortRange)
        <3> SUFFICES ASSUME NEW name, NEW ports
                     PROVE  EntryNames(next, name, ports) <=>
                                \/ EntryNames(entries, name, ports)
                                \/ name = record.domain /\ ports = wholePortRange
            OBVIOUS
        <3>1. EntryNames(next, name, ports) <=>
                  \/ \E j \in 1..N : next[j].domain.name = name /\ next[j].ports = ports
                  \/ next[N + 1].domain.name = name /\ next[N + 1].ports = ports
            BY <2>2, <2>3, Zenon DEF EntryNames
        <3>2. (\E j \in 1..N : next[j].domain.name = name /\ next[j].ports = ports)
                  <=> EntryNames(entries, name, ports)
            BY <1>1, <2>2, Zenon DEF EntryNames
        <3> QED
            BY <1>2, <2>2, <3>1, <3>2
    <2>6. \A p, ports : EntryGrants(next, p, ports) <=>
              EntryGrants(entries, p, ports) \/ (p = single /\ ports = wholePortRange)
        <3> SUFFICES ASSUME NEW p, NEW ports
                     PROVE  EntryGrants(next, p, ports) <=>
                                \/ EntryGrants(entries, p, ports)
                                \/ p = single /\ ports = wholePortRange
            OBVIOUS
        <3>1. EntryGrants(next, p, ports) <=>
                  \/ \E j \in 1..N : p \in Range(next[j].prefixes) /\ next[j].ports = ports
                  \/ p \in Range(next[N + 1].prefixes) /\ next[N + 1].ports = ports
            BY <2>2, <2>3, Zenon DEF EntryGrants
        <3>2. (\E j \in 1..N : p \in Range(next[j].prefixes) /\ next[j].ports = ports)
                  <=> EntryGrants(entries, p, ports)
            BY <1>1, <2>2, Zenon DEF EntryGrants
        <3> QED
            BY <1>2, <2>2, <3>1, <3>2
    <2> QED
        BY <2>2, <2>4, <2>5, <2>6 DEF next, single
<1>5. CASE named # {}
    <2> DEFINE w(j) == WithAddress(record, entries[j])
    <2>1. next = [j \in DOMAIN entries |-> IF j \in named THEN w(j) ELSE entries[j]]
        BY <1>5 DEF Joined
    <2>2. \A j \in DOMAIN entries :
              /\ w(j) \in Entries /\ w(j).domain = entries[j].domain
              /\ w(j).ports = entries[j].ports
              /\ Range(w(j).prefixes) = Range(entries[j].prefixes) \cup {single}
        BY <1>1, WithAddressIs DEF single
    <2> HIDE DEF w, next, named
    <2>3. DOMAIN next = DOMAIN entries
        BY <2>1
    <2>4. \A j \in DOMAIN entries :
              /\ next[j] \in Entries /\ next[j].domain = entries[j].domain
              /\ next[j].ports = entries[j].ports
              /\ Range(next[j].prefixes) = Range(entries[j].prefixes)
                                               \cup (IF j \in named THEN {single} ELSE {})
        <3> SUFFICES ASSUME NEW j \in DOMAIN entries
                     PROVE  /\ next[j] \in Entries /\ next[j].domain = entries[j].domain
                            /\ next[j].ports = entries[j].ports
                            /\ Range(next[j].prefixes) = Range(entries[j].prefixes)
                                               \cup (IF j \in named THEN {single} ELSE {})
            OBVIOUS
        <3>1. next[j] = IF j \in named THEN w(j) ELSE entries[j]
            BY <2>1
        <3>2. CASE j \in named
            BY <2>2, <3>1, <3>2
        <3>3. CASE j \notin named
            BY <1>1, <3>1, <3>3
        <3> QED
            BY <3>2, <3>3
    <2>5. next \in Seq(Entries)
        <3>1. next = [j \in 1..N |-> next[j]]
            BY <1>1, <2>1, <2>3
        <3>2. next \in [1..N -> Entries]
            BY <1>1, <2>4, <3>1
        <3> QED
            BY <1>1, <3>2
    <2>6. \A name, ports : EntryNames(next, name, ports) <=> EntryNames(entries, name, ports)
        BY <2>3, <2>4 DEF EntryNames
    <2>7. \E q : EntryNames(entries, record.domain, q)
        BY <1>3, <1>5 DEF EntryNames, named
    <2>8. \A p, ports : EntryGrants(next, p, ports) <=>
              EntryGrants(entries, p, ports) \/ (p = single /\ EntryNames(next, record.domain, ports))
        <3> SUFFICES ASSUME NEW p, NEW ports
                     PROVE  EntryGrants(next, p, ports) <=>
                                \/ EntryGrants(entries, p, ports)
                                \/ p = single /\ EntryNames(entries, record.domain, ports)
            BY <2>6
        <3>1. EntryGrants(next, p, ports) <=>
                  \E j \in DOMAIN entries :
                      /\ p \in Range(entries[j].prefixes) \/ (j \in named /\ p = single)
                      /\ entries[j].ports = ports
            BY <2>3, <2>4 DEF EntryGrants
        <3>2. EntryNames(entries, record.domain, ports) <=>
                  \E j \in DOMAIN entries : j \in named /\ entries[j].ports = ports
            BY <1>3 DEF EntryNames
        <3> QED
            BY <3>1, <3>2, Zenon DEF EntryGrants
    <2> QED
        BY <2>5, <2>6, <2>7, <2>8 DEF next, single
<1> QED
    BY <1>4, <1>5

(* The maximum of one number. *)
LEMMA MaxOfOne ==
    ASSUME NEW i \in Int
    PROVE  Max({i}) = i
BY DEF Max

(* What one record adds: its address for the ports of the entries it       *)
(* names, or an entry for all ports when it names none.                    *)
LEMMA ApplyRecordIs ==
    ASSUME NEW record \in HostRecord, NEW list \in ResourceLists, DistinctIds(list)
    PROVE  LET next == ApplyRecord(list, record)
           IN  /\ next \in ResourceLists
               /\ DistinctIds(next)
               /\ \A id, name, ports :
                      ListNames(next, id, name, ports) <=>
                          \/ ListNames(list, id, name, ports)
                          \/ /\ id = record.id /\ name = record.domain /\ ports = wholePortRange
                             /\ \A q : ~ListNames(list, record.id, record.domain, q)
               /\ \A p, ports :
                      ListGrants(next, p, ports) <=>
                          \/ ListGrants(list, p, ports)
                          \/ /\ p = Single(record.address)
                             /\ ListNames(next, record.id, record.domain, ports)
<1> DEFINE next == ApplyRecord(list, record)
           N == Len(list)
           same == {i \in DOMAIN list : list[i].id = record.id}
           R == [id : Ids, entries : Seq(Entries)]
<1>1. N \in Nat /\ DOMAIN list = 1..N /\ \A i \in DOMAIN list : list[i] \in R
    <2>1. list \in Seq(R)
        BY DEF ResourceLists
    <2> HIDE DEF R
    <2> QED
        BY <2>1
<1>2. \A i \in DOMAIN list : list[i].entries \in Seq(Entries) /\ list[i].id \in Ids
    BY <1>1
<1>3. record.id \in Ids
    BY DEF HostRecord
<1>4. CASE same = {}
    <2> DEFINE es == <<HostEntry(record)>>
               r == [id |-> record.id, entries |-> es]
    <2>1. next = Append(list, r)
        BY <1>4 DEF ApplyRecord
    <2>2. es = Joined(<<>>, record) /\ <<>> \in Seq(Entries)
        BY DEF Joined
    <2>3. /\ es \in Seq(Entries)
          /\ \A name, ports : EntryNames(es, name, ports) <=>
                 name = record.domain /\ ports = wholePortRange
          /\ \A p, ports : EntryGrants(es, p, ports) <=>
                 p = Single(record.address) /\ EntryNames(es, record.domain, ports)
        <3> HIDE DEF es
        <3>1. /\ \A name, ports : ~EntryNames(<<>>, name, ports)
              /\ \A p, ports : ~EntryGrants(<<>>, p, ports)
            BY DEF EntryNames, EntryGrants
        <3>2. /\ es \in Seq(Entries)
              /\ \A name, ports :
                      EntryNames(es, name, ports) <=>
                          \/ EntryNames(<<>>, name, ports)
                          \/ /\ name = record.domain /\ ports = wholePortRange
                             /\ \A q : ~EntryNames(<<>>, record.domain, q)
              /\ \A p, ports :
                      EntryGrants(es, p, ports) <=>
                          \/ EntryGrants(<<>>, p, ports)
                          \/ p = Single(record.address) /\ EntryNames(es, record.domain, ports)
            BY <2>2, JoinedEntries
        <3> QED
            BY <3>1, <3>2
    <2> HIDE DEF es
    <2>4. r \in R /\ r.id = record.id /\ r.entries = es
        BY <1>3, <2>3
    <2> HIDE DEF r
    <2>5. /\ next \in ResourceLists /\ DOMAIN next = 1..(N + 1)
          /\ \A i \in DOMAIN list : next[i] = list[i]
          /\ next[N + 1] = r
        BY <1>1, <2>1, <2>4 DEF ResourceLists
    <2> HIDE DEF next
    <2>6. \A i : i \in DOMAIN next <=> i \in DOMAIN list \/ i = N + 1
        BY <1>1, <2>5
    <2>7. \A i \in DOMAIN list : list[i].id # record.id
        BY <1>4
    <2>8. DistinctIds(next)
        BY <2>4, <2>5, <2>6, <2>7 DEF DistinctIds
    <2>9. \A name, q : ~ListNames(list, record.id, name, q)
        BY <2>7 DEF ListNames
    <2>10. \A id, name, ports : ListNames(next, id, name, ports) <=>
               \/ ListNames(list, id, name, ports)
               \/ id = record.id /\ name = record.domain /\ ports = wholePortRange
        <3> SUFFICES ASSUME NEW id, NEW name, NEW ports
                     PROVE  ListNames(next, id, name, ports) <=>
                                \/ ListNames(list, id, name, ports)
                                \/ id = record.id /\ name = record.domain /\ ports = wholePortRange
            OBVIOUS
        <3>1. ListNames(next, id, name, ports) <=>
                  \/ \E i \in DOMAIN list : next[i].id = id /\ EntryNames(next[i].entries, name, ports)
                  \/ next[N + 1].id = id /\ EntryNames(next[N + 1].entries, name, ports)
            BY <2>6, Zenon DEF ListNames
        <3>2. (\E i \in DOMAIN list : next[i].id = id /\ EntryNames(next[i].entries, name, ports))
                  <=> ListNames(list, id, name, ports)
            BY <2>5, Zenon DEF ListNames
        <3> QED
            BY <2>3, <2>4, <2>5, <3>1, <3>2
    <2>11. \A p, ports : ListGrants(next, p, ports) <=>
               \/ ListGrants(list, p, ports)
               \/ p = Single(record.address) /\ ports = wholePortRange
        <3> SUFFICES ASSUME NEW p, NEW ports
                     PROVE  ListGrants(next, p, ports) <=>
                                \/ ListGrants(list, p, ports)
                                \/ p = Single(record.address) /\ ports = wholePortRange
            OBVIOUS
        <3>1. ListGrants(next, p, ports) <=>
                  \/ \E i \in DOMAIN list : EntryGrants(next[i].entries, p, ports)
                  \/ EntryGrants(next[N + 1].entries, p, ports)
            BY <2>6, Zenon DEF ListGrants
        <3>2. (\E i \in DOMAIN list : EntryGrants(next[i].entries, p, ports))
                  <=> ListGrants(list, p, ports)
            BY <2>5, Zenon DEF ListGrants
        <3> QED
            BY <2>3, <2>4, <2>5, <3>1, <3>2
    <2> QED
        BY <2>5, <2>8, <2>9, <2>10, <2>11 DEF next
<1>5. CASE same # {}
    <2>1. PICK k : k \in DOMAIN list /\ list[k].id = record.id
        BY <1>5
    <2>2. \A i \in DOMAIN list : list[i].id = record.id <=> i = k
        BY <2>1 DEF DistinctIds
    <2>3. same = {k} /\ k \in Int
        BY <1>1, <2>1, <2>2
    <2>4. Max(same) = k
        BY <2>3, MaxOfOne
    <2> DEFINE es == list[k].entries
               joined == Joined(es, record)
    <2>5. next = [list EXCEPT ![k].entries = joined]
        BY <1>5, <2>4 DEF ApplyRecord, Joined
    <2>6. es \in Seq(Entries)
        BY <1>2, <2>1
    <2> HIDE DEF es, same
    <2>7. /\ joined \in Seq(Entries)
          /\ \A name, ports :
                 EntryNames(joined, name, ports) <=>
                     \/ EntryNames(es, name, ports)
                     \/ /\ name = record.domain /\ ports = wholePortRange
                        /\ \A q : ~EntryNames(es, record.domain, q)
          /\ \A p, ports :
                 EntryGrants(joined, p, ports) <=>
                     \/ EntryGrants(es, p, ports)
                     \/ p = Single(record.address) /\ EntryNames(joined, record.domain, ports)
        BY <2>6, JoinedEntries
    <2> HIDE DEF joined
    <2>8. /\ next \in ResourceLists /\ DOMAIN next = DOMAIN list
          /\ \A i \in DOMAIN list : next[i].id = list[i].id
          /\ \A i \in DOMAIN list : i # k => next[i] = list[i]
          /\ next[k].entries = joined
        <3> DEFINE r == [list[k] EXCEPT !.entries = joined]
        <3>1. r \in R /\ r.id = list[k].id /\ r.entries = joined
            BY <1>1, <2>1, <2>7
        <3>2. next = [list EXCEPT ![k] = r]
            BY <2>5
        <3> HIDE DEF r, R
        <3>3. next = [i \in 1..N |-> IF i = k THEN r ELSE list[i]]
            BY <1>1, <2>1, <3>2
        <3>4. next \in [1..N -> R]
            BY <1>1, <3>1, <3>3
        <3>5. next \in Seq(R)
            BY <1>1, <3>4
        <3>6. DOMAIN next = DOMAIN list /\ \A i \in DOMAIN list : next[i] = IF i = k THEN r ELSE list[i]
            BY <1>1, <3>3
        <3> QED
            BY <2>1, <3>1, <3>5, <3>6 DEF ResourceLists, R
    <2> HIDE DEF next
    <2>9. DistinctIds(next)
        BY <2>8 DEF DistinctIds
    <2>10. \A name, q : ListNames(list, record.id, name, q) <=> EntryNames(es, name, q)
        BY <2>1, <2>2 DEF ListNames, es
    <2>11. \A name, q : ListNames(next, record.id, name, q) <=> EntryNames(joined, name, q)
        BY <2>1, <2>2, <2>8 DEF ListNames
    <2>12. \A id, name, q : id # record.id =>
               (ListNames(next, id, name, q) <=> ListNames(list, id, name, q))
        BY <2>1, <2>8 DEF ListNames
    <2>13. \A id, name, ports :
               ListNames(next, id, name, ports) <=>
                   \/ ListNames(list, id, name, ports)
                   \/ /\ id = record.id /\ name = record.domain /\ ports = wholePortRange
                      /\ \A q : ~ListNames(list, record.id, record.domain, q)
        <3> SUFFICES ASSUME NEW id, NEW name, NEW ports
                     PROVE  ListNames(next, id, name, ports) <=>
                   \/ ListNames(list, id, name, ports)
                   \/ /\ id = record.id /\ name = record.domain /\ ports = wholePortRange
                      /\ \A q : ~ListNames(list, record.id, record.domain, q)
            OBVIOUS
        <3>1. CASE id = record.id
            BY <2>7, <2>10, <2>11, <3>1
        <3>2. CASE id # record.id
            BY <2>12, <3>2
        <3> QED
            BY <3>1, <3>2
    <2>14. \A p, ports : ListGrants(next, p, ports) <=>
               \/ ListGrants(list, p, ports)
               \/ p = Single(record.address) /\ ListNames(next, record.id, record.domain, ports)
        <3> SUFFICES ASSUME NEW p, NEW ports
                     PROVE  ListGrants(next, p, ports) <=>
                                \/ ListGrants(list, p, ports)
                                \/ /\ p = Single(record.address)
                                   /\ EntryNames(joined, record.domain, ports)
            BY <2>11
        <3>1. ListGrants(next, p, ports) <=>
                  \/ \E i \in DOMAIN list : i # k /\ EntryGrants(list[i].entries, p, ports)
                  \/ EntryGrants(joined, p, ports)
            BY <2>1, <2>8 DEF ListGrants
        <3>2. ListGrants(list, p, ports) <=>
                  \/ \E i \in DOMAIN list : i # k /\ EntryGrants(list[i].entries, p, ports)
                  \/ EntryGrants(es, p, ports)
            BY <2>1 DEF ListGrants, es
        <3> QED
            BY <2>7, <3>1, <3>2
    <2> QED
        BY <2>8, <2>9, <2>13, <2>14 DEF next
<1> QED
    BY <1>4, <1>5

(* The ports on which a record's address is granted. *)
PortsFor(list, record, ports) ==
    \/ ListNames(list, record.id, record.domain, ports)
    \/ ports = wholePortRange /\ \A q : ~ListNames(list, record.id, record.domain, q)

(* applyDNSHosts grants what the list granted, and each address of a       *)
(* record: the records before it change neither which entries it names nor *)
(* their ports.                                                            *)
LEMMA ApplyDNSHostsIs ==
    ASSUME NEW list \in ResourceLists, DistinctIds(list), NEW recordList \in Seq(HostRecord)
    PROVE  LET final == applyDNSHosts(list, recordList)
           IN  /\ final \in ResourceLists
               /\ \A p, ports :
                      ListGrants(final, p, ports) <=>
                          \/ ListGrants(list, p, ports)
                          \/ \E r \in Range(recordList) :
                                 p = Single(r.address) /\ PortsFor(list, r, ports)
<1> DEFINE after == ApplyRecords(list, recordList)
           N == Len(recordList)
           New(id, name, n) ==
               /\ \A q : ~ListNames(list, id, name, q)
               /\ \E k \in 1..n : recordList[k].id = id /\ recordList[k].domain = name
           Added(p, ports, n) ==
               \E k \in 1..n : p = Single(recordList[k].address) /\ PortsFor(list, recordList[k], ports)
           Names2(now, n) ==
               \A id, name, ports : ListNames(now, id, name, ports) <=>
                   ListNames(list, id, name, ports) \/ (ports = wholePortRange /\ New(id, name, n))
           Grants2(now, n) ==
               \A p, ports : ListGrants(now, p, ports) <=> ListGrants(list, p, ports) \/ Added(p, ports, n)
           Good(now, n) ==
               now \in ResourceLists /\ DistinctIds(now) /\ Names2(now, n) /\ Grants2(now, n)
           S == {n \in Nat : n <= N => Good(after[n], n)}
<1>1. N \in Nat /\ DOMAIN recordList = 1..N /\ \A n \in 1..N : recordList[n] \in HostRecord
    <2> HIDE DEF HostRecord
    <2> QED
        OBVIOUS
<1>2. after[0] = list /\ \A n \in 0..(N - 1) : after[n + 1] = ApplyRecord(after[n], recordList[n + 1])
    BY <1>1, ApplyRecordsIs
<1> HIDE DEF after
<1>3. 0 \in S
    <2>1. \A k : k \notin 1..0
        OBVIOUS
    <2>2. \A id, name, p, ports : ~New(id, name, 0) /\ ~Added(p, ports, 0)
        BY <2>1
    <2>3. Good(list, 0)
        <3> HIDE DEF New, Added
        <3> QED
            BY <2>2
    <2> QED
        <3> HIDE DEF Good
        <3> QED
            BY <1>2, <2>3
<1>4. ASSUME NEW n \in Nat, n \in S PROVE n + 1 \in S
    <2> SUFFICES ASSUME n + 1 <= N PROVE Good(after[n + 1], n + 1)
        OBVIOUS
    <2> DEFINE now == after[n]
               next == after[n + 1]
               r == recordList[n + 1]
    <2>1. n <= N /\ n \in 0..(N - 1) /\ n + 1 \in 1..N
        BY <1>1
    <2>2. Good(now, n)
        <3> HIDE DEF Good
        <3> QED
            BY <1>4, <2>1
    <2>3. next = ApplyRecord(now, r) /\ r \in HostRecord
        BY <1>1, <1>2, <2>1
    <2>4. \A k : k \in 1..(n + 1) <=> k \in 1..n \/ k = n + 1
        OBVIOUS
    <2>5. \A id, name : New(id, name, n + 1) <=>
              \/ New(id, name, n)
              \/ id = r.id /\ name = r.domain /\ \A q : ~ListNames(list, id, name, q)
        BY <2>4, Zenon
    <2>6. \A p, ports : Added(p, ports, n + 1) <=>
              Added(p, ports, n) \/ (p = Single(r.address) /\ PortsFor(list, r, ports))
        BY <2>4, Zenon
    <2> HIDE DEF now, next, r, New, Added
    <2>7. /\ next \in ResourceLists /\ DistinctIds(next)
          /\ \A id, name, ports :
                 ListNames(next, id, name, ports) <=>
                     \/ ListNames(now, id, name, ports)
                     \/ /\ id = r.id /\ name = r.domain /\ ports = wholePortRange
                        /\ \A q : ~ListNames(now, r.id, r.domain, q)
          /\ \A p, ports :
                 ListGrants(next, p, ports) <=>
                     \/ ListGrants(now, p, ports)
                     \/ p = Single(r.address) /\ ListNames(next, r.id, r.domain, ports)
        BY <2>2, <2>3, ApplyRecordIs
    <2>8. \A id, name : New(id, name, n) => \A q : ~ListNames(list, id, name, q)
        BY DEF New
    <2>9. Names2(next, n + 1)
        <3> SUFFICES ASSUME NEW id, NEW name, NEW ports
                     PROVE  ListNames(next, id, name, ports) <=>
                                \/ ListNames(list, id, name, ports)
                                \/ ports = wholePortRange /\ New(id, name, n + 1)
            OBVIOUS
        <3>1. \A q : ListNames(now, id, name, q) <=>
                  ListNames(list, id, name, q) \/ (q = wholePortRange /\ New(id, name, n))
            BY <2>2
        <3>2. CASE id = r.id /\ name = r.domain
            <4>1. ListNames(next, id, name, ports) <=>
                      \/ ListNames(now, id, name, ports)
                      \/ ports = wholePortRange /\ \A q : ~ListNames(now, id, name, q)
                BY <2>7, <3>2
            <4>2. New(id, name, n + 1) <=> \A q : ~ListNames(list, id, name, q)
                BY <2>5, <2>8, <3>2
            <4>3. (\A q : ~ListNames(now, id, name, q)) <=>
                      ~New(id, name, n) /\ \A q : ~ListNames(list, id, name, q)
                BY <3>1
            <4> QED
                BY <2>8, <3>1, <4>1, <4>2, <4>3
        <3>3. CASE ~(id = r.id /\ name = r.domain)
            <4>1. ListNames(next, id, name, ports) <=> ListNames(now, id, name, ports)
                BY <2>7, <3>3
            <4>2. New(id, name, n + 1) <=> New(id, name, n)
                BY <2>5, <3>3
            <4> QED
                BY <3>1, <4>1, <4>2
        <3> QED
            BY <3>2, <3>3
    <2>10. \A ports : ListNames(next, r.id, r.domain, ports) <=> PortsFor(list, r, ports)
        <3>1. New(r.id, r.domain, n + 1) <=> \A q : ~ListNames(list, r.id, r.domain, q)
            BY <2>5, <2>8
        <3> QED
            BY <2>9, <3>1 DEF PortsFor
    <2>11. Grants2(next, n + 1)
        <3> HIDE DEF Names2
        <3> QED
            BY <2>2, <2>6, <2>7, <2>10
    <2>12. Good(next, n + 1)
        <3> HIDE DEF Names2, Grants2
        <3> QED
            BY <2>7, <2>9, <2>11
    <2> QED
        <3> HIDE DEF Good
        <3> QED
            BY <2>12 DEF next
<1>5. Good(after[N], N)
    <2> HIDE DEF Good
    <2>1. \A n \in Nat : n \in S
        <3> HIDE DEF S
        <3> QED
            BY <1>3, <1>4, Induction
    <2>2. N <= N
        BY <1>1
    <2> QED
        BY <1>1, <2>1, <2>2
<1> DEFINE final == applyDNSHosts(list, recordList)
<1>6. final = after[N]
    BY DEF applyDNSHosts, after
<1>7. \A p, ports : Added(p, ports, N) <=>
          \E r \in Range(recordList) : p = Single(r.address) /\ PortsFor(list, r, ports)
    <2> SUFFICES ASSUME NEW p, NEW ports
                 PROVE  Added(p, ports, N) <=>
                            \E r \in Range(recordList) :
                                p = Single(r.address) /\ PortsFor(list, r, ports)
        OBVIOUS
    <2>1. \A r : r \in Range(recordList) <=> \E k \in 1..N : r = recordList[k]
        BY <1>1, Zenon DEF Range
    <2> QED
        BY <2>1, Zenon
<1> HIDE DEF final, Added, Names2
<1>8. final \in ResourceLists /\ Grants2(final, N)
    <2> HIDE DEF Grants2
    <2> QED
        BY <1>5, <1>6
<1> QED
    BY <1>7, <1>8 DEF final
-----------------------------------------------------------------------------
(* authenticate: what is read of the documents. *)

(* What a host attribute gives. *)
LEMMA ParsedHost ==
    ASSUME NEW host \in AllHosts
    PROVE  LET parsed == parseResourceHost(host)
           IN  /\ parsed.domain \in [name : Nat, canonical : BOOLEAN]
               /\ parsed.prefixes \in Seq(CleanPrefixes)
               /\ \A x : (\E p \in Range(parsed.prefixes) : x \in Block(p)) <=> Covers(host, x)
               /\ \A name \in Nat \ {0} : parsed.domain.name = name <=>
                      host.kind = "domain" /\ host.domain.name = name
<1> DEFINE parsed == parseResourceHost(host)
<1>1. NoDomain \in [name : Nat, canonical : BOOLEAN] /\ NoDomain.name = 0
    BY DEF NoDomain
<1>2. CASE host \in [kind : {"range"}, from : Addresses4, to : Addresses4]
    <2> DEFINE all == addressRangePrefixes(host.from, host.to)
    <2>1. host.kind = "range" /\ host.from \in Addresses4 /\ host.to \in Addresses4
        BY <1>2
    <2>2. /\ all \in Seq(Aligned)
          /\ \A x : (\E p \in Range(all) : x \in Block(p)) <=> x \in host.from..host.to
        BY <2>1, RangeIs
    <2> HIDE DEF all
    <2>3. all \in Seq(CleanPrefixes)
        BY <2>2 DEF CleanPrefixes
    <2>4. parsed = [domain |-> NoDomain, prefixes |-> all]
        BY <2>1 DEF parseResourceHost, all
    <2>5. parsed.domain = NoDomain /\ parsed.prefixes = all
        BY <2>4
    <2>6. \A x : Covers(host, x) <=> x \in host.from..host.to
        BY <2>1 DEF Covers
    <2> HIDE DEF parsed
    <2> QED
        BY <1>1, <2>1, <2>2, <2>3, <2>5, <2>6 DEF parsed
<1>3. CASE host \in [kind : {"address"}, address : Addresses]
    <2> DEFINE p == Single(host.address)
    <2>1. host.kind = "address" /\ host.address \in Addresses
        BY <1>3
    <2>2. p \in CleanPrefixes /\ Block(p) = {host.address}
        BY <2>1, SingleIsClean, SingleBlock
    <2>3. parsed = [domain |-> NoDomain, prefixes |-> <<p>>]
        BY <2>1 DEF parseResourceHost
    <2> HIDE DEF p
    <2>4. <<p>> \in Seq(CleanPrefixes) /\ Range(<<p>>) = {p}
        BY <2>2 DEF Range
    <2>5. parsed.domain = NoDomain /\ parsed.prefixes = <<p>>
        BY <2>3
    <2>6. \A x : Covers(host, x) <=> x = host.address
        BY <2>1 DEF Covers
    <2> HIDE DEF parsed
    <2> QED
        BY <1>1, <2>1, <2>2, <2>4, <2>5, <2>6 DEF parsed
<1>4. CASE host \in [kind : {"domain"}, domain : [name : Nat \ {0}, canonical : BOOLEAN]]
    <2>1. host.kind = "domain" /\ host.domain \in [name : Nat \ {0}, canonical : BOOLEAN]
        BY <1>4
    <2>2. parsed = [domain |-> host.domain, prefixes |-> <<>>]
        BY <2>1 DEF parseResourceHost
    <2>3. <<>> \in Seq(CleanPrefixes) /\ Range(<<>>) = {}
        BY DEF Range
    <2>4. parsed.domain = host.domain /\ parsed.prefixes = <<>>
        BY <2>2
    <2>5. \A x : ~Covers(host, x)
        BY <2>1 DEF Covers
    <2> HIDE DEF parsed
    <2> QED
        BY <2>1, <2>3, <2>4, <2>5 DEF parsed
<1>5. CASE host \in [kind : {"junk"}]
    <2>1. host.kind = "junk"
        BY <1>5
    <2>2. parsed = [domain |-> NoDomain, prefixes |-> <<>>]
        BY <2>1 DEF parseResourceHost
    <2>3. <<>> \in Seq(CleanPrefixes) /\ Range(<<>>) = {}
        BY DEF Range
    <2>4. parsed.domain = NoDomain /\ parsed.prefixes = <<>>
        BY <2>2
    <2>5. \A x : ~Covers(host, x)
        BY <2>1 DEF Covers
    <2> HIDE DEF parsed
    <2> QED
        BY <1>1, <2>1, <2>3, <2>4, <2>5 DEF parsed
<1> QED
    BY <1>2, <1>3, <1>4, <1>5 DEF AllHosts

Rcs == [id : Ids, hosts : Seq(AllHosts), ports : Seq(Ports)]

(* A port attribute is read for what it allows. *)
LEMMA ParsedPorts ==
    ASSUME NEW rc \in Rcs, NEW i \in DOMAIN rc.hosts
    PROVE  LET range == parsePortRange(rc, i)
           IN  /\ range \in Ports
               /\ \A port \in 0..MaxPort :
                      (port = 0 \/ port \in range.start..range.end) <=> Allows(rc, i, port)
<1> DEFINE range == parsePortRange(rc, i)
           text == rc.ports[i]
<1>1. rc.ports \in Seq(Ports) /\ rc.hosts \in Seq(AllHosts)
    BY DEF Rcs
<1>2. i \in Nat \ {0}
    <2> HIDE DEF AllHosts
    <2> QED
        BY <1>1
<1>3. i \in DOMAIN rc.ports <=> ~(i > Len(rc.ports))
    BY <1>1, <1>2
<1>4. MaxPort \in Nat \ {0} /\ wholePortRange = [start |-> 1, end |-> MaxPort]
    BY ResourcesAssumption DEF wholePortRange
<1>5. CASE i \notin DOMAIN rc.ports
    <2>1. range = wholePortRange
        BY <1>3, <1>5 DEF parsePortRange
    <2>2. wholePortRange.start = 1 /\ wholePortRange.end = MaxPort /\ wholePortRange \in Ports
        BY <1>4 DEF Ports
    <2>3. \A port \in 0..MaxPort : Allows(rc, i, port)
        BY <1>5 DEF Allows
    <2>4. \A port \in 0..MaxPort : port = 0 \/ port \in 1..MaxPort
        BY <1>4
    <2> HIDE DEF range
    <2> QED
        BY <2>1, <2>2, <2>3, <2>4 DEF range
<1>6. CASE i \in DOMAIN rc.ports
    <2>1. text \in Ports
        BY <1>1, <1>6
    <2>2. text.start \in Nat /\ text.end \in Nat
        BY <2>1 DEF Ports
    <2>3. \A port : Allows(rc, i, port) <=>
              port = 0 \/ port \in text.start..text.end \/ text.start = 0 \/ text.start > text.end
        BY <1>6 DEF Allows
    <2>4. range = IF text.start = 0 \/ text.end < text.start THEN wholePortRange ELSE text
        BY <1>3, <1>6 DEF parsePortRange
    <2>5. CASE text.start = 0 \/ text.end < text.start
        <3>1. range = wholePortRange
            BY <2>4, <2>5
        <3>2. wholePortRange.start = 1 /\ wholePortRange.end = MaxPort /\ wholePortRange \in Ports
            BY <1>4 DEF Ports
        <3>3. \A port \in 0..MaxPort : Allows(rc, i, port)
            BY <2>2, <2>3, <2>5
        <3>4. \A port \in 0..MaxPort : port = 0 \/ port \in 1..MaxPort
            BY <1>4
        <3> HIDE DEF range
        <3> QED
            BY <3>1, <3>2, <3>3, <3>4 DEF range
    <2>6. CASE ~(text.start = 0 \/ text.end < text.start)
        <3>1. range = text
            BY <2>4, <2>6
        <3>2. ~(text.start > text.end)
            BY <2>2, <2>6
        <3>3. \A port : Allows(rc, i, port) <=> port = 0 \/ port \in text.start..text.end
            BY <2>3, <2>6, <3>2
        <3> HIDE DEF range, text
        <3> QED
            BY <2>1, <3>1, <3>3 DEF range
    <2> QED
        BY <2>5, <2>6
<1> QED
    BY <1>5, <1>6

Parsed(rc, j) == parseResourceHost(rc.hosts[j])

(* The entries of a resource. *)
LEMMA ParsedEntries ==
    ASSUME NEW rc \in Rcs
    PROVE  LET entries == ParseEntries(rc)
           IN  /\ entries \in Seq(Entries)
               /\ \A ports : \A name \in Nat \ {0} : EntryNames(entries, name, ports) <=>
                      \E j \in DOMAIN rc.hosts : /\ Parsed(rc, j).domain.name = name
                                                 /\ parsePortRange(rc, j) = ports
               /\ \A p, ports : EntryGrants(entries, p, ports) <=>
                      \E j \in DOMAIN rc.hosts : /\ p \in Range(Parsed(rc, j).prefixes)
                                                 /\ parsePortRange(rc, j) = ports
<1> DEFINE entry(j) == [domain |-> Parsed(rc, j).domain, prefixes |-> Parsed(rc, j).prefixes,
                        ports |-> parsePortRange(rc, j)]
           all == [j \in DOMAIN rc.hosts |-> entry(j)]
           K == {e \in Entries : e.domain # NoDomain \/ e.prefixes # <<>>}
           R == Entries \X Entries
           entries == ParseEntries(rc)
<1>1. /\ rc.hosts \in Seq(AllHosts) /\ Len(rc.hosts) \in Nat
      /\ DOMAIN rc.hosts = 1..Len(rc.hosts)
      /\ \A j \in DOMAIN rc.hosts : rc.hosts[j] \in AllHosts
    <2>1. rc.hosts \in Seq(AllHosts)
        BY DEF Rcs
    <2> HIDE DEF AllHosts
    <2> QED
        BY <2>1
<1>2. \A j \in DOMAIN rc.hosts :
          /\ entry(j) \in Entries
          /\ entry(j).domain = Parsed(rc, j).domain
          /\ entry(j).prefixes = Parsed(rc, j).prefixes
          /\ entry(j).ports = parsePortRange(rc, j)
    <2> SUFFICES ASSUME NEW j \in DOMAIN rc.hosts
                 PROVE  /\ entry(j) \in Entries
                        /\ entry(j).domain = Parsed(rc, j).domain
                        /\ entry(j).prefixes = Parsed(rc, j).prefixes
                        /\ entry(j).ports = parsePortRange(rc, j)
        OBVIOUS
    <2>1. /\ Parsed(rc, j).domain \in [name : Nat, canonical : BOOLEAN]
          /\ Parsed(rc, j).prefixes \in Seq(CleanPrefixes)
        BY <1>1, ParsedHost DEF Parsed
    <2>2. parsePortRange(rc, j) \in Ports
        BY ParsedPorts
    <2> QED
        BY <2>1, <2>2 DEF Entries
<1>3. \A j \in DOMAIN rc.hosts : all[j] = entry(j)
    OBVIOUS
<1>4. DOMAIN all = DOMAIN rc.hosts
    OBVIOUS
<1>5. entries = FlattenSeq([j \in DOMAIN all |->
                    IF all[j].domain # NoDomain \/ all[j].prefixes # <<>> THEN <<all[j]>> ELSE <<>>])
    BY DEF ParseEntries, Where, Parsed
<1> HIDE DEF entry, entries
<1>6. all \in Seq(Entries)
    <2>1. all \in [1..Len(rc.hosts) -> Entries]
        BY <1>1, <1>2
    <2> QED
        BY <1>1, <2>1
<1> HIDE DEF all
<1>7. entries = Kept(all, K)
    <2>1. \A j \in DOMAIN all : all[j] \in K <=> all[j].domain # NoDomain \/ all[j].prefixes # <<>>
        BY <1>2, <1>3, <1>4
    <2> HIDE DEF K
    <2>2. [j \in DOMAIN all |-> IF all[j] \in K THEN <<all[j]>> ELSE <<>>] =
              [j \in DOMAIN all |->
                  IF all[j].domain # NoDomain \/ all[j].prefixes # <<>> THEN <<all[j]>> ELSE <<>>]
        BY <2>1
    <2> QED
        BY <1>5, <2>2 DEF Kept
<1>8. /\ entries \in Seq(Entries)
      /\ \A x : x \in Range(entries) <=> x \in Range(all) /\ x \in K
    <2>1. \A a, b \in DOMAIN all : a < b => <<all[a], all[b]>> \in R
        BY <1>2, <1>3, <1>4
    <2> HIDE DEF R, K
    <2> DEFINE w == Kept(all, K)
    <2>2. w \in Seq(Entries) /\ \A x : x \in Range(w) <=> x \in Range(all) /\ x \in K
        BY <1>6, <2>1, KeptIs
    <2> QED
        BY <1>7, <2>2
<1>9. \A x : x \in Range(entries) <=>
          \E j \in DOMAIN rc.hosts : x = entry(j) /\ x \in K
    BY <1>3, <1>4, <1>8 DEF Range
<1> HIDE DEF K
<1>10. \A ports : \A name \in Nat \ {0} : EntryNames(entries, name, ports) <=>
           \E j \in DOMAIN rc.hosts : /\ Parsed(rc, j).domain.name = name
                                      /\ parsePortRange(rc, j) = ports
    <2> SUFFICES ASSUME NEW name \in Nat \ {0}, NEW ports
                 PROVE  EntryNames(entries, name, ports) <=>
                            \E j \in DOMAIN rc.hosts : /\ Parsed(rc, j).domain.name = name
                                                       /\ parsePortRange(rc, j) = ports
        OBVIOUS
    <2>1. EntryNames(entries, name, ports) <=>
              \E e \in Range(entries) : e.domain.name = name /\ e.ports = ports
        BY DEF EntryNames, Range
    <2>2. \A j \in DOMAIN rc.hosts : entry(j).domain.name = name => entry(j) \in K
        BY <1>2 DEF K, NoDomain
    <2> QED
        BY <1>2, <1>9, <2>1, <2>2
<1>11. \A p, ports : EntryGrants(entries, p, ports) <=>
           \E j \in DOMAIN rc.hosts : /\ p \in Range(Parsed(rc, j).prefixes)
                                      /\ parsePortRange(rc, j) = ports
    <2> SUFFICES ASSUME NEW p, NEW ports
                 PROVE  EntryGrants(entries, p, ports) <=>
                            \E j \in DOMAIN rc.hosts : /\ p \in Range(Parsed(rc, j).prefixes)
                                                       /\ parsePortRange(rc, j) = ports
        OBVIOUS
    <2>1. EntryGrants(entries, p, ports) <=>
              \E e \in Range(entries) : p \in Range(e.prefixes) /\ e.ports = ports
        BY DEF EntryGrants, Range
    <2>2. \A j \in DOMAIN rc.hosts : p \in Range(entry(j).prefixes) => entry(j) \in K
        <3>1. p \notin Range(<<>>)
            BY DEF Range
        <3> QED
            BY <1>2, <3>1 DEF K
    <2> QED
        BY <1>2, <1>9, <2>1, <2>2
<1> QED
    BY <1>8, <1>10, <1>11 DEF entries

(* The resources of a list, none of which has the number of another. *)
LEMMA ParsedList ==
    ASSUME NEW rcList \in Seq(Rcs), DistinctIds(rcList)
    PROVE  LET list == parseResourceList(rcList)
           IN  /\ list \in ResourceLists
               /\ DistinctIds(list)
               /\ \A id, ports : \A name \in Nat \ {0} : ListNames(list, id, name, ports) <=>
                      \E i \in DOMAIN rcList : \E j \in DOMAIN rcList[i].hosts :
                          /\ rcList[i].id = id /\ Parsed(rcList[i], j).domain.name = name
                          /\ parsePortRange(rcList[i], j) = ports
               /\ \A p, ports : ListGrants(list, p, ports) <=>
                      \E i \in DOMAIN rcList : \E j \in DOMAIN rcList[i].hosts :
                          /\ p \in Range(Parsed(rcList[i], j).prefixes)
                          /\ parsePortRange(rcList[i], j) = ports
<1> DEFINE T == [id : Ids, entries : Seq(Entries)]
           resource(i) == [id |-> rcList[i].id, entries |-> ParseEntries(rcList[i])]
           all == [i \in DOMAIN rcList |-> resource(i)]
           K == {r \in T : r.entries # <<>>}
           R == {rr \in T \X T : rr[1].id # rr[2].id}
           list == parseResourceList(rcList)
<1>1. /\ Len(rcList) \in Nat /\ DOMAIN rcList = 1..Len(rcList)
      /\ \A i \in DOMAIN rcList : rcList[i] \in Rcs
    <2> HIDE DEF Rcs
    <2> QED
        OBVIOUS
<1>2. \A i \in DOMAIN rcList :
          /\ resource(i) \in T /\ resource(i).id = rcList[i].id
          /\ resource(i).entries = ParseEntries(rcList[i])
    <2> SUFFICES ASSUME NEW i \in DOMAIN rcList
                 PROVE  /\ resource(i) \in T /\ resource(i).id = rcList[i].id
                        /\ resource(i).entries = ParseEntries(rcList[i])
        OBVIOUS
    <2>1. rcList[i].id \in Ids
        BY <1>1 DEF Rcs
    <2>2. ParseEntries(rcList[i]) \in Seq(Entries)
        BY <1>1, ParsedEntries
    <2> QED
        BY <2>1, <2>2
<1>3. DOMAIN all = DOMAIN rcList /\ \A i \in DOMAIN rcList : all[i] = resource(i)
    OBVIOUS
<1>4. list = FlattenSeq([i \in DOMAIN all |-> IF all[i].entries # <<>> THEN <<all[i]>> ELSE <<>>])
    BY DEF parseResourceList, Where
<1> HIDE DEF resource, list, T
<1>5. all \in Seq(T)
    <2>1. all \in [1..Len(rcList) -> T]
        BY <1>1, <1>2
    <2> QED
        BY <1>1, <2>1
<1> HIDE DEF all
<1>6. list = Kept(all, K)
    <2>1. \A i \in DOMAIN all : all[i] \in K <=> all[i].entries # <<>>
        BY <1>2, <1>3
    <2> HIDE DEF K
    <2>2. [i \in DOMAIN all |-> IF all[i] \in K THEN <<all[i]>> ELSE <<>>] =
              [i \in DOMAIN all |-> IF all[i].entries # <<>> THEN <<all[i]>> ELSE <<>>]
        BY <2>1
    <2> QED
        BY <1>4, <2>2 DEF Kept
<1>7. /\ list \in Seq(T)
      /\ \A x : x \in Range(list) <=> x \in Range(all) /\ x \in K
      /\ \A a, b \in DOMAIN list : a < b => <<list[a], list[b]>> \in R
    <2>1. ASSUME NEW a \in DOMAIN all, NEW b \in DOMAIN all, a < b PROVE <<all[a], all[b]>> \in R
        <3>1. a # b
            BY <1>1, <1>3, <2>1
        <3>2. rcList[a].id # rcList[b].id
            BY <1>3, <3>1 DEF DistinctIds
        <3> QED
            BY <1>2, <1>3, <3>2
    <2> HIDE DEF R, K
    <2> DEFINE w == Kept(all, K)
    <2>2. /\ w \in Seq(T)
          /\ \A x : x \in Range(w) <=> x \in Range(all) /\ x \in K
          /\ \A a, b \in DOMAIN w : a < b => <<w[a], w[b]>> \in R
        BY <1>5, <2>1, KeptIs
    <2> QED
        BY <1>6, <2>2
<1>8. list \in ResourceLists
    BY <1>7 DEF ResourceLists, T
<1>9. DistinctIds(list)
    <2> SUFFICES ASSUME NEW a \in DOMAIN list, NEW b \in DOMAIN list, a # b
                 PROVE  list[a].id # list[b].id
        BY DEF DistinctIds
    <2>1. a \in Nat /\ b \in Nat
        BY <1>7
    <2>2. \A x, y : <<x, y>> \in R => x.id # y.id
        OBVIOUS
    <2> HIDE DEF R
    <2>3. CASE a < b
        <3>1. <<list[a], list[b]>> \in R
            BY <1>7, <2>3
        <3> QED
            BY <2>2, <3>1
    <2>4. CASE b < a
        <3>1. <<list[b], list[a]>> \in R
            BY <1>7, <2>4
        <3>2. list[b].id # list[a].id
            BY <2>2, <3>1
        <3> QED
            BY <3>2
    <2> QED
        BY <2>1, <2>3, <2>4
<1>10. \A x : x \in Range(list) <=> \E i \in DOMAIN rcList : x = resource(i) /\ x \in K
    BY <1>3, <1>7 DEF Range
<1> HIDE DEF K
<1>11. \A id, ports : \A name \in Nat \ {0} : ListNames(list, id, name, ports) <=>
           \E i \in DOMAIN rcList : \E j \in DOMAIN rcList[i].hosts :
               /\ rcList[i].id = id /\ Parsed(rcList[i], j).domain.name = name
               /\ parsePortRange(rcList[i], j) = ports
    <2> SUFFICES ASSUME NEW id, NEW name \in Nat \ {0}, NEW ports
                 PROVE  ListNames(list, id, name, ports) <=>
                            \E i \in DOMAIN rcList : \E j \in DOMAIN rcList[i].hosts :
                                /\ rcList[i].id = id /\ Parsed(rcList[i], j).domain.name = name
                                /\ parsePortRange(rcList[i], j) = ports
        OBVIOUS
    <2>1. ListNames(list, id, name, ports) <=>
              \E r \in Range(list) : r.id = id /\ EntryNames(r.entries, name, ports)
        BY DEF ListNames, Range
    <2>2. \A i \in DOMAIN rcList : EntryNames(resource(i).entries, name, ports) => resource(i) \in K
        <3>1. ~EntryNames(<<>>, name, ports)
            BY DEF EntryNames
        <3> QED
            BY <1>2, <3>1 DEF K
    <2>3. \A i \in DOMAIN rcList : EntryNames(resource(i).entries, name, ports) <=>
              \E j \in DOMAIN rcList[i].hosts : /\ Parsed(rcList[i], j).domain.name = name
                                                /\ parsePortRange(rcList[i], j) = ports
        BY <1>1, <1>2, ParsedEntries
    <2> QED
        BY <1>2, <1>10, <2>1, <2>2, <2>3
<1>12. \A p, ports : ListGrants(list, p, ports) <=>
           \E i \in DOMAIN rcList : \E j \in DOMAIN rcList[i].hosts :
               /\ p \in Range(Parsed(rcList[i], j).prefixes)
               /\ parsePortRange(rcList[i], j) = ports
    <2> SUFFICES ASSUME NEW p, NEW ports
                 PROVE  ListGrants(list, p, ports) <=>
                            \E i \in DOMAIN rcList : \E j \in DOMAIN rcList[i].hosts :
                                /\ p \in Range(Parsed(rcList[i], j).prefixes)
                                /\ parsePortRange(rcList[i], j) = ports
        OBVIOUS
    <2>1. ListGrants(list, p, ports) <=> \E r \in Range(list) : EntryGrants(r.entries, p, ports)
        BY DEF ListGrants, Range
    <2>2. \A i \in DOMAIN rcList : EntryGrants(resource(i).entries, p, ports) => resource(i) \in K
        <3>1. ~EntryGrants(<<>>, p, ports)
            BY DEF EntryGrants
        <3> QED
            BY <1>2, <3>1 DEF K
    <2>3. \A i \in DOMAIN rcList : EntryGrants(resource(i).entries, p, ports) <=>
              \E j \in DOMAIN rcList[i].hosts : /\ p \in Range(Parsed(rcList[i], j).prefixes)
                                                /\ parsePortRange(rcList[i], j) = ports
        BY <1>1, <1>2, ParsedEntries
    <2> QED
        BY <1>2, <1>10, <2>1, <2>2, <2>3
<1> QED
    BY <1>8, <1>9, <1>11, <1>12 DEF list

(* Where without an order to keep. *)
LEMMA KeptRange ==
    ASSUME NEW T, NEW s \in Seq(T), NEW K
    PROVE  Kept(s, K) \in Seq(T) /\ \A x : x \in Range(Kept(s, K)) <=> x \in Range(s) /\ x \in K
<1> DEFINE R == T \X T
<1>1. \A a, b \in DOMAIN s : a < b => <<s[a], s[b]>> \in R
    OBVIOUS
<1> HIDE DEF R
<1> QED
    BY <1>1, KeptIs

(* Specified drops the unspecified addresses only. *)
LEMMA SpecifiedIs ==
    ASSUME NEW addresses \in Seq(Addresses)
    PROVE  /\ Specified(addresses) \in Seq(Addresses)
           /\ \A x : x \in Range(Specified(addresses)) <=> x \in Range(addresses) /\ x # Unspecified
<1> DEFINE K == Addresses \ {Unspecified}
<1>1. \A i \in DOMAIN addresses : addresses[i] \in Addresses
    OBVIOUS
<1>2. [i \in DOMAIN addresses |-> IF addresses[i] # Unspecified THEN <<addresses[i]>> ELSE <<>>] =
          [i \in DOMAIN addresses |-> IF addresses[i] \in K THEN <<addresses[i]>> ELSE <<>>]
    BY <1>1
<1>3. Specified(addresses) = Kept(addresses, K)
    BY <1>2 DEF Specified, Where, Kept
<1>4. /\ Kept(addresses, K) \in Seq(Addresses)
      /\ \A x : x \in Range(Kept(addresses, K)) <=> x \in Range(addresses) /\ x \in K
    <2> HIDE DEF K
    <2> QED
        BY KeptRange
<1>5. \A x \in Range(addresses) : x \in Addresses
    BY <1>1 DEF Range
<1> QED
    BY <1>3, <1>4, <1>5

(* mergeAddresses loses only what is unspecified. *)
LEMMA MergeAddressesIs ==
    ASSUME NEW dst \in Seq(Addresses), NEW src \in Seq(Addresses)
    PROVE  /\ mergeAddresses(dst, src) \in Seq(Addresses)
           /\ \A x : x \in Range(mergeAddresses(dst, src)) <=>
                  x \in Range(dst) \/ (x \in Range(src) /\ x # Unspecified)
<1> DEFINE seen(i) == Range(dst) \cup {src[j] : j \in 1..(i - 1)}
           skip(i) == src[i] = Unspecified \/ src[i] \in seen(i)
           ss == [i \in DOMAIN src |-> IF skip(i) THEN <<>> ELSE <<src[i]>>]
           t == FlattenSeq(ss)
           N == Len(src)
           S == {n \in Nat : \A i \in 1..N : i <= n =>
                    src[i] = Unspecified \/ src[i] \in Range(dst) \/ src[i] \in Range(t)}
<1>1. N \in Nat /\ DOMAIN src = 1..N /\ \A i \in 1..N : src[i] \in Addresses
    OBVIOUS
<1>2. mergeAddresses(dst, src) = dst \o t
    BY DEF mergeAddresses
<1>3. DOMAIN ss = 1..N /\ \A i \in 1..N : ss[i] = IF skip(i) THEN <<>> ELSE <<src[i]>>
    BY <1>1
<1>4. ss = [i \in 1..N |-> ss[i]]
    BY <1>1
<1> HIDE DEF ss, skip
<1>5. ss \in Seq(Seq(Addresses))
    <2>1. \A i \in 1..N : ss[i] \in Seq(Addresses)
        <3> SUFFICES ASSUME NEW i \in 1..N PROVE ss[i] \in Seq(Addresses)
            OBVIOUS
        <3>1. src[i] \in Addresses
            BY <1>1
        <3>2. <<>> \in Seq(Addresses) /\ <<src[i]>> \in Seq(Addresses)
            BY <3>1
        <3> QED
            BY <1>3, <3>2
    <2>2. ss \in [1..N -> Seq(Addresses)]
        BY <1>4, <2>1
    <2> QED
        BY <1>1, <2>2
<1>6. t \in Seq(Addresses) /\ \A x : x \in Range(t) <=> \E i \in 1..N : x \in Range(ss[i])
    BY <1>3, <1>5, JoinedIs
<1>7. \A x : \A i \in 1..N : x \in Range(ss[i]) <=> x = src[i] /\ ~skip(i)
    <2> SUFFICES ASSUME NEW x, NEW i \in 1..N
                 PROVE  x \in Range(ss[i]) <=> x = src[i] /\ ~skip(i)
        OBVIOUS
    <2>1. Range(<<>>) = {} /\ Range(<<src[i]>>) = {src[i]}
        BY DEF Range
    <2> QED
        BY <1>3, <2>1
<1> HIDE DEF t
<1>8. 0 \in S
    OBVIOUS
<1>9. ASSUME NEW n \in Nat, n \in S PROVE n + 1 \in S
    <2> SUFFICES ASSUME NEW i \in 1..N, i <= n + 1, src[i] # Unspecified, src[i] \notin Range(dst)
                 PROVE  src[i] \in Range(t)
        OBVIOUS
    <2>1. CASE skip(i)
        <3>1. PICK j \in 1..(i - 1) : src[i] = src[j]
            BY <2>1 DEF skip
        <3>2. j \in 1..N /\ j <= n
            BY <1>1
        <3> QED
            BY <1>9, <3>1, <3>2
    <2>2. CASE ~skip(i)
        BY <1>6, <1>7, <2>2
    <2> QED
        BY <2>1, <2>2
<1>10. \A i \in 1..N : src[i] = Unspecified \/ src[i] \in Range(dst) \/ src[i] \in Range(t)
    <2>1. N \in S
        <3> HIDE DEF S
        <3> QED
            BY <1>1, <1>8, <1>9, Induction
    <2> QED
        BY <1>1, <2>1
<1>11. \A x \in Range(t) : x \in Range(src) /\ x # Unspecified
    <2> SUFFICES ASSUME NEW x \in Range(t) PROVE x \in Range(src) /\ x # Unspecified
        OBVIOUS
    <2>1. PICK i \in 1..N : x \in Range(ss[i])
        BY <1>6
    <2>2. x = src[i] /\ ~skip(i)
        BY <1>7, <2>1
    <2>3. x # Unspecified
        BY <2>2 DEF skip
    <2> QED
        BY <1>1, <2>2, <2>3 DEF Range
<1>12. \A x \in Range(src) : \E i \in 1..N : x = src[i]
    BY <1>1 DEF Range
<1>13. dst \o t \in Seq(Addresses) /\ Range(dst \o t) = Range(dst) \cup Range(t)
    BY <1>6, RangeConcat
<1> QED
    BY <1>2, <1>10, <1>11, <1>12, <1>13

(* The records that name an IPv4 address. *)
LEMMA ParsedRecords ==
    ASSUME NEW recordList \in Seq(HostRecord)
    PROVE  LET parsed == parseDNSHostRecords(recordList)
           IN  /\ parsed \in Seq(HostRecord)
               /\ \A r : r \in Range(parsed) <=>
                      r \in Range(recordList) /\ r.address \in Addresses4 \ {Unspecified}
<1> DEFINE T == HostRecord
           K == {r \in T : r.address \in Addresses4 \ {Unspecified}}
           parsed == parseDNSHostRecords(recordList)
<1> HIDE DEF T
<1>1. recordList \in Seq(T)
    BY DEF T
<1>2. \A i \in DOMAIN recordList : recordList[i] \in T
    BY <1>1
<1>3. [i \in DOMAIN recordList |->
          IF recordList[i].address \in Addresses4 \ {Unspecified} THEN <<recordList[i]>> ELSE <<>>] =
      [i \in DOMAIN recordList |-> IF recordList[i] \in K THEN <<recordList[i]>> ELSE <<>>]
    BY <1>2
<1>4. parsed = Kept(recordList, K)
    BY <1>3 DEF parseDNSHostRecords, Where, Kept
<1>5. /\ Kept(recordList, K) \in Seq(T)
      /\ \A x : x \in Range(Kept(recordList, K)) <=> x \in Range(recordList) /\ x \in K
    <2> HIDE DEF K
    <2> QED
        BY <1>1, KeptRange
<1>6. \A x \in Range(recordList) : x \in T
    BY <1>2 DEF Range
<1> HIDE DEF parsed
<1> QED
    BY <1>4, <1>5, <1>6 DEF T, parsed

(* The range of a sequence is finite. *)
LEMMA FiniteRange ==
    ASSUME NEW s, Len(s) \in Nat, DOMAIN s = 1..Len(s)
    PROVE  IsFiniteSet(Range(s))
<1>1. IsFiniteSet(1..Len(s))
    BY FS_Interval
<1> DEFINE f == [i \in 1..Len(s) |-> s[i]]
<1>2. f \in Surjection(1..Len(s), Range(s))
    BY DEF Surjection, Range
<1> HIDE DEF f
<1> QED
    BY <1>1, <1>2, FS_Surjection

(* The host table has the addresses of the records. *)
LEMMA CollectedHosts ==
    ASSUME NEW list \in Seq(HostRecord)
    PROVE  /\ IsFiniteSet(collectDNSHosts(list))
           /\ collectDNSHosts(list) \subseteq [domain : Nat, address : Addresses]
           /\ \A a : (\E h \in collectDNSHosts(list) : h.address = a) <=>
                         \E r \in Range(list) : r.address = a
<1> DEFINE table == collectDNSHosts(list)
           host(r) == [domain |-> r.domain, address |-> r.address]
           f == [r \in Range(list) |-> host(r)]
<1>1. table = {host(r) : r \in Range(list)}
    BY DEF collectDNSHosts
<1>2. Len(list) \in Nat /\ DOMAIN list = 1..Len(list) /\ \A r \in Range(list) : r \in HostRecord
    <2> HIDE DEF HostRecord
    <2> QED
        BY DEF Range
<1>3. IsFiniteSet(Range(list))
    BY <1>2, FiniteRange
<1>4. f \in Surjection(Range(list), table)
    BY <1>1 DEF Surjection
<1>5. IsFiniteSet(table)
    <2> HIDE DEF f, table
    <2> QED
        BY <1>3, <1>4, FS_Surjection
<1>6. table \subseteq [domain : Nat, address : Addresses]
    BY <1>1, <1>2 DEF HostRecord
<1>7. \A r \in Range(list) : host(r).address = r.address
    OBVIOUS
<1> HIDE DEF table, host
<1>8. \A a : (\E h \in table : h.address = a) <=> \E r \in Range(list) : r.address = a
    BY <1>1, <1>7
<1> QED
    BY <1>5, <1>6, <1>8 DEF table

(* Addresses are numbers. *)
LEMMA AddressesAreNat == Addresses \subseteq Nat
<1>1. 2^Width \in Nat
    BY WidthAssumption, PowerPositive
<1> QED
    BY <1>1 DEF Addresses, Addresses4, Address6

(* The addresses of the host table. *)
LEMMA HostAddressesIs ==
    ASSUME NEW table \in SUBSET [domain : Nat, address : Addresses], IsFiniteSet(table)
    PROVE  /\ HostAddresses(table) \in Seq(Addresses)
           /\ \A a : a \in Range(HostAddresses(table)) <=> \E h \in table : h.address = a
<1> DEFINE UpTo(k, h) == \/ k.domain < h.domain
                         \/ k.domain = h.domain /\ k.address <= h.address
           To(h) == {k \in table : UpTo(k, h)}
           upTo == [h \in table |-> To(h)]
           sorted == Sorted(table, upTo)
           N == Cardinality(table)
<1>1. \A h \in table : /\ h.domain \in Nat /\ h.address \in Nat /\ h.address \in Addresses
                       /\ h = [domain |-> h.domain, address |-> h.address]
    <2> SUFFICES ASSUME NEW h \in table
                 PROVE  /\ h.domain \in Nat /\ h.address \in Nat /\ h.address \in Addresses
                        /\ h = [domain |-> h.domain, address |-> h.address]
        OBVIOUS
    <2>1. h \in [domain : Nat, address : Addresses]
        OBVIOUS
    <2>2. h.domain \in Nat /\ h.address \in Addresses
        BY <2>1
    <2>3. h = [domain |-> h.domain, address |-> h.address]
        BY <2>1
    <2> QED
        BY <2>2, <2>3, AddressesAreNat
<1>2. HostAddresses(table) = [i \in DOMAIN sorted |-> sorted[i].address]
    BY DEF HostAddresses
<1>3. upTo \in [table -> SUBSET table] /\ \A h \in table : upTo[h] = To(h)
    OBVIOUS
<1>4. \A k, h \in table : k \in upTo[h] <=> UpTo(k, h)
    BY <1>3
<1> HIDE DEF upTo
<1>5. \A h \in table : h \in upTo[h]
    BY <1>1, <1>4
<1>6. \A x, y \in table : x \in upTo[y] => upTo[x] \subseteq upTo[y]
    <2> SUFFICES ASSUME NEW x \in table, NEW y \in table, x \in upTo[y], NEW k \in upTo[x]
                 PROVE  k \in upTo[y]
        OBVIOUS
    <2>1. k \in table
        BY <1>3
    <2>2. UpTo(k, x) /\ UpTo(x, y)
        <3> HIDE DEF UpTo
        <3> QED
            BY <1>4, <2>1
    <2>3. UpTo(k, y)
        BY <1>1, <2>1, <2>2
    <2> QED
        <3> HIDE DEF UpTo
        <3> QED
            BY <1>4, <2>1, <2>3
<1>7. \A x, y \in table : x \in upTo[y] \/ y \in upTo[x]
    <2> SUFFICES ASSUME NEW x \in table, NEW y \in table PROVE x \in upTo[y] \/ y \in upTo[x]
        OBVIOUS
    <2>1. UpTo(x, y) \/ UpTo(y, x)
        BY <1>1
    <2> QED
        <3> HIDE DEF UpTo
        <3> QED
            BY <1>4, <2>1
<1>8. \A x, y \in table : x \in upTo[y] /\ y \in upTo[x] => x = y
    <2> SUFFICES ASSUME NEW x \in table, NEW y \in table, x \in upTo[y], y \in upTo[x] PROVE x = y
        OBVIOUS
    <2>1. UpTo(x, y) /\ UpTo(y, x)
        <3> HIDE DEF UpTo
        <3> QED
            BY <1>4
    <2>2. x.domain = y.domain /\ x.address = y.address
        BY <1>1, <2>1
    <2> QED
        BY <1>1, <2>2
<1>9. N \in Nat /\ sorted \in [1..N -> table] /\ Range(sorted) = table
    BY <1>3, <1>5, <1>6, <1>7, <1>8, SortedIs
<1> HIDE DEF sorted
<1>10. HostAddresses(table) \in [1..N -> Addresses]
    BY <1>1, <1>2, <1>9
<1>11. HostAddresses(table) \in Seq(Addresses)
    BY <1>9, <1>10
<1>12. \A a : a \in Range(HostAddresses(table)) <=> \E i \in 1..N : a = sorted[i].address
    BY <1>2, <1>9 DEF Range
<1>13. \A h : h \in table <=> \E i \in 1..N : h = sorted[i]
    BY <1>9 DEF Range
<1> QED
    BY <1>11, <1>12, <1>13

(* The prefixes of the resources. *)
LEMMA ResourcePrefixesIs ==
    ASSUME NEW list \in ResourceLists
    PROVE  /\ ResourcePrefixes(list) \in Seq(CleanPrefixes)
           /\ \A p : p \in Range(ResourcePrefixes(list)) <=> \E ports : ListGrants(list, p, ports)
<1> DEFINE of(i) == [j \in DOMAIN list[i].entries |-> list[i].entries[j].prefixes]
           inner(i) == FlattenSeq(of(i))
           ss == [i \in DOMAIN list |-> inner(i)]
           T == [id : Ids, entries : Seq(Entries)]
<1>1. Len(list) \in Nat /\ DOMAIN list = 1..Len(list) /\ \A i \in DOMAIN list : list[i] \in T
    <2>1. list \in Seq(T)
        BY DEF ResourceLists
    <2> HIDE DEF T
    <2> QED
        BY <2>1
<1>2. ResourcePrefixes(list) = FlattenSeq(ss)
    BY DEF ResourcePrefixes
<1>3. ASSUME NEW i \in DOMAIN list
      PROVE  /\ inner(i) \in Seq(CleanPrefixes)
             /\ \A p : p \in Range(inner(i)) <=> \E ports : EntryGrants(list[i].entries, p, ports)
    <2> DEFINE es == list[i].entries
               o == of(i)
    <2>1. es \in Seq(Entries)
        BY <1>1
    <2> HIDE DEF es
    <2>2. Len(es) \in Nat /\ DOMAIN es = 1..Len(es) /\ \A j \in DOMAIN es : es[j] \in Entries
        <3> HIDE DEF Entries
        <3> QED
            BY <2>1
    <2>3. \A j \in DOMAIN es : es[j].prefixes \in Seq(CleanPrefixes)
        BY <2>2 DEF Entries
    <2>4. o = [j \in DOMAIN es |-> es[j].prefixes]
        BY DEF es
    <2> HIDE DEF o
    <2>5. DOMAIN o = DOMAIN es /\ \A j \in DOMAIN es : o[j] = es[j].prefixes
        BY <2>4
    <2>6. o \in [1..Len(es) -> Seq(CleanPrefixes)]
        BY <2>2, <2>3, <2>4
    <2>7. o \in Seq(Seq(CleanPrefixes))
        BY <2>2, <2>6
    <2>8. /\ FlattenSeq(o) \in Seq(CleanPrefixes)
          /\ \A p : p \in Range(FlattenSeq(o)) <=> \E j \in DOMAIN o : p \in Range(o[j])
        BY <2>7, JoinedIs
    <2>9. \A p : (\E j \in DOMAIN o : p \in Range(o[j])) <=> \E ports : EntryGrants(es, p, ports)
        BY <2>5 DEF EntryGrants
    <2> QED
        BY <2>8, <2>9 DEF o, es
<1> HIDE DEF inner
<1>4. DOMAIN ss = DOMAIN list /\ \A i \in DOMAIN list : ss[i] = inner(i)
    OBVIOUS
<1>5. ss \in [1..Len(list) -> Seq(CleanPrefixes)]
    BY <1>1, <1>3
<1> HIDE DEF ss
<1>6. ss \in Seq(Seq(CleanPrefixes))
    BY <1>1, <1>5
<1>7. /\ FlattenSeq(ss) \in Seq(CleanPrefixes)
      /\ \A p : p \in Range(FlattenSeq(ss)) <=> \E i \in DOMAIN ss : p \in Range(ss[i])
    BY <1>6, JoinedIs
<1>8. \A p : (\E i \in DOMAIN ss : p \in Range(ss[i])) <=> \E ports : ListGrants(list, p, ports)
    BY <1>3, <1>4 DEF ListGrants
<1> QED
    BY <1>2, <1>7, <1>8

(* One prefix for each address. *)
LEMMA SinglesIs ==
    ASSUME NEW addresses \in Seq(Addresses)
    PROVE  /\ Singles(addresses) \in Seq(CleanPrefixes)
           /\ \A p : p \in Range(Singles(addresses)) <=> \E a \in Range(addresses) : p = Single(a)
<1>1. /\ Len(addresses) \in Nat /\ DOMAIN addresses = 1..Len(addresses)
      /\ \A i \in DOMAIN addresses : addresses[i] \in Addresses
    OBVIOUS
<1>2. \A i \in DOMAIN addresses : Single(addresses[i]) \in CleanPrefixes
    BY <1>1, SingleIsClean
<1>3. Singles(addresses) \in [1..Len(addresses) -> CleanPrefixes]
    BY <1>1, <1>2 DEF Singles
<1>4. Singles(addresses) \in Seq(CleanPrefixes)
    BY <1>1, <1>3
<1>5. \A p : p \in Range(Singles(addresses)) <=> \E i \in DOMAIN addresses : p = Single(addresses[i])
    BY DEF Singles, Range
<1>6. \A a : a \in Range(addresses) <=> \E i \in DOMAIN addresses : a = addresses[i]
    BY DEF Range
<1> QED
    BY <1>4, <1>5, <1>6
-----------------------------------------------------------------------------
(* The inductive invariant: documents of any size, the session that was    *)
(* made of them, and the tunnel that was made of it.                       *)

(* The gateway's documents, whatever it composed. *)
Documents ==
    /\ rcs \in Seq(Rcs) /\ DistinctIds(rcs)
    /\ records \in Seq(HostRecord)
    /\ servers \in Seq(Addresses) /\ confDNS \in Seq(Addresses)

(* The session holds what authenticate made of them. *)
Reading ==
    /\ resources = applyDNSHosts(parseResourceList(rcs), parseDNSHostRecords(records))
    /\ hosts = collectDNSHosts(parseDNSHostRecords(records))
    /\ dns = mergeAddresses(Specified(confDNS), mergeAddresses(<<>>, servers))

WebIsRead ==
    /\ phase \in {"composing", "authenticated", "connected", "failed"}
    /\ phase = "composing" => listing = "none" /\ resources = <<>> /\ hosts = {} /\ dns = <<>>
    /\ phase # "composing" /\ listing = "read" => Reading
    /\ phase # "composing" /\ listing # "read" =>
           resources = <<>> /\ hosts = {} /\ dns = Specified(confDNS)

(* The tunnel has what connectTunnel made of that. *)
TunnelIsBuilt ==
    /\ phase \in {"composing", "authenticated"} => routes = <<>>
    /\ phase \in {"connected", "failed"} => routes = Routes
    /\ Filtering => filter = newResourceFilter
    /\ Filtering /\ probe = None =>
           \A a \in Range(pickProbeDestinations(dns, hosts, resources)) : ~reaches(a, TRUE)

ResourcesInv == Documents /\ WebIsRead /\ TunnelIsBuilt

(* The list of a session that read none. *)
LEMMA EmptyList ==
    /\ <<>> \in ResourceLists
    /\ \A p, ports : ~ListGrants(<<>>, p, ports)
BY DEF ResourceLists, ListGrants

(* What the session holds. *)
LEMMA WebIs ==
    ASSUME Documents, WebIsRead
    PROVE  /\ resources \in ResourceLists
           /\ hosts \in SUBSET [domain : Nat, address : Addresses] /\ IsFiniteSet(hosts)
           /\ dns \in Seq(Addresses)
           /\ \A h \in hosts : \E ports : ListGrants(resources, Single(h.address), ports)
<1>1. CASE phase # "composing" /\ listing = "read"
    <2> DEFINE L == parseResourceList(rcs)
               P == parseDNSHostRecords(records)
    <2>1. Reading
        BY <1>1 DEF WebIsRead
    <2>2. L \in ResourceLists /\ DistinctIds(L)
        BY ParsedList DEF Documents
    <2>3. P \in Seq(HostRecord)
        BY ParsedRecords DEF Documents
    <2>4. resources = applyDNSHosts(L, P) /\ hosts = collectDNSHosts(P)
        BY <2>1 DEF Reading
    <2> HIDE DEF L, P
    <2>5. /\ resources \in ResourceLists
          /\ \A p, ports : ListGrants(resources, p, ports) <=>
                 \/ ListGrants(L, p, ports)
                 \/ \E r \in Range(P) : p = Single(r.address) /\ PortsFor(L, r, ports)
        BY <2>2, <2>3, <2>4, ApplyDNSHostsIs
    <2>6. /\ hosts \in SUBSET [domain : Nat, address : Addresses] /\ IsFiniteSet(hosts)
          /\ \A a : (\E h \in hosts : h.address = a) <=> \E r \in Range(P) : r.address = a
        BY <2>3, <2>4, CollectedHosts
    <2>7. dns \in Seq(Addresses)
        <3>1. Specified(confDNS) \in Seq(Addresses)
            BY SpecifiedIs DEF Documents
        <3>2. <<>> \in Seq(Addresses)
            OBVIOUS
        <3>3. mergeAddresses(<<>>, servers) \in Seq(Addresses)
            BY <3>2, MergeAddressesIs DEF Documents
        <3> QED
            BY <2>1, <3>1, <3>3, MergeAddressesIs DEF Reading
    <2>8. \A r : \E ports : PortsFor(L, r, ports)
        BY DEF PortsFor
    <2>9. \A h \in hosts : \E ports : ListGrants(resources, Single(h.address), ports)
        BY <2>5, <2>6, <2>8
    <2> QED
        BY <2>5, <2>6, <2>7, <2>9
<1>2. CASE ~(phase # "composing" /\ listing = "read")
    <2>1. resources = <<>> /\ hosts = {} /\ (dns = <<>> \/ dns = Specified(confDNS))
        BY <1>2 DEF WebIsRead
    <2>2. dns \in Seq(Addresses)
        <3>1. <<>> \in Seq(Addresses)
            OBVIOUS
        <3>2. Specified(confDNS) \in Seq(Addresses)
            BY SpecifiedIs DEF Documents
        <3> QED
            BY <2>1, <3>1, <3>2
    <2> QED
        BY <2>1, <2>2, EmptyList, FS_EmptySet
<1> QED
    BY <1>1, <1>2

(* The rules of the filter. *)
LEMMA RuleOf ==
    \A rule : rule \in newResourceFilter <=>
        \/ \E r \in Range(resources) : \E e \in Range(r.entries) : \E q \in Range(e.prefixes) :
               rule = [prefix |-> q, ports |-> e.ports]
        \/ \E a \in Range(dns) : rule = [prefix |-> Single(a), ports |-> wholePortRange]
<1> SUFFICES ASSUME NEW rule
             PROVE  rule \in newResourceFilter <=>
        \/ \E r \in Range(resources) : \E e \in Range(r.entries) : \E q \in Range(e.prefixes) :
               rule = [prefix |-> q, ports |-> e.ports]
        \/ \E a \in Range(dns) : rule = [prefix |-> Single(a), ports |-> wholePortRange]
    OBVIOUS
<1> DEFINE All == UNION {Range(r.entries) : r \in Range(resources)}
           OfAll == UNION {EntryRules(e) : e \in All}
           OfServers == {[prefix |-> Single(a), ports |-> wholePortRange] : a \in Range(dns)}
<1>1. newResourceFilter = OfAll \cup OfServers
    BY DEF newResourceFilter
<1>2. rule \in OfServers <=>
          \E a \in Range(dns) : rule = [prefix |-> Single(a), ports |-> wholePortRange]
    OBVIOUS
<1>3. \A e : e \in All <=> \E r \in Range(resources) : e \in Range(r.entries)
    BY Zenon
<1> HIDE DEF All, OfServers
<1>4. rule \in OfAll <=> \E e \in All : rule \in EntryRules(e)
    BY Zenon
<1> HIDE DEF OfAll
<1>5. \A e : rule \in EntryRules(e) <=>
          \E q \in Range(e.prefixes) : rule = [prefix |-> q, ports |-> e.ports]
    BY DEF EntryRules
<1> QED
    BY <1>1, <1>2, <1>3, <1>4, <1>5

(* A rule of the filter is a grant of the resources, or a name server. *)
LEMMA RulesAre ==
    \A p, ports : [prefix |-> p, ports |-> ports] \in newResourceFilter <=>
        \/ ListGrants(resources, p, ports)
        \/ ports = wholePortRange /\ \E a \in Range(dns) : p = Single(a)
<1> SUFFICES ASSUME NEW p, NEW ports
             PROVE  [prefix |-> p, ports |-> ports] \in newResourceFilter <=>
                        \/ ListGrants(resources, p, ports)
                        \/ ports = wholePortRange /\ \E a \in Range(dns) : p = Single(a)
    OBVIOUS
<1> DEFINE rule == [prefix |-> p, ports |-> ports]
<1>1. rule \in newResourceFilter <=>
          \/ \E r \in Range(resources) : \E e \in Range(r.entries) : \E q \in Range(e.prefixes) :
                 rule = [prefix |-> q, ports |-> e.ports]
          \/ \E a \in Range(dns) : rule = [prefix |-> Single(a), ports |-> wholePortRange]
    BY RuleOf
<1>2. \A q, other : rule = [prefix |-> q, ports |-> other] <=> p = q /\ ports = other
    OBVIOUS
<1> HIDE DEF rule
<1>3. ListGrants(resources, p, ports) <=>
          \E r \in Range(resources) : \E e \in Range(r.entries) : \E q \in Range(e.prefixes) :
              p = q /\ ports = e.ports
    <2>1. \A r : EntryGrants(r.entries, p, ports) <=>
              \E e \in Range(r.entries) : \E q \in Range(e.prefixes) : p = q /\ ports = e.ports
        BY DEF EntryGrants, Range
    <2>2. ListGrants(resources, p, ports) <=>
              \E r \in Range(resources) : EntryGrants(r.entries, p, ports)
        BY DEF ListGrants, Range
    <2> QED
        BY <2>1, <2>2
<1> QED
    BY <1>1, <1>2, <1>3 DEF rule

(* A rule has a prefix and ports. *)
LEMMA RulesOnly ==
    \A rule \in newResourceFilter : rule = [prefix |-> rule.prefix, ports |-> rule.ports]
<1> SUFFICES ASSUME NEW rule \in newResourceFilter
             PROVE  rule = [prefix |-> rule.prefix, ports |-> rule.ports]
    OBVIOUS
<1>1. PICK p, ports : rule = [prefix |-> p, ports |-> ports]
    BY RuleOf
<1> QED
    BY <1>1

(* What the filter permits. *)
LEMMA Permits ==
    ASSUME NEW a \in Addresses4, NEW port
    PROVE  permits(newResourceFilter, a, port) <=>
               \E p, ports :
                   /\ \/ ListGrants(resources, p, ports)
                      \/ ports = wholePortRange /\ \E d \in Range(dns) : p = Single(d)
                   /\ a \in Block(p)
                   /\ port = 0 \/ port \in ports.start..ports.end
<1>1. permits(newResourceFilter, a, port) <=>
          \E rule \in newResourceFilter :
              a \in Block(rule.prefix) /\ (port = 0 \/ port \in rule.ports.start..rule.ports.end)
    BY DEF permits
<1>2. ASSUME NEW rule \in newResourceFilter
      PROVE  \/ ListGrants(resources, rule.prefix, rule.ports)
             \/ rule.ports = wholePortRange /\ \E d \in Range(dns) : rule.prefix = Single(d)
    <2>1. [prefix |-> rule.prefix, ports |-> rule.ports] \in newResourceFilter
        BY RulesOnly
    <2> QED
        BY <2>1, RulesAre
<1>3. ASSUME NEW p, NEW ports,
             \/ ListGrants(resources, p, ports)
             \/ ports = wholePortRange /\ \E d \in Range(dns) : p = Single(d)
      PROVE  \E rule \in newResourceFilter : rule.prefix = p /\ rule.ports = ports
    <2> DEFINE rule == [prefix |-> p, ports |-> ports]
    <2>1. rule \in newResourceFilter
        BY <1>3, RulesAre
    <2>2. rule.prefix = p /\ rule.ports = ports
        OBVIOUS
    <2> HIDE DEF rule
    <2> QED
        BY <2>1, <2>2
<1>4. ASSUME permits(newResourceFilter, a, port)
      PROVE  \E p, ports :
                 /\ \/ ListGrants(resources, p, ports)
                    \/ ports = wholePortRange /\ \E d \in Range(dns) : p = Single(d)
                 /\ a \in Block(p)
                 /\ port = 0 \/ port \in ports.start..ports.end
    <2>1. PICK rule \in newResourceFilter :
              a \in Block(rule.prefix) /\ (port = 0 \/ port \in rule.ports.start..rule.ports.end)
        BY <1>1, <1>4
    <2> QED
        BY <1>2, <2>1
<1>5. ASSUME NEW p, NEW ports,
             /\ \/ ListGrants(resources, p, ports)
                \/ ports = wholePortRange /\ \E d \in Range(dns) : p = Single(d)
             /\ a \in Block(p)
             /\ port = 0 \/ port \in ports.start..ports.end
      PROVE  permits(newResourceFilter, a, port)
    <2>1. PICK rule \in newResourceFilter : rule.prefix = p /\ rule.ports = ports
        BY <1>3, <1>5
    <2> QED
        BY <1>1, <1>5, <2>1
<1> QED
    BY <1>4, <1>5

(* The routes are the prefixes of the rules, less what others contain. *)
LEMMA RoutesAre ==
    ASSUME Documents, WebIsRead
    PROVE  /\ Routes \in Seq(CleanPrefixes)
           /\ \A i, j \in DOMAIN Routes : i # j => ~Overlaps(Routes[i], Routes[j])
           /\ \A r \in Range(Routes) :
                  \/ \E ports : ListGrants(resources, r, ports)
                  \/ \E d \in Range(dns) : r = Single(d)
           /\ \A p, ports : ListGrants(resources, p, ports) =>
                  \E r \in Range(Routes) : Block(p) \subseteq Block(r)
           /\ \A d \in Range(dns) : \E r \in Range(Routes) : Block(Single(d)) \subseteq Block(r)
<1> DEFINE s == ResourcePrefixes(resources)
           t == Singles(HostAddresses(hosts))
           u == ServerRoutes(dns)
           st == s \o t
           all == st \o u
<1>1. /\ resources \in ResourceLists
      /\ hosts \in SUBSET [domain : Nat, address : Addresses] /\ IsFiniteSet(hosts)
      /\ dns \in Seq(Addresses)
      /\ \A h \in hosts : \E ports : ListGrants(resources, Single(h.address), ports)
    BY WebIs
<1>2. /\ s \in Seq(CleanPrefixes)
      /\ \A p : p \in Range(s) <=> \E ports : ListGrants(resources, p, ports)
    BY <1>1, ResourcePrefixesIs
<1>3. /\ t \in Seq(CleanPrefixes)
      /\ \A p \in Range(t) : \E h \in hosts : p = Single(h.address)
    <2>1. /\ HostAddresses(hosts) \in Seq(Addresses)
          /\ \A a : a \in Range(HostAddresses(hosts)) <=> \E h \in hosts : h.address = a
        BY <1>1, HostAddressesIs
    <2>2. /\ t \in Seq(CleanPrefixes)
          /\ \A p : p \in Range(t) <=> \E a \in Range(HostAddresses(hosts)) : p = Single(a)
        BY <2>1, SinglesIs
    <2> QED
        BY <2>1, <2>2
<1>4. /\ u \in Seq(CleanPrefixes)
      /\ \A p : p \in Range(u) <=> \E d \in Range(dns) : p = Single(d)
    BY <1>1, SinglesIs DEF ServerRoutes
<1> HIDE DEF s, t, u
<1>5. st \in Seq(CleanPrefixes) /\ Range(st) = Range(s) \cup Range(t)
    BY <1>2, <1>3, RangeConcat
<1> HIDE DEF st
<1>6. all \in Seq(CleanPrefixes) /\ Range(all) = Range(st) \cup Range(u)
    BY <1>4, <1>5, RangeConcat
<1>7. Routes = mergePrefixes(all)
    BY DEF Routes, s, t, u, st
<1> HIDE DEF all
<1>8. /\ Routes \in Seq(CleanPrefixes)
      /\ Range(Routes) \subseteq Range(all)
      /\ \A p \in Range(all) : \E r \in Range(Routes) : Block(p) \subseteq Block(r)
      /\ \A i, j \in DOMAIN Routes : i # j => ~Overlaps(Routes[i], Routes[j])
    BY <1>6, <1>7, MergePrefixesIs
<1>9. \A p : p \in Range(all) <=>
          (\E ports : ListGrants(resources, p, ports)) \/ \E d \in Range(dns) : p = Single(d)
    BY <1>1, <1>2, <1>3, <1>4, <1>5, <1>6
<1> QED
    BY <1>8, <1>9

(* Where the probe's destination is looked for. *)
LEMMA CandidatesAre ==
    ASSUME NEW list \in ResourceLists, NEW table \in SUBSET [domain : Nat, address : Addresses],
           IsFiniteSet(table), NEW serverList \in Seq(Addresses)
    PROVE  LET picked == pickProbeDestinations(serverList, table, list)
           IN  /\ picked \in Seq(Addresses)
               /\ \A a : a \in Range(picked) <=>
                      \/ a \in Range(serverList)
                      \/ \E h \in table : h.address = a
                      \/ \E p, ports : ListGrants(list, p, ports) /\ IsSingleIP(p) /\ a = p.addr
<1> DEFINE s == ResourcePrefixes(list)
           K == {p \in CleanPrefixes : IsSingleIP(p)}
           single == Where(s, IsSingleIP)
           addrs == [i \in DOMAIN single |-> single[i].addr]
           t == HostAddresses(table)
           st == serverList \o t
           picked == pickProbeDestinations(serverList, table, list)
<1>1. /\ s \in Seq(CleanPrefixes)
      /\ \A p : p \in Range(s) <=> \E ports : ListGrants(list, p, ports)
    BY ResourcePrefixesIs
<1>2. picked = st \o addrs
    BY DEF pickProbeDestinations
<1>3. single = Kept(s, K)
    <2> HIDE DEF s
    <2>1. [i \in DOMAIN s |-> IF IsSingleIP(s[i]) THEN <<s[i]>> ELSE <<>>] =
              [i \in DOMAIN s |-> IF s[i] \in K THEN <<s[i]>> ELSE <<>>]
        BY <1>1
    <2> QED
        BY <2>1 DEF Where, Kept
<1> HIDE DEF s, K, single
<1>4. single \in Seq(CleanPrefixes) /\ \A x : x \in Range(single) <=> x \in Range(s) /\ x \in K
    BY <1>1, <1>3, KeptRange
<1>5. /\ Len(single) \in Nat /\ DOMAIN single = 1..Len(single)
      /\ \A i \in DOMAIN single : single[i] \in CleanPrefixes
    BY <1>4
<1>6. addrs \in Seq(Addresses)
    <2>1. \A i \in DOMAIN single : single[i].addr \in Addresses
        BY <1>5, CleanPrefixIs
    <2>2. addrs \in [1..Len(single) -> Addresses]
        BY <1>5, <2>1
    <2> QED
        BY <1>5, <2>2
<1>7. \A a : a \in Range(addrs) <=> \E p \in Range(single) : a = p.addr
    BY DEF Range
<1>8. t \in Seq(Addresses) /\ \A a : a \in Range(t) <=> \E h \in table : h.address = a
    BY HostAddressesIs
<1> HIDE DEF addrs, t
<1>9. st \in Seq(Addresses) /\ Range(st) = Range(serverList) \cup Range(t)
    BY <1>8, RangeConcat
<1> HIDE DEF st
<1>10. picked \in Seq(Addresses) /\ Range(picked) = Range(st) \cup Range(addrs)
    BY <1>2, <1>6, <1>9, RangeConcat
<1> HIDE DEF picked
<1>11. \A p, ports : ListGrants(list, p, ports) => (p \in K <=> IsSingleIP(p))
    <2>1. \A p \in Range(s) : p \in CleanPrefixes
        BY <1>1 DEF Range
    <2> QED
        BY <1>1, <2>1 DEF K
<1>12. \A a : a \in Range(addrs) <=>
           \E p, ports : ListGrants(list, p, ports) /\ IsSingleIP(p) /\ a = p.addr
    BY <1>1, <1>4, <1>7, <1>11
<1> QED
    BY <1>8, <1>9, <1>10, <1>12 DEF picked

(* A probe that is looked for and not found. *)
LEMMA NoProbe ==
    ASSUME Documents, WebIsRead, NEW filtered \in BOOLEAN, ProbeDestination(filtered) = None
    PROVE  \A a \in Range(pickProbeDestinations(dns, hosts, resources)) : ~reaches(a, filtered)
<1> DEFINE picked == pickProbeDestinations(dns, hosts, resources)
           K == {a \in Addresses : reaches(a, filtered)}
           reached == Where(picked, LAMBDA a : reaches(a, filtered))
<1>1. picked \in Seq(Addresses)
    BY WebIs, CandidatesAre
<1> HIDE DEF picked
<1>2. reached = Kept(picked, K)
    <2>1. [i \in DOMAIN picked |-> IF reaches(picked[i], filtered) THEN <<picked[i]>> ELSE <<>>] =
              [i \in DOMAIN picked |-> IF picked[i] \in K THEN <<picked[i]>> ELSE <<>>]
        BY <1>1
    <2> QED
        BY <2>1 DEF Where, Kept
<1>3. None = IF reached = <<>> THEN None ELSE Head(reached)
    BY DEF ProbeDestination, picked
<1> HIDE DEF reached, K
<1>4. /\ reached \in Seq(Addresses)
      /\ \A x : x \in Range(reached) <=> x \in Range(picked) /\ x \in K
    BY <1>1, <1>2, KeptRange
<1>5. reached = <<>>
    <2> SUFFICES ASSUME reached # <<>> PROVE FALSE
        OBVIOUS
    <2>1. Head(reached) \in Addresses
        BY <1>4
    <2>2. None \notin Nat
        BY DEF None
    <2> QED
        BY <1>3, <2>1, <2>2, AddressesAreNat
<1>6. Range(reached) = {}
    BY <1>5 DEF Range
<1>7. \A a \in Range(picked) : a \in Addresses
    BY <1>1 DEF Range
<1> QED
    BY <1>4, <1>6, <1>7 DEF K, picked

(* It holds before there is a document. *)
LEMMA InitEstablishes == Init => ResourcesInv
<1> SUFFICES ASSUME Init PROVE ResourcesInv
    OBVIOUS
<1>1. Documents
    BY DEF Init, Documents, DistinctIds
<1>2. WebIsRead
    BY DEF Init, WebIsRead
<1>3. TunnelIsBuilt
    BY DEF Init, TunnelIsBuilt, Filtering
<1> QED
    BY <1>1, <1>2, <1>3 DEF ResourcesInv

(* The gateway composes documents of their type. *)
LEMMA ComposeDocuments ==
    ASSUME Documents, Compose
    PROVE  Documents'
<1> DEFINE N == Len(rcs)
<1>1. N \in Nat /\ DOMAIN rcs = 1..N /\ \A i \in DOMAIN rcs : rcs[i] \in Rcs
    <2>1. rcs \in Seq(Rcs)
        BY DEF Documents
    <2> HIDE DEF Rcs
    <2> QED
        BY <2>1
<1>2. ASSUME NEW id \in Ids, AddRc(id) PROVE Documents'
    <2> DEFINE rc == [id |-> id, hosts |-> <<>>, ports |-> <<>>]
    <2>1. rc \in Rcs /\ rc.id = id
        BY DEF Rcs
    <2>2. /\ \A i \in DOMAIN rcs : rcs[i].id # id
          /\ rcs' = Append(rcs, rc)
          /\ UNCHANGED <<records, servers, confDNS>>
        BY <1>2 DEF AddRc
    <2> HIDE DEF rc
    <2>3. rcs \in Seq(Rcs) /\ DistinctIds(rcs)
        BY DEF Documents
    <2>4. /\ rcs' \in Seq(Rcs) /\ DOMAIN rcs' = 1..(N + 1)
          /\ \A i \in DOMAIN rcs : rcs'[i] = rcs[i]
          /\ rcs'[N + 1] = rc
        BY <1>1, <2>1, <2>2, <2>3
    <2>5. \A i \in DOMAIN rcs' : i \in DOMAIN rcs \/ i = N + 1
        BY <1>1, <2>4
    <2>6. DistinctIds(rcs')
        BY <2>1, <2>2, <2>3, <2>4, <2>5 DEF DistinctIds
    <2> QED
        BY <2>2, <2>4, <2>6 DEF Documents
<1>3. ASSUME rcs # <<>>, NEW rc \in Rcs, rc.id = rcs[Len(rcs)].id, rcs' = [rcs EXCEPT ![Len(rcs)] = rc],
             UNCHANGED <<records, servers, confDNS>>
      PROVE  Documents'
    <2>1. rcs \in Seq(Rcs) /\ DistinctIds(rcs)
        BY DEF Documents
    <2>2. N \in DOMAIN rcs
        BY <1>1, <1>3, <2>1
    <2>3. rcs' = [i \in 1..N |-> IF i = N THEN rc ELSE rcs[i]]
        BY <1>1, <1>3, <2>2
    <2> HIDE DEF N
    <2>4. rcs' \in [1..N -> Rcs] /\ DOMAIN rcs' = 1..N
        BY <1>1, <2>3
    <2>5. rcs' \in Seq(Rcs)
        BY <1>1, <2>4
    <2>6. \A i \in DOMAIN rcs : rcs'[i].id = rcs[i].id
        BY <1>1, <1>3, <2>3 DEF N
    <2>7. DistinctIds(rcs')
        BY <1>1, <2>1, <2>4, <2>6 DEF DistinctIds
    <2> QED
        BY <1>3, <2>5, <2>7 DEF Documents
<1>4. rcs # <<>> => N \in DOMAIN rcs /\ rcs[N] \in Rcs
    <2>1. rcs \in Seq(Rcs)
        BY DEF Documents
    <2> HIDE DEF Rcs
    <2> QED
        BY <1>1, <2>1
<1>5. ASSUME NEW host \in HostTexts, AddHost(host) PROVE Documents'
    <2> DEFINE rc == [rcs[N] EXCEPT !.hosts = Append(@, host)]
    <2>1. host \in AllHosts
        BY ResourcesAssumption
    <2>2. rcs # <<>> /\ UNCHANGED <<records, servers, confDNS>>
        BY <1>5 DEF AddHost
    <2>3. rcs' = [rcs EXCEPT ![N] = rc]
        BY <1>5 DEF AddHost
    <2>4. rc \in Rcs /\ rc.id = rcs[N].id
        BY <1>4, <2>1, <2>2 DEF Rcs
    <2> HIDE DEF rc
    <2> QED
        BY <1>3, <2>2, <2>3, <2>4
<1>6. ASSUME NEW port \in PortTexts, AddPort(port) PROVE Documents'
    <2> DEFINE rc == [rcs[N] EXCEPT !.ports = Append(@, port)]
    <2>1. port \in Ports
        BY ResourcesAssumption DEF Ports
    <2>2. rcs # <<>> /\ UNCHANGED <<records, servers, confDNS>>
        BY <1>6 DEF AddPort
    <2>3. rcs' = [rcs EXCEPT ![N] = rc]
        BY <1>6 DEF AddPort
    <2>4. rc \in Rcs /\ rc.id = rcs[N].id
        BY <1>4, <2>1, <2>2 DEF Rcs
    <2> HIDE DEF rc
    <2> QED
        BY <1>3, <2>2, <2>3, <2>4
<1>7. ASSUME NEW record \in RecordTexts, AddRecord(record) PROVE Documents'
    <2>1. record \in HostRecord /\ records \in Seq(HostRecord)
        BY ResourcesAssumption DEF HostRecord, Documents
    <2>2. Append(records, record) \in Seq(HostRecord)
        <3> HIDE DEF HostRecord
        <3> QED
            BY <2>1
    <2> QED
        BY <1>7, <2>2 DEF AddRecord, Documents
<1>8. ASSUME NEW address \in ServerTexts, AddServer(address) \/ AddConfDNS(address) PROVE Documents'
    <2>1. address \in Addresses /\ servers \in Seq(Addresses) /\ confDNS \in Seq(Addresses)
        BY ResourcesAssumption DEF Documents
    <2>2. Append(servers, address) \in Seq(Addresses) /\ Append(confDNS, address) \in Seq(Addresses)
        BY <2>1
    <2> QED
        BY <1>8, <2>2 DEF AddServer, AddConfDNS, Documents
<1> QED
    BY <1>2, <1>5, <1>6, <1>7, <1>8 DEF Compose

(* Every step keeps the invariant. *)
LEMMA StepPreserves == ResourcesInv /\ [Next]_vars => ResourcesInv'
<1> SUFFICES ASSUME ResourcesInv, [Next]_vars PROVE ResourcesInv'
    OBVIOUS
<1> USE DEF ResourcesInv
<1>1. CASE Compose
    <2>1. phase = "composing" /\ UNCHANGED <<phase, web, tunnel>>
        BY <1>1 DEF Compose
    <2>2. Documents'
        BY <1>1, ComposeDocuments
    <2>3. WebIsRead'
        BY <2>1 DEF WebIsRead, web
    <2>4. TunnelIsBuilt'
        BY <2>1 DEF TunnelIsBuilt, Filtering, tunnel
    <2> QED
        BY <2>2, <2>3, <2>4
<1>2. CASE AuthenticateReadsList
    <2>1. /\ phase = "composing" /\ phase' = "authenticated" /\ listing' = "read"
          /\ UNCHANGED <<document, tunnel>>
        BY <1>2 DEF AuthenticateReadsList
    <2>2. Documents'
        BY <2>1 DEF Documents, document
    <2>3. Reading'
        BY <1>2, <2>1 DEF AuthenticateReadsList, Reading, document
    <2>4. WebIsRead'
        BY <2>1, <2>3 DEF WebIsRead
    <2>5. TunnelIsBuilt'
        BY <2>1 DEF TunnelIsBuilt, Filtering, tunnel
    <2> QED
        BY <2>2, <2>4, <2>5
<1>3. ASSUME NEW reason \in {"refused", "disabled"}, AuthenticateWithoutList(reason)
      PROVE  ResourcesInv'
    <2>1. /\ phase = "composing" /\ phase' = "authenticated" /\ listing' = reason
          /\ dns' = Specified(confDNS)
          /\ UNCHANGED <<document, resources, hosts, tunnel>>
        BY <1>3 DEF AuthenticateWithoutList
    <2>2. Documents'
        BY <2>1 DEF Documents, document
    <2>3. WebIsRead'
        <3>1. listing' # "read" /\ confDNS' = confDNS /\ resources' = <<>> /\ hosts' = {}
            BY <2>1 DEF WebIsRead, document
        <3> QED
            BY <2>1, <3>1 DEF WebIsRead
    <2>4. TunnelIsBuilt'
        BY <2>1 DEF TunnelIsBuilt, Filtering, tunnel
    <2> QED
        BY <2>2, <2>3, <2>4
<1>4. ASSUME NEW configured \in Destinations, NEW filtered \in BOOLEAN,
             ConnectTunnel(configured, filtered)
      PROVE  ResourcesInv'
    <2>1. /\ phase = "authenticated" /\ phase' \in {"connected", "failed"}
          /\ routes' = Routes /\ filtering' = filtered
          /\ filter' = IF filtered THEN newResourceFilter ELSE {}
          /\ UNCHANGED <<document, web>>
        BY <1>4 DEF ConnectTunnel
    <2>2. Documents'
        BY <2>1 DEF Documents, document
    <2>3. WebIsRead'
        BY <2>1 DEF WebIsRead, Reading, document, web
    <2>4. Routes' = Routes /\ newResourceFilter' = newResourceFilter
        BY <2>1 DEF Routes, newResourceFilter, web
    <2>5. phase' = "connected" /\ probe' = None => ProbeDestination(filtered) = None
        BY <1>4 DEF ConnectTunnel
    <2>6. ASSUME Filtering', probe' = None
          PROVE  (\A a \in Range(pickProbeDestinations(dns, hosts, resources)) : ~reaches(a, TRUE))'
        <3>1. filtered = TRUE /\ ProbeDestination(filtered) = None
            BY <2>1, <2>5, <2>6 DEF Filtering
        <3>2. \A a \in Range(pickProbeDestinations(dns, hosts, resources)) : ~reaches(a, TRUE)
            BY <3>1, NoProbe
        <3> QED
            BY <2>1, <2>4, <3>2 DEF reaches, web
    <2>7. TunnelIsBuilt'
        <3>1. Filtering' => filter' = newResourceFilter'
            BY <2>1, <2>4 DEF Filtering
        <3> QED
            BY <2>1, <2>4, <2>6, <3>1 DEF TunnelIsBuilt
    <2> QED
        BY <2>2, <2>3, <2>7
<1>5. CASE UNCHANGED vars
    <2>1. UNCHANGED <<phase, rcs, records, servers, confDNS, listing, resources, hosts, dns,
                      routes, probe, filtering, filter>>
        BY <1>5 DEF vars, document, web, tunnel
    <2>2. Documents'
        BY <2>1 DEF Documents
    <2>3. WebIsRead'
        BY <2>1 DEF WebIsRead, Reading
    <2>4. Routes' = Routes /\ newResourceFilter' = newResourceFilter
        BY <2>1 DEF Routes, newResourceFilter
    <2>5. TunnelIsBuilt'
        BY <2>1, <2>4 DEF TunnelIsBuilt, Filtering, reaches
    <2> QED
        BY <2>2, <2>3, <2>5
<1> QED
    BY <1>1, <1>2, <1>3, <1>4, <1>5 DEF Next
-----------------------------------------------------------------------------
(* The properties. *)

(* A record names the domain of a host attribute. *)
LEMMA NamedHosts ==
    ASSUME Documents, NEW r \in HostRecord, NEW i \in DOMAIN rcs, NEW j \in DOMAIN rcs[i].hosts
    PROVE  Names(i, j, r) <=> rcs[i].id = r.id /\ Parsed(rcs[i], j).domain.name = r.domain
<1>1. rcs[i] \in Rcs
    <2>1. rcs \in Seq(Rcs)
        BY DEF Documents
    <2> HIDE DEF Rcs
    <2> QED
        BY <2>1
<1>2. rcs[i].hosts[j] \in AllHosts
    <2>1. rcs[i].hosts \in Seq(AllHosts)
        BY <1>1 DEF Rcs
    <2> HIDE DEF AllHosts
    <2> QED
        BY <2>1
<1>3. r.domain \in Nat \ {0}
    BY DEF HostRecord
<1>4. Parsed(rcs[i], j).domain.name = r.domain <=>
          rcs[i].hosts[j].kind = "domain" /\ rcs[i].hosts[j].domain.name = r.domain
    BY <1>2, <1>3, ParsedHost DEF Parsed
<1> QED
    BY <1>4 DEF Names

(* The ports of a host, as the document gives them. *)
LEMMA PortsAllow ==
    ASSUME Documents, NEW i \in DOMAIN rcs, NEW j \in DOMAIN rcs[i].hosts, NEW port \in 0..MaxPort
    PROVE  LET ports == parsePortRange(rcs[i], j)
           IN (port = 0 \/ port \in ports.start..ports.end) <=> Allows(rcs[i], j, port)
<1>1. rcs[i] \in Rcs
    <2>1. rcs \in Seq(Rcs)
        BY DEF Documents
    <2> HIDE DEF Rcs
    <2> QED
        BY <2>1
<1> QED
    BY <1>1, ParsedPorts

(* The prefixes of a host, as the document gives it. *)
LEMMA HostCovers ==
    ASSUME Documents, NEW i \in DOMAIN rcs, NEW j \in DOMAIN rcs[i].hosts, NEW x
    PROVE  (\E p \in Range(Parsed(rcs[i], j).prefixes) : x \in Block(p)) <=> Covers(rcs[i].hosts[j], x)
<1>1. rcs[i] \in Rcs
    <2>1. rcs \in Seq(Rcs)
        BY DEF Documents
    <2> HIDE DEF Rcs
    <2> QED
        BY <2>1
<1>2. rcs[i].hosts[j] \in AllHosts
    <2>1. rcs[i].hosts \in Seq(AllHosts)
        BY <1>1 DEF Rcs
    <2> HIDE DEF AllHosts
    <2> QED
        BY <2>1
<1> QED
    BY <1>2, ParsedHost DEF Parsed

Within(port, ports) == port = 0 \/ port \in ports.start..ports.end

(* Every port lies within the range of a host without one. *)
LEMMA WholeAllows ==
    ASSUME NEW port \in 0..MaxPort
    PROVE  Within(port, wholePortRange)
<1>1. MaxPort \in Nat \ {0}
    BY ResourcesAssumption
<1>2. wholePortRange.start = 1 /\ wholePortRange.end = MaxPort
    BY DEF wholePortRange
<1> QED
    BY <1>1, <1>2 DEF Within

(* The filter says what the documents say. *)
LEMMA FilterPublishes ==
    ASSUME Documents, Reading, NEW a \in Addresses4, NEW port \in 0..MaxPort
    PROVE  permits(newResourceFilter, a, port) <=> Published(a, port)
<1> DEFINE L == parseResourceList(rcs)
           P == parseDNSHostRecords(records)
           ByHost == \E i \in DOMAIN rcs : \E j \in DOMAIN rcs[i].hosts :
                         Covers(rcs[i].hosts[j], a) /\ Allows(rcs[i], j, port)
           ByRecord == \E r \in Range(records) :
               /\ r.address = a /\ a # Unspecified
               /\ \/ \A i \in DOMAIN rcs : \A j \in DOMAIN rcs[i].hosts : ~Names(i, j, r)
                  \/ \E i \in DOMAIN rcs : \E j \in DOMAIN rcs[i].hosts :
                         Names(i, j, r) /\ Allows(rcs[i], j, port)
           ByServer == a # Unspecified /\ a \in Range(confDNS) \cup Range(servers)
<1>1. rcs \in Seq(Rcs) /\ DistinctIds(rcs) /\ records \in Seq(HostRecord)
    BY DEF Documents
<1>2. /\ L \in ResourceLists /\ DistinctIds(L)
      /\ \A id, ports : \A name \in Nat \ {0} : ListNames(L, id, name, ports) <=>
             \E i \in DOMAIN rcs : \E j \in DOMAIN rcs[i].hosts :
                 /\ rcs[i].id = id /\ Parsed(rcs[i], j).domain.name = name
                 /\ parsePortRange(rcs[i], j) = ports
      /\ \A p, ports : ListGrants(L, p, ports) <=>
             \E i \in DOMAIN rcs : \E j \in DOMAIN rcs[i].hosts :
                 /\ p \in Range(Parsed(rcs[i], j).prefixes)
                 /\ parsePortRange(rcs[i], j) = ports
    BY <1>1, ParsedList
<1>3. /\ P \in Seq(HostRecord)
      /\ \A r : r \in Range(P) <=> r \in Range(records) /\ r.address \in Addresses4 \ {Unspecified}
    BY <1>1, ParsedRecords
<1>4. resources = applyDNSHosts(L, P)
    BY DEF Reading
<1> HIDE DEF L, P
<1>5. \A p, ports : ListGrants(resources, p, ports) <=>
          \/ ListGrants(L, p, ports)
          \/ \E r \in Range(P) : p = Single(r.address) /\ PortsFor(L, r, ports)
    BY <1>2, <1>3, <1>4, ApplyDNSHostsIs
<1>6. \A d : d \in Range(dns) <=> d # Unspecified /\ d \in Range(confDNS) \cup Range(servers)
    <2>1. confDNS \in Seq(Addresses) /\ servers \in Seq(Addresses) /\ <<>> \in Seq(Addresses)
        BY DEF Documents
    <2> DEFINE c == Specified(confDNS)
               m == mergeAddresses(<<>>, servers)
    <2>2. c \in Seq(Addresses) /\ \A x : x \in Range(c) <=> x \in Range(confDNS) /\ x # Unspecified
        BY <2>1, SpecifiedIs
    <2>3. /\ m \in Seq(Addresses)
          /\ \A x : x \in Range(m) <=> x \in Range(<<>>) \/ (x \in Range(servers) /\ x # Unspecified)
        BY <2>1, MergeAddressesIs
    <2>4. dns = mergeAddresses(c, m)
        BY DEF Reading
    <2> HIDE DEF c, m
    <2>5. \A x : x \in Range(dns) <=> x \in Range(c) \/ (x \in Range(m) /\ x # Unspecified)
        BY <2>2, <2>3, <2>4, MergeAddressesIs
    <2>6. \A x : x \notin Range(<<>>)
        BY DEF Range
    <2> QED
        BY <2>2, <2>3, <2>5, <2>6
<1>7. permits(newResourceFilter, a, port) <=>
          \E p, ports :
              /\ \/ ListGrants(resources, p, ports)
                 \/ ports = wholePortRange /\ \E d \in Range(dns) : p = Single(d)
              /\ a \in Block(p)
              /\ Within(port, ports)
    BY Permits DEF Within
<1>8. Published(a, port) <=> ByHost \/ ByRecord \/ ByServer
    BY DEF Published
<1>9. (\E p, ports : ListGrants(L, p, ports) /\ a \in Block(p) /\ Within(port, ports)) <=> ByHost
    <2>1. ASSUME NEW i \in DOMAIN rcs, NEW j \in DOMAIN rcs[i].hosts
          PROVE  /\ (\E p \in Range(Parsed(rcs[i], j).prefixes) : a \in Block(p))
                        <=> Covers(rcs[i].hosts[j], a)
                 /\ Within(port, parsePortRange(rcs[i], j)) <=> Allows(rcs[i], j, port)
        BY HostCovers, PortsAllow DEF Within
    <2>2. ASSUME NEW p, NEW ports, ListGrants(L, p, ports), a \in Block(p), Within(port, ports)
          PROVE  ByHost
        <3>1. PICK i \in DOMAIN rcs : \E j \in DOMAIN rcs[i].hosts :
                  p \in Range(Parsed(rcs[i], j).prefixes) /\ parsePortRange(rcs[i], j) = ports
            BY <1>2, <2>2
        <3>2. PICK j \in DOMAIN rcs[i].hosts :
                  p \in Range(Parsed(rcs[i], j).prefixes) /\ parsePortRange(rcs[i], j) = ports
            BY <3>1
        <3>3. Covers(rcs[i].hosts[j], a) /\ Allows(rcs[i], j, port)
            BY <2>1, <2>2, <3>2
        <3> QED
            BY <3>3
    <2>3. ASSUME ByHost
          PROVE  \E p, ports : ListGrants(L, p, ports) /\ a \in Block(p) /\ Within(port, ports)
        <3>1. PICK i \in DOMAIN rcs : \E j \in DOMAIN rcs[i].hosts :
                  Covers(rcs[i].hosts[j], a) /\ Allows(rcs[i], j, port)
            BY <2>3
        <3>2. PICK j \in DOMAIN rcs[i].hosts :
                  Covers(rcs[i].hosts[j], a) /\ Allows(rcs[i], j, port)
            BY <3>1
        <3>3. PICK p \in Range(Parsed(rcs[i], j).prefixes) : a \in Block(p)
            BY <2>1, <3>2
        <3>4. ListGrants(L, p, parsePortRange(rcs[i], j))
            BY <1>2, <3>3
        <3>5. Within(port, parsePortRange(rcs[i], j))
            BY <2>1, <3>2
        <3> QED
            BY <3>3, <3>4, <3>5
    <2> QED
        BY <2>2, <2>3
<1>10. ASSUME NEW r \in Range(P)
       PROVE  (\E ports : PortsFor(L, r, ports) /\ Within(port, ports)) <=>
                  \/ \A i \in DOMAIN rcs : \A j \in DOMAIN rcs[i].hosts : ~Names(i, j, r)
                  \/ \E i \in DOMAIN rcs : \E j \in DOMAIN rcs[i].hosts :
                         Names(i, j, r) /\ Allows(rcs[i], j, port)
    <2>1. r \in HostRecord
        <3> HIDE DEF HostRecord
        <3> QED
            BY <1>3 DEF Range
    <2>2. r.domain \in Nat \ {0}
        BY <2>1 DEF HostRecord
    <2>3. \A ports : ListNames(L, r.id, r.domain, ports) <=>
              \E i \in DOMAIN rcs : \E j \in DOMAIN rcs[i].hosts :
                  Names(i, j, r) /\ parsePortRange(rcs[i], j) = ports
        <3>1. \A i \in DOMAIN rcs : \A j \in DOMAIN rcs[i].hosts :
                  Names(i, j, r) <=> rcs[i].id = r.id /\ Parsed(rcs[i], j).domain.name = r.domain
            BY <2>1, NamedHosts
        <3>2. \A ports : ListNames(L, r.id, r.domain, ports) <=>
                  \E i \in DOMAIN rcs : \E j \in DOMAIN rcs[i].hosts :
                      /\ rcs[i].id = r.id /\ Parsed(rcs[i], j).domain.name = r.domain
                      /\ parsePortRange(rcs[i], j) = ports
            BY <1>2, <2>2
        <3> QED
            BY <3>1, <3>2
    <2>4. \A i \in DOMAIN rcs : \A j \in DOMAIN rcs[i].hosts :
              Within(port, parsePortRange(rcs[i], j)) <=> Allows(rcs[i], j, port)
        BY PortsAllow DEF Within
    <2>5. (\A q : ~ListNames(L, r.id, r.domain, q)) <=>
              \A i \in DOMAIN rcs : \A j \in DOMAIN rcs[i].hosts : ~Names(i, j, r)
        BY <2>3
    <2>6. (\E ports : ListNames(L, r.id, r.domain, ports) /\ Within(port, ports)) <=>
              \E i \in DOMAIN rcs : \E j \in DOMAIN rcs[i].hosts :
                  Names(i, j, r) /\ Allows(rcs[i], j, port)
        BY <2>3, <2>4
    <2>7. Within(port, wholePortRange)
        BY WholeAllows
    <2> QED
        BY <2>5, <2>6, <2>7 DEF PortsFor
<1>11. \A r \in Range(P) : a \in Block(Single(r.address)) <=> r.address = a
    <2>1. \A r \in Range(P) : r.address \in Addresses
        BY <1>3 DEF Addresses
    <2> QED
        BY <2>1, SingleBlock
<1>12. (\E p, ports : /\ \E r \in Range(P) : p = Single(r.address) /\ PortsFor(L, r, ports)
                      /\ a \in Block(p) /\ Within(port, ports)) <=> ByRecord
    <2>1. (\E p, ports : /\ \E r \in Range(P) : p = Single(r.address) /\ PortsFor(L, r, ports)
                         /\ a \in Block(p) /\ Within(port, ports)) <=>
              \E r \in Range(P) : r.address = a /\ \E ports : PortsFor(L, r, ports) /\ Within(port, ports)
        BY <1>11
    <2>2. \A r : r \in Range(P) /\ r.address = a <=>
              r \in Range(records) /\ r.address = a /\ a # Unspecified
        BY <1>3
    <2> QED
        BY <1>10, <2>1, <2>2
<1>13. (\E p, ports : /\ ports = wholePortRange /\ \E d \in Range(dns) : p = Single(d)
                      /\ a \in Block(p) /\ Within(port, ports)) <=> ByServer
    <2>1. \A d \in Range(dns) : a \in Block(Single(d)) <=> d = a
        <3>1. confDNS \in Seq(Addresses) /\ servers \in Seq(Addresses)
            BY DEF Documents
        <3>2. Range(confDNS) \subseteq Addresses /\ Range(servers) \subseteq Addresses
            BY <3>1 DEF Range
        <3>3. \A d \in Range(dns) : d \in Addresses
            BY <1>6, <3>2
        <3> QED
            BY <3>3, SingleBlock
    <2>2. Within(port, wholePortRange)
        BY WholeAllows
    <2> QED
        BY <1>6, <2>1, <2>2
<1> HIDE DEF ByHost, ByRecord, ByServer
<1> QED
    BY <1>5, <1>7, <1>8, <1>9, <1>12, <1>13

(* The properties of the runs, from the invariant. *)
LEMMA InvFilter == ResourcesInv => FilterIsPublication
<1> SUFFICES ASSUME ResourcesInv, Filtering, listing = "read",
                    NEW a \in Addresses4, NEW port \in 0..MaxPort
             PROVE  permits(filter, a, port) <=> Published(a, port)
    BY DEF FilterIsPublication
<1>1. filter = newResourceFilter
    BY DEF ResourcesInv, TunnelIsBuilt
<1>2. Documents /\ Reading
    BY DEF ResourcesInv, WebIsRead, Filtering
<1> QED
    BY <1>1, <1>2, FilterPublishes

(* Every route is the prefix of a rule, and every rule lies within a       *)
(* route.                                                                  *)
LEMMA InvRoutes == ResourcesInv => RoutesMatchFilter
<1> SUFFICES ASSUME ResourcesInv PROVE RoutesMatchFilter
    OBVIOUS
<1>1. Documents /\ WebIsRead /\ TunnelIsBuilt
    BY DEF ResourcesInv
<1>2. \A i, j \in DOMAIN routes : i # j => ~Overlaps(routes[i], routes[j])
    <2>1. CASE phase \in {"composing", "authenticated"}
        BY <1>1, <2>1 DEF TunnelIsBuilt
    <2>2. CASE phase \in {"connected", "failed"}
        <3>1. routes = Routes
            BY <1>1, <2>2 DEF TunnelIsBuilt
        <3> QED
            BY <1>1, <3>1, RoutesAre
    <2> QED
        BY <1>1, <2>1, <2>2 DEF WebIsRead
<1>3. ASSUME Filtering, NEW a \in Addresses4
      PROVE  (\E r \in Range(routes) : a \in Block(r)) <=> permits(filter, a, 0)
    <2>1. routes = Routes /\ filter = newResourceFilter
        BY <1>1, <1>3 DEF TunnelIsBuilt, Filtering
    <2>2. permits(newResourceFilter, a, 0) <=>
              \E p, ports :
                  /\ \/ ListGrants(resources, p, ports)
                     \/ ports = wholePortRange /\ \E d \in Range(dns) : p = Single(d)
                  /\ a \in Block(p)
        BY Permits
    <2>3. /\ \A r \in Range(Routes) :
                  \/ \E ports : ListGrants(resources, r, ports)
                  \/ \E d \in Range(dns) : r = Single(d)
          /\ \A p, ports : ListGrants(resources, p, ports) =>
                  \E r \in Range(Routes) : Block(p) \subseteq Block(r)
          /\ \A d \in Range(dns) : \E r \in Range(Routes) : Block(Single(d)) \subseteq Block(r)
        BY <1>1, RoutesAre
    <2>4. (\E r \in Range(Routes) : a \in Block(r)) => permits(newResourceFilter, a, 0)
        BY <2>2, <2>3
    <2>5. permits(newResourceFilter, a, 0) => \E r \in Range(Routes) : a \in Block(r)
        BY <2>2, <2>3
    <2> QED
        BY <2>1, <2>4, <2>5
<1> QED
    BY <1>2, <1>3 DEF RoutesMatchFilter

(* A route of one address was a destination to pick, and the filter        *)
(* permits it.                                                             *)
LEMMA InvProbe == ResourcesInv => ProbeFindsSingleRoute
<1> SUFFICES ASSUME ResourcesInv, Filtering, probe = None,
                    NEW r \in Range(routes), IsSingleIP(r), r.addr \in Addresses4 \ {Unspecified}
             PROVE  FALSE
    BY DEF ProbeFindsSingleRoute
<1>1. Documents /\ WebIsRead /\ TunnelIsBuilt
    BY DEF ResourcesInv
<1>2. /\ routes = Routes
      /\ \A a \in Range(pickProbeDestinations(dns, hosts, resources)) : ~reaches(a, TRUE)
    BY <1>1 DEF TunnelIsBuilt, Filtering
<1>3. /\ resources \in ResourceLists
      /\ hosts \in SUBSET [domain : Nat, address : Addresses] /\ IsFiniteSet(hosts)
      /\ dns \in Seq(Addresses)
    BY <1>1, WebIs
<1>4. \/ \E ports : ListGrants(resources, r, ports)
      \/ \E d \in Range(dns) : r = Single(d)
    BY <1>1, <1>2, RoutesAre
<1>5. r.addr \in Range(pickProbeDestinations(dns, hosts, resources))
    <2>1. \A a : a \in Range(pickProbeDestinations(dns, hosts, resources)) <=>
              \/ a \in Range(dns)
              \/ \E h \in hosts : h.address = a
              \/ \E p, ports : ListGrants(resources, p, ports) /\ IsSingleIP(p) /\ a = p.addr
        BY <1>3, CandidatesAre
    <2>2. \A d : Single(d).addr = d
        BY DEF Single
    <2> QED
        BY <1>4, <2>1, <2>2
<1>6. r.addr \in Block(r)
    <2>1. r \in CleanPrefixes
        BY <1>1, <1>2, RoutesAre DEF Range
    <2>2. Block(r) = {r.addr}
        BY <2>1, CleanPrefixIs DEF IsSingleIP
    <2> QED
        BY <2>2
<1>7. permits(newResourceFilter, r.addr, 0)
    BY <1>4, <1>6, Permits
<1>8. reaches(r.addr, TRUE)
    BY <1>7 DEF reaches
<1> QED
    BY <1>2, <1>5, <1>8

(* The ranges do not depend on the state. *)
LEMMA InvRange == ResourcesInv => RangeIsCovered
BY RangeCovered DEF RangeIsCovered

(* The invariant, of every reachable state. *)
LEMMA ResourcesInvariant == Spec => []ResourcesInv
BY InitEstablishes, StepPreserves, PTL DEF Spec

(* The filter of a connected session lets a datagram through just when the *)
(* documents allow its address and port, whatever the documents, their     *)
(* number of resources, hosts, ports, records and name servers, and the    *)
(* width of addresses.                                                     *)
THEOREM FilterIsPublicationAlways == Spec => []FilterIsPublication
BY ResourcesInvariant, InvFilter, PTL

(* buildTunnelConfiguration routes into the tunnel the IPv4 addresses that *)
(* the filter lets through, and no others, and no two of its routes        *)
(* overlap.                                                                *)
THEOREM RoutesMatchFilterAlways == Spec => []RoutesMatchFilter
BY ResourcesInvariant, InvRoutes, PTL

(* connectTunnel goes without a probe only when no route names one IPv4    *)
(* address: pickProbeDestinations misses none.                             *)
THEOREM ProbeFindsSingleRouteAlways == Spec => []ProbeFindsSingleRoute
BY ResourcesInvariant, InvProbe, PTL

(* addressRangePrefixes returns, for integers of any width that wrap, and  *)
(* its prefixes are the largest blocks of the range in ascending order.    *)
THEOREM RangeIsCoveredAlways == Spec => []RangeIsCovered
BY ResourcesInvariant, InvRange, PTL
=============================================================================
