---------------------------- MODULE Shamir_proofs ---------------------------
(***************************************************************************)
(* Secret sharing over any field with a generator: the tables of init()    *)
(* compute its arithmetic, as many shares as the threshold determine the   *)
(* secret, and fewer are consistent with every secret.  Induction is over  *)
(* sets of naturals, with the least element that is missing: a loop's      *)
(* invariant is such a set.                                                *)
(***************************************************************************)
EXTENDS Shamir, FunctionTheorems, FiniteSetTheorems, WellFoundedInduction, TLAPS

(* Induction over the naturals, with a set for the predicate.              *)
LEMMA NatInduct ==
  ASSUME NEW S, 0 \in S, \A n \in Nat : n \in S => n + 1 \in S
  PROVE  Nat \subseteq S
<1> SUFFICES ASSUME Nat \ S # {} PROVE FALSE
  OBVIOUS
<1> DEFINE T == Nat \ S
<1>1. PICK m \in T : \A y \in T : ~(<<y, m>> \in OpToRel(<, Nat))
  <2>1. T \subseteq Nat /\ T # {}
    OBVIOUS
  <2> HIDE DEF T
  <2> QED BY NatLessThanWellFounded, <2>1, WFMin
<1>2. m - 1 \in T /\ m - 1 < m
  OBVIOUS
<1>3. <<m - 1, m>> \in OpToRel(<, Nat)
  BY <1>2 DEF OpToRel
<1> QED BY <1>1, <1>2, <1>3

(* Up to a bound.                                                          *)
LEMMA UpTo ==
  ASSUME NEW N \in Nat, NEW S, 0 \in S, \A n \in 0 .. N - 1 : n \in S => n + 1 \in S
  PROVE  0 .. N \subseteq S
<1> DEFINE T == {n \in Nat : n <= N => n \in S}
<1>1. 0 \in T
  OBVIOUS
<1>2. ASSUME NEW n \in Nat, n \in T PROVE n + 1 \in T
  BY <1>2
<1>3. Nat \subseteq T
  <2> HIDE DEF T
  <2> QED BY <1>1, <1>2, NatInduct
<1> QED BY <1>3

(* A loop of N turns: step[n] maps what turn n starts with to what it      *)
(* leaves.                                                                 *)
Runs(N, V, start, step) ==
  {r \in [0 .. N -> V] : r[0] = start /\ \A n \in 1 .. N : r[n] = step[n][r[n - 1]]}

(* A loop of N turns whose steps keep V has a run in V.                    *)
LEMMA LoopRuns ==
  ASSUME NEW N \in Nat, NEW V, NEW start \in V, NEW step,
         \A n \in 1 .. N : \A v \in V : step[n][v] \in V
  PROVE  Runs(N, V, start, step) # {}
<1> DEFINE S == {m \in 0 .. N : Runs(m, V, start, step) # {}}
<1>1. 0 \in S
  <2>1. [n \in 0 .. 0 |-> start] \in Runs(0, V, start, step)
    BY DEF Runs
  <2> QED BY <2>1
<1>2. ASSUME NEW m \in 0 .. N - 1, m \in S PROVE m + 1 \in S
  <2>1. PICK r \in [0 .. m -> V] : r[0] = start /\ \A n \in 1 .. m : r[n] = step[n][r[n - 1]]
    BY <1>2 DEF Runs
  <2> DEFINE t == [n \in 0 .. m + 1 |-> IF n = m + 1 THEN step[n][r[m]] ELSE r[n]]
  <2>2. t \in [0 .. m + 1 -> V] /\ t[0] = start
    BY <2>1
  <2>3. ASSUME NEW n \in 1 .. m + 1 PROVE t[n] = step[n][t[n - 1]]
    <3>1. CASE n = m + 1
      <4>1. t[n] = step[n][r[m]] /\ t[n - 1] = r[m]
        BY <3>1
      <4> QED BY <4>1
    <3>2. CASE n \in 1 .. m
      <4>1. r[n] = step[n][r[n - 1]]
        BY <2>1, <3>2
      <4>2. t[n] = r[n] /\ t[n - 1] = r[n - 1]
        BY <3>2
      <4> QED BY <4>1, <4>2
    <3> QED BY <3>1, <3>2
  <2>4. t \in Runs(m + 1, V, start, step)
    <3> HIDE DEF t
    <3> QED BY <2>2, <2>3 DEF Runs
  <2> QED BY <2>4
<1>3. 0 .. N \subseteq S
  <2> HIDE DEF S
  <2> QED BY <1>1, <1>2, UpTo
<1> QED BY <1>3

(* Xor is a commutative group in which every byte is its own opposite.     *)
LEMMA SymDiffs ==
  ASSUME NEW A, NEW B, NEW C
  PROVE  /\ SymDiff(A, B) = SymDiff(B, A)
         /\ SymDiff(SymDiff(A, B), C) = SymDiff(A, SymDiff(B, C))
         /\ SymDiff(A, Zero) = A /\ SymDiff(Zero, A) = A
         /\ SymDiff(A, A) = Zero
         /\ SymDiff(A, B) = Zero => A = B
         /\ SymDiff(SymDiff(A, B), B) = A
         /\ A \subseteq C /\ B \subseteq C => SymDiff(A, B) \subseteq C
<1>1. SymDiff(A, B) = SymDiff(B, A) /\ SymDiff(SymDiff(A, B), B) = A
  BY DEF SymDiff
<1>2. SymDiff(SymDiff(A, B), C) = SymDiff(A, SymDiff(B, C))
  BY DEF SymDiff
<1>3. SymDiff(A, Zero) = A /\ SymDiff(Zero, A) = A /\ SymDiff(A, A) = Zero
  BY DEF SymDiff, Zero
<1>4. SymDiff(A, B) = Zero => A = B
  BY DEF SymDiff, Zero
<1>5. A \subseteq C /\ B \subseteq C => SymDiff(A, B) \subseteq C
  BY DEF SymDiff
<1> QED BY <1>1, <1>2, <1>3, <1>4, <1>5

(* Division with remainder.                                                *)
LEMMA Quotient ==
  ASSUME NEW n \in Nat, NEW N \in Nat \ {0}
  PROVE  /\ n % N \in 0 .. N - 1 /\ n \div N \in Nat
         /\ n = N * (n \div N) + (n % N)
<1>1. PICK q \in Int : q = n \div N
  OBVIOUS
<1>2. q * N <= n /\ q * N > n - N /\ n % N = n - q * N
  BY <1>1, Z3
<1>3. n % N \in 0 .. N - 1
  BY <1>2
<1>4. q >= 0
  BY <1>2, Z3
<1>5. q * N = N * q
  BY Z3
<1> QED BY <1>1, <1>2, <1>3, <1>4, <1>5

(* The only pair of a quotient and a remainder there is.                   *)
LEMMA QuotientIs ==
  ASSUME NEW n \in Nat, NEW N \in Nat \ {0}, NEW q \in Nat, NEW r \in 0 .. N - 1, n = N * q + r
  PROVE  n % N = r /\ n \div N = q
<1>1. n % N = r
  BY Z3
<1>2. n \div N = q
  BY Z3
<1> QED BY <1>1, <1>2

(* Remainders of the next number and of a whole turn more.                 *)
LEMMA Remainder ==
  ASSUME NEW n \in Nat, NEW N \in Nat \ {0}
  PROVE  /\ n < N => n % N = n
         /\ (n + N) % N = n % N
         /\ (n + 1) % N = IF n % N = N - 1 THEN 0 ELSE (n % N) + 1
<1>1. PICK q \in Nat, r \in 0 .. N - 1 : n = N * q + r /\ r = n % N /\ q = n \div N
  BY Quotient
<1>2. n < N => n % N = n
  BY Z3
<1>3. (n + N) % N = n % N
  <2>1. PICK m \in Nat, p \in Nat : m = n + N /\ p = q + 1
    OBVIOUS
  <2>2. m = N * p + r
    <3>1. N * (q + 1) = N * q + N
      BY Z3
    <3>2. N * q \in Nat
      OBVIOUS
    <3>3. N * p = N * q + N
      BY <2>1, <3>1
    <3>4. n = N * q + r
      BY <1>1
    <3> QED BY <2>1, <3>2, <3>3, <3>4
  <2>3. m % N = r
    BY <2>2, QuotientIs
  <2> QED BY <2>1, <2>3, <1>1
<1>4. (n + 1) % N = IF n % N = N - 1 THEN 0 ELSE (n % N) + 1
  <2>1. CASE r = N - 1
    <3>1. PICK m \in Nat, p \in Nat : m = n + 1 /\ p = q + 1
      OBVIOUS
    <3>2. m = N * p + 0 /\ 0 \in 0 .. N - 1
      BY <1>1, <2>1, <3>1, Z3
    <3>3. m % N = 0
      BY <3>2, QuotientIs
    <3> QED BY <3>1, <3>3, <1>1, <2>1
  <2>2. CASE r # N - 1
    <3>1. PICK m \in Nat, p \in 0 .. N - 1 : m = n + 1 /\ p = r + 1
      BY <2>2
    <3>2. m = N * q + p
      BY <1>1, <3>1, Z3
    <3>3. m % N = p
      BY <3>2, QuotientIs
    <3> QED BY <3>1, <3>3, <1>1, <2>2
  <2> QED BY <2>1, <2>2
<1> QED BY <1>2, <1>3, <1>4

(* Powers of two, from the number of subsets.                              *)
LEMMA PowerOfTwo ==
  ASSUME NEW n \in Nat
  PROVE  2 ^ n \in Nat \ {0} /\ 2 ^ 0 = 1 /\ 2 ^ (n + 1) = 2 * 2 ^ n
<1> DEFINE Half == SUBSET (1 .. n)
           Rest == {T \cup {n + 1} : T \in Half}
<1>1. \A m \in Nat : IsFiniteSet(SUBSET (1 .. m)) /\ Cardinality(SUBSET (1 .. m)) = 2 ^ m
  <2> TAKE m \in Nat
  <2>1. IsFiniteSet(1 .. m) /\ Cardinality(1 .. m) = m
    BY FS_Interval
  <2> QED BY <2>1, FS_SUBSET
<1>2. IsFiniteSet(Half) /\ Cardinality(Half) = 2 ^ n
  BY <1>1
<1>3. 2 ^ n \in Nat \ {0}
  <2>1. {} \in Half
    OBVIOUS
  <2> HIDE DEF Half
  <2> QED BY <1>2, <2>1, FS_CardinalityType, FS_EmptySet
<1>4. 2 ^ 0 = 1
  <2>1. SUBSET (1 .. 0) = {{}}
    OBVIOUS
  <2> QED BY <1>1, <2>1, FS_Singleton
<1>5. IsFiniteSet(Rest) /\ Cardinality(Rest) = Cardinality(Half)
  <2> DEFINE g == [T \in Half |-> T \cup {n + 1}]
  <2>1. g \in [Half -> Rest]
    OBVIOUS
  <2>2. \A S, T \in Half : g[S] = g[T] => S = T
    <3> TAKE S, T \in Half
    <3>1. n + 1 \notin S /\ n + 1 \notin T
      OBVIOUS
    <3>2. g[S] = S \cup {n + 1} /\ g[T] = T \cup {n + 1}
      OBVIOUS
    <3> QED BY <3>1, <3>2
  <2>3. \A U \in Rest : \E T \in Half : g[T] = U
    OBVIOUS
  <2>4. g \in Bijection(Half, Rest)
    <3> HIDE DEF g, Half, Rest
    <3> QED BY <2>1, <2>2, <2>3, Fun_IsBij
  <2> HIDE DEF g, Half, Rest
  <2>5. ExistsBijection(Half, Rest)
    BY <2>4 DEF ExistsBijection
  <2> QED BY <2>5, <1>2, FS_Bijection
<1>6. SUBSET (1 .. n + 1) = Half \cup Rest /\ Half \cap Rest = {}
  <2>1. ASSUME NEW U \in SUBSET (1 .. n + 1) PROVE U \in Half \cup Rest
    <3>1. CASE n + 1 \in U
      <4>1. U \ {n + 1} \in Half /\ U = (U \ {n + 1}) \cup {n + 1}
        BY <3>1
      <4> QED BY <4>1
    <3>2. CASE n + 1 \notin U
      <4>1. U \in Half
        BY <3>2
      <4> QED BY <4>1
    <3> QED BY <3>1, <3>2
  <2>2. ASSUME NEW U \in Half \cup Rest PROVE U \in SUBSET (1 .. n + 1)
    <3>1. 1 .. n \subseteq 1 .. n + 1 /\ n + 1 \in 1 .. n + 1
      OBVIOUS
    <3>2. CASE U \in Half
      BY <3>1, <3>2
    <3>3. CASE U \in Rest
      <4>1. PICK T \in Half : U = T \cup {n + 1}
        BY <3>3
      <4> QED BY <3>1, <4>1
    <3> HIDE DEF Half, Rest
    <3> QED BY <3>2, <3>3
  <2>3. Half \cap Rest = {}
    OBVIOUS
  <2> HIDE DEF Half, Rest
  <2> QED BY <2>1, <2>2, <2>3
<1>7. Cardinality(Half \cup Rest) = 2 * 2 ^ n
  <2> HIDE DEF Half, Rest
  <2>1. Cardinality(Half \cup Rest) = Cardinality(Half) + Cardinality(Rest) - Cardinality(Half \cap Rest)
    BY <1>2, <1>5, FS_Union
  <2>2. Cardinality(Half \cap Rest) = 0
    BY <1>6, FS_EmptySet
  <2> QED BY <2>1, <2>2, <1>2, <1>3, <1>5
<1>8. Cardinality(SUBSET (1 .. n + 1)) = 2 ^ (n + 1)
  BY <1>1
<1> QED BY <1>3, <1>4, <1>6, <1>7, <1>8

-----------------------------------------------------------------------------
(* The powers of the generator.                                            *)

(* The powers of 3, for every exponent.                                    *)
Pow(f, n) == Powers(f)[n % Size(f)]

(* Every field has 0 and 1, and so a byte that is not 0.                   *)
LEMMA Widths ==
  ASSUME NEW f \in Fields
  PROVE  /\ f.bits \in Nat \ {0} /\ f.poly \in Bytes(f)
         /\ Size(f) \in Nat \ {0} /\ Zero \in Bytes(f) /\ One \in Bytes(f)
<1>1. f.bits \in Nat \ {0} /\ f.poly \in Bytes(f)
  BY FieldsAssumption DEF Bytes
<1>2. PICK w \in Nat : w + 1 = f.bits
  BY <1>1
<1>3. 2 ^ w \in Nat \ {0} /\ 2 ^ (w + 1) = 2 * 2 ^ w
  BY PowerOfTwo
<1>4. Size(f) \in Nat \ {0}
  BY <1>2, <1>3 DEF Size
<1>5. Zero \in Bytes(f) /\ One \in Bytes(f)
  BY <1>1 DEF Bytes, Zero, One
<1> QED BY <1>1, <1>4, <1>5

(* Doubling and tripling are linear.                                       *)
LEMMA Linear ==
  ASSUME NEW f \in Fields, NEW a \in Bytes(f), NEW b \in Bytes(f)
  PROVE  /\ DoubledIn(f, a) \in Bytes(f) /\ TripledIn(f, a) \in Bytes(f)
         /\ DoubledIn(f, SymDiff(a, b)) = SymDiff(DoubledIn(f, a), DoubledIn(f, b))
         /\ TripledIn(f, SymDiff(a, b)) = SymDiff(TripledIn(f, a), TripledIn(f, b))
         /\ TripledIn(f, Zero) = Zero
<1> DEFINE top == f.bits - 1
           up(c) == {k + 1 : k \in c \ {top}}
           low(c) == IF top \in c THEN f.poly ELSE {}
           D(c) == SymDiff(up(c), low(c))
<1>1. \A c : DoubledIn(f, c) = D(c)
  BY DEF DoubledIn
<1>2. \A c \in Bytes(f) : up(c) \in Bytes(f) /\ low(c) \in Bytes(f)
  <2> TAKE c \in Bytes(f)
  <2>1. up(c) \in Bytes(f)
    BY Widths DEF Bytes
  <2>2. low(c) \in Bytes(f)
    BY Widths DEF Bytes
  <2> QED BY <2>1, <2>2
<1>3. \A c, d \in Bytes(f) : SymDiff(c, d) \in Bytes(f)
  BY DEF SymDiff, Bytes
<1>4. up(SymDiff(a, b)) = SymDiff(up(a), up(b))
  <2>1. \A k \in 0 .. top : k + 1 \in up(a) <=> k \in a /\ k # top
    BY Widths DEF Bytes
  <2>2. \A k \in 0 .. top : k + 1 \in up(b) <=> k \in b /\ k # top
    BY Widths DEF Bytes
  <2>3. up(SymDiff(a, b)) \subseteq SymDiff(up(a), up(b))
    <3> SUFFICES ASSUME NEW k \in SymDiff(a, b), k # top PROVE k + 1 \in SymDiff(up(a), up(b))
      OBVIOUS
    <3>1. k \in 0 .. top
      BY DEF SymDiff, Bytes
    <3>2. k \in a <=> k \notin b
      BY DEF SymDiff
    <3> HIDE DEF up, top
    <3> QED BY <3>1, <3>2, <2>1, <2>2 DEF SymDiff
  <2>4. SymDiff(up(a), up(b)) \subseteq up(SymDiff(a, b))
    <3> SUFFICES ASSUME NEW n \in SymDiff(up(a), up(b)) PROVE n \in up(SymDiff(a, b))
      OBVIOUS
    <3>1. PICK k \in 0 .. top : n = k + 1 /\ k # top /\ k \in a \cup b
      BY DEF SymDiff, Bytes
    <3>2. (k + 1 \in up(a)) <=> (k + 1 \notin up(b))
      <4> HIDE DEF up
      <4> QED BY <3>1 DEF SymDiff
    <3>3. k \in SymDiff(a, b)
      <4> HIDE DEF up, top
      <4> QED BY <3>1, <3>2, <2>1, <2>2 DEF SymDiff
    <3> QED BY <3>1, <3>3
  <2> QED BY <2>3, <2>4
<1>5. low(SymDiff(a, b)) = SymDiff(low(a), low(b))
  <2>1. top \in SymDiff(a, b) <=> (top \in a <=> top \notin b)
    BY DEF SymDiff
  <2> QED BY <2>1, SymDiffs DEF Zero
<1>6. DoubledIn(f, SymDiff(a, b)) = SymDiff(DoubledIn(f, a), DoubledIn(f, b))
  <2>1. PICK p, q, r, s : p = up(a) /\ q = low(a) /\ r = up(b) /\ s = low(b)
    OBVIOUS
  <2>2. SymDiff(SymDiff(p, r), SymDiff(q, s)) = SymDiff(SymDiff(p, q), SymDiff(r, s))
    BY DEF SymDiff
  <2>3. D(SymDiff(a, b)) = SymDiff(SymDiff(p, r), SymDiff(q, s))
    BY <1>4, <1>5, <2>1
  <2>4. D(a) = SymDiff(p, q) /\ D(b) = SymDiff(r, s)
    BY <2>1
  <2> HIDE DEF D
  <2> QED BY <1>1, <2>2, <2>3, <2>4
<1>7. DoubledIn(f, a) \in Bytes(f) /\ DoubledIn(f, b) \in Bytes(f)
  <2> HIDE DEF up, low
  <2> QED BY <1>1, <1>2, <1>3
<1>8. TripledIn(f, a) \in Bytes(f)
  BY <1>3, <1>7 DEF TripledIn
<1>9. TripledIn(f, SymDiff(a, b)) = SymDiff(TripledIn(f, a), TripledIn(f, b))
  <2>1. PICK p, q : p = DoubledIn(f, a) /\ q = DoubledIn(f, b)
    OBVIOUS
  <2>2. SymDiff(SymDiff(p, q), SymDiff(a, b)) = SymDiff(SymDiff(p, a), SymDiff(q, b))
    BY DEF SymDiff
  <2> QED BY <1>6, <2>1, <2>2 DEF TripledIn
<1>10. TripledIn(f, Zero) = Zero
  <2>1. up(Zero) = Zero /\ low(Zero) = Zero
    BY DEF Zero
  <2>2. DoubledIn(f, Zero) = Zero
    <3> HIDE DEF up, low
    <3> QED BY <1>1, <2>1, SymDiffs
  <2> QED BY <2>2, SymDiffs DEF TripledIn
<1> QED BY <1>6, <1>7, <1>8, <1>9, <1>10

(* Powers is what its recursive definition says, in the range of bytes.    *)
LEMMA PowersAre ==
  ASSUME NEW f \in Fields
  PROVE  /\ Powers(f) \in [0 .. Size(f) -> Bytes(f)] /\ Powers(f)[0] = One
         /\ \A n \in 1 .. Size(f) : Powers(f)[n] = TripledIn(f, Powers(f)[n - 1])
<1> DEFINE triple == [b \in Bytes(f) |-> TripledIn(f, b)]
           N == Size(f)
           step == [n \in 1 .. N |-> triple]
<1>1. triple \in [Bytes(f) -> Bytes(f)]
  BY Linear
<1>2. N \in Nat /\ One \in Bytes(f)
  BY Widths
<1>3. ASSUME NEW n \in 1 .. N, NEW b \in Bytes(f) PROVE step[n][b] \in Bytes(f)
  BY <1>1
<1>4. PICK r \in [0 .. N -> Bytes(f)] : r[0] = One /\ \A n \in 1 .. N : r[n] = step[n][r[n - 1]]
  <2> HIDE DEF step, N
  <2>1. Runs(N, Bytes(f), One, step) # {}
    BY <1>2, <1>3, LoopRuns
  <2> QED BY <2>1 DEF Runs
<1>5. r = [n \in 0 .. N |-> IF n = 0 THEN One ELSE triple[r[n - 1]]]
  <2>1. ASSUME NEW n \in 0 .. N PROVE r[n] = IF n = 0 THEN One ELSE triple[r[n - 1]]
    <3>1. n # 0 => n \in 1 .. N /\ step[n] = triple
      BY <1>2
    <3> HIDE DEF triple, step
    <3> QED BY <3>1, <1>4
  <2> HIDE DEF triple, N
  <2> QED BY <2>1
<1> DEFINE R(p) == p = [n \in 0 .. N |-> IF n = 0 THEN One ELSE triple[p[n - 1]]]
<1>6. Powers(f) = CHOOSE p : R(p)
  BY DEF Powers
<1>7. R(Powers(f))
  <2>1. R(r)
    BY <1>5
  <2> HIDE DEF R
  <2> QED BY <1>6, <2>1
<1>8. Powers(f)[0] = One
  <2> HIDE DEF triple
  <2> QED BY <1>7, <1>2
<1>9. \A n \in 1 .. N : Powers(f)[n] = triple[Powers(f)[n - 1]]
  <2> HIDE DEF triple
  <2> QED BY <1>7, <1>2
<1>10. DOMAIN Powers(f) = 0 .. N
  <2> HIDE DEF triple, N
  <2> QED BY <1>7
<1>11. \A n \in 0 .. N : Powers(f)[n] \in Bytes(f)
  <2> DEFINE S == {n \in 0 .. N : Powers(f)[n] \in Bytes(f)}
  <2>1. 0 \in S
    BY <1>2, <1>8
  <2>2. ASSUME NEW n \in 0 .. N - 1, n \in S PROVE n + 1 \in S
    <3>1. Powers(f)[n + 1] = triple[Powers(f)[n]] /\ n + 1 \in 0 .. N
      <4> HIDE DEF triple, N
      <4> QED BY <1>2, <1>9
    <3> QED BY <3>1, <2>2, <1>1
  <2>3. 0 .. N \subseteq S
    <3> HIDE DEF S, N
    <3> QED BY <1>2, <2>1, <2>2, UpTo
  <2> QED BY <2>3
<1>12. ASSUME NEW n \in 1 .. N PROVE Powers(f)[n] = TripledIn(f, Powers(f)[n - 1])
  <2>1. n - 1 \in 0 .. N
    BY <1>2
  <2> QED BY <2>1, <1>9, <1>11
<1>13. Powers(f) \in [0 .. N -> Bytes(f)]
  <2>1. Powers(f) = [n \in 0 .. N |-> IF n = 0 THEN One ELSE triple[Powers(f)[n - 1]]]
    BY <1>7
  <2>2. PICK p : p = Powers(f)
    OBVIOUS
  <2>3. p = [n \in 0 .. N |-> p[n]]
    <3> HIDE DEF triple, N
    <3> QED BY <2>1, <2>2
  <2> HIDE DEF triple, N
  <2> QED BY <2>2, <2>3, <1>11
<1> QED BY <1>8, <1>12, <1>13

(* The powers of 3, for every exponent: they repeat.                       *)
LEMMA Pows ==
  ASSUME NEW f \in Fields
  PROVE  /\ Pow(f, 0) = One
         /\ \A n \in Nat : /\ Pow(f, n) \in Bytes(f) \ {Zero}
                           /\ Pow(f, n + 1) = TripledIn(f, Pow(f, n))
                           /\ Pow(f, n + Size(f)) = Pow(f, n)
         /\ \A n \in 0 .. Size(f) - 1 : Powers(f)[n] = Pow(f, n)
         /\ \A b \in Bytes(f) \ {Zero} : \E n \in 0 .. Size(f) - 1 : Pow(f, n) = b
<1> DEFINE N == Size(f)
<1>1. N \in Nat \ {0}
  BY Widths
<1>2. \A n \in 0 .. N - 1 : Powers(f)[n] = Pow(f, n)
  <2> TAKE n \in 0 .. N - 1
  <2>1. n \in Nat /\ n < N
    BY <1>1
  <2>2. n % N = n
    <3> HIDE DEF N
    <3> QED BY <1>1, <2>1, Remainder
  <2> QED BY <2>2 DEF Pow
<1>3. {Powers(f)[n] : n \in 0 .. N - 1} = Bytes(f) \ {Zero} /\ Powers(f)[N] = One
  BY GeneratorAssumption
<1>4. \A b \in Bytes(f) \ {Zero} : \E n \in 0 .. N - 1 : Pow(f, n) = b
  <2> HIDE DEF N
  <2> QED BY <1>2, <1>3
<1>5. Pow(f, 0) = One
  BY <1>1, <1>2, PowersAre
<1>6. ASSUME NEW n \in Nat
      PROVE  /\ Pow(f, n) \in Bytes(f) \ {Zero}
             /\ Pow(f, n + 1) = TripledIn(f, Pow(f, n))
             /\ Pow(f, n + Size(f)) = Pow(f, n)
  <2>1. PICK r \in 0 .. N - 1 : r = n % N
    BY <1>1, Quotient
  <2>2. Pow(f, n) = Powers(f)[r]
    BY <2>1 DEF Pow
  <2>3. Pow(f, n) \in Bytes(f) \ {Zero}
    <3> HIDE DEF N
    <3> QED BY <2>2, <1>3
  <2>4. Pow(f, n + 1) = TripledIn(f, Powers(f)[r])
    <3>1. (n + 1) % N = IF r = N - 1 THEN 0 ELSE r + 1
      BY <1>1, <2>1, Remainder
    <3>2. r + 1 \in 1 .. N /\ (r + 1) - 1 = r
      BY <1>1
    <3>3. Powers(f)[r + 1] = TripledIn(f, Powers(f)[r])
      <4>1. \A n1 \in 1 .. N : Powers(f)[n1] = TripledIn(f, Powers(f)[n1 - 1])
        BY PowersAre
      <4> HIDE DEF N
      <4> QED BY <3>2, <4>1
    <3>4. CASE r = N - 1
      <4>1. Powers(f)[r + 1] = One /\ Powers(f)[0] = One
        BY <3>4, <1>1, <1>3, PowersAre
      <4> QED BY <3>1, <3>3, <3>4, <4>1 DEF Pow
    <3>5. CASE r # N - 1
      BY <3>1, <3>3, <3>5 DEF Pow
    <3> QED BY <3>4, <3>5
  <2>5. Pow(f, n + N) = Pow(f, n)
    BY <1>1, Remainder DEF Pow
  <2> QED BY <2>2, <2>3, <2>4, <2>5
<1> QED BY <1>2, <1>4, <1>5, <1>6

(* No byte is reached twice in one turn: the logarithm is a function.      *)
LEMMA SamePows ==
  ASSUME NEW f \in Fields, NEW m \in Nat, NEW k \in Nat, Pow(f, m) = Pow(f, k)
  PROVE  \A n \in Nat : Pow(f, m + n) = Pow(f, k + n)
<1> DEFINE S == {n \in Nat : Pow(f, m + n) = Pow(f, k + n)}
<1>1. 0 \in S
  OBVIOUS
<1>2. ASSUME NEW n \in Nat, n \in S PROVE n + 1 \in S
  <2>1. m + (n + 1) = (m + n) + 1 /\ k + (n + 1) = (k + n) + 1 /\ m + n \in Nat /\ k + n \in Nat
    OBVIOUS
  <2>2. Pow(f, m + n) = Pow(f, k + n)
    BY <1>2
  <2>3. Pow(f, (m + n) + 1) = Pow(f, (k + n) + 1)
    BY <2>1, <2>2, Pows
  <2> QED BY <2>1, <2>3
<1>3. Nat \subseteq S
  <2> HIDE DEF S
  <2> QED BY <1>1, <1>2, NatInduct
<1> QED BY <1>3
-----------------------------------------------------------------------------

-----------------------------------------------------------------------------
(* The tables.                                                             *)

(* What the loops of init() have filled in so far.                         *)
Filled ==
  /\ field \in Fields /\ i \in 0 .. Order + 1 /\ x \in Byte
  /\ gfExp \in [0 .. 2 * Order + 1 -> Byte] /\ gfLog \in [Byte -> 0 .. Order - 1]
  /\ i <= Order => x = Pow(field, i)
  /\ \A k \in 0 .. Order - 1 : k < i =>
       gfExp[k] = Pow(field, k) /\ Pow(field, gfLog[Pow(field, k)]) = Pow(field, k)
  /\ Ready => \A k \in 0 .. 2 * Order + 1 : gfExp[k] = Pow(field, k)

(* The tables invariant holds when init() starts.                          *)
LEMMA FilledInit == TablesInit => Filled
<1> SUFFICES ASSUME TablesInit PROVE Filled
  OBVIOUS
<1>1. field \in Fields /\ i = 0 /\ x = One
  BY DEF TablesInit
<1>2. Order \in Nat \ {0} /\ Zero \in Byte /\ One \in Byte
  BY <1>1, Widths DEF Order, Byte
<1>3. i \in 0 .. Order + 1 /\ ~Ready /\ x = Pow(field, 0)
  BY <1>1, <1>2, Pows DEF Ready
<1>4. gfExp \in [0 .. 2 * Order + 1 -> Byte] /\ gfLog \in [Byte -> 0 .. Order - 1]
  BY <1>2 DEF TablesInit
<1> QED BY <1>1, <1>2, <1>3, <1>4 DEF Filled

(* A turn of the first loop, which fills both tables up to i, keeps it.    *)
LEMMA FilledStep ==
  ASSUME Filled, FillTables
  PROVE  Filled'
<1> DEFINE N == Order
           P(k) == Pow(field, k)
<1>0. field' = field /\ i' = i + 1 /\ field \in Fields /\ N' = N /\ Byte' = Byte
  BY DEF Filled, FillTables, Order, Byte
<1>1. i \in 0 .. N - 1 /\ N \in Nat \ {0}
  <2>1. Size(field) \in Nat \ {0}
    BY <1>0, Widths
  <2> QED BY <2>1 DEF Filled, FillTables, Order
<1>2. x = P(i) /\ x \in Byte /\ x # Zero
  <2>1. x = P(i)
    BY <1>1 DEF Filled
  <2> QED BY <1>0, <1>1, <2>1, Pows DEF Byte
<1>3. x' = P(i + 1) /\ x' \in Byte
  <2>1. Tripled(x) = TripledIn(field, x)
    BY DEF Tripled, TripledIn, Doubled
  <2>2. x' = P(i + 1)
    BY <1>0, <1>1, <1>2, <2>1, Pows DEF FillTables
  <2> QED BY <1>0, <1>1, <2>2, Pows DEF Byte
<1>4. gfExp' = [gfExp EXCEPT ![i] = x] /\ gfLog' = [gfLog EXCEPT ![x] = i]
  BY DEF FillTables
<1>5. gfExp \in [0 .. 2 * N + 1 -> Byte] /\ gfLog \in [Byte -> 0 .. N - 1]
  BY DEF Filled
<1>6. gfExp' \in [0 .. 2 * N + 1 -> Byte] /\ gfLog' \in [Byte -> 0 .. N - 1]
  <2> HIDE DEF N
  <2> QED BY <1>1, <1>2, <1>4, <1>5
<1>7. ASSUME NEW k \in 0 .. N - 1, k < i + 1
      PROVE  gfExp'[k] = P(k) /\ P(gfLog'[P(k)]) = P(k)
  <2>1. P(k) \in Byte
    BY <1>0, <1>1, Pows DEF Byte
  <2>2. k # i => gfExp[k] = P(k) /\ P(gfLog[P(k)]) = P(k)
    BY <1>1, <1>7 DEF Filled
  <2>3. gfExp'[k] = P(k)
    <3> HIDE DEF N, P
    <3> QED BY <1>1, <1>2, <1>4, <1>5, <2>2
  <2>4. P(gfLog'[P(k)]) = P(k)
    <3>1. PICK b \in Byte : b = P(k)
      BY <2>1
    <3>2. CASE b = x
      <4>1. gfLog'[b] = i
        BY <3>2, <1>4, <1>5
      <4> QED BY <4>1, <3>1, <3>2, <1>2
    <3>3. CASE b # x
      <4>1. gfLog'[b] = gfLog[b]
        BY <3>3, <1>4, <1>5
      <4>2. k # i
        BY <3>1, <3>3, <1>2
      <4> QED BY <4>1, <4>2, <3>1, <2>2
    <3> QED BY <3>2, <3>3
  <2> QED BY <2>3, <2>4
<1>8. ~Ready' /\ i' \in 0 .. N' + 1 /\ field' \in Fields
  BY <1>0, <1>1 DEF Ready
<1>9. x' \in Byte' /\ gfExp' \in [0 .. 2 * N' + 1 -> Byte'] /\ gfLog' \in [Byte' -> 0 .. N' - 1]
  BY <1>0, <1>3, <1>6
<1>10. x' = Pow(field', i')
  BY <1>0, <1>3
<1>11. \A k \in 0 .. N' - 1 : k < i' =>
         gfExp'[k] = Pow(field', k) /\ Pow(field', gfLog'[Pow(field', k)]) = Pow(field', k)
  BY <1>0, <1>7
<1> QED BY <1>8, <1>9, <1>10, <1>11 DEF Filled

(* The second loop keeps it, and makes the tables ready.                   *)
LEMMA FilledRepeat ==
  ASSUME Filled, RepeatTable
  PROVE  Filled'
<1> DEFINE N == Order
           P(k) == Pow(field, k)
<1>1. field' = field /\ i' = N + 1 /\ i = N /\ field \in Fields /\ N' = N /\ Byte' = Byte
      /\ x' = x /\ x \in Byte /\ gfLog' = gfLog /\ gfLog \in [Byte -> 0 .. N - 1]
  BY DEF Filled, RepeatTable, Order, Byte
<1>2. N \in Nat \ {0} /\ gfExp \in [0 .. 2 * N + 1 -> Byte]
  <2>1. Size(field) \in Nat \ {0}
    BY <1>1, Widths
  <2> QED BY <2>1 DEF Filled, Order
<1>3. gfExp' = [k \in 0 .. 2 * N + 1 |-> gfExp[k % N]]
  BY <1>2 DEF RepeatTable, Repeated
<1>4. ASSUME NEW k \in 0 .. 2 * N + 1 PROVE gfExp'[k] = P(k) /\ gfExp'[k] \in Byte
  <2>0. PICK M \in Nat \ {0} : M = N
    BY <1>2
  <2>1. PICK r \in 0 .. N - 1 : r = k % N
    <3>1. k \in Nat
      BY <1>2
    <3>2. k % M \in 0 .. M - 1
      BY <3>1, Quotient
    <3> QED BY <2>0, <3>2
  <2>2. r % N = r
    <3>1. r \in Nat /\ r < M
      BY <2>0
    <3>2. r % M = r
      BY <3>1, Remainder
    <3> QED BY <2>0, <3>2
  <2>3. P(r) = P(k)
    BY <2>1, <2>2 DEF Pow, Order
  <2>4. gfExp[r] = P(r)
    BY <1>1, <1>2 DEF Filled
  <2>5. gfExp'[k] = gfExp[r] /\ r \in 0 .. 2 * N + 1
    BY <1>2, <1>3, <2>1
  <2> QED BY <2>3, <2>4, <2>5, <1>2
<1>5. gfExp' \in [0 .. 2 * N + 1 -> Byte]
  <2> HIDE DEF N
  <2> QED BY <1>3, <1>4
<1>6. \A k \in 0 .. N - 1 : P(gfLog[P(k)]) = P(k)
  BY <1>1 DEF Filled
<1>7. i' \in 0 .. N + 1 /\ ~(i' <= N)
  BY <1>1, <1>2
<1>8. \A k \in 0 .. N - 1 : gfExp'[k] = P(k)
  BY <1>2, <1>4
<1> QED BY <1>1, <1>4, <1>5, <1>6, <1>7, <1>8 DEF Filled

(* The laws of a field, for the operations that look in the tables.        *)
Arithmetic ==
  /\ \A a, b \in Byte : gfMul(a, b) \in Byte /\ gfMul(a, b) = gfMul(b, a)
  /\ \A a, b, c \in Byte : gfMul(gfMul(a, b), c) = gfMul(a, gfMul(b, c))
  /\ \A a, b, c \in Byte : gfMul(a, SymDiff(b, c)) = SymDiff(gfMul(a, b), gfMul(a, c))
  /\ \A a \in Byte : gfMul(One, a) = a /\ gfMul(Zero, a) = Zero
  /\ \A a, b \in Byte \ {Zero} : gfMul(a, b) # Zero
  /\ \A a \in Byte, b \in Byte \ {Zero} : gfDiv(a, b) \in Byte /\ gfMul(gfDiv(a, b), b) = a
  /\ Zero \in Byte /\ One \in Byte /\ One # Zero
  /\ \A a, b \in Byte : SymDiff(a, b) \in Byte

(* Sums stay in the field.                                                 *)
LEMMA SumIsByte == \A a, b \in Byte : SymDiff(a, b) \in Byte
BY DEF SymDiff, Byte, Bytes

(* A ready logarithm table inverts the power table.                        *)
LEMMA Logs ==
  ASSUME Filled, Ready, NEW b \in Byte \ {Zero}
  PROVE  gfLog[b] \in 0 .. Order - 1 /\ Pow(field, gfLog[b]) = b
<1>1. field \in Fields /\ i = Order + 1 /\ gfLog \in [Byte -> 0 .. Order - 1]
  BY DEF Filled, Ready
<1>2. Order \in Nat \ {0}
  BY <1>1, Widths DEF Order
<1>3. PICK k \in 0 .. Order - 1 : Pow(field, k) = b
  BY <1>1, Pows DEF Order, Byte
<1>4. k < i
  BY <1>1, <1>2
<1>5. Pow(field, gfLog[Pow(field, k)]) = Pow(field, k)
  BY <1>4 DEF Filled
<1> QED BY <1>1, <1>3, <1>5

(* gfMul adds exponents: no index of two logarithms leaves the table, and  *)
(* the second half of the table is the first again.                        *)
LEMMA MultipliesPows ==
  ASSUME Filled, Ready, NEW m \in Nat, NEW n \in Nat
  PROVE  gfMul(Pow(field, m), Pow(field, n)) = Pow(field, m + n)
<1>1. field \in Fields
  BY DEF Filled
<1>2. PICK a \in Byte \ {Zero}, b \in Byte \ {Zero} : a = Pow(field, m) /\ b = Pow(field, n)
  BY <1>1, Pows DEF Byte
<1>3. Order \in Nat \ {0}
  BY <1>1, Widths DEF Order
<1>4. PICK la \in 0 .. Order - 1 : la = gfLog[a] /\ Pow(field, la) = a
  BY Logs
<1>5. PICK lb \in 0 .. Order - 1 : lb = gfLog[b] /\ Pow(field, lb) = b
  BY Logs
<1>6. la \in Nat /\ lb \in Nat /\ la + lb \in 0 .. 2 * Order + 1
  BY <1>3
<1>7. gfMul(a, b) = Pow(field, la + lb)
  BY <1>4, <1>5, <1>6 DEF gfMul, Filled
<1>8. Pow(field, la + lb) = Pow(field, m + lb)
  BY <1>1, <1>2, <1>4, <1>6, SamePows
<1>9. Pow(field, lb + m) = Pow(field, n + m)
  BY <1>1, <1>2, <1>5, <1>6, SamePows
<1>10. m + lb = lb + m /\ n + m = m + n
  BY <1>6
<1> QED BY <1>2, <1>7, <1>8, <1>9, <1>10

(* gfDiv subtracts exponents, and multiplication undoes it.                *)
LEMMA Divides ==
  ASSUME Filled, Ready, NEW a \in Byte, NEW b \in Byte \ {Zero}
  PROVE  gfDiv(a, b) \in Byte /\ gfMul(gfDiv(a, b), b) = a
<1>1. field \in Fields
  BY DEF Filled
<1>2. Order \in Nat \ {0} /\ Zero \in Byte
  BY <1>1, Widths DEF Order, Byte
<1>3. CASE a = Zero
  BY <1>2, <1>3 DEF gfDiv, gfMul
<1>4. CASE a # Zero
  <2>1. PICK la \in 0 .. Order - 1 : la = gfLog[a] /\ Pow(field, la) = a
    BY <1>4, Logs
  <2>2. PICK lb \in 0 .. Order - 1 : lb = gfLog[b] /\ Pow(field, lb) = b
    BY Logs
  <2>3. PICK k \in Nat : k = la - lb + Order
    BY <1>2
  <2>4. k \in 0 .. 2 * Order + 1
    BY <1>2, <2>3
  <2>5. gfDiv(a, b) = gfExp[k]
    BY <1>4, <2>1, <2>2, <2>3 DEF gfDiv
  <2>6. gfExp[k] = Pow(field, k)
    BY <2>4 DEF Filled
  <2>7. gfMul(Pow(field, k), Pow(field, lb)) = Pow(field, k + lb)
    <3>1. lb \in Nat
      BY <1>2
    <3> QED BY <3>1, MultipliesPows
  <2>8. k + lb = la + Order /\ la \in Nat
    BY <1>2, <2>3
  <2>9. Pow(field, la + Order) = Pow(field, la)
    BY <1>1, <2>8, Pows DEF Order
  <2>10. Pow(field, k) \in Byte
    BY <1>1, Pows DEF Byte
  <2> QED BY <2>1, <2>2, <2>5, <2>6, <2>7, <2>8, <2>9, <2>10
<1> QED BY <1>3, <1>4

(* Multiplication by a power of 3 distributes over xor, since tripling     *)
(* does.                                                                   *)
LEMMA Distributes ==
  ASSUME Filled, Ready, NEW b \in Byte, NEW c \in Byte
  PROVE  \A n \in Nat : gfMul(Pow(field, n), SymDiff(b, c)) =
                        SymDiff(gfMul(Pow(field, n), b), gfMul(Pow(field, n), c))
<1>1. field \in Fields
  BY DEF Filled
<1>2. \A m \in Nat : Pow(field, m) \in Byte \ {Zero}
  BY <1>1, Pows DEF Byte
<1>3. \A d \in Byte : gfMul(d, Zero) = Zero
  BY DEF gfMul
<1>4. ASSUME NEW d \in Byte, NEW m \in Nat
      PROVE  /\ gfMul(Pow(field, m), d) \in Byte
             /\ gfMul(Pow(field, m + 1), d) = TripledIn(field, gfMul(Pow(field, m), d))
  <2>1. CASE d = Zero
    BY <2>1, <1>1, <1>2, <1>3, Linear, Widths DEF Byte
  <2>2. CASE d # Zero
    <3>1. PICK k \in Nat : d = Pow(field, k)
      <4>1. PICK k \in 0 .. Size(field) - 1 : d = Pow(field, k)
        BY <1>1, <2>2, Pows DEF Byte
      <4>2. k \in Nat
        BY <1>1, Widths
      <4> QED BY <4>1, <4>2
    <3>2. gfMul(Pow(field, m), Pow(field, k)) = Pow(field, m + k)
      BY MultipliesPows
    <3>3. gfMul(Pow(field, m + 1), Pow(field, k)) = Pow(field, (m + 1) + k)
      BY MultipliesPows
    <3>4. (m + 1) + k = (m + k) + 1 /\ m + k \in Nat
      OBVIOUS
    <3>5. Pow(field, (m + k) + 1) = TripledIn(field, Pow(field, m + k))
      BY <1>1, <3>4, Pows
    <3> QED BY <1>2, <3>1, <3>2, <3>3, <3>4, <3>5
  <2> QED BY <2>1, <2>2
<1>5. PICK bc \in Byte : bc = SymDiff(b, c)
  BY SumIsByte
<1> DEFINE S == {n \in Nat : gfMul(Pow(field, n), bc) = SymDiff(gfMul(Pow(field, n), b), gfMul(Pow(field, n), c))}
<1>6. 0 \in S
  <2>1. \A d \in Byte : gfMul(One, d) = d
    <3> TAKE d \in Byte
    <3>1. Pow(field, 0) = One
      BY <1>1, Pows
    <3>2. CASE d = Zero
      BY <3>2, <1>3, <1>2, <3>1
    <3>3. CASE d # Zero
      <4>1. PICK k \in 0 .. Size(field) - 1 : d = Pow(field, k)
        BY <1>1, <3>3, Pows DEF Byte
      <4>2. k \in Nat /\ 0 + k = k
        BY <1>1, Widths
      <4>3. gfMul(Pow(field, 0), Pow(field, k)) = Pow(field, 0 + k)
        BY <4>2, MultipliesPows
      <4> QED BY <3>1, <4>1, <4>2, <4>3
    <3> QED BY <3>2, <3>3
  <2>2. Pow(field, 0) = One
    BY <1>1, Pows
  <2> QED BY <2>1, <2>2, <1>5
<1>7. ASSUME NEW n \in Nat, n \in S PROVE n + 1 \in S
  <2>1. PICK p \in Byte, q \in Byte, r \in Byte :
          p = gfMul(Pow(field, n), bc) /\ q = gfMul(Pow(field, n), b) /\ r = gfMul(Pow(field, n), c)
    BY <1>4
  <2>2. p = SymDiff(q, r)
    BY <1>7, <2>1
  <2>3. TripledIn(field, SymDiff(q, r)) = SymDiff(TripledIn(field, q), TripledIn(field, r))
    BY <1>1, Linear DEF Byte
  <2>4. /\ gfMul(Pow(field, n + 1), bc) = TripledIn(field, p)
        /\ gfMul(Pow(field, n + 1), b) = TripledIn(field, q)
        /\ gfMul(Pow(field, n + 1), c) = TripledIn(field, r)
    BY <1>4, <2>1
  <2>5. gfMul(Pow(field, n + 1), bc)
          = SymDiff(gfMul(Pow(field, n + 1), b), gfMul(Pow(field, n + 1), c))
    BY <2>2, <2>3, <2>4
  <2> QED BY <2>5
<1>8. Nat \subseteq S
  <2> HIDE DEF S
  <2> QED BY <1>6, <1>7, NatInduct
<1> QED BY <1>5, <1>8

(* When init() has ended, gfMul and gfDiv obey the laws of a field: what   *)
(* the logarithm tables of core/shamir are for.                            *)
THEOREM ReadyArithmetic == Filled /\ Ready => Arithmetic
<1> SUFFICES ASSUME Filled, Ready PROVE Arithmetic
  OBVIOUS
<1>1. field \in Fields
  BY DEF Filled
<1>2. Zero \in Byte /\ One \in Byte /\ One # Zero
  BY <1>1, Widths DEF Byte, One, Zero
<1>3. \A b \in Byte \ {Zero} : \E n \in Nat : b = Pow(field, n)
  <2> TAKE b \in Byte \ {Zero}
  <2>1. PICK k \in 0 .. Size(field) - 1 : b = Pow(field, k)
    BY <1>1, Pows DEF Byte
  <2>2. k \in Nat
    BY <1>1, Widths
  <2> QED BY <2>1, <2>2
<1>4. \A n \in Nat : Pow(field, n) \in Byte \ {Zero}
  BY <1>1, Pows DEF Byte
<1>5. \A b \in Byte : gfMul(b, Zero) = Zero /\ gfMul(Zero, b) = Zero
  BY DEF gfMul
<1>6. ASSUME NEW a \in Byte, NEW b \in Byte
      PROVE  /\ gfMul(a, b) \in Byte /\ gfMul(a, b) = gfMul(b, a)
             /\ a # Zero /\ b # Zero => gfMul(a, b) # Zero
  <2>1. CASE a = Zero \/ b = Zero
    BY <2>1, <1>2, <1>5
  <2>2. CASE a # Zero /\ b # Zero
    <3>1. PICK m \in Nat, n \in Nat : a = Pow(field, m) /\ b = Pow(field, n)
      BY <1>3, <2>2
    <3>2. gfMul(a, b) = Pow(field, m + n) /\ gfMul(b, a) = Pow(field, n + m)
      BY <3>1, MultipliesPows
    <3>3. m + n = n + m /\ m + n \in Nat
      OBVIOUS
    <3> QED BY <3>2, <3>3, <1>4
  <2> QED BY <2>1, <2>2
<1>7. ASSUME NEW a \in Byte, NEW b \in Byte, NEW c \in Byte
      PROVE  gfMul(gfMul(a, b), c) = gfMul(a, gfMul(b, c))
  <2>1. CASE Zero \in {a, b, c}
    BY <2>1, <1>2, <1>5, <1>6
  <2>2. CASE Zero \notin {a, b, c}
    <3>1. PICK m \in Nat, n \in Nat, k \in Nat : a = Pow(field, m) /\ b = Pow(field, n) /\ c = Pow(field, k)
      BY <1>3, <2>2
    <3>2. gfMul(a, b) = Pow(field, m + n) /\ gfMul(b, c) = Pow(field, n + k)
      BY <3>1, MultipliesPows
    <3>3. m + n \in Nat /\ n + k \in Nat /\ (m + n) + k = m + (n + k)
      OBVIOUS
    <3>4. gfMul(Pow(field, m + n), Pow(field, k)) = Pow(field, (m + n) + k)
      BY <3>3, MultipliesPows
    <3>5. gfMul(Pow(field, m), Pow(field, n + k)) = Pow(field, m + (n + k))
      BY <3>3, MultipliesPows
    <3> QED BY <3>1, <3>2, <3>3, <3>4, <3>5
  <2> QED BY <2>1, <2>2
<1>8. ASSUME NEW a \in Byte, NEW b \in Byte, NEW c \in Byte
      PROVE  gfMul(a, SymDiff(b, c)) = SymDiff(gfMul(a, b), gfMul(a, c))
  <2>1. CASE a = Zero
    <3>1. SymDiff(b, c) \in Byte
      BY SumIsByte
    <3> QED BY <2>1, <3>1, <1>5, SymDiffs
  <2>2. CASE a # Zero
    BY <2>2, <1>3, Distributes
  <2> QED BY <2>1, <2>2
<1>9. ASSUME NEW a \in Byte PROVE gfMul(One, a) = a
  <2>1. CASE a = Zero
    BY <2>1, <1>2, <1>5
  <2>2. CASE a # Zero
    <3>1. PICK n \in Nat : a = Pow(field, n)
      BY <1>3, <2>2
    <3>2. gfMul(Pow(field, 0), Pow(field, n)) = Pow(field, 0 + n) /\ 0 + n = n
      BY MultipliesPows
    <3> QED BY <1>1, <3>1, <3>2, Pows
  <2> QED BY <2>1, <2>2
<1>10. \A a, b \in Byte : SymDiff(a, b) \in Byte
  BY SumIsByte
<1> QED BY <1>2, <1>5, <1>6, <1>7, <1>8, <1>9, <1>10, Divides DEF Arithmetic

-----------------------------------------------------------------------------
(* Sums, products and polynomials, and the loops that compute them.        *)

(* The loops of the package: that they are defined, and by what turns.     *)
LEMMA SumLoop ==
  ASSUME Arithmetic, NEW m \in Nat, NEW g \in [1 .. m -> Byte]
  PROVE  \E r \in [0 .. m -> Byte] :
           /\ r[0] = Zero
           /\ \A n \in 1 .. m : r[n] = SymDiff(r[n - 1], g[n])
           /\ SumOf(g) = r[m]
<1> DEFINE step == [n \in 1 .. m |-> [v \in Byte |-> SymDiff(v, g[n])]]
           R(p) == p = [n \in 0 .. m |-> IF n = 0 THEN Zero ELSE SymDiff(p[n - 1], g[n])]
<1>1. ASSUME NEW n \in 1 .. m, NEW v \in Byte PROVE SymDiff(v, g[n]) \in Byte
  BY SumIsByte
<1>2. Zero \in Byte
  BY DEF Arithmetic
<1>3. PICK r \in [0 .. m -> Byte] :
        r[0] = Zero /\ \A n \in 1 .. m : r[n] = SymDiff(r[n - 1], g[n])
  <2>1. \A n \in 1 .. m : \A v \in Byte : step[n][v] \in Byte /\ step[n][v] = SymDiff(v, g[n])
    BY <1>1
  <2> HIDE DEF step
  <2>2. Runs(m, Byte, Zero, step) # {}
    BY <1>2, <2>1, LoopRuns
  <2>3. PICK r \in [0 .. m -> Byte] : r[0] = Zero /\ \A n \in 1 .. m : r[n] = step[n][r[n - 1]]
    BY <2>2 DEF Runs
  <2>4. ASSUME NEW n \in 1 .. m PROVE r[n] = SymDiff(r[n - 1], g[n])
    <3>1. r[n - 1] \in Byte
      BY <2>3
    <3> QED BY <2>1, <2>3, <3>1
  <2> QED BY <2>3, <2>4
<1>4. PICK p : R(p) /\ SumOf(g) = p[m]
  <2>1. ASSUME NEW n \in 0 .. m PROVE r[n] = IF n = 0 THEN Zero ELSE SymDiff(r[n - 1], g[n])
    <3>1. n # 0 => n \in 1 .. m
      OBVIOUS
    <3> QED BY <1>3, <3>1
  <2>2. R(r)
    BY <2>1
  <2>3. Len(g) = m
    OBVIOUS
  <2>4. SumOf(g) = (CHOOSE p : R(p))[m]
    BY <2>3 DEF SumOf
  <2> HIDE DEF R
  <2> QED BY <2>2, <2>4
<1>5. p[0] = Zero /\ \A n \in 1 .. m : p[n] = SymDiff(p[n - 1], g[n])
  BY <1>4
<1>6. \A n \in 0 .. m : p[n] = r[n]
  <2> DEFINE S == {n \in 0 .. m : p[n] = r[n]}
  <2>1. 0 \in S
    BY <1>3, <1>5
  <2>2. ASSUME NEW n \in 0 .. m - 1, n \in S PROVE n + 1 \in S
    <3>1. n + 1 \in 1 .. m /\ (n + 1) - 1 = n
      OBVIOUS
    <3>2. p[n] = r[n]
      BY <2>2
    <3>3. p[n + 1] = r[n + 1]
      BY <1>3, <1>5, <3>1, <3>2
    <3> QED BY <3>1, <3>3
  <2>3. 0 .. m \subseteq S
    <3> HIDE DEF S
    <3> QED BY <2>1, <2>2, UpTo
  <2> QED BY <2>3
<1> QED BY <1>3, <1>4, <1>6

(* The product of all but the j-th.                                        *)
LEMMA ProductLoop ==
  ASSUME Arithmetic, NEW m \in Nat, NEW g \in [1 .. m -> Byte], NEW j \in Nat
  PROVE  \E r \in [0 .. m -> Byte] :
           /\ r[0] = One
           /\ \A n \in 1 .. m : /\ n = j => r[n] = r[n - 1]
                                /\ n # j => r[n] = gfMul(r[n - 1], g[n])
           /\ ProductBut(g, j) = r[m]
<1> DEFINE step == [n \in 1 .. m |-> [v \in Byte |-> (IF n = j THEN v ELSE gfMul(v, g[n]))]]
           R(p) == p = [n \in 0 .. m |-> IF n = 0 THEN One ELSE (IF n = j THEN p[n - 1] ELSE gfMul(p[n - 1], g[n]))]
<1>1. ASSUME NEW n \in 1 .. m, NEW v \in Byte PROVE (IF n = j THEN v ELSE gfMul(v, g[n])) \in Byte
  BY DEF Arithmetic
<1>2. One \in Byte
  BY DEF Arithmetic
<1>3. PICK r \in [0 .. m -> Byte] :
        r[0] = One /\ \A n \in 1 .. m : r[n] = (IF n = j THEN r[n - 1] ELSE gfMul(r[n - 1], g[n]))
  <2>1. \A n \in 1 .. m : \A v \in Byte : step[n][v] \in Byte /\ step[n][v] = (IF n = j THEN v ELSE gfMul(v, g[n]))
    BY <1>1
  <2> HIDE DEF step
  <2>2. Runs(m, Byte, One, step) # {}
    BY <1>2, <2>1, LoopRuns
  <2>3. PICK r \in [0 .. m -> Byte] : r[0] = One /\ \A n \in 1 .. m : r[n] = step[n][r[n - 1]]
    BY <2>2 DEF Runs
  <2>4. ASSUME NEW n \in 1 .. m PROVE r[n] = (IF n = j THEN r[n - 1] ELSE gfMul(r[n - 1], g[n]))
    <3>1. r[n - 1] \in Byte
      BY <2>3
    <3> QED BY <2>1, <2>3, <3>1
  <2> QED BY <2>3, <2>4
<1>4. PICK p : R(p) /\ ProductBut(g, j) = p[m]
  <2>1. ASSUME NEW n \in 0 .. m PROVE r[n] = IF n = 0 THEN One ELSE (IF n = j THEN r[n - 1] ELSE gfMul(r[n - 1], g[n]))
    <3>1. n # 0 => n \in 1 .. m
      OBVIOUS
    <3> QED BY <1>3, <3>1
  <2>2. R(r)
    BY <2>1
  <2>3. Len(g) = m
    OBVIOUS
  <2>4. ProductBut(g, j) = (CHOOSE p : R(p))[m]
    BY <2>3 DEF ProductBut
  <2> HIDE DEF R
  <2> QED BY <2>2, <2>4
<1>5. p[0] = One /\ \A n \in 1 .. m : p[n] = (IF n = j THEN p[n - 1] ELSE gfMul(p[n - 1], g[n]))
  BY <1>4
<1>6. \A n \in 0 .. m : p[n] = r[n]
  <2> DEFINE S == {n \in 0 .. m : p[n] = r[n]}
  <2>1. 0 \in S
    BY <1>3, <1>5
  <2>2. ASSUME NEW n \in 0 .. m - 1, n \in S PROVE n + 1 \in S
    <3>1. n + 1 \in 1 .. m /\ (n + 1) - 1 = n
      OBVIOUS
    <3>2. p[n] = r[n]
      BY <2>2
    <3>3. p[n + 1] = r[n + 1]
      BY <1>3, <1>5, <3>1, <3>2
    <3> QED BY <3>1, <3>3
  <2>3. 0 .. m \subseteq S
    <3> HIDE DEF S
    <3> QED BY <2>1, <2>2, UpTo
  <2> QED BY <2>3
<1> QED BY <1>3, <1>4, <1>6

(* Horner's method.                                                        *)
LEMMA EvalLoop ==
  ASSUME Arithmetic, NEW m \in Nat, NEW g \in [1 .. m -> Byte], NEW z \in Byte
  PROVE  \E r \in [0 .. m -> Byte] :
           /\ r[0] = Zero
           /\ \A n \in 1 .. m : r[n] = SymDiff(gfMul(r[n - 1], z), g[m + 1 - n])
           /\ eval(g, z) = r[m]
<1> DEFINE step == [n \in 1 .. m |-> [v \in Byte |-> SymDiff(gfMul(v, z), g[m + 1 - n])]]
           R(p) == p = [n \in 0 .. m |-> IF n = 0 THEN Zero ELSE SymDiff(gfMul(p[n - 1], z), g[m + 1 - n])]
<1>1. ASSUME NEW n \in 1 .. m, NEW v \in Byte PROVE SymDiff(gfMul(v, z), g[m + 1 - n]) \in Byte
  <2>1. m + 1 - n \in 1 .. m /\ gfMul(v, z) \in Byte
    BY DEF Arithmetic
  <2> QED BY <2>1, SumIsByte
<1>2. Zero \in Byte
  BY DEF Arithmetic
<1>3. PICK r \in [0 .. m -> Byte] :
        r[0] = Zero /\ \A n \in 1 .. m : r[n] = SymDiff(gfMul(r[n - 1], z), g[m + 1 - n])
  <2>1. \A n \in 1 .. m : \A v \in Byte : step[n][v] \in Byte /\ step[n][v] = SymDiff(gfMul(v, z), g[m + 1 - n])
    BY <1>1
  <2> HIDE DEF step
  <2>2. Runs(m, Byte, Zero, step) # {}
    BY <1>2, <2>1, LoopRuns
  <2>3. PICK r \in [0 .. m -> Byte] : r[0] = Zero /\ \A n \in 1 .. m : r[n] = step[n][r[n - 1]]
    BY <2>2 DEF Runs
  <2>4. ASSUME NEW n \in 1 .. m PROVE r[n] = SymDiff(gfMul(r[n - 1], z), g[m + 1 - n])
    <3>1. r[n - 1] \in Byte
      BY <2>3
    <3> QED BY <2>1, <2>3, <3>1
  <2> QED BY <2>3, <2>4
<1>4. PICK p : R(p) /\ eval(g, z) = p[m]
  <2>1. ASSUME NEW n \in 0 .. m PROVE r[n] = IF n = 0 THEN Zero ELSE SymDiff(gfMul(r[n - 1], z), g[m + 1 - n])
    <3>1. n # 0 => n \in 1 .. m
      OBVIOUS
    <3> QED BY <1>3, <3>1
  <2>2. R(r)
    BY <2>1
  <2>3. Len(g) = m
    OBVIOUS
  <2>4. eval(g, z) = (CHOOSE p : R(p))[m]
    BY <2>3 DEF eval
  <2> HIDE DEF R
  <2> QED BY <2>2, <2>4
<1>5. p[0] = Zero /\ \A n \in 1 .. m : p[n] = SymDiff(gfMul(p[n - 1], z), g[m + 1 - n])
  BY <1>4
<1>6. \A n \in 0 .. m : p[n] = r[n]
  <2> DEFINE S == {n \in 0 .. m : p[n] = r[n]}
  <2>1. 0 \in S
    BY <1>3, <1>5
  <2>2. ASSUME NEW n \in 0 .. m - 1, n \in S PROVE n + 1 \in S
    <3>1. n + 1 \in 1 .. m /\ (n + 1) - 1 = n
      OBVIOUS
    <3>2. p[n] = r[n]
      BY <2>2
    <3>3. p[n + 1] = r[n + 1]
      BY <1>3, <1>5, <3>1, <3>2
    <3> QED BY <3>1, <3>3
  <2>3. 0 .. m \subseteq S
    <3> HIDE DEF S
    <3> QED BY <2>1, <2>2, UpTo
  <2> QED BY <2>3
<1> QED BY <1>3, <1>4, <1>6

(* Doubling is multiplication by 3 + 1.                                    *)
LEMMA Doubles ==
  ASSUME Filled, Ready
  PROVE  \E d \in Byte : \A y \in Byte : Doubled(y) = gfMul(d, y)
<1>1. field \in Fields /\ Arithmetic
  BY ReadyArithmetic DEF Filled
<1>2. PICK three \in Byte : three = Pow(field, 1)
  BY <1>1, Pows DEF Byte
<1>3. PICK d \in Byte : d = SymDiff(three, One)
  BY <1>1, <1>2, SumIsByte DEF Arithmetic
<1>4. ASSUME NEW y \in Byte PROVE TripledIn(field, y) = gfMul(three, y)
  <2>1. CASE y = Zero
    <3>1. gfMul(three, Zero) = Zero
      BY DEF gfMul
    <3>2. TripledIn(field, Zero) = Zero
      BY <1>1, Linear, Widths
    <3> QED BY <2>1, <3>1, <3>2
  <2>2. CASE y # Zero
    <3>1. PICK k \in 0 .. Size(field) - 1 : y = Pow(field, k)
      BY <1>1, <2>2, Pows DEF Byte
    <3>2. k \in Nat /\ 1 + k = k + 1
      BY <1>1, Widths
    <3>3. gfMul(Pow(field, 1), Pow(field, k)) = Pow(field, 1 + k)
      BY <3>2, MultipliesPows
    <3>4. Pow(field, k + 1) = TripledIn(field, Pow(field, k))
      BY <1>1, <3>2, Pows
    <3> QED BY <1>2, <3>1, <3>2, <3>3, <3>4
  <2> QED BY <2>1, <2>2
<1>5. ASSUME NEW y \in Byte PROVE Doubled(y) = gfMul(d, y)
  <2>1. PICK e : e = Doubled(y)
    OBVIOUS
  <2>2. SymDiff(e, y) = gfMul(three, y)
    BY <1>4, <2>1 DEF TripledIn, Doubled
  <2>3. e = SymDiff(gfMul(three, y), y)
    BY <2>2, SymDiffs
  <2>4. gfMul(three, y) = gfMul(y, three) /\ y = gfMul(y, One)
    BY <1>1, <1>2 DEF Arithmetic
  <2>5. gfMul(y, SymDiff(three, One)) = SymDiff(gfMul(y, three), gfMul(y, One))
    BY <1>1, <1>2 DEF Arithmetic
  <2>6. gfMul(y, d) = gfMul(d, y)
    BY <1>1 DEF Arithmetic
  <2> QED BY <1>3, <2>1, <2>3, <2>4, <2>5, <2>6
<1> QED BY <1>5

(* The multiples that the reference adds up are products with powers of 2. *)
LEMMA TimesLoop ==
  ASSUME Filled, Ready, NEW a \in Byte, NEW b \in Byte
  PROVE  Product(a, b) = SumOf([k \in 1 .. field.bits |->
                                  IF k - 1 \in b THEN gfMul(a, {k - 1}) ELSE Zero])
<1> DEFINE w == field.bits
           R(p) == p = [k \in 0 .. w - 1 |-> IF k = 0 THEN a ELSE Doubled(p[k - 1])]
           times == CHOOSE p : R(p)
           r == [k \in 0 .. w - 1 |-> gfMul(a, {k})]
<1>1. field \in Fields /\ Arithmetic /\ w \in Nat \ {0}
  BY ReadyArithmetic, Widths DEF Filled
<1>2. PICK d \in Byte : \A y \in Byte : Doubled(y) = gfMul(d, y)
  BY Doubles
<1>3. \A k \in 0 .. w - 1 : {k} \in Byte
  BY DEF Byte, Bytes
<1>4. gfMul(a, {0}) = a
  <2>1. gfMul(a, One) = gfMul(One, a)
    BY <1>1 DEF Arithmetic
  <2>2. gfMul(One, a) = a
    BY <1>1 DEF Arithmetic
  <2> QED BY <2>1, <2>2 DEF One
<1>5. ASSUME NEW k \in 1 .. w - 1 PROVE gfMul(a, {k}) = Doubled(gfMul(a, {k - 1}))
  <2>1. PICK c \in Byte : c = {k - 1}
    <3>1. k - 1 \in 0 .. w - 1
      BY <1>1
    <3> HIDE DEF w
    <3> QED BY <1>3, <3>1
  <2>2. Doubled(c) = {k}
    <3>1. field.bits - 1 \notin c /\ c \ {field.bits - 1} = c /\ (k - 1) + 1 = k
      BY <1>1, <2>1
    <3>2. {n + 1 : n \in c} = {k}
      BY <2>1, <3>1
    <3>3. SymDiff({k}, {}) = {k}
      BY DEF SymDiff
    <3>4. Doubled(c) = SymDiff({n + 1 : n \in c}, {})
      BY <3>1 DEF Doubled, DoubledIn
    <3> QED BY <3>2, <3>3, <3>4
  <2>3. gfMul(d, c) = {k}
    BY <1>2, <2>2
  <2>4. PICK ac \in Byte : ac = gfMul(a, c)
    BY <1>1 DEF Arithmetic
  <2>5. gfMul(gfMul(a, d), c) = gfMul(a, gfMul(d, c)) /\ gfMul(gfMul(d, a), c) = gfMul(d, gfMul(a, c))
    BY <1>1 DEF Arithmetic
  <2>6. gfMul(a, d) = gfMul(d, a)
    BY <1>1 DEF Arithmetic
  <2>7. Doubled(ac) = gfMul(d, ac)
    BY <1>2
  <2> QED BY <2>1, <2>3, <2>4, <2>5, <2>6, <2>7
<1>6. R(r)
  <2>1. ASSUME NEW k \in 0 .. w - 1 PROVE r[k] = IF k = 0 THEN a ELSE Doubled(r[k - 1])
    <3>1. k = 0 \/ (k \in 1 .. w - 1 /\ k - 1 \in 0 .. w - 1)
      BY <1>1
    <3> QED BY <1>4, <1>5, <3>1
  <2> QED BY <2>1
<1>7. R(times)
  <2> HIDE DEF R, r
  <2> QED BY <1>6
<1>8. \A k \in 0 .. w - 1 : times[k] = gfMul(a, {k})
  <2> DEFINE S == {k \in 0 .. w - 1 : times[k] = gfMul(a, {k})}
  <2>1. times[0] = a /\ \A k \in 1 .. w - 1 : times[k] = Doubled(times[k - 1])
    <3> HIDE DEF times
    <3> QED BY <1>1, <1>7
  <2> HIDE DEF times
  <2>2. 0 \in S
    BY <1>1, <1>4, <2>1
  <2>3. ASSUME NEW k \in 0 .. (w - 1) - 1, k \in S PROVE k + 1 \in S
    <3>1. k + 1 \in 1 .. w - 1 /\ (k + 1) - 1 = k
      BY <1>1
    <3>2. times[k + 1] = Doubled(times[k]) /\ gfMul(a, {k + 1}) = Doubled(gfMul(a, {k}))
      BY <1>5, <2>1, <3>1
    <3>3. times[k] = gfMul(a, {k})
      BY <2>3
    <3> QED BY <3>1, <3>2, <3>3
  <2>4. PICK m \in Nat : m = w - 1
    BY <1>1
  <2>5. 0 .. m \subseteq S
    <3> HIDE DEF S
    <3> QED BY <2>2, <2>3, <2>4, UpTo
  <2> QED BY <2>4, <2>5
<1>9. Product(a, b) = SumOf([k \in 1 .. w |-> IF k - 1 \in b THEN times[k - 1] ELSE Zero])
  BY DEF Product
<1>10. [k \in 1 .. w |-> IF k - 1 \in b THEN times[k - 1] ELSE Zero]
         = [k \in 1 .. w |-> IF k - 1 \in b THEN gfMul(a, {k - 1}) ELSE Zero]
  <2>1. \A k \in 1 .. w : k - 1 \in 0 .. w - 1
    BY <1>1
  <2>2. \A k \in 1 .. w : times[k - 1] = gfMul(a, {k - 1})
    <3> HIDE DEF times, w
    <3> QED BY <1>8, <2>1
  <2> HIDE DEF times, w
  <2> QED BY <2>2
<1> HIDE DEF times
<1> QED BY <1>9, <1>10

(* gfMul is the product of polynomials over GF(2), reduced.                *)
LEMMA MultipliesAsPolynomials ==
  ASSUME Filled, Ready, NEW a \in Byte, NEW b \in Byte
  PROVE  gfMul(a, b) = Product(a, b)
<1> DEFINE w == field.bits
           g == [k \in 1 .. w |-> IF k - 1 \in b THEN gfMul(a, {k - 1}) ELSE Zero]
           upTo(n) == {k \in b : k < n}
<1>1. field \in Fields /\ Arithmetic /\ w \in Nat \ {0}
  BY ReadyArithmetic, Widths DEF Filled
<1>2. \A k \in 0 .. w - 1 : {k} \in Byte /\ gfMul(a, {k}) \in Byte
  <2>1. \A k \in 0 .. w - 1 : {k} \in Byte
    BY DEF Byte, Bytes
  <2> QED BY <1>1, <2>1 DEF Arithmetic
<1>3. g \in [1 .. w -> Byte]
  <2>1. \A k \in 1 .. w : k - 1 \in 0 .. w - 1
    BY <1>1
  <2> QED BY <1>1, <1>2, <2>1 DEF Arithmetic
<1>4. PICK m \in Nat : m = w
  BY <1>1
<1>5. PICK s \in [0 .. m -> Byte] :
        s[0] = Zero /\ (\A n \in 1 .. m : s[n] = SymDiff(s[n - 1], g[n])) /\ SumOf(g) = s[m]
  <2>1. g \in [1 .. m -> Byte]
    BY <1>3, <1>4
  <2> HIDE DEF g
  <2> QED BY <1>1, <2>1, SumLoop
<1>6. \A n : upTo(n) \in Byte
  BY DEF Byte, Bytes
<1> DEFINE S == {n \in 0 .. m : s[n] = gfMul(a, upTo(n))}
<1>7. 0 \in S
  <2>1. \A k \in b : k \in Nat
    BY DEF Byte, Bytes
  <2>2. upTo(0) = Zero
    BY <2>1 DEF Zero
  <2>3. gfMul(a, Zero) = Zero
    BY DEF gfMul
  <2> HIDE DEF upTo
  <2> QED BY <1>5, <2>2, <2>3
<1>8. ASSUME NEW n \in 0 .. m - 1, n \in S PROVE n + 1 \in S
  <2>1. n + 1 \in 1 .. m /\ (n + 1) - 1 = n /\ n \in 0 .. w - 1
    BY <1>4
  <2>2. s[n + 1] = SymDiff(s[n], g[n + 1])
    <3> HIDE DEF g
    <3> QED BY <1>5, <2>1
  <2>3. g[n + 1] = IF n \in b THEN gfMul(a, {n}) ELSE Zero
    BY <1>4, <2>1
  <2>4. s[n] = gfMul(a, upTo(n))
    BY <1>8
  <2>5. \A k \in b : k \in Int
    BY DEF Byte, Bytes
  <2>6. CASE n \in b
    <3>1. upTo(n + 1) = SymDiff(upTo(n), {n})
      <4>1. upTo(n + 1) = upTo(n) \cup {n} /\ n \notin upTo(n)
        <5>1. n \in Int
          OBVIOUS
        <5>2. ASSUME NEW k \in b PROVE k < n + 1 <=> k < n \/ k = n
          <6>1. k \in Int
            BY <2>5
          <6> QED BY <5>1, <6>1
        <5>3. n \notin upTo(n)
          BY <5>1
        <5>4. ASSUME NEW k PROVE k \in upTo(n + 1) <=> k \in upTo(n) \cup {n}
          BY <2>6, <5>2
        <5> HIDE DEF upTo
        <5> QED BY <5>3, <5>4
      <4> HIDE DEF upTo
      <4> QED BY <4>1 DEF SymDiff
    <3>2. PICK u \in Byte, v \in Byte : u = upTo(n) /\ v = {n}
      BY <1>2, <1>6, <2>1
    <3>3. gfMul(a, SymDiff(u, v)) = SymDiff(gfMul(a, u), gfMul(a, v))
      BY <1>1 DEF Arithmetic
    <3> HIDE DEF upTo, g
    <3>4. s[n + 1] = gfMul(a, upTo(n + 1))
      BY <2>2, <2>3, <2>4, <2>6, <3>1, <3>2, <3>3
    <3> QED BY <2>1, <3>4
  <2>7. CASE n \notin b
    <3>1. upTo(n + 1) = upTo(n)
      BY <2>5, <2>7
    <3> HIDE DEF upTo, g
    <3>2. s[n + 1] = s[n]
      BY <2>2, <2>3, <2>7, SymDiffs
    <3> QED BY <2>1, <2>4, <3>1, <3>2
  <2> QED BY <2>6, <2>7
<1>9. m \in S
  <2>1. 0 .. m \subseteq S
    <3> HIDE DEF S
    <3> QED BY <1>7, <1>8, UpTo
  <2> HIDE DEF S
  <2> QED BY <2>1
<1>10. upTo(m) = b
  <2>1. \A k \in b : k \in 0 .. w - 1
    BY DEF Byte, Bytes
  <2>2. \A k \in b : k < m
    BY <1>4, <2>1
  <2> QED BY <2>2
<1>11. SumOf(g) = gfMul(a, b)
  <2>1. s[m] = gfMul(a, upTo(m))
    <3> HIDE DEF upTo
    <3> QED BY <1>9
  <2> HIDE DEF g, upTo
  <2> QED BY <1>5, <1>10, <2>1
<1>12. Product(a, b) = SumOf(g)
  BY TimesLoop
<1> QED BY <1>11, <1>12

(* The tables of init() compute the arithmetic of the field, for every     *)
(* pair of bytes.                                                          *)
LEMMA FilledFieldArithmetic == Filled => FieldArithmetic
<1> SUFFICES ASSUME Filled, Ready, NEW a \in Byte, NEW b \in Byte
             PROVE  /\ gfMul(a, b) = Product(a, b)
                    /\ b # Zero => gfMul(gfDiv(a, b), b) = a
  BY DEF FieldArithmetic
<1> QED BY MultipliesAsPolynomials, Divides

(* What one more turn of a loop adds.                                      *)
LEMMA SumStep ==
  ASSUME Arithmetic, NEW m \in Nat, NEW g \in [1 .. m + 1 -> Byte]
  PROVE  /\ SumOf(g) = SymDiff(SumOf([k \in 1 .. m |-> g[k]]), g[m + 1])
         /\ SumOf([k \in 1 .. m |-> g[k]]) \in Byte /\ SumOf(g) \in Byte
<1> DEFINE h == [k \in 1 .. m |-> g[k]]
<1>1. h \in [1 .. m -> Byte] /\ m + 1 \in Nat
  OBVIOUS
<1>2. PICK r \in [0 .. m + 1 -> Byte] :
        r[0] = Zero /\ (\A n \in 1 .. m + 1 : r[n] = SymDiff(r[n - 1], g[n])) /\ SumOf(g) = r[m + 1]
  BY <1>1, SumLoop
<1>3. PICK s \in [0 .. m -> Byte] :
        s[0] = Zero /\ (\A n \in 1 .. m : s[n] = SymDiff(s[n - 1], h[n])) /\ SumOf(h) = s[m]
  <2> HIDE DEF h
  <2> QED BY <1>1, SumLoop
<1> DEFINE S == {n \in 0 .. m : r[n] = s[n]}
<1>4. 0 \in S
  BY <1>2, <1>3
<1>5. ASSUME NEW n \in 0 .. m - 1, n \in S PROVE n + 1 \in S
  <2>1. n + 1 \in 1 .. m /\ n + 1 \in 1 .. m + 1 /\ (n + 1) - 1 = n
    OBVIOUS
  <2>2. h[n + 1] = g[n + 1] /\ r[n] = s[n]
    BY <1>5, <2>1
  <2>3. r[n + 1] = s[n + 1]
    <3> HIDE DEF h
    <3> QED BY <1>2, <1>3, <2>1, <2>2
  <2> QED BY <2>1, <2>3
<1>6. 0 .. m \subseteq S
  <2> HIDE DEF S
  <2> QED BY <1>4, <1>5, UpTo
<1>7. r[m] = s[m]
  BY <1>6
<1>8. r[m + 1] = SymDiff(r[m], g[m + 1])
  <2>1. m + 1 \in 1 .. m + 1 /\ (m + 1) - 1 = m
    OBVIOUS
  <2> QED BY <1>2, <2>1
<1>9. /\ SumOf(g) = SymDiff(SumOf(h), g[m + 1])
      /\ SumOf(h) \in Byte /\ SumOf(g) \in Byte
  <2> HIDE DEF h
  <2> QED BY <1>2, <1>3, <1>7, <1>8
<1> QED BY <1>9

(* One more factor, which is skipped if it is the j-th.                    *)
LEMMA ProductStep ==
  ASSUME Arithmetic, NEW m \in Nat, NEW g \in [1 .. m + 1 -> Byte], NEW j \in Nat
  PROVE  /\ ProductBut(g, j) = IF m + 1 = j THEN ProductBut([k \in 1 .. m |-> g[k]], j)
                               ELSE gfMul(ProductBut([k \in 1 .. m |-> g[k]], j), g[m + 1])
         /\ ProductBut([k \in 1 .. m |-> g[k]], j) \in Byte /\ ProductBut(g, j) \in Byte
<1> DEFINE h == [k \in 1 .. m |-> g[k]]
<1>1. h \in [1 .. m -> Byte] /\ m + 1 \in Nat
  OBVIOUS
<1>2. PICK r \in [0 .. m + 1 -> Byte] :
        /\ r[0] = One /\ ProductBut(g, j) = r[m + 1]
        /\ \A n \in 1 .. m + 1 : n = j => r[n] = r[n - 1]
        /\ \A n \in 1 .. m + 1 : n # j => r[n] = gfMul(r[n - 1], g[n])
  BY <1>1, ProductLoop
<1>3. PICK s \in [0 .. m -> Byte] :
        /\ s[0] = One /\ ProductBut(h, j) = s[m]
        /\ \A n \in 1 .. m : n = j => s[n] = s[n - 1]
        /\ \A n \in 1 .. m : n # j => s[n] = gfMul(s[n - 1], h[n])
  <2> HIDE DEF h
  <2> QED BY <1>1, ProductLoop
<1> DEFINE S == {n \in 0 .. m : r[n] = s[n]}
<1>4. 0 \in S
  BY <1>2, <1>3
<1>5. ASSUME NEW n \in 0 .. m - 1, n \in S PROVE n + 1 \in S
  <2>1. n + 1 \in 1 .. m /\ n + 1 \in 1 .. m + 1 /\ (n + 1) - 1 = n
    OBVIOUS
  <2>2. h[n + 1] = g[n + 1] /\ r[n] = s[n]
    BY <1>5, <2>1
  <2>3. r[n + 1] = s[n + 1]
    <3> HIDE DEF h
    <3> QED BY <1>2, <1>3, <2>1, <2>2
  <2> QED BY <2>1, <2>3
<1>6. 0 .. m \subseteq S
  <2> HIDE DEF S
  <2> QED BY <1>4, <1>5, UpTo
<1>7. r[m] = s[m]
  BY <1>6
<1>8. r[m + 1] = IF m + 1 = j THEN r[m] ELSE gfMul(r[m], g[m + 1])
  <2>1. m + 1 \in 1 .. m + 1 /\ (m + 1) - 1 = m
    OBVIOUS
  <2> QED BY <1>2, <2>1
<1>9. /\ ProductBut(g, j) = IF m + 1 = j THEN ProductBut(h, j)
                             ELSE gfMul(ProductBut(h, j), g[m + 1])
      /\ ProductBut(h, j) \in Byte /\ ProductBut(g, j) \in Byte
  <2> HIDE DEF h
  <2> QED BY <1>2, <1>3, <1>7, <1>8
<1> QED BY <1>9

(* The empty sum and the empty product.                                    *)
LEMMA NoBytes ==
  ASSUME Arithmetic, NEW g \in [1 .. 0 -> Byte], NEW j \in Nat
  PROVE  SumOf(g) = Zero /\ ProductBut(g, j) = One
<1>1. SumOf(g) = Zero
  BY SumLoop
<1>2. ProductBut(g, j) = One
  <2>1. PICK m \in Nat : m = 0
    OBVIOUS
  <2>2. g \in [1 .. m -> Byte]
    BY <2>1
  <2>3. PICK r \in [0 .. m -> Byte] : r[0] = One /\ ProductBut(g, j) = r[m]
    BY <2>2, ProductLoop
  <2> QED BY <2>1, <2>3
<1> QED BY <1>1, <1>2

(* A product is zero exactly when one of the factors in it is.             *)
LEMMA ProductZero ==
  ASSUME Arithmetic, NEW m \in Nat, NEW g \in [1 .. m -> Byte], NEW j \in Nat
  PROVE  /\ ProductBut(g, j) \in Byte
         /\ ProductBut(g, j) = Zero <=> \E k \in 1 .. m : k # j /\ g[k] = Zero
<1> DEFINE Q(p, n) == /\ ProductBut(p, j) \in Byte
                      /\ ProductBut(p, j) = Zero <=> \E k \in 1 .. n : k # j /\ p[k] = Zero
           S == {n \in Nat : \A p \in [1 .. n -> Byte] : Q(p, n)}
<1>1. 0 \in S
  <2> SUFFICES ASSUME NEW p \in [1 .. 0 -> Byte] PROVE Q(p, 0)
    OBVIOUS
  <2>1. ProductBut(p, j) = One
    BY NoBytes
  <2> QED BY <2>1 DEF Arithmetic
<1>2. ASSUME NEW n \in Nat, n \in S PROVE n + 1 \in S
  <2> SUFFICES ASSUME NEW p \in [1 .. n + 1 -> Byte] PROVE Q(p, n + 1)
    OBVIOUS
  <2> DEFINE h == [k \in 1 .. n |-> p[k]]
  <2>1. h \in [1 .. n -> Byte]
    OBVIOUS
  <2>2. Q(h, n)
    <3> HIDE DEF h, Q
    <3> QED BY <1>2, <2>1
  <2>3. \A k \in 1 .. n : h[k] = p[k]
    OBVIOUS
  <2>4. ProductBut(p, j) = (IF n + 1 = j THEN ProductBut(h, j) ELSE gfMul(ProductBut(h, j), p[n + 1]))
        /\ ProductBut(p, j) \in Byte
    BY ProductStep
  <2>5. PICK u \in Byte : u = ProductBut(h, j)
    BY <2>2
  <2>6. p[n + 1] \in Byte
    OBVIOUS
  <2>7. u = Zero <=> \E k \in 1 .. n : k # j /\ p[k] = Zero
    <3> HIDE DEF h
    <3> QED BY <2>2, <2>3, <2>5
  <2>8. \A k \in 1 .. n + 1 : k \in 1 .. n \/ k = n + 1
    OBVIOUS
  <2>9. n + 1 \in 1 .. n + 1 /\ \A k \in 1 .. n : k \in 1 .. n + 1 /\ k # n + 1
    OBVIOUS
  <2>10. CASE n + 1 = j
    <3> HIDE DEF h
    <3> QED BY <2>4, <2>5, <2>7, <2>8, <2>9, <2>10
  <2>11. CASE n + 1 # j
    <3>1. ProductBut(p, j) = gfMul(u, p[n + 1])
      <4> HIDE DEF h
      <4> QED BY <2>4, <2>5, <2>11
    <3>2. \A b \in Byte : gfMul(b, Zero) = Zero /\ gfMul(Zero, b) = Zero
      BY DEF gfMul
    <3>3. ProductBut(p, j) = Zero <=> u = Zero \/ p[n + 1] = Zero
      <4>1. PICK e \in Byte : e = p[n + 1]
        BY <2>6
      <4>2. u # Zero /\ e # Zero => gfMul(u, e) # Zero
        BY DEF Arithmetic
      <4> HIDE DEF h
      <4> QED BY <3>1, <3>2, <4>1, <4>2
    <3> QED BY <2>4, <2>7, <2>8, <2>9, <2>11, <3>3
  <2> QED BY <2>10, <2>11
<1>3. Nat \subseteq S
  <2> HIDE DEF S
  <2> QED BY <1>1, <1>2, NatInduct
<1>4. m \in S
  BY <1>3
<1> QED BY <1>4

(* combine's denominators are not 0: the coordinates it accepts are all    *)
(* different.                                                              *)
LEMMA Denominators ==
  ASSUME Arithmetic, NEW m \in Nat, NEW shares \in [1 .. m -> [x : Byte, y : Seq(Byte)]],
         CanCombine(shares), NEW j \in 1 .. m
  PROVE  Denominator(shares, j) \in Byte \ {Zero} /\ Numerator(shares, j) \in Byte
<1> DEFINE g == [k \in 1 .. m |-> SymDiff(shares[j].x, shares[k].x)]
           p == [k \in 1 .. m |-> shares[k].x]
<1>1. \A k \in 1 .. m : shares[k].x \in Byte
  OBVIOUS
<1>2. g \in [1 .. m -> Byte] /\ p \in [1 .. m -> Byte]
  BY <1>1, SumIsByte
<1>3. ASSUME NEW k \in 1 .. m, k # j PROVE g[k] # Zero
  <2>1. shares[j].x # shares[k].x
    BY <1>3 DEF CanCombine, IsInjective
  <2> QED BY <2>1, SymDiffs
<1>4. Denominator(shares, j) = ProductBut(g, j) /\ Numerator(shares, j) = ProductBut(p, j)
  BY DEF Denominator, Numerator
<1>5. j \in Nat
  OBVIOUS
<1>6. ProductBut(p, j) \in Byte /\ ProductBut(g, j) \in Byte
  <2> HIDE DEF g, p
  <2> QED BY <1>2, <1>5, ProductZero
<1>7. ProductBut(g, j) # Zero
  <2> HIDE DEF g
  <2> QED BY <1>2, <1>3, <1>5, ProductZero
<1> HIDE DEF g, p
<1> QED BY <1>4, <1>6, <1>7

(* A sum of bytes is a byte.                                               *)
LEMMA SumIs ==
  ASSUME Arithmetic, NEW m \in Nat, NEW g \in [1 .. m -> Byte]
  PROVE  SumOf(g) \in Byte
BY SumLoop

(* Lines that combine accepts neither panic nor print anything but bytes.  *)
LEMMA CombineType ==
  ASSUME Arithmetic, NEW m \in Nat, NEW shares \in [1 .. m -> [x : Byte, y : Seq(Byte)]],
         CanCombine(shares)
  PROVE  ~Panics(shares) /\ Combine(shares) \in Seq(Byte)
<1>1. ~Panics(shares)
  BY Denominators DEF Panics
<1>2. m >= 2 /\ \A j \in 1 .. m : Len(shares[j].y) = Len(shares[1].y)
  BY DEF CanCombine
<1> DEFINE basis(j) == gfDiv(Numerator(shares, j), Denominator(shares, j))
           g(n) == [j \in 1 .. m |-> gfMul(shares[j].y[n], basis(j))]
<1>3. PICK w \in Nat : w = Len(shares[1].y) /\ DOMAIN shares[1].y = 1 .. w
  <2>1. shares[1].y \in Seq(Byte)
    BY <1>2
  <2> QED BY <2>1
<1>4. ASSUME NEW n \in 1 .. w PROVE SumOf(g(n)) \in Byte
  <2>1. ASSUME NEW j \in 1 .. m PROVE gfMul(shares[j].y[n], basis(j)) \in Byte
    <3>1. shares[j].y \in Seq(Byte) /\ Len(shares[j].y) = w
      BY <1>2, <1>3
    <3>2. shares[j].y[n] \in Byte
      BY <3>1
    <3>3. basis(j) \in Byte
      BY Denominators DEF Arithmetic
    <3> HIDE DEF basis
    <3> QED BY <3>2, <3>3 DEF Arithmetic
  <2>2. g(n) \in [1 .. m -> Byte]
    <3> HIDE DEF basis
    <3> QED BY <2>1
  <2> HIDE DEF g
  <2> QED BY <2>2, SumIs
<1>5. Combine(shares) = [n \in 1 .. w |-> SumOf(g(n))]
  BY <1>3 DEF Combine
<1> HIDE DEF g
<1>6. [n \in 1 .. w |-> SumOf(g(n))] \in [1 .. w -> Byte]
  BY <1>4
<1> QED BY <1>1, <1>5, <1>6

(* The functions that m coefficients define.                               *)
Poly(m) == {[z \in Byte |-> eval(c, z)] : c \in [1 .. m -> Byte]}

(* Horner's method, one coefficient at a time.                             *)
LEMMA EvalStep ==
  ASSUME Arithmetic, NEW m \in Nat, NEW c \in [1 .. m + 1 -> Byte], NEW z \in Byte
  PROVE  /\ eval(c, z) = SymDiff(gfMul(eval([k \in 1 .. m |-> c[k + 1]], z), z), c[1])
         /\ eval([k \in 1 .. m |-> c[k + 1]], z) \in Byte /\ eval(c, z) \in Byte
<1> DEFINE h == [k \in 1 .. m |-> c[k + 1]]
<1>1. h \in [1 .. m -> Byte] /\ m + 1 \in Nat
  OBVIOUS
<1>2. PICK M \in Nat : M = m + 1
  BY <1>1
<1>3. PICK r \in [0 .. M -> Byte] :
        /\ r[0] = Zero /\ eval(c, z) = r[M]
        /\ \A n \in 1 .. M : r[n] = SymDiff(gfMul(r[n - 1], z), c[M + 1 - n])
  <2>1. c \in [1 .. M -> Byte]
    BY <1>2
  <2> QED BY <2>1, EvalLoop
<1>4. PICK s \in [0 .. m -> Byte] :
        /\ s[0] = Zero /\ eval(h, z) = s[m]
        /\ \A n \in 1 .. m : s[n] = SymDiff(gfMul(s[n - 1], z), h[m + 1 - n])
  <2> HIDE DEF h
  <2> QED BY <1>1, EvalLoop
<1> DEFINE S == {n \in 0 .. m : r[n] = s[n]}
<1>5. 0 \in S
  BY <1>3, <1>4
<1>6. ASSUME NEW n \in 0 .. m - 1, n \in S PROVE n + 1 \in S
  <2>1. n + 1 \in 1 .. m /\ n + 1 \in 1 .. M /\ (n + 1) - 1 = n
    BY <1>2
  <2>2. m + 1 - (n + 1) \in 1 .. m /\ M + 1 - (n + 1) = (m + 1 - (n + 1)) + 1
    BY <1>2
  <2>3. h[m + 1 - (n + 1)] = c[M + 1 - (n + 1)] /\ r[n] = s[n]
    BY <1>6, <2>2
  <2>4. r[n + 1] = s[n + 1]
    <3> HIDE DEF h
    <3> QED BY <1>3, <1>4, <2>1, <2>3
  <2> QED BY <2>1, <2>4
<1>7. 0 .. m \subseteq S
  <2> HIDE DEF S
  <2> QED BY <1>5, <1>6, UpTo
<1>8. r[m] = s[m]
  BY <1>7
<1>9. r[M] = SymDiff(gfMul(r[m], z), c[1])
  <2>1. M \in 1 .. M /\ M - 1 = m /\ M + 1 - M = 1
    BY <1>2
  <2> QED BY <1>3, <2>1
<1>10. /\ eval(c, z) = SymDiff(gfMul(eval(h, z), z), c[1])
       /\ eval(h, z) \in Byte /\ eval(c, z) \in Byte
  <2>1. m \in 0 .. m /\ M \in 0 .. M
    BY <1>2
  <2> HIDE DEF h
  <2> QED BY <1>3, <1>4, <1>8, <1>9, <2>1
<1> QED BY <1>10

(* No coefficients define 0.                                               *)
LEMMA EvalNone ==
  ASSUME Arithmetic, NEW c \in [1 .. 0 -> Byte], NEW z \in Byte
  PROVE  eval(c, z) = Zero
<1>1. PICK m \in Nat : m = 0
  OBVIOUS
<1>2. c \in [1 .. m -> Byte]
  BY <1>1
<1>3. PICK r \in [0 .. m -> Byte] : r[0] = Zero /\ eval(c, z) = r[m]
  BY <1>2, EvalLoop
<1> QED BY <1>1, <1>3

(* Polynomials, one coefficient at a time.                                 *)
LEMMA PolyNone == Arithmetic => Poly(0) = {[z \in Byte |-> Zero]}
<1> SUFFICES ASSUME Arithmetic PROVE Poly(0) = {[z \in Byte |-> Zero]}
  OBVIOUS
<1>1. ASSUME NEW c \in [1 .. 0 -> Byte] PROVE [z \in Byte |-> eval(c, z)] = [z \in Byte |-> Zero]
  BY EvalNone
<1>2. \E c : c \in [1 .. 0 -> Byte]
  <2>1. [k \in 1 .. 0 |-> Zero] \in [1 .. 0 -> Byte]
    OBVIOUS
  <2> QED BY <2>1
<1> QED BY <1>1, <1>2 DEF Poly

(* A polynomial with one coefficient more is a multiple of z and a byte.   *)
LEMMA PolyStep ==
  ASSUME Arithmetic, NEW m \in Nat
  PROVE  /\ \A g \in Poly(m + 1) : \E h \in Poly(m), b \in Byte :
              \A z \in Byte : g[z] = SymDiff(gfMul(h[z], z), b)
         /\ \A h \in Poly(m), b \in Byte :
              [z \in Byte |-> SymDiff(gfMul(h[z], z), b)] \in Poly(m + 1)
<1>1. ASSUME NEW g \in Poly(m + 1)
      PROVE  \E h \in Poly(m), b \in Byte : \A z \in Byte : g[z] = SymDiff(gfMul(h[z], z), b)
  <2>1. PICK c \in [1 .. m + 1 -> Byte] : g = [z \in Byte |-> eval(c, z)]
    BY DEF Poly
  <2> DEFINE d == [k \in 1 .. m |-> c[k + 1]]
             h == [z \in Byte |-> eval(d, z)]
  <2>2. d \in [1 .. m -> Byte] /\ c[1] \in Byte
    OBVIOUS
  <2>3. h \in Poly(m)
    <3> HIDE DEF d
    <3> QED BY <2>2 DEF Poly
  <2>4. ASSUME NEW z \in Byte PROVE g[z] = SymDiff(gfMul(h[z], z), c[1])
    <3>1. eval(c, z) = SymDiff(gfMul(eval(d, z), z), c[1])
      BY EvalStep
    <3> HIDE DEF d
    <3> QED BY <2>1, <3>1
  <2> HIDE DEF h
  <2> QED BY <2>2, <2>3, <2>4
<1>2. ASSUME NEW h \in Poly(m), NEW b \in Byte
      PROVE  [z \in Byte |-> SymDiff(gfMul(h[z], z), b)] \in Poly(m + 1)
  <2>1. PICK d \in [1 .. m -> Byte] : h = [z \in Byte |-> eval(d, z)]
    BY DEF Poly
  <2> DEFINE c == [k \in 1 .. m + 1 |-> IF k = 1 THEN b ELSE d[k - 1]]
  <2>2. c \in [1 .. m + 1 -> Byte] /\ c[1] = b
    <3>1. ASSUME NEW k \in 1 .. m + 1 PROVE (IF k = 1 THEN b ELSE d[k - 1]) \in Byte
      <4>1. k # 1 => k - 1 \in 1 .. m
        OBVIOUS
      <4> QED BY <4>1
    <3>2. 1 \in 1 .. m + 1
      OBVIOUS
    <3> QED BY <3>1, <3>2
  <2>3. [k \in 1 .. m |-> c[k + 1]] = d
    <3>1. ASSUME NEW k \in 1 .. m PROVE c[k + 1] = d[k]
      <4>1. k + 1 \in 1 .. m + 1 /\ k + 1 # 1 /\ (k + 1) - 1 = k
        OBVIOUS
      <4> QED BY <4>1
    <3> HIDE DEF c
    <3> QED BY <3>1
  <2> HIDE DEF c
  <2>4. ASSUME NEW z \in Byte PROVE eval(c, z) = SymDiff(gfMul(h[z], z), b)
    <3>1. eval(c, z) = SymDiff(gfMul(eval([k \in 1 .. m |-> c[k + 1]], z), z), c[1])
      BY <2>2, EvalStep
    <3> QED BY <2>1, <2>2, <2>3, <3>1
  <2>5. [z \in Byte |-> eval(c, z)] = [z \in Byte |-> SymDiff(gfMul(h[z], z), b)]
    BY <2>4
  <2>6. [z \in Byte |-> eval(c, z)] \in Poly(m + 1)
    BY <2>2 DEF Poly
  <2> QED BY <2>5, <2>6
<1> QED BY <1>1, <1>2

(* A polynomial is a function on bytes.                                    *)
LEMMA PolyType ==
  ASSUME Arithmetic, NEW m \in Nat, NEW g \in Poly(m)
  PROVE  g \in [Byte -> Byte] /\ g = [z \in Byte |-> g[z]]
<1>1. PICK c \in [1 .. m -> Byte] : g = [z \in Byte |-> eval(c, z)]
  BY DEF Poly
<1>2. ASSUME NEW z \in Byte PROVE eval(c, z) \in Byte
  <2>1. PICK r \in [0 .. m -> Byte] : eval(c, z) = r[m]
    BY EvalLoop
  <2> QED BY <2>1
<1> QED BY <1>1, <1>2

(* The laws a proof about polynomials uses at each value.                  *)
LEMMA Values ==
  ASSUME Arithmetic, NEW a \in Byte, NEW b \in Byte, NEW c \in Byte, NEW d \in Byte
  PROVE  /\ gfMul(SymDiff(a, b), c) = SymDiff(gfMul(a, c), gfMul(b, c))
         /\ gfMul(a, Zero) = Zero
         /\ SymDiff(SymDiff(a, b), SymDiff(c, d)) = SymDiff(SymDiff(a, c), SymDiff(b, d))
         /\ gfMul(a, gfMul(b, c)) = gfMul(b, gfMul(a, c))
<1>1. gfMul(SymDiff(a, b), c) = SymDiff(gfMul(a, c), gfMul(b, c))
  <2>1. PICK e \in Byte : e = SymDiff(a, b)
    BY SumIsByte
  <2>2. gfMul(e, c) = gfMul(c, e) /\ gfMul(c, a) = gfMul(a, c) /\ gfMul(c, b) = gfMul(b, c)
    BY DEF Arithmetic
  <2>3. gfMul(c, SymDiff(a, b)) = SymDiff(gfMul(c, a), gfMul(c, b))
    BY DEF Arithmetic
  <2> QED BY <2>1, <2>2, <2>3
<1>2. gfMul(a, Zero) = Zero
  BY DEF gfMul
<1>3. SymDiff(SymDiff(a, b), SymDiff(c, d)) = SymDiff(SymDiff(a, c), SymDiff(b, d))
  BY DEF SymDiff
<1>4. gfMul(a, gfMul(b, c)) = gfMul(b, gfMul(a, c))
  <2>1. gfMul(gfMul(a, b), c) = gfMul(a, gfMul(b, c)) /\ gfMul(gfMul(b, a), c) = gfMul(b, gfMul(a, c))
    BY DEF Arithmetic
  <2>2. gfMul(a, b) = gfMul(b, a)
    BY DEF Arithmetic
  <2> QED BY <2>1, <2>2
<1> QED BY <1>1, <1>2, <1>3, <1>4

(* Sums and multiples of polynomials; more coefficients.                   *)
LEMMA PolyLinear ==
  ASSUME Arithmetic
  PROVE  \A m \in Nat : \A g, h \in Poly(m) : \A a \in Byte :
           /\ [z \in Byte |-> SymDiff(g[z], h[z])] \in Poly(m)
           /\ [z \in Byte |-> gfMul(a, g[z])] \in Poly(m)
<1> DEFINE Sum(g, h) == [z \in Byte |-> SymDiff(g[z], h[z])]
           Times(a, g) == [z \in Byte |-> gfMul(a, g[z])]
           S == {m \in Nat : \A g, h \in Poly(m) : \A a \in Byte :
                               Sum(g, h) \in Poly(m) /\ Times(a, g) \in Poly(m)}
<1>1. 0 \in S
  <2> SUFFICES ASSUME NEW g \in Poly(0), NEW h \in Poly(0), NEW a \in Byte
               PROVE  Sum(g, h) \in Poly(0) /\ Times(a, g) \in Poly(0)
    OBVIOUS
  <2>1. \A z \in Byte : g[z] = Zero /\ h[z] = Zero
    BY PolyNone
  <2>2. \A z \in Byte : SymDiff(g[z], h[z]) = Zero /\ gfMul(a, g[z]) = Zero
    BY <2>1, SymDiffs DEF gfMul
  <2>3. Sum(g, h) = [z \in Byte |-> Zero] /\ Times(a, g) = [z \in Byte |-> Zero]
    BY <2>2
  <2> HIDE DEF Sum, Times
  <2> QED BY <2>3, PolyNone
<1>2. ASSUME NEW m \in Nat, m \in S PROVE m + 1 \in S
  <2> SUFFICES ASSUME NEW g \in Poly(m + 1), NEW h \in Poly(m + 1), NEW a \in Byte
               PROVE  Sum(g, h) \in Poly(m + 1) /\ Times(a, g) \in Poly(m + 1)
    OBVIOUS
  <2>1. PICK p \in Poly(m), b \in Byte : \A z \in Byte : g[z] = SymDiff(gfMul(p[z], z), b)
    BY PolyStep
  <2>2. PICK q \in Poly(m), c \in Byte : \A z \in Byte : h[z] = SymDiff(gfMul(q[z], z), c)
    BY PolyStep
  <2>3. Sum(p, q) \in Poly(m) /\ Times(a, p) \in Poly(m)
    <3> HIDE DEF Sum, Times
    <3> QED BY <1>2
  <2>4. PICK bc \in Byte, ab \in Byte : bc = SymDiff(b, c) /\ ab = gfMul(a, b)
    BY SumIsByte DEF Arithmetic
  <2>5. ASSUME NEW z \in Byte
        PROVE  /\ SymDiff(g[z], h[z]) = SymDiff(gfMul(Sum(p, q)[z], z), bc)
               /\ gfMul(a, g[z]) = SymDiff(gfMul(Times(a, p)[z], z), ab)
    <3>1. PICK pz \in Byte, qz \in Byte : pz = p[z] /\ qz = q[z]
      BY PolyType
    <3>2. PICK u \in Byte, v \in Byte : u = gfMul(pz, z) /\ v = gfMul(qz, z)
      BY DEF Arithmetic
    <3>3. SymDiff(SymDiff(u, b), SymDiff(v, c)) = SymDiff(SymDiff(u, v), bc)
      BY <2>4, Values
    <3>4. gfMul(SymDiff(pz, qz), z) = SymDiff(u, v)
      BY <3>2, Values
    <3>5. Sum(p, q)[z] = SymDiff(pz, qz) /\ Times(a, p)[z] = gfMul(a, pz)
      BY <3>1
    <3>6. gfMul(a, SymDiff(u, b)) = SymDiff(gfMul(a, u), ab)
      BY <2>4 DEF Arithmetic
    <3>7. gfMul(a, u) = gfMul(gfMul(a, pz), z)
      BY <3>2 DEF Arithmetic
    <3> HIDE DEF Sum, Times
    <3> QED BY <2>1, <2>2, <3>1, <3>2, <3>3, <3>4, <3>5, <3>6, <3>7
  <2>6. /\ [z \in Byte |-> SymDiff(gfMul(Sum(p, q)[z], z), bc)] \in Poly(m + 1)
        /\ [z \in Byte |-> SymDiff(gfMul(Times(a, p)[z], z), ab)] \in Poly(m + 1)
    <3> HIDE DEF Sum, Times
    <3> QED BY <2>3, PolyStep
  <2>7. /\ Sum(g, h) = [z \in Byte |-> SymDiff(gfMul(Sum(p, q)[z], z), bc)]
        /\ Times(a, g) = [z \in Byte |-> SymDiff(gfMul(Times(a, p)[z], z), ab)]
    <3>1. PICK s, t : s = Sum(p, q) /\ t = Times(a, p)
      OBVIOUS
    <3>2. \A z \in Byte : /\ SymDiff(g[z], h[z]) = SymDiff(gfMul(s[z], z), bc)
                          /\ gfMul(a, g[z]) = SymDiff(gfMul(t[z], z), ab)
      <4> HIDE DEF Sum, Times
      <4> QED BY <2>5, <3>1
    <3>3. /\ Sum(g, h) = [z \in Byte |-> SymDiff(gfMul(s[z], z), bc)]
          /\ Times(a, g) = [z \in Byte |-> SymDiff(gfMul(t[z], z), ab)]
      BY <3>2
    <3> HIDE DEF Sum, Times
    <3> QED BY <3>1, <3>3
  <2> HIDE DEF Sum, Times
  <2> QED BY <2>6, <2>7
<1>3. Nat \subseteq S
  <2> HIDE DEF S
  <2> QED BY <1>1, <1>2, NatInduct
<1> QED BY <1>3

(* A coefficient more may be 0.                                            *)
LEMMA PolyMore ==
  ASSUME Arithmetic
  PROVE  \A m \in Nat : Poly(m) \subseteq Poly(m + 1)
<1> DEFINE S == {m \in Nat : Poly(m) \subseteq Poly(m + 1)}
<1>1. 0 \in S
  <2>1. PICK h \in Poly(0) : h = [z \in Byte |-> Zero]
    BY PolyNone
  <2>2. Zero \in Byte /\ [z \in Byte |-> SymDiff(gfMul(h[z], z), Zero)] \in Poly(0 + 1)
    BY PolyStep DEF Arithmetic
  <2>3. \A z \in Byte : SymDiff(gfMul(h[z], z), Zero) = Zero
    BY <2>1, SymDiffs DEF gfMul
  <2>4. [z \in Byte |-> SymDiff(gfMul(h[z], z), Zero)] = [z \in Byte |-> Zero]
    BY <2>3
  <2> QED BY <2>2, <2>4, PolyNone
<1>2. ASSUME NEW m \in Nat, m \in S PROVE m + 1 \in S
  <2> SUFFICES ASSUME NEW g \in Poly(m + 1) PROVE g \in Poly((m + 1) + 1)
    OBVIOUS
  <2>1. PICK h \in Poly(m), b \in Byte : \A z \in Byte : g[z] = SymDiff(gfMul(h[z], z), b)
    BY PolyStep
  <2>2. h \in Poly(m + 1) /\ m + 1 \in Nat
    BY <1>2
  <2>3. [z \in Byte |-> SymDiff(gfMul(h[z], z), b)] \in Poly((m + 1) + 1)
    BY <2>2, PolyStep
  <2>4. g = [z \in Byte |-> g[z]]
    BY <2>2, PolyType
  <2>5. g = [z \in Byte |-> SymDiff(gfMul(h[z], z), b)]
    BY <2>1, <2>4
  <2> QED BY <2>3, <2>5
<1>3. Nat \subseteq S
  <2> HIDE DEF S
  <2> QED BY <1>1, <1>2, NatInduct
<1> QED BY <1>3

-----------------------------------------------------------------------------
(* Polynomials and their roots; interpolation.                             *)

(* A root can be divided out.                                              *)
LEMMA Factor ==
  ASSUME Arithmetic, NEW e \in Byte
  PROVE  \A m \in Nat : \A g \in Poly(m + 1) : \E h \in Poly(m) :
           \A z \in Byte : g[z] = SymDiff(gfMul(h[z], SymDiff(z, e)), g[e])
<1> DEFINE S == {m \in Nat : \A g \in Poly(m + 1) : \E h \in Poly(m) :
                   \A z \in Byte : g[z] = SymDiff(gfMul(h[z], SymDiff(z, e)), g[e])}
<1>1. 0 \in S
  <2> SUFFICES ASSUME NEW g \in Poly(0 + 1)
               PROVE  \E h \in Poly(0) : \A z \in Byte : g[z] = SymDiff(gfMul(h[z], SymDiff(z, e)), g[e])
    OBVIOUS
  <2>1. PICK h \in Poly(0), b \in Byte : \A z \in Byte : g[z] = SymDiff(gfMul(h[z], z), b)
    BY PolyStep
  <2>2. \A z \in Byte : h[z] = Zero
    BY PolyNone
  <2>3. \A z \in Byte : g[z] = SymDiff(Zero, b)
    BY <2>1, <2>2 DEF gfMul
  <2>4. \A z \in Byte : g[z] = b
    BY <2>3, SymDiffs
  <2>5. \A z \in Byte : gfMul(h[z], SymDiff(z, e)) = Zero
    BY <2>2 DEF gfMul
  <2>6. \A z \in Byte : g[z] = SymDiff(gfMul(h[z], SymDiff(z, e)), g[e])
    BY <2>4, <2>5, SymDiffs
  <2> QED BY <2>6
<1>2. ASSUME NEW m \in Nat, m \in S PROVE m + 1 \in S
  <2> SUFFICES ASSUME NEW g \in Poly((m + 1) + 1)
               PROVE  \E h \in Poly(m + 1) : \A z \in Byte : g[z] = SymDiff(gfMul(h[z], SymDiff(z, e)), g[e])
    OBVIOUS
  <2>1. PICK p \in Poly(m + 1), b \in Byte : \A z \in Byte : g[z] = SymDiff(gfMul(p[z], z), b)
    <3>1. m + 1 \in Nat
      OBVIOUS
    <3> QED BY <3>1, PolyStep
  <2>2. PICK q \in Poly(m) : \A z \in Byte : p[z] = SymDiff(gfMul(q[z], SymDiff(z, e)), p[e])
    BY <1>2
  <2>3. PICK pe \in Byte : pe = p[e]
    <3>1. m + 1 \in Nat
      OBVIOUS
    <3> QED BY <3>1, PolyType
  <2> DEFINE h == [z \in Byte |-> SymDiff(gfMul(q[z], z), pe)]
  <2>4. h \in Poly(m + 1)
    BY PolyStep
  <2>5. ASSUME NEW z \in Byte PROVE g[z] = SymDiff(gfMul(h[z], SymDiff(z, e)), g[e])
    <3>1. PICK qz \in Byte, s \in Byte, pz \in Byte : qz = q[z] /\ s = SymDiff(z, e) /\ pz = p[z]
      <4>1. m + 1 \in Nat
        OBVIOUS
      <4>2. q[z] \in Byte /\ p[z] \in Byte
        BY <4>1, PolyType
      <4> QED BY <4>2, SumIsByte
    <3>2. PICK u \in Byte, v \in Byte, w \in Byte, y \in Byte :
            u = gfMul(qz, s) /\ v = gfMul(pe, z) /\ w = gfMul(pe, e) /\ y = gfMul(u, z)
      BY DEF Arithmetic
    <3>3. pz = SymDiff(u, pe)
      BY <2>2, <2>3, <3>1, <3>2
    <3>4. gfMul(pz, z) = SymDiff(y, v)
      BY <3>2, <3>3, Values
    <3>5. g[z] = SymDiff(SymDiff(y, v), b) /\ g[e] = SymDiff(w, b)
      BY <2>1, <2>3, <3>1, <3>2, <3>4
    <3>6. h[z] = SymDiff(gfMul(qz, z), pe)
      BY <3>1
    <3>7. PICK k \in Byte : k = gfMul(qz, z)
      BY DEF Arithmetic
    <3>8. gfMul(SymDiff(k, pe), s) = SymDiff(gfMul(k, s), gfMul(pe, s))
      BY Values
    <3>9. gfMul(k, s) = y
      <4>1. gfMul(k, s) = gfMul(qz, gfMul(z, s))
        BY <3>7 DEF Arithmetic
      <4>2. gfMul(z, s) = gfMul(s, z)
        BY DEF Arithmetic
      <4>3. gfMul(qz, gfMul(s, z)) = gfMul(u, z)
        BY <3>2 DEF Arithmetic
      <4> QED BY <3>2, <4>1, <4>2, <4>3
    <3>10. gfMul(pe, s) = SymDiff(v, w)
      BY <3>1, <3>2 DEF Arithmetic
    <3>11. SymDiff(SymDiff(y, v), b) = SymDiff(SymDiff(y, SymDiff(v, w)), SymDiff(w, b))
      <4>1. SymDiff(y, SymDiff(v, w)) = SymDiff(SymDiff(y, v), w)
        BY SymDiffs
      <4>2. PICK yv : yv = SymDiff(y, v)
        OBVIOUS
      <4>3. SymDiff(SymDiff(yv, w), SymDiff(w, b)) = SymDiff(SymDiff(SymDiff(yv, w), w), b)
        BY SymDiffs
      <4>4. SymDiff(SymDiff(yv, w), w) = yv
        BY SymDiffs
      <4> QED BY <4>1, <4>2, <4>3, <4>4
    <3> HIDE DEF h
    <3> QED BY <3>1, <3>5, <3>6, <3>7, <3>8, <3>9, <3>10, <3>11
  <2> HIDE DEF h
  <2> QED BY <2>4, <2>5
<1>3. Nat \subseteq S
  <2> HIDE DEF S
  <2> QED BY <1>1, <1>2, NatInduct
<1> QED BY <1>3

(* m coefficients that are not all zero have fewer than m roots.           *)
LEMMA Roots ==
  ASSUME Arithmetic
  PROVE  \A m \in Nat : \A g \in Poly(m), e \in [1 .. m -> Byte] :
           IsInjective(e) /\ (\A k \in 1 .. m : g[e[k]] = Zero) => \A z \in Byte : g[z] = Zero
<1> DEFINE S == {m \in Nat : \A g \in Poly(m), e \in [1 .. m -> Byte] :
           IsInjective(e) /\ (\A k \in 1 .. m : g[e[k]] = Zero) => \A z \in Byte : g[z] = Zero}
<1>1. 0 \in S
  <2>1. \A g \in Poly(0) : \A z \in Byte : g[z] = Zero
    BY PolyNone
  <2> QED BY <2>1
<1>2. ASSUME NEW m \in Nat, m \in S PROVE m + 1 \in S
  <2> SUFFICES ASSUME NEW g \in Poly(m + 1), NEW e \in [1 .. m + 1 -> Byte], IsInjective(e),
                      \A k \in 1 .. m + 1 : g[e[k]] = Zero, NEW z \in Byte
               PROVE  g[z] = Zero
    OBVIOUS
  <2>1. PICK r \in Byte : r = e[m + 1] /\ g[r] = Zero
    BY m + 1 \in 1 .. m + 1
  <2>2. PICK h \in Poly(m) : \A y \in Byte : g[y] = SymDiff(gfMul(h[y], SymDiff(y, r)), g[r])
    BY Factor
  <2>3. \A y \in Byte : g[y] = gfMul(h[y], SymDiff(y, r))
    <3>1. \A y \in Byte : g[y] = SymDiff(gfMul(h[y], SymDiff(y, r)), Zero)
      BY <2>1, <2>2
    <3> QED BY <3>1, SymDiffs
  <2> DEFINE d == [k \in 1 .. m |-> e[k]]
  <2>4. d \in [1 .. m -> Byte] /\ IsInjective(d)
    BY DEF IsInjective
  <2>5. ASSUME NEW k \in 1 .. m PROVE h[d[k]] = Zero
    <3>1. k \in 1 .. m + 1 /\ m + 1 \in 1 .. m + 1 /\ k # m + 1
      OBVIOUS
    <3>2. e[k] \in Byte /\ e[k] # r
      BY <2>1, <3>1 DEF IsInjective
    <3>3. PICK y \in Byte : y = e[k] /\ y # r
      BY <3>2
    <3>4. SymDiff(y, r) # Zero /\ SymDiff(y, r) \in Byte
      BY <3>3, SymDiffs, SumIsByte
    <3>5. gfMul(h[y], SymDiff(y, r)) = Zero
      BY <2>3, <3>1, <3>3
    <3>6. h[y] \in Byte
      BY PolyType
    <3>7. h[y] = Zero
      BY <3>4, <3>5, <3>6 DEF Arithmetic
    <3> QED BY <3>3, <3>7
  <2>6. h[z] = Zero
    <3> HIDE DEF d
    <3> QED BY <1>2, <2>4, <2>5
  <2> QED BY <2>3, <2>6 DEF gfMul
<1>3. Nat \subseteq S
  <2> HIDE DEF S
  <2> QED BY <1>1, <1>2, NatInduct
<1> QED BY <1>3

(* Two polynomials with m coefficients that agree at m points are equal.   *)
LEMMA Agree ==
  ASSUME Arithmetic, NEW m \in Nat, NEW g \in Poly(m), NEW h \in Poly(m),
         NEW e \in [1 .. m -> Byte], IsInjective(e), \A k \in 1 .. m : g[e[k]] = h[e[k]]
  PROVE  \A z \in Byte : g[z] = h[z]
<1> DEFINE d == [z \in Byte |-> SymDiff(g[z], h[z])]
<1>1. d \in Poly(m)
  <2>1. Zero \in Byte
    BY DEF Arithmetic
  <2> QED BY <2>1, PolyLinear
<1>2. \A k \in 1 .. m : d[e[k]] = Zero
  <2>1. \A k \in 1 .. m : d[e[k]] = SymDiff(g[e[k]], g[e[k]])
    OBVIOUS
  <2> HIDE DEF d
  <2> QED BY <2>1, SymDiffs
<1>3. \A z \in Byte : d[z] = Zero
  <2> HIDE DEF d
  <2> QED BY <1>1, <1>2, Roots
<1>4. \A z \in Byte : SymDiff(g[z], h[z]) = Zero
  BY <1>3
<1> QED BY <1>4, SymDiffs

(* One more linear factor is one more coefficient.                         *)
LEMMA PolyTimes ==
  ASSUME Arithmetic, NEW m \in Nat, NEW g \in Poly(m), NEW a \in Byte
  PROVE  [z \in Byte |-> gfMul(g[z], SymDiff(z, a))] \in Poly(m + 1)
<1> DEFINE u == [z \in Byte |-> SymDiff(gfMul(g[z], z), Zero)]
           v == [z \in Byte |-> gfMul(a, g[z])]
           w == [z \in Byte |-> SymDiff(u[z], v[z])]
<1>1. u \in Poly(m + 1)
  <2>1. Zero \in Byte
    BY DEF Arithmetic
  <2> QED BY <2>1, PolyStep
<1>2. v \in Poly(m + 1)
  <2>1. v \in Poly(m)
    BY PolyLinear
  <2> HIDE DEF v
  <2> QED BY <2>1, PolyMore
<1>3. w \in Poly(m + 1)
  <2>1. m + 1 \in Nat
    OBVIOUS
  <2> HIDE DEF u, v
  <2> QED BY <1>1, <1>2, <2>1, PolyLinear
<1>4. ASSUME NEW z \in Byte PROVE w[z] = gfMul(g[z], SymDiff(z, a))
  <2>1. PICK gz \in Byte : gz = g[z]
    BY PolyType
  <2>2. w[z] = SymDiff(SymDiff(gfMul(gz, z), Zero), gfMul(a, gz))
    BY <2>1
  <2>3. SymDiff(gfMul(gz, z), Zero) = gfMul(gz, z)
    BY SymDiffs
  <2>4. gfMul(gz, SymDiff(z, a)) = SymDiff(gfMul(gz, z), gfMul(gz, a)) /\ gfMul(gz, a) = gfMul(a, gz)
    BY DEF Arithmetic
  <2> HIDE DEF w
  <2> QED BY <2>1, <2>2, <2>3, <2>4
<1>5. w = [z \in Byte |-> gfMul(g[z], SymDiff(z, a))]
  <2>1. w = [z \in Byte |-> w[z]]
    OBVIOUS
  <2> HIDE DEF w
  <2> QED BY <1>4, <2>1
<1> HIDE DEF w
<1> QED BY <1>3, <1>5

(* The constants 0 and 1 as polynomials.                                   *)
LEMMA PolyConstants ==
  ASSUME Arithmetic
  PROVE  /\ \A m \in Nat : [z \in Byte |-> Zero] \in Poly(m)
         /\ [z \in Byte |-> One] \in Poly(1)
<1>1. ASSUME NEW m \in Nat PROVE [z \in Byte |-> Zero] \in Poly(m)
  <2>1. [k \in 1 .. m |-> Zero] \in [1 .. m -> Byte]
    BY DEF Arithmetic
  <2>2. PICK g : g \in Poly(m)
    BY <2>1 DEF Poly
  <2>3. [z \in Byte |-> gfMul(Zero, g[z])] \in Poly(m)
    <3>1. PICK a \in Byte : a = Zero
      BY DEF Arithmetic
    <3>2. [z \in Byte |-> gfMul(a, g[z])] \in Poly(m)
      BY <2>2, PolyLinear
    <3> QED BY <3>1, <3>2
  <2>4. [z \in Byte |-> gfMul(Zero, g[z])] = [z \in Byte |-> Zero]
    BY DEF gfMul
  <2> QED BY <2>3, <2>4
<1>2. [z \in Byte |-> One] \in Poly(1)
  <2>1. PICK h \in Poly(0) : h = [z \in Byte |-> Zero]
    BY PolyNone
  <2>2. [z \in Byte |-> SymDiff(gfMul(h[z], z), One)] \in Poly(0 + 1)
    BY PolyStep DEF Arithmetic
  <2>3. \A z \in Byte : SymDiff(gfMul(h[z], z), One) = One
    BY <2>1, SymDiffs DEF gfMul
  <2>4. [z \in Byte |-> SymDiff(gfMul(h[z], z), One)] = [z \in Byte |-> One]
    BY <2>3
  <2>5. 0 + 1 = 1
    OBVIOUS
  <2> QED BY <2>2, <2>4, <2>5
<1> QED BY <1>1, <1>2

(* So may any number of them.                                              *)
LEMMA PolyMonotone ==
  ASSUME Arithmetic, NEW m \in Nat, NEW n \in Nat, m <= n
  PROVE  Poly(m) \subseteq Poly(n)
<1> DEFINE S == {d \in Nat : Poly(m) \subseteq Poly(m + d)}
<1>1. 0 \in S
  BY m + 0 = m
<1>2. ASSUME NEW d \in Nat, d \in S PROVE d + 1 \in S
  <2>1. m + d \in Nat /\ (m + d) + 1 = m + (d + 1)
    OBVIOUS
  <2>2. Poly(m + d) \subseteq Poly((m + d) + 1)
    BY <2>1, PolyMore
  <2> QED BY <1>2, <2>1, <2>2
<1>3. Nat \subseteq S
  <2> HIDE DEF S
  <2> QED BY <1>1, <1>2, NatInduct
<1>4. n - m \in S /\ m + (n - m) = n
  <2>1. n - m \in Nat
    OBVIOUS
  <2> HIDE DEF S
  <2> QED BY <1>3, <2>1
<1> QED BY <1>4

(* The numerators of Lagrange's basis, at any point: a product of m - 1    *)
(* linear factors when one of the m is skipped, and of m when none is.     *)
LEMMA BasisPoly ==
  ASSUME Arithmetic, NEW j \in Nat
  PROVE  \A m \in Nat : \A e \in [1 .. m -> Byte] :
           [z \in Byte |-> ProductBut([k \in 1 .. m |-> SymDiff(z, e[k])], j)]
             \in Poly(IF j \in 1 .. m THEN m ELSE m + 1)
<1> DEFINE F(m, e) == [z \in Byte |-> ProductBut([k \in 1 .. m |-> SymDiff(z, e[k])], j)]
           D(m) == IF j \in 1 .. m THEN m ELSE m + 1
           S == {m \in Nat : \A e \in [1 .. m -> Byte] : F(m, e) \in Poly(D(m))}
<1>1. 0 \in S
  <2> SUFFICES ASSUME NEW e \in [1 .. 0 -> Byte] PROVE F(0, e) \in Poly(1)
    OBVIOUS
  <2>1. ASSUME NEW z \in Byte PROVE ProductBut([k \in 1 .. 0 |-> SymDiff(z, e[k])], j) = One
    <3>1. [k \in 1 .. 0 |-> SymDiff(z, e[k])] \in [1 .. 0 -> Byte]
      OBVIOUS
    <3> QED BY <3>1, NoBytes
  <2>2. F(0, e) = [z \in Byte |-> One]
    BY <2>1
  <2> HIDE DEF F
  <2> QED BY <2>2, PolyConstants
<1>2. ASSUME NEW m \in Nat, m \in S PROVE m + 1 \in S
  <2> SUFFICES ASSUME NEW e \in [1 .. m + 1 -> Byte] PROVE F(m + 1, e) \in Poly(D(m + 1))
    <3> HIDE DEF F, D
    <3> QED OBVIOUS
  <2> DEFINE d == [k \in 1 .. m |-> e[k]]
  <2>1. d \in [1 .. m -> Byte] /\ e[m + 1] \in Byte
    BY m + 1 \in 1 .. m + 1
  <2>2. F(m, d) \in Poly(D(m))
    <3> HIDE DEF F, D, d
    <3> QED BY <1>2, <2>1
  <2>3. ASSUME NEW z \in Byte
        PROVE  F(m + 1, e)[z] = IF m + 1 = j THEN F(m, d)[z]
                                ELSE gfMul(F(m, d)[z], SymDiff(z, e[m + 1]))
    <3> DEFINE p == [k \in 1 .. m + 1 |-> SymDiff(z, e[k])]
    <3>1. p \in [1 .. m + 1 -> Byte]
      <4>1. ASSUME NEW k \in 1 .. m + 1 PROVE SymDiff(z, e[k]) \in Byte
        BY SumIsByte
      <4> QED BY <4>1
    <3>2. [k \in 1 .. m |-> p[k]] = [k \in 1 .. m |-> SymDiff(z, d[k])]
      <4>1. \A k \in 1 .. m : p[k] = SymDiff(z, d[k])
        OBVIOUS
      <4> HIDE DEF p, d
      <4> QED BY <4>1
    <3>3. p[m + 1] = SymDiff(z, e[m + 1])
      BY m + 1 \in 1 .. m + 1
    <3>4. ProductBut(p, j) = IF m + 1 = j THEN ProductBut([k \in 1 .. m |-> p[k]], j)
                             ELSE gfMul(ProductBut([k \in 1 .. m |-> p[k]], j), p[m + 1])
      <4> HIDE DEF p
      <4> QED BY <3>1, ProductStep
    <3>5. F(m + 1, e)[z] = ProductBut(p, j)
      OBVIOUS
    <3>6. F(m, d)[z] = ProductBut([k \in 1 .. m |-> SymDiff(z, d[k])], j)
      <4> HIDE DEF d
      <4> QED OBVIOUS
    <3> HIDE DEF F, p, d
    <3> QED BY <3>2, <3>3, <3>4, <3>5, <3>6
  <2>4. F(m + 1, e) = [z \in Byte |-> F(m + 1, e)[z]] /\ F(m, d) = [z \in Byte |-> F(m, d)[z]]
    OBVIOUS
  <2>5. CASE m + 1 = j
    <3>1. D(m) = m + 1 /\ D(m + 1) = m + 1
      BY <2>5
    <3>2. F(m + 1, e) = F(m, d)
      <4> HIDE DEF F, d
      <4> QED BY <2>3, <2>4, <2>5
    <3> HIDE DEF F, D, d
    <3> QED BY <2>2, <3>1, <3>2
  <2>6. CASE m + 1 # j
    <3>1. D(m) \in Nat /\ D(m + 1) = D(m) + 1
      BY <2>6
    <3>2. F(m + 1, e) = [z \in Byte |-> gfMul(F(m, d)[z], SymDiff(z, e[m + 1]))]
      <4> HIDE DEF F, d
      <4> QED BY <2>3, <2>4, <2>6
    <3>3. [z \in Byte |-> gfMul(F(m, d)[z], SymDiff(z, e[m + 1]))] \in Poly(D(m) + 1)
      <4> HIDE DEF F, D, d
      <4> QED BY <2>1, <2>2, <3>1, PolyTimes
    <3> HIDE DEF F, D, d
    <3> QED BY <3>1, <3>2, <3>3
  <2> HIDE DEF F, D, d
  <2> QED BY <2>5, <2>6
<1>3. Nat \subseteq S
  <2> HIDE DEF S
  <2> QED BY <1>1, <1>2, NatInduct
<1>4. ASSUME NEW m \in Nat, NEW e \in [1 .. m -> Byte] PROVE F(m, e) \in Poly(D(m))
  <2>1. m \in S
    <3> HIDE DEF S
    <3> QED BY <1>3
  <2> HIDE DEF F, D
  <2> QED BY <2>1
<1> QED BY <1>4

(* A factor that is not 0 can be cancelled.                                *)
LEMMA Cancel ==
  ASSUME Arithmetic, NEW u \in Byte, NEW v \in Byte, NEW b \in Byte \ {Zero},
         gfMul(u, b) = gfMul(v, b)
  PROVE  u = v
<1>1. PICK s \in Byte : s = SymDiff(u, v)
  BY SumIsByte
<1>2. PICK p \in Byte, q \in Byte : p = gfMul(u, b) /\ q = gfMul(v, b)
  BY DEF Arithmetic
<1>3. gfMul(s, b) = SymDiff(p, q)
  BY <1>1, <1>2, Values
<1>4. gfMul(s, b) = Zero
  BY <1>2, <1>3, SymDiffs
<1>5. s = Zero
  <2>1. \A c, d \in Byte \ {Zero} : gfMul(c, d) # Zero
    BY DEF Arithmetic
  <2>2. s \in Byte \ {Zero} => gfMul(s, b) # Zero
    BY <2>1, Zenon
  <2> QED BY <1>4, <2>2
<1>6. SymDiff(u, v) = Zero => u = v
  BY SymDiffs
<1> QED BY <1>1, <1>5, <1>6

(* Division is multiplication by an inverse.                               *)
LEMMA Inverses ==
  ASSUME Arithmetic, NEW a \in Byte, NEW b \in Byte \ {Zero}
  PROVE  /\ gfDiv(a, b) = gfMul(gfDiv(One, b), a)
         /\ gfDiv(b, b) = One /\ gfDiv(Zero, b) = Zero
<1>1. ASSUME NEW u \in Byte, NEW v \in Byte, gfMul(u, b) = gfMul(v, b) PROVE u = v
  BY <1>1, Cancel
<1>2. PICK w \in Byte : w = gfDiv(One, b) /\ gfMul(w, b) = One
  BY DEF Arithmetic
<1>3. PICK q \in Byte : q = gfDiv(a, b) /\ gfMul(q, b) = a
  BY DEF Arithmetic
<1>4. gfDiv(a, b) = gfMul(gfDiv(One, b), a)
  <2>1. PICK v \in Byte : v = gfMul(w, a)
    BY DEF Arithmetic
  <2>2. gfMul(v, b) = gfMul(gfMul(a, w), b)
    BY <2>1 DEF Arithmetic
  <2>3. gfMul(gfMul(a, w), b) = gfMul(a, One)
    BY <1>2 DEF Arithmetic
  <2>4. gfMul(a, One) = gfMul(One, a) /\ gfMul(One, a) = a
    BY DEF Arithmetic
  <2> QED BY <1>1, <1>2, <1>3, <2>1, <2>2, <2>3, <2>4
<1>5. gfDiv(b, b) = One
  <2>1. PICK v \in Byte : v = gfDiv(b, b) /\ gfMul(v, b) = b
    BY DEF Arithmetic
  <2>2. One \in Byte /\ gfMul(One, b) = b
    BY DEF Arithmetic
  <2> QED BY <1>1, <2>1, <2>2
<1> QED BY <1>4, <1>5 DEF gfDiv

(* Sums of polynomials, and sums in which one term alone counts.           *)
LEMMA PolySum ==
  ASSUME Arithmetic, NEW m \in Nat
  PROVE  \A n \in Nat : \A G \in [1 .. n -> Poly(m)] :
           [z \in Byte |-> SumOf([j \in 1 .. n |-> G[j][z]])] \in Poly(m)
<1> DEFINE F(n, G) == [z \in Byte |-> SumOf([j \in 1 .. n |-> G[j][z]])]
           S == {n \in Nat : \A G \in [1 .. n -> Poly(m)] : F(n, G) \in Poly(m)}
<1>1. 0 \in S
  <2> SUFFICES ASSUME NEW G \in [1 .. 0 -> Poly(m)] PROVE F(0, G) \in Poly(m)
    OBVIOUS
  <2>1. ASSUME NEW z \in Byte PROVE SumOf([j \in 1 .. 0 |-> G[j][z]]) = Zero
    <3>1. [j \in 1 .. 0 |-> G[j][z]] \in [1 .. 0 -> Byte]
      OBVIOUS
    <3>2. 0 \in Nat
      OBVIOUS
    <3> QED BY <3>1, <3>2, NoBytes
  <2>2. F(0, G) = [z \in Byte |-> Zero]
    BY <2>1
  <2> HIDE DEF F
  <2> QED BY <2>2, PolyConstants
<1>2. ASSUME NEW n \in Nat, n \in S PROVE n + 1 \in S
  <2> SUFFICES ASSUME NEW G \in [1 .. n + 1 -> Poly(m)] PROVE F(n + 1, G) \in Poly(m)
    <3> HIDE DEF F
    <3> QED OBVIOUS
  <2> DEFINE H == [j \in 1 .. n |-> G[j]]
  <2>1. H \in [1 .. n -> Poly(m)] /\ G[n + 1] \in Poly(m)
    BY n + 1 \in 1 .. n + 1
  <2>2. F(n, H) \in Poly(m)
    <3> HIDE DEF F, H
    <3> QED BY <1>2, <2>1
  <2>3. ASSUME NEW z \in Byte PROVE F(n + 1, G)[z] = SymDiff(F(n, H)[z], G[n + 1][z])
    <3> DEFINE p == [j \in 1 .. n + 1 |-> G[j][z]]
    <3>1. p \in [1 .. n + 1 -> Byte]
      <4>1. ASSUME NEW j \in 1 .. n + 1 PROVE G[j][z] \in Byte
        BY PolyType
      <4> QED BY <4>1
    <3>2. [j \in 1 .. n |-> p[j]] = [j \in 1 .. n |-> H[j][z]]
      <4>1. \A j \in 1 .. n : p[j] = H[j][z]
        OBVIOUS
      <4> HIDE DEF p, H
      <4> QED BY <4>1
    <3>3. p[n + 1] = G[n + 1][z]
      BY n + 1 \in 1 .. n + 1
    <3>4. SumOf(p) = SymDiff(SumOf([j \in 1 .. n |-> p[j]]), p[n + 1])
      <4> HIDE DEF p
      <4> QED BY <3>1, SumStep
    <3>5. F(n + 1, G)[z] = SumOf(p)
      OBVIOUS
    <3>6. F(n, H)[z] = SumOf([j \in 1 .. n |-> H[j][z]])
      <4> HIDE DEF H
      <4> QED OBVIOUS
    <3> HIDE DEF F, H, p
    <3> QED BY <3>2, <3>3, <3>4, <3>5, <3>6
  <2>4. F(n + 1, G) = [z \in Byte |-> F(n + 1, G)[z]]
    OBVIOUS
  <2>5. F(n + 1, G) = [z \in Byte |-> SymDiff(F(n, H)[z], G[n + 1][z])]
    <3> HIDE DEF F, H
    <3> QED BY <2>3, <2>4
  <2>6. PICK f \in Poly(m), g \in Poly(m) : f = F(n, H) /\ g = G[n + 1]
    <3> HIDE DEF F, H
    <3> QED BY <2>1, <2>2
  <2>7. [z \in Byte |-> SymDiff(f[z], g[z])] \in Poly(m)
    <3>1. PICK a : a \in Byte
      BY DEF Arithmetic
    <3> QED BY <3>1, PolyLinear
  <2> HIDE DEF F, H
  <2> QED BY <2>5, <2>6, <2>7
<1>3. Nat \subseteq S
  <2> HIDE DEF S
  <2> QED BY <1>1, <1>2, NatInduct
<1> QED BY <1>3

(* A sum of which one term alone is not 0.                                 *)
LEMMA SumSingle ==
  ASSUME Arithmetic, NEW m \in Nat, NEW g \in [1 .. m -> Byte], NEW j \in 1 .. m,
         \A k \in 1 .. m : k # j => g[k] = Zero
  PROVE  SumOf(g) = g[j]
<1>1. PICK r \in [0 .. m -> Byte] :
        r[0] = Zero /\ (\A n \in 1 .. m : r[n] = SymDiff(r[n - 1], g[n])) /\ SumOf(g) = r[m]
  BY SumLoop
<1> DEFINE S == {n \in 0 .. m : r[n] = IF n < j THEN Zero ELSE g[j]}
<1>2. 0 \in S
  BY <1>1
<1>3. ASSUME NEW n \in 0 .. m - 1, n \in S PROVE n + 1 \in S
  <2>1. n + 1 \in 1 .. m /\ (n + 1) - 1 = n
    OBVIOUS
  <2>2. r[n + 1] = SymDiff(r[n], g[n + 1])
    BY <1>1, <2>1
  <2>3. CASE n + 1 = j
    <3>1. r[n] = Zero
      BY <1>3, <2>3
    <3>2. r[n + 1] = g[j]
      BY <2>2, <2>3, <3>1, SymDiffs
    <3> QED BY <2>1, <2>3, <3>2
  <2>4. CASE n + 1 # j
    <3>1. g[n + 1] = Zero
      BY <2>1, <2>4
    <3>2. r[n + 1] = r[n]
      BY <2>2, <3>1, SymDiffs
    <3> QED BY <1>3, <2>1, <2>4, <3>2
  <2> QED BY <2>3, <2>4
<1>4. 0 .. m \subseteq S
  <2> HIDE DEF S
  <2> QED BY <1>2, <1>3, UpTo
<1>5. r[m] = g[j]
  BY <1>4, m \in 0 .. m, ~(m < j)
<1> QED BY <1>1, <1>5

(* The polynomial that the Lagrange sum defines: m coefficients, and the   *)
(* given values at the given points.                                       *)
LEMMA Interpolates ==
  ASSUME Arithmetic, NEW m \in Nat, NEW e \in [1 .. m -> Byte], NEW v \in [1 .. m -> Byte],
         IsInjective(e)
  PROVE  \E Q \in Poly(m) :
           /\ \A k \in 1 .. m : Q[e[k]] = v[k]
           /\ \A z \in Byte : Q[z] = SumOf([j \in 1 .. m |->
                gfMul(v[j], gfDiv(ProductBut([k \in 1 .. m |-> SymDiff(z, e[k])], j),
                                  ProductBut([k \in 1 .. m |-> SymDiff(e[j], e[k])], j)))])
<1> DEFINE F(z, j) == ProductBut([k \in 1 .. m |-> SymDiff(z, e[k])], j)
           Basis(z, j) == gfMul(v[j], gfDiv(F(z, j), F(e[j], j)))
           Q == [z \in Byte |-> SumOf([j \in 1 .. m |-> Basis(z, j)])]
           G == [j \in 1 .. m |-> [z \in Byte |-> Basis(z, j)]]
<1>1. ASSUME NEW z \in Byte, NEW j \in 1 .. m
      PROVE  F(z, j) \in Byte /\ (F(z, j) = Zero <=> \E k \in 1 .. m : k # j /\ z = e[k])
  <2> DEFINE p == [k \in 1 .. m |-> SymDiff(z, e[k])]
  <2>1. p \in [1 .. m -> Byte]
    <3>1. ASSUME NEW k \in 1 .. m PROVE SymDiff(z, e[k]) \in Byte
      BY SumIsByte
    <3> QED BY <3>1
  <2>2. F(z, j) \in Byte /\ (F(z, j) = Zero <=> \E k \in 1 .. m : k # j /\ p[k] = Zero)
    <3> HIDE DEF p
    <3>1. ProductBut(p, j) \in Byte /\ (ProductBut(p, j) = Zero <=> \E k \in 1 .. m : k # j /\ p[k] = Zero)
      BY <2>1, ProductZero
    <3> QED BY <3>1 DEF p
  <2>3. ASSUME NEW k \in 1 .. m PROVE p[k] = Zero <=> z = e[k]
    <3>1. SymDiff(z, e[k]) = Zero <=> z = e[k]
      BY SymDiffs
    <3> QED BY <3>1
  <2> HIDE DEF F, p
  <2> QED BY <2>2, <2>3
<1>2. ASSUME NEW j \in 1 .. m PROVE F(e[j], j) \in Byte \ {Zero}
  <2>1. \A k \in 1 .. m : k # j => e[j] # e[k]
    BY DEF IsInjective
  <2> HIDE DEF F
  <2> QED BY <1>1, <2>1
<1>3. ASSUME NEW j \in 1 .. m PROVE G[j] \in Poly(m)
  <2> DEFINE f == [z \in Byte |-> F(z, j)]
  <2>1. f \in Poly(m)
    <3>1. j \in Nat /\ (IF j \in 1 .. m THEN m ELSE m + 1) = m
      OBVIOUS
    <3>2. [z \in Byte |-> ProductBut([k \in 1 .. m |-> SymDiff(z, e[k])], j)]
             \in Poly(IF j \in 1 .. m THEN m ELSE m + 1)
      BY <3>1, BasisPoly
    <3>3. f = [z \in Byte |-> ProductBut([k \in 1 .. m |-> SymDiff(z, e[k])], j)]
      OBVIOUS
    <3> HIDE DEF f
    <3> QED BY <3>1, <3>2, <3>3
  <2>2. PICK a \in Byte : a = gfDiv(One, F(e[j], j))
    <3>1. \A a \in Byte, b \in Byte \ {Zero} : gfDiv(a, b) \in Byte
      BY DEF Arithmetic
    <3>2. One \in Byte
      BY DEF Arithmetic
    <3> HIDE DEF F
    <3> QED BY <1>2, <3>1, <3>2
  <2>3. [z \in Byte |-> gfMul(a, f[z])] \in Poly(m)
    <3> HIDE DEF f
    <3> QED BY <2>1, PolyLinear
  <2>4. PICK g \in Poly(m) : g = [z \in Byte |-> gfMul(a, f[z])]
    BY <2>3
  <2>5. [z \in Byte |-> gfMul(v[j], g[z])] \in Poly(m)
    <3>1. v[j] \in Byte
      OBVIOUS
    <3> QED BY <3>1, PolyLinear
  <2>6. ASSUME NEW z \in Byte PROVE Basis(z, j) = gfMul(v[j], g[z])
    <3>1. g[z] = gfMul(a, F(z, j))
      BY <2>4
    <3>2. gfDiv(F(z, j), F(e[j], j)) = gfMul(gfDiv(One, F(e[j], j)), F(z, j))
      <4> HIDE DEF F
      <4> QED BY <1>1, <1>2, Inverses
    <3> HIDE DEF F
    <3> QED BY <2>2, <3>1, <3>2
  <2>7. G[j] = [z \in Byte |-> gfMul(v[j], g[z])]
    <3>1. G[j] = [z \in Byte |-> Basis(z, j)]
      OBVIOUS
    <3> HIDE DEF Basis, G
    <3> QED BY <2>6, <3>1
  <2> HIDE DEF G
  <2> QED BY <2>5, <2>7
<1>4. Q \in Poly(m)
  <2>1. G \in [1 .. m -> Poly(m)]
    <3>1. G = [j \in 1 .. m |-> G[j]]
      OBVIOUS
    <3> HIDE DEF G
    <3> QED BY <1>3, <3>1
  <2>2. ASSUME NEW z \in Byte
        PROVE  [j \in 1 .. m |-> G[j][z]] = [j \in 1 .. m |-> Basis(z, j)]
    <3>1. \A j \in 1 .. m : G[j][z] = Basis(z, j)
      <4> HIDE DEF Basis
      <4> QED OBVIOUS
    <3> HIDE DEF Basis, G
    <3> QED BY <3>1
  <2>3. Q = [z \in Byte |-> SumOf([j \in 1 .. m |-> G[j][z]])]
    <3> HIDE DEF Basis, G
    <3> QED BY <2>2
  <2> HIDE DEF G, Q
  <2> QED BY <2>1, <2>3, PolySum
<1>5. ASSUME NEW k \in 1 .. m PROVE Q[e[k]] = v[k]
  <2> DEFINE g == [j \in 1 .. m |-> Basis(e[k], j)]
  <2>1. ASSUME NEW j \in 1 .. m, j # k PROVE g[j] = Zero
    <3>1. F(e[k], j) = Zero
      <4> HIDE DEF F
      <4> QED BY <1>1, <2>1
    <3> HIDE DEF F
    <3> QED BY <3>1 DEF gfDiv, gfMul
  <2>2. g[k] = v[k]
    <3>1. gfDiv(F(e[k], k), F(e[k], k)) = One
      <4> HIDE DEF F
      <4> QED BY <1>2, Inverses
    <3>2. gfMul(v[k], One) = v[k]
      <4>1. v[k] \in Byte
        OBVIOUS
      <4>2. gfMul(v[k], One) = gfMul(One, v[k]) /\ gfMul(One, v[k]) = v[k]
        BY <4>1 DEF Arithmetic
      <4> QED BY <4>2
    <3> HIDE DEF F
    <3> QED BY <3>1, <3>2
  <2>3. g \in [1 .. m -> Byte]
    <3>1. ASSUME NEW j \in 1 .. m PROVE g[j] \in Byte
      <4> HIDE DEF g
      <4>1. Zero \in Byte /\ v[k] \in Byte
        BY DEF Arithmetic
      <4> QED BY <2>1, <2>2, <4>1
    <3>2. g = [j \in 1 .. m |-> g[j]]
      OBVIOUS
    <3> HIDE DEF g
    <3> QED BY <3>1, <3>2
  <2>4. SumOf(g) = g[k]
    <3> HIDE DEF g
    <3> QED BY <2>1, <2>3, SumSingle
  <2>5. Q[e[k]] = SumOf(g)
    <3>1. e[k] \in Byte
      OBVIOUS
    <3> HIDE DEF Basis
    <3> QED BY <3>1
  <2> HIDE DEF Q, g
  <2> QED BY <2>2, <2>4, <2>5
<1>6. \A z \in Byte : Q[z] = SumOf([j \in 1 .. m |->
                gfMul(v[j], gfDiv(ProductBut([k \in 1 .. m |-> SymDiff(z, e[k])], j),
                                  ProductBut([k \in 1 .. m |-> SymDiff(e[j], e[k])], j)))])
  OBVIOUS
<1> HIDE DEF Q
<1> QED BY <1>4, <1>5, <1>6

(* The value at 0 is the coefficient that is the secret.                   *)
LEMMA EvalAtZero ==
  ASSUME Arithmetic, NEW m \in Nat \ {0}, NEW c \in [1 .. m -> Byte]
  PROVE  eval(c, Zero) = c[1]
<1>1. PICK n \in Nat : m = n + 1
  BY m - 1 \in Nat /\ m = (m - 1) + 1
<1>2. c \in [1 .. n + 1 -> Byte] /\ Zero \in Byte
  BY <1>1 DEF Arithmetic
<1>3. PICK b \in Byte : b = eval([k \in 1 .. n |-> c[k + 1]], Zero)
  BY <1>2, EvalStep
<1>4. eval(c, Zero) = SymDiff(gfMul(b, Zero), c[1])
  BY <1>2, <1>3, EvalStep
<1>5. gfMul(b, Zero) = Zero
  BY DEF gfMul
<1> QED BY <1>4, <1>5, SymDiffs

-----------------------------------------------------------------------------
(* Coordinates and shares.                                                 *)

(* The bits of a number are the last one and the bits of its half.         *)
LEMMA Halves ==
  ASSUME NEW k \in Nat, NEW P \in Nat \ {0}
  PROVE  /\ k \div (2 * P) = (k \div 2) \div P
         /\ k % 2 \in 0 .. 1 /\ k \div 2 \in Nat /\ k = 2 * (k \div 2) + (k % 2)
<1>1. PICK h \in Nat, b \in 0 .. 1 : h = k \div 2 /\ b = k % 2 /\ k = 2 * h + b
  <2>1. 2 \in Nat \ {0}
    OBVIOUS
  <2>2. k % 2 \in 0 .. 2 - 1 /\ k \div 2 \in Nat /\ k = 2 * (k \div 2) + (k % 2)
    BY <2>1, Quotient
  <2> QED BY <2>2
<1>2. PICK q \in Nat, r \in 0 .. P - 1 : q = h \div P /\ h = P * q + r
  BY Quotient
<1>3. PICK D \in Nat \ {0} : D = 2 * P
  OBVIOUS
<1>4. PICK s \in Nat : s = 2 * r + b
  OBVIOUS
<1>5. s \in 0 .. D - 1
  BY <1>3, <1>4
<1>6. k = D * q + s
  <2>1. PICK m \in Nat : m = P * q
    OBVIOUS
  <2>2. (2 * P) * q = 2 * (P * q)
    BY Z3
  <2>3. D * q = 2 * m
    BY <1>3, <2>1, <2>2
  <2>4. h = m + r
    BY <1>2, <2>1
  <2> QED BY <1>1, <1>4, <2>3, <2>4
<1>7. k \div D = q
  BY <1>5, <1>6, QuotientIs
<1> QED BY <1>1, <1>2, <1>3, <1>7

(* A number below 2^n is its n bits.                                       *)
LEMMA BitsDiffer ==
  \A n \in Nat : \A k, l \in 0 .. 2 ^ n - 1 :
    (\A b \in 0 .. n - 1 : (k \div 2 ^ b) % 2 = (l \div 2 ^ b) % 2) => k = l
<1> DEFINE Bit(k, b) == (k \div 2 ^ b) % 2
           S == {n \in Nat : \A k, l \in 0 .. 2 ^ n - 1 :
                   (\A b \in 0 .. n - 1 : Bit(k, b) = Bit(l, b)) => k = l}
<1>1. 0 \in S
  <2>1. 2 ^ 0 = 1
    BY PowerOfTwo
  <2>2. \A k, l \in 0 .. 2 ^ 0 - 1 : k = l
    BY <2>1
  <2> HIDE DEF Bit
  <2> QED BY <2>2
<1>2. ASSUME NEW k \in Nat PROVE Bit(k, 0) = k % 2 /\ \A b \in Nat : Bit(k, b + 1) = Bit(k \div 2, b)
  <2>1. 2 ^ 0 = 1
    BY PowerOfTwo
  <2>2. k \div 1 = k
    <3>1. PICK one \in Nat \ {0} : one = 1
      OBVIOUS
    <3>2. 0 \in 0 .. one - 1
      BY <3>1
    <3>3. k = one * k + 0
      BY <3>1
    <3>4. k \div one = k
      BY <3>2, <3>3, QuotientIs
    <3> QED BY <3>1, <3>4
  <2>3. ASSUME NEW b \in Nat PROVE Bit(k, b + 1) = Bit(k \div 2, b)
    <3>1. PICK P \in Nat \ {0} : P = 2 ^ b /\ 2 ^ (b + 1) = 2 * P
      BY PowerOfTwo
    <3>2. k \div (2 * P) = (k \div 2) \div P
      BY Halves
    <3> QED BY <3>1, <3>2
  <2>4. Bit(k, 0) = k % 2
    BY <2>1, <2>2
  <2> HIDE DEF Bit
  <2> QED BY <2>3, <2>4
<1>3. ASSUME NEW n \in Nat, n \in S PROVE n + 1 \in S
  <2> SUFFICES ASSUME NEW k \in 0 .. 2 ^ (n + 1) - 1, NEW l \in 0 .. 2 ^ (n + 1) - 1,
                      \A b \in 0 .. n : Bit(k, b) = Bit(l, b)
               PROVE  k = l
    <3>1. (n + 1) - 1 = n
      OBVIOUS
    <3> HIDE DEF Bit
    <3> QED BY <3>1
  <2>1. PICK P \in Nat \ {0} : P = 2 ^ n /\ 2 ^ (n + 1) = 2 * P
    BY PowerOfTwo
  <2>2. k \in Nat /\ l \in Nat /\ k < 2 * P /\ l < 2 * P
    BY <2>1
  <2>3. PICK g \in Nat, c \in 0 .. 1 : g = k \div 2 /\ c = k % 2 /\ k = 2 * g + c
    BY <2>2, Halves
  <2>4. PICK h \in Nat, d \in 0 .. 1 : h = l \div 2 /\ d = l % 2 /\ l = 2 * h + d
    BY <2>2, Halves
  <2>5. g < P /\ h < P
    BY <2>2, <2>3, <2>4
  <2>6. c = d
    <3>1. 0 \in 0 .. n
      OBVIOUS
    <3> HIDE DEF Bit
    <3> QED BY <1>2, <2>2, <2>3, <2>4, <3>1
  <2>7. ASSUME NEW b \in 0 .. n - 1 PROVE Bit(g, b) = Bit(h, b)
    <3>1. b \in Nat /\ b + 1 \in 0 .. n
      OBVIOUS
    <3> HIDE DEF Bit
    <3>2. Bit(k, b + 1) = Bit(g, b) /\ Bit(l, b + 1) = Bit(h, b)
      BY <1>2, <2>2, <2>3, <2>4, <3>1
    <3> QED BY <3>1, <3>2
  <2>8. g \in 0 .. 2 ^ n - 1 /\ h \in 0 .. 2 ^ n - 1
    BY <2>1, <2>5
  <2>9. g = h
    <3> HIDE DEF Bit
    <3> QED BY <1>3, <2>7, <2>8
  <2> QED BY <2>3, <2>4, <2>6, <2>9
<1>4. Nat \subseteq S
  <2> HIDE DEF S
  <2> QED BY <1>1, <1>3, NatInduct
<1> QED BY <1>4

(* byte(k): the coordinates are all different, and 0 is not one of them.   *)
LEMMA Coordinates ==
  ASSUME field \in Fields
  PROVE  /\ \A k \in 0 .. Order : Coordinate(k) \in Byte
         /\ \A k, l \in 0 .. Order : Coordinate(k) = Coordinate(l) => k = l
         /\ \A k \in 1 .. Order : Coordinate(k) # Zero
<1>1. PICK w \in Nat : w = field.bits /\ Order = 2 ^ w - 1
  BY FieldsAssumption DEF Order, Size
<1>2. 2 ^ w \in Nat \ {0}
  BY PowerOfTwo
<1> DEFINE Bit(k, b) == (k \div 2 ^ b) % 2
<1>3. ASSUME NEW k PROVE Coordinate(k) = {b \in 0 .. w - 1 : Bit(k, b) = 1}
  BY <1>1 DEF Coordinate
<1>4. \A k \in 0 .. Order : Coordinate(k) \in Byte
  <2> HIDE DEF Bit
  <2> QED BY <1>1, <1>3 DEF Byte, Bytes
<1>5. ASSUME NEW k \in Nat, NEW b \in Nat PROVE Bit(k, b) \in {0, 1}
  <2>1. PICK P \in Nat \ {0} : P = 2 ^ b
    BY PowerOfTwo
  <2>2. PICK q \in Nat : q = k \div P
    BY Quotient
  <2>3. q % 2 \in 0 .. 1
    BY Halves, 1 \in Nat \ {0}
  <2> QED BY <2>1, <2>2, <2>3
<1>6. ASSUME NEW k \in 0 .. Order, NEW l \in 0 .. Order, Coordinate(k) = Coordinate(l)
      PROVE  k = l
  <2>1. k \in 0 .. 2 ^ w - 1 /\ l \in 0 .. 2 ^ w - 1 /\ k \in Nat /\ l \in Nat
    BY <1>1, <1>2
  <2>2. ASSUME NEW b \in 0 .. w - 1 PROVE Bit(k, b) = Bit(l, b)
    <3>1. Bit(k, b) = 1 <=> Bit(l, b) = 1
      <4> HIDE DEF Bit
      <4> QED BY <1>3, <1>6
    <3>2. b \in Nat
      OBVIOUS
    <3> HIDE DEF Bit
    <3>3. Bit(k, b) \in {0, 1} /\ Bit(l, b) \in {0, 1}
      BY <1>5, <2>1, <3>2
    <3> QED BY <3>1, <3>3
  <2>3. \A b \in 0 .. w - 1 : (k \div 2 ^ b) % 2 = (l \div 2 ^ b) % 2
    BY <2>2
  <2> QED BY <2>1, <2>3, BitsDiffer
<1>7. Coordinate(0) = Zero
  <2>1. ASSUME NEW b \in 0 .. w - 1 PROVE Bit(0, b) = 0
    <3>1. PICK P \in Nat \ {0} : P = 2 ^ b
      BY PowerOfTwo
    <3>2. PICK zero \in Nat : zero = 0
      OBVIOUS
    <3>3. zero \in 0 .. P - 1 /\ zero = P * zero + zero
      BY <3>2
    <3>4. zero \div P = zero
      BY <3>3, QuotientIs
    <3>5. PICK two \in Nat \ {0} : two = 2
      OBVIOUS
    <3>6. zero \in 0 .. two - 1 /\ zero = two * zero + zero
      BY <3>2, <3>5
    <3>7. zero % two = zero
      BY <3>6, QuotientIs
    <3> QED BY <3>1, <3>2, <3>4, <3>5, <3>7
  <2>2. Coordinate(0) = {b \in 0 .. w - 1 : Bit(0, b) = 1}
    BY <1>3
  <2>3. PICK bit : bit = [b \in 0 .. w - 1 |-> Bit(0, b)]
    OBVIOUS
  <2>4. \A b \in 0 .. w - 1 : bit[b] # 1
    <3> HIDE DEF Bit
    <3> QED BY <2>1, <2>3
  <2>5. Coordinate(0) = {b \in 0 .. w - 1 : bit[b] = 1}
    <3> HIDE DEF Bit
    <3> QED BY <2>2, <2>3
  <2> QED BY <2>4, <2>5 DEF Zero
<1>8. 0 \in 0 .. Order /\ \A k \in 1 .. Order : k \in 0 .. Order /\ k # 0
  BY <1>1, <1>2
<1>9. \A k \in 1 .. Order : Coordinate(k) # Zero
  BY <1>6, <1>7, <1>8
<1> QED BY <1>4, <1>6, <1>9

(* A polynomial has one list of coefficients: there are more bytes than    *)
(* coefficients.                                                           *)
LEMMA CoeffsUnique ==
  ASSUME Arithmetic, field \in Fields
  PROVE  \A m \in Nat : m <= Order => \A c, d \in [1 .. m -> Byte] :
           (\A z \in Byte : eval(c, z) = eval(d, z)) => c = d
<1> DEFINE S == {m \in Nat : m <= Order => \A c, d \in [1 .. m -> Byte] :
                   (\A z \in Byte : eval(c, z) = eval(d, z)) => c = d}
<1>1. 0 \in S
  <2>1. \A c, d \in [1 .. 0 -> Byte] : c = d
    OBVIOUS
  <2> QED BY <2>1
<1>2. ASSUME NEW m \in Nat, m \in S PROVE m + 1 \in S
  <2> SUFFICES ASSUME m + 1 <= Order, NEW c \in [1 .. m + 1 -> Byte], NEW d \in [1 .. m + 1 -> Byte],
                      \A z \in Byte : eval(c, z) = eval(d, z)
               PROVE  c = d
    OBVIOUS
  <2>1. Order \in Nat /\ m <= Order /\ m + 1 \in Nat \ {0} /\ Zero \in Byte
    <3>1. Order \in Nat
      BY Widths DEF Order
    <3>2. m <= Order /\ m + 1 \in Nat \ {0}
      <4> HIDE DEF Order
      <4> QED BY <3>1
    <3>3. Zero \in Byte
      BY DEF Arithmetic
    <3> QED BY <3>1, <3>2, <3>3
  <2>2. PICK b \in Byte : b = c[1] /\ b = d[1]
    <3>1. eval(c, Zero) = c[1] /\ eval(d, Zero) = d[1]
      BY <2>1, EvalAtZero
    <3>2. eval(c, Zero) = eval(d, Zero) /\ c[1] \in Byte
      BY <2>1
    <3> QED BY <3>1, <3>2
  <2> DEFINE p == [k \in 1 .. m |-> c[k + 1]]
             q == [k \in 1 .. m |-> d[k + 1]]
             e == [k \in 1 .. m |-> Coordinate(k)]
             g == [z \in Byte |-> eval(p, z)]
             h == [z \in Byte |-> eval(q, z)]
  <2>3. p \in [1 .. m -> Byte] /\ q \in [1 .. m -> Byte]
    OBVIOUS
  <2>4. ASSUME NEW z \in Byte \ {Zero} PROVE eval(p, z) = eval(q, z)
    <3>1. /\ eval(c, z) = SymDiff(gfMul(eval(p, z), z), c[1])
          /\ eval(d, z) = SymDiff(gfMul(eval(q, z), z), d[1])
          /\ eval(p, z) \in Byte /\ eval(q, z) \in Byte
      BY EvalStep
    <3>2. PICK u \in Byte, v \in Byte : u = eval(p, z) /\ v = eval(q, z)
      <4> HIDE DEF p, q
      <4> QED BY <3>1
    <3>3. PICK uz \in Byte, vz \in Byte : uz = gfMul(u, z) /\ vz = gfMul(v, z)
      BY DEF Arithmetic
    <3>4. SymDiff(uz, b) = SymDiff(vz, b)
      <4>1. eval(c, z) = eval(d, z)
        OBVIOUS
      <4> HIDE DEF p, q
      <4> QED BY <2>2, <3>1, <3>2, <3>3, <4>1
    <3>5. SymDiff(SymDiff(uz, b), b) = uz /\ SymDiff(SymDiff(vz, b), b) = vz
      BY SymDiffs
    <3>6. u = v
      BY <3>3, <3>4, <3>5, Cancel
    <3> HIDE DEF p, q
    <3> QED BY <3>2, <3>6
  <2>5. e \in [1 .. m -> Byte] /\ IsInjective(e) /\ \A k \in 1 .. m : e[k] # Zero
    <3>1. \A k \in 1 .. m : k \in 0 .. Order /\ k \in 1 .. Order
      BY <2>1
    <3>2. \A k \in 1 .. m : Coordinate(k) \in Byte /\ Coordinate(k) # Zero
      BY <3>1, Coordinates
    <3>3. \A k, l \in 1 .. m : Coordinate(k) = Coordinate(l) => k = l
      BY <3>1, Coordinates
    <3> QED BY <3>2, <3>3 DEF IsInjective
  <2>6. g \in Poly(m) /\ h \in Poly(m)
    <3> HIDE DEF p, q
    <3> QED BY <2>3 DEF Poly
  <2>7. \A k \in 1 .. m : g[e[k]] = h[e[k]]
    <3> HIDE DEF p, q, e
    <3> QED BY <2>4, <2>5
  <2>8. \A z \in Byte : g[z] = h[z]
    <3> HIDE DEF g, h, e
    <3> QED BY <2>5, <2>6, <2>7, Agree
  <2>9. \A z \in Byte : eval(p, z) = eval(q, z)
    <3> HIDE DEF p, q
    <3> QED BY <2>8
  <2>10. p = q
    <3> HIDE DEF p, q
    <3> QED BY <1>2, <2>1, <2>3, <2>9
  <2>11. ASSUME NEW k \in 1 .. m + 1 PROVE c[k] = d[k]
    <3>1. CASE k = 1
      BY <2>2, <3>1
    <3>2. CASE k # 1
      <4>1. PICK l \in 1 .. m : k = l + 1
        BY <3>2, k - 1 \in 1 .. m, k = (k - 1) + 1
      <4>2. p[l] = q[l]
        BY <2>10
      <4>3. p[l] = c[l + 1] /\ q[l] = d[l + 1]
        OBVIOUS
      <4> HIDE DEF p, q
      <4> QED BY <4>1, <4>2, <4>3
    <3> QED BY <3>1, <3>2
  <2> QED BY <2>11
<1>3. Nat \subseteq S
  <2> HIDE DEF S
  <2> QED BY <1>1, <1>2, NatInduct
<1> QED BY <1>3

(* A finite set listed as a sequence, each element once.                   *)
LEMMA SetAsSeq ==
  ASSUME NEW S, IsFiniteSet(S)
  PROVE  /\ Cardinality(S) \in Nat
         /\ SetToSeq(S) \in [1 .. Cardinality(S) -> S]
         /\ IsInjective(SetToSeq(S))
         /\ \A s \in S : \E j \in 1 .. Cardinality(S) : SetToSeq(S)[j] = s
<1>1. PICK n \in Nat : n = Cardinality(S) /\ ExistsBijection(1 .. n, S)
  BY FS_CardinalityType
<1>2. \E f : f \in [1 .. n -> S] /\ IsInjective(f)
  BY <1>1 DEF ExistsBijection, Bijection, Injection
<1>3. PICK f : f = SetToSeq(S) /\ f \in [1 .. n -> S] /\ IsInjective(f)
  BY <1>1, <1>2 DEF SetToSeq
<1>4. f \in Injection(1 .. n, S)
  BY <1>3 DEF Injection
<1>5. Cardinality(1 .. n) = n
  <2>1. Cardinality(1 .. n) = IF 1 > n THEN 0 ELSE n - 1 + 1
    BY FS_Interval
  <2> QED BY <2>1
<1>6. f \in Surjection(1 .. n, S)
  BY <1>1, <1>4, <1>5, FS_Injection
<1> QED BY <1>1, <1>3, <1>6 DEF Surjection

(* A function on 1 .. m is a sequence of length m.                         *)
LEMMA AsSeq ==
  ASSUME NEW R, NEW m \in Nat, NEW f \in [1 .. m -> R]
  PROVE  f \in Seq(R) /\ Len(f) = m /\ DOMAIN f = 1 .. m
OBVIOUS

(* The shares of the polynomials G, one for each byte of the key.          *)
PointsOf(G, length, parts) ==
  {[x |-> Coordinate(k), y |-> [n \in 1 .. length |-> G[n][Coordinate(k)]]] : k \in 1 .. parts}

(* What a split prints: for each byte of the key a polynomial with         *)
(* threshold coefficients, the byte itself at 0, evaluated at the          *)
(* coordinates.                                                            *)
LEMMA SplitIs ==
  ASSUME Arithmetic, field \in Fields, NEW key \in Seq(Byte), NEW parts \in Nat, NEW t \in Nat,
         CanSplit(key, parts, t), NEW drawn \in Draws(Len(key), t)
  PROVE  \E G \in [1 .. Len(key) -> Poly(t)] :
           /\ \A n \in 1 .. Len(key) : G[n][Zero] = key[n]
           /\ Split(key, parts, t, drawn) = PointsOf(G, Len(key), parts)
<1> DEFINE coeffs(n) == [c \in 1 .. t |-> IF c = 1 THEN key[n] ELSE drawn[n][c]]
           G == [n \in 1 .. Len(key) |-> [z \in Byte |-> eval(coeffs(n), z)]]
<1>1. t \in Nat \ {0} /\ 1 \in 1 .. t /\ parts \in 0 .. Order
  BY Widths DEF CanSplit, Order
<1>2. ASSUME NEW n \in 1 .. Len(key) PROVE coeffs(n) \in [1 .. t -> Byte] /\ coeffs(n)[1] = key[n]
  <2>1. key[n] \in Byte /\ drawn[n] \in [2 .. t -> Byte]
    BY DEF Draws
  <2>2. ASSUME NEW c \in 1 .. t, c # 1 PROVE drawn[n][c] \in Byte
    <3>1. c \in 2 .. t
      BY <2>2
    <3> QED BY <2>1, <3>1
  <2>3. ASSUME NEW c \in 1 .. t PROVE (IF c = 1 THEN key[n] ELSE drawn[n][c]) \in Byte
    BY <2>1, <2>2
  <2> QED BY <1>1, <2>3
<1>3. ASSUME NEW n \in 1 .. Len(key) PROVE G[n] \in Poly(t) /\ G[n][Zero] = key[n]
  <2>1. G[n] = [z \in Byte |-> eval(coeffs(n), z)] /\ Zero \in Byte
    BY DEF Arithmetic
  <2>2. G[n] \in Poly(t)
    <3> HIDE DEF G, coeffs
    <3> QED BY <1>2, <2>1 DEF Poly
  <2>3. G[n][Zero] = eval(coeffs(n), Zero)
    <3> HIDE DEF G, coeffs
    <3> QED BY <2>1
  <2>4. eval(coeffs(n), Zero) = coeffs(n)[1]
    <3> HIDE DEF G, coeffs
    <3> QED BY <1>1, <1>2, EvalAtZero
  <2> HIDE DEF G, coeffs
  <2> QED BY <1>2, <2>2, <2>3, <2>4
<1>4. ASSUME NEW k \in 1 .. parts
      PROVE  [n \in 1 .. Len(key) |-> eval(coeffs(n), Coordinate(k))]
               = [n \in 1 .. Len(key) |-> G[n][Coordinate(k)]]
  <2>1. Coordinate(k) \in Byte
    <3>1. k \in 0 .. Order
      BY <1>1, Widths DEF Order
    <3> QED BY <3>1, Coordinates
  <2>2. \A n \in 1 .. Len(key) : G[n][Coordinate(k)] = eval(coeffs(n), Coordinate(k))
    <3> HIDE DEF coeffs
    <3> QED BY <2>1
  <2> HIDE DEF G, coeffs
  <2> QED BY <2>2
<1>5. Split(key, parts, t, drawn) =
        {[x |-> Coordinate(k), y |-> [n \in 1 .. Len(key) |-> eval(coeffs(n), Coordinate(k))]] :
           k \in 1 .. parts}
  BY DEF Split
<1>6. Split(key, parts, t, drawn) =
        {[x |-> Coordinate(k), y |-> [n \in 1 .. Len(key) |-> G[n][Coordinate(k)]]] : k \in 1 .. parts}
  <2> HIDE DEF G, coeffs
  <2> QED BY <1>4, <1>5
<1>7. G \in [1 .. Len(key) -> Poly(t)]
  <2>1. G = [n \in 1 .. Len(key) |-> G[n]]
    OBVIOUS
  <2> HIDE DEF G
  <2> QED BY <1>3, <2>1
<1>8. Split(key, parts, t, drawn) = PointsOf(G, Len(key), parts)
  <2> HIDE DEF G
  <2> QED BY <1>6 DEF PointsOf
<1> HIDE DEF G
<1> QED BY <1>3, <1>7, <1>8

(* Lines of one split, all different and at least as many as the threshold *)
(* asks for, give back the key.                                            *)
THEOREM Recover ==
  ASSUME Arithmetic, field \in Fields, NEW key \in Seq(Byte), NEW parts \in Nat, NEW t \in Nat,
         CanSplit(key, parts, t), NEW drawn \in Draws(Len(key), t),
         NEW m \in Nat, t <= m,
         NEW lines \in [1 .. m -> Split(key, parts, t, drawn)], IsInjective(lines)
  PROVE  CanCombine(lines) /\ ~Panics(lines) /\ Combine(lines) = key
<1>1. PICK L \in Nat \ {0} : L = Len(key) /\ key \in [1 .. L -> Byte] /\ t >= 2
                                  /\ Order \in Nat /\ parts <= Order
  <2>1. Len(key) \in Nat \ {0} /\ key \in [1 .. Len(key) -> Byte]
    <3>1. Len(key) # 0
      BY DEF CanSplit
    <3> QED BY <3>1
  <2>2. t >= 2 /\ Order \in Nat /\ parts <= Order
    BY Widths DEF CanSplit, Order
  <2> QED BY <2>1, <2>2
<1> DEFINE share(G, k) == [x |-> Coordinate(k), y |-> [n \in 1 .. L |-> G[n][Coordinate(k)]]]
<1>2. PICK G \in [1 .. L -> Poly(t)] :
        /\ \A n \in 1 .. L : G[n][Zero] = key[n]
        /\ Split(key, parts, t, drawn) = {share(G, k) : k \in 1 .. parts}
  <2>1. PICK G \in [1 .. Len(key) -> Poly(t)] :
           /\ \A n \in 1 .. Len(key) : G[n][Zero] = key[n]
           /\ Split(key, parts, t, drawn) = PointsOf(G, Len(key), parts)
    BY SplitIs
  <2>2. Split(key, parts, t, drawn) = {share(G, k) : k \in 1 .. parts}
    BY <1>1, <2>1 DEF PointsOf
  <2> HIDE DEF share
  <2> QED BY <1>1, <2>1, <2>2
<1>3. ASSUME NEW j \in 1 .. m
      PROVE  /\ lines[j].x \in Byte \ {Zero}
             /\ lines[j].y \in [1 .. L -> Byte]
             /\ lines[j] \in [x : Byte, y : Seq(Byte)]
             /\ Len(lines[j].y) = L
             /\ \A n \in 1 .. L : lines[j].y[n] = G[n][lines[j].x]
             /\ \E k \in 1 .. parts : lines[j].x = Coordinate(k) /\ lines[j] = share(G, k)
  <2>1. PICK k \in 1 .. parts : lines[j] = share(G, k)
    <3> HIDE DEF share
    <3> QED BY <1>2
  <2>2. PICK c \in Byte \ {Zero} : c = Coordinate(k)
    <3>1. k \in 0 .. Order /\ k \in 1 .. Order
      BY <1>1
    <3> QED BY <3>1, Coordinates
  <2>3. ASSUME NEW n \in 1 .. L PROVE G[n][c] \in Byte
    BY PolyType
  <2>4. lines[j] = [x |-> c, y |-> [n \in 1 .. L |-> G[n][c]]]
    BY <2>1, <2>2
  <2>5. PICK b \in [1 .. L -> Byte] : b = [n \in 1 .. L |-> G[n][c]]
    BY <2>3
  <2>6. b \in Seq(Byte) /\ Len(b) = L
    OBVIOUS
  <2>7. lines[j].x = c /\ lines[j].y = b /\ lines[j] = [x |-> c, y |-> b]
    BY <2>4, <2>5
  <2> HIDE DEF share
  <2> QED BY <2>1, <2>2, <2>5, <2>6, <2>7
<1>4. lines \in [1 .. m -> [x : Byte, y : Seq(Byte)]] /\ lines \in Seq([x : Byte, y : Seq(Byte)])
      /\ Len(lines) = m /\ DOMAIN lines = 1 .. m
  <2>1. lines \in [1 .. m -> [x : Byte, y : Seq(Byte)]]
    <3>1. DOMAIN lines = 1 .. m /\ lines = [j \in 1 .. m |-> lines[j]]
      OBVIOUS
    <3> QED BY <1>3, <3>1
  <2>2. PICK R : R = [x : Byte, y : Seq(Byte)]
    OBVIOUS
  <2>3. lines \in [1 .. m -> R] /\ lines \in Seq(R) /\ Len(lines) = m /\ DOMAIN lines = 1 .. m
    BY <2>1, <2>2, AsSeq
  <2> QED BY <2>2, <2>3
<1> DEFINE e == [j \in 1 .. m |-> lines[j].x]
<1>5. ASSUME NEW j \in 1 .. m, NEW k \in 1 .. m, lines[j].x = lines[k].x PROVE j = k
  <2>1. PICK a \in 1 .. parts : lines[j].x = Coordinate(a) /\ lines[j] = share(G, a)
    BY <1>3
  <2>2. PICK b \in 1 .. parts : lines[k].x = Coordinate(b) /\ lines[k] = share(G, b)
    BY <1>3
  <2>3. a \in 0 .. Order /\ b \in 0 .. Order
    BY <1>1
  <2>4. a = b
    <3>1. Coordinate(a) = Coordinate(b)
      BY <1>5, <2>1, <2>2
    <3> QED BY <2>3, <3>1, Coordinates
  <2>5. lines[j] = lines[k]
    <3> HIDE DEF share
    <3> QED BY <2>1, <2>2, <2>4
  <2> QED BY <2>5 DEF IsInjective
<1>6. e \in [1 .. m -> Byte] /\ IsInjective(e)
  <2>1. e \in [1 .. m -> Byte]
    BY <1>3
  <2>2. IsInjective(e)
    BY <1>5 DEF IsInjective
  <2> QED BY <2>1, <2>2
<1>7. CanCombine(lines)
  <2>1. Len(lines) >= 2 /\ 1 \in 1 .. m
    BY <1>1, <1>4
  <2>2. \A j \in DOMAIN lines : lines[j].x # Zero /\ Len(lines[j].y) = Len(lines[1].y)
    BY <1>3, <1>4, <2>1
  <2>3. [j \in DOMAIN lines |-> lines[j].x] = e
    BY <1>4
  <2> HIDE DEF e
  <2> QED BY <1>6, <2>1, <2>2, <2>3 DEF CanCombine
<1>8. ~Panics(lines)
  BY <1>4, <1>7, CombineType
<1>9. ASSUME NEW n \in 1 .. L
      PROVE  SumOf([j \in 1 .. m |-> gfMul(lines[j].y[n], gfDiv(Numerator(lines, j), Denominator(lines, j)))])
               = key[n]
  <2> DEFINE v == [j \in 1 .. m |-> lines[j].y[n]]
             F(z, j) == ProductBut([k \in 1 .. m |-> SymDiff(z, e[k])], j)
  <2>1. v \in [1 .. m -> Byte]
    <3>1. ASSUME NEW j \in 1 .. m PROVE lines[j].y[n] \in Byte
      BY <1>3
    <3> QED BY <3>1
  <2>2. PICK Q \in Poly(m) :
          /\ \A k \in 1 .. m : Q[e[k]] = v[k]
          /\ \A z \in Byte : Q[z] = SumOf([j \in 1 .. m |-> gfMul(v[j], gfDiv(F(z, j), F(e[j], j)))])
    <3> HIDE DEF e, v
    <3> QED BY <1>6, <2>1, Interpolates
  <2>3. G[n] \in Poly(m)
    <3>1. G[n] \in Poly(t)
      OBVIOUS
    <3> QED BY <3>1, PolyMonotone
  <2>4. \A k \in 1 .. m : Q[e[k]] = G[n][e[k]]
    <3>1. \A k \in 1 .. m : v[k] = G[n][e[k]]
      BY <1>3
    <3> HIDE DEF e, v, F
    <3> QED BY <2>2, <3>1
  <2>5. \A z \in Byte : Q[z] = G[n][z]
    <3>1. PICK g \in Poly(m) : g = G[n]
      BY <2>3
    <3>2. \A k \in 1 .. m : Q[e[k]] = g[e[k]]
      <4> HIDE DEF e
      <4> QED BY <2>4, <3>1
    <3>3. \A z \in Byte : Q[z] = g[z]
      <4> HIDE DEF e
      <4> QED BY <1>6, <3>2, Agree
    <3> QED BY <3>1, <3>3
  <2>6. Zero \in Byte
    BY DEF Arithmetic
  <2>7. Q[Zero] = key[n]
    BY <1>2, <2>5, <2>6
  <2>8. ASSUME NEW j \in 1 .. m
        PROVE  /\ Numerator(lines, j) = F(Zero, j)
               /\ Denominator(lines, j) = F(e[j], j)
               /\ lines[j].y[n] = v[j]
    <3>1. [k \in DOMAIN lines |-> lines[k].x] = [k \in 1 .. m |-> SymDiff(Zero, e[k])]
      <4>1. \A k \in 1 .. m : SymDiff(Zero, e[k]) = lines[k].x
        <5>1. \A k \in 1 .. m : e[k] = lines[k].x
          OBVIOUS
        <5> HIDE DEF e
        <5> QED BY <5>1, SymDiffs
      <4> HIDE DEF e
      <4> QED BY <1>4, <4>1
    <3>2. [k \in DOMAIN lines |-> SymDiff(lines[j].x, lines[k].x)] = [k \in 1 .. m |-> SymDiff(e[j], e[k])]
      BY <1>4
    <3>3. lines[j].y[n] = v[j]
      OBVIOUS
    <3>4. Numerator(lines, j) = F(Zero, j)
      <4> HIDE DEF e
      <4> QED BY <3>1 DEF Numerator
    <3>5. Denominator(lines, j) = F(e[j], j)
      <4> HIDE DEF e
      <4> QED BY <3>2 DEF Denominator
    <3> QED BY <3>3, <3>4, <3>5
  <2>9. [j \in 1 .. m |-> gfMul(lines[j].y[n], gfDiv(Numerator(lines, j), Denominator(lines, j)))]
          = [j \in 1 .. m |-> gfMul(v[j], gfDiv(F(Zero, j), F(e[j], j)))]
    <3> HIDE DEF e, v, F
    <3> QED BY <2>8
  <2>10. Q[Zero] = SumOf([j \in 1 .. m |-> gfMul(v[j], gfDiv(F(Zero, j), F(e[j], j)))])
    <3> HIDE DEF e, v, F
    <3> QED BY <2>2, <2>6
  <2> HIDE DEF e, v, F
  <2> QED BY <2>7, <2>9, <2>10
<1>10. Combine(lines) = [n \in DOMAIN lines[1].y |->
         SumOf([j \in DOMAIN lines |-> gfMul(lines[j].y[n], gfDiv(Numerator(lines, j), Denominator(lines, j)))])]
  BY DEF Combine
<1>11. DOMAIN lines[1].y = 1 .. L /\ DOMAIN lines = 1 .. m
  <2>1. 1 \in 1 .. m
    BY <1>1
  <2>2. lines[1].y \in [1 .. L -> Byte]
    BY <1>3, <2>1
  <2> QED BY <1>4, <2>2
<1>12. Combine(lines) = [n \in 1 .. L |-> key[n]]
  BY <1>9, <1>10, <1>11
<1>13. key = [n \in 1 .. L |-> key[n]]
  BY <1>1
<1> HIDE DEF e, share
<1> QED BY <1>7, <1>8, <1>12, <1>13

(* Through m points goes a polynomial with m coefficients.                 *)
LEMMA Through ==
  ASSUME Arithmetic, NEW m \in Nat, NEW e \in [1 .. m -> Byte], NEW v \in [1 .. m -> Byte],
         IsInjective(e)
  PROVE  \E Q \in Poly(m) : \A k \in 1 .. m : Q[e[k]] = v[k]
<1>1. PICK Q \in Poly(m) :
           /\ \A k \in 1 .. m : Q[e[k]] = v[k]
           /\ \A z \in Byte : Q[z] = SumOf([j \in 1 .. m |->
                gfMul(v[j], gfDiv(ProductBut([k \in 1 .. m |-> SymDiff(z, e[k])], j),
                                  ProductBut([k \in 1 .. m |-> SymDiff(e[j], e[k])], j)))])
  BY Interpolates
<1> QED BY <1>1

(* Fewer lines than the threshold go with every key of the same length:    *)
(* for each, one draw makes Split print them, and no other.                *)
THEOREM Conceal ==
  ASSUME Arithmetic, field \in Fields, NEW key \in Seq(Byte), NEW parts \in Nat, NEW t \in Nat,
         CanSplit(key, parts, t), NEW drawn \in Draws(Len(key), t),
         NEW S \in SUBSET Split(key, parts, t, drawn), IsFiniteSet(S), Cardinality(S) = t - 1,
         NEW other \in [1 .. Len(key) -> Byte]
  PROVE  \E redrawn \in Draws(Len(other), t) :
           /\ S \subseteq Split(other, Order, t, redrawn)
           /\ \A again \in Draws(Len(other), t) :
                S \subseteq Split(other, Order, t, again) => again = redrawn
<1>1. PICK L \in Nat \ {0} : L = Len(key) /\ key \in [1 .. L -> Byte] /\ t >= 2
                             /\ Order \in Nat /\ parts <= Order
  <2>1. Len(key) \in Nat \ {0} /\ key \in [1 .. Len(key) -> Byte]
    <3>1. Len(key) # 0
      BY DEF CanSplit
    <3> QED BY <3>1
  <2>2. t >= 2 /\ Order \in Nat /\ parts <= Order
    BY Widths DEF CanSplit, Order
  <2> QED BY <2>1, <2>2
<1>2. other \in [1 .. L -> Byte] /\ Len(other) = L
  BY <1>1
<1> DEFINE share(G, k) == [x |-> Coordinate(k), y |-> [n \in 1 .. L |-> G[n][Coordinate(k)]]]
<1>3. PICK G \in [1 .. L -> Poly(t)] : Split(key, parts, t, drawn) = {share(G, k) : k \in 1 .. parts}
  <2>1. PICK G \in [1 .. Len(key) -> Poly(t)] :
          Split(key, parts, t, drawn) = PointsOf(G, Len(key), parts)
    BY SplitIs
  <2>2. Split(key, parts, t, drawn) = {share(G, k) : k \in 1 .. parts}
    BY <1>1, <2>1 DEF PointsOf
  <2> HIDE DEF share
  <2> QED BY <1>1, <2>1, <2>2
<1>4. PICK u \in Nat : u = t - 1 /\ u >= 1 /\ u + 1 = t
  BY <1>1
<1>5. PICK lines \in [1 .. u -> S] : IsInjective(lines) /\ \A s \in S : \E j \in 1 .. u : lines[j] = s
  <2>1. /\ SetToSeq(S) \in [1 .. Cardinality(S) -> S] /\ IsInjective(SetToSeq(S))
        /\ \A s \in S : \E j \in 1 .. Cardinality(S) : SetToSeq(S)[j] = s
    BY SetAsSeq
  <2>2. Cardinality(S) = u
    BY <1>4
  <2> QED BY <2>1, <2>2
<1>6. PICK at \in [1 .. u -> 1 .. parts] : \A j \in 1 .. u : lines[j] = share(G, at[j])
  <2>1. \A j \in 1 .. u : \E k \in 1 .. parts : lines[j] = share(G, k)
    <3> HIDE DEF share
    <3> QED BY <1>3
  <2> DEFINE at == [j \in 1 .. u |-> CHOOSE k \in 1 .. parts : lines[j] = share(G, k)]
  <2>2. at \in [1 .. u -> 1 .. parts] /\ \A j \in 1 .. u : lines[j] = share(G, at[j])
    <3> HIDE DEF share
    <3> QED BY <2>1
  <2> HIDE DEF at, share
  <2> QED BY <2>2
<1>7. ASSUME NEW j \in 1 .. u
      PROVE  at[j] \in 1 .. Order /\ at[j] \in 0 .. Order /\ Coordinate(at[j]) \in Byte \ {Zero}
  <2>1. at[j] \in 1 .. Order /\ at[j] \in 0 .. Order
    BY <1>1
  <2> QED BY <2>1, Coordinates
<1>8. ASSUME NEW j \in 1 .. u, NEW k \in 1 .. u, Coordinate(at[j]) = Coordinate(at[k]) PROVE j = k
  <2>1. at[j] = at[k]
    BY <1>7, <1>8, Coordinates
  <2>2. lines[j] = lines[k]
    <3> HIDE DEF share
    <3> QED BY <1>6, <2>1
  <2>3. DOMAIN lines = 1 .. u
    OBVIOUS
  <2> QED BY <1>5, <2>2, <2>3 DEF IsInjective
(* The points of these lines, and the other key at 0.                      *)
<1> DEFINE e == [j \in 1 .. t |-> IF j = 1 THEN Zero ELSE Coordinate(at[j - 1])]
           v(n) == [j \in 1 .. t |-> IF j = 1 THEN other[n] ELSE G[n][Coordinate(at[j - 1])]]
<1>9. /\ \A j \in 1 .. t : j # 1 => j - 1 \in 1 .. u
      /\ \A j \in 1 .. u : j + 1 \in 1 .. t /\ j + 1 # 1 /\ (j + 1) - 1 = j
      /\ 1 \in 1 .. t /\ Zero \in Byte
  <2>1. \A j \in 1 .. t : j # 1 => j - 1 \in 1 .. u
    BY <1>4
  <2>2. \A j \in 1 .. u : j + 1 \in 1 .. t /\ j + 1 # 1 /\ (j + 1) - 1 = j
    BY <1>4
  <2>3. 1 \in 1 .. t /\ Zero \in Byte
    BY <1>4 DEF Arithmetic
  <2> QED BY <2>1, <2>2, <2>3
<1>10. e \in [1 .. t -> Byte] /\ IsInjective(e)
  <2>1. ASSUME NEW j \in 1 .. t, j # 1 PROVE Coordinate(at[j - 1]) \in Byte \ {Zero}
    BY <1>7, <1>9, <2>1
  <2>2. e \in [1 .. t -> Byte]
    BY <1>9, <2>1
  <2>3. ASSUME NEW j \in 1 .. t, NEW k \in 1 .. t, e[j] = e[k] PROVE j = k
    <3>1. CASE j = 1 \/ k = 1
      BY <2>1, <2>3, <3>1
    <3>2. CASE j # 1 /\ k # 1
      <4>1. j - 1 \in 1 .. u /\ k - 1 \in 1 .. u
        BY <1>9, <3>2
      <4>2. j - 1 = k - 1
        BY <1>8, <2>3, <3>2, <4>1
      <4> QED BY <4>2
    <3> QED BY <3>1, <3>2
  <2>4. DOMAIN e = 1 .. t
    OBVIOUS
  <2> HIDE DEF e
  <2> QED BY <2>2, <2>3, <2>4 DEF IsInjective
<1>11. ASSUME NEW n \in 1 .. L PROVE v(n) \in [1 .. t -> Byte]
  <2>1. other[n] \in Byte
    BY <1>2
  <2>2. ASSUME NEW j \in 1 .. t, j # 1 PROVE G[n][Coordinate(at[j - 1])] \in Byte
    <3>1. PICK c \in Byte : c = Coordinate(at[j - 1])
      BY <1>7, <1>9, <2>2
    <3>2. G[n][c] \in Byte
      BY PolyType
    <3> QED BY <3>1, <3>2
  <2> QED BY <2>1, <2>2
<1>12. ASSUME NEW n \in 1 .. L
       PROVE  \E c \in [1 .. t -> Byte] : \A j \in 1 .. t : eval(c, e[j]) = v(n)[j]
  <2>1. PICK Q \in Poly(t) : \A j \in 1 .. t : Q[e[j]] = v(n)[j]
    <3>1. PICK p \in [1 .. t -> Byte] : p = v(n)
      <4> HIDE DEF v
      <4> QED BY <1>11
    <3> HIDE DEF e, v
    <3>2. \E Q \in Poly(t) : \A j \in 1 .. t : Q[e[j]] = p[j]
      BY <1>10, Through
    <3> QED BY <3>1, <3>2
  <2>2. PICK c \in [1 .. t -> Byte] : Q = [z \in Byte |-> eval(c, z)]
    BY DEF Poly
  <2>3. \A j \in 1 .. t : eval(c, e[j]) = v(n)[j]
    <3> HIDE DEF e, v
    <3> QED BY <1>10, <2>1, <2>2
  <2> HIDE DEF e, v
  <2> QED BY <2>3
<1>13. PICK C \in [1 .. L -> [1 .. t -> Byte]] :
         \A n \in 1 .. L : \A j \in 1 .. t : eval(C[n], e[j]) = v(n)[j]
  <2> DEFINE C == [n \in 1 .. L |-> CHOOSE c \in [1 .. t -> Byte] : \A j \in 1 .. t : eval(c, e[j]) = v(n)[j]]
  <2>1. ASSUME NEW n \in 1 .. L
        PROVE  C[n] \in [1 .. t -> Byte] /\ \A j \in 1 .. t : eval(C[n], e[j]) = v(n)[j]
    <3> HIDE DEF e, v
    <3> QED BY <1>12
  <2>2. C \in [1 .. L -> [1 .. t -> Byte]]
    <3>1. C = [n \in 1 .. L |-> C[n]]
      OBVIOUS
    <3> HIDE DEF C
    <3> QED BY <2>1, <3>1
  <2> HIDE DEF C, e, v
  <2> QED BY <2>1, <2>2
<1> DEFINE draw == [n \in 1 .. L |-> [c \in 2 .. t |-> C[n][c]]]
           coeffs(n) == [c \in 1 .. t |-> IF c = 1 THEN other[n] ELSE draw[n][c]]
<1>14. draw \in Draws(Len(other), t)
  <2>1. \A n \in 1 .. L : \A c \in 2 .. t : C[n][c] \in Byte
    OBVIOUS
  <2>2. draw \in [1 .. L -> [2 .. t -> Byte]]
    BY <2>1
  <2> HIDE DEF draw
  <2> QED BY <1>2, <2>2 DEF Draws
<1>15. ASSUME NEW n \in 1 .. L PROVE coeffs(n) = C[n]
  <2>1. C[n][1] = other[n]
    <3>1. eval(C[n], Zero) = C[n][1]
      <4>1. t \in Nat \ {0} /\ C[n] \in [1 .. t -> Byte]
        BY <1>4
      <4> QED BY <4>1, EvalAtZero
    <3>2. e[1] = Zero /\ v(n)[1] = other[n]
      BY <1>9
    <3>3. eval(C[n], e[1]) = v(n)[1]
      <4> HIDE DEF e, v
      <4> QED BY <1>9, <1>13
    <3> HIDE DEF e, v
    <3> QED BY <3>1, <3>2, <3>3
  <2>2. ASSUME NEW c \in 1 .. t, c # 1 PROVE draw[n][c] = C[n][c]
    <3>1. c \in 2 .. t
      BY <2>2
    <3> QED BY <3>1
  <2>3. \A c \in 1 .. t : (IF c = 1 THEN other[n] ELSE draw[n][c]) = C[n][c]
    <3> HIDE DEF draw
    <3> QED BY <2>1, <2>2
  <2>4. coeffs(n) = [c \in 1 .. t |-> C[n][c]]
    <3> HIDE DEF draw
    <3> QED BY <2>3
  <2>5. C[n] = [c \in 1 .. t |-> C[n][c]]
    OBVIOUS
  <2> HIDE DEF coeffs
  <2> QED BY <2>4, <2>5
<1>16. ASSUME NEW s \in S PROVE s \in Split(other, Order, t, draw)
  <2>1. PICK j \in 1 .. u : lines[j] = s
    BY <1>5
  <2>2. PICK k \in 1 .. Order : k = at[j] /\ k \in 0 .. Order
    BY <1>7
  <2>3. ASSUME NEW n \in 1 .. L PROVE eval(coeffs(n), Coordinate(k)) = G[n][Coordinate(k)]
    <3>1. e[j + 1] = Coordinate(k) /\ v(n)[j + 1] = G[n][Coordinate(k)]
      BY <1>9, <2>2
    <3>2. eval(C[n], e[j + 1]) = v(n)[j + 1]
      <4> HIDE DEF e, v
      <4> QED BY <1>9, <1>13
    <3> HIDE DEF e, v, coeffs
    <3> QED BY <1>15, <3>1, <3>2
  <2>4. [n \in 1 .. L |-> eval(coeffs(n), Coordinate(k))] = [n \in 1 .. L |-> G[n][Coordinate(k)]]
    <3> HIDE DEF coeffs
    <3> QED BY <2>3
  <2>5. s = [x |-> Coordinate(k), y |-> [n \in 1 .. L |-> eval(coeffs(n), Coordinate(k))]]
    <3>1. s = share(G, k)
      <4> HIDE DEF share
      <4> QED BY <1>6, <2>1, <2>2
    <3> HIDE DEF coeffs
    <3> QED BY <2>4, <3>1
  <2>6. Split(other, Order, t, draw) =
          {[x |-> Coordinate(l), y |-> [n \in 1 .. L |-> eval(coeffs(n), Coordinate(l))]] : l \in 1 .. Order}
    <3> HIDE DEF draw
    <3> QED BY <1>2 DEF Split
  <2> HIDE DEF coeffs, draw
  <2> QED BY <2>5, <2>6
(* Another draw that prints these lines has polynomials that agree with    *)
(* those of this one at the threshold's number of points.                  *)
<1>17. ASSUME NEW again \in Draws(Len(other), t), S \subseteq Split(other, Order, t, again)
       PROVE  again = draw
  <2> DEFINE those(n) == [c \in 1 .. t |-> IF c = 1 THEN other[n] ELSE again[n][c]]
  <2>1. again \in [1 .. L -> [2 .. t -> Byte]] /\ t \in Nat \ {0} /\ t <= Order
    BY <1>1, <1>2, <1>4 DEF Draws, CanSplit
  <2>2. ASSUME NEW n \in 1 .. L PROVE those(n) \in [1 .. t -> Byte] /\ those(n)[1] = other[n]
    <3>1. other[n] \in Byte /\ again[n] \in [2 .. t -> Byte]
      BY <1>2, <2>1
    <3>2. ASSUME NEW c \in 1 .. t, c # 1 PROVE again[n][c] \in Byte
      <4>1. c \in 2 .. t
        BY <3>2
      <4> QED BY <3>1, <4>1
    <3> QED BY <1>9, <3>1, <3>2
  <2>3. Split(other, Order, t, again) =
          {[x |-> Coordinate(l), y |-> [n \in 1 .. L |-> eval(those(n), Coordinate(l))]] : l \in 1 .. Order}
    BY <1>2 DEF Split
  <2>4. ASSUME NEW n \in 1 .. L, NEW j \in 1 .. u
        PROVE  eval(those(n), Coordinate(at[j])) = G[n][Coordinate(at[j])]
    <3>1. PICK l \in 1 .. Order :
            lines[j] = [x |-> Coordinate(l), y |-> [k \in 1 .. L |-> eval(those(k), Coordinate(l))]]
      <4>1. lines[j] \in Split(other, Order, t, again)
        BY <1>17
      <4> HIDE DEF those
      <4> QED BY <2>3, <4>1
    <3>2. lines[j] = [x |-> Coordinate(at[j]), y |-> [k \in 1 .. L |-> G[k][Coordinate(at[j])]]]
      BY <1>6
    <3>3. Coordinate(l) = Coordinate(at[j]) /\ l \in 0 .. Order /\ at[j] \in 0 .. Order
      <4>1. lines[j].x = Coordinate(l) /\ lines[j].x = Coordinate(at[j])
        <5> HIDE DEF those
        <5> QED BY <3>1, <3>2
      <4> QED BY <1>1, <1>7, <4>1
    <3>4. lines[j].y[n] = eval(those(n), Coordinate(l)) /\ lines[j].y[n] = G[n][Coordinate(at[j])]
      <4> HIDE DEF those
      <4> QED BY <3>1, <3>2
    <3> HIDE DEF those
    <3> QED BY <3>3, <3>4
  <2>5. ASSUME NEW n \in 1 .. L PROVE those(n) = C[n]
    <3>1. PICK a \in [1 .. t -> Byte], b \in [1 .. t -> Byte] : a = those(n) /\ b = C[n]
      <4> HIDE DEF those
      <4> QED BY <2>2
    <3>2. ASSUME NEW j \in 1 .. t PROVE eval(a, e[j]) = eval(b, e[j])
      <4>1. eval(b, e[j]) = v(n)[j]
        <5> HIDE DEF e, v
        <5> QED BY <1>13, <3>1
      <4>2. CASE j = 1
        <5>1. e[j] = Zero /\ v(n)[j] = other[n]
          BY <4>2
        <5>2. eval(a, Zero) = other[n]
          <6>1. eval(a, Zero) = a[1]
            BY <2>1, EvalAtZero
          <6> HIDE DEF those
          <6> QED BY <2>2, <3>1, <6>1
        <5> HIDE DEF e, v
        <5> QED BY <4>1, <5>1, <5>2
      <4>3. CASE j # 1
        <5>1. PICK k \in 1 .. u : k = j - 1
          BY <1>9, <4>3
        <5>2. e[j] = Coordinate(at[k]) /\ v(n)[j] = G[n][Coordinate(at[k])]
          BY <4>3, <5>1
        <5>3. eval(a, Coordinate(at[k])) = G[n][Coordinate(at[k])]
          <6> HIDE DEF those
          <6> QED BY <2>4, <3>1
        <5> HIDE DEF e, v
        <5> QED BY <4>1, <5>2, <5>3
      <4> QED BY <4>2, <4>3
    <3>3. PICK f, g : f = [z \in Byte |-> eval(a, z)] /\ g = [z \in Byte |-> eval(b, z)]
      OBVIOUS
    <3>4. f \in Poly(t) /\ g \in Poly(t)
      BY <3>3 DEF Poly
    <3>5. \A j \in 1 .. t : f[e[j]] = g[e[j]]
      <4> HIDE DEF e
      <4> QED BY <1>10, <3>2, <3>3
    <3>6. \A z \in Byte : f[z] = g[z]
      <4> HIDE DEF e
      <4> QED BY <1>10, <2>1, <3>4, <3>5, Agree
    <3>7. \A z \in Byte : eval(a, z) = eval(b, z)
      BY <3>3, <3>6
    <3>8. a = b
      <4>1. \A c, d \in [1 .. t -> Byte] : (\A z \in Byte : eval(c, z) = eval(d, z)) => c = d
        <5>1. t <= Order
          BY <1>1 DEF CanSplit
        <5> HIDE DEF Order
        <5> QED BY <5>1, CoeffsUnique
      <4> QED BY <2>1, <3>1, <3>7, <4>1
    <3> HIDE DEF those
    <3> QED BY <3>1, <3>8
  <2>6. ASSUME NEW n \in 1 .. L PROVE again[n] = draw[n]
    <3>1. ASSUME NEW c \in 2 .. t PROVE again[n][c] = C[n][c]
      <4>1. c \in 1 .. t /\ c # 1
        OBVIOUS
      <4>2. those(n)[c] = again[n][c]
        BY <4>1
      <4> HIDE DEF those
      <4> QED BY <2>5, <4>2
    <3>2. again[n] = [c \in 2 .. t |-> again[n][c]] /\ draw[n] = [c \in 2 .. t |-> C[n][c]]
      BY <2>1
    <3> HIDE DEF draw
    <3> QED BY <3>1, <3>2
  <2>7. again = [n \in 1 .. L |-> again[n]] /\ draw = [n \in 1 .. L |-> draw[n]]
    BY <2>1
  <2> HIDE DEF draw
  <2> QED BY <2>6, <2>7
<1>18. S \subseteq Split(other, Order, t, draw)
  <2> HIDE DEF draw
  <2> QED BY <1>16
<1> HIDE DEF draw
<1> QED BY <1>14, <1>17, <1>18

(* A split prints finitely many lines, each with one byte for each of the  *)
(* key.                                                                    *)
LEMMA SplitLines ==
  ASSUME Arithmetic, field \in Fields, NEW key \in Seq(Byte), NEW parts \in Nat, NEW t \in Nat,
         CanSplit(key, parts, t), NEW drawn \in Draws(Len(key), t)
  PROVE  /\ Split(key, parts, t, drawn) \subseteq [x : Byte, y : [1 .. Len(key) -> Byte]]
         /\ IsFiniteSet(Split(key, parts, t, drawn))
<1>1. PICK L \in Nat : L = Len(key)
  OBVIOUS
<1>2. PICK G \in [1 .. L -> Poly(t)] : Split(key, parts, t, drawn) = PointsOf(G, L, parts)
  <2>1. PICK G \in [1 .. Len(key) -> Poly(t)] :
          Split(key, parts, t, drawn) = PointsOf(G, Len(key), parts)
    BY SplitIs
  <2> QED BY <1>1, <2>1
<1> DEFINE share(k) == [x |-> Coordinate(k), y |-> [n \in 1 .. L |-> G[n][Coordinate(k)]]]
<1>3. Split(key, parts, t, drawn) = {share(k) : k \in 1 .. parts}
  BY <1>2 DEF PointsOf
<1>4. ASSUME NEW k \in 1 .. parts PROVE share(k) \in [x : Byte, y : [1 .. L -> Byte]]
  <2>1. k \in 0 .. Order
    BY Widths DEF CanSplit, Order
  <2>2. PICK c \in Byte : c = Coordinate(k)
    BY <2>1, Coordinates
  <2>3. ASSUME NEW n \in 1 .. L PROVE G[n][c] \in Byte
    BY PolyType
  <2>4. [n \in 1 .. L |-> G[n][c]] \in [1 .. L -> Byte]
    BY <2>3
  <2> QED BY <2>2, <2>4
<1>5. IsFiniteSet({share(k) : k \in 1 .. parts})
  <2> DEFINE f == [k \in 1 .. parts |-> share(k)]
             T == {share(k) : k \in 1 .. parts}
  <2>1. f \in Surjection(1 .. parts, T)
    <3> HIDE DEF share
    <3> QED BY DEF Surjection
  <2>2. IsFiniteSet(1 .. parts)
    BY FS_Interval
  <2> HIDE DEF f, T
  <2>3. IsFiniteSet(T)
    BY <2>1, <2>2, FS_Surjection
  <2> QED BY <2>3 DEF T
<1> HIDE DEF share
<1> QED BY <1>1, <1>3, <1>4, <1>5
=============================================================================
