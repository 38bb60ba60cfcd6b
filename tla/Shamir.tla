------------------------------- MODULE Shamir -------------------------------
(***************************************************************************)
(* core/shamir: secret sharing over GF(2^8) with logarithm tables.  A byte *)
(* is the set of its bits that are 1, so xor is symmetric difference.  The *)
(* field is a parameter, to check the same code exhaustively on a small    *)
(* one: the code's own is [bits |-> 8, poly |-> {0, 1, 3, 4}], 0x1b.       *)
(***************************************************************************)
EXTENDS Integers, SequencesExt

CONSTANT Fields      \* width, and the low part of the reduction polynomial

ASSUME FieldsAssumption ==
  \A f \in Fields : f.bits \in Nat \ {0} /\ f.poly \subseteq 0 .. f.bits - 1

Bytes(f) == SUBSET (0 .. f.bits - 1)
Zero     == {}
One      == {0}
Size(f)  == 2 ^ f.bits - 1           \* 255: the non-zero bytes

(* Twice a byte: the bits move up, and the one that falls out is reduced.  *)
DoubledIn(f, b) ==
  SymDiff({k + 1 : k \in b \ {f.bits - 1}}, IF f.bits - 1 \in b THEN f.poly ELSE {})
TripledIn(f, b) == SymDiff(DoubledIn(f, b), b)

(* The powers of 3.  That 3 is a generator is what the tables are built    *)
(* on: its powers run through every non-zero byte and are back at 1.       *)
Powers(f) ==
  LET triple == [b \in Bytes(f) |-> TripledIn(f, b)]
      power[n \in 0 .. Size(f)] == IF n = 0 THEN One ELSE triple[power[n - 1]]
  IN  power

ASSUME GeneratorAssumption == \A f \in Fields :
  /\ {Powers(f)[n] : n \in 0 .. Size(f) - 1} = Bytes(f) \ {Zero}
  /\ Powers(f)[Size(f)] = One

VARIABLES
  field,             \* the field this build of the package is for
  gfExp, gfLog,      \* the package's tables
  x, i               \* the local variables of init(), which fills them

tables == <<field, gfExp, gfLog, x, i>>

Byte  == Bytes(field)
Order == Size(field)

TablesInit ==
  /\ field \in Fields
  /\ gfExp = [k \in 0 .. 2 * Order + 1 |-> Zero]
  /\ gfLog = [b \in Byte |-> 0]
  /\ x = One /\ i = 0

Doubled(b) == DoubledIn(field, b)
Tripled(b) == SymDiff(Doubled(b), b)

FillOneMore ==                       \* a mistake: the loop takes one turn too many
  /\ i <= Order
  /\ gfExp' = [gfExp EXCEPT ![i] = x]
  /\ gfLog' = [gfLog EXCEPT ![x] = i]
  /\ x' = Tripled(x) /\ i' = i + 1
  /\ UNCHANGED field

(* One turn of the first loop of init().                                   *)
FillTables ==
  /\ i < Order
  /\ gfExp' = [gfExp EXCEPT ![i] = x]
  /\ gfLog' = [gfLog EXCEPT ![x] = i]
  /\ x' = Tripled(x) /\ i' = i + 1
  /\ UNCHANGED field

NotRepeated == gfExp                 \* a mistake: a table of 255 entries
Repeated == [k \in DOMAIN gfExp |-> gfExp[k % Order]]

(* The second loop; the package is ready when it ends.                     *)
RepeatTable ==
  /\ i = Order
  /\ gfExp' = Repeated
  /\ i' = Order + 1
  /\ UNCHANGED <<field, gfLog, x>>

Ready == i = Order + 1
-----------------------------------------------------------------------------
gfMul(a, b) == IF Zero \in {a, b} THEN Zero ELSE gfExp[gfLog[a] + gfLog[b]]
gfDiv(a, b) == IF a = Zero THEN Zero ELSE gfExp[gfLog[a] - gfLog[b] + Order]

(* Horner's method, the last coefficient first.                            *)
eval(coeffs, at) ==
  LET result[n \in 0 .. Len(coeffs)] ==
        IF n = 0 THEN Zero
        ELSE SymDiff(gfMul(result[n - 1], at), coeffs[Len(coeffs) + 1 - n])
  IN  result[Len(coeffs)]

(* The x coordinate of the k-th share, byte(k).                            *)
Coordinate(k) == {b \in 0 .. field.bits - 1 : (k \div 2 ^ b) % 2 = 1}

SharedDraws(length, threshold) ==    \* a mistake: drawn once, not for each byte
  {[n \in 1 .. length |-> c] : c \in [2 .. threshold -> Byte]}

(* What rand.Read may put in coeffs[1:] for each byte of the secret.       *)
Draws(length, threshold) == [1 .. length -> [2 .. threshold -> Byte]]

CanSplit(secret, parts, threshold) ==
  2 <= threshold /\ threshold <= parts /\ parts <= Order /\ Len(secret) # 0

Split(secret, parts, threshold, drawn) ==
  LET coeffs(n) == [c \in 1 .. threshold |-> IF c = 1 THEN secret[n] ELSE drawn[n][c]]
      share(k) == [x |-> Coordinate(k),
                   y |-> [n \in 1 .. Len(secret) |-> eval(coeffs(n), Coordinate(k))]]
  IN  {share(k) : k \in 1 .. parts}

CanCombineAny(shares) ==             \* a mistake: a repeated coordinate is let in
  /\ Len(shares) >= 2
  /\ \A j \in DOMAIN shares :
       shares[j].x # Zero /\ Len(shares[j].y) = Len(shares[1].y)

CanCombine(shares) ==
  /\ Len(shares) >= 2
  /\ \A j \in DOMAIN shares :
       shares[j].x # Zero /\ Len(shares[j].y) = Len(shares[1].y)
  /\ IsInjective([j \in DOMAIN shares |-> shares[j].x])

ProductOfAll(bytes, j) ==            \* a mistake: j is not skipped
  LET product[n \in 0 .. Len(bytes)] ==
        IF n = 0 THEN One ELSE gfMul(product[n - 1], bytes[n])
  IN  product[Len(bytes)]
ProductBut(bytes, j) ==
  LET product[n \in 0 .. Len(bytes)] ==
        IF n = 0 THEN One
        ELSE IF n = j THEN product[n - 1] ELSE gfMul(product[n - 1], bytes[n])
  IN  product[Len(bytes)]

SumOf(bytes) ==
  LET sum[n \in 0 .. Len(bytes)] ==
        IF n = 0 THEN Zero ELSE SymDiff(sum[n - 1], bytes[n])
  IN  sum[Len(bytes)]

Numerator(shares, j) == ProductBut([k \in DOMAIN shares |-> shares[k].x], j)
Denominator(shares, j) ==
  ProductBut([k \in DOMAIN shares |-> SymDiff(shares[j].x, shares[k].x)], j)

(* gfDiv panics on a zero divisor.                                         *)
Panics(shares) == \E j \in DOMAIN shares : Denominator(shares, j) = Zero

(* Lagrange interpolation at 0.                                            *)
Combine(shares) ==
  LET basis(j) == gfDiv(Numerator(shares, j), Denominator(shares, j))
  IN  [n \in DOMAIN shares[1].y |->
         SumOf([j \in DOMAIN shares |-> gfMul(shares[j].y[n], basis(j))])]
-----------------------------------------------------------------------------
(* The reference: the product of two polynomials over GF(2), reduced.      *)
Product(a, b) ==
  LET times[k \in 0 .. field.bits - 1] == IF k = 0 THEN a ELSE Doubled(times[k - 1])
  IN  SumOf([k \in 1 .. field.bits |-> IF k - 1 \in b THEN times[k - 1] ELSE Zero])

(* The tables agree with multiplication in the field, and division undoes  *)
(* it, for every pair of bytes: the generator reaches every non-zero byte, *)
(* and every index that two logarithms add up to is in the table.          *)
FieldArithmetic == Ready => \A a, b \in Byte :
  /\ gfMul(a, b) = Product(a, b)
  /\ b # Zero => gfMul(gfDiv(a, b), b) = a
=============================================================================
