-------------------------- MODULE KeyCustody_proofs -------------------------
(***************************************************************************)
(* What custodians do with a vault's key, for any number of splits, lines  *)
(* and custodians, any key length and any field with a generator.          *)
(***************************************************************************)
EXTENDS KeyCustody, Shamir_proofs

(* What a split computes depends on the tables alone.                      *)
LEMMA SplitUnchanged ==
  ASSUME UNCHANGED tables, NEW key, NEW parts, NEW t, NEW drawn
  PROVE  /\ Split(key, parts, t, drawn)' = Split(key, parts, t, drawn)
         /\ CanSplit(key, parts, t)' = CanSplit(key, parts, t)
         /\ Draws(parts, t)' = Draws(parts, t) /\ Byte' = Byte /\ AllKeys' = AllKeys
         /\ Ready' = Ready
<1>1. Split(key, parts, t, drawn)' = Split(key, parts, t, drawn)
  BY DEF tables, Split, eval, gfMul, Coordinate
<1>2. CanSplit(key, parts, t)' = CanSplit(key, parts, t)
  BY DEF tables, CanSplit, Order
<1>3. Byte' = Byte /\ AllKeys' = AllKeys /\ Draws(parts, t)' = Draws(parts, t)
  BY DEF tables, Byte, AllKeys, Keys, Draws
<1>4. Ready' = Ready
  BY DEF tables, Ready, Order
<1> QED BY <1>1, <1>2, <1>3, <1>4

(* A split on paper is what the code computed, from some draw.             *)
SplitOf(d) == \E parts \in Parts : \E drawn \in Draws(Len(d.key), d.threshold) :
  /\ CanSplit(d.key, parts, d.threshold)
  /\ d.shares = Split(d.key, parts, d.threshold, drawn)

(* The inductive invariant.                                                *)
IInv ==
  /\ Filled
  /\ dealt # {} => Ready
  /\ IsFiniteSet(dealt)
  /\ \A d \in dealt : d.key \in AllKeys /\ d.threshold \in Thresholds /\ SplitOf(d)
  /\ \/ printed.what \in {"nothing", "error"} /\ printed.key = <<>>
     \/ printed.what = "key" /\ printed.key \in Seq(Byte)

(* A key is as long as its length says.                                    *)
LEMMA Keyed ==
  ASSUME NEW key \in AllKeys
  PROVE  key \in Seq(Byte) /\ Len(key) \in Lengths /\ key \in Keys(Len(key))
<1>1. PICK n \in Lengths : key \in Keys(n)
  BY DEF AllKeys
<1>2. PICK m \in Nat : m = n
  BY CustodyAssumption
<1>3. key \in [1 .. m -> Byte]
  BY <1>1, <1>2 DEF Keys
<1>4. key \in Seq(Byte) /\ Len(key) = m
  BY <1>3, AsSeq
<1> QED BY <1>1, <1>2, <1>4

(* What the invariant says of one split.                                   *)
LEMMA OneSplit ==
  ASSUME IInv, NEW d \in dealt
  PROVE  /\ Arithmetic /\ field \in Fields
         /\ d.key \in Seq(Byte) /\ d.key \in Keys(Len(d.key)) /\ Len(d.key) \in Lengths
         /\ d.threshold \in Nat
         /\ \E parts \in Nat : \E drawn \in Draws(Len(d.key), d.threshold) :
              /\ CanSplit(d.key, parts, d.threshold)
              /\ d.shares = Split(d.key, parts, d.threshold, drawn)
<1>1. Filled /\ Ready /\ d.key \in AllKeys /\ d.threshold \in Thresholds /\ SplitOf(d)
  BY DEF IInv
<1>2. Arithmetic /\ field \in Fields
  BY <1>1, ReadyArithmetic DEF Filled
<1>3. d.key \in Seq(Byte) /\ d.key \in Keys(Len(d.key)) /\ Len(d.key) \in Lengths
  BY <1>1, Keyed
<1>4. d.threshold \in Nat /\ Parts \subseteq Nat
  BY <1>1, CustodyAssumption
<1> QED BY <1>1, <1>2, <1>3, <1>4 DEF SplitOf

(* The lines that can be pasted are finitely many, and have the shape that *)
(* combine parses.                                                         *)
LEMMA LinesShape ==
  ASSUME IInv
  PROVE  IsFiniteSet(Lines) /\ Lines \subseteq [x : Byte, y : Seq(Byte)]
<1>1. ASSUME NEW d \in dealt PROVE IsFiniteSet(d.shares) /\ d.shares \subseteq [x : Byte, y : Seq(Byte)]
  <2>1. PICK parts \in Nat : \E drawn \in Draws(Len(d.key), d.threshold) :
              /\ CanSplit(d.key, parts, d.threshold)
              /\ d.shares = Split(d.key, parts, d.threshold, drawn)
    BY OneSplit
  <2>2. PICK drawn \in Draws(Len(d.key), d.threshold) :
              /\ CanSplit(d.key, parts, d.threshold)
              /\ d.shares = Split(d.key, parts, d.threshold, drawn)
    BY <2>1
  <2>3. PICK key \in Seq(Byte), t \in Nat : key = d.key /\ t = d.threshold
    BY OneSplit
  <2>4. Arithmetic /\ field \in Fields
    BY OneSplit
  <2>5. /\ Split(key, parts, t, drawn) \subseteq [x : Byte, y : [1 .. Len(key) -> Byte]]
        /\ IsFiniteSet(Split(key, parts, t, drawn))
    BY <2>2, <2>3, <2>4, SplitLines
  <2>6. [1 .. Len(key) -> Byte] \subseteq Seq(Byte)
    OBVIOUS
  <2>7. [x : Byte, y : [1 .. Len(key) -> Byte]] \subseteq [x : Byte, y : Seq(Byte)]
    BY <2>6
  <2> QED BY <2>2, <2>3, <2>5, <2>7
<1>2. IsFiniteSet(UNION {d.shares : d \in dealt})
  <2> DEFINE f == [d \in dealt |-> d.shares]
             T == {d.shares : d \in dealt}
  <2>1. f \in Surjection(dealt, T)
    BY DEF Surjection
  <2>2. IsFiniteSet(dealt)
    BY DEF IInv
  <2>3. \A U \in T : IsFiniteSet(U)
    BY <1>1
  <2> HIDE DEF f, T
  <2>4. IsFiniteSet(T)
    BY <2>1, <2>2, FS_Surjection
  <2>5. IsFiniteSet(UNION T)
    BY <2>3, <2>4, FS_UNION
  <2> QED BY <2>5 DEF T
<1>3. IsFiniteSet(Lines)
  BY <1>2, CustodyAssumption, FS_Union DEF Lines
<1>4. Strays \subseteq [x : Byte, y : Seq(Byte)]
  BY CustodyAssumption DEF IInv, Filled, Byte
<1> QED BY <1>1, <1>3, <1>4 DEF Lines

(* Whatever is pasted is a sequence of lines of that shape.                *)
LEMMA PastedShape ==
  ASSUME IInv, NEW lines \in Pasted
  PROVE  \E m \in Nat : lines \in [1 .. m -> [x : Byte, y : Seq(Byte)]]
<1>1. PICK R : R = [x : Byte, y : Seq(Byte)] /\ Lines \subseteq R
  BY LinesShape
<1>2. ASSUME NEW S \in SUBSET Lines
      PROVE  \E m \in Nat : SetToSeq(S) \in [1 .. m -> R]
  <2>1. IsFiniteSet(S)
    BY LinesShape, FS_Subset
  <2>2. PICK m \in Nat : m = Cardinality(S) /\ SetToSeq(S) \in [1 .. m -> S]
    BY <2>1, SetAsSeq
  <2>3. SetToSeq(S) \in [1 .. m -> R]
    BY <1>1, <2>2
  <2> QED BY <2>3
<1>3. ASSUME NEW s, NEW m \in Nat, s \in [1 .. m -> R], NEW again \in R
      PROVE  \E n \in Nat : Append(s, again) \in [1 .. n -> R]
  <2>1. s \in Seq(R) /\ Len(s) = m
    BY <1>3, AsSeq
  <2>2. PICK q \in Seq(R) : q = Append(s, again)
    <3>1. Append(s, again) \in Seq(R)
      BY <2>1
    <3> QED BY <3>1
  <2>3. Len(q) \in Nat /\ q \in [1 .. Len(q) -> R]
    OBVIOUS
  <2> QED BY <2>2, <2>3
<1>4. PICK S \in SUBSET Lines : lines = SetToSeq(S) \/ \E again \in S : lines = Append(SetToSeq(S), again)
  BY DEF Pasted, kSubset
<1>5. PICK m \in Nat : SetToSeq(S) \in [1 .. m -> R]
  BY <1>2
<1>6. CASE lines = SetToSeq(S)
  BY <1>1, <1>5, <1>6
<1>7. ASSUME NEW again \in S, lines = Append(SetToSeq(S), again)
      PROVE  \E n \in Nat : lines \in [1 .. n -> R]
  <2>1. again \in R
    BY <1>1
  <2> QED BY <1>3, <1>5, <1>7, <2>1
<1> QED BY <1>1, <1>4, <1>6, <1>7

(* The invariant holds at first.                                           *)
LEMMA InitIInv == Init => IInv
<1> SUFFICES ASSUME Init PROVE IInv
  OBVIOUS
<1>1. Filled
  BY FilledInit DEF Init
<1>2. dealt = {} /\ IsFiniteSet(dealt)
  BY FS_EmptySet DEF Init
<1>3. printed.what = "nothing" /\ printed.key = <<>>
  BY DEF Init, Nothing, Outcome
<1> QED BY <1>1, <1>2, <1>3 DEF IInv

(* While init() runs nothing has been split.                               *)
LEMMA FillIInv ==
  ASSUME IInv, FillTables \/ RepeatTable, UNCHANGED <<dealt, printed>>
  PROVE  IInv'
<1>1. Filled'
  BY FilledStep, FilledRepeat DEF IInv
<1>2. field' = field /\ ~Ready
  <2>1. field \in Fields /\ i \in Int /\ Order \in Int
    <3>1. field \in Fields /\ i \in 0 .. Order + 1
      BY DEF IInv, Filled
    <3>2. Order \in Nat
      BY <3>1, Widths DEF Order
    <3> QED BY <3>1, <3>2
  <2>2. i < Order \/ i = Order
    BY DEF FillTables, RepeatTable
  <2>3. field' = field
    BY DEF FillTables, RepeatTable
  <2> QED BY <2>1, <2>2, <2>3 DEF Ready
<1>3. dealt = {} /\ dealt' = {} /\ IsFiniteSet(dealt')
  BY <1>2 DEF IInv
<1>4. Byte' = Byte
  BY <1>2 DEF Byte
<1>5. (\/ printed.what \in {"nothing", "error"} /\ printed.key = <<>>
       \/ printed.what = "key" /\ printed.key \in Seq(Byte))'
  BY <1>4 DEF IInv
<1> QED BY <1>1, <1>3, <1>5 DEF IInv

(* What is on paper stays what it was while the tables are unchanged.      *)
LEMMA SplitOfUnchanged ==
  ASSUME UNCHANGED tables, NEW d, SplitOf(d)
  PROVE  SplitOf(d)'
<1>1. PICK parts \in Parts : \E drawn \in Draws(Len(d.key), d.threshold) :
        /\ CanSplit(d.key, parts, d.threshold)
        /\ d.shares = Split(d.key, parts, d.threshold, drawn)
  BY DEF SplitOf
<1>2. PICK drawn \in Draws(Len(d.key), d.threshold) :
        /\ CanSplit(d.key, parts, d.threshold)
        /\ d.shares = Split(d.key, parts, d.threshold, drawn)
  BY <1>1
<1>3. CanSplit(d.key, parts, d.threshold)'
  BY <1>2, SplitUnchanged
<1>4. d.shares = Split(d.key, parts, d.threshold, drawn)'
  BY <1>2, SplitUnchanged
<1>5. drawn \in Draws(Len(d.key), d.threshold)'
  BY <1>2, SplitUnchanged
<1> QED BY <1>3, <1>4, <1>5 DEF SplitOf

(* The tables invariant depends on the tables alone.                       *)
LEMMA FilledUnchanged == Filled /\ UNCHANGED tables => Filled' /\ Ready' = Ready /\ Byte' = Byte
                                                       /\ AllKeys' = AllKeys
<1> SUFFICES ASSUME Filled, UNCHANGED tables
             PROVE  Filled' /\ Ready' = Ready /\ Byte' = Byte /\ AllKeys' = AllKeys
  OBVIOUS
<1>1. Ready' = Ready /\ Byte' = Byte /\ AllKeys' = AllKeys /\ Order' = Order
  BY SplitUnchanged DEF Order, tables
<1>2. \A k : Pow(field, k)' = Pow(field, k)
  BY DEF tables, Pow
<1>3. field' = field /\ i' = i /\ x' = x /\ gfExp' = gfExp /\ gfLog' = gfLog
  BY DEF tables
<1> QED BY <1>1, <1>2, <1>3 DEF Filled

(* A split adds what Split computed from what it drew.                     *)
LEMMA SplitIInv ==
  ASSUME IInv, NEW n \in Lengths, NEW key \in Keys(n), NEW p \in Parts, NEW t \in Thresholds,
         SplitKey(key, p, t)
  PROVE  IInv'
<1>1. UNCHANGED tables /\ Ready /\ CanSplit(key, p, t) /\ printed' = Nothing
  BY DEF SplitKey
<1>2. PICK drawn \in Draws(Len(key), t) :
        dealt' = dealt \cup {[key |-> key, threshold |-> t, shares |-> Split(key, p, t, drawn)]}
  BY DEF SplitKey
<1>3. PICK d : d = [key |-> key, threshold |-> t, shares |-> Split(key, p, t, drawn)]
  OBVIOUS
<1>4. d.key = key /\ d.threshold = t /\ d.shares = Split(key, p, t, drawn)
  BY <1>3
<1>5. key \in AllKeys
  BY DEF AllKeys
<1>6. SplitOf(d)
  BY <1>1, <1>4 DEF SplitOf
<1>7. Filled' /\ Ready' /\ AllKeys' = AllKeys
  BY <1>1, FilledUnchanged DEF IInv
<1>8. IsFiniteSet(dealt')
  <2>1. dealt' = dealt \cup {d}
    BY <1>2, <1>3
  <2> QED BY <2>1, FS_AddElement DEF IInv
<1>9. ASSUME NEW c \in dealt' PROVE c.key \in AllKeys' /\ c.threshold \in Thresholds /\ SplitOf(c)'
  <2>1. c.key \in AllKeys /\ c.threshold \in Thresholds /\ SplitOf(c)
    <3>1. c \in dealt \/ c = d
      BY <1>2, <1>3
    <3> QED BY <1>4, <1>5, <1>6, <3>1 DEF IInv
  <2>2. SplitOf(c)'
    BY <1>1, <2>1, SplitOfUnchanged
  <2> QED BY <1>7, <2>1, <2>2
<1>10. printed'.what = "nothing" /\ printed'.key = <<>>
  BY <1>1 DEF Nothing, Outcome
<1> QED BY <1>7, <1>8, <1>9, <1>10 DEF IInv

(* A combine prints an error or a key, and leaves the rest alone.          *)
LEMMA CombineIInv ==
  ASSUME IInv, NEW lines \in Pasted, CombineLines(lines)
  PROVE  IInv'
<1>1. UNCHANGED tables /\ dealt' = dealt /\ Ready
  BY DEF CombineLines
<1>2. Filled' /\ Ready' = Ready /\ Byte' = Byte /\ AllKeys' = AllKeys
  BY <1>1, FilledUnchanged DEF IInv
<1>3. ASSUME NEW d \in dealt' PROVE d.key \in AllKeys' /\ d.threshold \in Thresholds /\ SplitOf(d)'
  <2>1. d.key \in AllKeys /\ d.threshold \in Thresholds /\ SplitOf(d)
    BY <1>1 DEF IInv
  <2>2. SplitOf(d)'
    BY <1>1, <2>1, SplitOfUnchanged
  <2> QED BY <1>2, <2>1, <2>2
<1>4. \/ printed'.what = "error" /\ printed'.key = <<>>
      \/ printed'.what = "key" /\ printed'.key \in Seq(Byte)
  <2>1. CASE ~CanCombine(lines)
    <3>1. printed' = Outcome("error", <<>>)
      BY <2>1 DEF CombineLines
    <3> QED BY <3>1 DEF Outcome
  <2>2. CASE CanCombine(lines)
    <3>1. Arithmetic
      BY <1>1, ReadyArithmetic DEF IInv
    <3>2. PICK m \in Nat : lines \in [1 .. m -> [x : Byte, y : Seq(Byte)]]
      BY PastedShape
    <3>3. ~Panics(lines) /\ Combine(lines) \in Seq(Byte)
      BY <2>2, <3>1, <3>2, CombineType
    <3>4. printed' = Outcome("key", Combine(lines))
      BY <2>2, <3>3 DEF CombineLines
    <3> QED BY <3>3, <3>4 DEF Outcome
  <2> QED BY <2>1, <2>2
<1>5. IsFiniteSet(dealt') /\ (dealt' # {} => Ready')
  BY <1>1, <1>2 DEF IInv
<1> QED BY <1>2, <1>3, <1>4, <1>5 DEF IInv

(* Nothing else happens.                                                   *)
LEMMA StutterIInv == IInv /\ UNCHANGED vars => IInv'
<1> SUFFICES ASSUME IInv, UNCHANGED vars PROVE IInv'
  OBVIOUS
<1>1. UNCHANGED tables /\ dealt' = dealt /\ printed' = printed
  BY DEF vars, tables
<1>2. Filled' /\ Ready' = Ready /\ Byte' = Byte /\ AllKeys' = AllKeys
  BY <1>1, FilledUnchanged DEF IInv
<1>3. ASSUME NEW d \in dealt' PROVE d.key \in AllKeys' /\ d.threshold \in Thresholds /\ SplitOf(d)'
  <2>1. d.key \in AllKeys /\ d.threshold \in Thresholds /\ SplitOf(d)
    BY <1>1 DEF IInv
  <2>2. SplitOf(d)'
    BY <1>1, <2>1, SplitOfUnchanged
  <2> QED BY <1>2, <2>1, <2>2
<1> QED BY <1>1, <1>2, <1>3 DEF IInv

(* In every behaviour of the custodians' commands the tables are those of  *)
(* init() so far, and what is on paper was computed by Split.              *)
THEOREM Inductive == Spec => []IInv
<1>1. ASSUME IInv, [Next]_vars PROVE IInv'
  <2>1. CASE FillTables /\ UNCHANGED <<dealt, printed>>
    BY <1>1, <2>1, FillIInv
  <2>2. CASE RepeatTable /\ UNCHANGED <<dealt, printed>>
    BY <1>1, <2>2, FillIInv
  <2>3. ASSUME NEW n \in Lengths, NEW key \in Keys(n), NEW p \in Parts, NEW t \in Thresholds,
               SplitKey(key, p, t)
        PROVE  IInv'
    BY <1>1, <2>3, SplitIInv
  <2>4. ASSUME NEW lines \in Pasted, CombineLines(lines) PROVE IInv'
    BY <1>1, <2>4, CombineIInv
  <2>5. CASE UNCHANGED vars
    BY <1>1, <2>5, StutterIInv
  <2> QED BY <1>1, <2>1, <2>2, <2>3, <2>4, <2>5 DEF Next
<1> QED BY <1>1, InitIInv, PTL DEF Spec

(* The shape of every variable follows from the invariant.                 *)
LEMMA TypeHolds == IInv => TypeOK
<1> SUFFICES ASSUME IInv PROVE TypeOK
  OBVIOUS
<1>1. /\ field \in Fields /\ i \in 0 .. Order + 1 /\ x \in Byte
      /\ gfExp \in [0 .. 2 * Order + 1 -> Byte] /\ gfLog \in [Byte -> 0 .. Order - 1]
  BY DEF IInv, Filled
<1>2. ASSUME NEW d \in dealt
      PROVE  /\ d.key \in AllKeys /\ d.threshold \in Thresholds
             /\ d.shares \subseteq [x : Byte, y : AllKeys]
  <2>1. PICK parts \in Nat : \E drawn \in Draws(Len(d.key), d.threshold) :
              /\ CanSplit(d.key, parts, d.threshold)
              /\ d.shares = Split(d.key, parts, d.threshold, drawn)
    BY OneSplit
  <2>2. PICK drawn \in Draws(Len(d.key), d.threshold) :
              /\ CanSplit(d.key, parts, d.threshold)
              /\ d.shares = Split(d.key, parts, d.threshold, drawn)
    BY <2>1
  <2>3. PICK key \in Seq(Byte), t \in Nat : key = d.key /\ t = d.threshold
    BY OneSplit
  <2>4. Split(key, parts, t, drawn) \subseteq [x : Byte, y : [1 .. Len(key) -> Byte]]
    <3>1. Arithmetic /\ field \in Fields
      BY OneSplit
    <3> QED BY <2>2, <2>3, <3>1, SplitLines
  <2>5. [1 .. Len(key) -> Byte] \subseteq AllKeys
    <3>1. Len(key) \in Lengths
      BY <2>3, OneSplit
    <3> QED BY <3>1 DEF AllKeys, Keys
  <2>6. d.key \in AllKeys /\ d.threshold \in Thresholds
    BY DEF IInv
  <2>7. [x : Byte, y : [1 .. Len(key) -> Byte]] \subseteq [x : Byte, y : AllKeys]
    BY <2>5
  <2> QED BY <2>2, <2>3, <2>4, <2>6, <2>7
<1> QED BY <1>1, <1>2 DEF IInv, TypeOK

(* Every variable keeps its shape, tables, shares and printed key          *)
(* included, for any set of fields, key lengths, thresholds and stray      *)
(* lines.                                                                  *)
THEOREM TypeCorrect == Spec => []TypeOK
BY Inductive, TypeHolds, PTL

(* Once init() has filled the tables of core/shamir, gfMul is              *)
(* multiplication in the field and gfDiv undoes it, for every width and    *)
(* every reduction polynomial for which 3 is a generator; 0x11b over 8     *)
(* bits is one.                                                            *)
THEOREM FieldArithmeticAlways == Spec => []FieldArithmetic
<1>1. IInv => FieldArithmetic
  BY FilledFieldArithmetic DEF IInv
<1> QED BY <1>1, Inductive, PTL

(* Whatever is pasted into vaultctl combine, Combine reports an error or   *)
(* returns a key: gfDiv is never given a zero divisor.                     *)
THEOREM CombineNeverPanics == Spec => []NeverPanics
<1>1. IInv => NeverPanics
  BY DEF IInv, NeverPanics
<1> QED BY <1>1, Inductive, PTL

(* Any threshold of the shares of a split, and any larger number of them,  *)
(* in the order they are listed in, give back the key that was split.      *)
THEOREM AnyThresholdRecovers == Spec => []AnyKRecover
<1>1. ASSUME IInv PROVE AnyKRecover
  <2> SUFFICES ASSUME NEW d \in dealt, NEW S \in SUBSET d.shares, Cardinality(S) >= d.threshold
               PROVE  LET lines == SetToSeq(S)
                      IN  CanCombine(lines) /\ ~Panics(lines) /\ Combine(lines) = d.key
    BY DEF AnyKRecover
  <2>1. PICK parts \in Nat : \E drawn \in Draws(Len(d.key), d.threshold) :
              /\ CanSplit(d.key, parts, d.threshold)
              /\ d.shares = Split(d.key, parts, d.threshold, drawn)
    BY <1>1, OneSplit
  <2>2. PICK drawn \in Draws(Len(d.key), d.threshold) :
              /\ CanSplit(d.key, parts, d.threshold)
              /\ d.shares = Split(d.key, parts, d.threshold, drawn)
    BY <2>1
  <2>3. PICK key \in Seq(Byte), t \in Nat : key = d.key /\ t = d.threshold
    BY <1>1, OneSplit
  <2>4. Arithmetic /\ field \in Fields /\ CanSplit(key, parts, t) /\ drawn \in Draws(Len(key), t)
        /\ d.shares = Split(key, parts, t, drawn)
    BY <1>1, <2>2, <2>3, OneSplit
  <2>5. IsFiniteSet(S)
    <3>1. IsFiniteSet(Split(key, parts, t, drawn))
      BY <2>4, SplitLines
    <3> QED BY <2>4, <3>1, FS_Subset
  <2>6. PICK m \in Nat : m = Cardinality(S) /\ t <= m
    BY <2>3, <2>5, FS_CardinalityType
  <2>7. SetToSeq(S) \in [1 .. m -> S] /\ IsInjective(SetToSeq(S))
    BY <2>5, <2>6, SetAsSeq
  <2>8. PICK lines \in [1 .. m -> Split(key, parts, t, drawn)] :
          lines = SetToSeq(S) /\ IsInjective(lines)
    BY <2>4, <2>7
  <2>9. CanCombine(lines) /\ ~Panics(lines) /\ Combine(lines) = key
    BY <2>4, <2>6, <2>8, Recover
  <2> QED BY <2>3, <2>8, <2>9
<1> QED BY <1>1, Inductive, PTL

(* Fewer shares than the threshold go with every key of the same length,   *)
(* and are as likely under each: whatever Split drew, for another key one  *)
(* draw, and no other, prints the same lines.                              *)
THEOREM FewerRevealNothing == Spec => []FewerConceal
<1>1. ASSUME IInv PROVE FewerConceal
  <2> SUFFICES ASSUME NEW d \in dealt, NEW S \in SUBSET d.shares,
                      Cardinality(S) = d.threshold - 1, NEW other \in Keys(Len(d.key))
               PROVE  Cardinality(Printing(other, S, d.threshold)) = 1
    BY DEF FewerConceal
  <2>1. PICK parts \in Nat : \E drawn \in Draws(Len(d.key), d.threshold) :
              /\ CanSplit(d.key, parts, d.threshold)
              /\ d.shares = Split(d.key, parts, d.threshold, drawn)
    BY <1>1, OneSplit
  <2>2. PICK drawn \in Draws(Len(d.key), d.threshold) :
              /\ CanSplit(d.key, parts, d.threshold)
              /\ d.shares = Split(d.key, parts, d.threshold, drawn)
    BY <2>1
  <2>3. PICK key \in Seq(Byte), t \in Nat : key = d.key /\ t = d.threshold
    BY <1>1, OneSplit
  <2>4. Arithmetic /\ field \in Fields /\ CanSplit(key, parts, t) /\ drawn \in Draws(Len(key), t)
        /\ d.shares = Split(key, parts, t, drawn)
    BY <1>1, <2>2, <2>3, OneSplit
  <2>5. IsFiniteSet(S)
    <3>1. IsFiniteSet(Split(key, parts, t, drawn))
      BY <2>4, SplitLines
    <3> QED BY <2>4, <3>1, FS_Subset
  <2>6. other \in [1 .. Len(key) -> Byte] /\ S \in SUBSET Split(key, parts, t, drawn)
        /\ Cardinality(S) = t - 1
    BY <2>3, <2>4 DEF Keys
  <2>7. PICK redrawn \in Draws(Len(other), t) :
          /\ S \subseteq Split(other, Order, t, redrawn)
          /\ \A again \in Draws(Len(other), t) :
               S \subseteq Split(other, Order, t, again) => again = redrawn
    BY <2>4, <2>5, <2>6, Conceal
  <2>8. Printing(other, S, t) = {redrawn}
    BY <2>7 DEF Printing
  <2>9. Cardinality({redrawn}) = 1
    BY FS_Singleton
  <2> QED BY <2>3, <2>8, <2>9
<1> QED BY <1>1, Inductive, PTL
=============================================================================
