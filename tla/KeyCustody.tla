----------------------------- MODULE KeyCustody -----------------------------
(***************************************************************************)
(* What custodians of a vault's master key do with vaultctl: `split' deals *)
(* shares of it, `combine' takes back whatever lines are pasted.  Every    *)
(* command is a process of its own that fills the tables of the package    *)
(* anew; what is kept between two commands is on paper.  The key that      *)
(* `split' derives is of the vault that the words and the passphrase open: *)
(* a wrong passphrase opens another vault, with another key, and no error. *)
(***************************************************************************)
EXTENDS Shamir

CONSTANTS
  Lengths,           \* of the key, in bytes: the code's is 32
  Thresholds, Parts, \* what --threshold and --shares are given
  Strays,            \* mistyped lines, and lines of other vaults
  SplitWidth,        \* bounds: the width of the field splits are made in,
  MaxDealt, MaxDrawn, MaxPasted     \* the bytes split in all, the random bytes
                                    \* of one split, the lines of one combine

ASSUME CustodyAssumption ==
  /\ Lengths \subseteq Nat \ {0} /\ Thresholds \subseteq Nat /\ Parts \subseteq Nat
  /\ SplitWidth \in Nat /\ MaxDealt \in Nat /\ MaxDrawn \in Nat /\ MaxPasted \in Nat
  /\ IsFiniteSet(Strays)
  /\ \A f \in Fields : Strays \subseteq [x : Bytes(f), y : Seq(Bytes(f))]

VARIABLES
  dealt,             \* the splits: the key, the threshold, the shares printed
  printed            \* what the last combine printed

vars == <<field, gfExp, gfLog, x, i, dealt, printed>>

Keys(length) == [1 .. length -> Byte]
AllKeys == UNION {Keys(n) : n \in Lengths}

Outcome(what, key) == [what |-> what, key |-> key]
Nothing == Outcome("nothing", <<>>)

Init == TablesInit /\ dealt = {} /\ printed = Nothing

BytesDealt == MapThenSumSet(LAMBDA d : Len(d.key), dealt)

SplitKey(key, parts, threshold) ==
  /\ Ready /\ field.bits <= SplitWidth
  /\ CanSplit(key, parts, threshold)
  /\ BytesDealt + Len(key) <= MaxDealt /\ Len(key) * (threshold - 1) <= MaxDrawn
  /\ \E drawn \in Draws(Len(key), threshold) :
       dealt' = dealt \cup {[key |-> key, threshold |-> threshold,
                             shares |-> Split(key, parts, threshold, drawn)]}
  /\ printed' = Nothing
  /\ UNCHANGED tables

Lines == Strays \cup UNION {d.shares : d \in dealt}

(* The lines in any order, or one of them twice.                           *)
Pasted ==
  LET SetsTo(n) == UNION {kSubset(m, Lines) : m \in 0 .. n}
  IN  {SetToSeq(S) : S \in SetsTo(MaxPasted)}
      \cup UNION {{Append(SetToSeq(S), again) : again \in S} : S \in SetsTo(MaxPasted - 1)}

CombineLines(lines) ==
  /\ Ready /\ dealt # {} /\ printed = Nothing
  /\ printed' = IF ~CanCombine(lines) THEN Outcome("error", <<>>)
                ELSE IF Panics(lines) THEN Outcome("panic", <<>>)
                ELSE Outcome("key", Combine(lines))
  /\ UNCHANGED <<tables, dealt>>

Next ==
  \/ FillTables /\ UNCHANGED <<dealt, printed>>
  \/ RepeatTable /\ UNCHANGED <<dealt, printed>>
  \/ \E n \in Lengths : \E key \in Keys(n), p \in Parts, t \in Thresholds : SplitKey(key, p, t)
  \/ \E lines \in Pasted : CombineLines(lines)

Spec == Init /\ [][Next]_vars
-----------------------------------------------------------------------------
(* Every variable keeps its shape, tables and printed key included.        *)
TypeOK ==
  /\ field \in Fields /\ i \in 0 .. Order + 1 /\ x \in Byte
  /\ gfExp \in [0 .. 2 * Order + 1 -> Byte] /\ gfLog \in [Byte -> 0 .. Order - 1]
  /\ \A d \in dealt : /\ d.key \in AllKeys /\ d.threshold \in Thresholds
                      /\ d.shares \subseteq [x : Byte, y : AllKeys]
  /\ \/ printed.what \in {"nothing", "error", "panic"} /\ printed.key = <<>>
     \/ printed.what = "key" /\ printed.key \in Seq(Byte)

(* combine leaves what was dealt alone, so the next two properties need to *)
(* be evaluated only where a split was the last command.                   *)
SplitLast == printed = Nothing

(* Any threshold of the shares of a split, and any larger number of them,  *)
(* give back the key that was split.                                       *)
AnyKRecover == SplitLast => \A d \in dealt : \A S \in SUBSET d.shares :
  Cardinality(S) >= d.threshold =>
    LET lines == SetToSeq(S)
    IN  CanCombine(lines) /\ ~Panics(lines) /\ Combine(lines) = d.key

(* Fewer shares than the threshold reveal nothing: for every key of that   *)
(* length one draw, and no other, makes its split print them, so they are  *)
(* as likely under each key.                                               *)
Printing(key, S, threshold) ==
  {drawn \in Draws(Len(key), threshold) : S \subseteq Split(key, Order, threshold, drawn)}
FewerConceal == SplitLast => \A d \in dealt : \A S \in SUBSET d.shares :
  Cardinality(S) = d.threshold - 1 =>
    \A key \in Keys(Len(d.key)) : Cardinality(Printing(key, S, d.threshold)) = 1

(* Whatever is pasted, combine reports an error or prints a key: it never  *)
(* divides by zero.                                                        *)
NeverPanics == printed.what # "panic"
=============================================================================
