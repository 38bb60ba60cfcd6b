---------------------------- MODULE MCKeyCustody ----------------------------
(* Model-checking instances of KeyCustody: the code's field, and one of    *)
(* four bytes with the same generator in which every split can be tried.   *)
EXTENDS KeyCustody

CodeField  == [bits |-> 8, poly |-> {0, 1, 3, 4}]
SmallField == [bits |-> 2, poly |-> {0, 1}]
BothFields == {CodeField, SmallField}

(* A line whose coordinate was mistyped to zero, and one cut short.        *)
StrayLines == {[x |-> {}, y |-> <<{0}>>], [x |-> {1}, y |-> <<>>]}
=============================================================================
