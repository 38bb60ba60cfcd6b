-------------------------- MODULE MCControlBilling --------------------------
(* Model-checking instances of ControlBilling: symmetry, and the values    *)
(* the configurations give to its constants.                               *)
EXTENDS ControlBilling, TLC

Ids == Permutations(InvoiceIds) \cup Permutations(Accounts) \cup Permutations(Sessions)
=============================================================================
