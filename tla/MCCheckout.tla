----------------------------- MODULE MCCheckout -----------------------------
(* Model-checking instances of Checkout: symmetry.                         *)
EXTENDS Checkout, TLC

Ids == Permutations(InvoiceIds) \cup Permutations(Sessions)
=============================================================================
