----------------------------- MODULE MCFSBackend -----------------------------
(* Model-checking instances of FSBackend: symmetry of the writers.         *)
EXTENDS FSBackend, TLC

WriterIds == Permutations(Writers)
=============================================================================
