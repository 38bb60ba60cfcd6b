---------------------------- MODULE MCNodeQuota ----------------------------
(* Model-checking instances of NodeQuota.                                  *)
EXTENDS NodeQuota, TLC

Ids == Permutations(Nodes) \cup Permutations(Blocks) \cup Permutations(Requests)
         \cup Permutations(Accounts)
=============================================================================
