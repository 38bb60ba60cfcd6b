------------------------------- MODULE MCVault -------------------------------
(* Model-checking instances of Vault: the blocks of its files, and         *)
(* symmetry of the clients.                                                *)
EXTENDS Vault, TLC

FileBlocks == Files \X Parts
ClientIds  == Permutations(Clients)
=============================================================================
