---------------------------- MODULE MCSecretUpsert ----------------------------
(* Small instances of SecretUpsert.                                         *)
EXTENDS SecretUpsert, TLC

CallSymmetry == Permutations(Calls)
=============================================================================
