-------------------------- MODULE MCSecretManager --------------------------
(* Small instances of SecretManager for TLC. *)
EXTENDS SecretManager, TLC

Symmetry == Permutations(Clients) \cup Permutations(Payloads)
=============================================================================
