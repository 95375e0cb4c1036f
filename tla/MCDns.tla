------------------------------- MODULE MCDns -------------------------------
(* Small instances of Dns for TLC. *)
EXTENDS Dns, TLC

Symmetry == Permutations(Clients) \cup Permutations(RRsets) \cup Permutations(Datas)
=============================================================================
