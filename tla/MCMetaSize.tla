----------------------------- MODULE MCMetaSize -----------------------------
(* MetaSize for TLC.  Hosts are interchangeable.                           *)
EXTENDS MetaSize, TLC

Symmetry == Permutations(Hosts)
=============================================================================
