--------------------------- MODULE MCEm300Entry ---------------------------
(***************************************************************************)
(* Em300Entry for TLC.  The clients are interchangeable: no property names *)
(* one of them.  Symmetry is for the runs without liveness properties.     *)
(***************************************************************************)
EXTENDS Em300Entry, TLC

Symmetry == Permutations(Clients)
===========================================================================
