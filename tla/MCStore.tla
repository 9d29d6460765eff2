------------------------------ MODULE MCStore ------------------------------
(***************************************************************************)
(* Instance of Store for TLC.                                              *)
(***************************************************************************)
EXTENDS Store, TLC

\* Deliveries and workers are interchangeable: no property singles one out.
Symmetry == Permutations(Deliveries) \cup Permutations(Workers)
=============================================================================
