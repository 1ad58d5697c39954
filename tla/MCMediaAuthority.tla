--------------------------- MODULE MCMediaAuthority ---------------------------
(***************************************************************************)
(* Instances of MediaAuthority for TLC.  The tabs and the request ids are  *)
(* interchangeable.                                                        *)
(***************************************************************************)
EXTENDS MediaAuthority, TLC

Symmetry == Permutations(Actors) \cup Permutations(RequestIds)
            \cup Permutations(Accounts)
===============================================================================
