------------------------- MODULE MCConnectionRegistry -------------------------
(***************************************************************************)
(* Instances of ConnectionRegistry for TLC.  Ids of one kind are           *)
(* interchangeable.                                                        *)
(***************************************************************************)
EXTENDS ConnectionRegistry, TLC

Symmetry == Permutations(Connections) \cup Permutations(Windows)
            \cup Permutations(Sockets) \cup Permutations(Handles)
===============================================================================
