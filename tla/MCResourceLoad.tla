--------------------------- MODULE MCResourceLoad ---------------------------
(***************************************************************************)
(* Small instances of ResourceLoad for TLC.                                *)
(***************************************************************************)
EXTENDS ResourceLoad

\* Handles are interchangeable, and so are workers, local loads and network loads.
Interchangeable ==
    Permutations(Workers) \cup Permutations(Handles)
        \cup Permutations(LocalLoads) \cup Permutations(Loads \ LocalLoads)
=============================================================================
