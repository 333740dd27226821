------------------------------ MODULE MCReauth ------------------------------
(* Finite instances of Reauth for TLC. *)
EXTENDS Reauth, TLC

CONSTANTS g1, g2, g3

MCGs == {g1, g2, g3}

\* No limit and the group checked; a maximal duration; and skip-reauth.
MCConfigs ==
    {[max |-> 0, cache |-> TRUE, skip |-> FALSE, group |-> TRUE],
     [max |-> 1, cache |-> TRUE, skip |-> FALSE, group |-> FALSE],
     [max |-> 1, cache |-> FALSE, skip |-> FALSE, group |-> FALSE],
     [max |-> 1, cache |-> TRUE, skip |-> TRUE, group |-> FALSE]}

Symmetry == Permutations(Gs)
=============================================================================
