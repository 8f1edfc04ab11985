---------------------------- MODULE MCCapTables ----------------------------
(* A small cap-core: two interchangeable holders, two-slot tables, and two  *)
(* rights sets of which one amplifies the other; seal yields undelegable    *)
(* capabilities.                                                            *)
EXTENDS CapTables, TLC

MCRightsArgs == {{"DELEGATE"}, {"INVOKE", "DELEGATE"}}

HolderSymmetry == Permutations(Holder)

=============================================================================
