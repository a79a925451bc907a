--------------------------- MODULE MCCoordinator ----------------------------
(* An instance of Coordinator whose safety is checked up to a renaming of  *)
(* the instances.                                                          *)
EXTENDS Coordinator, TLC

\* No instance is treated differently from another.
Renamings == Permutations(Instances)

=============================================================================
