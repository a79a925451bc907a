---------------------------- MODULE MCConfigTree ----------------------------
(* Small instances of ConfigTree.                                          *)
EXTENDS ConfigTree

CONSTANTS k1, k2, k3, j1

\* Two children, the first with a child of its own.
TwoKids == <<<<<<>>, k1>>, <<<<k1>>, j1>>, <<<<>>, k2>>>>

=============================================================================
