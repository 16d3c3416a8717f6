---------------------------- MODULE MCRTreeMerge ----------------------------
(* Instance of RTreeMerge; all values are in the configurations.             *)
EXTENDS RTreeMerge
=============================================================================
