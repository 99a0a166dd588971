----------------------------- MODULE MCReleases -----------------------------
(* Instances of Releases for TLC: model values name instances and entries. *)
EXTENDS Releases

CONSTANTS i1, i2, e1, e2
=============================================================================
