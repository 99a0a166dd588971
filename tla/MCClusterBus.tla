---------------------------- MODULE MCClusterBus ----------------------------
(* Instances of ClusterBus for TLC: model values name the instances. *)
EXTENDS ClusterBus

CONSTANTS i1, i2, i3
=============================================================================
