--------------------------- MODULE MCAdminPanel ---------------------------
(* The panel with two of everything there can be several of.               *)
EXTENDS AdminPanel
=============================================================================
