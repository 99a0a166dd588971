--------------------------- MODULE MCEntryCollab ---------------------------
(* Two entries, between which the editor goes back and forth.              *)
EXTENDS EntryCollab
=============================================================================
