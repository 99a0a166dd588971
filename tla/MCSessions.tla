----------------------------- MODULE MCSessions -----------------------------
(* Small instances of Sessions for TLC. *)
EXTENDS Sessions, TLC

CONSTANTS u1, r1, r2, r3

AllDatabases == {"sqlite", "postgres"}
OnPostgres   == {"postgres"}
=============================================================================
