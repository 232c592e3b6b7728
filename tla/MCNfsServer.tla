---------------------------- MODULE MCNfsServer ----------------------------
(* NfsServer on small instances.                                           *)
EXTENDS NfsServer

Outcomes == {"ok", "error"}
Removing == {"initialise", "rmdir"}
=============================================================================
