------------------------------ MODULE MCDaemon ------------------------------
(* A file of version 0 whose edit 0 is removed by the migration to version 1.  *)
EXTENDS Daemon
MCResets == <<{0, 1}, {0, 2}>>
MCFirst == [edits |-> {0}, version |-> 0]
=============================================================================
