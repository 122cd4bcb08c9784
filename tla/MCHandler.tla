----------------------------- MODULE MCHandler -----------------------------
(* Small instances of Handler for TLC; the .cfg files choose among them. *)
EXTENDS Handler

EditOps == {"edit", "fan", "confirm", "stats", "info"}
TimedOps == {"edit", "fan", "reset", "confirm", "stats"}
ListenerOps == {"edit", "confirm", "clear", "reload", "resume"}
ReadOps == {"stats", "snapshot", "clear", "file"}
DeadlockOps == {"edit", "confirm", "reload", "resume"}
=============================================================================
