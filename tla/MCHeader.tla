------------------------------ MODULE MCHeader ------------------------------
(* Header with a profile for a process and a profile for any game.            *)
EXTENDS Header

MCInitial ==
    <<[name |-> "A", rule |-> [type |-> "process", name |-> "p", args |-> "x"]],
      [name |-> "B", rule |-> [type |-> "game", name |-> Whatever, args |-> Whatever]]>>
=============================================================================
