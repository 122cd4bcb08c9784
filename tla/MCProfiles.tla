----------------------------- MODULE MCProfiles -----------------------------
(* Two profiles for TLC: one for a process with an argument, one for games.    *)
EXTENDS Profiles
MCNames == {"x", "gamemoded"}
MCInfos == {[name |-> "x", args |-> {"v"}], [name |-> "gamemoded", args |-> {}]}
MCRunning == [p \in {1} |-> [name |-> "x", args |-> {"v"}]]
MCProcess == [type |-> "process", name |-> "x", args |-> "v"]
MCGame == [type |-> "gamemode", name |-> "x", args |-> AnyArgs]
MCInitial == <<[name |-> "a", rule |-> MCGame], [name |-> "b", rule |-> MCProcess]>>
(* Other rules with automatic switching; a profile in use that is not there. *)
MCFiles ==
    {[profiles |-> <<[name |-> "a", rule |-> MCProcess]>>, cur |-> "default", auto |-> TRUE],
     [profiles |-> <<>>, cur |-> "b", auto |-> FALSE]}
MCRules == {[type |-> "gamemode_any"]}
=============================================================================
