---------------------------- MODULE ProcessList -----------------------------
(* What the profile watcher knows of the processes that run                   *)
(* (ProfileWatcherState in lact-schema/src/profiles.rs), and the rules that   *)
(* are evaluated against it (lact-daemon/src/server/profiles.rs).             *)
EXTENDS Integers, FiniteSets
CONSTANTS
    Pids,       \* process ids
    Names,      \* names of executables
    Args        \* what a rule may look for in a command line

(* name, and the arguments that the command line contains. *)
Info == [name : Names, args : SUBSET Args]

(* process_list, process_names_map (maps that grow and shrink), gamemode_games. *)
States ==
    [list : UNION {[D -> Info] : D \in SUBSET Pids},
     names : UNION {[D -> SUBSET Pids] : D \in SUBSET Names},
     games : SUBSET Pids]

Put(f, x, v) == [y \in DOMAIN f \cup {x} |-> IF y = x THEN v ELSE f[y]]
Drop(f, x) == [y \in DOMAIN f \ {x} |-> f[y]]

(* Slip: a process that is gone stays under its name. *)
Slip_KeepName(names, n, p) == names

(* A name loses a process; it goes when it has none left. *)
Forget(names, n, p) ==
    IF n \in DOMAIN names /\ names[n] \subseteq {p} THEN Drop(names, n)
    ELSE [m \in DOMAIN names |-> IF m = n THEN names[m] \ {p} ELSE names[m]]

NamesWithout(s, p) ==
    IF p \in DOMAIN s.list THEN Forget(s.names, s.list[p].name, p) ELSE s.names

Learn(names, n, p) ==
    Put(names, n, (IF n \in DOMAIN names THEN names[n] ELSE {}) \cup {p})

PushProcess(s, p, info) ==
    [list |-> Put(s.list, p, info),
     names |-> Learn(NamesWithout(s, p), info.name, p),
     games |-> s.games]

RemoveProcess(s, p) ==
    [list |-> Drop(s.list, p), names |-> NamesWithout(s, p), games |-> s.games]

(* load_full_process_list: running is the content of /proc. *)
Load(running) ==
    [list |-> running,
     names |-> [n \in {running[p].name : p \in DOMAIN running} |->
                    {p \in DOMAIN running : running[p].name = n}],
     games |-> {}]
-----------------------------------------------------------------------------
(* Rules: a process, with arguments or any ("any"), or a game, of one process *)
(* or any.                                                                    *)
AnyArgs == "any"
ArgsMatch(s, p, args) == args = AnyArgs \/ (p \in DOMAIN s.list /\ args \in s.list[p].args)

ProfileRuleMatches(s, rule) ==
    CASE rule.type = "process" ->
            rule.name \in DOMAIN s.names
            /\ (rule.args = AnyArgs \/ \E p \in s.names[rule.name] : ArgsMatch(s, p, rule.args))
      [] rule.type = "gamemode_any" -> s.games # {}
      [] rule.type = "gamemode" ->
            rule.name \in DOMAIN s.names
            /\ \E p \in s.names[rule.name] \cap s.games : ArgsMatch(s, p, rule.args)
      [] rule.type = "none" -> FALSE

(* The first profile, in the order of the configuration, whose rule matches. *)
EvaluateCurrentProfile(s, profiles, default) ==
    LET hits == {i \in DOMAIN profiles : ProfileRuleMatches(s, profiles[i].rule)}
    IN IF hits = {} THEN default
       ELSE profiles[CHOOSE i \in hits : \A j \in hits : i <= j].name
-----------------------------------------------------------------------------
(* The two maps say the same: a name is known exactly if a process has it, and *)
(* leads to all of them.                                                      *)
MapsAgree(s) ==
    /\ DOMAIN s.names = {s.list[p].name : p \in DOMAIN s.list}
    /\ \A n \in DOMAIN s.names : s.names[n] = {p \in DOMAIN s.list : s.list[p].name = n}
=============================================================================
