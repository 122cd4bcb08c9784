----------------------------- MODULE RuleWindow -----------------------------
(* The window that edits the rule of a profile                                *)
(* (lact-gui/src/app/header/profile_rule_window.rs): how a rule is shown in   *)
(* its widgets, and what rule the widgets stand for.                          *)
EXTENDS Integers
CONSTANTS
    ProcessNames,   \* names of processes
    Args            \* texts a rule looks for in a command line

(* A text that is empty; no condition on the name or on the arguments; a     *)
(* profile without a rule.                                                   *)
Empty == "empty"
Whatever == "any"
NoRule == [type |-> "none", name |-> Empty, args |-> Whatever]

ASSUME NamesAreTexts == Whatever \notin ProcessNames

(* ProfileRule: "game" with the name Whatever is Gamemode(None). *)
Texts == ProcessNames \cup {Empty}
ProfileRules ==
    [type : {"process", "game"}, name : Texts, args : Args \cup {Empty, Whatever}]
        \cup {[type |-> "game", name |-> Whatever, args |-> Whatever]}

DefaultRule == [type |-> "process", name |-> Empty, args |-> Whatever]
UnwrapOrDefault(rule) == IF rule = NoRule THEN DefaultRule ELSE rule

(* The widgets: the page, the two texts, which both pages share, and the      *)
(* check buttons. rule and touched are not of the code: the rule that was     *)
(* shown, and whether the user has changed a widget since.                    *)
Closed == [visible |-> FALSE, profile |-> Empty, page |-> "process", name |-> Empty,
           args |-> Empty, byArgs |-> FALSE, gameByName |-> FALSE, gameByArgs |-> FALSE,
           rule |-> DefaultRule, touched |-> FALSE]

TextOf(condition) == IF condition = Whatever THEN Empty ELSE condition

(* Slip: a rule for any game leaves the texts of the rule before. *)
Slip_KeepTexts(w, rule) ==
    [w EXCEPT !.name = IF rule.name = Whatever THEN @ ELSE rule.name,
              !.args = IF rule.name = Whatever THEN @ ELSE TextOf(rule.args)]

SetTexts(w, rule) == [w EXCEPT !.name = TextOf(rule.name), !.args = TextOf(rule.args)]

(* A text that is not empty turns on the button in front of it. *)
Show(w, profile, rule) ==
    LET texts == SetTexts(w, rule)
    IN [texts EXCEPT !.visible = TRUE, !.profile = profile, !.page = rule.type,
                     !.byArgs = texts.args # Empty,
                     !.gameByName = texts.name # Empty,
                     !.gameByArgs = texts.args # Empty,
                     !.rule = rule, !.touched = FALSE]

(* The name is kept for a game without its button if the arguments have       *)
(* theirs.                                                                    *)
GetRule(w) ==
    LET args(on) == IF on THEN w.args ELSE Whatever
    IN IF w.page = "process"
       THEN [type |-> "process", name |-> w.name, args |-> args(w.byArgs)]
       ELSE IF ~w.gameByName /\ ~w.gameByArgs
            THEN [type |-> "game", name |-> Whatever, args |-> Whatever]
            ELSE [type |-> "game", name |-> w.name, args |-> args(w.gameByArgs)]

(* What the user does: an entry is sensitive if its button is active; the     *)
(* list of processes, on the page for a process, sets both texts.             *)
Changes(w) ==
    LET process == w.page = "process"
        named == {[w EXCEPT !.name = n] : n \in Texts}
        given == {[w EXCEPT !.args = a] : a \in Args \cup {Empty}}
        from == {[w EXCEPT !.name = p[1], !.args = p[2]] : p \in ProcessNames \X Args}
        toggled == IF process THEN {[w EXCEPT !.byArgs = ~@]}
                   ELSE {[w EXCEPT !.gameByName = ~@], [w EXCEPT !.gameByArgs = ~@]}
    IN toggled \cup {[w EXCEPT !.page = IF process THEN "game" ELSE "process"]}
       \cup (IF process \/ w.gameByName THEN named ELSE {})
       \cup (IF (process /\ w.byArgs) \/ (~process /\ w.gameByArgs) THEN given ELSE {})
       \cup (IF process THEN from ELSE {})
Edits(w) == {[v EXCEPT !.touched = TRUE] : v \in Changes(w)}

(* Rules that match the same: no arguments are arguments that are empty. *)
Meaning(rule) == [rule EXCEPT !.args = IF @ = Empty THEN Whatever ELSE @]
=============================================================================
