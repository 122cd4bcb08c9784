--------------------------------- MODULE App ---------------------------------
(* The main component of the user interface (lact-gui/src/app.rs). Messages   *)
(* are handled one after the other, each to its end across all requests to    *)
(* the daemon; clicks, dialogs and their countdowns go on in between. One     *)
(* apply is a sequence of edits, each confirmed before the next, and a last   *)
(* one, the clocks, that a dialog asks the user to confirm. The daemon is     *)
(* that of Handler for one GPU and one client whose hardware applies settings *)
(* without a wait.                                                            *)
EXTENDS Pages, Sequences, SequencesExt, FiniteSets
CONSTANTS
    Delay,      \* apply_settings_timer of the daemon, in seconds
    Editable,   \* groups of settings the user changes
    MaxEdits, MaxApplies, MaxClicks, MaxFaults, MaxEvents,   \* bounds
    None

ASSUME DelayIsPositive == Delay \in Nat \ {0}

Dialog == 1..MaxApplies

VARIABLES
    saved, pending, left,   \* of the daemon: the configuration, the change to be confirmed or None, its time
    widgets,
    wired,      \* the points of the fan curve are connected to the revealer
    revealer,   \* the buttons Apply and Revert are shown
    queue,      \* messages of the component
    handler,    \* what the component does, and its step of an apply
    collected,  \* clocks and power states an apply has read from the widgets
    dialogs,
    edited,     \* groups the user has changed since they were read
    touched,    \* groups changed since the apply began
    hidden,     \* changes over which the last reload has hidden the buttons
    unread,     \* groups the last reload was to read, and kept
    edits, applies, clicks, faults
daemon == <<saved, pending, left>>
page == <<widgets, wired, revealer>>
ghosts == <<edited, touched, hidden, unread>>
counts == <<edits, applies, clicks, faults>>
vars == <<daemon, page, queue, handler, collected, dialogs, ghosts, counts>>

(* The bounds hold for each, and together. *)
Spare == edits + applies + clicks + faults < MaxEvents
Hardware == IF pending = None THEN saved ELSE pending
Send(m) == queue' = Append(queue, m)
Goto(at, step) == handler' = [at |-> at, step |-> step]
Idle == Goto("idle", 1)
Applying == handler.at \in {"set", "confirm", "end"}
Touch(g) == touched' = IF Applying THEN touched \cup {g} ELSE touched
Reloading == handler.at \in {"clocks", "modes", "states"}
-----------------------------------------------------------------------------
(* The daemon: an edit is refused while another one is unconfirmed, or by the *)
(* hardware; without a confirmation it is reverted.                           *)

Accept(s) == pending = None /\ pending' = s /\ left' = Delay /\ UNCHANGED <<saved, faults>>
Refuse ==
    /\ \/ pending # None /\ UNCHANGED faults
       \/ Spare /\ faults < MaxFaults /\ faults' = faults + 1
    /\ UNCHANGED daemon
Confirm == pending # None /\ saved' = pending /\ pending' = None /\ left' = 0
Revert == pending # None /\ pending' = None /\ left' = 0 /\ UNCHANGED saved
NothingPending == pending = None /\ UNCHANGED daemon

Expire ==
    /\ left = 0 /\ Revert
    /\ UNCHANGED <<page, queue, handler, collected, dialogs, ghosts, counts>>

(* A second passes for the daemon and for every dialog that has been opened.  *)
(* Dialogs are at most one second behind; the timer of the daemon was started *)
(* before the dialog and is served first.                                     *)
Due == pending # None /\ left = 0
Second ==
    /\ ~Due /\ (pending # None \/ \E d \in Dialog : dialogs[d].at = "open")
    /\ \A d \in Dialog : dialogs[d].owed = 0
    /\ left' = IF pending = None THEN left ELSE left - 1
    /\ dialogs' = [d \in Dialog |->
                     IF dialogs[d].at = "open" THEN [dialogs[d] EXCEPT !.owed = 1] ELSE dialogs[d]]
    /\ UNCHANGED <<saved, pending, page, queue, handler, collected, ghosts, counts>>
-----------------------------------------------------------------------------
(* Changes by the user. Widgets of the OC page send SettingsChanged, which    *)
(* waits for its turn; those of the thermals page show the revealer at once.  *)

ChangeOc(g, w) ==
    /\ widgets' = w /\ Send("show")
    /\ edited' = edited \cup {g} /\ Touch(g)
    /\ UNCHANGED <<wired, revealer, hidden>>

EditCap == \E v \in Value \ {widgets.cap} : ChangeOc("cap", ChangeCap(widgets, v))
EditClocks ==
    /\ widgets.clocks # NoRows
    /\ \E v \in Value \ {widgets.clocks} : ChangeOc("clocks", ChangeClocks(widgets, v))
EditLevel == \E l \in {"auto", "manual"} \ {widgets.level} :
                ChangeOc("level", ChangeLevel(widgets, l))
EditStates ==
    /\ widgets.level = "manual"
    /\ \E rows \in SUBSET PowerState \ {{}, widgets.core} :
        ChangeOc("core", [widgets EXCEPT !.configurable = TRUE, !.core = rows])

(* The row of the active mode does not announce that it was selected.         *)
EditMode ==
    /\ widgets.level = "manual" /\ widgets.mode # NoRows
    /\ \E m \in {0, 1} \ {widgets.mode} :
        /\ widgets' = [widgets EXCEPT !.mode = m]
        /\ IF m = widgets.active
           THEN edited' = edited \ {"mode"} /\ UNCHANGED queue
           ELSE edited' = edited \cup {"mode"} /\ Send("show")
    /\ Touch("mode")
    /\ UNCHANGED <<wired, revealer, hidden>>

ChangeFan(g, w, notified) ==
    /\ widgets' = w /\ revealer' = (revealer \/ notified)
    /\ edited' = edited \cup {g} /\ Touch(g)
    /\ hidden' = IF Reloading THEN hidden \cup {g} ELSE hidden
    /\ UNCHANGED queue

EditFanMode == ChangeFan("fan", [widgets EXCEPT !.fan = ~@], TRUE) /\ UNCHANGED wired
EditFirmware ==
    /\ \E v \in Value \ {widgets.firmware} :
        ChangeFan("firmware", [widgets EXCEPT !.firmware = v], TRUE)
    /\ UNCHANGED wired
MovePoint ==
    /\ \E v \in Value \ {widgets.curve} : ChangeFan("fan", [widgets EXCEPT !.curve = v], wired)
    /\ UNCHANGED wired
(* Add, Remove and Default replace the points: the old ones notify, the new   *)
(* ones are connected by the next reload.                                     *)
ReplacePoints ==
    /\ \E v \in Value \ {widgets.curve} : ChangeFan("fan", [widgets EXCEPT !.curve = v], wired)
    /\ wired' = FALSE

Edit ==
    /\ Spare /\ edits < MaxEdits /\ edits' = edits + 1
    /\ \/ "cap" \in Editable /\ EditCap
       \/ "clocks" \in Editable /\ EditClocks
       \/ "level" \in Editable /\ EditLevel
       \/ "core" \in Editable /\ EditStates
       \/ "mode" \in Editable /\ EditMode
       \/ "fan" \in Editable /\ (EditFanMode \/ MovePoint \/ ReplacePoints)
       \/ "firmware" \in Editable /\ EditFirmware
    /\ UNCHANGED <<daemon, handler, collected, dialogs, unread, applies, clicks, faults>>

ClickApply ==
    /\ revealer /\ Spare /\ applies < MaxApplies /\ applies' = applies + 1
    /\ Send("apply")
    /\ UNCHANGED <<daemon, page, handler, collected, dialogs, ghosts, edits, clicks, faults>>

Click(m) ==
    /\ Spare /\ clicks < MaxClicks /\ clicks' = clicks + 1
    /\ Send(m)
    /\ UNCHANGED <<daemon, page, handler, collected, dialogs, ghosts, edits, applies, faults>>
ClickRevert == revealer /\ Click("reload")
ClickResetClocks == widgets.clocks # NoRows /\ Click("reset clocks")
ClickResetPmfw == Click("reset firmware")
-----------------------------------------------------------------------------
(* handle_msg: the next message.                                              *)
Take(m) == handler.at = "idle" /\ queue # <<>> /\ Head(queue) = m /\ queue' = Tail(queue)

SettingsChanged ==
    /\ Take("show") /\ revealer' = TRUE
    /\ UNCHANGED <<daemon, widgets, wired, handler, collected, dialogs, ghosts, counts>>

ApplyChanges ==
    /\ Take("apply") /\ Goto("set", 1)
    /\ UNCHANGED <<daemon, page, collected, dialogs, ghosts, counts>>

ReloadData ==
    /\ Take("reload") /\ Goto("stats", 1)
    /\ UNCHANGED <<daemon, page, collected, dialogs, ghosts, counts>>

BeginReset ==
    /\ \/ Take("reset clocks") /\ Goto("reset", 1)
       \/ Take("reset firmware") /\ Goto("reset", 2)
    /\ UNCHANGED <<daemon, page, collected, dialogs, ghosts, counts>>
-----------------------------------------------------------------------------
(* apply_settings *)
Step == Steps[handler.step]
Proceed == IF handler.step = Len(Steps) THEN Goto("end", 1) ELSE Goto("set", handler.step + 1)

Skip ==
    /\ handler.at = "set" /\ ~Sends(Step, widgets, collected)
    /\ Proceed
    /\ UNCHANGED <<daemon, page, queue, collected, dialogs, ghosts, counts>>

Collect ==
    /\ handler.at = "set" /\ Step = "collect"
    /\ collected' = Collected(widgets) /\ Proceed
    /\ UNCHANGED <<daemon, page, queue, dialogs, ghosts, counts>>

(* The end of apply_settings, with an error or without. *)
Leave ==
    /\ Idle /\ Send("reload")
    /\ collected' = NothingCollected /\ touched' = {}

Sending == handler.at = "set" /\ Step # "collect" /\ Sends(Step, widgets, collected)

(* Slip: the error of a request does not end the apply. *)
Slip_GoOn ==
    /\ Sending /\ Refuse
    /\ Goto("confirm", handler.step)
    /\ UNCHANGED <<page, queue, collected, dialogs, ghosts, edits, applies, clicks>>

(* An error ends the apply; what was applied before is read again.            *)
Fail ==
    /\ Sending /\ Refuse
    /\ Leave
    /\ UNCHANGED <<page, dialogs, edited, hidden, unread, edits, applies, clicks>>

(* Slip: the mode is set first and reset after the level. *)
Slip_ModeFirst ==
    /\ Sending /\ Step # "clocks" /\ Goto("confirm", handler.step)
    /\ Accept(IF Step = "nomode" THEN Requested("mode", widgets, collected, saved)
              ELSE IF Step = "mode" THEN Requested("nomode", widgets, collected, saved)
              ELSE Requested(Step, widgets, collected, saved))
    /\ UNCHANGED <<page, queue, collected, dialogs, ghosts, edits, applies, clicks>>

SetGroup ==
    /\ Sending /\ Step # "clocks" /\ Goto("confirm", handler.step)
    /\ Accept(Requested(Step, widgets, collected, saved))
    /\ UNCHANGED <<page, queue, collected, dialogs, ghosts, edits, applies, clicks>>

ConfirmGroup ==
    /\ handler.at = "confirm"
    /\ \/ Confirm /\ Proceed /\ UNCHANGED <<queue, collected, touched>>
       \/ NothingPending /\ Leave
    /\ UNCHANGED <<page, dialogs, edited, hidden, unread, counts>>

(* Every apply opens one dialog at most, and there is one for each.            *)
NoDialog == [at |-> "closed", delay |-> 0, owed |-> 0]
FreeDialog == CHOOSE d \in Dialog : dialogs[d].at = "closed"

(* Slip: the countdown of the dialog is a second shorter. *)
Slip_ShortCountdown ==
    /\ Sending /\ Step = "clocks" /\ Goto("end", 1)
    /\ Accept(Requested(Step, widgets, collected, saved))
    /\ dialogs' = [dialogs EXCEPT ![FreeDialog] = [at |-> "open", delay |-> Delay - 1, owed |-> 0]]
    /\ UNCHANGED <<page, queue, collected, ghosts, edits, applies, clicks>>

SetClocks ==
    /\ Sending /\ Step = "clocks" /\ Goto("end", 1)
    /\ \E d \in Dialog : dialogs[d].at = "closed"
    /\ Accept(Requested(Step, widgets, collected, saved))
    /\ dialogs' = [dialogs EXCEPT ![FreeDialog] = [at |-> "open", delay |-> Delay, owed |-> 0]]
    /\ UNCHANGED <<page, queue, collected, ghosts, edits, applies, clicks>>

EndApply ==
    /\ handler.at = "end" /\ Leave
    /\ UNCHANGED <<daemon, page, dialogs, edited, hidden, unread, counts>>

Apply == Skip \/ Collect \/ Fail \/ SetGroup \/ ConfirmGroup \/ SetClocks \/ EndApply
-----------------------------------------------------------------------------
(* ask_settings_confirmation: the countdown, and the answer of the user, which *)
(* is sent by a task of its own.                                              *)

(* Slip: the dialog stays open when its time is over. *)
Slip_StaysOpen(d) ==
    /\ dialogs[d].at = "open" /\ dialogs[d].owed > 0 /\ ~Due
    /\ dialogs' = [dialogs EXCEPT ![d].owed = 0, ![d].delay = IF @ = 0 THEN 0 ELSE @ - 1]
    /\ UNCHANGED <<daemon, page, queue, handler, collected, ghosts, counts>>

Countdown(d) ==
    /\ dialogs[d].at = "open" /\ dialogs[d].owed > 0 /\ ~Due
    /\ IF dialogs[d].delay = 1
       THEN dialogs' = [dialogs EXCEPT ![d] = NoDialog] /\ Send("reload")
       ELSE /\ dialogs' = [dialogs EXCEPT ![d].delay = @ - 1, ![d].owed = 0]
            /\ UNCHANGED queue
    /\ UNCHANGED <<daemon, page, handler, collected, ghosts, counts>>

Answer(d, a) ==
    /\ dialogs[d].at = "open"
    /\ dialogs' = [dialogs EXCEPT ![d] = [at |-> a, delay |-> 0, owed |-> 0]]
    /\ UNCHANGED <<daemon, page, queue, handler, collected, ghosts, counts>>

SendAnswer(d) ==
    /\ dialogs[d].at \in {"yes", "no"}
    /\ \/ dialogs[d].at = "yes" /\ Confirm
       \/ dialogs[d].at = "no" /\ Revert
       \/ NothingPending
    /\ dialogs' = [dialogs EXCEPT ![d] = NoDialog]
    /\ Send("reload")
    /\ UNCHANGED <<page, handler, collected, ghosts, counts>>
-----------------------------------------------------------------------------
(* ResetClocks and ResetPmfw of handle_msg: an error leaves the pages as they *)
(* are.                                                                       *)
Reset == IF handler.step = 1 THEN [saved EXCEPT !.clocks = DefaultValue]
         ELSE [saved EXCEPT !.firmware = DefaultValue]

SendReset ==
    /\ handler.at = "reset"
    /\ \/ Refuse /\ Idle
       \/ Accept(Reset) /\ Goto("confirmReset", handler.step)
    /\ UNCHANGED <<page, queue, collected, dialogs, ghosts, edits, applies, clicks>>

ConfirmReset ==
    /\ handler.at = "confirmReset" /\ Idle
    /\ \/ Confirm /\ Send("reload")
       \/ NothingPending /\ UNCHANGED queue
    /\ UNCHANGED <<page, collected, dialogs, ghosts, counts>>
-----------------------------------------------------------------------------
(* update_gpu_data: without statistics the reload ends, clocks and modes that  *)
(* cannot be read leave no rows, power states the rows that were there.        *)
Groups == {"cap", "level", "fan", "firmware", "clocks", "mode", "core"}
InStats == {"cap", "level", "fan", "firmware"}
Read(groups) == edited' = edited \ groups /\ unread' = unread \ groups
ReadFails == Spare /\ faults < MaxFaults /\ faults' = faults + 1

ReadStats ==
    /\ handler.at = "stats" /\ Goto("clocks", 1)
    /\ widgets' = ShowStats(widgets, saved, Hardware)
    /\ wired' = (wired /\ saved.curve = 0) /\ revealer' = TRUE
    /\ Read(InStats) /\ hidden' = {}
    /\ UNCHANGED <<daemon, queue, collected, dialogs, touched, counts>>

ReadStatsFails ==
    /\ handler.at = "stats" /\ Idle
    /\ ReadFails /\ unread' = Groups
    /\ UNCHANGED <<daemon, page, queue, collected, dialogs, edited, touched, hidden,
                   edits, applies, clicks>>

ReadClocks ==
    /\ handler.at = "clocks" /\ Goto("modes", 1)
    /\ \/ widgets' = ShowClocks(widgets, Hardware) /\ UNCHANGED faults
       \/ widgets' = ShowNoClocks(widgets) /\ ReadFails
    /\ Read({"clocks"})
    /\ UNCHANGED <<daemon, wired, revealer, queue, collected, dialogs, touched, hidden,
                   edits, applies, clicks>>

ReadModes ==
    /\ handler.at = "modes" /\ Goto("states", 1)
    /\ \/ widgets' = ShowModes(widgets, Hardware) /\ UNCHANGED faults
       \/ widgets' = ShowNoModes(widgets) /\ ReadFails
    /\ Read({"mode"})
    /\ UNCHANGED <<daemon, wired, revealer, queue, collected, dialogs, touched, hidden,
                   edits, applies, clicks>>

(* What becomes of the power states at the end of a reload.                    *)
StatesAreRead ==
    \/ widgets' = ShowStates(widgets, saved) /\ Read({"core"}) /\ UNCHANGED <<hidden, faults>>
    \/ /\ ReadFails /\ unread' = unread \cup {"core"}
       /\ hidden' = hidden \cup (edited \cap {"core"})
       /\ UNCHANGED <<widgets, edited>>

(* Slip: the new points of the curve are not connected. *)
Slip_NotWired ==
    /\ handler.at = "states" /\ Idle
    /\ StatesAreRead /\ revealer' = FALSE
    /\ UNCHANGED <<daemon, wired, queue, collected, dialogs, touched, edits, applies, clicks>>

(* The end of a reload connects the points of the curve and hides the buttons. *)
ReadStates ==
    /\ handler.at = "states" /\ Idle
    /\ StatesAreRead /\ wired' = TRUE /\ revealer' = FALSE
    /\ UNCHANGED <<daemon, queue, collected, dialogs, touched, edits, applies, clicks>>

Reload == ReadStats \/ ReadStatsFails \/ ReadClocks \/ ReadModes \/ ReadStates
-----------------------------------------------------------------------------
Init ==
    /\ saved = Defaults /\ pending = None /\ left = 0
    /\ widgets = FirstShown /\ wired = TRUE /\ revealer = FALSE
    /\ queue = <<>> /\ handler = [at |-> "idle", step |-> 1]
    /\ collected = NothingCollected
    /\ dialogs = [d \in Dialog |-> NoDialog]
    /\ edited = {} /\ touched = {} /\ hidden = {} /\ unread = {}
    /\ edits = 0 /\ applies = 0 /\ clicks = 0 /\ faults = 0

Handle == SettingsChanged \/ ApplyChanges \/ ReloadData \/ BeginReset
Work == Handle \/ Apply \/ SendReset \/ ConfirmReset \/ Reload
Next ==
    \/ Edit \/ ClickApply \/ ClickRevert \/ ClickResetClocks \/ ClickResetPmfw
    \/ Work \/ Expire \/ Second
    \/ \E d \in Dialog : Countdown(d) \/ Answer(d, "yes") \/ Answer(d, "no") \/ SendAnswer(d)

(* The component handles its messages, the daemon answers, time passes. The   *)
(* user need not answer.                                                      *)
Fairness ==
    /\ WF_vars(Work) /\ WF_vars(Expire) /\ WF_vars(Second)
    /\ \A d \in Dialog : WF_vars(Countdown(d)) /\ WF_vars(SendAnswer(d))
Spec == Init /\ [][Next]_vars /\ Fairness
-----------------------------------------------------------------------------
Quiet ==
    /\ handler.at = "idle" /\ queue = <<>> /\ pending = None
    /\ \A d \in Dialog : dialogs[d].at = "closed"

(* When nothing is under way any more, every group of widgets shows what the  *)
(* daemon has saved, unless the user has changed it or the reload could not    *)
(* read it: whichever dialog, timer, failure or second apply came in between.  *)
(* Clocks and modes that could not be read show no rows, rather than old ones, *)
(* if the reload got that far; power states show the old ones. A curve the     *)
(* daemon has no value for keeps what it showed.                               *)
ShownIsSaved ==
    LET kept == edited \cup unread
    IN  Quiet =>
        /\ "cap" \in kept \/ (widgets.cap = saved.cap /\ ~widgets.capChanged)
        /\ "level" \in kept \/ widgets.level = saved.level
        /\ "mode" \in kept \/ widgets.mode \in {NoRows, saved.mode}
        /\ "fan" \in kept \/ (widgets.fan = saved.fan /\ saved.curve \in {0, widgets.curve})
        /\ "firmware" \in kept \/ widgets.firmware = saved.firmware
        /\ "core" \in kept \/ widgets.core = saved.core
        /\ "clocks" \in kept \/ (widgets.clocks \in {NoRows, saved.clocks} /\ ~widgets.clocksChanged)

(* An apply that meets no error has saved every group as the widgets show it, *)
(* but for what the user has changed meanwhile and the clocks, which wait for *)
(* the dialog: no later step, timer or answer to an older dialog undoes one.  *)
AppliedIsSaved ==
    handler.at = "end" =>
        /\ widgets.capChanged => "cap" \in touched \/ saved.cap = widgets.cap
        /\ "level" \in touched \/ (saved.level = widgets.level
                                   /\ ("mode" \in touched \/ saved.mode = ModeWanted(widgets))
                                   /\ ("core" \in touched \/ saved.core = StatesWanted(widgets, widgets.core)))
        /\ "fan" \in touched \/ (saved.fan = widgets.fan /\ (widgets.fan => saved.curve = widgets.curve))
        /\ "firmware" \in touched \/ saved.firmware = widgets.firmware

(* New clocks are saved only when the user answers Yes to a dialog, or resets *)
(* them: none of the confirmations in the middle of an apply confirms the     *)
(* clocks an earlier dialog still asks about.                                 *)
ClocksAreKeptByUser ==
    [][saved'.clocks # saved.clocks =>
        \/ \E d \in Dialog : dialogs[d].at = "yes" /\ dialogs'[d].at = "closed"
        \/ handler.at = "confirmReset"]_vars

(* The buttons Apply and Revert are hidden only if there is nothing to apply:  *)
(* a change is announced, or the end of a reload has hidden the buttons over    *)
(* it, which happens to fan settings changed in the middle of the reload and to *)
(* power states that could not be read.                                         *)
ChangesAreRevealed ==
    ~revealer /\ ~Contains(queue, "show") => edited \subseteq hidden

(* The user interface comes to rest even if nobody answers: every dialog is   *)
(* closed, every change confirmed or reverted, and the pages are read again.  *)
ComesToRest == []<>Quiet
=============================================================================
