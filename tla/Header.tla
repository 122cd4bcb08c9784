------------------------------- MODULE Header -------------------------------
(* The header of the window (lact-gui/src/app/header.rs), which lists the     *)
(* profiles and selects one, and the requests the application makes for it    *)
(* (lact-gui/src/app.rs), while the daemon changes the profile by itself or   *)
(* for another client.                                                        *)
EXTENDS RuleWindow, Sequences, SequencesExt
CONSTANTS
    Gpus,           \* the devices one can select
    Initial,        \* the profiles there are at first, a sequence of [name, rule]
    Current,        \* the profiles that may be the current one at first
    NewNames,       \* names for new profiles
    Bases,          \* what they are based on
    Default,        \* no profile: the row below the profiles
    None,           \* no row, no page
    MaxClicks, MaxSwitches, MaxFaults,  \* bounds, each
    MaxEvents       \* and together

Name == {Initial[i].name : i \in DOMAIN Initial} \cup NewNames \cup {Default}
Profile == [name : Name, rule : ProfileRules \cup {NoRule}]

ASSUME FirstProfiles ==
    /\ Initial \in Seq(Profile)
    /\ \A c \in Current : c = Default \/ \E i \in DOMAIN Initial : Initial[i].name = c

VARIABLES
    daemon,     \* of the daemon: profiles, current_profile, auto_switch
    switch,     \* what each that switches the daemon is in the middle of
    applied,    \* the profile the hardware has the settings of, None while it is changed
    info,       \* the profiles_info of the header
    rows,       \* the names in the list, from the top
    selected,   \* the row that is selected, 0 for none
    gpu,        \* the device that is selected
    inbox,      \* messages to the header
    told,       \* the profiles it was told last, or is about to be told
    queue,      \* messages to the application
    app,        \* the request it is in the middle of
    shown,      \* what the pages show: of which device, and settings of which profile
    polling,    \* the loop that asks for the profiles runs
    panicked,   \* the window is gone
    rule,       \* the window for rules
    clicked,    \* the row that was clicked last
    missed,     \* the daemon went back to what the header knows, without its notice
    lost,       \* requests that failed, and were not made up for
    clicks, switches, faults    \* what is left of the bounds
mailbox == <<inbox, told>>
header == <<info, rows, selected, gpu, mailbox, rule>>
user == <<clicked, clicks>>
bounds == <<switches, faults>>
history == <<missed, lost>>
hardware == <<switch, applied>>
vars == <<daemon, hardware, header, queue, app, shown, polling, panicked, user, bounds, history>>

Actors == {"window", "client", "watcher"}
Resting == [at |-> "rest", name |-> None, gone |-> None]

Idle == [do |-> "idle", name |-> None]
Names(list) == {list[i].name : i \in DOMAIN list}
Position(list, name) == CHOOSE i \in DOMAIN list : list[i].name = name
-----------------------------------------------------------------------------
Events == (MaxClicks - clicks) + (MaxSwitches - switches) + (MaxFaults - faults)
Spare == Events < MaxEvents

(* The daemon may come back to what it has told the header, after a change.   *)
Change(d) ==
    /\ daemon' = d
    /\ missed' = (missed \/ (daemon # told /\ d = told))

(* selected_profile: Default when no row is selected. *)
NameAt(row) == IF row = 0 THEN Default ELSE rows[row]

Selection == [do |-> "select"]
Ask(name, auto) == [do |-> "select", name |-> name, auto |-> auto]
ReloadProfiles == [do |-> "list"]
ReloadData(full) == [do |-> "reload", full |-> full]
-----------------------------------------------------------------------------
(* The header and its messages.                                               *)

(* The row of the current profile. *)
CurrentRow(i) ==
    IF i.cur = Default THEN Len(i.list) + 1 ELSE Position(i.list, i.cur)

Rows(i) == [r \in 1..Len(i.list) + 1 |-> IF r > Len(i.list) THEN Default ELSE i.list[r].name]

(* Slip: the pages are left as they are. *)
Slip_OnlyRows(messages) == messages

PagesToo(messages) == Append(messages, ReloadData(FALSE))

(* Slip: the row is left to be selected by the next click. *)
Slip_NoReselect(i) == 0

Reselected(i) == CurrentRow(i)

(* A current profile that is not in the list has no row: the window panics.   *)
Listed(i) == i.cur \in Names(i.list) \cup {Default}
Panic == panicked' = TRUE /\ UNCHANGED <<inbox, info, rows, selected, queue, rule, lost>>

(* set_profiles_info: the pages are loaded again, the rows are replaced, and  *)
(* the row of the current profile is selected. The list box tells that the    *)
(* selected row went, or is another: one message stands for both, of which    *)
(* the second finds what the first has left.                                  *)
SetProfilesInfo(i, rest) ==
    \/ /\ i = info /\ rows # <<>>
       /\ inbox' = rest /\ UNCHANGED <<info, rows, selected, queue, rule, lost, panicked>>
    \/ i # info /\ ~Listed(i) /\ Panic
    \/ /\ i # info /\ Listed(i)
       /\ queue' = PagesToo(queue)
       /\ info' = i /\ rows' = Rows(i)
       /\ selected' = Reselected(i)
       /\ inbox' = Append(rest, Selection)
       /\ lost' = lost \ {"select"}
       /\ UNCHANGED <<rule, panicked>>

(* SelectProfile: another row than the current profile's is asked for, or,    *)
(* with automatic switching, taken back.                                      *)
RowSelected(rest) ==
    LET name == NameAt(selected)
    IN CASE name = info.cur -> inbox' = rest /\ UNCHANGED <<selected, queue>>
         [] name # info.cur /\ info.auto ->
                /\ selected' = CurrentRow(info)
                /\ inbox' = Append(rest, Selection)
                /\ UNCHANGED queue
         [] name # info.cur /\ ~info.auto ->
                queue' = Append(queue, Ask(name, FALSE)) /\ inbox' = rest /\ UNCHANGED selected

AutoProfileSwitch(auto, rest) ==
    /\ queue' = Append(queue, Ask(IF auto THEN Default ELSE NameAt(selected), auto))
    /\ inbox' = rest

(* The row is looked up by its place when the message is handled: it may be   *)
(* another by then, the one without a profile, or none, and the window        *)
(* panics. The window for rules takes its message before the user can do      *)
(* anything to it.                                                            *)
ShowProfileEditor(row, rest) ==
    \/ row \notin DOMAIN rows /\ Panic
    \/ /\ row \in DOMAIN rows
       /\ inbox' = rest
       /\ rule' = IF row \in DOMAIN info.list
                  THEN Show(rule, info.list[row].name, UnwrapOrDefault(info.list[row].rule))
                  ELSE rule
       /\ UNCHANGED <<info, rows, selected, queue, lost, panicked>>

SelectGpu(rest) == queue' = Append(queue, ReloadData(TRUE)) /\ inbox' = rest

Handle ==
    /\ inbox # <<>>
    /\ LET m == Head(inbox)
           rest == Tail(inbox)
       IN CASE m.do = "profiles" -> SetProfilesInfo(m.info, rest)
            [] m.do = "select" ->
                    RowSelected(rest) /\ UNCHANGED <<info, rows, rule, lost, panicked>>
            [] m.do = "auto" ->
                    AutoProfileSwitch(m.auto, rest)
                    /\ UNCHANGED <<info, rows, selected, rule, lost, panicked>>
            [] m.do = "editor" -> ShowProfileEditor(m.row, rest)
            [] m.do = "gpu" ->
                    SelectGpu(rest) /\ UNCHANGED <<info, rows, selected, rule, lost, panicked>>
    /\ UNCHANGED <<daemon, hardware, told, gpu, app, shown, polling, user, bounds, missed>>
-----------------------------------------------------------------------------
(* The user.                                                                  *)

Clicks(n) == Events + n <= MaxEvents /\ clicks >= n /\ clicks' = clicks - n
Click == Clicks(1)
Sent(message) == inbox' = Append(inbox, message)
Requested(message) == queue' = Append(queue, message)

ClickRow ==
    /\ Click
    /\ \E r \in DOMAIN rows \ {selected} : selected' = r /\ clicked' = rows[r]
    /\ Sent(Selection)
    /\ UNCHANGED <<daemon, hardware, info, rows, gpu, told, queue, app, shown, polling,
                   panicked, rule, bounds, history>>

(* The check button is set to what the daemon says whenever a message is      *)
(* handled, and tells only of the user's clicks.                              *)
ToggleAuto ==
    /\ Click /\ rows # <<>>
    /\ Sent([do |-> "auto", auto |-> ~info.auto])
    /\ UNCHANGED <<daemon, hardware, info, rows, selected, gpu, told, queue, app, shown,
                   polling, panicked, rule, clicked, bounds, history>>

(* Rules can be edited with automatic switching. *)
ClickEditor ==
    /\ Click /\ info.auto
    /\ \E r \in DOMAIN info.list : Sent([do |-> "editor", row |-> r])
    /\ UNCHANGED <<daemon, hardware, info, rows, selected, gpu, told, queue, app, shown,
                   polling, panicked, rule, clicked, bounds, history>>

ClickGpu ==
    /\ Click
    /\ \E g \in Gpus \ {gpu} : gpu' = g
    /\ Sent([do |-> "gpu"])
    /\ UNCHANGED <<daemon, hardware, info, rows, selected, told, queue, app, shown, polling,
                   panicked, rule, clicked, bounds, history>>

(* Buttons of a row, and the dialog for a new profile, which is two clicks:   *)
(* based on the settings without a profile (or on none), or on a profile.     *)
ClickProfile ==
    /\ rows # <<>>
    /\ \/ Click /\ \E r \in DOMAIN info.list, up \in {-1, 1} :
            /\ r + up \in DOMAIN info.list
            /\ Requested([do |-> "move", name |-> rows[r], to |-> r + up])
       \/ Click /\ \E r \in DOMAIN info.list : Requested([do |-> "delete", name |-> rows[r]])
       \/ Clicks(2) /\ \E n \in NewNames, b \in Bases \cap Range(rows) :
            Requested([do |-> "create", name |-> n, base |-> b])
    /\ UNCHANGED <<daemon, hardware, header, app, shown, polling, panicked, clicked, bounds,
                   history>>

EditRule ==
    /\ Click /\ rule.visible
    /\ rule' \in Edits(rule)
    /\ UNCHANGED <<daemon, hardware, info, rows, selected, gpu, mailbox, queue, app, shown,
                   polling, panicked, clicked, bounds, history>>

CloseRule ==
    /\ Click /\ rule.visible
    /\ rule' = [rule EXCEPT !.visible = FALSE]
    /\ \/ UNCHANGED queue
       \/ Requested([do |-> "rule", name |-> rule.profile, rule |-> GetRule(rule)])
    /\ UNCHANGED <<daemon, hardware, info, rows, selected, gpu, mailbox, app, shown, polling,
                   panicked, clicked, bounds, history>>
-----------------------------------------------------------------------------
(* The daemon and its profiles. Requests of the window, which waits for the   *)
(* answer, of another client, and its own rules may be under way at once.     *)

Exists(name) == name \in Names(daemon.list)
Known(name) == name = Default \/ Exists(name)
With(list) == [daemon EXCEPT !.list = list]
Without(name) ==
    IF Exists(name) THEN With(RemoveAt(daemon.list, Position(daemon.list, name))) ELSE daemon

Fault == Spare /\ faults > 0 /\ faults' = faults - 1

(* set_current_profile: the profile was looked up, and the hardware is        *)
(* cleaned up; afterwards a profile is to be removed, for delete_profile.     *)
CleanUp(a, name, gone) ==
    /\ Known(name)
    /\ switch' = [switch EXCEPT ![a] = [at |-> "store", name |-> name, gone |-> gone]]
    /\ applied' = None

(* The profile becomes the current one, by its name, which may have gone.     *)
Store(a) ==
    /\ switch[a].at = "store"
    /\ Change([daemon EXCEPT !.cur = switch[a].name])
    /\ switch' = [switch EXCEPT ![a] = [@ EXCEPT !.at = "apply", !.name = None]]
    /\ applied' = None
    /\ UNCHANGED <<header, queue, app, shown, polling, panicked, user, bounds, lost>>

(* Failures of a device to apply its settings are logged; a current profile   *)
(* that has gone is an error.                                                 *)
ApplyCurrent(a) ==
    /\ switch[a].at = "apply"
    /\ \/ /\ Known(daemon.cur)
          /\ switch' = [switch EXCEPT ![a] =
                            IF a = "watcher" THEN Resting ELSE [@ EXCEPT !.at = "finish"]]
          /\ \/ applied' = daemon.cur /\ UNCHANGED faults
             \/ applied' = None /\ Fault
       \/ /\ ~Known(daemon.cur)
          /\ switch' = [switch EXCEPT ![a] = Resting]
          /\ UNCHANGED <<applied, faults>>
    /\ UNCHANGED <<daemon, header, queue, app, shown, polling, panicked, user, switches,
                   history>>

(* The answer to the window is followed by a request for the new list. If the *)
(* daemon cannot save it has changed, and answers with an error.              *)
Answered(messages) ==
    \/ queue' = Append(messages, ReloadProfiles) /\ UNCHANGED faults
    \/ queue' = messages /\ Fault

(* The end of set_profile, which turns automatic switching off, and of        *)
(* delete_profile.                                                            *)
Finish(a) ==
    /\ switch[a].at = "finish"
    /\ Change(IF switch[a].gone = None THEN [daemon EXCEPT !.auto = FALSE]
              ELSE Without(switch[a].gone))
    /\ switch' = [switch EXCEPT ![a] = Resting]
    /\ IF a = "window" THEN Answered(queue) ELSE UNCHANGED <<queue, faults>>
    /\ UNCHANGED <<applied, header, app, shown, polling, panicked, user, switches, lost>>

(* The rules choose a profile, or another client, which may also delete one.  *)
BeginSwitch ==
    \E n \in (Names(daemon.list) \cup {Default}) \ {daemon.cur}, a \in {"client", "watcher"} :
        /\ switch[a] = Resting
        /\ a = "watcher" => daemon.auto
        /\ CleanUp(a, n, None)
        /\ UNCHANGED <<daemon, missed>>
OtherDeletes ==
    \E n \in Names(daemon.list) :
        /\ switch["client"] = Resting
        /\ \/ daemon.cur = n /\ CleanUp("client", Default, n) /\ UNCHANGED <<daemon, missed>>
           \/ daemon.cur # n /\ Change(Without(n)) /\ UNCHANGED hardware

Others ==
    /\ Spare /\ switches > 0 /\ switches' = switches - 1
    /\ BeginSwitch \/ OtherDeletes
    /\ UNCHANGED <<header, queue, app, shown, polling, panicked, user, faults, lost>>

Switches == \E a \in Actors : Store(a) \/ ApplyCurrent(a) \/ Finish(a)
-----------------------------------------------------------------------------
(* The application: a request to the daemon that is not named above is a      *)
(* step; requests that change the profiles are followed by one for the list.  *)

Tell == Sent([do |-> "profiles", info |-> daemon]) /\ told' = daemon

(* set_profile. *)
SelectProfile(m, rest) ==
    \/ /\ m.auto
       /\ Change([daemon EXCEPT !.auto = TRUE]) /\ Answered(rest)
       /\ UNCHANGED <<hardware, lost>>
    \/ /\ ~m.auto
       /\ CleanUp("window", m.name, None) /\ queue' = rest
       /\ UNCHANGED <<daemon, missed, faults, lost>>
    \/ /\ ~m.auto /\ ~Known(m.name)
       /\ queue' = rest
       /\ UNCHANGED <<daemon, hardware, missed, faults, lost>>
    \/ /\ Fault
       /\ lost' = lost \cup {"select"} /\ queue' = rest
       /\ UNCHANGED <<daemon, hardware, missed>>

Based(m) ==
    [name |-> m.name,
     rule |-> IF m.base = Default THEN NoRule
              ELSE daemon.list[Position(daemon.list, m.base)].rule]

(* create_profile; then the profile is selected, with the header's flag for   *)
(* automatic switching.                                                       *)
CreateProfile(m, rest) ==
    /\ queue' = rest
    /\ IF Exists(m.name) \/ (m.base # Default /\ ~Exists(m.base))
       THEN UNCHANGED <<daemon, missed, app, faults>>
       ELSE /\ Change(With(Append(daemon.list, Based(m))))
            /\ \/ app' = [do |-> "select", name |-> m.name] /\ UNCHANGED faults
               \/ UNCHANGED app /\ Fault

SelectCreated ==
    /\ app.do = "select"
    /\ SelectProfile(Ask(app.name, info.auto), queue)
    /\ app' = Idle
    /\ UNCHANGED <<header, shown, polling, panicked, user, switches>>

DeleteProfile(m, rest) ==
    \/ /\ daemon.cur = m.name
       /\ CleanUp("window", Default, m.name) /\ queue' = rest
       /\ UNCHANGED <<daemon, missed, faults>>
    \/ /\ daemon.cur # m.name
       /\ Change(Without(m.name)) /\ Answered(rest)
       /\ UNCHANGED hardware

(* swap_indices *)
MoveProfile(m, rest) ==
    IF Exists(m.name) /\ m.to \in DOMAIN daemon.list
    THEN LET from == Position(daemon.list, m.name)
             list == daemon.list
         IN /\ Change(With([list EXCEPT ![from] = list[m.to], ![m.to] = list[from]]))
            /\ Answered(rest)
    ELSE queue' = rest /\ UNCHANGED <<daemon, missed, faults>>

(* The list is asked for before anything else is handled. *)
SetProfileRule(m, rest) ==
    /\ queue' = rest
    /\ IF Exists(m.name)
       THEN /\ Change(With([i \in DOMAIN daemon.list |->
                            IF daemon.list[i].name = m.name
                            THEN [daemon.list[i] EXCEPT !.rule = m.rule] ELSE daemon.list[i]]))
            /\ \/ app' = [do |-> "tell", name |-> None] /\ UNCHANGED faults
               \/ UNCHANGED app /\ Fault
       ELSE UNCHANGED <<daemon, missed, app, faults>>

ListProfiles(rest) ==
    \/ /\ Tell
       /\ queue' = Append(rest, ReloadData(FALSE))
       /\ UNCHANGED faults
    \/ Fault /\ queue' = rest /\ UNCHANGED mailbox

TellRule ==
    /\ app.do = "tell"
    /\ Tell /\ app' = Idle
    /\ UNCHANGED <<daemon, hardware, info, rows, selected, gpu, queue, shown, polling, panicked,
                   rule, user, bounds, history>>

(* update_gpu_data of the device that is selected now: the loop is stopped,   *)
(* the statistics are read, then the rest, and a new loop is started. If the  *)
(* statistics cannot be read the loop is not started again; if a full reload  *)
(* cannot read the device, it is not stopped.                                 *)
ReloadPages(m, rest) ==
    /\ queue' = rest
    /\ \/ /\ shown' = [shown EXCEPT !.gpu = gpu, !.stats = applied]
          /\ polling' = FALSE
          /\ app' = [do |-> "reload", name |-> None]
          /\ UNCHANGED <<faults, lost>>
       \/ /\ Fault
          /\ lost' = lost \cup {"reload"}
          /\ \/ polling' = FALSE
             \/ m.full /\ UNCHANGED polling
          /\ UNCHANGED <<shown, app>>

ReloadRest ==
    /\ app.do = "reload"
    /\ shown' = [shown EXCEPT !.states = applied]
    /\ polling' = TRUE /\ app' = Idle
    /\ lost' = lost \ {"reload"}
    /\ UNCHANGED <<daemon, hardware, header, queue, panicked, user, bounds, missed>>

(* One request at a time: the client is behind a mutex. *)
Take ==
    /\ app = Idle /\ queue # <<>> /\ switch["window"] = Resting
    /\ LET m == Head(queue)
           rest == Tail(queue)
       IN CASE m.do = "select" ->
                    SelectProfile(m, rest) /\ UNCHANGED <<mailbox, app, shown, polling>>
            [] m.do = "create" ->
                    CreateProfile(m, rest) /\ UNCHANGED <<hardware, mailbox, shown, polling, lost>>
            [] m.do = "delete" ->
                    DeleteProfile(m, rest) /\ UNCHANGED <<mailbox, app, shown, polling, lost>>
            [] m.do = "move" ->
                    MoveProfile(m, rest)
                    /\ UNCHANGED <<hardware, mailbox, app, shown, polling, lost>>
            [] m.do = "rule" ->
                    SetProfileRule(m, rest) /\ UNCHANGED <<hardware, mailbox, shown, polling, lost>>
            [] m.do = "list" ->
                    ListProfiles(rest)
                    /\ UNCHANGED <<daemon, hardware, app, shown, polling, missed, lost>>
            [] m.do = "reload" ->
                    ReloadPages(m, rest) /\ UNCHANGED <<daemon, hardware, mailbox, missed>>
    /\ UNCHANGED <<info, rows, selected, gpu, panicked, rule, user, switches>>

(* The loop asks every 250 ms, which leaves the header time to handle what it *)
(* learned before; what it knows already would change nothing.                *)
Poll ==
    /\ polling /\ daemon # info /\ switch["window"] = Resting
    /\ ~\E i \in DOMAIN inbox : inbox[i].do = "profiles"
    /\ Tell
    /\ UNCHANGED <<daemon, hardware, info, rows, selected, gpu, queue, app, shown, polling,
                   panicked, rule, user, bounds, history>>
-----------------------------------------------------------------------------
(* The window has started: the profiles are listed and the pages loaded.      *)
Init ==
    /\ daemon \in [list : {Initial}, cur : Current, auto : BOOLEAN]
    /\ info = daemon
    /\ rows = Rows(info) /\ selected = CurrentRow(info) /\ gpu = CHOOSE g \in Gpus : TRUE
    /\ inbox = <<>> /\ told = info /\ queue = <<>>
    /\ app = Idle /\ switch = [a \in Actors |-> Resting] /\ applied = daemon.cur
    /\ shown = [gpu |-> gpu, stats |-> applied, states |-> applied]
    /\ polling = TRUE /\ panicked = FALSE
    /\ rule = Closed
    /\ clicked = None /\ missed = FALSE /\ lost = {}
    /\ clicks = MaxClicks /\ switches = MaxSwitches /\ faults = MaxFaults

UserActs ==
    ClickRow \/ ToggleAuto \/ ClickEditor \/ ClickGpu \/ ClickProfile \/ EditRule \/ CloseRule

WindowActs ==
    ~panicked /\ (Handle \/ Take \/ SelectCreated \/ TellRule \/ ReloadRest \/ Poll \/ UserActs)

Next == WindowActs \/ Others \/ Switches

Spec == Init /\ [][Next]_vars
-----------------------------------------------------------------------------
Quiet == inbox = <<>> /\ queue = <<>> /\ app = Idle /\ switch = [a \in Actors |-> Resting]

(* When everything is handled, nobody switches, and the header knows the      *)
(* daemon's profiles, the row of the current profile is the one that is       *)
(* selected, and the pages show the selected device and no other profile's    *)
(* settings: header.rs selects the row itself, and every change reloads the   *)
(* pages. Unless a request to select or to reload has failed, or the daemon   *)
(* changed and changed back unnoticed; and pages that were read in the middle *)
(* of another's switch, between handler.rs:783 and 786, or after it could not *)
(* be applied, show what the hardware was like then (None), and nothing reads *)
(* them again.                                                                *)
RestShowsCurrent ==
    (Quiet /\ info = daemon /\ ~missed) =>
        /\ "select" \notin lost => NameAt(selected) = daemon.cur
        /\ "reload" \notin lost => /\ shown.gpu = gpu
                                   /\ shown.stats \in {daemon.cur, None}
                                   /\ shown.states \in {daemon.cur, None}

(* A profile is asked for only if its row was the last that was clicked: that *)
(* rows are replaced, selected and unselected by the program never becomes a  *)
(* request of its own (header.rs, SelectProfile).                             *)
Asks == Len(queue') > Len(queue) /\ queue'[Len(queue')].do = "select"
SwitchesOnlyOnClick ==
    [][(Asks /\ Head(inbox) = Selection) => queue'[Len(queue')].name = clicked]_vars

(* A rule that is shown and left alone stands for itself, whatever the window *)
(* showed before, and would be saved as it was; a rule for a game of an empty *)
(* name and any arguments, which matches no game, is shown as one for any.    *)
RuleIsKept ==
    (rule.visible /\ ~rule.touched /\ ~(rule.rule.type = "game" /\ rule.rule.name = Empty)) =>
        Meaning(GetRule(rule)) = Meaning(rule.rule)
=============================================================================
