------------------------------ MODULE AppProofs ------------------------------
(* The settings pages and their component, for all values of the settings,    *)
(* delays and bounds of the user's doings.                                    *)
EXTENDS App, SequenceTheorems, TLAPS

Message == {"show", "apply", "reload", "reset clocks", "reset firmware"}
Places == {"idle", "set", "confirm", "end", "reset", "confirmReset",
           "stats", "clocks", "modes", "states"}
Collectable == [clocks : {0} \cup Value, core : SUBSET PowerState, vram : SUBSET PowerState]

Opened == [at : {"closed", "open", "yes", "no"}, delay : Int, owed : {0, 1}]

(* What the variables hold.                                                    *)
DaemonTypes == saved \in Settings /\ (pending # None => pending \in Settings) /\ left \in Int
PageTypes == widgets \in Widgets /\ wired \in BOOLEAN /\ revealer \in BOOLEAN
HandlerTypes == handler \in [at : Places, step : 1..9] /\ collected \in Collectable
GhostTypes == edited \in SUBSET Groups /\ hidden \in SUBSET Groups /\ unread \in SUBSET Groups
AppTypes ==
  /\ DaemonTypes /\ PageTypes /\ HandlerTypes /\ GhostTypes
  /\ queue \in Seq(Message) /\ dialogs \in [Dialog -> Opened]

-----------------------------------------------------------------------------
(* Messages that are sent and taken.                                           *)
LEMMA SentIsThere ==
  ASSUME NEW q \in Seq(Message), NEW m \in Message
  PROVE  /\ Append(q, m) \in Seq(Message) /\ Append(q, m) # <<>>
         /\ \A n : Contains(Append(q, m), n) <=> Contains(q, n) \/ n = m
<1>1. /\ Append(q, m) \in Seq(Message) /\ Len(Append(q, m)) = Len(q) + 1
      /\ \A i \in 1..Len(q) : Append(q, m)[i] = q[i]
      /\ Append(q, m)[Len(q) + 1] = m /\ Append(q, m) # <<>>
  BY AppendProperties
<1>2. Len(q) \in Nat
  BY LenProperties
<1>3. ASSUME NEW k \in Nat, k = Len(q), NEW r, NEW n,
             \A i \in 1..k : r[i] = q[i], r[k + 1] = m
      PROVE  (\E i \in 1..(k + 1) : r[i] = n) <=> (\E i \in 1..k : q[i] = n) \/ n = m
  <2>1. \A i \in 1..(k + 1) : i \in 1..k \/ i = k + 1
    OBVIOUS
  <2>2. \A i \in 1..k : i \in 1..(k + 1)
    OBVIOUS
  <2>3. k + 1 \in 1..(k + 1)
    OBVIOUS
  <2> QED
    BY <1>3, <2>1, <2>2, <2>3
<1> QED
  BY <1>1, <1>2, <1>3 DEF Contains

LEMMA TakenIsGone ==
  ASSUME NEW q \in Seq(Message), q # <<>>
  PROVE  /\ Tail(q) \in Seq(Message)
         /\ \A n : Contains(q, n) <=> n = Head(q) \/ Contains(Tail(q), n)
<1>1. /\ Tail(q) \in Seq(Message) /\ Len(Tail(q)) = Len(q) - 1
      /\ \A i \in 1..Len(Tail(q)) : Tail(q)[i] = q[i + 1]
  BY HeadTailProperties
<1>2. Len(q) \in Nat \ {0} /\ Head(q) = q[1]
  BY LenProperties, EmptySeq
<1>3. ASSUME NEW k \in Nat \ {0}, NEW j, j = k - 1, NEW r, NEW n,
             \A i \in 1..j : r[i] = q[i + 1]
      PROVE  (\E i \in 1..k : q[i] = n) <=> n = q[1] \/ (\E i \in 1..j : r[i] = n)
  <2>1. ASSUME NEW i \in 1..k, q[i] = n, i # 1
        PROVE  \E l \in 1..j : r[l] = n
    <3>1. i - 1 \in 1..j /\ (i - 1) + 1 = i
      BY <1>3, <2>1
    <3> QED
      BY <1>3, <2>1, <3>1
  <2>2. ASSUME NEW i \in 1..j, r[i] = n
        PROVE  \E l \in 1..k : q[l] = n
    <3>1. i + 1 \in 1..k
      BY <1>3, <2>2
    <3> QED
      BY <1>3, <2>2, <3>1
  <2>3. 1 \in 1..k
    OBVIOUS
  <2> QED
    BY <2>1, <2>2, <2>3
<1> QED
  BY <1>1, <1>2, <1>3 DEF Contains

LEMMA NothingInEmpty == \A n : ~Contains(<<>>, n)
  BY DEF Contains

-----------------------------------------------------------------------------
(* The widgets after values were read or the user has changed one.             *)
LEMMA Shown ==
  ASSUME NEW w \in Widgets, NEW s \in Settings, NEW h \in Settings
  PROVE  /\ ShowStats(w, s, h) \in Widgets
         /\ LET r == ShowStats(w, s, h)
            IN  /\ r.cap = h.cap /\ r.capChanged = FALSE /\ r.level = h.level /\ r.fan = s.fan
                /\ s.curve \in {0, r.curve} /\ r.firmware = h.firmware
                /\ r.mode = w.mode /\ r.active = w.active /\ r.core = w.core
                /\ r.clocks = w.clocks /\ r.clocksChanged = w.clocksChanged
<1> DEFINE a == ShowCap(w, h)
<1> DEFINE b == ShowLevel(a, h)
<1> DEFINE c == ShowCurve(b, s)
<1> DEFINE d == ShowFan(b, s)
<1>1. /\ a \in Widgets /\ a.cap = h.cap /\ a.capChanged = FALSE
      /\ a.mode = w.mode /\ a.active = w.active /\ a.core = w.core
      /\ a.clocks = w.clocks /\ a.clocksChanged = w.clocksChanged
  BY DEF Widgets, Settings, ShowCap
<1> HIDE DEF a
<1>2. /\ b \in Widgets /\ b.level = h.level /\ b.cap = a.cap /\ b.capChanged = a.capChanged
      /\ b.mode = a.mode /\ b.active = a.active /\ b.core = a.core
      /\ b.clocks = a.clocks /\ b.clocksChanged = a.clocksChanged
  BY <1>1 DEF Widgets, Settings, ShowLevel
<1> HIDE DEF b
<1>3. /\ c \in Widgets /\ s.curve \in {0, c.curve}
      /\ c.level = b.level /\ c.cap = b.cap /\ c.capChanged = b.capChanged
      /\ c.mode = b.mode /\ c.active = b.active /\ c.core = b.core
      /\ c.clocks = b.clocks /\ c.clocksChanged = b.clocksChanged
  BY <1>2 DEF Widgets, Settings, ShowCurve
<1>4. d = [c EXCEPT !.fan = s.fan] /\ ShowStats(w, s, h) = ShowFirmware(d, h)
  BY Zenon DEF ShowStats, ShowFan, a, b
<1> HIDE DEF c, d
<1>5. /\ d \in Widgets /\ d.fan = s.fan /\ d.curve = c.curve
      /\ d.level = c.level /\ d.cap = c.cap /\ d.capChanged = c.capChanged
      /\ d.mode = c.mode /\ d.active = c.active /\ d.core = c.core
      /\ d.clocks = c.clocks /\ d.clocksChanged = c.clocksChanged
  BY <1>3, <1>4 DEF Widgets, Settings
<1> DEFINE r == ShowFirmware(d, h)
<1>6. /\ r \in Widgets /\ r.firmware = h.firmware /\ r.fan = d.fan /\ r.curve = d.curve
      /\ r.level = d.level /\ r.cap = d.cap /\ r.capChanged = d.capChanged
      /\ r.mode = d.mode /\ r.active = d.active /\ r.core = d.core
      /\ r.clocks = d.clocks /\ r.clocksChanged = d.clocksChanged
  BY <1>5 DEF Widgets, Settings, ShowFirmware
<1> HIDE DEF r
<1>7. ShowStats(w, s, h) = r
  BY <1>4 DEF r
<1> QED
  BY <1>1, <1>2, <1>3, <1>5, <1>6, <1>7

LEMMA ShownLater ==
  ASSUME NEW w \in Widgets, NEW s \in Settings
  PROVE  /\ ShowClocks(w, s) \in Widgets /\ ShowModes(w, s) \in Widgets
         /\ ShowNoClocks(w) \in Widgets /\ ShowNoModes(w) \in Widgets
         /\ ShowStates(w, s) \in Widgets
<1>1. /\ ShowClocks(w, s) \in Widgets /\ ShowModes(w, s) \in Widgets
      /\ ShowNoClocks(w) \in Widgets /\ ShowNoModes(w) \in Widgets
  BY DEF Widgets, Settings, ShowClocks, ShowModes, ShowNoClocks, ShowNoModes
<1>2. ShowRows(w, s) \in Widgets
  BY DEF Widgets, Settings, ShowRows
<1>3. ASSUME NEW v \in Widgets, NEW b \in BOOLEAN
      PROVE  [v EXCEPT !.configurable = @ \/ b] \in Widgets
  BY DEF Widgets
<1>4. ShowStates(w, s)
        = [ShowRows(w, s) EXCEPT !.configurable = @ \/ (s.core # PowerState \/ s.vram # PowerState)]
  BY Zenon DEF ShowStates
<1> QED
  BY <1>1, <1>2, <1>3, <1>4

LEMMA StepNames ==
  /\ Len(Steps) = 9
  /\ Steps[1] = "cap" /\ Steps[2] = "nomode" /\ Steps[3] = "level" /\ Steps[4] = "mode"
  /\ Steps[5] = "fan" /\ Steps[6] = "collect" /\ Steps[7] = "core" /\ Steps[8] = "vram"
  /\ Steps[9] = "clocks"
  BY DEF Steps

LEMMA Wanted ==
  ASSUME NEW w \in Widgets, NEW c \in Collectable
  PROVE  /\ ModeWanted(w) \in {0, 1} /\ Collected(w) \in Collectable
         /\ NothingCollected \in Collectable
         /\ Sends("cap", w, c) <=> w.capChanged
         /\ Sends("clocks", w, c) => c.clocks \in Value
         /\ Collected(w).core = StatesWanted(w, w.core)
<1>1. w.cap # 0
  BY ValueAssumption DEF Widgets
<1>2. /\ w.clocks \in Value \cup {NoRows} /\ w.core \in SUBSET PowerState /\ w.vram \in SUBSET PowerState
      /\ w.mode \in {0, 1, NoRows} /\ w.capChanged \in BOOLEAN
  BY DEF Widgets
<1>3. c.clocks \in {0} \cup Value
  BY DEF Collectable
<1>4. StatesWanted(w, w.core) \in SUBSET PowerState /\ StatesWanted(w, w.vram) \in SUBSET PowerState
  BY <1>2 DEF StatesWanted
<1>5. ClocksWanted(w) \in {0} \cup Value
  BY <1>2 DEF ClocksWanted
<1>6. /\ Collected(w) \in Collectable /\ NothingCollected \in Collectable
      /\ Collected(w).core = StatesWanted(w, w.core)
  BY <1>4, <1>5 DEF Collected, NothingCollected, Collectable
<1> QED
  BY <1>1, <1>2, <1>3, <1>6 DEF ModeWanted, Sends, CapWanted

(* The settings r after the request of step k: one group of s is the one       *)
(* requested.                                                                  *)
AfterRequest(k, w, c, s, r) ==
  /\ r \in Settings
  /\ r.cap = IF k = 1 THEN w.cap ELSE s.cap
  /\ r.level = IF k = 3 THEN w.level ELSE s.level
  /\ r.mode = IF k = 2 THEN 0 ELSE IF k = 4 THEN ModeWanted(w) ELSE s.mode
  /\ r.fan = IF k = 5 THEN w.fan ELSE s.fan
  /\ r.curve = IF k = 5 /\ w.fan THEN w.curve ELSE s.curve
  /\ r.firmware = IF k = 5 THEN w.firmware ELSE s.firmware
  /\ k = 7 => r.core = c.core
  /\ k \notin {3, 7} => r.core = s.core
  /\ k # 9 => r.clocks = s.clocks
  /\ k = 9 => r = [s EXCEPT !.clocks = r.clocks]

LEMMA Requests ==
  ASSUME NEW w \in Widgets, NEW c \in Collectable, NEW s \in Settings, NEW k \in 1..9, k # 6,
         Sends(Steps[k], w, c)
  PROVE  AfterRequest(k, w, c, s, Requested(Steps[k], w, c, s))
<1> USE DEF AfterRequest
<1>1. /\ w.cap \in Value /\ w.level \in {"auto", "manual"} /\ w.fan \in BOOLEAN
      /\ w.curve \in Value /\ w.firmware \in Value /\ ModeWanted(w) \in {0, 1}
      /\ c.core \in SUBSET PowerState /\ c.vram \in SUBSET PowerState
      /\ k = 9 => c.clocks \in Value
  BY Wanted, StepNames DEF Widgets, Collectable
<1>2. CASE k = 1
  BY <1>1, <1>2, StepNames DEF Requested, Settings
<1>3. CASE k = 2
  BY <1>1, <1>3, StepNames DEF Requested, Settings
<1>4. CASE k = 3
  BY <1>1, <1>4, StepNames DEF Requested, LevelRequested, Settings
<1>5. CASE k = 4
  BY <1>1, <1>5, StepNames DEF Requested, Settings
<1>6. CASE k = 5
  BY <1>1, <1>6, StepNames DEF Requested, FanRequested, Settings
<1>7. CASE k = 7
  BY <1>1, <1>7, StepNames DEF Requested, Settings
<1>8. CASE k = 8
  BY <1>1, <1>8, StepNames DEF Requested, Settings
<1>9. CASE k = 9
  BY <1>1, <1>9, StepNames DEF Requested, Settings
<1> QED
  BY <1>2, <1>3, <1>4, <1>5, <1>6, <1>7, <1>8, <1>9

-----------------------------------------------------------------------------
(* The types.                                                                  *)
LEMMA MessagesSent ==
  ASSUME queue \in Seq(Message), NEW m \in Message, Send(m)
  PROVE  queue' \in Seq(Message) /\ \A n : Contains(queue', n) <=> Contains(queue, n) \/ n = m
  BY SentIsThere DEF Send

LEMMA MessagesTaken ==
  ASSUME queue \in Seq(Message), NEW m, Take(m)
  PROVE  /\ queue' \in Seq(Message) /\ handler.at = "idle"
         /\ \A n : Contains(queue, n) <=> n = m \/ Contains(queue', n)
  BY TakenIsGone DEF Take

LEMMA StepOfApply ==
  ASSUME HandlerTypes, Proceed
  PROVE  /\ handler' \in [at : Places, step : 1..9]
         /\ handler.step = 9 => handler'.at = "end"
         /\ handler.step # 9 => handler'.at = "set" /\ handler'.step = handler.step + 1
<1>1. handler.step \in 1..9
  BY DEF HandlerTypes
<1>2. handler.step # 9 => handler.step + 1 \in 1..9
  BY <1>1
<1> QED
  BY <1>2, StepNames DEF Proceed, Goto, HandlerTypes, Places

LEMMA QueueStep ==
  ASSUME AppTypes, Next
  PROVE  queue' \in Seq(Message)
<1> USE DEF AppTypes
<1>1. ASSUME NEW m, m \in Message, Send(m)
      PROVE  queue' \in Seq(Message)
  BY <1>1, MessagesSent
<1>2. ASSUME NEW m, Take(m)
      PROVE  queue' \in Seq(Message)
  BY <1>2, MessagesTaken
<1>3. CASE Edit
  BY <1>1, <1>3 DEF Edit, EditCap, EditClocks, EditLevel, EditStates, EditMode, EditFanMode,
     EditFirmware, MovePoint, ReplacePoints, ChangeOc, ChangeFan, Message
<1>4. CASE ClickApply \/ ClickRevert \/ ClickResetClocks \/ ClickResetPmfw
  BY <1>1, <1>4 DEF ClickApply, ClickRevert, ClickResetClocks, ClickResetPmfw, Click, Message
<1>5. CASE Handle
  BY <1>2, <1>5 DEF Handle, SettingsChanged, ApplyChanges, ReloadData, BeginReset
<1>6. CASE Apply
  BY <1>1, <1>6 DEF Apply, Skip, Collect, Fail, SetGroup, ConfirmGroup, SetClocks, EndApply,
     Leave, Message
<1>7. CASE SendReset \/ ConfirmReset \/ Reload \/ Expire \/ Second
  BY <1>1, <1>7 DEF SendReset, ConfirmReset, Reload, ReadStats, ReadStatsFails, ReadClocks,
     ReadModes, ReadStates, Expire, Second, Message
<1>8. ASSUME NEW d \in Dialog,
             Countdown(d) \/ Answer(d, "yes") \/ Answer(d, "no") \/ SendAnswer(d)
      PROVE  queue' \in Seq(Message)
  BY <1>1, <1>8 DEF Countdown, Answer, SendAnswer, Message
<1> QED
  BY <1>3, <1>4, <1>5, <1>6, <1>7, <1>8 DEF Next, Work

LEMMA DialogStep ==
  ASSUME AppTypes, Next
  PROVE  dialogs' \in [Dialog -> Opened]
<1> USE DEF AppTypes
<1>1. CASE Edit
  BY <1>1 DEF Edit
<1>2. CASE ClickApply \/ ClickRevert \/ ClickResetClocks \/ ClickResetPmfw
  BY <1>2 DEF ClickApply, ClickRevert, ClickResetClocks, ClickResetPmfw, Click
<1>3. CASE Handle
  BY <1>3 DEF Handle, SettingsChanged, ApplyChanges, ReloadData, BeginReset
<1>4. CASE Apply
  <2>1. CASE SetClocks
    <3>1. [at |-> "open", delay |-> Delay, owed |-> 0] \in Opened
      BY DelayIsPositive DEF Opened
    <3> QED
      BY <2>1, <3>1 DEF SetClocks
  <2> QED
    BY <1>4, <2>1 DEF Apply, Skip, Collect, Fail, SetGroup, ConfirmGroup, EndApply
<1>5. CASE SendReset \/ ConfirmReset \/ Reload \/ Expire
  BY <1>5 DEF SendReset, ConfirmReset, Reload, ReadStats, ReadStatsFails, ReadClocks,
     ReadModes, ReadStates, Expire
<1>6. CASE Second
  BY <1>6 DEF Second, Opened
<1>7. ASSUME NEW d \in Dialog,
             Countdown(d) \/ Answer(d, "yes") \/ Answer(d, "no") \/ SendAnswer(d)
      PROVE  dialogs' \in [Dialog -> Opened]
  <2>1. NoDialog \in Opened /\ \A a \in {"yes", "no"} : [at |-> a, delay |-> 0, owed |-> 0] \in Opened
    BY DEF NoDialog, Opened
  <2>2. [dialogs[d] EXCEPT !.delay = @ - 1, !.owed = 0] \in Opened
    <3>1. ASSUME NEW r \in Opened
          PROVE  [r EXCEPT !.delay = @ - 1, !.owed = 0] \in Opened
      <4>1. r.delay - 1 \in Int /\ r.at \in {"closed", "open", "yes", "no"}
        BY DEF Opened
      <4>2. [r EXCEPT !.delay = @ - 1] \in Opened
        BY <4>1 DEF Opened
      <4>3. ASSUME NEW x \in Opened
            PROVE  [x EXCEPT !.owed = 0] \in Opened
        BY DEF Opened
      <4> QED
        BY <4>2, <4>3
    <3> QED
      BY <3>1
  <2>3. ASSUME Countdown(d)
        PROVE  dialogs' \in [Dialog -> Opened]
    <3>1. [dialogs EXCEPT ![d].delay = @ - 1, ![d].owed = 0]
            = [dialogs EXCEPT ![d] = [dialogs[d] EXCEPT !.delay = @ - 1, !.owed = 0]]
      OBVIOUS
    <3> QED
      BY <2>1, <2>2, <2>3, <3>1 DEF Countdown
  <2> QED
    BY <1>7, <2>1, <2>3 DEF Answer, SendAnswer
<1> QED
  BY <1>1, <1>2, <1>3, <1>4, <1>5, <1>6, <1>7 DEF Next, Work

LEMMA HandlerStep ==
  ASSUME AppTypes, Next
  PROVE  HandlerTypes'
<1> USE DEF AppTypes
<1>1. ASSUME NEW at, NEW step, Goto(at, step), at \in Places, step \in 1..9
      PROVE  handler' \in [at : Places, step : 1..9]
  BY <1>1 DEF Goto
<1>2. CASE Edit
  BY <1>2 DEF Edit, HandlerTypes
<1>3. CASE ClickApply \/ ClickRevert \/ ClickResetClocks \/ ClickResetPmfw
  BY <1>3 DEF ClickApply, ClickRevert, ClickResetClocks, ClickResetPmfw, Click, HandlerTypes
<1>4. CASE Handle
  <2>1. SettingsChanged => HandlerTypes'
    BY DEF SettingsChanged, HandlerTypes
  <2>2. ASSUME NEW at \in {"set", "stats", "reset"}, NEW step \in {1, 2}, Goto(at, step),
               UNCHANGED collected
        PROVE  HandlerTypes'
    BY <1>1, <2>2 DEF HandlerTypes, Places
  <2> QED
    BY <1>4, <2>1, <2>2 DEF Handle, ApplyChanges, ReloadData, BeginReset
<1>5. CASE Apply
  <2>1. Proceed => handler' \in [at : Places, step : 1..9]
    BY StepOfApply
  <2>2. Collected(widgets) \in Collectable /\ NothingCollected \in Collectable
    BY Wanted DEF PageTypes, HandlerTypes
  <2> QED
    BY <1>1, <1>5, <2>1, <2>2 DEF Apply, Skip, Collect, Fail, SetGroup, ConfirmGroup, SetClocks,
       EndApply, Leave, Idle, HandlerTypes, Places
<1>6. CASE SendReset \/ ConfirmReset \/ Reload \/ Expire \/ Second
  BY <1>1, <1>6 DEF SendReset, ConfirmReset, Reload, ReadStats, ReadStatsFails, ReadClocks,
     ReadModes, ReadStates, Expire, Second, Idle, HandlerTypes, Places
<1>7. ASSUME NEW d \in Dialog,
             Countdown(d) \/ Answer(d, "yes") \/ Answer(d, "no") \/ SendAnswer(d)
      PROVE  HandlerTypes'
  BY <1>7 DEF Countdown, Answer, SendAnswer, HandlerTypes
<1> QED
  BY <1>2, <1>3, <1>4, <1>5, <1>6, <1>7 DEF Next, Work

LEMMA GhostStep ==
  ASSUME AppTypes, Next
  PROVE  GhostTypes'
<1> USE DEF AppTypes
<1>1. CASE Edit
  BY <1>1 DEF Edit, EditCap, EditClocks, EditLevel, EditStates, EditMode, EditFanMode,
     EditFirmware, MovePoint, ReplacePoints, ChangeOc, ChangeFan, GhostTypes, Groups
<1>2. CASE ClickApply \/ ClickRevert \/ ClickResetClocks \/ ClickResetPmfw
  BY <1>2 DEF ClickApply, ClickRevert, ClickResetClocks, ClickResetPmfw, Click, GhostTypes, ghosts
<1>3. CASE Handle
  BY <1>3 DEF Handle, SettingsChanged, ApplyChanges, ReloadData, BeginReset, GhostTypes, ghosts
<1>4. CASE Apply
  BY <1>4 DEF Apply, Skip, Collect, Fail, SetGroup, ConfirmGroup, SetClocks, EndApply,
     GhostTypes, ghosts
<1>5. CASE SendReset \/ ConfirmReset \/ Expire \/ Second
  BY <1>5 DEF SendReset, ConfirmReset, Expire, Second, GhostTypes, ghosts
<1>6. CASE Reload
  BY <1>6 DEF Reload, ReadStats, ReadStatsFails, ReadClocks, ReadModes, ReadStates, StatesAreRead,
     Read, GhostTypes, Groups
<1>7. ASSUME NEW d \in Dialog,
             Countdown(d) \/ Answer(d, "yes") \/ Answer(d, "no") \/ SendAnswer(d)
      PROVE  GhostTypes'
  BY <1>7 DEF Countdown, Answer, SendAnswer, GhostTypes, ghosts
<1> QED
  BY <1>1, <1>2, <1>3, <1>4, <1>5, <1>6, <1>7 DEF Next, Work

LEMMA PageStep ==
  ASSUME AppTypes, Next
  PROVE  PageTypes'
<1> USE DEF AppTypes
<1>1. CASE Edit
  <2>1. /\ \A g \in Groups, w \in Widgets : ChangeOc(g, w) => PageTypes'
        /\ \A g \in Groups, w \in Widgets, n \in BOOLEAN :
             ChangeFan(g, w, n) /\ wired' \in BOOLEAN => PageTypes'
    BY DEF ChangeOc, ChangeFan, PageTypes
  <2>2. /\ \A v \in Value : ChangeCap(widgets, v) \in Widgets /\ ChangeClocks(widgets, v) \in Widgets
        /\ \A l \in {"auto", "manual"} : ChangeLevel(widgets, l) \in Widgets
    BY DEF ChangeCap, ChangeClocks, ChangeLevel, PageTypes, Widgets
  <2>3. /\ \A rows \in SUBSET PowerState :
             [widgets EXCEPT !.configurable = TRUE, !.core = rows] \in Widgets
        /\ \A m \in {0, 1} : [widgets EXCEPT !.mode = m] \in Widgets
    BY DEF PageTypes, Widgets
  <2>4. /\ [widgets EXCEPT !.fan = ~@] \in Widgets
        /\ \A v \in Value : /\ [widgets EXCEPT !.curve = v] \in Widgets
                            /\ [widgets EXCEPT !.firmware = v] \in Widgets
    BY DEF PageTypes, Widgets
  <2>5. wired \in BOOLEAN /\ revealer \in BOOLEAN
    BY DEF PageTypes
  <2>6. EditCap \/ EditClocks \/ EditLevel \/ EditStates => PageTypes'
    BY <2>1, <2>2, <2>3 DEF EditCap, EditClocks, EditLevel, EditStates, Groups
  <2>7. EditMode => PageTypes'
    BY <2>3, <2>5 DEF EditMode, PageTypes
  <2>8. (EditFanMode \/ EditFirmware) \/ (MovePoint \/ ReplacePoints) => PageTypes'
    BY <2>1, <2>4, <2>5 DEF EditFanMode, EditFirmware, MovePoint, ReplacePoints, Groups
  <2> QED
    BY <1>1, <2>6, <2>7, <2>8 DEF Edit
<1>2. CASE ClickApply \/ ClickRevert \/ ClickResetClocks \/ ClickResetPmfw
  BY <1>2 DEF ClickApply, ClickRevert, ClickResetClocks, ClickResetPmfw, Click, PageTypes, page
<1>3. CASE Handle
  BY <1>3 DEF Handle, SettingsChanged, ApplyChanges, ReloadData, BeginReset, PageTypes, page
<1>4. CASE Apply
  BY <1>4 DEF Apply, Skip, Collect, Fail, SetGroup, ConfirmGroup, SetClocks, EndApply,
     PageTypes, page
<1>5. CASE Reload
  <2>1. Hardware \in Settings
    BY DEF Hardware, DaemonTypes
  <2>2. /\ ShowStats(widgets, saved, Hardware) \in Widgets
        /\ ShowClocks(widgets, Hardware) \in Widgets /\ ShowModes(widgets, Hardware) \in Widgets
        /\ ShowNoClocks(widgets) \in Widgets /\ ShowNoModes(widgets) \in Widgets
        /\ ShowStates(widgets, saved) \in Widgets
    BY <2>1, Shown, ShownLater DEF DaemonTypes, PageTypes
  <2> QED
    BY <1>5, <2>2 DEF Reload, ReadStats, ReadStatsFails, ReadClocks, ReadModes, ReadStates,
       StatesAreRead, PageTypes, page
<1>6. CASE SendReset \/ ConfirmReset \/ Expire \/ Second
  BY <1>6 DEF SendReset, ConfirmReset, Expire, Second, PageTypes, page
<1>7. ASSUME NEW d \in Dialog,
             Countdown(d) \/ Answer(d, "yes") \/ Answer(d, "no") \/ SendAnswer(d)
      PROVE  PageTypes'
  BY <1>7 DEF Countdown, Answer, SendAnswer, PageTypes, page
<1> QED
  BY <1>1, <1>2, <1>3, <1>4, <1>5, <1>6, <1>7 DEF Next, Work

LEMMA DaemonStep ==
  ASSUME AppTypes, Next
  PROVE  DaemonTypes'
<1> USE DEF AppTypes
<1>1. ASSUME NEW s \in Settings, Accept(s)
      PROVE  DaemonTypes'
  BY <1>1, DelayIsPositive DEF Accept, DaemonTypes
<1>2. Confirm \/ Revert => DaemonTypes'
  BY DEF Confirm, Revert, DaemonTypes
<1>3. UNCHANGED daemon => DaemonTypes'
  BY DEF daemon, DaemonTypes
<1>4. NothingPending \/ Refuse => DaemonTypes'
  BY <1>3 DEF NothingPending, Refuse
<1>5. CASE Edit \/ ClickApply \/ ClickRevert \/ ClickResetClocks \/ ClickResetPmfw \/ Handle \/ Reload
  BY <1>3, <1>5 DEF Edit, ClickApply, ClickRevert, ClickResetClocks, ClickResetPmfw, Click,
     Handle, SettingsChanged, ApplyChanges, ReloadData, BeginReset,
     Reload, ReadStats, ReadStatsFails, ReadClocks, ReadModes, ReadStates
<1>6. CASE Apply
  <2>1. CASE SetGroup \/ SetClocks
    <3>1. handler.step \in 1..9 /\ handler.step # 6 /\ Sends(Steps[handler.step], widgets, collected)
      BY <2>1, StepNames DEF SetGroup, SetClocks, Sending, Step, HandlerTypes
    <3>2. Requested(Step, widgets, collected, saved) \in Settings
      BY <3>1, Requests DEF AfterRequest, Step, PageTypes, HandlerTypes, DaemonTypes
    <3> QED
      BY <1>1, <2>1, <3>2 DEF SetGroup, SetClocks
  <2> QED
    BY <1>2, <1>3, <1>4, <1>6, <2>1 DEF Apply, Skip, Collect, Fail, ConfirmGroup, EndApply
<1>7. CASE SendReset \/ ConfirmReset \/ Expire
  <2>1. saved \in Settings
    BY DEF DaemonTypes
  <2>2. Reset \in Settings
    BY <2>1, ValueAssumption DEF Reset, Settings
  <2> QED
    BY <1>1, <1>2, <1>4, <1>7, <2>2 DEF SendReset, ConfirmReset, Expire
<1>8. CASE Second
  BY <1>8 DEF Second, DaemonTypes
<1>9. ASSUME NEW d \in Dialog,
             Countdown(d) \/ Answer(d, "yes") \/ Answer(d, "no") \/ SendAnswer(d)
      PROVE  DaemonTypes'
  BY <1>2, <1>3, <1>4, <1>9 DEF Countdown, Answer, SendAnswer
<1> QED
  BY <1>5, <1>6, <1>7, <1>8, <1>9 DEF Next, Work

LEMMA TypesHold ==
  /\ Init => AppTypes
  /\ AppTypes /\ [Next]_vars => AppTypes'
<1>1. ASSUME Init
      PROVE  AppTypes
  <2>1. DaemonTypes
    BY <1>1, ValueAssumption DEF Init, DaemonTypes, Defaults, Settings
  <2>2. PageTypes
    BY <1>1, PageStarts DEF Init, PageTypes
  <2>3. HandlerTypes
    BY <1>1 DEF Init, HandlerTypes, NothingCollected, Collectable, Places
  <2>4. NoDialog \in Opened
    BY DEF NoDialog, Opened
  <2>5. GhostTypes /\ dialogs \in [Dialog -> Opened]
    BY <1>1, <2>4 DEF Init, GhostTypes
  <2>6. queue \in Seq(Message)
    BY <1>1, EmptySeq DEF Init
  <2> QED
    BY <2>1, <2>2, <2>3, <2>5, <2>6 DEF AppTypes
<1>2. ASSUME AppTypes, Next
      PROVE  AppTypes'
  BY <1>2, QueueStep, DialogStep, HandlerStep, GhostStep, PageStep, DaemonStep DEF AppTypes
<1>3. ASSUME AppTypes, UNCHANGED vars
      PROVE  AppTypes'
  BY <1>3 DEF AppTypes, DaemonTypes, PageTypes, HandlerTypes, GhostTypes,
     vars, daemon, page, ghosts, counts
<1> QED
  BY <1>1, <1>2, <1>3

-----------------------------------------------------------------------------
(* The buttons: while a reload goes on, what the user has changed is announced *)
(* or will be read; points that are not connected are only there while the     *)
(* buttons are shown.                                                          *)
ToRead ==
  CASE handler.at = "clocks" -> {"clocks", "mode", "core"}
    [] handler.at = "modes" -> {"mode", "core"}
    [] handler.at = "states" -> {"core"}
    [] handler.at \in {"idle", "reset", "confirmReset"} -> {}
    [] OTHER -> Groups
RevealInv ==
  /\ wired \/ revealer
  /\ revealer \/ Contains(queue, "show") \/ edited \subseteq hidden
  /\ Reloading => Contains(queue, "show") \/ edited \subseteq hidden \cup ToRead

LEMMA ToReadPerStep ==
  /\ handler.at = "clocks" => ToRead = {"clocks", "mode", "core"}
  /\ handler.at = "modes" => ToRead = {"mode", "core"}
  /\ handler.at = "states" => ToRead = {"core"}
  /\ handler.at \in {"idle", "reset", "confirmReset"} => ToRead = {}
  /\ handler.at \in {"set", "confirm", "end", "stats"} => ToRead = Groups
  BY DEF ToRead

LEMMA RevealedStays ==
  ASSUME RevealInv, UNCHANGED <<wired, revealer, edited, hidden>>,
         Contains(queue, "show") => Contains(queue', "show"),
         UNCHANGED handler \/ handler'.at \notin {"clocks", "modes", "states"}
  PROVE  RevealInv'
  BY DEF RevealInv, Reloading, ToRead

LEMMA RevealedByEdit ==
  ASSUME AppTypes, RevealInv, Edit
  PROVE  RevealInv'
<1> USE DEF AppTypes
<1>1. UNCHANGED handler
  BY DEF Edit
<1>2. ASSUME NEW g, NEW w, ChangeOc(g, w)
      PROVE  RevealInv'
  BY <1>1, <1>2, MessagesSent DEF ChangeOc, RevealInv, Reloading, ToRead, Message
<1>3. ASSUME EditMode
      PROVE  RevealInv'
  <2>1. CASE Send("show")
    BY <1>1, <1>3, <2>1, MessagesSent DEF EditMode, RevealInv, Reloading, ToRead, Message
  <2>2. CASE UNCHANGED queue /\ edited' = edited \ {"mode"}
    BY <1>1, <1>3, <2>2 DEF EditMode, RevealInv, Reloading, ToRead
  <2> QED
    BY <1>3, <2>1, <2>2 DEF EditMode
<1>4. ASSUME NEW g, NEW w, NEW n \in BOOLEAN, ChangeFan(g, w, n), wired => n, ~wired' => ~wired \/ n
      PROVE  RevealInv'
  <2>1. revealer' = TRUE /\ (wired' \/ revealer')
    BY <1>4 DEF ChangeFan, RevealInv
  <2>2. Reloading => Contains(queue', "show") \/ edited' \subseteq hidden' \cup ToRead
    BY <1>4 DEF ChangeFan, RevealInv
  <2> QED
    BY <1>1, <2>1, <2>2 DEF RevealInv, Reloading, ToRead
<1>5. wired \in BOOLEAN
  BY DEF PageTypes
<1> QED
  BY <1>2, <1>3, <1>4, <1>5 DEF Edit, EditCap, EditClocks, EditLevel, EditStates, EditFanMode,
     EditFirmware, MovePoint, ReplacePoints

LEMMA RevealedByReload ==
  ASSUME AppTypes, RevealInv, Reload
  PROVE  RevealInv'
<1> USE DEF AppTypes
<1>1. edited \subseteq Groups
  BY DEF GhostTypes
<1>2. CASE ReadStats
  BY <1>1, <1>2, ToReadPerStep DEF ReadStats, Read, InStats, RevealInv, Goto, Reloading, ToRead, Groups
<1>3. CASE ReadStatsFails
  BY <1>3, RevealedStays DEF ReadStatsFails, Idle, Goto, page
<1>4. CASE ReadClocks
  BY <1>4 DEF ReadClocks, Read, RevealInv, Goto, Reloading, ToRead
<1>5. CASE ReadModes
  BY <1>5 DEF ReadModes, Read, RevealInv, Goto, Reloading, ToRead
<1>6. CASE ReadStates
  BY <1>6 DEF ReadStates, StatesAreRead, Read, RevealInv, Idle, Goto, Reloading, ToRead
<1> QED
  BY <1>2, <1>3, <1>4, <1>5, <1>6 DEF Reload

LEMMA RevealStep ==
  ASSUME AppTypes, RevealInv, Next
  PROVE  RevealInv'
<1> USE DEF AppTypes
<1>1. ASSUME NEW m \in Message, Send(m)
      PROVE  Contains(queue, "show") => Contains(queue', "show")
  BY <1>1, MessagesSent
<1>2. ASSUME NEW m, m # "show", Take(m)
      PROVE  Contains(queue, "show") => Contains(queue', "show")
  BY <1>2, MessagesTaken
<1>3. CASE ClickApply \/ ClickRevert \/ ClickResetClocks \/ ClickResetPmfw
  BY <1>1, <1>3, RevealedStays DEF ClickApply, ClickRevert, ClickResetClocks, ClickResetPmfw,
     Click, page, ghosts, Message
<1>4. CASE Handle
  <2>1. CASE SettingsChanged
    BY <2>1, MessagesTaken DEF SettingsChanged, RevealInv, Reloading, ghosts
  <2>2. CASE ApplyChanges \/ ReloadData \/ BeginReset
    <3>1. handler'.at \in {"set", "stats", "reset"}
      <4>1. \A at, step : Goto(at, step) => handler'.at = at
        BY DEF Goto
      <4> QED
        BY <2>2, <4>1 DEF ApplyChanges, ReloadData, BeginReset
    <3>2. /\ UNCHANGED <<wired, revealer, edited, hidden>>
          /\ Contains(queue, "show") => Contains(queue', "show")
      BY <1>2, <2>2 DEF ApplyChanges, ReloadData, BeginReset, page, ghosts
    <3> QED
      BY <3>1, <3>2, RevealedStays
  <2> QED
    BY <1>4, <2>1, <2>2 DEF Handle
<1>5. CASE Apply
  <2>1. handler'.at \in {"idle", "set", "confirm", "end"}
    <3>1. Proceed => handler'.at \in {"set", "end"}
      BY StepOfApply
    <3>2. \A at, step : Goto(at, step) => handler'.at = at
      BY DEF Goto
    <3> QED
      BY <1>5, <3>1, <3>2 DEF Apply, Skip, Collect, Fail, SetGroup, ConfirmGroup, SetClocks,
         EndApply, Leave, Idle
  <2>2. /\ UNCHANGED <<wired, revealer, edited, hidden>>
        /\ Contains(queue, "show") => Contains(queue', "show")
    BY <1>1, <1>5 DEF Apply, Skip, Collect, Fail, SetGroup, ConfirmGroup, SetClocks, EndApply,
       Leave, page, ghosts, Message
  <2> QED
    BY <2>1, <2>2, RevealedStays
<1>6. CASE SendReset \/ ConfirmReset
  <2>1. handler'.at \in {"idle", "confirmReset"}
    BY <1>6 DEF SendReset, ConfirmReset, Idle, Goto
  <2>2. /\ UNCHANGED <<wired, revealer, edited, hidden>>
        /\ Contains(queue, "show") => Contains(queue', "show")
    BY <1>1, <1>6 DEF SendReset, ConfirmReset, page, ghosts, Message
  <2> QED
    BY <2>1, <2>2, RevealedStays
<1>7. CASE Expire \/ Second
  BY <1>7, RevealedStays DEF Expire, Second, page, ghosts
<1>8. ASSUME NEW d \in Dialog,
             Countdown(d) \/ Answer(d, "yes") \/ Answer(d, "no") \/ SendAnswer(d)
      PROVE  RevealInv'
  <2>1. UNCHANGED <<page, handler, ghosts>> /\ (UNCHANGED queue \/ Send("reload"))
    BY <1>8 DEF Countdown, Answer, SendAnswer
  <2>2. Contains(queue, "show") => Contains(queue', "show")
    BY <1>1, <2>1 DEF Message
  <2> QED
    BY <2>1, <2>2, RevealedStays DEF page, ghosts
<1> QED
  BY <1>3, <1>4, <1>5, <1>6, <1>7, <1>8, RevealedByEdit, RevealedByReload DEF Next, Work

(* The buttons Apply and Revert are shown, or will be, while the user has      *)
(* changed something, but for fan settings that are changed in the middle of a *)
(* reload and power states that a reload could not read, whose end hides the   *)
(* buttons over both (update_gpu_data, SettingsChanged).                       *)
THEOREM ChangesAreAnnounced == Spec => []ChangesAreRevealed
<1>1. Init => AppTypes /\ RevealInv
  BY TypesHold DEF Init, RevealInv, Reloading
<1>2. AppTypes /\ RevealInv /\ [Next]_vars => (AppTypes /\ RevealInv)'
  <2>1. RevealInv /\ UNCHANGED vars => RevealInv'
    BY RevealedStays DEF vars, page, ghosts
  <2> QED
    BY <2>1, TypesHold, RevealStep
<1>3. RevealInv => ChangesAreRevealed
  BY DEF RevealInv, ChangesAreRevealed
<1> QED
  BY <1>1, <1>2, <1>3, PTL DEF Spec

-----------------------------------------------------------------------------
(* An apply: what its steps before step k have made of the settings s, with    *)
(* the widgets w, the values c it has collected and the groups t the user has  *)
(* changed meanwhile.                                                          *)
Saves(k, s, w, c, t) ==
  /\ k > 1 => (w.capChanged => "cap" \in t \/ s.cap = w.cap)
  /\ k > 3 => "level" \in t \/ s.level = w.level
  /\ k > 4 => "level" \in t \/ "mode" \in t \/ s.mode = ModeWanted(w)
  /\ k > 5 => /\ "fan" \in t \/ (s.fan = w.fan /\ (w.fan => s.curve = w.curve))
              /\ "firmware" \in t \/ s.firmware = w.firmware
  /\ k > 6 => "level" \in t \/ "core" \in t \/ c.core = StatesWanted(w, w.core)
  /\ k > 7 => "level" \in t \/ "core" \in t \/ s.core = StatesWanted(w, w.core)
Made(k, s) == Saves(k, s, widgets, collected, touched)

(* What was applied is saved; a change that is not confirmed yet has one step   *)
(* more and the clocks as they are, or it is about the clocks alone.            *)
Waiting == {"confirm", "confirmReset"}
ApplyInv ==
  /\ handler.at \in {"set", "confirm"} => Made(handler.step, saved)
  /\ handler.at = "end" => Made(10, saved)
PendingInv ==
  pending # None =>
    /\ handler.at = "confirm" =>
         Made(handler.step + 1, pending) /\ pending.clocks = saved.clocks
    /\ handler.at \notin Waiting => pending = [saved EXCEPT !.clocks = pending.clocks]

LEMMA SavesLess ==
  ASSUME NEW k \in Int, NEW j \in Int, j <= k, NEW s, NEW w, NEW c, NEW t, Saves(k, s, w, c, t)
  PROVE  Saves(j, s, w, c, t)
  BY DEF Saves

LEMMA ClocksDoNotMatter ==
  ASSUME NEW s \in Settings, NEW p, p = [s EXCEPT !.clocks = p.clocks],
         NEW k \in Int, NEW w, NEW c, NEW t, Saves(k, s, w, c, t)
  PROVE  Saves(k, p, w, c, t)
<1>1. /\ p.cap = s.cap /\ p.level = s.level /\ p.mode = s.mode /\ p.fan = s.fan
      /\ p.curve = s.curve /\ p.firmware = s.firmware /\ p.core = s.core
  BY DEF Settings
<1> QED
  BY <1>1 DEF Saves

(* A change by the user is one of what the apply has not promised any more.    *)
LEMMA EditIsTouched ==
  ASSUME AppTypes, Edit, Applying, NEW k \in Int, NEW s, Saves(k, s, widgets, collected, touched)
  PROVE  Saves(k, s, widgets', collected', touched')
<1>1. widgets \in Widgets /\ collected' = collected
  BY DEF AppTypes, PageTypes, Edit
<1>2. \A g : Touch(g) => touched' = touched \cup {g}
  BY DEF Touch
<1>3. CASE EditCap
  BY <1>1, <1>2, <1>3 DEF EditCap, ChangeOc, ChangeCap, Saves, Widgets, ModeWanted, StatesWanted
<1>4. CASE EditClocks
  BY <1>1, <1>2, <1>4 DEF EditClocks, ChangeOc, ChangeClocks, Saves, Widgets, ModeWanted, StatesWanted
<1>5. CASE EditLevel
  BY <1>1, <1>2, <1>5 DEF EditLevel, ChangeOc, ChangeLevel, Saves, Widgets, ModeWanted, StatesWanted
<1>6. CASE EditStates
  BY <1>1, <1>2, <1>6 DEF EditStates, ChangeOc, Saves, Widgets, ModeWanted, StatesWanted
<1>7. CASE EditMode
  BY <1>1, <1>2, <1>7 DEF EditMode, Saves, Widgets, ModeWanted, StatesWanted
<1>8. CASE EditFanMode
  BY <1>1, <1>2, <1>8 DEF EditFanMode, ChangeFan, Saves, Widgets, ModeWanted, StatesWanted
<1>9. CASE MovePoint \/ ReplacePoints
  BY <1>1, <1>2, <1>9 DEF MovePoint, ReplacePoints, ChangeFan, Saves, Widgets, ModeWanted, StatesWanted
<1>10. CASE EditFirmware
  BY <1>1, <1>2, <1>10 DEF EditFirmware, ChangeFan, Saves, Widgets, ModeWanted, StatesWanted
<1> QED
  BY <1>3, <1>4, <1>5, <1>6, <1>7, <1>8, <1>9, <1>10 DEF Edit

(* A step that sends nothing has nothing to save, the others save their group. *)
LEMMA SkippedIsSaved ==
  ASSUME AppTypes, ApplyInv, Skip
  PROVE  Made(handler.step + 1, saved)
<1>1. handler.step \in 1..9 /\ Made(handler.step, saved) /\ widgets \in Widgets
      /\ collected \in Collectable
  BY DEF AppTypes, HandlerTypes, PageTypes, ApplyInv, Skip
<1>2. ~Sends(Steps[handler.step], widgets, collected)
  BY DEF Skip, Step
<1>3. (handler.step = 1 /\ ~widgets.capChanged) \/ handler.step = 9
  <2>1. \A n \in 1..9 : n = 1 \/ n = 9 \/ (Steps[n] # "cap" /\ Steps[n] # "clocks")
    BY StepNames
  <2>2. handler.step = 1 \/ handler.step = 9
    BY <1>1, <1>2, <2>1 DEF Sends
  <2>3. handler.step = 1 => ~Sends("cap", widgets, collected)
    BY <1>2, StepNames
  <2> QED
    BY <1>1, <2>2, <2>3, Wanted
<1> QED
  BY <1>1, <1>3 DEF Made, Saves

LEMMA CollectedIsWanted ==
  ASSUME AppTypes, ApplyInv, Collect
  PROVE  handler.step = 6 /\ Saves(7, saved, widgets, collected', touched)
<1>1. handler.step \in 1..9 /\ Made(handler.step, saved) /\ widgets \in Widgets
      /\ Steps[handler.step] = "collect" /\ collected' = Collected(widgets)
  BY DEF AppTypes, HandlerTypes, PageTypes, ApplyInv, Collect, Step
<1>2. handler.step = 6
  BY <1>1, StepNames
<1>3. collected'.core = StatesWanted(widgets, widgets.core)
  BY <1>1, Wanted DEF AppTypes, HandlerTypes
<1> QED
  BY <1>1, <1>2, <1>3 DEF Made, Saves

LEMMA RequestedIsSaved ==
  ASSUME AppTypes, ApplyInv, Sending
  PROVE  LET r == Requested(Step, widgets, collected, saved)
         IN  /\ Made(handler.step + 1, r)
             /\ Step # "clocks" => r.clocks = saved.clocks
             /\ Step = "clocks" => handler.step = 9 /\ r = [saved EXCEPT !.clocks = r.clocks]
<1>1. /\ handler.step \in 1..9 /\ Made(handler.step, saved) /\ handler.step # 6
      /\ Sends(Steps[handler.step], widgets, collected)
      /\ widgets \in Widgets /\ collected \in Collectable /\ saved \in Settings
  BY StepNames DEF AppTypes, DaemonTypes, HandlerTypes, PageTypes, ApplyInv, Sending, Step
<1>2. Step = "clocks" <=> handler.step = 9
  <2>1. \A n \in 1..9 : Steps[n] = "clocks" <=> n = 9
    BY StepNames
  <2> QED
    BY <1>1, <2>1 DEF Step
<1> DEFINE r == Requested(Steps[handler.step], widgets, collected, saved)
<1>3. AfterRequest(handler.step, widgets, collected, saved, r)
  BY <1>1, Requests
<1> HIDE DEF r
<1>4. ASSUME NEW k \in 1..9, k = handler.step
      PROVE  Made(k + 1, r)
  <2>1. /\ k + 1 > 1 => k = 1 \/ k > 1
        /\ k + 1 > 3 => k = 3 \/ k > 3
        /\ k + 1 > 4 => k = 4 \/ (k > 4 /\ k # 2)
        /\ k + 1 > 5 => k = 5 \/ k > 5
        /\ k + 1 > 6 => k = 6 \/ k > 6
        /\ k + 1 > 7 => (k = 7 /\ k > 6) \/ k > 7
    OBVIOUS
  <2>2. k + 1 > 1 => (widgets.capChanged => "cap" \in touched \/ r.cap = widgets.cap)
    BY <1>1, <1>3, <1>4, <2>1 DEF Made, Saves, AfterRequest
  <2>3. k + 1 > 3 => "level" \in touched \/ r.level = widgets.level
    BY <1>1, <1>3, <1>4, <2>1 DEF Made, Saves, AfterRequest
  <2>4. k + 1 > 4 => "level" \in touched \/ "mode" \in touched \/ r.mode = ModeWanted(widgets)
    BY <1>1, <1>3, <1>4, <2>1 DEF Made, Saves, AfterRequest
  <2>5. k + 1 > 5 =>
          /\ "fan" \in touched
             \/ (r.fan = widgets.fan /\ (widgets.fan => r.curve = widgets.curve))
          /\ "firmware" \in touched \/ r.firmware = widgets.firmware
    BY <1>1, <1>3, <1>4, <2>1 DEF Made, Saves, AfterRequest
  <2>6. /\ k + 1 > 6 => "level" \in touched \/ "core" \in touched
                        \/ collected.core = StatesWanted(widgets, widgets.core)
        /\ k + 1 > 7 => "level" \in touched \/ "core" \in touched
                        \/ r.core = StatesWanted(widgets, widgets.core)
    BY <1>1, <1>3, <1>4, <2>1 DEF Made, Saves, AfterRequest
  <2> QED
    BY <2>2, <2>3, <2>4, <2>5, <2>6 DEF Made, Saves
<1> QED
  BY <1>1, <1>2, <1>3, <1>4 DEF r, Step, AfterRequest

(* The steps that leave an apply alone, and those of the daemon.               *)
LEMMA ApplyLeftAlone ==
  ASSUME ApplyInv, PendingInv, UNCHANGED <<daemon, widgets, collected, touched>>,
         UNCHANGED handler \/ handler'.at \notin {"set", "confirm", "end"},
         handler'.at \in Waiting => handler.at \in Waiting,
         handler.at \in Waiting => UNCHANGED handler \/ pending = None
  PROVE  ApplyInv' /\ PendingInv'
  BY DEF ApplyInv, PendingInv, Made, Waiting, daemon

LEMMA ApplySeesAnswer ==
  ASSUME AppTypes, ApplyInv, PendingInv, Confirm \/ Revert,
         UNCHANGED <<widgets, collected, touched, handler>>
  PROVE  ApplyInv' /\ PendingInv'
<1>1. PendingInv'
  BY DEF Confirm, Revert, PendingInv
<1>2. CASE Revert
  BY <1>1, <1>2 DEF Revert, ApplyInv, Made
<1>3. CASE Confirm
  <2>1. saved' = pending /\ pending # None /\ saved \in Settings /\ handler.step \in 1..9
    BY <1>3 DEF Confirm, AppTypes, DaemonTypes, HandlerTypes
  <2>2. CASE handler.at = "confirm"
    <3>1. Saves(handler.step + 1, pending, widgets, collected, touched)
      BY <2>1, <2>2 DEF PendingInv, Made
    <3>2. Saves(handler.step, pending, widgets, collected, touched)
      BY <2>1, <3>1, SavesLess
    <3> QED
      BY <1>1, <2>1, <2>2, <3>2 DEF ApplyInv, Made
  <2>3. CASE handler.at \in {"set", "end"}
    <3>1. pending = [saved EXCEPT !.clocks = pending.clocks]
      BY <2>1, <2>3 DEF PendingInv, Waiting
    <3>2. /\ handler.at = "set" => Saves(handler.step, pending, widgets, collected, touched)
          /\ handler.at = "end" => Saves(10, pending, widgets, collected, touched)
      BY <2>1, <3>1, ClocksDoNotMatter DEF ApplyInv, Made
    <3> QED
      BY <1>1, <2>1, <2>3, <3>2 DEF ApplyInv, Made
  <2> QED
    BY <1>1, <2>2, <2>3 DEF ApplyInv
<1> QED
  BY <1>1, <1>2, <1>3

LEMMA ApplyGoesOn ==
  ASSUME AppTypes, ApplyInv, PendingInv, Apply
  PROVE  ApplyInv' /\ PendingInv'
<1>1. handler.step \in 1..9
  BY DEF AppTypes, HandlerTypes
<1>2. ASSUME Proceed, pending' = None \/ pending' = [saved' EXCEPT !.clocks = pending'.clocks],
             Saves(handler.step + 1, saved', widgets', collected', touched')
      PROVE  ApplyInv' /\ PendingInv'
  <2>1. /\ handler.step = 9 => handler'.at = "end"
        /\ handler.step # 9 => handler'.at = "set" /\ handler'.step = handler.step + 1
    BY <1>2, StepOfApply DEF AppTypes
  <2>2. ApplyInv'
    BY <1>2, <2>1 DEF ApplyInv, Made
  <2>3. PendingInv'
    BY <1>2, <2>1 DEF PendingInv
  <2> QED
    BY <2>2, <2>3
<1>3. ASSUME Idle, pending' = None \/ (UNCHANGED daemon /\ handler.at \notin Waiting)
      PROVE  ApplyInv' /\ PendingInv'
  <2>1. handler'.at = "idle"
    BY <1>3 DEF Idle, Goto
  <2> QED
    BY <1>3, <2>1 DEF ApplyInv, PendingInv, Waiting, daemon
<1>4. CASE Skip
  <2>1. Made(handler.step + 1, saved) /\ UNCHANGED <<daemon, widgets, collected, touched>> /\ Proceed
    BY <1>4, SkippedIsSaved DEF Skip, page, ghosts
  <2>2. pending = None \/ pending = [saved EXCEPT !.clocks = pending.clocks]
    BY <1>4 DEF Skip, PendingInv, Waiting
  <2> QED
    BY <1>2, <2>1, <2>2 DEF Made, daemon
<1>5. CASE Collect
  <2>1. /\ handler.step + 1 = 7 /\ Saves(7, saved, widgets, collected', touched)
        /\ UNCHANGED <<daemon, widgets, touched>> /\ Proceed
    BY <1>5, CollectedIsWanted DEF Collect, page, ghosts
  <2>2. pending = None \/ pending = [saved EXCEPT !.clocks = pending.clocks]
    BY <1>5 DEF Collect, PendingInv, Waiting
  <2> QED
    BY <1>2, <2>1, <2>2 DEF daemon
<1>6. CASE Fail
  BY <1>3, <1>6 DEF Fail, Leave, Sending, Refuse, Waiting
<1>7. CASE SetGroup
  <2>1. Sending /\ Step # "clocks" /\ handler' = [at |-> "confirm", step |-> handler.step]
        /\ pending' = Requested(Step, widgets, collected, saved)
        /\ UNCHANGED <<saved, widgets, collected, touched>>
    BY <1>7 DEF SetGroup, Accept, Goto, page, ghosts
  <2>2. Made(handler.step + 1, pending') /\ pending'.clocks = saved.clocks
    BY <2>1, RequestedIsSaved
  <2>3. Made(handler.step, saved) /\ handler'.at = "confirm" /\ handler'.step = handler.step
    BY <2>1 DEF Sending, ApplyInv
  <2>4. ApplyInv'
    BY <2>1, <2>3 DEF ApplyInv, Made
  <2>5. PendingInv'
    BY <2>1, <2>2, <2>3 DEF PendingInv, Made, Waiting
  <2> QED
    BY <2>4, <2>5
<1>8. CASE ConfirmGroup
  <2>1. CASE Confirm /\ Proceed
    <3>1. /\ pending # None /\ saved' = pending /\ pending' = None
          /\ UNCHANGED <<widgets, collected, touched>> /\ handler.at = "confirm"
      BY <1>8, <2>1 DEF ConfirmGroup, Confirm, NothingPending, page
    <3>2. Saves(handler.step + 1, saved', widgets', collected', touched')
      BY <3>1 DEF PendingInv, Made
    <3> QED
      BY <1>2, <2>1, <3>1, <3>2
  <2>2. CASE NothingPending /\ Leave
    BY <1>3, <2>2 DEF NothingPending, Leave, daemon
  <2> QED
    BY <1>8, <2>1, <2>2 DEF ConfirmGroup
<1>9. CASE SetClocks
  <2>1. Sending /\ Step = "clocks" /\ handler' = [at |-> "end", step |-> 1]
        /\ pending' = Requested(Step, widgets, collected, saved)
        /\ UNCHANGED <<saved, widgets, collected, touched>>
    BY <1>9 DEF SetClocks, Accept, Goto, page, ghosts
  <2>2. /\ Made(handler.step + 1, pending') /\ handler.step = 9
        /\ pending' = [saved EXCEPT !.clocks = pending'.clocks]
    BY <2>1, RequestedIsSaved
  <2>3. Made(10, saved) /\ handler'.at = "end"
    <3>1. Made(9, saved)
      BY <2>1, <2>2 DEF Sending, ApplyInv
    <3> QED
      BY <2>1, <3>1 DEF Made, Saves
  <2>4. ApplyInv'
    BY <2>1, <2>3 DEF ApplyInv, Made
  <2>5. PendingInv'
    BY <2>1, <2>2, <2>3 DEF PendingInv
  <2> QED
    BY <2>4, <2>5
<1>10. CASE EndApply
  BY <1>3, <1>10 DEF EndApply, Leave, Waiting
<1> QED
  BY <1>4, <1>5, <1>6, <1>7, <1>8, <1>9, <1>10 DEF Apply

LEMMA ApplyStep ==
  ASSUME AppTypes, ApplyInv, PendingInv, Next
  PROVE  ApplyInv' /\ PendingInv'
<1>1. CASE Edit
  <2>1. UNCHANGED <<daemon, handler>>
    BY <1>1 DEF Edit
  <2>2. CASE Applying
    <3>1. handler.step \in Int /\ handler.step + 1 \in Int
      BY DEF AppTypes, HandlerTypes
    <3>2. \A k \in Int : \A s : Saves(k, s, widgets, collected, touched)
                                    => Saves(k, s, widgets', collected', touched')
      BY <1>1, <2>2, EditIsTouched
    <3>3. ApplyInv'
      BY <2>1, <3>1, <3>2 DEF ApplyInv, Made, daemon
    <3>4. PendingInv'
      BY <2>1, <3>1, <3>2 DEF PendingInv, Made, daemon
    <3> QED
      BY <3>3, <3>4
  <2>3. CASE ~Applying
    BY <2>1, <2>3 DEF Applying, ApplyInv, PendingInv, daemon
  <2> QED
    BY <2>2, <2>3
<1>2. CASE ClickApply \/ ClickRevert \/ ClickResetClocks \/ ClickResetPmfw
  BY <1>2, ApplyLeftAlone DEF ClickApply, ClickRevert, ClickResetClocks, ClickResetPmfw, Click,
     page, ghosts
<1>3. CASE Handle
  <2>1. handler.at = "idle" /\ UNCHANGED <<daemon, widgets, collected, touched>>
    BY <1>3 DEF Handle, SettingsChanged, ApplyChanges, ReloadData, BeginReset, Take, page, ghosts
  <2>2. CASE ApplyChanges
    <3>1. handler' = [at |-> "set", step |-> 1]
      BY <2>2 DEF ApplyChanges, Goto
    <3>2. ApplyInv'
      BY <3>1 DEF ApplyInv, Made, Saves
    <3>3. PendingInv'
      BY <2>1, <3>1 DEF PendingInv, Waiting, daemon
    <3> QED
      BY <3>2, <3>3
  <2>3. CASE SettingsChanged \/ ReloadData \/ BeginReset
    <3>1. UNCHANGED handler \/ handler'.at \in {"stats", "reset"}
      <4>1. \A at, step : Goto(at, step) => handler'.at = at
        BY DEF Goto
      <4> QED
        BY <2>3, <4>1 DEF SettingsChanged, ReloadData, BeginReset
    <3> QED
      BY <2>1, <3>1 DEF ApplyInv, PendingInv, Made, Waiting, daemon
  <2> QED
    BY <1>3, <2>2, <2>3 DEF Handle
<1>4. CASE SendReset
  <2>1. CASE Refuse /\ Idle
    BY <1>4, <2>1 DEF SendReset, Refuse, Idle, Goto, ApplyInv, PendingInv, Waiting, daemon
  <2>2. CASE Goto("confirmReset", handler.step)
    BY <2>2 DEF Goto, ApplyInv, PendingInv, Waiting
  <2> QED
    BY <1>4, <2>1, <2>2 DEF SendReset
<1>5. CASE ConfirmReset
  <2>1. handler'.at = "idle" /\ pending' = None
    BY <1>5 DEF ConfirmReset, Confirm, NothingPending, Idle, Goto, daemon
  <2> QED
    BY <2>1 DEF ApplyInv, PendingInv
<1>6. CASE Reload
  <2>1. /\ UNCHANGED daemon /\ handler.at \notin Waiting
        /\ handler'.at \in {"idle", "clocks", "modes", "states"}
    BY <1>6 DEF Reload, ReadStats, ReadStatsFails, ReadClocks, ReadModes, ReadStates, Idle, Goto,
       Waiting
  <2> QED
    BY <2>1 DEF ApplyInv, PendingInv, Waiting, daemon
<1>7. CASE Expire
  BY <1>7, ApplySeesAnswer DEF Expire, page, ghosts
<1>8. CASE Second
  BY <1>8 DEF Second, ApplyInv, PendingInv, Made, page, ghosts
<1>9. ASSUME NEW d \in Dialog,
             Countdown(d) \/ Answer(d, "yes") \/ Answer(d, "no") \/ SendAnswer(d)
      PROVE  ApplyInv' /\ PendingInv'
  <2>1. UNCHANGED <<widgets, collected, touched, handler>>
        /\ (UNCHANGED daemon \/ Confirm \/ Revert)
    BY <1>9 DEF Countdown, Answer, SendAnswer, NothingPending, page, ghosts
  <2> QED
    BY <2>1, ApplyLeftAlone, ApplySeesAnswer DEF Waiting
<1> QED
  BY <1>1, <1>2, <1>3, <1>4, <1>5, <1>6, <1>7, <1>8, <1>9, ApplyGoesOn DEF Next, Work

ProgressInv == AppTypes /\ ApplyInv /\ PendingInv

LEMMA ProgressHolds ==
  /\ Init => ProgressInv
  /\ ProgressInv /\ [Next]_vars => ProgressInv'
<1>1. Init => ProgressInv
  BY TypesHold DEF Init, ProgressInv, ApplyInv, PendingInv
<1>2. ApplyInv /\ PendingInv /\ UNCHANGED vars => ApplyInv' /\ PendingInv'
  BY DEF ApplyInv, PendingInv, Made, vars, daemon, page, ghosts, counts
<1> QED
  BY <1>1, <1>2, TypesHold, ApplyStep DEF ProgressInv

(* When apply_settings has come to its end without an error, the daemon has    *)
(* saved what the widgets show, but for what the user has changed meanwhile     *)
(* and for the clocks.                                                         *)
THEOREM AppliedStays == Spec => []AppliedIsSaved
<1>1. ProgressInv => AppliedIsSaved
  <2>1. SUFFICES ASSUME ProgressInv, handler.at = "end"
                 PROVE  AppliedIsSaved
    BY DEF AppliedIsSaved
  <2>2. Saves(10, saved, widgets, collected, touched)
    BY <2>1 DEF ProgressInv, ApplyInv, Made
  <2> QED
    BY <2>2 DEF Saves, AppliedIsSaved
<1> QED
  BY <1>1, ProgressHolds, PTL DEF Spec

(* Only a Yes of the user or a reset changes the clocks that are saved         *)
(* (ask_settings_confirmation, ResetClocks).                                   *)
THEOREM ClocksNeedTheUser == Spec => ClocksAreKeptByUser
<1> DEFINE Kept == saved'.clocks # saved.clocks =>
             \/ \E d \in Dialog : dialogs[d].at = "yes" /\ dialogs'[d].at = "closed"
             \/ handler.at = "confirmReset"
<1>1. ProgressInv /\ [Next]_vars => [Kept]_vars
  <2>1. SUFFICES ASSUME ProgressInv, Next
                 PROVE  saved' = saved \/ Kept
    OBVIOUS
  <2>2. CASE Edit \/ ClickApply \/ ClickRevert \/ ClickResetClocks \/ ClickResetPmfw \/ Handle \/ Reload
    BY <2>2 DEF Edit, ClickApply, ClickRevert, ClickResetClocks, ClickResetPmfw, Click, daemon,
       Handle, SettingsChanged, ApplyChanges, ReloadData, BeginReset,
       Reload, ReadStats, ReadStatsFails, ReadClocks, ReadModes, ReadStates
  <2>3. CASE Apply
    <3>1. CASE ConfirmGroup
      <4>1. saved' = saved
            \/ (handler.at = "confirm" /\ pending # None /\ saved' = pending)
        BY <3>1 DEF ConfirmGroup, Confirm, NothingPending, daemon
      <4> QED
        BY <2>1, <4>1 DEF ProgressInv, PendingInv
    <3> QED
      BY <2>3, <3>1 DEF Apply, Skip, Collect, Fail, Refuse, SetGroup, SetClocks, Accept, EndApply,
         daemon
  <2>4. CASE SendReset \/ ConfirmReset \/ Expire \/ Second
    BY <2>4 DEF SendReset, ConfirmReset, Expire, Second, Accept, Refuse, Revert, daemon
  <2>5. ASSUME NEW d \in Dialog,
               Countdown(d) \/ Answer(d, "yes") \/ Answer(d, "no") \/ SendAnswer(d)
        PROVE  saved' = saved \/ Kept
    <3>1. CASE SendAnswer(d)
      <4>1. saved' = saved \/ (dialogs[d].at = "yes" /\ dialogs' = [dialogs EXCEPT ![d] = NoDialog])
        BY <3>1 DEF SendAnswer, Revert, NothingPending, daemon
      <4>2. dialogs' = [dialogs EXCEPT ![d] = NoDialog] => dialogs'[d].at = "closed"
        BY <2>1 DEF ProgressInv, AppTypes, NoDialog
      <4> QED
        BY <4>1, <4>2
    <3> QED
      BY <2>5, <3>1 DEF Countdown, Answer, daemon
  <2> QED
    BY <2>1, <2>2, <2>3, <2>4, <2>5 DEF Next, Work
<1> QED
  BY <1>1, ProgressHolds, PTL DEF Spec, ClocksAreKeptByUser

-----------------------------------------------------------------------------
(* The pages: but for the groups u that are still to be read or could not be,  *)
(* and those of e the user has changed, the widgets w show the settings s, or   *)
(* have no rows.                                                               *)
ShowsBut(u, e, w, s) ==
  /\ "cap" \in u \/ "cap" \in e \/ (w.cap = s.cap /\ ~w.capChanged)
  /\ "level" \in u \/ "level" \in e \/ w.level = s.level
  /\ \/ "mode" \in u
     \/ w.active = NoRows /\ w.mode = NoRows
     \/ w.active = s.mode /\ ("mode" \in e \/ w.mode = s.mode)
  /\ "fan" \in u \/ "fan" \in e \/ (w.fan = s.fan /\ s.curve \in {0, w.curve})
  /\ "firmware" \in u \/ "firmware" \in e \/ w.firmware = s.firmware
  /\ "core" \in u \/ "core" \in e \/ w.core = s.core
  /\ "clocks" \in u \/ "clocks" \in e \/ (w.clocks \in {NoRows, s.clocks} /\ ~w.clocksChanged)

(* The pages are to be read again, or what was read is what is saved.          *)
Ahead == Contains(queue, "reload") \/ \E d \in Dialog : dialogs[d].at # "closed"
ShownInv ==
  \/ Ahead
  \/ ShowsBut(ToRead \cup unread, edited, widgets, saved)

(* The dialog that asks about a change that waits for the user: its countdown  *)
(* does not end before the timer of the daemon.                                *)
Asks(d) ==
  \/ dialogs[d].at \in {"yes", "no"}
  \/ dialogs[d].at = "open" /\ dialogs[d].delay = left + dialogs[d].owed
OwnerInv == pending # None /\ handler.at \notin Waiting => \E d \in Dialog : Asks(d)

LEMMA OwnerStep ==
  ASSUME AppTypes, OwnerInv, Next
  PROVE  OwnerInv'
<1> USE DEF AppTypes
<1>1. ASSUME UNCHANGED <<daemon, dialogs>>, handler'.at \notin Waiting => handler.at \notin Waiting
      PROVE  OwnerInv'
  BY <1>1 DEF OwnerInv, Asks, daemon
<1>2. ASSUME pending' = None \/ handler'.at \in Waiting
      PROVE  OwnerInv'
  BY <1>2 DEF OwnerInv
<1>3. \A at, step : Goto(at, step) => handler'.at = at
  BY DEF Goto
<1>4. CASE Edit \/ ClickApply \/ ClickRevert \/ ClickResetClocks \/ ClickResetPmfw
  BY <1>1, <1>4 DEF Edit, ClickApply, ClickRevert, ClickResetClocks, ClickResetPmfw, Click
<1>5. CASE Handle
  BY <1>1, <1>5 DEF Handle, SettingsChanged, ApplyChanges, ReloadData, BeginReset, Take, Waiting
<1>6. CASE Apply
  <2>1. CASE Skip \/ Collect \/ EndApply \/ Fail
    BY <1>1, <2>1 DEF Skip, Collect, EndApply, Fail, Sending, Refuse, Waiting
  <2>2. CASE SetGroup \/ ConfirmGroup
    BY <1>2, <1>3, <2>2 DEF SetGroup, ConfirmGroup, Confirm, NothingPending, Waiting, daemon
  <2>3. CASE SetClocks
    <3>1. FreeDialog \in Dialog
      BY <2>3 DEF SetClocks, FreeDialog
    <3>2. /\ dialogs'[FreeDialog] = [at |-> "open", delay |-> Delay, owed |-> 0] /\ left' = Delay
          /\ Delay \in Int
      BY <2>3, <3>1, DelayIsPositive DEF SetClocks, Accept
    <3> QED
      BY <3>1, <3>2 DEF OwnerInv, Asks
  <2> QED
    BY <1>6, <2>1, <2>2, <2>3 DEF Apply
<1>7. CASE SendReset
  BY <1>1, <1>2, <1>3, <1>7 DEF SendReset, Refuse, Waiting
<1>8. CASE ConfirmReset \/ Expire
  BY <1>2, <1>8 DEF ConfirmReset, Confirm, NothingPending, Expire, Revert, daemon
<1>9. CASE Reload
  BY <1>1, <1>9 DEF Reload, ReadStats, ReadStatsFails, ReadClocks, ReadModes, ReadStates, Waiting
<1>10. CASE Second
  <2>1. SUFFICES ASSUME pending # None, handler.at \notin Waiting
                 PROVE  \E d \in Dialog : Asks(d)'
    BY <1>10 DEF Second, OwnerInv
  <2>2. PICK d \in Dialog : Asks(d)
    BY <2>1 DEF OwnerInv
  <2>3. /\ dialogs[d] \in Opened /\ dialogs[d].owed = 0 /\ left \in Int /\ left' = left - 1
        /\ dialogs'[d] = IF dialogs[d].at = "open" THEN [dialogs[d] EXCEPT !.owed = 1] ELSE dialogs[d]
    BY <1>10, <2>1 DEF Second, DaemonTypes
  <2>4. dialogs[d].delay \in Int
    BY <2>3 DEF Opened
  <2> QED
    BY <2>2, <2>3, <2>4 DEF Asks, Opened
<1>11. ASSUME NEW c \in Dialog, Countdown(c)
       PROVE  OwnerInv'
  <2>1. SUFFICES ASSUME pending # None, handler.at \notin Waiting
                 PROVE  \E d \in Dialog : Asks(d)'
    BY <1>11 DEF Countdown, OwnerInv, daemon
  <2>2. PICK d \in Dialog : Asks(d)
    BY <2>1 DEF OwnerInv
  <2>3. dialogs[d] \in Opened /\ left \in Int /\ left # 0 /\ left' = left
    BY <1>11, <2>1 DEF Countdown, Due, DaemonTypes, daemon
  <2>4. dialogs[d].delay \in Int /\ dialogs[d].owed \in {0, 1}
    BY <2>3 DEF Opened
  <2>5. CASE c # d
    <3>1. dialogs'[d] = dialogs[d]
      BY <1>11, <2>5 DEF Countdown
    <3> QED
      BY <2>2, <2>3, <3>1 DEF Asks
  <2>6. CASE c = d
    <3>1. dialogs[d].at = "open" /\ dialogs[d].owed = 1 /\ dialogs[d].delay = left + 1
      BY <1>11, <2>2, <2>4, <2>6 DEF Countdown, Asks
    <3>2. dialogs' = [dialogs EXCEPT ![d].delay = @ - 1, ![d].owed = 0]
      BY <1>11, <2>3, <2>6, <3>1 DEF Countdown
    <3>3. /\ dialogs'[d].at = "open" /\ dialogs'[d].delay = dialogs[d].delay - 1
          /\ dialogs'[d].owed = 0
      BY <2>3, <3>1, <3>2 DEF Opened
    <3> QED
      BY <2>3, <3>1, <3>3 DEF Asks
  <2> QED
    BY <2>5, <2>6
<1>12. ASSUME NEW d \in Dialog, Answer(d, "yes") \/ Answer(d, "no")
       PROVE  OwnerInv'
  <2>1. dialogs'[d].at \in {"yes", "no"}
    BY <1>12 DEF Answer
  <2> QED
    BY <2>1 DEF OwnerInv, Asks
<1>13. ASSUME NEW d \in Dialog, SendAnswer(d)
       PROVE  OwnerInv'
  BY <1>2, <1>13 DEF SendAnswer, Confirm, Revert, NothingPending, daemon
<1> QED
  BY <1>4, <1>5, <1>6, <1>7, <1>8, <1>9, <1>10, <1>11, <1>12, <1>13 DEF Next, Work

LEMMA AheadStays ==
  /\ (Contains(queue, "reload") => Contains(queue', "reload")) /\ UNCHANGED dialogs
       => (Ahead => Ahead')
  /\ queue \in Seq(Message) /\ Send("reload") => Ahead'
<1>1. (Contains(queue, "reload") => Contains(queue', "reload")) /\ UNCHANGED dialogs
        => (Ahead => Ahead')
  BY DEF Ahead
<1>2. queue \in Seq(Message) /\ Send("reload") => Ahead'
  BY MessagesSent DEF Ahead, Message
<1> QED
  BY <1>1, <1>2

LEMMA ShownByEdit ==
  ASSUME AppTypes, Edit, NEW u, ShowsBut(u, edited, widgets, saved)
  PROVE  ShowsBut(u, edited', widgets', saved)
<1>1. widgets \in Widgets
  BY DEF AppTypes, PageTypes
<1>2. CASE EditCap
  BY <1>1, <1>2 DEF EditCap, ChangeOc, ChangeCap, ShowsBut, Widgets
<1>3. CASE EditClocks
  BY <1>1, <1>3 DEF EditClocks, ChangeOc, ChangeClocks, ShowsBut, Widgets
<1>4. CASE EditLevel
  BY <1>1, <1>4 DEF EditLevel, ChangeOc, ChangeLevel, ShowsBut, Widgets
<1>5. CASE EditStates
  BY <1>1, <1>5 DEF EditStates, ChangeOc, ShowsBut, Widgets
<1>6. CASE EditMode
  BY <1>1, <1>6 DEF EditMode, ShowsBut, Widgets
<1>7. CASE EditFanMode
  BY <1>1, <1>7 DEF EditFanMode, ChangeFan, ShowsBut, Widgets
<1>8. CASE MovePoint \/ ReplacePoints
  BY <1>1, <1>8 DEF MovePoint, ReplacePoints, ChangeFan, ShowsBut, Widgets
<1>9. CASE EditFirmware
  BY <1>1, <1>9 DEF EditFirmware, ChangeFan, ShowsBut, Widgets
<1> QED
  BY <1>2, <1>3, <1>4, <1>5, <1>6, <1>7, <1>8, <1>9 DEF Edit

(* What a reload reads is what is saved, but for clocks that wait for a dialog. *)
LEMMA HardwareIsSaved ==
  ASSUME AppTypes, PendingInv, handler.at \notin Waiting
  PROVE  /\ saved \in Settings /\ Hardware \in Settings /\ widgets \in Widgets
         /\ Hardware.cap = saved.cap /\ Hardware.level = saved.level
         /\ Hardware.mode = saved.mode /\ Hardware.firmware = saved.firmware
         /\ pending = None => Hardware.clocks = saved.clocks
<1>1. saved \in Settings /\ Hardware \in Settings /\ widgets \in Widgets
  BY DEF AppTypes, DaemonTypes, PageTypes, Hardware
<1>2. pending # None => Hardware = [saved EXCEPT !.clocks = pending.clocks]
  BY DEF PendingInv, Hardware
<1>3. pending = None => Hardware = saved
  BY DEF Hardware
<1>4. ASSUME NEW x
      PROVE  LET h == [saved EXCEPT !.clocks = x]
             IN  /\ h.cap = saved.cap /\ h.level = saved.level
                 /\ h.mode = saved.mode /\ h.firmware = saved.firmware
  BY <1>1 DEF Settings
<1> QED
  BY <1>1, <1>2, <1>3, <1>4

LEMMA ShownByReload ==
  ASSUME AppTypes, PendingInv, OwnerInv, ShownInv, Reload
  PROVE  ShownInv'
<1> USE DEF AppTypes
<1>1. \A at, step : Goto(at, step) => handler'.at = at
  BY DEF Goto
<1>2. /\ saved \in Settings /\ Hardware \in Settings /\ widgets \in Widgets
      /\ Hardware.cap = saved.cap /\ Hardware.level = saved.level
      /\ Hardware.mode = saved.mode /\ Hardware.firmware = saved.firmware
      /\ pending = None => Hardware.clocks = saved.clocks
  <2>1. handler.at \notin Waiting
    BY DEF Reload, ReadStats, ReadStatsFails, ReadClocks, ReadModes, ReadStates, Waiting
  <2> QED
    BY <2>1, HardwareIsSaved
<1>3. UNCHANGED <<saved, queue, dialogs>> /\ (Ahead => Ahead')
  BY AheadStays DEF Reload, ReadStats, ReadStatsFails, ReadClocks, ReadModes, ReadStates, daemon
<1>4. CASE ReadStats
  <2>1. ToRead' = {"clocks", "mode", "core"}
    BY <1>1, <1>4, ToReadPerStep DEF ReadStats, ToRead
  <2>2. /\ widgets'.cap = saved.cap /\ widgets'.capChanged = FALSE /\ widgets'.level = saved.level
        /\ widgets'.fan = saved.fan /\ saved.curve \in {0, widgets'.curve}
        /\ widgets'.firmware = saved.firmware
    BY <1>2, <1>4, Shown DEF ReadStats
  <2>3. ShowsBut(ToRead' \cup unread', edited', widgets', saved')
    BY <1>3, <2>1, <2>2 DEF ShowsBut
  <2> QED
    BY <2>3 DEF ShownInv
<1>5. CASE ReadStatsFails
  <2>1. unread' = Groups
    BY <1>5 DEF ReadStatsFails
  <2>2. ShowsBut(ToRead' \cup unread', edited', widgets', saved')
    BY <2>1 DEF ShowsBut, Groups
  <2> QED
    BY <2>2 DEF ShownInv
<1>6. Ahead' \/ ShowsBut(ToRead \cup unread, edited, widgets, saved)
  BY <1>3 DEF ShownInv
<1>7. CASE ReadClocks
  <2>1. ToRead = {"clocks", "mode", "core"} /\ ToRead' = {"mode", "core"}
    BY <1>1, <1>7 DEF ReadClocks, ToRead
  <2>2. pending = None \/ Ahead
    BY <1>7 DEF ReadClocks, OwnerInv, Asks, Ahead, Waiting
  <2>3. ASSUME pending = None, ShowsBut(ToRead \cup unread, edited, widgets, saved)
        PROVE  ShowsBut(ToRead' \cup unread', edited', widgets', saved')
    <3>1. /\ \E v \in {NoRows, saved.clocks} :
                widgets' = [widgets EXCEPT !.clocks = v, !.clocksChanged = FALSE]
          /\ edited' = edited \ {"clocks"} /\ unread' = unread \ {"clocks"}
      BY <1>2, <1>7, <2>3 DEF ReadClocks, ShowClocks, ShowNoClocks, Read
    <3> QED
      BY <1>2, <1>3, <2>1, <2>3, <3>1 DEF ShowsBut, Widgets
  <2> QED
    BY <1>3, <1>6, <2>2, <2>3 DEF ShownInv
<1>8. CASE ReadModes
  <2>1. ToRead = {"mode", "core"} /\ ToRead' = {"core"}
    BY <1>1, <1>8 DEF ReadModes, ToRead
  <2>2. ASSUME ShowsBut(ToRead \cup unread, edited, widgets, saved)
        PROVE  ShowsBut(ToRead' \cup unread', edited', widgets', saved')
    <3>1. /\ \E m \in {NoRows, saved.mode} :
                widgets' = [widgets EXCEPT !.mode = m, !.active = m]
          /\ edited' = edited \ {"mode"} /\ unread' = unread \ {"mode"}
      BY <1>2, <1>8 DEF ReadModes, ShowModes, ShowNoModes, Read
    <3> QED
      BY <1>2, <1>3, <2>1, <2>2, <3>1 DEF ShowsBut, Widgets
  <2> QED
    BY <1>6, <2>2 DEF ShownInv
<1>9. CASE ReadStates
  <2>1. ToRead = {"core"} /\ ToRead' = {}
    BY <1>1, <1>9 DEF ReadStates, Idle, ToRead
  <2>2. ASSUME ShowsBut(ToRead \cup unread, edited, widgets, saved)
        PROVE  ShowsBut(ToRead' \cup unread', edited', widgets', saved')
    <3>1. CASE widgets' = ShowStates(widgets, saved) /\ Read({"core"})
      <4>1. edited' = edited \ {"core"} /\ unread' = unread \ {"core"}
        BY <3>1 DEF Read
      <4>2. /\ widgets'.core = saved.core /\ widgets'.cap = widgets.cap
            /\ widgets'.capChanged = widgets.capChanged /\ widgets'.level = widgets.level
            /\ widgets'.mode = widgets.mode /\ widgets'.active = widgets.active
            /\ widgets'.fan = widgets.fan /\ widgets'.curve = widgets.curve
            /\ widgets'.firmware = widgets.firmware /\ widgets'.clocks = widgets.clocks
            /\ widgets'.clocksChanged = widgets.clocksChanged
        BY <1>2, <3>1 DEF ShowStates, ShowRows, Widgets
      <4> QED
        BY <1>3, <2>1, <2>2, <4>1, <4>2 DEF ShowsBut
    <3>2. CASE unread' = unread \cup {"core"} /\ UNCHANGED <<widgets, edited>>
      BY <1>3, <2>1, <2>2, <3>2 DEF ShowsBut
    <3> QED
      BY <1>9, <3>1, <3>2 DEF ReadStates, StatesAreRead
  <2> QED
    BY <1>6, <2>2 DEF ShownInv
<1> QED
  BY <1>4, <1>5, <1>7, <1>8, <1>9 DEF Reload

LEMMA ShownStep ==
  ASSUME AppTypes, PendingInv, OwnerInv, ShownInv, Next
  PROVE  ShownInv'
<1> USE DEF AppTypes
<1>1. \A at, step : Goto(at, step) => handler'.at = at
  BY DEF Goto
<1>2. ASSUME handler'.at \in {"set", "confirm", "end", "stats"}
      PROVE  ShownInv'
  <2>1. ToRead' = Groups
    BY <1>2 DEF ToRead
  <2>2. ShowsBut(Groups \cup unread', edited', widgets', saved')
    BY DEF ShowsBut, Groups
  <2> QED
    BY <2>1, <2>2 DEF ShownInv
<1>3. ASSUME UNCHANGED <<saved, widgets, edited, unread, dialogs>>,
             Contains(queue, "reload") => Contains(queue', "reload"),
             UNCHANGED handler \/ {handler.at, handler'.at} \subseteq {"idle", "reset", "confirmReset"}
      PROVE  ShownInv'
  <2>1. ToRead' = ToRead /\ (~Reloading => ~Reloading')
    BY <1>3 DEF ToRead, Reloading
  <2>2. Ahead => Ahead'
    BY <1>3, AheadStays
  <2> QED
    BY <1>3, <2>1, <2>2 DEF ShownInv
<1>4. ASSUME NEW m \in Message, Send(m)
      PROVE  Contains(queue, "reload") => Contains(queue', "reload")
  BY <1>4, MessagesSent
<1>5. ASSUME NEW m, m # "reload", Take(m)
      PROVE  (Contains(queue, "reload") => Contains(queue', "reload")) /\ handler.at = "idle"
  BY <1>5, MessagesTaken
<1>6. ASSUME Send("reload")
      PROVE  ShownInv'
  BY <1>6, AheadStays DEF ShownInv
<1>7. CASE Edit
  <2>1. UNCHANGED <<saved, handler, unread, dialogs>> /\ ToRead' = ToRead
    BY <1>7 DEF Edit, daemon, ToRead
  <2>2. Contains(queue, "reload") => Contains(queue', "reload")
    BY <1>4, <1>7 DEF Edit, EditCap, EditClocks, EditLevel, EditStates, EditMode, EditFanMode,
       EditFirmware, MovePoint, ReplacePoints, ChangeOc, ChangeFan, Message
  <2>3. \A u : ShowsBut(u, edited, widgets, saved) => ShowsBut(u, edited', widgets', saved)
    BY <1>7, ShownByEdit
  <2> QED
    BY <2>1, <2>2, <2>3, AheadStays DEF ShownInv, Reloading
<1>8. CASE ClickApply \/ ClickRevert \/ ClickResetClocks \/ ClickResetPmfw
  BY <1>3, <1>4, <1>8 DEF ClickApply, ClickRevert, ClickResetClocks, ClickResetPmfw, Click,
     daemon, page, ghosts, Message
<1>9. CASE Handle
  <2>1. CASE SettingsChanged
    BY <1>3, <1>5, <2>1 DEF SettingsChanged, daemon, ghosts
  <2>2. CASE ApplyChanges \/ ReloadData
    BY <1>1, <1>2, <2>2 DEF ApplyChanges, ReloadData
  <2>3. CASE BeginReset
    <3>1. handler.at = "idle" /\ handler'.at = "reset"
      BY <1>1, <1>5, <2>3 DEF BeginReset
    <3>2. Contains(queue, "reload") => Contains(queue', "reload")
      BY <1>5, <2>3 DEF BeginReset
    <3> QED
      BY <1>3, <2>3, <3>1, <3>2 DEF BeginReset, daemon, page, ghosts
  <2> QED
    BY <1>9, <2>1, <2>2, <2>3 DEF Handle
<1>10. CASE Apply
  <2>1. Proceed => handler'.at \in {"set", "end"}
    BY StepOfApply
  <2> QED
    BY <1>1, <1>2, <1>6, <1>10, <2>1 DEF Apply, Skip, Collect, Fail, SetGroup, ConfirmGroup,
       SetClocks, EndApply, Leave
<1>11. CASE SendReset
  <2>1. handler.at = "reset" /\ handler'.at \in {"idle", "confirmReset"}
    BY <1>1, <1>11 DEF SendReset, Idle
  <2>2. UNCHANGED <<saved, widgets, edited, unread, dialogs, queue>>
    BY <1>11 DEF SendReset, Refuse, Accept, daemon, page, ghosts
  <2> QED
    BY <1>3, <2>1, <2>2
<1>12. CASE ConfirmReset
  <2>1. CASE Send("reload")
    BY <1>6, <2>1
  <2>2. CASE NothingPending /\ UNCHANGED queue
    <3>1. handler.at = "confirmReset" /\ handler'.at = "idle"
      BY <1>1, <1>12 DEF ConfirmReset, Idle
    <3>2. UNCHANGED <<saved, widgets, edited, unread, dialogs, queue>>
      BY <1>12, <2>2 DEF ConfirmReset, NothingPending, daemon, page, ghosts
    <3> QED
      BY <1>3, <3>1, <3>2
  <2> QED
    BY <1>12, <2>1, <2>2 DEF ConfirmReset
<1>13. CASE Reload
  BY <1>13, ShownByReload
<1>14. CASE Expire
  BY <1>3, <1>14 DEF Expire, Revert, page, ghosts
<1>15. ASSUME UNCHANGED <<saved, page, queue, handler, ghosts>>,
              (\E d \in Dialog : dialogs[d].at # "closed") => \E d \in Dialog : dialogs'[d].at # "closed"
       PROVE  ShownInv'
  BY <1>15 DEF ShownInv, Ahead, ToRead, Reloading, page, ghosts
<1>16. CASE Second
  <2>1. ASSUME NEW d \in Dialog, dialogs[d].at # "closed"
        PROVE  dialogs'[d].at # "closed"
    <3>1. dialogs'[d] = IF dialogs[d].at = "open" THEN [dialogs[d] EXCEPT !.owed = 1] ELSE dialogs[d]
      BY <1>16 DEF Second
    <3>2. dialogs[d] \in Opened
      OBVIOUS
    <3> QED
      BY <2>1, <3>1, <3>2 DEF Opened
  <2> QED
    BY <1>15, <1>16, <2>1 DEF Second
<1>17. ASSUME NEW d \in Dialog, Countdown(d)
       PROVE  ShownInv'
  <2>1. CASE Send("reload")
    BY <1>6, <2>1
  <2>2. CASE dialogs' = [dialogs EXCEPT ![d].delay = @ - 1, ![d].owed = 0] /\ UNCHANGED queue
    <3>1. dialogs[d] \in Opened
      OBVIOUS
    <3>2. dialogs'[d].at = dialogs[d].at
      BY <2>2, <3>1 DEF Opened
    <3>3. dialogs'[d].at # "closed"
      BY <1>17, <3>2 DEF Countdown
    <3> QED
      BY <1>15, <1>17, <2>2, <3>3 DEF Countdown, daemon
  <2> QED
    BY <1>17, <2>1, <2>2 DEF Countdown
<1>18. ASSUME NEW d \in Dialog, Answer(d, "yes") \/ Answer(d, "no")
       PROVE  ShownInv'
  <2>1. dialogs'[d].at # "closed"
    BY <1>18 DEF Answer
  <2> QED
    BY <1>15, <1>18, <2>1 DEF Answer, daemon
<1>19. ASSUME NEW d \in Dialog, SendAnswer(d)
       PROVE  ShownInv'
  BY <1>6, <1>19 DEF SendAnswer
<1> QED
  BY <1>7, <1>8, <1>9, <1>10, <1>11, <1>12, <1>13, <1>14, <1>16, <1>17, <1>18, <1>19 DEF Next, Work

(* Whenever the user interface has come to rest, its pages show what the       *)
(* daemon has saved, but for what the user has changed and what the last       *)
(* reload could not read: everything if it got no statistics, the power states *)
(* if these failed; clocks and modes that could not be read have no rows       *)
(* (update_gpu_data, apply_settings, ask_settings_confirmation).               *)
THEOREM PagesShowWhatIsSaved == Spec => []ShownIsSaved
<1> DEFINE Inv == ProgressInv /\ OwnerInv /\ ShownInv
<1>1. Init => Inv
  <2>1. ASSUME Init
        PROVE  ShowsBut(ToRead \cup unread, edited, widgets, saved) /\ pending = None
    BY <2>1 DEF Init, ShowsBut, FirstShown, Defaults
  <2> QED
    BY <2>1, ProgressHolds DEF OwnerInv, ShownInv
<1>2. Inv /\ [Next]_vars => Inv'
  <2>1. ASSUME Inv, UNCHANGED vars
        PROVE  OwnerInv' /\ ShownInv'
    BY <2>1 DEF OwnerInv, Asks, ShownInv, Ahead, ToRead, Reloading, vars, daemon, page, ghosts
  <2> QED
    BY <2>1, ProgressHolds, OwnerStep, ShownStep DEF ProgressInv
<1>3. Inv => ShownIsSaved
  <2>1. SUFFICES ASSUME Inv, Quiet
                 PROVE  ShownIsSaved
    BY DEF ShownIsSaved
  <2>2. ShowsBut(unread, edited, widgets, saved)
    <3>1. ~Ahead /\ ToRead = {}
      BY <2>1, NothingInEmpty, ToReadPerStep DEF Quiet, Ahead
    <3> QED
      BY <2>1, <3>1 DEF ShownInv
  <2> QED
    BY <2>2 DEF ShowsBut, ShownIsSaved
<1> QED
  BY <1>1, <1>2, <1>3, PTL DEF Spec
=============================================================================
