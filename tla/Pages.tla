-------------------------------- MODULE Pages --------------------------------
(* The settings pages of the user interface (oc_page, thermals_page): what a  *)
(* widget shows after the values of the daemon were read, what a change by    *)
(* the user does to it, and which request an apply makes of it. Sliders know  *)
(* whether they were changed (OcAdjustment) and are only sent if they were;   *)
(* the other widgets are always sent.                                         *)
EXTENDS Integers
CONSTANTS
    Value,          \* values of the power cap, the clocks and the points of the fan curve
    DefaultValue,   \* what a GPU without settings has
    PowerState      \* power states of a kind of clock

ASSUME ValueAssumption == DefaultValue \in Value /\ Value \subseteq Nat \ {0}

(* The settings of a GPU in the daemon. No curve is configured if it is 0;     *)
(* firmware: the fan settings of the firmware.                                *)
Settings == [cap : Value, level : {"auto", "manual"}, mode : {0, 1}, fan : BOOLEAN,
             curve : {0} \cup Value, firmware : Value,
             core : SUBSET PowerState, vram : SUBSET PowerState, clocks : Value]
Defaults == [cap |-> DefaultValue, level |-> "auto", mode |-> 0, fan |-> FALSE, curve |-> 0,
             firmware |-> DefaultValue, core |-> PowerState, vram |-> PowerState,
             clocks |-> DefaultValue]

(* The widgets. active: the mode of the table; configurable: the check button *)
(* of the power states. There are no rows if the clocks or the modes could not *)
(* be read.                                                                   *)
NoRows == -1
Widgets == [cap : Value, capChanged : BOOLEAN, level : {"auto", "manual"},
            mode : {0, 1, NoRows}, active : {0, 1, NoRows}, fan : BOOLEAN, curve : Value, firmware : Value,
            configurable : BOOLEAN, core : SUBSET PowerState, vram : SUBSET PowerState,
            clocks : Value \cup {NoRows}, clocksChanged : BOOLEAN]
-----------------------------------------------------------------------------
(* A reload. Fan settings and power states come from the saved configuration, *)
(* the rest from the hardware.                                                *)

ShowCap(w, hardware) == [w EXCEPT !.cap = hardware.cap, !.capChanged = FALSE]

ShowLevel(w, hardware) ==
    [w EXCEPT !.level = hardware.level, !.configurable = @ /\ hardware.level = "manual"]

ShowCurve(w, saved) == IF saved.curve = 0 THEN w ELSE [w EXCEPT !.curve = saved.curve]
ShowFan(w, saved) == [ShowCurve(w, saved) EXCEPT !.fan = saved.fan]
ShowFirmware(w, hardware) == [w EXCEPT !.firmware = hardware.firmware]

ShowStats(w, saved, hardware) ==
    ShowFirmware(ShowFan(ShowLevel(ShowCap(w, hardware), hardware), saved), hardware)

ShowClocks(w, hardware) == [w EXCEPT !.clocks = hardware.clocks, !.clocksChanged = FALSE]

ShowNoClocks(w) == [w EXCEPT !.clocks = NoRows, !.clocksChanged = FALSE]

ShowModes(w, hardware) == [w EXCEPT !.mode = hardware.mode, !.active = hardware.mode]
ShowNoModes(w) == [w EXCEPT !.mode = NoRows, !.active = NoRows]

ShowRows(w, saved) == [w EXCEPT !.core = saved.core, !.vram = saved.vram]
ShowStates(w, saved) ==
    [ShowRows(w, saved) EXCEPT
        !.configurable = @ \/ saved.core # PowerState \/ saved.vram # PowerState]

FirstShown == [cap |-> DefaultValue, capChanged |-> FALSE, level |-> "auto", mode |-> 0,
               active |-> 0, fan |-> FALSE, curve |-> DefaultValue, firmware |-> DefaultValue,
               configurable |-> FALSE, core |-> PowerState, vram |-> PowerState,
               clocks |-> DefaultValue, clocksChanged |-> FALSE]

ASSUME PageStarts == FirstShown \in Widgets
-----------------------------------------------------------------------------
(* A change by the user.                                                      *)
ChangeCap(w, v) == [w EXCEPT !.cap = v, !.capChanged = TRUE]
ChangeClocks(w, v) == [w EXCEPT !.clocks = v, !.clocksChanged = TRUE]
ChangeLevel(w, l) == [w EXCEPT !.level = l, !.configurable = @ /\ l = "manual"]
-----------------------------------------------------------------------------
(* An apply. The steps before the clocks, in the order of apply_settings;     *)
(* nothing is sent for a cap that was not changed.                            *)
Steps == <<"cap", "nomode", "level", "mode", "fan", "collect", "core", "vram", "clocks">>

CapWanted(w) == IF w.capChanged THEN w.cap ELSE 0
ModeWanted(w) == IF w.level = "manual" /\ w.mode # NoRows THEN w.mode ELSE 0
ClocksWanted(w) == IF w.clocksChanged /\ w.clocks # NoRows THEN w.clocks ELSE 0
StatesWanted(w, rows) == IF w.configurable /\ rows # {} THEN rows ELSE PowerState
Collected(w) == [clocks |-> ClocksWanted(w),
                 core |-> StatesWanted(w, w.core), vram |-> StatesWanted(w, w.vram)]
NothingCollected == [clocks |-> 0, core |-> {}, vram |-> {}]

Sends(step, w, c) ==
    (step = "cap" => CapWanted(w) # 0) /\ (step = "clocks" => c.clocks # 0)

(* A curve is only sent with the curve mode; the firmware settings always are. *)
FanRequested(w, s) == [s EXCEPT !.fan = w.fan, !.curve = IF w.fan THEN w.curve ELSE @,
                                !.firmware = w.firmware]

(* set_performance_level forgets the power states unless the level is manual.  *)
LevelRequested(w, s) ==
    IF w.level = "manual" THEN [s EXCEPT !.level = w.level]
    ELSE [s EXCEPT !.level = w.level, !.core = PowerState, !.vram = PowerState]

(* The settings s after the request of a step.                                *)
Requested(step, w, c, s) ==
    CASE step = "cap" -> [s EXCEPT !.cap = w.cap]
      [] step = "nomode" -> [s EXCEPT !.mode = 0]
      [] step = "level" -> LevelRequested(w, s)
      [] step = "mode" -> [s EXCEPT !.mode = ModeWanted(w)]
      [] step = "fan" -> FanRequested(w, s)
      [] step = "core" -> [s EXCEPT !.core = c.core]
      [] step = "vram" -> [s EXCEPT !.vram = c.vram]
      [] step = "clocks" -> [s EXCEPT !.clocks = c.clocks]
=============================================================================
