------------------------------ MODULE FanOwner ------------------------------
(* What the fan control of a controller promises: the fans are written by one *)
(* curve at a time, and by no other setting while that curve is in charge.    *)
EXTENDS Integers
CONSTANTS
    Curves,     \* the fan curves
    None,       \* no curve
    Fan,        \* the fans of the GPU
    Output,     \* the speeds each curve may set
    Fixed       \* the speeds that static settings may set
VARIABLES
    driver,     \* the curve in charge, or None
    pwm         \* the speed last set for each fan
vars == <<driver, pwm>>

Init == driver = None /\ pwm \in [Fan -> Fixed]

(* A curve takes over when no other one is in charge. *)
TakeOver == driver = None /\ driver' \in Curves /\ UNCHANGED pwm

(* The curve in charge sets any of the fans to one of its speeds. *)
Drive ==
    /\ driver # None
    /\ \A f \in Fan : pwm'[f] \in Output[driver] \cup {pwm[f]}
    /\ UNCHANGED driver

(* Curves are told to stop, or give up, before anything else happens. *)
Resign == driver # None /\ driver' = None /\ UNCHANGED pwm

(* A static setting. *)
Fix ==
    /\ driver = None
    /\ \A f \in Fan : pwm'[f] \in Fixed \cup {pwm[f]}
    /\ UNCHANGED driver

NextStep == TakeOver \/ Drive \/ Resign \/ Fix
Spec == Init /\ [][NextStep]_vars
=============================================================================
