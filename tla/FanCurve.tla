------------------------------ MODULE FanCurve ------------------------------
(* Fan curves (lact-daemon/src/server/gpu_controller/fan_control.rs): a map   *)
(* from temperatures in whole degrees to fan speeds, here in hundredths.      *)
EXTENDS Integers

Byte == 0..255

(* BTreeMap<i32, f32>; an empty map and speeds above 1 occur: set_fan_control  *)
(* checks the speeds, but the file is not checked. The least i32 is left out,  *)
(* because TLC cannot read it.                                                 *)
MaxInt == 2147483647
Int32 == -MaxInt..MaxInt
IsCurve(curve) ==
    curve = [p \in DOMAIN curve |-> curve[p]] /\ DOMAIN curve \subseteq Int32
    /\ \A p \in DOMAIN curve : curve[p] \in Int

(* Slip: a conversion that does not saturate. *)
Slip_NoSaturation(n) == n

(* A float is converted to u8: truncated, and kept within the type. *)
AsByte(n) == IF n < 0 THEN 0 ELSE IF n > 255 THEN 255 ELSE n

(* The points below a temperature (range(..current)) and the others. *)
Below(curve, t) == {p \in DOMAIN curve : p < t}
From(curve, t) == {p \in DOMAIN curve : p >= t}

First(points) == CHOOSE p \in points : \A q \in points : p <= q
Last(points) == CHOOSE p \in points : \A q \in points : q <= p

(* The speed of a point of the curve, as a PWM value. *)
PwmOf(speed) == AsByte((255 * speed) \div 100)

(* The value between two points. It is computed in f32: a result that should *)
(* be a whole number may come out just below it and is then truncated.        *)
Between(curve, lo, hi, t) ==
    LET width == 100 * (hi - lo)
        scaled == 255 * (curve[lo] * (hi - lo) + (curve[hi] - curve[lo]) * (t - lo))
        exact == scaled \div width
    IN  {AsByte(exact)} \cup
        {AsByte(n) : n \in {m \in {exact - 1} :
            curve[lo] # curve[hi] /\ scaled % width = 0}}

(* Slip: the first point below the temperature (next instead of next_back). *)
Slip_FirstBelow(curve, t, beyondCritical) ==
    IF beyondCritical THEN {255}
    ELSE IF Below(curve, t) = {} /\ From(curve, t) = {} THEN {}
    ELSE IF Below(curve, t) = {} THEN {PwmOf(curve[First(From(curve, t))])}
    ELSE IF From(curve, t) = {} THEN {PwmOf(curve[First(Below(curve, t))])}
    ELSE Between(curve, First(Below(curve, t)), First(From(curve, t)), t)

(* pwm_at_temp: the results it may have; none if it panics, which it does for *)
(* an empty curve. Beyond the critical temperature the fan runs at full speed. *)
PwmAt(curve, t, beyondCritical) ==
    IF beyondCritical THEN {255}
    ELSE IF Below(curve, t) = {} /\ From(curve, t) = {} THEN {}
    ELSE IF Below(curve, t) = {} THEN {PwmOf(curve[First(From(curve, t))])}
    ELSE IF From(curve, t) = {} THEN {PwmOf(curve[Last(Below(curve, t))])}
    ELSE Between(curve, Last(Below(curve, t)), First(From(curve, t)), t)

(* A curve along which the speed does not fall. *)
Rising(curve) == \A p, q \in DOMAIN curve : p <= q => curve[p] <= curve[q]
=============================================================================
