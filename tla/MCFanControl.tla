---------------------------- MODULE MCFanControl ----------------------------
(* Curves for TLC: a rising one of two points, one point, none.                *)
EXTENDS FanControl, TLC
MCRising == (49 :> 20) @@ (60 :> 100)
MCFlat == 50 :> 140
MCEmpty == [p \in {} |-> 0]
MCCurves == {MCRising, MCFlat, MCEmpty}
MCTemps == {48, 50, 95}
=============================================================================
