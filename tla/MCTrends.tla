------------------------------ MODULE MCTrends ------------------------------
(***************************************************************************)
(* Short histories of four values, long ones of two, which is where a      *)
(* single point gets beyond three sigma, staircases, which drift without   *)
(* six points in a row, and straight lines up and down.                    *)
(***************************************************************************)
EXTENDS TrendsProperties

Words == 0 .. 18

Over(y, set) == ToSet(y) \subseteq set
Staircase(y) == \A k \in DOMAIN y : IF k = 1 THEN y[k] = 0 ELSE y[k] - y[k-1] \in 0 .. 1

Small(y) ==
    \/ Over(y, 0 .. 3) /\ Len(y) <= 7
    \/ Over(y, 0 .. 1) /\ Len(y) <= 12
    \/ Staircase(y) /\ Len(y) <= 10
    \/ Straight(y) /\ Len(y) <= 9 /\ (Len(y) > 1 => Magnitude(y[2] - y[1]) <= 2)

AnyLimit == 0 .. 20
==============================================================================
