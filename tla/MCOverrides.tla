---------------------------- MODULE MCOverrides ----------------------------
(* A small instance of Overrides. *)
EXTENDS Overrides

CONSTANTS a, b

\* One label is switched on and off; the other one is switched on, to see that
\* its override survives what happens to the first.
TwoLabels    == {a, b}
SomeSettings == {<<a, "on">>, <<a, "off">>, <<b, "on">>}
=============================================================================
