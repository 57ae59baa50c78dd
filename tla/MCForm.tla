------------------------------- MODULE MCForm -------------------------------
(***************************************************************************)
(* Form for TLC: a required text and a number whose custom rule looks at   *)
(* the text, so that its error depends on another field's value.  The text *)
(* has a custom rule too, which answers with an empty string.              *)
(***************************************************************************)
EXTENDS Form, TLC

CONSTANTS name, age, low, high

MCIds == {name, age}
MCValues == {Empty, low, high}
MCDefault(sId) == IF sId = age THEN low ELSE Empty
MCBreaks(rule, sId, values) ==
    \/ rule = "minLength" /\ sId = name /\ values[sId] = low
    \/ rule = "max" /\ sId = age /\ values[sId] = high
    \/ rule = "custom" /\ sId = age /\ values[name] = high
    \/ rule = "custom" /\ sId = name /\ values[age] = high
MCSilent(sId, values) == sId = name
=============================================================================
