----------------------------- MODULE MCFrontDoor -----------------------------
(***************************************************************************)
(* Instances of FrontDoor for TLC.                                         *)
(***************************************************************************)
EXTENDS FrontDoorProperties

CONSTANT impl

\* The second unit reuses the key of the first.
TwoUnits == {"u1", "u2"}
SharedKey == [u \in TwoUnits |-> impl]
OneUnit == {"u1"}
OneKey == [u \in OneUnit |-> impl]
FewStates == {"draft", "ready", "submitted", "cancelled"}

=============================================================================
