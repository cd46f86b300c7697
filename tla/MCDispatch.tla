------------------------------ MODULE MCDispatch ------------------------------
(***************************************************************************)
(* Instances of Dispatch for TLC.                                          *)
(***************************************************************************)
EXTENDS DispatchProperties

\* A unit whose creation counted as a version, and one whose did not.
FromZeroOrOne == {0, 1}
FromOne == {1}

=============================================================================
