------------------------------- MODULE MCVerify -------------------------------
(***************************************************************************)
(* Instances of Verify for TLC.                                            *)
(***************************************************************************)
EXTENDS VerifyProperties

\* `check` is mapped to the unit, `other` to another one, `judge` needs a person.
AllCriteria == {"check", "other", "judge"}
AutomatedCriteria == {"check", "other"}
UnitCriteria == {{"check"}, {"check", "judge"}}

=============================================================================
