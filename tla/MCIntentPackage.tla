--------------------------- MODULE MCIntentPackage ---------------------------
(***************************************************************************)
(* Instances of IntentPackage for TLC.                                     *)
(***************************************************************************)
EXTENDS IntentPackageProperties, TLC

\* The documented use of `transition`: approve and supersede have commands of
\* their own, which operators do not go around.
OperatorTargets == STATES \ {"approved", "superseded"}

\* A short path past approval, for the runs with two processes.
ShortTargets == {"ready_for_review", "executable"}

\* The command line accepts any state.
AnyTargets == STATES

Symmetric == Permutations(Procs)

=============================================================================
