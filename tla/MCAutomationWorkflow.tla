------------------------ MODULE MCAutomationWorkflow ------------------------
(* Model values for AutomationWorkflow.                                    *)
EXTENDS AutomationWorkflow, TLC

CONSTANTS first, second

Two == {first, second}
AllKinds == {"stop", "signal", "unawaited", "forced", "restart"}
Alike == Permutations(Two)
=============================================================================
