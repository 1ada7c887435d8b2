--------------------------- MODULE MCAlertOutbox ---------------------------
(* Two alerts, and pages of one.                                             *)
EXTENDS AlertOutbox
MCTwoAlerts == {1, 2}
=============================================================================
