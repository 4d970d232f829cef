---------------------------- MODULE MCClientRun ----------------------------
(* The client process in both builds, with and without a connect timeout. *)
EXTENDS ClientRun

BothBuilds == {"fyne", "headless"}
Headless == {"headless"}
WithTimeout == {TRUE}
==============================================================================
