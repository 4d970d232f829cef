------------------------------- MODULE Mirror -------------------------------
(***************************************************************************)
(* What the frame stream promises: the renderer is handed whole captures   *)
(* of the host's screen, each one the host published, in the order it      *)
(* published them.  A capture that was published is shown unless the       *)
(* session ends first.                                                     *)
(***************************************************************************)
EXTENDS Sequences

CONSTANT Images

VARIABLES screen,  \* the capture the renderer shows, <<>> before the first
          coming   \* the captures published and not yet shown

mirrorVars == <<screen, coming>>

Init == screen = <<>> /\ coming = <<>>

Publish == \E image \in Images : coming' = Append(coming, image) /\ UNCHANGED screen

Show == coming # <<>> /\ screen' = Head(coming) /\ coming' = Tail(coming)

\* The session ends: what was not shown is lost, the last screen stays.
Forget == coming' = <<>> /\ UNCHANGED screen

Next == Publish \/ Show \/ Forget

Safety == Init /\ [][Next]_mirrorVars

Spec == Safety /\ WF_mirrorVars(Show)
==============================================================================
