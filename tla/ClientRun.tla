----------------------------- MODULE ClientRun -----------------------------
(***************************************************************************)
(* The client process: the loop that connects and reconnects, and the      *)
(* goroutines that start and stop around it.                               *)
(*                                                                         *)
(*   internal/client/session.go          Session.Run                       *)
(*   cmd/vdclient/lifecycle.go           runGUILifecycle                   *)
(*   cmd/vdclient/renderer_host*.go      runHost of the two builds         *)
(*   internal/client/renderer_fyne.go    FyneRenderer.Run, Quit            *)
(*   cmd/vdclient/main.go                run: the signal context           *)
(*                                                                         *)
(* The fyne build runs the window on the main goroutine, the session on    *)
(* another and a watcher between them; the headless build runs the session *)
(* on the main goroutine.  When main returns the process is over and no    *)
(* goroutine takes another step.  attempt counts to one: the code only     *)
(* asks whether it is zero.  Timers fire at any time.                      *)
(***************************************************************************)
EXTENDS Naturals

CONSTANTS
    Builds,     \* the builds: "fyne", "headless"
    Limited     \* whether Config.ConnectTimeout is positive: a set of Booleans

ASSUME ClientRunAssumption ==
    /\ Builds \subseteq {"fyne", "headless"} /\ Builds # {}
    /\ Limited \subseteq BOOLEAN /\ Limited # {}

VARIABLES
    build, limited, \* what is run, and with a ConnectTimeout or without
    interrupted,    \* the signal context is done
    cancelled,      \* cancelSession was called
    runErr,         \* runCtx.Err(): "none", "canceled" or "deadline"
    run,            \* where Session.Run stands
    attempt,        \* attempt, 0 or 1
    result,         \* what Run returned
    wasUp,          \* history: a session was Active
    main,           \* where the main goroutine stands
    watcher,        \* the watcher of runGUILifecycle: "waiting", "quitting", "done"
    quit,           \* the first call of FyneRenderer.Quit; closed is quit # "none"
    caller          \* who made that call: "user", "watcher" or "nobody"

runVars == <<runErr, run, attempt, result, wasUp>>
guiVars == <<main, watcher, quit, caller>>
vars == <<build, limited, interrupted, cancelled, runVars, guiVars>>

RunStates == {"top", "dialing", "establishing", "active", "waiting", "returned"}
\* "drained" is app.Run returned, "exited" that exited says so.
MainStates == {"headless", "starting", "loop", "drained", "exited", "stopping", "joining",
               "returned"}
QuitStates == {"none", "releasing", "releasingLate", "scheduling", "scheduled", "skipped",
               "late"}

\* The session's context.
CtxDone == interrupted \/ cancelled

Exited == main \in {"exited", "stopping", "joining", "returned"}
Drained == main = "drained" \/ Exited
UserInQuit == caller = "user" /\ quit \in {"releasing", "releasingLate", "scheduling"}
Alive == main # "returned"

------------------------------------------------------------------------------
\* Session.Run

Return(what) == run' = "returned" /\ result' = what

\* Mistake: without a timeout, the first lost connection is the last.
TopOnce ==
    /\ Alive /\ run = "top"
    /\ IF runErr # "none"
       THEN Return(IF runErr = "canceled" THEN "canceled"
                   ELSE IF attempt = 0 THEN "connect timeout" ELSE "deadline")
       ELSE IF attempt > 0 /\ ~limited THEN Return("lost")
       ELSE run' = "dialing" /\ UNCHANGED result
    /\ UNCHANGED <<build, limited, interrupted, cancelled, runErr, attempt, wasUp, guiVars>>

\* Mistake: the loop looks at ctx.
TopOnCtx ==
    /\ Alive /\ run = "top"
    /\ IF CtxDone THEN Return("canceled") ELSE run' = "dialing" /\ UNCHANGED result
    /\ UNCHANGED <<build, limited, interrupted, cancelled, runErr, attempt, wasUp, guiVars>>

\* The top of the loop looks at runCtx, then dials.
Top ==
    /\ Alive /\ run = "top"
    /\ IF runErr # "none"
       THEN Return(IF runErr = "canceled" THEN "canceled"
                   ELSE IF attempt = 0 THEN "connect timeout" ELSE "deadline")
       ELSE run' = "dialing" /\ UNCHANGED result
    /\ UNCHANGED <<build, limited, interrupted, cancelled, runErr, attempt, wasUp, guiVars>>

\* What Run does with an error of Dial or ServeConn.
Failed ==
    IF CtxDone THEN Return("canceled") /\ UNCHANGED attempt
    ELSE IF attempt = 0 /\ runErr # "none" THEN Return("connect timeout") /\ UNCHANGED attempt
    ELSE run' = "waiting" /\ attempt' = 1 /\ UNCHANGED result

\* Dial(runCtx)
Dialed ==
    /\ Alive /\ run = "dialing"
    /\ run' = "establishing"
    /\ UNCHANGED <<build, limited, interrupted, cancelled, runErr, attempt, result, wasUp, guiVars>>

DialFails ==
    /\ Alive /\ run = "dialing"
    /\ Failed
    /\ UNCHANGED <<build, limited, interrupted, cancelled, runErr, wasUp, guiVars>>

\* ServeConn(ctx): established, or lost before that or after it.
Established ==
    /\ Alive /\ run = "establishing"
    /\ run' = "active" /\ wasUp' = TRUE
    /\ UNCHANGED <<build, limited, interrupted, cancelled, runErr, attempt, result, guiVars>>

ServeConnFails ==
    /\ Alive /\ run \in {"establishing", "active"}
    /\ Failed
    /\ UNCHANGED <<build, limited, interrupted, cancelled, runErr, wasUp, guiVars>>

\* CLOSE is the end of the loop.
ServerCloses ==
    /\ Alive /\ run = "active"
    /\ Return(IF CtxDone THEN "canceled" ELSE "closed")
    /\ UNCHANGED <<build, limited, interrupted, cancelled, runErr, attempt, wasUp, guiVars>>

\* The select between ctx.Done and the reconnect timer.
WaitEnds ==
    /\ Alive /\ run = "waiting"
    /\ \/ run' = "top" /\ UNCHANGED result
       \/ CtxDone /\ Return("canceled")
    /\ UNCHANGED <<build, limited, interrupted, cancelled, runErr, attempt, wasUp, guiVars>>

\* The deadline of runCtx, with or without a connection.
ConnectTimeoutElapses ==
    /\ Alive /\ limited /\ runErr = "none" /\ run # "returned"
    /\ runErr' = "deadline"
    /\ UNCHANGED <<build, limited, interrupted, cancelled, run, attempt, result, wasUp, guiVars>>

Session ==
    \/ Top \/ Dialed \/ DialFails \/ Established \/ ServeConnFails \/ ServerCloses
    \/ WaitEnds \/ ConnectTimeoutElapses

------------------------------------------------------------------------------
\* The contexts.  runCtx keeps the first reason.

Canceled == runErr' = IF runErr = "none" THEN "canceled" ELSE runErr

\* SIGINT or SIGTERM
Interrupt ==
    /\ Alive /\ ~interrupted /\ interrupted' = TRUE
    /\ Canceled
    /\ UNCHANGED <<build, limited, cancelled, run, attempt, result, wasUp, guiVars>>

------------------------------------------------------------------------------
\* FyneRenderer.Quit.  Every call but the first returns at once.

\* The first takes note of exited with closed, and releases the input.
BeginQuit(c) ==
    /\ quit' = IF quit # "none" THEN quit
               ELSE IF Exited THEN "releasingLate" ELSE "releasing"
    /\ caller' = IF quit # "none" THEN caller ELSE c

\* input.Disconnect has returned.
Released ==
    /\ Alive /\ quit \in {"releasing", "releasingLate"}
    /\ quit' = IF quit = "releasing" THEN "scheduling" ELSE "skipped"
    /\ UNCHANGED <<build, limited, interrupted, cancelled, runVars, main, watcher, caller>>

\* fyne.Do(app.Quit): late when the loop has ended since.
ScheduleQuit ==
    /\ Alive /\ quit = "scheduling"
    /\ quit' = IF Drained THEN "late" ELSE "scheduled"
    /\ UNCHANGED <<build, limited, interrupted, cancelled, runVars, main, watcher, caller>>

\* The close intercept calls Quit on the main goroutine.
UserCloses ==
    /\ main = "loop" /\ ~UserInQuit
    /\ BeginQuit("user")
    /\ UNCHANGED <<build, limited, interrupted, cancelled, runVars, main, watcher>>

------------------------------------------------------------------------------
\* runGUILifecycle

\* The event loop begins; what was scheduled before is in its queue.
LoopBegins ==
    /\ main = "starting" /\ main' = "loop"
    /\ UNCHANGED <<build, limited, interrupted, cancelled, runVars, watcher, quit, caller>>

\* The loop serves the scheduled app.Quit, or Fyne ends it for reasons of its own.
LoopServesQuit ==
    /\ main = "loop" /\ quit = "scheduled"
    /\ main' = "drained"
    /\ UNCHANGED <<build, limited, interrupted, cancelled, runVars, watcher, quit, caller>>

FyneEndsLoop ==
    /\ main = "loop" /\ ~UserInQuit
    /\ main' = "drained"
    /\ UNCHANGED <<build, limited, interrupted, cancelled, runVars, watcher, quit, caller>>

\* FyneRenderer.Run sets exited and hostRun returns.
RunReturns ==
    /\ main = "drained" /\ main' = "exited"
    /\ UNCHANGED <<build, limited, interrupted, cancelled, runVars, watcher, quit, caller>>

\* close(uiExited)
StopWatcher ==
    /\ main = "exited" /\ main' = "stopping"
    /\ UNCHANGED <<build, limited, interrupted, cancelled, runVars, watcher, quit, caller>>

CancelSession ==
    /\ main = "stopping" /\ main' = "joining"
    /\ cancelled' = TRUE
    /\ Canceled
    /\ UNCHANGED <<build, limited, interrupted, run, attempt, result, wasUp, watcher, quit, caller>>

\* wg.Wait and <-watcherDone
Join ==
    /\ main = "joining" /\ run = "returned" /\ watcher = "done"
    /\ main' = "returned"
    /\ UNCHANGED <<build, limited, interrupted, cancelled, runVars, watcher, quit, caller>>

\* Mistake: a session that ends by itself leaves the window open.
WatcherWakesOnSignal ==
    /\ Alive /\ watcher = "waiting"
    /\ \/ interrupted /\ watcher' = "quitting" /\ BeginQuit("watcher")
       \/ main \in {"stopping", "joining"} /\ watcher' = "done" /\ UNCHANGED <<quit, caller>>
    /\ UNCHANGED <<build, limited, interrupted, cancelled, runVars, main>>

\* The watcher's select: the signal, the session's end, or uiExited.
WatcherWakes ==
    /\ Alive /\ watcher = "waiting"
    /\ \/ (interrupted \/ run = "returned") /\ watcher' = "quitting" /\ BeginQuit("watcher")
       \/ main \in {"stopping", "joining"} /\ watcher' = "done" /\ UNCHANGED <<quit, caller>>
    /\ UNCHANGED <<build, limited, interrupted, cancelled, runVars, main>>

\* hostQuit returns.
WatcherDone ==
    /\ Alive /\ watcher = "quitting"
    /\ caller = "watcher" => quit \in {"scheduled", "skipped", "late"}
    /\ watcher' = "done"
    /\ UNCHANGED <<build, limited, interrupted, cancelled, runVars, main, quit, caller>>

\* The headless runHost returns with the session.
HeadlessReturns ==
    /\ main = "headless" /\ run = "returned"
    /\ main' = "returned"
    /\ UNCHANGED <<build, limited, interrupted, cancelled, runVars, watcher, quit, caller>>

Quitting == Released \/ ScheduleQuit

Window ==
    LoopBegins \/ LoopServesQuit \/ RunReturns \/ StopWatcher \/ CancelSession \/ Join

Watcher == WatcherWakes \/ WatcherDone

------------------------------------------------------------------------------

Init ==
    /\ build \in Builds /\ limited \in Limited
    /\ interrupted = FALSE /\ cancelled = FALSE /\ runErr = "none"
    /\ run = "top" /\ attempt = 0 /\ result = "none" /\ wasUp = FALSE
    /\ main = IF build = "fyne" THEN "starting" ELSE "headless"
    /\ watcher = IF build = "fyne" THEN "waiting" ELSE "done"
    /\ quit = "none" /\ caller = "nobody"

Next ==
    \/ Session
    \/ Interrupt
    \/ UserCloses
    \/ Quitting
    \/ Window
    \/ FyneEndsLoop
    \/ Watcher
    \/ HeadlessReturns

\* Goroutines run and the timers fire.  A Dial whose context is done returns,
\* every step of the establishment has its deadline, and a Receive whose
\* context is done returns; nothing else ends a Dial or a session.
Fairness ==
    /\ WF_vars(Top)
    /\ WF_vars(WaitEnds)
    /\ WF_vars(ConnectTimeoutElapses)
    /\ WF_vars(runErr # "none" /\ DialFails)
    /\ WF_vars(Established \/ (run = "establishing" /\ ServeConnFails))
    /\ WF_vars(CtxDone /\ ServeConnFails)
    /\ WF_vars(Quitting)
    /\ WF_vars(Window)
    /\ WF_vars(Watcher)
    /\ WF_vars(HeadlessReturns)

Spec == Init /\ [][Next]_vars /\ Fairness

------------------------------------------------------------------------------

\* Every variable keeps its type; Run has a result when it has returned, and
\* only main, past the loop, cancels the session.
TypeOK ==
    /\ build \in Builds /\ limited \in Limited
    /\ {interrupted, cancelled, wasUp} \subseteq BOOLEAN
    /\ runErr \in {"none", "canceled", "deadline"}
    /\ run \in RunStates /\ attempt \in {0, 1}
    /\ result \in {"none", "closed", "canceled", "deadline", "connect timeout"}
    /\ (run = "returned") = (result # "none")
    /\ main \in MainStates /\ cancelled = (build = "fyne" /\ main \in {"joining", "returned"})
    /\ watcher \in {"waiting", "quitting", "done"}
    /\ quit \in QuitStates /\ caller \in {"nobody", "user", "watcher"}
    /\ (quit = "none") = (caller = "nobody")

\* Closing the window, an interrupt and the end of the session each bring down
\* the whole process, and main returns only when the session and the watcher
\* have: "neither the UI loop nor the session goroutine is left behind"
\* (runGUILifecycle).
Stopping == interrupted \/ run = "returned" \/ quit # "none" \/ Drained
AllStopped == main = "returned" /\ run = "returned" /\ watcher = "done"
EverythingStops == Stopping ~> AllStopped

\* As long as no context is done and the server has not said CLOSE, Run does not
\* return and a lost connection is followed by another Dial
\* (session.go:146-173).
RunsOn == [][run' = "returned" /\ run # "returned" => runErr # "none" \/ result' = "closed"]_vars
KeepsReconnecting ==
    /\ RunsOn
    /\ run = "waiting" ~> run = "dialing" \/ runErr # "none"

\* "On exhaustion Run returns an error instead of reconnecting forever against a
\* black-hole IP" (Config.ConnectTimeout): a client that is not connected when
\* the timeout passes connects or gives up, in whichever attempt it is.
GivesUpInTime == runErr = "deadline" /\ ~wasUp ~> wasUp \/ run = "returned"

\* "ConnectTimeout bounds only the initial connect sequence ... Once the session
\* is up, reconnection is governed by ctx as before" (Session.Run).
ConnectTimeoutOnlyConnects == wasUp => result \notin {"connect timeout", "deadline"}
==============================================================================
