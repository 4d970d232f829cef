---------------------------- MODULE HostSession ----------------------------
(***************************************************************************)
(* The life of the connections of one vdhost process: the handler of each  *)
(* connection from Accept to the return of its admission slot, the four    *)
(* goroutines Service.Run starts and never joins, the one injector they    *)
(* all share, and the shutdown of the process.                             *)
(*                                                                         *)
(*   cmd/vdhost/main.go                  handleConnection, serve,          *)
(*                                       inputOwnership                    *)
(*   internal/session/session.go         Accept, Admissions                *)
(*   internal/host/service.go            Run, the loops, report            *)
(*   internal/host/input/input_linux.go  Key, ReleaseAll                   *)
(*                                                                         *)
(* What a session sends and how input is checked is in FrameStream and     *)
(* InputPath; here a message of the client is a key that goes down.        *)
(***************************************************************************)
EXTENDS Naturals, FiniteSets

CONSTANTS
    Conns,      \* connections the host gets
    MaxKeys,    \* bound: keys a client presses
    MayStop     \* whether the process may be told to stop

ASSUME HostSessionAssumption ==
    /\ IsFiniteSet(Conns)
    /\ MaxKeys \in Nat
    /\ MayStop \in BOOLEAN

VARIABLES
    pc,         \* where the connection's handler is
    socket,     \* its TCP connection: "none", "open", "lost" or "closed"
    open,       \* Admissions.open
    adapter,    \* inputOwnership: "none", "live", "failed" or "closed"
    cancelled,  \* the connections whose runCtx is done
    capture, send, input, heartbeat,   \* the loops: "off", "on", ..., "over"
    errs,       \* errors in Run's channel
    sent,       \* keys the client pressed so far
    pressed,    \* Injector.pressedKeys: who pressed, and which of its keys
    late,       \* history: who injected after its handler's ReleaseAll
    stopping,   \* the context of serve is done
    exited      \* serve has returned and the process with it

loops == <<capture, send, input, heartbeat>>
vars == <<pc, socket, open, adapter, cancelled, loops, errs, sent, pressed, late, stopping, exited>>

Done(c) == stopping \/ c \in cancelled
Alive(c) == socket[c] = "open"

\* The phases in which a connection holds the admission slot.
Holding == {"hello", "adapter", "initial", "running", "release", "close", "releaseAgain", "free"}

\* A step of c's handler.
Go(c, from, to) == ~exited /\ pc[c] = from /\ pc' = [pc EXCEPT ![c] = to]

------------------------------------------------------------------------------
\* Accept

\* serve accepts until it is told to stop.
Connect(c) ==
    /\ ~stopping
    /\ Go(c, "absent", "auth")
    /\ socket' = [socket EXCEPT ![c] = "open"]
    /\ UNCHANGED <<open, adapter, cancelled, loops, errs, sent, pressed, late, stopping, exited>>

\* The handshake and AuthenticateHost, good or bad.
Authenticate(c) ==
    /\ \/ Alive(c) /\ ~stopping /\ Go(c, "auth", "admit") /\ UNCHANGED socket
       \/ Go(c, "auth", "done") /\ socket' = [socket EXCEPT ![c] = "closed"]
    /\ UNCHANGED <<open, adapter, cancelled, loops, errs, sent, pressed, late, stopping, exited>>

Admit(c) ==
    /\ ~open
    /\ Go(c, "admit", "hello")
    /\ open' = TRUE
    /\ UNCHANGED <<socket, adapter, cancelled, loops, errs, sent, pressed, late, stopping, exited>>

\* ERROR_BUSY, and the connection is closed.
RejectBusy(c) ==
    /\ open
    /\ Go(c, "admit", "done")
    /\ socket' = [socket EXCEPT ![c] = "closed"]
    /\ UNCHANGED <<open, adapter, cancelled, loops, errs, sent, pressed, late, stopping, exited>>

\* Mistake: only the connection is closed when acceptHello fails.
HelloKeepsSlot(c) ==
    /\ \/ Alive(c) /\ ~stopping /\ Go(c, "hello", "adapter")
       \/ Go(c, "hello", "refused")
    /\ UNCHANGED <<socket, open, adapter, cancelled, loops, errs, sent, pressed, late, stopping, exited>>

\* acceptHello; a failure gives the slot back before the connection is closed.
Hello(c) ==
    /\ \/ Alive(c) /\ ~stopping /\ Go(c, "hello", "adapter") /\ UNCHANGED open
       \/ Go(c, "hello", "refused") /\ open' = FALSE
    /\ UNCHANGED <<socket, adapter, cancelled, loops, errs, sent, pressed, late, stopping, exited>>

CloseRefused(c) ==
    /\ Go(c, "refused", "done")
    /\ socket' = [socket EXCEPT ![c] = "closed"]
    /\ UNCHANGED <<open, adapter, cancelled, loops, errs, sent, pressed, late, stopping, exited>>

------------------------------------------------------------------------------
\* handleConnection after Accept, and Run

\* inputOwnership.get creates the adapter once, or fails for good.
GetAdapter(c) ==
    /\ adapter' \in IF adapter = "none" THEN {"live", "failed"} ELSE {adapter}
    /\ \/ adapter' # "failed" /\ Go(c, "adapter", "initial") /\ UNCHANGED socket
       \/ /\ adapter' = "failed" /\ Go(c, "adapter", "free")
          /\ socket' = [socket EXCEPT ![c] = "closed"]
    /\ UNCHANGED <<open, cancelled, loops, errs, sent, pressed, late, stopping, exited>>

\* The first capture is sent, and the loops start; or Run returns before it
\* has deferred anything.
Start(c) ==
    /\ \/ /\ Go(c, "initial", "running")
          /\ capture' = [capture EXCEPT ![c] = "on"] /\ send' = [send EXCEPT ![c] = "on"]
          /\ input' = [input EXCEPT ![c] = "on"] /\ heartbeat' = [heartbeat EXCEPT ![c] = "on"]
       \/ Go(c, "initial", "close") /\ UNCHANGED loops
    /\ UNCHANGED <<socket, open, adapter, cancelled, errs, sent, pressed, late, stopping, exited>>

\* Run's select; the loops are cancelled and not waited for.
RunReturns(c) ==
    /\ Go(c, "running", "release")
    /\ \/ stopping /\ UNCHANGED errs
       \/ errs[c] > 0 /\ errs' = [errs EXCEPT ![c] = @ - 1]
    /\ cancelled' = cancelled \cup {c}
    /\ UNCHANGED <<socket, open, adapter, loops, sent, pressed, late, stopping, exited>>

\* ReleaseAll under context.WithoutCancel; a closed injector lifts nothing.
Lifted == IF adapter = "closed" THEN pressed ELSE {}

\* Run's deferred ReleaseAll.
Release(c) ==
    /\ Go(c, "release", "close")
    /\ pressed' = Lifted
    /\ UNCHANGED <<socket, open, adapter, cancelled, loops, errs, sent, late, stopping, exited>>

CloseConn(c) ==
    /\ Go(c, "close", "releaseAgain")
    /\ socket' = [socket EXCEPT ![c] = "closed"]
    /\ UNCHANGED <<open, adapter, cancelled, loops, errs, sent, pressed, late, stopping, exited>>

\* Mistake: what was pressed since Run returned is left.
FreeOnly(c) ==
    /\ \/ Go(c, "releaseAgain", "free") /\ UNCHANGED open
       \/ Go(c, "free", "done") /\ open' = FALSE
    /\ UNCHANGED <<socket, adapter, cancelled, loops, errs, sent, pressed, late, stopping, exited>>

\* Mistake: the slot is given back before the keys are released.
FreeThenRelease(c) ==
    /\ \/ Go(c, "releaseAgain", "free") /\ open' = FALSE /\ UNCHANGED <<pressed, late>>
       \/ Go(c, "free", "done") /\ pressed' = Lifted /\ late' = late \ {c} /\ UNCHANGED open
    /\ UNCHANGED <<socket, adapter, cancelled, loops, errs, sent, stopping, exited>>

\* handleConnection's deferred calls: ReleaseAll, then Release of the slot.
Finish(c) ==
    /\ \/ Go(c, "releaseAgain", "free") /\ pressed' = Lifted /\ late' = late \ {c} /\ UNCHANGED open
       \/ Go(c, "free", "done") /\ open' = FALSE /\ UNCHANGED <<pressed, late>>
    /\ UNCHANGED <<socket, adapter, cancelled, loops, errs, sent, stopping, exited>>

------------------------------------------------------------------------------
\* The loops

\* Mistake: the channel holds one error and report waits for room.
ReportBlocking(c) == errs[c] = 0 /\ errs' = [errs EXCEPT ![c] = 1]

\* report drops what the channel has no room for.
Report(c) == errs' = [errs EXCEPT ![c] = IF @ < 4 THEN @ + 1 ELSE @]

Frame(c) == UNCHANGED <<pc, socket, open, adapter, cancelled, stopping, exited>>

\* captureLoop and heartbeatLoop leave their selects when the context is done.
LeaveCapture(c) ==
    /\ ~exited /\ capture[c] = "on" /\ Done(c)
    /\ capture' = [capture EXCEPT ![c] = "over"]
    /\ Frame(c) /\ UNCHANGED <<send, input, heartbeat, errs, sent, pressed, late>>

\* Mistake: the capture loop goes on after it reported an error.
CaptureFailsAndGoesOn(c) ==
    /\ ~exited /\ capture[c] = "on"
    /\ Report(c)
    /\ Frame(c) /\ UNCHANGED <<capture, send, input, heartbeat, sent, pressed, late>>

CaptureFails(c) ==
    /\ ~exited /\ capture[c] = "on"
    /\ Report(c) /\ capture' = [capture EXCEPT ![c] = "over"]
    /\ Frame(c) /\ UNCHANGED <<send, input, heartbeat, sent, pressed, late>>

LeaveHeartbeat(c) ==
    /\ ~exited /\ heartbeat[c] = "on" /\ Done(c)
    /\ heartbeat' = [heartbeat EXCEPT ![c] = "over"]
    /\ Frame(c) /\ UNCHANGED <<capture, send, input, errs, sent, pressed, late>>

\* The watchdog gives up, or its PING cannot be sent.
HeartbeatFails(c) ==
    /\ ~exited /\ heartbeat[c] = "on"
    /\ Report(c) /\ heartbeat' = [heartbeat EXCEPT ![c] = "over"]
    /\ Frame(c) /\ UNCHANGED <<capture, send, input, sent, pressed, late>>

\* sendLoop takes a capture and blocks in Send until the client reads, the
\* write deadline passes or the connection is gone.
BeginSend(c) ==
    /\ ~exited /\ send[c] = "on" /\ capture[c] = "on"
    /\ send' = [send EXCEPT ![c] = "sending"]
    /\ Frame(c) /\ UNCHANGED <<capture, input, heartbeat, errs, sent, pressed, late>>

EndSend(c) ==
    /\ ~exited /\ send[c] = "sending"
    /\ \/ Alive(c) /\ ~Done(c) /\ send' = [send EXCEPT ![c] = "on"] /\ UNCHANGED errs
       \/ Report(c) /\ send' = [send EXCEPT ![c] = "over"]
    /\ Frame(c) /\ UNCHANGED <<capture, input, heartbeat, sent, pressed, late>>

LeaveSend(c) ==
    /\ ~exited /\ send[c] = "on" /\ Done(c)
    /\ send' = [send EXCEPT ![c] = "over"]
    /\ Frame(c) /\ UNCHANGED <<capture, input, heartbeat, errs, sent, pressed, late>>

ReceiveKey(c) ==
    /\ ~exited /\ input[c] = "on" /\ Alive(c) /\ ~Done(c) /\ sent[c] < MaxKeys
    /\ input' = [input EXCEPT ![c] = "key"] /\ sent' = [sent EXCEPT ![c] = @ + 1]
    /\ Frame(c) /\ UNCHANGED <<capture, send, heartbeat, errs, pressed, late>>

\* The connection is gone, or the context sets the read deadline to now.
ReceiveFails(c) ==
    /\ ~exited /\ input[c] = "on" /\ (~Alive(c) \/ Done(c))
    /\ Report(c) /\ input' = [input EXCEPT ![c] = "over"]
    /\ Frame(c) /\ UNCHANGED <<capture, send, heartbeat, sent, pressed, late>>

\* Injector.Key looks at the context before it waits for the injector's lock.
CheckContext(c) ==
    /\ ~exited /\ input[c] = "key"
    /\ \/ Done(c) /\ Report(c) /\ input' = [input EXCEPT ![c] = "over"]
       \/ ~Done(c) /\ input' = [input EXCEPT ![c] = "checked"] /\ UNCHANGED errs
    /\ Frame(c) /\ UNCHANGED <<capture, send, heartbeat, sent, pressed, late>>

Inject(c) ==
    /\ ~exited /\ input[c] = "checked"
    /\ \/ /\ adapter = "live"
          /\ pressed' = pressed \cup {<<c, sent[c]>>}
          /\ late' = IF pc[c] \in {"free", "done"} THEN late \cup {c} ELSE late
          /\ input' = [input EXCEPT ![c] = "on"] /\ UNCHANGED errs
       \/ /\ adapter = "closed"
          /\ Report(c) /\ input' = [input EXCEPT ![c] = "over"] /\ UNCHANGED <<pressed, late>>
    /\ Frame(c) /\ UNCHANGED <<capture, send, heartbeat, sent>>

------------------------------------------------------------------------------
\* The network and the process

LoseSocket(c) ==
    /\ ~exited /\ socket[c] = "open"
    /\ socket' = [socket EXCEPT ![c] = "lost"]
    /\ UNCHANGED <<pc, open, adapter, cancelled, loops, errs, sent, pressed, late, stopping, exited>>

Stop ==
    /\ MayStop /\ ~stopping /\ stopping' = TRUE
    /\ UNCHANGED <<pc, socket, open, adapter, cancelled, loops, errs, sent, pressed, late, exited>>

\* serve returns as soon as its listener is closed and closes the adapter; main
\* returns and the handlers are gone.
Exit ==
    /\ stopping /\ ~exited
    /\ \/ adapter = "live" /\ adapter' = "closed" /\ UNCHANGED exited
       \/ adapter # "live" /\ exited' = TRUE /\ UNCHANGED adapter
    /\ UNCHANGED <<pc, socket, open, cancelled, loops, errs, sent, pressed, late, stopping>>

------------------------------------------------------------------------------

Init ==
    /\ pc = [c \in Conns |-> "absent"] /\ socket = [c \in Conns |-> "none"]
    /\ open = FALSE /\ adapter = "none" /\ cancelled = {}
    /\ capture = [c \in Conns |-> "off"] /\ send = capture /\ input = capture /\ heartbeat = capture
    /\ errs = [c \in Conns |-> 0] /\ sent = errs
    /\ pressed = {} /\ late = {}
    /\ stopping = FALSE /\ exited = FALSE

Accept(c) == Authenticate(c) \/ Admit(c) \/ RejectBusy(c) \/ Hello(c) \/ CloseRefused(c)
HandleConnection(c) ==
    Accept(c) \/ GetAdapter(c) \/ Start(c) \/ RunReturns(c) \/ Release(c) \/ CloseConn(c) \/ Finish(c)
InputLoop(c) == ReceiveFails(c) \/ CheckContext(c) \/ Inject(c)
SendLoop(c) == EndSend(c) \/ LeaveSend(c)

Next ==
    \/ \E c \in Conns :
          \/ Connect(c)
          \/ HandleConnection(c)
          \/ LeaveCapture(c) \/ CaptureFails(c)
          \/ LeaveHeartbeat(c) \/ HeartbeatFails(c)
          \/ BeginSend(c) \/ SendLoop(c)
          \/ ReceiveKey(c) \/ InputLoop(c)
          \/ LoseSocket(c)
    \/ Stop
    \/ Exit

\* What the program does by itself, without a client, a capture that fails or a
\* heartbeat that times out; every such step moves its goroutine forward, so
\* they run out.
Goroutines ==
    \E c \in Conns :
       HandleConnection(c) \/ LeaveCapture(c) \/ LeaveHeartbeat(c) \/ SendLoop(c) \/ InputLoop(c)

Spec == Init /\ [][Next]_vars

------------------------------------------------------------------------------
\* Properties

Phases == Holding \cup {"absent", "auth", "admit", "refused", "done"}

KeysOf(c) == {p \in pressed : p[1] = c}

Over(c) == {l \in {<<"capture", capture[c]>>, <<"send", send[c]>>, <<"input", input[c]>>,
                   <<"heartbeat", heartbeat[c]>>} : l[2] = "over"}

\* Every variable keeps its type; a loop reports once and is over, so the
\* channel of four never turns an error away.
TypeOK ==
    /\ pc \in [Conns -> Phases]
    /\ socket \in [Conns -> {"none", "open", "lost", "closed"}]
    /\ adapter \in {"none", "live", "failed", "closed"}
    /\ {open, stopping, exited} \subseteq BOOLEAN
    /\ cancelled \subseteq Conns /\ late \subseteq Conns
    /\ capture \in [Conns -> {"off", "on", "over"}] /\ heartbeat \in [Conns -> {"off", "on", "over"}]
    /\ send \in [Conns -> {"off", "on", "sending", "over"}]
    /\ input \in [Conns -> {"off", "on", "key", "checked", "over"}]
    /\ errs \in [Conns -> 0 .. 4] /\ sent \in [Conns -> 0 .. MaxKeys]
    /\ pressed \subseteq Conns \X (1 .. MaxKeys)
    /\ \A c \in Conns : errs[c] <= Cardinality(Over(c))

\* "The host permits exactly one active client session at a time" (main.go): at
\* most one connection is between its admission and the end of its handler, and
\* the slot is taken exactly while one is, whichever step failed on the way.
OneSession ==
    /\ \A c, d \in Conns : pc[c] \in Holding /\ pc[d] \in Holding => c = d
    /\ open <=> \E c \in Conns : pc[c] \in Holding

\* What a session pressed is lifted when its handler ends; the only exception
\* is an event that had passed Injector.Key's look at the context before the
\* session was cancelled and reached the lock after the last ReleaseAll.
OnlyALateKeyStays ==
    \A c \in Conns : pc[c] \in {"free", "done"} /\ KeysOf(c) # {} => c \in late \/ adapter = "closed"

\* A handler that is cleaning up never lifts the keys of the session that came
\* after it: a running session's keys stay down (no client lets go here).
NoForeignRelease ==
    [][\A c \in Conns : pc[c] = "running" => KeysOf(c) \subseteq KeysOf(c)']_vars

\* When the goroutines have done all they can, every connection that was lost has
\* been noticed and its handler has ended, so that the next client is not turned
\* away as busy for ever; after a stop all handlers have ended; and the loops Run
\* does not join are over, none of them left waiting on the channel of errors
\* nobody reads any more (service.go:229-251, 616-621).
NothingHangs ==
    ~exited /\ ~ENABLED Goroutines =>
        \A c \in Conns :
           /\ socket[c] # "lost"
           /\ stopping => pc[c] \in {"absent", "done"}
           /\ pc[c] = "done" =>
                 \A l \in {capture[c], send[c], input[c], heartbeat[c]} : l \in {"off", "over"}
==============================================================================
