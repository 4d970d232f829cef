----------------------------- MODULE InputPath -----------------------------
(***************************************************************************)
(* The path of the keys and buttons: the user's keyboard, the view's       *)
(* modifier bookkeeping, the client's InputState, the connection, the      *)
(* host's handleInput and the X11 injector, while the display is resized   *)
(* and connections come and go.                                            *)
(*                                                                         *)
(*   internal/client/renderer_fyne.go    desktopView: keyDown, keyUp, ...  *)
(*   internal/client/input.go            InputState                        *)
(*   internal/client/session.go          ServeConn: applyDisplay, Connect, *)
(*                                       teardown                          *)
(*   internal/host/service.go            handleInput, sendCapture          *)
(*   internal/host/input/input_linux.go  Injector                          *)
(*                                                                         *)
(* One modifier, Shift, stands for the four of the bitmap; a usage stands  *)
(* for itself and for its keycode.  Pointer moves and wheel detents are    *)
(* one kind of event: they hold nothing down.                              *)
(***************************************************************************)
EXTENDS Naturals, Sequences, FiniteSets, SequencesExt

CONSTANTS
    Usages,       \* the keys, numbered like HID usages
    ShiftUsages,  \* the ones that are Shift keys
    LeftShift,    \* the one whose keycode syncModifiers presses for the bit
    Unsupported,  \* keys the client sends and the injector has no keycode for
    Buttons,      \* pointer buttons
    EnableInput,  \* Config.EnableInput
    RateLimit,    \* Config.MaxInputEventsPerSecond
    MaxEvents,    \* bound: what the user does
    MaxResizes,   \* bound: resizes of the host's screen
    MaxSessions,  \* bound: connections
    UpCapacity    \* bound: events in flight when the user acts again

ASSUME InputAssumption ==
    /\ Usages \subseteq Nat /\ ShiftUsages \subseteq Usages
    /\ LeftShift \in Nat /\ Unsupported \subseteq Usages
    /\ EnableInput \in BOOLEAN
    /\ {RateLimit, UpCapacity} \subseteq Nat \ {0}
    /\ {MaxEvents, MaxResizes, MaxSessions} \subseteq Nat

VARIABLES
    \* the user and the view
    physical,       \* keys the user holds
    shift,          \* desktopView.modifiers
    events,         \* how often the user acted
    quit,           \* FyneRenderer.closed
    \* client.InputState
    cGeneration,    \* generation, 0 before the first display
    cSequence,      \* sequence
    connected, focused,
    keys,           \* keys: usage -> the modifiers it went down with
    buttons,        \* buttons
    \* the connection
    serving,        \* ServeConn: "idle", "establishing", "admitted", "configured", "loop"
    up,             \* input messages to the host
    down,           \* generations announced to the client
    \* host.Service
    session,        \* "up" or "down"
    sessions,       \* connections so far
    resizing,       \* sendCapture: "no", "captured" or "announced"
    hGeneration,    \* Service.generation
    advertised,     \* Service.width and height: the geometry's number
    native,         \* Service.nativeWidth and nativeHeight
    lastInputSeq,
    rateCount,
    spoilt,         \* history: "shed" when this session's rate limit dropped an event,
                    \* "early" when input.Connect forgot events that were sent before it
    \* the injector
    pressedKeys, pressedButtons,
    moved           \* the geometries the last pointer move was mapped between

userVars == <<physical, shift, events, quit>>
inputVars == <<cGeneration, cSequence, connected, focused, keys, buttons>>
netVars == <<serving, up, down>>
hostVars == <<session, sessions, resizing, hGeneration, advertised, native,
              lastInputSeq, rateCount, spoilt>>
injVars == <<pressedKeys, pressedButtons, moved>>
vars == <<userVars, inputVars, netVars, hostVars, injVars>>

NoKeys == [u \in {} |-> FALSE]

------------------------------------------------------------------------------
\* client.InputState

Active == connected /\ focused /\ cGeneration # 0

KeyMsg(u, action, bit)  == [kind |-> "key", what |-> u, action |-> action, shift |-> bit]
ButtonMsg(b, action)    == [kind |-> "button", what |-> b, action |-> action]
PointerMsg              == [kind |-> "pointer"]
FocusLostMsg            == [kind |-> "focus_lost"]

\* Mistake: the messages of one release share a sequence number.
StampedAlike(msgs, n) ==
    [i \in 1..n |-> [gen |-> cGeneration, seq |-> cSequence + 1, body |-> msgs[i]]]

\* The first n of msgs with the header sendLocked gives them.
Stamped(msgs, n) ==
    [i \in 1..n |-> [gen |-> cGeneration, seq |-> cSequence + i, body |-> msgs[i]]]

\* How many of msgs the peer takes: none before it is Active, all of them while
\* the session is up; any number when the connection is gone and the client has
\* not noticed.
Accepted(msgs) ==
    IF serving \in {"idle", "establishing", "admitted"} THEN {0}
    ELSE IF session = "up" THEN {Len(msgs)} ELSE 0 .. Len(msgs)

Send(msgs, n) ==
    /\ up' = IF session = "up" THEN up \o Stamped(msgs, n) ELSE up
    /\ cSequence' = cSequence + n

\* Mistake: only the buttons are released.
ReleaseButtonsOnly ==
    LET heldButtons == SetToSeq(buttons)
    IN  [i \in 1 .. Len(heldButtons) |-> ButtonMsg(heldButtons[i], "up")]

\* sort.Ints
Ascending(S) == CHOOSE q \in SetToSeqs(S) : \A i, j \in DOMAIN q : i < j => q[i] < q[j]

\* releaseAllLocked: every held key with the modifiers it went down with, in
\* order of usage, then every held button.
ReleaseMsgs ==
    LET heldKeys == Ascending(DOMAIN keys)
        heldButtons == SetToSeq(buttons)
    IN  [i \in 1 .. Len(heldKeys) |-> KeyMsg(heldKeys[i], "up", keys[heldKeys[i]])]
        \o [i \in 1 .. Len(heldButtons) |-> ButtonMsg(heldButtons[i], "up")]

\* What stays held when the first n of them went out.
StillHeld(n) ==
    /\ keys' = [u \in {u \in DOMAIN keys : \E i \in n + 1 .. Len(ReleaseMsgs) :
                          ReleaseMsgs[i].kind = "key" /\ ReleaseMsgs[i].what = u} |-> keys[u]]
    /\ buttons' = {b \in buttons : \E i \in n + 1 .. Len(ReleaseMsgs) :
                          ReleaseMsgs[i].kind = "button" /\ ReleaseMsgs[i].what = b}

\* Key: a repeated transition and a key without a live session are dropped.
InputKey(u, action, bit) ==
    IF Active /\ (action = "down") # (u \in DOMAIN keys)
    THEN \E n \in Accepted(<<KeyMsg(u, action, bit)>>) :
            /\ Send(<<KeyMsg(u, action, bit)>>, n)
            /\ keys' = IF n = 0 THEN keys
                       ELSE IF action = "down"
                       THEN [k \in DOMAIN keys \cup {u} |-> IF k = u THEN bit ELSE keys[k]]
                       ELSE [k \in DOMAIN keys \ {u} |-> keys[k]]
            /\ UNCHANGED <<cGeneration, connected, focused, buttons>>
    ELSE UNCHANGED <<inputVars, up>>

InputButton(b, action) ==
    IF Active /\ (action = "down") # (b \in buttons)
    THEN \E n \in Accepted(<<ButtonMsg(b, action)>>) :
            /\ Send(<<ButtonMsg(b, action)>>, n)
            /\ buttons' = IF n = 0 THEN buttons
                          ELSE IF action = "down" THEN buttons \cup {b} ELSE buttons \ {b}
            /\ UNCHANGED <<cGeneration, connected, focused, keys>>
    ELSE UNCHANGED <<inputVars, up>>

\* Pointer and Wheel
InputPointer ==
    IF Active
    THEN \E n \in Accepted(<<PointerMsg>>) :
            Send(<<PointerMsg>>, n) /\ UNCHANGED <<cGeneration, connected, focused, keys, buttons>>
    ELSE UNCHANGED <<inputVars, up>>

\* Mistake: the host is not told.
UnfocusQuietly ==
    IF ~connected \/ ~focused THEN UNCHANGED <<inputVars, up>>
    ELSE \E n \in Accepted(ReleaseMsgs) :
           /\ Send(ReleaseMsgs, n)
           /\ StillHeld(n)
           /\ connected' = (n = Len(ReleaseMsgs))
           /\ focused' = ~connected'
           /\ UNCHANGED cGeneration

\* SetFocused(false) releases everything and then says so; the first message
\* that does not go out disconnects the input.
Unfocus ==
    IF ~connected \/ ~focused THEN UNCHANGED <<inputVars, up>>
    ELSE \E n \in Accepted(ReleaseMsgs \o <<FocusLostMsg>>) :
           LET all == n = Len(ReleaseMsgs) + 1
           IN  /\ Send(ReleaseMsgs \o <<FocusLostMsg>>, n)
               /\ StillHeld(n)
               /\ connected' = all
               /\ focused' = ~all
               /\ UNCHANGED cGeneration

\* Disconnect, while the session still has its peer or after it.
Disconnect ==
    IF ~connected THEN UNCHANGED <<inputVars, up>>
    ELSE \E n \in Accepted(ReleaseMsgs) :
            /\ Send(ReleaseMsgs, n)
            /\ StillHeld(n)
            /\ connected' = FALSE /\ focused' = FALSE
            /\ UNCHANGED cGeneration

------------------------------------------------------------------------------
\* The user and the view

\* After Quit the window is gone.
UserActs ==
    /\ ~quit
    /\ events < MaxEvents /\ events' = events + 1
    /\ Len(up) < UpCapacity

\* keyDown sets the Shift bit before the event, keyUp clears it after it.
PressKey(u) ==
    /\ UserActs
    /\ u \notin physical /\ physical' = physical \cup {u}
    /\ shift' = (shift \/ u \in ShiftUsages)
    /\ InputKey(u, "down", shift')
    /\ UNCHANGED <<quit, serving, down, hostVars, injVars>>

\* Bound: letting go is not counted, so the user can always let go.
ReleaseKey(u) ==
    /\ u \in physical /\ physical' = physical \ {u}
    /\ InputKey(u, "up", shift)
    /\ shift' = (shift /\ u \notin ShiftUsages)
    /\ UNCHANGED <<events, quit, serving, down, hostVars, injVars>>

\* MouseDown and MouseUp
Click(b, action) ==
    /\ UserActs
    /\ InputButton(b, action)
    /\ UNCHANGED <<physical, shift, quit, serving, down, hostVars, injVars>>

\* MouseMoved and Scrolled
PointAt ==
    /\ UserActs
    /\ InputPointer
    /\ UNCHANGED <<physical, shift, quit, serving, down, hostVars, injVars>>

FocusGained ==
    /\ UserActs
    /\ focused' = (focused \/ connected)
    /\ UNCHANGED <<physical, shift, quit, cGeneration, cSequence, connected, keys, buttons, netVars,
                   hostVars, injVars>>

\* FocusLost also forgets the modifiers.
FocusLost ==
    /\ UserActs
    /\ Unfocus
    /\ shift' = FALSE
    /\ UNCHANGED <<physical, quit, serving, down, hostVars, injVars>>

\* MouseIn takes the focus and points.
MouseIn ==
    /\ UserActs
    /\ focused' = (focused \/ connected)
    /\ IF connected /\ cGeneration # 0
       THEN \E n \in Accepted(<<PointerMsg>>) : Send(<<PointerMsg>>, n)
       ELSE UNCHANGED <<cSequence, up>>
    /\ UNCHANGED <<physical, shift, quit, cGeneration, connected, keys, buttons, serving,
                   down, hostVars, injVars>>

\* MouseOut gives up the focus and keeps the modifiers.
MouseOut ==
    /\ UserActs
    /\ Unfocus
    /\ UNCHANGED <<physical, shift, quit, serving, down, hostVars, injVars>>

\* FyneRenderer.Quit releases what is held while the session is still there.
Quit ==
    /\ ~quit /\ quit' = TRUE
    /\ Disconnect
    /\ UNCHANGED <<physical, shift, events, serving, down, hostVars, injVars>>

------------------------------------------------------------------------------
\* ServeConn

\* peerSender gets the new connection's peer, which sends no input yet.
BeginServe ==
    /\ serving = "idle" /\ session = "down" /\ sessions < MaxSessions /\ ~quit
    /\ serving' = "establishing"
    /\ UNCHANGED <<userVars, inputVars, up, down, hostVars, injVars>>

\* applyDisplay: SetDisplay, of the first and of every later DISPLAY_CONFIG.
\* With the first one the peer is Active.
ApplyDisplay ==
    /\ serving \in {"admitted", "loop"} /\ down # <<>>
    /\ cGeneration' = Head(down) /\ down' = Tail(down)
    /\ serving' = IF serving = "admitted" THEN "configured" ELSE "loop"
    /\ UNCHANGED <<userVars, cSequence, connected, focused, keys, buttons, up,
                   hostVars, injVars>>

\* input.Connect; the sequence goes on where the last connection left it.  An
\* InputState starts connected, so in the first connection the view may have
\* sent events before this.
ConnectInput ==
    /\ serving = "configured"
    /\ serving' = "loop"
    /\ connected' = TRUE /\ focused' = FALSE /\ keys' = NoKeys /\ buttons' = {}
    /\ spoilt' = IF sessions = 1 /\ cSequence > 0 THEN spoilt \cup {"early"} ELSE spoilt
    /\ UNCHANGED <<userVars, cGeneration, cSequence, up, down, session, sessions, resizing,
                   hGeneration, advertised, native, lastInputSeq, rateCount, injVars>>

\* The deferred teardown clears the sender before it disconnects the input, so
\* nothing that is held goes out any more.
Teardown ==
    /\ serving # "idle" /\ session = "down"
    /\ serving' = "idle" /\ down' = <<>>
    /\ connected' = FALSE
    /\ focused' = (focused /\ ~connected)
    /\ UNCHANGED <<userVars, cGeneration, cSequence, keys, buttons, up, hostVars, injVars>>

------------------------------------------------------------------------------
\* The injector

\* syncModifiers: make the held Shift match the bit, unless the event is about it.
Synced(pressed, bit, u) ==
    IF u = LeftShift THEN pressed
    ELSE IF bit THEN pressed \cup {LeftShift} ELSE pressed \ {LeftShift}

\* Injector.Key
Injected(pressed, m) ==
    IF m.action = "down" THEN Synced(pressed, m.shift, m.what) \cup {m.what}
    ELSE Synced(pressed, m.shift, m.what) \ {m.what}

\* Mistake: the session ends and what is pressed stays pressed.
EndWithoutRelease ==
    /\ session' = "down"
    /\ up' = <<>>
    /\ resizing' = "no"
    /\ UNCHANGED <<pressedKeys, pressedButtons>>

\* Run's deferred ReleaseAll when the session ends.
EndSession ==
    /\ session' = "down"
    /\ pressedKeys' = {} /\ pressedButtons' = {}
    /\ up' = <<>>
    /\ resizing' = "no"

------------------------------------------------------------------------------
\* handleInput

\* The generation and sequence check.
Stale(m) == m.gen # hGeneration \/ m.seq <= lastInputSeq

WithinRate == rateCount < RateLimit

\* The host refuses an event of another generation, one it already had, and
\* any event when input is disabled; so does the injector with an unknown key.
RejectInput ==
    /\ session = "up" /\ up # <<>>
    /\ LET m == Head(up) IN
          \/ ~EnableInput
          \/ Stale(m)
          \/ WithinRate /\ m.body.kind = "key" /\ m.body.what \in Unsupported
    /\ EndSession
    /\ UNCHANGED <<userVars, inputVars, serving, down, sessions, hGeneration, advertised,
                   native, lastInputSeq, rateCount, spoilt, moved>>

\* The rate limit sheds any kind of event and keeps the session.
ShedInput ==
    /\ session = "up" /\ up # <<>> /\ EnableInput /\ ~Stale(Head(up))
    /\ ~WithinRate
    /\ up' = Tail(up)
    /\ spoilt' = spoilt \cup {"shed"}
    /\ UNCHANGED <<userVars, inputVars, serving, down, session, sessions, resizing,
                   hGeneration, advertised, native, lastInputSeq, rateCount, injVars>>

InjectInput ==
    /\ session = "up" /\ up # <<>> /\ EnableInput /\ ~Stale(Head(up))
    /\ WithinRate
    /\ LET m == Head(up).body IN
          /\ ~(m.kind = "key" /\ m.what \in Unsupported)
          /\ pressedKeys' = IF m.kind = "key" THEN Injected(pressedKeys, m)
                            ELSE IF m.kind = "focus_lost" THEN {} ELSE pressedKeys
          /\ pressedButtons' = IF m.kind = "focus_lost" THEN {}
                               ELSE IF m.kind # "button" THEN pressedButtons
                               ELSE IF m.action = "down" THEN pressedButtons \cup {m.what}
                               ELSE pressedButtons \ {m.what}
          /\ moved' = IF m.kind = "pointer" THEN <<advertised, native>> ELSE moved
    /\ up' = Tail(up)
    /\ rateCount' = rateCount + 1
    /\ lastInputSeq' = Head(up).seq
    /\ UNCHANGED <<userVars, inputVars, serving, down, session, sessions, resizing,
                   hGeneration, advertised, native, spoilt>>

\* A second has passed since the rate window began.
NewRateWindow ==
    /\ rateCount > 0
    /\ rateCount' = 0
    /\ UNCHANGED <<userVars, inputVars, netVars, session, sessions, resizing, hGeneration,
                   advertised, native, lastInputSeq, spoilt, injVars>>

------------------------------------------------------------------------------
\* sendCapture of a resized screen, step by step

CaptureResized ==
    /\ session = "up" /\ resizing = "no" /\ native < MaxResizes + 1
    /\ resizing' = "captured"
    /\ native' = native + 1
    /\ UNCHANGED <<userVars, inputVars, netVars, session, sessions, hGeneration,
                   advertised, lastInputSeq, rateCount, spoilt, injVars>>

AnnounceResized ==
    /\ session = "up" /\ resizing = "captured"
    /\ resizing' = "announced"
    /\ down' = Append(down, hGeneration + 1)
    /\ UNCHANGED <<userVars, inputVars, serving, up, session, sessions, hGeneration,
                   advertised, native, lastInputSeq, rateCount, spoilt, injVars>>

\* Mistake: the advertised size stays the old one.
AdoptGenerationOnly ==
    /\ session = "up" /\ resizing = "announced"
    /\ resizing' = "no"
    /\ hGeneration' = hGeneration + 1
    /\ lastInputSeq' = 0
    /\ UNCHANGED <<userVars, inputVars, netVars, session, sessions, advertised, native,
                   rateCount, spoilt, injVars>>

AdoptResized ==
    /\ session = "up" /\ resizing = "announced"
    /\ resizing' = "no"
    /\ hGeneration' = hGeneration + 1
    /\ advertised' = native
    /\ lastInputSeq' = 0
    /\ UNCHANGED <<userVars, inputVars, netVars, session, sessions, native, rateCount,
                   spoilt, injVars>>

------------------------------------------------------------------------------
\* Connections

\* Accept let the client in, and Run announced the first display before it reads
\* any input.
NewSession ==
    /\ session = "down" /\ serving = "establishing" /\ serving' = "admitted"
    /\ session' = "up" /\ sessions' = sessions + 1
    /\ hGeneration' = 1 /\ lastInputSeq' = 0 /\ rateCount' = 0 /\ spoilt' = {}
    /\ advertised' = native
    /\ down' = <<1>>
    /\ UNCHANGED <<userVars, inputVars, up, resizing, native, injVars>>

LoseConnection ==
    /\ session = "up"
    /\ EndSession
    /\ UNCHANGED <<userVars, inputVars, serving, down, sessions, hGeneration, advertised,
                   native, lastInputSeq, rateCount, spoilt, moved>>

------------------------------------------------------------------------------

\* NewInputState: connected before there is a connection.
Init ==
    /\ physical = {} /\ shift = FALSE /\ events = 0 /\ quit = FALSE
    /\ cGeneration = 0 /\ cSequence = 0 /\ connected = TRUE /\ focused = FALSE
    /\ keys = NoKeys /\ buttons = {}
    /\ serving = "idle" /\ up = <<>> /\ down = <<>>
    /\ session = "down" /\ sessions = 0 /\ resizing = "no"
    /\ hGeneration = 0 /\ advertised = 1 /\ native = 1 /\ lastInputSeq = 0 /\ rateCount = 0
    /\ spoilt = {}
    /\ pressedKeys = {} /\ pressedButtons = {} /\ moved = <<1, 1>>

User ==
    \/ \E u \in Usages : PressKey(u)
    \/ \E b \in Buttons, action \in {"down", "up"} : Click(b, action)
    \/ PointAt
    \/ FocusGained \/ FocusLost
    \/ MouseIn \/ MouseOut
    \/ Quit

LetGo == \E u \in Usages : ReleaseKey(u)

Client == BeginServe \/ ApplyDisplay \/ ConnectInput \/ Teardown

Host == RejectInput \/ ShedInput \/ InjectInput

Resize == CaptureResized \/ AnnounceResized \/ AdoptResized

Next ==
    \/ User
    \/ LetGo
    \/ Client
    \/ Host
    \/ NewRateWindow
    \/ Resize
    \/ NewSession
    \/ LoseConnection

\* The host's input loop reads, its send loop finishes a resize, the client's
\* ServeConn goes on and Run reconnects.
Fairness ==
    /\ WF_vars(Host)
    /\ WF_vars(Client)
    /\ WF_vars(AnnounceResized \/ AdoptResized)
    /\ WF_vars(NewSession)

Spec == Init /\ [][Next]_vars /\ Fairness

------------------------------------------------------------------------------

Messages ==
    [gen : Nat, seq : Nat \ {0},
     body : [kind : {"key"}, what : Usages, action : {"down", "up"}, shift : BOOLEAN]
            \cup [kind : {"button"}, what : Buttons, action : {"down", "up"}]
            \cup [kind : {"pointer", "focus_lost"}]]

\* Every variable keeps its type, and a rate window never counts more events
\* than MaxInputEventsPerSecond.
TypeOK ==
    /\ physical \subseteq Usages /\ {shift, quit, connected, focused} \subseteq BOOLEAN
    /\ spoilt \subseteq {"shed", "early"}
    /\ {events, cGeneration, cSequence, sessions, hGeneration, lastInputSeq} \subseteq Nat
    /\ rateCount \in 0 .. RateLimit
    /\ DOMAIN keys \subseteq Usages /\ \A u \in DOMAIN keys : keys[u] \in BOOLEAN
    /\ buttons \subseteq Buttons
    /\ serving \in {"idle", "establishing", "admitted", "configured", "loop"}
    /\ \A i \in DOMAIN up : up[i] \in Messages
    /\ down \in Seq(Nat \ {0})
    /\ session \in {"up", "down"}
    /\ resizing \in {"no", "captured", "announced"}
    /\ {advertised, native} \subseteq Nat \ {0}
    /\ pressedKeys \subseteq Usages \cup {LeftShift} /\ pressedButtons \subseteq Buttons
    /\ moved \in (Nat \ {0}) \X (Nat \ {0})

\* What the injector holds down, the client's InputState holds.  LeftShift is
\* apart: syncModifiers also presses it for the bit of another key's event.
HeldByClient ==
    /\ pressedKeys \ {LeftShift} \subseteq DOMAIN keys
    /\ pressedButtons \subseteq buttons

\* docs/architecture.md, "avoid stuck input": once the host has read everything
\* the client sent, the injector holds no key and no button down that the
\* client's InputState does not hold, unless the rate limit dropped an event or
\* input.Connect forgot one.
NothingStuck == session = "up" /\ up = <<>> /\ spoilt = {} => HeldByClient

\* docs/architecture.md: "Key, button, and wheel transitions are never silently
\* dropped".
NothingDropped == session = "up" /\ up = <<>> /\ "early" \notin spoilt => HeldByClient

\* handleInput's sequence check never meets an honest client: what is on its
\* way is numbered upwards from what the host had last, whatever resizes, new
\* connections and bursts of releases happened in between.
InOrder ==
    session = "up" =>
        /\ \A i, j \in DOMAIN up : i < j => up[i].seq < up[j].seq
        /\ \A i \in DOMAIN up : up[i].gen = hGeneration => up[i].seq > lastInputSeq

\* Once the view has given up the focus and the host has read everything, the
\* host holds nothing at all: not even the Shift that came from the bit of an
\* event and that the client never counted among its keys (input.go:170-183,
\* input_linux.go:209-233).
NothingHeldUnfocused ==
    session = "up" /\ spoilt = {} /\ serving = "loop" /\ connected /\ ~focused /\ up = <<>> =>
        pressedKeys = {} /\ pressedButtons = {}

\* A pointer coordinate is mapped from the advertised to the native size of one
\* and the same geometry, except while a resize is captured and not yet adopted:
\* then the native size is one geometry ahead (service.go:318, 353, 572-590).
GeometryMixedOnlyInResize ==
    [][moved' # moved => \/ moved'[1] = moved'[2]
                         \/ resizing # "no" /\ moved'[2] = moved'[1] + 1]_vars

\* A key the user has let go of does not stay down on the host: the release, the
\* loss of focus or the end of the session lifts it, unless its release was shed or
\* input.Connect forgot its press.
KeysComeUp ==
    \A u \in Usages \ ({LeftShift} \cup Unsupported) :
        u \in pressedKeys ~> (u \notin pressedKeys \/ u \in physical \/ spoilt # {})
==============================================================================
