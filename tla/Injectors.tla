----------------------------- MODULE Injectors -----------------------------
(***************************************************************************)
(* The adapters that play a client's input on the host's desktop, and what *)
(* is down on that desktop when their calls of the system fail.            *)
(*                                                                         *)
(*   internal/host/input/input_linux.go      XTEST requests, checked       *)
(*   internal/host/input/input_windows.go    SendInput                     *)
(*   internal/host/input/input.go            buttonNumber, wheelClicks     *)
(*   internal/host/service.go                handleInput, Run              *)
(*   cmd/vdhost/main.go                      handleConnection              *)
(*                                                                         *)
(* Both keep what they pressed, to release it at the loss of focus and at  *)
(* the end of the session.  One adapter serves all sessions of the host.   *)
(* A call holds its mutex and is one step here; the requests in it succeed *)
(* or fail one by one.  An X request fails because the server refuses it,  *)
(* or because the connection breaks, perhaps after the request took        *)
(* effect; the host never makes a new one.  Keys are named by their codes, *)
(* and X11's wheel is made of buttons.                                     *)
(***************************************************************************)
EXTENDS Naturals, Sequences, FiniteSets

CONSTANTS
    Platforms,      \* the adapters: "linux", "windows"
    Keys,           \* codes that syncModifiers does not know
    LeftCodes,      \* the code of each bit of the modifier bitmap, as a sequence
    Buttons,        \* the pointer's buttons
    WheelButtons,   \* X11's buttons of the wheel
    MaxClicks       \* maxWheelClicks

Lefts == {LeftCodes[b] : b \in DOMAIN LeftCodes}

\* No two bits have one code, and no code means two things.
ASSUME InjectorsAssumption ==
    /\ Platforms \subseteq {"linux", "windows"} /\ Platforms # {}
    /\ MaxClicks \in Nat
    /\ LeftCodes \in Seq(Lefts)
    /\ \A b, d \in DOMAIN LeftCodes : LeftCodes[b] = LeftCodes[d] => b = d
    /\ LET kinds == <<Keys, Lefts, Buttons, WheelButtons, {"motion"}>>
       IN  \A k, l \in DOMAIN kinds : k # l => kinds[k] \cap kinds[l] = {}

VARIABLES
    platform,   \* which adapter
    dead,       \* its X connection is broken
    pressed,    \* pressedKeys and pressedButtons
    desk,       \* what is down on the desktop
    session,    \* "up", "ending" (Run's ReleaseAll is due),
                \* "closing" (handleConnection's ReleaseAll is due) or "down"
    meant,      \* history: what the session's events mean to hold down
    lost        \* history: what is down since a request about it failed

vars == <<platform, dead, pressed, desk, session, meant, lost>>

------------------------------------------------------------------------------
\* The requests of a call

Down(c) == [code |-> c, down |-> TRUE]
Up(c)   == [code |-> c, down |-> FALSE]

\* Motion holds nothing down; so does a detent of the Windows wheel.
Motion == Up("motion")

\* What is down after some requests: the last one about a code decides.
After(held, requests) ==
    {c \in held : \A i \in DOMAIN requests : requests[i].code # c}
    \cup {requests[i].code : i \in {i \in DOMAIN requests :
             /\ requests[i].down
             /\ \A j \in DOMAIN requests : j > i => requests[j].code # requests[i].code}}

\* Mistake: the wrong ones go up, the missing ones stay missing.
SyncRequestsUpOnly(c, bits) ==
    LET upTo[b \in 0 .. Len(LeftCodes)] ==
            IF b = 0 THEN <<>>
            ELSE IF b \notin bits /\ LeftCodes[b] \in pressed
                 THEN Append(upTo[b - 1], Up(LeftCodes[b]))
                 ELSE upTo[b - 1]
    IN  upTo[Len(LeftCodes)]

\* Whether the adapter holds the code of a bit as the bitmap does not want it.
\* The Linux adapter leaves the event's own key out.
Off(b, c, bits) ==
    /\ (b \in bits) # (LeftCodes[b] \in pressed)
    /\ platform = "linux" => LeftCodes[b] # c

\* syncModifiers: bring the left modifiers in line with the bitmap, in its order.
SyncRequests(c, bits) ==
    LET upTo[b \in 0 .. Len(LeftCodes)] ==
            IF b = 0 THEN <<>>
            ELSE IF Off(b, c, bits)
                 THEN Append(upTo[b - 1], [code |-> LeftCodes[b], down |-> b \in bits])
                 ELSE upTo[b - 1]
    IN  upTo[Len(LeftCodes)]

\* Key: the modifiers first; a key that is not down does not go up.
KeyRequests(c, down, bits) ==
    LET sync == SyncRequests(c, bits)
    IN  IF down THEN Append(sync, Down(c))
        ELSE IF c \in After(pressed, sync) THEN Append(sync, Up(c))
        ELSE sync

\* Button: only the Linux adapter asks whether the button is down.
ButtonRequests(b, down) ==
    IF down THEN <<Down(b)>>
    ELSE IF platform = "linux" /\ b \notin pressed THEN <<>>
    ELSE <<Up(b)>>

\* Wheel, of some detents
WheelRequests(w, clicks) ==
    IF platform = "linux"
    THEN [i \in 1 .. 2 * clicks |-> IF i % 2 = 1 THEN Down(w) ELSE Up(w)]
    ELSE [i \in 1 .. clicks |-> Motion]

\* Mistake: the Linux adapter takes note before it asks the server.
NotedFirst(done, all) == IF done < all THEN done + 1 ELSE done

\* How many requests are noted when the first so many are done: the Windows
\* adapter takes note before it calls SendInput.
Noted(done, all) == IF platform = "windows" /\ done < all THEN done + 1 ELSE done

\* The first n requests are done and the next one, if there is one, fails; as
\* the X connection breaks it may still take effect.
Attempt(requests, n, effects) ==
    /\ dead => n = 0
    /\ \/ n = Len(requests) /\ effects = n /\ dead' = dead
       \/ n < Len(requests) /\ effects = n /\ dead' = dead
       \/ n < Len(requests) /\ effects \in {n, n + 1} /\ platform = "linux" /\ ~dead /\ dead' = TRUE

\* A call of handleInput.  Its error ends the session; asked is what the events
\* mean to hold after it.
Call(requests, tracked, asked) ==
    \E n, effects \in 0 .. Len(requests) :
        /\ Attempt(requests, n, effects)
        /\ desk' = After(desk, SubSeq(requests, 1, effects))
        /\ pressed' = IF tracked THEN After(pressed, SubSeq(requests, 1, Noted(n, Len(requests))))
                      ELSE pressed
        /\ IF n = Len(requests)
           THEN session' = "up" /\ meant' = asked /\ lost' = lost \cap desk'
           ELSE session' = "ending" /\ meant' = {} /\ lost' = (lost \cup {requests[n + 1].code}) \cap desk'
        /\ UNCHANGED platform

------------------------------------------------------------------------------
\* Events

\* What a key event means: the bitmap decides about the left modifiers, the
\* event about its own key.
Asked(c, down, bits) ==
    LET others == (meant \ Lefts) \cup {LeftCodes[b] : b \in bits}
    IN  IF down THEN others \cup {c} ELSE others \ {c}

Key(c, down, bits) ==
    /\ session = "up"
    /\ Call(KeyRequests(c, down, bits), TRUE, Asked(c, down, bits))

Button(b, down) ==
    /\ session = "up"
    /\ Call(ButtonRequests(b, down), TRUE, IF down THEN meant \cup {b} ELSE meant \ {b})

Wheel(w, clicks) ==
    /\ session = "up"
    /\ Call(WheelRequests(w, clicks), FALSE, meant)

Move ==
    /\ session = "up"
    /\ Call(<<Motion>>, FALSE, meant)

\* A usage, a button, a coordinate or a wheel delta the adapter does not take.
Refuse ==
    /\ session = "up"
    /\ session' = "ending" /\ meant' = {}
    /\ UNCHANGED <<platform, dead, pressed, desk, lost>>

------------------------------------------------------------------------------
\* ReleaseAll

\* Which releases fail, and which of those take effect.  The keys' come before
\* the buttons', either in any order.
Failing(fails, effects) ==
    /\ effects \subseteq fails /\ fails \subseteq pressed
    /\ dead => fails = pressed
    /\ \/ dead' = dead /\ effects = {}
       \/ /\ platform = "linux" /\ ~dead /\ dead' = TRUE
          /\ fails # {} /\ Cardinality(effects) <= 1
          /\ (pressed \cap Buttons) \ fails # {} =>
                fails \cap Buttons # {} /\ effects \subseteq Buttons

\* Everything is forgotten, whether its release failed or not; but the Windows
\* adapter forgets no button.
Release(fails) ==
    \E effects \in SUBSET fails :
        /\ Failing(fails, effects)
        /\ desk' = desk \ ((pressed \ fails) \cup effects)
        /\ lost' = (lost \cup fails) \cap desk'
        /\ pressed' = IF platform = "linux" THEN {} ELSE pressed \cap Buttons

FocusLost ==
    /\ session = "up"
    /\ \E fails \in SUBSET pressed :
          /\ Release(fails)
          /\ session' = IF fails = {} THEN "up" ELSE "ending"
    /\ meant' = {}
    /\ UNCHANGED platform

\* Run's deferred ReleaseAll, then handleConnection's.  Neither looks at the error.
EndSession ==
    /\ session \in {"ending", "closing"}
    /\ \E fails \in SUBSET pressed : Release(fails)
    /\ session' = IF session = "ending" THEN "closing" ELSE "down"
    /\ UNCHANGED <<platform, meant>>

\* The client leaves, or another loop of the service fails.
LoseSession ==
    /\ session = "up"
    /\ session' = "ending" /\ meant' = {}
    /\ UNCHANGED <<platform, dead, pressed, desk, lost>>

\* inputOwnership hands the same adapter to the next session.
NewSession ==
    /\ session = "down"
    /\ session' = "up"
    /\ UNCHANGED <<platform, dead, pressed, desk, meant, lost>>

------------------------------------------------------------------------------

Init ==
    /\ platform \in Platforms /\ dead = FALSE
    /\ pressed = {} /\ desk = {} /\ meant = {} /\ lost = {}
    /\ session = "up"

Event ==
    \/ \E c \in Keys \cup Lefts, down \in BOOLEAN, bits \in SUBSET DOMAIN LeftCodes : Key(c, down, bits)
    \/ \E b \in Buttons, down \in BOOLEAN : Button(b, down)
    \/ \E w \in WheelButtons, clicks \in 0 .. MaxClicks : Wheel(w, clicks)
    \/ Move
    \/ Refuse
    \/ FocusLost

Next ==
    \/ Event
    \/ EndSession
    \/ LoseSession
    \/ NewSession

Spec == Init /\ [][Next]_vars

------------------------------------------------------------------------------

\* The two adapters mean the same ("identical across linux, windows, and darwin",
\* input.go): in a session, what is down on the desktop is what the client's
\* events mean, the bitmap's left modifiers among it, and between sessions
\* nothing is ("a stuck key or button cannot persist after focus loss or
\* disconnect"), but for that which stayed down because a request about it failed.
DesktopAsMeant == session \in {"up", "down"} => desk \ lost = meant \ lost

\* The Linux adapter notes only what is down, so no release hits a key or a
\* button somebody at the host's own keyboard holds.  (The Windows adapter does
\* not promise that: it notes first, and its ReleaseAll forgets no button.)
NotedIsDown == platform = "linux" /\ ~dead => pressed \subseteq desk
==============================================================================
