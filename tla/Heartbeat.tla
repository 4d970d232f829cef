----------------------------- MODULE Heartbeat -----------------------------
(***************************************************************************)
(* The two heartbeats of an idle session: the host's watchdog, the         *)
(* client's keepalive, and the read deadline both have, in discrete time.  *)
(*                                                                         *)
(*   internal/host/service.go     recordActivity, heartbeatLoop            *)
(*   internal/client/session.go   keepalive, keepaliveLoop                 *)
(*   internal/transport/peer.go   SetSteadyReadTimeout, withReadDeadline   *)
(*                                                                         *)
(* Times are ages: how long ago something was.  What is due happens before *)
(* time goes on, in any order; a ticker is handled when it ticks.          *)
(***************************************************************************)
EXTENDS Integers, Sequences

CONSTANTS
    Interval,   \* Config.HeartbeatInterval
    Timeout,    \* Config.HeartbeatTimeout
    Slack,      \* transport.HeartbeatSlack
    MaxDelay,   \* a message of a living peer is read at most this much later
    MaxData,    \* bound: messages other than PING and PONG
    MayHang     \* the endpoints that may stop without closing

\* Startup rejects an interval larger than the timeout and five seconds.
ASSUME HeartbeatAssumption ==
    /\ {Interval, Timeout} \subseteq Nat \ {0, 1}
    /\ {Slack, MaxDelay, MaxData} \subseteq Nat
    /\ Interval <= Timeout + Slack
    /\ MayHang \subseteq {"host", "client"}

Ends == {"host", "client"}
Other(e) == CHOOSE f \in Ends : f # e

VARIABLES
    idle,       \* since the last message was read: lastActivity, lastRx
    probe,      \* since the PING that is not answered yet, or NoProbe
    ticker,     \* until the ticker's next tick
    inbox,      \* messages on their way: kind and age
    ended,      \* why the endpoint closed: "watchdog", "deadline", "peer", ..., or ""
    hung,       \* the endpoints that stopped
    since,      \* history: how long ago each of them stopped, or 0
    data        \* how many other messages were sent

vars == <<idle, probe, ticker, inbox, ended, hung, since, data>>

NoProbe == -1
Half == Interval \div 2

\* SetSteadyReadTimeout
Deadline == Interval + Timeout + Slack

Up(e) == ended[e] = "" /\ e \notin hung

Sent(e, kind) == [inbox EXCEPT ![Other(e)] = Append(@, [kind |-> kind, age |-> 0])]

------------------------------------------------------------------------------

\* The host counts from the probe; the client from the last message.
GivesUp(e) ==
    /\ probe[e] # NoProbe
    /\ IF e = "host" THEN probe[e] >= Timeout ELSE idle[e] >= Timeout

\* Mistake: a probe counts as activity.
BeatIsActivity(e) ==
    /\ Up(e) /\ ticker[e] = 0
    /\ ticker' = [ticker EXCEPT ![e] = Half]
    /\ ended' = [ended EXCEPT ![e] = IF GivesUp(e) THEN "watchdog" ELSE ""]
    /\ IF ~GivesUp(e) /\ idle[e] >= Half
       THEN /\ probe' = [probe EXCEPT ![e] = IF @ = NoProbe THEN 0 ELSE @]
            /\ idle' = [idle EXCEPT ![e] = 0]
            /\ inbox' = Sent(e, "ping")
       ELSE UNCHANGED <<idle, probe, inbox>>
    /\ UNCHANGED <<hung, since, data>>

\* A tick of heartbeatLoop or keepaliveLoop: give up, probe, or nothing.
Beat(e) ==
    /\ Up(e) /\ ticker[e] = 0
    /\ ticker' = [ticker EXCEPT ![e] = Half]
    /\ ended' = [ended EXCEPT ![e] = IF GivesUp(e) THEN "watchdog" ELSE ""]
    /\ IF ~GivesUp(e) /\ idle[e] >= Half
       THEN /\ probe' = [probe EXCEPT ![e] = IF @ = NoProbe THEN 0 ELSE @]
            /\ inbox' = Sent(e, "ping")
       ELSE UNCHANGED <<probe, inbox>>
    /\ UNCHANGED <<idle, hung, since, data>>

\* Mistake: the answer leaves the probe as it is.
ReadKeepsProbe(e) ==
    /\ Up(e) /\ inbox[e] # <<>>
    /\ idle' = [idle EXCEPT ![e] = 0]
    /\ LET rest == [inbox EXCEPT ![e] = Tail(@)]
       IN  inbox' = IF Head(inbox[e]).kind = "ping"
                    THEN [rest EXCEPT ![Other(e)] = Append(@, [kind |-> "pong", age |-> 0])]
                    ELSE rest
    /\ UNCHANGED <<probe, ticker, ended, hung, since, data>>

\* Receive, with recordActivity or touch: every message answers the probe, and
\* a PING is answered at once.
Read(e) ==
    /\ Up(e) /\ inbox[e] # <<>>
    /\ idle' = [idle EXCEPT ![e] = 0]
    /\ probe' = [probe EXCEPT ![e] = NoProbe]
    /\ LET rest == [inbox EXCEPT ![e] = Tail(@)]
       IN  inbox' = IF Head(inbox[e]).kind = "ping"
                    THEN [rest EXCEPT ![Other(e)] = Append(@, [kind |-> "pong", age |-> 0])]
                    ELSE rest
    /\ UNCHANGED <<ticker, ended, hung, since, data>>

\* withReadDeadline
ReadExpires(e) ==
    /\ Up(e) /\ idle[e] >= Deadline
    /\ ended' = [ended EXCEPT ![e] = "deadline"]
    /\ UNCHANGED <<idle, probe, ticker, inbox, hung, since, data>>

\* The user quits, or the session ends for another reason.
Close(e) ==
    /\ Up(e)
    /\ ended' = [ended EXCEPT ![e] = "closed"]
    /\ UNCHANGED <<idle, probe, ticker, inbox, hung, since, data>>

\* The end of the connection arrives behind what was sent before it.
PeerCloses(e) ==
    /\ Up(e) /\ ended[Other(e)] # "" /\ inbox[e] = <<>>
    /\ ended' = [ended EXCEPT ![e] = "peer"]
    /\ UNCHANGED <<idle, probe, ticker, inbox, hung, since, data>>

\* A frame or an input event.
SendData(e) ==
    /\ Up(e) /\ data < MaxData
    /\ data' = data + 1
    /\ inbox' = Sent(e, "data")
    /\ UNCHANGED <<idle, probe, ticker, ended, hung, since>>

Hang(e) ==
    /\ e \in MayHang /\ Up(e)
    /\ hung' = hung \cup {e}
    /\ UNCHANGED <<idle, probe, ticker, inbox, ended, since, data>>

\* Time goes on by one when nothing is due.
Age ==
    /\ \E e \in Ends : Up(e)
    /\ \A e \in Ends : Up(e) =>
          /\ ticker[e] > 0
          /\ idle[e] < Deadline
          /\ \A i \in DOMAIN inbox[e] : inbox[e][i].age < MaxDelay
          /\ ended[Other(e)] # "" => inbox[e] # <<>>
    /\ idle' = [e \in Ends |-> IF Up(e) THEN idle[e] + 1 ELSE idle[e]]
    /\ probe' = [e \in Ends |-> IF Up(e) /\ probe[e] # NoProbe THEN probe[e] + 1 ELSE probe[e]]
    /\ ticker' = [e \in Ends |-> IF Up(e) THEN ticker[e] - 1 ELSE ticker[e]]
    /\ inbox' = [e \in Ends |-> IF Up(e) THEN [i \in DOMAIN inbox[e] |-> [inbox[e][i] EXCEPT !.age = @ + 1]]
                                ELSE <<>>]
    /\ since' = [e \in Ends |-> IF e \in hung THEN since[e] + 1 ELSE 0]
    /\ UNCHANGED <<ended, hung, data>>

\* The loops start at different moments.
Init ==
    /\ idle = [e \in Ends |-> 0]
    /\ probe = [e \in Ends |-> NoProbe]
    /\ ticker \in [Ends -> 1 .. Half]
    /\ inbox = [e \in Ends |-> <<>>]
    /\ ended = [e \in Ends |-> ""]
    /\ hung = {} /\ since = [e \in Ends |-> 0] /\ data = 0

Next ==
    \/ \E e \in Ends :
          Beat(e) \/ Read(e) \/ ReadExpires(e) \/ PeerCloses(e) \/ Close(e)
          \/ SendData(e) \/ Hang(e)
    \/ Age

Spec == Init /\ [][Next]_vars

------------------------------------------------------------------------------

\* Every variable keeps its type; a probe is out only while its sender is idle.
TypeOK ==
    /\ idle \in [Ends -> 0 .. Deadline]
    /\ probe \in [Ends -> {NoProbe} \cup 0 .. Deadline]
    /\ \A e \in Ends : probe[e] # NoProbe => probe[e] + Half <= idle[e]
    /\ ticker \in [Ends -> 0 .. Half]
    /\ \A e \in Ends : inbox[e] \in Seq([kind : {"ping", "pong", "data"}, age : 0 .. MaxDelay])
    /\ ended \in [Ends -> {"", "watchdog", "deadline", "peer", "closed"}]
    /\ hung \subseteq MayHang
    /\ since \in [Ends -> Nat] /\ data \in 0 .. MaxData

\* A probe and its answer fit before the next tick, or before the timeout of a
\* session that has been idle for an interval: what the intervals have to leave
\* to the network.  By default the next tick is 15 s away.
AnswersInTime == 2 * MaxDelay < Half \/ Interval + 2 * MaxDelay <= Timeout

\* Neither watchdog and neither read deadline gives up a peer that does not hang
\* and whose messages take at most MaxDelay, however idle the session: "a peer
\* whose PONGs keep arriving can never be reaped by scheduling jitter"
\* (heartbeatLoop), and the deadline stays behind the watchdog that probes in time
\* (ServeConn, "D7").  Not with every delay: keepaliveLoop counts the timeout from
\* the last message, not from its probe, and may close after Half of silence past
\* the probe, so an answer that takes longer comes too late unless Timeout leaves
\* it room beyond Interval.
KeepsTheLiving ==
    AnswersInTime =>
        \A e \in Ends : ended[e] \in {"watchdog", "deadline"} => Other(e) \in hung

\* A peer that hangs is noticed: no endpoint stays up longer than its deadline
\* after the last message the other can have left on its way, whatever the
\* endpoint itself sends meanwhile.
NoticedInTime ==
    \A e \in Ends : Up(e) => since[Other(e)] <= Interval + Timeout + Slack + MaxDelay
==============================================================================
