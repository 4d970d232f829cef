------------------------------- MODULE Peers -------------------------------
(***************************************************************************)
(* The two transport.Peer of one connection, from NewPeerConn to Close:    *)
(* the state machine, the record versions and numbers, and the goroutines  *)
(* that send, receive and close on the same Peer.                          *)
(*                                                                         *)
(*   internal/transport/peer.go     Peer                                   *)
(*   internal/protocol/codec.go     Encoder, Decoder                       *)
(*   internal/protocol/types.go     ValidateState, NegotiateVersion        *)
(*   internal/session/session.go    Accept, acceptHello                    *)
(*   internal/client/session.go     ServeConn                              *)
(*   internal/host/service.go       Run                                    *)
(*                                                                         *)
(* A message is its type and, for the hellos and ERROR, what the receiver  *)
(* decides on. Each side sends only what ValidateDirection allows it, so   *)
(* that check is left out. Nobody in the program sends CLOSE.              *)
(***************************************************************************)
EXTENDS Naturals, Sequences

CONSTANTS
    MaxSends,    \* bound: messages a side sends once it is established
    MayClose     \* the sides whose reads may be cut short and whose watchdog may close

ASSUME PeersAssumption == MaxSends \in Nat /\ MayClose \subseteq {"client", "host"}

Sides == {"client", "host"}
Other(p) == CHOOSE q \in Sides : q # p

VARIABLES
    setting,    \* the flags of both programs: known, busy, offer, serverMax
    state,      \* Peer.state
    cHello,     \* Peer.clientHelloSeen
    sHello,     \* Peer.serverHelloSeen
    once,       \* whether Peer.close has run
    encoder,    \* Encoder.version and sequence
    decoder,    \* Decoder.minVersion, maxVersion and sequence
    sock,       \* rawConn: "open" or "closed"
    wire,       \* records on their way to a side
    sending,    \* the Send that holds sendMu, or None
    received,   \* the message Decode returned and Receive has yet to check, or None
    stage,      \* what the goroutine that establishes the session does next
    agreed,     \* the version the side negotiated, 0 before
    sends,      \* messages sent since the session was established
    failure     \* history: why the side ended

vars == <<setting, state, cHello, sHello, once, encoder, decoder, sock, wire, sending, received,
          stage, agreed, sends, failure>>
flags == <<cHello, sHello>>
codec == <<encoder, decoder>>

None == [type |-> "none"]

------------------------------------------------------------------------------
\* protocol.NegotiateVersion, protocol.ValidateState and Peer.validateState

\* Mistake: the higher of the two maxima.
NegotiatedHigher(offer, max) == IF max > offer THEN max ELSE offer

Negotiated(offer, max) == IF max < offer THEN max ELSE offer

Valid(p, t) ==
    \/ state[p] = "authenticating" /\ t \in {"auth", "error"}
    \/ /\ state[p] = "negotiating"
       /\ \/ t = "client_hello" /\ ~cHello[p]
          \/ t = "server_hello" /\ cHello[p] /\ ~sHello[p]
          \/ t = "display_config" /\ cHello[p] /\ sHello[p]
          \/ t = "error"
    \/ state[p] = "active" /\ t \notin {"auth", "client_hello", "server_hello"}

\* Mistake: hellos are remembered only by the side that sent them.
AdvanceOwnHello(p, t) ==
    /\ state' = [state EXCEPT ![p] = IF t = "auth" THEN "negotiating"
                                       ELSE IF t = "display_config" THEN "active" ELSE @]
    /\ cHello' = [cHello EXCEPT ![p] = @ \/ (t = "client_hello" /\ p = "client")]
    /\ sHello' = [sHello EXCEPT ![p] = @ \/ (t = "server_hello" /\ p = "host")]

\* Peer.advance looks at the message, never at the state it leaves.
Advance(p, t) ==
    /\ state' = [state EXCEPT ![p] = IF t = "auth" THEN "negotiating"
                                       ELSE IF t = "display_config" THEN "active" ELSE @]
    /\ cHello' = [cHello EXCEPT ![p] = @ \/ t = "client_hello"]
    /\ sHello' = [sHello EXCEPT ![p] = @ \/ t = "server_hello"]

\* Peer.Close
ClosePeer(p) ==
    /\ once' = [once EXCEPT ![p] = TRUE]
    /\ sock' = [sock EXCEPT ![p] = "closed"]
    /\ state' = [state EXCEPT ![p] = IF once[p] THEN @ ELSE "closed"]

\* The establishing goroutine returns. Accept and handleConnection close the
\* socket, not the Peer; ServeConn defers both, and PeerClose is that Close.
Return(p, why) ==
    /\ stage' = [stage EXCEPT ![p] = "over"]
    /\ failure' = [failure EXCEPT ![p] = IF stage[p] = "over" THEN @ ELSE why]

\* A peer that was closed says no to everything: that is not the other's doing.
Why(p, reason) == IF once[p] THEN "closed" ELSE reason

------------------------------------------------------------------------------
\* Peer.Send: the check, the record, the advance; sendMu is held throughout.

\* by: the stage the establishing goroutine is at after the send, or "" when
\* another goroutine sends.
Begin(p, t, body, by) ==
    sending' = [sending EXCEPT ![p] = [type |-> t, body |-> body, by |-> by, written |-> FALSE]]

SendStage(p, at, t, body, next) ==
    /\ stage[p] = at /\ sending[p] = None
    /\ IF Valid(p, t)
       THEN /\ Begin(p, t, body, next)
            /\ stage' = [stage EXCEPT ![p] = "sending"]
            /\ UNCHANGED <<sock, failure>>
       ELSE Return(p, Why(p, "state")) /\ UNCHANGED <<sending, sock>>
    /\ UNCHANGED <<setting, state, flags, once, codec, wire, received, agreed, sends>>

\* A goroutine of the side sends t: the user's key, a probe, the answer to one,
\* a frame, the configuration after a resize. What is not valid is dropped.
SendOther(p, t) ==
    /\ sends[p] < MaxSends /\ sends' = [sends EXCEPT ![p] = @ + 1]
    /\ sending[p] = None
    /\ IF Valid(p, t) THEN Begin(p, t, 0, "") ELSE UNCHANGED sending
    /\ UNCHANGED <<setting, state, flags, once, codec, sock, wire, received, stage, agreed, failure>>

\* Mistake: the record is not counted.
WriteUncounted(p) ==
    LET s == sending[p]  n == encoder[p].sequence + 1 IN
    /\ s # None /\ ~s.written
    /\ wire' = [wire EXCEPT ![Other(p)] =
           Append(@, [type |-> s.type, body |-> s.body,
                      version |-> encoder[p].version, sequence |-> n])]
    /\ sending' = [sending EXCEPT ![p].written = TRUE]
    /\ UNCHANGED <<setting, state, flags, once, codec, sock, received, stage, agreed, sends, failure>>

\* Encode: the record takes the encoder's version and the next number. When the
\* connection is gone, or a FRAME_PART would ride a v1 record, Send closes.
Write(p) ==
    LET s == sending[p]  n == encoder[p].sequence + 1 IN
    /\ s # None /\ ~s.written
    /\ IF sock[p] = "open" /\ ~(s.type = "frame_part" /\ encoder[p].version < 2)
       THEN /\ encoder' = [encoder EXCEPT ![p].sequence = n]
            /\ wire' = [wire EXCEPT ![Other(p)] =
                   Append(@, [type |-> s.type, body |-> s.body,
                              version |-> encoder[p].version, sequence |-> n])]
            /\ sending' = [sending EXCEPT ![p].written = TRUE]
            /\ UNCHANGED <<sock, once, state, stage, failure>>
       ELSE /\ ClosePeer(p)
            /\ Return(p, IF sock[p] = "open" THEN "version" ELSE "closed")
            /\ sending' = [sending EXCEPT ![p] = None]
            /\ UNCHANGED <<encoder, wire>>
    /\ UNCHANGED <<setting, flags, decoder, received, agreed, sends>>

\* A session that was refused is over once ERROR is out.
Sent(p) ==
    LET s == sending[p] IN
    /\ s # None /\ s.written
    /\ Advance(p, s.type)
    /\ sending' = [sending EXCEPT ![p] = None]
    /\ IF s.by = "over"
       THEN Return(p, "refused") /\ sock' = [sock EXCEPT ![p] = "closed"]
       ELSE /\ stage' = [stage EXCEPT ![p] = IF s.by = "" \/ @ = "over" THEN @ ELSE s.by]
            /\ UNCHANGED <<sock, failure>>
    /\ UNCHANGED <<setting, once, codec, wire, received, agreed, sends>>

------------------------------------------------------------------------------
\* Peer.Receive: Decode, the check, the advance; receiveMu is held throughout.

Receiving == {"recv_auth", "recv_client_hello", "recv_server_hello", "recv_config", "established"}

\* Decoder.Decode: the record's version is in the window, a FRAME_PART is on a v2
\* record, and no record is missing.
Acceptable(d, r) ==
    /\ r.version \in d.minVersion..d.maxVersion
    /\ r.type = "frame_part" => r.version = 2
    /\ r.sequence = d.sequence + 1

Decode(p) ==
    LET r == Head(wire[p]) IN
    /\ stage[p] \in Receiving /\ received[p] = None
    /\ sock[p] = "open" /\ wire[p] # <<>>
    /\ wire' = [wire EXCEPT ![p] = Tail(@)]
    /\ IF Acceptable(decoder[p], r)
       THEN /\ decoder' = [decoder EXCEPT ![p].sequence = r.sequence]
            /\ received' = [received EXCEPT ![p] = r]
            /\ UNCHANGED <<state, once, sock, stage, failure>>
       ELSE ClosePeer(p) /\ Return(p, "record") /\ UNCHANGED <<decoder, received>>
    /\ UNCHANGED <<setting, flags, encoder, sending, agreed, sends>>

\* The message expected at the stage brings the next one.
Expect(p, at, t, next) ==
    /\ stage[p] = at
    /\ IF received[p].type = t
       THEN stage' = [stage EXCEPT ![p] = next] /\ UNCHANGED failure
       ELSE Return(p, IF received[p].type = "error" THEN "refused" ELSE "unexpected")
    /\ Advance(p, received[p].type)

\* Mistake: the slot is asked for and its refusal ignored.
AuthenticateOnly(p) ==
    /\ stage[p] = "recv_auth"
    /\ IF setting.known
       THEN Expect(p, "recv_auth", "auth", "recv_client_hello") /\ UNCHANGED <<once, sock>>
       ELSE ClosePeer(p) /\ Return(p, "refused") /\ UNCHANGED flags
    /\ UNCHANGED agreed

\* AuthenticateHost compares the token after Receive has advanced the peer, and
\* then Admissions.acquire says whether the slot is free.
Authenticate(p) ==
    /\ stage[p] = "recv_auth"
    /\ IF setting.known
       THEN /\ Expect(p, "recv_auth", "auth", IF setting.busy THEN "send_busy" ELSE "recv_client_hello")
            /\ UNCHANGED <<once, sock>>
       ELSE ClosePeer(p) /\ Return(p, "refused") /\ UNCHANGED flags
    /\ UNCHANGED agreed

ClientHello(p) ==
    /\ Expect(p, "recv_client_hello", "client_hello", "pin")
    /\ agreed' = [agreed EXCEPT ![p] = Negotiated(received[p].body, setting.serverMax)]
    /\ UNCHANGED <<once, sock>>

ServerHello(p) ==
    /\ Expect(p, "recv_server_hello", "server_hello", "pin")
    /\ agreed' = [agreed EXCEPT ![p] = received[p].body]
    /\ UNCHANGED <<once, sock>>

FirstConfig(p) ==
    /\ Expect(p, "recv_config", "display_config", "established")
    /\ UNCHANGED <<once, sock, agreed>>

InSession(p) ==
    /\ stage[p] = "established"
    /\ Advance(p, received[p].type)
    /\ UNCHANGED <<once, sock, stage, agreed, failure>>

Check(p) ==
    /\ received[p] # None
    /\ IF Valid(p, received[p].type)
       THEN Authenticate(p) \/ ClientHello(p) \/ ServerHello(p) \/ FirstConfig(p) \/ InSession(p)
       ELSE ClosePeer(p) /\ Return(p, Why(p, "state")) /\ UNCHANGED <<flags, agreed>>
    /\ received' = [received EXCEPT ![p] = None]
    /\ UNCHANGED <<setting, codec, wire, sending, sends>>

\* The other end is gone: the read fails, and may fail before what was sent has
\* been read (the reset that answers data nobody reads overtakes it).
ReceiveFails(p) ==
    /\ stage[p] \in Receiving /\ received[p] = None
    /\ "closed" \in {sock[p], sock[Other(p)]}
    /\ ClosePeer(p) /\ Return(p, "closed")
    /\ UNCHANGED <<setting, flags, codec, wire, sending, received, agreed, sends>>

------------------------------------------------------------------------------
\* PinVersion

\* Mistake: only what is sent changes its version.
PinEncoder(p) ==
    /\ stage[p] = "pin" /\ sending[p] = None
    /\ encoder' = [encoder EXCEPT ![p].version = agreed[p]]
    /\ stage' = [stage EXCEPT ![p] = IF p = "host" THEN "send_server_hello" ELSE "recv_config"]
    /\ UNCHANGED <<setting, state, flags, once, decoder, sock, wire, sending, received, agreed, sends, failure>>

Pin(p) ==
    /\ stage[p] = "pin" /\ sending[p] = None
    /\ encoder' = [encoder EXCEPT ![p].version = agreed[p]]
    /\ decoder' = [decoder EXCEPT ![p].minVersion = agreed[p], ![p].maxVersion = agreed[p]]
    /\ stage' = [stage EXCEPT ![p] = IF p = "host" THEN "send_server_hello" ELSE "recv_config"]
    /\ UNCHANGED <<setting, state, flags, once, sock, wire, sending, received, agreed, sends, failure>>

\* ServeConn widens the window after it has sent CLIENT_HELLO.
Widen ==
    /\ stage["client"] = "widen"
    /\ decoder' = [decoder EXCEPT !["client"].maxVersion = setting.offer]
    /\ stage' = [stage EXCEPT !["client"] = "recv_server_hello"]
    /\ UNCHANGED <<setting, state, flags, once, encoder, sock, wire, sending, received, agreed, sends, failure>>

------------------------------------------------------------------------------
\* The two programs

FrameTypes == {"frame"} \cup IF agreed["host"] = 2 THEN {"frame_part"} ELSE {}

Client ==
    \/ SendStage("client", "send_auth", "auth", 0, "send_client_hello")
    \/ SendStage("client", "send_client_hello", "client_hello", setting.offer, "widen")
    \/ Widen
    \/ SendOther("client", "key")

Host ==
    \/ SendStage("host", "send_busy", "error", 0, "over")
    \/ SendStage("host", "send_server_hello", "server_hello", agreed["host"], "send_config")
    \/ SendStage("host", "send_config", "display_config", 0, "send_frame")
    \/ \E t \in FrameTypes : SendStage("host", "send_frame", t, 0, "established")
    \/ /\ stage["host"] = "established"
       /\ \E t \in FrameTypes \cup {"display_config", "ping"} : SendOther("host", t)

\* A read meets its deadline, or the context it runs under is cancelled.
ReadCutShort(p) ==
    /\ p \in MayClose
    /\ stage[p] \in Receiving /\ received[p] = None
    /\ ClosePeer(p) /\ Return(p, "closed")
    /\ UNCHANGED <<setting, flags, codec, wire, sending, received, agreed, sends>>

\* The client's keepaliveLoop closes the Peer it watches.
WatchdogCloses ==
    /\ "client" \in MayClose
    /\ stage["client"] = "established" /\ ~once["client"]
    /\ ClosePeer("client")
    /\ UNCHANGED <<setting, flags, codec, wire, sending, received, stage, agreed, sends, failure>>

\* What is deferred: ServeConn closes the Peer, Accept and handleConnection the
\* socket.
Teardown(p) ==
    /\ stage[p] = "over" /\ sock[p] = "open"
    /\ IF p = "client" THEN ClosePeer(p)
       ELSE sock' = [sock EXCEPT ![p] = "closed"] /\ UNCHANGED <<once, state>>
    /\ UNCHANGED <<setting, flags, codec, wire, sending, received, stage, agreed, sends, failure>>

Init ==
    /\ setting \in [known : BOOLEAN, busy : BOOLEAN, offer : {1, 2}, serverMax : {1, 2}]
    /\ state = [p \in Sides |-> "authenticating"]
    /\ cHello = [p \in Sides |-> FALSE] /\ sHello = cHello /\ once = cHello
    /\ encoder = [p \in Sides |-> [version |-> 1, sequence |-> 0]]
    /\ decoder = [p \in Sides |-> [minVersion |-> 1, maxVersion |-> 1, sequence |-> 0]]
    /\ sock = [p \in Sides |-> "open"]
    /\ wire = [p \in Sides |-> <<>>]
    /\ sending = [p \in Sides |-> None] /\ received = sending
    /\ stage = [p \in Sides |-> IF p = "client" THEN "send_auth" ELSE "recv_auth"]
    /\ agreed = [p \in Sides |-> 0] /\ sends = agreed
    /\ failure = [p \in Sides |-> ""]

Step(p) == Write(p) \/ Sent(p) \/ Decode(p) \/ Check(p) \/ Pin(p) \/ ReceiveFails(p) \/ Teardown(p)

Next == Client \/ Host \/ WatchdogCloses \/ \E p \in Sides : Step(p) \/ ReadCutShort(p)

Spec == Init /\ [][Next]_vars

\* Every goroutine that can go on does; the messages of others and the closing
\* of others may never come.
Establishing == \/ stage["client"] # "established" /\ Client
                \/ stage["host"] # "established" /\ Host
FairSpec == Spec /\ WF_vars(Establishing) /\ \A p \in Sides : WF_vars(Step(p))

------------------------------------------------------------------------------
Admitted == setting.known /\ ~setting.busy

\* The state of each Peer, its window of record versions, its two record
\* counters and what is on the wire stay in their sets (transport/peer.go).
TypeOK ==
    /\ state \in [Sides -> {"authenticating", "negotiating", "active", "closed"}]
    /\ \A p \in Sides : sends[p] \in 0..MaxSends /\ agreed[p] \in 0..2
    /\ \A p \in Sides : encoder[p].sequence = decoder[Other(p)].sequence + Len(wire[Other(p)])
                        \/ failure[Other(p)] = "record"

\* Both sides settle on the lower of the two maxima, and while a session lasts
\* both codecs stay at it, although each side pins by itself and the host
\* pins before its SERVER_HELLO is out.
VersionsAgree ==
    /\ \A p \in Sides : agreed[p] # 0 =>
           agreed[p] \in {setting.offer, setting.serverMax} /\ agreed[p] <= setting.offer
           /\ agreed[p] <= setting.serverMax
    /\ \A p \in Sides : stage[p] = "established" =>
           /\ encoder[p].version = agreed[p]
           /\ decoder[p].minVersion = agreed[p] /\ decoder[p].maxVersion = agreed[p]

\* Between two programs that follow the protocol, no record is refused for its
\* version, its number or the state it meets, however the user's input and the
\* heartbeats mix with the establishment.
HonestNeverRejected == \A p \in Sides : failure[p] \notin {"record", "state", "unexpected", "version"}

\* Nothing of the session or the desktop is written to a client whose token is
\* wrong or that found the host busy.
OnlyTheAdmittedSee ==
    ~Admitted => \A i \in DOMAIN wire["client"] : wire["client"][i].type = "error"

\* The establishment ends on both sides without any deadline having to cut it
\* short: refused, both sides end; admitted, each reaches the session, unless
\* a read is cut short, and then the other side ends as well.
Settles ==
    \/ ~Admitted /\ <>(\A p \in Sides : stage[p] = "over" /\ sock[p] = "closed")
    \/ Admitted /\ <>(\A p \in Sides : \/ stage[p] = "established"
                                       \/ stage[p] = "over" /\ failure[p] = "closed")
==============================================================================
