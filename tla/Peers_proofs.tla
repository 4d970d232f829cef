---------------------------- MODULE Peers_proofs ----------------------------
(***************************************************************************)
(* Two peers that follow the protocol never refuse one another, whatever   *)
(* the number of messages and whoever is closed from aside.                *)
(*                                                                         *)
(* The four invariants of Peers say what each side finds; none of them is  *)
(* inductive, because what a side finds was sent by the other.  IInv is a  *)
(* conversation: which record carries which number (Numbered, Scripted),   *)
(* and, for every stage of each side, its state, its codec and how many    *)
(* records it has written and read (ClientTable, HostTable).               *)
(***************************************************************************)
EXTENDS Peers, SequenceTheorems, TLAPS

ClientStages == {"send_auth", "send_client_hello", "sending", "widen", "recv_server_hello", "pin",
                 "recv_config", "established", "over"}
HostStages == {"recv_auth", "send_busy", "recv_client_hello", "pin", "send_server_hello", "send_config",
               "send_frame", "sending", "established", "over"}
Stages == ClientStages \cup HostStages
InSessionTypes == {"display_config", "frame", "frame_part", "ping"}
Types == {"auth", "client_hello", "server_hello", "error", "key"} \cup InSessionTypes

Record == [type: Types, body: 0 .. 2, version: {1, 2}, sequence: Nat]
Sending == [type: Types, body: 0 .. 2, by: Stages \cup {""}, written: BOOLEAN]
Encoders == [version: {1, 2}, sequence: Nat]
Decoders == [minVersion: {1, 2}, maxVersion: {1, 2}, sequence: Nat]

Typed ==
    /\ setting \in [known : BOOLEAN, busy : BOOLEAN, offer : {1, 2}, serverMax : {1, 2}]
    /\ state \in [Sides -> {"authenticating", "negotiating", "active", "closed"}]
    /\ cHello \in [Sides -> BOOLEAN] /\ sHello \in [Sides -> BOOLEAN] /\ once \in [Sides -> BOOLEAN]
    /\ encoder \in [Sides -> Encoders]
    /\ decoder \in [Sides -> Decoders]
    /\ sock \in [Sides -> {"open", "closed"}]
    /\ wire \in [Sides -> Seq(Record)]
    /\ sending \in [Sides -> {None} \cup Sending]
    /\ received \in [Sides -> {None} \cup Record]
    /\ stage \in [Sides -> Stages]
    /\ agreed \in [Sides -> 0 .. 2] /\ sends \in [Sides -> 0 .. MaxSends]
    /\ DOMAIN failure = Sides

\* The version the two programs settle on.
Settled == Negotiated(setting.offer, setting.serverMax)
AgreedOnSettled == \A p \in Sides : agreed[p] \in {0, Settled}

\* No record is lost, duplicated or reordered between an encoder and the decoder
\* at its other end.
Numbered ==
    \A p \in Sides : /\ encoder[Other(p)].sequence = decoder[p].sequence + Len(wire[p])
                     /\ \A i \in 1 .. Len(wire[p]) : wire[p][i].sequence = decoder[p].sequence + i
                     /\ received[p] # None => received[p].sequence = decoder[p].sequence

\* What each side says, by the number of the record.
ForHost(r) ==
    /\ r.sequence > 0
    /\ r.sequence = 1 => r.type = "auth" /\ r.version = 1
    /\ r.sequence = 2 => r.type = "client_hello" /\ r.version = 1 /\ r.body = setting.offer
    /\ r.sequence > 2 => r.type = "key" /\ r.version = Settled

ForAdmitted(r) ==
    /\ r.version = Settled
    /\ r.sequence = 1 => r.type = "server_hello" /\ r.body = Settled
    /\ r.sequence = 2 => r.type = "display_config"
    /\ r.sequence > 2 => r.type \in InSessionTypes
    /\ r.type = "frame_part" => r.version = 2

ForClient(r) ==
    /\ r.sequence > 0
    /\ Admitted => ForAdmitted(r)
    /\ ~Admitted => r.type = "error" /\ r.body = 0 /\ r.version = 1 /\ r.sequence = 1

Scripted ==
    /\ \A i \in 1 .. Len(wire["host"]) : ForHost(wire["host"][i])
    /\ \A i \in 1 .. Len(wire["client"]) : ForClient(wire["client"][i])
    /\ received["host"] # None => ForHost(received["host"])
    /\ received["client"] # None => ForClient(received["client"])

At(p, st, c, s) == state[p] = st /\ cHello[p] = c /\ sHello[p] = s
Window(p, lo, hi) == decoder[p].minVersion = lo /\ decoder[p].maxVersion = hi
Codec(p, v, lo, hi) == encoder[p].version = v /\ Window(p, lo, hi)
Pinned(p) == agreed[p] = Settled /\ Codec(p, Settled, Settled, Settled)

Written(p) == IF sending[p].written THEN 1 ELSE 0
Got(p) == IF received[p] = None THEN 0 ELSE 1

\* The records p has written and read.
Wrote(p, n) == encoder[p].sequence = n
Read(p, n) == decoder[p].sequence = n

ClientSends ==
    \/ /\ sending["client"].type = "auth" /\ sending["client"].by = "send_client_hello"
       /\ Wrote("client", Written("client")) /\ At("client", "authenticating", FALSE, FALSE)
    \/ /\ sending["client"].type = "client_hello" /\ sending["client"].by = "widen"
       /\ sending["client"].body = setting.offer
       /\ Wrote("client", 1 + Written("client")) /\ At("client", "negotiating", FALSE, FALSE)

ClientStage(at) ==
    /\ at = "send_auth" =>
         Wrote("client", 0) /\ Read("client", 0) /\ At("client", "authenticating", FALSE, FALSE) /\ Codec("client", 1, 1, 1)
    /\ at = "send_client_hello" =>
         Wrote("client", 1) /\ Read("client", 0) /\ At("client", "negotiating", FALSE, FALSE) /\ Codec("client", 1, 1, 1)
    /\ at = "sending" =>
         sending["client"] # None /\ ClientSends /\ Read("client", 0) /\ Codec("client", 1, 1, 1)
    /\ at = "widen" =>
         Wrote("client", 2) /\ Read("client", 0) /\ At("client", "negotiating", TRUE, FALSE) /\ Codec("client", 1, 1, 1)
    /\ at = "recv_server_hello" =>
         /\ Wrote("client", 2) /\ Read("client", Got("client")) /\ At("client", "negotiating", TRUE, FALSE)
         /\ Codec("client", 1, 1, setting.offer)
    /\ at = "pin" =>
         /\ Wrote("client", 2) /\ Read("client", 1) /\ At("client", "negotiating", TRUE, TRUE)
         /\ agreed["client"] = Settled
    /\ at = "recv_config" =>
         Wrote("client", 2) /\ Read("client", 1 + Got("client")) /\ At("client", "negotiating", TRUE, TRUE) /\ Pinned("client")
    /\ at = "established" =>
         /\ encoder["client"].sequence >= 2 /\ decoder["client"].sequence >= 2 + Got("client") /\ Pinned("client")
         /\ once["client"] \/ At("client", "active", TRUE, TRUE)
         /\ sending["client"] # None => sending["client"].type = "key" /\ sending["client"].by = ""
    /\ at = "over" =>
         sock["client"] = "closed" \/ (sending["client"] = None /\ state["client"] = "negotiating")

ClientTable ==
    /\ stage["client"] \in ClientStages /\ ClientStage(stage["client"])
    /\ stage["client"] \notin {"sending", "established", "over"} => sending["client"] = None
    /\ stage["client"] \notin Receiving \cup {"over"} => received["client"] = None

HostSends ==
    \/ /\ sending["host"].type = "error" /\ sending["host"].by = "over" /\ sending["host"].body = 0 /\ ~Admitted
       /\ Wrote("host", Written("host")) /\ encoder["host"].version = 1 /\ At("host", "negotiating", FALSE, FALSE)
    \/ /\ Admitted /\ Read("host", 2) /\ Pinned("host")
       /\ \/ /\ sending["host"].type = "server_hello" /\ sending["host"].by = "send_config"
             /\ sending["host"].body = Settled
             /\ Wrote("host", Written("host")) /\ At("host", "negotiating", TRUE, FALSE)
          \/ /\ sending["host"].type = "display_config" /\ sending["host"].by = "send_frame"
             /\ Wrote("host", 1 + Written("host")) /\ At("host", "negotiating", TRUE, TRUE)
          \/ /\ sending["host"].type \in {"frame", "frame_part"} /\ sending["host"].by = "established"
             /\ sending["host"].type = "frame_part" => Settled = 2
             /\ Wrote("host", 2 + Written("host")) /\ At("host", "active", TRUE, TRUE)

HostStage(at) ==
    /\ at = "recv_auth" =>
         Wrote("host", 0) /\ Read("host", Got("host")) /\ At("host", "authenticating", FALSE, FALSE) /\ Codec("host", 1, 1, 1)
    /\ at = "send_busy" =>
         Wrote("host", 0) /\ ~Admitted /\ At("host", "negotiating", FALSE, FALSE) /\ Codec("host", 1, 1, 1)
    /\ at = "recv_client_hello" =>
         /\ Wrote("host", 0) /\ Read("host", 1 + Got("host")) /\ At("host", "negotiating", FALSE, FALSE)
         /\ Codec("host", 1, 1, 1) /\ Admitted
    /\ at = "pin" =>
         /\ Wrote("host", 0) /\ Read("host", 2) /\ At("host", "negotiating", TRUE, FALSE)
         /\ agreed["host"] = Settled /\ Admitted
    /\ at = "send_server_hello" =>
         Wrote("host", 0) /\ Read("host", 2) /\ At("host", "negotiating", TRUE, FALSE) /\ Pinned("host") /\ Admitted
    /\ at = "send_config" =>
         Wrote("host", 1) /\ Read("host", 2) /\ At("host", "negotiating", TRUE, TRUE) /\ Pinned("host") /\ Admitted
    /\ at = "send_frame" =>
         Wrote("host", 2) /\ Read("host", 2) /\ At("host", "active", TRUE, TRUE) /\ Pinned("host") /\ Admitted
    /\ at = "sending" => sending["host"] # None /\ HostSends
    /\ at = "established" =>
         /\ encoder["host"].sequence >= 3 /\ decoder["host"].sequence >= 2 + Got("host")
         /\ At("host", "active", TRUE, TRUE) /\ Pinned("host") /\ Admitted
         /\ sending["host"] # None =>
               /\ sending["host"].type \in InSessionTypes /\ sending["host"].by = ""
               /\ sending["host"].type = "frame_part" => Settled = 2
    /\ at = "over" => sock["host"] = "closed"

HostTable ==
    /\ stage["host"] \in HostStages /\ HostStage(stage["host"])
    /\ stage["host"] \notin {"sending", "established", "over"} => sending["host"] = None
    /\ stage["host"] \notin Receiving \cup {"over"} => received["host"] = None

Rejections == {"record", "state", "unexpected", "version"}

\* Whoever is closed has closed its socket, and only an established client is
\* closed by another goroutine than the one that establishes.
ClientSide == /\ ClientTable /\ failure["client"] \notin Rejections
              /\ once["client"] => sock["client"] = "closed" /\ stage["client"] \in {"established", "over"}

HostSide == /\ HostTable /\ failure["host"] \notin Rejections
            /\ once["host"] => sock["host"] = "closed" /\ stage["host"] = "over"

IInv == Typed /\ AgreedOnSettled /\ Numbered /\ Scripted /\ ClientSide /\ HostSide

------------------------------------------------------------------------------
\* The two sides are each other's other side.
LEMMA TwoSides ==
    /\ Other("client") = "host" /\ Other("host") = "client"
    /\ \A p \in Sides : Other(p) \in Sides /\ Other(p) # p
<1>1. \A p \in Sides : \E q \in Sides : q # p
  BY DEF Sides
<1>2. \A p \in Sides : Other(p) \in Sides /\ Other(p) # p
  BY <1>1 DEF Other
<1> QED BY <1>2 DEF Sides

\* No message is None.
LEMMA NoneByType == \A m : m.type # "none" => m # None
BY DEF None

LEMMA NoneIsNoMessage == \A m \in Record \cup Sending : m # None
<1>1. "none" \notin Types
  BY DEF Types, InSessionTypes
<1>2. \A m \in Record \cup Sending : m.type \in Types
  BY DEF Record, Sending
<1> QED BY <1>1, <1>2, NoneByType

\* Two maxima settle on one of them, and on neither more nor less.
LEMMA SettledOn ==
    ASSUME Typed
    PROVE  /\ Settled \in {1, 2} /\ Settled <= setting.offer /\ Settled <= setting.serverMax
           /\ Settled \in {setting.offer, setting.serverMax}
BY DEF Typed, Settled, Negotiated

\* The history of endings keeps its domain.
LEMMA ReturnTyped ==
    ASSUME Typed, NEW p \in Sides, NEW why, Return(p, why)
    PROVE  stage' \in [Sides -> Stages] /\ DOMAIN failure' = Sides
BY DEF Typed, Return, Stages, ClientStages

LEMMA CloseTyped ==
    ASSUME Typed, NEW p \in Sides, ClosePeer(p)
    PROVE  /\ once' \in [Sides -> BOOLEAN] /\ sock' \in [Sides -> {"open", "closed"}]
           /\ state' \in [Sides -> {"authenticating", "negotiating", "active", "closed"}]
BY DEF Typed, ClosePeer

LEMMA AdvanceTyped ==
    ASSUME Typed, NEW p \in Sides, NEW t, Advance(p, t)
    PROVE  /\ cHello' \in [Sides -> BOOLEAN] /\ sHello' \in [Sides -> BOOLEAN]
           /\ state' \in [Sides -> {"authenticating", "negotiating", "active", "closed"}]
BY DEF Typed, Advance

LEMMA BeginTyped ==
    ASSUME Typed, NEW p \in Sides, NEW t \in Types, NEW body \in 0 .. 2, NEW by \in Stages \cup {""},
           Begin(p, t, body, by)
    PROVE  sending' \in [Sides -> {None} \cup Sending]
<1>1. [type |-> t, body |-> body, by |-> by, written |-> FALSE] \in Sending
  BY DEF Sending
<1> QED BY <1>1 DEF Typed, Begin

------------------------------------------------------------------------------
\* Pinning, widening and counting leave a codec a codec.
LEMMA CodecsStay ==
    /\ \A e \in Encoders, v \in {1, 2} : [e EXCEPT !.version = v] \in Encoders
    /\ \A e \in Encoders, n \in Nat : [e EXCEPT !.sequence = n] \in Encoders
    /\ \A d \in Decoders, v \in {1, 2} : /\ [d EXCEPT !.minVersion = v, !.maxVersion = v] \in Decoders
                                       /\ [d EXCEPT !.maxVersion = v] \in Decoders
    /\ \A d \in Decoders, n \in Nat : [d EXCEPT !.sequence = n] \in Decoders
BY DEF Encoders, Decoders

\* Each operation leaves every variable in its type.
LEMMA SendStageTyped ==
    ASSUME Typed, NEW p \in Sides, NEW at, NEW t \in Types, NEW body \in 0 .. 2,
           NEW next \in Stages, SendStage(p, at, t, body, next)
    PROVE  Typed'
<1>1. CASE Valid(p, t)
  <2>1. sending' \in [Sides -> {None} \cup Sending]
    BY <1>1, BeginTyped DEF SendStage
  <2>2. stage' \in [Sides -> Stages]
    BY <1>1 DEF SendStage, Typed, Stages, ClientStages
  <2> QED BY <1>1, <2>1, <2>2 DEF SendStage, Typed, flags, codec
<1>2. CASE ~Valid(p, t)
  BY <1>2, ReturnTyped DEF SendStage, Typed, flags, codec
<1> QED BY <1>1, <1>2

LEMMA SendOtherTyped ==
    ASSUME Typed, NEW p \in Sides, NEW t \in Types, SendOther(p, t)
    PROVE  Typed'
<1>1. sending' \in [Sides -> {None} \cup Sending]
  <2>1. CASE Valid(p, t)
    <3>1. [type |-> t, body |-> 0, by |-> "", written |-> FALSE] \in Sending
      BY DEF Sending
    <3>2. Begin(p, t, 0, "")
      BY <2>1 DEF SendOther
    <3> QED BY <3>1, <3>2 DEF Begin, Typed
  <2>2. CASE ~Valid(p, t)
    BY <2>2 DEF SendOther, Typed
  <2> QED BY <2>1, <2>2
<1>2. sends' \in [Sides -> 0 .. MaxSends]
  <2>1. sends[p] \in 0 .. MaxSends /\ sends[p] < MaxSends /\ MaxSends \in Nat
    BY PeersAssumption DEF SendOther, Typed
  <2>2. sends[p] + 1 \in 0 .. MaxSends
    BY <2>1
  <2> QED BY <2>2 DEF SendOther, Typed
<1> QED BY <1>1, <1>2 DEF SendOther, Typed, flags, codec

LEMMA WriteTyped ==
    ASSUME Typed, NEW p \in Sides, Write(p)
    PROVE  Typed'
<1> DEFINE s == sending[p]
           record == [type |-> s.type, body |-> s.body, version |-> encoder[p].version,
                      sequence |-> encoder[p].sequence + 1]
           goes == sock[p] = "open" /\ ~(s.type = "frame_part" /\ encoder[p].version < 2)
<1>1. s \in Sending
  BY DEF Write, Typed
<1>2. CASE goes
  <2>1. /\ encoder' = [encoder EXCEPT ![p].sequence = encoder[p].sequence + 1]
        /\ wire' = [wire EXCEPT ![Other(p)] = Append(wire[Other(p)], record)]
        /\ sending' = [sending EXCEPT ![p].written = TRUE]
        /\ UNCHANGED <<sock, once, state, stage, failure>>
    BY <1>2 DEF Write
  <2>2. record \in Record
    <3>1. encoder[p].version \in {1, 2} /\ encoder[p].sequence + 1 \in Nat
      BY DEF Typed, Encoders
    <3>2. s.type \in Types /\ s.body \in 0 .. 2
      BY <1>1 DEF Sending
    <3> QED BY <3>1, <3>2 DEF Record
  <2>3. wire' \in [Sides -> Seq(Record)]
    <3>1. Append(wire[Other(p)], record) \in Seq(Record)
      BY <2>2, TwoSides, AppendProperties DEF Typed
    <3> HIDE DEF record
    <3> QED BY <2>1, <3>1 DEF Typed
  <2>4. encoder' \in [Sides -> Encoders]
    <3> DEFINE n == encoder[p].sequence + 1
    <3>1. encoder' = [encoder EXCEPT ![p] = [encoder[p] EXCEPT !.sequence = n]]
      BY <2>1
    <3>2. n \in Nat
      BY DEF Typed, Encoders
    <3> HIDE DEF n
    <3>3. [encoder[p] EXCEPT !.sequence = n] \in Encoders
      BY <3>2, CodecsStay DEF Typed
    <3> QED BY <3>1, <3>3 DEF Typed
  <2>5. sending' \in [Sides -> {None} \cup Sending]
    <3>1. [s EXCEPT !.written = TRUE] \in Sending
      BY <1>1 DEF Sending
    <3>2. sending' = [sending EXCEPT ![p] = [s EXCEPT !.written = TRUE]]
      BY <2>1
    <3> QED BY <3>1, <3>2 DEF Typed
  <2> QED BY <2>1, <2>3, <2>4, <2>5 DEF Write, Typed, flags
<1>3. CASE ~goes
  <2>1. /\ ClosePeer(p) /\ Return(p, IF sock[p] = "open" THEN "version" ELSE "closed")
        /\ sending' = [sending EXCEPT ![p] = None] /\ UNCHANGED <<encoder, wire>>
    BY <1>3 DEF Write
  <2> QED BY <2>1, CloseTyped, ReturnTyped DEF Write, Typed, flags
<1> QED BY <1>2, <1>3

LEMMA SentTyped ==
    ASSUME Typed, NEW p \in Sides, Sent(p)
    PROVE  Typed'
<1> DEFINE s == sending[p]
<1>1. s \in Sending
  BY DEF Sent, Typed
<1>2. Advance(p, s.type) /\ sending' = [sending EXCEPT ![p] = None]
  BY DEF Sent
<1>3. sending' \in [Sides -> {None} \cup Sending]
  BY <1>2 DEF Typed
<1>4. stage' \in [Sides -> Stages] /\ DOMAIN failure' = Sides /\ sock' \in [Sides -> {"open", "closed"}]
  <2>1. CASE s.by = "over"
    BY <2>1, ReturnTyped DEF Sent, Typed
  <2>2. CASE s.by # "over"
    <3>1. /\ stage' = [stage EXCEPT ![p] = IF s.by = "" \/ stage[p] = "over" THEN stage[p] ELSE s.by]
          /\ UNCHANGED <<sock, failure>>
      BY <2>2 DEF Sent
    <3> QED BY <1>1, <3>1 DEF Typed, Sending
  <2> QED BY <2>1, <2>2
<1> QED BY <1>2, <1>3, <1>4, AdvanceTyped DEF Sent, Typed, codec

LEMMA DecodeTyped ==
    ASSUME Typed, NEW p \in Sides, Decode(p)
    PROVE  Typed'
<1> DEFINE r == Head(wire[p])
<1>1. wire[p] \in Seq(Record) /\ wire[p] # <<>>
  BY DEF Decode, Typed
<1>2. r \in Record /\ Tail(wire[p]) \in Seq(Record)
  BY <1>1, HeadTailProperties
<1>3. wire' \in [Sides -> Seq(Record)]
  BY <1>2 DEF Decode, Typed
<1>4. CASE Acceptable(decoder[p], r)
  <2>1. /\ decoder' = [decoder EXCEPT ![p].sequence = r.sequence]
        /\ received' = [received EXCEPT ![p] = r]
        /\ UNCHANGED <<state, once, sock, stage, failure>>
    BY <1>4 DEF Decode
  <2>2. decoder' \in [Sides -> Decoders]
    <3>1. r.sequence \in Nat
      BY SMTT(30), <1>2 DEF Record
    <3>2. [decoder[p] EXCEPT !.sequence = r.sequence]
             \in Decoders
      BY <3>1, CodecsStay DEF Typed
    <3>3. decoder' = [decoder EXCEPT ![p] = [decoder[p] EXCEPT !.sequence = r.sequence]]
      BY <2>1
    <3> HIDE DEF r
    <3> QED BY <3>2, <3>3 DEF Typed
  <2>3. received' \in [Sides -> {None} \cup Record]
    BY <1>2, <2>1 DEF Typed
  <2> QED BY <1>3, <2>1, <2>2, <2>3 DEF Decode, Typed, flags
<1>5. CASE ~Acceptable(decoder[p], r)
  BY <1>3, <1>5, CloseTyped, ReturnTyped DEF Decode, Typed, flags
<1> QED BY <1>4, <1>5

LEMMA ExpectTyped ==
    ASSUME Typed, NEW p \in Sides, NEW at, NEW t, NEW next \in Stages, Expect(p, at, t, next)
    PROVE  /\ stage' \in [Sides -> Stages] /\ DOMAIN failure' = Sides
           /\ cHello' \in [Sides -> BOOLEAN] /\ sHello' \in [Sides -> BOOLEAN]
           /\ state' \in [Sides -> {"authenticating", "negotiating", "active", "closed"}]
<1>1. Advance(p, received[p].type)
  BY DEF Expect
<1>2. stage' \in [Sides -> Stages] /\ DOMAIN failure' = Sides
  <2>1. CASE received[p].type = t
    <3>1. stage' = [stage EXCEPT ![p] = next] /\ UNCHANGED failure
      BY <2>1 DEF Expect
    <3> QED BY <3>1 DEF Typed
  <2>2. CASE received[p].type # t
    BY <2>2, ReturnTyped DEF Expect
  <2> QED BY <2>1, <2>2
<1> QED BY <1>1, <1>2, AdvanceTyped

LEMMA CheckTyped ==
    ASSUME Typed, NEW p \in Sides, Check(p),
           stage[p] = "recv_client_hello" => Negotiated(received[p].body, setting.serverMax) \in 0 .. 2
    PROVE  Typed'
<1> USE DEF Stages, ClientStages, HostStages
<1>1. received' \in [Sides -> {None} \cup Record]
  BY DEF Check, Typed
<1>2. received[p] \in Record
  BY DEF Check, Typed
<1>3. /\ stage' \in [Sides -> Stages] /\ DOMAIN failure' = Sides /\ agreed' \in [Sides -> 0 .. 2]
      /\ cHello' \in [Sides -> BOOLEAN] /\ sHello' \in [Sides -> BOOLEAN] /\ once' \in [Sides -> BOOLEAN]
      /\ state' \in [Sides -> {"authenticating", "negotiating", "active", "closed"}]
      /\ sock' \in [Sides -> {"open", "closed"}]
  <2>1. CASE ~Valid(p, received[p].type)
    BY <2>1, CloseTyped, ReturnTyped DEF Check, Typed, flags
  <2>2. CASE Authenticate(p)
    <3>1. CASE setting.known
      BY <2>2, <3>1, ExpectTyped DEF Authenticate, Typed
    <3>2. CASE ~setting.known
      BY <2>2, <3>2, CloseTyped, ReturnTyped DEF Authenticate, Typed, flags
    <3> QED BY <3>1, <3>2
  <2>3. CASE ClientHello(p)
    <3>1. agreed' \in [Sides -> 0 .. 2]
      BY <2>3 DEF ClientHello, Expect, Typed
    <3> QED BY <2>3, <3>1, ExpectTyped DEF ClientHello, Typed
  <2>4. CASE ServerHello(p)
    <3>1. agreed' \in [Sides -> 0 .. 2]
      BY <1>2, <2>4 DEF ServerHello, Typed, Record
    <3> QED BY <2>4, <3>1, ExpectTyped DEF ServerHello, Typed
  <2>5. CASE FirstConfig(p)
    BY <2>5, ExpectTyped DEF FirstConfig, Typed
  <2>6. CASE InSession(p)
    BY <2>6, AdvanceTyped DEF InSession, Typed
  <2> QED BY <2>1, <2>2, <2>3, <2>4, <2>5, <2>6 DEF Check
<1> QED BY <1>1, <1>3 DEF Check, Typed, codec

LEMMA PinTyped ==
    ASSUME Typed, NEW p \in Sides, Pin(p), agreed[p] \in {1, 2}
    PROVE  Typed'
<1> DEFINE v == agreed[p]
<1>1. encoder' \in [Sides -> Encoders]
  <2>1. [encoder[p] EXCEPT !.version = v] \in Encoders
    BY CodecsStay DEF Typed
  <2>2. encoder' = [encoder EXCEPT ![p] = [encoder[p] EXCEPT !.version = v]]
    BY DEF Pin
  <2> QED BY <2>1, <2>2 DEF Typed
<1>2. decoder' \in [Sides -> Decoders]
  <2>1. [decoder[p] EXCEPT !.minVersion = v, !.maxVersion = v]
           \in Decoders
    BY CodecsStay DEF Typed
  <2>2. decoder' = [decoder EXCEPT ![p] = [decoder[p] EXCEPT !.minVersion = v, !.maxVersion = v]]
    BY DEF Pin
  <2> QED BY SMTT(30), <2>1, <2>2 DEF Typed
<1> QED BY <1>1, <1>2 DEF Pin, Typed, flags, Stages, ClientStages, HostStages

LEMMA WidenTyped ==
    ASSUME Typed, Widen
    PROVE  Typed'
<1> DEFINE d == decoder["client"]
<1>1. decoder' \in [Sides -> Decoders]
  <2>1. [d EXCEPT !.maxVersion = setting.offer] \in Decoders
    BY CodecsStay DEF Typed, Sides
  <2>2. decoder' = [decoder EXCEPT !["client"] = [d EXCEPT !.maxVersion = setting.offer]]
    BY DEF Widen
  <2> QED BY <2>1, <2>2 DEF Typed
<1> QED BY <1>1 DEF Widen, Typed, flags, Stages, ClientStages

LEMMA ClosedTyped ==
    ASSUME Typed, NEW p \in Sides, ReceiveFails(p) \/ ReadCutShort(p)
    PROVE  Typed'
<1>1. ClosePeer(p) /\ Return(p, "closed")
  BY DEF ReceiveFails, ReadCutShort
<1> QED BY <1>1, CloseTyped, ReturnTyped DEF ReceiveFails, ReadCutShort, Typed, flags, codec

LEMMA TornDownTyped ==
    ASSUME Typed, WatchdogCloses \/ \E p \in Sides : Teardown(p)
    PROVE  Typed'
<1>1. CASE WatchdogCloses
  <2>1. "client" \in Sides /\ ClosePeer("client")
    BY <1>1 DEF WatchdogCloses, Sides
  <2> QED BY <1>1, <2>1, CloseTyped DEF WatchdogCloses, Typed, flags, codec
<1>2. ASSUME NEW p \in Sides, Teardown(p)  PROVE Typed'
  <2>1. CASE p = "client"
    BY <1>2, <2>1, CloseTyped DEF Teardown, Typed, flags, codec
  <2>2. CASE p # "client"
    BY ZenonT(40), <1>2, <2>2 DEF Teardown, Typed, flags, codec
  <2> QED BY <2>1, <2>2
<1> QED BY <1>1, <1>2

------------------------------------------------------------------------------
\* A side's own state, in its Peer, its two codecs and its goroutines.
Kept(q) ==
    /\ state'[q] = state[q] /\ cHello'[q] = cHello[q] /\ sHello'[q] = sHello[q] /\ once'[q] = once[q]
    /\ encoder'[q] = encoder[q] /\ decoder'[q] = decoder[q] /\ sock'[q] = sock[q]
    /\ sending'[q] = sending[q] /\ received'[q] = received[q] /\ stage'[q] = stage[q]
    /\ agreed'[q] = agreed[q] /\ failure'[q] = failure[q]

SendsStage(p) == \E at, t, body, next : SendStage(p, at, t, body, next)
SendsOther(p) == \E t : SendOther(p, t)
Closes(p) == ReceiveFails(p) \/ ReadCutShort(p) \/ Teardown(p) \/ (WatchdogCloses /\ p = "client")

\* What a side does changes nothing of the other's.
LEMMA OthersKept ==
    ASSUME Typed, NEW p \in Sides, NEW q \in Sides, p # q,
           SendsStage(p) \/ SendsOther(p) \/ Write(p) \/ Sent(p) \/ Decode(p) \/ Check(p) \/ Pin(p)
           \/ Closes(p) \/ (Widen /\ p = "client")
    PROVE  Kept(q) /\ setting' = setting
<1> USE DEF Kept, Typed, flags, codec
<1>1. CASE SendsStage(p)
  BY <1>1 DEF SendsStage, SendStage, Begin, Return
<1>2. CASE SendsOther(p)
  BY <1>2 DEF SendsOther, SendOther, Begin
<1>3. CASE Write(p)
  BY <1>3 DEF Write, ClosePeer, Return
<1>4. CASE Sent(p)
  BY <1>4 DEF Sent, Advance, Return
<1>5. CASE Decode(p)
  BY <1>5 DEF Decode, ClosePeer, Return
<1>6. CASE Check(p)
  <2>1. CASE ~Valid(p, received[p].type)
    BY <1>6, <2>1 DEF Check, ClosePeer, Return
  <2>2. CASE Authenticate(p)
    <3>1. CASE setting.known
      BY <1>6, <2>2, <3>1 DEF Check, Authenticate, Expect, Advance, Return
    <3>2. CASE ~setting.known
      BY <1>6, <2>2, <3>2 DEF Check, Authenticate, ClosePeer, Return
    <3> QED BY <3>1, <3>2
  <2>3. CASE ClientHello(p)
    BY <1>6, <2>3 DEF Check, ClientHello, Expect, Advance, Return
  <2>4. CASE ServerHello(p)
    BY <1>6, <2>4 DEF Check, ServerHello, Expect, Advance, Return
  <2>5. CASE FirstConfig(p)
    BY <1>6, <2>5 DEF Check, FirstConfig, Expect, Advance, Return
  <2>6. CASE InSession(p)
    BY <1>6, <2>6 DEF Check, InSession, Advance
  <2> QED BY <1>6, <2>1, <2>2, <2>3, <2>4, <2>5, <2>6 DEF Check
<1>7. CASE Pin(p)
  BY <1>7 DEF Pin
<1>8. CASE Closes(p)
  BY <1>8 DEF Closes, ReceiveFails, ReadCutShort, Teardown, WatchdogCloses, ClosePeer, Return
<1>9. CASE Widen /\ p = "client"
  BY <1>9 DEF Widen
<1> QED BY <1>1, <1>2, <1>3, <1>4, <1>5, <1>6, <1>7, <1>8, <1>9

\* So the other's table still describes it.
LEMMA SidesKept ==
    ASSUME setting' = setting
    PROVE  /\ ClientSide /\ Kept("client") => ClientSide'
           /\ HostSide /\ Kept("host") => HostSide'
<1>1. Settled' = Settled /\ Admitted' = Admitted
  BY DEF Settled, Admitted
<1>2. ASSUME ClientSide, Kept("client")  PROVE ClientSide'
  <2> USE <1>1, <1>2 DEF Kept
  <2>1. ClientStage(stage["client"])'
    BY ZenonT(40) DEF ClientSide, ClientTable, ClientStage, ClientSends, Wrote, Read, At, Codec, Window, Pinned, Written, Got
  <2> QED BY <2>1 DEF ClientSide, ClientTable
<1>3. ASSUME HostSide, Kept("host")  PROVE HostSide'
  <2> USE <1>1, <1>3 DEF Kept
  <2>1. Pinned("host")' = Pinned("host") /\ Codec("host", 1, 1, 1)' = Codec("host", 1, 1, 1)
    BY DEF Pinned, Codec, Window
  <2>2. HostSends => HostSends'
    BY <2>1 DEF HostSends, Wrote, Read, At, Written
  <2>3. HostStage(stage["host"]) => HostStage(stage["host"])'
    BY <2>1, <2>2 DEF HostStage, Wrote, Read, At, Got
  <2>4. HostStage(stage["host"])'
    BY <2>3 DEF HostSide, HostTable
  <2> QED BY <2>4 DEF HostSide, HostTable
<1> QED BY <1>2, <1>3

------------------------------------------------------------------------------
\* What a side reads next is the next record, and it is what the script says.
LEMMA HeadIsNext ==
    ASSUME IInv, NEW p \in Sides, wire[p] # <<>>
    PROVE  /\ Head(wire[p]) \in Record /\ Head(wire[p]).sequence = decoder[p].sequence + 1
           /\ p = "client" => ForClient(Head(wire[p]))
           /\ p = "host" => ForHost(Head(wire[p]))
<1>1. wire[p] \in Seq(Record)
  BY DEF IInv, Typed
<1>2. Len(wire[p]) >= 1 /\ Head(wire[p]) = wire[p][1] /\ Head(wire[p]) \in Record
  BY <1>1, HeadTailProperties, EmptySeq, LenProperties
<1>3. 1 \in 1 .. Len(wire[p])
  BY <1>1, <1>2
<1>4. wire[p][1].sequence = decoder[p].sequence + 1
  BY <1>3 DEF IInv, Numbered
<1>5. p = "client" => ForClient(wire[p][1])
  BY <1>3 DEF IInv, Scripted
<1>6. p = "host" => ForHost(wire[p][1])
  BY <1>3 DEF IInv, Scripted
<1> QED BY <1>2, <1>4, <1>5, <1>6

\* The client keeps to its table.
LEMMA ClientSendsStages ==
    ASSUME IInv,
           \/ SendStage("client", "send_auth", "auth", 0, "send_client_hello")
           \/ SendStage("client", "send_client_hello", "client_hello", setting.offer, "widen")
    PROVE  ClientSide'
<1> USE DEF ClientSide, ClientTable, ClientStage, ClientSends, ClientStages, Wrote, Read, At, Codec, Window,
            Written, Rejections, Receiving, Begin, Sides, codec, flags
<1>1. CASE SendStage("client", "send_auth", "auth", 0, "send_client_hello")
  <2>1. Valid("client", "auth")
    BY <1>1 DEF IInv, SendStage, Valid
  <2>2. sending'["client"] = [type |-> "auth", body |-> 0, by |-> "send_client_hello", written |-> FALSE]
    BY <1>1, <2>1 DEF SendStage, IInv, Typed
  <2>3. sending'["client"] # None
    BY <2>2 DEF None
  <2> QED BY <1>1, <2>1, <2>2, <2>3 DEF SendStage, IInv, Typed
<1>2. CASE SendStage("client", "send_client_hello", "client_hello", setting.offer, "widen")
  <2>1. Valid("client", "client_hello")
    BY <1>2 DEF IInv, SendStage, Valid
  <2>2. sending'["client"] = [type |-> "client_hello", body |-> setting.offer, by |-> "widen", written |-> FALSE]
    BY <1>2, <2>1 DEF SendStage, IInv, Typed
  <2>3. sending'["client"] # None
    BY <2>2 DEF None
  <2> QED BY <1>2, <2>1, <2>2, <2>3 DEF SendStage, IInv, Typed
<1> QED BY <1>1, <1>2

LEMMA ClientSendsOthers ==
    ASSUME IInv, SendOther("client", "key")
    PROVE  ClientSide'
<1>1. CASE Valid("client", "key")
  <2>1. state["client"] = "active"
    BY <1>1 DEF Valid
  <2>2. \/ stage["client"] = "established"
        \/ stage["client"] = "over" /\ sock["client"] = "closed"
    BY <2>1 DEF IInv, ClientSide, ClientTable, ClientStage, ClientStages, ClientSends, At, SendOther
  <2>3. sending'["client"].type = "key" /\ sending'["client"].by = ""
    <3> DEFINE m == [type |-> "key", body |-> 0, by |-> "", written |-> FALSE]
    <3>1. sending' = [sending EXCEPT !["client"] = m]
      BY <1>1 DEF SendOther, Begin
    <3>2. m.type = "key" /\ m.by = ""
      OBVIOUS
    <3> HIDE DEF m
    <3>3. sending'["client"] = m
      BY <3>1 DEF IInv, Typed, Sides
    <3> QED BY <3>2, <3>3
  <2>4. sending'["client"] # None
    BY <2>3, NoneByType
  <2> QED BY <1>1, <2>2, <2>3, <2>4
       DEF SendOther, IInv, ClientSide, ClientTable, ClientStage, ClientStages, Wrote, Read, At, Codec, Window,
           Pinned, Settled, Got, Receiving, codec, flags
<1>2. CASE ~Valid("client", "key")
  <2>1. Kept("client") /\ setting' = setting
    BY <1>2 DEF SendOther, Kept, codec, flags
  <2> QED BY <2>1, SidesKept DEF IInv
<1> QED BY <1>1, <1>2

LEMMA ClientWrites ==
    ASSUME IInv, Write("client")
    PROVE  ClientSide'
<1> DEFINE s == sending["client"]
           goes == sock["client"] = "open" /\ ~(s.type = "frame_part" /\ encoder["client"].version < 2)
<1> USE DEF Sides
<1>1. s # None /\ ~s.written /\ s \in Sending
  BY DEF Write, IInv, Typed
<1>2. CASE goes
  <2>1. stage["client"] \in {"sending", "established"}
    BY <1>1, <1>2 DEF IInv, ClientSide, ClientTable, ClientStages, ClientStage
  <2>2. /\ encoder' = [encoder EXCEPT !["client"].sequence = encoder["client"].sequence + 1]
        /\ sending' = [sending EXCEPT !["client"].written = TRUE]
        /\ UNCHANGED <<sock, once, state, stage, failure, setting, flags, decoder, received, agreed>>
    BY <1>2 DEF Write
  <2>3. /\ encoder'["client"].sequence = encoder["client"].sequence + 1
        /\ encoder'["client"].version = encoder["client"].version
    BY <2>2 DEF IInv, Typed, Encoders
  <2>4. /\ sending'["client"].type = s.type /\ sending'["client"].by = s.by
        /\ sending'["client"].body = s.body /\ sending'["client"].written = TRUE
    BY <1>1, <2>2 DEF IInv, Typed, Sending
  <2>5. sending'["client"] # None
    <3>1. s.type # "none"
      BY <1>1 DEF Sending, Types, InSessionTypes
    <3> QED BY <2>4, <3>1, NoneByType
  <2>6. encoder["client"].sequence \in Nat
    BY DEF IInv, Typed, Encoders
  <2>7. CASE stage["client"] = "sending"
    <3>1. ClientSends'
      BY <1>1, <2>2, <2>3, <2>4, <2>6, <2>7
         DEF IInv, ClientSide, ClientTable, ClientStage, ClientSends, Wrote, At, Written, flags
    <3> QED BY <1>1, <2>2, <2>3, <2>5, <2>7, <3>1
         DEF IInv, ClientSide, ClientTable, ClientStage, ClientStages, Read, Codec, Window, Receiving, flags
  <2>8. CASE stage["client"] = "established"
    <3>1. encoder'["client"].sequence >= 2
      <4>1. encoder["client"].sequence >= 2
        BY <2>8 DEF IInv, ClientSide, ClientTable, ClientStage
      <4> QED BY <2>3, <2>6, <4>1
    <3>2. decoder'["client"].sequence >= 2 + Got("client")'
      BY <2>2, <2>8 DEF IInv, ClientSide, ClientTable, ClientStage, Got
    <3>3. Pinned("client")'
      BY <2>2, <2>3, <2>8 DEF IInv, ClientSide, ClientTable, ClientStage, Pinned, Settled, Codec, Window
    <3>4. (once["client"] \/ At("client", "active", TRUE, TRUE))'
      BY <2>2, <2>8 DEF IInv, ClientSide, ClientTable, ClientStage, At, flags
    <3>5. sending'["client"].type = "key" /\ sending'["client"].by = ""
      BY <1>1, <2>4, <2>8 DEF IInv, ClientSide, ClientTable, ClientStage
    <3>6. ClientStage(stage["client"])'
      BY <2>2, <2>8, <3>1, <3>2, <3>3, <3>4, <3>5 DEF ClientStage
    <3> QED BY <2>2, <2>8, <3>6 DEF IInv, ClientSide, ClientTable, ClientStages, Receiving
  <2> QED BY <2>1, <2>7, <2>8
<1>3. CASE ~goes
  <2>1. s.type # "frame_part" \/ sock["client"] # "open"
    BY <1>1 DEF IInv, ClientSide, ClientTable, ClientStage, ClientStages, ClientSends, Typed
  <2>2. ClosePeer("client") /\ Return("client", "closed") /\ sending' = [sending EXCEPT !["client"] = None]
    BY <1>3, <2>1 DEF Write
  <2> QED BY <2>2 DEF IInv, Typed, ClientSide, ClientTable, ClientStage, ClientStages, ClosePeer, Return,
                      Rejections, Receiving
<1> QED BY <1>2, <1>3

LEMMA ClientSent ==
    ASSUME IInv, Sent("client")
    PROVE  ClientSide'
<1> DEFINE s == sending["client"]
<1> USE DEF Sides, IInv, Typed, ClientSide, ClientTable, ClientStages
<1>1. s # None /\ s.written = TRUE /\ s \in Sending /\ Advance("client", s.type) /\ sending'["client"] = None
  BY DEF Sent, Sending
<1>2. UNCHANGED <<setting, once, encoder, decoder, received, agreed>>
  BY DEF Sent, codec
<1>3. CASE stage["client"] = "sending" /\ s.type = "auth"
  <2>1. /\ stage'["client"] = "send_client_hello" /\ failure' = failure
        /\ state'["client"] = "negotiating" /\ cHello'["client"] = cHello["client"] /\ sHello'["client"] = sHello["client"]
    <3>1. s.by = "send_client_hello"
      BY <1>1, <1>3 DEF ClientStage, ClientSends
    <3>2. stage' = [stage EXCEPT !["client"] = "send_client_hello"] /\ failure' = failure
      BY <1>3, <3>1 DEF Sent
    <3> QED BY <1>1, <1>3, <3>2 DEF Advance
  <2> QED BY <1>1, <1>2, <1>3, <2>1
       DEF ClientStage, ClientSends, Wrote, Read, At, Codec, Window, Written, Receiving
<1>4. CASE stage["client"] = "sending" /\ s.type = "client_hello"
  <2>1. /\ stage'["client"] = "widen" /\ failure' = failure
        /\ state'["client"] = state["client"] /\ cHello'["client"] = TRUE /\ sHello'["client"] = sHello["client"]
    BY ZenonT(40), <1>1, <1>4 DEF ClientStage, ClientSends, Sent, Advance
  <2> QED BY <1>1, <1>2, <1>4, <2>1
       DEF ClientStage, ClientSends, Wrote, Read, At, Codec, Window, Written, Receiving
<1>5. CASE stage["client"] = "established"
  <2>1. s.type = "key" /\ s.by = ""
    BY <1>1, <1>5 DEF ClientStage
  <2>2. /\ stage'["client"] = "established" /\ failure' = failure /\ sock' = sock
        /\ state'["client"] = state["client"] /\ cHello'["client"] = cHello["client"] /\ sHello'["client"] = sHello["client"]
    BY ZenonT(40), <1>1, <1>5, <2>1 DEF Sent, Advance
  <2> QED BY <1>1, <1>2, <1>5, <2>2
       DEF ClientStage, At, Codec, Window, Pinned, Settled, Got, Receiving
<1>6. CASE stage["client"] = "over"
  <2>1. sock["client"] = "closed"
    BY <1>1, <1>6 DEF ClientStage
  <2>2. CASE s.by = "over"
    BY <1>1, <1>2, <1>6, <2>1, <2>2 DEF Sent, Return, ClientStage, Receiving
  <2>3. CASE s.by # "over"
    BY <1>1, <1>2, <1>6, <2>1, <2>3 DEF Sent, ClientStage, Receiving
  <2> QED BY <2>2, <2>3
<1> QED BY <1>1, <1>3, <1>4, <1>5, <1>6 DEF ClientStage, ClientSends

LEMMA ClientHasRead ==
    ASSUME IInv
    PROVE  /\ stage["client"] = "recv_config" => decoder["client"].sequence = 1 + Got("client")
           /\ stage["client"] = "established" => decoder["client"].sequence >= 2 + Got("client")
BY DEF IInv, ClientSide, ClientTable, ClientStage, Read

LEMMA ClientDecodes ==
    ASSUME IInv, Decode("client")
    PROVE  ClientSide'
<1> DEFINE r == Head(wire["client"])
           d == decoder["client"]
<1> USE DEF Sides
<1>1. /\ stage["client"] \in {"recv_server_hello", "recv_config", "established"}
      /\ received["client"] = None /\ sock["client"] = "open" /\ ~once["client"] /\ wire["client"] # <<>>
  BY DEF Decode, Receiving, IInv, ClientSide, ClientTable, ClientStages
<1>2. r \in Record /\ r.sequence = d.sequence + 1 /\ ForClient(r)
  BY <1>1, HeadIsNext
<1>3. d.sequence \in Nat /\ d.minVersion \in {1, 2} /\ d.maxVersion \in {1, 2}
  BY DEF IInv, Typed, Decoders
<1>4. Settled \in {1, 2} /\ Settled <= setting.offer
  BY SettledOn DEF IInv
<1>5. Acceptable(d, r)
  <2>1. r.type = "frame_part" => r.version = 2
    BY <1>2 DEF ForClient, ForAdmitted
  <2>2. CASE stage["client"] = "recv_server_hello"
    <3>1. d.minVersion = 1 /\ d.maxVersion = setting.offer
      BY <2>2 DEF IInv, ClientSide, ClientTable, ClientStage, Codec, Window
    <3>2. r.version \in {1, Settled} /\ setting.offer \in {1, 2}
      BY <1>2 DEF ForClient, ForAdmitted, IInv, Typed
    <3>3. r.version \in d.minVersion .. d.maxVersion
      BY <1>3, <1>4, <3>1, <3>2
    <3> HIDE DEF r, d
    <3> QED BY <1>2, <2>1, <3>3 DEF Acceptable
  <2>3. CASE stage["client"] \in {"recv_config", "established"}
    <3>1. d.minVersion = Settled /\ d.maxVersion = Settled /\ d.sequence >= 1
      <4>1. d.minVersion = Settled /\ d.maxVersion = Settled
        BY <2>3 DEF IInv, ClientSide, ClientTable, ClientStage, Pinned, Codec, Window
      <4>2. Got("client") = 0
        BY <1>1 DEF Got
      <4> QED BY <1>3, <2>3, <4>1, <4>2, ClientHasRead
    <3>2. r.version = Settled
      BY <1>2, <1>3, <3>1 DEF ForClient, ForAdmitted
    <3>3. r.version \in d.minVersion .. d.maxVersion
      BY <1>3, <1>4, <3>1, <3>2
    <3> HIDE DEF r, d
    <3> QED BY <1>2, <2>1, <3>3 DEF Acceptable
  <2> QED BY <1>1, <2>2, <2>3
<1>6. /\ decoder' = [decoder EXCEPT !["client"].sequence = r.sequence]
      /\ received' = [received EXCEPT !["client"] = r]
      /\ UNCHANGED <<state, once, sock, stage, failure, setting, flags, encoder, sending, agreed>>
  BY <1>5 DEF Decode
<1> HIDE DEF r
<1>7. /\ decoder'["client"].sequence = d.sequence + 1
      /\ decoder'["client"].minVersion = d.minVersion /\ decoder'["client"].maxVersion = d.maxVersion
  BY <1>2, <1>6 DEF IInv, Typed, Decoders
<1>8. received'["client"] # None /\ Got("client")' = 1 /\ Got("client") = 0
  <2>1. received'["client"] = r
    BY <1>6 DEF IInv, Typed
  <2> QED BY <1>1, <1>2, <2>1, NoneIsNoMessage DEF Got
<1>9. CASE stage["client"] = "recv_server_hello"
  <2>1. decoder["client"].sequence = 0
    BY <1>8, <1>9 DEF IInv, ClientSide, ClientTable, ClientStage, Read
  <2> QED BY <1>6, <1>7, <1>8, <1>9, <2>1
       DEF IInv, ClientSide, ClientTable, ClientStage, ClientStages, Wrote, Read, At, Codec, Window, Receiving, flags
<1>10. CASE stage["client"] = "recv_config"
  <2>1. decoder["client"].sequence = 1
    BY <1>3, <1>8, <1>10, ClientHasRead
  <2> QED BY <1>6, <1>7, <1>8, <1>10, <2>1
       DEF IInv, ClientSide, ClientTable, ClientStage, ClientStages, Wrote, Read, At, Pinned, Codec, Window, Settled,
           Receiving, flags
<1>11. CASE stage["client"] = "established"
  <2>1. decoder["client"].sequence >= 2
    BY <1>3, <1>8, <1>11, ClientHasRead
  <2>2. decoder'["client"].sequence >= 2 + Got("client")'
    BY <1>3, <1>7, <1>8, <2>1
  <2> QED BY <1>6, <1>7, <1>11, <2>2
       DEF IInv, ClientSide, ClientTable, ClientStage, ClientStages, At, Pinned, Codec, Window, Settled,
           Receiving, flags
<1> QED BY <1>1, <1>9, <1>10, <1>11

LEMMA ClientChecks ==
    ASSUME IInv, Check("client")
    PROVE  ClientSide'
<1> DEFINE m == received["client"]
<1> USE DEF Sides
<1>1. m # None /\ m \in Record /\ ForClient(m) /\ m.sequence = decoder["client"].sequence
  BY DEF Check, IInv, Typed, Scripted, Numbered
<1>2. /\ received'["client"] = None /\ Got("client")' = 0 /\ Got("client") = 1
      /\ UNCHANGED <<setting, encoder, decoder, sending>>
  BY <1>1 DEF Check, IInv, Typed, Got, codec
<1>3. stage["client"] \in {"recv_server_hello", "recv_config", "established", "over"}
  BY <1>1 DEF IInv, ClientSide, ClientTable, ClientStages, Receiving
<1>4. CASE stage["client"] = "recv_server_hello"
  <2>1. m.sequence = 1 /\ At("client", "negotiating", TRUE, FALSE) /\ ~once["client"]
    BY <1>1, <1>2, <1>4 DEF IInv, ClientSide, ClientTable, ClientStage, Read
  <2>2. (m.type = "server_hello" /\ m.body = Settled) \/ m.type = "error"
    BY <1>1, <2>1 DEF ForClient, ForAdmitted
  <2>3. Valid("client", m.type)
    BY <2>1, <2>2 DEF Valid, At
  <2>4. ServerHello("client")
    BY <1>4, <2>3 DEF Check, Authenticate, ClientHello, ServerHello, FirstConfig, InSession, Expect
  <2>5. CASE m.type = "server_hello"
    <3>1. /\ stage'["client"] = "pin" /\ failure' = failure /\ agreed'["client"] = Settled /\ once' = once /\ sock' = sock
          /\ state'["client"] = "negotiating" /\ cHello'["client"] = TRUE /\ sHello'["client"] = TRUE
      BY <2>1, <2>2, <2>4, <2>5 DEF ServerHello, Expect, Advance, At, IInv, Typed
    <3> QED BY <1>1, <1>2, <1>4, <2>1, <3>1
         DEF IInv, ClientSide, ClientTable, ClientStage, ClientStages, Wrote, Read, At, Settled, Receiving
  <2>6. CASE m.type = "error"
    <3>1. /\ stage'["client"] = "over" /\ failure'["client"] = "refused" /\ once' = once
          /\ state'["client"] = "negotiating"
      BY <1>4, <2>1, <2>4, <2>6 DEF ServerHello, Expect, Advance, Return, At, IInv, Typed
    <3> QED BY <1>2, <1>4, <2>1, <3>1
         DEF IInv, ClientSide, ClientTable, ClientStage, ClientStages, Receiving, Rejections
  <2> QED BY <2>2, <2>5, <2>6
<1>5. CASE stage["client"] = "recv_config"
  <2>1. m.sequence = 2 /\ At("client", "negotiating", TRUE, TRUE) /\ ~once["client"] /\ decoder["client"].sequence = 2
    <3>1. decoder["client"].sequence = 2
      BY <1>2, <1>5, ClientHasRead
    <3> QED BY <1>1, <1>5, <3>1 DEF IInv, ClientSide, ClientTable, ClientStage
  <2>2. m.type = "display_config"
    BY <1>1, <2>1 DEF ForClient, ForAdmitted
  <2>3. Valid("client", m.type)
    BY <2>1, <2>2 DEF Valid, At
  <2>4. FirstConfig("client")
    BY <1>5, <2>3 DEF Check, Authenticate, ClientHello, ServerHello, FirstConfig, InSession, Expect
  <2>5. /\ stage'["client"] = "established" /\ failure' = failure /\ agreed' = agreed /\ once' = once /\ sock' = sock
        /\ state'["client"] = "active" /\ cHello'["client"] = TRUE /\ sHello'["client"] = TRUE
    BY <2>1, <2>2, <2>4 DEF FirstConfig, Expect, Advance, At, IInv, Typed
  <2>6. encoder'["client"].sequence >= 2 /\ decoder'["client"].sequence >= 2 + Got("client")'
    BY <1>2, <1>5, <2>1 DEF IInv, ClientSide, ClientTable, ClientStage, Wrote
  <2>7. sending'["client"] = None /\ Pinned("client")'
    BY <1>2, <1>5, <2>5 DEF IInv, ClientSide, ClientTable, ClientStage, Pinned, Codec, Window, Settled
  <2> QED BY <1>2, <1>5, <2>1, <2>5, <2>6, <2>7
       DEF IInv, ClientSide, ClientTable, ClientStage, ClientStages, At, Receiving
<1>6. CASE stage["client"] = "established"
  <2>1. decoder["client"].sequence >= 3 /\ decoder["client"].sequence \in Nat
    <3>1. decoder["client"].sequence \in Nat
      BY DEF IInv, Typed, Decoders
    <3> QED BY <1>2, <1>6, <3>1, ClientHasRead
  <2>2. m.type \in InSessionTypes
    BY <1>1, <2>1 DEF ForClient, ForAdmitted
  <2>3. once["client"] \/ At("client", "active", TRUE, TRUE)
    BY <1>6 DEF IInv, ClientSide, ClientTable, ClientStage
  <2>4. CASE Valid("client", m.type)
    <3>1. InSession("client")
      BY <1>6, <2>4 DEF Check, Authenticate, ClientHello, ServerHello, FirstConfig, InSession, Expect
    <3>2. /\ stage'["client"] = "established" /\ failure' = failure /\ agreed' = agreed /\ once' = once /\ sock' = sock
          /\ At("client", "active", TRUE, TRUE) => At("client", "active", TRUE, TRUE)'
      BY <1>6, <2>2, <3>1 DEF InSession, Advance, At, IInv, Typed, InSessionTypes
    <3>3. decoder'["client"].sequence >= 2 + Got("client")'
      BY <1>2, <2>1
    <3> QED BY <1>2, <1>6, <2>3, <3>2, <3>3
         DEF IInv, ClientSide, ClientTable, ClientStage, ClientStages, Pinned, Codec, Window, Settled, Receiving
  <2>5. CASE ~Valid("client", m.type)
    <3>1. once["client"]
      BY <2>2, <2>3, <2>5 DEF Valid, At, InSessionTypes
    <3>2. ClosePeer("client") /\ Return("client", "closed")
      BY <2>5, <3>1 DEF Check, Why
    <3> QED BY <1>2, <3>2
         DEF ClosePeer, Return, IInv, Typed, ClientSide, ClientTable, ClientStage, ClientStages, Receiving, Rejections
  <2> QED BY <2>4, <2>5
<1>7. CASE stage["client"] = "over"
  <2>1. ~Valid("client", m.type)
    BY <1>7 DEF Check, Authenticate, ClientHello, ServerHello, FirstConfig, InSession, Expect
  <2>2. ClosePeer("client") /\ Return("client", Why("client", "state"))
    BY <2>1 DEF Check
  <2> QED BY <1>2, <1>7, <2>2
       DEF ClosePeer, Return, IInv, Typed, ClientSide, ClientTable, ClientStage, ClientStages, Receiving, Rejections
<1> QED BY <1>3, <1>4, <1>5, <1>6, <1>7

LEMMA ClientPinsAndWidens ==
    ASSUME IInv, Pin("client") \/ Widen
    PROVE  ClientSide'
<1> USE DEF Sides, IInv, Typed, ClientSide, ClientTable, ClientStages, flags, Receiving, At
<1>1. CASE Pin("client")
  <2>1. /\ encoder'["client"].version = agreed["client"]
        /\ encoder'["client"].sequence = encoder["client"].sequence
    BY <1>1 DEF Pin, Encoders
  <2>2. decoder'["client"] = [decoder["client"] EXCEPT !.minVersion = agreed["client"], !.maxVersion = agreed["client"]]
    BY <1>1 DEF Pin
  <2>3. /\ decoder'["client"].minVersion = agreed["client"] /\ decoder'["client"].maxVersion = agreed["client"]
        /\ decoder'["client"].sequence = decoder["client"].sequence
    BY <2>2 DEF Decoders
  <2>4. stage["client"] = "pin" /\ stage'["client"] = "recv_config" /\ received["client"] = None
    BY <1>1 DEF Pin
  <2>5. UNCHANGED <<setting, state, cHello, sHello, once, sock, sending, received, agreed, failure>>
    BY <1>1 DEF Pin
  <2> QED BY <2>1, <2>3, <2>4, <2>5 DEF ClientStage, Wrote, Read, Got, Pinned, Codec, Window, Settled
<1>2. CASE Widen
  <2>1. /\ decoder'["client"].maxVersion = setting.offer /\ decoder'["client"].minVersion = decoder["client"].minVersion
        /\ decoder'["client"].sequence = decoder["client"].sequence
    BY <1>2 DEF Widen, Decoders
  <2>2. stage["client"] = "widen" /\ stage'["client"] = "recv_server_hello"
    BY <1>2 DEF Widen
  <2>3. UNCHANGED <<setting, state, cHello, sHello, once, encoder, sock, sending, received, agreed, failure>>
    BY <1>2 DEF Widen
  <2> QED BY <2>1, <2>2, <2>3 DEF ClientStage, Wrote, Read, Got, Codec, Window
<1> QED BY <1>1, <1>2

LEMMA ClientCloses ==
    ASSUME IInv, Closes("client")
    PROVE  ClientSide'
<1> USE DEF Sides, IInv, Typed, ClientSide, ClientTable, ClientStages, flags, Receiving, Rejections
<1>1. CASE ReceiveFails("client") \/ ReadCutShort("client")
  BY <1>1 DEF ReceiveFails, ReadCutShort, ClosePeer, Return, ClientStage
<1>2. CASE Teardown("client")
  BY <1>2 DEF Teardown, ClosePeer, ClientStage
<1>3. CASE WatchdogCloses
  BY <1>3 DEF WatchdogCloses, ClosePeer, ClientStage, Pinned, Codec, Window, Settled, Got, codec
<1> QED BY <1>1, <1>2, <1>3 DEF Closes

------------------------------------------------------------------------------
\* And the host keeps to its own.
LEMMA HostStarts ==
    ASSUME IInv, NEW at, NEW t, NEW body, NEW next, SendStage("host", at, t, body, next), Valid("host", t)
    PROVE  /\ stage["host"] = at /\ stage'["host"] = "sending"
           /\ sending'["host"].type = t /\ sending'["host"].body = body /\ sending'["host"].by = next
           /\ Written("host")' = 0
           /\ UNCHANGED <<setting, state, cHello, sHello, once, encoder, decoder, sock, received, agreed, failure>>
           /\ Settled' = Settled /\ (Admitted' <=> Admitted) /\ (Pinned("host") => Pinned("host")')
<1> DEFINE m == [type |-> t, body |-> body, by |-> next, written |-> FALSE]
<1>1. sending' = [sending EXCEPT !["host"] = m]
  BY DEF SendStage, Begin
<1>2. m.type = t /\ m.body = body /\ m.by = next /\ m.written = FALSE
  OBVIOUS
<1> HIDE DEF m
<1>3. sending'["host"] = m
  BY <1>1 DEF IInv, Typed, Sides
<1>4. stage["host"] = at /\ stage'["host"] = "sending"
  BY DEF SendStage, IInv, Typed, Sides
<1>5. UNCHANGED <<setting, state, cHello, sHello, once, encoder, decoder, sock, received, agreed, failure>>
  BY DEF SendStage, codec, flags
<1>6. Settled' = Settled /\ (Admitted' <=> Admitted)
  BY <1>5 DEF Settled, Admitted
<1>7. Pinned("host") => Pinned("host")'
  BY <1>5, <1>6 DEF Pinned, Codec, Window
<1>8. Written("host")' = 0
  BY <1>2, <1>3 DEF Written
<1> QED BY <1>2, <1>3, <1>4, <1>5, <1>6, <1>7, <1>8

LEMMA HostSendsStages ==
    ASSUME IInv,
           \/ SendStage("host", "send_busy", "error", 0, "over")
           \/ SendStage("host", "send_server_hello", "server_hello", agreed["host"], "send_config")
           \/ SendStage("host", "send_config", "display_config", 0, "send_frame")
           \/ \E t \in FrameTypes : SendStage("host", "send_frame", t, 0, "established")
    PROVE  HostSide'
<1>1. ASSUME NEW at \in {"send_busy", "send_server_hello", "send_config", "send_frame"}, NEW t \in Types,
             NEW body, NEW next, SendStage("host", at, t, body, next), Valid("host", t), HostSends'
      PROVE  HostSide'
  <2>1. stage["host"] = at /\ sending'["host"].type = t /\ stage'["host"] = "sending" /\ once' = once /\ failure' = failure
        /\ received' = received
    BY <1>1, HostStarts
  <2>2. sending'["host"] # None
    BY <2>1, NoneByType DEF Types, InSessionTypes
  <2> QED BY <1>1, <2>1, <2>2, HostStarts
       DEF IInv, HostSide, HostTable, HostStage, HostStages, Receiving
<1>2. CASE SendStage("host", "send_busy", "error", 0, "over")
  <2>1. Valid("host", "error")
    BY <1>2 DEF SendStage, IInv, HostSide, HostTable, HostStage, At, Valid
  <2>2. /\ encoder["host"].sequence = 0 /\ encoder["host"].version = 1 /\ ~Admitted
        /\ At("host", "negotiating", FALSE, FALSE)
    BY <1>2, <2>1, HostStarts DEF IInv, HostSide, HostTable, HostStage, Wrote, Codec
  <2>3. HostSends'
    BY <1>2, <2>1, <2>2, HostStarts DEF HostSends, Wrote, At
  <2> QED BY <1>1, <1>2, <2>1, <2>3 DEF Types
<1>3. CASE SendStage("host", "send_server_hello", "server_hello", agreed["host"], "send_config")
  <2>1. Valid("host", "server_hello")
    BY <1>3 DEF SendStage, IInv, HostSide, HostTable, HostStage, At, Valid
  <2>2. /\ encoder["host"].sequence = 0 /\ decoder["host"].sequence = 2 /\ Admitted /\ Pinned("host")
        /\ At("host", "negotiating", TRUE, FALSE)
    BY <1>3, <2>1, HostStarts DEF IInv, HostSide, HostTable, HostStage, Wrote, Read
  <2>3. agreed["host"] = Settled
    BY <2>2 DEF Pinned
  <2>4. HostSends'
    BY <1>3, <2>1, <2>2, <2>3, HostStarts DEF HostSends, Wrote, Read, At
  <2> QED BY <1>1, <1>3, <2>1, <2>4 DEF Types
<1>4. CASE SendStage("host", "send_config", "display_config", 0, "send_frame")
  <2>1. Valid("host", "display_config")
    BY <1>4 DEF SendStage, IInv, HostSide, HostTable, HostStage, At, Valid
  <2>2. /\ encoder["host"].sequence = 1 /\ decoder["host"].sequence = 2 /\ Admitted /\ Pinned("host")
        /\ At("host", "negotiating", TRUE, TRUE)
    BY <1>4, <2>1, HostStarts DEF IInv, HostSide, HostTable, HostStage, Wrote, Read
  <2>3. HostSends'
    BY <1>4, <2>1, <2>2, HostStarts DEF HostSends, Wrote, Read, At
  <2> QED BY <1>1, <1>4, <2>1, <2>3 DEF Types, InSessionTypes
<1>5. ASSUME NEW t \in FrameTypes, SendStage("host", "send_frame", t, 0, "established")
      PROVE  HostSide'
  <2>1. t \in {"frame", "frame_part"} /\ (t = "frame_part" => agreed["host"] = 2)
    BY DEF FrameTypes
  <2>2. Valid("host", t)
    BY <1>5, <2>1 DEF SendStage, IInv, HostSide, HostTable, HostStage, At, Valid
  <2>3. /\ encoder["host"].sequence = 2 /\ decoder["host"].sequence = 2 /\ Admitted /\ Pinned("host")
        /\ At("host", "active", TRUE, TRUE)
    BY <1>5, <2>2, HostStarts DEF IInv, HostSide, HostTable, HostStage, Wrote, Read
  <2>4. t = "frame_part" => Settled = 2
    BY <2>1, <2>3 DEF Pinned
  <2>5. HostSends'
    BY <1>5, <2>1, <2>2, <2>3, <2>4, HostStarts DEF HostSends, Wrote, Read, At
  <2> QED BY <1>1, <1>5, <2>1, <2>2, <2>5 DEF Types, InSessionTypes
<1> QED BY <1>2, <1>3, <1>4, <1>5

LEMMA HostSendsOthers ==
    ASSUME IInv, stage["host"] = "established", NEW t \in FrameTypes \cup {"display_config", "ping"}, SendOther("host", t)
    PROVE  HostSide'
<1>1. t \in InSessionTypes /\ (t = "frame_part" => Settled = 2)
  BY DEF FrameTypes, InSessionTypes, IInv, HostSide, HostTable, HostStage, Pinned
<1>2. Valid("host", t)
  BY <1>1 DEF Valid, IInv, HostSide, HostTable, HostStage, At, InSessionTypes
<1>3. sending'["host"].type = t /\ sending'["host"].by = ""
  <2> DEFINE m == [type |-> t, body |-> 0, by |-> "", written |-> FALSE]
  <2>1. sending' = [sending EXCEPT !["host"] = m]
    BY <1>2 DEF SendOther, Begin
  <2>2. m.type = t /\ m.by = ""
    OBVIOUS
  <2> HIDE DEF m
  <2> QED BY <2>1, <2>2 DEF IInv, Typed, Sides
<1>4. sending'["host"] # None
  BY <1>1, <1>3, NoneByType DEF InSessionTypes
<1>5. UNCHANGED <<setting, state, cHello, sHello, once, encoder, decoder, sock, received, stage, agreed, failure>>
  BY DEF SendOther, codec, flags
<1> QED BY <1>1, <1>3, <1>4, <1>5
     DEF IInv, HostSide, HostTable, HostStage, HostStages, At, Codec, Window, Pinned, Settled, Admitted, Got, Receiving

LEMMA HostWrites ==
    ASSUME IInv, Write("host")
    PROVE  HostSide'
<1> DEFINE s == sending["host"]
           goes == sock["host"] = "open" /\ ~(s.type = "frame_part" /\ encoder["host"].version < 2)
<1> USE DEF Sides
<1>1. s # None /\ ~s.written /\ s \in Sending
  BY DEF Write, IInv, Typed
<1>2. CASE goes
  <2>1. stage["host"] \in {"sending", "established"}
    BY <1>1, <1>2 DEF IInv, HostSide, HostTable, HostStages, HostStage
  <2>2. /\ encoder' = [encoder EXCEPT !["host"].sequence = encoder["host"].sequence + 1]
        /\ sending' = [sending EXCEPT !["host"].written = TRUE]
        /\ UNCHANGED <<sock, once, state, stage, failure, setting, flags, decoder, received, agreed>>
    BY <1>2 DEF Write
  <2>3. /\ encoder'["host"].sequence = encoder["host"].sequence + 1
        /\ encoder'["host"].version = encoder["host"].version
    BY <2>2 DEF IInv, Typed, Encoders
  <2>4. /\ sending'["host"].type = s.type /\ sending'["host"].by = s.by
        /\ sending'["host"].body = s.body /\ sending'["host"].written = TRUE
    BY <1>1, <2>2 DEF IInv, Typed, Sending
  <2>5. sending'["host"] # None
    <3>1. s.type # "none"
      BY <1>1 DEF Sending, Types, InSessionTypes
    <3> QED BY <2>4, <3>1, NoneByType
  <2>6. encoder["host"].sequence \in Nat
    BY DEF IInv, Typed, Encoders
  <2>7. Pinned("host")' = Pinned("host") /\ Settled' = Settled /\ Admitted' = Admitted
    BY <2>2, <2>3 DEF Pinned, Codec, Window, Settled, Admitted
  <2>8. CASE stage["host"] = "sending"
    <3>1. HostSends
      BY <2>8 DEF IInv, HostSide, HostTable, HostStage
    <3>2. HostSends'
      BY <1>1, <2>2, <2>3, <2>4, <2>6, <2>7, <3>1 DEF HostSends, Wrote, Read, At, Written, flags
    <3> QED BY <2>2, <2>5, <2>8, <3>2 DEF IInv, HostSide, HostTable, HostStage, HostStages, Receiving
  <2>9. CASE stage["host"] = "established"
    <3>1. encoder["host"].sequence >= 3
      BY <2>9 DEF IInv, HostSide, HostTable, HostStage
    <3>2. encoder'["host"].sequence >= 3
      BY <2>3, <2>6, <3>1
    <3>3. decoder'["host"].sequence >= 2 + Got("host")'
      BY <2>2, <2>9 DEF IInv, HostSide, HostTable, HostStage, Got
    <3>4. At("host", "active", TRUE, TRUE)'
      BY <2>2, <2>9 DEF IInv, HostSide, HostTable, HostStage, At, flags
    <3>5. s.type \in InSessionTypes /\ s.by = "" /\ (s.type = "frame_part" => Settled = 2)
      BY <1>1, <2>9 DEF IInv, HostSide, HostTable, HostStage
    <3>6. Pinned("host") /\ Admitted
      BY <2>9 DEF IInv, HostSide, HostTable, HostStage
    <3>7. HostStage(stage["host"])'
      BY <2>2, <2>4, <2>7, <2>9, <3>2, <3>3, <3>4, <3>5, <3>6 DEF HostStage
    <3> QED BY <2>2, <2>9, <3>7 DEF IInv, HostSide, HostTable, HostStages, Receiving
  <2> QED BY <2>1, <2>8, <2>9
<1>3. CASE ~goes
  <2>1. sock["host"] # "open" \/ ~(s.type = "frame_part" /\ encoder["host"].version < 2)
    <3> SUFFICES ASSUME sock["host"] = "open", s.type = "frame_part"  PROVE ~(encoder["host"].version < 2)
      OBVIOUS
    <3>1. stage["host"] \in {"sending", "established"}
      BY <1>1 DEF IInv, HostSide, HostTable, HostStages, HostStage
    <3>2. Settled = 2 /\ Pinned("host")
      BY <1>1, <3>1 DEF IInv, HostSide, HostTable, HostStage, HostSends
    <3> QED BY <3>2 DEF Pinned, Codec
  <2>2. ClosePeer("host") /\ Return("host", "closed")
    BY <1>3, <2>1 DEF Write
  <2> QED BY <2>2 DEF IInv, Typed, HostSide, HostTable, HostStage, HostStages, ClosePeer, Return,
                      Rejections, Receiving
<1> QED BY <1>2, <1>3

LEMMA HostSent ==
    ASSUME IInv, Sent("host")
    PROVE  HostSide'
<1> DEFINE s == sending["host"]
<1> USE DEF Sides
<1>1. s # None /\ s.written = TRUE /\ s \in Sending /\ Advance("host", s.type) /\ sending'["host"] = None
  BY DEF Sent, IInv, Typed, Sending
<1>2. UNCHANGED <<setting, once, encoder, decoder, received, agreed>>
  BY DEF Sent, codec
<1>3. Written("host") = 1
  BY <1>1 DEF Written
<1>4. Settled' = Settled /\ (Admitted' <=> Admitted) /\ (Pinned("host") => Pinned("host")')
  <2>1. Settled' = Settled /\ (Admitted' <=> Admitted)
    BY <1>2 DEF Settled, Admitted
  <2> QED BY <1>2, <2>1 DEF Pinned, Codec, Window
<1>5. stage["host"] = "sending" => received["host"] = None /\ HostSends /\ ~once["host"]
  BY DEF IInv, HostSide, HostTable, HostStage, Receiving
<1>6. CASE stage["host"] = "sending" /\ s.type = "error"
  <2>1. s.by = "over"
    BY <1>5, <1>6 DEF HostSends
  <2>2. Return("host", "refused") /\ sock' = [sock EXCEPT !["host"] = "closed"]
    BY <2>1 DEF Sent
  <2> QED BY <1>1, <1>2, <1>5, <1>6, <2>2
       DEF Return, IInv, Typed, HostSide, HostTable, HostStage, HostStages, Rejections, Receiving
<1>7. CASE stage["host"] = "sending" /\ s.type = "server_hello"
  <2>1. /\ s.by = "send_config" /\ encoder["host"].sequence = 1 /\ decoder["host"].sequence = 2
        /\ Admitted /\ Pinned("host") /\ At("host", "negotiating", TRUE, FALSE)
    BY <1>3, <1>5, <1>7 DEF HostSends, Wrote, Read
  <2>2. stage' = [stage EXCEPT !["host"] = "send_config"] /\ UNCHANGED <<sock, failure>>
    BY <1>7, <2>1 DEF Sent
  <2>3. At("host", "negotiating", TRUE, TRUE)'
    BY <1>1, <1>7, <2>1 DEF Advance, At, IInv, Typed
  <2>4. stage'["host"] = "send_config"
    BY <2>2 DEF IInv, Typed
  <2> QED BY <1>1, <1>2, <1>4, <1>5, <1>7, <2>1, <2>2, <2>3, <2>4
       DEF IInv, HostSide, HostTable, HostStage, HostStages, Wrote, Read, Receiving
<1>8. CASE stage["host"] = "sending" /\ s.type = "display_config"
  <2>1. /\ s.by = "send_frame" /\ encoder["host"].sequence = 2 /\ decoder["host"].sequence = 2
        /\ Admitted /\ Pinned("host") /\ At("host", "negotiating", TRUE, TRUE)
    <3>1. encoder["host"].sequence = 1 + Written("host")
      BY <1>5, <1>8 DEF HostSends, Wrote
    <3>2. encoder["host"].sequence = 2
      BY <1>3, <3>1
    <3> QED BY <1>5, <1>8, <3>2 DEF HostSends, Read
  <2>2. stage' = [stage EXCEPT !["host"] = "send_frame"] /\ UNCHANGED <<sock, failure>>
    BY <1>8, <2>1 DEF Sent
  <2>3. At("host", "active", TRUE, TRUE)'
    BY <1>1, <1>8, <2>1 DEF Advance, At, IInv, Typed
  <2>4. stage'["host"] = "send_frame"
    BY <2>2 DEF IInv, Typed
  <2> QED BY <1>1, <1>2, <1>4, <1>5, <1>8, <2>1, <2>2, <2>3, <2>4
       DEF IInv, HostSide, HostTable, HostStage, HostStages, Wrote, Read, Receiving
<1>9. CASE stage["host"] = "sending" /\ s.type \in {"frame", "frame_part"}
  <2>1. /\ s.by = "established" /\ encoder["host"].sequence = 3 /\ decoder["host"].sequence = 2
        /\ Admitted /\ Pinned("host") /\ At("host", "active", TRUE, TRUE)
    <3>1. encoder["host"].sequence = 2 + Written("host")
      BY <1>5, <1>9 DEF HostSends, Wrote
    <3>2. encoder["host"].sequence = 3
      BY <1>3, <3>1
    <3> QED BY <1>5, <1>9, <3>2 DEF HostSends, Read
  <2>2. stage' = [stage EXCEPT !["host"] = "established"] /\ UNCHANGED <<sock, failure>>
    BY <1>9, <2>1 DEF Sent
  <2>3. At("host", "active", TRUE, TRUE)'
    BY <1>1, <1>9, <2>1 DEF Advance, At, IInv, Typed
  <2>4. stage'["host"] = "established"
    BY <2>2 DEF IInv, Typed
  <2>5. decoder'["host"].sequence >= 2 + Got("host")' /\ encoder'["host"].sequence >= 3
    BY <1>2, <1>5, <1>9, <2>1 DEF Got
  <2> QED BY <1>1, <1>2, <1>4, <1>5, <1>9, <2>1, <2>2, <2>3, <2>4, <2>5
       DEF IInv, HostSide, HostTable, HostStage, HostStages, Receiving
<1>10. CASE stage["host"] = "established"
  <2>1. /\ s.type \in InSessionTypes /\ s.by = "" /\ At("host", "active", TRUE, TRUE)
        /\ Admitted /\ Pinned("host") /\ encoder["host"].sequence >= 3 /\ ~once["host"]
    BY <1>1, <1>10 DEF IInv, HostSide, HostTable, HostStage
  <2>2. stage' = stage /\ UNCHANGED <<sock, failure>>
    <3>1. stage' = [stage EXCEPT !["host"] = stage["host"]]
      BY <2>1 DEF Sent
    <3> QED BY <2>1, <3>1 DEF Sent, IInv, Typed
  <2>3. At("host", "active", TRUE, TRUE)'
    BY <1>1, <2>1 DEF Advance, At, IInv, Typed, InSessionTypes
  <2>4. decoder'["host"].sequence >= 2 + Got("host")'
    BY <1>2, <1>10 DEF Got, IInv, HostSide, HostTable, HostStage
  <2> QED BY <1>1, <1>2, <1>4, <1>10, <2>1, <2>2, <2>3, <2>4
       DEF IInv, HostSide, HostTable, HostStage, HostStages, Receiving
<1>11. CASE stage["host"] = "over"
  <2>1. sock["host"] = "closed"
    BY <1>11 DEF IInv, HostSide, HostTable, HostStage
  <2>2. stage'["host"] = "over" /\ failure'["host"] = failure["host"] /\ sock'["host"] = "closed"
    <3>1. CASE s.by = "over"
      BY <1>11, <3>1 DEF Sent, Return, IInv, Typed
    <3>2. CASE s.by # "over"
      BY <1>11, <2>1, <3>2 DEF Sent, IInv, Typed
    <3> QED BY <3>1, <3>2
  <2> QED BY <1>1, <1>2, <1>11, <2>2 DEF IInv, HostSide, HostTable, HostStage, HostStages, Receiving
<1>12. stage["host"] \in {"sending", "established", "over"}
  BY <1>1 DEF IInv, HostSide, HostTable
<1>13. stage["host"] = "sending" => s.type \in {"error", "server_hello", "display_config", "frame", "frame_part"}
  BY <1>5 DEF HostSends
<1> QED BY <1>6, <1>7, <1>8, <1>9, <1>10, <1>11, <1>12, <1>13

LEMMA HostHasRead ==
    ASSUME IInv
    PROVE  /\ stage["host"] = "recv_auth" => decoder["host"].sequence = Got("host")
           /\ stage["host"] = "recv_client_hello" => decoder["host"].sequence = 1 + Got("host")
           /\ stage["host"] = "established" => decoder["host"].sequence >= 2 + Got("host")
BY DEF IInv, HostSide, HostTable, HostStage, Read

LEMMA HostDecodes ==
    ASSUME IInv, Decode("host")
    PROVE  HostSide'
<1> DEFINE r == Head(wire["host"])
           d == decoder["host"]
<1> USE DEF Sides
<1>1. /\ stage["host"] \in {"recv_auth", "recv_client_hello", "established"}
      /\ received["host"] = None /\ sock["host"] = "open" /\ ~once["host"] /\ wire["host"] # <<>>
      /\ Got("host") = 0
  BY DEF Decode, Receiving, IInv, HostSide, HostTable, HostStages, Got
<1>2. r \in Record /\ r.sequence = d.sequence + 1 /\ ForHost(r)
  BY <1>1, HeadIsNext
<1>3. d.sequence \in Nat /\ d.minVersion \in {1, 2} /\ d.maxVersion \in {1, 2}
  BY DEF IInv, Typed, Decoders
<1>4. Settled \in {1, 2}
  BY SettledOn DEF IInv
<1>5. Acceptable(d, r)
  <2>1. r.type # "frame_part"
    BY <1>2, <1>3 DEF ForHost
  <2>2. d.minVersion = d.maxVersion /\ r.version = d.minVersion
    <3>1. CASE stage["host"] \in {"recv_auth", "recv_client_hello"}
      <4>1. d.minVersion = 1 /\ d.maxVersion = 1
        BY <3>1 DEF IInv, HostSide, HostTable, HostStage, Codec, Window
      <4>2. d.sequence \in {0, 1}
        BY <1>1, <3>1, HostHasRead
      <4> QED BY <1>2, <4>1, <4>2 DEF ForHost
    <3>2. CASE stage["host"] = "established"
      <4>1. d.minVersion = Settled /\ d.maxVersion = Settled
        BY <3>2 DEF IInv, HostSide, HostTable, HostStage, Pinned, Codec, Window
      <4>2. d.sequence >= 2
        BY <1>1, <1>3, <3>2, HostHasRead
      <4> QED BY <1>2, <1>3, <4>1, <4>2 DEF ForHost
    <3> QED BY <1>1, <3>1, <3>2
  <2>3. r.version \in d.minVersion .. d.maxVersion
    BY <1>3, <2>2
  <2> HIDE DEF r, d
  <2> QED BY <1>2, <2>1, <2>3 DEF Acceptable
<1>6. /\ decoder' = [decoder EXCEPT !["host"].sequence = r.sequence]
      /\ received' = [received EXCEPT !["host"] = r]
      /\ UNCHANGED <<state, once, sock, stage, failure, setting, flags, encoder, sending, agreed>>
  BY <1>5 DEF Decode
<1> HIDE DEF r
<1>7. /\ decoder'["host"].sequence = d.sequence + 1
      /\ decoder'["host"].minVersion = d.minVersion /\ decoder'["host"].maxVersion = d.maxVersion
  BY <1>2, <1>6 DEF IInv, Typed, Decoders
<1>8. received'["host"] # None /\ Got("host")' = 1
  <2>1. received'["host"] = r
    BY <1>6 DEF IInv, Typed
  <2> QED BY <1>1, <1>2, <2>1, NoneIsNoMessage DEF Got
<1>9. CASE stage["host"] = "recv_auth"
  <2>1. decoder["host"].sequence = 0
    BY <1>1, <1>9, HostHasRead
  <2> QED BY <1>6, <1>7, <1>8, <1>9, <2>1
       DEF IInv, HostSide, HostTable, HostStage, HostStages, Wrote, Read, At, Codec, Window, Receiving, flags
<1>10. CASE stage["host"] = "recv_client_hello"
  <2>1. decoder["host"].sequence = 1
    BY <1>1, <1>10, HostHasRead
  <2> QED BY <1>6, <1>7, <1>8, <1>10, <2>1
       DEF IInv, HostSide, HostTable, HostStage, HostStages, Wrote, Read, At, Codec, Window, Admitted,
           Receiving, flags
<1>11. CASE stage["host"] = "established"
  <2>1. decoder["host"].sequence >= 2
    BY <1>1, <1>3, <1>11, HostHasRead
  <2>2. decoder'["host"].sequence >= 2 + Got("host")'
    BY <1>3, <1>7, <1>8, <2>1
  <2> QED BY <1>6, <1>7, <1>11, <2>2
       DEF IInv, HostSide, HostTable, HostStage, HostStages, At, Pinned, Codec, Window, Settled, Admitted,
           Receiving, flags
<1> QED BY <1>1, <1>9, <1>10, <1>11

LEMMA HostChecks ==
    ASSUME IInv, Check("host")
    PROVE  HostSide'
<1> DEFINE m == received["host"]
<1> USE DEF Sides
<1>1. m # None /\ m \in Record /\ ForHost(m) /\ m.sequence = decoder["host"].sequence
  BY DEF Check, IInv, Typed, Scripted, Numbered
<1>2. /\ received'["host"] = None /\ Got("host")' = 0 /\ Got("host") = 1
      /\ UNCHANGED <<setting, encoder, decoder, sending>>
  BY <1>1 DEF Check, IInv, Typed, Got, codec
<1>3. /\ stage["host"] \in {"recv_auth", "recv_client_hello", "established", "over"}
      /\ stage["host"] # "over" => ~once["host"]
  BY <1>1 DEF IInv, HostSide, HostTable, HostStages, Receiving
<1>4. CASE stage["host"] = "recv_auth"
  <2>1. decoder["host"].sequence = 1 /\ m.type = "auth"
    BY <1>1, <1>2, <1>4, HostHasRead DEF ForHost
  <2>2. At("host", "authenticating", FALSE, FALSE) /\ encoder["host"].sequence = 0 /\ Codec("host", 1, 1, 1)
    BY <1>4 DEF IInv, HostSide, HostTable, HostStage, Wrote
  <2>3. Valid("host", m.type)
    BY <2>1, <2>2 DEF Valid, At
  <2>4. Authenticate("host")
    BY <1>4, <2>3 DEF Check, Authenticate, ClientHello, ServerHello, FirstConfig, InSession, Expect
  <2>5. CASE setting.known
    <3>1. Expect("host", "recv_auth", "auth", IF setting.busy THEN "send_busy" ELSE "recv_client_hello")
      BY <2>4, <2>5 DEF Authenticate
    <3>2. /\ stage' = [stage EXCEPT !["host"] = IF setting.busy THEN "send_busy" ELSE "recv_client_hello"]
          /\ failure' = failure /\ once' = once /\ sock' = sock /\ agreed' = agreed
      BY <2>1, <2>4, <2>5, <3>1 DEF Expect, Authenticate
    <3>3. At("host", "negotiating", FALSE, FALSE)'
      BY <2>1, <2>2, <3>1 DEF Expect, Advance, At, IInv, Typed
    <3>4. CASE setting.busy
      <4>1. stage'["host"] = "send_busy" /\ ~Admitted'
        BY <1>2, <3>2, <3>4 DEF IInv, Typed, Admitted
      <4> QED BY <1>2, <1>4, <2>2, <3>2, <3>3, <4>1
           DEF IInv, HostSide, HostTable, HostStage, HostStages, Wrote, Codec, Window, Receiving
    <3>5. CASE ~setting.busy
      <4>1. stage'["host"] = "recv_client_hello" /\ Admitted'
        BY <1>2, <2>5, <3>2, <3>5 DEF IInv, Typed, Admitted
      <4>2. decoder'["host"].sequence = 1 + Got("host")'
        BY <1>2, <2>1
      <4> QED BY <1>2, <1>4, <2>2, <3>2, <3>3, <4>1, <4>2
           DEF IInv, HostSide, HostTable, HostStage, HostStages, Wrote, Read, Codec, Window, Receiving
    <3> QED BY <3>4, <3>5
  <2>6. CASE ~setting.known
    <3>1. ClosePeer("host") /\ Return("host", "refused")
      BY <2>4, <2>6 DEF Authenticate
    <3> QED BY <1>2, <3>1
         DEF ClosePeer, Return, IInv, Typed, HostSide, HostTable, HostStage, HostStages, Receiving, Rejections
  <2> QED BY <2>5, <2>6
<1>5. CASE stage["host"] = "recv_client_hello"
  <2>1. decoder["host"].sequence = 2 /\ m.type = "client_hello" /\ m.body = setting.offer
    <3>1. decoder["host"].sequence = 2
      BY <1>2, <1>5, HostHasRead
    <3> QED BY <1>1, <3>1 DEF ForHost
  <2>2. At("host", "negotiating", FALSE, FALSE) /\ encoder["host"].sequence = 0 /\ Admitted
    BY <1>5 DEF IInv, HostSide, HostTable, HostStage, Wrote
  <2>3. Valid("host", m.type)
    BY <2>1, <2>2 DEF Valid, At
  <2>4. ClientHello("host")
    BY <1>5, <2>3 DEF Check, Authenticate, ClientHello, ServerHello, FirstConfig, InSession, Expect
  <2>5. /\ stage'["host"] = "pin" /\ failure' = failure /\ once' = once /\ sock' = sock
        /\ agreed'["host"] = Settled
    BY <2>1, <2>4 DEF ClientHello, Expect, Settled, IInv, Typed
  <2>6. At("host", "negotiating", TRUE, FALSE)'
    BY <2>1, <2>2, <2>4 DEF ClientHello, Expect, Advance, At, IInv, Typed
  <2>7. Settled' = Settled /\ Admitted'
    BY <1>2, <2>2 DEF Settled, Admitted
  <2> QED BY <1>2, <1>5, <2>1, <2>2, <2>5, <2>6, <2>7
       DEF IInv, HostSide, HostTable, HostStage, HostStages, Wrote, Read, Receiving
<1>6. CASE stage["host"] = "established"
  <2>1. decoder["host"].sequence >= 3 /\ decoder["host"].sequence \in Nat
    <3>1. decoder["host"].sequence \in Nat
      BY DEF IInv, Typed, Decoders
    <3> QED BY <1>2, <1>6, <3>1, HostHasRead
  <2>2. m.type = "key"
    BY <1>1, <2>1 DEF ForHost
  <2>3. At("host", "active", TRUE, TRUE)
    BY <1>6 DEF IInv, HostSide, HostTable, HostStage
  <2>4. Valid("host", m.type)
    BY <2>2, <2>3 DEF Valid, At
  <2>5. InSession("host")
    BY <1>6, <2>4 DEF Check, Authenticate, ClientHello, ServerHello, FirstConfig, InSession, Expect
  <2>6. stage' = stage /\ failure' = failure /\ agreed' = agreed /\ once' = once /\ sock' = sock
    BY <2>5 DEF InSession
  <2>7. At("host", "active", TRUE, TRUE)'
    BY <2>2, <2>3, <2>5 DEF InSession, Advance, At, IInv, Typed
  <2>8. decoder'["host"].sequence >= 2 + Got("host")'
    BY <1>2, <2>1
  <2> QED BY <1>2, <1>6, <2>6, <2>7, <2>8
       DEF IInv, HostSide, HostTable, HostStage, HostStages, Pinned, Codec, Window, Settled, Admitted, Receiving
<1>7. CASE stage["host"] = "over"
  <2>1. ~Valid("host", m.type)
    BY <1>7 DEF Check, Authenticate, ClientHello, ServerHello, FirstConfig, InSession, Expect
  <2>2. ClosePeer("host") /\ Return("host", Why("host", "state"))
    BY <2>1 DEF Check
  <2> QED BY <1>2, <1>7, <2>2
       DEF ClosePeer, Return, IInv, Typed, HostSide, HostTable, HostStage, HostStages, Receiving, Rejections
<1> QED BY <1>3, <1>4, <1>5, <1>6, <1>7

LEMMA HostPins ==
    ASSUME IInv, Pin("host")
    PROVE  HostSide'
<1> USE DEF Sides, IInv, Typed, HostSide, HostTable, HostStages, flags, Receiving, At
<1>1. /\ encoder'["host"].version = agreed["host"]
      /\ encoder'["host"].sequence = encoder["host"].sequence
  BY DEF Pin, Encoders
<1>2. decoder'["host"] = [decoder["host"] EXCEPT !.minVersion = agreed["host"], !.maxVersion = agreed["host"]]
  BY DEF Pin
<1>3. /\ decoder'["host"].minVersion = agreed["host"] /\ decoder'["host"].maxVersion = agreed["host"]
      /\ decoder'["host"].sequence = decoder["host"].sequence
  BY <1>2 DEF Decoders
<1>4. stage["host"] = "pin" /\ stage'["host"] = "send_server_hello" /\ received["host"] = None
  BY DEF Pin
<1>5. UNCHANGED <<setting, state, cHello, sHello, once, sock, sending, received, agreed, failure>>
  BY DEF Pin
<1> QED BY <1>1, <1>3, <1>4, <1>5 DEF HostStage, Wrote, Read, Got, Pinned, Codec, Window, Settled, Admitted

LEMMA HostCloses ==
    ASSUME IInv, Closes("host")
    PROVE  HostSide'
<1> USE DEF Sides, IInv, Typed, HostSide, HostTable, HostStages, flags, Receiving, Rejections
<1>1. CASE ReceiveFails("host") \/ ReadCutShort("host")
  BY <1>1 DEF ReceiveFails, ReadCutShort, ClosePeer, Return, HostStage
<1>2. CASE Teardown("host")
  BY <1>2 DEF Teardown, HostStage
<1> QED BY <1>1, <1>2 DEF Closes

------------------------------------------------------------------------------
\* The conversation: what neither writes nor decodes leaves it alone.
LEMMA ConversationKept ==
    ASSUME Numbered, Scripted, setting' = setting, wire' = wire,
           \A p \in Sides : /\ encoder'[p].sequence = encoder[p].sequence /\ decoder'[p].sequence = decoder[p].sequence
                            /\ received'[p] \in {None, received[p]}
    PROVE  Numbered' /\ Scripted'
<1>1. Numbered'
  BY TwoSides DEF Numbered
<1>2. \A r : (ForHost(r) => ForHost(r)') /\ (ForClient(r) => ForClient(r)')
  BY DEF ForHost, ForClient, ForAdmitted, Settled, Admitted
<1>3. Scripted'
  BY <1>2 DEF Scripted, Sides
<1> QED BY <1>1, <1>3

\* The record a side writes is its next line.
LEMMA WritesItsLine ==
    ASSUME IInv, NEW p \in Sides, Write(p), sock[p] = "open", NEW r \in Record,
           r.type = sending[p].type, r.body = sending[p].body, r.version = encoder[p].version,
           r.sequence = encoder[p].sequence + 1
    PROVE  (p = "client" => ForHost(r)) /\ (p = "host" => ForClient(r))
<1>1. sending[p] # None /\ ~sending[p].written /\ Written(p) = 0
  BY DEF Write, Written
<1>2. encoder[p].sequence \in Nat
  BY DEF IInv, Typed, Encoders
<1>3. ASSUME p = "client"  PROVE ForHost(r)
  <2>1. stage["client"] \in {"sending", "established"}
    BY <1>1, <1>3 DEF IInv, ClientSide, ClientTable, ClientStages, ClientStage
  <2>2. CASE stage["client"] = "sending" /\ r.type = "auth"
    <3>1. encoder["client"].sequence = 0 /\ encoder["client"].version = 1
      BY <1>1, <1>3, <2>2 DEF IInv, ClientSide, ClientTable, ClientStage, ClientSends, Wrote, Codec
    <3> QED BY <1>3, <2>2, <3>1 DEF ForHost
  <2>3. CASE stage["client"] = "sending" /\ r.type = "client_hello"
    <3>1. /\ encoder["client"].sequence = 1 + Written("client") /\ encoder["client"].version = 1
          /\ r.body = setting.offer
      BY <1>3, <2>3 DEF IInv, ClientSide, ClientTable, ClientStage, ClientSends, Wrote, Codec
    <3>2. r.sequence = 2
      BY <1>1, <1>3, <3>1
    <3> QED BY <1>3, <2>3, <3>1, <3>2 DEF ForHost
  <2>4. CASE stage["client"] = "established"
    <3>1. encoder["client"].sequence >= 2 /\ encoder["client"].version = Settled /\ r.type = "key"
      BY <1>1, <1>3, <2>4 DEF IInv, ClientSide, ClientTable, ClientStage, Pinned, Codec
    <3>2. r.sequence \in Nat /\ r.sequence > 2
      BY <1>2, <1>3, <3>1
    <3> QED BY <1>3, <3>1, <3>2 DEF ForHost
  <2> QED BY <1>3, <2>1, <2>2, <2>3, <2>4 DEF IInv, ClientSide, ClientTable, ClientStage, ClientSends
<1>4. ASSUME p = "host"  PROVE ForClient(r)
  <2>1. stage["host"] \in {"sending", "established"}
    BY <1>1, <1>4 DEF IInv, HostSide, HostTable, HostStages, HostStage
  <2>2. CASE stage["host"] = "sending" /\ r.type = "error"
    <3>1. encoder["host"].sequence = 0 /\ encoder["host"].version = 1 /\ ~Admitted /\ r.body = 0
      BY <1>1, <1>4, <2>2 DEF IInv, HostSide, HostTable, HostStage, HostSends, Wrote
    <3> QED BY <1>4, <2>2, <3>1 DEF ForClient
  <2>3. CASE stage["host"] = "sending" /\ r.type # "error"
    <3>1. HostSends
      BY <2>3 DEF IInv, HostSide, HostTable, HostStage
    <3>2. Admitted /\ encoder["host"].version = Settled
      BY <1>4, <2>3, <3>1 DEF HostSends, Pinned, Codec
    <3>3. \/ r.type = "server_hello" /\ r.body = Settled /\ encoder["host"].sequence = 0
          \/ r.type = "display_config" /\ encoder["host"].sequence = 1
          \/ r.type \in {"frame", "frame_part"} /\ (r.type = "frame_part" => Settled = 2) /\ encoder["host"].sequence = 2
      <4>1. \/ r.type = "server_hello" /\ r.body = Settled /\ encoder["host"].sequence = Written("host")
            \/ r.type = "display_config" /\ encoder["host"].sequence = 1 + Written("host")
            \/ /\ r.type \in {"frame", "frame_part"} /\ (r.type = "frame_part" => Settled = 2)
               /\ encoder["host"].sequence = 2 + Written("host")
        BY <1>4, <2>3, <3>1 DEF HostSends, Wrote
      <4> QED BY <1>1, <1>4, <4>1
    <3>4. ForAdmitted(r) /\ r.sequence > 0
      BY <1>2, <1>4, <3>2, <3>3 DEF ForAdmitted, InSessionTypes
    <3> QED BY <3>2, <3>4 DEF ForClient
  <2>4. CASE stage["host"] = "established"
    <3>1. /\ encoder["host"].sequence >= 3 /\ encoder["host"].version = Settled /\ Admitted
          /\ r.type \in InSessionTypes /\ (r.type = "frame_part" => Settled = 2)
      BY <1>1, <1>4, <2>4 DEF IInv, HostSide, HostTable, HostStage, Pinned, Codec
    <3>2. r.sequence \in Nat /\ r.sequence > 2
      BY <1>2, <1>4, <3>1
    <3> QED BY <1>4, <3>1, <3>2 DEF ForClient, ForAdmitted
  <2> QED BY <2>1, <2>2, <2>3, <2>4
<1> QED BY <1>3, <1>4

LEMMA WriteSpeaks ==
    ASSUME IInv, NEW p \in Sides, Write(p)
    PROVE  Numbered' /\ Scripted'
<1> DEFINE s == sending[p]
           q == Other(p)
           record == [type |-> s.type, body |-> s.body, version |-> encoder[p].version,
                      sequence |-> encoder[p].sequence + 1]
           goes == sock[p] = "open" /\ ~(s.type = "frame_part" /\ encoder[p].version < 2)
<1>1. CASE goes
  <2>1. /\ encoder' = [encoder EXCEPT ![p].sequence = encoder[p].sequence + 1]
        /\ wire' = [wire EXCEPT ![q] = Append(wire[q], record)]
        /\ UNCHANGED <<setting, decoder, received>>
    BY <1>1 DEF Write
  <2>2. PICK r \in Record : /\ r = record
                           /\ r.type = s.type /\ r.body = s.body /\ r.version = encoder[p].version
                           /\ r.sequence = encoder[p].sequence + 1
    <3>1. encoder[p].version \in {1, 2} /\ encoder[p].sequence + 1 \in Nat
      BY DEF IInv, Typed, Encoders
    <3>2. s \in Sending
      BY DEF Write, IInv, Typed
    <3>3. record \in Record
      BY <3>1, <3>2 DEF Sending, Record
    <3> QED BY <3>3
  <2> HIDE DEF record
  <2>3. (p = "client" => ForHost(r)) /\ (p = "host" => ForClient(r))
    BY <1>1, <2>2, WritesItsLine
  <2>4. q \in Sides /\ q # p /\ Other(q) = p /\ (p = "client" <=> q = "host") /\ (p = "host" <=> q = "client")
    BY TwoSides DEF Sides
  <2> HIDE DEF q
  <2>5. wire[q] \in Seq(Record) /\ wire'[q] = Append(wire[q], r) /\ wire'[p] = wire[p]
    BY <2>1, <2>2, <2>4 DEF IInv, Typed
  <2>6. PICK n \in Nat : n = Len(wire[q])
    BY <2>5, LenProperties
  <2>7. /\ Len(wire'[q]) = n + 1 /\ wire'[q][n + 1] = r
        /\ \A i \in 1 .. n : wire'[q][i] = wire[q][i]
    BY <2>5, <2>6, AppendProperties
  <2>8. encoder[p].sequence \in Nat /\ decoder[q].sequence \in Nat
    BY <2>4 DEF IInv, Typed, Encoders, Decoders
  <2>9. encoder'[p].sequence = encoder[p].sequence + 1 /\ encoder'[q].sequence = encoder[q].sequence
    BY <2>1, <2>4 DEF IInv, Typed, Encoders
  <2>10. encoder[p].sequence = decoder[q].sequence + n
    BY <2>4, <2>6 DEF IInv, Numbered
  <2>11. \A i \in 1 .. (n + 1) : wire'[q][i].sequence = decoder[q].sequence + i
    <3> TAKE i \in 1 .. (n + 1)
    <3>1. CASE i \in 1 .. n
      BY <2>4, <2>6, <2>7, <3>1 DEF IInv, Numbered
    <3>2. CASE i = n + 1
      BY SMTT(30), <2>2, <2>7, <2>8, <2>10, <3>2
    <3> QED BY <3>1, <3>2
  <2>12. Numbered'
    <3>1. encoder'[p].sequence = decoder'[q].sequence + Len(wire'[q])
      <4>1. decoder'[q].sequence = decoder[q].sequence
        BY <2>1
      <4>2. decoder[q].sequence + n + 1 = decoder[q].sequence + (n + 1)
        BY <2>8
      <4> QED BY <2>7, <2>9, <2>10, <4>1, <4>2
    <3>2. \A i \in 1 .. Len(wire'[q]) : wire'[q][i].sequence = decoder'[q].sequence + i
      BY <2>1, <2>7, <2>11
    <3>3. \A x \in Sides : x = p \/ x = q
      BY <2>4 DEF Sides
    <3>4. Other(p) = q
      BY <2>4, TwoSides DEF Sides
    <3>5. /\ encoder'[q].sequence = decoder'[p].sequence + Len(wire'[p])
          /\ \A i \in 1 .. Len(wire'[p]) : wire'[p][i].sequence = decoder'[p].sequence + i
      BY <2>1, <2>5, <2>9, <3>4 DEF IInv, Numbered
    <3>6. \A x \in Sides : received'[x] # None => received'[x].sequence = decoder'[x].sequence
      BY <2>1 DEF IInv, Numbered
    <3> QED BY <2>4, <3>1, <3>2, <3>3, <3>4, <3>5, <3>6 DEF Numbered
  <2>13. \A x : (ForHost(x) => ForHost(x)') /\ (ForClient(x) => ForClient(x)')
    BY <2>1 DEF ForHost, ForClient, ForAdmitted, Settled, Admitted
  <2>14. \A i \in 1 .. Len(wire'[q]) : i \in 1 .. n \/ i = n + 1
    BY <2>7
  <2>15. Scripted'
    <3>1. CASE q = "host"
      BY <2>1, <2>3, <2>4, <2>5, <2>6, <2>7, <2>13, <2>14, <3>1 DEF IInv, Scripted
    <3>2. CASE q = "client"
      BY <2>1, <2>3, <2>4, <2>5, <2>6, <2>7, <2>13, <2>14, <3>2 DEF IInv, Scripted
    <3> QED BY <2>4, <3>1, <3>2 DEF Sides
  <2> QED BY <2>12, <2>15
<1>2. CASE ~goes
  <2>1. UNCHANGED <<encoder, wire, setting, decoder, received>>
    BY <1>2 DEF Write
  <2> QED BY <2>1, ConversationKept DEF IInv
<1> QED BY <1>1, <1>2

LEMMA DecodeListens ==
    ASSUME IInv, NEW p \in Sides, Decode(p), failure'[p] \notin Rejections
    PROVE  Numbered' /\ Scripted'
<1> DEFINE r == Head(wire[p])
           q == Other(p)
<1>1. Acceptable(decoder[p], r)
  <2> SUFFICES ASSUME ~Acceptable(decoder[p], r)  PROVE FALSE
    OBVIOUS
  <2>1. Return(p, "record") /\ stage[p] # "over"
    BY DEF Decode, Receiving
  <2> QED BY <2>1 DEF Return, IInv, Typed, Rejections
<1>2. /\ wire' = [wire EXCEPT ![p] = Tail(wire[p])]
      /\ decoder' = [decoder EXCEPT ![p].sequence = r.sequence]
      /\ received' = [received EXCEPT ![p] = r]
      /\ UNCHANGED <<encoder, setting>> /\ wire[p] # <<>>
  BY <1>1 DEF Decode
<1>3. r \in Record /\ r.sequence = decoder[p].sequence + 1 /\ (p = "client" => ForClient(r)) /\ (p = "host" => ForHost(r))
  BY <1>2, HeadIsNext
<1> HIDE DEF r
<1>4. q \in Sides /\ q # p /\ \A x \in Sides : x = p \/ x = q
  BY TwoSides DEF Sides
<1>5. wire[p] \in Seq(Record) /\ wire'[p] = Tail(wire[p]) /\ wire'[q] = wire[q]
  BY <1>2, <1>4 DEF IInv, Typed
<1>6. decoder'[p].sequence = decoder[p].sequence + 1 /\ decoder'[q].sequence = decoder[q].sequence
  BY <1>2, <1>3, <1>4 DEF IInv, Typed, Decoders
<1>7. received'[p] = r /\ received'[q] = received[q]
  BY <1>2, <1>4 DEF IInv, Typed
<1>8. PICK n \in Nat : Len(wire[p]) = n + 1
  <2>1. Len(wire[p]) \in Nat /\ Len(wire[p]) > 0
    BY <1>2, <1>5, EmptySeq, LenProperties
  <2> QED BY <2>1
<1>9. Len(wire'[p]) = n /\ \A i \in 1 .. n : wire'[p][i] = wire[p][i + 1]
  <2>1. Len(Tail(wire[p])) = Len(wire[p]) - 1 /\ \A i \in 1 .. Len(Tail(wire[p])) : Tail(wire[p])[i] = wire[p][i + 1]
    BY <1>2, <1>5, HeadTailProperties
  <2>2. Len(Tail(wire[p])) = n
    BY <1>8, <2>1
  <2> QED BY <1>5, <2>1, <2>2
<1>10. decoder[p].sequence \in Nat
  BY DEF IInv, Typed, Decoders
<1>11. \A i \in 1 .. n : i + 1 \in 1 .. Len(wire[p])
  BY <1>8
<1>12. \A i \in 1 .. Len(wire'[p]) : wire'[p][i].sequence = decoder'[p].sequence + i
  <2> TAKE i \in 1 .. Len(wire'[p])
  <2>1. i \in 1 .. n /\ wire'[p][i] = wire[p][i + 1]
    BY <1>9
  <2>2. wire[p][i + 1].sequence = decoder[p].sequence + (i + 1)
    BY <1>11, <2>1 DEF IInv, Numbered
  <2>3. decoder[p].sequence + (i + 1) = (decoder[p].sequence + 1) + i
    BY <1>10, <2>1
  <2> QED BY <1>6, <2>1, <2>2, <2>3
<1>13. encoder'[q].sequence = decoder'[p].sequence + Len(wire'[p])
  <2>1. encoder[q].sequence = decoder[p].sequence + (n + 1)
    BY <1>8 DEF IInv, Numbered
  <2>2. decoder[p].sequence + (n + 1) = (decoder[p].sequence + 1) + n
    BY <1>10
  <2> QED BY <1>2, <1>6, <1>9, <2>1, <2>2
<1>14. /\ encoder'[Other(q)].sequence = decoder'[q].sequence + Len(wire'[q])
       /\ \A i \in 1 .. Len(wire'[q]) : wire'[q][i].sequence = decoder'[q].sequence + i
       /\ received'[q] # None => received'[q].sequence = decoder'[q].sequence
  BY <1>2, <1>4, <1>5, <1>6, <1>7 DEF IInv, Numbered
<1>15. received'[p].sequence = decoder'[p].sequence
  BY <1>3, <1>6, <1>7
<1>16. Numbered'
  BY <1>4, <1>12, <1>13, <1>14, <1>15 DEF Numbered
<1>17. \A x : (ForHost(x) => ForHost(x)') /\ (ForClient(x) => ForClient(x)')
  BY <1>2 DEF ForHost, ForClient, ForAdmitted, Settled, Admitted
<1>18. Scripted'
  <2>1. CASE p = "host"
    <3>1. q = "client"
      BY <1>4, <2>1 DEF Sides
    <3> HIDE DEF q
    <3>2. (\A i \in 1 .. Len(wire["host"]) : ForHost(wire["host"][i]))'
      BY <1>9, <1>11, <1>17, <2>1 DEF IInv, Scripted
    <3>3. ForHost(received["host"])'
      BY <1>3, <1>7, <1>17, <2>1
    <3> QED BY <1>5, <1>7, <1>17, <3>1, <3>2, <3>3 DEF IInv, Scripted
  <2>2. CASE p = "client"
    <3>1. q = "host"
      BY <1>4, <2>2 DEF Sides
    <3> HIDE DEF q
    <3>2. (\A i \in 1 .. Len(wire["client"]) : ForClient(wire["client"][i]))'
      BY <1>9, <1>11, <1>17, <2>2 DEF IInv, Scripted
    <3>3. ForClient(received["client"])'
      BY <1>3, <1>7, <1>17, <2>2
    <3> QED BY <1>5, <1>7, <1>17, <3>1, <3>2, <3>3 DEF IInv, Scripted
  <2> QED BY <2>1, <2>2 DEF Sides
<1> QED BY <1>16, <1>18

\* A side agrees on what both settle on, or is refused and agrees on nothing.
LEMMA CheckAgrees ==
    ASSUME IInv, NEW p \in Sides, Check(p)
    PROVE  AgreedOnSettled' /\ Typed'
<1> DEFINE m == received[p]
<1>1. m # None /\ m \in Record /\ m.sequence = decoder[p].sequence
      /\ (p = "client" => ForClient(m)) /\ (p = "host" => ForHost(m))
  BY DEF Check, IInv, Typed, Scripted, Numbered, Sides
<1>2. Got(p) = 1
  BY <1>1 DEF Got
<1>3. setting' = setting /\ Settled' = Settled
  BY DEF Check, Settled
<1>4. stage[p] = "recv_client_hello" => m.body = setting.offer
  <2> SUFFICES ASSUME stage[p] = "recv_client_hello"  PROVE m.body = setting.offer
    OBVIOUS
  <2>1. p = "host"
    BY DEF IInv, ClientSide, ClientTable, ClientStages, Sides
  <2>2. m.sequence = 2
    BY <1>1, <1>2, <2>1, HostHasRead
  <2> QED BY <1>1, <2>1, <2>2 DEF ForHost
<1>5. stage[p] = "recv_server_hello" => m.body \in {0, Settled}
  <2> SUFFICES ASSUME stage[p] = "recv_server_hello"  PROVE m.body \in {0, Settled}
    OBVIOUS
  <2>1. p = "client"
    BY DEF IInv, HostSide, HostTable, HostStages, Sides
  <2>2. m.sequence = 1
    BY <1>1, <1>2, <2>1 DEF IInv, ClientSide, ClientTable, ClientStage, Read
  <2> QED BY <1>1, <2>1, <2>2 DEF ForClient, ForAdmitted
<1>6. Typed'
  <2>1. stage[p] = "recv_client_hello" => Negotiated(m.body, setting.serverMax) \in 0 .. 2
    BY <1>4 DEF Negotiated, IInv, Typed
  <2> QED BY <2>1, CheckTyped DEF IInv
<1>7. AgreedOnSettled'
  <2>1. UNCHANGED agreed \/ ClientHello(p) \/ ServerHello(p)
    BY DEF Check, Authenticate, FirstConfig, InSession
  <2>2. CASE UNCHANGED agreed
    BY <1>3, <2>2 DEF IInv, AgreedOnSettled
  <2>3. CASE ClientHello(p)
    <3>1. agreed' = [agreed EXCEPT ![p] = Settled]
      BY <1>4, <2>3 DEF ClientHello, Expect, Settled
    <3> QED BY <1>3, <3>1 DEF IInv, AgreedOnSettled, Typed
  <2>4. CASE ServerHello(p)
    <3>1. agreed' = [agreed EXCEPT ![p] = m.body] /\ m.body \in {0, Settled}
      BY <1>5, <2>4 DEF ServerHello, Expect
    <3> QED BY <1>3, <3>1 DEF IInv, AgreedOnSettled, Typed
  <2> QED BY <2>1, <2>2, <2>3, <2>4
<1> QED BY <1>6, <1>7

------------------------------------------------------------------------------
\* Everything but writing and decoding leaves the conversation alone.
LEMMA Quiet ==
    ASSUME IInv, NEW p \in Sides,
           SendsStage(p) \/ SendsOther(p) \/ Sent(p) \/ Check(p) \/ Pin(p) \/ Closes(p) \/ Widen
    PROVE  Numbered' /\ Scripted'
<1> USE DEF IInv, Typed, codec
<1>1. setting' = setting /\ wire' = wire
  BY DEF SendsStage, SendStage, SendsOther, SendOther, Sent, Check, Pin, Closes, ReceiveFails, ReadCutShort, Teardown,
         WatchdogCloses, Widen
<1>2. \A x \in Sides : encoder'[x].sequence = encoder[x].sequence /\ decoder'[x].sequence = decoder[x].sequence
  <2>1. CASE Pin(p)
    <3>1. /\ encoder' = [encoder EXCEPT ![p].version = agreed[p]]
          /\ decoder' = [decoder EXCEPT ![p].minVersion = agreed[p], ![p].maxVersion = agreed[p]]
      BY <2>1 DEF Pin
    <3>2. \A x \in Sides : encoder'[x].sequence = encoder[x].sequence
      BY <3>1 DEF Encoders
    <3>3. \A x \in Sides \ {p} : decoder'[x] = decoder[x]
      BY <3>1
    <3>4. decoder'[p] = [decoder[p] EXCEPT !.minVersion = agreed[p], !.maxVersion = agreed[p]]
      BY <3>1
    <3>5. decoder'[p].sequence = decoder[p].sequence
      BY <3>4 DEF Decoders
    <3> QED BY <3>2, <3>3, <3>5
  <2>2. CASE Widen
    BY <2>2 DEF Widen, Decoders
  <2>3. CASE SendsStage(p) \/ SendsOther(p) \/ Sent(p) \/ Check(p) \/ Closes(p)
    BY <2>3 DEF SendsStage, SendStage, SendsOther, SendOther, Sent, Check, Closes, ReceiveFails, ReadCutShort, Teardown,
                WatchdogCloses
  <2> QED BY <2>1, <2>2, <2>3
<1>3. \A x \in Sides : received'[x] \in {None, received[x]}
  BY DEF SendsStage, SendStage, SendsOther, SendOther, Sent, Check, Pin, Closes, ReceiveFails, ReadCutShort, Teardown,
         WatchdogCloses, Widen
<1> QED BY <1>1, <1>2, <1>3, ConversationKept

\* Only Check changes what a side has agreed on.
LEMMA Agreeing ==
    ASSUME IInv, NEW p \in Sides,
           SendsStage(p) \/ SendsOther(p) \/ Write(p) \/ Sent(p) \/ Decode(p) \/ Pin(p) \/ Closes(p) \/ Widen
    PROVE  AgreedOnSettled'
<1>1. setting' = setting /\ agreed' = agreed
  BY DEF SendsStage, SendStage, SendsOther, SendOther, Write, Sent, Decode, Pin, Closes, ReceiveFails, ReadCutShort,
         Teardown, WatchdogCloses, Widen
<1> QED BY <1>1 DEF IInv, AgreedOnSettled, Settled

\* Whoever acts keeps to its table, and the other's still describes it.
LEMMA BothSides ==
    ASSUME IInv, NEW p \in Sides,
           SendsStage(p) \/ SendsOther(p) \/ Write(p) \/ Sent(p) \/ Decode(p) \/ Check(p) \/ Pin(p)
           \/ Closes(p) \/ (Widen /\ p = "client"),
           p = "client" => ClientSide', p = "host" => HostSide'
    PROVE  ClientSide' /\ HostSide'
<1>1. CASE p = "client"
  <2>1. Kept("host") /\ setting' = setting
    BY <1>1, OthersKept DEF IInv, Sides
  <2> QED BY <1>1, <2>1, SidesKept DEF IInv
<1>2. CASE p = "host"
  <2>1. Kept("client") /\ setting' = setting
    BY <1>2, OthersKept DEF IInv, Sides
  <2> QED BY <1>2, <2>1, SidesKept DEF IInv
<1> QED BY <1>1, <1>2 DEF Sides

LEMMA InitIInv == Init => IInv
<1> SUFFICES ASSUME Init  PROVE IInv
  OBVIOUS
<1> USE DEF Init, Sides
<1>1. Typed
  <2>1. MaxSends \in Nat
    BY PeersAssumption
  <2>2. <<>> \in Seq(Record)
    BY EmptySeq
  <2>3. wire \in [Sides -> Seq(Record)]
    BY <2>2
  <2>4. sends \in [Sides -> 0 .. MaxSends] /\ agreed \in [Sides -> 0 .. 2]
    <3> HIDE DEF Init
    <3>1. 0 \in 0 .. MaxSends /\ 0 \in 0 .. 2
      BY <2>1
    <3> USE DEF Init
    <3>2. sends = [p \in Sides |-> 0] /\ agreed = [p \in Sides |-> 0]
      OBVIOUS
    <3> QED BY <3>1, <3>2
  <2>5. encoder \in [Sides -> Encoders] /\ decoder \in [Sides -> Decoders]
    BY DEF Encoders, Decoders
  <2> QED BY <2>3, <2>4, <2>5 DEF Typed, Stages, ClientStages, HostStages
<1>2. AgreedOnSettled
  BY DEF AgreedOnSettled
<1>3. \A p \in Sides : Len(wire[p]) = 0 /\ encoder[p].sequence = 0 /\ decoder[p].sequence = 0 /\ received[p] = None
  OBVIOUS
<1>4. Numbered /\ Scripted
  <2> HIDE DEF Init, Sides
  <2>1. \A p \in Sides : 1 .. Len(wire[p]) = {}
    BY <1>3
  <2>2. \A p \in Sides : encoder[Other(p)].sequence = decoder[p].sequence + Len(wire[p])
    <3>1. \A p \in Sides : encoder[Other(p)].sequence = 0
      BY <1>3, TwoSides
    <3> QED BY <1>3, <3>1
  <2>3. Numbered
    BY <1>3, <2>1, <2>2 DEF Numbered
  <2>4. Scripted
    BY <1>3, <2>1 DEF Scripted, Sides
  <2> QED BY <2>3, <2>4
<1>5. ClientSide
  BY DEF ClientSide, ClientTable, ClientStage, ClientStages, Wrote, Read, At, Codec, Window, Rejections
<1>6. HostSide
  BY <1>3 DEF HostSide, HostTable, HostStage, HostStages, Wrote, Read, Got, At, Codec, Window, Rejections
<1> QED BY <1>1, <1>2, <1>4, <1>5, <1>6 DEF IInv

LEMMA NextIInv == IInv /\ [Next]_vars => IInv'
<1> SUFFICES ASSUME IInv, [Next]_vars  PROVE IInv'
  OBVIOUS
<1> USE DEF Sides
<1>1. CASE UNCHANGED vars
  <2>1. Typed' /\ AgreedOnSettled' /\ Kept("client") /\ Kept("host") /\ setting' = setting
    BY <1>1 DEF vars, IInv, Typed, AgreedOnSettled, Settled, Kept, flags, codec
  <2>2. Numbered' /\ Scripted'
    BY <1>1, ConversationKept DEF vars, codec, IInv
  <2> QED BY <2>1, <2>2, SidesKept DEF IInv
<1>2. CASE Client
  <2>1. CASE \/ SendStage("client", "send_auth", "auth", 0, "send_client_hello")
             \/ SendStage("client", "send_client_hello", "client_hello", setting.offer, "widen")
    <3>1. Typed' /\ SendsStage("client")
      <4>1. CASE SendStage("client", "send_auth", "auth", 0, "send_client_hello")
        <5>1. "auth" \in Types /\ 0 \in 0 .. 2 /\ "send_client_hello" \in Stages
          BY DEF Types, Stages, ClientStages
        <5>2. Typed'
          BY <4>1, <5>1, SendStageTyped DEF IInv
        <5> QED BY <4>1, <5>2 DEF SendsStage
      <4>2. CASE SendStage("client", "send_client_hello", "client_hello", setting.offer, "widen")
        <5>1. "client_hello" \in Types /\ setting.offer \in 0 .. 2 /\ "widen" \in Stages
          BY DEF Types, Stages, ClientStages, IInv, Typed
        <5>2. Typed'
          BY <4>2, <5>1, SendStageTyped DEF IInv
        <5> QED BY <4>2, <5>2 DEF SendsStage
      <4> QED BY <2>1, <4>1, <4>2
    <3> QED BY <2>1, <3>1, ClientSendsStages, BothSides, Quiet, Agreeing DEF IInv
  <2>2. CASE Widen
    BY <2>2, WidenTyped, ClientPinsAndWidens, BothSides, Quiet, Agreeing DEF IInv
  <2>3. CASE SendOther("client", "key")
    <3>1. Typed' /\ SendsOther("client")
      BY <2>3, SendOtherTyped DEF IInv, SendsOther, Types
    <3> QED BY <2>3, <3>1, ClientSendsOthers, BothSides, Quiet, Agreeing DEF IInv
  <2> QED BY <1>2, <2>1, <2>2, <2>3 DEF Client
<1>3. CASE Host
  <2>1. CASE \/ SendStage("host", "send_busy", "error", 0, "over")
             \/ SendStage("host", "send_server_hello", "server_hello", agreed["host"], "send_config")
             \/ SendStage("host", "send_config", "display_config", 0, "send_frame")
             \/ \E t \in FrameTypes : SendStage("host", "send_frame", t, 0, "established")
    <3>1. SendsStage("host")
      BY <2>1 DEF SendsStage
    <3>2. Typed'
      <4>1. CASE SendStage("host", "send_server_hello", "server_hello", agreed["host"], "send_config")
        BY <4>1, SendStageTyped DEF IInv, Typed, Types, Stages, HostStages
      <4>2. CASE \/ SendStage("host", "send_busy", "error", 0, "over")
                 \/ SendStage("host", "send_config", "display_config", 0, "send_frame")
                 \/ \E t \in FrameTypes : SendStage("host", "send_frame", t, 0, "established")
        <5>1. /\ {"error", "display_config"} \cup FrameTypes \subseteq Types /\ 0 \in 0 .. 2
              /\ {"over", "send_frame", "established"} \subseteq Stages
          BY DEF Types, InSessionTypes, FrameTypes, Stages, HostStages
        <5>2. CASE SendStage("host", "send_busy", "error", 0, "over")
          BY <5>1, <5>2, SendStageTyped DEF IInv
        <5>3. CASE SendStage("host", "send_config", "display_config", 0, "send_frame")
          BY <5>1, <5>3, SendStageTyped DEF IInv
        <5>4. ASSUME NEW t \in FrameTypes, SendStage("host", "send_frame", t, 0, "established")
              PROVE  Typed'
          BY <5>1, <5>4, SendStageTyped DEF IInv
        <5> QED BY <4>2, <5>2, <5>3, <5>4
      <4> QED BY <2>1, <4>1, <4>2
    <3> QED BY <2>1, <3>1, <3>2, HostSendsStages, BothSides, Quiet, Agreeing DEF IInv
  <2>2. ASSUME stage["host"] = "established", NEW t \in FrameTypes \cup {"display_config", "ping"}, SendOther("host", t)
        PROVE  IInv'
    <3>1. Typed' /\ SendsOther("host")
      BY <2>2, SendOtherTyped DEF IInv, SendsOther, Types, InSessionTypes, FrameTypes
    <3> QED BY <2>2, <3>1, HostSendsOthers, BothSides, Quiet, Agreeing DEF IInv
  <2> QED BY <1>3, <2>1, <2>2 DEF Host
<1>4. ASSUME NEW p \in Sides, Write(p)  PROVE IInv'
  BY <1>4, WriteTyped, ClientWrites, HostWrites, BothSides, WriteSpeaks, Agreeing DEF IInv
<1>5. ASSUME NEW p \in Sides, Sent(p)  PROVE IInv'
  BY <1>5, SentTyped, ClientSent, HostSent, BothSides, Quiet, Agreeing DEF IInv
<1>6. ASSUME NEW p \in Sides, Decode(p)  PROVE IInv'
  <2>1. ClientSide' /\ HostSide'
    BY <1>6, ClientDecodes, HostDecodes, BothSides
  <2>2. failure'[p] \notin Rejections
    BY <2>1 DEF ClientSide, HostSide
  <2> QED BY <1>6, <2>1, <2>2, DecodeTyped, DecodeListens, Agreeing DEF IInv
<1>7. ASSUME NEW p \in Sides, Check(p)  PROVE IInv'
  BY <1>7, ClientChecks, HostChecks, BothSides, Quiet, CheckAgrees DEF IInv
<1>8. ASSUME NEW p \in Sides, Pin(p)  PROVE IInv'
  <2>1. agreed[p] \in {1, 2}
    BY <1>8, SettledOn DEF Pin, IInv, ClientSide, ClientTable, ClientStage, HostSide, HostTable, HostStage
  <2> QED BY <1>8, <2>1, PinTyped, ClientPinsAndWidens, HostPins, BothSides, Quiet, Agreeing DEF IInv
<1>9. ASSUME NEW p \in Sides, Closes(p)  PROVE IInv'
  <2>1. Typed'
    BY <1>9, ClosedTyped, TornDownTyped DEF Closes, IInv
  <2> QED BY <1>9, <2>1, ClientCloses, HostCloses, BothSides, Quiet, Agreeing DEF IInv
<1>10. WatchdogCloses => Closes("client")
  BY DEF Closes
<1>11. \A p \in Sides : ReceiveFails(p) \/ Teardown(p) \/ ReadCutShort(p) => Closes(p)
  BY DEF Closes
<1> QED BY <1>1, <1>2, <1>3, <1>4, <1>5, <1>6, <1>7, <1>8, <1>9, <1>10, <1>11 DEF Next, Step

------------------------------------------------------------------------------
LEMMA Invariant == Spec => []IInv
BY InitIInv, NextIInv, PTL DEF Spec

\* The state of each Peer, the version it agreed on and the messages it sends
\* stay in their sets, and what one side has written is what the other has read
\* plus what is under way, for every number of messages.
THEOREM TypeCorrect == Spec => []TypeOK
<1>1. IInv => TypeOK
  <2> SUFFICES ASSUME IInv  PROVE TypeOK
    OBVIOUS
  <2>1. \A p \in Sides : encoder[p].sequence = decoder[Other(p)].sequence + Len(wire[Other(p)])
    BY TwoSides DEF IInv, Numbered, Sides
  <2> QED BY <2>1 DEF IInv, Typed, TypeOK
<1> QED BY <1>1, Invariant, PTL

\* Both sides agree on the lower of the two maxima, and a session runs on it in
\* both directions, although the two sides pin at different times.
THEOREM VersionsAgreed == Spec => []VersionsAgree
<1>1. IInv => VersionsAgree
  <2> SUFFICES ASSUME IInv  PROVE VersionsAgree
    OBVIOUS
  <2>1. \A p \in Sides : agreed[p] # 0 =>
            agreed[p] \in {setting.offer, setting.serverMax} /\ agreed[p] <= setting.offer
            /\ agreed[p] <= setting.serverMax
    BY SettledOn DEF IInv, AgreedOnSettled
  <2>2. \A p \in Sides : stage[p] = "established" => Pinned(p)
    BY DEF IInv, ClientSide, ClientTable, ClientStage, HostSide, HostTable, HostStage, Sides
  <2> QED BY <2>1, <2>2 DEF VersionsAgree, Pinned, Codec, Window
<1> QED BY <1>1, Invariant, PTL

\* Two programs that follow the protocol refuse no record of one another for
\* its version, its number or the state it meets, in any interleaving.
THEOREM NeverRejected == Spec => []HonestNeverRejected
<1>1. IInv => HonestNeverRejected
  BY DEF IInv, ClientSide, HostSide, HonestNeverRejected, Rejections, Sides
<1> QED BY <1>1, Invariant, PTL

\* A client with a wrong token, or one that finds the host busy, is sent nothing
\* of the session or the desktop.
THEOREM OnlyTheAdmitted == Spec => []OnlyTheAdmittedSee
<1>1. IInv => OnlyTheAdmittedSee
  <2> SUFFICES ASSUME IInv, ~Admitted, NEW i \in DOMAIN wire["client"]  PROVE wire["client"][i].type = "error"
    BY DEF OnlyTheAdmittedSee
  <2>1. wire["client"] \in Seq(Record)
    BY DEF IInv, Typed, Sides
  <2>2. i \in 1 .. Len(wire["client"])
    BY <2>1, LenProperties
  <2> QED BY <2>2 DEF IInv, Scripted, ForClient
<1> QED BY <1>1, Invariant, PTL

==============================================================================
