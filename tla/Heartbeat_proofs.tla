-------------------------- MODULE Heartbeat_proofs --------------------------
(***************************************************************************)
(* Neither heartbeat gives up a peer that answers, and none keeps one that *)
(* hangs, for every interval, timeout, slack and delay.                    *)
(*                                                                         *)
(* KeepsTheLiving is about the past of a probe: it needs to know where the *)
(* probe or its answer is (Outstanding) and at which phase of the ticker   *)
(* it was sent (Phase).  NoticedInTime needs that everything still to be   *)
(* read is at least as old as the silence (Silent).                        *)
(***************************************************************************)
EXTENDS Heartbeat, SequenceTheorems, TLAPS

Message == [kind : {"ping", "pong", "data"}, age : 0 .. MaxDelay]

Typed == TypeOK /\ inbox \in [Ends -> Seq(Message)]

\* A probe goes out at the first tick that finds the endpoint idle for Half.
Phase(e) == Up(e) =>
    /\ probe[e] = NoProbe => idle[e] + ticker[e] <= 2 * Half - 1
    /\ probe[e] # NoProbe => idle[e] <= probe[e] + 2 * Half - 1 /\ probe[e] + ticker[e] >= Half

\* The probe is on its way, or something that answers it is, or the other has
\* closed and the end of the connection is next.
OnItsWay(e) == /\ Up(Other(e))
               /\ \E i \in 1 .. Len(inbox[Other(e)]) :
                     inbox[Other(e)][i].kind = "ping" /\ probe[e] <= inbox[Other(e)][i].age
Answered(e) == \E i \in 1 .. Len(inbox[e]) : probe[e] <= MaxDelay + inbox[e][i].age
Ending(e)   == ended[Other(e)] # "" /\ Len(inbox[e]) = 0 /\ probe[e] <= MaxDelay
Outstanding(e) == Up(e) /\ Other(e) \notin hung /\ probe[e] # NoProbe => OnItsWay(e) \/ Answered(e) \/ Ending(e)

\* Whatever is still to be read was sent before the other stopped.
Silent(e) ==
    /\ Other(e) \notin hung => since[Other(e)] = 0
    /\ Up(e) /\ Other(e) \in hung => /\ since[Other(e)] <= idle[e] + MaxDelay
                                     /\ \A i \in 1 .. Len(inbox[e]) : since[Other(e)] <= inbox[e][i].age

IInv == Typed /\ \A e \in Ends : Phase(e) /\ Outstanding(e) /\ Silent(e)

------------------------------------------------------------------------------
\* Half an interval is at least one unit.
LEMMA Halves == Half \in Nat /\ Half >= 1 /\ 2 * Half <= Interval
                /\ Interval \in Nat /\ Timeout \in Nat /\ Timeout >= 2 /\ Slack \in Nat /\ MaxDelay \in Nat /\ MaxData \in Nat
                /\ Deadline \in Nat /\ Deadline = Interval + Timeout + Slack
<1>1. Interval \in Nat /\ Timeout \in Nat /\ Interval >= 2 /\ Timeout >= 2
      /\ Slack \in Nat /\ MaxDelay \in Nat /\ MaxData \in Nat
  BY HeartbeatAssumption
<1>2. Half \in Nat /\ Half >= 1 /\ 2 * Half <= Interval
  BY <1>1 DEF Half
<1> QED BY <1>1, <1>2 DEF Deadline

LEMMA TwoEnds ==
    /\ \A e \in Ends : Other(e) \in Ends /\ Other(e) # e /\ Other(Other(e)) = e
    /\ \A e, f \in Ends : f = e \/ f = Other(e)
<1>1. \A e \in Ends : \E f \in Ends : f # e
  BY DEF Ends
<1>2. \A e \in Ends : Other(e) \in Ends /\ Other(e) # e
  BY <1>1 DEF Other
<1> QED BY <1>2 DEF Ends

LEMMA ProbeTyped ==
    ASSUME Typed, NEW e \in Ends
    PROVE  /\ probe[e] # NoProbe => probe[e] \in 0 .. Deadline
           /\ idle[e] \in 0 .. Deadline /\ ticker[e] \in 0 .. Half /\ since[e] \in Nat
BY DEF Typed, TypeOK

LEMMA AgesTyped ==
    ASSUME Typed, NEW e \in Ends
    PROVE  \A i \in 1 .. Len(inbox[e]) : inbox[e][i] \in Message /\ inbox[e][i].age \in 0 .. MaxDelay
<1>1. inbox[e] \in Seq(Message)
  BY DEF Typed
<1>2. inbox[e] \in [1 .. Len(inbox[e]) -> Message]
  BY <1>1, LenProperties
<1> QED BY <1>2 DEF Message

\* A message that is sent comes last.
LEMMA SentComesLast ==
    ASSUME Typed, NEW e \in Ends, NEW kind \in {"ping", "pong", "data"}, NEW q \in Seq(Message),
           NEW new, new = Append(q, [kind |-> kind, age |-> 0])
    PROVE  /\ new \in Seq(Message) /\ Len(new) = Len(q) + 1 /\ Len(q) \in Nat
           /\ \A i \in 1 .. Len(q) : i \in 1 .. Len(new) /\ new[i] = q[i]
           /\ new[Len(new)].kind = kind /\ new[Len(new)].age = 0 /\ Len(new) \in 1 .. Len(new)
<1>1. [kind |-> kind, age |-> 0] \in Message
  BY Halves DEF Message
<1>2. Len(q) \in Nat
  BY LenProperties
<1> DEFINE m == [kind |-> kind, age |-> 0]
<1>3. m.kind = kind /\ m.age = 0
  OBVIOUS
<1> HIDE DEF m
<1>4. /\ new \in Seq(Message) /\ Len(new) = Len(q) + 1
      /\ \A i \in 1 .. Len(q) : new[i] = q[i]
      /\ new[Len(q) + 1] = m
  BY <1>1, AppendProperties DEF m
<1> QED BY <1>2, <1>3, <1>4

\* Reading takes the first.
LEMMA ReadTakesFirst ==
    ASSUME NEW q \in Seq(Message), q # <<>>
    PROVE  /\ Tail(q) \in Seq(Message) /\ Head(q) \in Message /\ Head(q) = q[1] /\ 1 \in 1 .. Len(q)
           /\ \A i \in 1 .. Len(q) : i = 1 \/ (i - 1 \in 1 .. Len(Tail(q)) /\ Tail(q)[i - 1] = q[i])
           /\ \A i \in 1 .. Len(Tail(q)) : i + 1 \in 1 .. Len(q) /\ Tail(q)[i] = q[i + 1]
<1>1. /\ Tail(q) \in Seq(Message) /\ Head(q) \in Message /\ Len(Tail(q)) = Len(q) - 1
      /\ \A i \in 1 .. Len(Tail(q)) : Tail(q)[i] = q[i + 1]
  BY HeadTailProperties
<1>2. Len(q) \in Nat /\ Len(q) >= 1
  BY LenProperties, EmptySeq
<1>3. Head(q) = q[1]
  BY <1>2
<1>4. \A i \in 1 .. Len(q) : i = 1 \/ (i - 1 \in 1 .. Len(Tail(q)) /\ Tail(q)[i - 1] = q[i])
  <2> TAKE i \in 1 .. Len(q)
  <2>1. CASE i = 1
    BY <2>1
  <2>2. CASE i # 1
    <3>1. i - 1 \in 1 .. Len(Tail(q)) /\ (i - 1) + 1 = i
      BY <1>1, <1>2, <2>2
    <3> QED BY <1>1, <3>1
  <2> QED BY <2>1, <2>2
<1> QED BY <1>1, <1>2, <1>3, <1>4

------------------------------------------------------------------------------
\* What every step is judged by: the answer to a probe takes at most twice MaxDelay.
LEMMA ProbesAreShort ==
    ASSUME IInv, NEW e \in Ends, Up(e), Other(e) \notin hung, probe[e] # NoProbe
    PROVE  probe[e] \in Nat /\ probe[e] <= 2 * MaxDelay
<1>1. probe[e] \in Nat /\ MaxDelay \in Nat
  BY ProbeTyped, Halves DEF IInv
<1>2. \A f \in Ends : \A i \in 1 .. Len(inbox[f]) : inbox[f][i].age \in 0 .. MaxDelay
  BY AgesTyped DEF IInv
<1>3. OnItsWay(e) \/ Answered(e) \/ Ending(e)
  BY DEF IInv, Outstanding
<1>4. CASE OnItsWay(e)
  <2>1. PICK i \in 1 .. Len(inbox[Other(e)]) : probe[e] <= inbox[Other(e)][i].age
    BY <1>4 DEF OnItsWay
  <2>2. inbox[Other(e)][i].age \in 0 .. MaxDelay
    BY <1>2, <2>1, TwoEnds
  <2> QED BY <1>1, <2>1, <2>2
<1>5. CASE Answered(e)
  <2>1. PICK i \in 1 .. Len(inbox[e]) : probe[e] <= MaxDelay + inbox[e][i].age
    BY <1>5 DEF Answered
  <2>2. inbox[e][i].age \in 0 .. MaxDelay
    BY <1>2, <2>1
  <2> QED BY <1>1, <2>1, <2>2
<1>6. CASE Ending(e)
  <2>1. probe[e] <= MaxDelay
    BY <1>6 DEF Ending
  <2> QED BY <1>1, <2>1
<1> QED BY <1>3, <1>4, <1>5, <1>6

Good(e) == Phase(e) /\ Outstanding(e) /\ Silent(e)

------------------------------------------------------------------------------
\* One endpoint closes, whatever the reason.
LEMMA EndKeeps ==
    ASSUME IInv, NEW e \in Ends, Up(e), NEW why \in {"watchdog", "deadline", "peer", "closed"},
           ended' = [ended EXCEPT ![e] = why],
           \A f \in Ends : f # e => ticker'[f] = ticker[f],
           UNCHANGED <<idle, probe, inbox, hung, since>>
    PROVE  \A f \in Ends : Good(f)'
<1> DEFINE o == Other(e)
<1>1. o \in Ends /\ o # e /\ Other(o) = e /\ \A f \in Ends : f = e \/ f = o
  BY TwoEnds
<1>2. ended'[e] # "" /\ ended'[o] = ended[o]
  BY <1>1 DEF IInv, Typed, TypeOK
<1>3. ~Up(e)' /\ (Up(o)' <=> Up(o))
  BY <1>2 DEF Up
<1>4. e \notin hung
  BY DEF Up
<1> HIDE DEF o
<1>5. Phase(e)' /\ Outstanding(e)'
  BY <1>3 DEF Phase, Outstanding
<1>6. Phase(o)'
  BY <1>1, <1>3 DEF IInv, Phase
<1>7. Silent(e)' /\ Silent(o)'
  BY <1>1, <1>3 DEF IInv, Silent
<1>8. Outstanding(o)'
  <2> SUFFICES ASSUME Up(o), probe[o] # NoProbe  PROVE Answered(o)' \/ Ending(o)'
    BY <1>3 DEF Outstanding
  <2>1. OnItsWay(o) \/ Answered(o) \/ Ending(o)
    BY <1>1, <1>4 DEF IInv, Outstanding
  <2>2. CASE Answered(o)
    BY <2>2 DEF Answered
  <2>3. CASE Ending(o)
    BY <1>1, <1>2, <2>3 DEF Ending
  <2>4. CASE OnItsWay(o)
    <3>1. PICK i \in 1 .. Len(inbox[e]) : probe[o] <= inbox[e][i].age
      BY <1>1, <2>4 DEF OnItsWay
    <3>2. inbox[e][i].age \in 0 .. MaxDelay /\ probe[o] \in 0 .. Deadline
      BY <1>1, <3>1, AgesTyped, ProbeTyped DEF IInv
    <3>3. probe[o] <= MaxDelay /\ MaxDelay \in Nat /\ probe[o] \in Nat
      <4>1. PICK a \in Nat : a = inbox[e][i].age /\ a <= MaxDelay
        BY <3>2, Halves
      <4>2. probe[o] <= a /\ probe[o] \in Nat
        BY <3>1, <3>2, <4>1, Halves
      <4> QED BY SMTT(30), <4>1, <4>2, Halves
    <3>4. inbox[o] \in Seq(Message) /\ Len(inbox[o]) \in Nat
      BY <1>1, LenProperties DEF IInv, Typed
    <3>5. CASE Len(inbox[o]) = 0
      BY <1>1, <1>2, <3>3, <3>5 DEF Ending
    <3>6. CASE Len(inbox[o]) # 0
      <4>1. 1 \in 1 .. Len(inbox[o])
        BY <3>4, <3>6
      <4>2. inbox[o][1].age \in 0 .. MaxDelay
        BY <1>1, <4>1, AgesTyped DEF IInv
      <4>3. probe[o] <= MaxDelay + inbox[o][1].age
        BY <3>3, <4>2
      <4> QED BY <4>1, <4>3 DEF Answered
    <3> QED BY <3>5, <3>6
  <2> QED BY <2>1, <2>2, <2>3, <2>4
<1> QED BY <1>1, <1>5, <1>6, <1>7, <1>8 DEF Good

\* One endpoint sends, and may have begun to wait for the answer.
LEMMA SendKeeps ==
    ASSUME IInv, NEW e \in Ends, Up(e), NEW kind \in {"ping", "pong", "data"}, inbox' = Sent(e, kind),
           UNCHANGED <<idle, ended, hung, since>>,
           \A f \in Ends : f # e => ticker'[f] = ticker[f] /\ probe'[f] = probe[f],
           \/ probe'[e] = probe[e]
           \/ kind = "ping" /\ probe'[e] = 0
    PROVE  /\ inbox' \in [Ends -> Seq(Message)]
           /\ \A f \in Ends : Outstanding(f)' /\ Silent(f)' /\ (f # e => Phase(f)')
<1> DEFINE o == Other(e)
<1>1. o \in Ends /\ o # e /\ Other(o) = e /\ \A f \in Ends : f = e \/ f = o
  BY TwoEnds
<1>2. inbox'[o] = Append(inbox[o], [kind |-> kind, age |-> 0]) /\ inbox'[e] = inbox[e]
  BY <1>1 DEF Sent, IInv, Typed
<1>3. inbox[o] \in Seq(Message)
  BY <1>1 DEF IInv, Typed
<1>4. /\ inbox'[o] \in Seq(Message) /\ Len(inbox'[o]) = Len(inbox[o]) + 1 /\ Len(inbox[o]) \in Nat
      /\ \A i \in 1 .. Len(inbox[o]) : i \in 1 .. Len(inbox'[o]) /\ inbox'[o][i] = inbox[o][i]
      /\ inbox'[o][Len(inbox'[o])].kind = kind /\ inbox'[o][Len(inbox'[o])].age = 0
      /\ Len(inbox'[o]) \in 1 .. Len(inbox'[o])
  BY <1>2, <1>3, SentComesLast DEF IInv
<1>5. inbox' \in [Ends -> Seq(Message)]
  BY <1>1, <1>2, <1>4 DEF Sent, IInv, Typed
<1>6. (Up(e)' <=> Up(e)) /\ (Up(o)' <=> Up(o)) /\ e \notin hung
  BY DEF Up
<1> HIDE DEF o
<1>7. Phase(o)'
  BY <1>1, <1>6 DEF IInv, Phase
<1>8. Silent(e)'
  BY <1>1, <1>2, <1>6 DEF IInv, Silent
<1>9. Silent(o)'
  BY <1>1, <1>6 DEF IInv, Silent
<1>10. Outstanding(o)'
  <2> SUFFICES ASSUME Up(o), probe[o] # NoProbe  PROVE OnItsWay(o)' \/ Answered(o)'
    BY <1>1, <1>6 DEF Outstanding
  <2>1. OnItsWay(o) \/ Answered(o) \/ Ending(o)
    BY <1>1, <1>6 DEF IInv, Outstanding
  <2>2. CASE OnItsWay(o)
    BY <1>1, <1>2, <1>6, <2>2 DEF OnItsWay
  <2>3. CASE Answered(o)
    BY <1>1, <1>4, <2>3 DEF Answered
  <2>4. CASE Ending(o)
    <3>1. ended[e] # ""
      BY <1>1, <2>4 DEF Ending
    <3> QED BY <3>1 DEF Up
  <2> QED BY <2>1, <2>2, <2>3, <2>4
<1>11. Outstanding(e)'
  <2> SUFFICES ASSUME o \notin hung, probe'[e] # NoProbe  PROVE OnItsWay(e)' \/ Answered(e)' \/ Ending(e)'
    BY DEF Outstanding, o
  <2>1. CASE probe'[e] = probe[e]
    <3>1. OnItsWay(e) \/ Answered(e) \/ Ending(e)
      BY <1>1, <2>1 DEF IInv, Outstanding, o
    <3>2. CASE OnItsWay(e)
      BY <1>4, <1>6, <2>1, <3>2 DEF OnItsWay, o
    <3>3. CASE Answered(e)
      BY <1>2, <2>1, <3>3 DEF Answered
    <3>4. CASE Ending(e)
      BY <1>2, <2>1, <3>4 DEF Ending
    <3> QED BY <3>1, <3>2, <3>3, <3>4
  <2>2. CASE kind = "ping" /\ probe'[e] = 0
    <3>1. CASE Up(o)
      BY <1>4, <1>6, <2>2, <3>1 DEF OnItsWay, o
    <3>2. CASE ~Up(o)
      <4>1. ended[o] # ""
        BY <3>2 DEF Up
      <4>2. CASE Len(inbox[e]) = 0
        <5>1. probe'[e] <= MaxDelay
          BY <2>2, Halves
        <5> QED BY <1>2, <4>1, <4>2, <5>1 DEF Ending, o
      <4>3. CASE Len(inbox[e]) # 0
        <5>1. inbox[e] \in Seq(Message) /\ Len(inbox[e]) \in Nat
          BY LenProperties DEF IInv, Typed
        <5>2. 1 \in 1 .. Len(inbox[e])
          BY <4>3, <5>1
        <5>3. inbox[e][1].age \in 0 .. MaxDelay
          BY <5>2, AgesTyped DEF IInv
        <5>4. probe'[e] <= MaxDelay + inbox'[e][1].age
          <6>1. PICK a \in Nat : a = inbox[e][1].age
            BY <5>3, Halves
          <6>2. 0 <= MaxDelay + a
            BY <6>1, Halves
          <6> QED BY <1>2, <2>2, <6>1, <6>2
        <5> QED BY <1>2, <5>2, <5>4 DEF Answered
      <4> QED BY <4>2, <4>3
    <3> QED BY <3>1, <3>2
  <2> QED BY <2>1, <2>2
<1> QED BY <1>1, <1>5, <1>7, <1>8, <1>9, <1>10, <1>11

\* Nothing but a ticker moves.
LEMMA TickKeeps ==
    ASSUME IInv, NEW e \in Ends, UNCHANGED <<idle, probe, inbox, ended, hung, since>>,
           \A f \in Ends : f # e => ticker'[f] = ticker[f]
    PROVE  \A f \in Ends : Outstanding(f)' /\ Silent(f)' /\ (f # e => Phase(f)')
<1>1. \A f \in Ends : Up(f)' <=> Up(f)
  BY DEF Up
<1>2. \A f \in Ends : Outstanding(f)'
  BY <1>1, TwoEnds DEF IInv, Outstanding, OnItsWay, Answered, Ending
<1>3. \A f \in Ends : Silent(f)'
  BY <1>1 DEF IInv, Silent
<1>4. \A f \in Ends : f # e => Phase(f)'
  BY <1>1 DEF IInv, Phase
<1> QED BY <1>2, <1>3, <1>4

\* A tick of heartbeatLoop or keepaliveLoop.
LEMMA BeatKeeps ==
    ASSUME IInv, NEW e \in Ends, Beat(e)
    PROVE  IInv'
<1>1. Up(e) /\ ticker[e] = 0 /\ ticker' = [ticker EXCEPT ![e] = Half] /\ UNCHANGED <<idle, hung, since, data>>
  BY DEF Beat
<1>2. ticker' \in [Ends -> 0 .. Half] /\ ticker'[e] = Half /\ \A f \in Ends : f # e => ticker'[f] = ticker[f]
  <2>1. Half \in 0 .. Half
    BY Halves
  <2> QED BY <1>1, <2>1 DEF IInv, Typed, TypeOK
<1>3. CASE GivesUp(e)
  <2>1. ended' = [ended EXCEPT ![e] = "watchdog"] /\ UNCHANGED <<probe, inbox>>
    BY <1>3 DEF Beat
  <2>2. Typed'
    BY <1>1, <1>2, <2>1 DEF IInv, Typed, TypeOK
  <2> QED BY <1>1, <1>2, <2>1, <2>2, EndKeeps DEF IInv, Good
<1>4. CASE ~GivesUp(e)
  <2>1. ended' = ended
    <3>1. ended' = [ended EXCEPT ![e] = ""] /\ ended[e] = ""
      BY <1>1, <1>4 DEF Beat, Up
    <3> QED BY <3>1 DEF IInv, Typed, TypeOK
  <2>2. idle[e] \in Nat /\ (probe[e] # NoProbe => probe[e] \in Nat) /\ Half \in Nat /\ Half >= 1
    BY ProbeTyped, Halves DEF IInv
  <2>3. Up(e)' /\ Phase(e)
    BY <1>1, <2>1 DEF Up, IInv
  <2>4. CASE idle[e] >= Half
    <3>1. /\ probe' = [probe EXCEPT ![e] = IF probe[e] = NoProbe THEN 0 ELSE probe[e]]
          /\ inbox' = Sent(e, "ping")
      BY <1>4, <2>4 DEF Beat
    <3>2. \/ probe'[e] = probe[e] /\ probe[e] # NoProbe
          \/ probe'[e] = 0 /\ probe[e] = NoProbe
      BY <3>1 DEF IInv, Typed, TypeOK
    <3>3. \A f \in Ends : f # e => probe'[f] = probe[f]
      BY <3>1 DEF IInv, Typed, TypeOK
    <3>4. /\ inbox' \in [Ends -> Seq(Message)]
          /\ \A f \in Ends : Outstanding(f)' /\ Silent(f)' /\ (f # e => Phase(f)')
      BY <1>1, <1>2, <2>1, <3>1, <3>2, <3>3, SendKeeps
    <3>5. Phase(e)'
      <4>1. CASE probe[e] = NoProbe
        <5>1. idle[e] <= 2 * Half - 1
          BY <1>1, <2>2, <2>3, <4>1 DEF Phase
        <5>2. probe'[e] = 0 /\ probe'[e] # NoProbe
          BY <3>2, <4>1 DEF NoProbe
        <5> QED BY <1>1, <1>2, <2>2, <5>1, <5>2 DEF Phase
      <4>2. CASE probe[e] # NoProbe
        <5>1. idle[e] <= probe[e] + 2 * Half - 1
          BY <1>1, <2>3, <4>2 DEF Phase
        <5>2. probe'[e] = probe[e]
          BY <3>2, <4>2
        <5> QED BY <1>1, <1>2, <2>2, <4>2, <5>1, <5>2 DEF Phase
      <4> QED BY <4>1, <4>2
    <3>6. Typed'
      <4>1. probe' \in [Ends -> {NoProbe} \cup 0 .. Deadline]
        <5>1. 0 \in 0 .. Deadline
          BY Halves
        <5> QED BY <3>1, <5>1 DEF IInv, Typed, TypeOK
      <4>2. \A f \in Ends : probe'[f] # NoProbe => probe'[f] + Half <= idle'[f]
        <5> TAKE f \in Ends
        <5>1. CASE f # e
          BY <1>1, <3>3, <5>1 DEF IInv, Typed, TypeOK
        <5>2. CASE f = e /\ probe'[e] = 0
          BY <1>1, <2>2, <2>4, <5>2
        <5>3. CASE f = e /\ probe'[e] = probe[e]
          BY <1>1, <3>2, <5>3 DEF IInv, Typed, TypeOK
        <5> QED BY <3>2, <5>1, <5>2, <5>3
      <4> QED BY <1>1, <1>2, <2>1, <3>4, <4>1, <4>2 DEF IInv, Typed, TypeOK, Message
    <3> QED BY <3>4, <3>5, <3>6 DEF IInv
  <2>5. CASE ~(idle[e] >= Half)
    <3>1. UNCHANGED <<probe, inbox>>
      BY <2>5 DEF Beat
    <3>2. Phase(e)'
      <4>1. probe[e] # NoProbe => probe[e] + Half <= idle[e]
        BY DEF IInv, Typed, TypeOK
      <4>2. probe[e] = NoProbe
        BY <2>2, <2>5, <4>1
      <4> QED BY <1>1, <1>2, <2>2, <2>5, <3>1, <4>2 DEF Phase
    <3>3. Typed'
      BY <1>1, <1>2, <2>1, <3>1 DEF IInv, Typed, TypeOK
    <3> QED BY <1>1, <1>2, <2>1, <3>1, <3>2, <3>3, TickKeeps DEF IInv
  <2> QED BY <2>4, <2>5
<1> QED BY <1>3, <1>4

\* A message is read; a PING is answered.
LEMMA ReadKeeps ==
    ASSUME IInv, NEW e \in Ends, Read(e)
    PROVE  IInv'
<1> DEFINE o == Other(e)
           q == inbox[e]
<1>1. o \in Ends /\ o # e /\ Other(o) = e /\ \A f \in Ends : f = e \/ f = o
  BY TwoEnds
<1>2. /\ Up(e) /\ q # <<>> /\ q \in Seq(Message) /\ UNCHANGED <<ticker, ended, hung, since, data>>
      /\ idle' = [idle EXCEPT ![e] = 0] /\ probe' = [probe EXCEPT ![e] = NoProbe]
  BY DEF Read, IInv, Typed
<1>3. /\ idle'[e] = 0 /\ probe'[e] = NoProbe /\ idle'[o] = idle[o] /\ probe'[o] = probe[o] /\ e \notin hung
      /\ (Up(o)' <=> Up(o)) /\ Up(e)'
  BY <1>1, <1>2 DEF IInv, Typed, TypeOK, Up
<1>4. /\ Tail(q) \in Seq(Message) /\ Head(q) \in Message /\ Head(q) = q[1] /\ 1 \in 1 .. Len(q)
      /\ \A i \in 1 .. Len(q) : i = 1 \/ (i - 1 \in 1 .. Len(Tail(q)) /\ Tail(q)[i - 1] = q[i])
      /\ \A i \in 1 .. Len(Tail(q)) : i + 1 \in 1 .. Len(q) /\ Tail(q)[i] = q[i + 1]
  BY <1>2, ReadTakesFirst
<1>5. /\ inbox' \in [Ends -> Seq(Message)] /\ inbox'[e] = Tail(q)
      /\ \A i \in 1 .. Len(inbox[o]) : i \in 1 .. Len(inbox'[o]) /\ inbox'[o][i] = inbox[o][i]
      /\ Head(q).kind = "ping" => Len(inbox'[o]) \in 1 .. Len(inbox'[o]) /\ inbox'[o][Len(inbox'[o])].age = 0
  <2> DEFINE rest == [inbox EXCEPT ![e] = Tail(q)]
  <2>1. rest \in [Ends -> Seq(Message)] /\ rest[e] = Tail(q) /\ rest[o] = inbox[o]
    BY <1>1, <1>4 DEF IInv, Typed
  <2>2. inbox[o] \in Seq(Message)
    BY <1>1 DEF IInv, Typed
  <2>3. CASE Head(q).kind = "ping"
    <3>1. inbox' = [rest EXCEPT ![o] = Append(rest[o], [kind |-> "pong", age |-> 0])]
      BY <2>3 DEF Read
    <3> HIDE DEF rest
    <3>2. inbox'[o] = Append(inbox[o], [kind |-> "pong", age |-> 0]) /\ inbox'[e] = Tail(q)
      BY <1>1, <2>1, <3>1
    <3>3. /\ inbox'[o] \in Seq(Message)
          /\ \A i \in 1 .. Len(inbox[o]) : i \in 1 .. Len(inbox'[o]) /\ inbox'[o][i] = inbox[o][i]
          /\ inbox'[o][Len(inbox'[o])].age = 0 /\ Len(inbox'[o]) \in 1 .. Len(inbox'[o])
      BY <2>2, <3>2, SentComesLast DEF IInv
    <3>4. inbox' \in [Ends -> Seq(Message)]
      BY <1>1, <2>1, <3>1, <3>2, <3>3
    <3> QED BY <3>2, <3>3, <3>4
  <2>4. CASE Head(q).kind # "ping"
    <3>1. inbox' = rest
      BY <2>4 DEF Read
    <3> QED BY <2>1, <2>4, <3>1
  <2> QED BY <2>3, <2>4
<1> HIDE DEF o, q
<1>6. ticker[e] \in 0 .. Half /\ Half \in Nat /\ Half >= 1
  BY ProbeTyped, Halves DEF IInv
<1>7. Phase(e)' /\ Phase(o)'
  <2>1. idle'[e] + ticker'[e] <= 2 * Half - 1
    BY <1>2, <1>3, <1>6
  <2>2. Phase(e)'
    BY <1>3, <2>1 DEF Phase
  <2>3. Phase(o)'
    BY <1>1, <1>2, <1>3 DEF IInv, Phase
  <2> QED BY <2>2, <2>3
<1>8. Outstanding(e)'
  BY <1>3 DEF Outstanding
<1>9. Silent(e)'
  <2>1. CASE o \in hung
    <3>1. \A i \in 1 .. Len(q) : since[o] <= q[i].age
      BY <1>2, <2>1 DEF IInv, Silent, o, q
    <3>2. \A i \in 1 .. Len(inbox'[e]) : since'[o] <= inbox'[e][i].age
      BY <1>2, <1>4, <1>5, <3>1
    <3>3. q[1].age \in 0 .. MaxDelay
      BY <1>4, AgesTyped DEF IInv, q
    <3>4. since[o] \in Nat /\ since[o] <= q[1].age
      BY <1>1, <1>4, <3>1, ProbeTyped DEF IInv
    <3>5. since'[o] <= idle'[e] + MaxDelay
      <4>1. PICK a \in Nat : a = q[1].age /\ a <= MaxDelay
        BY <3>3, Halves
      <4>2. since[o] <= MaxDelay
        BY <3>4, <4>1, Halves
      <4> QED BY <1>2, <1>3, <4>2, Halves
    <3> QED BY <1>2, <2>1, <3>2, <3>5 DEF Silent, o
  <2>2. CASE o \notin hung
    BY <1>2, <2>2 DEF IInv, Silent, o
  <2> QED BY <2>1, <2>2
<1>10. Silent(o)'
  BY <1>1, <1>2, <1>3 DEF IInv, Silent
<1>11. Outstanding(o)'
  <2> SUFFICES ASSUME Up(o), probe[o] # NoProbe  PROVE OnItsWay(o)' \/ Answered(o)'
    BY <1>3 DEF Outstanding
  <2>1. OnItsWay(o) \/ Answered(o) \/ Ending(o)
    BY <1>1, <1>3 DEF IInv, Outstanding
  <2>2. CASE OnItsWay(o)
    <3>1. PICK i \in 1 .. Len(q) : q[i].kind = "ping" /\ probe[o] <= q[i].age
      BY <1>1, <2>2 DEF OnItsWay, q
    <3>2. CASE i = 1
      <4>1. Len(inbox'[o]) \in 1 .. Len(inbox'[o]) /\ inbox'[o][Len(inbox'[o])].age = 0
        BY <1>4, <1>5, <3>1, <3>2
      <4>2. q[1].age \in 0 .. MaxDelay /\ probe[o] \in 0 .. Deadline
        BY <1>1, <1>4, AgesTyped, ProbeTyped DEF IInv, q
      <4>3. probe'[o] <= MaxDelay + 0
        <5>1. PICK a \in Nat : a = q[1].age /\ a <= MaxDelay
          BY <4>2, Halves
        <5>2. probe[o] \in Nat /\ probe[o] <= a
          BY <3>1, <3>2, <4>2, <5>1, Halves
        <5> QED BY <1>3, <5>1, <5>2, Halves
      <4> QED BY <4>1, <4>3 DEF Answered
    <3>3. CASE i # 1
      <4>1. i - 1 \in 1 .. Len(inbox'[e]) /\ inbox'[e][i - 1] = q[i]
        BY <1>4, <1>5, <3>1, <3>3
      <4> QED BY <1>1, <1>3, <3>1, <4>1 DEF OnItsWay
    <3> QED BY <3>2, <3>3
  <2>3. CASE Answered(o)
    BY <1>3, <1>5, <2>3 DEF Answered
  <2>4. CASE Ending(o)
    <3>1. ended[e] # ""
      BY <1>1, <2>4 DEF Ending
    <3> QED BY <1>2, <3>1 DEF Up
  <2> QED BY <2>1, <2>2, <2>3, <2>4
<1>12. Typed'
  <2>1. probe' \in [Ends -> {NoProbe} \cup 0 .. Deadline] /\ idle' \in [Ends -> 0 .. Deadline]
    <3>1. 0 \in 0 .. Deadline
      BY Halves
    <3> QED BY <1>2, <3>1 DEF IInv, Typed, TypeOK
  <2>2. \A f \in Ends : probe'[f] # NoProbe => probe'[f] + Half <= idle'[f]
    BY <1>1, <1>3 DEF IInv, Typed, TypeOK
  <2> QED BY <1>2, <1>5, <2>1, <2>2 DEF IInv, Typed, TypeOK, Message
<1> QED BY <1>1, <1>7, <1>8, <1>9, <1>10, <1>11, <1>12 DEF IInv

\* An endpoint stops; the clock of its silence starts at 0.
LEMMA HangKeeps ==
    ASSUME IInv, NEW e \in Ends, Hang(e)
    PROVE  IInv'
<1> DEFINE o == Other(e)
<1>1. o \in Ends /\ o # e /\ Other(o) = e /\ \A f \in Ends : f = e \/ f = o
  BY TwoEnds
<1>2. /\ e \in MayHang /\ Up(e) /\ hung' = hung \cup {e}
      /\ UNCHANGED <<idle, probe, ticker, inbox, ended, since, data>>
  BY DEF Hang
<1>3. ~Up(e)' /\ (Up(o)' <=> Up(o)) /\ e \in hung' /\ (o \in hung' <=> o \in hung)
  BY <1>1, <1>2 DEF Up
<1>4. Typed'
  BY <1>2 DEF IInv, Typed, TypeOK
<1>5. Phase(e)' /\ Outstanding(e)' /\ Outstanding(o)'
  BY <1>1, <1>3 DEF Phase, Outstanding
<1>6. Phase(o)'
  BY <1>1, <1>2, <1>3 DEF IInv, Phase
<1>7. Silent(e)'
  BY <1>1, <1>2, <1>3 DEF IInv, Silent
<1>8. Silent(o)'
  <2>1. since'[e] = 0
    BY <1>1, <1>2 DEF IInv, Silent, Up
  <2>2. \A i \in 1 .. Len(inbox'[o]) : since'[e] <= inbox'[o][i].age
    <3> TAKE i \in 1 .. Len(inbox'[o])
    <3>1. inbox[o][i].age \in 0 .. MaxDelay
      BY <1>1, <1>2, AgesTyped DEF IInv
    <3>2. PICK a \in Nat : a = inbox[o][i].age
      BY <3>1, Halves
    <3> QED BY <1>2, <2>1, <3>2
  <2>3. since'[e] <= idle'[o] + MaxDelay
    BY <1>1, <1>2, <2>1, ProbeTyped, Halves DEF IInv
  <2> QED BY <1>1, <1>3, <2>2, <2>3 DEF Silent
<1> QED BY <1>1, <1>4, <1>5, <1>6, <1>7, <1>8 DEF IInv

\* A queue that time passes over.
Older(q) == [i \in DOMAIN q |-> [q[i] EXCEPT !.age = @ + 1]]

LEMMA OlderQueue ==
    ASSUME NEW q \in Seq(Message), \A i \in DOMAIN q : q[i].age < MaxDelay
    PROVE  /\ Older(q) \in Seq(Message) /\ Len(Older(q)) = Len(q)
           /\ \A i \in 1 .. Len(q) : Older(q)[i].age = q[i].age + 1 /\ Older(q)[i].kind = q[i].kind
<1>1. Len(q) \in Nat /\ q \in [1 .. Len(q) -> Message] /\ DOMAIN q = 1 .. Len(q)
  BY LenProperties
<1>2. \A i \in 1 .. Len(q) : /\ Older(q)[i].age = q[i].age + 1 /\ Older(q)[i].kind = q[i].kind
                             /\ Older(q)[i] \in Message
  <2> TAKE i \in 1 .. Len(q)
  <2>1. q[i] \in Message /\ q[i].age < MaxDelay
    BY <1>1
  <2>2. PICK a \in 0 .. MaxDelay : a = q[i].age
    BY <2>1 DEF Message
  <2>3. a + 1 \in 0 .. MaxDelay
    BY <2>1, <2>2, Halves
  <2>4. Older(q)[i] = [q[i] EXCEPT !.age = a + 1]
    BY <1>1, <2>2 DEF Older
  <2> QED BY <2>1, <2>2, <2>3, <2>4 DEF Message
<1>3. Older(q) \in [1 .. Len(q) -> Message]
  BY <1>1, <1>2 DEF Older
<1>4. Older(q) \in Seq(Message)
  BY <1>1, <1>3, SeqDef
<1>5. Len(Older(q)) = Len(q)
  BY <1>1, <1>3, <1>4, LenProperties
<1> QED BY <1>2, <1>4, <1>5

\* What time does to an endpoint that is up.
LEMMA Ages ==
    ASSUME IInv, Age, NEW f \in Ends, Up(f)
    PROVE  /\ idle[f] \in Nat /\ idle[f] < Deadline /\ idle'[f] = idle[f] + 1
           /\ ticker[f] \in 1 .. Half /\ ticker'[f] = ticker[f] - 1
           /\ probe[f] = NoProbe => probe'[f] = NoProbe
           /\ probe[f] # NoProbe => /\ probe[f] \in Nat /\ probe[f] + Half <= idle[f]
                                    /\ probe'[f] = probe[f] + 1 /\ probe'[f] # NoProbe
<1>1. /\ idle'[f] = idle[f] + 1 /\ ticker'[f] = ticker[f] - 1 /\ ticker[f] > 0 /\ idle[f] < Deadline
      /\ probe[f] = NoProbe => probe'[f] = NoProbe
      /\ probe[f] # NoProbe => probe'[f] = probe[f] + 1
  BY DEF Age
<1>2. /\ idle[f] \in 0 .. Deadline /\ ticker[f] \in 0 .. Half
      /\ probe[f] # NoProbe => probe[f] \in 0 .. Deadline
      /\ probe[f] # NoProbe => probe[f] + Half <= idle[f]
  BY ProbeTyped DEF IInv, Typed, TypeOK
<1>3. Half \in Nat /\ Deadline \in Nat
  BY Halves
<1>4. idle[f] \in Nat /\ ticker[f] \in 1 .. Half
  BY <1>1, <1>2, <1>3
<1>5. ASSUME probe[f] # NoProbe  PROVE probe[f] \in Nat /\ probe'[f] # NoProbe
  <2>1. probe[f] \in Nat /\ probe'[f] = probe[f] + 1
    BY <1>1, <1>2, <1>3, <1>5
  <2> QED BY <2>1 DEF NoProbe
<1> QED BY <1>1, <1>2, <1>4, <1>5

\* Time goes on.
LEMMA AgeKeeps ==
    ASSUME IInv, Age
    PROVE  IInv'
<1>1. \A f \in Ends : /\ (Up(f)' <=> Up(f)) /\ (f \in hung' <=> f \in hung) /\ ended'[f] = ended[f]
                      /\ Other(f) \in Ends
  BY TwoEnds DEF Age, Up
<1>2. \A f \in Ends : Up(f) => /\ idle'[f] = idle[f] + 1 /\ ticker'[f] = ticker[f] - 1
                               /\ ticker[f] > 0 /\ idle[f] < Deadline
                               /\ probe'[f] = IF probe[f] # NoProbe THEN probe[f] + 1 ELSE NoProbe
                               /\ ended[Other(f)] # "" => inbox[f] # <<>>
  BY DEF Age
<1>3. \A f \in Ends : ~Up(f) => idle'[f] = idle[f] /\ ticker'[f] = ticker[f] /\ probe'[f] = probe[f]
  BY DEF Age
<1>4. \A f \in Ends : /\ idle[f] \in 0 .. Deadline /\ ticker[f] \in 0 .. Half /\ since[f] \in Nat
                      /\ probe[f] # NoProbe => probe[f] \in 0 .. Deadline /\ probe[f] + Half <= idle[f]
                      /\ probe[f] \in {NoProbe} \cup 0 .. Deadline
                      /\ inbox[f] \in Seq(Message)
  BY DEF IInv, Typed, TypeOK
<1>5. Half \in Nat /\ Half >= 1 /\ Deadline \in Nat /\ MaxDelay \in Nat /\ NoProbe = -1
  BY Halves DEF NoProbe
<1>6. \A f \in Ends : Up(f) => /\ inbox'[f] = Older(inbox[f])
                               /\ \A i \in DOMAIN inbox[f] : inbox[f][i].age < MaxDelay
  BY DEF Age, Older
<1>7. \A f \in Ends : Up(f) =>
         /\ inbox'[f] \in Seq(Message) /\ Len(inbox'[f]) = Len(inbox[f])
         /\ \A i \in 1 .. Len(inbox[f]) : /\ inbox'[f][i].age = inbox[f][i].age + 1
                                          /\ inbox'[f][i].kind = inbox[f][i].kind
  BY <1>4, <1>6, OlderQueue
<1>8. \A f \in Ends : ~Up(f) => inbox'[f] = <<>>
  BY DEF Age
<1>9. \A f \in Ends : since'[f] = IF f \in hung THEN since[f] + 1 ELSE 0
  BY DEF Age
<1>10. \A f \in Ends : \A i \in 1 .. Len(inbox[f]) : inbox[f][i].age \in 0 .. MaxDelay
  BY AgesTyped DEF IInv
<1>11. ASSUME NEW f \in Ends  PROVE Phase(f)'
  <2> SUFFICES ASSUME Up(f)  PROVE Phase(f)'
    BY <1>1 DEF Phase
  <2>1. Phase(f)
    BY DEF IInv
  <2>2. CASE probe[f] = NoProbe
    <3>1. idle[f] + ticker[f] <= 2 * Half - 1
      BY <2>1, <2>2 DEF Phase
    <3>2. idle'[f] + ticker'[f] <= 2 * Half - 1
      BY <1>5, <3>1, Ages
    <3>3. probe'[f] = NoProbe
      BY <2>2, Ages
    <3> QED BY <3>2, <3>3 DEF Phase
  <2>3. CASE probe[f] # NoProbe
    <3>1. idle[f] <= probe[f] + 2 * Half - 1 /\ probe[f] + ticker[f] >= Half
      BY <2>1, <2>3 DEF Phase
    <3>2. /\ probe'[f] = probe[f] + 1 /\ probe'[f] # NoProbe /\ probe[f] \in Nat
          /\ idle[f] \in Nat /\ idle'[f] = idle[f] + 1 /\ ticker[f] \in 1 .. Half /\ ticker'[f] = ticker[f] - 1
      BY <2>3, Ages
    <3>3. idle'[f] <= probe'[f] + 2 * Half - 1 /\ probe'[f] + ticker'[f] >= Half
      BY <1>5, <3>1, <3>2
    <3> QED BY <3>2, <3>3 DEF Phase
  <2> QED BY <2>2, <2>3
<1>12. ASSUME NEW f \in Ends  PROVE Outstanding(f)'
  <2> SUFFICES ASSUME Up(f), Other(f) \notin hung, probe[f] # NoProbe
               PROVE  OnItsWay(f)' \/ Answered(f)'
    BY <1>1, <1>2 DEF Outstanding
  <2>1. OnItsWay(f) \/ Answered(f) \/ Ending(f)
    BY DEF IInv, Outstanding
  <2>2. probe'[f] = probe[f] + 1 /\ probe[f] \in Nat
    BY Ages
  <2>3. CASE OnItsWay(f)
    <3>1. PICK i \in 1 .. Len(inbox[Other(f)]) : /\ inbox[Other(f)][i].kind = "ping"
                                                 /\ probe[f] <= inbox[Other(f)][i].age
      BY <2>3 DEF OnItsWay
    <3>2. Up(Other(f)) /\ Up(Other(f))'
      BY <1>1, <2>3 DEF OnItsWay
    <3>3. PICK a \in Nat : a = inbox[Other(f)][i].age
      BY <1>1, <1>5, <1>10, <3>1
    <3>4. inbox'[Other(f)][i].kind = "ping" /\ probe'[f] <= inbox'[Other(f)][i].age /\ i \in 1 .. Len(inbox'[Other(f)])
      BY <1>1, <1>7, <2>2, <3>1, <3>2, <3>3
    <3> QED BY <3>2, <3>4 DEF OnItsWay
  <2>4. CASE Answered(f)
    <3>1. PICK i \in 1 .. Len(inbox[f]) : probe[f] <= MaxDelay + inbox[f][i].age
      BY <2>4 DEF Answered
    <3>2. PICK a \in Nat : a = inbox[f][i].age
      BY <1>5, <1>10, <3>1
    <3>3. inbox'[f][i].age = a + 1 /\ i \in 1 .. Len(inbox'[f])
      BY <1>7, <3>1, <3>2
    <3>4. PICK p \in Nat : p = probe[f]
      BY <2>2
    <3>5. p <= MaxDelay + a
      BY <3>1, <3>2, <3>4
    <3>6. p + 1 <= MaxDelay + (a + 1)
      BY <1>5, <3>5
    <3>7. probe'[f] <= MaxDelay + inbox'[f][i].age
      BY <2>2, <3>3, <3>4, <3>6
    <3> QED BY <3>3, <3>7 DEF Answered
  <2>5. CASE Ending(f)
    <3>1. inbox[f] # <<>> /\ Len(inbox[f]) = 0
      BY <1>2, <2>5 DEF Ending
    <3> QED BY <1>4, <3>1, EmptySeq
  <2> QED BY <2>1, <2>3, <2>4, <2>5
<1>13. ASSUME NEW f \in Ends  PROVE Silent(f)'
  <2>1. CASE Other(f) \notin hung
    BY <1>1, <1>9, <2>1 DEF Silent
  <2>2. CASE Other(f) \in hung /\ Up(f)
    <3>1. since[Other(f)] <= idle[f] + MaxDelay /\ \A i \in 1 .. Len(inbox[f]) : since[Other(f)] <= inbox[f][i].age
      BY <2>2 DEF IInv, Silent
    <3>2. since'[Other(f)] = since[Other(f)] + 1 /\ since[Other(f)] \in Nat
      BY <1>1, <1>4, <1>9, <2>2
    <3>3. since'[Other(f)] <= idle'[f] + MaxDelay
      <4>1. idle[f] \in Nat /\ idle'[f] = idle[f] + 1
        BY <2>2, Ages
      <4> QED BY <1>5, <3>1, <3>2, <4>1
    <3>4. \A i \in 1 .. Len(inbox'[f]) : since'[Other(f)] <= inbox'[f][i].age
      <4> TAKE i \in 1 .. Len(inbox'[f])
      <4>1. i \in 1 .. Len(inbox[f]) /\ inbox'[f][i].age = inbox[f][i].age + 1
        BY <1>7, <2>2
      <4>2. PICK a \in Nat : a = inbox[f][i].age
        BY <1>5, <1>10, <4>1
      <4> QED BY <3>1, <3>2, <4>1, <4>2
    <3> QED BY <1>1, <2>2, <3>3, <3>4 DEF Silent
  <2>3. CASE Other(f) \in hung /\ ~Up(f)
    BY <1>1, <2>3 DEF Silent
  <2> QED BY <2>1, <2>2, <2>3
<1>14. Typed'
  <2>1. \A f \in Ends : /\ idle'[f] \in 0 .. Deadline /\ ticker'[f] \in 0 .. Half
                        /\ probe'[f] \in {NoProbe} \cup 0 .. Deadline
                        /\ probe'[f] # NoProbe => probe'[f] + Half <= idle'[f]
    <3> TAKE f \in Ends
    <3>1. CASE ~Up(f)
      BY <1>3, <1>4, <3>1
    <3>2. CASE Up(f) /\ probe[f] = NoProbe
      BY <1>5, <3>2, Ages
    <3>3. CASE Up(f) /\ probe[f] # NoProbe
      <4>1. /\ probe'[f] = probe[f] + 1 /\ probe[f] \in Nat /\ probe[f] + Half <= idle[f]
            /\ idle[f] \in Nat /\ idle[f] < Deadline /\ idle'[f] = idle[f] + 1
            /\ ticker[f] \in 1 .. Half /\ ticker'[f] = ticker[f] - 1
        BY <3>3, Ages
      <4>2. probe'[f] \in 0 .. Deadline
        BY <1>5, <4>1
      <4> QED BY <1>5, <4>1, <4>2
    <3> QED BY <3>1, <3>2, <3>3
  <2>2. \A f \in Ends : inbox'[f] \in Seq(Message)
    <3> TAKE f \in Ends
    <3>1. CASE Up(f)
      BY <1>7, <3>1
    <3>2. CASE ~Up(f)
      BY <1>8, <3>2, EmptySeq
    <3> QED BY <3>1, <3>2
  <2>3. \A f \in Ends : since'[f] \in Nat
    BY <1>4, <1>9
  <2>4. /\ idle' \in [Ends -> 0 .. Deadline] /\ ticker' \in [Ends -> 0 .. Half]
        /\ probe' \in [Ends -> {NoProbe} \cup 0 .. Deadline]
        /\ inbox' \in [Ends -> Seq(Message)] /\ since' \in [Ends -> Nat]
    BY <2>1, <2>2, <2>3 DEF Age
  <2> QED BY <2>1, <2>2, <2>4 DEF Age, IInv, Typed, TypeOK, Message
<1> QED BY <1>11, <1>12, <1>13, <1>14 DEF IInv

------------------------------------------------------------------------------
LEMMA Start ==
    ASSUME Init
    PROVE  IInv
<1>1. /\ idle = [e \in Ends |-> 0] /\ probe = [e \in Ends |-> NoProbe] /\ ticker \in [Ends -> 1 .. Half]
      /\ inbox = [e \in Ends |-> <<>>] /\ ended = [e \in Ends |-> ""]
      /\ hung = {} /\ since = [e \in Ends |-> 0] /\ data = 0
  BY DEF Init
<1>2. 0 \in 0 .. Deadline /\ 0 \in Nat /\ 0 \in 0 .. MaxData /\ 1 .. Half \subseteq 0 .. Half /\ <<>> \in Seq(Message)
  BY Halves, EmptySeq
<1>3. Typed
  BY <1>1, <1>2 DEF Typed, TypeOK, Message
<1>4. \A e \in Ends : Phase(e)
  <2> TAKE e \in Ends
  <2>1. idle[e] = 0 /\ probe[e] = NoProbe /\ ticker[e] \in 1 .. Half /\ Half \in Nat
    BY <1>1, Halves
  <2>2. idle[e] + ticker[e] <= 2 * Half - 1
    BY <2>1
  <2> QED BY <2>1, <2>2 DEF Phase
<1>5. \A e \in Ends : Outstanding(e) /\ Silent(e)
  BY <1>1, TwoEnds DEF Outstanding, Silent
<1> QED BY <1>3, <1>4, <1>5 DEF IInv

LEMMA Step ==
    ASSUME IInv, [Next]_vars
    PROVE  IInv'
<1>1. ASSUME NEW e \in Ends, Beat(e)  PROVE IInv'
  BY <1>1, BeatKeeps
<1>2. ASSUME NEW e \in Ends, Read(e)  PROVE IInv'
  BY <1>2, ReadKeeps
<1>3. ASSUME NEW e \in Ends, NEW why \in {"deadline", "peer", "closed"}, Up(e),
             ended' = [ended EXCEPT ![e] = why], UNCHANGED <<idle, probe, ticker, inbox, hung, since, data>>
      PROVE  IInv'
  <2>1. Typed'
    BY <1>3 DEF IInv, Typed, TypeOK
  <2>2. \A f \in Ends : Good(f)'
    BY <1>3, EndKeeps
  <2> QED BY <2>1, <2>2 DEF IInv, Good
<1>4. ASSUME NEW e \in Ends, ReadExpires(e)  PROVE IInv'
  BY <1>3, <1>4 DEF ReadExpires
<1>5. ASSUME NEW e \in Ends, PeerCloses(e)  PROVE IInv'
  BY <1>3, <1>5 DEF PeerCloses
<1>6. ASSUME NEW e \in Ends, Close(e)  PROVE IInv'
  BY <1>3, <1>6 DEF Close
<1>7. ASSUME NEW e \in Ends, SendData(e)  PROVE IInv'
  <2>1. /\ Up(e) /\ inbox' = Sent(e, "data") /\ UNCHANGED <<idle, probe, ticker, ended, hung, since>>
        /\ data < MaxData /\ data' = data + 1
    BY <1>7 DEF SendData
  <2>2. /\ inbox' \in [Ends -> Seq(Message)]
        /\ \A f \in Ends : Outstanding(f)' /\ Silent(f)' /\ (f # e => Phase(f)')
    BY <2>1, SendKeeps
  <2>3. Phase(e)'
    BY <2>1 DEF IInv, Phase, Up
  <2>4. data' \in 0 .. MaxData
    <3>1. data \in 0 .. MaxData /\ MaxData \in Nat
      BY Halves DEF IInv, Typed, TypeOK
    <3> QED BY <2>1, <3>1
  <2>5. Typed'
    BY <2>1, <2>2, <2>4 DEF IInv, Typed, TypeOK, Message
  <2> QED BY <2>2, <2>3, <2>5 DEF IInv
<1>8. ASSUME NEW e \in Ends, Hang(e)  PROVE IInv'
  BY <1>8, HangKeeps
<1>9. ASSUME UNCHANGED vars  PROVE IInv'
  BY <1>9 DEF vars, IInv, Typed, TypeOK, Phase, Outstanding, Silent, OnItsWay, Answered, Ending, Up
<1> QED BY <1>1, <1>2, <1>4, <1>5, <1>6, <1>7, <1>8, <1>9, AgeKeeps DEF Next

LEMMA Invariant == Spec => []IInv
<1>1. Init => IInv
  BY Start
<1>2. IInv /\ [Next]_vars => IInv'
  BY Step
<1> QED BY <1>1, <1>2, PTL DEF Spec

------------------------------------------------------------------------------
\* An endpoint whose timers run out has a peer that hangs.
LEMMA GivesUpTheHung ==
    ASSUME AnswersInTime, IInv, NEW e \in Ends, Up(e),
           (ticker[e] = 0 /\ GivesUp(e)) \/ idle[e] >= Deadline
    PROVE  Other(e) \in hung
<1> SUFFICES ASSUME Other(e) \notin hung  PROVE FALSE
  OBVIOUS
<1>1. /\ Half \in Nat /\ Half >= 1 /\ 2 * Half <= Interval /\ Interval \in Nat /\ Timeout \in Nat
      /\ MaxDelay \in Nat /\ Slack \in Nat /\ Deadline = Interval + Timeout + Slack /\ Timeout >= 2
  BY Halves
<1>2. Interval <= Timeout + Slack
  BY HeartbeatAssumption
<1>3. idle[e] \in Nat /\ ticker[e] \in Nat
  BY ProbeTyped, <1>1 DEF IInv
<1>4. Phase(e)
  BY DEF IInv
<1>5. CASE probe[e] = NoProbe
  <2>1. idle[e] >= Deadline
    BY <1>5 DEF GivesUp
  <2>2. idle[e] + ticker[e] <= 2 * Half - 1
    BY <1>4, <1>5 DEF Phase
  <2> QED BY <1>1, <1>3, <2>1, <2>2
<1>6. CASE probe[e] # NoProbe
  <2>1. probe[e] \in Nat /\ probe[e] <= 2 * MaxDelay
    BY <1>6, ProbesAreShort
  <2>2. idle[e] <= probe[e] + 2 * Half - 1 /\ probe[e] + ticker[e] >= Half
    BY <1>4, <1>6 DEF Phase
  <2>3. CASE idle[e] >= Deadline
    <3>1. CASE 2 * MaxDelay < Half
      BY <1>1, <1>2, <1>3, <2>1, <2>2, <2>3, <3>1
    <3>2. CASE Interval + 2 * MaxDelay <= Timeout
      BY <1>1, <1>3, <2>1, <2>2, <2>3, <3>2
    <3> QED BY <3>1, <3>2 DEF AnswersInTime
  <2>4. CASE ticker[e] = 0 /\ GivesUp(e)
    <3>1. probe[e] >= Timeout \/ idle[e] >= Timeout
      BY <2>4 DEF GivesUp
    <3>2. CASE 2 * MaxDelay < Half
      BY <1>1, <2>1, <2>2, <2>4, <3>2
    <3>3. CASE Interval + 2 * MaxDelay <= Timeout
      BY <1>1, <1>3, <2>1, <2>2, <3>1, <3>3
    <3> QED BY <3>2, <3>3 DEF AnswersInTime
  <2> QED BY <2>3, <2>4
<1> QED BY <1>5, <1>6

LEMMA KeepsStep ==
    ASSUME IInv, KeepsTheLiving, [Next]_vars
    PROVE  KeepsTheLiving'
<1>a. AnswersInTime' <=> AnswersInTime
  BY DEF AnswersInTime, Half
<1> SUFFICES ASSUME AnswersInTime PROVE KeepsTheLiving'
  BY <1>a DEF KeepsTheLiving
<1>1. ended \in [Ends -> {"", "watchdog", "deadline", "peer", "closed"}]
  BY DEF IInv, Typed, TypeOK
<1>2. ASSUME NEW e \in Ends, NEW why, ended' = [ended EXCEPT ![e] = why], hung' = hung,
             why \in {"watchdog", "deadline"} => Other(e) \in hung
      PROVE  KeepsTheLiving'
  BY <1>1, <1>2 DEF KeepsTheLiving
<1>3. ASSUME ended' = ended, hung \subseteq hung'
      PROVE  KeepsTheLiving'
  BY <1>3 DEF KeepsTheLiving
<1>4. ASSUME NEW e \in Ends, Beat(e)  PROVE KeepsTheLiving'
  <2>1. Up(e) /\ ticker[e] = 0 /\ hung' = hung
        /\ ended' = [ended EXCEPT ![e] = IF GivesUp(e) THEN "watchdog" ELSE ""]
    BY <1>4 DEF Beat
  <2>2. CASE GivesUp(e)
    BY <1>2, <2>1, <2>2, GivesUpTheHung
  <2>3. CASE ~GivesUp(e)
    BY <1>2, <2>1, <2>3
  <2> QED BY <2>2, <2>3
<1>5. ASSUME NEW e \in Ends, ReadExpires(e)  PROVE KeepsTheLiving'
  <2>1. Up(e) /\ idle[e] >= Deadline /\ hung' = hung /\ ended' = [ended EXCEPT ![e] = "deadline"]
    BY <1>5 DEF ReadExpires
  <2> QED BY <1>2, <2>1, GivesUpTheHung
<1>6. ASSUME NEW e \in Ends, Close(e) \/ PeerCloses(e)  PROVE KeepsTheLiving'
  BY <1>2, <1>6 DEF Close, PeerCloses
<1>7. ASSUME NEW e \in Ends, Read(e) \/ SendData(e) \/ Hang(e)  PROVE KeepsTheLiving'
  BY <1>3, <1>7 DEF Read, SendData, Hang
<1>8. ASSUME Age \/ UNCHANGED vars  PROVE KeepsTheLiving'
  BY <1>3, <1>8 DEF Age, vars
<1> QED BY <1>4, <1>5, <1>6, <1>7, <1>8 DEF Next

------------------------------------------------------------------------------
\* Every clock, queue and reason keeps its type, and no inbox of a session holds
\* a message older than the delay (heartbeatLoop, keepaliveLoop).
THEOREM TypeCorrect == Spec => []TypeOK
<1>1. IInv => TypeOK
  BY DEF IInv, Typed
<1> QED BY <1>1, Invariant, PTL

\* Whatever the interval and the timeout, a peer that hangs is noticed within
\* the read deadline of its last message (SetSteadyReadTimeout).
THEOREM HungIsNoticed == Spec => []NoticedInTime
<1>1. ASSUME IInv  PROVE NoticedInTime
  <2> SUFFICES ASSUME NEW e \in Ends, Up(e)
               PROVE  since[Other(e)] <= Interval + Timeout + Slack + MaxDelay
    BY DEF NoticedInTime
  <2>1. idle[e] \in 0 .. Deadline /\ Deadline = Interval + Timeout + Slack
        /\ Interval \in Nat /\ Timeout \in Nat /\ Slack \in Nat /\ MaxDelay \in Nat
    BY <1>1, ProbeTyped, Halves DEF IInv
  <2>2. since[Other(e)] \in Nat
    BY <1>1, ProbeTyped, TwoEnds DEF IInv
  <2>3. CASE Other(e) \in hung
    <3>1. since[Other(e)] <= idle[e] + MaxDelay
      BY <1>1, <2>3 DEF IInv, Silent
    <3> QED BY <2>1, <2>2, <3>1
  <2>4. CASE Other(e) \notin hung
    <3>1. since[Other(e)] = 0
      BY <1>1, <2>4 DEF IInv, Silent
    <3> QED BY <2>1, <3>1
  <2> QED BY <2>3, <2>4
<1> QED BY <1>1, Invariant, PTL

\* A peer that does not hang is never given up, by the watchdog of either side
\* or by a read deadline, when the network answers in time: a probe is answered
\* before a tick can find it old enough (heartbeatLoop, "can never be reaped by
\* scheduling jitter").
THEOREM LivingIsKept == Spec => []KeepsTheLiving
<1>1. Init => KeepsTheLiving
  BY DEF Init, KeepsTheLiving
<1>2. IInv /\ KeepsTheLiving /\ [Next]_vars => KeepsTheLiving'
  BY KeepsStep
<1> QED BY <1>1, <1>2, Invariant, PTL DEF Spec

==============================================================================
