-------------------------- MODULE Lifecycle_proofs --------------------------
(***************************************************************************)
(* The lifecycles of the two processes.                                    *)
(*                                                                         *)
(* The host, for any number of connections and keys: one session at a      *)
(* time, no error of a loop turned away, no key left down but a late one,  *)
(* and no cleanup that lifts the keys of the next session.  IInv is the    *)
(* inductive invariant.  It adds to the checked invariants what a          *)
(* connection is before its loops start: it has no key down and every loop *)
(* of it is off, so that Start, which turns the loops on, forgets no       *)
(* report and no key.                                                      *)
(*                                                                         *)
(* The client, for every choice of builds and timeouts: its types, with    *)
(* who may have cancelled the session; that Run ends only for a reason;    *)
(* and that main leaves no goroutine behind.  ClientIInv adds to its       *)
(* TypeOK what ties the goroutines together: the contexts, the builds and  *)
(* the order in which runGUILifecycle joins.  ClientRun is an instance     *)
(* here, so what it assumes of its constants is a hypothesis.              *)
(***************************************************************************)
EXTENDS HostSession, FiniteSetTheorems, TLAPS

\* The phases before Run has started the loops.
Unstarted == {"absent", "auth", "admit", "hello", "refused", "adapter", "initial"}

LoopsOff(c) == capture[c] = "off" /\ send[c] = "off" /\ input[c] = "off" /\ heartbeat[c] = "off"

NothingBefore == \A c \in Conns : pc[c] \in Unstarted => LoopsOff(c) /\ KeysOf(c) = {}

\* The key an input loop holds is one of those its client sent.
KeyWasSent == \A c \in Conns : input[c] \in {"key", "checked"} => sent[c] \in 1 .. MaxKeys

IInv == TypeOK /\ OneSession /\ OnlyALateKeyStays /\ NothingBefore /\ KeyWasSent

\* The step on which NoForeignRelease is a statement.
NoForeignStep == \A c \in Conns : pc[c] = "running" => KeysOf(c) \subseteq KeysOf(c)'

------------------------------------------------------------------------------
\* The slot

\* A step between two phases that both hold the slot, or both do not.
LEMMA SlotKept ==
    ASSUME pc \in [Conns -> Phases], OneSession, NEW c \in Conns, NEW from, NEW to, Go(c, from, to),
           from \in Holding <=> to \in Holding, open' = open
    PROVE  OneSession'
BY DEF Go, OneSession

LEMMA SlotTaken ==
    ASSUME pc \in [Conns -> Phases], OneSession, NEW c \in Conns, NEW from, NEW to, Go(c, from, to),
           to \in Holding, ~open, open' = TRUE
    PROVE  OneSession'
BY DEF Go, OneSession

LEMMA SlotGivenBack ==
    ASSUME pc \in [Conns -> Phases], OneSession, NEW c \in Conns, NEW from, NEW to, Go(c, from, to),
           from \in Holding, to \notin Holding, open' = FALSE
    PROVE  OneSession'
BY DEF Go, OneSession

\* Every step keeps OneSession.
LEMMA OneSessionStep == ASSUME IInv, [Next]_vars PROVE OneSession'
<1> USE DEF Holding
<1>1. pc \in [Conns -> Phases] /\ OneSession
  BY DEF IInv, TypeOK
<1>2. ASSUME NEW c \in Conns, Connect(c) PROVE OneSession'
  BY <1>1, <1>2, SlotKept DEF Connect
<1>3. ASSUME NEW c \in Conns, Authenticate(c) PROVE OneSession'
  BY <1>1, <1>3, SlotKept DEF Authenticate
<1>4. ASSUME NEW c \in Conns, Admit(c) PROVE OneSession'
  BY <1>1, <1>4, SlotTaken DEF Admit
<1>5. ASSUME NEW c \in Conns, RejectBusy(c) PROVE OneSession'
  BY <1>1, <1>5, SlotKept DEF RejectBusy
<1>6. ASSUME NEW c \in Conns, Hello(c) PROVE OneSession'
  BY <1>1, <1>6, SlotKept, SlotGivenBack DEF Hello
<1>7. ASSUME NEW c \in Conns, CloseRefused(c) PROVE OneSession'
  BY <1>1, <1>7, SlotKept DEF CloseRefused
<1>8. ASSUME NEW c \in Conns, GetAdapter(c) PROVE OneSession'
  BY <1>1, <1>8, SlotKept DEF GetAdapter
<1>9. ASSUME NEW c \in Conns, Start(c) PROVE OneSession'
  BY <1>1, <1>9, SlotKept DEF Start
<1>10. ASSUME NEW c \in Conns, RunReturns(c) PROVE OneSession'
  BY <1>1, <1>10, SlotKept DEF RunReturns
<1>11. ASSUME NEW c \in Conns, Release(c) PROVE OneSession'
  BY <1>1, <1>11, SlotKept DEF Release
<1>12. ASSUME NEW c \in Conns, CloseConn(c) PROVE OneSession'
  BY <1>1, <1>12, SlotKept DEF CloseConn
<1>13. ASSUME NEW c \in Conns, Finish(c) PROVE OneSession'
  BY <1>1, <1>13, SlotKept, SlotGivenBack DEF Finish
<1>14. CASE UNCHANGED <<pc, open>>
  BY <1>1, <1>14 DEF OneSession
<1>15. ASSUME NEW c \in Conns,
              \/ LeaveCapture(c) \/ CaptureFails(c) \/ LeaveHeartbeat(c) \/ HeartbeatFails(c)
              \/ BeginSend(c) \/ SendLoop(c) \/ ReceiveKey(c) \/ InputLoop(c) \/ LoseSocket(c)
       PROVE  UNCHANGED <<pc, open>>
  BY <1>15 DEF LeaveCapture, CaptureFails, LeaveHeartbeat, HeartbeatFails, BeginSend, SendLoop,
      EndSend, LeaveSend, ReceiveKey, InputLoop, ReceiveFails, CheckContext, Inject, LoseSocket, Frame
<1>16. Stop \/ Exit \/ UNCHANGED vars => UNCHANGED <<pc, open>>
  BY DEF Stop, Exit, vars
<1> QED
  BY <1>2, <1>3, <1>4, <1>5, <1>6, <1>7, <1>8, <1>9, <1>10, <1>11, <1>12, <1>13, <1>14, <1>15, <1>16
  DEF Next, HandleConnection, Accept

------------------------------------------------------------------------------
\* The channel of errors

LEMMA OverFinite == ASSUME NEW c PROVE IsFiniteSet(Over(c)) /\ Cardinality(Over(c)) \in Nat
<1> DEFINE L == {<<"capture", capture[c]>>, <<"send", send[c]>>, <<"input", input[c]>>,
                 <<"heartbeat", heartbeat[c]>>}
<1>1. L = ((({} \cup {<<"capture", capture[c]>>}) \cup {<<"send", send[c]>>})
              \cup {<<"input", input[c]>>}) \cup {<<"heartbeat", heartbeat[c]>>}
  OBVIOUS
<1>2. IsFiniteSet({} \cup {<<"capture", capture[c]>>})
  BY FS_EmptySet, FS_AddElement
<1>3. IsFiniteSet(({} \cup {<<"capture", capture[c]>>}) \cup {<<"send", send[c]>>})
  BY <1>2, FS_AddElement
<1>4. IsFiniteSet((({} \cup {<<"capture", capture[c]>>}) \cup {<<"send", send[c]>>})
                     \cup {<<"input", input[c]>>})
  BY <1>3, FS_AddElement
<1>5. IsFiniteSet(L)
  BY <1>1, <1>4, FS_AddElement
<1>6. Over(c) \in SUBSET L
  BY DEF Over
<1> HIDE DEF L
<1> QED
  BY <1>5, <1>6, FS_Subset, FS_CardinalityType

\* One of the loops of c ends; no other loop of any connection starts or ends.
LoopEnds(c) ==
    \/ /\ capture[c] # "over" /\ capture' = [capture EXCEPT ![c] = "over"]
       /\ UNCHANGED <<send, input, heartbeat>>
    \/ /\ send[c] # "over" /\ send' = [send EXCEPT ![c] = "over"]
       /\ UNCHANGED <<capture, input, heartbeat>>
    \/ /\ input[c] # "over" /\ input' = [input EXCEPT ![c] = "over"]
       /\ UNCHANGED <<capture, send, heartbeat>>
    \/ /\ heartbeat[c] # "over" /\ heartbeat' = [heartbeat EXCEPT ![c] = "over"]
       /\ UNCHANGED <<capture, send, input>>

\* A loop that ends makes room for one error more, on its own connection.
LEMMA OneMoreOver ==
    ASSUME TypeOK, NEW c \in Conns, LoopEnds(c)
    PROVE  /\ Cardinality(Over(c))' = Cardinality(Over(c)) + 1
           /\ \A d \in Conns \ {c} : Over(d)' = Over(d)
<1>1. PICK x : Over(c)' = Over(c) \cup {x} /\ x \notin Over(c)
  <2>1. CASE capture[c] # "over" /\ capture' = [capture EXCEPT ![c] = "over"]
             /\ UNCHANGED <<send, input, heartbeat>>
    <3>1. Over(c)' = Over(c) \cup {<<"capture", "over">>} /\ <<"capture", "over">> \notin Over(c)
      BY <2>1 DEF Over, TypeOK
    <3> QED
      BY <3>1
  <2>2. CASE send[c] # "over" /\ send' = [send EXCEPT ![c] = "over"]
             /\ UNCHANGED <<capture, input, heartbeat>>
    <3>1. Over(c)' = Over(c) \cup {<<"send", "over">>} /\ <<"send", "over">> \notin Over(c)
      BY <2>2 DEF Over, TypeOK
    <3> QED
      BY <3>1
  <2>3. CASE input[c] # "over" /\ input' = [input EXCEPT ![c] = "over"]
             /\ UNCHANGED <<capture, send, heartbeat>>
    <3>1. Over(c)' = Over(c) \cup {<<"input", "over">>} /\ <<"input", "over">> \notin Over(c)
      BY <2>3 DEF Over, TypeOK
    <3> QED
      BY <3>1
  <2>4. CASE heartbeat[c] # "over" /\ heartbeat' = [heartbeat EXCEPT ![c] = "over"]
             /\ UNCHANGED <<capture, send, input>>
    <3>1. Over(c)' = Over(c) \cup {<<"heartbeat", "over">>} /\ <<"heartbeat", "over">> \notin Over(c)
      BY <2>4 DEF Over, TypeOK
    <3> QED
      BY <3>1
  <2> QED
    BY <2>1, <2>2, <2>3, <2>4 DEF LoopEnds
<1>2. Cardinality(Over(c) \cup {x}) = Cardinality(Over(c)) + 1
  BY <1>1, OverFinite, FS_AddElement
<1>3. ASSUME NEW d \in Conns \ {c} PROVE Over(d)' = Over(d)
  BY <1>3 DEF LoopEnds, Over, TypeOK
<1> QED
  BY <1>1, <1>2, <1>3

\* What report leaves in the channels.
LEMMA ReportFits ==
    ASSUME TypeOK, NEW c \in Conns, Report(c) \/ UNCHANGED errs
    PROVE  /\ errs' \in [Conns -> 0 .. 4]
           /\ errs'[c] <= errs[c] + 1
           /\ \A d \in Conns \ {c} : errs'[d] = errs[d]
BY DEF TypeOK, Report

------------------------------------------------------------------------------
\* Types

\* A loop that ends, with or without an error to report.
LEMMA TypeOfLoopEnd ==
    ASSUME TypeOK, NEW c \in Conns, LoopEnds(c), Report(c) \/ UNCHANGED errs,
           Frame(c), UNCHANGED <<sent, pressed, late>>
    PROVE  TypeOK'
<1>1. /\ capture' \in [Conns -> {"off", "on", "over"}] /\ heartbeat' \in [Conns -> {"off", "on", "over"}]
      /\ send' \in [Conns -> {"off", "on", "sending", "over"}]
      /\ input' \in [Conns -> {"off", "on", "key", "checked", "over"}]
  BY DEF LoopEnds, TypeOK
<1>2. errs' \in [Conns -> 0 .. 4]
  BY ReportFits
<1>3. ASSUME NEW d \in Conns PROVE (errs[d] <= Cardinality(Over(d)))'
  <2>1. errs[d] \in Nat /\ errs'[d] \in Nat /\ errs[d] <= Cardinality(Over(d)) /\ Cardinality(Over(d)) \in Nat
    BY <1>2, OverFinite DEF TypeOK
  <2>2. CASE d = c
    BY <2>1, <2>2, ReportFits, OneMoreOver
  <2>3. CASE d # c
    BY <2>1, <2>3, ReportFits, OneMoreOver
  <2> QED
    BY <2>2, <2>3
<1> QED
  BY <1>1, <1>2, <1>3 DEF TypeOK, Frame

\* A step of the loops that ends none of them.
LEMMA TypeOfLoopStep ==
    ASSUME TypeOK, KeyWasSent, NEW c \in Conns, BeginSend(c) \/ EndSend(c) \/ ReceiveKey(c) \/ CheckContext(c) \/ Inject(c),
           send'[c] = "over" => send[c] = "over", input'[c] = "over" => input[c] = "over"
    PROVE  TypeOK'
<1>1. ASSUME NEW d \in Conns PROVE Over(d)' = Over(d)
  BY DEF TypeOK, BeginSend, EndSend, ReceiveKey, CheckContext, Inject, Over
<1>2. UNCHANGED errs
  BY DEF TypeOK, BeginSend, EndSend, ReceiveKey, CheckContext, Inject
<1>3. /\ capture' = capture /\ heartbeat' = heartbeat
      /\ send' \in [Conns -> {"off", "on", "sending", "over"}]
      /\ input' \in [Conns -> {"off", "on", "key", "checked", "over"}]
  BY DEF TypeOK, BeginSend, EndSend, ReceiveKey, CheckContext, Inject
<1>4. sent' \in [Conns -> 0 .. MaxKeys]
  BY HostSessionAssumption DEF TypeOK, BeginSend, EndSend, ReceiveKey, CheckContext, Inject
<1>5. pressed' \subseteq Conns \X (1 .. MaxKeys) /\ late' \subseteq Conns
  BY DEF TypeOK, KeyWasSent, BeginSend, EndSend, ReceiveKey, CheckContext, Inject
<1>6. Frame(c)
  BY DEF BeginSend, EndSend, ReceiveKey, CheckContext, Inject
<1> QED
  BY <1>1, <1>2, <1>3, <1>4, <1>5, <1>6 DEF TypeOK, Frame

LEMMA TypeOfLoops ==
    ASSUME IInv, NEW c \in Conns,
           \/ LeaveCapture(c) \/ CaptureFails(c) \/ LeaveHeartbeat(c) \/ HeartbeatFails(c)
           \/ BeginSend(c) \/ SendLoop(c) \/ ReceiveKey(c) \/ InputLoop(c)
    PROVE  TypeOK'
<1>1. TypeOK /\ KeyWasSent
  BY DEF IInv
<1>2. CASE LeaveCapture(c) \/ CaptureFails(c) \/ LeaveHeartbeat(c) \/ HeartbeatFails(c)
           \/ LeaveSend(c) \/ ReceiveFails(c)
  <2>1. LoopEnds(c) /\ (Report(c) \/ UNCHANGED errs) /\ Frame(c) /\ UNCHANGED <<sent, pressed, late>>
    BY <1>2 DEF LeaveCapture, CaptureFails, LeaveHeartbeat, HeartbeatFails, LeaveSend, ReceiveFails, LoopEnds
  <2> QED
    BY <1>1, <2>1, TypeOfLoopEnd
<1>3. CASE EndSend(c) \/ CheckContext(c) \/ Inject(c)
  <2>1. CASE (send'[c] = "over" => send[c] = "over") /\ (input'[c] = "over" => input[c] = "over")
    BY <1>1, <1>3, <2>1, TypeOfLoopStep
  <2>2. CASE ~((send'[c] = "over" => send[c] = "over") /\ (input'[c] = "over" => input[c] = "over"))
    <3>1. LoopEnds(c) /\ (Report(c) \/ UNCHANGED errs) /\ Frame(c) /\ UNCHANGED <<sent, pressed, late>>
      BY <1>1, <1>3, <2>2 DEF EndSend, CheckContext, Inject, LoopEnds, TypeOK
    <3> QED
      BY <1>1, <3>1, TypeOfLoopEnd
  <2> QED
    BY <2>1, <2>2
<1>4. CASE BeginSend(c) \/ ReceiveKey(c)
  <2>1. (send'[c] = "over" => send[c] = "over") /\ (input'[c] = "over" => input[c] = "over")
    BY <1>1, <1>4 DEF BeginSend, ReceiveKey, TypeOK
  <2> QED
    BY <1>1, <1>4, <2>1, TypeOfLoopStep
<1> QED
  BY <1>2, <1>3, <1>4 DEF SendLoop, InputLoop

\* Only Start and the loops themselves touch the loops.
LEMMA TypeOfHandler ==
    ASSUME TypeOK, NEW c \in Conns, UNCHANGED loops,
           \/ Connect(c) \/ HandleConnection(c) \/ LoseSocket(c) \/ Stop \/ Exit
    PROVE  TypeOK'
<1>1. ASSUME NEW d \in Conns PROVE Over(d)' = Over(d)
  BY DEF Over, loops
<1>2. /\ capture' = capture /\ heartbeat' = heartbeat /\ send' = send /\ input' = input
  BY DEF loops
<1>3. ASSUME RunReturns(c) PROVE TypeOK'
  <2>1. errs' \in [Conns -> 0 .. 4] /\ \A d \in Conns : errs'[d] <= errs[d]
    BY <1>3 DEF RunReturns, TypeOK
  <2>2. ASSUME NEW d \in Conns PROVE (errs[d] <= Cardinality(Over(d)))'
    BY <1>1, <2>1, OverFinite DEF TypeOK
  <2> QED
    BY <1>2, <1>3, <2>1, <2>2 DEF RunReturns, Go, TypeOK, Phases, Holding
<1>4. CASE UNCHANGED errs
  <2>1. \A d \in Conns : (errs[d] <= Cardinality(Over(d)))'
    BY <1>1, <1>4 DEF TypeOK
  <2>2. pc' \in [Conns -> Phases] /\ socket' \in [Conns -> {"none", "open", "lost", "closed"}]
    BY DEF TypeOK, Connect, HandleConnection, Accept, Authenticate, Admit, RejectBusy, Hello, CloseRefused,
       GetAdapter, Start, RunReturns, Release, CloseConn, Finish, Go, LoseSocket, Stop, Exit, Phases, Holding
  <2>3. /\ adapter' \in {"none", "live", "failed", "closed"} /\ {open, stopping, exited}' \subseteq BOOLEAN
        /\ cancelled' \subseteq Conns /\ late' \subseteq Conns
        /\ pressed' \subseteq Conns \X (1 .. MaxKeys) /\ sent' = sent
    BY DEF TypeOK, Connect, HandleConnection, Accept, Authenticate, Admit, RejectBusy, Hello, CloseRefused,
       GetAdapter, Start, RunReturns, Release, Lifted, CloseConn, Finish, LoseSocket, Stop, Exit
  <2> QED
    BY <1>2, <1>4, <2>1, <2>2, <2>3 DEF TypeOK
<1>5. RunReturns(c) \/ UNCHANGED errs
  BY DEF Connect, HandleConnection, Accept, Authenticate, Admit, RejectBusy, Hello, CloseRefused,
       GetAdapter, Start, Release, CloseConn, Finish, LoseSocket, Stop, Exit
<1> QED
  BY <1>3, <1>4, <1>5

LEMMA TypeOfStart ==
    ASSUME TypeOK, NothingBefore, NEW c \in Conns, Start(c)
    PROVE  TypeOK'
<1>1. CASE UNCHANGED loops
  BY <1>1, TypeOfHandler DEF HandleConnection
<1>2. CASE Go(c, "initial", "running") /\ ~UNCHANGED loops
  <2>1. errs[c] = 0
    <3>1. Over(c) = {}
      BY <1>2 DEF Go, NothingBefore, LoopsOff, Unstarted, Over
    <3>2. Cardinality(Over(c)) = 0
      BY <3>1, FS_EmptySet
    <3> QED
      BY <3>2 DEF TypeOK
  <2>2. ASSUME NEW d \in Conns PROVE (errs[d] <= Cardinality(Over(d)))'
    <3>1. errs' = errs
      BY DEF Start
    <3>2. CASE d = c
      <4>1. Over(c)' = {}
        BY <1>2 DEF Start, Over, TypeOK
      <4> QED
        BY <2>1, <3>1, <3>2, <4>1, FS_EmptySet
    <3>3. CASE d # c
      <4>1. Over(d)' = Over(d)
        BY <3>3 DEF Start, Over, TypeOK, loops
      <4> QED
        BY <3>1, <4>1 DEF TypeOK
    <3> QED
      BY <3>2, <3>3
  <2>3. /\ capture' \in [Conns -> {"off", "on", "over"}] /\ heartbeat' \in [Conns -> {"off", "on", "over"}]
        /\ send' \in [Conns -> {"off", "on", "sending", "over"}]
        /\ input' \in [Conns -> {"off", "on", "key", "checked", "over"}]
    BY DEF Start, TypeOK, loops
  <2> QED
    BY <1>2, <2>2, <2>3 DEF Start, Go, TypeOK, Phases, Holding
<1> QED
  BY <1>1, <1>2 DEF Start

\* Every step keeps the types.
LEMMA TypeStep == ASSUME IInv, [Next]_vars PROVE TypeOK'
<1>1. TypeOK /\ NothingBefore
  BY DEF IInv
<1>2. ASSUME NEW c \in Conns,
             \/ LeaveCapture(c) \/ CaptureFails(c) \/ LeaveHeartbeat(c) \/ HeartbeatFails(c)
             \/ BeginSend(c) \/ SendLoop(c) \/ ReceiveKey(c) \/ InputLoop(c)
      PROVE  TypeOK'
  BY <1>2, TypeOfLoops
<1>3. ASSUME NEW c \in Conns, Connect(c) \/ HandleConnection(c) \/ LoseSocket(c) PROVE TypeOK'
  <2>1. UNCHANGED loops \/ Start(c)
    BY <1>3 DEF Connect, HandleConnection, Accept, Authenticate, Admit, RejectBusy, Hello, CloseRefused,
       GetAdapter, RunReturns, Release, CloseConn, Finish, LoseSocket
  <2> QED
    BY <1>1, <1>3, <2>1, TypeOfHandler, TypeOfStart
<1>4. ASSUME Stop \/ Exit PROVE TypeOK'
  BY <1>1, <1>4 DEF Stop, Exit, TypeOK, loops, Over
<1>5. CASE UNCHANGED vars
  BY <1>1, <1>5 DEF vars, loops, TypeOK, Over
<1> QED
  BY <1>2, <1>3, <1>4, <1>5 DEF Next

------------------------------------------------------------------------------
\* Keys

\* No step starts a loop, ends one or presses a key of a connection that has
\* not reached Run, or goes back to one.
LEMMA NothingBeforeStep == ASSUME IInv, [Next]_vars PROVE NothingBefore'
<1>1. TypeOK /\ NothingBefore
  BY DEF IInv
<1>2. ASSUME NEW c \in Conns, Connect(c) \/ HandleConnection(c) \/ LoseSocket(c) PROVE NothingBefore'
  <2> SUFFICES ASSUME NEW d \in Conns, pc'[d] \in Unstarted
               PROVE  LoopsOff(d)' /\ KeysOf(d)' = {}
    BY DEF NothingBefore
  <2>1. pc[d] \in Unstarted /\ (~UNCHANGED loops => d # c)
    BY <1>1, <1>2 DEF TypeOK, Unstarted, Connect, HandleConnection, Accept, Authenticate, Admit, RejectBusy, Hello,
       CloseRefused, GetAdapter, Start, RunReturns, Release, CloseConn, Finish, LoseSocket, Go
  <2>2. pressed' \subseteq pressed
    BY <1>2 DEF Connect, HandleConnection, Accept, Authenticate, Admit, RejectBusy, Hello, CloseRefused,
       GetAdapter, Start, RunReturns, Release, Lifted, CloseConn, Finish, LoseSocket
  <2>3. KeysOf(d)' = {}
    BY <1>1, <2>1, <2>2 DEF NothingBefore, KeysOf
  <2>4. capture'[d] = capture[d] /\ send'[d] = send[d] /\ input'[d] = input[d] /\ heartbeat'[d] = heartbeat[d]
    BY <1>1, <1>2, <2>1 DEF TypeOK, loops, Connect, HandleConnection, Accept, Authenticate, Admit, RejectBusy, Hello,
       CloseRefused, GetAdapter, Start, RunReturns, Release, CloseConn, Finish, LoseSocket
  <2> QED
    BY <1>1, <2>1, <2>3, <2>4 DEF NothingBefore, LoopsOff
<1>3. ASSUME NEW c \in Conns,
             \/ LeaveCapture(c) \/ CaptureFails(c) \/ LeaveHeartbeat(c) \/ HeartbeatFails(c)
             \/ BeginSend(c) \/ SendLoop(c) \/ ReceiveKey(c) \/ InputLoop(c)
      PROVE  NothingBefore'
  <2>1. pc[c] \notin Unstarted
    BY <1>1, <1>3 DEF NothingBefore, LoopsOff, LeaveCapture, CaptureFails, LeaveHeartbeat, HeartbeatFails, BeginSend,
       SendLoop, EndSend, LeaveSend, ReceiveKey, InputLoop, ReceiveFails, CheckContext, Inject
  <2>2. pc' = pc
    BY <1>3 DEF LeaveCapture, CaptureFails, LeaveHeartbeat, HeartbeatFails, BeginSend,
       SendLoop, EndSend, LeaveSend, ReceiveKey, InputLoop, ReceiveFails, CheckContext, Inject, Frame
  <2>3. ASSUME NEW d \in Conns, d # c
        PROVE  capture'[d] = capture[d] /\ send'[d] = send[d] /\ input'[d] = input[d]
               /\ heartbeat'[d] = heartbeat[d] /\ KeysOf(d)' = KeysOf(d)
    BY <1>1, <1>3, <2>3 DEF TypeOK, KeysOf, LeaveCapture, CaptureFails, LeaveHeartbeat, HeartbeatFails, BeginSend,
       SendLoop, EndSend, LeaveSend, ReceiveKey, InputLoop, ReceiveFails, CheckContext, Inject
  <2> QED
    BY <1>1, <2>1, <2>2, <2>3 DEF NothingBefore, LoopsOff
<1>4. CASE Stop \/ Exit \/ UNCHANGED vars
  BY <1>1, <1>4 DEF Stop, Exit, vars, loops, NothingBefore, LoopsOff, KeysOf
<1> QED
  BY <1>2, <1>3, <1>4 DEF Next

LEMMA KeyWasSentStep == ASSUME IInv, [Next]_vars PROVE KeyWasSent'
<1>1. TypeOK /\ KeyWasSent
  BY DEF IInv
<1>2. CASE UNCHANGED <<input, sent>>
  BY <1>1, <1>2 DEF KeyWasSent
<1>3. ASSUME NEW c \in Conns, Start(c) \/ ReceiveKey(c) \/ InputLoop(c) PROVE KeyWasSent'
  BY <1>1, <1>3, HostSessionAssumption
  DEF KeyWasSent, TypeOK, loops, Start, ReceiveKey, InputLoop, ReceiveFails, CheckContext, Inject
<1>4. ASSUME NEW c \in Conns,
             \/ Connect(c) \/ Accept(c) \/ GetAdapter(c) \/ RunReturns(c) \/ Release(c) \/ CloseConn(c) \/ Finish(c)
             \/ LeaveCapture(c) \/ CaptureFails(c) \/ LeaveHeartbeat(c) \/ HeartbeatFails(c)
             \/ BeginSend(c) \/ SendLoop(c) \/ LoseSocket(c)
      PROVE  UNCHANGED <<input, sent>>
  BY <1>4 DEF loops, Connect, Accept, Authenticate, Admit, RejectBusy, Hello, CloseRefused, GetAdapter, RunReturns,
     Release, CloseConn, Finish, LeaveCapture, CaptureFails, LeaveHeartbeat, HeartbeatFails, BeginSend, SendLoop,
     EndSend, LeaveSend, LoseSocket
<1>5. Stop \/ Exit \/ UNCHANGED vars => UNCHANGED <<input, sent>>
  BY DEF Stop, Exit, vars, loops
<1> QED
  BY <1>2, <1>3, <1>4, <1>5 DEF Next, HandleConnection

\* What a step can do to the keys that are down: an injection adds one of its
\* own connection, a release lifts all of them or, once the adapter is closed,
\* none, and nothing else touches them.
LEMMA KeysStep ==
    ASSUME IInv, [Next]_vars
    PROVE  \/ UNCHANGED <<pressed, late>>
           \/ \E c \in Conns : Inject(c)
           \/ \E c \in Conns : Release(c) \/ Finish(c)
<1>1. ASSUME NEW c \in Conns,
             \/ Connect(c) \/ Accept(c) \/ GetAdapter(c) \/ Start(c) \/ RunReturns(c) \/ CloseConn(c)
             \/ LeaveCapture(c) \/ CaptureFails(c) \/ LeaveHeartbeat(c) \/ HeartbeatFails(c)
             \/ BeginSend(c) \/ SendLoop(c) \/ ReceiveKey(c) \/ ReceiveFails(c) \/ CheckContext(c) \/ LoseSocket(c)
      PROVE  UNCHANGED <<pressed, late>>
  BY <1>1 DEF Connect, Accept, Authenticate, Admit, RejectBusy, Hello, CloseRefused, GetAdapter, Start, RunReturns,
     CloseConn, LeaveCapture, CaptureFails, LeaveHeartbeat, HeartbeatFails, BeginSend, SendLoop,
     EndSend, LeaveSend, ReceiveKey, ReceiveFails, CheckContext, LoseSocket
<1>2. Stop \/ Exit \/ UNCHANGED vars => UNCHANGED <<pressed, late>>
  BY DEF Stop, Exit, vars
<1> QED
  BY <1>1, <1>2 DEF Next, HandleConnection, InputLoop

\* No step leaves a key of an ended handler down, but an injection that came
\* too late; in particular a handler without a key does not end with one.
LEMMA OnlyALateKeyStaysStep == ASSUME IInv, [Next]_vars PROVE OnlyALateKeyStays'
<1>1. TypeOK /\ OnlyALateKeyStays /\ NothingBefore /\ pc \in [Conns -> Phases]
  BY DEF IInv, TypeOK
<1>2. adapter = "closed" => adapter' = "closed"
  <2>1. ASSUME NEW c \in Conns, GetAdapter(c), adapter = "closed" PROVE adapter' = "closed"
    BY <2>1 DEF GetAdapter
  <2>2. ASSUME NEW c \in Conns,
               \/ Connect(c) \/ Accept(c) \/ Start(c) \/ RunReturns(c) \/ Release(c) \/ CloseConn(c) \/ Finish(c)
               \/ LeaveCapture(c) \/ CaptureFails(c) \/ LeaveHeartbeat(c) \/ HeartbeatFails(c)
               \/ BeginSend(c) \/ SendLoop(c) \/ ReceiveKey(c) \/ InputLoop(c) \/ LoseSocket(c)
        PROVE  adapter' = adapter
    BY <2>2 DEF Connect, Accept, Authenticate, Admit, RejectBusy, Hello, CloseRefused, Start, RunReturns,
       Release, CloseConn, Finish, LeaveCapture, CaptureFails, LeaveHeartbeat, HeartbeatFails, BeginSend, SendLoop,
       EndSend, LeaveSend, ReceiveKey, InputLoop, ReceiveFails, CheckContext, Inject, LoseSocket, Frame
  <2> QED
    BY <2>1, <2>2 DEF Next, HandleConnection, Stop, Exit, vars
<1>3. ASSUME NEW c \in Conns, pc'[c] \in {"free", "done"}
      PROVE  \/ pc[c] \in {"free", "done"}
             \/ KeysOf(c) = {}
             \/ pressed' = Lifted
  <2>1. CASE UNCHANGED pc
    BY <1>3, <2>1
  <2>2. ASSUME NEW d \in Conns, Connect(d) \/ HandleConnection(d), pc[c] \notin {"free", "done"}
        PROVE  KeysOf(c) = {} \/ pressed' = Lifted
    <3>1. \/ pc[c] \in Unstarted
          \/ pressed' = Lifted
      BY <1>1, <1>3, <2>2 DEF Connect, HandleConnection, Accept, Authenticate, Admit, RejectBusy, Hello, CloseRefused,
         GetAdapter, Start, RunReturns, Release, CloseConn, Finish, Go, Phases, Holding, Unstarted
    <3> QED
      BY <1>1, <3>1 DEF NothingBefore
  <2>3. ASSUME NEW d \in Conns,
               \/ LeaveCapture(d) \/ CaptureFails(d) \/ LeaveHeartbeat(d) \/ HeartbeatFails(d)
               \/ BeginSend(d) \/ SendLoop(d) \/ ReceiveKey(d) \/ InputLoop(d) \/ LoseSocket(d)
        PROVE  UNCHANGED pc
    BY <2>3 DEF LeaveCapture, CaptureFails, LeaveHeartbeat, HeartbeatFails, BeginSend, SendLoop,
       EndSend, LeaveSend, ReceiveKey, InputLoop, ReceiveFails, CheckContext, Inject, LoseSocket, Frame
  <2>4. Stop \/ Exit \/ UNCHANGED vars => UNCHANGED pc
    BY DEF Stop, Exit, vars
  <2> QED
    BY <2>1, <2>2, <2>3, <2>4 DEF Next
<1>4. CASE UNCHANGED <<pressed, late>>
  BY <1>1, <1>2, <1>3, <1>4 DEF OnlyALateKeyStays, KeysOf, Lifted
<1>5. ASSUME NEW d \in Conns, Inject(d) PROVE OnlyALateKeyStays'
  BY <1>1, <1>5 DEF OnlyALateKeyStays, KeysOf, Inject, Frame
<1>6. ASSUME NEW d \in Conns, Release(d) \/ Finish(d) PROVE OnlyALateKeyStays'
  <2>1. CASE adapter = "closed"
    BY <1>2, <2>1 DEF OnlyALateKeyStays
  <2>2. CASE pressed' = {}
    BY <2>2 DEF OnlyALateKeyStays, KeysOf
  <2>3. CASE UNCHANGED <<pressed, late>>
    BY <1>4, <2>3
  <2> QED
    BY <1>6, <2>1, <2>2, <2>3 DEF Release, Finish, Lifted
<1> QED
  BY <1>4, <1>5, <1>6, KeysStep

\* A running session holds the slot, so whoever cleans up is another one's
\* handler only when no session is running.
LEMMA NoForeignReleaseStep == ASSUME IInv, [Next]_vars PROVE NoForeignStep
<1>1. OneSession
  BY DEF IInv
<1>2. ASSUME NEW c \in Conns, pc[c] = "running", NEW d \in Conns, Release(d) \/ Finish(d)
      PROVE  KeysOf(c) \subseteq KeysOf(c)'
  <2>1. c # d /\ pc[d] \in Holding /\ pc[c] \in Holding
    BY <1>2 DEF Release, Finish, Go, Holding
  <2> QED
    BY <1>1, <2>1 DEF OneSession
<1>3. ASSUME NEW c \in Conns, NEW d \in Conns, Inject(d) PROVE KeysOf(c) \subseteq KeysOf(c)'
  BY <1>3 DEF Inject, KeysOf
<1>4. UNCHANGED pressed => \A c \in Conns : KeysOf(c) \subseteq KeysOf(c)'
  BY DEF KeysOf
<1> QED
  BY <1>2, <1>3, <1>4, KeysStep DEF NoForeignStep

------------------------------------------------------------------------------
\* The theorems

LEMMA InitIInv == Init => IInv
<1> SUFFICES ASSUME Init PROVE IInv
  OBVIOUS
<1>1. \A c \in Conns : errs[c] = 0 /\ Cardinality(Over(c)) \in Nat
  BY OverFinite DEF Init
<1>2. TypeOK
  <2>1. \A c \in Conns : errs[c] <= Cardinality(Over(c))
    BY <1>1
  <2>2. errs \in [Conns -> 0 .. 4] /\ sent \in [Conns -> 0 .. MaxKeys]
    BY HostSessionAssumption DEF Init
  <2> QED
    BY <2>1, <2>2 DEF Init, TypeOK, Phases
<1>3. OneSession /\ OnlyALateKeyStays /\ NothingBefore /\ KeyWasSent
  BY DEF Init, OneSession, OnlyALateKeyStays, NothingBefore, LoopsOff, KeysOf, KeyWasSent, Holding
<1> QED
  BY <1>2, <1>3 DEF IInv

LEMMA Inductive == Spec => []IInv
<1>1. IInv /\ [Next]_vars => IInv'
  BY TypeStep, OneSessionStep, OnlyALateKeyStaysStep, NothingBeforeStep, KeyWasSentStep DEF IInv
<1> QED
  BY <1>1, InitIInv, PTL DEF Spec

\* The channel Run makes for the errors of its four loops never turns one away
\* (report drops what does not fit), and every variable keeps its type.
THEOREM TypeCorrect == Spec => []TypeOK
<1>1. IInv => TypeOK
  BY DEF IInv
<1> QED
  BY <1>1, Inductive, PTL

\* At most one connection is between its admission and the end of its handler,
\* and the slot is taken exactly while one is, whatever fails on the way.
THEOREM OneSessionCorrect == Spec => []OneSession
<1>1. IInv => OneSession
  BY DEF IInv
<1> QED
  BY <1>1, Inductive, PTL

\* A key of a session whose handler has ended is down only if it was injected
\* after the handler's last ReleaseAll, or the adapter was closed before it.
THEOREM KeysLifted == Spec => []OnlyALateKeyStays
<1>1. IInv => OnlyALateKeyStays
  BY DEF IInv
<1> QED
  BY <1>1, Inductive, PTL

\* No handler's ReleaseAll lifts a key of a session that is running.
THEOREM CleanupIsOwn == Spec => NoForeignRelease
<1>1. IInv /\ [Next]_vars => [NoForeignStep]_vars
  BY NoForeignReleaseStep
<1>2. [][NoForeignStep]_vars => NoForeignRelease
  BY DEF NoForeignRelease, NoForeignStep
<1> QED
  BY <1>1, <1>2, Inductive, PTL DEF Spec

------------------------------------------------------------------------------
\* The client process.  Its variable cancelled has a name of its own here.

CONSTANTS Builds, Limited

VARIABLES build, limited, interrupted, clientCancelled, runErr, run, attempt, result, wasUp,
          main, watcher, quit, caller

Client == INSTANCE ClientRun WITH cancelled <- clientCancelled

\* runCtx is a child of the session's context: done when that is.
ContextsAgree == Client!CtxDone => runErr # "none"

\* The headless build has neither window nor watcher.
BuildsApart ==
    /\ build = "fyne" => main # "headless"
    /\ build = "headless" => main \in {"headless", "returned"} /\ watcher = "done"

\* "Neither the UI loop nor the session goroutine is left behind": main has
\* returned only when the session and the watcher have.
NoneLeftBehind == main = "returned" => Client!AllStopped

ClientIInv ==
    /\ Client!ClientRunAssumption
    /\ Client!TypeOK /\ ContextsAgree /\ BuildsApart /\ NoneLeftBehind

\* The step on which RunsOn is a statement.
RunsOnStep == run' = "returned" /\ run # "returned" => runErr # "none" \/ result' = "closed"

ClientKept == ClientIInv' /\ RunsOnStep

------------------------------------------------------------------------------
\* The steps, one lemma for each goroutine

\* Session.Run.  Whatever makes it return, it has a result then.
LEMMA SessionStep == ASSUME ClientIInv, Client!Session PROVE ClientKept
<1> USE DEF ClientIInv, Client!ClientRunAssumption, Client!TypeOK, ContextsAgree, BuildsApart,
            NoneLeftBehind, Client!AllStopped, RunsOnStep, ClientKept,
            Client!CtxDone, Client!Alive, Client!Return, Client!RunStates, Client!guiVars
<1>1. CASE Client!Top
  BY <1>1 DEF Client!Top
<1>2. CASE Client!Dialed \/ Client!Established
  BY <1>2 DEF Client!Dialed, Client!Established
<1>3. CASE Client!DialFails
  BY <1>3 DEF Client!DialFails, Client!Failed
<1>4. CASE Client!ServeConnFails
  BY <1>4 DEF Client!ServeConnFails, Client!Failed
<1>5. CASE Client!ServerCloses
  BY <1>5 DEF Client!ServerCloses
<1>6. CASE Client!WaitEnds
  BY <1>6 DEF Client!WaitEnds
<1>7. CASE Client!ConnectTimeoutElapses
  BY <1>7 DEF Client!ConnectTimeoutElapses
<1> QED
  BY <1>1, <1>2, <1>3, <1>4, <1>5, <1>6, <1>7 DEF Client!Session

LEMMA InterruptStep == ASSUME ClientIInv, Client!Interrupt PROVE ClientKept
BY DEF ClientIInv, Client!ClientRunAssumption, Client!TypeOK, ContextsAgree, BuildsApart,
       NoneLeftBehind, Client!AllStopped, RunsOnStep, ClientKept,
       Client!CtxDone, Client!Alive, Client!Interrupt, Client!Canceled, Client!guiVars

\* FyneRenderer.Quit and its callers: the first call, and only the first, is noted.
LEMMA QuitStep == ASSUME ClientIInv,
Client!Quitting \/ Client!UserCloses \/ Client!Watcher PROVE ClientKept
<1> USE DEF ClientIInv, Client!ClientRunAssumption, Client!TypeOK, ContextsAgree, BuildsApart,
            NoneLeftBehind, Client!AllStopped, RunsOnStep, ClientKept,
            Client!CtxDone, Client!Alive, Client!QuitStates, Client!runVars
<1>1. CASE Client!Released
  BY ZenonT(40), <1>1 DEF Client!Released
<1>2. CASE Client!ScheduleQuit
  BY <1>2 DEF Client!ScheduleQuit, Client!Drained, Client!Exited
<1>3. CASE Client!UserCloses
  <2>1. quit' \in Client!QuitStates /\ caller' \in {"nobody", "user", "watcher"}
        /\ ((quit = "none") = (caller = "nobody"))'
    BY <1>3 DEF Client!UserCloses, Client!BeginQuit
  <2>2. UNCHANGED <<build, limited, interrupted, clientCancelled, Client!runVars, main, watcher>>
    BY <1>3 DEF Client!UserCloses
  <2> QED
    BY <2>1, <2>2
<1>4. CASE Client!WatcherWakes
  BY <1>4 DEF Client!WatcherWakes, Client!BeginQuit, Client!Exited
<1>5. CASE Client!WatcherDone
  BY ZenonT(40), <1>5 DEF Client!WatcherDone
<1> QED
  BY <1>1, <1>2, <1>3, <1>4, <1>5 DEF Client!Quitting, Client!Watcher

\* The main goroutine of both builds.
LEMMA MainStep == ASSUME ClientIInv,
Client!Window \/ Client!FyneEndsLoop \/ Client!HeadlessReturns PROVE ClientKept
<1> USE DEF ClientIInv, Client!ClientRunAssumption, Client!TypeOK, ContextsAgree, BuildsApart,
            NoneLeftBehind, Client!AllStopped, RunsOnStep, ClientKept,
        Client!CtxDone, Client!MainStates, Client!runVars
<1>1. CASE Client!LoopBegins
  BY <1>1 DEF Client!LoopBegins
<1>2. CASE Client!LoopServesQuit
  BY <1>2 DEF Client!LoopServesQuit
<1>3. CASE Client!FyneEndsLoop
  BY <1>3 DEF Client!FyneEndsLoop
<1>4. CASE Client!RunReturns
  BY <1>4 DEF Client!RunReturns
<1>5. CASE Client!StopWatcher
  BY <1>5 DEF Client!StopWatcher
<1>6. CASE Client!CancelSession
  BY <1>6 DEF Client!CancelSession, Client!Canceled
<1>7. CASE Client!Join
  BY <1>7 DEF Client!Join
<1>8. CASE Client!HeadlessReturns
  BY <1>8 DEF Client!HeadlessReturns
<1> QED
  BY <1>1, <1>2, <1>3, <1>4, <1>5, <1>6, <1>7, <1>8 DEF Client!Window

------------------------------------------------------------------------------
\* The theorems

LEMMA ClientInitIInv == Client!ClientRunAssumption /\ Client!Init => ClientIInv
BY DEF Client!ClientRunAssumption, Client!Init, ClientIInv, Client!TypeOK, ContextsAgree,
       BuildsApart, NoneLeftBehind, Client!CtxDone, Client!RunStates, Client!MainStates,
       Client!QuitStates

LEMMA ClientPreserves == ASSUME ClientIInv,
[Client!Next]_(Client!vars) PROVE ClientIInv' /\ [RunsOnStep]_(Client!vars)
<1>1. CASE Client!Next
  BY <1>1, SessionStep, InterruptStep, QuitStep, MainStep DEF Client!Next, ClientKept
<1>2. CASE UNCHANGED Client!vars
  BY ZenonT(40), <1>2 DEF Client!ClientRunAssumption, Client!vars, Client!runVars, Client!guiVars, ClientIInv,
              Client!TypeOK, ContextsAgree, BuildsApart, NoneLeftBehind, Client!AllStopped,
              Client!CtxDone
<1> QED
  BY <1>1, <1>2

LEMMA ClientInductive == Client!ClientRunAssumption /\ Client!Spec => []ClientIInv
<1>1. ClientIInv /\ [Client!Next]_(Client!vars) => ClientIInv'
  BY ClientPreserves
<1> QED
  BY <1>1, ClientInitIInv, PTL DEF Client!Spec

\* Every variable keeps its type, Run has a result exactly when it has
\* returned, and only main, past its event loop, cancels the session.
THEOREM ClientTypeCorrect == Client!ClientRunAssumption /\ Client!Spec => []Client!TypeOK
<1>1. ClientIInv => Client!TypeOK
  BY DEF ClientIInv
<1> QED
  BY <1>1, ClientInductive, PTL

\* Run returns only when its context is done or the server said CLOSE: a lost
\* connection alone never ends it.
THEOREM RunEndsForAReason == Client!ClientRunAssumption /\ Client!Spec => Client!RunsOn
<1>1. ClientIInv /\ [Client!Next]_(Client!vars) => [RunsOnStep]_(Client!vars)
  BY ClientPreserves
<1>2. [][RunsOnStep]_(Client!vars) => Client!RunsOn
  BY DEF Client!RunsOn, RunsOnStep
<1> QED
  BY <1>1, <1>2, ClientInductive, PTL DEF Client!Spec

\* When main returns, the session has returned and the watcher is done, in
\* either build.
THEOREM MainIsLast == Client!ClientRunAssumption /\ Client!Spec => [](main = "returned" => Client!AllStopped)
<1>1. ClientIInv => (main = "returned" => Client!AllStopped)
  BY DEF ClientIInv, NoneLeftBehind
<1> QED
  BY <1>1, ClientInductive, PTL
==============================================================================
