---------------------------- MODULE SessionProofs ----------------------------
(***************************************************************************)
(* Proofs about Session, for every number of connections, every set of     *)
(* accounts and zones and every inbox capacity.                            *)
(***************************************************************************)
EXTENDS Session, SequenceTheorems, TLAPS

\* What Append and Tail do to the elements of a channel.
LEMMA RangeAppend ==
    ASSUME NEW S, NEW q \in Seq(S), NEW m \in S
    PROVE  Range(Append(q, m)) = Range(q) \cup {m}
<1>1. Range(Append(q, m)) \subseteq Range(q) \cup {m}
  BY DEF Range
<1>2. \A k \in DOMAIN q : k \in DOMAIN Append(q, m) /\ Append(q, m)[k] = q[k]
  OBVIOUS
<1>3. Len(q) + 1 \in DOMAIN Append(q, m) /\ Append(q, m)[Len(q) + 1] = m
  OBVIOUS
<1> QED BY <1>1, <1>2, <1>3 DEF Range

\* The first message of a channel and the rest of it are all of it.
LEMMA RangeTail ==
    ASSUME NEW S, NEW q \in Seq(S), q # <<>>
    PROVE  Range(q) = {Head(q)} \cup Range(Tail(q))
<1>1. \A k \in DOMAIN Tail(q) : k + 1 \in DOMAIN q /\ Tail(q)[k] = q[k + 1]
  OBVIOUS
<1>2. \A k \in DOMAIN q : k = 1 \/ (k - 1 \in DOMAIN Tail(q) /\ Tail(q)[k - 1] = q[k])
  OBVIOUS
<1>3. 1 \in DOMAIN q /\ Head(q) = q[1]
  OBVIOUS
<1> QED BY <1>1, <1>2, <1>3 DEF Range

\* A channel without repetitions stays so when a new message is sent.
LEMMA InjectiveAppend ==
    ASSUME NEW S, NEW q \in Seq(S), NEW m \in S, IsInjective(q), m \notin Range(q)
    PROVE  IsInjective(Append(q, m))
BY DEF Range, IsInjective

\* A message taken off such a channel is not in it any more.
LEMMA InjectiveTail ==
    ASSUME NEW S, NEW q \in Seq(S), q # <<>>, IsInjective(q)
    PROVE  /\ IsInjective(Tail(q))
           /\ Head(q) \notin Range(Tail(q))
<1>1. \A k \in DOMAIN Tail(q) : k + 1 \in DOMAIN q /\ Tail(q)[k] = q[k + 1] /\ k \in Nat /\ k # 0
  OBVIOUS
<1>2. 1 \in DOMAIN q /\ Head(q) = q[1]
  OBVIOUS
<1> QED BY <1>1, <1>2 DEF Range, IsInjective
------------------------------------------------------------------------------
\* The initial state is of the right type.
LEMMA TypeInit == Init => TypeOK
BY NAssumption DEF Init, TypeOK, Sessions, ConnStates, WireStates

\* A handler of the connection task that goes on keeps the types.
LEMMA ContinueType ==
    ASSUME TypeOK, NEW i \in Sessions, NEW state \in ConnStates, Continue(i, state)
    PROVE  /\ conn' \in [Sessions -> ConnStates]
           /\ stream' \in [Sessions -> {"open", "closed"}]
<1>1. conn' \in [Sessions -> ConnStates]
  BY DEF TypeOK, Continue
<1>2. stream' \in [Sessions -> {"open", "closed"}]
  BY DEF TypeOK, Continue
<1> QED BY <1>1, <1>2

\* The return of run_connection keeps its type too.
LEMMA ReturnType ==
    ASSUME TypeOK, NEW i \in Sessions, Return(i)
    PROVE  /\ conn' \in [Sessions -> ConnStates]
           /\ stream' \in [Sessions -> {"open", "closed"}]
<1>1. "ended" \in ConnStates
  BY DEF ConnStates
<1>2. conn' \in [Sessions -> ConnStates]
  BY <1>1 DEF TypeOK, Return
<1>3. stream' \in [Sessions -> {"open", "closed"}]
  BY DEF TypeOK, Return
<1> QED BY <1>2, <1>3

\* Every handler keeps the types of the variables.
LEMMA TypeStep == IInv /\ [Next]_vars => TypeOK'
<1> SUFFICES ASSUME TypeOK, PhaseInv, [Next]_vars
             PROVE  TypeOK'
  BY DEF IInv
<1> USE DEF TypeOK, ConnStates, WireStates, connVars, wireVars, toWire, toConn, registryVars,
            zoneVars
<1>1. CASE Accept
  BY <1>1, NAssumption DEF Accept, Sessions
<1>2. ASSUME NEW i \in Sessions, ClientClose(i)
      PROVE  TypeOK'
  BY <1>2 DEF ClientClose
<1>3. ASSUME NEW i \in Sessions, NEW a \in Accounts, Handshake(i, a)
      PROVE  TypeOK'
  <2>1. account' \in [Sessions -> Accounts \cup {NoAccount}]
    BY <1>3 DEF Handshake
  <2>2. validated' \in [Sessions -> {"empty", "some", "none"}]
    BY <1>3 DEF Handshake
  <2>3. Continue(i, "awaitAuth") \/ Return(i)
    BY <1>3 DEF Handshake
  <2> QED BY <1>3, <2>1, <2>2, <2>3, ContinueType, ReturnType DEF Handshake
<1>4. ASSUME NEW i \in Sessions, HandshakeFails(i)
      PROVE  TypeOK'
  <2>1. validated' \in [Sessions -> {"empty", "some", "none"}]
    BY <1>4 DEF HandshakeFails
  <2> QED BY <1>4, <2>1, ReturnType DEF HandshakeFails
<1>5. ASSUME NEW i \in Sessions, AuthResult(i)
      PROVE  TypeOK'
  <2>1. Continue(i, "charSelect") \/ Return(i)
    BY <1>5 DEF AuthResult
  <2> QED BY <1>5, <2>1, ContinueType, ReturnType DEF AuthResult
<1>6. ASSUME NEW i \in Sessions, NEW z \in ZoneIds, SelectCharacter(i, z)
      PROVE  TypeOK'
  <2>1. enterReq' \in [Sessions -> ZoneIds \cup {NoZone}]
    BY <1>6 DEF SelectCharacter
  <2>2. Continue(i, "awaitSnapshot") \/ Return(i)
    BY <1>6 DEF SelectCharacter
  <2> QED BY <1>6, <2>1, <2>2, ContinueType, ReturnType DEF SelectCharacter
<1>7. ASSUME NEW i \in Sessions, SnapshotSource(i)
      PROVE  TypeOK'
  <2>1. Continue(i, "connected") \/ Return(i)
    BY <1>7 DEF SnapshotSource
  <2> QED BY <1>7, <2>1, ContinueType, ReturnType DEF SnapshotSource
<1>8. ASSUME NEW i \in Sessions, Leave(i)
      PROVE  TypeOK'
  BY <1>8, ReturnType DEF Leave
<1>9. ASSUME NEW i \in Sessions, TryToRegister(i)
      PROVE  TypeOK'
  <2>1. TryRegister(i) \in Messages
    BY <1>9 DEF TryToRegister, PhaseInv, Phase, TryRegister, Messages
  <2> QED BY <1>9, <2>1 DEF TryToRegister
<1>10. ASSUME NEW i \in Sessions, ValidationTimeout(i)
      PROVE  TypeOK'
  BY <1>10 DEF ValidationTimeout
<1>11. ASSUME NEW i \in Sessions, DropChannels(i)
      PROVE  TypeOK'
  BY <1>11 DEF DropChannels
<1>12. ASSUME NEW i \in Sessions, RegisterReply(i)
      PROVE  TypeOK'
  <2>1. authResult' \in [Sessions -> {"empty", "ok", "err", "dropped"}]
    BY <1>12 DEF RegisterReply
  <2>2. snapSource' \in [Sessions -> {"empty", "ok", "err", "dropped"}]
    BY <1>12 DEF RegisterReply
  <2>3. wire' \in [Sessions -> WireStates]
    BY <1>12 DEF RegisterReply
  <2> QED BY <1>12, <2>1, <2>2, <2>3 DEF RegisterReply
<1>13. ASSUME NEW i \in Sessions, SelectionTimeout(i)
      PROVE  TypeOK'
  BY <1>13 DEF SelectionTimeout
<1>14. ASSUME NEW i \in Sessions, Release(i)
      PROVE  TypeOK'
  <2>1. Unregister(i) \in Messages
    BY <1>14 DEF Release, MayRelease, PhaseInv, Phase, Unregister, Messages
  <2> QED BY <1>14, <2>1 DEF Release
<1>15. ASSUME NEW i \in Sessions, UnknownZone(i)
      PROVE  TypeOK'
  <2>1. Unregister(i) \in Messages
    BY <1>15 DEF UnknownZone, PhaseInv, Phase, Unregister, Messages
  <2> QED BY <1>15, <2>1 DEF UnknownZone
<1>16. ASSUME NEW i \in Sessions, Place(i)
      PROVE  TypeOK'
  <2>1. enterReq[i] \in Zones
    BY <1>16 DEF Place
  <2>2. CASE inbox' = [inbox EXCEPT ![enterReq[i]] = Append(@, i)]
    <3>1. Append(inbox[enterReq[i]], i) \in Seq(Sessions)
      BY <2>1
    <3> QED BY <1>16, <2>2, <3>1 DEF Place
  <2>3. CASE inbox' = inbox
    BY <1>16, <2>3 DEF Place
  <2> QED BY <1>16, <2>2, <2>3 DEF Place
<1>17. ASSUME NEW i \in Sessions, Deliver(i)
      PROVE  TypeOK'
  BY <1>17 DEF Deliver
<1>18. ASSUME NEW i \in Sessions, Forward(i)
      PROVE  TypeOK'
  BY <1>18 DEF Forward
<1>19. CASE RegistryStep
  <2> DEFINE m == Head(queue)
  <2>1. m \in Messages /\ Tail(queue) \in Seq(Messages)
    BY <1>19 DEF RegistryStep
  <2>2. m.account \in Accounts /\ m.session \in Sessions
    BY <2>1 DEF Messages
  <2>3. queue' \in Seq(Messages)
    BY <1>19, <2>1 DEF RegistryStep
  <2>4. connected' = connected \cup {m.account} \/ connected' = connected \ {m.account}
    BY <1>19 DEF RegistryStep
  <2>5. connected' \in SUBSET Accounts
    BY <2>2, <2>4
  <2>6. \/ \E r \in {"true", "false"} : reply' = [reply EXCEPT ![m.session] = r]
        \/ reply' = reply
    BY <1>19 DEF RegistryStep
  <2>7. reply' \in [Sessions -> {"empty", "true", "false"}]
    BY <2>6
  <2>8. UNCHANGED <<nextEntity, connVars, wireVars, toWire, toConn, zoneVars>>
    BY <1>19 DEF RegistryStep
  <2> QED BY <2>3, <2>5, <2>7, <2>8
<1>20. ASSUME NEW z \in Zones, Admit(z)
      PROVE  TypeOK'
  BY <1>20 DEF Admit
<1>21. ASSUME NEW z \in Zones, Dispatch(z)
      PROVE  TypeOK'
  BY <1>21 DEF Dispatch
<1>22. CASE UNCHANGED vars
  BY <1>22 DEF vars
<1>23. ASSUME NEW i \in Sessions, SnapshotsEnd(i)
      PROVE  TypeOK'
  BY <1>23, ReturnType DEF SnapshotsEnd
<1>24. ASSUME NEW i \in Sessions, Close(i)
      PROVE  TypeOK'
  BY <1>24 DEF Close
<1>25. ASSUME NEW z \in Zones, ZonePanics(z)
      PROVE  TypeOK'
  BY <1>25 DEF ZonePanics
<1> QED
  BY <1>1, <1>2, <1>3, <1>4, <1>5, <1>6, <1>7, <1>8, <1>9, <1>10, <1>11, <1>12, <1>13, <1>14,
     <1>15, <1>16, <1>17, <1>18, <1>19, <1>20, <1>21, <1>22, <1>23, <1>24, <1>25
  DEF Next, ConnStep, WireStep, BridgeStep

------------------------------------------------------------------------------
\* The messages in the registry's channel are messages.
LEMMA MessageType ==
    ASSUME TypeOK, NEW m \in Range(queue)
    PROVE  /\ m \in Messages
           /\ m.session \in Sessions
           /\ m.account \in Accounts
           /\ m.type \in {"TryRegister", "Unregister"}
<1>1. m \in Messages
  BY DEF TypeOK, Range
<1> QED BY <1>1 DEF Messages

\* A session has no message in the registry's channel except while it awaits
\* its reply or after its wiring task has returned.
LEMMA NoMessage ==
    ASSUME TypeOK, QueueInv, NEW i \in Sessions,
           wire[i] # "done", wire[i] # "awaitReply" \/ reply[i] # "empty"
    PROVE  \A m \in Range(queue) : m.session # i
BY MessageType DEF QueueInv

\* QueueInv looks at no other sessions than those with a message in the channel.
LEMMA QueueFrame ==
    ASSUME TypeOK, QueueInv, NEW i \in Sessions,
           \A m \in Range(queue) : m.session # i,
           queue' = queue,
           \A j \in Sessions \ {i} : /\ account'[j] = account[j]
                                     /\ validated'[j] = validated[j]
                                     /\ wire'[j] = wire[j]
                                     /\ reply'[j] = reply[j]
    PROVE  QueueInv'
BY MessageType DEF QueueInv

\* Sending the message that the new state of the wiring task calls for.
LEMMA QueueSend ==
    ASSUME TypeOK, QueueInv, NEW i \in Sessions, NEW m \in Messages,
           \A n \in Range(queue) : n.session # i,
           queue' = Append(queue, m),
           m.session = i, m.account = account[i], validated[i] = "some",
           m.type = "TryRegister" => wire'[i] = "awaitReply" /\ reply[i] = "empty",
           m.type = "Unregister" => wire'[i] = "done",
           UNCHANGED <<account, validated, reply>>,
           \A j \in Sessions \ {i} : wire'[j] = wire[j]
    PROVE  QueueInv'
<1>1. queue \in Seq(Messages) /\ IsInjective(queue)
  BY DEF TypeOK, QueueInv
<1>2. Range(queue') = Range(queue) \cup {m}
  BY <1>1, RangeAppend
<1>3. IsInjective(queue')
  BY <1>1, InjectiveAppend
<1>4. ASSUME NEW n \in Range(queue')
      PROVE  /\ n.account = account'[n.session]
             /\ validated'[n.session] = "some"
             /\ n.type = "TryRegister" => /\ wire'[n.session] = "awaitReply"
                                          /\ reply'[n.session] = "empty"
             /\ n.type = "Unregister" => wire'[n.session] = "done"
  <2>1. CASE n = m
    BY <2>1
  <2>2. CASE n \in Range(queue)
    <3>1. n.session \in Sessions \ {i}
      BY <2>2, MessageType
    <3> QED BY <2>2, <3>1 DEF QueueInv
  <2> QED BY <1>2, <2>1, <2>2
<1> QED BY <1>3, <1>4 DEF QueueInv

\* The registry takes the head of its channel off.
LEMMA QueueReceive ==
    ASSUME TypeOK, QueueInv, RegistryStep
    PROVE  /\ Head(queue) \in Range(queue)
           /\ Range(queue') = Range(queue) \ {Head(queue)}
           /\ IsInjective(queue')
<1>1. queue \in Seq(Messages) /\ IsInjective(queue) /\ queue # <<>> /\ queue' = Tail(queue)
  BY DEF TypeOK, QueueInv, RegistryStep
<1>2. Range(queue) = {Head(queue)} \cup Range(queue')
  BY <1>1, RangeTail
<1>3. Head(queue) \notin Range(queue') /\ IsInjective(queue')
  BY <1>1, InjectiveTail
<1> QED BY <1>2, <1>3

\* Every step keeps what QueueInv says of the registry's channel.
LEMMA QueueStep == IInv /\ [Next]_vars => QueueInv'
<1> SUFFICES ASSUME TypeOK, QueueInv, PhaseInv, [Next]_vars
             PROVE  QueueInv'
  BY DEF IInv
<1> USE DEF connVars, wireVars, toWire, toConn, registryVars, zoneVars
<1>1. CASE UNCHANGED <<queue, account, validated, wire, reply>>
  BY <1>1 DEF QueueInv
<1>2. CASE Accept
  <2>1. nextEntity \in Sessions /\ wire[nextEntity] = "idle"
    BY <1>2 DEF Accept, PhaseInv, Phase, TypeOK, Sessions
  <2>2. \A m \in Range(queue) : m.session # nextEntity
    BY <2>1, NoMessage
  <2> QED BY <1>2, <2>1, <2>2, QueueFrame DEF Accept, TypeOK
<1>3. ASSUME NEW i \in Sessions, conn[i] = "handshake",
             \/ \E a \in Accounts : Handshake(i, a)
             \/ HandshakeFails(i)
      PROVE  QueueInv'
  <2>1. validated[i] = "empty"
    BY <1>3 DEF PhaseInv, Phase
  <2>2. \A m \in Range(queue) : m.session # i
    BY <2>1 DEF QueueInv
  <2>3. CASE HandshakeFails(i)
    BY <2>2, <2>3, QueueFrame DEF HandshakeFails, TypeOK
  <2>4. ASSUME NEW a \in Accounts, Handshake(i, a)
        PROVE  QueueInv'
    BY <2>2, <2>4, QueueFrame DEF Handshake, TypeOK
  <2> QED BY <1>3, <2>3, <2>4
<1>4. ASSUME NEW i \in Sessions,
             \/ ValidationTimeout(i)
             \/ DropChannels(i)
             \/ RegisterReply(i)
             \/ SelectionTimeout(i)
             \/ Place(i)
             \/ Deliver(i)
      PROVE  QueueInv'
  <2>1. /\ wire[i] # "done"
        /\ wire[i] # "awaitReply" \/ reply[i] # "empty"
    BY <1>4 DEF ValidationTimeout, DropChannels, RegisterReply, SelectionTimeout, Place, Deliver
  <2>2. /\ UNCHANGED <<queue, account, validated, reply>>
        /\ \A j \in Sessions \ {i} : wire'[j] = wire[j]
    BY <1>4
    DEF ValidationTimeout, DropChannels, RegisterReply, SelectionTimeout, Place, Deliver, TypeOK
  <2>3. \A m \in Range(queue) : m.session # i
    BY <2>1, NoMessage
  <2> QED BY <2>2, <2>3, QueueFrame
<1>5. ASSUME NEW i \in Sessions, TryToRegister(i)
      PROVE  QueueInv'
  <2>1. account[i] \in Accounts /\ reply[i] = "empty" /\ validated[i] = "some"
    BY <1>5 DEF TryToRegister, PhaseInv, Phase
  <2>2. TryRegister(i) \in Messages
    BY <2>1 DEF TryRegister, Messages
  <2>3. \A m \in Range(queue) : m.session # i
    BY <1>5, NoMessage DEF TryToRegister
  <2> QED BY <1>5, <2>1, <2>2, <2>3, QueueSend DEF TryToRegister, TryRegister, TypeOK
<1>6. ASSUME NEW i \in Sessions, Release(i) \/ UnknownZone(i)
      PROVE  QueueInv'
  <2>1. /\ wire[i] \in {"release", "awaitConn", "awaitSelect"}
        /\ queue' = Append(queue, Unregister(i))
        /\ UNCHANGED <<account, validated, reply>>
        /\ wire'[i] = "done"
        /\ \A j \in Sessions \ {i} : wire'[j] = wire[j]
    BY <1>6 DEF Release, MayRelease, UnknownZone, TypeOK
  <2>2. account[i] \in Accounts /\ validated[i] = "some"
    BY <2>1 DEF PhaseInv, Phase
  <2>3. Unregister(i) \in Messages
    BY <2>2 DEF Unregister, Messages
  <2>4. \A m \in Range(queue) : m.session # i
    BY <2>1, NoMessage
  <2> QED BY <2>1, <2>2, <2>3, <2>4, QueueSend DEF Unregister
<1>7. CASE RegistryStep
  <2> DEFINE m == Head(queue)
  <2>1. /\ m \in Range(queue)
        /\ Range(queue') = Range(queue) \ {m}
        /\ IsInjective(queue')
    BY <1>7, QueueReceive
  <2>2. \A n \in Range(queue') : n.type = "TryRegister" => n.session # m.session
    <3>1. SUFFICES ASSUME NEW n \in Range(queue'), n.type = "TryRegister", n.session = m.session
                   PROVE  n = m
      BY <2>1
    <3>2. m.type = "TryRegister"
      BY <2>1, <3>1, MessageType DEF QueueInv
    <3>3. n.account = m.account
      BY <2>1, <3>1 DEF QueueInv
    <3> QED BY <2>1, <3>1, <3>2, <3>3, MessageType DEF Messages
  <2>3. /\ UNCHANGED <<account, validated, wire>>
        /\ \A j \in Sessions \ {m.session} : reply'[j] = reply[j]
    BY <1>7 DEF RegistryStep, TypeOK
  <2> QED BY <2>1, <2>2, <2>3, MessageType DEF QueueInv
<1> QED
  BY <1>1, <1>2, <1>3, <1>4, <1>5, <1>6, <1>7
  DEF Next, ConnStep, WireStep, ClientClose, Handshake, HandshakeFails, AuthResult,
      SelectCharacter, SnapshotSource, SnapshotsEnd, Leave, BridgeStep, Forward, Close, Admit,
      Dispatch, ZonePanics, vars

------------------------------------------------------------------------------
\* Every step keeps the phases of the two tasks of a session in line.
LEMMA PhaseStep == IInv /\ [Next]_vars => PhaseInv'
<1> SUFFICES ASSUME TypeOK, QueueInv, PhaseInv, [Next]_vars, NEW j \in Sessions
             PROVE  Phase(j)'
  BY DEF IInv, PhaseInv
<1> USE DEF PhaseInv, Phase, connVars, wireVars, toWire, toConn, registryVars, zoneVars
<1>1. CASE UNCHANGED <<nextEntity, conn, account, validated, wire, reply, enterReq>>
  BY <1>1
<1>2. CASE Accept
  <2>1. nextEntity \in Sessions /\ nextEntity' = nextEntity + 1 /\ j \in Nat
    BY <1>2 DEF Accept, Sessions
  <2> QED BY <1>2, <2>1 DEF Accept, TypeOK
<1>3. ASSUME NEW i \in Sessions, NEW a \in Accounts, Handshake(i, a)
      PROVE  Phase(j)'
  BY <1>3 DEF Handshake, Continue, Return, TypeOK
<1>4. ASSUME NEW i \in Sessions, HandshakeFails(i)
      PROVE  Phase(j)'
  BY <1>4 DEF HandshakeFails, Return, TypeOK
<1>5. ASSUME NEW i \in Sessions, AuthResult(i) \/ SnapshotSource(i) \/ SnapshotsEnd(i) \/ Leave(i)
      PROVE  Phase(j)'
  <2>1. UNCHANGED <<nextEntity, account, validated, wire, reply, enterReq>>
    BY <1>5 DEF AuthResult, SnapshotSource, SnapshotsEnd, Leave
  <2>2. /\ conn[i] \notin {"idle", "handshake"}
        /\ \/ conn'[i] = "ended"
           \/ conn[i] = "awaitAuth"
           \/ conn[i] = "awaitSnapshot" /\ conn'[i] = "connected"
    BY <1>5 DEF AuthResult, SnapshotSource, SnapshotsEnd, Leave, Continue, Return, TypeOK
  <2>3. /\ conn'[i] \notin {"idle", "handshake"}
        /\ \A k \in Sessions \ {i} : conn'[k] = conn[k]
    BY <1>5 DEF AuthResult, SnapshotSource, SnapshotsEnd, Leave, Continue, Return, TypeOK
  <2> QED BY <2>1, <2>2, <2>3
<1>6. ASSUME NEW i \in Sessions, NEW z \in ZoneIds, SelectCharacter(i, z)
      PROVE  Phase(j)'
  BY <1>6 DEF SelectCharacter, Continue, Return, TypeOK
<1>7. ASSUME NEW i \in Sessions,
             \/ TryToRegister(i)
             \/ ValidationTimeout(i)
             \/ DropChannels(i)
             \/ RegisterReply(i)
             \/ SelectionTimeout(i)
             \/ Release(i)
             \/ UnknownZone(i)
             \/ Place(i)
             \/ Deliver(i)
      PROVE  Phase(j)'
  <2>1. UNCHANGED <<nextEntity, conn, account, validated, reply, enterReq>>
    BY <1>7 DEF TryToRegister, ValidationTimeout, DropChannels, RegisterReply, SelectionTimeout,
                Release, UnknownZone, Place, Deliver
  <2>2. j # i => wire'[j] = wire[j]
    BY <1>7 DEF TryToRegister, ValidationTimeout, DropChannels, RegisterReply, SelectionTimeout,
                Release, UnknownZone, Place, Deliver, TypeOK
  <2>3. wire[i] # "idle"
    BY <1>7 DEF TryToRegister, ValidationTimeout, DropChannels, RegisterReply, SelectionTimeout,
                Release, MayRelease, UnknownZone, Place, Deliver
  <2>4. \/ wire[i] = "awaitValidated" /\ wire'[i] = "giveUp"
        \/ wire'[i] = "done"
        \/ validated[i] = "some" /\ wire'[i] \in WireStates \ {"idle", "awaitValidated", "giveUp"}
    <3>1. CASE TryToRegister(i)
      BY <3>1 DEF TryToRegister, TypeOK, WireStates
    <3>2. CASE ValidationTimeout(i) \/ DropChannels(i) \/ Release(i) \/ UnknownZone(i)
      BY <3>2 DEF ValidationTimeout, DropChannels, Release, UnknownZone, TypeOK
    <3>3. CASE RegisterReply(i) \/ SelectionTimeout(i) \/ Place(i) \/ Deliver(i)
      BY <3>3 DEF RegisterReply, SelectionTimeout, Place, Deliver, TypeOK, WireStates
    <3> QED BY <1>7, <3>1, <3>2, <3>3
  <2> QED BY <2>1, <2>2, <2>3, <2>4
<1>8. CASE RegistryStep
  <2> DEFINE m == Head(queue)
  <2>1. m \in Range(queue)
    BY <1>8, QueueReceive
  <2>2. m.session # j => reply'[j] = reply[j]
    BY <1>8 DEF RegistryStep, TypeOK
  <2>3. UNCHANGED <<nextEntity, conn, account, validated, wire, enterReq>>
    BY <1>8 DEF RegistryStep
  <2>4. wire[m.session] \in {"awaitReply", "done"}
    BY <2>1, MessageType DEF QueueInv
  <2> QED BY <2>2, <2>3, <2>4
<1> QED
  BY <1>1, <1>2, <1>3, <1>4, <1>5, <1>6, <1>7, <1>8
  DEF Next, ConnStep, WireStep, ClientClose, BridgeStep, Forward, Close, Admit, Dispatch,
      ZonePanics, vars

------------------------------------------------------------------------------
\* Whoever is present in a zone is a session.
LEMMA PresentType ==
    ASSUME TypeOK, NEW z \in Zones
    PROVE  Present(z) \subseteq Sessions
BY DEF TypeOK, Present, Range

\* Steps of a session that is not in the world, before and after.
LEMMA PlaceFrame ==
    ASSUME TypeOK, PlaceInv, NEW i \in Sessions, i \notin InWorld,
           UNCHANGED <<players, inbox, panicked, bridge>>,
           \A j \in Sessions \ {i} : /\ conn'[j] = conn[j]
                                     /\ wire'[j] = wire[j]
                                     /\ snapSource'[j] = snapSource[j]
                                     /\ enterReq'[j] = enterReq[j],
           bridge[i] = "none" \/ conn'[i] = "ended",
           conn'[i] = "connected" => snapSource'[i] = "ok",
           snapSource'[i] = "ok" => snapSource[i] = "ok",
           wire'[i] = "delivering" => wire[i] = "delivering"
    PROVE  PlaceInv'
BY DEF PlaceInv, InWorld, Present

\* Every step keeps a running session in the place it was given.
LEMMA PlaceStep == IInv /\ [Next]_vars => PlaceInv'
<1> SUFFICES ASSUME TypeOK, PhaseInv, PlaceInv, [Next]_vars
             PROVE  PlaceInv'
  BY DEF IInv
<1> USE DEF connVars, wireVars, toWire, toConn, registryVars, zoneVars
<1>1. CASE UNCHANGED <<zoneVars, bridge, conn, snapSource, wire, enterReq>>
  BY <1>1 DEF PlaceInv, InWorld, Present
<1>2. CASE Accept
  <2>1. /\ nextEntity \in Sessions
        /\ conn[nextEntity] = "idle"
        /\ wire[nextEntity] = "idle"
    BY <1>2 DEF Accept, PhaseInv, Phase, TypeOK, Sessions
  <2>2. nextEntity \notin InWorld /\ bridge[nextEntity] = "none"
    BY <2>1 DEF PlaceInv, InWorld
  <2> QED BY <1>2, <2>1, <2>2, PlaceFrame DEF Accept, TypeOK
<1>3. ASSUME NEW i \in Sessions,
             Leave(i) \/ SnapshotsEnd(i) \/ HandshakeFails(i) \/ AuthResult(i)
      PROVE  PlaceInv'
  <2>1. /\ conn'[i] \in {"ended", "charSelect"}
        /\ \A j \in Sessions \ {i} : conn'[j] = conn[j]
        /\ conn[i] # "ended"
        /\ UNCHANGED <<players, inbox, panicked, bridge, snapSource, wire, enterReq>>
    BY <1>3 DEF Leave, SnapshotsEnd, HandshakeFails, AuthResult, Continue, Return, TypeOK
  <2> QED BY <2>1 DEF PlaceInv, InWorld, Present
<1>4. ASSUME NEW i \in Sessions, NEW a \in Accounts, Handshake(i, a)
      PROVE  PlaceInv'
  <2>1. /\ conn'[i] \in {"ended", "awaitAuth"}
        /\ \A j \in Sessions \ {i} : conn'[j] = conn[j]
        /\ conn[i] # "ended"
        /\ UNCHANGED <<players, inbox, panicked, bridge, snapSource, wire, enterReq>>
    BY <1>4 DEF Handshake, Continue, Return, TypeOK
  <2> QED BY <2>1 DEF PlaceInv, InWorld, Present
<1>5. ASSUME NEW i \in Sessions, NEW z \in ZoneIds, SelectCharacter(i, z)
      PROVE  PlaceInv'
  <2>1. i \notin InWorld /\ bridge[i] = "none"
    BY <1>5, ZonesAssumption DEF SelectCharacter, PhaseInv, Phase, PlaceInv, InWorld
  <2>2. /\ conn'[i] # "connected"
        /\ \A j \in Sessions \ {i} : conn'[j] = conn[j] /\ enterReq'[j] = enterReq[j]
        /\ UNCHANGED <<players, inbox, panicked, bridge, snapSource, wire>>
    BY <1>5 DEF SelectCharacter, Continue, Return, TypeOK
  <2> QED BY <2>1, <2>2, PlaceFrame
<1>6. ASSUME NEW i \in Sessions, SnapshotSource(i)
      PROVE  PlaceInv'
  <2>1. \/ conn'[i] = "ended"
        \/ conn'[i] = "connected" /\ snapSource[i] = "ok"
    BY <1>6 DEF SnapshotSource, Continue, Return, TypeOK
  <2>2. /\ \A j \in Sessions \ {i} : conn'[j] = conn[j]
        /\ conn[i] # "ended"
        /\ UNCHANGED <<players, inbox, panicked, bridge, snapSource, wire, enterReq>>
    BY <1>6 DEF SnapshotSource, Continue, Return, TypeOK
  <2> QED BY <2>1, <2>2 DEF PlaceInv, InWorld, Present
<1>7. ASSUME NEW i \in Sessions,
             \/ TryToRegister(i)
             \/ ValidationTimeout(i)
             \/ DropChannels(i)
             \/ RegisterReply(i)
             \/ SelectionTimeout(i)
             \/ Release(i)
             \/ UnknownZone(i)
      PROVE  PlaceInv'
  <2>1. wire[i] \notin {"delivering", "awaitConn"} \/ conn[i] = "ended"
    BY <1>7 DEF TryToRegister, ValidationTimeout, DropChannels, RegisterReply, SelectionTimeout,
                Release, MayRelease, UnknownZone
  <2>2. i \notin InWorld /\ (bridge[i] = "none" \/ conn[i] = "ended") /\ conn[i] # "connected"
    BY <2>1 DEF PlaceInv, InWorld
  <2>3. UNCHANGED <<players, inbox, panicked, bridge, conn, enterReq>>
    BY <1>7 DEF TryToRegister, ValidationTimeout, DropChannels, RegisterReply, SelectionTimeout,
                Release, UnknownZone
  <2>4. \A j \in Sessions \ {i} : wire'[j] = wire[j] /\ snapSource'[j] = snapSource[j]
    BY <1>7 DEF TryToRegister, ValidationTimeout, DropChannels, RegisterReply, SelectionTimeout,
                Release, UnknownZone, TypeOK
  <2>5. wire'[i] # "delivering" /\ (snapSource'[i] = "ok" => snapSource[i] = "ok")
    BY <1>7 DEF TryToRegister, ValidationTimeout, DropChannels, RegisterReply, SelectionTimeout,
                Release, UnknownZone, TypeOK
  <2> QED BY <2>2, <2>3, <2>4, <2>5, PlaceFrame
<1>8. ASSUME NEW i \in Sessions, Place(i)
      PROVE  PlaceInv'
  <2> DEFINE z == enterReq[i]
  <2>1. /\ z \in Zones /\ wire[i] = "awaitSelect" /\ wire'[i] = "delivering"
        /\ bridge'[i] = "open"
        /\ \A j \in Sessions \ {i} : wire'[j] = wire[j] /\ bridge'[j] = bridge[j]
        /\ UNCHANGED <<players, panicked, conn, snapSource, enterReq>>
    BY <1>8 DEF Place, TypeOK
  <2>2. /\ z \notin panicked => Present(z)' = Present(z) \cup {i}
        /\ z \in panicked => Present(z)' = Present(z)
    <3>1. CASE z \notin panicked
      <4>1. inbox[z] \in Seq(Sessions) /\ inbox'[z] = Append(inbox[z], i)
        BY <1>8, <2>1, <3>1 DEF Place, TypeOK
      <4>2. Range(inbox'[z]) = Range(inbox[z]) \cup {i}
        BY <4>1, RangeAppend
      <4> QED BY <2>1, <3>1, <4>2 DEF Present
    <3>2. CASE z \in panicked
      <4>1. inbox' = inbox
        BY <1>8, <3>2 DEF Place
      <4> QED BY <2>1, <3>2, <4>1 DEF Present
    <3> QED BY <3>1, <3>2
  <2>3. \A y \in Zones \ {z} : inbox'[y] = inbox[y]
    BY <1>8 DEF Place, TypeOK
  <2>4. \A y \in Zones \ {z} : Present(y)' = Present(y)
    BY <2>1, <2>3 DEF Present
  <2>5. InWorld' \subseteq InWorld \cup {i}
    BY <2>1 DEF InWorld
  <2>6. \A j \in Sessions : bridge'[j] = "none" => bridge[j] = "none" /\ j # i
    BY <2>1
  <2>7. \A y \in Zones : \A j \in Present(y)' : bridge'[j] # "none" /\ y \notin panicked'
    BY <2>1, <2>2, <2>4, <2>6, PresentType DEF PlaceInv
  <2>8. ASSUME NEW j \in InWorld'
        PROVE  /\ wire'[j] \in {"delivering", "awaitConn"}
               /\ enterReq'[j] \in Zones
               /\ enterReq'[j] \notin panicked' =>
                     bridge'[j] # "closed" /\ j \in Present(enterReq[j])'
    <3>1. CASE j = i
      BY <2>1, <2>2, <3>1
    <3>2. CASE j # i
      <4>1. j \in InWorld /\ j \in Sessions /\ enterReq[j] \in Zones
        BY <2>5, <3>2 DEF PlaceInv, InWorld
      <4>2. enterReq'[j] = enterReq[j] /\ wire'[j] = wire[j] /\ bridge'[j] = bridge[j]
        BY <2>1, <3>2, <4>1
      <4>3. Present(enterReq[j]) \subseteq Present(enterReq[j])'
        BY <2>1, <2>2, <2>4, <4>1
      <4>4. /\ wire[j] \in {"delivering", "awaitConn"}
            /\ enterReq[j] \notin panicked =>
                  bridge[j] # "closed" /\ j \in Present(enterReq[j])
        BY <4>1 DEF PlaceInv
      <4> QED BY <2>1, <4>1, <4>2, <4>3, <4>4
    <3> QED BY <3>1, <3>2
  <2> QED BY <2>1, <2>6, <2>7, <2>8 DEF PlaceInv
<1>9. ASSUME NEW i \in Sessions, Deliver(i)
      PROVE  PlaceInv'
  <2>1. /\ wire[i] = "delivering" /\ wire'[i] = "awaitConn" /\ snapSource'[i] = "ok"
        /\ \A j \in Sessions \ {i} : wire'[j] = wire[j] /\ snapSource'[j] = snapSource[j]
        /\ UNCHANGED <<players, inbox, panicked, bridge, conn, enterReq>>
    BY <1>9 DEF Deliver, TypeOK
  <2> QED BY <2>1 DEF PlaceInv, InWorld, Present
<1>10. ASSUME NEW i \in Sessions, BridgeStep(i)
      PROVE  PlaceInv'
  <2>1. /\ bridge[i] \in {"open", "loaded"} /\ bridge'[i] \in {"open", "closed"}
        /\ bridge'[i] = "closed" => conn[i] = "ended" \/ enterReq[i] \in panicked
        /\ \A j \in Sessions \ {i} : bridge'[j] = bridge[j]
        /\ UNCHANGED <<players, inbox, panicked, conn, snapSource, wire, enterReq>>
    BY <1>10 DEF BridgeStep, Forward, Close, TypeOK
  <2>2. InWorld' = InWorld
    BY <2>1 DEF InWorld
  <2>3. \A z \in Zones : Present(z)' = Present(z)
    BY <2>1 DEF Present
  <2>4. \A j \in Sessions : bridge'[j] = "none" => bridge[j] = "none"
    BY <2>1
  <2>5. \A j \in InWorld : enterReq[j] \notin panicked => bridge'[j] # "closed"
    BY <2>1 DEF InWorld, PlaceInv
  <2> QED BY <2>1, <2>2, <2>3, <2>4, <2>5, PresentType DEF PlaceInv
<1>11. ASSUME NEW z \in Zones, Admit(z)
      PROVE  PlaceInv'
  <2>1. Range(inbox[z]) = {Head(inbox[z])} \cup Range(inbox'[z])
    <3>1. inbox[z] \in Seq(Sessions) /\ inbox[z] # <<>> /\ inbox'[z] = Tail(inbox[z])
      BY <1>11 DEF Admit, TypeOK
    <3> QED BY <3>1, RangeTail
  <2>2. /\ players'[z] = players[z] \cup {Head(inbox[z])}
        /\ \A y \in Zones \ {z} : players'[y] = players[y] /\ inbox'[y] = inbox[y]
    BY <1>11 DEF Admit, TypeOK
  <2>3. \A y \in Zones : Present(y)' = Present(y)
    BY <2>1, <2>2 DEF Present
  <2>4. UNCHANGED <<panicked, bridge, conn, snapSource, wire, enterReq>>
    BY <1>11 DEF Admit
  <2> QED BY <2>3, <2>4 DEF PlaceInv, InWorld
<1>12. ASSUME NEW z \in Zones, Dispatch(z)
      PROVE  PlaceInv'
  <2>1. /\ UNCHANGED <<inbox, panicked, conn, snapSource, wire, enterReq>>
        /\ players'[z] = players[z] \ Gone(z)
        /\ \A y \in Zones \ {z} : players'[y] = players[y]
    BY <1>12 DEF Dispatch, TypeOK
  <2>2. \A i \in Sessions : /\ bridge'[i] = "none" => bridge[i] = "none"
                            /\ bridge[i] = "none" => i \notin players[z]
                            /\ bridge'[i] = "closed" => bridge[i] = "closed"
    BY <1>12 DEF Dispatch, PlaceInv, Present
  <2>3. \A i \in Sessions : bridge[i] = "none" => bridge'[i] = "none"
    BY <1>12, <2>2 DEF Dispatch
  <2>4. \A y \in Zones : Present(y)' \subseteq Present(y)
    BY <2>1 DEF Present
  <2>5. \A y \in Zones : \A i \in Present(y) \ Present(y)' : bridge[i] = "closed"
    BY <2>1 DEF Present, Gone
  <2>6. \A y \in Zones : Present(y) \subseteq Sessions
    BY PresentType
  <2> QED BY <2>1, <2>2, <2>3, <2>4, <2>5, <2>6 DEF PlaceInv, InWorld
<1>13. ASSUME NEW z \in Zones, ZonePanics(z)
      PROVE  PlaceInv'
  <2>1. /\ UNCHANGED <<bridge, conn, snapSource, wire, enterReq>>
        /\ panicked' = panicked \cup {z}
        /\ inbox'[z] = <<>> /\ players'[z] = {}
        /\ \A y \in Zones \ {z} : players'[y] = players[y] /\ inbox'[y] = inbox[y]
    BY <1>13 DEF ZonePanics, TypeOK
  <2>2. Present(z)' = {}
    BY <2>1 DEF Present, Range
  <2>3. \A y \in Zones \ {z} : Present(y)' = Present(y)
    BY <2>1 DEF Present
  <2> QED BY <2>1, <2>2, <2>3 DEF PlaceInv, InWorld
<1> QED
  BY <1>1, <1>2, <1>3, <1>4, <1>5, <1>6, <1>7, <1>8, <1>9, <1>10, <1>11, <1>12, <1>13
  DEF Next, ConnStep, WireStep, ClientClose, RegistryStep, vars

------------------------------------------------------------------------------
\* An owner's Unregister in the channel says that its wiring task is done.
LEMMA HolderPhase ==
    ASSUME TypeOK, QueueInv, PhaseInv, NEW i \in Holders
    PROVE  /\ validated[i] = "some"
           /\ account[i] \in Accounts
           /\ wire[i] \in {"awaitReply", "awaitSelect", "release", "delivering", "awaitConn", "done"}
<1>1. CASE Unregister(i) \in Range(queue)
  <2>1. Unregister(i).session = i /\ Unregister(i).type = "Unregister"
    BY DEF Unregister
  <2>2. validated[i] = "some" /\ wire[i] = "done"
    BY <1>1, <2>1 DEF QueueInv
  <2> QED BY <2>2 DEF PhaseInv, Phase, Holders
<1>2. CASE Unregister(i) \notin Range(queue)
  BY <1>2 DEF Holders, PhaseInv, Phase
<1> QED BY <1>1, <1>2

\* The steps that neither make nor end an owner: all but those of the registry.
LEMMA HoldersStep ==
    ASSUME TypeOK, QueueInv, PhaseInv, [Next]_vars, ~RegistryStep
    PROVE  /\ Holders' = Holders
           /\ \A i \in Holders : account'[i] = account[i]
           /\ connected' = connected
<1> USE DEF connVars, wireVars, toWire, toConn, registryVars, zoneVars
<1> DEFINE Goal == /\ Holders' = Holders
                   /\ \A i \in Holders : account'[i] = account[i]
                   /\ connected' = connected
<1>1. CASE UNCHANGED <<queue, connected, account, wire, reply>>
  BY <1>1 DEF Holders, Unregister
<1>2. CASE Accept
  <2>1. nextEntity \in Sessions /\ wire[nextEntity] = "idle"
    BY <1>2 DEF Accept, PhaseInv, Phase, TypeOK, Sessions
  <2>2. /\ UNCHANGED <<queue, connected, account, reply>>
        /\ wire'[nextEntity] = "awaitValidated"
        /\ \A j \in Sessions \ {nextEntity} : wire'[j] = wire[j]
    BY <1>2, <2>1 DEF Accept, TypeOK
  <2> QED BY <2>1, <2>2 DEF Holders, Unregister
<1>3. ASSUME NEW i \in Sessions, NEW a \in Accounts, Handshake(i, a)
      PROVE  Goal
  <2>1. validated[i] = "empty"
    BY <1>3 DEF Handshake, PhaseInv, Phase
  <2>2. i \notin Holders /\ \A m \in Range(queue) : m.session # i
    BY <2>1, HolderPhase DEF QueueInv
  <2>3. Unregister(i)' \notin Range(queue)
    BY <2>2 DEF Unregister
  <2>4. /\ UNCHANGED <<queue, connected, wire, reply>>
        /\ \A j \in Sessions \ {i} : account'[j] = account[j]
    BY <1>3 DEF Handshake, TypeOK
  <2> QED BY <2>2, <2>3, <2>4 DEF Holders, Unregister
<1>4. ASSUME NEW i \in Sessions, TryToRegister(i)
      PROVE  Goal
  <2>1. queue \in Seq(Messages) /\ TryRegister(i) \in Messages
    BY <1>4 DEF TryToRegister, TypeOK, PhaseInv, Phase, TryRegister, Messages
  <2>2. Range(queue') = Range(queue) \cup {TryRegister(i)}
    BY <1>4, <2>1, RangeAppend DEF TryToRegister
  <2>3. \A j \in Sessions : Unregister(j) # TryRegister(i)
    BY DEF Unregister, TryRegister
  <2>4. wire[i] = "awaitValidated" /\ reply[i] = "empty"
    BY <1>4 DEF TryToRegister, PhaseInv, Phase
  <2>5. /\ UNCHANGED <<connected, account, reply>>
        /\ wire'[i] = "awaitReply"
        /\ \A j \in Sessions \ {i} : wire'[j] = wire[j]
    BY <1>4 DEF TryToRegister, TypeOK
  <2>6. \A j \in Sessions : Unregister(j)' \in Range(queue') <=> Unregister(j) \in Range(queue)
    BY <2>2, <2>3, <2>5 DEF Unregister
  <2> QED BY <2>4, <2>5, <2>6 DEF Holders
<1>5. ASSUME NEW i \in Sessions,
             \/ ValidationTimeout(i)
             \/ DropChannels(i)
             \/ RegisterReply(i) /\ reply[i] = "false"
      PROVE  Goal
  <2>1. /\ wire[i] # "done" /\ (wire[i] # "awaitReply" \/ reply[i] # "empty")
        /\ wire[i] \in {"awaitValidated", "giveUp"} \/ reply[i] = "false"
        /\ wire[i] \notin {"awaitSelect", "release", "delivering", "awaitConn"}
    BY <1>5 DEF ValidationTimeout, DropChannels, RegisterReply
  <2>2. \A m \in Range(queue) : m.session # i
    BY <2>1, NoMessage
  <2>3. Unregister(i) \notin Range(queue)
    BY <2>2 DEF Unregister
  <2>4. /\ UNCHANGED <<queue, connected, account, reply>>
        /\ wire'[i] \in {"giveUp", "done"}
        /\ \A j \in Sessions \ {i} : wire'[j] = wire[j]
    BY <1>5 DEF ValidationTimeout, DropChannels, RegisterReply, TypeOK
  <2> QED BY <2>1, <2>3, <2>4 DEF Holders, Unregister
<1>6. ASSUME NEW i \in Sessions,
             \/ RegisterReply(i) /\ reply[i] = "true"
             \/ SelectionTimeout(i)
             \/ Place(i)
             \/ Deliver(i)
      PROVE  Goal
  <2>1. /\ UNCHANGED <<queue, connected, account, reply>>
        /\ \A j \in Sessions \ {i} : wire'[j] = wire[j]
    BY <1>6 DEF RegisterReply, SelectionTimeout, Place, Deliver, TypeOK
  <2>2. /\ \/ wire[i] \in {"awaitSelect", "delivering"}
           \/ wire[i] = "awaitReply" /\ reply[i] = "true"
        /\ wire'[i] \in {"awaitSelect", "release", "delivering", "awaitConn"}
    BY <1>6 DEF RegisterReply, SelectionTimeout, Place, Deliver, TypeOK
  <2> QED BY <2>1, <2>2 DEF Holders, Unregister
<1>7. ASSUME NEW i \in Sessions, Release(i) \/ UnknownZone(i)
      PROVE  Goal
  <2>1. /\ wire[i] \in {"release", "awaitConn", "awaitSelect"}
        /\ queue' = Append(queue, Unregister(i))
        /\ UNCHANGED <<connected, account, reply>>
        /\ wire'[i] = "done"
        /\ \A j \in Sessions \ {i} : wire'[j] = wire[j]
    BY <1>7 DEF Release, MayRelease, UnknownZone, TypeOK
  <2>2. queue \in Seq(Messages) /\ Unregister(i) \in Messages
    BY <2>1 DEF TypeOK, PhaseInv, Phase, Unregister, Messages
  <2>3. Range(queue') = Range(queue) \cup {Unregister(i)}
    BY <2>1, <2>2, RangeAppend
  <2>4. \A j \in Sessions \ {i} : Unregister(j) # Unregister(i)
    BY DEF Unregister
  <2>5. \A j \in Sessions : Unregister(j)' = Unregister(j)
    BY <2>1 DEF Unregister
  <2>6. i \in Holders /\ i \in Holders'
    BY <2>1, <2>3, <2>5 DEF Holders
  <2>7. \A j \in Sessions \ {i} : j \in Holders' <=> j \in Holders
    BY <2>1, <2>3, <2>4, <2>5 DEF Holders
  <2>8. Holders \subseteq Sessions /\ Holders' \subseteq Sessions
    BY DEF Holders
  <2>9. Holders' = Holders
    BY <2>6, <2>7, <2>8
  <2> QED BY <2>1, <2>8, <2>9
<1>8. CASE \E i \in Sessions : RegisterReply(i)
  BY <1>5, <1>6, <1>8 DEF RegisterReply
<1> QED
  BY <1>1, <1>2, <1>3, <1>4, <1>5, <1>6, <1>7, <1>8
  DEF Next, ConnStep, WireStep, ClientClose, HandshakeFails, AuthResult, SelectCharacter,
      SnapshotSource, SnapshotsEnd, Leave, BridgeStep, Forward, Close, Admit, Dispatch,
      ZonePanics, vars

\* The registry's own step on the owners: a successful TryRegister makes its
\* sender the owner of a free account, an Unregister ends its sender's.
LEMMA RegistryHolders ==
    ASSUME TypeOK, QueueInv, PhaseInv, RegistrationExact, RegistryStep
    PROVE  LET s == Head(queue).session IN
           /\ s \in Sessions
           /\ \/ /\ s \notin Holders
                 /\ account[s] \in connected
                 /\ Holders' = Holders
                 /\ connected' = connected
              \/ /\ s \notin Holders
                 /\ account[s] \notin connected
                 /\ Holders' = Holders \cup {s}
                 /\ connected' = connected \cup {account[s]}
              \/ /\ s \in Holders
                 /\ wire[s] = "done"
                 /\ Holders' = Holders \ {s}
                 /\ connected' = connected \ {account[s]}
<1> DEFINE m == Head(queue)
           s == m.session
<1>1. /\ m \in Range(queue)
      /\ Range(queue') = Range(queue) \ {m}
  BY QueueReceive
<1>2. /\ m \in Messages /\ s \in Sessions /\ m.account = account[s]
      /\ m.type = "TryRegister" => wire[s] = "awaitReply" /\ reply[s] = "empty"
      /\ m.type = "Unregister" => wire[s] = "done"
  BY <1>1, MessageType DEF QueueInv
<1>3. UNCHANGED <<account, wire>>
  BY DEF RegistryStep, connVars, wireVars
<1>4. CASE m.type = "TryRegister"
  <2>1. /\ connected' = connected \cup {account[s]}
        /\ reply' = [reply EXCEPT ![s] = IF account[s] \notin connected THEN "true" ELSE "false"]
    BY <1>2, <1>4 DEF RegistryStep, Inserted
  <2>2. \A j \in Sessions : Unregister(j)' \in Range(queue') <=> Unregister(j) \in Range(queue)
    BY <1>1, <1>3, <1>4 DEF Unregister
  <2>3. Unregister(s) \notin Range(queue)
    <3>1. Unregister(s).session = s /\ Unregister(s).type = "Unregister"
      BY DEF Unregister
    <3> QED BY <1>2, <1>4, <3>1 DEF QueueInv
  <2>4. s \notin Holders
    BY <1>2, <1>4, <2>3 DEF Holders
  <2>5. \A j \in Sessions \ {s} : reply'[j] = reply[j]
    BY <2>1 DEF TypeOK
  <2>6. reply'[s] = IF account[s] \notin connected THEN "true" ELSE "false"
    BY <1>2, <2>1 DEF TypeOK
  <2>7. \A j \in Sessions \ {s} : (j \in Holders') <=> (j \in Holders)
    BY <1>3, <2>2, <2>5 DEF Holders
  <2>8. (s \in Holders') <=> (account[s] \notin connected)
    BY <1>2, <1>3, <1>4, <2>2, <2>3, <2>6 DEF Holders
  <2>9. Holders \subseteq Sessions /\ Holders' \subseteq Sessions
    BY DEF Holders
  <2>10. CASE account[s] \in connected
    <3>1. Holders' = Holders /\ connected' = connected
      BY <2>1, <2>4, <2>7, <2>8, <2>9, <2>10
    <3> QED BY <1>2, <2>4, <2>10, <3>1
  <2>11. CASE account[s] \notin connected
    <3>1. Holders' = Holders \cup {s}
      BY <1>2, <2>4, <2>7, <2>8, <2>9, <2>11
    <3> QED BY <1>2, <2>1, <2>4, <2>11, <3>1
  <2> QED BY <2>10, <2>11
<1>5. CASE m.type = "Unregister"
  <2>1. m = Unregister(s)
    BY <1>2, <1>5 DEF Unregister, Messages
  <2>2. connected' = connected \ {account[s]} /\ reply' = reply
    BY <1>2, <1>5 DEF RegistryStep
  <2>3. s \in Holders /\ wire[s] = "done"
    BY <1>1, <1>2, <1>5, <2>1 DEF Holders
  <2>4. \A j \in Sessions : Unregister(j)' = Unregister(j)
    BY <1>3 DEF Unregister
  <2>5. s \notin Holders'
    BY <1>1, <1>3, <2>1, <2>3, <2>4 DEF Holders
  <2>6. \A j \in Sessions \ {s} : Unregister(j) # m
    BY <2>1 DEF Unregister
  <2>7. \A j \in Sessions \ {s} : (j \in Holders') <=> (j \in Holders)
    BY <1>1, <1>3, <2>2, <2>4, <2>6 DEF Holders
  <2>8. Holders \subseteq Sessions /\ Holders' \subseteq Sessions
    BY DEF Holders
  <2>9. Holders' = Holders \ {s}
    BY <2>5, <2>7, <2>8
  <2> QED BY <1>2, <2>2, <2>3, <2>9
<1> QED BY <1>2, <1>4, <1>5 DEF Messages

\* Every step keeps the registry in line with the owners of registrations.
LEMMA RegistrationStep == IInv /\ [Next]_vars => RegistrationExact'
<1> SUFFICES ASSUME TypeOK, QueueInv, PhaseInv, RegistrationExact, [Next]_vars
             PROVE  RegistrationExact'
  BY DEF IInv
<1>1. CASE ~RegistryStep
  BY <1>1, HoldersStep DEF RegistrationExact
<1>2. CASE RegistryStep
  <2> DEFINE s == Head(queue).session
  <2>1. account' = account
    BY <1>2 DEF RegistryStep, connVars
  <2>2. CASE Holders' = Holders /\ connected' = connected
    BY <2>1, <2>2 DEF RegistrationExact
  <2>3. CASE /\ s \notin Holders
             /\ account[s] \notin connected
             /\ Holders' = Holders \cup {s}
             /\ connected' = connected \cup {account[s]}
    BY <2>1, <2>3 DEF RegistrationExact
  <2>4. CASE /\ s \in Holders
             /\ Holders' = Holders \ {s}
             /\ connected' = connected \ {account[s]}
    BY <2>1, <2>4 DEF RegistrationExact
  <2> QED BY <1>2, <2>2, <2>3, <2>4, RegistryHolders
<1> QED BY <1>1, <1>2

------------------------------------------------------------------------------
(***************************************************************************)
(* Theorems.                                                               *)
(***************************************************************************)
\* The inductive invariant: types, the registry's channel, the phases of the
\* two tasks of a session, the places of players, and the registration.
THEOREM Invariance == Spec => []IInv
<1>1. Init => IInv
  <2> SUFFICES ASSUME Init
               PROVE  IInv
    OBVIOUS
  <2> USE DEF Init
  <2>1. TypeOK
    BY TypeInit
  <2>2. Range(queue) = {} /\ \A z \in Zones : Range(inbox[z]) = {}
    BY DEF Range
  <2>3. QueueInv
    BY <2>2 DEF QueueInv, IsInjective
  <2>4. PhaseInv
    BY DEF PhaseInv, Phase
  <2>5. PlaceInv
    BY <2>2 DEF PlaceInv, Present, InWorld
  <2>6. Holders = {}
    BY <2>2 DEF Holders
  <2>7. RegistrationExact
    BY <2>6 DEF RegistrationExact
  <2> QED BY <2>1, <2>3, <2>4, <2>5, <2>7 DEF IInv
<1>2. IInv /\ [Next]_vars => IInv'
  BY TypeStep, QueueStep, PhaseStep, PlaceStep, RegistrationStep DEF IInv
<1> QED BY <1>1, <1>2, PTL DEF Spec

\* The variables stay within their types.
THEOREM TypeCorrect == Spec => []TypeOK
<1>1. IInv => TypeOK
  BY DEF IInv
<1> QED BY <1>1, Invariance, PTL

\* The registry's set is exactly the accounts of the wiring tasks that own a
\* registration, one owner each.
THEOREM RegistrationCorrect == Spec => []RegistrationExact
<1>1. IInv => RegistrationExact
  BY DEF IInv
<1> QED BY <1>1, Invariance, PTL

\* Whoever is in the world owns the registration of its account.
LEMMA WorldHolds == IInv => InWorld \subseteq Holders
BY DEF IInv, PlaceInv, InWorld, Holders

\* Two sessions that play at the same time are of different accounts.
THEOREM OnePlayingSessionCorrect == Spec => []OnePlayingSession
<1>1. IInv => OnePlayingSession
  BY WorldHolds DEF IInv, RegistrationExact, OnePlayingSession
<1> QED BY <1>1, Invariance, PTL

\* A connected client's entity is in the zone of its character, or on the way,
\* as long as that zone has not panicked.
THEOREM ConnectedIsPlacedCorrect == Spec => []ConnectedIsPlaced
<1>1. IInv => ConnectedIsPlaced
  BY DEF IInv, PlaceInv, InWorld, ConnectedIsPlaced
<1> QED BY <1>1, Invariance, PTL

\* The effect of any step on the lock of AccountLock.
LEMMA LockStep ==
    ASSUME IInv, [Next]_vars
    PROVE  \/ /\ InWorld' = InWorld
              /\ \E s \in Sessions :
                    /\ s \notin Holders
                    /\ account[s] \in Accounts
                    /\ account[s] \notin connected
                    /\ Held' = Held \cup {<<account[s], s>>}
                    /\ connected' = connected \cup {account[s]}
           \/ /\ InWorld' = InWorld
              /\ \E s \in Holders \ InWorld :
                    /\ Held' = Held \ {<<account[s], s>>}
                    /\ connected' = connected \ {account[s]}
           \/ /\ Held' = Held /\ connected' = connected
              /\ \/ InWorld' = InWorld
                 \/ \E s \in Holders : InWorld' = InWorld \cup {s}
                 \/ \E s \in InWorld : InWorld' = InWorld \ {s}
<1> USE DEF IInv
<1>1. CASE RegistryStep
  <2> DEFINE s == Head(queue).session
  <2>1. UNCHANGED <<account, conn, bridge>>
    BY <1>1 DEF RegistryStep, connVars, wireVars
  <2>2. InWorld' = InWorld
    BY <2>1 DEF InWorld
  <2>3. Head(queue) \in Range(queue)
    BY <1>1, QueueReceive
  <2>4. s \in Sessions /\ account[s] \in Accounts
    BY <2>3, MessageType DEF QueueInv
  <2>5. CASE Holders' = Holders /\ connected' = connected
    BY <2>1, <2>2, <2>5 DEF Held
  <2>6. CASE /\ s \notin Holders
             /\ account[s] \notin connected
             /\ Holders' = Holders \cup {s}
             /\ connected' = connected \cup {account[s]}
    <3>1. Held' = Held \cup {<<account[s], s>>}
      BY <2>1, <2>6 DEF Held
    <3> QED BY <2>2, <2>4, <2>6, <3>1
  <2>7. CASE /\ s \in Holders
             /\ wire[s] = "done"
             /\ Holders' = Holders \ {s}
             /\ connected' = connected \ {account[s]}
    <3>1. Held' = Held \ {<<account[s], s>>}
      BY <2>1, <2>7 DEF Held
    <3>2. s \notin InWorld
      BY <2>7 DEF PlaceInv
    <3> QED BY <2>2, <2>7, <3>1, <3>2
  <2> QED BY <1>1, <2>5, <2>6, <2>7, RegistryHolders
<1>2. CASE ~RegistryStep
  <2>1. /\ Holders' = Holders /\ connected' = connected
        /\ \A i \in Holders : account'[i] = account[i]
    BY <1>2, HoldersStep
  <2>2. Held' = Held
    BY <2>1 DEF Held
  <2>3. CASE UNCHANGED <<conn, bridge>>
    BY <2>1, <2>2, <2>3 DEF InWorld
  <2>4. CASE Accept
    <3>1. nextEntity \in Sessions /\ conn[nextEntity] = "idle" /\ bridge' = bridge
      BY <2>4 DEF Accept, PhaseInv, Phase, TypeOK, Sessions
    <3>2. InWorld' = InWorld
      BY <2>4, <3>1 DEF Accept, InWorld, TypeOK
    <3> QED BY <2>1, <2>2, <3>2
  <2>5. ASSUME NEW i \in Sessions, ConnStep(i)
        PROVE  /\ bridge' = bridge
               /\ conn[i] # "ended"
               /\ \A j \in Sessions \ {i} : conn'[j] = conn[j]
    BY <2>5 DEF ConnStep, Handshake, HandshakeFails, AuthResult, SelectCharacter, SnapshotSource,
                SnapshotsEnd, Leave, Continue, Return, wireVars, TypeOK
  <2>6. ASSUME NEW i \in Sessions, ConnStep(i)
        PROVE  InWorld' = InWorld \/ (i \in InWorld /\ InWorld' = InWorld \ {i})
    <3>1. CASE conn'[i] = "ended" /\ i \in InWorld
      BY <2>5, <2>6, <3>1 DEF InWorld
    <3>2. CASE conn'[i] # "ended" \/ i \notin InWorld
      BY <2>5, <2>6, <3>2 DEF InWorld
    <3> QED BY <3>1, <3>2
  <2>7. ASSUME NEW i \in Sessions, Place(i)
        PROVE  i \in Holders /\ (InWorld' = InWorld \/ InWorld' = InWorld \cup {i})
    <3>1. i \in Holders
      BY <2>7 DEF Place, Holders
    <3>2. /\ conn' = conn
          /\ bridge'[i] = "open"
          /\ \A j \in Sessions \ {i} : bridge'[j] = bridge[j]
      BY <2>7 DEF Place, connVars, TypeOK
    <3>3. CASE conn[i] = "ended"
      <4>1. InWorld' = InWorld
        BY <3>2, <3>3 DEF InWorld
      <4> QED BY <3>1, <4>1
    <3>4. CASE conn[i] # "ended"
      <4>1. InWorld' = InWorld \cup {i}
        BY <3>2, <3>4 DEF InWorld
      <4> QED BY <3>1, <4>1
    <3> QED BY <3>3, <3>4
  <2>8. CASE \E z \in Zones : Dispatch(z)
    <3>1. PICK z \in Zones : Dispatch(z)
      BY <2>8
    <3>2. \A i \in players[z] : bridge[i] # "none"
      BY DEF PlaceInv, Present
    <3>3. conn' = conn /\ \A i \in Sessions : bridge'[i] = "none" <=> bridge[i] = "none"
      BY <3>1, <3>2 DEF Dispatch, connVars
    <3>4. InWorld' = InWorld
      BY <3>3 DEF InWorld
    <3> QED BY <2>1, <2>2, <3>4
  <2>9. CASE \E i \in Sessions : BridgeStep(i)
    <3>1. PICK i \in Sessions : BridgeStep(i)
      BY <2>9
    <3>2. conn' = conn /\ \A j \in Sessions : bridge'[j] = "none" <=> bridge[j] = "none"
      BY <3>1 DEF BridgeStep, Forward, Close, connVars, TypeOK
    <3>3. InWorld' = InWorld
      BY <3>2 DEF InWorld
    <3> QED BY <2>1, <2>2, <3>3
  <2>10. CASE \E i \in Sessions : ConnStep(i)
    BY <2>1, <2>2, <2>6, <2>10
  <2>11. CASE \E i \in Sessions : Place(i)
    BY <2>1, <2>2, <2>7, <2>11
  <2>12. \/ UNCHANGED <<conn, bridge>>
         \/ Accept
         \/ \E i \in Sessions : ConnStep(i) \/ Place(i) \/ BridgeStep(i)
         \/ \E z \in Zones : Dispatch(z)
    BY <1>2
    DEF Next, WireStep, ClientClose, TryToRegister, ValidationTimeout, DropChannels, RegisterReply,
        SelectionTimeout, Release, UnknownZone, Deliver, Admit, ZonePanics, connVars, wireVars, vars
  <2> QED BY <2>3, <2>4, <2>8, <2>9, <2>10, <2>11, <2>12
<1> QED BY <1>1, <1>2

\* The registry never frees an account while a session of it is in the world.
THEOREM NoReleaseWhilePlayingCorrect == Spec => NoReleaseWhilePlaying
<1>1. ASSUME IInv, [Next]_vars
      PROVE  \A a \in connected \ connected' : \A i \in InWorld : account[i] # a
  <2> SUFFICES ASSUME NEW a \in connected \ connected', NEW i \in InWorld, account[i] = a
               PROVE  FALSE
    OBVIOUS
  <2>1. PICK s \in Holders \ InWorld : connected' = connected \ {account[s]}
    BY <1>1, LockStep
  <2>2. account[s] = a
    BY <2>1
  <2>3. i \in Holders
    BY <1>1, WorldHolds
  <2> QED BY <1>1, <2>1, <2>2, <2>3 DEF IInv, RegistrationExact
<1>2. IInv /\ [Next]_vars =>
         [\A a \in connected \ connected' : \A i \in InWorld : account[i] # a]_vars
  BY <1>1
<1> QED BY <1>2, Invariance, PTL DEF Spec, NoReleaseWhilePlaying

\* The registry, its channel and the wiring tasks implement a lock per account.
THEOREM LockRefinement == Spec => ImplementsAccountLock
<1>1. Init => Lock!Init
  <2> SUFFICES ASSUME Init
               PROVE  Lock!Init
    OBVIOUS
  <2>1. Range(queue) = {}
    BY DEF Init, Range
  <2>2. Holders = {} /\ InWorld = {}
    BY <2>1 DEF Init, Holders, InWorld
  <2> QED BY <2>2 DEF Lock!Init, Held
<1>2. IInv /\ [Next]_vars => [Lock!Next]_(Lock!vars)
  <2> SUFFICES ASSUME IInv, [Next]_vars
               PROVE  Lock!Next \/ UNCHANGED <<Held, InWorld>>
    BY DEF Lock!vars
  <2>1. Holders \subseteq Sessions /\ InWorld \subseteq Holders
    BY WorldHolds DEF Holders
  <2>2. ASSUME NEW s \in Holders
        PROVE  account[s] \in Accounts /\ <<account[s], s>> \in Held
    BY <2>2, HolderPhase DEF IInv, Held
  <2>3. ASSUME InWorld' = InWorld, NEW s \in Sessions, s \notin Holders,
               account[s] \in Accounts, account[s] \notin connected,
               Held' = Held \cup {<<account[s], s>>}
        PROVE  Lock!Next
    <3>1. \A p \in Held : p[1] # account[s] /\ p[2] # s
      BY <2>3 DEF Held, IInv, RegistrationExact
    <3>2. Lock!Acquire(account[s], s)
      BY <2>3, <3>1 DEF Lock!Acquire
    <3> QED BY <2>3, <3>2 DEF Lock!Next
  <2>4. ASSUME InWorld' = InWorld, NEW s \in Holders \ InWorld,
               Held' = Held \ {<<account[s], s>>}
        PROVE  Lock!Next
    <3>1. Lock!Release(account[s], s)
      BY <2>2, <2>4 DEF Lock!Release
    <3> QED BY <2>1, <2>2, <3>1 DEF Lock!Next
  <2>5. ASSUME Held' = Held, NEW s \in Holders, InWorld' = InWorld \cup {s}
        PROVE  Lock!Next
    <3>1. Lock!Enter(account[s], s)
      BY <2>2, <2>5 DEF Lock!Enter
    <3> QED BY <2>1, <2>2, <3>1 DEF Lock!Next
  <2>6. ASSUME Held' = Held, NEW s \in InWorld, InWorld' = InWorld \ {s}
        PROVE  Lock!Next
    <3>1. Lock!Leave(s)
      BY <2>6 DEF Lock!Leave
    <3> QED BY <2>1, <3>1 DEF Lock!Next
  <2> QED BY <2>3, <2>4, <2>5, <2>6, LockStep
<1> QED BY <1>1, <1>2, Invariance, PTL DEF Spec, ImplementsAccountLock, Lock!Spec

\* The account lock excludes: no two sessions hold an account and nobody is in
\* the world without one, for whatever implements AccountLock.
THEOREM LockExcludes == Lock!Spec => []Lock!MutualExclusion
<1> USE DEF Lock!MutualExclusion
<1>1. Lock!Init => Lock!MutualExclusion
  BY DEF Lock!Init
<1>2. Lock!MutualExclusion /\ [Lock!Next]_(Lock!vars) => Lock!MutualExclusion'
  <2> SUFFICES ASSUME Lock!MutualExclusion, [Lock!Next]_(Lock!vars)
               PROVE  Lock!MutualExclusion'
    OBVIOUS
  <2>1. ASSUME NEW a \in Accounts, NEW s \in Sessions, Lock!Acquire(a, s)
        PROVE  Lock!MutualExclusion'
    BY <2>1 DEF Lock!Acquire
  <2>2. ASSUME NEW a \in Accounts, NEW s \in Sessions, Lock!Enter(a, s)
        PROVE  Lock!MutualExclusion'
    BY <2>2 DEF Lock!Enter
  <2>3. ASSUME NEW s \in Sessions, Lock!Leave(s)
        PROVE  Lock!MutualExclusion'
    BY <2>3 DEF Lock!Leave
  <2>4. ASSUME NEW a \in Accounts, NEW s \in Sessions, Lock!Release(a, s)
        PROVE  Lock!MutualExclusion'
    BY <2>4 DEF Lock!Release
  <2>5. CASE UNCHANGED Lock!vars
    BY <2>5 DEF Lock!vars
  <2> QED BY <2>1, <2>2, <2>3, <2>4, <2>5 DEF Lock!Next
<1> QED BY <1>1, <1>2, PTL DEF Lock!Spec

\* Two sessions of one account never are in the world at once, and the server
\* knows an account for each that is.
THEOREM SessionsExclude == Spec => []Lock!MutualExclusion
BY LockRefinement, LockExcludes, PTL DEF ImplementsAccountLock
==============================================================================
