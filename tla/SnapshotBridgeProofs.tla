------------------------ MODULE SnapshotBridgeProofs ------------------------
(***************************************************************************)
(* Proofs about SnapshotBridge, for every capacity of its channels and     *)
(* every number of ticks.                                                  *)
(***************************************************************************)
EXTENDS SnapshotBridge, SequenceTheorems, TLAPS

\* Sending a snapshot newer than all of a channel keeps it in order.
LEMMA BetweenAppend ==
    ASSUME NEW s \in Seq(Nat), NEW low \in Nat, NEW high \in Nat, NEW t \in Nat,
           Between(s, low, high), Newest(s, low) <= high, high < t
    PROVE  /\ Between(Append(s, t), low, t)
           /\ Newest(Append(s, t), low) = t
<1> DEFINE u == Append(s, t)
<1>1. Len(u) = Len(s) + 1 /\ Len(s) \in Nat /\ u[Len(s) + 1] = t
  OBVIOUS
<1>2. \A j \in 1 .. Len(s) : u[j] = s[j] /\ s[j] \in Nat
  OBVIOUS
<1>3. low < t
  <2>1. CASE s = <<>>
    BY <2>1 DEF Newest
  <2>2. CASE s # <<>>
    <3>1. Len(s) \in 1 .. Len(s)
      BY <2>2
    <3> QED BY <1>2, <3>1 DEF Between
  <2> QED BY <2>1, <2>2
<1>4. \A j \in 1 .. Len(s) : low < u[j] /\ u[j] < t /\ \A k \in 1 .. j - 1 : u[k] < u[j]
  BY <1>1, <1>2 DEF Between
<1>5. Between(u, low, t)
  <2> SUFFICES ASSUME NEW j \in 1 .. Len(s) + 1
               PROVE  /\ low < u[j] /\ u[j] <= t
                      /\ \A k \in 1 .. j - 1 : u[k] < u[j]
    BY <1>1 DEF Between
  <2>1. CASE j \in 1 .. Len(s)
    BY <1>2, <1>4, <2>1
  <2>2. CASE j = Len(s) + 1
    <3>1. j - 1 = Len(s) /\ u[j] = t
      BY <1>1, <2>2
    <3> QED BY <1>3, <1>4, <3>1
  <2> QED BY <1>1, <2>1, <2>2
<1>6. Newest(u, low) = t
  BY <1>1 DEF Newest
<1> QED BY <1>5, <1>6

\* Taking the first snapshot off leaves the rest between it and the bound.
LEMMA BetweenTail ==
    ASSUME NEW s \in Seq(Nat), NEW low \in Nat, NEW high \in Nat,
           s # <<>>, Between(s, low, high)
    PROVE  /\ low < Head(s) /\ Head(s) <= high
           /\ Between(Tail(s), Head(s), high)
           /\ Newest(Tail(s), Head(s)) = Newest(s, low)
<1>1. /\ Len(s) \in Nat \ {0} /\ Len(Tail(s)) = Len(s) - 1
      /\ Head(s) = s[1] /\ 1 \in 1 .. Len(s)
  OBVIOUS
<1>2. \A j \in 1 .. Len(s) - 1 : Tail(s)[j] = s[j + 1]
  OBVIOUS
<1>3. low < s[1] /\ s[1] <= high
  BY <1>1 DEF Between
<1>4. Between(Tail(s), s[1], high)
  <2> SUFFICES ASSUME NEW j \in 1 .. Len(s) - 1
               PROVE  /\ s[1] < Tail(s)[j] /\ Tail(s)[j] <= high
                      /\ \A k \in 1 .. j - 1 : Tail(s)[k] < Tail(s)[j]
    BY <1>1 DEF Between
  <2>1. j + 1 \in 1 .. Len(s) /\ 1 \in 1 .. (j + 1) - 1
    BY <1>1
  <2>2. s[j + 1] <= high /\ \A k \in 1 .. (j + 1) - 1 : s[k] < s[j + 1]
    BY <2>1 DEF Between
  <2>3. \A k \in 1 .. j - 1 : k \in 1 .. Len(s) - 1 /\ k + 1 \in 1 .. (j + 1) - 1
    BY <1>1
  <2> QED BY <1>2, <2>1, <2>2, <2>3
<1>5. Newest(Tail(s), s[1]) = Newest(s, low)
  <2>0. Tail(s) \in Seq(Nat)
    OBVIOUS
  <2>1. CASE Len(s) = 1
    <3>1. Tail(s) = <<>>
      <4>1. Len(Tail(s)) = 0
        BY <1>1, <2>1
      <4>2. Tail(s) # <<>> => Len(Tail(s)) \in Nat \ {0}
        BY <2>0, EmptySeq
      <4> QED BY <4>1, <4>2
    <3> QED BY <2>1, <3>1 DEF Newest
  <2>2. CASE Len(s) > 1
    <3>1. Tail(s) # <<>> /\ Len(s) - 1 \in 1 .. Len(s) - 1
      <4>1. Len(Tail(s)) # 0 /\ Len(s) - 1 \in 1 .. Len(s) - 1
        BY <1>1, <2>2
      <4>2. Len(<<>>) = 0
        BY EmptySeq
      <4> QED BY <4>1, <4>2
    <3> QED BY <1>1, <1>2, <3>1 DEF Newest
  <2> QED BY <1>1, <2>1, <2>2
<1> QED BY <1>1, <1>3, <1>4, <1>5

\* Bounds may be loosened.
LEMMA BetweenWeaken ==
    ASSUME NEW s \in Seq(Nat), NEW low \in Nat, NEW high \in Nat, NEW lower \in Nat,
           NEW higher \in Nat, Between(s, low, high), lower <= low, high <= higher
    PROVE  Between(s, lower, higher)
<1>1. \A j \in 1 .. Len(s) : s[j] \in Nat
  OBVIOUS
<1> QED BY <1>1 DEF Between

\* The newest snapshot is within the bounds of its channel.
LEMMA NewestBounds ==
    ASSUME NEW s \in Seq(Nat), NEW low \in Nat, NEW high \in Nat, Between(s, low, high)
    PROVE  /\ Newest(s, low) \in Nat
           /\ low <= Newest(s, low)
           /\ low <= high => Newest(s, low) <= high
<1>1. CASE s = <<>>
  BY <1>1 DEF Newest
<1>2. CASE s # <<>>
  <2>1. Len(s) \in 1 .. Len(s) /\ s[Len(s)] \in Nat
    BY <1>2
  <2> QED BY <1>2, <2>1 DEF Newest, Between
<1> QED BY <1>1, <1>2
-----------------------------------------------------------------------------
\* The initial state satisfies the inductive invariant.
LEMMA InvInit == Init => IInv
<1> SUFFICES ASSUME Init
             PROVE  IInv
  OBVIOUS
<1>1. TypeOK
  <2>1. <<>> \in Seq(1 .. MaxTick) /\ Len(<<>>) = 0
    OBVIOUS
  <2> QED BY <2>1, CapacityAssumption, MaxTickAssumption DEF Init, TypeOK, None
<1>2. Ordered /\ Emptied
  BY DEF Init, Ordered, Emptied, SentOn, Taken, Newest, Between
<1> QED BY <1>1, <1>2 DEF IInv

\* Every step keeps it.
LEMMA InvStep == IInv /\ [Next]_vars => IInv'
<1> SUFFICES ASSUME IInv, [Next]_vars
             PROVE  IInv'
  OBVIOUS
<1> USE CapacityAssumption, MaxTickAssumption
<1>0. /\ TypeOK /\ Ordered /\ Emptied
      /\ std \in Seq(Nat) /\ tok \in Seq(Nat)
      /\ tick \in Nat /\ last \in Nat /\ hand \in Nat
  BY DEF IInv, TypeOK
<1>a. SentOn \in Nat /\ last <= SentOn /\ Taken \in Nat /\ Taken <= tick
  <2>1. SentOn \in Nat /\ last <= SentOn
    BY <1>0, NewestBounds DEF Ordered, SentOn
  <2>2. Taken \in Nat
    BY <1>0, <2>1 DEF Taken
  <2> QED BY <1>0, <2>1, <2>2 DEF Ordered
<1>1. CASE Dispatch
  <2>1. /\ tick' = tick + 1 /\ tick' \in 0 .. MaxTick /\ tick' \in 1 .. MaxTick
        /\ UNCHANGED <<hand, thread, tok, conn, last, net, shown>>
    BY <1>0, <1>1 DEF Dispatch, TypeOK
  <2>2. Between(tok, last, tick')
    BY <1>0, <2>1, BetweenWeaken DEF Ordered
  <2>3. Between(std, Taken, tick')
    BY <1>0, <1>a, <2>1, BetweenWeaken DEF Ordered
  <2>4. SentOn' = SentOn /\ Taken' = Taken
    BY <2>1 DEF SentOn, Taken
  <2>5. CASE UNCHANGED std
    <3>1. TypeOK'
      BY <1>0, <1>1, <2>1, <2>5 DEF Dispatch, TypeOK
    <3>2. Ordered'
      BY <1>0, <1>a, <2>1, <2>2, <2>3, <2>4, <2>5 DEF Ordered
    <3> QED BY <1>0, <2>1, <2>5, <3>1, <3>2 DEF IInv, Emptied
  <2>6. CASE /\ std' = Append(std, tick') /\ Len(std) < Capacity
             /\ thread # "done" /\ UNCHANGED sender
    <3>1. std' \in Seq(1 .. MaxTick) /\ Len(std') <= Capacity
      BY <1>0, <2>1, <2>6 DEF TypeOK
    <3>2. TypeOK'
      BY <1>0, <2>1, <2>6, <3>1 DEF TypeOK
    <3>3. Newest(std, Taken) <= tick
      BY <1>0, <1>a, NewestBounds DEF Ordered
    <3>4. Between(std', Taken, tick')
      BY <1>0, <1>a, <2>1, <2>6, <3>3, BetweenAppend DEF Ordered
    <3>5. Ordered'
      BY <1>0, <1>a, <2>1, <2>2, <2>4, <3>4 DEF Ordered
    <3> QED BY <2>1, <2>6, <3>2, <3>5 DEF IInv, Emptied
  <2> QED BY <1>1, <2>5, <2>6 DEF Dispatch, Queued
<1>2. CASE ZoneEnds
  <2>1. TypeOK'
    BY <1>0, <1>2 DEF ZoneEnds, pipeVars, TypeOK
  <2>2. Ordered' /\ Emptied'
    BY <1>0, <1>2 DEF ZoneEnds, pipeVars, Ordered, SentOn, Taken, Emptied
  <2> QED BY <2>1, <2>2 DEF IInv
<1>3. CASE ThreadRecv
  <2>1. /\ Taken = SentOn /\ std # <<>> /\ hand' = Head(std) /\ std' = Tail(std)
        /\ thread' = "running"
        /\ UNCHANGED <<tick, sender, tok, conn, last, net, shown>>
    BY <1>3 DEF ThreadRecv, Taken
  <2>2. /\ Taken < Head(std) /\ Head(std) <= tick
        /\ Between(Tail(std), Head(std), tick)
    BY <1>0, <1>a, <2>1, BetweenTail DEF Ordered
  <2>3. Head(std) \in 1 .. MaxTick /\ Tail(std) \in Seq(1 .. MaxTick)
        /\ Len(Tail(std)) <= Capacity
    BY <1>0, <2>1 DEF TypeOK
  <2>4. TypeOK'
    BY <1>0, <1>3, <2>1, <2>3 DEF TypeOK
  <2>5. SentOn' = SentOn /\ Taken' = Head(std)
    BY <2>1, <2>3 DEF SentOn, Taken, None
  <2>6. Ordered'
    BY <1>0, <2>1, <2>2, <2>5 DEF Ordered
  <2> QED BY <2>1, <2>4, <2>6 DEF IInv, Emptied
<1>4. CASE ThreadSend
  <2>1. /\ hand # None /\ hand' = None /\ Taken = hand /\ SentOn < hand
        /\ UNCHANGED <<tick, sender, conn, last, net, shown>>
    BY <1>0, <1>4 DEF ThreadSend, Taken, Ordered
  <2>2. CASE /\ Len(tok) < Capacity /\ tok' = Append(tok, hand)
             /\ UNCHANGED <<std, thread>>
    <3>1. tok' \in Seq(1 .. MaxTick) /\ Len(tok') <= Capacity
      <4>1. hand \in 1 .. MaxTick
        BY <1>0, <2>1 DEF TypeOK, None
      <4> QED BY <1>0, <2>2, <4>1 DEF TypeOK
    <3>2. TypeOK'
      BY <1>0, <2>1, <2>2, <3>1 DEF TypeOK, None
    <3>3. Between(tok, last, SentOn)
      <4>1. \A j \in 1 .. Len(tok) : tok[j] <= SentOn
        <5> SUFFICES ASSUME NEW j \in 1 .. Len(tok)
                     PROVE  tok[j] <= SentOn
          OBVIOUS
        <5>1. Len(tok) \in 1 .. Len(tok) /\ tok # <<>> /\ tok[j] \in Nat
          BY <1>0
        <5>2. j = Len(tok) \/ j \in 1 .. Len(tok) - 1
          BY <1>0
        <5>3. SentOn = tok[Len(tok)]
          BY <5>1 DEF SentOn, Newest
        <5>4. \A k \in 1 .. Len(tok) - 1 : tok[k] < tok[Len(tok)]
          BY <1>0, <5>1 DEF Ordered, Between
        <5> QED BY <1>a, <5>1, <5>2, <5>3, <5>4
      <4> QED BY <1>0, <4>1 DEF Ordered, Between
    <3>4. Between(tok', last, hand) /\ Newest(tok', last) = hand
      BY <1>0, <1>a, <2>1, <2>2, <3>3, BetweenAppend DEF SentOn
    <3>5. SentOn' = Taken /\ Taken' = Taken
      BY <2>1, <3>4 DEF SentOn, Taken
    <3>6. Between(tok', last, tick)
      <4>1. tok' \in Seq(Nat)
        BY <1>0, <2>2
      <4> QED BY <1>0, <1>a, <2>1, <3>4, <4>1, BetweenWeaken
    <3>7. Ordered'
      BY <1>0, <2>1, <2>2, <3>5, <3>6 DEF Ordered
    <3> QED BY <1>0, <2>1, <2>2, <3>2, <3>7 DEF IInv, Emptied
  <2>3. CASE thread' = "done" /\ std' = <<>> /\ UNCHANGED tok
    <3>1. TypeOK'
      <4>1. std' \in Seq(1 .. MaxTick) /\ Len(std') <= Capacity
        BY <2>3
      <4> QED BY <1>0, <2>1, <2>3, <4>1 DEF TypeOK, None
    <3>2. SentOn' = SentOn /\ Taken' = SentOn
      BY <2>1, <2>3 DEF SentOn, Taken
    <3>3. Ordered'
      <4>1. Between(std', Taken', tick')
        BY <2>3 DEF Between
      <4>2. SentOn <= tick
        BY <1>0, <1>a, <2>1
      <4> QED BY <1>0, <2>1, <2>3, <3>2, <4>1, <4>2 DEF Ordered
    <3> QED BY <2>1, <2>3, <3>1, <3>3 DEF IInv, Emptied
  <2> QED BY <1>4, <2>2, <2>3 DEF ThreadSend
<1>5. CASE ThreadEnds
  <2>1. TypeOK'
    BY <1>0, <1>5 DEF ThreadEnds, TypeOK
  <2>2. Ordered' /\ Emptied'
    BY <1>0, <1>5 DEF ThreadEnds, Disconnected, Ordered, SentOn, Taken, Emptied
  <2> QED BY <2>1, <2>2 DEF IInv
<1>6. CASE Forward
  <2>1. /\ tok # <<>> /\ tok' = Tail(tok) /\ last' = Head(tok)
        /\ net' = net \cup {Head(tok)}
        /\ UNCHANGED <<tick, sender, std, hand, thread, conn, shown>>
    BY <1>6 DEF Forward, pipeVars
  <2>2. Between(Tail(tok), Head(tok), tick) /\ Newest(Tail(tok), Head(tok)) = SentOn
    BY <1>0, <2>1, BetweenTail DEF Ordered, SentOn
  <2>3. /\ Head(tok) \in 1 .. MaxTick /\ Tail(tok) \in Seq(1 .. MaxTick)
        /\ Len(Tail(tok)) <= Capacity
    BY <1>0, <2>1 DEF TypeOK
  <2>4. TypeOK'
    <3>1. net' \subseteq 1 .. MaxTick /\ last' \in 0 .. MaxTick
      <4>1. net \subseteq 1 .. MaxTick
        BY <1>0 DEF TypeOK
      <4>2. Head(tok) \in 0 .. MaxTick
        BY <2>3
      <4> QED BY <2>1, <2>3, <4>1, <4>2
    <3>2. tok' \in Seq(1 .. MaxTick) /\ Len(tok') <= Capacity
      BY <2>1, <2>3
    <3> QED BY <1>0, <2>1, <3>1, <3>2 DEF TypeOK
  <2>5. SentOn' = SentOn /\ Taken' = Taken
    BY <2>1, <2>2 DEF SentOn, Taken
  <2>6. Ordered' /\ Emptied'
    BY <1>0, <2>1, <2>2, <2>5 DEF Ordered, Emptied
  <2> QED BY <2>4, <2>6 DEF IInv
<1>7. CASE ConnEnds
  <2>1. /\ tok' = <<>> /\ conn' = "ended"
        /\ UNCHANGED <<tick, sender, std, hand, thread, last, net, shown>>
    BY <1>7 DEF ConnEnds, pipeVars
  <2>2. TypeOK'
    <3>1. tok' \in Seq(1 .. MaxTick) /\ Len(tok') <= Capacity
      BY <2>1
    <3> QED BY <1>0, <2>1, <3>1 DEF TypeOK
  <2>3. SentOn' = last /\ Taken' \in Nat /\ Taken' <= Taken
    BY <1>0, <1>a, <2>1 DEF SentOn, Taken, Newest
  <2>4. Between(std, Taken', tick)
    BY <1>0, <1>a, <2>3, BetweenWeaken DEF Ordered
  <2>5. Between(tok', last', tick')
    BY <2>1 DEF Between
  <2>6. Ordered'
    <3>1. hand # None => last < hand
      BY <1>0, <1>a DEF Ordered
    <3>2. Taken' <= tick
      BY <1>0, <1>a, <2>3
    <3> QED BY <2>1, <2>3, <2>4, <2>5, <3>1, <3>2 DEF Ordered
  <2> QED BY <1>0, <2>1, <2>2, <2>6 DEF IInv, Emptied
<1>8. ASSUME NEW t \in net, Lose(t) \/ Arrive(t)
      PROVE  IInv'
  <2>1. /\ UNCHANGED <<tick, sender, std, hand, thread, tok, conn, last>>
        /\ net' \subseteq net /\ shown' \in {shown, t}
    BY <1>8 DEF Lose, Arrive, pipeVars
  <2>2. TypeOK'
    BY <1>0, <2>1 DEF TypeOK
  <2>3. Ordered' /\ Emptied'
    BY <1>0, <2>1 DEF Ordered, SentOn, Taken, Emptied
  <2> QED BY <2>2, <2>3 DEF IInv
<1>9. CASE UNCHANGED vars
  BY <1>0, <1>9 DEF vars, pipeVars, IInv, TypeOK, Ordered, SentOn, Taken, Emptied
<1> QED BY <1>1, <1>2, <1>3, <1>4, <1>5, <1>6, <1>7, <1>8, <1>9 DEF Next

\* The inductive invariant of the bridge holds in every reachable state.
THEOREM BridgeInvariance == Spec => []IInv
BY InvInit, InvStep, PTL DEF Spec

\* Snapshots leave the server in the order of their ticks, and none twice,
\* whatever the capacity of the channels and whatever they drop.
THEOREM SentInOrderCorrect == Spec => SentInOrder
<1>1. IInv /\ [Next]_vars => [Forward => last' > last]_vars
  <2> SUFFICES ASSUME IInv, Forward
               PROVE  last' > last
    OBVIOUS
  <2>2. /\ tok # <<>> /\ last' = Head(tok)
        /\ tok \in Seq(Nat) /\ last \in Nat /\ tick \in Nat
        /\ Between(tok, last, tick)
    BY MaxTickAssumption DEF IInv, TypeOK, Ordered, Forward
  <2>3. last < Head(tok) /\ Head(tok) \in Nat
    BY <2>2, BetweenTail
  <2> QED BY <2>2, <2>3
<1> QED BY <1>1, BridgeInvariance, PTL DEF Spec, SentInOrder

\* The two bounded channels and the thread implement the bridge that Session
\* takes them for: every step is a step of Bridge, or none.
THEOREM BridgeRefinement == Spec => ImplementsBridge
<1>1. Init => Abstract!Init
  BY DEF Init, Abstract!Init, BridgeState, None
<1>2. IInv /\ [Next]_vars => [Abstract!Next]_(Abstract!vars)
  <2> SUFFICES ASSUME IInv, [Next]_vars
               PROVE  [Abstract!Next]_(Abstract!vars)
    OBVIOUS
  <2> USE DEF BridgeState, Abstract!vars
  <2>0. TypeOK /\ Emptied
    BY DEF IInv
  <2>1. CASE Dispatch
    <3>1. CASE thread = "done"
      BY <2>1, <3>1 DEF Dispatch, Abstract!Next, Abstract!LetGo
    <3>2. CASE thread # "done"
      <4>1. Queued(tick') # <<>>
        BY <2>0, <2>1, CapacityAssumption, MaxTickAssumption DEF Queued, TypeOK, Dispatch
      <4> QED BY <2>1, <3>2, <4>1 DEF Dispatch, Abstract!Next, Abstract!Send
    <3> QED BY <3>1, <3>2
  <2>2. CASE ZoneEnds
    BY <2>2 DEF ZoneEnds, pipeVars, Abstract!Next, Abstract!LetGo
  <2>3. CASE ThreadRecv
    <3>1. Head(std) # None
      BY <2>0, <2>3, MaxTickAssumption DEF TypeOK, ThreadRecv, None
    <3> QED BY <2>3, <3>1 DEF ThreadRecv
  <2>4. CASE ThreadSend
    BY <2>0, <2>4 DEF TypeOK, Emptied, ThreadSend, Abstract!Next, Abstract!Forward
  <2>5. CASE ThreadEnds
    BY <2>5 DEF ThreadEnds, Disconnected, Abstract!Next, Abstract!Close
  <2>6. CASE Forward
    BY <2>6 DEF Forward, pipeVars
  <2>7. CASE ConnEnds
    BY <2>7 DEF ConnEnds, pipeVars, Abstract!Next, Abstract!End
  <2>8. ASSUME NEW t \in net, Lose(t) \/ Arrive(t)
        PROVE  UNCHANGED Abstract!vars
    BY <2>8 DEF Lose, Arrive, pipeVars
  <2>9. CASE UNCHANGED vars
    BY <2>9 DEF vars, pipeVars
  <2> QED BY <2>1, <2>2, <2>3, <2>4, <2>5, <2>6, <2>7, <2>8, <2>9 DEF Next
<1> QED BY <1>1, <1>2, BridgeInvariance, PTL DEF Spec, ImplementsBridge, Abstract!Spec
=============================================================================
