----------------------------- MODULE WireProofs -----------------------------
(***************************************************************************)
(* The bytes on a connection.  What one side of the wire protocol encodes, *)
(* the other decodes, and only the other: for every header, message,       *)
(* sequence number and contents.  Frames arrive whole and in order as long *)
(* as no read was torn: for every number and size of frames, every length  *)
(* of the prefix and of the header.                                        *)
(***************************************************************************)
EXTENDS TcpFraming, Codec, Integers, SequenceTheorems, TLAPS

(* A byte is what a division by 256 leaves.                                *)
LEMMA LowByte ==
    ASSUME NEW n \in Nat
    PROVE  /\ n % 256 \in Byte
           /\ n \div 256 \in Nat
           /\ n = (256 * (n \div 256)) + (n % 256)
  <1>1. n % 256 \in 0 .. 255
    OBVIOUS
  <1>2. n \div 256 \in Nat
    OBVIOUS
  <1>3. n = (256 * (n \div 256)) + (n % 256)
    OBVIOUS
  <1> QED
    BY <1>1, <1>2, <1>3 DEF Byte

(* The little-endian bytes of a 16-bit number give it back. *)
LEMMA Le16 ==
    ASSUME NEW n \in U16
    PROVE  /\ Low(n) \in Byte /\ Second(n) \in Byte
           /\ FromLe16(Low(n), Second(n)) = n
  <1>1. n \in Nat /\ n <= 65535
    BY DEF U16
  <1> DEFINE k == n \div 256
             r == n % 256
  <1>2. k \in Nat /\ r \in Byte /\ n = (256 * k) + r
    BY <1>1, LowByte
  <1>3. Low(n) = r /\ Second(n) = k % 256
    BY DEF Low, Second
  <1> HIDE DEF k, r
  <1>4. k <= 255
    BY <1>1, <1>2 DEF Byte
  <1>5. k % 256 = k
    BY <1>2, <1>4
  <1> QED
    BY <1>2, <1>3, <1>4, <1>5 DEF Byte, FromLe16

(* from_le_bytes, byte by byte. *)
LEMMA Horner ==
    ASSUME NEW a \in Int, NEW b \in Int, NEW c \in Int, NEW d \in Int
    PROVE  FromLe32(a, b, c, d) = (256 * ((256 * (c + 256 * d)) + b)) + a
  BY DEF FromLe32

(* So do those of a 32-bit number. *)
LEMMA Le32 ==
    ASSUME NEW n \in U32
    PROVE  /\ Low(n) \in Byte /\ Second(n) \in Byte /\ Third(n) \in Byte /\ Fourth(n) \in Byte
           /\ FromLe32(Low(n), Second(n), Third(n), Fourth(n)) = n
  <1> DEFINE k == n \div 65536
             j == n \div 256
  <1>1. n \in Nat /\ k \in U16
    BY DEF U32
  <1>2. j \in Nat /\ n % 256 \in Byte /\ n = (256 * j) + (n % 256)
    BY <1>1, LowByte
  <1>3. j % 256 \in Byte /\ j \div 256 \in Nat /\ j = (256 * (j \div 256)) + (j % 256)
    BY <1>2, LowByte
  <1>4. j \div 256 = k
    BY <1>1
  <1>5. /\ Low(k) \in Byte /\ Second(k) \in Byte
        /\ FromLe16(Low(k), Second(k)) = k
    BY <1>1, Le16
  <1>6. k \in Nat
    <2> HIDE DEF k
    <2> QED BY <1>1 DEF U16
  <1>7. k \div 256 = n \div 16777216
    BY <1>1
  <1>8. /\ Low(n) = n % 256 /\ Second(n) = j % 256
        /\ Third(n) = Low(k) /\ Fourth(n) = Second(k)
    BY <1>7 DEF Low, Second, Third, Fourth
  <1> HIDE DEF k, j
  <1>9. k = Low(k) + 256 * Second(k)
    BY <1>5 DEF FromLe16
  <1>10. Low(n) \in Byte /\ Second(n) \in Byte /\ Third(n) \in Byte /\ Fourth(n) \in Byte
    BY <1>2, <1>3, <1>5, <1>8
  <1>11. n = (256 * ((256 * (Third(n) + 256 * Fourth(n))) + Second(n))) + Low(n)
    BY <1>2, <1>3, <1>4, <1>8, <1>9
  <1>12. Low(n) \in Int /\ Second(n) \in Int /\ Third(n) \in Int /\ Fourth(n) \in Int
    BY <1>10 DEF Byte
  <1>13. FromLe32(Low(n), Second(n), Third(n), Fourth(n))
            = (256 * ((256 * (Third(n) + 256 * Fourth(n))) + Second(n))) + Low(n)
    <2> DEFINE a == Low(n)
               b == Second(n)
               c == Third(n)
               d == Fourth(n)
    <2>1. a \in Int /\ b \in Int /\ c \in Int /\ d \in Int
      BY <1>12
    <2> HIDE DEF a, b, c, d
    <2>2. FromLe32(a, b, c, d) = (256 * ((256 * (c + 256 * d)) + b)) + a
      BY <2>1, Horner
    <2> QED
      BY <2>2 DEF a, b, c, d
  <1> QED
    BY <1>10, <1>11, <1>13

(* PacketHeader::decode gives back the header PacketHeader::encode was     *)
(* given, from eleven bytes.                                               *)
THEOREM HeaderRoundTrip ==
    ASSUME NEW h \in Headers
    PROVE  /\ Encode(h) \in Seq(Byte) /\ Len(Encode(h)) = HeaderBytes
           /\ Decode(Encode(h)) = h
  <1>1. /\ h.version \in Byte /\ h.msg_type \in U16
        /\ h.sequence \in U32 /\ h.payload_len \in U32
    BY DEF Headers
  <1>2. /\ Low(h.msg_type) \in Byte /\ Second(h.msg_type) \in Byte
        /\ FromLe16(Low(h.msg_type), Second(h.msg_type)) = h.msg_type
    BY <1>1, Le16
  <1>3. \A n \in {h.sequence, h.payload_len} :
            /\ Low(n) \in Byte /\ Second(n) \in Byte
            /\ Third(n) \in Byte /\ Fourth(n) \in Byte
            /\ FromLe32(Low(n), Second(n), Third(n), Fourth(n)) = n
    BY <1>1, Le32
  <1>4. Encode(h) \in Seq(Byte) /\ Len(Encode(h)) = HeaderBytes
    BY <1>1, <1>2, <1>3 DEF Encode, HeaderBytes
  <1>5. Decode(Encode(h)) = [version |-> h.version, msg_type |-> h.msg_type,
                             sequence |-> h.sequence, payload_len |-> h.payload_len]
    BY <1>2, <1>3 DEF Encode, Decode
  <1> QED
    BY <1>4, <1>5 DEF Headers

(* A frame's two parts are found where read_tcp_message cuts it.           *)
LEMMA Cut ==
    ASSUME NEW e \in Seq(Byte), NEW t \in Seq(Byte)
    PROVE  /\ Len(e \o t) = Len(e) + Len(t)
           /\ SubSeq(e \o t, 1, Len(e)) = e
           /\ SubSeq(e \o t, Len(e) + 1, Len(e \o t)) = t
  <1>1. /\ e \o t \in Seq(Byte) /\ Len(e \o t) = Len(e) + Len(t)
        /\ Len(e) \in Nat /\ Len(t) \in Nat
    OBVIOUS
  <1>2. SubSeq(e \o t, 1, Len(e)) = e
    BY <1>1
  <1>3. SubSeq(e \o t, Len(e) + 1, Len(e) + Len(t)) = t
    BY <1>1
  <1> QED
    BY <1>1, <1>2, <1>3

(* read_tcp_message takes a frame of write_tcp_message apart into the      *)
(* header and the payload it was made of.                                  *)
THEOREM FrameRoundTrip ==
    ASSUME NEW p \in [header : Headers, payload : Seq(Byte)]
    PROVE  /\ ReadFrame(WriteFrame(p)) = p
           /\ Len(WriteFrame(p)) = FrameLength(p)
  <1>1. p = [header |-> p.header, payload |-> p.payload] /\ p.header \in Headers /\ p.payload \in Seq(Byte)
    OBVIOUS
  <1>2. /\ Encode(p.header) \in Seq(Byte) /\ Len(Encode(p.header)) = HeaderBytes
        /\ Decode(Encode(p.header)) = p.header
    BY <1>1, HeaderRoundTrip
  <1>3. /\ Len(WriteFrame(p)) = HeaderBytes + Len(p.payload)
        /\ SubSeq(WriteFrame(p), 1, HeaderBytes) = Encode(p.header)
        /\ SubSeq(WriteFrame(p), HeaderBytes + 1, Len(WriteFrame(p))) = p.payload
    BY <1>1, <1>2, Cut DEF WriteFrame
  <1> QED
    BY <1>1, <1>2, <1>3 DEF ReadFrame, FrameLength

(* No kind of message shares its type with another, of either side.        *)
LEMMA TypesApart ==
    /\ \A k, l \in ClientKinds : ClientType(k) = ClientType(l) => k = l
    /\ \A k, l \in ServerKinds : ServerType(k) = ServerType(l) => k = l
    /\ \A k \in ClientKinds, l \in ServerKinds : ClientType(k) # ServerType(l)
  <1>1. \A k \in ClientKinds :
            \/ k = "Handshake" /\ ClientType(k) = 1
            \/ k = "Ping" /\ ClientType(k) = 2
            \/ k = "MoveInput" /\ ClientType(k) = 3
            \/ k = "Disconnect" /\ ClientType(k) = 4
            \/ k = "CharacterListRequest" /\ ClientType(k) = 512
            \/ k = "CreateCharacter" /\ ClientType(k) = 513
            \/ k = "DeleteCharacter" /\ ClientType(k) = 514
            \/ k = "SelectCharacter" /\ ClientType(k) = 515
    BY DEF ClientKinds, Bare, ClientType
  <1>2. \A k \in ServerKinds :
            \/ k = "HandshakeAccepted" /\ ServerType(k) = 257
            \/ k = "HandshakeRejected" /\ ServerType(k) = 258
            \/ k = "Pong" /\ ServerType(k) = 259
            \/ k = "WorldSnapshot" /\ ServerType(k) = 260
            \/ k = "ZoneTransfer" /\ ServerType(k) = 261
            \/ k = "CharacterList" /\ ServerType(k) = 528
            \/ k = "CharacterCreated" /\ ServerType(k) = 529
            \/ k = "CharacterDeleted" /\ ServerType(k) = 530
            \/ k = "CharacterCreateFailed" /\ ServerType(k) = 531
    BY DEF ServerKinds, ServerType
  <1>3. \A k, l \in ClientKinds : ClientType(k) = ClientType(l) => k = l
    BY <1>1
  <1>4. \A k, l \in ServerKinds : ServerType(k) = ServerType(l) => k = l
    BY <1>2
  <1>5. \A k \in ClientKinds, l \in ServerKinds : ClientType(k) # ServerType(l)
    BY <1>1, <1>2
  <1> QED
    BY <1>3, <1>4, <1>5

(* A client's message, as a frame, is read back by the server as itself    *)
(* and nothing else.                                                       *)
THEOREM ClientRoundTrip ==
    ASSUME NEW m \in Message(ClientKinds), NEW seq \in U32
    PROVE  LET q == EncodeClient(m, seq)
           IN  DecodeClient(q.header, q.payload) = {m}
  <1> DEFINE q == EncodeClient(m, seq)
  <1>1. /\ q.header.msg_type = ClientType(m.kind)
        /\ q.payload = Payload(m)
    BY DEF EncodeClient, EncodeAs
  <1>2. /\ m.kind \in ClientKinds
        /\ m.kind \notin Bare => m = [kind |-> m.kind, body |-> m.body] /\ m.body \in Bodies
        /\ m.kind \in Bare => m = [kind |-> m.kind, body |-> None]
    BY DEF Message, ClientKinds
  <1>3. m \in DecodeClient(q.header, q.payload)
    BY <1>1 DEF DecodeClient, Payload
  <1>4. ASSUME NEW n \in DecodeClient(q.header, q.payload)
        PROVE  n = m
    <2>1. /\ n \in Message(ClientKinds)
          /\ ClientType(n.kind) = ClientType(m.kind)
          /\ n.kind \in Bare \/ Pack[n.kind][n.body] = Payload(m)
      BY <1>1, <1>4 DEF DecodeClient
    <2>2. /\ n.kind \in ClientKinds
          /\ n.kind \notin Bare => n = [kind |-> n.kind, body |-> n.body] /\ n.body \in Bodies
          /\ n.kind \in Bare => n = [kind |-> n.kind, body |-> None]
      BY <2>1 DEF Message, ClientKinds
    <2>3. n.kind = m.kind
      BY <1>2, <2>1, <2>2, TypesApart
    <2>4. CASE m.kind \in Bare
      BY <1>2, <2>2, <2>3, <2>4
    <2>5. CASE m.kind \notin Bare
      <3>1. Pack[m.kind][n.body] = Pack[m.kind][m.body]
        BY <2>1, <2>3, <2>5 DEF Payload
      <3>2. n.body = m.body
        BY <3>1, <1>2, <2>2, <2>3, <2>5, PackAssumption
      <3> QED
        BY <3>2, <1>2, <2>2, <2>3, <2>5
    <2> QED
      BY <2>4, <2>5
  <1> QED
    BY <1>3, <1>4

(* So does a client with a message of the server.                          *)
THEOREM ServerRoundTrip ==
    ASSUME NEW m \in Message(ServerKinds), NEW seq \in U32
    PROVE  LET q == EncodeServer(m, seq)
           IN  DecodeServer(q.header, q.payload) = {m}
  <1> DEFINE q == EncodeServer(m, seq)
  <1>1. /\ q.header.msg_type = ServerType(m.kind)
        /\ q.payload = Payload(m)
    BY DEF EncodeServer, EncodeAs
  <1>2. /\ m.kind \in ServerKinds /\ m.kind \notin Bare
        /\ m = [kind |-> m.kind, body |-> m.body] /\ m.body \in Bodies
    BY DEF Message, ServerKinds, Bare
  <1>3. m \in DecodeServer(q.header, q.payload)
    BY <1>1, <1>2 DEF DecodeServer, Payload
  <1>4. ASSUME NEW n \in DecodeServer(q.header, q.payload)
        PROVE  n = m
    <2>1. /\ n \in Message(ServerKinds)
          /\ ServerType(n.kind) = ServerType(m.kind)
          /\ Pack[n.kind][n.body] = Payload(m)
      BY <1>1, <1>4 DEF DecodeServer
    <2>2. /\ n.kind \in ServerKinds
          /\ n = [kind |-> n.kind, body |-> n.body] /\ n.body \in Bodies
      BY <2>1 DEF Message, ServerKinds, Bare
    <2>3. n.kind = m.kind
      BY <1>2, <2>1, <2>2, TypesApart
    <2>4. n.body = m.body
      BY <1>2, <2>1, <2>2, <2>3, PackAssumption DEF Payload
    <2> QED
      BY <1>2, <2>2, <2>3, <2>4
  <1> QED
    BY <1>3, <1>4

(* A frame of one side is no message of the other: the server closes a     *)
(* connection that echoes it, the client ends.                             *)
THEOREM SidesApart ==
    /\ \A m \in Message(ClientKinds), seq \in U32 :
           LET q == EncodeClient(m, seq) IN DecodeServer(q.header, q.payload) = {}
    /\ \A m \in Message(ServerKinds), seq \in U32 :
           LET q == EncodeServer(m, seq) IN DecodeClient(q.header, q.payload) = {}
  <1>1. \A m \in Message(ClientKinds) : m.kind \in ClientKinds
    BY DEF Message, ClientKinds
  <1>2. \A m \in Message(ServerKinds) : m.kind \in ServerKinds
    BY DEF Message, ServerKinds
  <1> QED
    BY <1>1, <1>2, TypesApart DEF EncodeClient, EncodeServer, EncodeAs, DecodeClient, DecodeServer
------------------------------------------------------------------------------
\* The initial state satisfies the inductive invariant.
LEMMA InvInit == Init => IInv
<1> SUFFICES ASSUME Init
             PROVE  IInv
  OBVIOUS
<1> USE NAssumption, PrefixAssumption
<1>1. TypeOK
  <2>1. <<1, 0>> \in (1 .. N + 1) \X Nat /\ <<>> \in Seq(Nat)
    OBVIOUS
  <2>2. sent \in 0 .. N /\ frame \in 1 .. N + 1 /\ have \in 0 .. need
    BY DEF Init
  <2> QED BY <2>1, <2>2 DEF Init, TypeOK
<1>2. CutInv /\ Arrived /\ Began /\ FailedOnlyWhenTorn
  BY SizeAssumption DEF Init, CutInv, Arrived, Began, FailedOnlyWhenTorn
<1>3. ReceivedInOrder /\ Aligned
  BY DEF Init, ReceivedInOrder, Aligned
<1> QED BY <1>1, <1>2, <1>3 DEF IInv

\* Every step keeps it: the read of the connection task stays aligned with the
\* frames of the stream as long as no half-done read is dropped.
LEMMA InvStep == IInv /\ [Next]_vars => IInv'
<1> SUFFICES ASSUME IInv, [Next]_vars
             PROVE  IInv'
  OBVIOUS
<1> USE NAssumption, PrefixAssumption
<1>0. /\ TypeOK /\ CutInv /\ Arrived /\ Began /\ FailedOnlyWhenTorn
      /\ ~torn => ReceivedInOrder /\ (Reading => Aligned)
  BY DEF IInv
<1>1. CASE Write
  <2>1. TypeOK'
    BY <1>0, <1>1 DEF Write, TypeOK, readVars
  <2>2. CutInv' /\ Arrived' /\ Began' /\ FailedOnlyWhenTorn'
    BY SizeAssumption, <1>0, <1>1 DEF Write, TypeOK, readVars, CutInv, Arrived, Began, FailedOnlyWhenTorn
  <2>3. ReceivedInOrder => ReceivedInOrder'
    BY <1>0, <1>1 DEF Write, TypeOK, ReceivedInOrder
  <2>4. (Reading => Aligned) => (Reading => Aligned)'
    BY <1>1 DEF Write, readVars, Reading, Aligned
  <2> QED BY <1>0, <1>1, <2>1, <2>2, <2>3, <2>4 DEF IInv, Write
<1>2. CASE Close
  <2>1. TypeOK'
    <3>1. sent < N => Size[sent + 1] \in Nat
      BY SizeAssumption, <1>0 DEF TypeOK
    <3>2. cut' \in Nat
      BY <1>0, <1>2, <3>1 DEF Close, TypeOK
    <3> QED BY <1>0, <1>2, <3>2 DEF Close, TypeOK, readVars
  <2>2. CutInv'
    <3>1. CASE sent < N
      <4>1. Size[sent + 1] \in Nat
        BY SizeAssumption, <1>0, <3>1 DEF TypeOK
      <4> QED BY <1>0, <1>2, <3>1, <4>1 DEF Close, TypeOK, CutInv
    <3>2. CASE sent = N
      BY <1>0, <1>2, <3>2 DEF Close, TypeOK, CutInv
    <3> QED BY <1>0, <3>1, <3>2 DEF TypeOK
  <2>3. Arrived'
    <3>1. cut' \in Nat
      BY <2>1 DEF TypeOK
    <3>2. frame = sent + 1 => offset = 0
      BY <1>0, <1>2 DEF Close, TypeOK, CutInv, Arrived
    <3> QED BY <1>0, <1>2, <3>1, <3>2 DEF Close, readVars, Arrived
  <2>4. Began' /\ FailedOnlyWhenTorn'
    BY <1>0, <1>2 DEF Close, readVars, Began, FailedOnlyWhenTorn
  <2>5. ReceivedInOrder => ReceivedInOrder'
    BY <1>2 DEF Close, ReceivedInOrder
  <2>6. (Reading => Aligned) => (Reading => Aligned)'
    BY <1>2 DEF Close, readVars, Reading, Aligned
  <2> QED BY <1>0, <1>2, <2>1, <2>2, <2>3, <2>4, <2>5, <2>6 DEF IInv, Close
<1>3. CASE Read
  <2>1. /\ frame \in 1 .. N
        /\ Size[frame] \in Nat \ {0}
    BY SizeAssumption, HeaderAssumption, <1>0, <1>3 DEF Read, Readable, TypeOK, CutInv
  <2>2. TypeOK'
    BY <1>0, <1>3, <2>1 DEF Read, stream, TypeOK
  <2>3. Arrived'
    <3>1. CASE frame <= sent
      BY <1>0, <1>3, <2>1, <3>1 DEF Read, stream, TypeOK, Arrived, CutInv
    <3>2. CASE frame = sent + 1 /\ offset < cut
      BY <1>0, <1>3, <2>1, <3>2 DEF Read, stream, TypeOK, Arrived, CutInv
    <3> QED BY <1>3, <3>1, <3>2 DEF Read, Readable
  <2>4. Began'
    BY <1>0, <1>3, <2>1 DEF Read, TypeOK, Began
  <2>5. CutInv' /\ FailedOnlyWhenTorn'
    BY <1>0, <1>3 DEF Read, stream, CutInv, FailedOnlyWhenTorn
  <2>6. ~torn' => ReceivedInOrder'
    BY <1>0, <1>3 DEF Read, stream, ReceivedInOrder
  <2>7. ~torn' => Aligned'
    <3> SUFFICES ASSUME ~torn
                 PROVE  Aligned'
      BY <1>3 DEF Read
    <3>1. Aligned
      BY <1>0, <1>3 DEF Read
    <3>2. CASE part = "prefix"
      BY <1>0, <1>3, <2>1, <3>1, <3>2 DEF Read, TypeOK, Aligned
    <3>3. CASE part = "frame"
      <4> DEFINE k == Len(received) + 1
      <4>1. /\ k \in 1 .. N /\ frame = k /\ offset = Prefix + have
            /\ from = <<k, Prefix>> /\ need = Size[k]
        BY <1>3, <3>1, <3>3 DEF Read, Aligned
      <4>2. UNCHANGED <<part, need, from, received>>
        BY <1>3 DEF Read
      <4>3. /\ have' = have + 1
            /\ IF have' = need THEN frame' = k + 1 /\ offset' = 0
                              ELSE frame' = k /\ offset' = Prefix + have'
        <5>1. offset + 1 = Prefix + Size[frame] <=> have + 1 = need
          <6>1. have \in Nat /\ need \in Nat /\ Prefix \in Nat
            BY <1>0 DEF TypeOK
          <6>2. Size[frame] = need /\ offset = Prefix + have
            BY <4>1
          <6> QED BY <6>1, <6>2
        <5>2. offset + 1 = Prefix + (have + 1)
          BY <1>0, <4>1 DEF TypeOK
        <5> QED BY <1>3, <4>1, <5>1, <5>2 DEF Read
      <4>4. have' <= need'
        BY <2>2 DEF TypeOK
      <4>5. have' < need' \/ have' = need'
        BY <2>2, <4>4 DEF TypeOK
      <4> QED BY <3>3, <4>1, <4>2, <4>3, <4>5 DEF Aligned
    <3> QED BY <1>0, <3>2, <3>3 DEF TypeOK
  <2> QED BY <2>2, <2>3, <2>4, <2>5, <2>6, <2>7 DEF IInv
<1>4. CASE LengthRead
  <2>1. from[1] \in 1 .. N
    BY <1>0, <1>4 DEF LengthRead, Began, TypeOK
  <2>2. PICK n \in IF from[2] = 0 THEN {Size[from[1]]} ELSE Lengths :
          IF TooShort(n)
          THEN /\ phase' = "failed"
               /\ UNCHANGED <<part, need, from, have>>
          ELSE /\ ReadExact("frame", BodyLength(n))
               /\ UNCHANGED phase
    BY <1>4 DEF LengthRead
  <2>3. n \in Nat
    BY SizeAssumption, LengthsAssumption, <2>1, <2>2
  <2>4. ~torn => n = Size[from[1]] /\ ~TooShort(n) /\ Aligned
    BY SizeAssumption, HeaderAssumption, <1>0, <1>4, <2>1, <2>2 DEF LengthRead, Aligned, TooShort
  <2>5. TypeOK'
    BY <1>0, <1>4, <2>2, <2>3 DEF LengthRead, ReadExact, BodyLength, stream, TypeOK
  <2>6. Arrived' /\ CutInv'
    BY <1>0, <1>4 DEF LengthRead, stream, Arrived, CutInv
  <2>7. Began'
    BY <1>0, <1>4, <2>2 DEF LengthRead, ReadExact, Began
  <2>8. FailedOnlyWhenTorn'
    BY <1>0, <1>4, <2>2, <2>4 DEF LengthRead, FailedOnlyWhenTorn
  <2>9. ~torn' => ReceivedInOrder'
    BY <1>0, <1>4 DEF LengthRead, stream, ReceivedInOrder
  <2>10. ~torn' => Aligned'
    <3> SUFFICES ASSUME ~torn
                 PROVE  Aligned'
      BY <1>4 DEF LengthRead
    <3>1. ReadExact("frame", n)
      BY <2>2, <2>4 DEF BodyLength
    <3>2. LET k == Len(received) + 1
          IN  from = <<k, 0>> /\ frame = k /\ offset = Prefix
      BY <1>4, <2>4 DEF LengthRead, Aligned
    <3> QED BY SizeAssumption, HeaderAssumption, <1>4, <2>1, <2>4, <3>1, <3>2
            DEF LengthRead, ReadExact, Aligned
  <2> QED BY <2>5, <2>6, <2>7, <2>8, <2>9, <2>10 DEF IInv
<1>5. CASE FrameRead
  <2>1. ~torn => Whole /\ Aligned
    BY <1>0, <1>5 DEF FrameRead, Aligned, Whole, TypeOK
  <2>2. TypeOK'
    <3>1. from[1] \in Nat /\ Garbage \in Nat
      BY <1>0 DEF TypeOK, Garbage
    <3>2. received' \in Seq(Nat)
      <4>1. (IF Whole THEN from[1] ELSE Garbage) \in Nat
        BY <3>1
      <4>2. received \in Seq(Nat)
        BY <1>0 DEF TypeOK
      <4> DEFINE v == IF Whole THEN from[1] ELSE Garbage
      <4>3. received' = received \/ received' = Append(received, v)
        BY <1>5 DEF FrameRead
      <4> HIDE DEF v
      <4> QED BY <4>1, <4>2, <4>3 DEF v
    <3>3. phase' \in {"alone", "select", "ended", "failed"}
      BY <1>5 DEF FrameRead, Reading
    <3>4. ReadExact("prefix", Prefix) \/ UNCHANGED <<part, need, from, have>>
      BY <1>5 DEF FrameRead
    <3>5. /\ part' \in {"prefix", "frame"} /\ need' \in Nat /\ have' \in 0 .. need'
          /\ from' \in (1 .. N + 1) \X Nat
      BY <1>0, <3>4 DEF ReadExact, TypeOK
    <3> QED BY <1>0, <1>5, <3>2, <3>3, <3>5 DEF FrameRead, stream, TypeOK
  <2>3. Arrived' /\ CutInv'
    BY <1>0, <1>5 DEF FrameRead, stream, Arrived, CutInv
  <2>4. Began'
    BY <1>0, <1>5 DEF FrameRead, ReadExact, Began
  <2>5. FailedOnlyWhenTorn'
    BY <1>0, <1>5, <2>1 DEF FrameRead, Reading, FailedOnlyWhenTorn
  <2>6. ~torn' => ReceivedInOrder' /\ Aligned'
    <3> SUFFICES ASSUME ~torn
                 PROVE  ReceivedInOrder' /\ Aligned'
      BY <1>5 DEF FrameRead
    <3> DEFINE k == Len(received) + 1
    <3>1. /\ ReadExact("prefix", Prefix)
          /\ received' = Append(received, from[1])
      BY <1>5, <2>1 DEF FrameRead
    <3>2. /\ from = <<k, Prefix>> /\ frame = k + 1 /\ offset = 0
          /\ k \in 1 .. N
      <4>1. part = "frame" /\ ~(have < need)
        BY <1>0, <1>5 DEF FrameRead, TypeOK
      <4> QED BY <2>1, <4>1 DEF Aligned
    <3>3. received' = Append(received, k) /\ Len(received') = k
      BY <1>0, <3>1, <3>2 DEF TypeOK
    <3>4. k <= sent
      BY <1>0, <3>2 DEF Arrived, TypeOK
    <3>5. ReceivedInOrder'
      <4>1. received \in Seq(Nat) /\ ReceivedInOrder
        BY <1>0 DEF TypeOK
      <4>2. \A j \in 1 .. k : received'[j] = j
        BY <3>3, <4>1 DEF ReceivedInOrder
      <4>3. sent' = sent
        BY <1>5 DEF FrameRead, stream
      <4> QED BY <3>3, <3>4, <4>2, <4>3 DEF ReceivedInOrder
    <3>6. Aligned'
      BY <1>5, <3>1, <3>2, <3>3 DEF FrameRead, ReadExact, Aligned
    <3> QED BY <3>5, <3>6
  <2> QED BY <2>2, <2>3, <2>4, <2>5, <2>6 DEF IInv
<1>6. CASE Eof
  <2>1. TypeOK' /\ CutInv' /\ Arrived' /\ Began' /\ FailedOnlyWhenTorn'
    BY <1>0, <1>6 DEF Eof, TypeOK, CutInv, Arrived, Began, FailedOnlyWhenTorn, stream, readVars
  <2>2. ~torn' => ReceivedInOrder'
    BY <1>0, <1>6 DEF Eof, ReceivedInOrder, stream
  <2>3. ~Reading'
    BY <1>6 DEF Eof, Reading
  <2> QED BY <2>1, <2>2, <2>3 DEF IInv
<1>7. CASE Cancel
  <2>1. TypeOK'
    BY <1>0, <1>7 DEF Cancel, ReadExact, stream, TypeOK
  <2>2. Arrived' /\ CutInv' /\ Began'
    BY <1>0, <1>7 DEF Cancel, ReadExact, stream, Arrived, CutInv, Began
  <2>3. FailedOnlyWhenTorn'
    BY <1>0, <1>7 DEF Cancel, FailedOnlyWhenTorn
  <2>4. ~torn' => ReceivedInOrder' /\ Aligned'
    <3> SUFFICES ASSUME ~torn, part = "prefix", have = 0
                 PROVE  ReceivedInOrder' /\ Aligned'
      <4>1. have = 0 \/ have > 0
        BY <1>0 DEF TypeOK
      <4>2. part = "prefix" \/ part = "frame"
        BY <1>0 DEF TypeOK
      <4> QED BY <1>7, <4>1, <4>2 DEF Cancel
    <3>1. ReceivedInOrder'
      BY <1>0, <1>7 DEF Cancel, stream, ReceivedInOrder
    <3>2. Aligned
      BY <1>0, <1>7 DEF Cancel, Reading
    <3> QED BY <1>7, <3>1, <3>2 DEF Cancel, ReadExact, Aligned
  <2> QED BY <2>1, <2>2, <2>3, <2>4 DEF IInv
<1>8. CASE UNCHANGED vars
  BY <1>0, <1>8 DEF vars, stream, readVars, IInv, TypeOK, CutInv, Arrived, Began,
     FailedOnlyWhenTorn, ReceivedInOrder, Reading, Aligned
<1> QED BY <1>1, <1>2, <1>3, <1>4, <1>5, <1>6, <1>7, <1>8 DEF Next

\* The inductive invariant of the framing holds in every reachable state.
THEOREM FramingInvariance == Spec => []IInv
BY InvInit, InvStep, PTL DEF Spec

\* For every choice of frames, the messages handed on by read_tcp_message are
\* the first ones written, in their order, until a select! drops a half-done
\* read.
THEOREM InOrderUnlessTornCorrect == Spec => []InOrderUnlessTorn
<1>1. IInv => InOrderUnlessTorn
  BY DEF IInv, InOrderUnlessTorn
<1> QED BY <1>1, FramingInvariance, PTL

\* A client that keeps the protocol is never dropped for a malformed frame
\* before that.
THEOREM FailedOnlyWhenTornCorrect == Spec => []FailedOnlyWhenTorn
<1>1. IInv => FailedOnlyWhenTorn
  BY DEF IInv
<1> QED BY <1>1, FramingInvariance, PTL
=============================================================================
