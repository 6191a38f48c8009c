------------------------------- MODULE Codec -------------------------------
(***************************************************************************)
(* The wire protocol: message types, the 11-byte header, and the encoding  *)
(* and decoding of messages on both sides (protocol), and the frame        *)
(* write_tcp_message makes of them and read_tcp_message takes apart        *)
(* (gateway).  MessagePack is a library: Pack stands for rmp_serde, which  *)
(* tells the structs of one type apart.                                    *)
(***************************************************************************)
EXTENDS Naturals, Sequences

CONSTANTS
    Bodies,  \* contents of the structs of messages, None for those without
    None,
    Pack     \* Pack[k][b]: the bytes of body b as the struct of kind k

Byte == 0 .. 255
U16 == 0 .. 65535
U32 == {n \in Nat : n \div 65536 \in U16}
------------------------------------------------------------------------------
(* msg_type.                                                               *)

ClientType(k) ==
    CASE k = "Handshake" -> 1
      [] k = "Ping" -> 2
      [] k = "MoveInput" -> 3
      [] k = "Disconnect" -> 4
      [] k = "CharacterListRequest" -> 512
      [] k = "CreateCharacter" -> 513
      [] k = "DeleteCharacter" -> 514
      [] k = "SelectCharacter" -> 515

ServerType(k) ==
    CASE k = "HandshakeAccepted" -> 257
      [] k = "HandshakeRejected" -> 258
      [] k = "Pong" -> 259
      [] k = "WorldSnapshot" -> 260
      [] k = "ZoneTransfer" -> 261
      [] k = "CharacterList" -> 528
      [] k = "CharacterCreated" -> 529
      [] k = "CharacterDeleted" -> 530
      [] k = "CharacterCreateFailed" -> 531

Bare == {"Disconnect", "CharacterListRequest"}   \* an empty payload
ClientKinds == Bare \cup {"Handshake", "Ping", "MoveInput", "CreateCharacter",
                          "DeleteCharacter", "SelectCharacter"}
ServerKinds == {"HandshakeAccepted", "HandshakeRejected", "Pong", "WorldSnapshot",
                "ZoneTransfer", "CharacterList", "CharacterCreated",
                "CharacterDeleted", "CharacterCreateFailed"}

Message(kinds) == [kind : kinds \ Bare, body : Bodies] \cup
                  [kind : kinds \cap Bare, body : {None}]

ASSUME PackAssumption ==
    \A k \in (ClientKinds \cup ServerKinds) \ Bare :
        \A b \in Bodies :
            /\ Pack[k][b] \in Seq(Byte) /\ Len(Pack[k][b]) + 11 \in U32
            /\ \A c \in Bodies : Pack[k][b] = Pack[k][c] => b = c
------------------------------------------------------------------------------
(* PacketHeader.                                                           *)

HeaderBytes == 11   \* HEADER_SIZE
Headers == [version : Byte, msg_type : U16, sequence : U32, payload_len : U32]

Low(n) == n % 256
Second(n) == (n \div 256) % 256
Third(n) == (n \div 65536) % 256
Fourth(n) == (n \div 16777216) % 256

FromLe16(a, b) == a + 256 * b
FromLe32(a, b, c, d) == a + 256 * b + 65536 * c + 16777216 * d

Encode(h) ==
    <<h.version, Low(h.msg_type), Second(h.msg_type),
      Low(h.sequence), Second(h.sequence), Third(h.sequence), Fourth(h.sequence),
      Low(h.payload_len), Second(h.payload_len), Third(h.payload_len), Fourth(h.payload_len)>>

Decode(b) ==
    [version |-> b[1], msg_type |-> FromLe16(b[2], b[3]),
     sequence |-> FromLe32(b[4], b[5], b[6], b[7]),
     payload_len |-> FromLe32(b[8], b[9], b[10], b[11])]
------------------------------------------------------------------------------
(* Messages.                                                               *)

CurrentVersion == 1
Payload(m) == IF m.kind \in Bare THEN <<>> ELSE Pack[m.kind][m.body]

(* encode_client and encode_server, which differ in the types only *)
EncodeAs(type, m, seq) ==
    [header |-> [version |-> CurrentVersion, msg_type |-> type,
                 sequence |-> seq, payload_len |-> Len(Payload(m))],
     payload |-> Payload(m)]
EncodeClient(m, seq) == EncodeAs(ClientType(m.kind), m, seq)
EncodeServer(m, seq) == EncodeAs(ServerType(m.kind), m, seq)

(* The messages that decode_client, or decode_server, may return for a     *)
(* header and payload: none for a type that is unknown or a payload that   *)
(* is no struct of it.  A message without a struct ignores its payload,    *)
(* and nothing looks at the version, the sequence or the payload_len.      *)
DecodeClient(header, payload) ==
    {m \in Message(ClientKinds) : /\ ClientType(m.kind) = header.msg_type
                                  /\ m.kind \in Bare \/ Pack[m.kind][m.body] = payload}
DecodeServer(header, payload) ==
    {m \in Message(ServerKinds) : /\ ServerType(m.kind) = header.msg_type
                                  /\ Pack[m.kind][m.body] = payload}
------------------------------------------------------------------------------
(* A frame's bytes after its length, and the length itself.                *)

WriteFrame(p) == Encode(p.header) \o p.payload
FrameLength(p) == HeaderBytes + Len(p.payload)

ReadFrame(frame) ==
    [header |-> Decode(SubSeq(frame, 1, HeaderBytes)),
     payload |-> SubSeq(frame, HeaderBytes + 1, Len(frame))]
=============================================================================
