---------------------------- MODULE MCTcpFraming ----------------------------
(***************************************************************************)
(* TcpFraming for TLC, with frames as Codec makes them: three messages of  *)
(* different sizes, one of them all header.                                *)
(***************************************************************************)
EXTENDS TcpFraming, Codec

Bytes(n, v) == [i \in 1 .. n |-> v]
MCPack == [k \in ClientKinds \cup ServerKinds |-> [b \in Bodies |-> Bytes(b, 7)]]

Sent == <<EncodeClient([kind |-> "Handshake", body |-> 1], 0),
          EncodeClient([kind |-> "CharacterListRequest", body |-> None], 1),
          EncodeClient([kind |-> "SelectCharacter", body |-> 2], 2)>>
MCSize == [i \in 1 .. 3 |-> FrameLength(Sent[i])]
=============================================================================
