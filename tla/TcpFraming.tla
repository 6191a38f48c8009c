----------------------------- MODULE TcpFraming -----------------------------
(***************************************************************************)
(* Length-prefixed frames over TCP: write_tcp_message at the client and    *)
(* read_tcp_message in the connection task, first awaited alone (handshake *)
(* and character selection), then as one branch of tokio::select!, where   *)
(* the snapshot branch may complete first and drop the read half done.     *)
(*                                                                         *)
(* The stream carries the frames 1, 2, ... one after the other: frame k    *)
(* has Prefix bytes of length and Size[k] bytes of header and payload.     *)
(* What a read has taken is always a run of consecutive bytes of the       *)
(* stream, so the bytes themselves are left out: a read is known by where  *)
(* it began and how many bytes it holds.  A length or a message read from  *)
(* anywhere but the right place may turn out to be anything.               *)
(***************************************************************************)
EXTENDS Naturals, Sequences

CONSTANTS
    N,           \* frames the client writes
    Size,        \* frame_len of each frame: header and payload
    Prefix,      \* FRAME_LEN_SIZE
    HeaderSize,  \* HEADER_SIZE
    Lengths      \* what four bytes that are not a length may decode to

ASSUME NAssumption == N \in Nat
ASSUME PrefixAssumption == Prefix \in Nat \ {0}
ASSUME HeaderAssumption == HeaderSize \in Nat \ {0}
ASSUME SizeAssumption ==
    Size \in [1 .. N -> Nat] /\ \A k \in 1 .. N : Size[k] >= HeaderSize
ASSUME LengthsAssumption == Lengths \subseteq Nat

VARIABLES
    sent,      \* frames the client has written
    cut,       \* bytes of the next frame it wrote before it went away
    open,      \* the client's end of the stream
    frame,     \* the frame ...
    offset,    \* ... and the offset in it of the next byte to arrive
    part,      \* what read_exact fills: "prefix" (len_buf) or "frame"
    need,      \* the bytes it fills
    from,      \* frame and offset at which it began
    have,      \* the bytes it has taken so far
    received,  \* the messages handed on, by their frame, or Garbage
    phase,     \* "alone" or "select"; "ended" or "failed" (by a read or decode error)
    torn       \* history: a dropped read held part of a frame

stream == <<sent, cut, open>>
readVars == <<frame, offset, part, need, from, have>>
vars == <<stream, readVars, received, phase, torn>>

Garbage == 0

Init ==
    /\ sent = 0
    /\ cut = 0
    /\ open = TRUE
    /\ frame = 1
    /\ offset = 0
    /\ part = "prefix"
    /\ need = Prefix
    /\ from = <<1, 0>>
    /\ have = 0
    /\ received = <<>>
    /\ phase = "alone"
    /\ torn = FALSE
------------------------------------------------------------------------------
(***************************************************************************)
(* The client.                                                             *)
(***************************************************************************)
Write ==
    /\ open
    /\ sent < N
    /\ sent' = sent + 1
    /\ UNCHANGED <<cut, open, readVars, received, phase, torn>>

\* The client goes away, perhaps in the middle of a write.
Close ==
    /\ open
    /\ open' = FALSE
    /\ cut' \in IF sent < N THEN 0 .. Prefix + Size[sent + 1] - 1 ELSE {0}
    /\ UNCHANGED <<sent, readVars, received, phase, torn>>
------------------------------------------------------------------------------
(***************************************************************************)
(* The connection task.                                                    *)
(***************************************************************************)
Reading == phase \in {"alone", "select"}

Readable == frame <= sent \/ (frame = sent + 1 /\ offset < cut)

\* read_exact takes one more byte.
Read ==
    /\ Reading
    /\ have < need
    /\ Readable
    /\ have' = have + 1
    /\ IF offset + 1 = Prefix + Size[frame]
       THEN frame' = frame + 1 /\ offset' = 0
       ELSE frame' = frame /\ offset' = offset + 1
    /\ UNCHANGED <<stream, part, need, from, received, phase, torn>>

\* Mutant: the count of bytes taken is kept from the read before.
ReadExactKeeping(p, n) ==
    /\ part' = p
    /\ need' = n
    /\ from' = <<frame, offset>>
    /\ have' = have

\* The next read_exact begins at the next byte of the stream.
ReadExact(p, n) ==
    /\ part' = p
    /\ need' = n
    /\ from' = <<frame, offset>>
    /\ have' = 0

\* Mutant: a frame that is all header is taken for one without a header.
TooShortWithoutPayload(n) == n <= HeaderSize

TooShort(n) == n < HeaderSize

\* Mutant: the length is taken to count its own bytes.
BodyLengthLess(n) == IF n > Prefix THEN n - Prefix ELSE n

BodyLength(n) == n

LengthRead ==
    /\ Reading
    /\ part = "prefix"
    /\ have = need
    /\ \E n \in IF from[2] = 0 THEN {Size[from[1]]} ELSE Lengths :
          IF TooShort(n)
          THEN /\ phase' = "failed"
               /\ UNCHANGED <<part, need, from, have>>
          ELSE /\ ReadExact("frame", BodyLength(n))
               /\ UNCHANGED phase
    /\ UNCHANGED <<stream, frame, offset, received, torn>>

\* The bytes read are a whole frame without its length.
Whole == from[2] = Prefix /\ need = Size[from[1]]

\* The message goes to its handler, which may end the connection, or begin the
\* connected phase.  Bytes that are no frame may decode to a message too.
FrameRead ==
    /\ Reading
    /\ part = "frame"
    /\ have = need
    /\ \/ /\ ReadExact("prefix", Prefix)
          /\ received' = Append(received, IF Whole THEN from[1] ELSE Garbage)
          /\ phase' \in {phase, "select", "ended"}
       \/ /\ ~Whole
          /\ phase' = "failed"
          /\ UNCHANGED <<part, need, from, have, received>>
    /\ UNCHANGED <<stream, frame, offset, torn>>

\* Mutant: an end of stream in the middle of a read is waited out.
EndOfStreamBetweenReads == ~open /\ ~Readable /\ have = 0

EndOfStream == ~open /\ ~Readable

\* A read on a closed and drained stream, in the middle of a frame or not.
Eof ==
    /\ Reading
    /\ have < need
    /\ EndOfStream
    /\ phase' = "ended"
    /\ UNCHANGED <<stream, readVars, received, torn>>

\* The snapshot branch of select! completes: the pending read is dropped, with
\* what it had taken, and a new one begins.
Cancel ==
    /\ phase = "select"
    /\ have < need
    /\ ReadExact("prefix", Prefix)
    /\ torn' = (torn \/ part = "frame" \/ have > 0)
    /\ UNCHANGED <<stream, frame, offset, received, phase>>
------------------------------------------------------------------------------
Next == Write \/ Close \/ Read \/ LengthRead \/ FrameRead \/ Eof \/ Cancel

Spec == Init /\ [][Next]_vars

\* The task is polled whenever it can go on; the client owes nothing.
FairSpec ==
    /\ Spec
    /\ WF_vars(Read)
    /\ WF_vars(LengthRead \/ FrameRead)
    /\ WF_vars(Eof)
------------------------------------------------------------------------------
(***************************************************************************)
(* Properties.                                                             *)
(***************************************************************************)
TypeOK ==
    /\ sent \in 0 .. N
    /\ cut \in Nat /\ open \in BOOLEAN
    /\ frame \in 1 .. N + 1 /\ offset \in Nat
    /\ part \in {"prefix", "frame"} /\ need \in Nat /\ have \in 0 .. need
    /\ from \in (1 .. N + 1) \X Nat
    /\ received \in Seq(Nat)
    /\ phase \in {"alone", "select", "ended", "failed"}
    /\ torn \in BOOLEAN

\* "Read one length-prefixed TCP frame and return the decoded header and
\* payload." (gateway/src/lib.rs:211): the messages handed on are the first
\* ones the client has written, in their order.
ReceivedInOrder ==
    /\ Len(received) <= sent
    /\ \A k \in 1 .. Len(received) : received[k] = k

\* Whatever the frames, however TCP cuts them up and wherever the client goes
\* away, framing is lost only by a select! that drops a half-done read.
InOrderUnlessTorn == ~torn => ReceivedInOrder

\* No frame of a client that keeps the protocol is refused as malformed, unless
\* a half-done read was dropped before.
FailedOnlyWhenTorn == phase = "failed" => torn

\* The read is where the messages handed on say it is, within the bytes the
\* client has written: what makes the two properties above inductive.
Aligned ==
    LET k == Len(received) + 1 IN
    IF part = "prefix"
    THEN /\ from = <<k, 0>> /\ need = Prefix
         /\ frame = k /\ offset = have
    ELSE /\ k \in 1 .. N
         /\ from = <<k, Prefix>> /\ need = Size[k]
         /\ IF have < need THEN frame = k /\ offset = Prefix + have
                           ELSE frame = k + 1 /\ offset = 0

Began ==
    /\ part = "prefix" => need = Prefix
    /\ IF have = 0 THEN from = <<frame, offset>> ELSE from[1] \in 1 .. N

Arrived == frame <= sent + 1 /\ (frame = sent + 1 => offset <= cut)

CutInv ==
    /\ open => cut = 0
    /\ sent = N => cut = 0
    /\ sent < N => cut < Prefix + Size[sent + 1]

IInv ==
    /\ TypeOK
    /\ CutInv
    /\ Arrived
    /\ Began
    /\ FailedOnlyWhenTorn
    /\ ~torn => ReceivedInOrder /\ (Reading => Aligned)

\* What the client has written reaches its handler, unless the connection ends
\* or a half-done read was dropped.
WrittenIsReceived ==
    \A k \in 1 .. N : sent >= k ~> Len(received) >= k \/ phase = "ended" \/ torn

\* A client that goes away, in the middle of a frame or not, ends the
\* connection, although no read has a timeout.
GoneClientEnds == ~open ~> ~Reading
=============================================================================
