------------------------------ MODULE Framing -------------------------------
(***************************************************************************)
(* Length-prefixed frames over a TCP stream (transcript.py): sendall hands *)
(* the bytes over in pieces and may be cut short; recv returns any piece   *)
(* of what has arrived; the socket's time limit applies to every recv; the *)
(* stream may end or be reset anywhere.  One direction of one connection.  *)
(***************************************************************************)
EXTENDS Bytes

CONSTANTS
  Payloads,  \* what callers send, sequences of bytes
  HeaderLen, \* bytes of the length, 4 in the code
  MaxFrame,  \* MAX_FRAME
  MaxSends,  \* bound: calls of send_frame
  None

ASSUME FramingAssumption ==
  /\ HeaderLen \in Nat \ {0} /\ MaxSends \in Nat /\ MaxFrame \in Nat
  /\ \A p \in Payloads : p \in Seq(Byte) /\ Fits(Len(p), HeaderLen)
  /\ None \notin Payloads

VARIABLES
  sent, sending, received, closed, status, \* as in FrameQueue
  pending, \* bytes of the frame that sendall still has
  wire,    \* bytes handed over and not received
  call,    \* "none", or the _recv_exactly in progress: "header" or "body"
  need,    \* its n
  buf      \* its buffer

sender == <<sent, sending, pending>>
receiver == <<received, status, call, need, buf>>
vars == <<sender, receiver, closed, wire>>

Init ==
  /\ sent = <<>> /\ sending = None /\ pending = <<>>
  /\ received = <<>> /\ status = "open"
  /\ call = "none" /\ need = 0 /\ buf = <<>>
  /\ closed = FALSE /\ wire = <<>>

-----------------------------------------------------------------------------
(* send_frame *)

SendFrame(p) ==
  /\ ~closed /\ sending = None /\ Len(sent) < MaxSends
  /\ sending' = p
  /\ pending' = BigEndian(Len(p), HeaderLen) \o p
  /\ UNCHANGED <<sent, receiver, closed, wire>>

\* sendall hands over a piece; it returns after the last one.
Transmit ==
  /\ ~closed /\ pending # <<>>
  /\ \E k \in 1 .. Len(pending) :
       /\ wire' = wire \o SubSeq(pending, 1, k)
       /\ pending' = SubSeq(pending, k + 1, Len(pending))
       /\ sent' = IF k = Len(pending) THEN Append(sent, sending) ELSE sent
       /\ sending' = IF k = Len(pending) THEN None ELSE sending
  /\ UNCHANGED <<receiver, closed>>

\* The sender closes its socket, between frames or because sendall raised.
CloseSender ==
  /\ ~closed
  /\ closed' = TRUE
  /\ UNCHANGED <<sender, receiver, wire>>

-----------------------------------------------------------------------------
(* recv_frame and its two calls of _recv_exactly *)

RecvFrame ==
  /\ status = "open" /\ call = "none"
  /\ call' = "header" /\ need' = HeaderLen /\ buf' = <<>>
  /\ UNCHANGED <<sender, received, status, closed, wire>>

InRecv == status = "open" /\ call # "none" /\ Len(buf) < need

TakeFromWire(limit) ==
  /\ InRecv /\ wire # <<>>
  /\ \E k \in 1 .. limit :
       /\ buf' = buf \o SubSeq(wire, 1, k)
       /\ wire' = SubSeq(wire, k + 1, Len(wire))
  /\ UNCHANGED <<sender, received, status, call, need, closed>>

\* sock.recv(n - len(buf)) returns what is there, but no more than asked for.
RecvChunkAll == TakeFromWire(Len(wire))
RecvChunk == TakeFromWire(Min({need - Len(buf), Len(wire)}))

HeaderComplete ==
  /\ status = "open" /\ call = "header" /\ Len(buf) = need
  /\ FromBigEndian(buf) <= MaxFrame
  /\ call' = "body" /\ need' = FromBigEndian(buf) /\ buf' = <<>>
  /\ UNCHANGED <<sender, received, status, closed, wire>>

\* ValueError
TooLarge ==
  /\ status = "open" /\ call = "header" /\ Len(buf) = need
  /\ FromBigEndian(buf) > MaxFrame
  /\ status' = "toolarge"
  /\ UNCHANGED <<sender, received, call, need, buf, closed, wire>>

BodyComplete ==
  /\ status = "open" /\ call = "body" /\ Len(buf) = need
  /\ received' = Append(received, buf)
  /\ call' = "none" /\ need' = 0 /\ buf' = <<>>
  /\ UNCHANGED <<sender, status, closed, wire>>

\* recv returns nothing: ConnectionError.
EndOfStreamBreaks ==
  /\ InRecv /\ wire = <<>> /\ closed
  /\ need' = Len(buf)
  /\ UNCHANGED <<sender, received, status, call, buf, closed, wire>>
EndOfStream ==
  /\ InRecv /\ wire = <<>> /\ closed
  /\ status' = "eof"
  /\ UNCHANGED <<sender, received, call, need, buf, closed, wire>>

\* This recv waited for SOCKET_TIMEOUT: TimeoutError.
TimesOut ==
  /\ InRecv /\ wire = <<>>
  /\ status' = "timeout"
  /\ UNCHANGED <<sender, received, call, need, buf, closed, wire>>

\* The sender's kernel resets the connection; unread bytes are lost.
Reset ==
  /\ InRecv /\ closed
  /\ status' = "reset"
  /\ wire' = <<>>
  /\ UNCHANGED <<sender, received, call, need, buf, closed>>

-----------------------------------------------------------------------------
Reads == RecvFrame \/ RecvChunk \/ HeaderComplete \/ TooLarge \/ BodyComplete \/ EndOfStream

Next ==
  \/ \E p \in Payloads : SendFrame(p)
  \/ Transmit \/ CloseSender
  \/ Reads \/ TimesOut \/ Reset

Spec == Init /\ [][Next]_vars

\* The receiver's thread runs, and recv returns when bytes have arrived.
FairSpec == Spec /\ WF_vars(Reads)

-----------------------------------------------------------------------------
(* Properties *)

\* The receiver never holds more bytes than it asked for (_recv_exactly), and
\* only what callers sent is sent.
TypeOK ==
  /\ sent \in Seq(Payloads) /\ sending \in Payloads \cup {None}
  /\ status \in {"open", "eof", "timeout", "reset", "toolarge"}
  /\ call \in {"none", "header", "body"} /\ need \in 0 .. HeaderLen + MaxFrame
  /\ Len(buf) <= need
  /\ closed \in BOOLEAN

\* However the bytes are cut into pieces, the receiver gets the frames whole, in
\* order and once; a stream that ends inside a frame is an error and never a
\* short frame, and one that ends after a whole frame loses none.
Queue == INSTANCE FrameQueue
WholeFrames == Queue!Spec

\* A frame that was sent as a whole is received, unless the receiver hit its
\* time limit, a reset or a frame that is too long: recv_frame never waits for
\* bytes that belong to no frame.
SentIsReceived ==
  \A n \in 1 .. MaxSends :
    Len(sent) >= n ~> Len(received) >= n \/ status \in {"timeout", "reset", "toolarge"}
=============================================================================
