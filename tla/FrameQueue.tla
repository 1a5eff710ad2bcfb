----------------------------- MODULE FrameQueue -----------------------------
(***************************************************************************)
(* What send_frame and recv_frame (transcript.py) promise together: one    *)
(* direction of a connection is a queue of whole frames.  A frame counts   *)
(* as sent when all of it was handed to the connection.  Reading fails at  *)
(* the end of the stream only when every whole frame has been read, and    *)
(* otherwise because of the time limit, a reset or a frame too long.       *)
(***************************************************************************)
EXTENDS Naturals, Sequences

CONSTANTS Payloads, MaxFrame, None

VARIABLES
  sent,     \* whole frames handed over
  sending,  \* frame being handed over, or None
  received, \* frames that recv_frame returned
  closed,   \* the sender is gone
  status    \* "open", or why recv_frame raised

qvars == <<sent, sending, received, closed, status>>

Init ==
  /\ sent = <<>> /\ sending = None
  /\ received = <<>>
  /\ closed = FALSE
  /\ status = "open"

BeginSend(p) ==
  /\ ~closed /\ sending = None
  /\ sending' = p
  /\ UNCHANGED <<sent, received, closed, status>>

FinishSend ==
  /\ ~closed /\ sending # None
  /\ sent' = Append(sent, sending)
  /\ sending' = None
  /\ UNCHANGED <<received, closed, status>>

\* What was not handed over completely is never received.
CloseSender ==
  /\ ~closed
  /\ closed' = TRUE
  /\ UNCHANGED <<sent, sending, received, status>>

NextFrame == IF Len(received) < Len(sent) THEN sent[Len(received) + 1] ELSE sending

Receive ==
  /\ status = "open"
  /\ Len(received) < Len(sent) /\ Len(NextFrame) <= MaxFrame
  /\ received' = Append(received, NextFrame)
  /\ UNCHANGED <<sent, sending, closed, status>>

Fail(reason) ==
  /\ status = "open"
  /\ status' = reason
  /\ UNCHANGED <<sent, sending, received, closed>>

EndOfStream == closed /\ received = sent /\ Fail("eof")
TooLarge == NextFrame # None /\ Len(NextFrame) > MaxFrame /\ Fail("toolarge")
TimesOut == Fail("timeout")
Reset == closed /\ Fail("reset")

Next ==
  \/ \E p \in Payloads : BeginSend(p)
  \/ FinishSend \/ CloseSender
  \/ Receive \/ EndOfStream \/ TooLarge \/ TimesOut \/ Reset

Spec == Init /\ [][Next]_qvars
=============================================================================
