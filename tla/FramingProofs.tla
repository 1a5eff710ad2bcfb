--------------------------- MODULE FramingProofs ----------------------------
(***************************************************************************)
(* Framing implements the queue of whole frames, for every set of payloads, *)
(* every header and every limit.  The invariant accounts for the bytes: as *)
(* long as the receiver has not failed, what it holds of the current frame, *)
(* what is on the wire and what the sender still has are together the      *)
(* encoding of exactly the frames that were begun and are not received.    *)
(***************************************************************************)
EXTENDS Framing, BytesProofs

\* What send_frame writes for a payload, and for several.
Frame(p) == BigEndian(Len(p), HeaderLen) \o p
Stream(frames) == FlattenSeq([i \in 1 .. Len(frames) |-> Frame(frames[i])])

\* The frames whose sending has begun, and those of them not received.
Begun == IF sending = None THEN sent ELSE Append(sent, sending)
Left == SubSeq(Begun, Len(received) + 1, Len(Begun))

\* What the receiver has of the current frame.
Taken == IF call = "body" THEN BigEndian(need, HeaderLen) \o buf ELSE buf

TypeInv ==
  /\ TypeOK
  /\ received \in Seq(Payloads)
  /\ pending \in Seq(Byte) /\ wire \in Seq(Byte) /\ buf \in Seq(Byte)

\* sendall has bytes left exactly while a frame is being sent, and no more
\* than that frame's.
SenderInv ==
  /\ sending = None <=> pending = <<>>
  /\ sending # None => Len(pending) <= Len(Frame(sending))

CallInv ==
  /\ call = "none" => need = 0
  /\ call = "header" => need = HeaderLen
  /\ call = "body" => need <= MaxFrame /\ Fits(need, HeaderLen)

OrderInv == Begun = received \o Left /\ Len(received) <= Len(sent)

BytesInv == status = "open" => (Taken \o wire) \o pending = Stream(Left)

FramingInv == TypeInv /\ SenderInv /\ CallInv /\ OrderInv /\ BytesInv

-----------------------------------------------------------------------------
(* Frames and streams of frames *)

JoinsBytes(s, t, u) ==
  /\ (s \o t) \o u = s \o (t \o u)
  /\ s \o t \in Seq(Byte) /\ t \o u \in Seq(Byte)
  /\ Len(s \o t) = Len(s) + Len(t)

\* Joined bytes are bytes, and it makes no difference in which order they are
\* joined.
LEMMA BytesJoin ==
  ASSUME NEW s \in Seq(Byte), NEW t \in Seq(Byte), NEW u \in Seq(Byte)
  PROVE JoinsBytes(s, t, u)
<1>1. (s \o t) \o u = s \o (t \o u)
  BY ConcatAssociative, Z3T(30)
<1>2. s \o t \in Seq(Byte) /\ t \o u \in Seq(Byte) /\ Len(s \o t) = Len(s) + Len(t)
  BY ConcatProperties
<1> QED BY <1>1, <1>2 DEF JoinsBytes

\* A frame on the wire is a string of bytes: its length and its payload.
LEMMA FrameBytes ==
  ASSUME NEW p \in Payloads
  PROVE /\ p \in Seq(Byte) /\ p # None /\ Len(p) \in Nat /\ Fits(Len(p), HeaderLen)
        /\ BigEndian(Len(p), HeaderLen) \in Seq(Byte) /\ Len(BigEndian(Len(p), HeaderLen)) = HeaderLen
        /\ FromBigEndian(BigEndian(Len(p), HeaderLen)) = Len(p)
        /\ Frame(p) \in Seq(Byte) /\ Len(Frame(p)) = HeaderLen + Len(p)
<1>1. p \in Seq(Byte) /\ Fits(Len(p), HeaderLen) /\ HeaderLen \in Nat /\ p # None
  BY FramingAssumption
<1>2. Len(p) \in Nat
  BY <1>1
<1>3. BigEndian(Len(p), HeaderLen) \in Seq(Byte) /\ Len(BigEndian(Len(p), HeaderLen)) = HeaderLen
  BY <1>1, <1>2, BigEndianBytes
<1>4. FromBigEndian(BigEndian(Len(p), HeaderLen)) = Len(p)
  BY <1>1, <1>2, UnpackPacked
<1>5. Frame(p) \in Seq(Byte) /\ Len(Frame(p)) = HeaderLen + Len(p)
  BY <1>1, <1>3, ConcatProperties DEF Frame
<1> QED BY <1>1, <1>2, <1>3, <1>4, <1>5

\* A stream grows by a frame at its end, and starts with its first frame.
LEMMA StreamEnds ==
  ASSUME NEW frames \in Seq(Payloads), NEW p \in Payloads
  PROVE /\ Stream(<<>>) = <<>>
        /\ Stream(frames) \in Seq(Byte)
        /\ Stream(Append(frames, p)) = Stream(frames) \o Frame(p)
        /\ Stream(<<p>> \o frames) = Frame(p) \o Stream(frames)
<1> DEFINE N == Len(frames)
           coded(fs) == [i \in 1 .. Len(fs) |-> Frame(fs[i])]
<1>1. N \in Nat /\ \A i \in 1 .. N : frames[i] \in Payloads
  OBVIOUS
<1>2. \A q \in Payloads : Frame(q) \in Seq(Byte)
  BY FrameBytes
<1>3. coded(frames) \in Seq(Seq(Byte))
  BY <1>1, <1>2
<1>4. Frame(p) \in Seq(Byte)
  BY <1>2
<1>5. coded(Append(frames, p)) = Append(coded(frames), Frame(p))
  OBVIOUS
<1>6. coded(<<p>> \o frames) = <<Frame(p)>> \o coded(frames)
  OBVIOUS
<1>7. coded(<<>>) = <<>>
  OBVIOUS
<1>8. \A fs : Stream(fs) = FlattenSeq(coded(fs))
  BY DEF Stream
<1> HIDE DEF coded
<1>9. /\ FlattenSeq(<<>>) = <<>>
      /\ FlattenSeq(coded(frames)) \in Seq(Byte)
      /\ FlattenSeq(Append(coded(frames), Frame(p))) = FlattenSeq(coded(frames)) \o Frame(p)
      /\ FlattenSeq(<<Frame(p)>> \o coded(frames)) = Frame(p) \o FlattenSeq(coded(frames))
  BY <1>3, <1>4, FlattenEnds
<1> QED BY <1>5, <1>6, <1>7, <1>8, <1>9

\* Of frames that follow each other on a wire, the first is in front.
LEMMA StreamHead ==
  ASSUME NEW frames \in Seq(Payloads), frames # <<>>
  PROVE /\ Head(frames) \in Payloads /\ Tail(frames) \in Seq(Payloads)
        /\ frames = <<Head(frames)>> \o Tail(frames)
        /\ Stream(Tail(frames)) \in Seq(Byte)
        /\ Stream(frames) = Frame(Head(frames)) \o Stream(Tail(frames))
<1>1. /\ Head(frames) \in Payloads /\ Tail(frames) \in Seq(Payloads)
      /\ frames = <<Head(frames)>> \o Tail(frames)
  BY HeadInFront
<1> DEFINE h == Head(frames)
           t == Tail(frames)
<1> HIDE DEF h, t
<1>2. Stream(t) \in Seq(Byte) /\ Stream(<<h>> \o t) = Frame(h) \o Stream(t)
  BY <1>1, StreamEnds DEF h, t
<1> QED BY <1>1, <1>2 DEF h, t

\* No frames, no bytes.
LEMMA StreamOfNone == Stream(<<>>) = <<>>
<1>1. FlattenSeq(<<>>) = <<>>
  BY DEF FlattenSeq
<1>2. [i \in 1 .. Len(<<>>) |-> Frame(<<>>[i])] = <<>>
  OBVIOUS
<1> QED BY <1>1, <1>2 DEF Stream

\* A whole header read from a stream is the length of its first frame.
LEMMA HeaderRead ==
  ASSUME NEW frames \in Seq(Payloads), NEW h \in Seq(Byte), NEW u \in Seq(Byte),
         Len(h) = HeaderLen, h \o u = Stream(frames)
  PROVE /\ frames # <<>>
        /\ h = BigEndian(Len(Head(frames)), HeaderLen) /\ FromBigEndian(h) = Len(Head(frames))
<1>1. frames # <<>>
  <2>1. h # <<>>
    BY FramingAssumption
  <2>2. h \o u # <<>>
    BY <2>1, ConcatEqualIffEmpty
  <2>3. Stream(<<>>) = <<>>
    BY StreamOfNone
  <2>4. Stream(frames) # <<>>
    BY <2>2
  <2> HIDE DEF Stream
  <2> QED BY <2>3, <2>4
<1> DEFINE p == Head(frames)
           b == BigEndian(Len(p), HeaderLen)
           rest == Stream(Tail(frames))
<1>2. p \in Payloads /\ rest \in Seq(Byte) /\ Stream(frames) = Frame(p) \o rest
  BY <1>1, StreamHead
<1> HIDE DEF p, rest
<1>3. p \in Seq(Byte) /\ b \in Seq(Byte) /\ Len(b) = HeaderLen /\ FromBigEndian(b) = Len(p) /\ Frame(p) = b \o p
  BY <1>2, FrameBytes DEF Frame
<1> HIDE DEF b
<1>4. (b \o p) \o rest = b \o (p \o rest) /\ p \o rest \in Seq(Byte)
  <2>1. b \in Seq(Byte) /\ p \in Seq(Byte) /\ rest \in Seq(Byte)
    BY <1>2, <1>3
  <2>2. JoinsBytes(b, p, rest)
    BY <2>1, BytesJoin
  <2> QED BY <2>2 DEF JoinsBytes
<1>5. h \o u = b \o (p \o rest)
  BY <1>2, <1>3, <1>4
<1>6. h = b
  BY <1>3, <1>4, <1>5, ConcatCancel
<1> QED BY <1>1, <1>3, <1>6 DEF b, p

\* Behind the header, as many bytes as it says are the first frame.
LEMMA BodyRead ==
  ASSUME NEW frames \in Seq(Payloads), NEW n \in Nat, Fits(n, HeaderLen),
         NEW b \in Seq(Byte), NEW u \in Seq(Byte),
         (BigEndian(n, HeaderLen) \o b) \o u = Stream(frames)
  PROVE /\ frames # <<>> /\ n = Len(Head(frames))
        /\ Len(b) = n => b = Head(frames) /\ u = Stream(Tail(frames))
<1> DEFINE h == BigEndian(n, HeaderLen)
<1>1. h \in Seq(Byte) /\ Len(h) = HeaderLen /\ FromBigEndian(h) = n
  BY FramingAssumption, BigEndianBytes, UnpackPacked
<1>2. (h \o b) \o u = Stream(frames)
  OBVIOUS
<1> HIDE DEF h
<1>3. h \o (b \o u) = Stream(frames) /\ b \o u \in Seq(Byte)
  <2>1. (h \o b) \o u = h \o (b \o u) /\ b \o u \in Seq(Byte)
    <3>1. JoinsBytes(h, b, u)
      BY <1>1, BytesJoin
    <3> QED BY <3>1 DEF JoinsBytes
  <2> QED BY <1>2, <2>1
<1> DEFINE p == Head(frames)
           rest == Stream(Tail(frames))
<1>4. frames # <<>> /\ h = BigEndian(Len(p), HeaderLen) /\ n = Len(p)
  BY <1>1, <1>3, HeaderRead
<1>5. p \in Payloads /\ rest \in Seq(Byte) /\ Stream(frames) = Frame(p) \o rest
  BY <1>4, StreamHead
<1> HIDE DEF p, rest
<1>6. p \in Seq(Byte) /\ Frame(p) = h \o p
  BY <1>4, <1>5, FrameBytes DEF Frame
<1>7. ASSUME Len(b) = n PROVE b = p /\ u = rest
  <2>1. /\ h \o b \in Seq(Byte) /\ Len(h \o b) = Len(h) + Len(b)
        /\ h \o p \in Seq(Byte) /\ Len(h \o p) = Len(h) + Len(p)
    BY <1>1, <1>6, ConcatProperties
  <2>2. (h \o b) \o u = (h \o p) \o rest /\ Len(h \o b) = Len(h \o p)
    BY <1>2, <1>4, <1>5, <1>6, <1>7, <2>1
  <2> DEFINE x == h \o b
             y == h \o p
  <2> HIDE DEF x, y
  <2>3. x = y /\ u = rest
    BY <1>5, <2>1, <2>2, ConcatCancel DEF x, y
  <2> QED BY <1>1, <1>6, <2>3, ConcatCancel DEF x, y
<1>8. Len(b) = n => b = p /\ u = rest
  BY <1>7
<1> QED BY <1>4, <1>8 DEF p, rest

\* What is left over is all that was begun behind what was received.
LEMMA LeftOver ==
  ASSUME NEW begun \in Seq(Payloads), NEW had \in Seq(Payloads), NEW left \in Seq(Payloads),
         begun = had \o left
  PROVE SubSeq(begun, Len(had) + 1, Len(begun)) = left
<1>1. Len(begun) = Len(had) + Len(left)
  BY ConcatProperties
<1>2. SubSeq(had \o left, Len(had) + 1, Len(had) + Len(left)) = left
  BY ConcatParts
<1> QED BY <1>1, <1>2

-----------------------------------------------------------------------------
(* The invariant *)

\* Nothing is under way when the connection opens.
LEMMA InitInv == Init => FramingInv
<1> SUFFICES ASSUME Init PROVE FramingInv
  OBVIOUS
<1> USE DEF Init
<1>1. TypeInv
  <2>1. need \in 0 .. HeaderLen + MaxFrame /\ Len(buf) <= need
    BY FramingAssumption
  <2>2. <<>> \in Seq(Payloads) /\ <<>> \in Seq(Byte)
    OBVIOUS
  <2> QED BY <2>1, <2>2 DEF TypeInv, TypeOK
<1>2. SenderInv /\ CallInv
  BY DEF SenderInv, CallInv
<1>3. Begun = <<>> /\ Left = <<>> /\ Taken = <<>>
  <2>1. Begun = <<>>
    BY DEF Begun
  <2> QED BY <2>1 DEF Left, Taken
<1>4. OrderInv
  BY <1>3 DEF OrderInv
<1>5. BytesInv
  <2>1. Stream(<<>>) = <<>>
    BY DEF Stream, FlattenSeq
  <2>2. (<<>> \o <<>>) \o <<>> = <<>>
    OBVIOUS
  <2> QED BY <1>3, <2>1, <2>2 DEF BytesInv
<1> QED BY <1>1, <1>2, <1>4, <1>5 DEF FramingInv

\* What the invariant says of the frames, without the bytes.
LEMMA FramesKnown ==
  ASSUME FramingInv
  PROVE /\ Begun \in Seq(Payloads) /\ received \in Seq(Payloads) /\ Left \in Seq(Payloads)
        /\ sent \in Seq(Payloads) /\ sending \in Payloads \cup {None}
        /\ Begun = received \o Left
        /\ Len(Begun) = Len(received) + Len(Left)
        /\ Len(received) \in Nat /\ Len(sent) \in Nat /\ Len(Left) \in Nat
        /\ sending = None => Begun = sent
        /\ sending # None => Begun = Append(sent, sending) /\ Len(Begun) = Len(sent) + 1
<1>1. sent \in Seq(Payloads) /\ sending \in Payloads \cup {None} /\ received \in Seq(Payloads)
  BY DEF FramingInv, TypeInv, TypeOK
<1>2. Begun \in Seq(Payloads)
  BY <1>1, AppendProperties DEF Begun
<1>3. Begun = received \o Left /\ Len(received) <= Len(sent)
  BY DEF FramingInv, OrderInv
<1>4. sending # None => Begun = Append(sent, sending) /\ Len(Begun) = Len(sent) + 1
  BY <1>1, AppendProperties DEF Begun
<1>5. sending = None => Begun = sent
  BY DEF Begun
<1>6. Len(received) \in Nat /\ Len(sent) \in Nat /\ Len(Begun) \in Nat
  BY <1>1, <1>2
<1>7. Len(received) <= Len(Begun)
  BY <1>3, <1>4, <1>5, <1>6
<1>8. Left \in Seq(Payloads)
  BY <1>1, <1>2, <1>6, <1>7, SplitAt DEF Left
<1>9. Len(Begun) = Len(received) + Len(Left)
  BY <1>1, <1>3, <1>8, ConcatProperties
<1> QED BY <1>1, <1>2, <1>3, <1>4, <1>5, <1>6, <1>8, <1>9

\* The receiver's part of the bytes.
LEMMA BytesKnown ==
  ASSUME FramingInv
  PROVE /\ Taken \in Seq(Byte) /\ wire \in Seq(Byte) /\ pending \in Seq(Byte) /\ buf \in Seq(Byte)
        /\ need \in Nat /\ Len(buf) \in Nat /\ Len(buf) <= need
        /\ BigEndian(need, HeaderLen) \in Seq(Byte) /\ Len(BigEndian(need, HeaderLen)) = HeaderLen
        /\ Len(Taken) = IF call = "body" THEN HeaderLen + Len(buf) ELSE Len(buf)
<1>1. /\ wire \in Seq(Byte) /\ pending \in Seq(Byte) /\ buf \in Seq(Byte)
      /\ need \in Nat /\ Len(buf) \in Nat /\ Len(buf) <= need
  BY FramingAssumption DEF FramingInv, TypeInv, TypeOK
<1>2. BigEndian(need, HeaderLen) \in Seq(Byte) /\ Len(BigEndian(need, HeaderLen)) = HeaderLen
  BY <1>1, FramingAssumption, BigEndianBytes
<1>3. /\ BigEndian(need, HeaderLen) \o buf \in Seq(Byte)
      /\ Len(BigEndian(need, HeaderLen) \o buf) = HeaderLen + Len(buf)
  BY <1>1, <1>2, ConcatProperties
<1> QED BY <1>1, <1>2, <1>3 DEF Taken

\* send_frame puts one frame behind what is pending (transcript.py).
LEMMA SendFrameInv ==
  ASSUME FramingInv, NEW p \in Payloads, SendFrame(p)
  PROVE FramingInv'
<1>1. /\ sending = None /\ sending' = p /\ p # None
      /\ pending' = Frame(p) /\ Frame(p) \in Seq(Byte) /\ Len(Frame(p)) \in Nat \ {0}
  BY FrameBytes, FramingAssumption DEF SendFrame, Frame
<1>2. UNCHANGED <<sent, received, status, call, need, buf, closed, wire>>
  BY DEF SendFrame, receiver
<1>3. TypeInv'
  BY <1>1, <1>2 DEF FramingInv, TypeInv, TypeOK
<1>4. SenderInv'
  <2>1. Frame(p) # <<>>
    BY <1>1
  <2> QED BY <1>1, <2>1 DEF SenderInv, Frame
<1>5. CallInv'
  BY <1>2 DEF FramingInv, CallInv
<1>6. pending = <<>> /\ Begun = sent
  BY <1>1 DEF FramingInv, SenderInv, Begun
<1>7. Begun' = Append(Begun, p)
  BY <1>1, <1>2, <1>6 DEF Begun
<1>8. Begun' = received \o Append(Left, p) /\ Append(Left, p) \in Seq(Payloads) /\ Begun' \in Seq(Payloads)
  <2>1. /\ Begun \in Seq(Payloads) /\ received \in Seq(Payloads) /\ Left \in Seq(Payloads)
        /\ Begun = received \o Left
    BY FramesKnown
  <2>2. Append(received \o Left, p) = received \o Append(Left, p)
    BY <2>1, AppendBehind
  <2> QED BY <1>7, <2>1, <2>2, AppendProperties
<1>9. Left' = Append(Left, p)
  BY <1>2, <1>8, FramesKnown, LeftOver DEF Left
<1>10. OrderInv'
  BY <1>2, <1>8, <1>9 DEF FramingInv, OrderInv
<1>11. BytesInv'
  <2> SUFFICES ASSUME status = "open" PROVE (Taken \o wire) \o Frame(p) = Stream(Append(Left, p))
    BY <1>1, <1>2, <1>9 DEF BytesInv, Taken
  <2>1. (Taken \o wire) \o <<>> = Stream(Left)
    BY <1>6 DEF FramingInv, BytesInv
  <2>2. Taken \o wire \in Seq(Byte)
    BY BytesKnown, ConcatProperties
  <2>3. Taken \o wire = Stream(Left)
    BY <2>1, <2>2, ConcatEmptySeq
  <2>4. Stream(Append(Left, p)) = Stream(Left) \o Frame(p)
    BY FramesKnown, StreamEnds
  <2> QED BY <2>3, <2>4
<1> QED BY <1>3, <1>4, <1>5, <1>10, <1>11 DEF FramingInv

\* The sender's bytes move to the wire; its last ones finish the frame.
LEMMA TransmitKnown ==
  ASSUME FramingInv, Transmit
  PROVE /\ sending # None /\ sending \in Payloads
        /\ \/ sent' = Append(sent, sending) /\ sending' = None
           \/ UNCHANGED <<sent, sending>>
        /\ UNCHANGED <<received, status, call, need, buf, closed>>
        /\ pending' \in Seq(Byte) /\ Len(pending') <= Len(pending)
        /\ sending' = None <=> pending' = <<>>
        /\ wire' \in Seq(Byte) /\ wire' \o pending' = wire \o pending
<1>1. wire \in Seq(Byte) /\ pending \in Seq(Byte) /\ pending # <<>>
  BY BytesKnown DEF Transmit
<1>2. sending # None /\ sending \in Payloads
  BY <1>1, FramesKnown DEF FramingInv, SenderInv
<1>3. PICK k \in 1 .. Len(pending) :
        /\ wire' = wire \o SubSeq(pending, 1, k)
        /\ pending' = SubSeq(pending, k + 1, Len(pending))
        /\ sent' = IF k = Len(pending) THEN Append(sent, sending) ELSE sent
        /\ sending' = IF k = Len(pending) THEN None ELSE sending
  BY DEF Transmit
<1>4. Len(pending) \in Nat /\ k \in 0 .. Len(pending)
  BY <1>1
<1> DEFINE a == SubSeq(pending, 1, k)
           b == SubSeq(pending, k + 1, Len(pending))
<1>5. a \in Seq(Byte) /\ b \in Seq(Byte) /\ Len(b) = Len(pending) - k /\ pending = a \o b
  BY <1>1, <1>4, SplitAt
<1> HIDE DEF a, b
<1>6. wire' = wire \o a /\ pending' = b
  BY <1>3 DEF a, b
<1>7. wire' \in Seq(Byte) /\ wire' \o pending' = wire \o pending
  <2>1. wire \o a \in Seq(Byte)
    BY <1>1, <1>5, ConcatProperties
  <2>2. (wire \o a) \o b = wire \o (a \o b)
    BY <1>1, <1>5, Regroup
  <2> QED BY <1>5, <1>6, <2>1, <2>2
<1>8. b = <<>> <=> k = Len(pending)
  BY <1>4, <1>5, EmptySeq
<1>9. Len(pending') <= Len(pending)
  BY <1>4, <1>5, <1>6
<1>10. UNCHANGED <<received, status, call, need, buf, closed>>
  BY DEF Transmit, receiver
<1> QED BY <1>2, <1>3, <1>5, <1>6, <1>7, <1>8, <1>9, <1>10

\* sendall moves bytes from pending to the wire and drops none.
LEMMA TransmitInv ==
  ASSUME FramingInv, Transmit
  PROVE FramingInv'
<1>1. /\ sending # None /\ sending \in Payloads
      /\ \/ sent' = Append(sent, sending) /\ sending' = None
         \/ UNCHANGED <<sent, sending>>
      /\ UNCHANGED <<received, status, call, need, buf, closed>>
      /\ pending' \in Seq(Byte) /\ Len(pending') <= Len(pending)
      /\ sending' = None <=> pending' = <<>>
      /\ wire' \in Seq(Byte) /\ wire' \o pending' = wire \o pending
  BY TransmitKnown
<1>2. /\ sent \in Seq(Payloads) /\ received \in Seq(Payloads) /\ Len(sent) \in Nat /\ Len(received) \in Nat
      /\ Begun = Append(sent, sending) /\ Len(received) <= Len(sent)
  BY <1>1, FramesKnown DEF FramingInv, OrderInv
<1>3. sent' \in Seq(Payloads) /\ Len(sent') >= Len(sent) /\ Len(sent') \in Nat
  <2>1. Append(sent, sending) \in Seq(Payloads) /\ Len(Append(sent, sending)) = Len(sent) + 1
    BY <1>1, <1>2, AppendProperties
  <2>2. CASE sent' = Append(sent, sending)
    BY <1>2, <2>1, <2>2
  <2>3. CASE sent' = sent
    BY <1>2, <2>3
  <2> QED BY <1>1, <2>2, <2>3
<1>4. TypeInv'
  BY <1>1, <1>3 DEF FramingInv, TypeInv, TypeOK
<1>5. SenderInv'
  <2>1. Len(pending') \in Nat /\ Len(pending) \in Nat /\ Len(Frame(sending)) \in Nat
    BY <1>1, BytesKnown, FrameBytes, FramingAssumption
  <2>2. sending' # None => sending' = sending /\ Len(pending') <= Len(Frame(sending))
    BY <1>1, <2>1 DEF FramingInv, SenderInv
  <2> QED BY <1>1, <2>2 DEF SenderInv, Frame
<1>6. CallInv'
  BY <1>1 DEF FramingInv, CallInv
<1>7. Begun' = Begun
  BY <1>1, <1>2 DEF Begun
<1>8. Left' = Left
  BY <1>1, <1>7 DEF Left
<1>9. OrderInv'
  <2>1. Begun = received \o Left
    BY DEF FramingInv, OrderInv
  <2>2. Begun' = received' \o Left'
    BY <1>1, <1>7, <1>8, <2>1
  <2>3. Len(received') <= Len(sent')
    BY <1>1, <1>2, <1>3
  <2> QED BY <2>2, <2>3 DEF OrderInv
<1>10. BytesInv'
  <2>1. Taken' = Taken
    BY <1>1 DEF Taken
  <2>2. (Taken \o wire') \o pending' = Taken \o (wire' \o pending')
    <3>1. Taken \in Seq(Byte) /\ wire' \in Seq(Byte) /\ pending' \in Seq(Byte)
      BY <1>1, BytesKnown
    <3>2. JoinsBytes(Taken, wire', pending')
      BY <3>1, BytesJoin
    <3> QED BY <3>2 DEF JoinsBytes
  <2>3. (Taken \o wire) \o pending = Taken \o (wire \o pending)
    <3>1. JoinsBytes(Taken, wire, pending)
      BY BytesKnown, BytesJoin
    <3> QED BY <3>1 DEF JoinsBytes
  <2> QED BY <1>1, <1>8, <2>1, <2>2, <2>3 DEF FramingInv, BytesInv
<1> QED BY <1>4, <1>5, <1>6, <1>9, <1>10 DEF FramingInv

\* Steps that leave the frames alone: what is left over stays the same.
LEMMA SameFrames ==
  ASSUME FramingInv, UNCHANGED <<sent, sending, received>>
  PROVE Begun' = Begun /\ Left' = Left /\ OrderInv'
<1>1. Begun' = Begun
  BY DEF Begun
<1>2. Left' = Left
  BY <1>1 DEF Left
<1> QED BY <1>1, <1>2 DEF FramingInv, OrderInv

\* Closing leaves the bytes where they are.
LEMMA CloseSenderInv ==
  ASSUME FramingInv, CloseSender
  PROVE FramingInv'
<1>1. closed' = TRUE /\ UNCHANGED <<sent, sending, pending, received, status, call, need, buf, wire>>
  BY DEF CloseSender, sender, receiver
<1>2. Left' = Left /\ OrderInv'
  BY <1>1, SameFrames
<1>3. TypeInv'
  BY <1>1 DEF FramingInv, TypeInv, TypeOK
<1>4. SenderInv' /\ CallInv'
  BY <1>1 DEF FramingInv, SenderInv, CallInv, Frame
<1>5. BytesInv'
  BY <1>1, <1>2 DEF FramingInv, BytesInv, Taken
<1> QED BY <1>2, <1>3, <1>4, <1>5 DEF FramingInv

\* Once the receiver has failed nothing more is promised of the bytes.
LEMMA FailedInv ==
  ASSUME FramingInv, TooLarge \/ EndOfStream \/ TimesOut \/ Reset
  PROVE FramingInv'
<1>1. /\ status' \in {"eof", "timeout", "reset", "toolarge"}
      /\ UNCHANGED <<sent, sending, pending, received, call, need, buf, closed>>
      /\ wire' = wire \/ wire' = <<>>
  BY DEF TooLarge, EndOfStream, TimesOut, Reset, sender
<1>2. OrderInv'
  BY <1>1, SameFrames
<1>3. TypeInv'
  <2>1. <<>> \in Seq(Byte)
    OBVIOUS
  <2> QED BY <1>1, <2>1 DEF FramingInv, TypeInv, TypeOK
<1>4. SenderInv' /\ CallInv'
  BY <1>1 DEF FramingInv, SenderInv, CallInv, Frame
<1>5. BytesInv'
  BY <1>1 DEF BytesInv
<1> QED BY <1>2, <1>3, <1>4, <1>5 DEF FramingInv

\* recv_frame begins with an empty buffer and four bytes to get.
LEMMA RecvFrameInv ==
  ASSUME FramingInv, RecvFrame
  PROVE FramingInv'
<1>1. /\ call = "none" /\ call' = "header" /\ need' = HeaderLen /\ buf' = <<>>
      /\ UNCHANGED <<sent, sending, pending, received, status, closed, wire>>
  BY DEF RecvFrame, sender
<1>2. Left' = Left /\ OrderInv'
  BY <1>1, SameFrames
<1>3. TypeInv'
  BY <1>1, FramingAssumption DEF FramingInv, TypeInv, TypeOK
<1>4. SenderInv' /\ CallInv'
  BY <1>1 DEF FramingInv, SenderInv, CallInv, Frame
<1>5. BytesInv'
  <2>1. buf = <<>>
    <3>1. need = 0 /\ buf \in Seq(Byte) /\ Len(buf) \in Nat /\ Len(buf) <= 0
      BY <1>1, BytesKnown DEF FramingInv, CallInv
    <3> QED BY <3>1, EmptySeq
  <2>2. Taken' = <<>> /\ Taken = <<>>
    BY <1>1, <2>1 DEF Taken
  <2> QED BY <1>1, <1>2, <2>2 DEF FramingInv, BytesInv
<1> QED BY <1>2, <1>3, <1>4, <1>5 DEF FramingInv

\* recv moves bytes from the wire to the buffer and drops none.
LEMMA RecvChunkInv ==
  ASSUME FramingInv, RecvChunk
  PROVE FramingInv'
<1>1. UNCHANGED <<sent, sending, pending, received, status, call, need, closed>>
  BY DEF RecvChunk, TakeFromWire, sender
<1>2. /\ wire \in Seq(Byte) /\ buf \in Seq(Byte) /\ pending \in Seq(Byte) /\ Taken \in Seq(Byte)
      /\ Len(wire) \in Nat /\ Len(buf) \in Nat /\ need \in Nat
      /\ BigEndian(need, HeaderLen) \in Seq(Byte)
  BY BytesKnown
<1>3. PICK k \in 1 .. Min({need - Len(buf), Len(wire)}) :
        /\ buf' = buf \o SubSeq(wire, 1, k)
        /\ wire' = SubSeq(wire, k + 1, Len(wire))
  BY DEF RecvChunk, TakeFromWire
<1>4. k \in 0 .. Len(wire) /\ k <= need - Len(buf)
  <2>1. Len(buf) < need
    BY DEF RecvChunk, TakeFromWire, InRecv
  <2> DEFINE m == Min({need - Len(buf), Len(wire)})
  <2>2. m = IF need - Len(buf) <= Len(wire) THEN need - Len(buf) ELSE Len(wire)
    BY <1>2, <2>1 DEF Min
  <2> HIDE DEF m
  <2>3. k \in 1 .. m
    BY <1>3 DEF m
  <2> QED BY <1>2, <2>2, <2>3
<1> DEFINE a == SubSeq(wire, 1, k)
           b == SubSeq(wire, k + 1, Len(wire))
<1>5. a \in Seq(Byte) /\ b \in Seq(Byte) /\ Len(a) = k /\ wire = a \o b
  BY <1>2, <1>4, SplitAt
<1> HIDE DEF a, b
<1>6. buf' = buf \o a /\ wire' = b
  BY <1>3 DEF a, b
<1>7. buf' \in Seq(Byte) /\ Len(buf') = Len(buf) + k
  BY <1>2, <1>5, <1>6, ConcatProperties
<1>8. TypeInv'
  <2>1. Len(buf') <= need'
    BY <1>1, <1>2, <1>4, <1>7
  <2> QED BY <1>1, <1>5, <1>6, <1>7, <2>1 DEF FramingInv, TypeInv, TypeOK
<1>9. Left' = Left /\ OrderInv'
  BY <1>1, SameFrames
<1>10. SenderInv' /\ CallInv'
  BY <1>1 DEF FramingInv, SenderInv, CallInv, Frame
<1>11. BytesInv'
  <2>1. Taken' = Taken \o a
    <3> DEFINE h == BigEndian(need, HeaderLen)
    <3>1. h \in Seq(Byte)
      BY <1>2
    <3>2. Taken = (IF call = "body" THEN h \o buf ELSE buf) /\ Taken' = (IF call = "body" THEN h \o buf' ELSE buf')
      BY <1>1 DEF Taken
    <3> HIDE DEF h
    <3>3. (h \o buf) \o a = h \o (buf \o a)
      <4>1. h \in Seq(Byte) /\ buf \in Seq(Byte) /\ a \in Seq(Byte)
        BY <1>2, <1>5, <3>1
      <4>2. JoinsBytes(h, buf, a)
        BY <4>1, BytesJoin
      <4> QED BY <4>2 DEF JoinsBytes
    <3> QED BY <1>6, <3>2, <3>3
  <2>2. (Taken \o a) \o b = Taken \o wire
    <3>1. (Taken \o a) \o b = Taken \o (a \o b)
      <4>1. Taken \in Seq(Byte) /\ a \in Seq(Byte) /\ b \in Seq(Byte)
        BY <1>2, <1>5
      <4>2. JoinsBytes(Taken, a, b)
        BY <4>1, BytesJoin
      <4> QED BY <4>2 DEF JoinsBytes
    <3> QED BY <1>5, <3>1
  <2> QED BY <1>1, <1>6, <1>9, <2>1, <2>2 DEF FramingInv, BytesInv
<1> QED BY <1>8, <1>9, <1>10, <1>11 DEF FramingInv

\* A complete header is the length of the first frame left.
LEMMA HeaderKnown ==
  ASSUME FramingInv, status = "open", call = "header", Len(buf) = need
  PROVE /\ Left # <<>> /\ Head(Left) \in Payloads
        /\ buf = BigEndian(Len(Head(Left)), HeaderLen) /\ FromBigEndian(buf) = Len(Head(Left))
<1>1. Taken = buf /\ Len(buf) = HeaderLen
  BY DEF Taken, FramingInv, CallInv
<1>2. buf \in Seq(Byte) /\ wire \in Seq(Byte) /\ pending \in Seq(Byte)
  BY BytesKnown
<1>3. buf \o (wire \o pending) = Stream(Left) /\ wire \o pending \in Seq(Byte)
  <2>1. (buf \o wire) \o pending = Stream(Left)
    BY <1>1 DEF FramingInv, BytesInv
  <2>2. JoinsBytes(buf, wire, pending)
    BY <1>2, BytesJoin
  <2> QED BY <2>1, <2>2 DEF JoinsBytes
<1>4. Left \in Seq(Payloads)
  BY FramesKnown
<1>5. /\ Left # <<>>
      /\ buf = BigEndian(Len(Head(Left)), HeaderLen) /\ FromBigEndian(buf) = Len(Head(Left))
  BY <1>1, <1>2, <1>3, <1>4, HeaderRead
<1> QED BY <1>4, <1>5, HeadInFront

\* A whole header is the length of the frame that is sent next.
LEMMA HeaderCompleteInv ==
  ASSUME FramingInv, HeaderComplete
  PROVE FramingInv'
<1>1. /\ status = "open" /\ call = "header" /\ Len(buf) = need /\ FromBigEndian(buf) <= MaxFrame
      /\ call' = "body" /\ need' = FromBigEndian(buf) /\ buf' = <<>>
      /\ UNCHANGED <<sent, sending, pending, received, status, closed, wire>>
  BY DEF HeaderComplete, sender
<1>2. /\ Left # <<>> /\ Head(Left) \in Payloads
      /\ buf = BigEndian(Len(Head(Left)), HeaderLen) /\ FromBigEndian(buf) = Len(Head(Left))
  BY <1>1, HeaderKnown
<1>3. need' \in Nat /\ Fits(need', HeaderLen) /\ BigEndian(need', HeaderLen) = buf
  BY <1>1, <1>2, FrameBytes
<1>4. TypeInv'
  <2>1. need' \in 0 .. HeaderLen + MaxFrame /\ Len(buf') <= need'
    BY <1>1, <1>3, FramingAssumption
  <2>2. buf' \in Seq(Byte)
    BY <1>1
  <2> QED BY <1>1, <2>1, <2>2 DEF FramingInv, TypeInv, TypeOK
<1>5. Left' = Left /\ OrderInv'
  BY <1>1, SameFrames
<1>6. SenderInv'
  BY <1>1 DEF FramingInv, SenderInv, Frame
<1>7. CallInv'
  BY <1>1, <1>3 DEF CallInv
<1>8. BytesInv'
  <2>1. Taken' = buf \o <<>>
    BY <1>1, <1>3 DEF Taken
  <2>2. Taken = buf /\ buf \in Seq(Byte)
    BY <1>1, BytesKnown DEF Taken
  <2>3. Taken' = Taken
    BY <2>1, <2>2, ConcatEmptySeq
  <2> QED BY <1>1, <1>5, <2>3 DEF FramingInv, BytesInv
<1> QED BY <1>4, <1>5, <1>6, <1>7, <1>8 DEF FramingInv

\* A complete body is the first frame left, and it was sent as a whole: if it
\* were still being sent, its last bytes would not have been received.
LEMMA BodyKnown ==
  ASSUME FramingInv, status = "open", call = "body", Len(buf) = need
  PROVE /\ Left # <<>> /\ buf = Head(Left) /\ buf \in Payloads /\ Tail(Left) \in Seq(Payloads)
        /\ wire \o pending = Stream(Tail(Left))
        /\ Begun = Append(received, buf) \o Tail(Left)
        /\ Len(received) < Len(sent)
<1>1. Taken = BigEndian(need, HeaderLen) \o buf /\ Fits(need, HeaderLen)
  BY DEF Taken, FramingInv, CallInv
<1>2. buf \in Seq(Byte) /\ wire \in Seq(Byte) /\ pending \in Seq(Byte) /\ Taken \in Seq(Byte) /\ need \in Nat
  BY BytesKnown
<1>3. Taken \o (wire \o pending) = Stream(Left) /\ wire \o pending \in Seq(Byte)
  <2>1. (Taken \o wire) \o pending = Stream(Left)
    BY DEF FramingInv, BytesInv
  <2>2. JoinsBytes(Taken, wire, pending)
    BY <1>2, BytesJoin
  <2> QED BY <2>1, <2>2 DEF JoinsBytes
<1>4. /\ Left \in Seq(Payloads) /\ received \in Seq(Payloads) /\ Begun = received \o Left
      /\ Len(Begun) = Len(received) + Len(Left) /\ Len(received) \in Nat /\ Len(sent) \in Nat
  BY FramesKnown
<1>5. Left # <<>> /\ buf = Head(Left) /\ wire \o pending = Stream(Tail(Left))
  <2> DEFINE u == wire \o pending
  <2>1. u \in Seq(Byte) /\ (BigEndian(need, HeaderLen) \o buf) \o u = Stream(Left)
    BY <1>1, <1>3
  <2> HIDE DEF u
  <2>2. Left # <<>> /\ buf = Head(Left) /\ u = Stream(Tail(Left))
    BY <1>1, <1>2, <1>4, <2>1, BodyRead
  <2> QED BY <2>2 DEF u
<1>6. buf \in Payloads /\ Tail(Left) \in Seq(Payloads) /\ Left = <<buf>> \o Tail(Left) /\ Len(Left) = Len(Tail(Left)) + 1
  BY <1>4, <1>5, HeadInFront
<1>7. Begun = Append(received, buf) \o Tail(Left)
  <2> DEFINE rest == Tail(Left)
  <2>1. rest \in Seq(Payloads) /\ <<buf>> \in Seq(Payloads)
    BY <1>6
  <2> HIDE DEF rest
  <2> DEFINE one == <<buf>>
  <2>a. one \in Seq(Payloads)
    BY <2>1
  <2> HIDE DEF one
  <2>b. received \o (one \o rest) = (received \o one) \o rest
    <3>1. received \in Seq(Payloads)
      BY <1>4
    <3> QED BY <2>1, <2>a, <3>1, ConcatAssociative, Z3T(30)
  <2>2. received \o (<<buf>> \o rest) = (received \o <<buf>>) \o rest
    BY <2>b DEF one
  <2>3. Append(received, buf) = received \o <<buf>>
    BY <1>4, <1>6, AppendIsConcat
  <2>4. Begun = received \o (<<buf>> \o rest)
    BY <1>4, <1>6 DEF rest
  <2> QED BY <2>2, <2>3, <2>4 DEF rest
<1>8. Len(received) < Len(sent)
  <2>1. Len(Tail(Left)) \in Nat
    BY <1>6
  <2>2. CASE sending = None
    BY <1>4, <1>6, <2>1, <2>2, FramesKnown
  <2>3. CASE sending # None
    <3>1. SUFFICES ASSUME Len(received) = Len(sent) PROVE FALSE
      BY <1>4 DEF FramingInv, OrderInv
    <3>2. Len(Tail(Left)) = 0
      BY <1>4, <1>6, <2>1, <2>3, <3>1, FramesKnown
    <3>3. Tail(Left) = <<>>
      BY <1>6, <3>2, EmptySeq
    <3>4. wire \o pending = <<>>
      <4>1. Stream(<<>>) = <<>>
        BY DEF Stream, FlattenSeq
      <4> QED BY <1>5, <3>3, <4>1
    <3>5. pending = <<>>
      BY <1>2, <3>4, ConcatEqualIffEmpty
    <3> QED BY <2>3, <3>5 DEF FramingInv, SenderInv
  <2> QED BY <2>2, <2>3
<1> QED BY <1>5, <1>6, <1>7, <1>8

\* A whole body is the payload of that frame.
LEMMA BodyCompleteInv ==
  ASSUME FramingInv, BodyComplete
  PROVE FramingInv'
<1>1. /\ status = "open" /\ call = "body" /\ Len(buf) = need
      /\ received' = Append(received, buf)
      /\ call' = "none" /\ need' = 0 /\ buf' = <<>>
      /\ UNCHANGED <<sent, sending, pending, status, closed, wire>>
  BY DEF BodyComplete, sender
<1>2. /\ buf \in Payloads /\ Tail(Left) \in Seq(Payloads)
      /\ wire \o pending = Stream(Tail(Left))
      /\ Begun = Append(received, buf) \o Tail(Left)
      /\ Len(received) < Len(sent)
  BY <1>1, BodyKnown
<1>3. /\ received \in Seq(Payloads) /\ Begun \in Seq(Payloads)
      /\ Len(received) \in Nat /\ Len(sent) \in Nat
      /\ received' \in Seq(Payloads) /\ Len(received') = Len(received) + 1
  BY <1>1, <1>2, FramesKnown, AppendProperties
<1>4. TypeInv'
  <2>1. need' \in 0 .. HeaderLen + MaxFrame /\ Len(buf') <= need'
    BY <1>1, FramingAssumption
  <2>2. buf' \in Seq(Byte)
    BY <1>1
  <2> QED BY <1>1, <1>3, <2>1, <2>2 DEF FramingInv, TypeInv, TypeOK
<1>5. Begun' = Begun
  BY <1>1 DEF Begun
<1>6. Left' = Tail(Left)
  <2>1. Left' = SubSeq(Begun, Len(received') + 1, Len(Begun))
    BY <1>5 DEF Left
  <2>2. SubSeq(Begun, Len(received') + 1, Len(Begun)) = Tail(Left)
    BY <1>1, <1>2, <1>3, LeftOver
  <2> QED BY <2>1, <2>2
<1>7. OrderInv'
  <2>1. Begun' = received' \o Left'
    BY <1>1, <1>2, <1>5, <1>6
  <2>2. Len(received') <= Len(sent')
    BY <1>1, <1>2, <1>3
  <2> QED BY <2>1, <2>2 DEF OrderInv
<1>8. SenderInv'
  BY <1>1 DEF FramingInv, SenderInv, Frame
<1>9. CallInv'
  BY <1>1 DEF CallInv
<1>10. BytesInv'
  <2>1. Taken' = <<>>
    BY <1>1 DEF Taken
  <2>2. wire \in Seq(Byte) /\ pending \in Seq(Byte)
    BY BytesKnown
  <2>3. <<>> \o wire = wire
    BY <2>2, ConcatEmptySeq
  <2> QED BY <1>1, <1>2, <1>6, <2>1, <2>3 DEF BytesInv
<1> QED BY <1>4, <1>7, <1>8, <1>9, <1>10 DEF FramingInv

\* Every step keeps the invariant.
LEMMA StepInv == FramingInv /\ [Next]_vars => FramingInv'
<1> SUFFICES ASSUME FramingInv, [Next]_vars PROVE FramingInv'
  OBVIOUS
<1>1. ASSUME NEW p \in Payloads, SendFrame(p) PROVE FramingInv'
  BY <1>1, SendFrameInv
<1>2. ASSUME Transmit PROVE FramingInv'
  BY <1>2, TransmitInv
<1>3. ASSUME CloseSender PROVE FramingInv'
  BY <1>3, CloseSenderInv
<1>4. ASSUME RecvFrame PROVE FramingInv'
  BY <1>4, RecvFrameInv
<1>5. ASSUME RecvChunk PROVE FramingInv'
  BY <1>5, RecvChunkInv
<1>6. ASSUME HeaderComplete PROVE FramingInv'
  BY <1>6, HeaderCompleteInv
<1>7. ASSUME BodyComplete PROVE FramingInv'
  BY <1>7, BodyCompleteInv
<1>8. ASSUME TooLarge \/ EndOfStream \/ TimesOut \/ Reset PROVE FramingInv'
  BY <1>8, FailedInv
<1>9. ASSUME UNCHANGED vars PROVE FramingInv'
  BY <1>9 DEF vars, sender, receiver, FramingInv, TypeInv, TypeOK, SenderInv, CallInv, OrderInv, BytesInv,
              Begun, Left, Taken, Frame
<1> QED BY <1>1, <1>2, <1>3, <1>4, <1>5, <1>6, <1>7, <1>8, <1>9 DEF Next, Reads

\* The bytes account for the frames in every reachable state of the framing
\* code: none is lost, doubled, reordered or cut between send_frame and
\* recv_frame, wherever sendall and recv cut the stream.
THEOREM FramingInvariant == Spec => []FramingInv
<1> QED BY InitInv, StepInv, PTL DEF Spec

\* _recv_exactly never holds more than it asked for, and asks for no more
\* than a header or MAX_FRAME.
THEOREM TypeCorrect == Spec => []TypeOK
<1>1. FramingInv => TypeOK
  BY DEF FramingInv, TypeInv
<1> QED BY <1>1, FramingInvariant, PTL

-----------------------------------------------------------------------------
(* The refinement *)

\* While something is left, the next frame of the queue is the first of it.
LEMMA NextFrameKnown ==
  ASSUME FramingInv, Left # <<>>
  PROVE Queue!NextFrame = Head(Left)
<1>1. /\ sent \in Seq(Payloads) /\ received \in Seq(Payloads) /\ Left \in Seq(Payloads)
      /\ Begun = received \o Left /\ Len(Begun) = Len(received) + Len(Left)
      /\ Len(received) \in Nat /\ Len(sent) \in Nat /\ Len(Left) \in Nat
      /\ sending \in Payloads \cup {None}
      /\ sending = None => Begun = sent
      /\ sending # None => Begun = Append(sent, sending) /\ Len(Begun) = Len(sent) + 1
  BY FramesKnown
<1>2. Len(Left) >= 1 /\ Head(Left) = Left[1]
  BY <1>1, EmptySeq
<1> DEFINE i == Len(received) + 1
<1>3. Begun[i] = Left[1]
  <2>1. i \in 1 .. Len(received) + Len(Left) /\ ~(i <= Len(received)) /\ i - Len(received) = 1
    BY <1>1, <1>2
  <2> HIDE DEF i
  <2>2. (received \o Left)[i] = Left[i - Len(received)]
    BY <1>1, <2>1, ConcatProperties
  <2> QED BY <1>1, <2>1, <2>2
<1>4. CASE Len(received) < Len(sent)
  <2>1. Queue!NextFrame = sent[i]
    BY <1>4 DEF Queue!NextFrame
  <2>2. ASSUME sending # None PROVE Begun[i] = sent[i]
    <3>1. i \in 1 .. Len(sent) /\ sending \in Payloads
      BY <1>1, <1>4, <2>2
    <3>2. Append(sent, sending)[i] = sent[i]
      BY <1>1, <3>1, AppendProperties
    <3> QED BY <1>1, <2>2, <3>2
  <2> QED BY <1>1, <1>2, <1>3, <2>1, <2>2
<1>5. CASE ~(Len(received) < Len(sent))
  <2>1. sending # None /\ sending \in Payloads /\ i = Len(sent) + 1
    BY <1>1, <1>2, <1>5 DEF FramingInv, OrderInv
  <2>2. Begun[i] = sending
    BY <1>1, <2>1, AppendProperties
  <2>3. Queue!NextFrame = sending
    BY <1>5 DEF Queue!NextFrame
  <2> QED BY <1>2, <1>3, <2>2, <2>3
<1> QED BY <1>4, <1>5

\* A length above the limit raises in both.
LEMMA TooLargeFails ==
  ASSUME FramingInv, TooLarge
  PROVE Queue!TooLarge
<1>1. status = "open" /\ call = "header" /\ Len(buf) = need /\ FromBigEndian(buf) > MaxFrame
  BY DEF TooLarge
<1>2. Left # <<>> /\ Head(Left) \in Payloads /\ FromBigEndian(buf) = Len(Head(Left))
  BY <1>1, HeaderKnown
<1>3. Queue!NextFrame = Head(Left)
  BY <1>2, NextFrameKnown
<1>4. Queue!NextFrame # None /\ Len(Queue!NextFrame) > MaxFrame
  BY <1>1, <1>2, <1>3, FramingAssumption
<1> QED BY <1>4 DEF TooLarge, sender, Queue!TooLarge, Queue!Fail

\* A complete body is the frame that the queue hands out.
LEMMA BodyReceives ==
  ASSUME FramingInv, BodyComplete
  PROVE Queue!Receive
<1>1. status = "open" /\ call = "body" /\ Len(buf) = need
  BY DEF BodyComplete
<1>2. Left # <<>> /\ buf = Head(Left) /\ Len(received) < Len(sent)
  BY <1>1, BodyKnown
<1>3. Queue!NextFrame = buf
  BY <1>2, NextFrameKnown
<1>4. Len(buf) <= MaxFrame
  BY <1>1 DEF FramingInv, CallInv
<1> QED BY <1>2, <1>3, <1>4 DEF BodyComplete, sender, Queue!Receive

\* At the end of the stream every whole frame has been received: the bytes of
\* one more would not all be with the receiver, and the sender has at most
\* those of the frame it broke off.
LEMMA EndFails ==
  ASSUME FramingInv, EndOfStream
  PROVE Queue!EndOfStream
<1>1. status = "open" /\ call # "none" /\ Len(buf) < need /\ wire = <<>> /\ closed
  BY DEF EndOfStream, InRecv
<1>2. /\ sent \in Seq(Payloads) /\ received \in Seq(Payloads) /\ Left \in Seq(Payloads)
      /\ Begun = received \o Left /\ Len(Begun) = Len(received) + Len(Left)
      /\ Len(received) \in Nat /\ Len(sent) \in Nat /\ Len(Left) \in Nat
      /\ sending \in Payloads \cup {None}
      /\ sending = None => Begun = sent
      /\ sending # None => Begun = Append(sent, sending) /\ Len(Begun) = Len(sent) + 1
      /\ Len(received) <= Len(sent)
  BY FramesKnown DEF FramingInv, OrderInv
<1>3. /\ Taken \in Seq(Byte) /\ pending \in Seq(Byte) /\ buf \in Seq(Byte) /\ need \in Nat /\ Len(buf) \in Nat
      /\ Len(Taken) = IF call = "body" THEN HeaderLen + Len(buf) ELSE Len(buf)
      /\ BigEndian(need, HeaderLen) \in Seq(Byte)
  BY BytesKnown
<1>4. Taken \o pending = Stream(Left)
  <2>1. (Taken \o wire) \o pending = Stream(Left)
    BY <1>1 DEF FramingInv, BytesInv
  <2>2. Taken \o <<>> = Taken
    BY <1>3, ConcatEmptySeq
  <2> QED BY <1>1, <2>1, <2>2
<1>5. ASSUME Len(received) < Len(sent) PROVE FALSE
  <2>1. Left # <<>>
    BY <1>2, <1>5
  <2> DEFINE p == Head(Left)
             rest == Tail(Left)
  <2>2. /\ p \in Payloads /\ rest \in Seq(Payloads) /\ Stream(rest) \in Seq(Byte)
        /\ Stream(Left) = Frame(p) \o Stream(rest) /\ Left = <<p>> \o rest
        /\ Len(Left) = Len(rest) + 1
    BY <1>2, <2>1, StreamHead, HeadInFront
  <2> HIDE DEF p, rest
  <2>3. Frame(p) \in Seq(Byte) /\ Len(Frame(p)) = HeaderLen + Len(p) /\ Len(p) \in Nat /\ HeaderLen \in Nat
    BY <2>2, FrameBytes, FramingAssumption
  <2>4. Len(Taken) < Len(Frame(p))
    <3>1. CASE call = "header"
      BY <1>1, <1>3, <2>3, <3>1 DEF FramingInv, CallInv
    <3>2. CASE call = "body"
      <4>1. Fits(need, HeaderLen) /\ (BigEndian(need, HeaderLen) \o buf) \o pending = Stream(Left)
        BY <1>4, <3>2 DEF Taken, FramingInv, CallInv
      <4>2. need = Len(p)
        BY <1>2, <1>3, <4>1, BodyRead DEF p
      <4> QED BY <1>1, <1>3, <2>3, <3>2, <4>2
    <3>3. call \in {"none", "header", "body"}
      BY DEF FramingInv, TypeInv, TypeOK
    <3> QED BY <1>1, <3>1, <3>2, <3>3
  <2>5. Len(Taken) + Len(pending) = Len(Frame(p)) + Len(Stream(rest))
    <3>1. Len(Taken \o pending) = Len(Taken) + Len(pending)
      <4>1. JoinsBytes(Taken, pending, pending)
        BY <1>3, BytesJoin
      <4> QED BY <4>1 DEF JoinsBytes
    <3>2. Len(Frame(p) \o Stream(rest)) = Len(Frame(p)) + Len(Stream(rest))
      <4>1. JoinsBytes(Frame(p), Stream(rest), Stream(rest))
        BY <2>2, <2>3, BytesJoin
      <4> QED BY <4>1 DEF JoinsBytes
    <3>3. Taken \o pending = Frame(p) \o Stream(rest)
      BY <1>4, <2>2
    <3> QED BY <3>1, <3>2, <3>3
  <2>6. Len(pending) <= Len(Stream(rest))
    <3>1. CASE sending = None
      BY <2>2, <3>1 DEF FramingInv, SenderInv
    <3>2. CASE sending # None
      <4>1. Len(pending) <= Len(Frame(sending)) /\ sending \in Payloads
        BY <1>2, <3>2 DEF FramingInv, SenderInv
      <4>2. \E most \in Seq(Payloads) : rest = Append(most, sending)
        <5>1. rest # <<>>
          BY <1>2, <1>5, <2>2, <3>2
        <5>2. PICK most \in Seq(Payloads), last \in Payloads : rest = Append(most, last)
          BY <2>2, <5>1, SequenceEmptyOrAppend
        <5>3. Begun[Len(Begun)] = last
          BY <1>2, <2>2, <5>2
        <5>4. Begun[Len(Begun)] = sending
          BY <1>2, <3>2, <4>1, AppendProperties
        <5> QED BY <5>2, <5>3, <5>4
      <4>3. PICK most \in Seq(Payloads) : rest = Append(most, sending)
        BY <4>2
      <4>4. Stream(rest) = Stream(most) \o Frame(sending) /\ Stream(most) \in Seq(Byte)
        BY <4>1, <4>3, StreamEnds
      <4>5. Frame(sending) \in Seq(Byte) /\ Len(Frame(sending)) \in Nat
        BY <4>1, FrameBytes, FramingAssumption
      <4>6. Len(Stream(rest)) = Len(Stream(most)) + Len(Frame(sending)) /\ Len(Stream(most)) \in Nat
        BY <4>4, <4>5, ConcatProperties
      <4> QED BY <1>3, <4>1, <4>5, <4>6
    <3> QED BY <3>1, <3>2
  <2>7. Len(Taken) \in Nat /\ Len(pending) \in Nat /\ Len(Stream(rest)) \in Nat /\ Len(Frame(p)) \in Nat
    BY <1>3, <2>2, <2>3
  <2> QED BY <2>4, <2>5, <2>6, <2>7
<1>6. received = sent
  <2>1. Len(received) = Len(sent)
    BY <1>2, <1>5
  <2>2. CASE sending = None
    <3>1. Left = <<>>
      BY <1>2, <2>1, <2>2, EmptySeq
    <3> QED BY <1>2, <2>2, <3>1, ConcatEmptySeq
  <2>3. CASE sending # None
    <3>0. sending \in Payloads /\ received \o Left = Append(sent, sending)
      BY <1>2, <2>3
    <3>1. received \o Left = sent \o <<sending>> /\ <<sending>> \in Seq(Payloads)
      BY <1>2, <3>0, AppendIsConcat
    <3> QED BY <1>2, <2>1, <3>1, ConcatCancel
  <2> QED BY <2>2, <2>3
<1> QED BY <1>1, <1>6 DEF EndOfStream, sender, Queue!EndOfStream, Queue!Fail

\* Every step is one of the queue or leaves it alone.
LEMMA StepRefines == FramingInv /\ [Next]_vars => [Queue!Next]_(Queue!qvars)
<1> SUFFICES ASSUME FramingInv, [Next]_vars PROVE Queue!Next \/ UNCHANGED Queue!qvars
  OBVIOUS
<1> USE DEF Queue!Next, Queue!qvars
<1>1. ASSUME NEW p \in Payloads, SendFrame(p) PROVE Queue!BeginSend(p)
  BY <1>1 DEF SendFrame, receiver, Queue!BeginSend
<1>2. ASSUME Transmit PROVE Queue!FinishSend \/ UNCHANGED Queue!qvars
  <2>1. ~closed
    BY <1>2 DEF Transmit
  <2> QED BY <1>2, <2>1, TransmitKnown DEF Queue!FinishSend
<1>3. ASSUME CloseSender PROVE Queue!CloseSender
  BY <1>3 DEF CloseSender, sender, receiver, Queue!CloseSender
<1>4. ASSUME RecvFrame \/ RecvChunk \/ HeaderComplete PROVE UNCHANGED Queue!qvars
  BY <1>4 DEF RecvFrame, RecvChunk, TakeFromWire, HeaderComplete, sender
<1>5. ASSUME TooLarge PROVE Queue!TooLarge
  BY <1>5, TooLargeFails
<1>6. ASSUME BodyComplete PROVE Queue!Receive
  BY <1>6, BodyReceives
<1>7. ASSUME EndOfStream PROVE Queue!EndOfStream
  BY <1>7, EndFails
<1>8. ASSUME TimesOut PROVE Queue!TimesOut
  BY <1>8 DEF TimesOut, InRecv, sender, Queue!TimesOut, Queue!Fail
<1>9. ASSUME Reset PROVE Queue!Reset
  BY <1>9 DEF Reset, InRecv, sender, Queue!Reset, Queue!Fail
<1>10. ASSUME UNCHANGED vars PROVE UNCHANGED Queue!qvars
  BY <1>10 DEF vars, sender, receiver
<1> QED BY <1>1, <1>2, <1>3, <1>4, <1>5, <1>6, <1>7, <1>8, <1>9, <1>10 DEF Next, Reads

\* The framing code is a queue of whole frames: what recv_frame returns is
\* what was sent, whole, in order and once; it fails at the end of the stream
\* only after every whole frame, and refuses as too long only a frame that is.
THEOREM FramingImplementsQueue == Spec => WholeFrames
<1>1. Init => Queue!Init
  BY DEF Init, Queue!Init
<1>2. FramingInv /\ [Next]_vars => [Queue!Next]_(Queue!qvars)
  BY StepRefines
<1> QED BY <1>1, <1>2, FramingInvariant, PTL DEF Spec, WholeFrames, Queue!Spec
=============================================================================
