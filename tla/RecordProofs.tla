---------------------------- MODULE RecordProofs ----------------------------
(***************************************************************************)
(* For every set of channels, content types and plaintexts, and for every  *)
(* size of the sequence space: what a receiver hands on is a prefix of     *)
(* what was sent, and no nonce is used twice under one key.                *)
(***************************************************************************)
EXTENDS Record, TLAPS

\* The i-th record of a channel was sealed by its sender with number i - 1.
SentInOrder ==
  \A ch \in Channels : \A i \in 1 .. Len(sent[ch]) :
    /\ sent[ch][i].seq = i - 1
    /\ sent[ch][i].ct.key = ch
    /\ sent[ch][i].ct.nonce = Nonce(ch, i - 1)
    /\ sent[ch][i].ct.aad.type = sent[ch][i].type

\* The sender's counter counts what it sent until the numbers run out.
SendCounter ==
  \A ch \in Channels :
    /\ sendSeq[ch] < SeqSpace => Len(sent[ch]) = sendSeq[ch]
    /\ sendSeq[ch] >= SeqSpace => Len(sent[ch]) = SeqSpace

\* The receiver's counter counts what it accepted.
RecvCounter == \A ch \in Channels : recvSeq[ch] = Len(delivered[ch])

IInv == TypeOK /\ SentInOrder /\ SendCounter /\ RecvCounter /\ DeliveredIsPrefix

-----------------------------------------------------------------------------
\* What Append does to a sequence, in the form the steps below use.
LEMMA AppendFacts ==
  ASSUME NEW S, NEW s \in Seq(S), NEW e \in S
  PROVE  /\ Append(s, e) \in Seq(S)
         /\ Len(Append(s, e)) = Len(s) + 1
         /\ \A i \in 1 .. Len(s) : Append(s, e)[i] = s[i]
         /\ Append(s, e)[Len(s) + 1] = e
OBVIOUS

\* The sets of records and deliveries do not depend on the state.
LEMMA SetsRigid == Records' = Records /\ Deliveries' = Deliveries
<1>1. Ciphertexts' = Ciphertexts
  BY Zenon DEF Ciphertexts, SeqNumbers
<1>2. SeqNumbers' = SeqNumbers
  BY DEF SeqNumbers
<1>3. Records' = Records
  BY <1>1, <1>2 DEF Records
<1>4. Deliveries' = Deliveries
  BY DEF Deliveries
<1> QED BY <1>3, <1>4

\* Neither does the invariant on anything but the four variables.
LEMMA StutterIInv == IInv /\ UNCHANGED vars => IInv'
<1> SUFFICES ASSUME IInv, UNCHANGED vars PROVE IInv'
  OBVIOUS
<1>1. TypeOK'
  BY SetsRigid DEF IInv, TypeOK, vars
<1>2. SentInOrder'
  <2>1. SentInOrder /\ sent' = sent
    BY DEF IInv, vars
  <2> QED BY <2>1 DEF SentInOrder
<1>3. SendCounter' /\ RecvCounter' /\ DeliveredIsPrefix'
  BY DEF IInv, SendCounter, RecvCounter, DeliveredIsPrefix, vars
<1> QED BY <1>1, <1>2, <1>3 DEF IInv

\* A fresh pair of DirectionStates satisfies the invariant.
LEMMA InitIInv == Init => IInv
BY ConstantsAssumption DEF Init, IInv, TypeOK, SentInOrder, SendCounter, RecvCounter, DeliveredIsPrefix

\* encrypt() appends a record that carries the number the counter showed.
LEMMA EncryptIInv ==
  ASSUME IInv, NEW ch \in Channels, NEW type \in ContentTypes, NEW pt \in Payloads,
         Encrypt(ch, type, pt)
  PROVE  IInv'
<1> DEFINE seq == sendSeq[ch]
           wireLen == PayloadLen[pt] + TAG_LEN
           aad == Aad(type, seq, wireLen)
           ct == Seal(ch, Nonce(ch, seq), aad, pt)
           r == [type |-> type, seq |-> seq, ct |-> ct]
<1>1. /\ seq \in SeqNumbers
      /\ sendSeq' = [sendSeq EXCEPT ![ch] = seq + 1]
      /\ sent' = [sent EXCEPT ![ch] = Append(sent[ch], r)]
      /\ recvSeq' = recvSeq /\ delivered' = delivered
  BY DEF Encrypt, Bump
<1>2. wireLen \in Nat
  BY ConstantsAssumption DEF TAG_LEN
<1>3. aad \in [type : ContentTypes, seq : SeqNumbers, len : Nat]
  BY <1>1, <1>2 DEF Aad
<1>4. ct \in Ciphertexts
  <2>1. Nonce(ch, seq) \in [iv : Channels, seq : SeqNumbers]
    BY <1>1 DEF Nonce
  <2>2. ct = [key |-> ch, nonce |-> Nonce(ch, seq), aad |-> aad, pt |-> pt, len |-> wireLen]
    BY DEF Seal
  <2> HIDE DEF aad, ct, wireLen
  <2> QED BY <2>1, <2>2, <1>2, <1>3 DEF Ciphertexts
<1>5. r \in Records
  <2> HIDE DEF ct
  <2> QED BY <1>1, <1>4 DEF Records
<1>6. /\ ct.key = ch /\ ct.nonce = Nonce(ch, seq) /\ ct.aad.type = type
  BY DEF Seal, Aad
<1> HIDE DEF ct, aad, wireLen
<1>7. r.seq = seq /\ r.type = type /\ r.ct = ct
  OBVIOUS
<1> HIDE DEF r
<1>8. \A c \in Channels : sent'[c] = IF c = ch THEN Append(sent[c], r) ELSE sent[c]
  BY <1>1 DEF IInv, TypeOK
<1> DEFINE app == Append(sent[ch], r)
<1>a. /\ app \in Seq(Records) /\ Len(app) = Len(sent[ch]) + 1
      /\ \A i \in 1 .. Len(sent[ch]) : app[i] = sent[ch][i]
      /\ app[Len(sent[ch]) + 1] = r
  BY <1>5, AppendFacts DEF IInv, TypeOK
<1>b. /\ sent' = [sent EXCEPT ![ch] = app]
      /\ \A c \in Channels : sent'[c] = IF c = ch THEN app ELSE sent[c]
  BY <1>1, <1>8
<1> HIDE DEF app
<1>9. Len(sent[ch]) = seq
  BY <1>1, ConstantsAssumption DEF IInv, TypeOK, SendCounter, SeqNumbers
<1>10. TypeOK'
  <2>1. (sendSeq \in [Channels -> 0 .. SeqSpace + MaxOverrun])'
    BY <1>1, ConstantsAssumption DEF IInv, TypeOK, SeqNumbers
  <2>2. (sent \in [Channels -> Seq(Records)])'
    BY <1>a, <1>b, SetsRigid DEF IInv, TypeOK
  <2>3. (recvSeq \in [Channels -> 0 .. SeqSpace])'
    BY <1>1 DEF IInv, TypeOK
  <2>4. (delivered \in [Channels -> Seq(Deliveries)])'
    BY <1>1, SetsRigid DEF IInv, TypeOK
  <2> QED BY <2>1, <2>2, <2>3, <2>4 DEF TypeOK
<1>11. SentInOrder'
  <2> SUFFICES ASSUME NEW c \in Channels, NEW i \in 1 .. Len(sent'[c])
      PROVE  /\ sent'[c][i].seq = i - 1
             /\ sent'[c][i].ct.key = c
             /\ sent'[c][i].ct.nonce = Nonce(c, i - 1)
             /\ sent'[c][i].ct.aad.type = sent'[c][i].type
    BY DEF SentInOrder, Nonce
  <2>1. sent[c] \in Seq(Records)
    BY DEF IInv, TypeOK
  <2>2. CASE i \in 1 .. Len(sent[c])
    <3>1. sent'[c][i] = sent[c][i]
      BY <1>a, <1>b, <2>1, <2>2
    <3> QED BY <3>1, <2>2 DEF IInv, SentInOrder
  <2>3. CASE i \notin 1 .. Len(sent[c])
    <3>1. c = ch /\ i = seq + 1 /\ sent'[c][i] = r
      BY <1>a, <1>b, <1>9, <2>1, <2>3
    <3> QED BY <3>1, <1>6, <1>7, <1>1 DEF SeqNumbers
  <2> QED BY <2>2, <2>3
<1>12. SendCounter'
  BY <1>1, <1>a, <1>b, <1>9, ConstantsAssumption DEF IInv, TypeOK, SendCounter, SeqNumbers
<1>13. RecvCounter'
  BY <1>1 DEF IInv, RecvCounter
<1>14. DeliveredIsPrefix'
  <2> SUFFICES ASSUME NEW c \in Channels
      PROVE  /\ Len(delivered[c]) <= Len(sent'[c])
             /\ \A i \in 1 .. Len(delivered[c]) :
                  delivered[c][i] = [type |-> sent'[c][i].type, pt |-> sent'[c][i].ct.pt]
    BY <1>1 DEF DeliveredIsPrefix
  <2>1. sent[c] \in Seq(Records) /\ Len(delivered[c]) \in Nat
    BY DEF IInv, TypeOK
  <2>2. /\ Len(sent[c]) <= Len(sent'[c])
        /\ \A i \in 1 .. Len(sent[c]) : sent'[c][i] = sent[c][i]
    BY <1>a, <1>b, <2>1
  <2>3. /\ Len(delivered[c]) <= Len(sent[c])
        /\ \A i \in 1 .. Len(delivered[c]) :
             delivered[c][i] = [type |-> sent[c][i].type, pt |-> sent[c][i].ct.pt]
    BY DEF IInv, DeliveredIsPrefix
  <2>4. Len(sent'[c]) \in Nat /\ Len(sent[c]) \in Nat
    BY <2>1, <1>a, <1>b
  <2>5. \A i \in 1 .. Len(delivered[c]) : sent'[c][i] = sent[c][i]
    BY <2>1, <2>2, <2>3, <2>4
  <2> QED BY <2>1, <2>2, <2>3, <2>4, <2>5
<1> QED BY <1>10, <1>11, <1>12, <1>13, <1>14 DEF IInv

\* A failing encrypt() only moves a counter that is already out of range.
LEMMA OverflowIInv ==
  ASSUME IInv, NEW ch \in Channels, EncryptOverflow(ch)
  PROVE  IInv'
<1>1. /\ sendSeq[ch] \in SeqSpace .. SeqSpace + MaxOverrun - 1
      /\ sendSeq' = [sendSeq EXCEPT ![ch] = sendSeq[ch] + 1]
      /\ recvSeq' = recvSeq /\ sent' = sent /\ delivered' = delivered
  BY DEF EncryptOverflow, Bump
<1>2. TypeOK'
  <2>1. (sendSeq \in [Channels -> 0 .. SeqSpace + MaxOverrun])'
    BY <1>1, ConstantsAssumption DEF IInv, TypeOK
  <2> QED BY <2>1, <1>1, SetsRigid DEF IInv, TypeOK
<1>3. SendCounter'
  BY <1>1, ConstantsAssumption DEF IInv, TypeOK, SendCounter
<1>4. SentInOrder'
  <2>1. SentInOrder
    BY DEF IInv
  <2> QED BY <1>1, <2>1 DEF SentInOrder
<1>5. RecvCounter' /\ DeliveredIsPrefix'
  BY <1>1 DEF IInv, RecvCounter, DeliveredIsPrefix
<1> QED BY <1>2, <1>3, <1>4, <1>5 DEF IInv

\* decrypt() accepts only the record at the position of its counter.
LEMMA DecryptIInv ==
  ASSUME IInv, NEW ch \in Channels, NEW type \in ContentTypes, NEW seq \in SeqNumbers,
         NEW ct \in OnNetwork, Decrypt(ch, type, seq, ct)
  PROVE  IInv'
<1> DEFINE d == [type |-> type, pt |-> ct.pt]
<1>1. /\ seq = recvSeq[ch]
      /\ ct.key = ch /\ ct.nonce = Nonce(ch, seq) /\ ct.aad.type = type
      /\ recvSeq' = [recvSeq EXCEPT ![ch] = recvSeq[ch] + 1]
      /\ delivered' = [delivered EXCEPT ![ch] = Append(delivered[ch], d)]
      /\ sendSeq' = sendSeq /\ sent' = sent
  BY DEF Decrypt, Accepts, Opens, Aad
<1>2. PICK c \in Channels : \E i \in 1 .. Len(sent[c]) : ct = sent[c][i].ct
  BY DEF OnNetwork
<1> PICK i \in 1 .. Len(sent[c]) : ct = sent[c][i].ct
  BY <1>2
<1>3. i \in 1 .. Len(sent[c]) /\ ct = sent[c][i].ct /\ sent[c] \in Seq(Records)
  BY DEF IInv, TypeOK
<1>4. c = ch /\ Nonce(ch, i - 1) = Nonce(ch, seq)
  BY <1>1, <1>3 DEF IInv, SentInOrder
<1>5. i = seq + 1
  BY <1>4, <1>3 DEF Nonce, SeqNumbers
<1>6. d = [type |-> sent[ch][i].type, pt |-> sent[ch][i].ct.pt]
  BY <1>1, <1>3, <1>4 DEF IInv, SentInOrder
<1>7. d \in Deliveries
  <2>1. sent[ch][i].ct.pt \in Payloads
    <3>1. sent[ch][i] \in Records
      BY <1>3, <1>4
    <3> QED BY <3>1 DEF Records, Ciphertexts
  <2> QED BY <2>1, <1>3, <1>4 DEF Deliveries
<1> HIDE DEF d
<1> DEFINE app == Append(delivered[ch], d)
<1>a. /\ app \in Seq(Deliveries)
      /\ Len(app) = Len(delivered[ch]) + 1
      /\ \A j \in 1 .. Len(delivered[ch]) : app[j] = delivered[ch][j]
      /\ app[Len(delivered[ch]) + 1] = d
  BY <1>7, AppendFacts DEF IInv, TypeOK
<1>b. delivered' = [delivered EXCEPT ![ch] = app]
  BY <1>1
<1> HIDE DEF app
<1>8. \A e \in Channels : delivered'[e] = IF e = ch THEN app ELSE delivered[e]
  BY <1>b DEF IInv, TypeOK
<1>9. TypeOK'
  <2>1. (recvSeq \in [Channels -> 0 .. SeqSpace])'
    BY <1>1, ConstantsAssumption DEF IInv, TypeOK, SeqNumbers
  <2>2. (delivered \in [Channels -> Seq(Deliveries)])'
    BY <1>a, <1>b, SetsRigid DEF IInv, TypeOK
  <2>3. (sent \in [Channels -> Seq(Records)])'
    BY <1>1, SetsRigid DEF IInv, TypeOK
  <2>4. (sendSeq \in [Channels -> 0 .. SeqSpace + MaxOverrun])'
    BY <1>1 DEF IInv, TypeOK
  <2> QED BY <2>1, <2>2, <2>3, <2>4 DEF TypeOK
<1>10. SentInOrder' /\ SendCounter'
  BY <1>1 DEF IInv, SentInOrder, SendCounter, Nonce
<1>11. RecvCounter'
  BY <1>1, <1>a, <1>8 DEF IInv, TypeOK, RecvCounter
<1>12. DeliveredIsPrefix'
  <2> SUFFICES ASSUME NEW e \in Channels
      PROVE  /\ Len(delivered'[e]) <= Len(sent[e])
             /\ \A j \in 1 .. Len(delivered'[e]) :
                  delivered'[e][j] = [type |-> sent[e][j].type, pt |-> sent[e][j].ct.pt]
    <3>1. sent' = sent
      BY <1>1
    <3> QED BY <3>1 DEF DeliveredIsPrefix
  <2>1. CASE e # ch
    BY <2>1, <1>8 DEF IInv, DeliveredIsPrefix
  <2>2. CASE e = ch
    <3>1. delivered[e] \in Seq(Deliveries)
      BY DEF IInv, TypeOK
    <3>2. Len(delivered[e]) = seq
      BY <1>1, <2>2 DEF IInv, RecvCounter
    <3>3. Len(delivered'[e]) = i
      BY <1>5, <1>a, <1>8, <2>2, <3>1, <3>2
    <3>4. \A j \in 1 .. i : delivered'[e][j] = IF j = i THEN d ELSE delivered[e][j]
      BY <1>5, <1>a, <1>8, <2>2, <3>1, <3>2
    <3>5. \A j \in 1 .. i : j # i => j \in 1 .. Len(delivered[e])
      BY <1>5, <3>2 DEF SeqNumbers
    <3>6. i <= Len(sent[e])
      BY <1>3, <1>4, <2>2
    <3> QED BY <3>3, <3>4, <3>5, <3>6, <1>6, <2>2 DEF IInv, DeliveredIsPrefix
  <2> QED BY <2>1, <2>2
<1> QED BY <1>9, <1>10, <1>11, <1>12 DEF IInv

\* A rejected frame leaves both ends as they were.
LEMMA RejectIInv ==
  ASSUME IInv, NEW ch \in Channels,
         recvSeq' = [recvSeq EXCEPT ![ch] = SeqAfterReject(ch)],
         UNCHANGED <<sendSeq, sent, delivered>>
  PROVE  IInv'
<1>1. UNCHANGED vars
  BY DEF SeqAfterReject, IInv, TypeOK, vars
<1> QED BY <1>1, StutterIInv

\* Every step of the record layer keeps the invariant.
LEMMA NextIInv == IInv /\ [Next]_vars => IInv'
<1> SUFFICES ASSUME IInv, [Next]_vars PROVE IInv'
  OBVIOUS
<1>1. CASE UNCHANGED vars
  BY <1>1, StutterIInv
<1>2. CASE Next
  <2> PICK ch \in Channels :
        \/ \E type \in ContentTypes, pt \in Payloads : Encrypt(ch, type, pt)
        \/ EncryptOverflow(ch)
        \/ \E type \in ContentTypes, seq \in SeqNumbers, ct \in OnNetwork :
             \/ Decrypt(ch, type, seq, ct)
             \/ DecryptRejects(ch, type, seq, ct)
        \/ DecryptDamaged(ch)
    BY <1>2 DEF Next
  <2>1. CASE \E type \in ContentTypes, pt \in Payloads : Encrypt(ch, type, pt)
    BY <2>1, EncryptIInv
  <2>2. CASE EncryptOverflow(ch)
    BY <2>2, OverflowIInv
  <2>3. CASE \E type \in ContentTypes, seq \in SeqNumbers, ct \in OnNetwork :
               Decrypt(ch, type, seq, ct)
    BY <2>3, DecryptIInv
  <2>4. CASE \E type \in ContentTypes, seq \in SeqNumbers, ct \in OnNetwork :
               DecryptRejects(ch, type, seq, ct)
    BY <2>4, RejectIInv DEF DecryptRejects
  <2>5. CASE DecryptDamaged(ch)
    BY <2>5, RejectIInv DEF DecryptDamaged
  <2> QED BY <2>1, <2>2, <2>3, <2>4, <2>5
<1> QED BY <1>1, <1>2 DEF vars

\* The invariant holds throughout.
THEOREM Invariance == Spec => []IInv
BY InitIInv, NextIInv, PTL DEF Spec

-----------------------------------------------------------------------------
\* The counters and logs of every DirectionState keep their types.
THEOREM TypeCorrect == Spec => []TypeOK
<1>1. IInv => TypeOK
  BY DEF IInv
<1> QED BY Invariance, <1>1, PTL

\* decrypt() hands on a prefix of what the peer's encrypt() was given, whatever
\* the network does (record.py 75-84).
THEOREM PrefixDelivery == Spec => []DeliveredIsPrefix
<1>1. IInv => DeliveredIsPrefix
  BY DEF IInv
<1> QED BY Invariance, <1>1, PTL

\* encrypt() never seals two records of one key under one nonce (record.py 66-73).
THEOREM NonceUniqueness == Spec => []NonceNeverReused
<1>1. IInv => NonceNeverReused
  <2> SUFFICES ASSUME IInv, NEW ch \in Channels,
                      NEW i \in 1 .. Len(sent[ch]), NEW j \in 1 .. Len(sent[ch]),
                      sent[ch][i].ct.nonce = sent[ch][j].ct.nonce
      PROVE  i = j
    BY DEF NonceNeverReused
  <2>1. Nonce(ch, i - 1) = Nonce(ch, j - 1)
    BY DEF IInv, SentInOrder
  <2>2. Nonce(ch, i - 1).seq = Nonce(ch, j - 1).seq
    BY <2>1
  <2> QED BY <2>2 DEF Nonce
<1> QED BY Invariance, <1>1, PTL
=============================================================================
