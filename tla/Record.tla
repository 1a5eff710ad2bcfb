------------------------------- MODULE Record -------------------------------
(***************************************************************************)
(* The record layer of record.py: DirectionState objects in pairs, one     *)
(* sender and one receiver per traffic secret.  A channel stands for one   *)
(* traffic secret (client_app or server_app of some handshake), so two     *)
(* channels never share a key.  Between the two ends lies a network that   *)
(* may lose, repeat, reorder and damage frames, hand a frame of one        *)
(* channel to another one, and put any sequence number on any ciphertext.  *)
(* The caller of decrypt() passes the content type it expects.             *)
(***************************************************************************)
EXTENDS Integers, Sequences

CONSTANTS
  Channels,      \* traffic secrets in use
  ContentTypes,  \* content-type values given to encrypt() and decrypt()
  Payloads,      \* plaintexts
  PayloadLen,    \* their lengths in bytes
  SeqSpace,      \* number of sequence numbers seq.to_bytes(8) can hold: 2^64
  MaxOverrun     \* bound: calls of encrypt() that fail after exhaustion

ASSUME ConstantsAssumption ==
  /\ PayloadLen \in [Payloads -> Nat]
  /\ SeqSpace \in Nat \ {0}
  /\ MaxOverrun \in Nat

VARIABLES
  sendSeq,    \* seq of the sender's DirectionState, per channel
  recvSeq,    \* seq of the receiver's DirectionState, per channel
  sent,       \* records encrypt() returned, per channel, in order
  delivered   \* what decrypt() returned, per channel, in order

vars == <<sendSeq, recvSeq, sent, delivered>>

-----------------------------------------------------------------------------
TAG_LEN == 16

\* The numbers that fit the 8-byte field of the frame and of the nonce.
SeqNumbers == 0 .. SeqSpace - 1

\* iv XOR padded seq: for one iv, two sequence numbers give two nonces.
Nonce(ch, seq) == [iv |-> ch, seq |-> seq]

Aad(type, seq, wireLen) == [type |-> type, seq |-> seq, len |-> wireLen]

\* ChaCha20Poly1305: a ciphertext opens under exactly the key, the nonce and
\* the associated data it was sealed with.
Seal(key, nonce, aad, pt) ==
  [key |-> key, nonce |-> nonce, aad |-> aad, pt |-> pt, len |-> PayloadLen[pt] + TAG_LEN]

Opens(key, nonce, aad, ct) == ct.key = key /\ ct.nonce = nonce /\ ct.aad = aad

Ciphertexts ==
  [key : Channels, nonce : [iv : Channels, seq : SeqNumbers],
   aad : [type : ContentTypes, seq : SeqNumbers, len : Nat], pt : Payloads, len : Nat]

\* What encrypt() returns, with the content type the sender meant.
Records == [type : ContentTypes, seq : SeqNumbers, ct : Ciphertexts]

\* What decrypt() returns, with the content type the receiver asked for.
Deliveries == [type : ContentTypes, pt : Payloads]

\* Ciphertexts an endpoint has ever put on the network.
OnNetwork == UNION {{sent[c][i].ct : i \in 1 .. Len(sent[c])} : c \in Channels}

Init ==
  /\ sendSeq = [c \in Channels |-> 0]
  /\ recvSeq = [c \in Channels |-> 0]
  /\ sent = [c \in Channels |-> <<>>]
  /\ delivered = [c \in Channels |-> <<>>]

-----------------------------------------------------------------------------
\* self.seq += 1, for the sender
BumpWraps(seq) == (seq + 1) % SeqSpace
Bump(seq) == seq + 1

\* encrypt(): takes the current number, steps the counter, seals.
Encrypt(ch, type, pt) ==
  LET seq == sendSeq[ch]
      wireLen == PayloadLen[pt] + TAG_LEN
  IN /\ seq \in SeqNumbers
     /\ sendSeq' = [sendSeq EXCEPT ![ch] = Bump(seq)]
     /\ sent' = [sent EXCEPT ![ch] = Append(@,
          [type |-> type, seq |-> seq,
           ct |-> Seal(ch, Nonce(ch, seq), Aad(type, seq, wireLen), pt)])]
     /\ UNCHANGED <<recvSeq, delivered>>

\* encrypt() when the number no longer fits eight bytes: the counter has been
\* stepped when to_bytes raises OverflowError, and nothing is returned.
EncryptOverflow(ch) ==
  /\ sendSeq[ch] \in SeqSpace .. SeqSpace + MaxOverrun - 1
  /\ sendSeq' = [sendSeq EXCEPT ![ch] = Bump(@)]
  /\ UNCHANGED <<recvSeq, sent, delivered>>

\* The checks of decrypt(): the number first, then the AEAD tag.
AcceptsAnySeq(ch, type, seq, ct) ==
  Opens(ch, Nonce(ch, seq), Aad(type, seq, ct.len), ct)
Accepts(ch, type, seq, ct) ==
  /\ seq = recvSeq[ch]
  /\ Opens(ch, Nonce(ch, seq), Aad(type, seq, ct.len), ct)

\* decrypt() succeeds: the counter steps only now.
Decrypt(ch, type, seq, ct) ==
  /\ Accepts(ch, type, seq, ct)
  /\ recvSeq' = [recvSeq EXCEPT ![ch] = @ + 1]
  /\ delivered' = [delivered EXCEPT ![ch] = Append(@, [type |-> type, pt |-> ct.pt])]
  /\ UNCHANGED <<sendSeq, sent>>

\* The counter after decrypt() raised ValueError or InvalidTag.
SeqAfterRejectBumped(ch) == recvSeq[ch] + 1
SeqAfterReject(ch) == recvSeq[ch]

\* decrypt() raises: a wrong number or a frame that does not open.
DecryptRejects(ch, type, seq, ct) ==
  /\ ~Accepts(ch, type, seq, ct)
  /\ recvSeq' = [recvSeq EXCEPT ![ch] = SeqAfterReject(ch)]
  /\ UNCHANGED <<sendSeq, sent, delivered>>

\* decrypt() of bytes that no sender produced: never opens.
DecryptDamaged(ch) ==
  /\ recvSeq' = [recvSeq EXCEPT ![ch] = SeqAfterReject(ch)]
  /\ UNCHANGED <<sendSeq, sent, delivered>>

Next ==
  \E ch \in Channels :
    \/ \E type \in ContentTypes, pt \in Payloads : Encrypt(ch, type, pt)
    \/ EncryptOverflow(ch)
    \/ \E type \in ContentTypes, seq \in SeqNumbers, ct \in OnNetwork :
         \/ Decrypt(ch, type, seq, ct)
         \/ DecryptRejects(ch, type, seq, ct)
    \/ DecryptDamaged(ch)

Spec == Init /\ [][Next]_vars

\* The next record of the channel in the order of sending, as it was sent.
DecryptNext(ch) ==
  /\ recvSeq[ch] < Len(sent[ch])
  /\ LET r == sent[ch][recvSeq[ch] + 1] IN Decrypt(ch, r.type, r.seq, r.ct)

\* The transport keeps offering the receiver the record it waits for.
FairSpec == Spec /\ \A ch \in Channels : WF_vars(DecryptNext(ch))

-----------------------------------------------------------------------------
\* Types; the receive counter never passes the last number plus one, and the send
\* counter only by calls of encrypt() that raised (record.py 66-84).
TypeOK ==
  /\ sendSeq \in [Channels -> 0 .. SeqSpace + MaxOverrun]
  /\ recvSeq \in [Channels -> 0 .. SeqSpace]
  /\ sent \in [Channels -> Seq(Records)]
  /\ delivered \in [Channels -> Seq(Deliveries)]

\* What decrypt() handed to the application is, record for record and type for
\* type, a prefix of what the peer gave to encrypt(): whatever the network does
\* (replay, reorder, reflect, splice channels, renumber, damage) no record is
\* skipped, repeated or taken from another channel (record.py 75-84).
DeliveredIsPrefix ==
  \A ch \in Channels :
    /\ Len(delivered[ch]) <= Len(sent[ch])
    /\ \A i \in 1 .. Len(delivered[ch]) :
         delivered[ch][i] = [type |-> sent[ch][i].type, pt |-> sent[ch][i].ct.pt]

\* No key ever seals two records under one nonce, also when the counter has run
\* past the last number the nonce can hold (record.py 66-73).
NonceNeverReused ==
  \A ch \in Channels : \A i, j \in 1 .. Len(sent[ch]) :
    sent[ch][i].ct.nonce = sent[ch][j].ct.nonce => i = j

\* A rejected frame never wedges the receiver: whatever else it was offered, a
\* record that was sent is accepted when it comes (decrypt() steps its counter
\* "only after successful verification", record.py 43-44).
SentIsDelivered ==
  \A ch \in Channels : \A n \in 1 .. SeqSpace :
    Len(sent[ch]) >= n ~> Len(delivered[ch]) >= n
=============================================================================
