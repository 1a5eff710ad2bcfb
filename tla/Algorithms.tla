----------------------------- MODULE Algorithms -----------------------------
(***************************************************************************)
(* The pure functions of the code on every small input: a step picks one   *)
(* input, and each invariant says what the functions do with the inputs of *)
(* its kind.  The code calls them with values from the network, from files *)
(* or of its own making; nothing relates one call to the next.             *)
(***************************************************************************)
EXTENDS Codec, Curve

CONSTANTS
  MaxField,   \* longest field of a message, in bytes
  MaxBytes,   \* longest byte string given to a decoder
  MaxParts    \* most parts of a transcript

ASSUME InputsAssumption == {MaxField, MaxBytes, MaxParts} \subseteq Nat

VARIABLE input

Strings(n) == [1 .. n -> Byte]
StringsUpTo(n) == UNION {Strings(i) : i \in 0 .. n}
Field16 == StringsUpTo(MaxField)

-----------------------------------------------------------------------------
(* Formats: what is encoded, how, and how it is read back *)

Formats == {"ClientHello", "ServerHello", "ClientFinish", "AppData", "Alert",
            "CertChain", "ServerConfig", "Ke1", "Ke2"}
Sliced == {"CertChain", "ServerConfig", "Ke1", "Ke2"}

Encode(format, m) ==
  CASE format = "ClientHello" -> EncodeClientHello(m)
    [] format = "ServerHello" -> EncodeServerHello(m)
    [] format = "ClientFinish" -> EncodeClientFinish(m)
    [] format = "AppData" -> EncodeAppData(m)
    [] format = "Alert" -> EncodeAlert(m)
    [] format = "CertChain" -> EncodeCertChain(m)
    [] format = "ServerConfig" -> EncodeServerConfig(m)
    [] format = "Ke1" -> PackKe1(m)
    [] format = "Ke2" -> PackKe2(m)

DecodeAs(format, d) ==
  CASE format = "ClientHello" -> DecodeClientHello(d)
    [] format = "ServerHello" -> DecodeServerHello(d)
    [] format = "ClientFinish" -> DecodeClientFinish(d)
    [] format = "AppData" -> DecodeAppData(d)
    [] format = "Alert" -> DecodeAlert(d)
    [] format = "CertChain" -> DecodeCertChain(d)
    [] format = "ServerConfig" -> DecodeServerConfig(d)
    [] format = "Ke1" -> UnpackKe1(d)
    [] format = "Ke2" -> UnpackKe2(d)

\* The reader's layouts for the formats that are decoded by slicing.
Layout(format) ==
  CASE format = "CertChain" -> <<Prefixed("ca", U24), Prefixed("cert", U24)>>
    [] format = "ServerConfig" -> <<Fixed("suite", 4), Prefixed("name", U16), Fixed("timestamp", U64)>>
    [] format = "Ke1" -> <<Fixed("m", PointLen), Fixed("nonce", NonceLen), Fixed("eph", EphLen)>>
    [] format = "Ke2" -> <<Fixed("z", PointLen), Prefixed("env", U24), Fixed("nonce", NonceLen),
                           Fixed("eph", EphLen), Fixed("mac", MacLen)>>

\* These two refuse bytes behind the last field.
ToTheEnd == {"CertChain", "Ke1"}

Messages(format) ==
  CASE format = "ClientHello" ->
         [version : Strings(1), cred : Strings(HashLen), nonce : Strings(NonceLen), ke1 : Field16]
    [] format = "ServerHello" ->
         [version : {<<0>>}, nonce : Strings(NonceLen), ke2 : Field16, cert : Field16,
          config : Field16, configSig : Field16, verifySig : Field16]
    [] format = "ClientFinish" -> [ke3 : Field16]
    [] format = "AppData" -> [seq : Strings(U64), ct : Field16]
    [] format = "Alert" -> [level : Strings(1), text : Field16]
    [] format = "CertChain" -> [ca : Field16, cert : Field16]
    [] format = "ServerConfig" -> [suite : Strings(4), name : Field16, timestamp : Strings(U64)]
    [] format = "Ke1" -> [m : Strings(PointLen), nonce : Strings(NonceLen), eph : Strings(EphLen)]
    [] format = "Ke2" -> [z : Strings(PointLen), env : Field16, nonce : Strings(NonceLen),
                          eph : Strings(EphLen), mac : Strings(MacLen)]

Tag == [ClientHello |-> <<1>>, ServerHello |-> <<2>>, ClientFinish |-> <<3>>, AppData |-> <<4>>, Alert |-> <<5>>]
Frames(format) == IF format \in Sliced THEN StringsUpTo(MaxBytes) ELSE {Tag[format] \o d : d \in StringsUpTo(MaxBytes)}

-----------------------------------------------------------------------------
(* Inputs *)

Nothing == [about |-> "nothing"]

PickMessage ==
  \E format \in Formats : \E m \in Messages(format) : \E trailing \in StringsUpTo(1) :
    input' = [about |-> "message", format |-> format, m |-> m, trailing |-> trailing]

PickFrame ==
  \E format \in Formats : \E d \in Frames(format) :
    input' = [about |-> "frame", format |-> format, d |-> d]

Parts == [label : StringsUpTo(1), value : StringsUpTo(1)]
PickTranscripts ==
  \E n, k \in 0 .. MaxParts : \E ps \in [1 .. n -> Parts], qs \in [1 .. k -> Parts] :
    input' = [about |-> "transcripts", parts |-> ps, others |-> qs]

PickLabels ==
  \E l1, l2, c1, c2 \in StringsUpTo(1) : \E th1, th2 \in Strings(HashLen) : \E s1, s2 \in StringsUpTo(2) :
    input' = [about |-> "labels", label1 |-> l1, context1 |-> c1, label2 |-> l2, context2 |-> c2,
              th1 |-> th1, core1 |-> s1, th2 |-> th2, core2 |-> s2]

PickPoints ==
  \E P, Q, R \in Group : input' = [about |-> "points", P |-> P, Q |-> Q, R |-> R]

PickScalar ==
  \E k \in 0 .. 2 * Order + 1 : \E P \in Curve : input' = [about |-> "scalar", k |-> k, P |-> P]

\* Keys and blinds are private values of generate_private_key.
PickBlind ==
  \E r, k \in 1 .. Order - 1 : \E h \in Curve : input' = [about |-> "blind", r |-> r, k |-> k, h |-> h]

Pick == PickMessage \/ PickFrame \/ PickTranscripts \/ PickLabels \/ PickPoints \/ PickScalar \/ PickBlind

Init == input = Nothing
Next == input = Nothing /\ Pick
Spec == Init /\ [][Next]_input

-----------------------------------------------------------------------------
(* What the functions promise *)

\* Every message that can be encoded comes back from its decoder, whatever
\* bytes follow it in the frame (the reader of codec.py never asks whether it
\* is at the end); the two decoders that do ask refuse the longer frame.
RoundTrip ==
  input.about = "message" /\ Encodable(input.m) =>
    LET bytes == Encode(input.format, input.m)
        r == DecodeAs(input.format, bytes \o input.trailing)
    IN IF input.format \in ToTheEnd /\ input.trailing # <<>> THEN ~r.ok
       ELSE r.ok /\ r.fields = input.m /\ r.pos = Len(bytes)

\* A frame that is decoded is the encoding of what was decoded, followed by
\* bytes that no field depends on: no frame cut short is taken for a message
\* and no two encodings stand for one.  The client signs off on a ServerHello
\* whose core it encodes again (_verify_server_hello), so the bytes it
\* verifies must be the bytes it received.
DecodedIsEncoded ==
  input.about = "frame" =>
    LET r == DecodeAs(input.format, input.d)
    IN r.ok => /\ Encodable(r.fields)
               /\ r.pos <= Len(input.d)
               /\ Encode(input.format, r.fields) = SubSeq(input.d, 1, r.pos)
               /\ input.format = "ServerHello" =>
                    EncodeServerHelloCore(r.fields) =
                      SubSeq(input.d, 2, 1 + Len(EncodeServerHelloCore(r.fields)))

\* The decoders that slice, and so meet no error where the bytes run out,
\* accept and return what a reader that tests every length does:
\* decode_server_config tests twice, _unpack_ke1 and _unpack_ke2 never, and
\* they rely on the last point and the MAC being whole.
SlicesAgreeWithReader ==
  input.about = "frame" /\ input.format \in Sliced =>
    LET sliced == DecodeAs(input.format, input.d)
        read == ReadAll(input.d, At(0), Layout(input.format))
        whole == read.ok /\ (input.format \in ToTheEnd => read.pos = Len(input.d))
    IN /\ sliced.ok <=> whole
       /\ whole => sliced.fields = read.fields

\* Two transcripts hash the same bytes only if they have the same parts in
\* the same order, although labels and values are of any length
\* (Transcript.add); so do the bytes a certificate verify signs and the
\* labels of hkdf_expand_label.
TranscriptBinds ==
  /\ input.about = "transcripts" /\ TranscriptBytes(input.parts) = TranscriptBytes(input.others) =>
       input.parts = input.others
  /\ input.about = "labels" =>
       /\ CertVerifyBytes(input.th1, input.core1) = CertVerifyBytes(input.th2, input.core2) =>
            input.th1 = input.th2 /\ input.core1 = input.core2
       /\ HkdfLabel(input.label1, input.context1) = HkdfLabel(input.label2, input.context2) =>
            input.label1 = input.label2 /\ input.context1 = input.context2

\* A point added up k times.
Multiple(k, P) ==
  LET sum[i \in 0 .. k] == IF i = 0 THEN Infinity ELSE AffineAdd(sum[i - 1], P)
  IN sum[k]

GroupLaws(P, Q, R) ==
  /\ AffineAdd(P, Q) \in Group
  /\ AffineAdd(P, Q) = AffineAdd(Q, P)
  /\ AffineAdd(AffineAdd(P, Q), R) = AffineAdd(P, AffineAdd(Q, R))
  /\ \E opposite \in Group : AffineAdd(P, opposite) = Infinity
  /\ Multiple(Order, P) = Infinity

\* _p256_affine_add is the addition of a commutative group on the points of
\* the curve, equal points, opposite points and the point at infinity
\* included, and P256_ORDER brings every point back to infinity.
AdditionIsGroup ==
  input.about = "points" => GroupLaws(input.P, input.Q, input.R)

\* _p256_scalar_mult adds the point k times, and raises exactly when that is
\* the point at infinity; compressing and decompressing keep the point.
ScalarMultIsRepeatedAddition ==
  input.about = "scalar" =>
    LET sum == Multiple(input.k, input.P)
    IN ScalarMult(input.k, Compress(input.P)) = IF sum = Infinity THEN Refused ELSE Compress(sum)

\* What the client derives keys from, r^-1 (k (r H)), is k H whatever the
\* blind: a password registered with one blind is recognised with any other,
\* and no login raises on the way (_oprf_blind, _oprf_evaluate, _oprf_finalize).
BlindCancels ==
  input.about = "blind" =>
    LET h == Compress(input.h)
        blinded == OprfBlind(input.r, h)
        evaluated == OprfEvaluate(input.k, blinded)
    IN /\ Refused \notin {blinded, evaluated}
       /\ OprfFinalize(input.r, evaluated) = OprfEvaluate(input.k, h)
       /\ OprfFinalize(input.r, evaluated) # Refused
=============================================================================
