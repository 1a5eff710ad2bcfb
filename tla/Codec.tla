------------------------------- MODULE Codec --------------------------------
(***************************************************************************)
(* The byte formats of the protocol: messages (codec.py), the certificate  *)
(* chain (pki.py), the server configuration (server_config.py), the OPAQUE *)
(* messages KE1 and KE2 (opaque_adapter.py), and what is hashed or signed  *)
(* (tls13_kdf.py, pki.py).  A message is a record of byte strings; the     *)
(* text of alerts and the dates in a configuration are byte strings too.   *)
(* Encoders and decoders follow the code each on its own.                  *)
(***************************************************************************)
EXTENDS Bytes

CONSTANTS
  HashLen, NonceLen,  \* HASH_LEN, NONCE_LEN
  PointLen, EphLen, MacLen,  \* POINT_LEN, _S_EPH_LEN, _MAC_LEN of KE1 and KE2
  U16, U24, U32, U64  \* bytes of the integers

ASSUME WidthsAssumption ==
  {HashLen, NonceLen, PointLen, EphLen, MacLen, U16, U24, U32, U64} \subseteq Nat \ {0}

-----------------------------------------------------------------------------
(* Encoders.  Encodable is where they would raise instead. *)

P16(d) == BigEndian(Len(d), U16) \o d
P24(d) == BigEndian(Len(d), U24) \o d

EncodeClientHello(m) == <<1>> \o m.version \o m.cred \o m.nonce \o P16(m.ke1)

EncodeServerHelloCoreShort(m) == m.version \o m.nonce \o P16(m.ke2) \o P16(m.cert) \o P16(m.config)
EncodeServerHelloCore(m) == m.version \o m.nonce \o P16(m.ke2) \o P24(m.cert) \o P16(m.config)
EncodeServerHello(m) ==
  <<2>> \o EncodeServerHelloCore(m) \o P16(m.configSig) \o P16(m.verifySig)

EncodeClientFinish(m) == <<3>> \o P16(m.ke3)
EncodeAppData(m) == <<4>> \o m.seq \o BigEndian(Len(m.ct), U32) \o m.ct
EncodeAlert(m) == <<5>> \o m.level \o P16(m.text)

EncodeCertChain(m) == P24(m.ca) \o P24(m.cert)
EncodeServerConfig(m) == m.suite \o P16(m.name) \o m.timestamp
PackKe1(m) == m.m \o m.nonce \o m.eph
PackKe2(m) == m.z \o P24(m.env) \o m.nonce \o m.eph \o m.mac

Widths == [ke1 |-> U16, ke2 |-> U16, cert |-> U24, config |-> U16, configSig |-> U16, verifySig |-> U16,
           ke3 |-> U16, ct |-> U32, text |-> U16, ca |-> U24, name |-> U16, env |-> U24]
Encodable(m) == \A f \in DOMAIN m \cap DOMAIN Widths : Fits(Len(m[f]), Widths[f])

-----------------------------------------------------------------------------
(* The reader _R: a position and the fields so far, or an error. *)

Failed == [ok |-> FALSE, pos |-> 0, fields |-> <<>>]
At(pos) == [ok |-> TRUE, pos |-> pos, fields |-> <<>>]

\* read(n), its result kept under a name.
With(fields, name, value) == [n \in DOMAIN fields \cup {name} |-> IF n = name THEN value ELSE fields[n]]
ReadUnchecked(d, r, name, n) ==
  IF ~r.ok THEN Failed
  ELSE [ok |-> TRUE, pos |-> r.pos + n, fields |-> With(r.fields, name, Slice(d, r.pos, n))]
Read(d, r, name, n) ==
  IF ~r.ok \/ Len(Slice(d, r.pos, n)) # n THEN Failed
  ELSE [ok |-> TRUE, pos |-> r.pos + n, fields |-> With(r.fields, name, Slice(d, r.pos, n))]

\* v16, v24 and read(u32()): a length and as many bytes.
ReadPrefixed(d, r, name, width) ==
  LET length == Slice(d, r.pos, width)
  IN IF ~r.ok \/ Len(length) # width THEN Failed
     ELSE Read(d, [ok |-> TRUE, pos |-> r.pos + width, fields |-> r.fields], name, FromBigEndian(length))

Fixed(name, n) == [name |-> name, prefixed |-> FALSE, n |-> n]
Prefixed(name, width) == [name |-> name, prefixed |-> TRUE, n |-> width]

\* Reads one after the other.
ReadField(d, r, f) == IF f.prefixed THEN ReadPrefixed(d, r, f.name, f.n) ELSE Read(d, r, f.name, f.n)
ReadAll(d, start, layout) ==
  LET reader[i \in 0 .. Len(layout)] == IF i = 0 THEN start ELSE ReadField(d, reader[i - 1], layout[i])
  IN reader[Len(layout)]

\* assert r.u8() == tag, then the fields.
Decode(tag, d, layout) ==
  IF Slice(d, 0, 1) = <<tag>> THEN ReadAll(d, At(1), layout) ELSE Failed

DecodeClientHello(d) ==
  Decode(1, d, <<Fixed("version", 1), Fixed("cred", HashLen), Fixed("nonce", NonceLen), Prefixed("ke1", U16)>>)
DecodeServerHello(d) ==
  Decode(2, d, <<Fixed("version", 1), Fixed("nonce", NonceLen), Prefixed("ke2", U16), Prefixed("cert", U24),
                 Prefixed("config", U16), Prefixed("configSig", U16), Prefixed("verifySig", U16)>>)
DecodeClientFinish(d) == Decode(3, d, <<Prefixed("ke3", U16)>>)
DecodeAppData(d) == Decode(4, d, <<Fixed("seq", U64), Prefixed("ct", U32)>>)
DecodeAlert(d) == Decode(5, d, <<Fixed("level", 1), Prefixed("text", U16)>>)

-----------------------------------------------------------------------------
(* Decoders that slice: they do not use _R. *)

\* _decode_cert_chain: certificates until the bytes are used up, exactly two.
DecodeCertChain(d) ==
  LET r == ReadAll(d, At(0), <<Prefixed("ca", U24), Prefixed("cert", U24)>>)
  IN IF r.ok /\ r.pos = Len(d) THEN r ELSE Failed

\* decode_server_config: three lengths are tested, the rest is slices.
DecodeServerConfigNoLength(d) ==
  LET length == FromBigEndian(Slice(d, 4, U16))
  IN IF Len(d) < 4 + U16 + U64 THEN Failed
     ELSE [ok |-> TRUE, pos |-> 4 + U16 + length + U64,
           fields |-> [suite |-> Slice(d, 0, 4), name |-> Slice(d, 4 + U16, length),
                       timestamp |-> Slice(d, 4 + U16 + length, U64)]]
DecodeServerConfig(d) ==
  LET length == FromBigEndian(Slice(d, 4, U16))
  IN IF Len(d) < 4 + U16 + U64 \/ Len(d) < 4 + U16 + length + U64 THEN Failed
     ELSE [ok |-> TRUE, pos |-> 4 + U16 + length + U64,
           fields |-> [suite |-> Slice(d, 0, 4), name |-> Slice(d, 4 + U16, length),
                       timestamp |-> Slice(d, 4 + U16 + length, U64)]]

\* _unpack_ke1, and _load_pub on the last part (of full length here).
UnpackKe1(d) ==
  LET m == [m |-> Slice(d, 0, PointLen), nonce |-> Slice(d, PointLen, NonceLen),
            eph |-> SubSeq(d, PointLen + NonceLen + 1, Len(d))]
  IN IF Len(m.eph) = EphLen THEN [ok |-> TRUE, pos |-> Len(d), fields |-> m] ELSE Failed

\* _unpack_ke2 checks nothing; the client goes on only if the ephemeral key
\* loads and the MAC is right, which takes a MAC of full length.
UnpackKe2(d) ==
  LET envAt == PointLen + U24
      nonceAt == envAt + FromBigEndian(Slice(d, PointLen, U24))
      ephAt == nonceAt + NonceLen
      macAt == ephAt + EphLen
      m == [z |-> Slice(d, 0, PointLen), env |-> Slice(d, envAt, nonceAt - envAt),
            nonce |-> Slice(d, nonceAt, NonceLen), eph |-> Slice(d, ephAt, EphLen),
            mac |-> Slice(d, macAt, MacLen)]
  IN IF Len(m.eph) = EphLen /\ Len(m.mac) = MacLen
     THEN [ok |-> TRUE, pos |-> macAt + MacLen, fields |-> m] ELSE Failed

-----------------------------------------------------------------------------
(* What is hashed, signed, or expanded *)

\* Transcript.add for each part; digest hashes the concatenation.
AddUnprefixed(part) == part.label \o part.value
Add(part) ==
  BigEndian(Len(part.label), U16) \o part.label \o BigEndian(Len(part.value), U32) \o part.value
TranscriptBytes(parts) == FlattenSeq([i \in 1 .. Len(parts) |-> Add(parts[i])])

\* _build_cv_message behind its fixed prefix: hash_bytes(th, core).
CertVerifyBytes(th, core) == th \o core

\* The info string of hkdf_expand_label behind the length of the output.
HkdfLabel(label, context) ==
  BigEndian(Len(label), 1) \o label \o BigEndian(Len(context), 1) \o context
=============================================================================
