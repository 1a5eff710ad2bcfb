------------------------------- MODULE Opaque -------------------------------
(***************************************************************************)
(* The OPAQUE exchange of opaque_adapter.py and the signatures of pki.py,  *)
(* as terms.  Keys, nonces and blinds are <<name, n>> where n is the       *)
(* connection that drew them, so two draws never collide; a private key    *)
(* and its public key are one name.  A primitive is modelled by what it    *)
(* tells apart: an OPRF value unblinds only with its own blind, an         *)
(* envelope opens only with the key that sealed it, a Diffie-Hellman value *)
(* is the unordered pair of its keys, a MAC or a signature verifies only   *)
(* over the value it was made for.                                         *)
(***************************************************************************)
EXTENDS Naturals, Sequences

CONSTANTS
  None,  \* no record, no key
  Bad    \* bytes damaged on the way: equal to no term of an endpoint

ServerKey == <<"server", 0>>

-----------------------------------------------------------------------------
(* OPRF, envelope, triple Diffie-Hellman *)

\* M = r * H(pw)
OprfBlind(pw, r) == [pw |-> pw, r |-> r]

\* Z = k * M
OprfEvaluate(k, m) == [k |-> k, m |-> m]

\* N = Z / r = k * H(pw), hashed with the password; N is noise unless Z came
\* from this blind.
OprfFinalize(pw, r, z) ==
  [n  |-> IF z # Bad /\ z.m # Bad /\ z.m.r = r THEN [k |-> z.k, pw |-> z.m.pw] ELSE Bad,
   pw |-> pw]

\* Argon2id, HKDF and AES-GCM: one key per OPRF output.
EnvelopeSeal(rw, cPriv, sPub) == [rw |-> rw, cPriv |-> cPriv, sPub |-> sPub]
EnvelopeOpens(rw, env) == env.rw = rw

Ecdh(a, b) == {a, b}

\* mac_key and session_key: both are functions of these two.
Derive3DH(dh1, dh2, dh3, transcript) ==
  [ikm |-> <<dh1, dh2, dh3>>, transcript |-> transcript]

\* HMAC over the OPAQUE transcript, and for the client over the server's MAC.
ServerMac(keys) == [by |-> "server", keys |-> keys]
ClientMac(keys) == [by |-> "client", keys |-> keys]

OpaqueTranscript(ke1, z, env, nonce, eph) ==
  <<ke1.m, ke1.nonce, ke1.eph, z, env, nonce, eph>>

-----------------------------------------------------------------------------
(* ConcreteOpaqueClient, for the client of connection i *)

RegistrationStart(pw, i) == [m |-> OprfBlind(pw, <<"blind", i>>), nonce |-> None, eph |-> None]

\* The record (c_pub, envelope) that the server is to store.
RegistrationFinish(pw, i, response) ==
  [cPub |-> <<"client", i>>,
   env  |-> EnvelopeSeal(OprfFinalize(pw, <<"blind", i>>, response.z),
                         <<"client", i>>, response.sPub)]

ClientLoginStart(pw, i) ==
  [m |-> OprfBlind(pw, <<"blind", i>>), nonce |-> <<"cnonce", i>>, eph |-> <<"ceph", i>>]

\* The keys of the exchange, or None: the envelope does not open (wrong
\* password) or the server's MAC is not the expected one.
ClientLoginFinish(pw, i, ke2) ==
  LET ke1 == ClientLoginStart(pw, i)
      rw == OprfFinalize(pw, <<"blind", i>>, ke2.z)
      keys == Derive3DH(Ecdh(ke1.eph, ke2.env.sPub), Ecdh(ke2.env.cPriv, ke2.eph),
                        Ecdh(ke1.eph, ke2.eph),
                        OpaqueTranscript(ke1, ke2.z, ke2.env, ke2.nonce, ke2.eph))
  IN IF EnvelopeOpens(rw, ke2.env) /\ ke2.mac = ServerMac(keys) THEN keys ELSE None

-----------------------------------------------------------------------------
(* ConcreteOpaqueServer, for the server thread of connection i *)

\* A fresh OPRF key, kept by this session until the upload.
PendingOprfKey(i) == <<"oprf", i>>

RegistrationRespond(i, ke1) ==
  [z |-> OprfEvaluate(PendingOprfKey(i), ke1.m), sPub |-> ServerKey]

\* What an unknown user is answered with: a key and an envelope of noise.
FakeRecord(i) ==
  [oprfKey |-> <<"fakeoprf", i>>, cPub |-> <<"fakeclient", i>>,
   env |-> EnvelopeSeal([n |-> Bad, pw |-> Bad], <<"fakeclient", i>>, ServerKey)]

\* KE2 and the state kept for login_finish.
ServerLoginStart(i, stored, ke1) ==
  LET record == IF stored = None THEN FakeRecord(i) ELSE stored
      z == OprfEvaluate(record.oprfKey, ke1.m)
      eph == <<"seph", i>>
      nonce == <<"snonce", i>>
      keys == Derive3DH(Ecdh(ServerKey, ke1.eph), Ecdh(eph, record.cPub), Ecdh(eph, ke1.eph),
                        OpaqueTranscript(ke1, z, record.env, nonce, eph))
  IN [ke2 |-> [z |-> z, env |-> record.env, nonce |-> nonce, eph |-> eph,
               mac |-> ServerMac(keys)],
      keys |-> keys, fake |-> stored = None]

\* login_finish: refused for an unknown user and for a wrong client MAC.
ServerLoginFinishNoMac(state, ke3) == ~state.fake
ServerLoginFinish(state, ke3) == ~state.fake /\ ke3 # Bad /\ ke3 = ClientMac(state.keys)

-----------------------------------------------------------------------------
(* Signatures with the server's certified key *)

SignServerConfig(config) == [by |-> ServerKey, config |-> config]

\* Over the transcript up to the ClientHello and the core of the ServerHello.
SignCertVerify(transcript, core) == [by |-> ServerKey, transcript |-> transcript, core |-> core]
=============================================================================
