---------------------------- MODULE Certificates ----------------------------
(***************************************************************************)
(* Certificates and the signed server configuration as records (pki.py,    *)
(* server_config.py): what bootstrap_pki puts into them, and every check   *)
(* a client makes before it believes a ServerHello.  A key pair is named   *)
(* by a pair; a signature is the name of the key that made it.  Time is    *)
(* counted in one unit for all validity periods.                           *)
(***************************************************************************)
EXTENDS Integers

CONSTANTS
  CAValidity,     \* CA_VALIDITY_DAYS
  ServerValidity, \* SERVER_VALIDITY_DAYS
  MaxAge          \* SERVER_CONFIG_MAX_AGE_S

ASSUME PeriodsAssumption ==
  CAValidity \in Nat /\ ServerValidity \in Nat /\ MaxAge \in Nat

CAKey(g) == <<"ca", g>>
ServerKeyOf(g) == <<"server", g>>

\* Certificates are dated back a little against skewed clocks.
Backdate == 1
GenerateCA(g, t) ==
  [subject |-> "CSE539 Root CA", issuer |-> "CSE539 Root CA", names |-> {"CSE539 Root CA v1"},
   key |-> CAKey(g), signer |-> CAKey(g), isCA |-> TRUE,
   from |-> t - Backdate, until |-> t - Backdate + CAValidity]

GenerateServerCertPostdated(g, ca, t) ==
  [subject |-> "CSE539 VAULTTLS", issuer |-> ca.subject, names |-> {"localhost"},
   key |-> ServerKeyOf(g), signer |-> ca.key, isCA |-> FALSE,
   from |-> t + Backdate, until |-> t - Backdate + ServerValidity]
GenerateServerCert(g, ca, t) ==
  [subject |-> "CSE539 VAULTTLS", issuer |-> ca.subject, names |-> {"localhost"},
   key |-> ServerKeyOf(g), signer |-> ca.key, isCA |-> FALSE,
   from |-> t - Backdate, until |-> t - Backdate + ServerValidity]

\* The authority of the chain on the wire must be the pinned one to the byte.
Pinned(chain, pinned) == chain.ca = pinned

\* Signed by the key in the issuer's certificate.
SignedBy(cert, issuer) == cert.signer = issuer.key

\* verify_certificate_chain; only the server certificate's dates are looked at.
VerifyCertificateChain(chain, name, pinned, t) ==
  /\ Pinned(chain, pinned)
  /\ SignedBy(pinned, pinned)
  /\ SignedBy(chain.cert, pinned)
  /\ chain.cert.issuer = pinned.subject
  /\ chain.cert.from <= t /\ t <= chain.cert.until
  /\ ~chain.cert.isCA
  /\ name \in chain.cert.names

\* encode_server_config: version, suites, service and the time of signing.
Suite == [version |-> 1, kex |-> "OPAQUE-3DH-P256", aead |-> "ChaCha20-Poly1305", hash |-> "SHA-512"]
ServerConfig(t) == [suite |-> Suite, name |-> "localhost", timestamp |-> t]

ValidServerConfig(config, name, t) ==
  /\ config.suite = Suite
  /\ config.name = name
  /\ t - config.timestamp <= MaxAge /\ config.timestamp - t <= MaxAge

\* What a client checks of a ServerHello before it goes on: the chain, the
\* signature of the configuration and the configuration, CertificateVerify.
BelievesUnsigned(hello, pinned, t) ==
  /\ VerifyCertificateChain(hello.chain, "localhost", pinned, t)
  /\ hello.configSigner = hello.chain.cert.key
  /\ ValidServerConfig(hello.config, "localhost", t)
Believes(hello, pinned, t) ==
  /\ VerifyCertificateChain(hello.chain, "localhost", pinned, t)
  /\ hello.configSigner = hello.chain.cert.key
  /\ ValidServerConfig(hello.config, "localhost", t)
  /\ hello.signer = hello.chain.cert.key
=============================================================================
