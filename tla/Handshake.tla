----------------------------- MODULE Handshake ------------------------------
(***************************************************************************)
(* Registration and login of VAULTTLS: on every connection one client      *)
(* process (register_user.py or client.py) and one server thread           *)
(* (ServerSession of server.py), all threads sharing the password database *)
(* and the rate limiter.  Frames travel in order on their connection, but  *)
(* the network may alter a frame or deliver one recorded elsewhere; peers  *)
(* may stall until the socket timeout; the server may be killed and        *)
(* started again, which keeps the database and nothing else.               *)
(*                                                                         *)
(* Storage and limiter are used here by what they promise (KVStore and     *)
(* RateLimit); record protection by Record's rule that a record opens only *)
(* under its key and at its place.                                         *)
(***************************************************************************)
EXTENDS Opaque

CONSTANTS
  Conns,      \* connections, numbered from 1
  Users,
  Passwords,  \* those that clients type
  Initial,    \* password registered for each user before, None for unknown
  MaxTries,   \* RATE_LIMIT_MAX_TRIES
  MaxFaults,  \* bound: frames the network alters or exchanges
  MaxCrashes, \* bound: server restarts
  Prompt      \* TRUE: peers and network answer within SOCKET_TIMEOUT

ASSUME HandshakeAssumption ==
  /\ Conns \subseteq Nat \ {0}
  /\ DOMAIN Initial = Users
  /\ MaxTries \in Nat \ {0} /\ MaxFaults \in Nat /\ MaxCrashes \in Nat
  /\ Prompt \in BOOLEAN
  /\ Bad \notin Passwords \cup {None}

\* No OPRF value of a registration is what damage makes of bytes.
EveryPassword == Passwords \cup {Initial[u] : u \in Users}
ASSUME TermsAssumption ==
  \A i \in Conns \cup {0}, pw \in EveryPassword :
    LET m == RegistrationStart(pw, i).m
    IN Bad \notin {m, OprfEvaluate(PendingOprfKey(i), m), [k |-> PendingOprfKey(i), pw |-> pw]}

VARIABLES
  client,    \* per connection: the client process
  server,    \* per connection: the server thread
  toServer,  \* per connection: frames on their way to the server
  toClient,  \* per connection: frames on their way to the client
  db,        \* password database: the record of each user
  attempts,  \* limiter: logins counted against each user in the window
  seen,      \* observer: all frames that were sent
  stored,    \* observer: all records that were stored
  faults, crashes

vars == <<client, server, toServer, toClient, db, attempts, seen, stored, faults, crashes>>

-----------------------------------------------------------------------------
(* Frames.  A decoder ignores what follows the last field: `pad` says       *)
(* whether such bytes are there, and they are part of the raw frame that    *)
(* enters the transcript.                                                   *)

LOGIN_VERSION == 1
REG_VERSION == 2
Chain == "pinned chain"
ServerConfig == "current suite"

ClientHello(version, user, nonce, ke1) ==
  [tag |-> "ClientHello", version |-> version, cred |-> user, nonce |-> nonce,
   ke1 |-> ke1, pad |-> FALSE]

\* encode_server_hello_core and encode_server_hello
HelloCore(nonce, cert, config, ke2) ==
  [version |-> 1, nonce |-> nonce, cert |-> cert, config |-> config, ke2 |-> ke2]
SignedHello(core, configSig, verifySig) ==
  [tag |-> "ServerHello", core |-> core, configSig |-> configSig, verifySig |-> verifySig,
   pad |-> FALSE]

\* _build_signed_server_hello of thread i
ServerHello(i, transcript, ke2) ==
  LET core == HelloCore(<<"hello", i>>, Chain, ServerConfig, ke2)
  IN SignedHello(core, SignServerConfig(ServerConfig), SignCertVerify(transcript, core))

ClientFinish(ke3) == [tag |-> "ClientFinish", ke3 |-> ke3, pad |-> FALSE]
AppData(key, seq, pt) ==
  [tag |-> "AppData", seq |-> seq, ct |-> [key |-> key, seq |-> seq, pt |-> pt], pad |-> FALSE]
Alert == [tag |-> "Alert", pad |-> FALSE]
Close == [tag |-> "Close", pad |-> FALSE]

\* derive_traffic_secrets: one secret per direction, bound to the session key
\* and to all raw handshake frames.
TrafficSecretUnbound(keys, transcript, from) == [keys |-> keys, transcript |-> <<>>, from |-> from]
TrafficSecret(keys, transcript, from) == [keys |-> keys, transcript |-> transcript, from |-> from]

\* DirectionState.decrypt with the receiver's secret and counter.
Opens(f, key, seq) == f.seq = seq /\ f.ct # Bad /\ f.ct.key = key /\ f.ct.seq = seq

\* The client's message and the server's echo of it.
Message(i) == <<"hello from", i>>
Echo(pt) == <<"echo", pt>>

-----------------------------------------------------------------------------
NoClient == [pc |-> "start", role |-> None, user |-> None, pw |-> None,
             log |-> <<>>, keys |-> None, got |-> None]
NoServer == [pc |-> "accept", user |-> None, state |-> None, log |-> <<>>, got |-> <<>>]

\* The record a registration with this password on connection 0 left.
EarlierRecord(pw) ==
  LET up == RegistrationFinish(pw, 0, RegistrationRespond(0, RegistrationStart(pw, 0)))
  IN [oprfKey |-> PendingOprfKey(0), cPub |-> up.cPub, env |-> up.env]

Init ==
  /\ client = [i \in Conns |-> NoClient]
  /\ server = [i \in Conns |-> NoServer]
  /\ toServer = [i \in Conns |-> <<>>]
  /\ toClient = [i \in Conns |-> <<>>]
  /\ db = [u \in Users |-> IF Initial[u] = None THEN None ELSE EarlierRecord(Initial[u])]
  /\ attempts = [u \in Users |-> 0]
  /\ seen = {}
  /\ stored = {db[u] : u \in Users} \ {None}
  /\ faults = 0 /\ crashes = 0

ClientClosed(i) == client[i].pc \in {"done", "failed"}
ServerClosed(i) == server[i].pc = "closed"

\* send_frame; a frame for a peer that is gone stays unread.
ToServer(i, f) ==
  /\ toServer' = [toServer EXCEPT ![i] = Append(@, f)]
  /\ seen' = seen \cup {f}
ToClient(i, f) ==
  /\ toClient' = [toClient EXCEPT ![i] = Append(@, f)]
  /\ seen' = seen \cup {f}

\* recv_frame returns the next frame.
ClientReceives(i) == toClient[i] # <<>> /\ toClient' = [toClient EXCEPT ![i] = Tail(@)]
ServerReceives(i) == toServer[i] # <<>> /\ toServer' = [toServer EXCEPT ![i] = Tail(@)]

Env == <<db, attempts, stored, faults, crashes>>

-----------------------------------------------------------------------------
(* The client: register() and client_login(), main() *)

LoginHello(i, user, pw) ==
  LET ke1 == ClientLoginStart(pw, i) IN ClientHello(LOGIN_VERSION, user, ke1.nonce, ke1)
RegistrationHello(i, user, pw) ==
  ClientHello(REG_VERSION, user, <<"regnonce", i>>, RegistrationStart(pw, i))

HelloFor(i, role, user, pw) ==
  IF role = "login" THEN LoginHello(i, user, pw) ELSE RegistrationHello(i, user, pw)

\* Connect, start the exchange, send the ClientHello.
ClientStart(i, role, user, pw) ==
  /\ client[i].pc = "start"
  /\ client' = [client EXCEPT ![i] =
       [@ EXCEPT !.pc = "hello", !.role = role, !.user = user, !.pw = pw,
                 !.log = <<HelloFor(i, role, user, pw)>>]]
  /\ ToServer(i, HelloFor(i, role, user, pw))
  /\ UNCHANGED <<server, toClient, Env>>

\* The certificate chain is the one that ends in the pinned CA.
ChainValid(f) == f.core.cert = Chain
\* The ServerConfig is signed and names the suite and the server expected.
ConfigSigned(f) == f.configSig = SignServerConfig(f.core.config)
ConfigValid(f) == f.core.config = ServerConfig
\* CertificateVerify, over the client's own ClientHello and the core as it was
\* decoded and encoded again.
VerifySigned(i, f) == f.verifySig # Bad /\ f.verifySig = SignCertVerify(client[i].log, f.core)

\* The checks of a client on a frame that should be its ServerHello.
HelloValidNoVerify(i, f) == f.tag = "ServerHello" /\ ChainValid(f) /\ ConfigSigned(f) /\ ConfigValid(f)
HelloValid(i, f) ==
  f.tag = "ServerHello" /\ ChainValid(f) /\ ConfigSigned(f) /\ ConfigValid(f) /\ VerifySigned(i, f)

\* The fields that the client's half of OPAQUE cuts out of KE2.
ParsesAs(role, ke2) == IF role = "login" THEN "mac" \in DOMAIN ke2 ELSE "sPub" \in DOMAIN ke2

ClientKeys(i, f) == ClientLoginFinish(client[i].pw, i, f.core.ke2)

\* The ServerHello lets this client go on: for a login the envelope opens and
\* the server's MAC is right, for a registration the key is the certified one.
HelloAccepted(i, f) ==
  /\ HelloValid(i, f)
  /\ ParsesAs(client[i].role, f.core.ke2)
  /\ IF client[i].role = "login" THEN ClientKeys(i, f) # None ELSE f.core.ke2.sPub = ServerKey

\* An alert, another frame, or a check fails: an exception closes the socket.
ClientRejectsHello(i) ==
  /\ client[i].pc = "hello"
  /\ ClientReceives(i)
  /\ ~HelloAccepted(i, Head(toClient[i]))
  /\ client' = [client EXCEPT ![i].pc = "failed"]
  /\ UNCHANGED <<server, toServer, seen, Env>>

\* client_login: login_finish, send the ClientFinish, derive the secrets.
ClientFinishes(i) ==
  LET f == Head(toClient[i])
      keys == ClientKeys(i, f)
      cf == ClientFinish(ClientMac(keys))
  IN /\ client[i].pc = "hello" /\ client[i].role = "login"
     /\ ClientReceives(i)
     /\ HelloAccepted(i, f)
     /\ client' = [client EXCEPT ![i] =
          [@ EXCEPT !.pc = "ready", !.keys = keys, !.log = client[i].log \o <<f, cf>>]]
     /\ ToServer(i, cf)
     /\ UNCHANGED <<server, Env>>

\* main: send one encrypted message and wait for the reply.
ClientSends(i) ==
  /\ client[i].pc = "ready"
  /\ client' = [client EXCEPT ![i].pc = "reply"]
  /\ ToServer(i, AppData(TrafficSecret(client[i].keys, client[i].log, "client"), 0, Message(i)))
  /\ UNCHANGED <<server, toClient, Env>>

\* main: a reply is decrypted, an exception closes the socket; a frame of
\* another kind is passed over; then Close.
ClientGetsReply(i) ==
  LET f == Head(toClient[i])
      opens == Opens(f, TrafficSecret(client[i].keys, client[i].log, "server"), 0)
  IN /\ client[i].pc = "reply"
     /\ ClientReceives(i)
     /\ \/ /\ f.tag = "AppData" /\ opens
           /\ client' = [client EXCEPT ![i] = [@ EXCEPT !.pc = "done", !.got = f.ct.pt]]
           /\ ToServer(i, Close)
        \/ /\ f.tag = "AppData" /\ ~opens
           /\ client' = [client EXCEPT ![i].pc = "failed"]
           /\ UNCHANGED <<toServer, seen>>
        \/ /\ f.tag # "AppData"
           /\ client' = [client EXCEPT ![i].pc = "done"]
           /\ ToServer(i, Close)
     /\ UNCHANGED <<server, Env>>

\* register: registration_finish, upload the record.
ClientUploads(i) ==
  LET f == Head(toClient[i])
  IN /\ client[i].pc = "hello" /\ client[i].role = "register"
     /\ ClientReceives(i)
     /\ HelloAccepted(i, f)
     /\ client' = [client EXCEPT ![i].pc = "ack"]
     /\ ToServer(i, ClientFinish(RegistrationFinish(client[i].pw, i, f.core.ke2)))
     /\ UNCHANGED <<server, Env>>

\* register: the acknowledgement is a Close frame.
ClientGetsAck(i) ==
  /\ client[i].pc = "ack"
  /\ ClientReceives(i)
  /\ client' = [client EXCEPT ![i].pc = IF Head(toClient[i]).tag = "Close" THEN "done" ELSE "failed"]
  /\ UNCHANGED <<server, toServer, seen, Env>>

\* recv_frame raises: the server closed the connection (with frames unread the
\* kernel resets it and may drop what was sent), or nothing comes in time.
ClientGivesUp(i) ==
  /\ client[i].pc \in {"hello", "reply", "ack"}
  /\ \/ ServerClosed(i) /\ (toClient[i] = <<>> \/ toServer[i] # <<>>)
     \/ ~Prompt /\ toClient[i] = <<>>
  /\ client' = [client EXCEPT ![i].pc = "failed"]
  /\ toClient' = [toClient EXCEPT ![i] = <<>>]
  /\ UNCHANGED <<server, toServer, seen, Env>>

-----------------------------------------------------------------------------
(* The server thread: run(), _handle_registration(), _handle_login()        *)

CloseServer(i) == server' = [server EXCEPT ![i].pc = "closed"]

\* run: the first frame is no ClientHello.
ServerRefuses(i) ==
  /\ server[i].pc = "accept"
  /\ ServerReceives(i)
  /\ Head(toServer[i]).tag # "ClientHello"
  /\ CloseServer(i)
  /\ ToClient(i, Alert)
  /\ UNCHANGED <<client, Env>>

\* registration_respond and the signed ServerHello.
HandleRegistration(i) ==
  LET f == Head(toServer[i])
      sh == ServerHello(i, <<f>>, RegistrationRespond(i, f.ke1))
  IN /\ server[i].pc = "accept"
     /\ ServerReceives(i)
     /\ f.tag = "ClientHello" /\ f.version = REG_VERSION
     /\ server' = [server EXCEPT ![i] =
          [@ EXCEPT !.pc = "upload", !.user = f.cred, !.log = <<f>>]]
     /\ ToClient(i, sh)
     /\ UNCHANGED <<client, Env>>

AllowedOffByOne(u) == attempts[u] <= MaxTries
Allowed(u) == attempts[u] < MaxTries

\* _handle_login: the limiter says no.
HandleLoginDenied(i) ==
  LET f == Head(toServer[i])
  IN /\ server[i].pc = "accept"
     /\ ServerReceives(i)
     /\ f.tag = "ClientHello" /\ f.version # REG_VERSION
     /\ ~Allowed(f.cred)
     /\ CloseServer(i)
     /\ ToClient(i, Alert)
     /\ UNCHANGED <<client, Env>>

\* _handle_login: counted, then login_start.  It raises when the client's key is
\* no point of the curve or the database cannot be read: an alert and the end.
HandleLogin(i) ==
  LET f == Head(toServer[i])
      start == ServerLoginStart(i, db[f.cred], f.ke1)
      sh == ServerHello(i, <<f>>, start.ke2)
  IN /\ server[i].pc = "accept"
     /\ ServerReceives(i)
     /\ f.tag = "ClientHello" /\ f.version # REG_VERSION
     /\ Allowed(f.cred)
     /\ attempts' = [attempts EXCEPT ![f.cred] = @ + 1]
     /\ \/ CloseServer(i) /\ ToClient(i, Alert)
        \/ /\ f.ke1.eph \notin {None, Bad}
           /\ server' = [server EXCEPT ![i] =
                [@ EXCEPT !.pc = "finish", !.user = f.cred, !.state = start, !.log = <<f, sh>>]]
           /\ ToClient(i, sh)
     /\ UNCHANGED <<client, db, stored, faults, crashes>>

\* A frame that does not decode as a ClientFinish, or a record that cannot be
\* stored: the exception ends the connection without an alert.
ServerDropsFinish(i) ==
  /\ server[i].pc \in {"upload", "finish"}
  /\ ServerReceives(i)
  /\ server[i].pc = "upload" \/ Head(toServer[i]).tag # "ClientFinish"
  /\ CloseServer(i)
  /\ UNCHANGED <<client, toClient, seen, Env>>

\* The OPRF key stored with an upload: the one this session drew.
OprfKeyForUploadLatest(i) ==
  PendingOprfKey(CHOOSE j \in Conns : /\ server[j].pc = "upload" /\ server[j].user = server[i].user
                                      /\ \A k \in Conns : server[k].pc = "upload"
                                           /\ server[k].user = server[i].user => k <= j)
OprfKeyForUpload(i) == PendingOprfKey(i)

\* registration_store, then the acknowledgement.
StoreRegistrationAckFirst(i) ==
  LET f == Head(toServer[i])
      record == [oprfKey |-> OprfKeyForUpload(i), cPub |-> f.ke3.cPub, env |-> f.ke3.env]
  IN /\ server[i].pc = "upload" /\ toServer[i] # <<>> /\ f.tag = "ClientFinish"
     /\ \/ /\ Len(server[i].log) = 1
           /\ server' = [server EXCEPT ![i].log = Append(@, f)]
           /\ ToClient(i, Close)
           /\ UNCHANGED <<toServer, db, stored>>
        \/ /\ Len(server[i].log) = 2
           /\ ServerReceives(i)
           /\ db' = [db EXCEPT ![server[i].user] = record]
           /\ stored' = stored \cup {record}
           /\ CloseServer(i)
           /\ UNCHANGED <<toClient, seen>>
     /\ UNCHANGED <<client, attempts, faults, crashes>>
StoreRegistration(i) ==
  LET f == Head(toServer[i])
      record == [oprfKey |-> OprfKeyForUpload(i), cPub |-> f.ke3.cPub, env |-> f.ke3.env]
  IN /\ server[i].pc = "upload"
     /\ ServerReceives(i)
     /\ f.tag = "ClientFinish"
     /\ db' = [db EXCEPT ![server[i].user] = record]
     /\ stored' = stored \cup {record}
     /\ CloseServer(i)
     /\ ToClient(i, Close)
     /\ UNCHANGED <<client, attempts, faults, crashes>>

\* login_finish, with the state of this session.
FinishAcceptedReloading(i, ke3) ==
  ServerLoginFinish(ServerLoginStart(i, db[server[i].user], Head(server[i].log).ke1), ke3)
FinishAccepted(i, ke3) == ServerLoginFinish(server[i].state, ke3)

\* login_finish refuses: alert and end.
ServerRejectsFinish(i) ==
  LET f == Head(toServer[i])
  IN /\ server[i].pc = "finish"
     /\ ServerReceives(i)
     /\ f.tag = "ClientFinish" /\ ~FinishAccepted(i, f.ke3)
     /\ CloseServer(i)
     /\ ToClient(i, Alert)
     /\ UNCHANGED <<client, Env>>

\* login_finish accepts: derive the secrets, clear the limiter.
ServerFinishes(i) ==
  LET f == Head(toServer[i])
  IN /\ server[i].pc = "finish"
     /\ ServerReceives(i)
     /\ f.tag = "ClientFinish" /\ FinishAccepted(i, f.ke3)
     /\ server' = [server EXCEPT ![i] = [@ EXCEPT !.pc = "app", !.log = Append(server[i].log, f)]]
     /\ attempts' = [attempts EXCEPT ![server[i].user] = 0]
     /\ UNCHANGED <<client, toClient, seen, db, stored, faults, crashes>>

\* _app_loop: echo a record, alert and end when it does not open, end at a
\* Close or at any other frame.
ServerApp(i) ==
  LET f == Head(toServer[i])
      n == Len(server[i].got)
      secret(from) == TrafficSecret(server[i].state.keys, server[i].log, from)
      opens == Opens(f, secret("client"), n)
  IN /\ server[i].pc = "app"
     /\ ServerReceives(i)
     /\ \/ /\ f.tag = "AppData" /\ opens
           /\ server' = [server EXCEPT ![i].got = Append(@, f.ct.pt)]
           /\ ToClient(i, AppData(secret("server"), n, Echo(f.ct.pt)))
        \/ /\ f.tag = "AppData" /\ ~opens
           /\ CloseServer(i)
           /\ ToClient(i, Alert)
        \/ /\ f.tag # "AppData"
           /\ CloseServer(i)
           /\ UNCHANGED <<toClient, seen>>
     /\ UNCHANGED <<client, Env>>

\* recv_frame raises ConnectionError or TimeoutError; run() closes the socket.
ServerGivesUpTimeoutOnly(i) ==
  /\ server[i].pc # "closed" /\ client[i].pc # "start"
  /\ ~Prompt /\ toServer[i] = <<>>
  /\ CloseServer(i)
  /\ toServer' = [toServer EXCEPT ![i] = <<>>]
  /\ UNCHANGED <<client, toClient, seen, Env>>
ServerGivesUp(i) ==
  /\ server[i].pc # "closed" /\ client[i].pc # "start"
  /\ \/ ClientClosed(i) /\ (toServer[i] = <<>> \/ toClient[i] # <<>>)
     \/ ~Prompt /\ toServer[i] = <<>>
  /\ CloseServer(i)
  /\ toServer' = [toServer EXCEPT ![i] = <<>>]
  /\ UNCHANGED <<client, toClient, seen, Env>>

-----------------------------------------------------------------------------
(* The environment *)

\* The oldest attempt leaves the limiter's window.
WindowPasses(u) ==
  /\ attempts[u] > 0
  /\ attempts' = [attempts EXCEPT ![u] = @ - 1]
  /\ UNCHANGED <<client, server, toServer, toClient, db, seen, stored, faults, crashes>>

\* The server process is killed and started again: its connections are closed,
\* its limiter starts empty, the database is on disk.  What it had sent still
\* arrives, unless the connection is reset (see ClientGivesUp).
ServerCrash ==
  /\ crashes < MaxCrashes
  /\ server' = [i \in Conns |->
       IF client[i].pc = "start" THEN server[i] ELSE [server[i] EXCEPT !.pc = "closed"]]
  /\ attempts' = [u \in Users |-> 0]
  /\ crashes' = crashes + 1
  /\ UNCHANGED <<client, toServer, toClient, db, seen, stored, faults>>

\* What the network may make of a frame by damaging one part of it.
Damaged(f) ==
  CASE f.tag = "ClientHello" ->
         {[f EXCEPT !.cred = u] : u \in Users} \cup
         {[f EXCEPT !.version = 3 - @], [f EXCEPT !.ke1.m = Bad], [f EXCEPT !.ke1.eph = Bad]}
    [] f.tag = "ServerHello" ->
         {[f EXCEPT !.core.nonce = Bad], [f EXCEPT !.core.cert = Bad], [f EXCEPT !.core.ke2.z = Bad],
          [f EXCEPT !.configSig = Bad], [f EXCEPT !.verifySig = Bad]}
    [] f.tag = "ClientFinish" -> {[f EXCEPT !.ke3 = Bad]}
    [] f.tag = "AppData" -> {[f EXCEPT !.ct = Bad], [f EXCEPT !.seq = @ + 1]}
    [] OTHER -> {}

\* The network damages the next frame, adds bytes to it, or puts a frame that
\* it recorded on some connection in its place or before it.
Tampered(q) ==
  {<<g>> \o q : g \in seen} \cup
  (IF q = <<>> THEN {}
   ELSE {<<g>> \o Tail(q) : g \in Damaged(Head(q)) \cup {[Head(q) EXCEPT !.pad = TRUE]} \cup seen} \ {q})

\* A record on its way into the database is left alone: the server has nothing
\* to check it against.
UploadIntact(i, q) ==
  server[i].pc = "upload" /\ q # <<>> /\ Head(q).tag = "ClientFinish" => q = toServer[i]

TamperToServer(i) ==
  /\ faults < MaxFaults /\ client[i].pc # "start" /\ ~ServerClosed(i)
  /\ \E q \in Tampered(toServer[i]) :
       UploadIntact(i, q) /\ toServer' = [toServer EXCEPT ![i] = q]
  /\ faults' = faults + 1
  /\ UNCHANGED <<client, server, toClient, db, attempts, seen, stored, crashes>>

TamperToClient(i) ==
  /\ faults < MaxFaults /\ client[i].pc # "start" /\ ~ClientClosed(i)
  /\ \E q \in Tampered(toClient[i]) : toClient' = [toClient EXCEPT ![i] = q]
  /\ faults' = faults + 1
  /\ UNCHANGED <<client, server, toServer, db, attempts, seen, stored, crashes>>

-----------------------------------------------------------------------------
ClientStep(i) ==
  \/ ClientRejectsHello(i) \/ ClientFinishes(i) \/ ClientSends(i) \/ ClientGetsReply(i)
  \/ ClientUploads(i) \/ ClientGetsAck(i) \/ ClientGivesUp(i)

ServerStep(i) ==
  \/ ServerRefuses(i) \/ HandleRegistration(i) \/ HandleLoginDenied(i) \/ HandleLogin(i)
  \/ ServerDropsFinish(i) \/ StoreRegistration(i) \/ ServerRejectsFinish(i)
  \/ ServerFinishes(i) \/ ServerApp(i) \/ ServerGivesUp(i)

Next ==
  \/ \E i \in Conns :
       \/ \E role \in {"register", "login"}, u \in Users, pw \in Passwords :
            ClientStart(i, role, u, pw)
       \/ ClientStep(i) \/ ServerStep(i)
       \/ TamperToServer(i) \/ TamperToClient(i)
  \/ \E u \in Users : WindowPasses(u)
  \/ ServerCrash

Spec == Init /\ [][Next]_vars

\* A process that can take a step takes one: frames that have arrived are read,
\* and a socket without traffic times out.
FairSpec == Spec /\ \A i \in Conns : WF_vars(ClientStep(i)) /\ WF_vars(ServerStep(i))

-----------------------------------------------------------------------------
(* Properties *)

\* Types: the stages of both sides, and the limiter's count within its limit.
\* Record terms are unbounded, so of a record only its fields are stated.
TypeOK ==
  /\ \A i \in Conns :
       /\ client[i].pc \in {"start", "hello", "ready", "reply", "ack", "done", "failed"}
       /\ server[i].pc \in {"accept", "upload", "finish", "app", "closed"}
       /\ server[i].user \in Users \cup {None}
  /\ \A u \in Users : db[u] # None => DOMAIN db[u] = {"oprfKey", "cPub", "env"}
  /\ attempts \in [Users -> 0 .. MaxTries]
  /\ faults \in 0 .. MaxFaults /\ crashes \in 0 .. MaxCrashes

\* The server thread verified the client's MAC (server.py, login_finish).
Accepted(i) == Len(server[i].log) = 3
\* The client verified the server's MAC and sent its own (client.py, login_finish).
Completed(i) == client[i].keys # None

\* When a server thread accepts a login for a user, a login client of that
\* very user completed the exchange with the same keys, and typed the password
\* sealed in the record the thread had loaded, whatever was re-registered,
\* replayed or damaged meanwhile; no two threads accept the same exchange.
ServerAgreement ==
  \A i \in Conns : Accepted(i) =>
    /\ \E j \in Conns : /\ Completed(j)
                        /\ client[j].user = server[i].user
                        /\ client[j].keys = server[i].state.keys
                        /\ client[j].pw = server[i].state.ke2.env.rw.pw
    /\ \A j \in Conns : Accepted(j) /\ server[j].state.keys = server[i].state.keys => i = j

\* When a client completes, some server thread answered exactly its ClientHello
\* from a record of its user, and holds the same keys.
ClientAgreement ==
  \A i \in Conns : Completed(i) =>
    \E j \in Conns : /\ Len(server[j].log) >= 2 /\ ~server[j].state.fake
                     /\ server[j].state.keys = client[i].keys
                     /\ server[j].user = client[i].user
                     /\ Head(server[j].log) = Head(client[i].log)

\* Application data passes only between two sides that saw the same raw
\* handshake frames, damaged or padded ones included: what the server decrypts
\* is the message that client sent, once, and what the client decrypts is the
\* echo of its own message.
ChannelBinding ==
  /\ \A i \in Conns : server[i].got # <<>> =>
       \E j \in Conns : /\ client[j].log = server[i].log
                        /\ client[j].pc \notin {"start", "hello", "ready"}
                        /\ server[i].got = <<Message(j)>>
  /\ \A i \in Conns : client[i].got # None =>
       /\ client[i].got = Echo(Message(i))
       /\ \E j \in Conns : server[j].log = client[i].log /\ server[j].got = <<Message(i)>>

\* Every record that was ever stored can be logged in with: its envelope was
\* sealed under the OPRF key it is stored with and holds the private key of its
\* public key, also when several registrations of one user interleave
\* (opaque_adapter.py, _pending_oprf_keys).
RecordCoherent ==
  \A r \in stored : /\ r.env.rw.n # Bad /\ r.env.rw.n.k = r.oprfKey
                    /\ r.env.rw.n.pw = r.env.rw.pw
                    /\ r.env.cPriv = r.cPub /\ r.env.sPub = ServerKey

\* A registration client that reports success has its record on the server's
\* disk, across crashes and lost connections: the Close frame follows the write.
AckImpliesStored ==
  \A i \in Conns : client[i].role = "register" /\ client[i].pc = "done" =>
    \E r \in stored : r.cPub = <<"client", i>> /\ r.env.rw.pw = client[i].pw

\* Nobody waits for ever, even where no timeout ever fires: once a client has
\* connected, both sides close, whatever frames were lost in a restart, damaged
\* or replayed (server.py 81-105, client.py 147-165).
BothClose ==
  \A i \in Conns : client[i].pc # "start" ~> ClientClosed(i) /\ ServerClosed(i)

\* With peers that answer in time, a network that delivers and a server that
\* stays up, a login that the server answered from a record of the typed
\* password ends with the echo at the client, whatever the other connections
\* register or try meanwhile (server.py, _handle_login).
LoginCompletes ==
  \A i \in Conns :
    /\ server[i].pc = "finish"
    /\ ~server[i].state.fake
    /\ client[i].pw = server[i].state.ke2.env.rw.pw
    ~> client[i].got = Echo(Message(i)) \/ faults > 0 \/ crashes > 0

\* formal/vaulttls_symbolic_model.md, Lemma 2: a client that completed was
\* preceded by a server thread that completed with the same transcript.
ClientAfterServer ==
  \A i \in Conns : Completed(i) => \E j \in Conns : Accepted(j) /\ server[j].log = client[i].log
=============================================================================
