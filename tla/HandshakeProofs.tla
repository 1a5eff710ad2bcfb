-------------------------- MODULE HandshakeProofs ---------------------------
(***************************************************************************)
(* Proofs about logins, for every number of connections, of users, of      *)
(* frames the network alters or exchanges and of server restarts: types,   *)
(* the agreement of both sides on a login, and the binding of application  *)
(* data to the handshake.  At the end, proofs about registrations: the     *)
(* records in the database can be logged in with, and a client that        *)
(* reports success has its record stored.  These hold on a network that    *)
(* does not tamper: an upload and the Close that answers it carry nothing  *)
(* the receiver could check.                                               *)
(***************************************************************************)
EXTENDS Handshake, TLAPS

-----------------------------------------------------------------------------
(* Queues of frames *)

Elems(q) == {q[n] : n \in 1 .. Len(q)}
IsQueue(q) == q \in Seq(Elems(q))

\* Appending a frame to a queue adds it to the frames of the queue.
LEMMA AppendElems ==
  ASSUME NEW q, IsQueue(q), NEW f
  PROVE  /\ IsQueue(Append(q, f)) /\ Elems(Append(q, f)) = Elems(q) \cup {f}
         /\ Len(Append(q, f)) = Len(q) + 1 /\ \A n \in 1 .. Len(q) : Append(q, f)[n] = q[n]
         /\ Append(q, f)[Len(q) + 1] = f /\ Len(q) \in Nat
<1> DEFINE S == Elems(q) \cup {f}
<1>1. q \in Seq(S) /\ f \in S
  BY DEF IsQueue
<1> HIDE DEF S
<1>2. Append(q, f) \in Seq(S) /\ Len(q) \in Nat /\ Len(Append(q, f)) = Len(q) + 1
      /\ Append(q, f)[Len(q) + 1] = f /\ \A n \in 1 .. Len(q) : Append(q, f)[n] = q[n]
  BY <1>1
<1>3. Elems(Append(q, f)) = S
  BY <1>2 DEF S, Elems
<1>4. QED
  BY <1>2, <1>3 DEF IsQueue, S

\* Reading a queue takes away one of its frames and adds none.
LEMMA TailElems ==
  ASSUME NEW q, IsQueue(q), q # <<>>
  PROVE  IsQueue(Tail(q)) /\ Elems(Tail(q)) \subseteq Elems(q) /\ Head(q) \in Elems(q)
<1> DEFINE r == Tail(q)
<1>1. Len(q) \in Nat /\ Len(q) > 0 /\ Head(q) = q[1] /\ r \in Seq(Elems(q)) /\ Len(r) = Len(q) - 1
  BY DEF IsQueue
<1>2. \A n \in 1 .. Len(r) : r[n] = q[n + 1] /\ n + 1 \in 1 .. Len(q)
  BY <1>1 DEF IsQueue
<1> HIDE DEF r
<1>3. r = [n \in 1 .. Len(r) |-> r[n]] /\ Len(r) \in Nat
  BY <1>1
<1>4. Elems(r) \subseteq Elems(q)
  BY <1>2 DEF Elems
<1>5. Head(q) \in Elems(q)
  BY <1>1 DEF Elems
<1>6. r \in Seq(Elems(r))
  BY <1>3 DEF Elems
<1>7. QED
  BY <1>4, <1>5, <1>6 DEF IsQueue, r

\* A sequence of length three, written out.
LEMMA Triple ==
  ASSUME NEW S, NEW r \in Seq(S), Len(r) = 3 PROVE r = <<r[1], r[2], r[3]>>
OBVIOUS

\* A transcript of one frame extended by two.
LEMMA TwoAfterOne ==
  ASSUME NEW l, NEW a, l = <<a>>, NEW b, NEW c PROVE l \o <<b, c>> = <<a, b, c>>
<1> DEFINE S == {a, b, c}
<1>1. <<a>> \in Seq(S) /\ <<b, c>> \in Seq(S) /\ Len(<<a>>) = 1 /\ Len(<<b, c>>) = 2
  OBVIOUS
<1>2. PICK q : q = <<b, c>>
  OBVIOUS
<1> HIDE DEF S
<1>3. l \o q \in Seq(S) /\ Len(l \o q) = 3 /\ (l \o q)[1] = l[1] /\ (l \o q)[2] = q[1] /\ (l \o q)[3] = q[2]
  BY <1>1, <1>2
<1>4. l \o q = <<a, b, c>>
  BY <1>2, <1>3, Triple
<1>5. QED
  BY <1>2, <1>4

\* A transcript of two frames extended by one.
LEMMA OneAfterTwo ==
  ASSUME NEW l, NEW a, NEW b, l = <<a, b>>, NEW c PROVE Append(l, c) = <<a, b, c>>
<1> DEFINE S == {a, b, c}
<1>1. <<a, b>> \in Seq(S) /\ c \in S /\ Len(<<a, b>>) = 2
  OBVIOUS
<1> HIDE DEF S
<1>2. /\ Append(l, c) \in Seq(S) /\ Len(Append(l, c)) = 3
      /\ Append(l, c)[1] = l[1] /\ Append(l, c)[2] = l[2] /\ Append(l, c)[3] = c
  BY <1>1
<1>3. QED
  BY <1>2, Triple

\* The empty queue has no frames.
LEMMA EmptyElems == IsQueue(<<>>) /\ Elems(<<>>) = {}
BY DEF IsQueue, Elems

\* Putting a frame in front of a queue adds it to its frames.
LEMMA PrependElems ==
  ASSUME NEW q, IsQueue(q), NEW g
  PROVE  IsQueue(<<g>> \o q) /\ Elems(<<g>> \o q) \subseteq Elems(q) \cup {g}
<1> DEFINE S == Elems(q) \cup {g}
           r == <<g>> \o q
<1>1. q \in Seq(S) /\ g \in S
  BY DEF IsQueue
<1> HIDE DEF S
<1>2. r \in Seq(S) /\ Len(q) \in Nat /\ Len(r) = Len(q) + 1
  BY <1>1
<1>3. \A n \in 1 .. Len(r) : r[n] \in S
  BY <1>2
<1>4. r = [n \in 1 .. Len(r) |-> r[n]]
  BY <1>2
<1> HIDE DEF r
<1>5. r \in Seq(Elems(r))
  BY <1>2, <1>4 DEF Elems
<1>6. Elems(r) \subseteq S
  BY <1>3 DEF Elems
<1>7. QED
  BY <1>5, <1>6 DEF IsQueue, S, r

-----------------------------------------------------------------------------
(* What is on its way or was recorded *)

\* A queue per connection, and one that gains frames of F only.
Queues(Q) == Q = [i \in Conns |-> Q[i]] /\ \A i \in Conns : IsQueue(Q[i])
Grows(Q, R, F) == Queues(R) /\ \A i \in Conns : Elems(R[i]) \subseteq Elems(Q[i]) \cup F

OnWire(f) == f \in seen \/ \E i \in Conns : f \in Elems(toServer[i]) \cup Elems(toClient[i])
Sends(F) == Grows(toServer, toServer', F) /\ Grows(toClient, toClient', F) /\ seen' \subseteq seen \cup F

\* Queues that stay as they are gain no frames.
LEMMA QueueKept ==
  ASSUME NEW Q, Queues(Q), NEW F PROVE Grows(Q, Q, F)
BY DEF Grows

\* send_frame adds the frame sent and nothing else.
LEMMA QueueAppended ==
  ASSUME NEW Q, Queues(Q), NEW i \in Conns, NEW f, NEW F, f \in F, NEW R, R = [Q EXCEPT ![i] = Append(@, f)]
  PROVE  Grows(Q, R, F)
<1>1. IsQueue(R[i]) /\ Elems(R[i]) = Elems(Q[i]) \cup {f}
  BY AppendElems DEF Queues
<1>2. R = [j \in Conns |-> R[j]] /\ \A j \in Conns \ {i} : R[j] = Q[j]
  BY DEF Queues
<1>3. QED
  BY <1>1, <1>2 DEF Grows, Queues

\* recv_frame adds no frame.
LEMMA QueueRead ==
  ASSUME NEW Q, Queues(Q), NEW i \in Conns, Q[i] # <<>>, NEW F, NEW R, R = [Q EXCEPT ![i] = Tail(@)]
  PROVE  Grows(Q, R, F)
<1>1. IsQueue(R[i]) /\ Elems(R[i]) \subseteq Elems(Q[i])
  BY TailElems DEF Queues
<1>2. R = [j \in Conns |-> R[j]] /\ \A j \in Conns \ {i} : R[j] = Q[j]
  BY DEF Queues
<1>3. QED
  BY <1>1, <1>2 DEF Grows, Queues

\* A connection that is given up adds no frame.
LEMMA QueueEmptied ==
  ASSUME NEW Q, Queues(Q), NEW i \in Conns, NEW F, NEW R, R = [Q EXCEPT ![i] = <<>>]
  PROVE  Grows(Q, R, F)
BY EmptyElems DEF Grows, Queues

\* What is on the wire after a step was there before or was sent by it.
LEMMA WireGrows ==
  ASSUME NEW F, Sends(F), NEW f, OnWire(f)' PROVE OnWire(f) \/ f \in F
BY DEF Sends, Grows, OnWire

\* A frame that is received is on the wire.
LEMMA HeadOnWire ==
  ASSUME Queues(toServer), Queues(toClient), NEW i \in Conns
  PROVE  /\ toServer[i] # <<>> => OnWire(Head(toServer[i]))
         /\ toClient[i] # <<>> => OnWire(Head(toClient[i]))
<1>1. toServer[i] # <<>> => Head(toServer[i]) \in Elems(toServer[i])
  BY TailElems DEF Queues
<1>2. toClient[i] # <<>> => Head(toClient[i]) \in Elems(toClient[i])
  BY TailElems DEF Queues
<1>3. QED
  BY <1>1, <1>2 DEF OnWire

\* Sending to the server, perhaps after a frame was read.
LEMMA ToServerSends ==
  ASSUME Queues(toServer), Queues(toClient), NEW i \in Conns, NEW f, ToServer(i, f),
         toClient' = toClient \/ ClientReceives(i)
  PROVE  Sends({f})
<1>1. Grows(toServer, toServer', {f})
  BY QueueAppended DEF ToServer
<1>2. Grows(toClient, toClient', {f})
  BY QueueKept, QueueRead DEF ClientReceives
<1>3. QED
  BY <1>1, <1>2 DEF Sends, ToServer

\* The server's answers add only the frame sent.
LEMMA ToClientSends ==
  ASSUME Queues(toServer), Queues(toClient), NEW i \in Conns, NEW f, ToClient(i, f),
         toServer' = toServer \/ ServerReceives(i)
  PROVE  Sends({f})
<1>1. Grows(toClient, toClient', {f})
  BY QueueAppended DEF ToClient
<1>2. Grows(toServer, toServer', {f})
  BY QueueKept, QueueRead DEF ServerReceives
<1>3. QED
  BY <1>1, <1>2 DEF Sends, ToClient

\* A step that only reads or closes sends nothing.
LEMMA NothingSent ==
  ASSUME Queues(toServer), Queues(toClient), NEW i \in Conns, seen' = seen,
         toClient' = toClient \/ ClientReceives(i) \/ toClient' = [toClient EXCEPT ![i] = <<>>],
         toServer' = toServer \/ ServerReceives(i) \/ toServer' = [toServer EXCEPT ![i] = <<>>]
  PROVE  Sends({})
<1>1. Grows(toClient, toClient', {})
  BY QueueKept, QueueEmptied, QueueRead DEF ClientReceives
<1>2. Grows(toServer, toServer', {})
  BY QueueKept, QueueEmptied, QueueRead DEF ServerReceives
<1>3. QED
  BY <1>1, <1>2 DEF Sends

-----------------------------------------------------------------------------
(* Stages of both sides, and the shapes of frames *)

ClientStage(i) ==
  LET c == client[i]
  IN /\ c = [pc |-> c.pc, role |-> c.role, user |-> c.user, pw |-> c.pw,
             log |-> c.log, keys |-> c.keys, got |-> c.got]
     /\ c.pc \in {"start", "hello", "ready", "reply", "ack", "done", "failed"}
     /\ c.pc = "start" => c.keys = None /\ c.got = None
     /\ c.pc # "start" => /\ c.role \in {"register", "login"} /\ c.user \in Users /\ c.pw \in Passwords
                          /\ c.keys = None => c.log = <<HelloFor(i, c.role, c.user, c.pw)>>
     /\ c.pc = "hello" => c.keys = None
     /\ c.pc \in {"ready", "reply"} => c.keys # None
     /\ c.keys # None => /\ c.role = "login" /\ c.pc \in {"ready", "reply", "done", "failed"}
                         /\ c.log = <<HelloFor(i, c.role, c.user, c.pw), c.log[2], c.log[3]>>
     /\ c.got # None => c.keys # None

ServerStage(i) ==
  LET s == server[i]
  IN /\ s = [pc |-> s.pc, user |-> s.user, state |-> s.state, log |-> s.log, got |-> s.got]
     /\ s.pc \in {"accept", "upload", "finish", "app", "closed"}
     /\ s.user \in Users \cup {None}
     /\ IsQueue(s.got)
     /\ \/ s.pc \in {"accept", "closed"} /\ s.log = <<>> /\ s.got = <<>>
        \/ s.pc \in {"upload", "closed"} /\ s.log = <<s.log[1]>> /\ s.got = <<>>
        \/ s.pc \in {"finish", "closed"} /\ s.log = <<s.log[1], s.log[2]>> /\ s.got = <<>>
        \/ s.pc \in {"app", "closed"} /\ s.log = <<s.log[1], s.log[2], s.log[3]>>

FrameShape(f) ==
  \/ /\ f = [tag |-> "ClientHello", version |-> f.version, cred |-> f.cred, nonce |-> f.nonce,
             ke1 |-> f.ke1, pad |-> f.pad]
     /\ f.cred \in Users
  \/ f = [tag |-> "ServerHello", core |-> f.core, configSig |-> f.configSig, verifySig |-> f.verifySig,
          pad |-> f.pad]
  \/ f = [tag |-> "ClientFinish", ke3 |-> f.ke3, pad |-> f.pad]
  \/ f = [tag |-> "AppData", seq |-> f.seq, ct |-> f.ct, pad |-> f.pad]
  \/ f = [tag |-> "Alert", pad |-> f.pad]
  \/ f = [tag |-> "Close", pad |-> f.pad]

Shapes ==
  /\ client = [i \in Conns |-> client[i]] /\ server = [i \in Conns |-> server[i]]
  /\ \A i \in Conns : ClientStage(i) /\ ServerStage(i)
  /\ Queues(toServer) /\ Queues(toClient)
  /\ \A f : OnWire(f) => FrameShape(f)
  /\ db = [u \in Users |-> db[u]]
  /\ \A u \in Users : db[u] # None => DOMAIN db[u] = {"oprfKey", "cPub", "env"}
  /\ attempts \in [Users -> 0 .. MaxTries]
  /\ faults \in 0 .. MaxFaults /\ crashes \in 0 .. MaxCrashes

\* The initial states have the right stages and queues.
LEMMA ShapesInit == Init => Shapes
<1> SUFFICES ASSUME Init PROVE Shapes
  OBVIOUS
<1>1. ASSUME NEW i \in Conns PROVE ClientStage(i) /\ ServerStage(i)
  BY EmptyElems DEF Init, NoClient, NoServer, ClientStage, ServerStage
<1>2. Queues(toServer) /\ Queues(toClient)
  BY EmptyElems DEF Init, Queues
<1>3. \A f : ~OnWire(f)
  BY EmptyElems DEF Init, OnWire
<1>4. \A u \in Users : db[u] # None => DOMAIN db[u] = {"oprfKey", "cPub", "env"}
  BY DEF Init, EarlierRecord
<1>5. attempts \in [Users -> 0 .. MaxTries] /\ faults \in 0 .. MaxFaults /\ crashes \in 0 .. MaxCrashes
  BY HandshakeAssumption DEF Init
<1>6. QED
  BY <1>1, <1>2, <1>3, <1>4, <1>5 DEF Init, Shapes

\* A client's step moves its own stage only.
LEMMA ClientStages ==
  ASSUME Shapes, NEW i \in Conns,
         ClientStep(i) \/ \E role \in {"register", "login"}, u \in Users, pw \in Passwords : ClientStart(i, role, u, pw)
  PROVE  /\ client' = [j \in Conns |-> client'[j]] /\ \A j \in Conns : ClientStage(j)'
         /\ \A j \in Conns \ {i} : client'[j] = client[j]
         /\ UNCHANGED <<server, db, stored, attempts, faults, crashes>>
<1> USE DEF Env
<1>1. ClientStage(i) /\ client = [j \in Conns |-> client[j]]
  BY DEF Shapes
<1>2. UNCHANGED <<server, db, stored, attempts, faults, crashes>>
  BY DEF ClientStep, ClientStart, ClientRejectsHello, ClientFinishes, ClientSends, ClientGetsReply, ClientUploads,
     ClientGetsAck, ClientGivesUp
<1>3. PICK c : client' = [client EXCEPT ![i] = c]
  BY DEF ClientStep, ClientStart, ClientRejectsHello, ClientFinishes, ClientSends, ClientGetsReply, ClientUploads,
     ClientGetsAck, ClientGivesUp
<1>4. client'[i] = c /\ \A j \in Conns \ {i} : client'[j] = client[j]
  BY <1>1, <1>3
<1>5. ClientStage(i)'
  <2>1. ASSUME NEW role \in {"register", "login"}, NEW u \in Users, NEW pw \in Passwords, ClientStart(i, role, u, pw)
        PROVE  ClientStage(i)'
    BY <1>1, <2>1 DEF ClientStart, ClientStage
  <2>2. CASE ClientRejectsHello(i)
    BY <1>1, <2>2 DEF ClientRejectsHello, ClientStage
  <2>3. CASE ClientFinishes(i)
    <3>1. ClientKeys(i, Head(toClient[i])) # None
      BY <2>3 DEF ClientFinishes, HelloAccepted
    <3>2. client[i].log = <<HelloFor(i, client[i].role, client[i].user, client[i].pw)>>
      BY <1>1, <2>3 DEF ClientFinishes, ClientStage
    <3> DEFINE d == client[i]
               new == <<HelloFor(i, d.role, d.user, d.pw), Head(toClient[i]),
                        ClientFinish(ClientMac(ClientKeys(i, Head(toClient[i]))))>>
    <3>3. PICK keys, l : /\ keys # None
                         /\ l = d.log \o <<Head(toClient[i]), ClientFinish(ClientMac(ClientKeys(i, Head(toClient[i]))))>>
                         /\ client' = [client EXCEPT ![i] = [@ EXCEPT !.pc = "ready", !.keys = keys, !.log = l]]
      BY <2>3, <3>1, Zenon DEF ClientFinishes
    <3>4. l = new
      BY <3>2, <3>3, TwoAfterOne
    <3>5. client'[i] = [d EXCEPT !.pc = "ready", !.keys = keys, !.log = new]
      BY <1>1, <3>3, <3>4
    <3>6. d = [pc |-> d.pc, role |-> d.role, user |-> d.user, pw |-> d.pw,
               log |-> d.log, keys |-> d.keys, got |-> d.got]
          /\ d.role = "login" /\ d.user \in Users /\ d.pw \in Passwords
      BY <1>1, <2>3 DEF ClientFinishes, ClientStage
    <3>7. new = <<new[1], new[2], new[3]>> /\ new[1] = HelloFor(i, d.role, d.user, d.pw)
      OBVIOUS
    <3> HIDE DEF new, d
    <3>8. client'[i] = [pc |-> "ready", role |-> d.role, user |-> d.user, pw |-> d.pw,
                        log |-> new, keys |-> keys, got |-> d.got]
      BY <3>5, <3>6
    <3>9. /\ client'[i].pc = "ready" /\ client'[i].role = "login" /\ client'[i].user = d.user
          /\ client'[i].pw = d.pw /\ client'[i].log = new /\ client'[i].keys = keys /\ client'[i].got = d.got
      BY <3>6, <3>8
    <3>10. PICK u : u = client'[i]
      OBVIOUS
    <3>11. u = [pc |-> u.pc, role |-> u.role, user |-> u.user, pw |-> u.pw,
                log |-> u.log, keys |-> u.keys, got |-> u.got]
      BY <3>8, <3>10
    <3>12. u.log = <<HelloFor(i, u.role, u.user, u.pw), u.log[2], u.log[3]>>
      BY <3>6, <3>7, <3>9, <3>10
    <3>13. u.pc = "ready" /\ u.keys # None /\ u.role = "login" /\ u.user \in Users /\ u.pw \in Passwords
      BY <3>3, <3>6, <3>9, <3>10
    <3>14. QED
      BY <3>10, <3>11, <3>12, <3>13 DEF ClientStage
  <2>4. CASE ClientSends(i)
    BY <1>1, <2>4 DEF ClientSends, ClientStage
  <2>5. CASE ClientGetsReply(i)
    <3>1. /\ client[i].pc = "reply"
          /\ \/ client' = [client EXCEPT ![i].pc = "failed"] \/ client' = [client EXCEPT ![i].pc = "done"]
             \/ \E got : client' = [client EXCEPT ![i] = [@ EXCEPT !.pc = "done", !.got = got]]
      BY <2>5 DEF ClientGetsReply
    <3>2. PICK u, d : u = client[i] /\ d = client'[i]
      OBVIOUS
    <3>3. u = [pc |-> u.pc, role |-> u.role, user |-> u.user, pw |-> u.pw,
               log |-> u.log, keys |-> u.keys, got |-> u.got]
      BY <1>1, <3>2 DEF ClientStage
    <3>4. \/ d = [u EXCEPT !.pc = "failed"] \/ d = [u EXCEPT !.pc = "done"]
          \/ \E got : d = [u EXCEPT !.pc = "done", !.got = got]
      BY <1>1, <3>1, <3>2
    <3>5. \E next \in {"failed", "done"} : \E got :
             d = [pc |-> next, role |-> u.role, user |-> u.user, pw |-> u.pw,
                  log |-> u.log, keys |-> u.keys, got |-> got]
      BY <3>3, <3>4
    <3>6. PICK next \in {"failed", "done"} : \E got :
             d = [pc |-> next, role |-> u.role, user |-> u.user, pw |-> u.pw,
                  log |-> u.log, keys |-> u.keys, got |-> got]
      BY <3>5
    <3>a. PICK got :
             d = [pc |-> next, role |-> u.role, user |-> u.user, pw |-> u.pw,
                  log |-> u.log, keys |-> u.keys, got |-> got]
      BY <3>6
    <3>7. /\ d.pc = next /\ d.role = u.role /\ d.user = u.user /\ d.pw = u.pw
          /\ d.log = u.log /\ d.keys = u.keys /\ d.got = got
      BY <3>a
    <3>8. /\ u.role = "login" /\ u.user \in Users /\ u.pw \in Passwords /\ u.keys # None
          /\ u.log = <<HelloFor(i, u.role, u.user, u.pw), u.log[2], u.log[3]>>
      BY <1>1, <3>1, <3>2 DEF ClientStage
    <3>9. QED
      BY <3>2, <3>a, <3>7, <3>8 DEF ClientStage
  <2>6. CASE ClientUploads(i)
    BY <1>1, <2>6 DEF ClientUploads, ClientStage
  <2>7. CASE ClientGetsAck(i)
    BY <1>1, <2>7 DEF ClientGetsAck, ClientStage
  <2>8. CASE ClientGivesUp(i)
    BY <1>1, <2>8 DEF ClientGivesUp, ClientStage
  <2>9. QED
    BY <2>1, <2>2, <2>3, <2>4, <2>5, <2>6, <2>7, <2>8 DEF ClientStep
<1>6. ASSUME NEW j \in Conns \ {i} PROVE ClientStage(j)'
  BY <1>4, <1>6 DEF Shapes, ClientStage
<1>7. QED
  BY <1>1, <1>2, <1>3, <1>4, <1>5, <1>6

\* A server thread's step moves its own stage only.
LEMMA ServerStages ==
  ASSUME Shapes, NEW i \in Conns, ServerStep(i)
  PROVE  /\ server' = [j \in Conns |-> server'[j]] /\ \A j \in Conns : ServerStage(j)'
         /\ \A j \in Conns \ {i} : server'[j] = server[j]
         /\ UNCHANGED <<client, faults, crashes>>
<1> USE DEF Env, CloseServer
<1>1. ServerStage(i) /\ server = [j \in Conns |-> server[j]]
  BY DEF Shapes
<1>2. UNCHANGED <<client, faults, crashes>>
  BY DEF ServerStep, ServerRefuses, HandleRegistration, HandleLoginDenied, HandleLogin, ServerDropsFinish,
     StoreRegistration, ServerRejectsFinish, ServerFinishes, ServerApp, ServerGivesUp
<1>3. PICK s : server' = [server EXCEPT ![i] = s]
  BY DEF ServerStep, ServerRefuses, HandleRegistration, HandleLoginDenied, HandleLogin, ServerDropsFinish,
     StoreRegistration, ServerRejectsFinish, ServerFinishes, ServerApp, ServerGivesUp
<1>4. server'[i] = s /\ \A j \in Conns \ {i} : server'[j] = server[j]
  BY <1>1, <1>3
<1>5. ServerStage(i)'
  <2>1. CASE server' = [server EXCEPT ![i].pc = "closed"]
    BY <1>1, <2>1 DEF ServerStage
  <2>2. ASSUME server[i].pc = "accept", ServerReceives(i), Head(toServer[i]).tag = "ClientHello"
        PROVE  Head(toServer[i]).cred \in Users
    BY <2>2, HeadOnWire DEF Shapes, FrameShape, ServerReceives
  <2>3. CASE HandleRegistration(i)
    <3>1. PICK f : f.cred \in Users /\ server' = [server EXCEPT ![i] = [@ EXCEPT !.pc = "upload", !.user = f.cred, !.log = <<f>>]]
      BY <2>2, <2>3 DEF HandleRegistration
    <3>2. server[i].got = <<>>
      BY <1>1, <2>3 DEF HandleRegistration, ServerStage
    <3>3. QED
      BY <1>1, <3>1, <3>2 DEF ServerStage
  <2>4. CASE HandleLogin(i) /\ ~CloseServer(i)
    <3>1. PICK f, sh, start :
               /\ f.cred \in Users
               /\ server' = [server EXCEPT ![i] =
                               [@ EXCEPT !.pc = "finish", !.user = f.cred, !.state = start, !.log = <<f, sh>>]]
      <4> DEFINE h == Head(toServer[i])
                 login == ServerLoginStart(i, db[h.cred], h.ke1)
                 hello == ServerHello(i, <<h>>, login.ke2)
      <4>1. h.cred \in Users
        BY <2>2, <2>4 DEF HandleLogin
      <4>2. server' = [server EXCEPT ![i] =
                         [@ EXCEPT !.pc = "finish", !.user = h.cred, !.state = login, !.log = <<h, hello>>]]
        BY <2>4 DEF HandleLogin
      <4> HIDE DEF h, login, hello
      <4>3. QED
        BY <4>1, <4>2
    <3>2. server[i].got = <<>>
      BY <1>1, <2>4 DEF HandleLogin, ServerStage
    <3>3. QED
      BY <1>1, <3>1, <3>2 DEF ServerStage
  <2>5. CASE ServerFinishes(i)
    <3>1. PICK f, l : /\ l = Append(server[i].log, f)
                      /\ server' = [server EXCEPT ![i] = [@ EXCEPT !.pc = "app", !.log = l]]
      BY <2>5, Zenon DEF ServerFinishes
    <3>2. server[i].log = <<server[i].log[1], server[i].log[2]>>
      BY <1>1, <2>5 DEF ServerFinishes, ServerStage
    <3>3. l = <<l[1], l[2], l[3]>>
      <4>1. PICK a, b : l = <<a, b, f>>
        <5>1. PICK c, d : server[i].log = <<c, d>>
          BY <3>2
        <5>2. Append(server[i].log, f) = <<c, d, f>>
          BY <5>1, OneAfterTwo
        <5>3. QED
          BY <3>1, <5>2, Zenon
      <4>2. \A c, d : l = <<c, d, f>> => l = <<l[1], l[2], l[3]>>
        OBVIOUS
      <4>3. QED
        BY <4>1, <4>2
    <3>4. server'[i] = [server[i] EXCEPT !.pc = "app", !.log = l]
      BY <1>1, <3>1
    <3>5. QED
      BY <1>1, <3>3, <3>4 DEF ServerStage
  <2>6. CASE ServerApp(i) /\ ~CloseServer(i)
    <3>1. PICK pt : server' = [server EXCEPT ![i].got = Append(@, pt)] /\ server[i].pc = "app"
      BY <2>6 DEF ServerApp
    <3>2. IsQueue(Append(server[i].got, pt))
      BY <1>1, AppendElems DEF ServerStage
    <3>3. server'[i] = [server[i] EXCEPT !.got = Append(server[i].got, pt)]
      BY <1>1, <3>1
    <3> DEFINE got == Append(server[i].got, pt)
    <3> HIDE DEF got
    <3>4. server'[i] = [server[i] EXCEPT !.got = got] /\ IsQueue(got)
      BY <3>2, <3>3 DEF got
    <3>5. QED
      BY <1>1, <3>1, <3>4 DEF ServerStage
  <2>7. QED
    BY <2>1, <2>3, <2>4, <2>5, <2>6 DEF ServerStep, ServerRefuses, HandleLoginDenied, HandleLogin, ServerDropsFinish,
       StoreRegistration, ServerRejectsFinish, ServerApp, ServerGivesUp
<1>6. ASSUME NEW j \in Conns \ {i} PROVE ServerStage(j)'
  BY <1>4, <1>6 DEF Shapes, ServerStage
<1>7. QED
  BY <1>1, <1>2, <1>3, <1>4, <1>5, <1>6

-----------------------------------------------------------------------------
(* What each side and the network put on a queue *)

\* What the client of connection i may send in a step.
ClientWrites(i, f) ==
  \/ /\ client'[i].role \in {"register", "login"} /\ client'[i].user \in Users
     /\ f = HelloFor(i, client'[i].role, client'[i].user, client'[i].pw)
  \/ f = ClientFinish(ClientMac(client'[i].keys)) /\ client'[i].keys # None
  \/ \E response : f = ClientFinish(RegistrationFinish(client[i].pw, i, response))
  \/ /\ f = AppData(TrafficSecret(client[i].keys, client[i].log, "client"), 0, Message(i))
     /\ client[i].keys # None /\ client'[i].pc = "reply"
  \/ f = Close

\* What the server thread of connection i may send in a step.
ServerWrites(i, f) ==
  \/ f \in {Alert, Close}
  \/ \E h : /\ server'[i].log = <<h>> /\ server'[i].user = h.cred
            /\ f = ServerHello(i, <<h>>, RegistrationRespond(i, h.ke1))
  \/ \E h : /\ server'[i].log = <<h, f>> /\ server'[i].user = h.cred
            /\ f = ServerHello(i, <<h>>, server'[i].state.ke2)
  \/ \E pt : /\ server[i].pc = "app" /\ server'[i].got = Append(server[i].got, pt)
             /\ f = AppData(TrafficSecret(server[i].state.keys, server[i].log, "server"),
                           Len(server[i].got), Echo(pt))

\* What the network may make of a frame g.
NetworkWrites(g, f) == f \in Damaged(g) \cup {[g EXCEPT !.pad = TRUE]}

\* What a client's step sends is one of the frames of ClientWrites.
LEMMA ClientWriting ==
  ASSUME Shapes, NEW i \in Conns,
         ClientStep(i) \/ \E role \in {"register", "login"}, u \in Users, pw \in Passwords : ClientStart(i, role, u, pw)
  PROVE  \E F : Sends(F) /\ \A f \in F : ClientWrites(i, f)
<1>1. Queues(toServer) /\ Queues(toClient) /\ client = [j \in Conns |-> client[j]] /\ ClientStage(i)
  BY DEF Shapes
<1>2. ASSUME NEW role \in {"register", "login"}, NEW u \in Users, NEW pw \in Passwords, ClientStart(i, role, u, pw)
      PROVE  \E F : Sends(F) /\ \A f \in F : ClientWrites(i, f)
  <2>1. Sends({HelloFor(i, role, u, pw)})
    BY <1>1, <1>2, ToServerSends DEF ClientStart
  <2>2. client'[i].role = role /\ client'[i].user = u /\ client'[i].pw = pw
    BY <1>1, <1>2 DEF ClientStart, ClientStage
  <2>3. ClientWrites(i, HelloFor(i, role, u, pw))
    BY <2>2 DEF ClientWrites
  <2>4. QED
    BY <2>1, <2>3
<1>3. CASE ClientFinishes(i)
  <2> DEFINE keys == ClientKeys(i, Head(toClient[i]))
             cf == ClientFinish(ClientMac(keys))
  <2>1. Sends({cf})
    BY <1>1, <1>3, ToServerSends DEF ClientFinishes
  <2>2. keys # None
    BY <1>3 DEF ClientFinishes, HelloAccepted
  <2>3. PICK l : client' = [client EXCEPT ![i] = [@ EXCEPT !.pc = "ready", !.keys = keys, !.log = l]]
    BY <1>3, Zenon DEF ClientFinishes
  <2> HIDE DEF keys
  <2>4. client'[i].keys = keys
    BY <1>1, <2>3 DEF ClientStage
  <2>5. ClientWrites(i, cf)
    BY <2>2, <2>4 DEF ClientWrites
  <2>6. QED
    BY <2>1, <2>5
<1>4. CASE ClientSends(i)
  <2> DEFINE f == AppData(TrafficSecret(client[i].keys, client[i].log, "client"), 0, Message(i))
  <2>1. Sends({f})
    BY <1>1, <1>4, ToServerSends DEF ClientSends
  <2>2. client'[i].pc = "reply" /\ client[i].keys # None
    BY <1>1, <1>4 DEF ClientSends, ClientStage
  <2>3. QED
    BY <2>1, <2>2 DEF ClientWrites
<1>5. CASE ClientGetsReply(i)
  <2>1. Sends({Close}) \/ Sends({})
    BY <1>1, <1>5, ToServerSends, NothingSent DEF ClientGetsReply
  <2>2. QED
    BY <2>1 DEF ClientWrites
<1>6. CASE ClientUploads(i)
  <2>1. PICK response : ClientReceives(i) /\ ToServer(i, ClientFinish(RegistrationFinish(client[i].pw, i, response)))
    BY <1>6, Zenon DEF ClientUploads
  <2>2. Sends({ClientFinish(RegistrationFinish(client[i].pw, i, response))})
    BY <1>1, <2>1, ToServerSends
  <2>3. QED
    BY <2>2 DEF ClientWrites
<1>7. CASE ClientRejectsHello(i) \/ ClientGetsAck(i) \/ ClientGivesUp(i)
  BY <1>1, <1>7, NothingSent DEF ClientRejectsHello, ClientGetsAck, ClientGivesUp
<1>8. QED
  BY <1>2, <1>3, <1>4, <1>5, <1>6, <1>7 DEF ClientStep

\* What a server thread's step sends is one of the frames of ServerWrites.
LEMMA ServerWriting ==
  ASSUME Shapes, NEW i \in Conns, ServerStep(i)
  PROVE  \E F : Sends(F) /\ \A f \in F : ServerWrites(i, f)
<1>1. Queues(toServer) /\ Queues(toClient) /\ server = [j \in Conns |-> server[j]] /\ ServerStage(i)
  BY DEF Shapes
<1>2. CASE ServerReceives(i) /\ ToClient(i, Alert)
  BY <1>1, <1>2, ToClientSends DEF ServerWrites
<1>3. CASE HandleRegistration(i)
  <2>1. PICK h : /\ ServerReceives(i) /\ ToClient(i, ServerHello(i, <<h>>, RegistrationRespond(i, h.ke1)))
                 /\ server' = [server EXCEPT ![i] = [@ EXCEPT !.pc = "upload", !.user = h.cred, !.log = <<h>>]]
    BY <1>3, Zenon DEF HandleRegistration
  <2>2. Sends({ServerHello(i, <<h>>, RegistrationRespond(i, h.ke1))})
    BY <1>1, <2>1, ToClientSends
  <2>3. server'[i].log = <<h>> /\ server'[i].user = h.cred
    BY <1>1, <2>1 DEF ServerStage
  <2>4. QED
    BY <2>2, <2>3 DEF ServerWrites
<1>4. CASE HandleLogin(i) /\ ~ToClient(i, Alert)
  <2>1. PICK h, login, sh :
          /\ ServerReceives(i) /\ ToClient(i, sh) /\ sh = ServerHello(i, <<h>>, login.ke2)
          /\ server' = [server EXCEPT ![i] =
                          [@ EXCEPT !.pc = "finish", !.user = h.cred, !.state = login, !.log = <<h, sh>>]]
    <3> DEFINE h == Head(toServer[i])
               login == ServerLoginStart(i, db[h.cred], h.ke1)
               sh == ServerHello(i, <<h>>, login.ke2)
    <3>1. /\ ServerReceives(i) /\ ToClient(i, sh)
          /\ server' = [server EXCEPT ![i] =
                          [@ EXCEPT !.pc = "finish", !.user = h.cred, !.state = login, !.log = <<h, sh>>]]
      BY <1>4 DEF HandleLogin
    <3>2. sh = ServerHello(i, <<h>>, login.ke2)
      OBVIOUS
    <3> HIDE DEF h, login, sh
    <3>3. QED
      BY <3>1, <3>2
  <2>2. Sends({sh})
    BY <1>1, <2>1, ToClientSends
  <2>3. server'[i].log = <<h, sh>> /\ server'[i].user = h.cred /\ server'[i].state = login
    BY <1>1, <2>1 DEF ServerStage
  <2>4. ServerWrites(i, sh)
    BY <2>1, <2>3 DEF ServerWrites
  <2>5. QED
    BY <2>2, <2>4
<1>5. CASE StoreRegistration(i)
  <2>1. Sends({Close})
    BY <1>1, <1>5, ToClientSends DEF StoreRegistration
  <2>2. QED
    BY <2>1 DEF ServerWrites
<1>6. CASE ServerApp(i) /\ ~ToClient(i, Alert)
  <2>1. CASE UNCHANGED <<toClient, seen>>
    BY <1>1, <1>6, <2>1, NothingSent DEF ServerApp
  <2>2. CASE ~UNCHANGED <<toClient, seen>>
    <3> DEFINE sent(pt) == AppData(TrafficSecret(server[i].state.keys, server[i].log, "server"),
                                   Len(server[i].got), Echo(pt))
    <3>1. PICK pt : /\ ServerReceives(i) /\ server[i].pc = "app"
                    /\ server' = [server EXCEPT ![i].got = Append(@, pt)]
                    /\ ToClient(i, sent(pt))
      BY <1>6, <2>2 DEF ServerApp
    <3> HIDE DEF sent
    <3>2. Sends({sent(pt)})
      BY <1>1, <3>1, ToClientSends
    <3>3. server'[i].got = Append(server[i].got, pt)
      BY <1>1, <3>1 DEF ServerStage
    <3>4. ServerWrites(i, sent(pt))
      BY <3>1, <3>3 DEF ServerWrites, sent
    <3>5. QED
      BY <3>2, <3>4
  <2>3. QED
    BY <2>1, <2>2
<1>7. CASE ServerDropsFinish(i) \/ ServerFinishes(i) \/ ServerGivesUp(i)
  BY <1>1, <1>7, NothingSent DEF ServerDropsFinish, ServerFinishes, ServerGivesUp
<1>8. QED
  BY <1>2, <1>3, <1>4, <1>5, <1>6, <1>7
  DEF ServerStep, ServerRefuses, HandleLoginDenied, HandleLogin, ServerRejectsFinish, ServerApp

\* Damage changes a MAC, a signature or a ciphertext to Bad and nothing else that counts.
LEMMA DamageKeeps ==
  ASSUME NEW g, FrameShape(g), NEW f, NetworkWrites(g, f)
  PROVE  /\ FrameShape(f) /\ f.tag = g.tag
         /\ g.tag = "ClientFinish" => f.ke3 \in {Bad, g.ke3}
         /\ g.tag = "ServerHello" => f.verifySig \in {Bad, g.verifySig}
         /\ g.tag = "AppData" => f.ct \in {Bad, g.ct}
<1>1. CASE g.tag = "ClientHello"
  BY <1>1 DEF FrameShape, NetworkWrites, Damaged
<1>2. CASE g.tag = "ServerHello"
  BY <1>2 DEF FrameShape, NetworkWrites, Damaged
<1>3. CASE g.tag = "ClientFinish"
  BY <1>3 DEF FrameShape, NetworkWrites, Damaged
<1>4. CASE g.tag = "AppData"
  BY <1>4 DEF FrameShape, NetworkWrites, Damaged
<1>5. CASE g.tag \in {"Alert", "Close"}
  BY <1>5 DEF FrameShape, NetworkWrites, Damaged
<1>6. QED
  BY <1>1, <1>2, <1>3, <1>4, <1>5 DEF FrameShape

\* Tampering with a queue adds frames seen before, or damaged ones.
LEMMA QueueTampered ==
  ASSUME NEW Q, Queues(Q), NEW i \in Conns, \A f \in Elems(Q[i]) : OnWire(f),
         NEW q, q \in Tampered(Q[i]), NEW R, R = [Q EXCEPT ![i] = q],
         NEW F, \A f \in Elems(q) : OnWire(f) \/ (\E g : OnWire(g) /\ NetworkWrites(g, f)) => f \in F
  PROVE  Grows(Q, R, F)
<1>1. \A f \in seen : OnWire(f)
  BY DEF OnWire
<1>2. PICK g, s : /\ q = <<g>> \o s /\ IsQueue(s) /\ Elems(s) \subseteq Elems(Q[i])
                  /\ g \in seen \/ (Q[i] # <<>> /\ NetworkWrites(Head(Q[i]), g))
  BY TailElems DEF Tampered, NetworkWrites, Queues
<1>3. IsQueue(q) /\ Elems(q) \subseteq Elems(s) \cup {g}
  BY <1>2, PrependElems
<1>4. Q[i] # <<>> => Head(Q[i]) \in Elems(Q[i])
  BY TailElems DEF Queues
<1>5. R[i] = q /\ R = [j \in Conns |-> R[j]] /\ \A j \in Conns \ {i} : R[j] = Q[j]
  BY DEF Queues
<1>6. \A f \in Elems(q) : f \in F
  BY <1>1, <1>2, <1>3, <1>4
<1>7. QED
  BY <1>3, <1>5, <1>6 DEF Queues, Grows

\* The network sends only frames it saw, or damaged ones.
LEMMA NetworkWriting ==
  ASSUME Queues(toServer), Queues(toClient), NEW i \in Conns, TamperToServer(i) \/ TamperToClient(i)
  PROVE  \E F : Sends(F) /\ \A f \in F : OnWire(f) \/ \E g : OnWire(g) /\ NetworkWrites(g, f)
<1>1. CASE TamperToServer(i)
  <2>1. PICK q : q \in Tampered(toServer[i]) /\ toServer' = [toServer EXCEPT ![i] = q]
    BY <1>1 DEF TamperToServer
  <2>2. PICK F : F = {f \in Elems(q) : OnWire(f) \/ \E g : OnWire(g) /\ NetworkWrites(g, f)}
    OBVIOUS
  <2>3. \A f \in Elems(toServer[i]) : OnWire(f)
    BY DEF OnWire
  <2>4. Grows(toServer, toServer', F)
    BY <2>1, <2>2, <2>3, QueueTampered
  <2>5. Grows(toClient, toClient', F) /\ seen' = seen
    BY <1>1, QueueKept DEF TamperToServer
  <2>6. QED
    BY <2>2, <2>4, <2>5 DEF Sends
<1>2. CASE TamperToClient(i)
  <2>1. PICK q : q \in Tampered(toClient[i]) /\ toClient' = [toClient EXCEPT ![i] = q]
    BY <1>2 DEF TamperToClient
  <2>2. PICK F : F = {f \in Elems(q) : OnWire(f) \/ \E g : OnWire(g) /\ NetworkWrites(g, f)}
    OBVIOUS
  <2>3. \A f \in Elems(toClient[i]) : OnWire(f)
    BY DEF OnWire
  <2>4. Grows(toClient, toClient', F)
    BY <2>1, <2>2, <2>3, QueueTampered
  <2>5. Grows(toServer, toServer', F) /\ seen' = seen
    BY <1>2, QueueKept DEF TamperToClient
  <2>6. QED
    BY <2>2, <2>4, <2>5 DEF Sends
<1>3. QED
  BY <1>1, <1>2

-----------------------------------------------------------------------------
(* Types *)

\* Frames of clients and servers have the fields of their type (codec.py).
LEMMA WrittenShapes ==
  ASSUME NEW i \in Conns, NEW f, ClientWrites(i, f) \/ ServerWrites(i, f) PROVE FrameShape(f)
<1>1. ASSUME NEW role \in {"register", "login"}, NEW u \in Users, NEW pw, f = HelloFor(i, role, u, pw)
      PROVE  FrameShape(f)
  BY <1>1 DEF FrameShape, HelloFor, LoginHello, RegistrationHello, ClientHello
<1>2. ASSUME NEW t, NEW ke2, f = ServerHello(i, t, ke2) PROVE FrameShape(f)
  BY <1>2 DEF FrameShape, ServerHello, SignedHello
<1>3. ASSUME NEW ke3, f = ClientFinish(ke3) PROVE FrameShape(f)
  BY <1>3 DEF FrameShape, ClientFinish
<1>4. ASSUME NEW key, NEW n, NEW pt, f = AppData(key, n, pt) PROVE FrameShape(f)
  BY <1>4 DEF FrameShape, AppData
<1>5. FrameShape(Alert) /\ FrameShape(Close)
  BY DEF FrameShape, Alert, Close
<1>6. QED
  BY <1>1, <1>2, <1>3, <1>4, <1>5 DEF ClientWrites, ServerWrites

\* The frames of a step: known, written by an endpoint, or altered on the way.
FramesFrom(F) ==
  \A f \in F : \/ OnWire(f)
              \/ \E i \in Conns : ClientWrites(i, f) \/ ServerWrites(i, f)
              \/ \E g : OnWire(g) /\ NetworkWrites(g, f)

\* Every step sends only frames of one of the three origins.
LEMMA FramesOfStep ==
  ASSUME Shapes, [Next]_vars PROVE \E F : Sends(F) /\ FramesFrom(F)
<1>1. Queues(toServer) /\ Queues(toClient)
  BY DEF Shapes
<1>2. ASSUME NEW i \in Conns,
             ClientStep(i) \/ \E role \in {"register", "login"}, u \in Users, pw \in Passwords : ClientStart(i, role, u, pw)
      PROVE  \E F : Sends(F) /\ FramesFrom(F)
  BY <1>2, ClientWriting DEF FramesFrom
<1>3. ASSUME NEW i \in Conns, ServerStep(i) PROVE \E F : Sends(F) /\ FramesFrom(F)
  BY <1>3, ServerWriting DEF FramesFrom
<1>4. ASSUME NEW i \in Conns, TamperToServer(i) \/ TamperToClient(i) PROVE \E F : Sends(F) /\ FramesFrom(F)
  BY <1>1, <1>4, NetworkWriting DEF FramesFrom
<1>5. ASSUME UNCHANGED <<toServer, toClient, seen>> PROVE \E F : Sends(F) /\ FramesFrom(F)
  <2>1. Sends({})
    BY <1>1, <1>5, QueueKept DEF Sends
  <2>2. QED
    BY <2>1 DEF FramesFrom
<1>6. QED
  BY <1>2, <1>3, <1>4, <1>5 DEF Next, WindowPasses, ServerCrash, vars

\* Every step keeps stages, queues and shapes.
LEMMA ShapesStep == Shapes /\ [Next]_vars => Shapes'
<1> SUFFICES ASSUME Shapes, [Next]_vars PROVE Shapes'
  OBVIOUS
<1> USE DEF Env
<1>1. Queues(toServer') /\ Queues(toClient')
  BY FramesOfStep DEF Sends, Grows
<1>2. \A f : OnWire(f)' => FrameShape(f)
  <2>1. PICK F : Sends(F) /\ FramesFrom(F)
    BY FramesOfStep
  <2>2. \A f \in F : FrameShape(f)
    BY <2>1, WrittenShapes, DamageKeeps DEF FramesFrom, Shapes
  <2>3. QED
    BY <2>1, <2>2, WireGrows DEF Shapes
<1>3. /\ client' = [i \in Conns |-> client'[i]] /\ server' = [i \in Conns |-> server'[i]]
      /\ \A i \in Conns : ClientStage(i)' /\ ServerStage(i)'
  <2>1. ASSUME UNCHANGED client
        PROVE  client' = [i \in Conns |-> client'[i]] /\ \A i \in Conns : ClientStage(i)'
    BY <2>1 DEF Shapes, ClientStage
  <2>2. ASSUME UNCHANGED server
        PROVE  server' = [i \in Conns |-> server'[i]] /\ \A i \in Conns : ServerStage(i)'
    BY <2>2 DEF Shapes, ServerStage
  <2>3. CASE \E i \in Conns :
               ClientStep(i) \/ \E role \in {"register", "login"}, u \in Users, pw \in Passwords : ClientStart(i, role, u, pw)
    BY <2>2, <2>3, ClientStages
  <2>4. CASE \E i \in Conns : ServerStep(i)
    BY <2>1, <2>4, ServerStages
  <2>5. CASE ServerCrash
    <3>1. server' = [i \in Conns |-> server'[i]] /\ UNCHANGED client
      BY <2>5 DEF ServerCrash
    <3>2. ASSUME NEW i \in Conns PROVE ServerStage(i)'
      BY <2>5, <3>1 DEF ServerCrash, Shapes, ServerStage
    <3>3. QED
      BY <2>1, <3>1, <3>2
  <2>6. CASE UNCHANGED <<client, server>>
    BY <2>1, <2>2, <2>6
  <2>7. QED
    BY <2>3, <2>4, <2>5, <2>6 DEF Next, WindowPasses, TamperToServer, TamperToClient, vars
<1>4. db' = [u \in Users |-> db'[u]] /\ \A u \in Users : db'[u] # None => DOMAIN db'[u] = {"oprfKey", "cPub", "env"}
  <2>1. CASE UNCHANGED db
    BY <2>1 DEF Shapes
  <2>2. CASE \E i \in Conns : StoreRegistration(i)
    BY <2>2 DEF StoreRegistration, Shapes
  <2>3. QED
    BY <2>1, <2>2, ClientStages DEF Next, ServerStep, ServerRefuses, HandleRegistration, HandleLoginDenied, HandleLogin,
       ServerDropsFinish, ServerRejectsFinish, ServerFinishes, ServerApp, ServerGivesUp, WindowPasses, ServerCrash,
       TamperToServer, TamperToClient, vars
<1>5. attempts' \in [Users -> 0 .. MaxTries]
  <2> USE HandshakeAssumption
  <2>1. CASE UNCHANGED attempts
    BY <2>1 DEF Shapes
  <2>2. ASSUME NEW i \in Conns, HandleLogin(i) PROVE attempts' \in [Users -> 0 .. MaxTries]
    <3>1. Head(toServer[i]).cred \in Users
      <4>1. OnWire(Head(toServer[i])) /\ Head(toServer[i]).tag = "ClientHello"
        BY <2>2, HeadOnWire DEF HandleLogin, ServerReceives, Shapes
      <4>2. QED
        BY <4>1 DEF Shapes, FrameShape
    <3>2. QED
      BY <2>2, <3>1 DEF HandleLogin, Allowed, Shapes
  <2>3. ASSUME NEW i \in Conns, ServerFinishes(i) PROVE attempts' \in [Users -> 0 .. MaxTries]
    <3>1. attempts' = [attempts EXCEPT ![server[i].user] = 0]
      BY <2>3 DEF ServerFinishes
    <3>2. attempts \in [Users -> 0 .. MaxTries] /\ 0 \in 0 .. MaxTries
      BY DEF Shapes
    <3>3. QED
      BY ONLY <3>1, <3>2
  <2>4. ASSUME NEW u \in Users, WindowPasses(u) PROVE attempts' \in [Users -> 0 .. MaxTries]
    <3>1. /\ attempts' = [attempts EXCEPT ![u] = attempts[u] - 1] /\ attempts[u] > 0
          /\ attempts \in [Users -> 0 .. MaxTries]
      BY <2>4 DEF WindowPasses, Shapes
    <3>2. attempts[u] - 1 \in 0 .. MaxTries
      BY <3>1
    <3>3. QED
      BY <3>1, <3>2
  <2>5. CASE ServerCrash
    BY <2>5 DEF ServerCrash
  <2>6. QED
    BY <2>1, <2>2, <2>3, <2>4, <2>5, ClientStages DEF Next, ServerStep, ServerRefuses, HandleRegistration,
       HandleLoginDenied, ServerDropsFinish, ServerRejectsFinish, StoreRegistration, ServerApp, ServerGivesUp,
       TamperToServer, TamperToClient, vars
<1>6. faults' \in 0 .. MaxFaults /\ crashes' \in 0 .. MaxCrashes
  BY HandshakeAssumption, ClientStages, ServerStages DEF Shapes, Next, WindowPasses, ServerCrash, TamperToServer, TamperToClient, vars
<1>7. QED
  BY <1>1, <1>2, <1>3, <1>4, <1>5, <1>6 DEF Shapes

\* Both sides stay within their stages, every record has its three fields and
\* the limiter's count never exceeds RATE_LIMIT_MAX_TRIES, for any number of
\* connections, faults and restarts (server.py 81-206, ratelimit.py 72-76).
THEOREM TypeCorrect == Spec => []TypeOK
<1>1. Shapes => TypeOK
  BY DEF Shapes, ClientStage, ServerStage, TypeOK
<1>2. QED
  BY <1>1, ShapesInit, ShapesStep, PTL DEF Spec

-----------------------------------------------------------------------------
(* What a step leaves as it was *)

ClientKept(i) ==
  client[i].keys # None =>
    /\ client'[i].keys = client[i].keys /\ client'[i].log = client[i].log
    /\ client'[i].user = client[i].user /\ client'[i].pw = client[i].pw
    /\ client[i].pc # "ready" => client'[i].pc # "ready"

ServerKept(i) ==
  /\ Len(server[i].log) >= 1 => /\ Len(server'[i].log) >= 1 /\ server'[i].log[1] = server[i].log[1]
                                /\ server'[i].user = server[i].user
  /\ Len(server[i].log) >= 2 => Len(server'[i].log) >= 2 /\ server'[i].state = server[i].state
  /\ Len(server[i].log) = 3 => server'[i].log = server[i].log
  /\ server[i].got # <<>> => Len(server[i].log) = 3
  /\ Len(server'[i].got) >= Len(server[i].got)
  /\ \A n \in 1 .. Len(server[i].got) : server'[i].got[n] = server[i].got[n]

\* How far a server thread's log has come.
LEMMA LogLength ==
  ASSUME NEW i \in Conns, ServerStage(i)
  PROVE  /\ Len(server[i].log) \in 0 .. 3 /\ Len(server[i].got) \in Nat
         /\ server[i].got # <<>> => Len(server[i].log) = 3
         /\ server[i].pc = "accept" => Len(server[i].log) = 0
         /\ server[i].pc = "upload" => Len(server[i].log) = 1
         /\ server[i].pc = "finish" => Len(server[i].log) = 2
         /\ server[i].pc = "app" => Len(server[i].log) = 3
<1>1. Len(server[i].got) \in Nat
  BY DEF ServerStage, IsQueue
<1>2. PICK l : l = server[i].log
  OBVIOUS
<1>3. /\ l = <<>> => Len(l) = 0
      /\ l = <<l[1]>> => Len(l) = 1
      /\ l = <<l[1], l[2]>> => Len(l) = 2
      /\ l = <<l[1], l[2], l[3]>> => Len(l) = 3
  OBVIOUS
<1>4. QED
  BY <1>1, <1>2, <1>3 DEF ServerStage

\* A client that has completed keeps its user, password, keys and transcript.
LEMMA ClientKeeps == Shapes /\ [Next]_vars => \A i \in Conns : ClientKept(i)
<1> SUFFICES ASSUME Shapes, [Next]_vars, NEW i \in Conns PROVE ClientKept(i)
  OBVIOUS
<1>1. ClientStage(i) /\ client = [j \in Conns |-> client[j]]
  BY DEF Shapes
<1>2. ASSUME client'[i] = client[i] PROVE ClientKept(i)
  BY <1>2 DEF ClientKept
<1>3. ASSUME NEW role \in {"register", "login"}, NEW u \in Users, NEW pw \in Passwords, ClientStart(i, role, u, pw)
      PROVE  ClientKept(i)
  BY <1>1, <1>3 DEF ClientStart, ClientStage, ClientKept
<1>4. CASE ClientRejectsHello(i) \/ ClientFinishes(i) \/ ClientUploads(i)
  <2>1. client[i].pc = "hello"
    BY <1>4 DEF ClientRejectsHello, ClientFinishes, ClientUploads
  <2>2. client[i].keys = None
    BY <1>1, <2>1 DEF ClientStage
  <2>3. QED
    BY <2>2 DEF ClientKept
<1>a. ASSUME NEW next, next # "ready", NEW got,
             \/ client' = [client EXCEPT ![i].pc = next]
             \/ client' = [client EXCEPT ![i] = [@ EXCEPT !.pc = next, !.got = got]]
      PROVE  ClientKept(i)
  <2>1. PICK c : c = client[i]
    OBVIOUS
  <2>2. c = [pc |-> c.pc, role |-> c.role, user |-> c.user, pw |-> c.pw, log |-> c.log, keys |-> c.keys, got |-> c.got]
    BY <1>1, <2>1 DEF ClientStage
  <2>3. client'[i] = [c EXCEPT !.pc = next] \/ client'[i] = [c EXCEPT !.pc = next, !.got = got]
    BY <1>1, <1>a, <2>1
  <2>4. /\ client'[i].pc = next /\ client'[i].user = c.user /\ client'[i].pw = c.pw
        /\ client'[i].log = c.log /\ client'[i].keys = c.keys
    BY <2>2, <2>3
  <2>5. QED
    BY <1>a, <2>1, <2>4 DEF ClientKept
<1>5. CASE ClientSends(i)
  BY <1>a, <1>5 DEF ClientSends
<1>6. CASE ClientGetsReply(i)
  BY <1>2, <1>a, <1>6 DEF ClientGetsReply
<1>7. CASE ClientGetsAck(i)
  BY <1>a, <1>7 DEF ClientGetsAck
<1>8. CASE ClientGivesUp(i)
  BY <1>a, <1>8 DEF ClientGivesUp
<1>9. CASE ~ClientStep(i) /\ ~\E role \in {"register", "login"}, u \in Users, pw \in Passwords : ClientStart(i, role, u, pw)
  <2>1. UNCHANGED client \/ client'[i] = client[i]
    BY <1>9, ClientStages, ServerStages DEF Next, WindowPasses, ServerCrash, TamperToServer, TamperToClient, vars
  <2>2. QED
    BY <1>2, <2>1
<1>10. QED
  BY <1>3, <1>4, <1>5, <1>6, <1>7, <1>8, <1>9 DEF ClientStep

\* A thread keeps its OPAQUE state and its transcript once it has them.
LEMMA ServerKeeps == Shapes /\ [Next]_vars => \A i \in Conns : ServerKept(i)
<1> SUFFICES ASSUME Shapes, [Next]_vars, NEW i \in Conns PROVE ServerKept(i)
  OBVIOUS
<1>1. ServerStage(i) /\ server = [j \in Conns |-> server[j]]
  BY DEF Shapes
<1>2. /\ Len(server[i].log) \in 0 .. 3 /\ Len(server[i].got) \in Nat
      /\ server[i].got # <<>> => Len(server[i].log) = 3
  BY <1>1, LogLength
<1>3. ASSUME server'[i].log = server[i].log, server'[i].got = server[i].got,
             server'[i].user = server[i].user, server'[i].state = server[i].state
      PROVE  ServerKept(i)
  <2>1. PICK l, got : l = server[i].log /\ got = server[i].got
    OBVIOUS
  <2>2. Len(l) \in 0 .. 3 /\ Len(got) \in Nat /\ (got # <<>> => Len(l) = 3)
    BY <1>2, <2>1, Zenon
  <2>3. QED
    BY <1>3, <2>1, <2>2 DEF ServerKept
<1>4. CASE server' = [server EXCEPT ![i].pc = "closed"]
  BY <1>1, <1>3, <1>4 DEF ServerStage
<1>5. CASE HandleRegistration(i) \/ (HandleLogin(i) /\ ~CloseServer(i))
  <2>1. Len(server[i].log) = 0 /\ server[i].got = <<>>
    BY <1>1, <1>5, LogLength DEF HandleRegistration, HandleLogin
  <2>2. Len(server'[i].got) >= 0
    BY ShapesStep, LogLength DEF Shapes, ServerStage, IsQueue
  <2>3. QED
    BY <2>1, <2>2 DEF ServerKept
<1>6. CASE ServerFinishes(i)
  <2>1. PICK l, a, b, f : /\ server[i].log = <<a, b>> /\ l = <<a, b, f>>
                          /\ server' = [server EXCEPT ![i] = [@ EXCEPT !.pc = "app", !.log = l]]
    <3>1. PICK a, b : server[i].log = <<a, b>>
      BY <1>1, <1>6 DEF ServerFinishes, ServerStage
    <3>2. PICK f, l : /\ l = Append(server[i].log, f)
                      /\ server' = [server EXCEPT ![i] = [@ EXCEPT !.pc = "app", !.log = l]]
      BY <1>6, Zenon DEF ServerFinishes
    <3>3. Append(server[i].log, f) = <<a, b, f>>
      BY <3>1, OneAfterTwo
    <3>4. QED
      BY <3>1, <3>2, <3>3, Zenon
  <2>2. /\ server'[i].log = l /\ server'[i].got = server[i].got
        /\ server'[i].user = server[i].user /\ server'[i].state = server[i].state
    BY <1>1, <2>1 DEF ServerStage
  <2>3. Len(server[i].log) = 2 /\ server[i].log[1] = a /\ Len(l) = 3 /\ l[1] = a
    BY <2>1
  <2>4. QED
    BY <1>2, <2>2, <2>3 DEF ServerKept
<1>7. CASE ServerApp(i) /\ ~CloseServer(i)
  <2>1. PICK pt : server' = [server EXCEPT ![i].got = Append(@, pt)] /\ server[i].pc = "app"
    BY <1>7 DEF ServerApp
  <2>2. PICK got : got = Append(server[i].got, pt)
    OBVIOUS
  <2>3. /\ server'[i].log = server[i].log /\ server'[i].got = got
        /\ server'[i].user = server[i].user /\ server'[i].state = server[i].state
    BY <1>1, <2>1, <2>2 DEF ServerStage
  <2>4. Len(got) = Len(server[i].got) + 1 /\ \A n \in 1 .. Len(server[i].got) : got[n] = server[i].got[n]
    BY <1>1, <2>2, AppendElems DEF ServerStage
  <2>5. Len(server[i].log) = 3
    BY <1>1, <2>1, LogLength
  <2>6. QED
    BY <1>2, <2>3, <2>4, <2>5 DEF ServerKept
<1>8. CASE ServerCrash
  <2>1. server'[i] \in {server[i], [server[i] EXCEPT !.pc = "closed"]}
    BY <1>8 DEF ServerCrash
  <2>2. QED
    BY <1>1, <1>3, <2>1 DEF ServerStage
<1>9. CASE server'[i] = server[i]
  BY <1>3, <1>9
<1>10. QED
  <2>1. CASE ServerStep(i)
    BY <1>4, <1>5, <1>6, <1>7, <2>1 DEF ServerStep, ServerRefuses, HandleLoginDenied, HandleLogin, ServerDropsFinish,
       StoreRegistration, ServerRejectsFinish, ServerApp, ServerGivesUp, CloseServer
  <2>2. CASE ~ServerStep(i)
    BY <1>8, <1>9, <2>2, ClientStages, ServerStages DEF Next, WindowPasses, TamperToServer, TamperToClient, vars
  <2>3. QED
    BY <2>1, <2>2

-----------------------------------------------------------------------------
(* Where the authenticated parts of frames come from *)

\* A state for login_finish comes from login_start of the same thread.
ServerStates ==
  \A i \in Conns : Len(server[i].log) >= 2 =>
    \E record, ke1 : server[i].state = ServerLoginStart(i, record, ke1)

\* A client's MAC is from a client that completed with those keys.
MacsByClients ==
  \A f, k : OnWire(f) /\ f.tag = "ClientFinish" /\ f.ke3 # Bad /\ f.ke3 = ClientMac(k) =>
    \E j \in Conns : Completed(j) /\ client[j].keys = k

\* A CertificateVerify is from a thread that got the ClientHello in it, and for
\* a login that thread still has the state of its KE2.
HellosByServers ==
  \A f, t, c : OnWire(f) /\ f.tag = "ServerHello" /\ f.verifySig # Bad /\ f.verifySig = SignCertVerify(t, c) =>
    \E m \in Conns :
      /\ Len(server[m].log) >= 1 /\ t = <<server[m].log[1]>> /\ server[m].user = server[m].log[1].cred
      /\ "mac" \in DOMAIN c.ke2 => Len(server[m].log) >= 2 /\ c.ke2 = server[m].state.ke2

\* Encrypted data is a completed client's message or an accepted thread's echo.
ClientData(j, ct) ==
  /\ Completed(j) /\ client[j].pc # "ready"
  /\ ct = [key |-> TrafficSecret(client[j].keys, client[j].log, "client"), seq |-> 0, pt |-> Message(j)]
ServerData(j, n, ct) ==
  /\ Accepted(j) /\ n < Len(server[j].got)
  /\ ct = [key |-> TrafficSecret(server[j].state.keys, server[j].log, "server"), seq |-> n,
           pt |-> Echo(server[j].got[n + 1])]
DataByPeers ==
  \A f : OnWire(f) /\ f.tag = "AppData" /\ f.ct # Bad =>
    \E j \in Conns : ClientData(j, f.ct) \/ \E n \in Nat : ServerData(j, n, f.ct)

\* The tags of the frames each side builds (codec.py).
LEMMA Tags ==
  /\ \A i, role, u, pw : HelloFor(i, role, u, pw).tag = "ClientHello"
  /\ \A i, t, ke2 : ServerHello(i, t, ke2).tag = "ServerHello"
  /\ \A ke3 : ClientFinish(ke3).tag = "ClientFinish"
  /\ \A key, n, pt : AppData(key, n, pt).tag = "AppData"
  /\ Alert.tag = "Alert" /\ Close.tag = "Close"
BY DEF HelloFor, LoginHello, RegistrationHello, ClientHello, ServerHello, SignedHello, ClientFinish, AppData, Alert, Close

\* A thread with a ServerHello in its transcript has a state that login_start made.
LEMMA ServerStatesStep == Shapes /\ ServerStates /\ [Next]_vars => ServerStates'
<1> SUFFICES ASSUME Shapes, ServerStates, [Next]_vars, NEW i \in Conns, Len(server'[i].log) >= 2
             PROVE  \E record, ke1 : server'[i].state = ServerLoginStart(i, record, ke1)
  BY DEF ServerStates
<1>1. ServerStage(i) /\ server = [j \in Conns |-> server[j]] /\ ServerKept(i) /\ Len(server[i].log) \in 0 .. 3
  BY ServerKeeps, LogLength DEF Shapes
<1>2. CASE Len(server[i].log) >= 2
  BY <1>1, <1>2 DEF ServerKept, ServerStates
<1>3. CASE HandleLogin(i) /\ ~CloseServer(i)
  <2>1. PICK record, ke1, h, sh :
          server' = [server EXCEPT ![i] =
                      [@ EXCEPT !.pc = "finish", !.user = h.cred, !.state = ServerLoginStart(i, record, ke1),
                                !.log = <<h, sh>>]]
    <3> DEFINE h == Head(toServer[i])
               start == ServerLoginStart(i, db[h.cred], h.ke1)
               sh == ServerHello(i, <<h>>, start.ke2)
    <3>1. server' = [server EXCEPT ![i] =
                       [@ EXCEPT !.pc = "finish", !.user = h.cred, !.state = start, !.log = <<h, sh>>]]
      BY <1>3 DEF HandleLogin
    <3>2. start = ServerLoginStart(i, db[h.cred], h.ke1)
      OBVIOUS
    <3> HIDE DEF start, sh
    <3>3. QED
      BY <3>1, <3>2
  <2>2. PICK start : start = ServerLoginStart(i, record, ke1)
    OBVIOUS
  <2>3. server'[i].state = start
    BY <1>1, <2>1, <2>2 DEF ServerStage
  <2>4. QED
    BY <2>2, <2>3
<1>4. CASE HandleRegistration(i)
  <2>1. PICK h : server' = [server EXCEPT ![i] = [@ EXCEPT !.pc = "upload", !.user = h.cred, !.log = <<h>>]]
    BY <1>4, Zenon DEF HandleRegistration
  <2>2. server'[i].log = <<h>>
    BY <1>1, <2>1 DEF ServerStage
  <2>3. QED
    BY <2>2
<1>5. CASE Len(server[i].log) < 2 /\ ~HandleRegistration(i) /\ ~(HandleLogin(i) /\ ~CloseServer(i))
  <2>1. ASSUME server' = [server EXCEPT ![i].pc = "closed"] PROVE server'[i].log = server[i].log
    BY <1>1, <2>1 DEF ServerStage
  <2>2. ~ServerFinishes(i) /\ server[i].pc # "app"
    BY <1>1, <1>5, LogLength DEF ServerFinishes
  <2>3. ASSUME ServerStep(i) PROVE server'[i].log = server[i].log
    BY <1>5, <2>1, <2>2, <2>3 DEF ServerStep, ServerRefuses, HandleLoginDenied, HandleLogin, ServerDropsFinish,
       StoreRegistration, ServerRejectsFinish, ServerApp, ServerGivesUp, CloseServer
  <2>4. ASSUME ServerCrash PROVE server'[i].log = server[i].log
    <3>1. server'[i] \in {server[i], [server[i] EXCEPT !.pc = "closed"]}
      BY <2>4 DEF ServerCrash
    <3>2. QED
      BY <1>1, <3>1 DEF ServerStage
  <2>5. server'[i].log = server[i].log
    BY <2>3, <2>4, ClientStages, ServerStages DEF Next, WindowPasses, TamperToServer, TamperToClient, vars
  <2>6. QED
    BY <1>1, <1>5, <2>5
<1>6. QED
  BY <1>1, <1>2, <1>3, <1>4, <1>5

\* Client MACs on the wire were made by clients that completed.
LEMMA MacsByClientsStep == Shapes /\ MacsByClients /\ [Next]_vars => MacsByClients'
<1> SUFFICES ASSUME Shapes, MacsByClients, [Next]_vars, NEW f, NEW k,
                    OnWire(f)', f.tag = "ClientFinish", f.ke3 # Bad, f.ke3 = ClientMac(k)
             PROVE  \E j \in Conns : Completed(j)' /\ client'[j].keys = k
  BY DEF MacsByClients
<1>1. ASSUME NEW g, OnWire(g), g.tag = "ClientFinish", g.ke3 = ClientMac(k), g.ke3 # Bad
      PROVE  \E j \in Conns : Completed(j)' /\ client'[j].keys = k
  <2>1. PICK j \in Conns : Completed(j) /\ client[j].keys = k
    BY <1>1 DEF MacsByClients
  <2>2. ClientKept(j)
    BY ClientKeeps
  <2>3. client'[j].keys = client[j].keys /\ client[j].keys # None
    BY <2>1, <2>2 DEF ClientKept, Completed
  <2>4. QED
    BY <2>1, <2>3 DEF Completed
<1>2. ASSUME NEW g, OnWire(g), NetworkWrites(g, f) PROVE \E j \in Conns : Completed(j)' /\ client'[j].keys = k
  <2>1. FrameShape(g)
    BY <1>2 DEF Shapes
  <2>2. g.tag = "ClientFinish" /\ f.ke3 = g.ke3
    BY <1>2, <2>1, DamageKeeps
  <2>3. QED
    BY <1>1, <1>2, <2>2
<1>3. ASSUME NEW i \in Conns, ServerWrites(i, f) PROVE FALSE
  <2>1. \/ f \in {Alert, Close}
        \/ \E t, ke2 : f = ServerHello(i, t, ke2)
        \/ \E key, seq, pt : f = AppData(key, seq, pt)
    BY <1>3, Zenon DEF ServerWrites
  <2>2. f.tag # "ClientFinish"
    BY <2>1, Tags
  <2>3. QED
    BY <2>2
<1>4. ASSUME NEW i \in Conns, ClientWrites(i, f) PROVE \E j \in Conns : Completed(j)' /\ client'[j].keys = k
  <2>1. CASE f = ClientFinish(ClientMac(client'[i].keys)) /\ client'[i].keys # None
    <3>1. f.ke3 = ClientMac(client'[i].keys)
      BY <2>1 DEF ClientFinish
    <3>2. client'[i].keys = k
      BY <3>1 DEF ClientMac
    <3>3. QED
      BY <2>1, <3>2 DEF Completed
  <2>2. ASSUME NEW response, f = ClientFinish(RegistrationFinish(client[i].pw, i, response)) PROVE FALSE
    <3>1. f.ke3 = RegistrationFinish(client[i].pw, i, response)
      BY <2>2 DEF ClientFinish
    <3>2. DOMAIN f.ke3 = {"cPub", "env"}
      BY <3>1 DEF RegistrationFinish
    <3>3. DOMAIN f.ke3 = {"by", "keys"}
      BY DEF ClientMac
    <3>4. QED
      BY <3>2, <3>3
  <2>3. QED
    BY <1>4, <2>1, <2>2, Tags DEF ClientWrites
<1>5. QED
  BY <1>1, <1>2, <1>3, <1>4, FramesOfStep, WireGrows DEF FramesFrom

\* Signatures on the wire were made by threads, over what they saw.
LEMMA HellosByServersStep == Shapes /\ HellosByServers /\ [Next]_vars => HellosByServers'
<1> DEFINE From(m, t, c) ==
      /\ Len(server[m].log) >= 1 /\ t = <<server[m].log[1]>> /\ server[m].user = server[m].log[1].cred
      /\ "mac" \in DOMAIN c.ke2 => Len(server[m].log) >= 2 /\ c.ke2 = server[m].state.ke2
<1> SUFFICES ASSUME Shapes, HellosByServers, [Next]_vars, NEW f, NEW t, NEW c,
                    OnWire(f)', f.tag = "ServerHello", f.verifySig # Bad, f.verifySig = SignCertVerify(t, c)
             PROVE  \E m \in Conns : From(m, t, c)'
  BY DEF HellosByServers
<1>1. ASSUME NEW g, OnWire(g), g.tag = "ServerHello", g.verifySig = SignCertVerify(t, c), g.verifySig # Bad
      PROVE  \E m \in Conns : From(m, t, c)'
  BY <1>1, ServerKeeps DEF HellosByServers, ServerKept
<1>2. ASSUME NEW g, OnWire(g), NetworkWrites(g, f) PROVE \E m \in Conns : From(m, t, c)'
  BY <1>1, <1>2, DamageKeeps DEF Shapes
<1>3. ASSUME NEW i \in Conns, ClientWrites(i, f) PROVE FALSE
  BY <1>3, Tags DEF ClientWrites
<1>4. ASSUME NEW i \in Conns, NEW h, NEW ke2, f = ServerHello(i, <<h>>, ke2) PROVE t = <<h>> /\ c.ke2 = ke2
  <2>1. PICK core : /\ f = SignedHello(core, SignServerConfig(ServerConfig), SignCertVerify(<<h>>, core))
                    /\ core.ke2 = ke2
    BY <1>4 DEF ServerHello, HelloCore
  <2>2. f.verifySig = SignCertVerify(<<h>>, core)
    BY <2>1 DEF SignedHello
  <2>3. t = <<h>> /\ c = core
    BY <2>2 DEF SignCertVerify
  <2>4. QED
    BY <2>1, <2>3
<1>5. ASSUME NEW i \in Conns, ServerWrites(i, f) PROVE \E m \in Conns : From(m, t, c)'
  <2>1. ASSUME NEW h, server'[i].log = <<h>>, server'[i].user = h.cred,
               f = ServerHello(i, <<h>>, RegistrationRespond(i, h.ke1))
        PROVE  From(i, t, c)'
    <3>1. t = <<h>> /\ c.ke2 = RegistrationRespond(i, h.ke1)
      BY <1>4, <2>1
    <3>2. "mac" \notin DOMAIN c.ke2
      BY <3>1 DEF RegistrationRespond
    <3>3. Len(server'[i].log) = 1 /\ server'[i].log[1] = h
      BY <2>1
    <3>4. QED
      BY <2>1, <3>1, <3>2, <3>3
  <2>2. ASSUME NEW h, server'[i].log = <<h, f>>, server'[i].user = h.cred,
               f = ServerHello(i, <<h>>, server'[i].state.ke2)
        PROVE  From(i, t, c)'
    <3>1. t = <<h>> /\ c.ke2 = server'[i].state.ke2
      BY <1>4, <2>2
    <3>2. Len(server'[i].log) = 2 /\ server'[i].log[1] = h
      BY <2>2
    <3>3. QED
      BY <2>2, <3>1, <3>2
  <2>3. QED
    BY <1>5, <2>1, <2>2, Tags DEF ServerWrites
<1>6. QED
  BY <1>1, <1>2, <1>3, <1>5, FramesOfStep, WireGrows DEF FramesFrom

\* Application data on the wire was encrypted by a client or thread that has the keys.
LEMMA DataByPeersStep == Shapes /\ DataByPeers /\ [Next]_vars => DataByPeers'
<1> DEFINE From(ct) == \E j \in Conns : ClientData(j, ct) \/ \E n \in Nat : ServerData(j, n, ct)
<1> SUFFICES ASSUME Shapes, DataByPeers, [Next]_vars, NEW f, OnWire(f)', f.tag = "AppData", f.ct # Bad
             PROVE  From(f.ct)'
  BY DEF DataByPeers
<1>1. ASSUME NEW ct, From(ct) PROVE From(ct)'
  <2>1. ASSUME NEW j \in Conns, ClientData(j, ct) PROVE ClientData(j, ct)'
    BY <2>1, ClientKeeps DEF ClientData, ClientKept, Completed
  <2>2. ASSUME NEW j \in Conns, NEW n \in Nat, ServerData(j, n, ct) PROVE ServerData(j, n, ct)'
    <3>1. ServerKept(j) /\ Len(server[j].log) = 3 /\ n < Len(server[j].got) /\ Len(server[j].got) \in Nat
          /\ Len(server'[j].got) \in Nat
      BY <2>2, ServerKeeps, LogLength, ShapesStep DEF ServerData, Accepted, Shapes, ServerStage, IsQueue
    <3>2. /\ server'[j].log = server[j].log /\ server'[j].state = server[j].state
          /\ n < Len(server'[j].got) /\ server'[j].got[n + 1] = server[j].got[n + 1]
      BY <3>1 DEF ServerKept
    <3>3. QED
      BY <2>2, <3>1, <3>2 DEF ServerData, Accepted
  <2>3. QED
    BY <1>1, <2>1, <2>2
<1>2. ASSUME NEW g, OnWire(g), g.tag = "AppData", g.ct = f.ct PROVE From(f.ct)'
  BY <1>1, <1>2 DEF DataByPeers
<1>3. ASSUME NEW g, OnWire(g), NetworkWrites(g, f) PROVE From(f.ct)'
  BY <1>2, <1>3, DamageKeeps DEF Shapes
<1>4. ASSUME NEW i \in Conns, ClientWrites(i, f) PROVE From(f.ct)'
  <2>1. /\ f = AppData(TrafficSecret(client[i].keys, client[i].log, "client"), 0, Message(i))
        /\ client[i].keys # None /\ client'[i].pc = "reply"
    BY <1>4, Tags DEF ClientWrites
  <2>2. client'[i].keys = client[i].keys /\ client'[i].log = client[i].log
    BY <2>1, ClientKeeps DEF ClientKept
  <2>3. ClientData(i, f.ct)'
    <3>1. f.ct = [key |-> TrafficSecret(client[i].keys, client[i].log, "client"), seq |-> 0, pt |-> Message(i)]
      BY <2>1 DEF AppData
    <3>2. f.ct = [key |-> TrafficSecret(client'[i].keys, client'[i].log, "client"), seq |-> 0, pt |-> Message(i)]
      BY <2>2, <3>1
    <3>3. client'[i].keys # None /\ client'[i].pc # "ready"
      BY <2>1, <2>2
    <3> HIDE DEF From
    <3>4. QED
      BY <3>2, <3>3 DEF ClientData, Completed
  <2>4. QED
    BY <2>3
<1>5. ASSUME NEW i \in Conns, ServerWrites(i, f) PROVE From(f.ct)'
  <2>1. PICK pt : /\ server[i].pc = "app" /\ server'[i].got = Append(server[i].got, pt)
                  /\ f = AppData(TrafficSecret(server[i].state.keys, server[i].log, "server"),
                                Len(server[i].got), Echo(pt))
    BY <1>5, Tags DEF ServerWrites
  <2>2. Len(server[i].log) = 3 /\ Len(server[i].got) \in Nat
    <3>1. ServerStage(i) /\ server[i].pc = "app"
      BY <2>1 DEF Shapes
    <3>2. QED
      BY <3>1, LogLength
  <2>3. server'[i].log = server[i].log /\ server'[i].state = server[i].state
    <3>1. ServerKept(i)
      BY ServerKeeps
    <3>2. QED
      BY <2>2, <3>1 DEF ServerKept
  <2>4. PICK n : n = Len(server[i].got) /\ n \in Nat
    BY <2>2
  <2>5. Len(server'[i].got) = n + 1 /\ server'[i].got[n + 1] = pt
    <3>1. IsQueue(server[i].got) /\ server'[i].got = Append(server[i].got, pt)
      BY <2>1 DEF Shapes, ServerStage
    <3>2. QED
      BY <2>4, <3>1, AppendElems
  <2>6. f.ct = [key |-> TrafficSecret(server'[i].state.keys, server'[i].log, "server"), seq |-> n, pt |-> Echo(pt)]
    BY <2>1, <2>3, <2>4 DEF AppData
  <2>7. ServerData(i, n, f.ct)'
    <3> HIDE DEF From
    <3>1. n < Len(server'[i].got) /\ Len(server'[i].log) = 3
      BY <2>2, <2>3, <2>4, <2>5
    <3>2. QED
      BY <2>5, <2>6, <3>1 DEF ServerData, Accepted
  <2>8. QED
    BY <2>4, <2>7
<1>6. QED
  BY <1>2, <1>3, <1>4, <1>5, FramesOfStep, WireGrows DEF FramesFrom

-----------------------------------------------------------------------------
(* Which steps complete and accept a login, and deliver data *)

\* A client gets its keys only by completing client_login.
LEMMA Completing ==
  ASSUME Shapes, [Next]_vars, NEW i \in Conns, client[i].keys = None, client'[i].keys # None
  PROVE  /\ ClientFinishes(i) /\ client'[i].keys = ClientKeys(i, Head(toClient[i]))
         /\ client'[i].user = client[i].user /\ client'[i].pw = client[i].pw
         /\ client[i].role = "login" /\ client[i].user \in Users /\ client[i].pw \in Passwords
         /\ client[i].log = <<HelloFor(i, "login", client[i].user, client[i].pw)>>
         /\ client'[i].log[1] = HelloFor(i, "login", client[i].user, client[i].pw)
<1>1. ClientStage(i) /\ client = [j \in Conns |-> client[j]] /\ ClientStage(i)'
  BY ShapesStep DEF Shapes
<1>2. ASSUME NEW role \in {"register", "login"}, NEW u \in Users, NEW pw \in Passwords, ClientStart(i, role, u, pw)
      PROVE  FALSE
  BY <1>1, <1>2 DEF ClientStart, ClientStage
<1>3. ~ClientRejectsHello(i) /\ ~ClientUploads(i) /\ ~ClientSends(i) /\ ~ClientGetsAck(i) /\ ~ClientGivesUp(i)
  BY <1>1 DEF ClientRejectsHello, ClientUploads, ClientSends, ClientGetsAck, ClientGivesUp, ClientStage
<1>4. ~ClientGetsReply(i)
  BY <1>1 DEF ClientGetsReply, ClientStage
<1>5. ClientFinishes(i)
  <2>1. CASE ClientStep(i)
    BY <1>3, <1>4, <2>1 DEF ClientStep
  <2>2. CASE ~ClientStep(i)
    <3>1. UNCHANGED client \/ client'[i] = client[i]
      BY <1>2, <2>2, ClientStages, ServerStages DEF Next, WindowPasses, ServerCrash, TamperToServer, TamperToClient, vars
    <3>2. QED
      BY <3>1
  <2>3. QED
    BY <2>1, <2>2
<1>6. PICK keys, l : /\ keys = ClientKeys(i, Head(toClient[i]))
                     /\ client' = [client EXCEPT ![i] = [@ EXCEPT !.pc = "ready", !.keys = keys, !.log = l]]
  BY <1>5, Zenon DEF ClientFinishes
<1>7. client'[i].keys = keys /\ client'[i].user = client[i].user /\ client'[i].pw = client[i].pw
      /\ client'[i].role = client[i].role
  BY <1>1, <1>6 DEF ClientStage
<1>8. /\ client[i].role = "login" /\ client[i].user \in Users /\ client[i].pw \in Passwords
      /\ client[i].log = <<HelloFor(i, "login", client[i].user, client[i].pw)>>
  BY <1>1, <1>5 DEF ClientFinishes, ClientStage
<1>9. client'[i].log[1] = HelloFor(i, "login", client[i].user, client[i].pw)
  <2>1. PICK a, b, c : client'[i].log = <<a, b, c>> /\ a = HelloFor(i, client'[i].role, client'[i].user, client'[i].pw)
    BY <1>1 DEF ClientStage
  <2>2. QED
    BY <1>7, <1>8, <2>1
<1>10. QED
  BY <1>5, <1>6, <1>7, <1>8, <1>9

\* A thread's transcript gets its third frame only when login_finish accepted.
LEMMA Accepting ==
  ASSUME Shapes, [Next]_vars, NEW i \in Conns, Len(server[i].log) # 3, Len(server'[i].log) = 3
  PROVE  ServerFinishes(i)
<1>1. ServerStage(i) /\ server = [j \in Conns |-> server[j]]
  BY DEF Shapes
<1>2. ASSUME server' = [server EXCEPT ![i].pc = "closed"] PROVE server'[i].log = server[i].log
  BY <1>1, <1>2 DEF ServerStage
<1>3. ~HandleRegistration(i)
  <2>1. SUFFICES ASSUME HandleRegistration(i) PROVE FALSE
    OBVIOUS
  <2>2. PICK h : server' = [server EXCEPT ![i] = [@ EXCEPT !.pc = "upload", !.user = h.cred, !.log = <<h>>]]
    BY <2>1, Zenon DEF HandleRegistration
  <2>3. server'[i].log = <<h>>
    BY <1>1, <2>2 DEF ServerStage
  <2>4. QED
    BY <2>3
<1>4. ASSUME HandleLogin(i) PROVE CloseServer(i)
  <2>1. SUFFICES ASSUME ~CloseServer(i) PROVE FALSE
    OBVIOUS
  <2>2. \E u, start, h, sh :
          server' = [server EXCEPT ![i] = [@ EXCEPT !.pc = "finish", !.user = u, !.state = start, !.log = <<h, sh>>]]
    <3> DEFINE f == Head(toServer[i])
               start == ServerLoginStart(i, db[f.cred], f.ke1)
               sh == ServerHello(i, <<f>>, start.ke2)
    <3>1. server' = [server EXCEPT ![i] =
                       [@ EXCEPT !.pc = "finish", !.user = f.cred, !.state = start, !.log = <<f, sh>>]]
      BY <1>4, <2>1 DEF HandleLogin
    <3> HIDE DEF start, sh, f
    <3>2. QED
      BY <3>1
  <2>3. PICK u, start, h, sh :
          server' = [server EXCEPT ![i] = [@ EXCEPT !.pc = "finish", !.user = u, !.state = start, !.log = <<h, sh>>]]
    BY <2>2
  <2>4. server'[i].log = <<h, sh>>
    BY <1>1, <2>3 DEF ServerStage
  <2>5. QED
    BY <2>4
<1>5. ASSUME ServerApp(i) PROVE FALSE
  BY <1>1, <1>5, LogLength DEF ServerApp
<1>6. CASE ServerStep(i)
  BY <1>2, <1>3, <1>4, <1>5, <1>6 DEF ServerStep, ServerRefuses, HandleLoginDenied, ServerDropsFinish,
     StoreRegistration, ServerRejectsFinish, ServerGivesUp, CloseServer
<1>7. CASE ServerCrash
  <2>1. server'[i] \in {server[i], [server[i] EXCEPT !.pc = "closed"]}
    BY <1>7 DEF ServerCrash
  <2>2. server'[i].log = server[i].log
    BY <1>1, <2>1 DEF ServerStage
  <2>3. QED
    BY <2>2
<1>8. CASE ~ServerStep(i) /\ ~ServerCrash
  <2>1. server'[i] = server[i]
    BY <1>8, ClientStages, ServerStages DEF Next, WindowPasses, TamperToServer, TamperToClient, vars
  <2>2. QED
    BY <2>1
<1>9. QED
  BY <1>6, <1>7, <1>8

\* A thread gets application data only by decrypting it in _app_loop.
LEMMA Echoing ==
  ASSUME Shapes, [Next]_vars, NEW i \in Conns, server'[i].got # server[i].got
  PROVE  /\ server[i].pc = "app" /\ toServer[i] # <<>> /\ Head(toServer[i]).tag = "AppData"
         /\ Opens(Head(toServer[i]), TrafficSecret(server[i].state.keys, server[i].log, "client"), Len(server[i].got))
         /\ server'[i].got = Append(server[i].got, Head(toServer[i]).ct.pt)
<1>1. ServerStage(i) /\ server = [j \in Conns |-> server[j]]
  BY DEF Shapes
<1>2. server' # [server EXCEPT ![i].pc = "closed"]
  BY <1>1 DEF ServerStage
<1>3. ~HandleRegistration(i) /\ ~HandleLogin(i)
  <2>1. SUFFICES ASSUME HandleRegistration(i) \/ HandleLogin(i) PROVE FALSE
    OBVIOUS
  <2>2. \E s : s.got = server[i].got /\ server' = [server EXCEPT ![i] = s]
    <3>1. CASE HandleRegistration(i)
      <4>1. PICK h : server' = [server EXCEPT ![i] = [@ EXCEPT !.pc = "upload", !.user = h.cred, !.log = <<h>>]]
        BY <3>1, Zenon DEF HandleRegistration
      <4>2. PICK s : s = [server[i] EXCEPT !.pc = "upload", !.user = h.cred, !.log = <<h>>]
        OBVIOUS
      <4>3. s.got = server[i].got
        BY <1>1, <4>2 DEF ServerStage
      <4>4. QED
        BY <4>1, <4>2, <4>3
    <3>2. CASE HandleLogin(i)
      <4> DEFINE f == Head(toServer[i])
                 start == ServerLoginStart(i, db[f.cred], f.ke1)
                 sh == ServerHello(i, <<f>>, start.ke2)
      <4>1. server' = [server EXCEPT ![i] =
                         [@ EXCEPT !.pc = "finish", !.user = f.cred, !.state = start, !.log = <<f, sh>>]]
        BY <1>2, <3>2 DEF HandleLogin, CloseServer
      <4> HIDE DEF start, sh, f
      <4>2. PICK s : s = [server[i] EXCEPT !.pc = "finish", !.user = f.cred, !.state = start, !.log = <<f, sh>>]
        OBVIOUS
      <4>3. s.got = server[i].got
        BY <1>1, <4>2 DEF ServerStage
      <4>4. QED
        BY <4>1, <4>2, <4>3
    <3>3. QED
      BY <2>1, <3>1, <3>2
  <2>3. QED
    BY <1>1, <2>2
<1>4. ~ServerFinishes(i)
  <2>1. SUFFICES ASSUME ServerFinishes(i) PROVE FALSE
    OBVIOUS
  <2>2. PICK l : server' = [server EXCEPT ![i] = [@ EXCEPT !.pc = "app", !.log = l]]
    BY <2>1, Zenon DEF ServerFinishes
  <2>3. QED
    BY <1>1, <2>2 DEF ServerStage
<1>5. ServerStep(i)
  <2>1. SUFFICES ASSUME ~ServerStep(i) PROVE FALSE
    OBVIOUS
  <2>2. server'[i] = server[i] \/ ServerCrash
    BY <2>1, ClientStages, ServerStages DEF Next, WindowPasses, TamperToServer, TamperToClient, vars
  <2>3. server'[i] \in {server[i], [server[i] EXCEPT !.pc = "closed"]}
    BY <2>2 DEF ServerCrash
  <2>4. QED
    BY <1>1, <2>3 DEF ServerStage
<1>6. ServerApp(i)
  BY <1>2, <1>3, <1>4, <1>5 DEF ServerStep, ServerRefuses, HandleLoginDenied, ServerDropsFinish,
     StoreRegistration, ServerRejectsFinish, ServerGivesUp, CloseServer
<1>7. PICK pt : /\ server[i].pc = "app" /\ ServerReceives(i) /\ Head(toServer[i]).tag = "AppData"
                /\ Opens(Head(toServer[i]), TrafficSecret(server[i].state.keys, server[i].log, "client"), Len(server[i].got))
                /\ server' = [server EXCEPT ![i].got = Append(@, pt)] /\ pt = Head(toServer[i]).ct.pt
  BY <1>2, <1>6 DEF ServerApp, CloseServer
<1>8. server'[i].got = Append(server[i].got, pt)
  BY <1>1, <1>7 DEF ServerStage
<1>9. QED
  BY <1>7, <1>8 DEF ServerReceives

\* A client gets its reply only by decrypting it in main.
LEMMA Replying ==
  ASSUME Shapes, [Next]_vars, NEW i \in Conns, client'[i].got # client[i].got
  PROVE  /\ client[i].pc = "reply" /\ toClient[i] # <<>> /\ Head(toClient[i]).tag = "AppData"
         /\ Opens(Head(toClient[i]), TrafficSecret(client[i].keys, client[i].log, "server"), 0)
         /\ client'[i].got = Head(toClient[i]).ct.pt
<1>1. ClientStage(i) /\ client = [j \in Conns |-> client[j]]
  BY DEF Shapes
<1>2. ASSUME NEW role \in {"register", "login"}, NEW u \in Users, NEW pw \in Passwords, ClientStart(i, role, u, pw)
      PROVE  FALSE
  BY <1>1, <1>2 DEF ClientStart, ClientStage
<1>3. ~ClientRejectsHello(i) /\ ~ClientUploads(i) /\ ~ClientSends(i) /\ ~ClientGetsAck(i) /\ ~ClientGivesUp(i)
  BY <1>1 DEF ClientRejectsHello, ClientUploads, ClientSends, ClientGetsAck, ClientGivesUp, ClientStage
<1>4. ~ClientFinishes(i)
  <2>1. SUFFICES ASSUME ClientFinishes(i) PROVE FALSE
    OBVIOUS
  <2>2. PICK keys, l : client' = [client EXCEPT ![i] = [@ EXCEPT !.pc = "ready", !.keys = keys, !.log = l]]
    BY <2>1, Zenon DEF ClientFinishes
  <2>3. QED
    BY <1>1, <2>2 DEF ClientStage
<1>5. ClientStep(i)
  <2>1. SUFFICES ASSUME ~ClientStep(i) PROVE FALSE
    OBVIOUS
  <2>2. UNCHANGED client \/ client'[i] = client[i]
    BY <1>2, <2>1, ClientStages, ServerStages DEF Next, WindowPasses, ServerCrash, TamperToServer, TamperToClient, vars
  <2>3. QED
    BY <2>2
<1>6. ClientGetsReply(i)
  BY <1>3, <1>4, <1>5 DEF ClientStep
<1>7. client' # [client EXCEPT ![i].pc = "failed"] /\ client' # [client EXCEPT ![i].pc = "done"]
  BY <1>1 DEF ClientStage
<1>8. PICK pt : /\ client[i].pc = "reply" /\ ClientReceives(i) /\ Head(toClient[i]).tag = "AppData"
                /\ Opens(Head(toClient[i]), TrafficSecret(client[i].keys, client[i].log, "server"), 0)
                /\ client' = [client EXCEPT ![i] = [@ EXCEPT !.pc = "done", !.got = pt]]
                /\ pt = Head(toClient[i]).ct.pt
  BY <1>6, <1>7, Zenon DEF ClientGetsReply
<1>9. client'[i].got = pt
  BY <1>1, <1>8 DEF ClientStage
<1>10. QED
  BY <1>8, <1>9 DEF ClientReceives

-----------------------------------------------------------------------------
(* Agreement on logins *)

\* The thread m answered client i's ClientHello from a record of its password.
Answers(m, i) ==
  /\ Len(server[m].log) >= 2 /\ ~server[m].state.fake
  /\ server[m].state.keys = client[i].keys /\ server[m].user = client[i].user
  /\ server[m].log[1] = client[i].log[1]
  /\ client[i].pw = server[m].state.ke2.env.rw.pw
ClientsAnswered == \A i \in Conns : Completed(i) => \E m \in Conns : Answers(m, i)

\* An accepted thread has its keys from a client that completed.
ServersAnswered ==
  \A i \in Conns : Accepted(i) => \E j \in Conns : Completed(j) /\ client[j].keys = server[i].state.keys

\* No two threads have the same keys, since each has its nonce in them.
LEMMA KeysApart ==
  ASSUME ServerStates, NEW i \in Conns, NEW j \in Conns, Len(server[i].log) >= 2, Len(server[j].log) >= 2,
         server[i].state.keys = server[j].state.keys
  PROVE  i = j
<1>1. ASSUME NEW m \in Conns, Len(server[m].log) >= 2 PROVE server[m].state.keys.transcript[6] = <<"snonce", m>>
  <2>1. PICK record, ke1 : server[m].state = ServerLoginStart(m, record, ke1)
    BY <1>1 DEF ServerStates
  <2>2. PICK ikm, a, b, c, d, e, f :
          ServerLoginStart(m, record, ke1).keys = [ikm |-> ikm, transcript |-> <<a, b, c, d, e, <<"snonce", m>>, f>>]
    BY DEF ServerLoginStart, Derive3DH, OpaqueTranscript
  <2>3. QED
    BY <2>1, <2>2
<1>2. <<"snonce", i>> = <<"snonce", j>>
  BY <1>1
<1>3. QED
  BY <1>2

\* An envelope opens only under the password it was sealed with, and a MAC is
\* right only for the same keys.
LEMMA FinishAgrees ==
  ASSUME NEW m, NEW record, NEW ke1, NEW pw \in Passwords, NEW i, NEW state,
         state = ServerLoginStart(m, record, ke1), ClientLoginFinish(pw, i, state.ke2) # None
  PROVE  /\ ~state.fake /\ state.ke2.env.rw.pw = pw
         /\ ClientLoginFinish(pw, i, state.ke2) = state.keys
<1>1. /\ state.ke2.mac = ServerMac(state.keys)
      /\ state.fake => state.ke2.env.rw.pw = Bad
  BY DEF ServerLoginStart, FakeRecord, EnvelopeSeal
<1>2. PICK keys : /\ ClientLoginFinish(pw, i, state.ke2) = keys
                  /\ EnvelopeOpens(OprfFinalize(pw, <<"blind", i>>, state.ke2.z), state.ke2.env)
                  /\ state.ke2.mac = ServerMac(keys)
  BY Zenon DEF ClientLoginFinish
<1>3. keys = state.keys
  BY <1>1, <1>2 DEF ServerMac
<1>4. state.ke2.env.rw.pw = pw
  BY <1>2 DEF EnvelopeOpens, OprfFinalize
<1>5. QED
  BY <1>1, <1>2, <1>3, <1>4, HandshakeAssumption

\* A client that completes was answered by a thread.
LEMMA ClientsAnsweredStep ==
  Shapes /\ ServerStates /\ HellosByServers /\ ClientsAnswered /\ [Next]_vars => ClientsAnswered'
<1> SUFFICES ASSUME Shapes, ServerStates, HellosByServers, ClientsAnswered, [Next]_vars,
                    NEW i \in Conns, client'[i].keys # None
             PROVE  \E m \in Conns : Answers(m, i)'
  BY DEF ClientsAnswered, Completed
<1>1. CASE client[i].keys # None
  <2>1. PICK m \in Conns : Answers(m, i)
    BY <1>1 DEF ClientsAnswered, Completed
  <2>2. ServerKept(m) /\ ClientKept(i) /\ Len(server[m].log) \in 0 .. 3
    BY ServerKeeps, ClientKeeps, LogLength DEF Shapes
  <2>3. Answers(m, i)'
    BY <1>1, <2>1, <2>2 DEF Answers, ServerKept, ClientKept
  <2>4. QED
    BY <2>3
<1>2. CASE client[i].keys = None
  <2>1. PICK f : f = Head(toClient[i]) /\ OnWire(f) /\ HelloAccepted(i, f)
    BY <1>2, Completing, HeadOnWire DEF ClientFinishes, ClientReceives, Shapes
  <2>2. PICK hello : /\ hello = HelloFor(i, "login", client[i].user, client[i].pw)
                     /\ client[i].log = <<hello>> /\ client'[i].log[1] = hello
    BY <1>2, Completing
  <2>3. PICK ke2 : ke2 = f.core.ke2 /\ "mac" \in DOMAIN ke2 /\ ClientLoginFinish(client[i].pw, i, ke2) # None
    BY <1>2, <2>1, Completing DEF HelloAccepted, ParsesAs, ClientKeys
  <2>4. PICK m \in Conns : /\ Len(server[m].log) >= 2 /\ client[i].log = <<server[m].log[1]>>
                           /\ server[m].user = server[m].log[1].cred /\ ke2 = server[m].state.ke2
    BY <2>1, <2>3 DEF HelloAccepted, HelloValid, VerifySigned, HellosByServers
  <2>5. server[m].log[1] = hello /\ server[m].user = client[i].user
    <3>1. server[m].log[1] = hello
      BY <2>2, <2>4
    <3>2. hello.cred = client[i].user
      BY <2>2 DEF HelloFor, LoginHello, ClientHello
    <3>3. QED
      BY <2>4, <3>1, <3>2
  <2>6. PICK record, ke1 : server[m].state = ServerLoginStart(m, record, ke1)
    BY <2>4 DEF ServerStates
  <2>7. PICK pw \in Passwords : pw = client[i].pw
    BY <1>2, Completing
  <2>8. /\ ~server[m].state.fake /\ server[m].state.ke2.env.rw.pw = pw
        /\ ClientLoginFinish(pw, i, ke2) = server[m].state.keys
    <3>1. PICK state : state = server[m].state
      OBVIOUS
    <3>2. state = ServerLoginStart(m, record, ke1) /\ ke2 = state.ke2 /\ ClientLoginFinish(pw, i, state.ke2) # None
      BY <2>3, <2>4, <2>6, <2>7, <3>1
    <3>3. ~state.fake /\ state.ke2.env.rw.pw = pw /\ ClientLoginFinish(pw, i, state.ke2) = state.keys
      BY <3>2, FinishAgrees
    <3>4. QED
      BY <3>1, <3>2, <3>3
  <2>9. client'[i].keys = ClientLoginFinish(pw, i, ke2) /\ client'[i].user = client[i].user /\ client'[i].pw = pw
    BY <1>2, <2>1, <2>3, <2>7, Completing DEF ClientKeys
  <2>10. /\ Len(server'[m].log) >= 2 /\ server'[m].state = server[m].state
         /\ server'[m].user = server[m].user /\ server'[m].log[1] = server[m].log[1]
    <3>1. ServerKept(m) /\ Len(server[m].log) \in 0 .. 3
      BY ServerKeeps, LogLength DEF Shapes
    <3>2. QED
      BY <2>4, <3>1 DEF ServerKept
  <2>11. Answers(m, i)'
    BY <2>2, <2>5, <2>8, <2>9, <2>10 DEF Answers
  <2>12. QED
    BY <2>11
<1>3. QED
  BY <1>1, <1>2

\* A thread that accepts was answered by a client.
LEMMA ServersAnsweredStep ==
  Shapes /\ MacsByClients /\ ServersAnswered /\ [Next]_vars => ServersAnswered'
<1> SUFFICES ASSUME Shapes, MacsByClients, ServersAnswered, [Next]_vars, NEW i \in Conns, Len(server'[i].log) = 3
             PROVE  \E j \in Conns : client'[j].keys # None /\ client'[j].keys = server'[i].state.keys
  BY DEF ServersAnswered, Accepted, Completed
<1>1. Len(server[i].log) >= 2
  <2>1. CASE Len(server[i].log) = 3
    BY <2>1
  <2>2. CASE Len(server[i].log) # 3
    <3>1. server[i].pc = "finish" /\ ServerStage(i)
      BY <2>2, Accepting DEF ServerFinishes, Shapes
    <3>2. QED
      BY <3>1, LogLength
  <2>3. QED
    BY <2>1, <2>2
<1>2. server'[i].state = server[i].state
  BY <1>1, ServerKeeps DEF ServerKept
<1>3. PICK j \in Conns : client[j].keys # None /\ client[j].keys = server[i].state.keys
  <2>1. CASE Len(server[i].log) = 3
    BY <2>1 DEF ServersAnswered, Accepted, Completed
  <2>2. CASE Len(server[i].log) # 3
    <3>1. PICK f : /\ OnWire(f) /\ f.tag = "ClientFinish"
                   /\ f.ke3 # Bad /\ f.ke3 = ClientMac(server[i].state.keys)
      BY <2>2, Accepting, HeadOnWire DEF ServerFinishes, ServerReceives, FinishAccepted, ServerLoginFinish, Shapes
    <3>2. QED
      BY <3>1 DEF MacsByClients, Completed
  <2>3. QED
    BY <2>1, <2>2
<1>4. client'[j].keys = client[j].keys
  BY <1>3, ClientKeeps DEF ClientKept
<1>5. QED
  BY <1>2, <1>3, <1>4

-----------------------------------------------------------------------------
(* Application data *)

\* What a server thread has decrypted is one client's message.
DataBound ==
  \A i \in Conns : server[i].got # <<>> =>
    \E j \in Conns : /\ Completed(j) /\ client[j].log = server[i].log
                     /\ client[j].pc # "ready" /\ server[i].got = <<Message(j)>>
\* What a client has decrypted is the echo of its own.
EchoesBound ==
  \A i \in Conns : client[i].got # None =>
    /\ Completed(i) /\ client[i].got = Echo(Message(i))
    /\ \E j \in Conns : server[j].log = client[i].log /\ server[j].got = <<Message(i)>>

\* A thread decrypts the message of the client with its transcript.
LEMMA DataBoundStep == Shapes /\ DataByPeers /\ DataBound /\ [Next]_vars => DataBound'
<1> SUFFICES ASSUME Shapes, DataByPeers, DataBound, [Next]_vars, NEW i \in Conns, server'[i].got # <<>>
             PROVE  \E j \in Conns : /\ client'[j].keys # None /\ client'[j].log = server'[i].log
                                     /\ client'[j].pc # "ready" /\ server'[i].got = <<Message(j)>>
  BY DEF DataBound, Completed
<1>1. SUFFICES ASSUME TRUE
               PROVE  \E j \in Conns : /\ client[j].keys # None /\ client[j].log = server[i].log
                                       /\ client[j].pc # "ready" /\ server'[i].got = <<Message(j)>>
  <2>1. Len(server[i].log) = 3
    <3>1. ServerStage(i)
      BY DEF Shapes
    <3>2. CASE server'[i].got = server[i].got
      BY <3>1, <3>2, LogLength
    <3>3. CASE server'[i].got # server[i].got
      BY <3>1, <3>3, Echoing, LogLength
    <3>4. QED
      BY <3>2, <3>3
  <2>2. server'[i].log = server[i].log
    BY <2>1, ServerKeeps DEF ServerKept
  <2>3. \A j \in Conns : ClientKept(j)
    BY ClientKeeps
  <2>4. QED
    BY <1>1, <2>2, <2>3 DEF ClientKept
<1>2. CASE server'[i].got = server[i].got
  BY <1>2 DEF DataBound, Completed
<1>3. CASE server'[i].got # server[i].got
  <2>1. PICK f, n : /\ OnWire(f) /\ f.tag = "AppData" /\ n = Len(server[i].got)
                    /\ Opens(f, TrafficSecret(server[i].state.keys, server[i].log, "client"), n)
                    /\ server'[i].got = Append(server[i].got, f.ct.pt)
    BY <1>3, Echoing, HeadOnWire DEF Shapes
  <2>2. f.ct # Bad /\ f.ct.seq = n /\ f.ct.key = TrafficSecret(server[i].state.keys, server[i].log, "client")
    BY <2>1 DEF Opens
  <2>3. PICK j \in Conns : ClientData(j, f.ct) \/ \E k \in Nat : ServerData(j, k, f.ct)
    BY <2>1, <2>2 DEF DataByPeers
  <2>4. ~\E k \in Nat : ServerData(j, k, f.ct)
    <3>1. SUFFICES ASSUME NEW k \in Nat, ServerData(j, k, f.ct) PROVE FALSE
      OBVIOUS
    <3>2. f.ct.key = TrafficSecret(server[j].state.keys, server[j].log, "server")
      BY <3>1 DEF ServerData
    <3>3. QED
      BY <2>2, <3>2 DEF TrafficSecret
  <2>5. /\ client[j].keys # None /\ client[j].pc # "ready" /\ f.ct.pt = Message(j) /\ f.ct.seq = 0
        /\ client[j].log = server[i].log
    BY <2>2, <2>3, <2>4 DEF ClientData, TrafficSecret, Completed
  <2>6. server[i].got = <<>>
    BY <2>1, <2>2, <2>5 DEF Shapes, ServerStage, IsQueue
  <2>7. server'[i].got = <<Message(j)>>
    BY <2>1, <2>5, <2>6
  <2>8. QED
    BY <2>5, <2>7
<1>4. QED
  BY <1>2, <1>3

\* A client decrypts the echo of the thread with its transcript.
LEMMA EchoesBoundStep == Shapes /\ DataByPeers /\ DataBound /\ EchoesBound /\ [Next]_vars => EchoesBound'
<1> SUFFICES ASSUME Shapes, DataByPeers, DataBound, EchoesBound, [Next]_vars, NEW i \in Conns, client'[i].got # None
             PROVE  /\ client'[i].keys # None /\ client'[i].got = Echo(Message(i))
                    /\ \E j \in Conns : server'[j].log = client'[i].log /\ server'[j].got = <<Message(i)>>
  BY DEF EchoesBound, Completed
<1>1. /\ client[i].keys # None /\ client'[i].got = Echo(Message(i))
      /\ \E j \in Conns : server[j].log = client[i].log /\ server[j].got = <<Message(i)>>
  <2>1. CASE client'[i].got = client[i].got
    BY <2>1 DEF EchoesBound, Completed
  <2>2. CASE client'[i].got # client[i].got
    <3>1. PICK f : /\ OnWire(f) /\ f.tag = "AppData" /\ client'[i].got = f.ct.pt /\ client[i].pc = "reply"
                   /\ Opens(f, TrafficSecret(client[i].keys, client[i].log, "server"), 0)
      BY <2>2, Replying, HeadOnWire DEF Shapes
    <3>2. f.ct # Bad /\ f.ct.seq = 0 /\ f.ct.key = TrafficSecret(client[i].keys, client[i].log, "server")
      BY <3>1 DEF Opens
    <3>3. PICK j \in Conns : ClientData(j, f.ct) \/ \E n \in Nat : ServerData(j, n, f.ct)
      BY <3>1, <3>2 DEF DataByPeers
    <3>4. ~ClientData(j, f.ct)
      BY <3>2 DEF ClientData, TrafficSecret
    <3>5. /\ 0 < Len(server[j].got) /\ f.ct.pt = Echo(server[j].got[1])
          /\ server[j].log = client[i].log
      <4>1. PICK n \in Nat : ServerData(j, n, f.ct)
        BY <3>3, <3>4
      <4>2. /\ n = 0 /\ 0 < Len(server[j].got) /\ f.ct.pt = Echo(server[j].got[1])
            /\ f.ct.key = TrafficSecret(server[j].state.keys, server[j].log, "server")
        BY <3>2, <4>1 DEF ServerData
      <4>3. QED
        BY <3>2, <4>2 DEF TrafficSecret
    <3>6. server[j].got # <<>>
      BY <3>5
    <3>7. PICK k \in Conns : /\ client[k].keys # None /\ client[k].log = client[i].log
                             /\ server[j].got = <<Message(k)>>
      BY <3>5, <3>6 DEF DataBound, Completed
    <3>8. k = i
      <4>1. ASSUME NEW m \in Conns, client[m].keys # None PROVE client[m].log[1].nonce = <<"cnonce", m>>
        <5>1. client[m].role = "login"
              /\ client[m].log = <<HelloFor(m, client[m].role, client[m].user, client[m].pw), client[m].log[2], client[m].log[3]>>
          BY <4>1 DEF Shapes, ClientStage
        <5>2. PICK a, b, c : client[m].log = <<a, b, c>> /\ a = HelloFor(m, "login", client[m].user, client[m].pw)
          BY <5>1
        <5>3. a.nonce = <<"cnonce", m>>
          BY <5>2 DEF HelloFor, LoginHello, ClientHello, ClientLoginStart
        <5>4. QED
          BY <5>2, <5>3
      <4>2. client[i].keys # None
        BY <3>1 DEF Shapes, ClientStage
      <4>3. <<"cnonce", k>> = <<"cnonce", i>>
        BY <3>7, <4>1, <4>2
      <4>4. QED
        BY <4>3
    <3>9. client[i].keys # None
      BY <3>7, <3>8
    <3>10. QED
      BY <3>1, <3>5, <3>7, <3>8, <3>9
  <2>3. QED
    BY <2>1, <2>2
<1>2. PICK j \in Conns : server[j].log = client[i].log /\ server[j].got = <<Message(i)>>
  BY <1>1
<1>3. client'[i].keys = client[i].keys /\ client'[i].log = client[i].log
  BY <1>1, ClientKeeps DEF ClientKept
<1>4. server'[j].log = server[j].log
  <2>1. Len(server[j].log) = 3
    <3>1. ServerStage(j)
      BY DEF Shapes
    <3>2. server[j].got # <<>>
      BY <1>2
    <3>3. QED
      BY <3>1, <3>2, LogLength
  <2>2. QED
    BY <2>1, ServerKeeps DEF ServerKept
<1>5. server'[j].got = <<Message(i)>>
  <2>1. /\ Len(server[j].got) = 1 /\ server[j].got[1] = Message(i)
    BY <1>2
  <2>2. Len(server'[j].got) >= 1 /\ server'[j].got[1] = Message(i)
    BY <2>1, ServerKeeps DEF ServerKept
  <2>3. PICK k : server'[j].got = <<Message(k)>>
    <3>1. server'[j].got # <<>>
      BY <2>2
    <3>2. QED
      BY <3>1, DataBoundStep DEF DataBound
  <2>4. QED
    BY <2>2, <2>3
<1>6. QED
  BY <1>1, <1>2, <1>3, <1>4, <1>5

-----------------------------------------------------------------------------
(* The theorems *)

Login ==
  /\ Shapes /\ ServerStates
  /\ MacsByClients /\ HellosByServers /\ DataByPeers
  /\ ClientsAnswered /\ ServersAnswered
  /\ DataBound /\ EchoesBound

\* All parts hold in all reachable states.
LEMMA LoginInvariant == Spec => []Login
<1>1. Init => Login
  <2>1. SUFFICES ASSUME Init PROVE Login
    OBVIOUS
  <2>2. \A f : ~OnWire(f)
    BY <2>1, EmptyElems DEF Init, OnWire
  <2>3. \A i \in Conns : /\ client[i].keys = None /\ client[i].got = None
                         /\ server[i].log = <<>> /\ server[i].got = <<>> /\ Len(server[i].log) = 0
    BY <2>1 DEF Init, NoClient, NoServer
  <2>4. QED
    BY <2>1, <2>2, <2>3, ShapesInit DEF Login, ServerStates, MacsByClients, HellosByServers, DataByPeers,
       ClientsAnswered, ServersAnswered, DataBound, EchoesBound, Completed, Accepted
<1>2. Login /\ [Next]_vars => Login'
  BY ShapesStep, ServerStatesStep, MacsByClientsStep, HellosByServersStep, DataByPeersStep, ClientsAnsweredStep,
     ServersAnsweredStep, DataBoundStep, EchoesBoundStep DEF Login
<1>3. QED
  BY <1>1, <1>2, PTL DEF Spec

\* A client that completed was answered by a thread that read its very
\* ClientHello, loaded a record of its user and derived the same keys, for any
\* interleaving, tampering and restarts (client.py 61-126, server.py 143-166).
THEOREM ClientsAgree == Spec => []ClientAgreement
<1>1. Login => ClientAgreement
  <2>1. SUFFICES ASSUME Login, NEW i \in Conns, Completed(i)
                 PROVE  \E j \in Conns : /\ Len(server[j].log) >= 2 /\ ~server[j].state.fake
                                         /\ server[j].state.keys = client[i].keys
                                         /\ server[j].user = client[i].user
                                         /\ Head(server[j].log) = Head(client[i].log)
    BY DEF ClientAgreement
  <2>2. PICK m \in Conns : Answers(m, i)
    BY <2>1 DEF Login, ClientsAnswered
  <2>3. QED
    BY <2>2 DEF Answers
<1>2. QED
  BY <1>1, LoginInvariant, PTL

\* A thread that accepted did so for one client, of its user, with the password
\* of the record it had loaded, and no other thread accepts with the same keys
\* (server.py 168-184, opaque_adapter.py login_finish).
THEOREM ServersAgree == Spec => []ServerAgreement
<1>1. Login => ServerAgreement
  <2>1. SUFFICES ASSUME Login, NEW i \in Conns, Accepted(i)
                 PROVE  /\ \E j \in Conns : /\ Completed(j)
                                            /\ client[j].user = server[i].user
                                            /\ client[j].keys = server[i].state.keys
                                            /\ client[j].pw = server[i].state.ke2.env.rw.pw
                        /\ \A j \in Conns : Accepted(j) /\ server[j].state.keys = server[i].state.keys => i = j
    BY DEF ServerAgreement
  <2>2. PICK j \in Conns : Completed(j) /\ client[j].keys = server[i].state.keys
    BY <2>1 DEF Login, ServersAnswered
  <2>3. PICK m \in Conns : Answers(m, j)
    BY <2>1, <2>2 DEF Login, ClientsAnswered
  <2>4. m = i
    <3>1. ServerStates /\ Len(server[i].log) >= 2 /\ Len(server[m].log) >= 2
          /\ server[m].state.keys = server[i].state.keys
      BY <2>1, <2>2, <2>3 DEF Login, Answers, Accepted
    <3>2. QED
      BY <3>1, KeysApart
  <2>5. \A k \in Conns : Accepted(k) /\ server[k].state.keys = server[i].state.keys => i = k
    BY <2>1, KeysApart DEF Login, Accepted
  <2>6. QED
    BY <2>2, <2>3, <2>4, <2>5 DEF Answers
<1>2. QED
  BY <1>1, LoginInvariant, PTL

\* Data is decrypted only by a peer that saw the same raw handshake frames, the
\* server decrypts one client's message once and a client the echo of its own
\* (tls13_kdf.py 110-135, server.py _app_loop, client.py main).
THEOREM ChannelIsBound == Spec => []ChannelBinding
<1>1. Login => ChannelBinding
  <2>1. SUFFICES ASSUME Login PROVE ChannelBinding
    OBVIOUS
  <2>2. \A j \in Conns : Completed(j) /\ client[j].pc # "ready" => client[j].pc \notin {"start", "hello", "ready"}
    BY <2>1 DEF Login, Shapes, ClientStage, Completed
  <2>3. QED
    BY <2>1, <2>2 DEF Login, DataBound, EchoesBound, ChannelBinding
<1>2. QED
  BY <1>1, LoginInvariant, PTL

-----------------------------------------------------------------------------
(* Registration: the invariant *)

\* The record that a registration on connection i with this password produces.
Upload(i, pw) == RegistrationFinish(pw, i, RegistrationRespond(i, RegistrationStart(pw, i)))
RecordOf(i, pw) == [oprfKey |-> PendingOprfKey(i), cPub |-> Upload(i, pw).cPub, env |-> Upload(i, pw).env]

Registers(i) == client[i].role = "register"

\* A frame on its way to thread i, and one on its way to client i.
Upward(i, f) ==
  /\ client[i].pc # "start"
  /\ f.tag = "ClientHello" => f = HelloFor(i, client[i].role, client[i].user, client[i].pw)
  /\ f.tag = "ClientFinish" /\ Registers(i) => f.ke3 = Upload(i, client[i].pw)
Downward(i, f) ==
  /\ client[i].pc # "start"
  /\ f.tag = "ServerHello" /\ Registers(i) =>
       f.core.ke2 = RegistrationRespond(i, RegistrationStart(client[i].pw, i))
  /\ f.tag = "Close" => RecordOf(i, client[i].pw) \in stored

Connection(i) ==
  /\ \A f \in Elems(toServer[i]) : Upward(i, f)
  /\ \A f \in Elems(toClient[i]) : Downward(i, f)
  /\ server[i].pc = "upload" => client[i].pc # "start" /\ Registers(i)
  /\ Registers(i) /\ client[i].pc = "done" => RecordOf(i, client[i].pw) \in stored

Registration ==
  /\ Shapes
  /\ \A r \in stored : \E i \in Conns \cup {0}, pw \in EveryPassword : r = RecordOf(i, pw)
  /\ \A i \in Conns : Connection(i)

\* At the start nothing is on its way, and the records are from before.
LEMMA RegistrationInit == Init => Registration
<1> SUFFICES ASSUME Init PROVE Registration
  OBVIOUS
<1>1. \A pw : EarlierRecord(pw) = RecordOf(0, pw)
  BY DEF EarlierRecord, RecordOf, Upload
<1>2. \A r \in stored : \E pw \in EveryPassword : r = EarlierRecord(pw)
  BY DEF Init, EveryPassword
<1>3. ASSUME NEW i \in Conns PROVE Connection(i)
  BY EmptyElems DEF Init, NoClient, NoServer, Connection
<1>4. QED
  BY <1>1, <1>2, <1>3, ShapesInit DEF Registration

-----------------------------------------------------------------------------
(* One connection in a step *)

\* A connection stays in order when its client keeps who it is, and what is new
\* on its way is in order.
LEMMA ConnectionKept ==
  ASSUME NEW i \in Conns, Connection(i),
         stored \subseteq stored',
         client'[i].role = client[i].role, client'[i].user = client[i].user, client'[i].pw = client[i].pw,
         client[i].pc # "start" => client'[i].pc # "start",
         Registers(i) /\ client'[i].pc = "done" => client[i].pc = "done" \/ RecordOf(i, client[i].pw) \in stored',
         server'[i].pc = "upload" => server[i].pc = "upload" \/ (client'[i].pc # "start" /\ Registers(i)'),
         \A f \in Elems(toServer'[i]) : f \in Elems(toServer[i]) \/ Upward(i, f)',
         \A f \in Elems(toClient'[i]) : f \in Elems(toClient[i]) \/ Downward(i, f)'
  PROVE  Connection(i)'
<1>1. ASSUME NEW f \in Elems(toServer'[i]) PROVE Upward(i, f)'
  BY <1>1 DEF Connection, Upward, Registers
<1>2. ASSUME NEW f \in Elems(toClient'[i]) PROVE Downward(i, f)'
  BY <1>2 DEF Connection, Downward, Registers
<1>3. QED
  BY <1>1, <1>2 DEF Connection, Registers

\* Reading and sending, on the connection itself and on the others.
LEMMA QueueSteps ==
  ASSUME Queues(toServer), Queues(toClient), NEW i \in Conns
  PROVE  /\ ClientReceives(i) => /\ Head(toClient[i]) \in Elems(toClient[i])
                                 /\ \A j \in Conns : Elems(toClient'[j]) \subseteq Elems(toClient[j])
         /\ ServerReceives(i) => /\ Head(toServer[i]) \in Elems(toServer[i])
                                 /\ \A j \in Conns : Elems(toServer'[j]) \subseteq Elems(toServer[j])
         /\ \A f : ToServer(i, f) => /\ Elems(toServer'[i]) = Elems(toServer[i]) \cup {f}
                                     /\ \A j \in Conns \ {i} : toServer'[j] = toServer[j]
         /\ \A f : ToClient(i, f) => /\ Elems(toClient'[i]) = Elems(toClient[i]) \cup {f}
                                     /\ \A j \in Conns \ {i} : toClient'[j] = toClient[j]
<1>1. ASSUME ClientReceives(i)
      PROVE  /\ Head(toClient[i]) \in Elems(toClient[i])
             /\ \A j \in Conns : Elems(toClient'[j]) \subseteq Elems(toClient[j])
  <2>1. /\ toClient[i] # <<>> /\ toClient'[i] = Tail(toClient[i])
        /\ \A j \in Conns \ {i} : toClient'[j] = toClient[j]
    BY <1>1 DEF ClientReceives, Queues
  <2>2. Head(toClient[i]) \in Elems(toClient[i]) /\ Elems(toClient'[i]) \subseteq Elems(toClient[i])
    BY <2>1, TailElems DEF Queues
  <2>3. QED
    BY <2>1, <2>2
<1>2. ASSUME ServerReceives(i)
      PROVE  /\ Head(toServer[i]) \in Elems(toServer[i])
             /\ \A j \in Conns : Elems(toServer'[j]) \subseteq Elems(toServer[j])
  <2>1. /\ toServer[i] # <<>> /\ toServer'[i] = Tail(toServer[i])
        /\ \A j \in Conns \ {i} : toServer'[j] = toServer[j]
    BY <1>2 DEF ServerReceives, Queues
  <2>2. Head(toServer[i]) \in Elems(toServer[i]) /\ Elems(toServer'[i]) \subseteq Elems(toServer[i])
    BY <2>1, TailElems DEF Queues
  <2>3. QED
    BY <2>1, <2>2
<1>3. ASSUME NEW f, ToServer(i, f)
      PROVE  Elems(toServer'[i]) = Elems(toServer[i]) \cup {f} /\ \A j \in Conns \ {i} : toServer'[j] = toServer[j]
  <2>1. toServer'[i] = Append(toServer[i], f) /\ \A j \in Conns \ {i} : toServer'[j] = toServer[j]
    BY <1>3 DEF ToServer, Queues
  <2>2. QED
    BY <2>1, AppendElems DEF Queues
<1>4. ASSUME NEW f, ToClient(i, f)
      PROVE  Elems(toClient'[i]) = Elems(toClient[i]) \cup {f} /\ \A j \in Conns \ {i} : toClient'[j] = toClient[j]
  <2>1. toClient'[i] = Append(toClient[i], f) /\ \A j \in Conns \ {i} : toClient'[j] = toClient[j]
    BY <1>4 DEF ToClient, Queues
  <2>2. QED
    BY <2>1, AppendElems DEF Queues
<1>5. QED
  BY <1>1, <1>2, <1>3, <1>4

\* A client's step: registers, uploads what it sealed for the thread's answer, and
\* reports success at a Close only.
LEMMA ClientStepKeeps ==
  ASSUME Registration, NEW i \in Conns,
         ClientStep(i) \/ \E role \in {"register", "login"}, u \in Users, pw \in Passwords : ClientStart(i, role, u, pw)
  PROVE  Connection(i)'
<1> USE DEF Env
<1>1. /\ Queues(toServer) /\ Queues(toClient) /\ client = [j \in Conns |-> client[j]] /\ ClientStage(i)
      /\ Connection(i)
  BY DEF Registration, Shapes
<1>2. UNCHANGED <<server, db, stored, attempts, faults, crashes>>
  BY ClientStages DEF Registration
<1>3. ASSUME NEW role \in {"register", "login"}, NEW u \in Users, NEW pw \in Passwords, ClientStart(i, role, u, pw)
      PROVE  Connection(i)'
  <2> DEFINE f == HelloFor(i, role, u, pw)
  <2>1. Elems(toServer'[i]) = Elems(toServer[i]) \cup {f} /\ toClient' = toClient
    BY <1>1, <1>3, QueueSteps DEF ClientStart
  <2>2. Elems(toServer[i]) = {} /\ Elems(toClient[i]) = {} /\ server[i].pc # "upload"
    BY <1>1, <1>3 DEF ClientStart, Connection, Upward, Downward
  <2>3. client'[i].pc = "hello" /\ client'[i].role = role /\ client'[i].user = u /\ client'[i].pw = pw
    BY <1>1, <1>3 DEF ClientStart, ClientStage
  <2>4. f.tag = "ClientHello"
    BY Tags
  <2>5. Upward(i, f)'
    BY <2>3, <2>4 DEF Upward
  <2>6. QED
    BY <1>2, <2>1, <2>2, <2>3, <2>5 DEF Connection
<1>4. CASE ClientRejectsHello(i) \/ ClientGivesUp(i)
  <2>1. /\ client' = [client EXCEPT ![i].pc = "failed"] /\ toServer' = toServer
        /\ toClient'[i] = <<>> \/ ClientReceives(i)
    BY <1>1, <1>4 DEF ClientRejectsHello, ClientGivesUp, Queues
  <2>2. Elems(toClient'[i]) \subseteq Elems(toClient[i])
    BY <1>1, <2>1, QueueSteps, EmptyElems
  <2>3. /\ client'[i].role = client[i].role /\ client'[i].user = client[i].user /\ client'[i].pw = client[i].pw
        /\ client'[i].pc = "failed"
    BY <1>1, <2>1 DEF ClientStage
  <2>4. QED
    BY <1>1, <1>2, <2>1, <2>2, <2>3, ConnectionKept
<1>5. CASE ClientFinishes(i)
  <2>1. PICK f, keys, l : /\ f.tag = "ClientFinish" /\ ToServer(i, f)
                          /\ client' = [client EXCEPT ![i] = [@ EXCEPT !.pc = "ready", !.keys = keys, !.log = l]]
    BY <1>5, Tags, Zenon DEF ClientFinishes
  <2>2. client[i].role = "login" /\ ClientReceives(i)
    BY <1>5 DEF ClientFinishes
  <2>3. /\ client'[i].role = client[i].role /\ client'[i].user = client[i].user /\ client'[i].pw = client[i].pw
        /\ client'[i].pc = "ready"
    <3>1. PICK c : c = client[i]
      OBVIOUS
    <3>2. c = [pc |-> c.pc, role |-> c.role, user |-> c.user, pw |-> c.pw, log |-> c.log, keys |-> c.keys, got |-> c.got]
      BY <1>1, <3>1 DEF ClientStage
    <3>3. client'[i] = [c EXCEPT !.pc = "ready", !.keys = keys, !.log = l]
      BY <1>1, <2>1, <3>1
    <3>4. client'[i].role = c.role /\ client'[i].user = c.user /\ client'[i].pw = c.pw /\ client'[i].pc = "ready"
      BY <3>2, <3>3
    <3>5. QED
      BY <3>1, <3>4
  <2>4. Upward(i, f)'
    BY <2>1, <2>2, <2>3 DEF Upward, Registers
  <2>5. Elems(toServer'[i]) = Elems(toServer[i]) \cup {f} /\ Elems(toClient'[i]) \subseteq Elems(toClient[i])
    BY <1>1, <2>1, <2>2, QueueSteps
  <2>6. QED
    BY <1>1, <1>2, <2>3, <2>4, <2>5, ConnectionKept
<1>6. CASE ClientSends(i)
  <2>1. PICK f : f.tag = "AppData" /\ ToServer(i, f)
    BY <1>6, Tags DEF ClientSends
  <2>2. client' = [client EXCEPT ![i].pc = "reply"] /\ toClient' = toClient
    BY <1>6 DEF ClientSends
  <2>3. /\ client'[i].role = client[i].role /\ client'[i].user = client[i].user /\ client'[i].pw = client[i].pw
        /\ client'[i].pc = "reply"
    BY <1>1, <2>2 DEF ClientStage
  <2>4. Upward(i, f)'
    BY <2>1, <2>3 DEF Upward
  <2>5. QED
    BY <1>1, <1>2, <2>1, <2>2, <2>3, <2>4, QueueSteps, ConnectionKept
<1>7. CASE ClientGetsReply(i)
  <2>1. client[i].role = "login" /\ client[i].pc = "reply" /\ ClientReceives(i)
    BY <1>1, <1>7 DEF ClientGetsReply, ClientStage
  <2>2. /\ client'[i].role = client[i].role /\ client'[i].user = client[i].user /\ client'[i].pw = client[i].pw
        /\ client'[i].pc \in {"done", "failed"}
    BY <1>1, <1>7 DEF ClientGetsReply, ClientStage
  <2>3. toServer' = toServer \/ ToServer(i, Close)
    BY <1>7 DEF ClientGetsReply
  <2>4. Upward(i, Close)'
    BY <2>2, Tags DEF Upward
  <2>5. \A g \in Elems(toServer'[i]) : g \in Elems(toServer[i]) \/ Upward(i, g)'
    BY <1>1, <2>3, <2>4, QueueSteps
  <2>6. Elems(toClient'[i]) \subseteq Elems(toClient[i]) /\ ~Registers(i)
    BY <1>1, <2>1, QueueSteps DEF Registers
  <2>7. QED
    BY <1>1, <1>2, <2>1, <2>2, <2>5, <2>6, ConnectionKept
<1>8. CASE ClientUploads(i)
  <2> DEFINE f == Head(toClient[i])
  <2>1. PICK cf : cf = ClientFinish(RegistrationFinish(client[i].pw, i, f.core.ke2)) /\ ToServer(i, cf)
    BY <1>8 DEF ClientUploads
  <2>2. /\ client[i].role = "register" /\ ClientReceives(i)
        /\ client' = [client EXCEPT ![i].pc = "ack"]
    BY <1>8 DEF ClientUploads
  <2>3. /\ client'[i].role = client[i].role /\ client'[i].user = client[i].user /\ client'[i].pw = client[i].pw
        /\ client'[i].pc = "ack"
    BY <1>1, <2>2 DEF ClientStage
  <2>4. f.core.ke2 = RegistrationRespond(i, RegistrationStart(client[i].pw, i))
    <3>1. f.tag = "ServerHello"
      BY <1>8 DEF ClientUploads, HelloAccepted, HelloValid
    <3>2. f \in Elems(toClient[i])
      BY <1>1, <2>2, QueueSteps
    <3>3. QED
      BY <1>1, <2>2, <3>1, <3>2 DEF Connection, Downward, Registers
  <2>5. cf.tag = "ClientFinish" /\ cf.ke3 = Upload(i, client[i].pw)
    BY <2>1, <2>4 DEF ClientFinish, Upload
  <2>6. Upward(i, cf)'
    BY <2>3, <2>5 DEF Upward
  <2>7. \A g \in Elems(toServer'[i]) : g \in Elems(toServer[i]) \/ Upward(i, g)'
    BY <1>1, <2>1, <2>6, QueueSteps
  <2>8. Elems(toClient'[i]) \subseteq Elems(toClient[i])
    BY <1>1, <2>2, QueueSteps
  <2>9. QED
    BY <1>1, <1>2, <2>3, <2>7, <2>8, ConnectionKept
<1>9. CASE ClientGetsAck(i)
  <2>1. ClientReceives(i) /\ toServer' = toServer
    BY <1>9 DEF ClientGetsAck
  <2>2. /\ client'[i].role = client[i].role /\ client'[i].user = client[i].user /\ client'[i].pw = client[i].pw
        /\ client'[i].pc # "start" /\ (client'[i].pc = "done" => Head(toClient[i]).tag = "Close")
    BY <1>1, <1>9 DEF ClientGetsAck, ClientStage
  <2>3. Head(toClient[i]).tag = "Close" => RecordOf(i, client[i].pw) \in stored
    BY <1>1, <2>1, QueueSteps DEF Connection, Downward
  <2>4. QED
    BY <1>1, <1>2, <2>1, <2>2, <2>3, QueueSteps, ConnectionKept
<1>10. QED
  BY <1>3, <1>4, <1>5, <1>6, <1>7, <1>8, <1>9 DEF ClientStep

\* A thread's step: answers a registration with its own OPRF key, and sends Close
\* once the record of this very registration is stored.
LEMMA ServerStepKeeps ==
  ASSUME Registration, NEW i \in Conns, ServerStep(i)
  PROVE  /\ Connection(i)' /\ stored \subseteq stored'
         /\ \A r \in stored' \ stored : \E pw \in EveryPassword : r = RecordOf(i, pw)
<1> USE DEF Env, CloseServer
<1>1. /\ Queues(toServer) /\ Queues(toClient) /\ server = [j \in Conns |-> server[j]] /\ ServerStage(i)
      /\ Connection(i) /\ UNCHANGED client
  BY ServerStages DEF Registration, Shapes
<1>2. ASSUME UNCHANGED stored, server'[i].pc # "upload", Elems(toServer'[i]) \subseteq Elems(toServer[i]),
             \/ UNCHANGED toClient
             \/ \E f : ToClient(i, f) /\ f.tag \notin {"ServerHello", "Close"} /\ client[i].pc # "start"
      PROVE  Connection(i)'
  <2>1. \A f : f.tag \notin {"ServerHello", "Close"} /\ client[i].pc # "start" => Downward(i, f)'
    BY <1>1 DEF Downward
  <2>2. \A f \in Elems(toClient'[i]) : f \in Elems(toClient[i]) \/ Downward(i, f)'
    <3>1. CASE UNCHANGED toClient
      BY <3>1
    <3>2. ASSUME NEW g, ToClient(i, g), g.tag \notin {"ServerHello", "Close"}, client[i].pc # "start"
          PROVE  \A f \in Elems(toClient'[i]) : f \in Elems(toClient[i]) \/ Downward(i, f)'
      BY <1>1, <2>1, <3>2, QueueSteps
    <3>3. QED
      BY <1>2, <3>1, <3>2
  <2>3. QED
    BY <1>1, <1>2, <2>2, ConnectionKept
<1>3. ASSUME ServerReceives(i)
      PROVE  /\ Upward(i, Head(toServer[i])) /\ client[i].pc # "start"
             /\ Elems(toServer'[i]) \subseteq Elems(toServer[i])
  BY <1>1, <1>3, QueueSteps DEF Connection, Upward
<1>4. CASE ServerGivesUp(i)
  <2>1. toServer'[i] = <<>> /\ UNCHANGED <<stored, toClient>> /\ server'[i].pc # "upload"
    BY <1>1, <1>4 DEF ServerGivesUp, ServerStage, Queues
  <2>2. QED
    BY <1>2, <2>1, EmptyElems
<1>5. CASE HandleRegistration(i)
  <2> DEFINE h == Head(toServer[i])
  <2>1. PICK f : f = ServerHello(i, <<h>>, RegistrationRespond(i, h.ke1)) /\ ToClient(i, f)
    BY <1>5 DEF HandleRegistration
  <2>2. ServerReceives(i) /\ h.tag = "ClientHello" /\ h.version = REG_VERSION /\ UNCHANGED stored
    BY <1>5 DEF HandleRegistration
  <2>3. h = HelloFor(i, client[i].role, client[i].user, client[i].pw)
    BY <1>3, <2>2 DEF Upward
  <2>4. client[i].role = "register" /\ h.ke1 = RegistrationStart(client[i].pw, i)
    <3>1. client[i].role \in {"register", "login"}
      BY <1>3, <2>2 DEF Registration, Shapes, ClientStage
    <3>2. QED
      BY <2>2, <2>3, <3>1 DEF HelloFor, LoginHello, RegistrationHello, ClientHello, REG_VERSION, LOGIN_VERSION
  <2>5. f.tag = "ServerHello" /\ f.core.ke2 = RegistrationRespond(i, RegistrationStart(client[i].pw, i))
    BY <2>1, <2>4 DEF ServerHello, SignedHello, HelloCore
  <2>6. Downward(i, f)'
    BY <1>1, <1>3, <2>2, <2>5 DEF Downward
  <2>7. \A g \in Elems(toClient'[i]) : g \in Elems(toClient[i]) \/ Downward(i, g)'
    BY <1>1, <2>1, <2>6, QueueSteps
  <2>8. Connection(i)'
    BY <1>1, <1>3, <2>2, <2>4, <2>7, ConnectionKept DEF Registers
  <2>9. QED
    BY <2>2, <2>8
<1>6. CASE StoreRegistration(i)
  <2> DEFINE f == Head(toServer[i])
             record == RecordOf(i, client[i].pw)
  <2>1. /\ ServerReceives(i) /\ f.tag = "ClientFinish" /\ server[i].pc = "upload"
        /\ stored' = stored \cup {[oprfKey |-> PendingOprfKey(i), cPub |-> f.ke3.cPub, env |-> f.ke3.env]}
        /\ server' = [server EXCEPT ![i].pc = "closed"] /\ ToClient(i, Close)
    BY <1>6 DEF StoreRegistration, OprfKeyForUpload
  <2>2. f.ke3 = Upload(i, client[i].pw)
    BY <1>1, <1>3, <2>1 DEF Connection, Upward
  <2>3. stored' = stored \cup {record}
    BY <2>1, <2>2 DEF RecordOf
  <2>4. server'[i].pc = "closed"
    BY <1>1, <2>1 DEF ServerStage
  <2>5. Downward(i, Close)'
    BY <1>1, <1>3, <2>1, <2>3, Tags DEF Downward
  <2>6. \A g \in Elems(toClient'[i]) : g \in Elems(toClient[i]) \/ Downward(i, g)'
    BY <1>1, <2>1, <2>5, QueueSteps
  <2>7. Connection(i)'
    BY <1>1, <1>3, <2>1, <2>3, <2>4, <2>6, ConnectionKept
  <2>8. client[i].pw \in EveryPassword
    BY <1>3, <2>1 DEF Registration, Shapes, ClientStage, EveryPassword
  <2>9. QED
    BY <2>3, <2>7, <2>8
<1>7. CASE HandleLogin(i) /\ ~CloseServer(i)
  <2>1. HandleLogin(i) /\ ServerReceives(i) /\ Head(toServer[i]).tag = "ClientHello"
        /\ Head(toServer[i]).version # REG_VERSION /\ UNCHANGED stored
    BY <1>7 DEF HandleLogin
  <2>2. ~Registers(i)
    BY <1>3, <2>1 DEF Upward, Registers, HelloFor, RegistrationHello, ClientHello
  <2>3. PICK f, s : /\ f.tag = "ServerHello" /\ ToClient(i, f)
                    /\ server' = [server EXCEPT ![i] = s] /\ s.pc = "finish"
    <3> DEFINE h == Head(toServer[i])
               login == ServerLoginStart(i, db[h.cred], h.ke1)
               sh == ServerHello(i, <<h>>, login.ke2)
               s == [server[i] EXCEPT !.pc = "finish", !.user = h.cred, !.state = login, !.log = <<h, sh>>]
    <3>1. ToClient(i, sh) /\ server' = [server EXCEPT ![i] = s]
      BY <1>7 DEF HandleLogin
    <3>2. sh.tag = "ServerHello"
      BY Tags
    <3>3. s.pc = "finish"
      BY <1>1 DEF ServerStage
    <3> HIDE DEF sh, s
    <3>4. QED
      BY <3>1, <3>2, <3>3
  <2>4. server'[i].pc = "finish"
    BY <1>1, <2>3
  <2>5. Downward(i, f)'
    BY <1>1, <1>3, <2>1, <2>2, <2>3 DEF Downward, Registers
  <2>6. \A g \in Elems(toClient'[i]) : g \in Elems(toClient[i]) \/ Downward(i, g)'
    BY <1>1, <2>3, <2>5, QueueSteps
  <2>7. Connection(i)'
    BY <1>1, <1>3, <2>1, <2>4, <2>6, ConnectionKept
  <2>8. QED
    BY <2>1, <2>7
<1>8. CASE ServerRefuses(i) \/ HandleLoginDenied(i) \/ ServerRejectsFinish(i) \/ (HandleLogin(i) /\ CloseServer(i))
  <2>1. /\ ServerReceives(i) /\ UNCHANGED stored /\ server' = [server EXCEPT ![i].pc = "closed"]
        /\ \E f : ToClient(i, f) /\ f.tag \notin {"ServerHello", "Close"}
    <3>1. server[i].pc # "closed"
      BY <1>8 DEF ServerRefuses, HandleLoginDenied, ServerRejectsFinish, HandleLogin
    <3>2. QED
      BY <1>1, <1>8, <3>1, Tags DEF ServerRefuses, HandleLoginDenied, ServerRejectsFinish, HandleLogin, ServerStage
  <2>2. server'[i].pc # "upload"
    BY <1>1, <2>1 DEF ServerStage
  <2>3. QED
    BY <1>2, <1>3, <2>1, <2>2
<1>9. CASE ServerDropsFinish(i) \/ ServerFinishes(i)
  <2>1. ServerReceives(i) /\ UNCHANGED <<stored, toClient>>
    BY <1>9 DEF ServerDropsFinish, ServerFinishes
  <2>2. server'[i].pc # "upload"
    BY <1>1, <1>9 DEF ServerDropsFinish, ServerFinishes, ServerStage
  <2>3. QED
    BY <1>2, <1>3, <2>1, <2>2
<1>10. CASE ServerApp(i)
  <2>1. ServerReceives(i) /\ UNCHANGED stored
        /\ (UNCHANGED toClient \/ \E f : ToClient(i, f) /\ f.tag \notin {"ServerHello", "Close"})
    BY <1>10, Tags DEF ServerApp
  <2>2. server'[i].pc # "upload"
    BY <1>1, <1>10 DEF ServerApp, ServerStage
  <2>3. QED
    BY <1>2, <1>3, <2>1, <2>2
<1>11. QED
  BY <1>4, <1>5, <1>6, <1>7, <1>8, <1>9, <1>10 DEF ServerStep

-----------------------------------------------------------------------------
(* Every step *)

\* Steps on one connection leave the others alone but for the records stored.
LEMMA RegistrationStep ==
  ASSUME MaxFaults = 0, Registration, [Next]_vars PROVE Registration'
<1> USE DEF Env
<1>1. Shapes' /\ Shapes
  BY ShapesStep DEF Registration
<1>2. Queues(toServer) /\ Queues(toClient) /\ server = [j \in Conns |-> server[j]] /\ faults = 0
  BY <1>1 DEF Shapes
<1>3. ASSUME UNCHANGED <<client, toServer, toClient, stored>>,
             \A j \in Conns : server'[j].pc = "upload" => server[j].pc = "upload"
      PROVE  Registration'
  <2>1. ASSUME NEW j \in Conns PROVE Connection(j)'
    BY <1>3, ConnectionKept DEF Registration
  <2>2. QED
    BY <1>1, <1>3, <2>1 DEF Registration
<1>4. ASSUME NEW i \in Conns, Connection(i)', stored \subseteq stored',
             \A r \in stored' \ stored : \E pw \in EveryPassword : r = RecordOf(i, pw),
             \A j \in Conns \ {i} : /\ client'[j] = client[j] /\ server'[j] = server[j]
                                    /\ toServer'[j] = toServer[j] /\ toClient'[j] = toClient[j]
      PROVE  Registration'
  <2>1. ASSUME NEW j \in Conns \ {i} PROVE Connection(j)'
    BY <1>4, <2>1, ConnectionKept DEF Registration
  <2>2. QED
    BY <1>1, <1>4, <2>1 DEF Registration
<1>5. ASSUME NEW i \in Conns,
             ClientStep(i) \/ \E role \in {"register", "login"}, u \in Users, pw \in Passwords : ClientStart(i, role, u, pw)
      PROVE  Registration'
  <2>1. Connection(i)' /\ UNCHANGED <<server, stored>> /\ \A j \in Conns \ {i} : client'[j] = client[j]
    BY <1>1, <1>5, ClientStages, ClientStepKeeps
  <2>2. \A j \in Conns \ {i} : toServer'[j] = toServer[j] /\ toClient'[j] = toClient[j]
    BY <1>2, <1>5 DEF ClientStep, ClientStart, ClientRejectsHello, ClientFinishes, ClientSends, ClientGetsReply,
       ClientUploads, ClientGetsAck, ClientGivesUp, ClientReceives, ToServer, Queues
  <2>3. QED
    BY <1>4, <2>1, <2>2
<1>6. ASSUME NEW i \in Conns, ServerStep(i) PROVE Registration'
  <2>1. /\ Connection(i)' /\ stored \subseteq stored' /\ \A r \in stored' \ stored : \E pw \in EveryPassword : r = RecordOf(i, pw)
        /\ UNCHANGED client /\ \A j \in Conns \ {i} : server'[j] = server[j]
    BY <1>1, <1>6, ServerStages, ServerStepKeeps
  <2>2. \A j \in Conns \ {i} : toServer'[j] = toServer[j] /\ toClient'[j] = toClient[j]
    BY <1>2, <1>6 DEF ServerStep, ServerRefuses, HandleRegistration, HandleLoginDenied, HandleLogin, ServerDropsFinish,
       StoreRegistration, ServerRejectsFinish, ServerFinishes, ServerApp, ServerGivesUp, ServerReceives, ToClient, Queues
  <2>3. QED
    BY <1>4, <2>1, <2>2
<1>7. ASSUME NEW i \in Conns PROVE ~TamperToServer(i) /\ ~TamperToClient(i)
  BY <1>2 DEF TamperToServer, TamperToClient
<1>8. CASE (\E u \in Users : WindowPasses(u)) \/ UNCHANGED vars
  BY <1>3, <1>8 DEF WindowPasses, vars
<1>9. CASE ServerCrash
  <2>1. \A j \in Conns : server'[j].pc = "upload" => server[j].pc = "upload"
    BY <1>1, <1>9 DEF ServerCrash, Shapes, ServerStage
  <2>2. QED
    BY <1>3, <1>9, <2>1 DEF ServerCrash
<1>10. QED
  BY <1>5, <1>6, <1>7, <1>8, <1>9 DEF Next

\* On a network that does not tamper, every reachable state has it.
LEMMA RegistrationInvariant == ASSUME MaxFaults = 0 PROVE Spec => []Registration
<1>1. Registration /\ [Next]_vars => Registration'
  BY RegistrationStep
<1>2. QED
  BY <1>1, RegistrationInit, PTL DEF Spec

\* Every record that registration_store ever wrote opens with its own OPRF key and
\* holds the private key of its public key, however many registrations of one user
\* interleave (opaque_adapter.py, _pending_oprf_keys; server.py 126-140).
THEOREM RecordsCoherent == ASSUME MaxFaults = 0 PROVE Spec => []RecordCoherent
<1>1. Registration => RecordCoherent
  <2>1. SUFFICES ASSUME Registration, NEW r \in stored
                 PROVE  /\ r.env.rw.n # Bad /\ r.env.rw.n.k = r.oprfKey
                        /\ r.env.rw.n.pw = r.env.rw.pw
                        /\ r.env.cPriv = r.cPub /\ r.env.sPub = ServerKey
    BY DEF RecordCoherent
  <2>2. PICK i \in Conns \cup {0}, pw \in EveryPassword : r = RecordOf(i, pw)
    BY <2>1 DEF Registration
  <2>3. QED
    BY <2>2, TermsAssumption DEF RecordOf, Upload, RegistrationFinish, RegistrationRespond, RegistrationStart, OprfBlind, OprfEvaluate,
       OprfFinalize, EnvelopeSeal, PendingOprfKey
<1>2. QED
  BY <1>1, RegistrationInvariant, PTL

\* A registration client that printed success has the record it sealed on the
\* server's disk, across restarts and lost connections (server.py 139-140,
\* register_user.py).
THEOREM AcksStored == ASSUME MaxFaults = 0 PROVE Spec => []AckImpliesStored
<1>1. Registration => AckImpliesStored
  <2>1. SUFFICES ASSUME Registration, NEW i \in Conns, client[i].role = "register", client[i].pc = "done"
                 PROVE  \E r \in stored : r.cPub = <<"client", i>> /\ r.env.rw.pw = client[i].pw
    BY DEF AckImpliesStored
  <2>2. RecordOf(i, client[i].pw) \in stored
    BY <2>1 DEF Registration, Connection, Registers
  <2>3. QED
    BY <2>2 DEF RecordOf, Upload, RegistrationFinish, RegistrationRespond, OprfFinalize, EnvelopeSeal
<1>2. QED
  BY <1>1, RegistrationInvariant, PTL
=============================================================================
