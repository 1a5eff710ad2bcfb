---------------------------- MODULE PkiBootstrap ----------------------------
(***************************************************************************)
(* The life of the three files of certs/ (pki.py, bootstrap_pki): every    *)
(* process of the system, the server, `python3 pki.py', and each run of    *)
(* the login and registration clients, tests whether the files exist and   *)
(* if not creates an authority, a server key and a certificate and writes  *)
(* them one after the other.  The server then loads the files once, for as *)
(* long as it lives; a client loads the authority when it has received a   *)
(* ServerHello.  Any process may be killed between any two steps, and time *)
(* passes.  Somebody else may answer a client in the server's place.       *)
(***************************************************************************)
EXTENDS Certificates, FiniteSets

CONSTANTS
  Clients,   \* runs of client.py and register_user.py, one after the other
  None,      \* no file, nothing loaded
  Torn,      \* a file opened for writing and not (or not properly) written
  MaxGens,   \* bound: how often files are generated
  MaxTime    \* bound: the clock

ASSUME BootstrapAssumption ==
  /\ MaxGens \in Nat \ {0} /\ MaxTime \in Nat
  /\ "server" \notin Clients /\ "pki" \notin Clients

Procs == Clients \cup {"server", "pki"}

\* The order in which bootstrap_pki writes, and in which main() loads.
SaveOrder == <<"ca", "key", "cert">>
LoadOrder == <<"key", "cert", "ca">>
Files == {"ca", "key", "cert"}

VARIABLES
  disk,     \* content of each file
  pc,       \* where each process is
  at,       \* number of the file that it opens, writes or loads
  made,     \* what it generated: an authority, a key and a certificate
  memory,   \* what the server has loaded
  hello,    \* the ServerHello that each client received
  enrolled, \* server key in the record of the (one) user, None before
  gens,     \* files were generated so often
  now,
  issued,   \* observer: the server certificates ever generated
  clean     \* observer: the files are as some bootstrap left them that nobody disturbed

vars == <<disk, pc, at, made, memory, hello, enrolled, gens, now, issued, clean>>

Nothing == [f \in Files |-> None]

\* What the g-th bootstrap makes at time t.
Generation(g, t) ==
  LET ca == GenerateCA(g, t)
  IN [ca |-> ca, key |-> ServerKeyOf(g), cert |-> GenerateServerCert(g, ca, t)]

ASSUME FilesAssumption ==
  \A g \in 1 .. MaxGens, t \in 0 .. MaxTime : \A f \in Files : Generation(g, t)[f] \notin {None, Torn}

\* A fresh checkout without certificates, or with those that a bootstrap left.
Init ==
  /\ gens \in {0, 1}
  /\ disk = IF gens = 0 THEN Nothing ELSE Generation(1, 0)
  /\ issued = IF gens = 0 THEN {} ELSE {disk.cert}
  /\ pc = [p \in Procs |-> "off"]
  /\ at = [p \in Procs |-> 1]
  /\ made = [p \in Procs |-> Nothing]
  /\ memory = Nothing
  /\ hello = [c \in Clients |-> None]
  /\ enrolled = None
  /\ now = 0
  /\ clean = TRUE

\* Between its decision and its last write.
Bootstrapping(p) == pc[p] \in {"generate", "open", "write"}
Alone(p) == \A q \in Procs \ {p} : pc[q] \in {"off", "accepted", "refused"}

-----------------------------------------------------------------------------
(* bootstrap_pki *)

\* A process is started.
Start(p) ==
  /\ pc[p] \in {"off", "accepted", "refused"}
  /\ pc' = [pc EXCEPT ![p] = "test"]
  /\ hello' = IF p \in Clients THEN [hello EXCEPT ![p] = None] ELSE hello
  /\ clean' = (clean /\ \A q \in Procs : ~Bootstrapping(q))
  /\ UNCHANGED <<disk, at, made, memory, enrolled, gens, now, issued>>

Missing == \E f \in Files : disk[f] = None
AfterBootstrap(p) == IF p = "server" THEN "load" ELSE IF p = "pki" THEN "off" ELSE "connect"

\* os.path.exists three times; `python3 pki.py' forces.  Files are never
\* deleted, so testing them at one moment decides no differently.
Test(p) ==
  /\ pc[p] = "test"
  /\ pc' = [pc EXCEPT ![p] = IF p = "pki" \/ Missing THEN "generate" ELSE AfterBootstrap(p)]
  /\ clean' = IF p = "pki" \/ Missing THEN Alone(p) ELSE clean
  /\ UNCHANGED <<disk, at, made, memory, hello, enrolled, gens, now, issued>>

Generate(p) ==
  /\ pc[p] = "generate" /\ gens < MaxGens
  /\ gens' = gens + 1
  /\ made' = [made EXCEPT ![p] = Generation(gens', now)]
  /\ issued' = issued \cup {made'[p].cert}
  /\ pc' = [pc EXCEPT ![p] = "open"]
  /\ UNCHANGED <<disk, at, memory, hello, enrolled, now, clean>>

\* open(path, "wb") empties the file.
OpenUnlessKey(p) ==
  LET kept == SaveOrder[at[p]] = "key" /\ disk.key \notin {None, Torn}
  IN /\ pc[p] = "open"
     /\ disk' = IF kept THEN disk ELSE [disk EXCEPT ![SaveOrder[at[p]]] = Torn]
     /\ at' = [at EXCEPT ![p] = IF kept THEN @ + 1 ELSE @]
     /\ pc' = [pc EXCEPT ![p] = IF kept THEN "open" ELSE "write"]
     /\ UNCHANGED <<made, memory, hello, enrolled, gens, now, issued, clean>>
Open(p) ==
  /\ pc[p] = "open"
  /\ disk' = [disk EXCEPT ![SaveOrder[at[p]]] = Torn]
  /\ pc' = [pc EXCEPT ![p] = "write"]
  /\ UNCHANGED <<at, made, memory, hello, enrolled, gens, now, issued, clean>>

\* The content, in one write at the end of the with block.  Over what another
\* process wrote in between it need not give a file that can be read.
WritePastLast(p) ==
  LET f == SaveOrder[at[p]]
  IN /\ pc[p] = "write"
     /\ \E content \in {made[p][f]} \cup (IF disk[f] = Torn THEN {} ELSE {Torn}) :
          disk' = [disk EXCEPT ![f] = content]
     /\ pc' = [pc EXCEPT ![p] = IF at[p] < 3 THEN "open" ELSE AfterBootstrap(p)]
     /\ at' = [at EXCEPT ![p] = @ + 1]
     /\ made' = [made EXCEPT ![p] = IF at[p] < 3 THEN @ ELSE Nothing]
     /\ UNCHANGED <<memory, hello, enrolled, gens, now, issued, clean>>
Write(p) ==
  LET f == SaveOrder[at[p]]
  IN /\ pc[p] = "write"
     /\ \E content \in {made[p][f]} \cup (IF disk[f] = Torn THEN {} ELSE {Torn}) :
          disk' = [disk EXCEPT ![f] = content]
     /\ pc' = [pc EXCEPT ![p] = IF at[p] < 3 THEN "open" ELSE AfterBootstrap(p)]
     /\ at' = [at EXCEPT ![p] = IF @ < 3 THEN @ + 1 ELSE 1]
     /\ made' = [made EXCEPT ![p] = IF at[p] < 3 THEN @ ELSE Nothing]
     /\ UNCHANGED <<memory, hello, enrolled, gens, now, issued, clean>>

\* The process is killed, or ends because writing fails.
Die(p) ==
  /\ pc[p] \notin {"off", "accepted", "refused"}
  /\ pc' = [pc EXCEPT ![p] = "off"]
  /\ at' = [at EXCEPT ![p] = 1]
  /\ made' = [made EXCEPT ![p] = Nothing]
  /\ memory' = IF p = "server" THEN Nothing ELSE memory
  /\ hello' = IF p \in Clients THEN [hello EXCEPT ![p] = None] ELSE hello
  /\ clean' = (clean /\ ~Bootstrapping(p))
  /\ UNCHANGED <<disk, enrolled, gens, now, issued>>

-----------------------------------------------------------------------------
(* The server *)

\* load_private_key, load_certificate twice; a file that cannot be read ends main().
Load ==
  LET f == LoadOrder[at["server"]]
  IN /\ pc["server"] = "load"
     /\ disk[f] \notin {None, Torn}
     /\ memory' = [memory EXCEPT ![f] = disk[f]]
     /\ pc' = [pc EXCEPT !["server"] = IF at["server"] < 3 THEN "load" ELSE "serve"]
     /\ at' = [at EXCEPT !["server"] = IF @ < 3 THEN @ + 1 ELSE 1]
     /\ UNCHANGED <<disk, made, hello, enrolled, gens, now, issued, clean>>

LoadFails ==
  /\ pc["server"] = "load"
  /\ disk[LoadOrder[at["server"]]] \in {None, Torn}
  /\ pc' = [pc EXCEPT !["server"] = "off"]
  /\ at' = [at EXCEPT !["server"] = 1]
  /\ memory' = Nothing
  /\ UNCHANGED <<disk, made, hello, enrolled, gens, now, issued, clean>>

\* _build_signed_server_hello: all of it from what is in memory.
ServerHello ==
  [chain |-> [ca |-> memory.ca, cert |-> memory.cert], signer |-> memory.key,
   config |-> ServerConfig(now), configSigner |-> memory.key]

-----------------------------------------------------------------------------
(* Clients *)

\* Somebody else on the port, with an authority of its own that calls itself
\* the same, and with every certificate and signed configuration ever sent.
ForeignCA == [GenerateCA(0, 0) EXCEPT !.key = <<"foreign", 0>>, !.signer = <<"foreign", 0>>]
ForeignCert == [GenerateServerCert(0, ForeignCA, 0) EXCEPT !.key = <<"foreign", 1>>, !.until = MaxTime]
ForeignHellos ==
  [chain : [ca : {ForeignCA} \cup ({disk.ca} \ {None, Torn}), cert : {ForeignCert} \cup issued],
   signer : {<<"foreign", 1>>},
   config : {ServerConfig(now)}, configSigner : {<<"foreign", 1>>} \cup {c.key : c \in issued}]

\* connect, ClientHello and ServerHello; without a listener the client ends.
Connect(c) ==
  /\ pc[c] = "connect"
  /\ \/ /\ pc["server"] = "serve"
        /\ hello' = [hello EXCEPT ![c] = ServerHello]
        /\ pc' = [pc EXCEPT ![c] = "verify"]
     \/ /\ \E h \in ForeignHellos : hello' = [hello EXCEPT ![c] = h]
        /\ pc' = [pc EXCEPT ![c] = "verify"]
     \/ /\ pc["server"] # "serve"
        /\ pc' = [pc EXCEPT ![c] = "off"]
        /\ UNCHANGED hello
  /\ UNCHANGED <<disk, at, made, memory, enrolled, gens, now, issued, clean>>

BelievesHello(c) == disk.ca \notin {None, Torn} /\ Believes(hello[c], disk.ca, now)

\* register: the record seals the certified server key.
Registers(c) ==
  /\ pc[c] = "verify" /\ BelievesHello(c)
  /\ enrolled' = hello[c].chain.cert.key
  /\ pc' = [pc EXCEPT ![c] = "accepted"]
  /\ UNCHANGED <<disk, at, made, memory, hello, gens, now, issued, clean>>

\* client_login by the enrolled user with the right password: the exchange
\* works out if the server's key is still the one sealed in the record.
LogsIn(c) ==
  /\ pc[c] = "verify" /\ BelievesHello(c)
  /\ enrolled = hello[c].signer
  /\ pc' = [pc EXCEPT ![c] = "accepted"]
  /\ UNCHANGED <<disk, at, made, memory, hello, enrolled, gens, now, issued, clean>>

\* Any check raises, of a login also the one of the server's MAC.
Refuses(c) ==
  /\ pc[c] = "verify"
  /\ ~BelievesHello(c) \/ enrolled # hello[c].signer
  /\ pc' = [pc EXCEPT ![c] = "refused"]
  /\ hello' = [hello EXCEPT ![c] = None]
  /\ UNCHANGED <<disk, at, made, memory, enrolled, gens, now, issued, clean>>

TimePasses ==
  /\ now < MaxTime
  /\ now' = now + 1
  /\ UNCHANGED <<disk, pc, at, made, memory, hello, enrolled, gens, issued, clean>>

-----------------------------------------------------------------------------
Next ==
  \/ \E p \in Procs : Start(p) \/ Test(p) \/ Generate(p) \/ Open(p) \/ Write(p) \/ Die(p)
  \/ Load \/ LoadFails
  \/ \E c \in Clients : Connect(c) \/ Registers(c) \/ LogsIn(c) \/ Refuses(c)
  \/ TimePasses

Spec == Init /\ [][Next]_vars

-----------------------------------------------------------------------------
(* Properties *)

\* Every process is in one of its stages (bootstrap_pki, main) and counts its
\* three files from the first to the last.
TypeOK ==
  /\ pc \in [Procs -> {"off", "test", "generate", "open", "write", "load", "serve",
                       "connect", "verify", "accepted", "refused"}]
  /\ at \in [Procs -> 1 .. 3]
  /\ gens \in 0 .. MaxGens /\ now \in 0 .. MaxTime
  /\ clean \in BOOLEAN

Matching(files) == files.key = files.cert.key /\ SignedBy(files.cert, files.ca) /\ SignedBy(files.ca, files.ca)

\* After a bootstrap that was alone and was not killed, the three files are
\* there and belong together, whatever earlier bootstraps that overlapped or
\* died left behind; and no process that starts later breaks them.
FilesBelongTogether ==
  clean /\ (\A p \in Procs : ~Bootstrapping(p)) =>
    \/ disk = Nothing
    \/ (\A f \in Files : disk[f] \notin {None, Torn}) /\ Matching(disk)

\* A client goes on only with the holder of a server key that a bootstrap
\* generated and certified under the authority the client has on its disk,
\* whatever mixture of files is there and whoever answers
\* (verify_certificate_chain and the signatures).
OnlyIssuedAccepted ==
  \A c \in Clients : pc[c] = "accepted" =>
    /\ hello[c].chain.cert \in issued
    /\ hello[c].signer = hello[c].chain.cert.key
    /\ \E g \in 1 .. gens : hello[c].signer = ServerKeyOf(g)

\* If the last bootstrap was not disturbed, a client fails for a reason only: somebody
\* else answered, the certificate has run out (bootstrap_pki tests for existence
\* and never renews it), the configuration is old, or, with a server it
\* believes, the user did not register since the files were generated.
\* Restarts of the server and other clients are no reason.
NoGroundlessRefusal ==
  [][\A c \in Clients : clean /\ pc[c] = "verify" /\ pc'[c] = "refused" =>
       \/ hello[c].signer[1] = "foreign"
       \/ now > hello[c].chain.cert.until
       \/ now > hello[c].config.timestamp + MaxAge
       \/ BelievesHello(c) /\ enrolled # ServerKeyOf(gens)]_vars
=============================================================================
