------------------------- MODULE PkiBootstrapProofs -------------------------
(***************************************************************************)
(* Proofs about the bootstrap of the certificates, for every number of     *)
(* clients, of generations and of time units.                              *)
(***************************************************************************)
EXTENDS PkiBootstrap, TLAPS

-----------------------------------------------------------------------------
(* Types *)

Shapes ==
  /\ TypeOK
  /\ disk = [f \in Files |-> disk[f]]
  /\ memory = [f \in Files |-> memory[f]]
  /\ made = [p \in Procs |-> made[p]]
  /\ hello = [c \in Clients |-> hello[c]]

\* The initial states have the right types and shapes.
LEMMA ShapesInit == Init => Shapes
<1> SUFFICES ASSUME Init PROVE Shapes
  OBVIOUS
<1>1. disk = [f \in Files |-> disk[f]]
  <2>1. CASE gens = 0
    BY <2>1 DEF Init, Nothing
  <2>2. CASE gens # 0
    BY <2>2 DEF Init, Generation, Files
  <2>3. QED
    BY <2>1, <2>2
<1>2. TypeOK
  BY BootstrapAssumption DEF Init, TypeOK, Procs
<1>3. QED
  BY <1>1, <1>2 DEF Init, Shapes, Nothing

\* Every step of every process keeps them.
LEMMA ShapesStep == Shapes /\ [Next]_vars => Shapes'
<1> SUFFICES ASSUME Shapes, [Next]_vars PROVE Shapes'
  OBVIOUS
<1> USE BootstrapAssumption DEF Shapes, TypeOK, Procs, Files
<1>1. ASSUME NEW p \in Procs, Start(p) PROVE Shapes'
  BY <1>1 DEF Start, Bootstrapping
<1>2. ASSUME NEW p \in Procs, Test(p) PROVE Shapes'
  BY <1>2 DEF Test, AfterBootstrap, Alone, Missing
<1>3. ASSUME NEW p \in Procs, Generate(p) PROVE Shapes'
  <2>1. TypeOK'
    BY <1>3 DEF Generate
  <2>2. (disk = [f \in Files |-> disk[f]])' /\ (memory = [f \in Files |-> memory[f]])'
    BY <1>3 DEF Generate
  <2>3. (made = [q \in Procs |-> made[q]])' /\ (hello = [c \in Clients |-> hello[c]])'
    BY <1>3 DEF Generate
  <2>4. QED
    BY <2>1, <2>2, <2>3
<1>4. ASSUME NEW p \in Procs, Open(p) PROVE Shapes'
  BY <1>4 DEF Open
<1>5. ASSUME NEW p \in Procs, Write(p) PROVE Shapes'
  <2>1. TypeOK'
    BY <1>5 DEF Write, AfterBootstrap
  <2>2. (disk = [f \in Files |-> disk[f]])' /\ (memory = [f \in Files |-> memory[f]])'
    BY <1>5 DEF Write, AfterBootstrap
  <2>3. (made = [q \in Procs |-> made[q]])' /\ (hello = [c \in Clients |-> hello[c]])'
    BY <1>5 DEF Write, AfterBootstrap
  <2>4. QED
    BY <2>1, <2>2, <2>3
<1>6. ASSUME NEW p \in Procs, Die(p) PROVE Shapes'
  <2>1. TypeOK'
    BY <1>6 DEF Die, Nothing, Bootstrapping
  <2>2. (disk = [f \in Files |-> disk[f]])' /\ (memory = [f \in Files |-> memory[f]])'
    BY <1>6 DEF Die, Nothing, Bootstrapping
  <2>3. (made = [q \in Procs |-> made[q]])' /\ (hello = [c \in Clients |-> hello[c]])'
    BY <1>6 DEF Die, Nothing, Bootstrapping
  <2>4. QED
    BY <2>1, <2>2, <2>3
<1>7. CASE Load
  <2>1. TypeOK'
    BY <1>7 DEF Load
  <2>2. (memory = [f \in Files |-> memory[f]])'
    BY <1>7 DEF Load
  <2>3. QED
    BY <1>7, <2>1, <2>2 DEF Load
<1>8. CASE LoadFails
  BY <1>8 DEF LoadFails, Nothing
<1>9. ASSUME NEW c \in Clients, Connect(c) PROVE Shapes'
  BY <1>9 DEF Connect
<1>10. ASSUME NEW c \in Clients, Registers(c) \/ LogsIn(c) \/ Refuses(c) PROVE Shapes'
  BY <1>10 DEF Registers, LogsIn, Refuses
<1>11. CASE TimePasses
  BY <1>11 DEF TimePasses
<1>12. CASE UNCHANGED vars
  BY <1>12 DEF vars
<1>13. QED
  BY <1>1, <1>2, <1>3, <1>4, <1>5, <1>6, <1>7, <1>8, <1>9, <1>10, <1>11, <1>12 DEF Next

\* Type correctness of every process of the bootstrap, bootstrap_pki's writes
\* and the server's loads counted to three.
THEOREM TypeCorrect == Spec => []TypeOK
<1>1. Shapes => TypeOK
  BY DEF Shapes
<1>2. QED
  BY <1>1, ShapesInit, ShapesStep, PTL DEF Spec

-----------------------------------------------------------------------------
(* What clients accept *)

\* Only bootstraps make authorities and certificates.
Genuine(files) ==
  /\ files["ca"] \notin {None, Torn} => \E g \in 1 .. gens : files["ca"].key = CAKey(g)
  /\ files["cert"] \notin {None, Torn} => files["cert"] \in issued

Origins ==
  /\ \A cert \in issued : \E g \in 1 .. gens : cert.key = ServerKeyOf(g)
  /\ Genuine(disk) /\ Genuine(memory) /\ \A p \in Procs : Genuine(made[p])

\* The server serves when it has loaded everything.
Loaded ==
  /\ \A p \in Procs : pc[p] \notin {"open", "write", "load"} => at[p] = 1
  /\ pc["server"] = "load" => \A i \in 1 .. at["server"] - 1 : memory[LoadOrder[i]] \notin {None, Torn}
  /\ pc["server"] = "serve" => \A f \in Files : memory[f] \notin {None, Torn}

\* A chain that a client has received ends in a certificate of a bootstrap or
\* of somebody else.
Received ==
  \A c \in Clients :
    /\ pc[c] = "verify" => hello[c].chain.cert \in issued \cup {ForeignCert}
    /\ pc[c] = "accepted" => /\ hello[c].chain.cert \in issued
                             /\ hello[c].signer = hello[c].chain.cert.key

Secure == Shapes /\ Origins /\ Loaded /\ Received

\* The keys of what one bootstrap generates.
LEMMA GenerationFields ==
  \A g, t : /\ Generation(g, t)["ca"].key = CAKey(g)
            /\ Generation(g, t)["cert"].key = ServerKeyOf(g)
            /\ Generation(g, t)["key"] = ServerKeyOf(g)
BY DEF Generation, GenerateCA, GenerateServerCert

\* The initial states satisfy all parts.
LEMMA SecureInit == Init => Secure
<1> SUFFICES ASSUME Init PROVE Secure
  OBVIOUS
<1>1. Shapes
  BY ShapesInit
<1>2. Origins
  <2>1. CASE gens = 0
    BY <2>1 DEF Init, Origins, Genuine, Nothing, Files
  <2>2. CASE gens = 1
    BY <2>2, GenerationFields DEF Init, Origins, Genuine, Nothing, Files, Generation
  <2>3. QED
    BY <2>1, <2>2 DEF Init
<1>3. Loaded /\ Received
  BY BootstrapAssumption DEF Init, Loaded, Received, Procs
<1>4. QED
  BY <1>1, <1>2, <1>3 DEF Secure

\* Generations and issued certificates only grow.
LEMMA GenuineKept ==
  ASSUME NEW files, Genuine(files), gens \in Nat, gens' \in Nat, gens <= gens', issued \subseteq issued'
  PROVE  /\ files["ca"] \notin {None, Torn} => \E g \in 1 .. gens' : files["ca"].key = CAKey(g)
         /\ files["cert"] \notin {None, Torn} => files["cert"] \in issued'
BY DEF Genuine

\* Files, generated or loaded, stay those of some generation.
LEMMA OriginsStep == Shapes /\ Origins /\ [Next]_vars => Origins'
<1> SUFFICES ASSUME Shapes, Origins, [Next]_vars PROVE Origins'
  OBVIOUS
<1>s. gens \in Nat
  BY BootstrapAssumption DEF Shapes, TypeOK
<1>1. ASSUME NEW p \in Procs, Generate(p) PROVE Origins'
  <2>1. gens' = gens + 1 /\ issued' = issued \cup {made'[p]["cert"]} /\ issued \subseteq issued'
    BY <1>1 DEF Generate
  <2>2. made' = [made EXCEPT ![p] = Generation(gens', now)] /\ made'[p] = Generation(gens', now)
    BY <1>1 DEF Generate, Shapes
  <2>3. made'[p]["ca"].key = CAKey(gens') /\ made'[p]["cert"].key = ServerKeyOf(gens')
    BY <2>2, GenerationFields
  <2>4. Genuine(disk)' /\ Genuine(memory)'
    BY <1>1, <1>s, <2>1, GenuineKept DEF Origins, Generate, Genuine
  <2>5. ASSUME NEW q \in Procs PROVE Genuine(made[q])'
    <3>1. CASE q = p
      BY <1>s, <2>1, <2>3, <3>1 DEF Genuine
    <3>2. CASE q # p
      <4>1. made'[q] = made[q]
        BY <2>2, <3>2 DEF Shapes
      <4>2. QED
        BY <1>s, <2>1, <4>1, GenuineKept DEF Origins, Genuine
    <3>3. QED
      BY <3>1, <3>2
  <2>6. ASSUME NEW cert \in issued' PROVE \E g \in 1 .. gens' : cert.key = ServerKeyOf(g)
    BY <1>s, <2>1, <2>3 DEF Origins
  <2>7. QED
    BY <2>4, <2>5, <2>6 DEF Origins
<1>2. ASSUME NEW p \in Procs, Open(p) PROVE Origins'
  <2>1. Genuine(disk)'
    BY <1>2 DEF Open, Origins, Genuine, Shapes, TypeOK, SaveOrder, Files
  <2>2. QED
    BY <1>2, <2>1 DEF Open, Origins, Genuine
<1>3. ASSUME NEW p \in Procs, Write(p) PROVE Origins'
  <2>1. Genuine(disk)'
    BY <1>3 DEF Write, Origins, Genuine, Shapes, TypeOK, SaveOrder, Files
  <2>2. \A q \in Procs : Genuine(made[q])'
    BY <1>3 DEF Write, Origins, Genuine, Shapes, Nothing, Files
  <2>3. QED
    BY <1>3, <2>1, <2>2 DEF Write, Origins, Genuine
<1>4. ASSUME NEW p \in Procs, Die(p) PROVE Origins'
  <2>1. \A q \in Procs : Genuine(made[q])'
    BY <1>4 DEF Die, Origins, Genuine, Shapes, Nothing, Files
  <2>2. Genuine(memory)'
    BY <1>4 DEF Die, Origins, Genuine, Nothing, Files
  <2>3. QED
    BY <1>4, <2>1, <2>2 DEF Die, Origins, Genuine
<1>5. CASE Load
  <2>1. Genuine(memory)'
    BY <1>5 DEF Load, Origins, Genuine, Shapes, TypeOK, LoadOrder, Files
  <2>2. QED
    BY <1>5, <2>1 DEF Load, Origins, Genuine
<1>6. CASE LoadFails
  <2>1. Genuine(memory)'
    BY <1>6 DEF LoadFails, Genuine, Nothing, Files
  <2>2. QED
    BY <1>6, <2>1 DEF LoadFails, Origins, Genuine
<1>7. ASSUME NEW p \in Procs, Start(p) \/ Test(p) PROVE Origins'
  BY <1>7 DEF Start, Test, Origins, Genuine
<1>8. ASSUME NEW c \in Clients, Connect(c) PROVE Origins'
  BY <1>8 DEF Connect, Origins, Genuine
<1>9. ASSUME NEW c \in Clients, Registers(c) \/ LogsIn(c) \/ Refuses(c) PROVE Origins'
  BY <1>9 DEF Registers, LogsIn, Refuses, Origins, Genuine
<1>10. CASE TimePasses \/ UNCHANGED vars
  BY <1>10 DEF TimePasses, vars, Origins, Genuine
<1>11. QED
  BY <1>1, <1>2, <1>3, <1>4, <1>5, <1>6, <1>7, <1>8, <1>9, <1>10 DEF Next

\* A server that serves keeps all three files in memory.
LEMMA LoadedStep == Shapes /\ Loaded /\ [Next]_vars => Loaded'
<1> SUFFICES ASSUME Shapes, Loaded, [Next]_vars PROVE Loaded'
  OBVIOUS
<1> USE BootstrapAssumption DEF Shapes, TypeOK, Procs, Loaded
<1>1. ASSUME NEW p \in Procs, Start(p) \/ Test(p) \/ Generate(p) \/ Open(p) \/ Write(p) \/ Die(p) PROVE Loaded'
  <2>1. CASE Start(p)
    BY <2>1 DEF Start
  <2>2. CASE Test(p)
    BY <2>2 DEF Test, AfterBootstrap
  <2>3. CASE Generate(p) \/ Open(p)
    BY <2>3 DEF Generate, Open
  <2>4. CASE Write(p)
    BY <2>4 DEF Write, AfterBootstrap
  <2>5. CASE Die(p)
    BY <2>5 DEF Die
  <2>6. QED
    BY <1>1, <2>1, <2>2, <2>3, <2>4, <2>5
<1>2. CASE Load
  <2>1. PICK f \in Files : f = LoadOrder[at["server"]] /\ memory' = [memory EXCEPT ![f] = disk[f]] /\ disk[f] \notin {None, Torn}
    <3>1. LoadOrder[at["server"]] \in Files
      BY DEF LoadOrder, Files
    <3>2. QED
      BY <1>2, <3>1 DEF Load
  <2>2. ASSUME NEW i \in 1 .. at["server"] PROVE memory'[LoadOrder[i]] \notin {None, Torn}
    <3>1. CASE i = at["server"]
      BY <2>1, <3>1 DEF LoadOrder, Files
    <3>2. CASE i # at["server"]
      <4>1. LoadOrder[i] # f /\ LoadOrder[i] \in Files /\ i \in 1 .. at["server"] - 1
        BY <2>1, <3>2 DEF LoadOrder, Files
      <4>2. QED
        BY <1>2, <2>1, <4>1 DEF Load
    <3>3. QED
      BY <3>1, <3>2
  <2>3. at["server"] = 3 => \A h \in Files : memory'[h] \notin {None, Torn}
    BY <2>2 DEF LoadOrder, Files
  <2>4. QED
    BY <1>2, <2>2, <2>3 DEF Load
<1>3. CASE LoadFails
  BY <1>3 DEF LoadFails
<1>4. ASSUME NEW c \in Clients, Connect(c) \/ Registers(c) \/ LogsIn(c) \/ Refuses(c) PROVE Loaded'
  BY <1>4 DEF Connect, Registers, LogsIn, Refuses
<1>5. CASE TimePasses \/ UNCHANGED vars
  BY <1>5 DEF TimePasses, vars
<1>6. QED
  BY <1>1, <1>2, <1>3, <1>4, <1>5 DEF Next

\* A chain that the running server sends, or that somebody else makes up.
LEMMA HellosReceived ==
  ASSUME Secure, NEW c \in Clients, Connect(c), pc'[c] = "verify"
  PROVE  hello'[c].chain.cert \in issued \cup {ForeignCert}
<1>1. CASE pc["server"] = "serve" /\ hello' = [hello EXCEPT ![c] = ServerHello]
  <2>1. hello'[c] = ServerHello
    BY <1>1 DEF Secure, Shapes
  <2>2. memory["cert"] \in issued
    BY <1>1 DEF Secure, Loaded, Origins, Genuine, Files
  <2>3. QED
    BY <2>1, <2>2 DEF ServerHello
<1>2. CASE \E h \in ForeignHellos : hello' = [hello EXCEPT ![c] = h]
  <2>1. hello'[c] \in ForeignHellos
    BY <1>2 DEF Secure, Shapes
  <2>2. QED
    BY <2>1 DEF ForeignHellos
<1>3. CASE pc' = [pc EXCEPT ![c] = "off"]
  BY <1>3 DEF Secure, Shapes, TypeOK, Procs
<1>4. QED
  BY <1>1, <1>2, <1>3 DEF Connect

\* Behind the checks there is only a certificate of a bootstrap: a foreign one
\* is signed by a key that is in no authority a client can have on its disk.
LEMMA BelievedIsIssued ==
  ASSUME Secure, NEW c \in Clients, pc[c] = "verify", BelievesHello(c)
  PROVE  hello[c].chain.cert \in issued /\ hello[c].signer = hello[c].chain.cert.key
<1>1. hello[c].chain.cert.signer = disk["ca"].key /\ hello[c].signer = hello[c].chain.cert.key
  BY DEF BelievesHello, Believes, VerifyCertificateChain, SignedBy
<1>2. PICK g \in 1 .. gens : disk["ca"].key = CAKey(g)
  BY DEF BelievesHello, Secure, Origins, Genuine
<1>3. ForeignCert.signer = <<"foreign", 0>>
  BY DEF ForeignCert, ForeignCA, GenerateServerCert, GenerateCA
<1>4. CAKey(g) # <<"foreign", 0>>
  BY DEF CAKey
<1>5. hello[c].chain.cert # ForeignCert
  BY <1>1, <1>2, <1>3, <1>4
<1>6. QED
  BY <1>1, <1>5 DEF Secure, Received

\* What a client received or accepted keeps its origin.
LEMMA ReceivedStep == Secure /\ [Next]_vars => Received'
<1> SUFFICES ASSUME Secure, [Next]_vars PROVE Received'
  OBVIOUS
<1> USE BootstrapAssumption DEF Procs
<1>1. ASSUME NEW p \in Procs, Start(p) PROVE Received'
  BY <1>1 DEF Start, Received, Secure, Shapes, TypeOK
<1>2. ASSUME NEW p \in Procs, Test(p) PROVE Received'
  BY <1>2 DEF Test, AfterBootstrap, Received, Secure, Shapes, TypeOK
<1>3. ASSUME NEW p \in Procs, Generate(p) PROVE Received'
  <2>1. issued \subseteq issued' /\ hello' = hello /\ pc' = [pc EXCEPT ![p] = "open"]
    BY <1>3 DEF Generate
  <2>2. QED
    BY <2>1 DEF Received, Secure, Shapes, TypeOK
<1>4. ASSUME NEW p \in Procs, Open(p) \/ Write(p) PROVE Received'
  BY <1>4 DEF Open, Write, AfterBootstrap, Received, Secure, Shapes, TypeOK
<1>5. ASSUME NEW p \in Procs, Die(p) PROVE Received'
  BY <1>5 DEF Die, Received, Secure, Shapes, TypeOK
<1>6. CASE Load \/ LoadFails
  BY <1>6 DEF Load, LoadFails, Received, Secure, Shapes, TypeOK
<1>7. ASSUME NEW c \in Clients, Connect(c) PROVE Received'
  <2>1. ASSUME NEW d \in Clients, d # c PROVE hello'[d] = hello[d] /\ pc'[d] = pc[d]
    BY <1>7, <2>1 DEF Connect, Secure, Shapes, TypeOK
  <2>2. pc'[c] \in {"verify", "off"} /\ issued' = issued
    BY <1>7 DEF Connect, Secure, Shapes, TypeOK
  <2>3. ForeignCert' = ForeignCert
    BY DEF ForeignCert, ForeignCA, GenerateServerCert, GenerateCA
  <2>4. QED
    BY <1>7, <2>1, <2>2, <2>3, HellosReceived DEF Received, Secure
<1>8. ASSUME NEW c \in Clients, Registers(c) \/ LogsIn(c) PROVE Received'
  <2>1. pc[c] = "verify" /\ BelievesHello(c) /\ UNCHANGED <<hello, issued>> /\ pc' = [pc EXCEPT ![c] = "accepted"]
    BY <1>8 DEF Registers, LogsIn
  <2>2. hello[c].chain.cert \in issued /\ hello[c].signer = hello[c].chain.cert.key
    BY <2>1, BelievedIsIssued
  <2>3. QED
    BY <2>1, <2>2 DEF Received, Secure, Shapes, TypeOK
<1>9. ASSUME NEW c \in Clients, Refuses(c) PROVE Received'
  BY <1>9 DEF Refuses, Received, Secure, Shapes, TypeOK
<1>10. CASE TimePasses \/ UNCHANGED vars
  BY <1>10 DEF TimePasses, vars, Received, Secure
<1>11. QED
  BY <1>1, <1>2, <1>3, <1>4, <1>5, <1>6, <1>7, <1>8, <1>9, <1>10 DEF Next

\* A client goes on only with the holder of a key that a bootstrap certified
\* (verify_certificate_chain and the two signatures), whatever the files are.
THEOREM AcceptedIsIssued == Spec => []OnlyIssuedAccepted
<1>1. Secure => OnlyIssuedAccepted
  BY DEF Secure, Received, Origins, OnlyIssuedAccepted
<1>2. Secure /\ [Next]_vars => Secure'
  BY ShapesStep, OriginsStep, LoadedStep, ReceivedStep DEF Secure
<1>3. QED
  BY <1>1, <1>2, SecureInit, PTL DEF Spec

-----------------------------------------------------------------------------
(* Undisturbed bootstraps *)

Empty == \A f \in Files : disk[f] = None
Complete == gens >= 1 /\ \E t \in 0 .. now : \A f \in Files : disk[f] = Generation(gens, t)[f]

\* How far the files of p are written.
Progress(p) ==
  /\ gens >= 1 /\ \E t \in 0 .. now : \A f \in Files : made[p][f] = Generation(gens, t)[f]
  /\ \A i \in 1 .. at[p] - 1 : disk[SaveOrder[i]] = made[p][SaveOrder[i]]
  /\ pc[p] = "write" => disk[SaveOrder[at[p]]] = Torn

\* Whoever bootstraps does so alone.
Exclusive == clean => \A p \in Procs : Bootstrapping(p) => Alone(p)

OnDisk ==
  clean => /\ (\A p \in Procs : ~Bootstrapping(p)) => Empty \/ Complete
           /\ \A p \in Procs : pc[p] \in {"open", "write"} => Progress(p)
           /\ \A p \in Procs : pc[p] \in {"load", "serve", "connect", "verify"} => Complete

Undisturbed == Shapes /\ Loaded /\ Exclusive /\ OnDisk

\* The initial states are undisturbed.
LEMMA UndisturbedInit == Init => Undisturbed
<1> SUFFICES ASSUME Init PROVE Undisturbed
  OBVIOUS
<1>1. Shapes /\ Loaded
  BY SecureInit DEF Secure
<1>2. \A p \in Procs : pc[p] = "off"
  BY DEF Init
<1>3. Empty \/ Complete
  <2>1. CASE gens = 0
    BY <2>1 DEF Init, Empty, Nothing
  <2>2. CASE gens = 1
    BY <2>2 DEF Init, Complete
  <2>3. QED
    BY <2>1, <2>2 DEF Init
<1>4. QED
  BY <1>1, <1>2, <1>3 DEF Undisturbed, Exclusive, OnDisk, Bootstrapping

\* While no bootstrap is disturbed, only one process is in one.
LEMMA ExclusiveStep == Undisturbed /\ [Next]_vars => Exclusive'
<1> SUFFICES ASSUME Undisturbed, [Next]_vars, clean' PROVE \A p \in Procs : Bootstrapping(p)' => Alone(p)'
  BY DEF Exclusive
<1> USE DEF Bootstrapping, Alone
<1>a. /\ pc = [q \in Procs |-> pc[q]] /\ clean \in BOOLEAN
      /\ clean => \A p \in Procs : Bootstrapping(p) => Alone(p)
  BY DEF Undisturbed, Shapes, TypeOK, Exclusive
<1>b. ASSUME NEW p \in Procs, clean, Bootstrapping(p), pc' = [pc EXCEPT ![p] = pc'[p]]
      PROVE  \A q \in Procs : Bootstrapping(q)' => Alone(q)'
  <2>1. Alone(p)
    BY <1>a, <1>b
  <2>2. \A q \in Procs \ {p} : pc'[q] = pc[q]
    BY <1>a, <1>b
  <2>3. QED
    BY <2>1, <2>2
<1>c. ASSUME NEW p \in Procs, clean, pc' = [pc EXCEPT ![p] = pc'[p]], ~Bootstrapping(p)',
             pc[p] \in {"off", "accepted", "refused"} => pc'[p] \in {"off", "accepted", "refused"}
      PROVE  \A q \in Procs : Bootstrapping(q)' => Alone(q)'
  <2>1. \A q \in Procs \ {p} : pc'[q] = pc[q]
    BY <1>a, <1>c
  <2>2. ASSUME NEW q \in Procs, Bootstrapping(q)' PROVE Alone(q)'
    <3>1. q # p /\ Bootstrapping(q)
      BY <1>c, <2>1, <2>2
    <3>2. Alone(q)
      BY <1>a, <1>c, <3>1
    <3>3. pc'[p] \in {"off", "accepted", "refused"}
      BY <1>c, <3>1, <3>2
    <3>4. QED
      BY <2>1, <3>2, <3>3
  <2>3. QED
    BY <2>2
<1>1. ASSUME NEW p \in Procs, Start(p) PROVE \A q \in Procs : Bootstrapping(q)' => Alone(q)'
  <2>1. /\ pc' = [pc EXCEPT ![p] = "test"]
        /\ clean' = (clean /\ \A q \in Procs : ~Bootstrapping(q))
    BY <1>1, Zenon DEF Start
  <2>2. \A q \in Procs : ~Bootstrapping(q)
    BY <2>1, Zenon
  <2>3. \A q \in Procs : ~Bootstrapping(q)'
    BY <1>a, <2>1, <2>2
  <2>4. QED
    BY <2>3
<1>2. ASSUME NEW p \in Procs, Test(p) PROVE \A q \in Procs : Bootstrapping(q)' => Alone(q)'
  <2>1. CASE p = "pki" \/ Missing
    <3>1. pc' = [pc EXCEPT ![p] = "generate"] /\ clean' = Alone(p)
      BY <1>2, <2>1, Zenon DEF Test
    <3>2. \A q \in Procs \ {p} : pc[q] \in {"off", "accepted", "refused"} /\ pc'[q] = pc[q]
      BY <1>a, <3>1
    <3>3. QED
      BY <3>2
  <2>2. CASE ~(p = "pki" \/ Missing)
    <3>1. pc[p] = "test" /\ clean' = clean /\ pc' = [pc EXCEPT ![p] = AfterBootstrap(p)]
      BY <1>2, <2>2, Zenon DEF Test
    <3>2. AfterBootstrap(p) \in {"load", "off", "connect"}
      BY DEF AfterBootstrap
    <3>3. QED
      BY <1>a, <1>c, <3>1, <3>2
  <2>3. QED
    BY <2>1, <2>2
<1>3. ASSUME NEW p \in Procs, Generate(p) \/ Open(p) PROVE \A q \in Procs : Bootstrapping(q)' => Alone(q)'
  <2>1. /\ pc[p] \in {"generate", "open"} /\ clean' = clean
        /\ pc' = [pc EXCEPT ![p] = "open"] \/ pc' = [pc EXCEPT ![p] = "write"]
    BY <1>3 DEF Generate, Open
  <2>2. QED
    BY <1>a, <1>b, <2>1
<1>4. ASSUME NEW p \in Procs, Write(p) PROVE \A q \in Procs : Bootstrapping(q)' => Alone(q)'
  <2>1. /\ pc[p] = "write" /\ clean' = clean
        /\ pc' = [pc EXCEPT ![p] = "open"] \/ pc' = [pc EXCEPT ![p] = AfterBootstrap(p)]
    BY <1>4 DEF Write
  <2>2. Bootstrapping(p) /\ clean /\ pc' = [pc EXCEPT ![p] = pc'[p]]
    BY <1>a, <2>1
  <2>3. QED
    BY <1>b, <2>2
<1>5. ASSUME NEW p \in Procs, Die(p) PROVE \A q \in Procs : Bootstrapping(q)' => Alone(q)'
  <2>1. pc' = [pc EXCEPT ![p] = "off"] /\ clean
    BY <1>5, <1>a, Zenon DEF Die
  <2>2. QED
    BY <1>a, <1>c, <2>1
<1>6. CASE Load \/ LoadFails
  <2>1. /\ pc["server"] = "load" /\ clean' = clean /\ "server" \in Procs
        /\ \E next \in {"load", "serve", "off"} : pc' = [pc EXCEPT !["server"] = next]
    BY <1>6 DEF Load, LoadFails, Procs
  <2>2. QED
    BY <1>a, <1>c, <2>1
<1>7. ASSUME NEW c \in Clients, Connect(c) \/ Registers(c) \/ LogsIn(c) \/ Refuses(c)
      PROVE  \A q \in Procs : Bootstrapping(q)' => Alone(q)'
  <2>1. /\ pc[c] \in {"connect", "verify"} /\ clean' = clean /\ c \in Procs
        /\ \E next \in {"verify", "off", "accepted", "refused"} : pc' = [pc EXCEPT ![c] = next]
    BY <1>7 DEF Connect, Registers, LogsIn, Refuses, Procs
  <2>2. QED
    BY <1>a, <1>c, <2>1
<1>8. CASE TimePasses \/ UNCHANGED vars
  <2>1. pc' = pc /\ clean' = clean
    BY <1>8 DEF TimePasses, vars
  <2>2. QED
    BY <1>a, <2>1
<1>9. QED
  BY <1>1, <1>2, <1>3, <1>4, <1>5, <1>6, <1>7, <1>8 DEF Next

\* Nobody bootstraps as long as somebody tests, loads, serves or talks.
LEMMA NobodyBootstraps ==
  ASSUME Undisturbed, clean, NEW p \in Procs, pc[p] \notin {"off", "accepted", "refused"}, ~Bootstrapping(p)
  PROVE  \A q \in Procs : ~Bootstrapping(q)
BY DEF Undisturbed, Exclusive, Alone

\* What a bootstrap makes can be read.
LEMMA CompleteFiles ==
  ASSUME Shapes, Complete PROVE \A f \in Files : disk[f] \notin {None, Torn}
<1>1. PICK t \in 0 .. now : \A f \in Files : disk[f] = Generation(gens, t)[f]
  BY DEF Complete
<1>2. gens \in 1 .. MaxGens /\ t \in 0 .. MaxTime
  BY BootstrapAssumption DEF Shapes, TypeOK, Complete
<1>3. QED
  BY <1>1, <1>2, FilesAssumption

\* The fields of a certificate that a check compares.
LEMMA CertFields ==
  ASSUME NEW g, NEW ca, NEW t \in Int, NEW cert, cert = GenerateServerCert(g, ca, t)
  PROVE  /\ cert.key = ServerKeyOf(g) /\ cert.signer = ca.key /\ cert.issuer = ca.subject
         /\ cert.from = t - Backdate /\ cert.until \in Int
         /\ ~cert.isCA /\ "localhost" \in cert.names
<1>1. cert.key = ServerKeyOf(g) /\ cert.signer = ca.key /\ cert.issuer = ca.subject
  BY DEF GenerateServerCert
<1>2. cert.from = t - Backdate /\ cert.until = t - Backdate + ServerValidity
  BY DEF GenerateServerCert
<1>3. ~cert.isCA /\ cert.names = {"localhost"}
  BY DEF GenerateServerCert
<1>4. cert.until \in Int
  BY <1>2, PeriodsAssumption DEF Backdate
<1>5. QED
  BY <1>1, <1>2, <1>3, <1>4

\* The same of complete files.
LEMMA CompleteContents ==
  ASSUME Shapes, Complete
  PROVE  \E t \in 0 .. now :
           /\ disk["key"] = ServerKeyOf(gens)
           /\ disk["ca"].key = CAKey(gens) /\ disk["ca"].signer = CAKey(gens)
           /\ disk["ca"].subject = disk["cert"].issuer
           /\ disk["cert"].key = ServerKeyOf(gens) /\ disk["cert"].signer = CAKey(gens)
           /\ disk["cert"].from = t - Backdate /\ disk["cert"].until \in Int
           /\ ~disk["cert"].isCA /\ "localhost" \in disk["cert"].names
<1>1. PICK t \in 0 .. now : \A f \in Files : disk[f] = Generation(gens, t)[f]
  BY DEF Complete
<1> DEFINE authority == GenerateCA(gens, t)
<1>2. disk["ca"] = authority /\ disk["key"] = ServerKeyOf(gens) /\ disk["cert"] = GenerateServerCert(gens, authority, t)
  BY <1>1 DEF Files, Generation
<1>3. authority.key = CAKey(gens) /\ authority.signer = CAKey(gens)
  BY DEF GenerateCA
<1>4. t \in Int
  BY DEF Shapes, TypeOK
<1> HIDE DEF authority
<1>5. QED
  BY <1>2, <1>3, <1>4, CertFields

\* A step that leaves the files alone and does not begin or end a bootstrap.
LEMMA OnDiskKept ==
  ASSUME Undisturbed, clean' => clean, UNCHANGED <<disk, made, gens>>, now' \in {now, now + 1},
         clean' => \A p \in Procs : Bootstrapping(p)' <=> Bootstrapping(p),
         \A p \in Procs : Bootstrapping(p) => pc'[p] = pc[p] /\ at'[p] = at[p],
         clean' => \A p \in Procs : pc'[p] \in {"load", "serve", "connect", "verify"} => Complete
  PROVE  OnDisk'
<1> SUFFICES ASSUME clean' PROVE OnDisk'
  BY DEF OnDisk
<1> USE DEF Undisturbed, Shapes, TypeOK, OnDisk
<1>1. now \in Nat /\ gens \in Nat /\ 0 .. now \subseteq 0 .. now'
  BY BootstrapAssumption
<1>2. Complete => Complete'
  BY <1>1 DEF Complete
<1>3. Empty => Empty'
  BY DEF Empty
<1>4. ASSUME NEW p \in Procs, pc'[p] \in {"open", "write"} PROVE Progress(p)'
  <2>1. pc[p] = pc'[p] /\ at[p] = at'[p]
    BY <1>4 DEF Bootstrapping
  <2>2. Progress(p)
    BY <1>4, <2>1
  <2>3. QED
    BY <1>1, <2>1, <2>2 DEF Progress
<1>5. QED
  BY <1>2, <1>3, <1>4

\* The writes of an undisturbed bootstrap leave its own files, in order.
LEMMA OnDiskWritten ==
  ASSUME Undisturbed, clean, NEW p \in Procs, Write(p)
  PROVE  OnDisk'
<1> USE DEF Undisturbed, Shapes, TypeOK
<1>1. Bootstrapping(p) /\ Progress(p) /\ Alone(p)
  BY DEF Write, Bootstrapping, OnDisk, Exclusive
<1>2. disk[SaveOrder[at[p]]] = Torn /\ SaveOrder[at[p]] \in Files /\ at[p] \in 1 .. 3
  BY <1>1 DEF Write, Progress, SaveOrder, Files
<1>3. PICK t \in 0 .. now : \A f \in Files : made[p][f] = Generation(gens, t)[f]
  BY <1>1 DEF Progress
<1>4. disk' = [disk EXCEPT ![SaveOrder[at[p]]] = made[p][SaveOrder[at[p]]]]
  BY <1>2 DEF Write
<1>5. ASSUME NEW i \in 1 .. at[p] PROVE disk'[SaveOrder[i]] = made[p][SaveOrder[i]]
  <2>1. CASE i = at[p]
    BY <1>2, <1>4, <2>1
  <2>2. CASE i # at[p]
    <3>1. i \in 1 .. at[p] - 1 /\ SaveOrder[i] # SaveOrder[at[p]]
      BY <1>2, <2>2 DEF SaveOrder
    <3>2. QED
      BY <1>1, <1>2, <1>4, <3>1 DEF Progress
  <2>3. QED
    BY <2>1, <2>2
<1>6. \A q \in Procs \ {p} : pc'[q] \in {"off", "accepted", "refused"}
  BY <1>1 DEF Write, Alone
<1>7. CASE at[p] < 3
  <2>1. pc'[p] = "open" /\ at'[p] = at[p] + 1 /\ made' = made /\ gens' = gens /\ now' = now
    BY <1>7, <1>2 DEF Write
  <2>2. Progress(p)'
    BY <1>1, <1>2, <1>5, <2>1 DEF Progress
  <2>3. QED
    BY <1>6, <2>1, <2>2 DEF OnDisk, Bootstrapping
<1>8. CASE at[p] = 3
  <2>1. \A f \in Files : disk'[f] = Generation(gens, t)[f]
    BY <1>3, <1>5, <1>8 DEF SaveOrder, Files
  <2>2. Complete' /\ pc'[p] \notin {"open", "write"}
    BY <1>1, <1>3, <1>8, <2>1 DEF Complete, Write, Progress, AfterBootstrap
  <2>3. QED
    BY <1>6, <2>2 DEF OnDisk
<1>9. QED
  BY <1>2, <1>7, <1>8

\* Every step keeps what undisturbed bootstraps left on the disk.
LEMMA OnDiskStep == Undisturbed /\ [Next]_vars => OnDisk'
<1> SUFFICES ASSUME Undisturbed, [Next]_vars, clean' PROVE OnDisk'
  BY DEF OnDisk
<1> USE BootstrapAssumption DEF Undisturbed, Shapes, TypeOK
<1>1. ASSUME NEW p \in Procs, Start(p) PROVE OnDisk'
  <2>1. clean /\ (\A q \in Procs : ~Bootstrapping(q)) /\ pc' = [pc EXCEPT ![p] = "test"] /\ UNCHANGED <<disk, made, gens, now, at>>
    BY <1>1 DEF Start
  <2>2. \A q \in Procs : ~Bootstrapping(q)'
    BY <2>1 DEF Bootstrapping
  <2>3. QED
    BY <2>1, <2>2, OnDiskKept DEF OnDisk
<1>2. ASSUME NEW p \in Procs, Test(p) PROVE OnDisk'
  <2>1. UNCHANGED <<disk, made, gens, now, at>> /\ pc[p] = "test"
    BY <1>2 DEF Test
  <2>3. CASE p = "pki" \/ Missing
    <3>1. pc' = [pc EXCEPT ![p] = "generate"] /\ Alone(p)
      BY <1>2, <2>3 DEF Test
    <3>2. \A q \in Procs \ {p} : pc'[q] \in {"off", "accepted", "refused"}
      BY <3>1 DEF Alone
    <3>3. QED
      BY <3>1, <3>2 DEF OnDisk, Bootstrapping
  <2>4. CASE ~(p = "pki" \/ Missing)
    <3>1. pc' = [pc EXCEPT ![p] = AfterBootstrap(p)] /\ AfterBootstrap(p) \in {"load", "off", "connect"}
      BY <1>2, <2>4 DEF Test, AfterBootstrap
    <3>2. clean
      BY <1>2, <2>4 DEF Test
    <3>3. \A q \in Procs : ~Bootstrapping(q)
      BY <2>1, <3>2, NobodyBootstraps DEF Bootstrapping
    <3>4. Complete
      BY <3>2, <3>3, <2>4 DEF OnDisk, Missing, Empty, Files
    <3>5. \A q \in Procs : ~Bootstrapping(q)'
      BY <3>1, <3>3 DEF Bootstrapping
    <3>6. QED
      BY <2>1, <3>2, <3>3, <3>4, <3>5, OnDiskKept
  <2>5. QED
    BY <2>3, <2>4
<1>3. ASSUME NEW p \in Procs, Generate(p) PROVE OnDisk'
  <2>1. clean /\ Alone(p) /\ pc' = [pc EXCEPT ![p] = "open"] /\ at' = at /\ now' = now
    BY <1>3 DEF Generate, Exclusive, Bootstrapping
  <2>2. made'[p] = Generation(gens', now) /\ gens' >= 1
    BY <1>3 DEF Generate
  <2>3. at[p] = 1
    BY <1>3 DEF Generate, Loaded
  <2>4. Progress(p)'
    BY <2>1, <2>2, <2>3 DEF Progress
  <2>5. \A q \in Procs \ {p} : pc'[q] \in {"off", "accepted", "refused"}
    BY <2>1 DEF Alone
  <2>6. QED
    BY <2>1, <2>4, <2>5 DEF OnDisk, Bootstrapping
<1>4. ASSUME NEW p \in Procs, Open(p) PROVE OnDisk'
  <2>1. clean /\ Alone(p) /\ Progress(p) /\ pc' = [pc EXCEPT ![p] = "write"]
    BY <1>4 DEF Open, Exclusive, Bootstrapping, OnDisk
  <2>2. UNCHANGED <<at, made, gens, now>> /\ disk' = [disk EXCEPT ![SaveOrder[at[p]]] = Torn]
    BY <1>4 DEF Open
  <2>3. SaveOrder[at[p]] \in Files
    BY DEF SaveOrder, Files
  <2>4. ASSUME NEW i \in 1 .. at[p] - 1 PROVE disk'[SaveOrder[i]] = made[p][SaveOrder[i]]
    <3>1. SaveOrder[i] # SaveOrder[at[p]]
      BY DEF SaveOrder
    <3>2. QED
      BY <2>1, <2>2, <3>1 DEF Progress
  <2>5. Progress(p)'
    BY <2>1, <2>2, <2>3, <2>4 DEF Progress
  <2>6. \A q \in Procs \ {p} : pc'[q] \in {"off", "accepted", "refused"}
    BY <2>1 DEF Alone
  <2>7. QED
    BY <2>1, <2>5, <2>6 DEF OnDisk, Bootstrapping
<1>5. ASSUME NEW p \in Procs, Write(p) PROVE OnDisk'
  BY <1>5, OnDiskWritten DEF Write
<1>6. ASSUME NEW p \in Procs, Die(p) PROVE OnDisk'
  <2>1. clean /\ ~Bootstrapping(p) /\ pc[p] \notin {"off", "accepted", "refused"} /\ pc' = [pc EXCEPT ![p] = "off"]
        /\ UNCHANGED <<disk, gens, now>>
    BY <1>6 DEF Die
  <2>2. \A q \in Procs : ~Bootstrapping(q)
    BY <2>1, NobodyBootstraps
  <2>3. \A q \in Procs : ~Bootstrapping(q)'
    BY <2>1, <2>2 DEF Bootstrapping
  <2>4. (Empty \/ Complete) /\ (Complete => Complete') /\ (Empty => Empty')
    BY <2>1, <2>2 DEF OnDisk, Complete, Empty
  <2>5. QED
    BY <2>1, <2>2, <2>3, <2>4 DEF OnDisk, Bootstrapping
<1>7. CASE Load \/ LoadFails
  <2>1. clean /\ UNCHANGED <<disk, made, gens, now>> /\ pc["server"] = "load"
    BY <1>7 DEF Load, LoadFails
  <2>2. "server" \in Procs /\ \A q \in Procs : ~Bootstrapping(q)
    BY <2>1, NobodyBootstraps DEF Bootstrapping, Procs
  <2>3. \A q \in Procs \ {"server"} : pc'[q] = pc[q]
    BY <1>7 DEF Load, LoadFails
  <2>4. pc'["server"] \in {"load", "serve", "off"}
    BY <1>7, <2>2 DEF Load, LoadFails
  <2>5. Complete
    BY <2>1, <2>2 DEF OnDisk
  <2>6. \A q \in Procs : ~Bootstrapping(q)'
    BY <2>2, <2>3, <2>4 DEF Bootstrapping
  <2>7. QED
    BY <2>1, <2>2, <2>5, <2>6, OnDiskKept
<1>8. ASSUME NEW c \in Clients, Connect(c) \/ Registers(c) \/ LogsIn(c) \/ Refuses(c) PROVE OnDisk'
  <2>1. clean /\ UNCHANGED <<disk, made, gens, now>> /\ c \in Procs /\ pc[c] \in {"connect", "verify"}
    BY <1>8 DEF Connect, Registers, LogsIn, Refuses, Procs
  <2>2. \A q \in Procs : ~Bootstrapping(q)
    BY <2>1, NobodyBootstraps DEF Bootstrapping
  <2>3. \A q \in Procs \ {c} : pc'[q] = pc[q]
    BY <1>8 DEF Connect, Registers, LogsIn, Refuses
  <2>4. pc'[c] \in {"verify", "off", "accepted", "refused"}
    BY <1>8, <2>1 DEF Connect, Registers, LogsIn, Refuses
  <2>5. Complete
    BY <2>1 DEF OnDisk
  <2>6. \A q \in Procs : ~Bootstrapping(q)'
    BY <2>2, <2>3, <2>4 DEF Bootstrapping
  <2>7. QED
    BY <2>1, <2>2, <2>5, <2>6, OnDiskKept
<1>9. CASE TimePasses \/ UNCHANGED vars
  <2>1. UNCHANGED <<disk, made, gens, pc, at, clean>> /\ now' \in {now, now + 1}
    BY <1>9 DEF TimePasses, vars
  <2>2. \A p \in Procs : Bootstrapping(p)' <=> Bootstrapping(p)
    BY <2>1 DEF Bootstrapping
  <2>3. QED
    BY <2>1, <2>2, OnDiskKept DEF OnDisk
<1>10. QED
  BY <1>1, <1>2, <1>3, <1>4, <1>5, <1>6, <1>7, <1>8, <1>9 DEF Next

\* Both parts hold in all reachable states.
LEMMA UndisturbedAlways == Spec => []Undisturbed
<1>1. Undisturbed /\ [Next]_vars => Undisturbed'
  BY ShapesStep, LoadedStep, ExclusiveStep, OnDiskStep DEF Undisturbed
<1>2. QED
  BY <1>1, UndisturbedInit, PTL DEF Spec

\* Unless the last bootstrap was disturbed, bootstrap_pki leaves all three files
\* or none, and the key, the certificate and the authority fit one another;
\* one undisturbed bootstrap repairs what any earlier ones left.
THEOREM BelongTogether == Spec => []FilesBelongTogether
<1>1. Undisturbed => FilesBelongTogether
  <2> SUFFICES ASSUME Undisturbed, clean, \A p \in Procs : ~Bootstrapping(p)
               PROVE  disk = Nothing \/ ((\A f \in Files : disk[f] \notin {None, Torn}) /\ Matching(disk))
    BY DEF FilesBelongTogether
  <2>1. CASE Empty
    BY <2>1 DEF Empty, Nothing, Undisturbed, Shapes
  <2>2. CASE Complete
    <3>1. \A f \in Files : disk[f] \notin {None, Torn}
      BY <2>2, CompleteFiles DEF Undisturbed
    <3>2. Matching(disk)
      BY <2>2, CompleteContents DEF Matching, SignedBy, Undisturbed
    <3>3. QED
      BY <3>1, <3>2
  <2>3. QED
    BY <2>1, <2>2 DEF Undisturbed, OnDisk
<1>2. QED
  BY <1>1, UndisturbedAlways, PTL

-----------------------------------------------------------------------------
(* Refusals *)

\* What the server has loaded is what is on the disk.
InMemory ==
  clean => /\ pc["server"] = "load" =>
                \A i \in 1 .. at["server"] - 1 : memory[LoadOrder[i]] = disk[LoadOrder[i]]
           /\ pc["server"] = "serve" => \A f \in Files : memory[f] = disk[f]

\* The ServerHello of the server, at some time up to now.
Own(h) ==
  /\ h.chain.ca = disk["ca"] /\ h.chain.cert = disk["cert"]
  /\ h.signer = disk["key"] /\ h.configSigner = disk["key"]
  /\ \E t \in 0 .. now : h.config = ServerConfig(t)

InHello ==
  clean => \A c \in Clients : pc[c] = "verify" => Own(hello[c]) \/ hello[c].signer[1] = "foreign"

Quiet == Undisturbed /\ InMemory /\ InHello

\* Files become clean again only when a process decides to bootstrap alone.
LEMMA CleanAgain ==
  ASSUME Shapes, [Next]_vars, clean'
  PROVE  clean \/ \E p \in Procs : /\ Alone(p) /\ pc'[p] = "generate"
                                   /\ \A q \in Procs \ {p} : pc'[q] = pc[q]
<1> USE DEF Shapes, TypeOK
<1>1. ASSUME NEW p \in Procs, Test(p) PROVE clean \/ (Alone(p) /\ pc'[p] = "generate" /\ \A q \in Procs \ {p} : pc'[q] = pc[q])
  BY <1>1 DEF Test
<1>2. ASSUME NEW p \in Procs, Start(p) \/ Generate(p) \/ Open(p) \/ Write(p) \/ Die(p) PROVE clean
  BY <1>2 DEF Start, Generate, Open, Write, Die
<1>3. ASSUME NEW c \in Clients, Connect(c) \/ Registers(c) \/ LogsIn(c) \/ Refuses(c) PROVE clean
  BY <1>3 DEF Connect, Registers, LogsIn, Refuses
<1>4. CASE Load \/ LoadFails \/ TimePasses \/ UNCHANGED vars
  BY <1>4 DEF Load, LoadFails, TimePasses, vars
<1>5. QED
  BY <1>1, <1>2, <1>3, <1>4 DEF Next

\* While the server is up, or a client has got to the server, a step that keeps
\* the history clean writes nothing.
LEMMA DiskKept ==
  ASSUME Undisturbed, clean, NEW p \in Procs, pc[p] \in {"load", "serve", "verify"}, [Next]_vars, clean'
  PROVE  disk' = disk /\ now' >= now /\ now \in Nat /\ now' \in Nat
<1>1. \A q \in Procs : ~Bootstrapping(q)
  BY NobodyBootstraps DEF Bootstrapping
<1>2. now \in Nat
  BY BootstrapAssumption DEF Undisturbed, Shapes, TypeOK
<1>3. ASSUME NEW q \in Procs, Start(q) \/ Test(q) \/ Generate(q) \/ Open(q) \/ Write(q) \/ Die(q)
      PROVE  disk' = disk /\ now' = now
  BY <1>1, <1>3 DEF Bootstrapping, Start, Test, Generate, Open, Write, Die
<1>4. ASSUME NEW c \in Clients, Connect(c) \/ Registers(c) \/ LogsIn(c) \/ Refuses(c)
      PROVE  disk' = disk /\ now' = now
  BY <1>4 DEF Connect, Registers, LogsIn, Refuses
<1>5. CASE Load \/ LoadFails \/ TimePasses \/ UNCHANGED vars
  BY <1>2, <1>5 DEF Load, LoadFails, TimePasses, vars
<1>6. QED
  BY <1>2, <1>3, <1>4, <1>5 DEF Next

\* The server serves from the files of the last generation.
LEMMA InMemoryStep == Undisturbed /\ InMemory /\ [Next]_vars => InMemory'
<1> SUFFICES ASSUME Undisturbed, InMemory, [Next]_vars, clean' PROVE InMemory'
  BY DEF InMemory
<1> USE BootstrapAssumption DEF Undisturbed, Shapes, TypeOK
<1>a. "server" \in Procs
  BY DEF Procs
<1>b. CASE ~clean
  BY <1>a, <1>b, CleanAgain DEF InMemory, Alone
<1> SUFFICES ASSUME clean PROVE InMemory'
  BY <1>b
<1>1. clean /\ "server" \in Procs
  BY <1>a
<1>2. CASE Load
  <2>1. disk' = disk
    BY <1>2 DEF Load
  <2>2. LoadOrder[at["server"]] \in Files
    BY <1>1 DEF LoadOrder, Files
  <2>3. memory' = [memory EXCEPT ![LoadOrder[at["server"]]] = disk[LoadOrder[at["server"]]]]
    BY <1>2 DEF Load
  <2>4. ASSUME NEW i \in 1 .. at["server"] PROVE memory'[LoadOrder[i]] = disk[LoadOrder[i]]
    <3>1. CASE i = at["server"]
      BY <2>2, <2>3, <3>1
    <3>2. CASE i # at["server"]
      <4>1. LoadOrder[i] # LoadOrder[at["server"]] /\ i \in 1 .. at["server"] - 1
        BY <1>1, <3>2 DEF LoadOrder
      <4>2. QED
        BY <1>1, <1>2, <2>3, <4>1 DEF Load, InMemory
    <3>3. QED
      BY <3>1, <3>2
  <2>5. at["server"] = 3 => \A f \in Files : memory'[f] = disk[f]
    BY <2>4 DEF LoadOrder, Files
  <2>6. QED
    BY <1>1, <1>2, <2>1, <2>4, <2>5 DEF Load, InMemory
<1>3. CASE Test("server")
  BY <1>1, <1>3 DEF Test, AfterBootstrap, InMemory, Loaded
<1>4. CASE Write("server")
  BY <1>1, <1>4 DEF Write, AfterBootstrap, InMemory
<1>5. CASE pc'["server"] = pc["server"] /\ at'["server"] = at["server"] /\ memory' = memory
  BY <1>1, <1>5, DiskKept DEF InMemory
<1>6. CASE pc'["server"] \notin {"load", "serve"}
  BY <1>6 DEF InMemory
<1>7. ASSUME NEW p \in Procs, Start(p) \/ Test(p) \/ Generate(p) \/ Open(p) \/ Write(p) \/ Die(p) PROVE InMemory'
  <2>1. CASE p = "server"
    BY <1>1, <1>3, <1>4, <1>6, <1>7, <2>1 DEF Start, Generate, Open, Die
  <2>2. CASE p # "server"
    BY <1>1, <1>5, <1>7, <2>2 DEF Start, Test, Generate, Open, Write, Die
  <2>3. QED
    BY <2>1, <2>2
<1>8. ASSUME NEW c \in Clients, Connect(c) \/ Registers(c) \/ LogsIn(c) \/ Refuses(c) PROVE InMemory'
  BY <1>1, <1>5, <1>8 DEF Connect, Registers, LogsIn, Refuses
<1>9. CASE LoadFails \/ TimePasses \/ UNCHANGED vars
  BY <1>1, <1>5, <1>6, <1>9 DEF LoadFails, TimePasses, vars
<1>10. QED
  BY <1>2, <1>7, <1>8, <1>9 DEF Next

\* Nothing is believed that the server did not send as it is now on the disk.
LEMMA InHelloStep == Undisturbed /\ InMemory /\ InHello /\ [Next]_vars => InHello'
<1> SUFFICES ASSUME Undisturbed, InMemory, InHello, [Next]_vars, clean', NEW c \in Clients, pc'[c] = "verify"
             PROVE  Own(hello[c])' \/ hello'[c].signer[1] = "foreign"
  BY DEF InHello
<1> USE BootstrapAssumption DEF Undisturbed, Shapes, TypeOK
<1>a. c \in Procs /\ c # "server" /\ c # "pki"
  BY DEF Procs
<1>b. clean
  BY <1>a, CleanAgain DEF Alone
<1>1. clean /\ c \in Procs /\ c # "server" /\ c # "pki"
  BY <1>a, <1>b
<1>2. CASE Connect(c)
  <2>1. CASE pc["server"] = "serve" /\ hello' = [hello EXCEPT ![c] = ServerHello]
    <3>1. hello'[c] = ServerHello /\ disk' = disk /\ now' = now /\ now \in 0 .. now
      BY <1>2, <2>1 DEF Connect
    <3>2. memory["ca"] = disk["ca"] /\ memory["key"] = disk["key"] /\ memory["cert"] = disk["cert"]
      BY <1>1, <2>1 DEF InMemory, Files
    <3>3. QED
      BY <3>1, <3>2 DEF Own, ServerHello
  <2>2. CASE \E h \in ForeignHellos : hello' = [hello EXCEPT ![c] = h]
    <3>1. hello'[c].signer = <<"foreign", 1>>
      BY <2>2 DEF ForeignHellos
    <3>2. QED
      BY <3>1
  <2>3. CASE pc' = [pc EXCEPT ![c] = "off"]
    BY <1>1, <2>3
  <2>4. QED
    BY <1>2, <2>1, <2>2, <2>3 DEF Connect
<1>3. CASE pc[c] = "verify" /\ hello'[c] = hello[c]
  <2>1. disk' = disk /\ 0 .. now \subseteq 0 .. now'
    BY <1>1, <1>3, DiskKept
  <2>2. QED
    BY <1>1, <1>3, <2>1 DEF InHello, Own
<1>4. ASSUME NEW p \in Procs, Start(p) \/ Test(p) \/ Generate(p) \/ Open(p) \/ Write(p) \/ Die(p)
      PROVE  pc[c] = "verify" /\ hello'[c] = hello[c]
  BY <1>1, <1>4 DEF Start, Test, Generate, Open, Write, Die, AfterBootstrap
<1>5. ASSUME NEW d \in Clients, d # c, Connect(d) PROVE pc[c] = "verify" /\ hello'[c] = hello[c]
  BY <1>1, <1>5 DEF Connect
<1>6. ASSUME NEW d \in Clients, Registers(d) \/ LogsIn(d) \/ Refuses(d) PROVE pc[c] = "verify" /\ hello'[c] = hello[c]
  BY <1>1, <1>6 DEF Registers, LogsIn, Refuses
<1>7. CASE Load \/ LoadFails \/ TimePasses \/ UNCHANGED vars
  BY <1>1, <1>3, <1>7 DEF Load, LoadFails, TimePasses, vars
<1>8. QED
  BY <1>2, <1>3, <1>4, <1>5, <1>6, <1>7 DEF Next

\* Everything that a client checks holds of the server's own ServerHello,
\* except the two periods.
LEMMA OwnIsBelieved ==
  ASSUME Undisturbed, Complete, NEW c \in Clients, Own(hello[c]), ~(now > hello[c].chain.cert.until),
         ~(now > hello[c].config.timestamp + MaxAge)
  PROVE  BelievesHello(c)
<1> USE BootstrapAssumption, PeriodsAssumption DEF Undisturbed, Shapes, TypeOK
<1>1. PICK t \in 0 .. now :
           /\ disk["key"] = ServerKeyOf(gens)
           /\ disk["ca"].key = CAKey(gens) /\ disk["ca"].signer = CAKey(gens)
           /\ disk["ca"].subject = disk["cert"].issuer
           /\ disk["cert"].key = ServerKeyOf(gens) /\ disk["cert"].signer = CAKey(gens)
           /\ disk["cert"].from = t - Backdate /\ disk["cert"].until \in Int
           /\ ~disk["cert"].isCA /\ "localhost" \in disk["cert"].names
  BY CompleteContents
<1>2. disk["ca"] \notin {None, Torn}
  BY CompleteFiles DEF Files
<1>3. PICK u \in 0 .. now : hello[c].config = ServerConfig(u)
  BY DEF Own
<1>4. ValidServerConfig(hello[c].config, "localhost", now)
  <2>1. hello[c].config.suite = Suite /\ hello[c].config.name = "localhost" /\ hello[c].config.timestamp = u
    BY <1>3 DEF ServerConfig
  <2>2. now - u <= MaxAge /\ u - now <= MaxAge
    BY <2>1
  <2>3. QED
    BY <2>1, <2>2 DEF ValidServerConfig
<1>5. VerifyCertificateChain(hello[c].chain, "localhost", disk["ca"], now)
  <2>1. hello[c].chain.cert.from <= now /\ now <= hello[c].chain.cert.until
    BY <1>1 DEF Own, Backdate
  <2>2. QED
    BY <1>1, <2>1 DEF VerifyCertificateChain, Pinned, SignedBy, Own
<1>6. hello[c].configSigner = hello[c].chain.cert.key /\ hello[c].signer = hello[c].chain.cert.key
  BY <1>1 DEF Own
<1>7. QED
  BY <1>2, <1>4, <1>5, <1>6 DEF BelievesHello, Believes

\* All parts hold in all reachable states.
LEMMA QuietAlways == Spec => []Quiet
<1>1. Init => Quiet
  BY UndisturbedInit, BootstrapAssumption DEF Init, Quiet, InMemory, InHello, Procs
<1>2. Quiet /\ [Next]_vars => Quiet'
  BY ShapesStep, LoadedStep, ExclusiveStep, OnDiskStep, InMemoryStep, InHelloStep DEF Quiet, Undisturbed
<1>3. QED
  BY <1>1, <1>2, PTL DEF Spec

\* Only Refuses ends in a refusal.
LEMMA RefusalIsRefuses ==
  ASSUME Shapes, [Next]_vars, NEW c \in Clients, pc[c] = "verify", pc'[c] = "refused" PROVE Refuses(c)
<1> USE BootstrapAssumption DEF Shapes, TypeOK, Procs
<1>1. ASSUME NEW p \in Procs, Start(p) \/ Test(p) \/ Generate(p) \/ Open(p) \/ Write(p) \/ Die(p) PROVE FALSE
  BY <1>1 DEF Start, Test, Generate, Open, Write, Die, AfterBootstrap
<1>2. ~(Load \/ LoadFails \/ TimePasses \/ UNCHANGED vars)
  BY DEF Load, LoadFails, TimePasses, vars
<1>3. ASSUME NEW d \in Clients, Connect(d) \/ Registers(d) \/ LogsIn(d) PROVE FALSE
  BY <1>3 DEF Connect, Registers, LogsIn
<1>4. ASSUME NEW d \in Clients, d # c, Refuses(d) PROVE FALSE
  BY <1>4 DEF Refuses
<1>5. QED
  BY <1>1, <1>2, <1>3, <1>4 DEF Next

\* Restarts, other clients and the order in which everybody starts make no
\* client fail: if the last bootstrap was not disturbed it has one of the four
\* reasons (client_login, register).
THEOREM RefusalHasReason == Spec => NoGroundlessRefusal
<1>1. Quiet /\ [Next]_vars =>
        \A c \in Clients : clean /\ pc[c] = "verify" /\ pc'[c] = "refused" =>
          \/ hello[c].signer[1] = "foreign"
          \/ now > hello[c].chain.cert.until
          \/ now > hello[c].config.timestamp + MaxAge
          \/ BelievesHello(c) /\ enrolled # ServerKeyOf(gens)
  <2> SUFFICES ASSUME Quiet, [Next]_vars, NEW c \in Clients, clean, pc[c] = "verify", pc'[c] = "refused",
                      hello[c].signer[1] # "foreign",
                      ~(now > hello[c].chain.cert.until), ~(now > hello[c].config.timestamp + MaxAge)
               PROVE  BelievesHello(c) /\ enrolled # ServerKeyOf(gens)
    OBVIOUS
  <2>1. Refuses(c)
    BY RefusalIsRefuses DEF Quiet, Undisturbed
  <2>2. Own(hello[c]) /\ Complete
    BY DEF Quiet, InHello, Undisturbed, OnDisk, Procs
  <2>3. BelievesHello(c)
    BY <2>2, OwnIsBelieved DEF Quiet
  <2>4. hello[c].signer = ServerKeyOf(gens)
    BY <2>2, CompleteContents DEF Own, Quiet, Undisturbed
  <2>5. QED
    BY <2>1, <2>3, <2>4 DEF Refuses
<1>2. QED
  BY <1>1, QuietAlways, PTL DEF Spec, NoGroundlessRefusal
=============================================================================
