--------------------------- MODULE JsonStoreProofs --------------------------
(***************************************************************************)
(* Proofs about JsonStore for any number of threads, keys and records, on  *)
(* the condition that the store object was created before calls overlap    *)
(* (ColdStartRace = FALSE): the database file is always a whole document,  *)
(* and the store implements the abstract dictionary KVStore.               *)
(*                                                                         *)
(* The argument: at most one thread is ever between the test and the       *)
(* assignment of the global or in the with block of the one object         *)
(* (LockInv), so the .tmp file has one writer and holds that writer's      *)
(* document when it is renamed (FileInv), and that document is the effect  *)
(* of its request on the file as it still stands (RefInv).                 *)
(***************************************************************************)
EXTENDS JsonStore, TLAPS

Writing(t) == pc[t] \in {"open", "dump", "replace"}

\* t holds the lock: it is in the with block, before its outcome is settled.
InSection(t) == pc[t] = "read" \/ (Writing(t) /\ obj[t] # None)

LockInv ==
  /\ \A t \in Threads :
       /\ pc[t] \in {"idle", "check", "construct", "assign", "return"} => obj[t] = None
       /\ pc[t] \in {"acquire", "read"} => obj[t] # None
       /\ pc[t] = "return" => store # None
       /\ obj[t] # None => obj[t] = store
       /\ Constructing(t) => store = None
       /\ InSection(t) => lock[store] = t
  /\ \A t, u \in Threads : Constructing(t) /\ Constructing(u) => t = u

FileInv ==
  /\ DbIntact
  /\ file["tmp"] # None => file["tmp"] # file["db"]
  /\ \A t \in Threads :
       /\ pc[t] = "dump" => fd[t] # None /\ fd[t] = file["tmp"] /\ content[fd[t]] = Empty
       /\ pc[t] # "dump" => fd[t] = None
       /\ pc[t] = "replace" => file["tmp"] # None /\ content[file["tmp"]] = data[t]
       /\ Writing(t) => data[t] \in KV!Dicts

RefInv ==
  \A t \in Threads :
    /\ pc[t] = "idle" <=> call[t] = None
    /\ call[t] # None => (pc[t] = "release" <=> call[t].res # None)
    /\ Writing(t) /\ obj[t] = None => data[t] = KV!EmptyDict /\ file["db"] = None
    /\ Writing(t) /\ obj[t] # None =>
         /\ call[t].req.op \in {"set", "delete"}
         /\ file["db"] # None
         /\ data[t] = KV!Effect(call[t].req, OnDisk)

IInv == TypeOK /\ LockInv /\ FileInv /\ RefInv

-----------------------------------------------------------------------------
\* A request applied to a dictionary gives a dictionary, and its answer is a
\* result (KVStore's operators as set and delete of storage.py use them).
LEMMA EffectType ==
  ASSUME NEW r \in KV!Requests, NEW d \in KV!Dicts
  PROVE  KV!Effect(r, d) \in KV!Dicts
<1>1. CASE r.op \in {"set", "delete"}
  <2>1. r.key \in Keys /\ r.val \in Values \cup {None}
    BY <1>1 DEF KV!Requests
  <2> QED BY <1>1, <2>1 DEF KV!Effect, KV!Dicts
<1>2. CASE r.op \notin {"set", "delete"}
  BY <1>2 DEF KV!Effect
<1> QED BY <1>1, <1>2

\* The empty dictionary is one, and every intact database file holds one.
LEMMA OnDiskType == DbIntact => OnDisk \in KV!Dicts /\ KV!EmptyDict \in KV!Dicts
  BY DEF DbIntact, OnDisk, KV!Dicts, KV!EmptyDict

\* The process starts in the invariant.
LEMMA InitIInv == Init => IInv
<1> SUFFICES ASSUME Init PROVE IInv
  OBVIOUS
<1> USE StoreAssumption DEF Init
<1>1. TypeOK
  BY DEF TypeOK
<1>2. LockInv
  BY DEF LockInv, Constructing, InSection, Writing
<1>3. FileInv
  BY DEF FileInv, DbIntact, Writing
<1>4. RefInv
  BY DEF RefInv, Writing
<1> QED BY <1>1, <1>2, <1>3, <1>4 DEF IInv

-----------------------------------------------------------------------------
\* At most one thread constructs the object or is in the with block.
LEMMA OneWriter ==
  ASSUME TypeOK, LockInv, NEW t \in Threads, NEW u \in Threads,
         Constructing(t) \/ InSection(t), Constructing(u) \/ InSection(u)
  PROVE  t = u
<1> USE StoreAssumption
<1>1. \A v \in Threads : InSection(v) => store # None /\ lock[store] = v
  BY DEF LockInv, InSection, Writing
<1>2. \A v \in Threads : Constructing(v) => store = None
  BY DEF LockInv
<1> QED BY <1>1, <1>2 DEF LockInv

\* Every step of a thread keeps the single writer, when first calls do not overlap.
LEMMA LockInvStep ==
  ASSUME ColdStartRace = FALSE, TypeOK, LockInv, Next
  PROVE  LockInv'
<1> USE StoreAssumption
<1>1. ASSUME NEW t \in Threads, NEW r \in KV!Requests, Invoke(t, r) PROVE LockInv'
  BY <1>1 DEF Invoke, Goto, LockInv, TypeOK, Constructing, InSection, Writing
<1>2. ASSUME NEW t \in Threads, CheckStore(t) PROVE LockInv'
  BY <1>2 DEF CheckStore, Goto, LockInv, TypeOK, Constructing, InSection, Writing
<1>3. ASSUME NEW t \in Threads, Construct(t) PROVE LockInv'
  BY <1>3 DEF Construct, Goto, LockInv, TypeOK, Constructing, InSection, Writing
<1>4. ASSUME NEW t \in Threads, AssignStore(t) PROVE LockInv'
  BY <1>4 DEF AssignStore, Goto, LockInv, TypeOK, Constructing, InSection, Writing
<1>5. ASSUME NEW t \in Threads, ReturnStore(t) PROVE LockInv'
  BY <1>5 DEF ReturnStore, Goto, LockInv, TypeOK, Constructing, InSection, Writing
<1>6. ASSUME NEW t \in Threads, Acquire(t) PROVE LockInv'
  BY <1>6 DEF Acquire, LockFree, Goto, LockInv, TypeOK, Constructing, InSection, Writing
<1>7. ASSUME NEW t \in Threads, Read(t) \/ ReadFails(t) PROVE LockInv'
  BY <1>7 DEF Read, ReadFails, Finish, Goto, LockInv, TypeOK, Constructing, InSection, Writing
<1>8. ASSUME NEW t \in Threads, OpenFile(t) \/ Dump(t) \/ WriteFails(t) PROVE LockInv'
  BY <1>8 DEF OpenFile, Dump, WriteFails, Finish, Goto, LockInv, TypeOK, Constructing, InSection, Writing
<1>9. ASSUME NEW t \in Threads, Replace(t) \/ ReplaceFails(t) PROVE LockInv'
  BY <1>9 DEF Replace, ReplaceFails, Finish, Goto, LockInv, TypeOK, Constructing, InSection, Writing
<1>10. ASSUME NEW t \in Threads, Release(t) PROVE LockInv'
  BY <1>10 DEF Release, Unlocked, Goto, LockInv, TypeOK, Constructing, InSection, Writing
<1>11. CASE Crash
  BY <1>11 DEF Crash, LockInv, TypeOK, Constructing, InSection, Writing
<1> QED BY <1>1, <1>2, <1>3, <1>4, <1>5, <1>6, <1>7, <1>8, <1>9, <1>10, <1>11 DEF Next, Step

-----------------------------------------------------------------------------
\* A call that gets a result is still a call, with that result.
LEMMA FinishFacts ==
  ASSUME TypeOK, NEW t \in Threads, NEW res, call[t] # None, Finish(t, res)
  PROVE  /\ call' = [u \in Threads |-> call'[u]]
         /\ call'[t] = [req |-> call[t].req, res |-> res]
         /\ \A u \in Threads \ {t} : call'[u] = call[u]
<1>1. call[t] = [req |-> call[t].req, res |-> call[t].res]
  BY DEF TypeOK
<1>2. [call[t] EXCEPT !.res = res] = [req |-> call[t].req, res |-> res]
  BY <1>1
<1>3. call = [u \in Threads |-> call[u]]
  BY DEF TypeOK
<1> QED BY <1>2, <1>3 DEF Finish

\* The part of TypeOK about calls, kept by whatever settles or ends them.
CallsOK ==
  /\ call = [t \in Threads |-> call[t]]
  /\ \A t \in Threads : call[t] # None =>
       /\ call[t] = [req |-> call[t].req, res |-> call[t].res]
       /\ call[t].req \in KV!Requests

\* Every step keeps the calls well formed: Invoke makes one, an outcome settles
\* it, Release and Crash remove it.
LEMMA CallsOKStep ==
  ASSUME TypeOK, RefInv, Next
  PROVE  CallsOK'
<1>0. CallsOK
  BY DEF TypeOK, CallsOK
<1>1. ASSUME NEW t \in Threads, NEW r \in KV!Requests, Invoke(t, r) PROVE CallsOK'
  BY <1>0, <1>1 DEF Invoke, CallsOK
<1>2. ASSUME NEW t \in Threads, NEW res, pc[t] # "idle", Finish(t, res) PROVE CallsOK'
  <2>1. call[t] # None
    BY <1>2 DEF RefInv
  <2>2. /\ call' = [u \in Threads |-> call'[u]]
        /\ call'[t] = [req |-> call[t].req, res |-> res]
        /\ \A u \in Threads \ {t} : call'[u] = call[u]
    BY <1>2, <2>1, FinishFacts
  <2> QED BY <1>0, <2>1, <2>2 DEF CallsOK
<1>3. ASSUME UNCHANGED call PROVE CallsOK'
  BY <1>0, <1>3 DEF CallsOK
<1>4. ASSUME NEW t \in Threads, Release(t) PROVE CallsOK'
  BY <1>0, <1>4 DEF Release, CallsOK
<1>5. CASE Crash
  BY <1>5 DEF Crash, CallsOK
<1>6. ASSUME NEW t \in Threads, Step(t) PROVE CallsOK'
  <2>1. CASE CheckStore(t) \/ Construct(t) \/ AssignStore(t) \/ ReturnStore(t) \/ Acquire(t)
             \/ OpenFile(t) \/ Dump(t)
    BY <2>1, <1>3 DEF CheckStore, Construct, AssignStore, ReturnStore, Acquire, OpenFile, Dump
  <2>2. CASE Read(t)
    BY <2>2, <1>2, <1>3 DEF Read
  <2>3. CASE ReadFails(t) \/ WriteFails(t) \/ ReplaceFails(t)
    BY <2>3, <1>2 DEF ReadFails, WriteFails, ReplaceFails
  <2>4. CASE Replace(t)
    BY <2>4, <1>2, <1>3 DEF Replace
  <2> QED BY <1>6, <2>1, <2>2, <2>3, <2>4, <1>4 DEF Step
<1> QED BY <1>1, <1>5, <1>6 DEF Next

\* There is an inode for a new .tmp file: neither the database's nor open.
LEMMA InodeFound ==
  ASSUME TypeOK, FileInv, NEW t \in Threads, pc[t] = "open", file["tmp"] = None
  PROVE  \E j \in Inodes : Unused(j)
<1>a. file["db"] \in Inodes \cup {None} /\ fd \in [Threads -> Inodes \cup {None}]
  BY DEF TypeOK
<1>1. PICK i \in Inodes : i # file["db"] /\ \A u \in Threads \ {t} : i # fd[u]
  BY <1>a, InodesSuffice, ZenonT(60)
<1>2. i # None
  BY StoreAssumption
<1>3. fd[t] = None
  BY DEF FileInv
<1> QED BY <1>1, <1>2, <1>3 DEF Unused

\* What open(tmp, "w") does: .tmp is an inode other than the database's.
LEMMA OpenFacts ==
  ASSUME TypeOK, FileInv, NEW t \in Threads, OpenFile(t)
  PROVE  /\ file'["tmp"] \in Inodes /\ file'["tmp"] # file["db"]
         /\ file' = [file EXCEPT !["tmp"] = file'["tmp"]]
         /\ content' = [content EXCEPT ![file'["tmp"]] = Empty]
         /\ fd' = [fd EXCEPT ![t] = file'["tmp"]]
<1> DEFINE i == IF file["tmp"] = None THEN CHOOSE j \in Inodes : Unused(j) ELSE file["tmp"]
<1>1. /\ file' = [file EXCEPT !["tmp"] = i]
      /\ content' = [content EXCEPT ![i] = Empty]
      /\ fd' = [fd EXCEPT ![t] = i]
      /\ pc[t] = "open"
  BY DEF OpenFile, OpenTmp
<1>2. i \in Inodes /\ i # file["db"]
  <2>1. CASE file["tmp"] = None
    <3>1. \E j \in Inodes : Unused(j)
      BY <1>1, <2>1, InodeFound
    <3>2. i \in Inodes /\ Unused(i)
      BY <2>1, <3>1
    <3> QED BY <3>2 DEF Unused
  <2>2. CASE file["tmp"] # None
    BY <2>2 DEF TypeOK, FileInv
  <2> QED BY <2>1, <2>2
<1>3. file'["tmp"] = i
  BY <1>1 DEF TypeOK
<1> QED BY <1>1, <1>2, <1>3

\* A thread that dumps its document finds .tmp truncated and fills it.
LEMMA DumpFacts ==
  ASSUME TypeOK, FileInv, NEW t \in Threads, Dump(t)
  PROVE  /\ file["tmp"] \in Inodes
         /\ content' = [content EXCEPT ![file["tmp"]] = data[t]]
         /\ data[t] \in KV!Dicts
<1>1. pc[t] = "dump" /\ \E c \in Written(content[fd[t]], data[t]) : content' = [content EXCEPT ![fd[t]] = c]
  BY DEF Dump
<1>2. fd[t] # None /\ fd[t] = file["tmp"] /\ content[fd[t]] = Empty /\ data[t] \in KV!Dicts
  BY <1>1 DEF FileInv, Writing
<1>3. Written(Empty, data[t]) = {data[t]}
  BY DEF Written
<1>4. file["tmp"] \in Inodes
  BY <1>2 DEF TypeOK
<1> QED BY <1>1, <1>2, <1>3, <1>4

\* A document that is read is a dictionary.
LEMMA ReadableIsDict == ASSUME TypeOK, Readable PROVE OnDisk \in KV!Dicts
  BY DEF TypeOK, Readable, OnDisk

\* A thread past its call holds a request.
LEMMA RequestOf ==
  ASSUME TypeOK, RefInv, NEW t \in Threads, pc[t] # "idle"
  PROVE  call[t] # None /\ call[t].req \in KV!Requests
  BY DEF TypeOK, RefInv

\* The locals, locks and files keep their types in every step.
LEMMA TypeOKStep ==
  ASSUME TypeOK, LockInv, FileInv, RefInv, Next
  PROVE  TypeOK'
<1> USE StoreAssumption
<1> DEFINE LocalsOK ==
     /\ store \in Threads \cup {None}
     /\ lock \in [Threads -> Threads \cup {None}]
     /\ pc \in [Threads -> {"idle", "check", "construct", "assign", "return", "acquire",
                            "read", "open", "dump", "replace", "release"}]
     /\ obj \in [Threads -> Threads \cup {None}]
<1> DEFINE FilesOK ==
     /\ file \in [{"db", "tmp"} -> Inodes \cup {None}]
     /\ content \in [Inodes -> KV!Dicts \cup {Empty, Garbage}]
     /\ data \in [Threads -> KV!Dicts \cup {None}]
     /\ fd \in [Threads -> Inodes \cup {None}]
<1>1. LocalsOK'
  <2>1. ASSUME NEW t \in Threads, NEW r \in KV!Requests, Invoke(t, r) PROVE LocalsOK'
    BY <2>1 DEF Invoke, Goto, TypeOK
  <2>2. ASSUME NEW t \in Threads, Step(t) PROVE LocalsOK'
    <3>1. CASE CheckStore(t) \/ Construct(t) \/ AssignStore(t) \/ ReturnStore(t)
      BY <3>1 DEF CheckStore, Construct, AssignStore, ReturnStore, Goto, TypeOK
    <3>2. CASE Acquire(t)
      BY <3>2 DEF Acquire, Goto, TypeOK, LockInv
    <3>3. CASE Read(t) \/ ReadFails(t)
      BY <3>3 DEF Read, ReadFails, Finish, Goto, TypeOK
    <3>4. CASE OpenFile(t) \/ Dump(t) \/ WriteFails(t)
      BY <3>4 DEF OpenFile, Dump, WriteFails, Finish, Goto, TypeOK
    <3>5. CASE Replace(t) \/ ReplaceFails(t)
      BY <3>5 DEF Replace, ReplaceFails, Finish, Goto, TypeOK
    <3>6. CASE Release(t)
      BY <3>6 DEF Release, Unlocked, Goto, TypeOK
    <3> QED BY <2>2, <3>1, <3>2, <3>3, <3>4, <3>5, <3>6 DEF Step
  <2>3. CASE Crash
    BY <2>3 DEF Crash, TypeOK
  <2> QED BY <2>1, <2>2, <2>3 DEF Next
<1>2. FilesOK'
  <2>1. ASSUME NEW t \in Threads, NEW r \in KV!Requests, Invoke(t, r) PROVE FilesOK'
    BY <2>1 DEF Invoke, TypeOK
  <2>2. ASSUME NEW t \in Threads, Step(t) PROVE FilesOK'
    <3>1. CASE CheckStore(t) \/ AssignStore(t) \/ ReturnStore(t) \/ Acquire(t) \/ ReadFails(t)
               \/ ReplaceFails(t)
      BY <3>1 DEF CheckStore, AssignStore, ReturnStore, Acquire, ReadFails, ReplaceFails, TypeOK
    <3>2. CASE Construct(t)
      BY <3>2, OnDiskType DEF Construct, FileInv, TypeOK
    <3>3. CASE Read(t)
      <4>1. KV!Effect(call[t].req, OnDisk) \in KV!Dicts
        BY <3>3, ReadableIsDict, RequestOf, EffectType DEF Read
      <4> QED BY <3>3, <4>1 DEF Read, Updated, TypeOK
    <3>4. CASE OpenFile(t)
      <4>1. UNCHANGED data
        BY <3>4 DEF OpenFile
      <4> HIDE DEF KV!Dicts
      <4> QED BY <3>4, <4>1, OpenFacts DEF TypeOK
    <3>5. CASE Dump(t)
      <4>1. UNCHANGED <<file, data>> /\ fd' = [fd EXCEPT ![t] = None]
        BY <3>5 DEF Dump
      <4> QED BY <3>5, <4>1, DumpFacts DEF TypeOK
    <3>6. CASE WriteFails(t)
      BY <3>6 DEF WriteFails, TypeOK
    <3>7. CASE Replace(t)
      BY <3>7 DEF Replace, TypeOK
    <3>8. CASE Release(t)
      BY <3>8 DEF Release, TypeOK
    <3> QED BY <2>2, <3>1, <3>2, <3>3, <3>4, <3>5, <3>6, <3>7, <3>8 DEF Step
  <2>3. CASE Crash
    BY <2>3 DEF Crash, TypeOK
  <2> QED BY <2>1, <2>2, <2>3 DEF Next
<1>3. CallsOK'
  BY CallsOKStep
<1> QED BY <1>1, <1>2, <1>3 DEF TypeOK, CallsOK

-----------------------------------------------------------------------------
\* A thread that writes is the only one, so the others are at no stage of a write.
LEMMA OthersNotWriting ==
  ASSUME TypeOK, LockInv, NEW t \in Threads, pc[t] = "read" \/ Writing(t),
         NEW u \in Threads, u # t
  PROVE  ~Writing(u) /\ pc[u] # "read" /\ ~Constructing(u)
<1>1. Constructing(t) \/ InSection(t)
  BY DEF Constructing, InSection, Writing
<1>2. ~Constructing(u) /\ ~InSection(u)
  BY <1>1, OneWriter
<1> QED BY <1>2 DEF Constructing, InSection, Writing

\* The database file is whole after every step, and .tmp belongs to its writer.
LEMMA FileInvStep ==
  ASSUME IInv, Next
  PROVE  FileInv'
<1> USE StoreAssumption DEF IInv
<1>1. ASSUME NEW t \in Threads, NEW r \in KV!Requests, Invoke(t, r) PROVE FileInv'
  BY <1>1 DEF Invoke, Goto, FileInv, DbIntact, TypeOK, Writing
<1>2. ASSUME NEW t \in Threads, Step(t) PROVE FileInv'
  <2>1. CASE CheckStore(t) \/ AssignStore(t) \/ ReturnStore(t) \/ Acquire(t)
    BY <2>1 DEF CheckStore, AssignStore, ReturnStore, Acquire, Goto, FileInv, DbIntact, TypeOK, Writing
  <2>2. CASE Construct(t)
    <3>1. KV!EmptyDict \in KV!Dicts
      BY OnDiskType DEF FileInv
    <3> QED BY <2>2, <3>1 DEF Construct, Goto, FileInv, DbIntact, TypeOK, Writing
  <2>3. CASE Read(t)
    <3>1. KV!Effect(call[t].req, OnDisk) \in KV!Dicts
      BY <2>3, ReadableIsDict, RequestOf, EffectType DEF Read
    <3> QED BY <2>3, <3>1 DEF Read, Updated, Finish, Goto, FileInv, DbIntact, TypeOK, Writing
  <2>4. CASE ReadFails(t) \/ ReplaceFails(t) \/ Release(t)
    BY <2>4 DEF ReadFails, ReplaceFails, Release, Finish, Goto, FileInv, DbIntact, TypeOK, Writing
  <2>5. CASE OpenFile(t)
    <3>1. pc[t] = "open" /\ pc' = [pc EXCEPT ![t] = "dump"] /\ UNCHANGED data
      BY <2>5 DEF OpenFile, Goto
    <3>2. \A u \in Threads \ {t} : ~Writing(u)
      BY <3>1, OthersNotWriting DEF Writing
    <3>3. /\ file'["tmp"] \in Inodes /\ file'["tmp"] # file["db"]
          /\ file' = [file EXCEPT !["tmp"] = file'["tmp"]]
          /\ content' = [content EXCEPT ![file'["tmp"]] = Empty]
          /\ fd' = [fd EXCEPT ![t] = file'["tmp"]]
      BY <2>5, OpenFacts
    <3>4. file'["db"] = file["db"] /\ DbIntact'
      BY <3>3 DEF FileInv, DbIntact, TypeOK
    <3>5. content'[file'["tmp"]] = Empty /\ fd'[t] = file'["tmp"]
      BY <3>3 DEF TypeOK
    <3>6. \A u \in Threads \ {t} : pc'[u] = pc[u] /\ fd'[u] = fd[u]
      BY <3>1, <3>3 DEF TypeOK
    <3> QED BY <3>1, <3>2, <3>3, <3>4, <3>5, <3>6 DEF FileInv, TypeOK, Writing
  <2>6. CASE Dump(t)
    <3>1. /\ pc[t] = "dump" /\ pc' = [pc EXCEPT ![t] = "replace"] /\ UNCHANGED <<data, file>>
          /\ fd' = [fd EXCEPT ![t] = None]
      BY <2>6 DEF Dump, Goto
    <3>2. \A u \in Threads \ {t} : ~Writing(u)
      BY <3>1, OthersNotWriting DEF Writing
    <3>3. /\ file["tmp"] \in Inodes
          /\ content' = [content EXCEPT ![file["tmp"]] = data[t]]
          /\ data[t] \in KV!Dicts
      BY <2>6, DumpFacts
    <3>4. DbIntact'
      BY <3>1, <3>3 DEF FileInv, DbIntact, TypeOK
    <3>5. content'[file["tmp"]] = data[t]
      BY <3>3 DEF TypeOK
    <3>6. \A u \in Threads \ {t} : pc'[u] = pc[u] /\ fd'[u] = fd[u]
      BY <3>1 DEF TypeOK
    <3> QED BY <3>1, <3>2, <3>3, <3>4, <3>5, <3>6 DEF FileInv, TypeOK, Writing
  <2>7. CASE WriteFails(t)
    BY <2>7 DEF WriteFails, Finish, Goto, FileInv, DbIntact, TypeOK, Writing
  <2>8. CASE Replace(t)
    <3>1. /\ pc[t] = "replace" /\ file["tmp"] # None
          /\ file' = [n \in {"db", "tmp"} |-> IF n = "db" THEN file["tmp"] ELSE None]
          /\ data' = [data EXCEPT ![t] = None] /\ UNCHANGED fd
          /\ pc' = [pc EXCEPT ![t] = IF obj[t] = None THEN "assign" ELSE "release"]
      BY <2>8 DEF Replace, Finish, Goto
    <3>2. \A u \in Threads \ {t} : ~Writing(u)
      BY <3>1, OthersNotWriting DEF Writing
    <3>3. file["tmp"] \in Inodes /\ content[file["tmp"]] = data[t] /\ data[t] \in KV!Dicts
      BY <3>1 DEF FileInv, TypeOK, Writing
    <3>4. content'[file["tmp"]] = content[file["tmp"]]
      BY <2>8, <3>3 DEF Replace, FileInv
    <3>5. DbIntact' /\ file'["tmp"] = None
      BY <3>1, <3>3, <3>4 DEF DbIntact
    <3>6. \A u \in Threads : pc'[u] \notin {"open", "dump", "replace"} /\ fd'[u] = None
      BY <3>1, <3>2 DEF FileInv, TypeOK, Writing
    <3> QED BY <3>5, <3>6 DEF FileInv, Writing
  <2> QED BY <1>2, <2>1, <2>2, <2>3, <2>4, <2>5, <2>6, <2>7, <2>8 DEF Step
<1>3. CASE Crash
  BY <1>3 DEF Crash, FileInv, DbIntact, Writing
<1> QED BY <1>1, <1>2, <1>3 DEF Next

-----------------------------------------------------------------------------
\* Only os.replace changes what the database says, and it makes it the document
\* of the writer.
LEMMA DiskStep ==
  ASSUME IInv, Next
  PROVE  \/ file'["db"] = file["db"] /\ OnDisk' = OnDisk
         \/ \E t \in Threads : Replace(t) /\ file'["db"] # None /\ OnDisk' = data[t]
<1> USE DEF IInv
<1>1. ASSUME UNCHANGED <<file, content>> PROVE file'["db"] = file["db"] /\ OnDisk' = OnDisk
  BY <1>1 DEF OnDisk
<1>2. ASSUME NEW t \in Threads, OpenFile(t) PROVE file'["db"] = file["db"] /\ OnDisk' = OnDisk
  <2>1. file'["db"] = file["db"]
    BY <1>2, OpenFacts DEF TypeOK
  <2>2. file["db"] # None => content'[file["db"]] = content[file["db"]]
    BY <1>2, OpenFacts DEF TypeOK
  <2> QED BY <2>1, <2>2 DEF OnDisk
<1>3. ASSUME NEW t \in Threads, Dump(t) PROVE file'["db"] = file["db"] /\ OnDisk' = OnDisk
  <2>1. file' = file
    BY <1>3 DEF Dump
  <2>2. file["tmp"] # None /\ file["tmp"] # file["db"]
    BY <1>3, DumpFacts, StoreAssumption DEF FileInv
  <2>3. file["db"] # None => content'[file["db"]] = content[file["db"]]
    BY <1>3, <2>2, DumpFacts DEF TypeOK
  <2> QED BY <2>1, <2>3 DEF OnDisk
<1>4. ASSUME NEW t \in Threads, Replace(t) PROVE file'["db"] # None /\ OnDisk' = data[t]
  <2>1. file'["db"] = file["tmp"] /\ file["tmp"] # None
    BY <1>4 DEF Replace
  <2>2. content[file["tmp"]] = data[t] /\ file["tmp"] # file["db"] /\ file["tmp"] \in Inodes
    BY <1>4 DEF Replace, FileInv, TypeOK
  <2>3. content'[file["tmp"]] = content[file["tmp"]]
    BY <1>4, <2>2 DEF Replace
  <2> QED BY <2>1, <2>2, <2>3 DEF OnDisk
<1>5. ASSUME NEW t \in Threads, NEW r \in KV!Requests, Invoke(t, r) PROVE UNCHANGED <<file, content>>
  BY <1>5 DEF Invoke
<1>6. ASSUME NEW t \in Threads, Step(t), ~OpenFile(t), ~Dump(t), ~Replace(t)
      PROVE  UNCHANGED <<file, content>>
  BY <1>6 DEF Step, CheckStore, Construct, AssignStore, ReturnStore, Acquire, Read, ReadFails,
              WriteFails, ReplaceFails, Release
<1>7. CASE Crash
  BY <1>7, <1>1 DEF Crash
<1> QED BY <1>1, <1>2, <1>3, <1>4, <1>5, <1>6, <1>7 DEF Next

\* The outcomes a call can have are results.
LEMMA ResultFacts ==
  ASSUME NEW r \in KV!Requests, NEW d \in KV!Dicts
  PROVE  /\ KV!Answer(r, d) # None /\ [req |-> r, res |-> KV!Answer(r, d)] # None
         /\ KV!Failure # None /\ [req |-> r, res |-> KV!Failure] # None
         /\ [req |-> r, res |-> None] # None
  BY ResultsAssumption

\* The bookkeeping of calls: no call while idle, a result exactly at the release.
CallInv ==
  \A t \in Threads :
    /\ pc[t] = "idle" <=> call[t] = None
    /\ call[t] # None => (pc[t] = "release" <=> call[t].res # None)

\* A call that is settled with a result keeps the bookkeeping.
LEMMA FinishCallInv ==
  ASSUME TypeOK, CallInv, NEW t \in Threads, NEW res, pc[t] # "idle", Finish(t, res),
         res # None, [req |-> call[t].req, res |-> res] # None
  PROVE  CallInv'
<1>1. call[t] # None
  BY DEF CallInv
<1>2. /\ call'[t] = [req |-> call[t].req, res |-> res]
      /\ \A u \in Threads \ {t} : call'[u] = call[u]
  BY <1>1, FinishFacts
<1>3. pc'[t] = "release" /\ \A u \in Threads \ {t} : pc'[u] = pc[u]
  BY DEF Finish, Goto, TypeOK
<1>4. call'[t] # None /\ call'[t].res = res
  BY <1>2
<1> QED BY <1>2, <1>3, <1>4 DEF CallInv

\* What a write in the with block returns is the answer of its request.
LEMMA ReplaceAnswer ==
  ASSUME IInv, NEW t \in Threads, Replace(t), obj[t] # None
  PROVE  /\ call[t] # None /\ call[t].req \in KV!Requests /\ OnDisk \in KV!Dicts
         /\ data[t] = KV!Effect(call[t].req, OnDisk)
         /\ Finish(t, KV!Answer(call[t].req, OnDisk))
<1>1. pc[t] = "replace"
  BY DEF Replace
<1>2. call[t] # None /\ call[t].req \in KV!Requests
  BY <1>1, RequestOf DEF IInv
<1>3. call[t].req.op \in {"set", "delete"} /\ data[t] = KV!Effect(call[t].req, OnDisk)
  BY <1>1 DEF IInv, RefInv, Writing
<1>4. KV!Answer(call[t].req, OnDisk) = [ok |-> TRUE, val |-> None]
  BY <1>3 DEF KV!Answer
<1>5. OnDisk \in KV!Dicts
  BY OnDiskType DEF IInv, FileInv
<1> QED BY <1>2, <1>3, <1>4, <1>5 DEF Replace

\* Every step keeps the bookkeeping of calls.
LEMMA CallInvStep ==
  ASSUME IInv, Next
  PROVE  CallInv'
<1>0. TypeOK /\ CallInv /\ RefInv /\ OnDisk \in KV!Dicts
  BY OnDiskType DEF IInv, RefInv, CallInv, FileInv
<1>1. ASSUME NEW t \in Threads, NEW r \in KV!Requests, Invoke(t, r) PROVE CallInv'
  <2>1. [req |-> r, res |-> None] # None
    BY <1>0, ResultFacts
  <2>2. call'[t] = [req |-> r, res |-> None] /\ \A u \in Threads \ {t} : call'[u] = call[u]
    BY <1>0, <1>1 DEF Invoke, TypeOK
  <2>3. pc'[t] = "check" /\ \A u \in Threads \ {t} : pc'[u] = pc[u]
    BY <1>0, <1>1 DEF Invoke, Goto, TypeOK
  <2> QED BY <1>0, <2>1, <2>2, <2>3 DEF CallInv
<1>2. ASSUME NEW t \in Threads, Step(t) PROVE CallInv'
  <2>1. CASE CheckStore(t) \/ Construct(t) \/ AssignStore(t) \/ ReturnStore(t) \/ Acquire(t)
             \/ OpenFile(t) \/ Dump(t)
    BY <1>0, <2>1 DEF CheckStore, Construct, AssignStore, ReturnStore, Acquire, OpenFile, Dump,
                      Goto, CallInv, TypeOK
  <2>2. CASE Read(t)
    <3>1. CASE call[t].req.op \in {"set", "delete"}
      BY <1>0, <2>2, <3>1 DEF Read, Goto, CallInv, TypeOK
    <3>2. CASE call[t].req.op \notin {"set", "delete"}
      <4>1. pc[t] = "read" /\ Finish(t, KV!Answer(call[t].req, OnDisk))
        BY <2>2, <3>2 DEF Read
      <4>2. call[t].req \in KV!Requests
        BY <1>0, <4>1, RequestOf
      <4> QED BY <1>0, <4>1, <4>2, ResultFacts, FinishCallInv
    <3> QED BY <3>1, <3>2
  <2>3. CASE ReadFails(t) \/ WriteFails(t) \/ ReplaceFails(t)
    <3>1. pc[t] # "idle" /\ Finish(t, KV!Failure)
      BY <2>3 DEF ReadFails, WriteFails, ReplaceFails
    <3>2. call[t].req \in KV!Requests
      BY <1>0, <3>1, RequestOf
    <3> QED BY <1>0, <3>1, <3>2, ResultFacts, FinishCallInv
  <2>4. CASE Replace(t)
    <3>1. CASE obj[t] = None
      BY <1>0, <2>4, <3>1 DEF Replace, Goto, CallInv, TypeOK
    <3>2. CASE obj[t] # None
      <4>1. pc[t] # "idle"
        BY <2>4 DEF Replace
      <4> QED BY <1>0, <2>4, <3>2, <4>1, ReplaceAnswer, ResultFacts, FinishCallInv
    <3> QED BY <3>1, <3>2
  <2>5. CASE Release(t)
    BY <1>0, <2>5 DEF Release, Goto, CallInv, TypeOK
  <2> QED BY <1>2, <2>1, <2>2, <2>3, <2>4, <2>5 DEF Step
<1>3. CASE Crash
  BY <1>3 DEF Crash, CallInv
<1> QED BY <1>1, <1>2, <1>3 DEF Next

-----------------------------------------------------------------------------
\* The document a writer holds is the effect of its request on the database as
\* it still stands; the constructor's is the empty one, for a missing database.
WriteInv ==
  \A t \in Threads :
    /\ Writing(t) /\ obj[t] = None => data[t] = KV!EmptyDict /\ file["db"] = None
    /\ Writing(t) /\ obj[t] # None =>
         /\ call[t].req.op \in {"set", "delete"}
         /\ file["db"] # None
         /\ data[t] = KV!Effect(call[t].req, OnDisk)

\* A writer's request, object and document do not change while others move.
LEMMA WriteInvStep ==
  ASSUME IInv, Next
  PROVE  WriteInv'
<1>0. TypeOK /\ LockInv /\ FileInv /\ RefInv /\ WriteInv
  BY DEF IInv, RefInv, WriteInv
<1>1. ASSUME NEW t \in Threads, NEW r \in KV!Requests, Invoke(t, r) PROVE WriteInv'
  BY <1>0, <1>1 DEF Invoke, Goto, WriteInv, OnDisk, TypeOK, Writing
<1>2. ASSUME NEW t \in Threads, Step(t) PROVE WriteInv'
  <2>1. CASE CheckStore(t) \/ AssignStore(t) \/ ReturnStore(t) \/ Acquire(t)
    BY <1>0, <2>1 DEF CheckStore, AssignStore, ReturnStore, Acquire, Goto, WriteInv, OnDisk,
                      TypeOK, LockInv, Writing
  <2>2. CASE Construct(t)
    BY <1>0, <2>2 DEF Construct, Goto, WriteInv, OnDisk, TypeOK, LockInv, Writing
  <2>3. CASE Read(t)
    <3>1. pc[t] = "read" /\ Readable /\ UNCHANGED <<file, content, obj>>
      BY <2>3 DEF Read
    <3>2. \A u \in Threads \ {t} : pc'[u] = pc[u] /\ ~Writing(u)
      BY <1>0, <2>3, <3>1, OthersNotWriting DEF Read, Finish, Goto, TypeOK
    <3>3. CASE call[t].req.op \in {"set", "delete"}
      <4>1. data'[t] = KV!Effect(call[t].req, OnDisk) /\ call' = call
        BY <1>0, <2>3, <3>3 DEF Read, Updated, TypeOK
      <4>2. obj[t] # None
        BY <1>0, <3>1 DEF LockInv
      <4>3. OnDisk' = OnDisk
        BY <3>1 DEF OnDisk
      <4> QED BY <3>1, <3>2, <3>3, <4>1, <4>2, <4>3 DEF WriteInv, Writing, Readable
    <3>4. CASE call[t].req.op \notin {"set", "delete"}
      <4>1. pc'[t] = "release"
        BY <1>0, <2>3, <3>4 DEF Read, Finish, Goto, TypeOK
      <4> QED BY <3>2, <4>1 DEF WriteInv, Writing
    <3> QED BY <3>3, <3>4
  <2>4. CASE ReadFails(t) \/ WriteFails(t) \/ ReplaceFails(t)
    <3>1. pc[t] = "read" \/ Writing(t)
      BY <2>4 DEF ReadFails, WriteFails, ReplaceFails, Writing
    <3>2. pc' = [pc EXCEPT ![t] = "release"]
      BY <2>4 DEF ReadFails, WriteFails, ReplaceFails, Finish, Goto
    <3>3. \A u \in Threads \ {t} : ~Writing(u)
      BY <1>0, <3>1, OthersNotWriting
    <3> QED BY <1>0, <3>2, <3>3 DEF WriteInv, Writing, TypeOK
  <2>5. CASE OpenFile(t) \/ Dump(t)
    <3>1. Writing(t) /\ UNCHANGED <<obj, data, call>>
      BY <2>5 DEF OpenFile, Dump, Writing
    <3>2. ~Replace(t) /\ \A u \in Threads : ~Replace(u)
      BY <1>0, <2>5, <3>1, OthersNotWriting DEF OpenFile, Dump, Replace, Writing
    <3>3. file'["db"] = file["db"] /\ OnDisk' = OnDisk
      BY <3>2, DiskStep
    <3>4. \A u \in Threads : Writing(u)' => Writing(u)
      BY <1>0, <2>5 DEF OpenFile, Dump, Goto, Writing, TypeOK
    <3> QED BY <1>0, <3>1, <3>3, <3>4 DEF WriteInv
  <2>6. CASE Replace(t)
    <3>1. Writing(t)
      BY <2>6 DEF Replace, Writing
    <3>2. pc'[t] \in {"assign", "release"} /\ \A u \in Threads \ {t} : pc'[u] = pc[u] /\ ~Writing(u)
      BY <1>0, <2>6, <3>1, OthersNotWriting DEF Replace, Finish, Goto, TypeOK
    <3> QED BY <3>2 DEF WriteInv, Writing
  <2>7. CASE Release(t)
    BY <1>0, <2>7 DEF Release, Goto, WriteInv, OnDisk, TypeOK, Writing
  <2> QED BY <1>2, <2>1, <2>2, <2>3, <2>4, <2>5, <2>6, <2>7 DEF Step
<1>3. CASE Crash
  BY <1>3 DEF Crash, WriteInv, Writing
<1> QED BY <1>1, <1>2, <1>3 DEF Next

-----------------------------------------------------------------------------
\* The inductive invariant holds in every reachable state of the store, when
\* the first calls of users_db() do not overlap.
THEOREM Invariance == ASSUME ColdStartRace = FALSE PROVE Spec => []IInv
<1>1. IInv /\ [Next]_vars => IInv'
  <2> SUFFICES ASSUME IInv, [Next]_vars PROVE IInv'
    OBVIOUS
  <2>1. CASE Next
    <3>1. TypeOK' /\ LockInv' /\ FileInv'
      BY <2>1, TypeOKStep, LockInvStep, FileInvStep DEF IInv
    <3>2. RefInv'
      BY <2>1, CallInvStep, WriteInvStep DEF RefInv, CallInv, WriteInv
    <3> QED BY <3>1, <3>2 DEF IInv
  <2>2. CASE UNCHANGED vars
    BY <2>2 DEF vars, IInv, TypeOK, LockInv, FileInv, RefInv, DbIntact, OnDisk, Constructing,
                InSection, Writing
  <2> QED BY <2>1, <2>2
<1> QED BY <1>1, InitIInv, PTL DEF Spec

\* Type correctness of the store.
THEOREM TypeCorrect == ASSUME ColdStartRace = FALSE PROVE Spec => []TypeOK
<1>1. IInv => TypeOK
  BY DEF IInv
<1> QED BY <1>1, Invariance, PTL

\* The database file is a complete JSON document whenever it exists, through
\* failing writes and crashes at any step (storage.py, _write_raw).
THEOREM DatabaseIntact == ASSUME ColdStartRace = FALSE PROVE Spec => []DbIntact
<1>1. IInv => DbIntact
  BY DEF IInv, FileInv
<1> QED BY <1>1, Invariance, PTL

\* Every step of the file store is a step of the dictionary or invisible to its
\* callers: the effect of a write happens at os.replace, of a read at the read.
LEMMA StepRefines ==
  ASSUME IInv, Next
  PROVE  KV!Next \/ UNCHANGED <<OnDisk, call>>
<1>0. TypeOK /\ RefInv /\ FileInv
  BY DEF IInv
<1>1. ASSUME NEW t \in Threads, Replace(t) PROVE KV!Next \/ UNCHANGED <<OnDisk, call>>
  <2>1. OnDisk' = data[t]
    <3>1. \A u \in Threads : Replace(u) => u = t
      BY <1>0, <1>1, OthersNotWriting DEF Replace, Writing, IInv
    <3>2. file'["db"] # file["db"]
      BY <1>0, <1>1 DEF Replace, FileInv
    <3> QED BY <3>1, <3>2, DiskStep
  <2>2. CASE obj[t] = None
    <3>1. data[t] = OnDisk
      BY <1>0, <1>1, <2>2 DEF Replace, RefInv, Writing, OnDisk, KV!EmptyDict
    <3> QED BY <1>1, <2>1, <2>2, <3>1 DEF Replace
  <2>3. CASE obj[t] # None
    <3>1. /\ call[t] # None /\ data[t] = KV!Effect(call[t].req, OnDisk)
          /\ call' = [call EXCEPT ![t].res = KV!Answer(call[t].req, OnDisk)]
      BY <1>1, <2>3, ReplaceAnswer DEF Finish
    <3>2. call[t].res = None
      BY <1>0, <1>1, <3>1 DEF Replace, RefInv
    <3>3. KV!Apply(t)
      BY <2>1, <3>1, <3>2 DEF KV!Apply
    <3> QED BY <3>3 DEF KV!Next
  <2> QED BY <2>2, <2>3
<1>2. ASSUME \A t \in Threads : ~Replace(t) PROVE OnDisk' = OnDisk
  BY <1>2, DiskStep
<1>3. ASSUME NEW t \in Threads, NEW r \in KV!Requests, Invoke(t, r), OnDisk' = OnDisk PROVE KV!Next
  <2>1. KV!Invoke(t, r)
    BY <1>0, <1>3 DEF Invoke, RefInv, KV!Invoke
  <2> QED BY <2>1 DEF KV!Next
<1>4. ASSUME NEW t \in Threads, Step(t), OnDisk' = OnDisk, ~Replace(t)
      PROVE  KV!Next \/ UNCHANGED <<OnDisk, call>>
  <2>1. CASE CheckStore(t) \/ Construct(t) \/ AssignStore(t) \/ ReturnStore(t) \/ Acquire(t)
             \/ OpenFile(t) \/ Dump(t)
    BY <1>4, <2>1 DEF CheckStore, Construct, AssignStore, ReturnStore, Acquire, OpenFile, Dump
  <2>2. CASE Read(t)
    <3>1. CASE call[t].req.op \in {"set", "delete"}
      BY <1>4, <2>2, <3>1 DEF Read
    <3>2. CASE call[t].req.op \notin {"set", "delete"}
      <4>1. call[t] # None /\ call[t].res = None
        BY <1>0, <2>2 DEF Read, RefInv
      <4>2. KV!Effect(call[t].req, OnDisk) = OnDisk
        BY <3>2 DEF KV!Effect
      <4>3. KV!Apply(t)
        BY <1>4, <2>2, <3>2, <4>1, <4>2 DEF Read, Finish, KV!Apply
      <4> QED BY <4>3 DEF KV!Next
    <3> QED BY <3>1, <3>2
  <2>3. CASE ReadFails(t) \/ WriteFails(t) \/ ReplaceFails(t)
    <3>1. call[t] # None /\ call[t].res = None
      BY <1>0, <2>3 DEF ReadFails, WriteFails, ReplaceFails, RefInv
    <3>2. KV!Fail(t)
      BY <1>4, <2>3, <3>1 DEF ReadFails, WriteFails, ReplaceFails, Finish, KV!Fail
    <3> QED BY <3>2 DEF KV!Next
  <2>4. CASE Release(t)
    <3>1. call[t] # None /\ call[t].res # None
      BY <1>0, <2>4 DEF Release, RefInv
    <3>2. KV!Return(t)
      BY <1>4, <2>4, <3>1 DEF Release, KV!Return
    <3> QED BY <3>2 DEF KV!Next
  <2> QED BY <1>4, <2>1, <2>2, <2>3, <2>4 DEF Step
<1>5. ASSUME Crash, OnDisk' = OnDisk PROVE KV!Next
  BY <1>5 DEF Crash, KV!Crash, KV!Next
<1> QED BY <1>1, <1>2, <1>3, <1>4, <1>5 DEF Next

\* The file store implements the dictionary: calls are linearizable, failed and
\* abandoned ones have no effect (storage.py, JSONStore and users_db).
THEOREM Refinement == ASSUME ColdStartRace = FALSE PROVE Spec => Linearizable
<1>1. Init => KV!Init
  <2> SUFFICES ASSUME Init PROVE KV!Init
    OBVIOUS
  <2>1. OnDisk \in KV!Dicts
    BY DEF Init, OnDisk, KV!Dicts
  <2> QED BY <2>1 DEF Init, KV!Init
<1>2. IInv /\ [Next]_vars => [KV!Next]_<<OnDisk, call>>
  <2> SUFFICES ASSUME IInv, [Next]_vars PROVE [KV!Next]_<<OnDisk, call>>
    OBVIOUS
  <2>1. CASE Next
    BY <2>1, StepRefines
  <2>2. CASE UNCHANGED vars
    BY <2>2 DEF vars, OnDisk
  <2> QED BY <2>1, <2>2
<1> QED BY <1>1, <1>2, Invariance, PTL DEF Spec, Linearizable, KV!Spec
=============================================================================
