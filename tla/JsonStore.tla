------------------------------ MODULE JsonStore -----------------------------
(***************************************************************************)
(* storage.py at the level of its file operations: the module singleton    *)
(* users_db(), one JSONStore object per constructor call with a lock of    *)
(* its own, and every write as open(".tmp"), dump, os.replace.  Threads    *)
(* may be interrupted between any two of these; the disk may refuse a      *)
(* write; the process may die at any point and be started again, and finds *)
(* on disk what it left there.                                             *)
(*                                                                         *)
(* A file is an inode: a thread that has one open keeps writing to it      *)
(* after os.replace gave it another name.                                  *)
(***************************************************************************)
EXTENDS Integers, FiniteSets

CONSTANTS
  Threads,       \* connection threads of the server
  Keys, Values,  \* hex(credential_id) and password records
  Ops,           \* the methods that callers use
  None,
  Empty,         \* a file just truncated: not a JSON document
  Garbage,       \* one document written over a longer one: not JSON either
  Inodes,        \* inode numbers
  ColdStartRace  \* TRUE: calls may overlap the very first call of users_db

ASSUME StoreAssumption ==
  /\ None \notin Threads \cup Keys \cup Values \cup Inodes
  /\ Empty \notin [Keys -> Values \cup {None}]
  /\ Garbage \notin [Keys -> Values \cup {None}]
  /\ ColdStartRace \in BOOLEAN

\* The file system does not run out of inodes: a thread that opens a file finds
\* one beside the database's and those that other threads have open.
ASSUME InodesSuffice ==
  \A db \in Inodes \cup {None}, t \in Threads, open \in [Threads -> Inodes \cup {None}] :
    \E i \in Inodes : i # db /\ \A u \in Threads \ {t} : i # open[u]

VARIABLES
  store,    \* the global _users_store; an object is named after its creator
  lock,     \* _lock of each object: the thread that holds it
  file,     \* directory: inode of the database and of its .tmp
  content,  \* what an inode holds
  pc, obj, data, fd,  \* per thread: next step, object, dict in hand, open file
  call      \* per thread: the call under way and its result

vars == <<store, lock, file, content, pc, obj, data, fd, call>>

\* The promise, read off the database file as it stands.
OnDisk == IF file["db"] = None THEN [k \in Keys |-> None] ELSE content[file["db"]]
KV == INSTANCE KVStore WITH dict <- OnDisk

\* A result is not "no result yet", nor a request "no call".
ASSUME ResultsAssumption ==
  /\ KV!Failure # None
  /\ \A r \in KV!Requests :
       /\ [req |-> r, res |-> None] # None /\ [req |-> r, res |-> KV!Failure] # None
       /\ \A d \in KV!Dicts : KV!Answer(r, d) # None /\ [req |-> r, res |-> KV!Answer(r, d)] # None

Init ==
  /\ store = None
  /\ lock = [o \in Threads |-> None]
  /\ file = [n \in {"db", "tmp"} |-> None]
  /\ content = [i \in Inodes |-> Empty]
  /\ pc = [t \in Threads |-> "idle"]
  /\ obj = [t \in Threads |-> None]
  /\ data = [t \in Threads |-> None]
  /\ fd = [t \in Threads |-> None]
  /\ call = [t \in Threads |-> None]

-----------------------------------------------------------------------------
Goto(t, label) == pc' = [pc EXCEPT ![t] = label]

\* A caller enters get, set, delete, exists or all of users_db().
Invoke(t, r) ==
  /\ pc[t] = "idle"
  /\ call' = [call EXCEPT ![t] = [req |-> r, res |-> None]]
  /\ Goto(t, "check")
  /\ UNCHANGED <<store, lock, file, content, obj, data, fd>>

\* The call of t ends in `res`; the with block it may be in is left next.
Finish(t, res) ==
  /\ call' = [call EXCEPT ![t].res = res]
  /\ Goto(t, "release")

-----------------------------------------------------------------------------
(* users_db() *)

\* t is between the test of the global and its assignment.
Constructing(t) ==
  \/ pc[t] \in {"construct", "assign"}
  \/ pc[t] \in {"open", "dump", "replace"} /\ obj[t] = None

\* "if _users_store is None"
CheckStore(t) ==
  /\ pc[t] = "check"
  /\ ~ColdStartRace => \A u \in Threads : ~Constructing(u)
  /\ Goto(t, IF store = None THEN "construct" ELSE "return")
  /\ UNCHANGED <<store, lock, file, content, obj, data, fd, call>>

\* JSONStore.__init__: a new lock, and an empty document if there is no file.
Construct(t) ==
  /\ pc[t] = "construct"
  /\ lock' = [lock EXCEPT ![t] = None]
  /\ IF file["db"] = None
     THEN data' = [data EXCEPT ![t] = KV!EmptyDict] /\ Goto(t, "open")
     ELSE Goto(t, "assign") /\ UNCHANGED data
  /\ UNCHANGED <<store, file, content, obj, fd, call>>

AssignStore(t) ==
  /\ pc[t] = "assign"
  /\ store' = t
  /\ Goto(t, "return")
  /\ UNCHANGED <<lock, file, content, obj, data, fd, call>>

ReturnStore(t) ==
  /\ pc[t] = "return"
  /\ obj' = [obj EXCEPT ![t] = store]
  /\ Goto(t, "acquire")
  /\ UNCHANGED <<store, lock, file, content, data, fd, call>>

-----------------------------------------------------------------------------
(* The methods of JSONStore. *)

LockFreeAlways(o) == TRUE
LockFree(o) == lock[o] = None

Acquire(t) ==
  /\ pc[t] = "acquire"
  /\ LockFree(obj[t])
  /\ lock' = [lock EXCEPT ![obj[t]] = t]
  /\ Goto(t, "read")
  /\ UNCHANGED <<store, file, content, obj, data, fd, call>>

\* open(path) and json.load both succeed.
Readable == file["db"] # None /\ content[file["db"]] \notin {Empty, Garbage}

\* The dictionary that set and delete write back: all of it, with one change.
UpdatedEntryOnly(r) == [k \in {r.key} |-> r.val]
Updated(r) == KV!Effect(r, OnDisk)

\* _read_raw(), then either the answer or the dictionary to write back.
Read(t) ==
  LET r == call[t].req
  IN /\ pc[t] = "read"
     /\ Readable
     /\ IF r.op \in {"set", "delete"}
        THEN /\ data' = [data EXCEPT ![t] = Updated(r)]
             /\ Goto(t, "open")
             /\ UNCHANGED call
        ELSE Finish(t, KV!Answer(r, OnDisk)) /\ UNCHANGED data
     /\ UNCHANGED <<store, lock, file, content, obj, fd>>

\* JSONDecodeError, FileNotFoundError or another OSError of open (no descriptor
\* left, no permission): a document that is there may still be refused.
ReadFails(t) ==
  /\ pc[t] = "read"
  /\ Finish(t, KV!Failure)
  /\ UNCHANGED <<store, lock, file, content, obj, data, fd>>

-----------------------------------------------------------------------------
(* _write_raw(data[t]) *)

Unused(i) == i # file["db"] /\ i # file["tmp"] /\ \A u \in Threads : fd[u] # i

\* The file a writer opens before it dumps its document.
OpenDbInPlace == "db"
OpenTmp == "tmp"

\* open(tmp, "w") truncates the file of that name or creates one.
OpenFile(t) ==
  LET i == IF file[OpenTmp] = None THEN CHOOSE j \in Inodes : Unused(j) ELSE file[OpenTmp]
  IN /\ pc[t] = "open"
     /\ file' = [file EXCEPT ![OpenTmp] = i]
     /\ content' = [content EXCEPT ![i] = Empty]
     /\ fd' = [fd EXCEPT ![t] = i]
     /\ Goto(t, "dump")
     /\ UNCHANGED <<store, lock, obj, data, call>>

Size(d) == Cardinality({k \in Keys : d[k] # None})

\* What a file holds after document `new` was written from its start: records
\* all have one length, so a document with fewer keys leaves a tail of the old.
Written(old, new) ==
  IF old = Empty THEN {new}
  ELSE IF old = Garbage THEN {new, Garbage}
  ELSE IF Size(old) > Size(new) THEN {Garbage} ELSE {new}

\* json.dump and close: the document reaches the file t has open.
Dump(t) ==
  /\ pc[t] = "dump"
  /\ \E c \in Written(content[fd[t]], data[t]) : content' = [content EXCEPT ![fd[t]] = c]
  /\ fd' = [fd EXCEPT ![t] = None]
  /\ Goto(t, "replace")
  /\ UNCHANGED <<store, lock, file, obj, data, call>>

\* OSError in open or dump (no space, no permission): .tmp stays as it is.
WriteFails(t) ==
  /\ pc[t] \in {"open", "dump"}
  /\ fd' = [fd EXCEPT ![t] = None]
  /\ Finish(t, KV!Failure)
  /\ UNCHANGED <<store, lock, file, content, obj, data>>

\* os.replace(tmp, path), and the return from the constructor or from set and
\* delete.  The old file is freed unless a thread still has it open.
Replace(t) ==
  /\ pc[t] = "replace"
  /\ file["tmp"] # None
  /\ file' = [n \in {"db", "tmp"} |-> IF n = "db" THEN file["tmp"] ELSE None]
  /\ content' = [i \in Inodes |->
       IF i = file["db"] /\ \A u \in Threads : fd[u] # i THEN Empty ELSE content[i]]
  /\ data' = [data EXCEPT ![t] = None]
  /\ IF obj[t] = None
     THEN Goto(t, "assign") /\ UNCHANGED call
     ELSE Finish(t, [ok |-> TRUE, val |-> None])
  /\ UNCHANGED <<store, lock, obj, fd>>

\* FileNotFoundError, when another writer took the .tmp away, or another OSError
\* of os.replace: nothing is renamed.
ReplaceFails(t) ==
  /\ pc[t] = "replace"
  /\ Finish(t, KV!Failure)
  /\ UNCHANGED <<store, lock, file, content, obj, data, fd>>

-----------------------------------------------------------------------------
\* The locks after t left its with block, by return or by exception.
UnlockedUnlessFailed(t) ==
  [o \in Threads |-> IF lock[o] = t /\ call[t].res.ok THEN None ELSE lock[o]]
Unlocked(t) == [o \in Threads |-> IF lock[o] = t THEN None ELSE lock[o]]

\* Leave the with block and return to the caller.
Release(t) ==
  /\ pc[t] = "release"
  /\ lock' = Unlocked(t)
  /\ call' = [call EXCEPT ![t] = None]
  /\ Goto(t, "idle")
  /\ obj' = [obj EXCEPT ![t] = None]
  /\ data' = [data EXCEPT ![t] = None]
  /\ UNCHANGED <<store, file, content, fd>>

\* The process dies and is started again: only the disk survives.
Crash ==
  /\ store' = None
  /\ lock' = [o \in Threads |-> None]
  /\ pc' = [t \in Threads |-> "idle"]
  /\ obj' = [t \in Threads |-> None]
  /\ data' = [t \in Threads |-> None]
  /\ fd' = [t \in Threads |-> None]
  /\ call' = [t \in Threads |-> None]
  /\ UNCHANGED <<file, content>>

\* What a thread does once it was called.
Step(t) ==
  \/ CheckStore(t) \/ Construct(t) \/ AssignStore(t) \/ ReturnStore(t)
  \/ Acquire(t) \/ Read(t) \/ ReadFails(t)
  \/ OpenFile(t) \/ Dump(t) \/ WriteFails(t) \/ Replace(t) \/ ReplaceFails(t)
  \/ Release(t)

Next ==
  \/ \E t \in Threads : (\E r \in KV!Requests : Invoke(t, r)) \/ Step(t)
  \/ Crash

Spec == Init /\ [][Next]_vars

\* Threads that can run are scheduled; nobody promises calls or crashes.
FairSpec == Spec /\ \A t \in Threads : WF_vars(Step(t))

-----------------------------------------------------------------------------
\* Types of the files and of the locals of the threads (storage.py 37-90): what is
\* written back is always a whole dictionary.
TypeOK ==
  /\ store \in Threads \cup {None}
  /\ lock \in [Threads -> Threads \cup {None}]
  /\ file \in [{"db", "tmp"} -> Inodes \cup {None}]
  /\ content \in [Inodes -> KV!Dicts \cup {Empty, Garbage}]
  /\ pc \in [Threads -> {"idle", "check", "construct", "assign", "return", "acquire",
                         "read", "open", "dump", "replace", "release"}]
  /\ obj \in [Threads -> Threads \cup {None}]
  /\ data \in [Threads -> KV!Dicts \cup {None}]
  /\ fd \in [Threads -> Inodes \cup {None}]
  /\ call = [t \in Threads |-> call[t]]
  /\ \A t \in Threads : call[t] # None =>
       /\ call[t] = [req |-> call[t].req, res |-> call[t].res]
       /\ call[t].req \in KV!Requests

\* Whatever was interrupted, refused or killed, the database file is a complete
\* JSON document from the moment it exists ("to prevent a crash mid-write from
\* corrupting the database", storage.py 12-13).
DbIntact == file["db"] # None => content[file["db"]] \in KV!Dicts

\* Reads and writes of callers are linearizable, and a failed or abandoned call
\* leaves no trace: the file store implements KVStore (storage.py 54-76).
Linearizable == KV!Spec

\* No lock is held for ever: every with block is left, also by the exceptions that
\* reading, writing and renaming may raise (storage.py 55-76).
LocksReleased == \A o \in Threads : lock[o] # None ~> lock[o] = None
=============================================================================
