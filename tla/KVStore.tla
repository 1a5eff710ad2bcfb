------------------------------- MODULE KVStore ------------------------------
(***************************************************************************)
(* What storage.py promises its callers: a dictionary on which every call  *)
(* of get, set, delete, exists and all takes effect at one instant between *)
(* its invocation and its return, or fails without any effect; a crash of  *)
(* the process abandons the calls under way and keeps the dictionary.      *)
(***************************************************************************)
EXTENDS Naturals

CONSTANTS
  Threads,  \* callers
  Keys,     \* hex(credential_id)
  Values,   \* password records
  Ops,      \* the methods that callers use
  None      \* Python's None: no value, no call, no result yet

VARIABLES
  dict,  \* the dictionary; None for an absent key
  call   \* per thread: the call under way and its result

Dicts == [Keys -> Values \cup {None}]
EmptyDict == [k \in Keys |-> None]

Requests ==
  [op : Ops \cap {"get", "exists", "delete"}, key : Keys, val : {None}]
    \cup [op : Ops \cap {"set"}, key : Keys, val : Values]
    \cup [op : Ops \cap {"all"}, key : {None}, val : {None}]

\* The dictionary after a request.
Effect(r, d) ==
  IF r.op \in {"set", "delete"} THEN [d EXCEPT ![r.key] = r.val] ELSE d

\* What the caller gets back.
Answer(r, d) ==
  CASE r.op = "get"    -> [ok |-> TRUE, val |-> d[r.key]]
    [] r.op = "exists" -> [ok |-> TRUE, val |-> d[r.key] # None]
    [] r.op = "all"    -> [ok |-> TRUE, val |-> d]
    [] OTHER           -> [ok |-> TRUE, val |-> None]

Failure == [ok |-> FALSE, val |-> None]

Init == dict \in Dicts /\ call = [t \in Threads |-> None]

Invoke(t, r) ==
  /\ call[t] = None
  /\ call' = [call EXCEPT ![t] = [req |-> r, res |-> None]]
  /\ UNCHANGED dict

\* The instant at which the call takes effect.
Apply(t) ==
  /\ call[t] # None /\ call[t].res = None
  /\ dict' = Effect(call[t].req, dict)
  /\ call' = [call EXCEPT ![t].res = Answer(call[t].req, dict)]

Fail(t) ==
  /\ call[t] # None /\ call[t].res = None
  /\ call' = [call EXCEPT ![t].res = Failure]
  /\ UNCHANGED dict

Return(t) ==
  /\ call[t] # None /\ call[t].res # None
  /\ call' = [call EXCEPT ![t] = None]
  /\ UNCHANGED dict

Crash == call' = [t \in Threads |-> None] /\ UNCHANGED dict

Next ==
  \/ \E t \in Threads :
       \/ \E r \in Requests : Invoke(t, r)
       \/ Apply(t) \/ Fail(t) \/ Return(t)
  \/ Crash

Spec == Init /\ [][Next]_<<dict, call>>
=============================================================================
