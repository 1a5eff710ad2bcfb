------------------------------ MODULE RateLimit -----------------------------
(***************************************************************************)
(* The sliding-window limiter of ratelimit.py as the server's connection   *)
(* threads use it (server.py 147 and 182).  A thread fetches the module's  *)
(* singleton, reads the monotonic clock, takes the limiter's lock, purges  *)
(* and decides; an admitted login either fails or, when it authenticates,  *)
(* clears the history of its key.  The clock is read before the lock is    *)
(* taken, so the stamp may be old by the time it is used: MaxDelay bounds  *)
(* how long a thread may be kept between the two.                          *)
(***************************************************************************)
EXTENDS Integers, FiniteSets

CONSTANTS
  Threads,        \* connection threads of the server
  Keys,           \* (ip, credential_id) pairs
  None,           \* "no object"
  Window,         \* RATE_LIMIT_WINDOW_S, in ticks of the clock
  MaxTries,       \* RATE_LIMIT_MAX_TRIES
  MaxDelay,       \* longest time between reading the clock and holding the lock
  ColdStartRace,  \* TRUE: logins may overlap the very first call of get_limiter
  MaxTime,        \* bound: the clock stops here
  MaxAdmits       \* bound: no new login once this many were admitted

ASSUME LimiterAssumption ==
  /\ None \notin Threads \cup Keys
  /\ Window \in Nat /\ MaxTries \in Nat \ {0} /\ MaxDelay \in Nat
  /\ ColdStartRace \in BOOLEAN
  /\ MaxTime \in Nat /\ MaxAdmits \in Nat

VARIABLES
  limiter,   \* the global _limiter; an object is named after its creator
  history,   \* _history of each object, per key: entries of the list
  now,       \* time.monotonic()
  pc,        \* what each thread does next
  key,       \* the key of the login a thread handles
  obj,       \* the limiter object a thread got from get_limiter()
  stamp,     \* the clock value a thread read
  admits,    \* observer: per key, the logins admitted since the last reset
  count      \* observer: admissions so far, the position in the lists

vars == <<limiter, history, now, pc, key, obj, stamp, admits, count>>

(* An entry of a history list: `stamp` is the float in the list, `id` the   *)
(* position it was appended at; `at` observes when the lock was held.       *)
Entries == [id : Nat, stamp : Nat, at : Nat]

Init ==
  /\ limiter = None
  /\ history = [o \in Threads |-> [k \in Keys |-> {}]]
  /\ now = 0
  /\ pc = [t \in Threads |-> "idle"]
  /\ key = [t \in Threads |-> None]
  /\ obj = [t \in Threads |-> None]
  /\ stamp = [t \in Threads |-> 0]
  /\ admits = [k \in Keys |-> {}]
  /\ count = 0

\* The thread ends its connection and with it its locals.
EndConnection(t) ==
  /\ pc' = [pc EXCEPT ![t] = "idle"]
  /\ key' = [key EXCEPT ![t] = None]
  /\ obj' = [obj EXCEPT ![t] = None]
  /\ stamp' = [stamp EXCEPT ![t] = 0]

-----------------------------------------------------------------------------
(* get_limiter(): test the global, create and assign, return the global.    *)

\* "if _limiter is None": without a cold-start race no thread is past this
\* test with a limiter of its own to create.
CheckLimiter(t, k) ==
  /\ pc[t] = "idle"
  /\ count < MaxAdmits
  /\ ~ColdStartRace => \A u \in Threads : pc[u] # "create"
  /\ key' = [key EXCEPT ![t] = k]
  /\ pc' = [pc EXCEPT ![t] = IF limiter = None THEN "create" ELSE "return"]
  /\ UNCHANGED <<limiter, history, now, obj, stamp, admits, count>>

CreateLimiter(t) ==
  /\ pc[t] = "create"
  /\ limiter' = t
  /\ pc' = [pc EXCEPT ![t] = "return"]
  /\ UNCHANGED <<history, now, key, obj, stamp, admits, count>>

ReturnLimiter(t) ==
  /\ pc[t] = "return"
  /\ obj' = [obj EXCEPT ![t] = limiter]
  /\ pc' = [pc EXCEPT ![t] = "clock"]
  /\ UNCHANGED <<limiter, history, now, key, stamp, admits, count>>

-----------------------------------------------------------------------------
(* allow() *)

\* now = time.monotonic()
ReadClockCutoff(t) ==
  /\ pc[t] = "clock"
  /\ stamp' = [stamp EXCEPT ![t] = now - Window]
  /\ pc' = [pc EXCEPT ![t] = "lock"]
  /\ UNCHANGED <<limiter, history, now, key, obj, admits, count>>
ReadClock(t) ==
  /\ pc[t] = "clock"
  /\ stamp' = [stamp EXCEPT ![t] = now]
  /\ pc' = [pc EXCEPT ![t] = "lock"]
  /\ UNCHANGED <<limiter, history, now, key, obj, admits, count>>

\* [t for t in timestamps if t > cutoff]
FreshHalfWindow(h, ts) == {e \in h : e.stamp > ts - (Window \div 2)}
FreshNoPurge(h, ts) == h
Fresh(h, ts) == {e \in h : e.stamp > ts - Window}

\* len(timestamps) >= self._max
FullOffByOne(h) == Cardinality(h) > MaxTries
Full(h) == Cardinality(h) >= MaxTries

\* The critical section when there is room: purge, append, return True.
Admit(t) ==
  LET h == Fresh(history[obj[t]][key[t]], stamp[t])
      e == [id |-> count, stamp |-> stamp[t], at |-> now]
  IN /\ pc[t] = "lock"
     /\ ~Full(h)
     /\ history' = [history EXCEPT ![obj[t]][key[t]] = h \cup {e}]
     /\ admits' = [admits EXCEPT ![key[t]] = @ \cup {e}]
     /\ count' = count + 1
     /\ pc' = [pc EXCEPT ![t] = "admitted"]
     /\ UNCHANGED <<limiter, now, key, obj, stamp>>

\* The critical section when there is none: purge, return False; the server
\* sends an alert and ends the connection.
Deny(t) ==
  LET h == Fresh(history[obj[t]][key[t]], stamp[t])
  IN /\ pc[t] = "lock"
     /\ Full(h)
     /\ history' = [history EXCEPT ![obj[t]][key[t]] = h]
     /\ EndConnection(t)
     /\ UNCHANGED <<limiter, now, admits, count>>

-----------------------------------------------------------------------------
(* After the handshake. *)

\* The handshake fails or the connection breaks: the attempt stays recorded.
LoginFails(t) ==
  /\ pc[t] = "admitted"
  /\ EndConnection(t)
  /\ UNCHANGED <<limiter, history, now, admits, count>>

\* login_finish succeeded: get_limiter() once more, now surely not None.
LoginSucceeds(t) ==
  /\ pc[t] = "admitted"
  /\ obj' = [obj EXCEPT ![t] = limiter]
  /\ pc' = [pc EXCEPT ![t] = "reset"]
  /\ UNCHANGED <<limiter, history, now, key, stamp, admits, count>>

\* reset(): pop the key under the lock.
Reset(t) ==
  /\ pc[t] = "reset"
  /\ history' = [history EXCEPT ![obj[t]][key[t]] = {}]
  /\ admits' = [admits EXCEPT ![key[t]] = {}]
  /\ EndConnection(t)
  /\ UNCHANGED <<limiter, now, count>>

\* Time passes, but no thread is kept longer than MaxDelay before the lock.
Tick ==
  /\ now < MaxTime
  /\ \A t \in Threads : pc[t] = "lock" => now + 1 - stamp[t] <= MaxDelay
  /\ now' = now + 1
  /\ UNCHANGED <<limiter, history, pc, key, obj, stamp, admits, count>>

Next ==
  \/ Tick
  \/ \E t \in Threads :
       \/ \E k \in Keys : CheckLimiter(t, k)
       \/ CreateLimiter(t) \/ ReturnLimiter(t)
       \/ ReadClock(t) \/ Admit(t) \/ Deny(t)
       \/ LoginFails(t) \/ LoginSucceeds(t) \/ Reset(t)

Spec == Init /\ [][Next]_vars

-----------------------------------------------------------------------------
\* Types of the limiter objects and of the locals of the threads that call them
\* (ratelimit.py 44-93); clock readings are never negative.
TypeOK ==
  /\ limiter \in Threads \cup {None}
  /\ history \in [Threads -> [Keys -> SUBSET Entries]]
  /\ now \in Nat
  /\ pc \in [Threads -> {"idle", "create", "return", "clock", "lock", "admitted", "reset"}]
  /\ key \in [Threads -> Keys \cup {None}]
  /\ obj \in [Threads -> Threads \cup {None}]
  /\ stamp \in [Threads -> Nat]
  /\ admits \in [Keys -> SUBSET Entries]
  /\ count \in Nat

\* Logins of a key admitted within the last d ticks and not cleared since.
AdmittedWithin(k, d) == {a \in admits[k] : a.at > now - d}

\* The limiter's promise: between resets, no span of Window ticks, less the time
\* a thread may sit between its clock read and the lock, holds more than MaxTries
\* admitted logins of one (ip, credential) pair (ratelimit.py 10-11, 66-76).
SlidingWindow ==
  \A k \in Keys : Cardinality(AdmittedWithin(k, Window - MaxDelay)) <= MaxTries

\* No login is turned away without cause: a thread that denies one does so when
\* MaxTries logins of that key were admitted, and not cleared by a reset, within
\* a window before it (ratelimit.py 70-73).
DenialJustified ==
  [][\A t \in Threads : Deny(t) =>
       Cardinality(AdmittedWithin(key[t], Window + MaxDelay)) >= MaxTries]_vars
=============================================================================
