-------------------------- MODULE RateLimitProofs ---------------------------
(***************************************************************************)
(* The limiter's promise for any number of threads, keys and tries, any    *)
(* window and any delay, when the first call of get_limiter is not         *)
(* overlapped by another login.                                            *)
(***************************************************************************)
EXTENDS RateLimit, FiniteSetTheorems, TLAPS

\* get_limiter hands one object to everybody.
OneLimiter ==
  /\ \A t, u \in Threads : pc[t] = "create" /\ pc[u] = "create" => t = u
  /\ \A t \in Threads :
       /\ pc[t] = "create" => limiter = None
       /\ pc[t] \in {"return", "clock", "lock", "admitted", "reset"} => limiter \in Threads
       /\ pc[t] \in {"clock", "lock", "admitted", "reset"} => obj[t] = limiter
       /\ pc[t] # "idle" => key[t] \in Keys
  /\ limiter = None => \A k \in Keys : admits[k] = {} /\ \A o \in Threads : history[o][k] = {}

\* A thread on its way to the lock has a stamp of the recent past.
StampsRecent ==
  \A t \in Threads : pc[t] = "lock" => stamp[t] <= now /\ now <= stamp[t] + MaxDelay

\* An admitted login was stamped at most MaxDelay before it was admitted.
AdmitsStamped ==
  \A k \in Keys : \A e \in admits[k] :
    e.stamp <= e.at /\ e.at <= e.stamp + MaxDelay /\ e.at <= now

\* The list holds only admitted logins, and every one it no longer holds was
\* admitted too long ago to count.
HistoryCovers ==
  limiter \in Threads =>
    \A k \in Keys :
      /\ history[limiter][k] \subseteq admits[k]
      /\ \A e \in admits[k] : e \notin history[limiter][k] => e.at <= now - (Window - MaxDelay)

\* The list never holds more than MaxTries entries.
HistoryBounded ==
  \A k \in Keys :
    /\ IsFiniteSet(admits[k])
    /\ limiter \in Threads => Cardinality(history[limiter][k]) <= MaxTries

IInv == TypeOK /\ OneLimiter /\ StampsRecent /\ AdmitsStamped /\ HistoryCovers /\ HistoryBounded

-----------------------------------------------------------------------------
\* Before the first login everything is empty.
LEMMA InitIInv == Init => IInv
<1> SUFFICES ASSUME Init PROVE IInv
  OBVIOUS
<1> USE LimiterAssumption DEF Init
<1>1. TypeOK
  BY DEF TypeOK
<1>2. OneLimiter /\ StampsRecent /\ AdmitsStamped /\ HistoryCovers
  BY DEF OneLimiter, StampsRecent, AdmitsStamped, HistoryCovers
<1>3. HistoryBounded
  BY FS_EmptySet DEF HistoryBounded
<1> QED BY <1>1, <1>2, <1>3 DEF IInv

\* Steps that touch neither the histories nor the clock: only OneLimiter and
\* StampsRecent are about what they change.
LEMMA LocalStep ==
  ASSUME IInv, TypeOK', OneLimiter', StampsRecent',
         UNCHANGED <<history, now, admits>>, limiter # None => limiter' = limiter,
         limiter = None => limiter' \in Threads \cup {None}
  PROVE  IInv'
<1>1. AdmitsStamped'
  BY DEF IInv, AdmitsStamped
<1>2. CASE limiter # None
  <2>1. HistoryCovers' /\ HistoryBounded'
    BY <1>2 DEF IInv, HistoryCovers, HistoryBounded
  <2> QED BY <1>1, <2>1 DEF IInv
<1>3. CASE limiter = None
  <2>1. \A k \in Keys : admits[k] = {} /\ \A o \in Threads : history[o][k] = {}
    BY <1>3 DEF IInv, OneLimiter
  <2>2. HistoryCovers'
    BY <2>1 DEF HistoryCovers
  <2>3. HistoryBounded'
    BY <2>1, FS_EmptySet, LimiterAssumption DEF HistoryBounded
  <2> QED BY <1>1, <2>2, <2>3 DEF IInv
<1> QED BY <1>2, <1>3

\* get_limiter and the clock read, when the first call is not overlapped.
LEMMA GetLimiterIInv ==
  ASSUME ColdStartRace = FALSE, IInv, NEW t \in Threads,
         \/ \E k \in Keys : CheckLimiter(t, k)
         \/ CreateLimiter(t) \/ ReturnLimiter(t) \/ ReadClock(t)
         \/ LoginFails(t) \/ LoginSucceeds(t)
  PROVE  IInv'
<1> USE LimiterAssumption DEF IInv
<1>1. CASE \E k \in Keys : CheckLimiter(t, k)
  <2> PICK k \in Keys : CheckLimiter(t, k)
    BY <1>1
  <2>1. TypeOK' /\ OneLimiter' /\ StampsRecent'
    BY DEF CheckLimiter, TypeOK, OneLimiter, StampsRecent
  <2> QED BY <2>1, LocalStep DEF CheckLimiter, TypeOK
<1>2. CASE CreateLimiter(t)
  <2>1. TypeOK' /\ OneLimiter' /\ StampsRecent'
    BY <1>2 DEF CreateLimiter, TypeOK, OneLimiter, StampsRecent
  <2>2. limiter = None
    BY <1>2 DEF CreateLimiter, OneLimiter
  <2> QED BY <1>2, <2>1, <2>2, LocalStep DEF CreateLimiter, TypeOK
<1>3. CASE ReturnLimiter(t)
  <2>1. TypeOK' /\ OneLimiter' /\ StampsRecent'
    BY <1>3 DEF ReturnLimiter, TypeOK, OneLimiter, StampsRecent
  <2> QED BY <1>3, <2>1, LocalStep DEF ReturnLimiter, TypeOK
<1>4. CASE ReadClock(t)
  <2>1. TypeOK' /\ OneLimiter' /\ StampsRecent'
    BY <1>4 DEF ReadClock, TypeOK, OneLimiter, StampsRecent
  <2> QED BY <1>4, <2>1, LocalStep DEF ReadClock, TypeOK
<1>5. CASE LoginFails(t)
  <2>1. TypeOK' /\ OneLimiter' /\ StampsRecent'
    BY <1>5 DEF LoginFails, EndConnection, TypeOK, OneLimiter, StampsRecent
  <2> QED BY <1>5, <2>1, LocalStep DEF LoginFails, TypeOK
<1>6. CASE LoginSucceeds(t)
  <2>1. TypeOK' /\ OneLimiter' /\ StampsRecent'
    BY <1>6 DEF LoginSucceeds, TypeOK, OneLimiter, StampsRecent
  <2> QED BY <1>6, <2>1, LocalStep DEF LoginSucceeds, TypeOK
<1> QED BY <1>1, <1>2, <1>3, <1>4, <1>5, <1>6

\* What allow() does to the list of its key before it decides.
LEMMA PurgeFacts ==
  ASSUME IInv, NEW t \in Threads, pc[t] = "lock",
         NEW h, h = Fresh(history[obj[t]][key[t]], stamp[t])
  PROVE  /\ obj[t] = limiter /\ limiter \in Threads /\ key[t] \in Keys
         /\ h \subseteq history[limiter][key[t]]
         /\ h \subseteq admits[key[t]]
         /\ h \in SUBSET Entries
         /\ IsFiniteSet(h)
         /\ Cardinality(h) \in Nat
         /\ Cardinality(h) <= MaxTries
         /\ \A e \in admits[key[t]] : e \notin h => e.at <= now - (Window - MaxDelay)
<1>1. obj[t] = limiter /\ limiter \in Threads /\ key[t] \in Keys
  BY DEF IInv, OneLimiter
<1> DEFINE k == key[t]
           H == history[limiter][k]
<1>2. h \subseteq H /\ h = {e \in H : e.stamp > stamp[t] - Window}
  BY <1>1 DEF Fresh
<1>3. H \subseteq admits[k] /\ IsFiniteSet(admits[k]) /\ Cardinality(H) <= MaxTries
  BY <1>1 DEF IInv, HistoryCovers, HistoryBounded
<1>4. IsFiniteSet(H) /\ IsFiniteSet(h)
  BY <1>2, <1>3, FS_Subset
<1>5. Cardinality(h) \in Nat /\ Cardinality(h) <= Cardinality(H) /\ Cardinality(H) \in Nat
  BY <1>2, <1>4, FS_Subset, FS_CardinalityType
<1>6. H \in SUBSET Entries /\ admits[k] \in SUBSET Entries
  BY <1>1 DEF IInv, TypeOK
<1>7. ASSUME NEW e \in admits[k], e \notin h
      PROVE  e.at <= now - (Window - MaxDelay)
  <2>1. CASE e \notin H
    BY <2>1, <1>1 DEF IInv, HistoryCovers
  <2>2. CASE e \in H
    <3>1. ~(e.stamp > stamp[t] - Window)
      BY <1>2, <1>7, <2>2
    <3>2. e.at <= e.stamp + MaxDelay
      BY <1>1 DEF IInv, AdmitsStamped
    <3>3. stamp[t] <= now
      BY DEF IInv, StampsRecent
    <3>4. e.at \in Nat /\ e.stamp \in Nat /\ stamp[t] \in Nat /\ now \in Nat
      BY <1>6 DEF IInv, TypeOK, Entries
    <3> QED BY <3>1, <3>2, <3>3, <3>4, LimiterAssumption
  <2> QED BY <2>1, <2>2
<1> HIDE DEF H
<1>8. Cardinality(h) <= MaxTries
  BY <1>3, <1>5, LimiterAssumption
<1>9. h \subseteq admits[k] /\ h \in SUBSET Entries
  BY <1>2, <1>3, <1>6
<1> QED BY <1>1, <1>2, <1>4, <1>5, <1>7, <1>8, <1>9 DEF H

\* Replacing the list of one key of the shared limiter by a smaller or larger
\* one keeps the invariant as long as the new list still covers the admissions.
LEMMA UpdateHistory ==
  ASSUME IInv, TypeOK', OneLimiter', StampsRecent', limiter \in Threads,
         NEW k \in Keys, NEW h, NEW a,
         limiter' = limiter, now' = now,
         history' = [history EXCEPT ![limiter][k] = h],
         admits' = [admits EXCEPT ![k] = a],
         \A e \in a : e.stamp <= e.at /\ e.at <= e.stamp + MaxDelay /\ e.at <= now,
         h \subseteq a,
         \A e \in a : e \notin h => e.at <= now - (Window - MaxDelay),
         IsFiniteSet(a), Cardinality(h) <= MaxTries
  PROVE  IInv'
<1>1. \A m \in Keys : /\ history'[limiter][m] = IF m = k THEN h ELSE history[limiter][m]
                      /\ admits'[m] = IF m = k THEN a ELSE admits[m]
  BY DEF IInv, TypeOK
<1>2. AdmitsStamped'
  BY <1>1 DEF IInv, AdmitsStamped
<1>3. HistoryCovers'
  BY <1>1 DEF IInv, HistoryCovers
<1>4. HistoryBounded'
  BY <1>1 DEF IInv, HistoryBounded
<1> QED BY <1>2, <1>3, <1>4 DEF IInv

\* allow() returns True.
LEMMA AdmitIInv ==
  ASSUME IInv, NEW t \in Threads, Admit(t)
  PROVE  IInv'
<1> DEFINE h == Fresh(history[obj[t]][key[t]], stamp[t])
           e == [id |-> count, stamp |-> stamp[t], at |-> now]
           k == key[t]
<1>1. /\ pc[t] = "lock" /\ ~Full(h)
      /\ history' = [history EXCEPT ![obj[t]][k] = h \cup {e}]
      /\ admits' = [admits EXCEPT ![k] = admits[k] \cup {e}]
      /\ count' = count + 1 /\ pc' = [pc EXCEPT ![t] = "admitted"]
      /\ UNCHANGED <<limiter, now, key, obj, stamp>>
  BY DEF Admit
<1>2. /\ obj[t] = limiter /\ limiter \in Threads /\ k \in Keys
      /\ h \subseteq admits[k] /\ h \in SUBSET Entries
      /\ IsFiniteSet(h) /\ Cardinality(h) \in Nat
      /\ \A f \in admits[k] : f \notin h => f.at <= now - (Window - MaxDelay)
  <2> HIDE DEF h
  <2>1. h = Fresh(history[obj[t]][key[t]], stamp[t])
    BY DEF h
  <2> QED BY <1>1, <2>1, PurgeFacts
<1>3. e \in Entries /\ e.stamp = stamp[t] /\ e.at = now
  BY DEF IInv, TypeOK, Entries
<1>4. e.stamp <= e.at /\ e.at <= e.stamp + MaxDelay /\ e.at <= now
  BY <1>1, <1>3 DEF IInv, StampsRecent, TypeOK
<1>5. Cardinality(h) < MaxTries
  BY <1>1, <1>2, LimiterAssumption DEF Full
<1> HIDE DEF h, e
<1>6. Cardinality(h \cup {e}) <= MaxTries
  <2>1. Cardinality(h \cup {e}) = IF e \in h THEN Cardinality(h) ELSE Cardinality(h) + 1
    BY <1>2, FS_AddElement
  <2> QED BY <1>2, <1>5, <2>1, LimiterAssumption
<1>7. IsFiniteSet(admits[k]) /\ IsFiniteSet(admits[k] \cup {e})
  BY <1>2, FS_AddElement DEF IInv, HistoryBounded
<1>8. TypeOK'
  <2>1. history' \in [Threads -> [Keys -> SUBSET Entries]]
    <3>1. h \cup {e} \in SUBSET Entries
      BY <1>2, <1>3
    <3> QED BY <1>1, <1>2, <3>1 DEF IInv, TypeOK
  <2>2. admits' \in [Keys -> SUBSET Entries]
    BY <1>1, <1>2, <1>3 DEF IInv, TypeOK
  <2> QED BY <1>1, <2>1, <2>2 DEF IInv, TypeOK, Entries
<1>9. OneLimiter' /\ StampsRecent'
  BY <1>1, <1>2, LimiterAssumption DEF IInv, TypeOK, OneLimiter, StampsRecent
<1>10. \A f \in admits[k] \cup {e} :
          f.stamp <= f.at /\ f.at <= f.stamp + MaxDelay /\ f.at <= now
  BY <1>2, <1>4 DEF IInv, AdmitsStamped
<1>11. \A f \in admits[k] \cup {e} : f \notin h \cup {e} => f.at <= now - (Window - MaxDelay)
  BY <1>2
<1>12. h \cup {e} \subseteq admits[k] \cup {e}
  BY <1>2
<1>13. /\ history' = [history EXCEPT ![limiter][k] = h \cup {e}]
       /\ limiter' = limiter /\ now' = now
  BY <1>1, <1>2
<1> HIDE DEF k
<1> QED BY <1>1, <1>2, <1>6, <1>7, <1>8, <1>9, <1>10, <1>11, <1>12, <1>13, UpdateHistory DEF k

\* allow() returns False.
LEMMA DenyIInv ==
  ASSUME IInv, NEW t \in Threads, Deny(t)
  PROVE  IInv'
<1> DEFINE h == Fresh(history[obj[t]][key[t]], stamp[t])
           k == key[t]
<1>1. /\ pc[t] = "lock"
      /\ history' = [history EXCEPT ![obj[t]][k] = h]
      /\ EndConnection(t)
      /\ UNCHANGED <<limiter, now, admits, count>>
  BY DEF Deny
<1>2. /\ obj[t] = limiter /\ limiter \in Threads /\ k \in Keys
      /\ h \subseteq admits[k] /\ h \in SUBSET Entries
      /\ Cardinality(h) <= MaxTries
      /\ \A f \in admits[k] : f \notin h => f.at <= now - (Window - MaxDelay)
  <2> HIDE DEF h
  <2>1. h = Fresh(history[obj[t]][key[t]], stamp[t])
    BY DEF h
  <2> QED BY <1>1, <2>1, PurgeFacts
<1> HIDE DEF h
<1>3. TypeOK'
  <2>1. history' \in [Threads -> [Keys -> SUBSET Entries]]
    BY <1>1, <1>2 DEF IInv, TypeOK
  <2> QED BY <1>1, <2>1 DEF IInv, TypeOK, EndConnection, Entries
<1>4. OneLimiter' /\ StampsRecent'
  BY <1>1, <1>2, LimiterAssumption DEF IInv, TypeOK, OneLimiter, StampsRecent, EndConnection
<1>5. admits' = [admits EXCEPT ![k] = admits[k]]
  BY <1>1, <1>2 DEF IInv, TypeOK
<1>6. /\ \A f \in admits[k] : f.stamp <= f.at /\ f.at <= f.stamp + MaxDelay /\ f.at <= now
      /\ IsFiniteSet(admits[k])
  BY <1>2 DEF IInv, AdmitsStamped, HistoryBounded
<1>7. history' = [history EXCEPT ![limiter][k] = h] /\ limiter' = limiter /\ now' = now
  BY <1>1, <1>2
<1> HIDE DEF k
<1> QED BY <1>2, <1>3, <1>4, <1>5, <1>6, <1>7, UpdateHistory DEF k

\* reset() forgets list and admissions of the key together.
LEMMA ResetIInv ==
  ASSUME IInv, NEW t \in Threads, Reset(t)
  PROVE  IInv'
<1> DEFINE k == key[t]
<1>1. /\ obj[t] = limiter /\ limiter \in Threads /\ k \in Keys
  BY DEF Reset, IInv, OneLimiter
<1>2. /\ history' = [history EXCEPT ![limiter][k] = {}]
      /\ admits' = [admits EXCEPT ![k] = {}]
      /\ limiter' = limiter /\ now' = now /\ count' = count
      /\ EndConnection(t)
  BY <1>1 DEF Reset
<1>3. TypeOK'
  BY <1>1, <1>2 DEF IInv, TypeOK, EndConnection, Entries
<1>4. OneLimiter' /\ StampsRecent'
  BY <1>1, <1>2, LimiterAssumption DEF IInv, TypeOK, OneLimiter, StampsRecent, EndConnection
<1>5. IsFiniteSet({}) /\ Cardinality({}) <= MaxTries
  BY FS_EmptySet, LimiterAssumption
<1> HIDE DEF k
<1> QED BY <1>1, <1>2, <1>3, <1>4, <1>5, UpdateHistory DEF k

\* Time only makes old admissions older.
LEMMA TickIInv ==
  ASSUME IInv, Tick
  PROVE  IInv'
<1>1. /\ now' = now + 1 /\ now \in Nat
      /\ \A t \in Threads : pc[t] = "lock" => now + 1 - stamp[t] <= MaxDelay
      /\ UNCHANGED <<limiter, history, pc, key, obj, stamp, admits, count>>
  BY DEF Tick, IInv, TypeOK
<1>2. TypeOK'
  BY <1>1 DEF IInv, TypeOK, Entries
<1>3. OneLimiter'
  BY <1>1 DEF IInv, OneLimiter
<1>4. StampsRecent'
  BY <1>1, LimiterAssumption DEF IInv, StampsRecent, TypeOK
<1>5. \A k \in Keys : \A e \in admits[k] : e.at \in Nat
  BY DEF IInv, TypeOK, Entries
<1>6. AdmitsStamped'
  BY <1>1, <1>5 DEF IInv, AdmitsStamped
<1>7. HistoryCovers'
  BY <1>1, <1>5, LimiterAssumption DEF IInv, HistoryCovers
<1>8. HistoryBounded'
  BY <1>1 DEF IInv, HistoryBounded
<1> QED BY <1>2, <1>3, <1>4, <1>6, <1>7, <1>8 DEF IInv

\* Every step keeps the invariant.
LEMMA NextIInv ==
  ASSUME ColdStartRace = FALSE
  PROVE  IInv /\ [Next]_vars => IInv'
<1> SUFFICES ASSUME IInv, [Next]_vars PROVE IInv'
  OBVIOUS
<1>1. CASE UNCHANGED vars
  BY <1>1 DEF vars, IInv, TypeOK, OneLimiter, StampsRecent, AdmitsStamped, HistoryCovers,
     HistoryBounded, Entries
<1>2. CASE Tick
  BY <1>2, TickIInv
<1>3. CASE \E t \in Threads :
              \/ \E k \in Keys : CheckLimiter(t, k)
              \/ CreateLimiter(t) \/ ReturnLimiter(t)
              \/ ReadClock(t) \/ Admit(t) \/ Deny(t)
              \/ LoginFails(t) \/ LoginSucceeds(t) \/ Reset(t)
  BY <1>3, GetLimiterIInv, AdmitIInv, DenyIInv, ResetIInv
<1> QED BY <1>1, <1>2, <1>3 DEF Next

\* The invariant holds throughout.
THEOREM Invariance ==
  ASSUME ColdStartRace = FALSE
  PROVE  Spec => []IInv
<1>1. IInv /\ [Next]_vars => IInv'
  BY NextIInv
<1> QED BY <1>1, InitIInv, PTL DEF Spec

-----------------------------------------------------------------------------
\* The limiter's variables keep their types.
THEOREM TypeCorrect ==
  ASSUME ColdStartRace = FALSE
  PROVE  Spec => []TypeOK
<1>1. IInv => TypeOK
  BY DEF IInv
<1> QED BY <1>1, Invariance, PTL

\* Between resets, no span of Window - MaxDelay holds more than MaxTries admitted
\* logins of one key (ratelimit.py 66-76).
THEOREM WindowRespected ==
  ASSUME ColdStartRace = FALSE
  PROVE  Spec => []SlidingWindow
<1>1. IInv => SlidingWindow
  <2> SUFFICES ASSUME IInv, NEW k \in Keys
      PROVE  Cardinality(AdmittedWithin(k, Window - MaxDelay)) <= MaxTries
    BY DEF SlidingWindow
  <2> DEFINE A == AdmittedWithin(k, Window - MaxDelay)
  <2>1. CASE limiter = None
    <3>1. A = {}
      BY <2>1 DEF IInv, OneLimiter, AdmittedWithin
    <3> QED BY <3>1, FS_EmptySet, LimiterAssumption
  <2>2. CASE limiter \in Threads
    <3> DEFINE H == history[limiter][k]
    <3>1. A \subseteq H
      <4> SUFFICES ASSUME NEW e \in A PROVE e \in H
        OBVIOUS
      <4>1. e \in admits[k] /\ e.at > now - (Window - MaxDelay)
        BY DEF AdmittedWithin
      <4>2. e.at \in Nat /\ now \in Nat
        BY <4>1 DEF IInv, TypeOK, Entries
      <4> QED BY <2>2, <4>1, <4>2, LimiterAssumption DEF IInv, HistoryCovers
    <3>2. H \subseteq admits[k] /\ IsFiniteSet(admits[k]) /\ Cardinality(H) <= MaxTries
      BY <2>2 DEF IInv, HistoryCovers, HistoryBounded
    <3> HIDE DEF A, H
    <3>3. IsFiniteSet(H)
      BY <3>2, FS_Subset
    <3>4. Cardinality(A) <= Cardinality(H) /\ IsFiniteSet(A)
      BY <3>1, <3>3, FS_Subset
    <3>5. Cardinality(A) \in Nat /\ Cardinality(H) \in Nat
      BY <3>3, <3>4, FS_CardinalityType
    <3>6. Cardinality(A) <= MaxTries
      BY <3>2, <3>4, <3>5, LimiterAssumption
    <3> QED BY <3>6 DEF A
  <2> QED BY <2>1, <2>2 DEF IInv, TypeOK
<1> QED BY <1>1, Invariance, PTL

\* A login is denied only for MaxTries admissions within a window (ratelimit.py 70-73).
THEOREM DenialsJustified ==
  ASSUME ColdStartRace = FALSE
  PROVE  Spec => DenialJustified
<1> DEFINE Justified == \A t \in Threads : Deny(t) =>
             Cardinality(AdmittedWithin(key[t], Window + MaxDelay)) >= MaxTries
<1>1. IInv => Justified
  <2> SUFFICES ASSUME IInv, NEW t \in Threads, Deny(t)
      PROVE  Cardinality(AdmittedWithin(key[t], Window + MaxDelay)) >= MaxTries
    OBVIOUS
  <2> DEFINE A == AdmittedWithin(key[t], Window + MaxDelay)
             h == Fresh(history[obj[t]][key[t]], stamp[t])
  <2>1. pc[t] = "lock" /\ Cardinality(h) >= MaxTries
    BY DEF Deny, Full
  <2>2. key[t] \in Keys /\ h \subseteq admits[key[t]] /\ Cardinality(h) \in Nat
    <3> HIDE DEF h
    <3>1. h = Fresh(history[obj[t]][key[t]], stamp[t])
      BY DEF h
    <3> QED BY <2>1, <3>1, PurgeFacts
  <2>3. h \subseteq A
    <3> SUFFICES ASSUME NEW e \in h PROVE e \in A
      OBVIOUS
    <3>1. e \in admits[key[t]] /\ e.stamp > stamp[t] - Window
      BY <2>2 DEF Fresh
    <3>2. e.stamp <= e.at /\ e.at \in Nat /\ e.stamp \in Nat
      BY <2>2, <3>1 DEF IInv, AdmitsStamped, TypeOK, Entries
    <3>3. now <= stamp[t] + MaxDelay /\ now \in Nat /\ stamp[t] \in Nat
      BY <2>1 DEF IInv, StampsRecent, TypeOK
    <3>4. e.at > now - (Window + MaxDelay)
      BY <3>1, <3>2, <3>3, LimiterAssumption
    <3> QED BY <3>1, <3>4 DEF AdmittedWithin
  <2>4. IsFiniteSet(A)
    <3>1. A \subseteq admits[key[t]] /\ IsFiniteSet(admits[key[t]])
      BY <2>2 DEF AdmittedWithin, IInv, HistoryBounded
    <3> QED BY <3>1, FS_Subset
  <2> HIDE DEF A, h
  <2>5. Cardinality(h) <= Cardinality(A) /\ Cardinality(A) \in Nat
    BY <2>3, <2>4, FS_Subset, FS_CardinalityType
  <2>6. Cardinality(A) >= MaxTries
    BY <2>1, <2>2, <2>5, LimiterAssumption
  <2> QED BY <2>6 DEF A
<1>2. IInv => [Justified]_vars
  BY <1>1
<1>3. []IInv => [][Justified]_vars
  BY <1>2, PTL
<1> QED BY <1>3, Invariance, PTL DEF DenialJustified
=============================================================================
