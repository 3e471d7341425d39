------------------------- MODULE RateLimiterProofs -------------------------
(***************************************************************************)
(* What holds of the rate limiter for any number of calls, sessions, tools *)
(* and counters, any limits and any window.  IInv says who refers to what; *)
(* it adds to the invariants that the runs check only SweepIsLocal, that   *)
(* there is work left to sweep only while the sweep runs.  On it build     *)
(* Allowance, which relates the counted calls of a key to the window of    *)
(* its counter, CountsAreBacked, which relates the calls let through to    *)
(* every counter that serves the key, dropped ones included, and           *)
(* StraysAreRare, which bounds what the dropped ones let through.          *)
(* AllInLanes then counts everything together.                             *)
(***************************************************************************)
EXTENDS RateLimiter, SequenceTheorems, FiniteSetTheorems, TLAPS

USE DEF history

SweepIsLocal == ~sweeping => todo = {}

IInv ==
  /\ TypeOK
  /\ LockOwnership
  /\ CountersAreUnshared
  /\ SweepIsLocal

-----------------------------------------------------------------------------
(* The initial states satisfy the inductive invariant.                     *)
LEMMA InitInv == Init => IInv
<1> SUFFICES ASSUME Init PROVE IInv
  OBVIOUS
<1>1. TypeOK
  <2>1. /\ now \in 0..MaxTime
        /\ ticker \in {"armed", "fired", "stopped"}
        /\ sweepAt \in 0..now
    BY SizesAssumption DEF Init
  <2>2. /\ sweeping \in BOOLEAN
        /\ todo \in SUBSET Keys
    BY Zenon DEF Init
  <2>3. /\ requestCounts \in [Keys -> Counters \cup {Nil}]
        /\ count \in [Counters -> Nat]
        /\ windowStart \in [Counters -> 0..now]
        /\ mu \in [Counters -> Calls \cup {Nil}]
    BY DEF Init
  <2>4. /\ pc \in [Calls -> {"idle", "getCounter", "lock", "getLimit", "next"}]
        /\ key \in [Calls -> Keys \cup {Nil}]
        /\ ctr \in [Calls -> Counters \cup {Nil}]
        /\ at \in [Calls -> 0..now]
    BY DEF Init
  <2>5. /\ admissions \in [Keys -> Seq(Nat)]
        /\ counted \in [Keys -> Seq(Nat)]
        /\ strays \in [Keys -> [Calls -> Seq(Nat)]]
    BY DEF Init
  <2>6. \A c \in Calls : /\ key[c] = Nil <=> pc[c] = "idle"
                         /\ ctr[c] = Nil <=> pc[c] \in {"idle", "getCounter"}
    BY DEF Init
  <2> QED
    BY <2>1, <2>2, <2>3, <2>4, <2>5, <2>6 DEF TypeOK
<1>2. LockOwnership
  BY NilAssumption DEF Init, LockOwnership
<1>3. CountersAreUnshared
  BY DEF Init, CountersAreUnshared
<1>4. SweepIsLocal
  BY DEF Init, SweepIsLocal
<1> QED
  BY <1>1, <1>2, <1>3, <1>4 DEF IInv

(* The free counters are those nobody refers to.                           *)
LEMMA FreeIsUnreferenced ==
  ASSUME NEW n \in FreeCounters
  PROVE  /\ n \in Counters
         /\ \A k \in Keys : requestCounts[k] # n
         /\ \A c \in Calls : ctr[c] # n
  BY DEF FreeCounters

(* A call that arrives gets a key the maps know.                           *)
LEMMA KeysOfCalls ==
  ASSUME NEW s \in Sessions \cup {Nil}, NEW t \in Tools
  PROVE  /\ <<getSessionID(s, t), t>> \in Keys
         /\ <<getSessionID(s, t), t>> # Nil
  BY NilAssumption DEF Keys, getSessionID

-----------------------------------------------------------------------------
(* One lemma per action: it keeps the inductive invariant.                 *)

LEMMA ArriveInv ==
  ASSUME IInv, NEW c \in Calls, Arrive(c)
  PROVE  IInv'
<1> USE DEF IInv
<1>1. PICK k \in Keys \ {Nil} : key' = [key EXCEPT ![c] = k]
  BY KeysOfCalls DEF Arrive
<1>2. TypeOK'
  BY <1>1 DEF TypeOK, Arrive, sweepVars, limiterVars
<1>3. LockOwnership'
  BY DEF TypeOK, LockOwnership, Arrive, limiterVars
<1>4. CountersAreUnshared'
  BY <1>1 DEF TypeOK, CountersAreUnshared, Arrive, limiterVars, sweepVars
<1>5. SweepIsLocal'
  BY DEF SweepIsLocal, Arrive, sweepVars
<1> QED
  BY <1>2, <1>3, <1>4, <1>5

LEMMA getCounterInv ==
  ASSUME IInv, NEW c \in Calls, getCounter(c)
  PROVE  IInv'
<1> USE DEF IInv
<1>0. /\ key[c] \in Keys
      /\ ctr[c] = Nil
  BY DEF TypeOK, getCounter
<1>1. PICK n \in Counters :
        /\ ctr' = [ctr EXCEPT ![c] = n]
        /\ requestCounts' = [requestCounts EXCEPT ![key[c]] = n]
        /\ \/ /\ requestCounts[key[c]] = n
              /\ UNCHANGED <<count, windowStart>>
           \/ /\ requestCounts[key[c]] = Nil
              /\ n \in FreeCounters
              /\ count' = [count EXCEPT ![n] = 0]
              /\ windowStart' = [windowStart EXCEPT ![n] = now]
  <2>1. CASE requestCounts[key[c]] # Nil
    BY <2>1, <1>0 DEF getCounter, TypeOK
  <2>2. CASE requestCounts[key[c]] = Nil
    BY <2>2, FreeIsUnreferenced DEF getCounter
  <2> QED
    BY <2>1, <2>2
<1>2. TypeOK'
  <2>1. /\ count' \in [Counters -> Nat]
        /\ windowStart' \in [Counters -> 0..now]
    <3>1. now \in 0..now
      BY SizesAssumption DEF TypeOK
    <3>2. count \in [Counters -> Nat] /\ windowStart \in [Counters -> 0..now]
      BY DEF TypeOK
    <3> QED
      BY <1>1, <3>1, <3>2
  <2>2. /\ requestCounts' \in [Keys -> Counters \cup {Nil}]
        /\ ctr' \in [Calls -> Counters \cup {Nil}]
        /\ pc' \in [Calls -> {"idle", "getCounter", "lock", "getLimit", "next"}]
    BY <1>0, <1>1 DEF TypeOK, getCounter
  <2>3. \A d \in Calls : /\ key'[d] = Nil <=> pc'[d] = "idle"
                         /\ ctr'[d] = Nil <=> pc'[d] \in {"idle", "getCounter"}
    BY <1>0, <1>1, NilAssumption DEF TypeOK, getCounter
  <2> QED
    BY ZenonT(60), <2>1, <2>2, <2>3 DEF TypeOK, getCounter, sweepVars
<1>3. LockOwnership'
  BY <1>0, <1>1, NilAssumption DEF TypeOK, LockOwnership, getCounter
<1>4. CountersAreUnshared'
  <2>1. \A k \in Keys : k # key[c] => requestCounts[k] # n
    BY <1>0, <1>1, FreeIsUnreferenced, NilAssumption DEF CountersAreUnshared
  <2>2. \A d \in Calls : ctr[d] = n => key[d] = key[c]
    BY <1>0, <1>1, FreeIsUnreferenced, NilAssumption DEF CountersAreUnshared
  <2>3. key' = key /\ todo' = todo
    BY DEF getCounter, sweepVars
  <2> QED
    BY ZenonT(60), <1>0, <1>1, <2>1, <2>2, <2>3, NilAssumption DEF TypeOK, CountersAreUnshared
<1>5. SweepIsLocal'
  BY DEF SweepIsLocal, getCounter, sweepVars
<1> QED
  BY <1>2, <1>3, <1>4, <1>5

LEMMA LockInv ==
  ASSUME IInv, NEW c \in Calls, Lock(c)
  PROVE  IInv'
<1> USE DEF IInv
<1>0. ctr[c] \in Counters
  BY DEF TypeOK, Lock
<1>1. /\ count' \in [Counters -> Nat]
      /\ windowStart' \in [Counters -> 0..now]
  <2>1. now \in 0..now
    BY SizesAssumption DEF TypeOK
  <2>2. CASE now - windowStart[ctr[c]] >= windowSize
    <3>1. /\ count' = [count EXCEPT ![ctr[c]] = 0]
          /\ windowStart' = [windowStart EXCEPT ![ctr[c]] = now]
      BY <2>2 DEF Lock, ResetWindow
    <3> QED
      BY <1>0, <2>1, <3>1 DEF TypeOK
  <2>3. CASE ~(now - windowStart[ctr[c]] >= windowSize)
    BY <2>3 DEF Lock, ResetWindow, TypeOK
  <2> QED
    BY <2>2, <2>3
<1>2. TypeOK'
  <2>1. now \in 0..now
    BY SizesAssumption DEF TypeOK
  <2>2. at' \in [Calls -> 0..now]
    BY <2>1, Zenon DEF TypeOK, Lock
  <2>3. /\ mu' \in [Counters -> Calls \cup {Nil}]
        /\ pc' \in [Calls -> {"idle", "getCounter", "lock", "getLimit", "next"}]
    BY <1>0 DEF TypeOK, Lock
  <2>4. \A d \in Calls : /\ key'[d] = Nil <=> pc'[d] = "idle"
                         /\ ctr'[d] = Nil <=> pc'[d] \in {"idle", "getCounter"}
    BY DEF TypeOK, Lock
  <2> QED
    BY <1>1, <2>2, <2>3, <2>4 DEF TypeOK, Lock, sweepVars
<1>3. LockOwnership'
  BY <1>0, NilAssumption DEF TypeOK, LockOwnership, Lock
<1>4. CountersAreUnshared'
  BY DEF CountersAreUnshared, Lock, sweepVars
<1>5. SweepIsLocal'
  BY DEF SweepIsLocal, Lock, sweepVars
<1> QED
  BY <1>2, <1>3, <1>4, <1>5

(* Reject and Finish leave by the same door.                               *)
LEMMA ReturnInv ==
  ASSUME IInv, NEW c \in Calls, pc[c] \in {"getLimit", "next"}, Return(c),
         UNCHANGED <<now, sweepVars, requestCounts, count, windowStart, history>>
  PROVE  IInv'
<1> USE DEF IInv
<1>0. ctr[c] \in Counters /\ mu[ctr[c]] = c
  <2>1. ctr[c] \in Counters \cup {Nil} /\ ctr[c] # Nil
    BY DEF TypeOK
  <2> QED
    BY <2>1 DEF LockOwnership
<1>1. TypeOK'
  BY <1>0 DEF TypeOK, Return, sweepVars
<1>2. LockOwnership'
  BY <1>0, NilAssumption DEF TypeOK, LockOwnership, Return
<1>3. CountersAreUnshared'
  BY <1>0, NilAssumption DEF TypeOK, CountersAreUnshared, Return, sweepVars
<1>4. SweepIsLocal'
  BY DEF SweepIsLocal, sweepVars
<1> QED
  BY <1>1, <1>2, <1>3, <1>4

LEMMA AdmitInv ==
  ASSUME IInv, NEW c \in Calls, Admit(c)
  PROVE  IInv'
<1> USE DEF IInv
<1>0. ctr[c] \in Counters /\ key[c] \in Keys
  BY DEF TypeOK, Admit
<1>1. count' \in [Counters -> Nat]
  BY <1>0 DEF TypeOK, Admit
<1>2. /\ admissions' \in [Keys -> Seq(Nat)]
      /\ counted' \in [Keys -> Seq(Nat)]
      /\ strays' \in [Keys -> [Calls -> Seq(Nat)]]
  <2>1. now \in Nat
    BY SizesAssumption DEF TypeOK
  <2>2. \A k \in Keys : /\ Append(admissions[k], now) \in Seq(Nat)
                        /\ Append(counted[k], now) \in Seq(Nat)
                        /\ \A d \in Calls : Append(strays[k][d], now) \in Seq(Nat)
    BY <2>1 DEF TypeOK
  <2>3. admissions' \in [Keys -> Seq(Nat)] /\ counted' \in [Keys -> Seq(Nat)]
    BY <1>0, <2>2 DEF TypeOK, Admit
  <2>4. strays' \in [Keys -> [Calls -> Seq(Nat)]]
    <3>1. strays \in [Keys -> [Calls -> Seq(Nat)]]
      BY DEF TypeOK
    <3>2. CASE Stray(c)
      <4>1. strays' = [strays EXCEPT ![key[c]][c] = Append(@, now)]
        BY <3>2, Zenon DEF Admit
      <4>2. Append(strays[key[c]][c], now) \in Seq(Nat)
        BY <1>0, <2>2
      <4> QED
        BY <1>0, <3>1, <4>1, <4>2
    <3>3. CASE ~Stray(c)
      BY <3>1, <3>3, Zenon DEF Admit
    <3> QED
      BY <3>2, <3>3
  <2> QED
    BY <2>3, <2>4
<1>3. TypeOK'
  BY <1>0, <1>1, <1>2 DEF TypeOK, Admit, sweepVars
<1>4. LockOwnership'
  BY <1>0 DEF TypeOK, LockOwnership, Admit
<1>5. CountersAreUnshared'
  BY DEF CountersAreUnshared, Admit, sweepVars
<1>6. SweepIsLocal'
  BY DEF SweepIsLocal, Admit, sweepVars
<1> QED
  BY <1>3, <1>4, <1>5, <1>6

LEMMA MiddlewareInv ==
  ASSUME IInv, NEW c \in Calls, Middleware(c)
  PROVE  IInv'
<1>1. CASE Arrive(c)
  BY <1>1, ArriveInv
<1>2. CASE getCounter(c)
  BY <1>2, getCounterInv
<1>3. CASE Lock(c)
  BY <1>3, LockInv
<1>4. CASE Reject(c)
  BY <1>4, ReturnInv DEF Reject
<1>5. CASE Admit(c)
  BY <1>5, AdmitInv
<1>6. CASE Finish(c)
  BY <1>6, ReturnInv DEF Finish
<1> QED
  BY <1>1, <1>2, <1>3, <1>4, <1>5, <1>6 DEF Middleware

LEMMA cleanupInv ==
  ASSUME IInv, cleanup
  PROVE  IInv'
<1> USE DEF IInv
<1>1. CASE cleanupStart
  BY <1>1 DEF cleanupStart, TypeOK, LockOwnership, CountersAreUnshared,
              SweepIsLocal, limiterVars, callVars
<1>2. ASSUME NEW k \in Keys, cleanupVisit(k)
      PROVE  IInv'
  <2>1. TypeOK'
    BY <1>2 DEF cleanupVisit, TypeOK, callVars
  <2>2. LockOwnership'
    BY <1>2 DEF cleanupVisit, LockOwnership, callVars
  <2>3. CountersAreUnshared'
    BY <1>2, NilAssumption DEF cleanupVisit, CountersAreUnshared, TypeOK, callVars
  <2>4. SweepIsLocal'
    BY <1>2 DEF cleanupVisit, SweepIsLocal
  <2> QED
    BY <2>1, <2>2, <2>3, <2>4
<1>3. CASE cleanupEnd
  <2>1. sweeping' \in BOOLEAN /\ todo' = {} /\ todo' \in SUBSET Keys
    BY <1>3, Zenon DEF cleanupEnd
  <2>2. sweepAt' \in 0..now
    BY <1>3, SizesAssumption DEF cleanupEnd, TypeOK
  <2>3. TypeOK'
    BY <1>3, <2>1, <2>2 DEF cleanupEnd, TypeOK, limiterVars, callVars
  <2>4. LockOwnership' /\ CountersAreUnshared' /\ SweepIsLocal'
    BY <1>3 DEF cleanupEnd, LockOwnership, CountersAreUnshared,
                SweepIsLocal, limiterVars, callVars
  <2> QED
    BY <2>3, <2>4
<1> QED
  BY <1>1, <1>2, <1>3 DEF cleanup

LEMMA ClockInv ==
  ASSUME IInv, Tick \/ Stop
  PROVE  IInv'
<1> USE DEF IInv
<1>1. CASE Tick
  <2>1. /\ now' \in 0..MaxTime
        /\ 0..now \subseteq 0..now'
        /\ ticker' \in {"armed", "fired", "stopped"}
    BY <1>1, SizesAssumption DEF Tick, TypeOK
  <2>2. TypeOK'
    BY <1>1, <2>1 DEF Tick, TypeOK, limiterVars, callVars
  <2> QED
    BY <1>1, <2>2 DEF Tick, LockOwnership, CountersAreUnshared, SweepIsLocal,
                      limiterVars, callVars
<1>2. CASE Stop
  BY <1>2 DEF Stop, TypeOK, LockOwnership, CountersAreUnshared, SweepIsLocal,
              limiterVars, callVars
<1> QED
  BY <1>1, <1>2

(* IInv is an invariant of the limiter.                                    *)
THEOREM Invariance == Spec => []IInv
<1>1. IInv /\ [Next]_vars => IInv'
  <2> SUFFICES ASSUME IInv, [Next]_vars PROVE IInv'
    OBVIOUS
  <2>1. ASSUME NEW c \in Calls, Middleware(c) PROVE IInv'
    BY <2>1, MiddlewareInv
  <2>2. CASE cleanup
    BY <2>2, cleanupInv
  <2>3. CASE Tick \/ Stop
    BY <2>3, ClockInv
  <2>4. CASE UNCHANGED vars
    BY <2>4 DEF vars, sweepVars, limiterVars, callVars, IInv, TypeOK,
                LockOwnership, CountersAreUnshared, SweepIsLocal
  <2> QED
    BY <2>1, <2>2, <2>3, <2>4 DEF Next
<1> QED
  BY InitInv, <1>1, PTL DEF Spec

-----------------------------------------------------------------------------
(* What follows from it.                                                   *)

(* The types, and who refers to a counter when.                            *)
THEOREM TypeCorrect == Spec => []TypeOK
  BY Invariance, PTL DEF IInv

(* counter.mu is held exactly from Lock to the return, on every path, by   *)
(* one call at a time.                                                     *)
THEOREM LocksAreOwned == Spec => []LockOwnership
  BY Invariance, PTL DEF IInv

(* A counter never serves two keys.                                        *)
THEOREM SessionsAreIsolated == Spec => []CountersAreUnshared
  BY Invariance, PTL DEF IInv

(* The sweep forgets a counter only when its window is over, because       *)
(* cleanupInterval is no shorter than windowSize and the sweep reads a     *)
(* clock that has not run ahead.                                           *)
THEOREM SweepsSpareLiveWindows == Spec => SweepSparesLiveWindows
<1>1. TypeOK /\ CountersAreUnshared /\ [Next]_vars =>
        \A k \in Keys :
          requestCounts[k] # Nil /\ requestCounts'[k] # requestCounts[k] =>
            now - windowStart[requestCounts[k]] > windowSize
  <2> SUFFICES ASSUME TypeOK, CountersAreUnshared, [Next]_vars, NEW k \in Keys,
                      requestCounts[k] # Nil,
                      requestCounts'[k] # requestCounts[k]
               PROVE  now - windowStart[requestCounts[k]] > windowSize
    OBVIOUS
  <2>1. ASSUME NEW c \in Calls, getCounter(c) PROVE FALSE
    BY <2>1 DEF getCounter, TypeOK
  <2>2. ASSUME NEW c \in Calls,
               \/ Arrive(c) \/ Lock(c) \/ Reject(c) \/ Admit(c) \/ Finish(c)
        PROVE  FALSE
    BY <2>2 DEF Arrive, Lock, Reject, Admit, Finish, limiterVars
  <2>3. ASSUME NEW j \in Keys, cleanupVisit(j)
        PROVE  now - windowStart[requestCounts[k]] > windowSize
    <3>1. j = k /\ sweepAt - windowStart[requestCounts[j]] > cleanupInterval
      BY <2>3 DEF cleanupVisit, Expired, TypeOK
    <3>2. windowStart[requestCounts[k]] \in Int /\ sweepAt <= now
      BY SizesAssumption DEF TypeOK
    <3> QED
      BY <3>1, <3>2, SizesAssumption DEF TypeOK
  <2>4. CASE cleanupStart \/ cleanupEnd \/ Stop \/ Tick \/ UNCHANGED vars
    BY <2>4 DEF cleanupStart, cleanupEnd, Stop, Tick, vars, limiterVars
  <2> QED
    BY <2>1, <2>2, <2>3, <2>4 DEF Next, Middleware, cleanup
<1> QED
  BY TypeCorrect, SessionsAreIsolated, <1>1, PTL DEF Spec, SweepSparesLiveWindows

-----------------------------------------------------------------------------
(* How many calls get through.  The state of one key, in values: s are the *)
(* times its counted calls were let through at, L its limit, m and w the   *)
(* count and the start of the window of its counter.                       *)

Past(s, t) == \A i \in 1..Len(s) : s[i] <= t

(* No more than 2 * L calls in less than a window.                         *)
Spread(s, L) == Spaced(s, 2 * L)

(* Of the calls let through, the last m fell into the window that began at *)
(* w; all but the last L before them are as old as the window before it.   *)
Window(s, m, w, L) ==
  /\ m <= L
  /\ m <= Len(s)
  /\ \A i \in 1..Len(s) : IF i > Len(s) - m THEN s[i] >= w ELSE s[i] <= w
  /\ \A i \in 1..Len(s) - m - L : w - s[i] >= windowSize

(* Without a counter all but the last L calls are out of the last window,  *)
(* so a new counter gives nobody more than a second allowance.             *)
NoWindow(s, L, t) ==
  \A i \in 1..Len(s) - L : t - s[i] >= windowSize

Allowance ==
  \A k \in Keys :
    LET s == counted[k]
        n == requestCounts[k]
        L == getLimit(k[2])
    IN /\ Past(s, now)
       /\ Spread(s, L)
       /\ n # Nil => Window(s, count[n], windowStart[n], L)
       /\ n = Nil => NoWindow(s, L, now)

LEMMA WindowOpens ==
  ASSUME NEW t \in Nat, NEW s \in Seq(Nat), NEW L \in Nat,
         Past(s, t), NoWindow(s, L, t)
  PROVE  Window(s, 0, t, L)
<1>1. Len(s) \in Nat /\ \A i \in 1..Len(s) : s[i] \in Nat
  OBVIOUS
<1> QED
  BY <1>1, SizesAssumption DEF Past, NoWindow, Window

LEMMA WindowEnds ==
  ASSUME NEW t \in Nat, NEW s \in Seq(Nat), NEW L \in Nat, Past(s, t),
         NEW m \in Nat, NEW w \in 0..t,
         Window(s, m, w, L), t - w >= windowSize
  PROVE  NoWindow(s, L, t)
<1>1. Len(s) \in Nat
  OBVIOUS
<1> SUFFICES ASSUME NEW i \in 1..Len(s) - L PROVE t - s[i] >= windowSize
  BY DEF NoWindow
<1>2. i \in 1..Len(s) /\ ~(i > Len(s) - m)
  BY <1>1 DEF Window
<1>3. s[i] \in Nat /\ s[i] <= w
  BY <1>2 DEF Window
<1> QED
  BY <1>3, SizesAssumption

LEMMA WindowGrows ==
  ASSUME NEW t \in Nat, NEW s \in Seq(Nat), NEW L \in Nat, Past(s, t),
         NEW m \in Nat, NEW w \in 0..t,
         Window(s, m, w, L), Spread(s, L), m < L
  PROVE  Window(Append(s, t), m + 1, w, L) /\ Spread(Append(s, t), L)
<1> DEFINE z == Append(s, t)
<1>1. /\ Len(s) \in Nat
      /\ Len(z) = Len(s) + 1
      /\ z[Len(s) + 1] = t
      /\ \A i \in 1..Len(s) : z[i] = s[i] /\ s[i] \in Nat
  BY AppendProperties
<1> HIDE DEF z
<1>2. ASSUME NEW i \in 1..Len(z)
      PROVE  IF i > Len(z) - (m + 1) THEN z[i] >= w ELSE z[i] <= w
  <2>1. CASE i = Len(s) + 1
    BY <1>1, <2>1
  <2>2. CASE i \in 1..Len(s)
    <3>1. IF i > Len(s) - m THEN s[i] >= w ELSE s[i] <= w
      BY <2>2 DEF Window
    <3> QED
      BY <1>1, <2>2, <3>1
  <2> QED
    BY <1>1, <2>1, <2>2
<1>3. ASSUME NEW i \in 1..Len(z) - (m + 1) - L
      PROVE  w - z[i] >= windowSize
  <2>1. i \in 1..Len(s) - m - L /\ i \in 1..Len(s)
    BY <1>1, <1>3
  <2> QED
    BY <1>1, <2>1 DEF Window
<1>4. ASSUME NEW i \in 1..Len(z) - 2 * L
      PROVE  z[i + 2 * L] - z[i] >= windowSize
  <2>1. CASE i + 2 * L = Len(s) + 1
    <3>1. i \in 1..Len(s) - m - L /\ i \in 1..Len(s)
      BY <1>1, <2>1
    <3>2. w - s[i] >= windowSize
      BY <3>1 DEF Window
    <3>3. z[i + 2 * L] = t /\ z[i] = s[i] /\ s[i] \in Nat
      BY <1>1, <2>1, <3>1
    <3> QED
      BY <3>2, <3>3, SizesAssumption
  <2>2. CASE i + 2 * L < Len(s) + 1
    <3>1. /\ i \in 1..Len(s) - 2 * L
          /\ i \in 1..Len(s)
          /\ i + 2 * L \in 1..Len(s)
      BY <1>1, <2>2
    <3> QED
      BY <1>1, <3>1 DEF Spread, Spaced
  <2>3. i + 2 * L <= Len(s) + 1 /\ i + 2 * L \in Int
    BY <1>1, <1>4
  <2> HIDE DEF z
  <2>4. i + 2 * L = Len(s) + 1 \/ i + 2 * L < Len(s) + 1
    BY <1>1, <2>3
  <2> QED
    BY <2>1, <2>2, <2>4
<1>5. m + 1 <= L /\ m + 1 <= Len(z)
  BY <1>1 DEF Window
<1> QED
  BY <1>2, <1>3, <1>4, <1>5 DEF Window, Spread, Spaced, z

LEMMA NoWindowAges ==
  ASSUME NEW t \in Nat, NEW u \in Nat, t <= u,
         NEW s \in Seq(Nat), NEW L \in Nat, NoWindow(s, L, t)
  PROVE  NoWindow(s, L, u)
<1>1. Len(s) \in Nat /\ \A i \in 1..Len(s) : s[i] \in Nat
  OBVIOUS
<1>2. \A i \in 1..Len(s) - L : i \in 1..Len(s)
  BY <1>1
<1> QED
  BY <1>1, <1>2, SizesAssumption DEF NoWindow

(* Every limit is at least one.                                            *)
LEMMA LimitsArePositive ==
  ASSUME NEW tool
  PROVE  getLimit(tool) \in Nat \ {0}
<1>1. \A v, d : d \in Nat \ {0} => getEnvInt(v, d) \in Nat \ {0}
  BY DEF getEnvInt
<1>2. /\ DefaultLimit \in Nat \ {0}
      /\ ReadLimit \in Nat \ {0}
      /\ WriteLimit \in Nat \ {0}
  BY <1>1 DEF DefaultLimit, ReadLimit, WriteLimit
<1> QED
  BY <1>2 DEF getLimit, limits

LEMMA TypesOfAKey ==
  ASSUME TypeOK, NEW k \in Keys
  PROVE  /\ now \in Nat
         /\ counted[k] \in Seq(Nat)
         /\ admissions[k] \in Seq(Nat)
         /\ \A c \in Calls : strays[k][c] \in Seq(Nat)
         /\ getLimit(k[2]) \in Nat \ {0}
         /\ requestCounts[k] # Nil =>
              /\ requestCounts[k] \in Counters
              /\ count[requestCounts[k]] \in Nat
              /\ windowStart[requestCounts[k]] \in 0..now
<1>1. now \in Nat
  BY SizesAssumption DEF TypeOK
<1>2. /\ counted[k] \in Seq(Nat)
      /\ admissions[k] \in Seq(Nat)
      /\ \A c \in Calls : strays[k][c] \in Seq(Nat)
  BY DEF TypeOK
<1>3. /\ requestCounts[k] \in Counters \cup {Nil}
      /\ \A n \in Counters : count[n] \in Nat /\ windowStart[n] \in 0..now
  BY DEF TypeOK
<1> QED
  BY <1>1, <1>2, <1>3, LimitsArePositive

(* One action each: it leaves the allowance of every key as it should be.  *)

LEMMA AllowanceUntouched ==
  ASSUME Allowance, UNCHANGED <<now, counted, requestCounts, count, windowStart>>
  PROVE  Allowance'
BY DEF Allowance

LEMMA getCounterAllowance ==
  ASSUME TypeOK, Allowance, NEW c \in Calls, getCounter(c)
  PROVE  Allowance'
<1>1. CASE requestCounts[key[c]] # Nil
  BY <1>1, AllowanceUntouched DEF getCounter
<1>2. CASE requestCounts[key[c]] = Nil
  <2>1. PICK n \in FreeCounters :
          /\ requestCounts' = [requestCounts EXCEPT ![key[c]] = n]
          /\ count' = [count EXCEPT ![n] = 0]
          /\ windowStart' = [windowStart EXCEPT ![n] = now]
    BY <1>2 DEF getCounter
  <2>2. /\ n \in Counters
        /\ \A k \in Keys : requestCounts[k] # n
    BY FreeIsUnreferenced
  <2>3. now' = now /\ counted' = counted
    BY DEF getCounter
  <2> SUFFICES ASSUME NEW k \in Keys
               PROVE  /\ Past(counted[k], now)
                      /\ Spread(counted[k], getLimit(k[2]))
                      /\ requestCounts'[k] # Nil =>
                           Window(counted[k], count'[requestCounts'[k]],
                                  windowStart'[requestCounts'[k]], getLimit(k[2]))
                      /\ requestCounts'[k] = Nil =>
                           NoWindow(counted[k], getLimit(k[2]), now)
    BY <2>3 DEF Allowance
  <2>4. CASE k = key[c]
    <3>1. Window(counted[k], 0, now, getLimit(k[2]))
      BY <1>2, <2>4, TypesOfAKey, WindowOpens DEF Allowance
    <3>2. /\ requestCounts'[k] = n
          /\ count'[n] = 0
          /\ windowStart'[n] = now
      BY <2>1, <2>2, <2>4 DEF TypeOK
    <3> QED
      BY <2>2, <3>1, <3>2, NilAssumption DEF Allowance
  <2>5. CASE k # key[c]
    <3>1. requestCounts'[k] = requestCounts[k] /\ requestCounts[k] # n
      BY <2>1, <2>2, <2>5 DEF TypeOK
    <3>2. requestCounts[k] # Nil => /\ count'[requestCounts[k]] = count[requestCounts[k]]
                                    /\ windowStart'[requestCounts[k]]
                                         = windowStart[requestCounts[k]]
      BY <2>1, <3>1 DEF TypeOK
    <3> QED
      BY <3>1, <3>2 DEF Allowance
  <2> QED
    BY <2>4, <2>5
<1> QED
  BY <1>1, <1>2

LEMMA LockAllowance ==
  ASSUME TypeOK, Allowance, NEW c \in Calls, Lock(c)
  PROVE  Allowance'
<1>1. CASE now - windowStart[ctr[c]] >= windowSize
  <2>1. /\ count' = [count EXCEPT ![ctr[c]] = 0]
        /\ windowStart' = [windowStart EXCEPT ![ctr[c]] = now]
        /\ UNCHANGED <<now, counted, requestCounts>>
    BY <1>1 DEF Lock, ResetWindow
  <2> SUFFICES ASSUME NEW k \in Keys, requestCounts[k] # Nil
               PROVE  Window(counted[k], count'[requestCounts[k]],
                             windowStart'[requestCounts[k]], getLimit(k[2]))
    BY <2>1 DEF Allowance
  <2>2. CASE requestCounts[k] = ctr[c]
    <3>1. NoWindow(counted[k], getLimit(k[2]), now)
      BY <1>1, <2>2, TypesOfAKey, WindowEnds DEF Allowance
    <3>2. Window(counted[k], 0, now, getLimit(k[2]))
      BY <3>1, TypesOfAKey, WindowOpens DEF Allowance
    <3>3. /\ count'[requestCounts[k]] = 0
          /\ windowStart'[requestCounts[k]] = now
      BY <2>1, <2>2, TypesOfAKey DEF TypeOK
    <3> QED
      BY <3>2, <3>3
  <2>3. CASE requestCounts[k] # ctr[c]
    BY <2>1, <2>3, TypesOfAKey DEF TypeOK, Allowance
  <2> QED
    BY <2>2, <2>3
<1>2. CASE ~(now - windowStart[ctr[c]] >= windowSize)
  BY <1>2, AllowanceUntouched DEF Lock, ResetWindow
<1> QED
  BY <1>1, <1>2

LEMMA AdmitAllowance ==
  ASSUME TypeOK, CountersAreUnshared, Allowance, NEW c \in Calls, Admit(c)
  PROVE  Allowance'
<1>1. /\ ctr[c] \in Counters
      /\ key[c] \in Keys
      /\ count[ctr[c]] < getLimit(key[c][2])
      /\ count' = [count EXCEPT ![ctr[c]] = @ + 1]
      /\ UNCHANGED <<now, requestCounts, windowStart>>
  BY DEF Admit, TypeOK
<1>2. \A k \in Keys : requestCounts[k] = ctr[c] => k = key[c]
  BY <1>1, NilAssumption DEF CountersAreUnshared
<1>3. counted' = IF Stray(c) THEN counted
                   ELSE [counted EXCEPT ![key[c]] = Append(@, now)]
  BY Zenon DEF Admit
<1> SUFFICES ASSUME NEW k \in Keys
             PROVE  /\ Past(counted'[k], now)
                    /\ Spread(counted'[k], getLimit(k[2]))
                    /\ requestCounts[k] # Nil =>
                         Window(counted'[k], count'[requestCounts[k]],
                                windowStart[requestCounts[k]], getLimit(k[2]))
                    /\ requestCounts[k] = Nil =>
                         NoWindow(counted'[k], getLimit(k[2]), now)
  BY <1>1 DEF Allowance
<1>4. CASE requestCounts[k] = ctr[c]
  <2>1. /\ k = key[c]
        /\ ~Stray(c)
    BY <1>2, <1>4 DEF Stray
  <2>2. /\ counted'[k] = Append(counted[k], now)
        /\ count'[requestCounts[k]] = count[requestCounts[k]] + 1
        /\ requestCounts[k] # Nil
    BY <1>1, <1>3, <1>4, <2>1, NilAssumption DEF TypeOK
  <2>3. /\ Window(counted'[k], count'[requestCounts[k]],
                  windowStart[requestCounts[k]], getLimit(k[2]))
        /\ Spread(counted'[k], getLimit(k[2]))
    BY <1>1, <1>4, <2>1, <2>2, TypesOfAKey, WindowGrows DEF Allowance
  <2>4. Past(counted'[k], now)
    <3>1. /\ counted[k] \in Seq(Nat)
          /\ now \in Nat
          /\ Past(counted[k], now)
      BY TypesOfAKey DEF Allowance
    <3> QED
      BY <2>2, <3>1, AppendProperties DEF Past
  <2> QED
    BY <2>2, <2>3, <2>4
<1>5. CASE requestCounts[k] # ctr[c]
  <2>1. counted'[k] = counted[k]
    BY <1>1, <1>3, <1>5 DEF Stray, TypeOK
  <2>2. requestCounts[k] # Nil => count'[requestCounts[k]] = count[requestCounts[k]]
    BY <1>1, <1>5, TypesOfAKey DEF TypeOK
  <2> QED
    BY <2>1, <2>2 DEF Allowance
<1> QED
  BY <1>4, <1>5

LEMMA cleanupVisitAllowance ==
  ASSUME TypeOK, CountersAreUnshared, Allowance, NEW j \in Keys, cleanupVisit(j)
  PROVE  Allowance'
<1>1. UNCHANGED <<now, counted, count, windowStart>>
  BY DEF cleanupVisit
<1>2. CASE Expired(requestCounts[j])
  <2>1. /\ requestCounts' = [requestCounts EXCEPT ![j] = Nil]
        /\ requestCounts[j] # Nil
    BY <1>2 DEF cleanupVisit, CountersAreUnshared
  <2> SUFFICES NoWindow(counted[j], getLimit(j[2]), now)
    BY <1>1, <2>1 DEF Allowance, TypeOK
  <2>2. now - windowStart[requestCounts[j]] >= windowSize
    <3>1. sweepAt - windowStart[requestCounts[j]] > cleanupInterval
      BY <1>2 DEF Expired
    <3>2. sweepAt \in Nat /\ sweepAt <= now
      BY SizesAssumption DEF TypeOK
    <3> QED
      BY <2>1, <3>1, <3>2, TypesOfAKey, SizesAssumption
  <2> QED
    BY <2>1, <2>2, TypesOfAKey, WindowEnds DEF Allowance
<1>3. CASE ~Expired(requestCounts[j])
  BY <1>1, <1>3, AllowanceUntouched DEF cleanupVisit
<1> QED
  BY <1>2, <1>3

LEMMA TickAllowance ==
  ASSUME TypeOK, Allowance, Tick
  PROVE  Allowance'
<1>1. UNCHANGED <<counted, requestCounts, count, windowStart>>
  BY DEF Tick, limiterVars
<1>2. now \in Nat /\ now' \in Nat /\ now <= now'
  BY SizesAssumption DEF Tick, TypeOK
<1> SUFFICES ASSUME NEW k \in Keys
             PROVE  /\ Past(counted[k], now')
                    /\ requestCounts[k] = Nil =>
                         NoWindow(counted[k], getLimit(k[2]), now')
  BY <1>1 DEF Allowance
<1>3. Past(counted[k], now')
  <2>1. /\ \A i \in 1..Len(counted[k]) : counted[k][i] \in Nat
        /\ Past(counted[k], now)
    BY TypesOfAKey DEF Allowance
  <2> QED
    BY <1>2, <2>1 DEF Past
<1>4. requestCounts[k] = Nil => NoWindow(counted[k], getLimit(k[2]), now')
  BY <1>2, TypesOfAKey, NoWindowAges DEF Allowance
<1> QED
  BY <1>3, <1>4

(* Allowance is inductive relative to IInv.                                *)
THEOREM AllowanceInvariance == Spec => []Allowance
<1>1. Init => Allowance
  <2> SUFFICES ASSUME Init, NEW k \in Keys
               PROVE  /\ Past(<<>>, 0)
                      /\ Spread(<<>>, getLimit(k[2]))
                      /\ NoWindow(<<>>, getLimit(k[2]), 0)
    BY DEF Init, Allowance
  <2>1. Len(<<>>) = 0
    OBVIOUS
  <2>2. getLimit(k[2]) \in Nat \ {0}
    BY LimitsArePositive
  <2> QED
    BY <2>1, <2>2 DEF Past, Spread, Spaced, NoWindow
<1>2. IInv /\ Allowance /\ [Next]_vars => Allowance'
  <2> SUFFICES ASSUME IInv, Allowance, [Next]_vars PROVE Allowance'
    OBVIOUS
  <2> USE DEF IInv
  <2>1. ASSUME NEW c \in Calls, Arrive(c) \/ Reject(c) \/ Finish(c)
        PROVE  Allowance'
    BY <2>1, AllowanceUntouched DEF Arrive, Reject, Finish, limiterVars
  <2>2. ASSUME NEW c \in Calls, getCounter(c) \/ Lock(c) \/ Admit(c)
        PROVE  Allowance'
    BY <2>2, getCounterAllowance, LockAllowance, AdmitAllowance
  <2>3. CASE \E k \in Keys : cleanupVisit(k)
    BY <2>3, cleanupVisitAllowance
  <2>4. CASE Tick
    BY <2>4, TickAllowance
  <2>5. CASE cleanupStart \/ cleanupEnd \/ Stop \/ UNCHANGED vars
    BY <2>5, AllowanceUntouched
       DEF cleanupStart, cleanupEnd, Stop, vars, limiterVars
  <2> QED
    BY <2>1, <2>2, <2>3, <2>4, <2>5 DEF Next, Middleware, cleanup
<1> QED
  BY Invariance, <1>1, <1>2, PTL DEF Spec

(* The count of a counter in the map is what its window let through.       *)
THEOREM CountsAreTrue == Spec => []CountTracksAdmissions
<1>1. Allowance => CountTracksAdmissions
  BY DEF Allowance, Window, CountTracksAdmissions
<1> QED
  BY AllowanceInvariance, <1>1, PTL

-----------------------------------------------------------------------------
(* Who is turned away.  The m calls a counter has counted are no older     *)
(* than its window, so they are among the last m of the key, also when the *)
(* sweep has dropped the counter and another one counts for the key too.   *)

Backed(s, m, w) ==
  /\ m <= Len(s)
  /\ \A i \in 1..Len(s) : i > Len(s) - m => s[i] >= w

(* The keys a counter counts for, in the map or in the hands of a call.    *)
Serves(n, k) ==
  \/ requestCounts[k] = n
  \/ \E c \in Calls : ctr[c] = n /\ key[c] = k

(* A call looks at the count while the window is running.                  *)
FreshWindow ==
  \A c \in Calls : pc[c] \in {"getLimit", "next"} =>
                     at[c] - windowStart[ctr[c]] < windowSize

CountsAreBacked ==
  \A n \in Counters, k \in Keys :
    Serves(n, k) => Backed(admissions[k], count[n], windowStart[n])

LEMMA EmptyIsBacked ==
  ASSUME NEW s \in Seq(Nat), NEW w
  PROVE  Backed(s, 0, w)
<1>1. Len(s) \in Nat
  OBVIOUS
<1> QED
  BY <1>1 DEF Backed

(* One more call: the counter that counts it, and one that does not.       *)
LEMMA BackedGrows ==
  ASSUME NEW s \in Seq(Nat), NEW t \in Nat, NEW m \in Nat, NEW w \in 0..t,
         Backed(s, m, w)
  PROVE  Backed(Append(s, t), m, w) /\ Backed(Append(s, t), m + 1, w)
<1> DEFINE z == Append(s, t)
<1>1. /\ Len(s) \in Nat
      /\ Len(z) = Len(s) + 1
      /\ z[Len(s) + 1] = t
      /\ \A i \in 1..Len(s) : z[i] = s[i] /\ s[i] \in Nat
  BY AppendProperties
<1> HIDE DEF z
<1>2. ASSUME NEW i \in 1..Len(z), i > Len(z) - (m + 1)
      PROVE  z[i] >= w
  <2>1. CASE i = Len(s) + 1
    BY <1>1, <2>1
  <2>2. CASE i \in 1..Len(s)
    <3>1. s[i] >= w
      BY <1>1, <1>2, <2>2 DEF Backed
    <3> QED
      BY <1>1, <2>2, <3>1
  <2> QED
    BY <1>1, <2>1, <2>2
<1>3. m <= Len(z) /\ m + 1 <= Len(z)
  BY <1>1 DEF Backed
<1>4. \A i \in 1..Len(z) : i > Len(z) - m => i > Len(z) - (m + 1)
  BY <1>1
<1> QED
  BY <1>2, <1>3, <1>4 DEF Backed, z

(* A counter serves one key.                                               *)
LEMMA ServesOne ==
  ASSUME TypeOK, CountersAreUnshared, NEW n \in Counters,
         NEW j \in Keys, NEW k \in Keys, Serves(n, j), Serves(n, k)
  PROVE  j = k
BY NilAssumption DEF CountersAreUnshared, Serves

LEMMA BackedUntouched ==
  ASSUME CountsAreBacked, UNCHANGED <<admissions, count, windowStart>>,
         \A n \in Counters, k \in Keys : Serves(n, k)' => Serves(n, k)
  PROVE  CountsAreBacked'
BY DEF CountsAreBacked

LEMMA getCounterBacked ==
  ASSUME TypeOK, CountsAreBacked, NEW c \in Calls, getCounter(c)
  PROVE  CountsAreBacked'
<1>1. key[c] \in Keys /\ key' = key /\ admissions' = admissions
  BY DEF getCounter, TypeOK
<1>2. CASE requestCounts[key[c]] # Nil
  <2>1. /\ ctr' = [ctr EXCEPT ![c] = requestCounts[key[c]]]
        /\ UNCHANGED <<requestCounts, count, windowStart>>
    BY <1>2 DEF getCounter
  <2>2. \A n \in Counters, k \in Keys : Serves(n, k)' => Serves(n, k)
    BY <1>1, <2>1 DEF Serves, TypeOK
  <2> QED
    BY <1>1, <2>1, <2>2, BackedUntouched
<1>3. CASE requestCounts[key[c]] = Nil
  <2>1. PICK n \in FreeCounters :
          /\ requestCounts' = [requestCounts EXCEPT ![key[c]] = n]
          /\ count' = [count EXCEPT ![n] = 0]
          /\ windowStart' = [windowStart EXCEPT ![n] = now]
          /\ ctr' = [ctr EXCEPT ![c] = n]
    BY <1>3 DEF getCounter
  <2>2. n \in Counters
    BY FreeIsUnreferenced
  <2> SUFFICES ASSUME NEW m \in Counters, NEW k \in Keys, Serves(m, k)'
               PROVE  Backed(admissions[k], count'[m], windowStart'[m])
    BY <1>1 DEF CountsAreBacked
  <2>3. CASE m = n
    <3>1. count'[m] = 0
      BY <2>1, <2>2, <2>3 DEF TypeOK
    <3> QED
      BY <3>1, TypesOfAKey, EmptyIsBacked
  <2>4. CASE m # n
    <3>1. Serves(m, k)
      BY <1>1, <2>1, <2>4 DEF Serves, TypeOK
    <3>2. count'[m] = count[m] /\ windowStart'[m] = windowStart[m]
      BY <2>1, <2>4 DEF TypeOK
    <3> QED
      BY <3>1, <3>2 DEF CountsAreBacked
  <2> QED
    BY <2>3, <2>4
<1> QED
  BY <1>2, <1>3

LEMMA LockBacked ==
  ASSUME TypeOK, CountsAreBacked, NEW c \in Calls, Lock(c)
  PROVE  CountsAreBacked'
<1>1. UNCHANGED <<admissions, requestCounts, key, ctr>>
  BY DEF Lock
<1>2. \A n \in Counters, k \in Keys : Serves(n, k)' => Serves(n, k)
  BY <1>1 DEF Serves
<1>3. CASE now - windowStart[ctr[c]] >= windowSize
  <2>1. /\ count' = [count EXCEPT ![ctr[c]] = 0]
        /\ windowStart' = [windowStart EXCEPT ![ctr[c]] = now]
    BY <1>3 DEF Lock, ResetWindow
  <2> SUFFICES ASSUME NEW n \in Counters, NEW k \in Keys, Serves(n, k)
               PROVE  Backed(admissions[k], count'[n], windowStart'[n])
    BY <1>1, <1>2 DEF CountsAreBacked
  <2>2. CASE n = ctr[c]
    <3>1. count'[n] = 0
      BY <2>1, <2>2 DEF TypeOK
    <3> QED
      BY <3>1, TypesOfAKey, EmptyIsBacked
  <2>3. CASE n # ctr[c]
    BY <2>1, <2>3 DEF CountsAreBacked, TypeOK
  <2> QED
    BY <2>2, <2>3
<1>4. CASE ~(now - windowStart[ctr[c]] >= windowSize)
  BY <1>1, <1>2, <1>4, BackedUntouched DEF Lock, ResetWindow
<1> QED
  BY <1>3, <1>4

LEMMA AdmitBacked ==
  ASSUME TypeOK, CountersAreUnshared, CountsAreBacked, NEW c \in Calls, Admit(c)
  PROVE  CountsAreBacked'
<1>1. /\ ctr[c] \in Counters
      /\ key[c] \in Keys
      /\ count' = [count EXCEPT ![ctr[c]] = @ + 1]
      /\ admissions' = [admissions EXCEPT ![key[c]] = Append(@, now)]
      /\ UNCHANGED <<windowStart, requestCounts, key, ctr>>
  BY DEF Admit, TypeOK
<1>2. \A n \in Counters, k \in Keys : Serves(n, k)' => Serves(n, k)
  BY <1>1 DEF Serves
<1> SUFFICES ASSUME NEW n \in Counters, NEW k \in Keys, Serves(n, k)
             PROVE  Backed(admissions'[k], count'[n], windowStart[n])
  BY <1>1, <1>2 DEF CountsAreBacked
<1>3. /\ count[n] \in Nat
      /\ windowStart[n] \in 0..now
      /\ Backed(admissions[k], count[n], windowStart[n])
  BY DEF CountsAreBacked, TypeOK
<1>4. /\ n = ctr[c] => k = key[c]
      /\ count'[n] = IF n = ctr[c] THEN count[n] + 1 ELSE count[n]
      /\ admissions'[k] = IF k = key[c] THEN Append(admissions[k], now)
                          ELSE admissions[k]
  <2>1. n = ctr[c] => k = key[c]
    BY <1>1, ServesOne DEF Serves
  <2> QED
    BY <1>1, <2>1 DEF TypeOK
<1>5. CASE k = key[c]
  <2>1. /\ Backed(Append(admissions[k], now), count[n], windowStart[n])
        /\ Backed(Append(admissions[k], now), count[n] + 1, windowStart[n])
    BY <1>3, TypesOfAKey, BackedGrows
  <2> QED
    BY <1>4, <1>5, <2>1
<1>6. CASE k # key[c]
  BY <1>3, <1>4, <1>6
<1> QED
  BY <1>5, <1>6

(* Whoever leaves refers to one counter less.                              *)
LEMMA ReturnBacked ==
  ASSUME TypeOK, CountsAreBacked, NEW c \in Calls, Return(c),
         UNCHANGED <<requestCounts, count, windowStart, admissions>>
  PROVE  CountsAreBacked'
<1>1. \A n \in Counters, k \in Keys : Serves(n, k)' => Serves(n, k)
  BY NilAssumption DEF Serves, Return, TypeOK
<1> QED
  BY <1>1, BackedUntouched

LEMMA cleanupVisitBacked ==
  ASSUME TypeOK, CountsAreBacked, NEW j \in Keys, cleanupVisit(j)
  PROVE  CountsAreBacked'
<1>1. \A n \in Counters, k \in Keys : Serves(n, k)' => Serves(n, k)
  BY NilAssumption DEF Serves, cleanupVisit, callVars, TypeOK
<1> QED
  BY <1>1, BackedUntouched DEF cleanupVisit

THEOREM BackedInvariance == Spec => []CountsAreBacked
<1>1. Init => CountsAreBacked
  <2> SUFFICES ASSUME Init, NEW n \in Counters PROVE Backed(<<>>, count[n], windowStart[n])
    BY DEF Init, CountsAreBacked
  <2>1. <<>> \in Seq(Nat) /\ count[n] = 0
    BY DEF Init
  <2> QED
    BY <2>1, EmptyIsBacked
<1>2. IInv /\ CountsAreBacked /\ [Next]_vars => CountsAreBacked'
  <2> SUFFICES ASSUME IInv, CountsAreBacked, [Next]_vars PROVE CountsAreBacked'
    OBVIOUS
  <2> USE DEF IInv
  <2>1. ASSUME NEW c \in Calls, Arrive(c) PROVE CountsAreBacked'
    <3>1. ctr[c] = Nil
      BY <2>1 DEF Arrive, TypeOK
    <3>2. \A n \in Counters, k \in Keys : Serves(n, k)' => Serves(n, k)
      BY <2>1, <3>1, NilAssumption DEF Arrive, Serves, limiterVars, TypeOK
    <3> QED
      BY <2>1, <3>2, BackedUntouched DEF Arrive, limiterVars
  <2>2. ASSUME NEW c \in Calls, getCounter(c) \/ Lock(c) \/ Admit(c)
        PROVE  CountsAreBacked'
    BY <2>2, getCounterBacked, LockBacked, AdmitBacked
  <2>3. ASSUME NEW c \in Calls, Reject(c) \/ Finish(c) PROVE CountsAreBacked'
    BY <2>3, ReturnBacked DEF Reject, Finish
  <2>4. CASE \E k \in Keys : cleanupVisit(k)
    BY <2>4, cleanupVisitBacked
  <2>5. CASE cleanupStart \/ cleanupEnd \/ Stop \/ Tick \/ UNCHANGED vars
    BY <2>5, BackedUntouched
       DEF cleanupStart, cleanupEnd, Stop, Tick, vars, limiterVars, callVars, Serves
  <2> QED
    BY <2>1, <2>2, <2>3, <2>4, <2>5 DEF Next, Middleware, cleanup
<1> QED
  BY Invariance, <1>1, <1>2, PTL DEF Spec

(* Only the holder of its lock moves the window of a counter in use.       *)
THEOREM WindowsAreFresh == Spec => []FreshWindow
<1>1. Init => FreshWindow
  BY DEF Init, FreshWindow
<1>2. IInv /\ FreshWindow /\ [Next]_vars => FreshWindow'
  <2> SUFFICES ASSUME IInv, FreshWindow, [Next]_vars PROVE FreshWindow'
    OBVIOUS
  <2> USE DEF IInv
  <2>1. ASSUME NEW c \in Calls, Arrive(c) PROVE FreshWindow'
    BY <2>1 DEF Arrive, FreshWindow, limiterVars, TypeOK
  <2>2. ASSUME NEW c \in Calls, getCounter(c) PROVE FreshWindow'
    <3> SUFFICES ASSUME NEW d \in Calls, pc'[d] \in {"getLimit", "next"}
                 PROVE  at'[d] - windowStart'[ctr'[d]] < windowSize
      BY DEF FreshWindow
    <3>1. /\ d # c
          /\ pc'[d] = pc[d]
          /\ ctr'[d] = ctr[d]
          /\ at'[d] = at[d]
      BY <2>2 DEF getCounter, TypeOK
    <3>2. ctr[d] \in Counters
      BY <3>1 DEF TypeOK
    <3>3. CASE UNCHANGED windowStart
      BY <3>1, <3>3 DEF FreshWindow
    <3>4. ASSUME NEW n \in FreeCounters,
                 windowStart' = [windowStart EXCEPT ![n] = now]
          PROVE  windowStart'[ctr[d]] = windowStart[ctr[d]]
      BY <3>2, <3>4, FreeIsUnreferenced DEF TypeOK
    <3> QED
      BY <2>2, <3>1, <3>3, <3>4 DEF getCounter, FreshWindow
  <2>3. ASSUME NEW c \in Calls, Lock(c) PROVE FreshWindow'
    <3> SUFFICES ASSUME NEW d \in Calls, pc'[d] \in {"getLimit", "next"}
                 PROVE  at'[d] - windowStart'[ctr[d]] < windowSize
      BY <2>3 DEF FreshWindow, Lock
    <3>1. CASE d = c
      <4>1. at'[d] = now /\ ctr[c] \in Counters
        BY <2>3, <3>1 DEF Lock, TypeOK
      <4>2. now - windowStart'[ctr[c]] < windowSize
        BY <2>3, <4>1, SizesAssumption DEF Lock, ResetWindow, TypeOK
      <4> QED
        BY <3>1, <4>1, <4>2
    <3>2. CASE d # c
      <4>1. pc'[d] = pc[d] /\ at'[d] = at[d]
        BY <2>3, <3>2 DEF Lock, TypeOK
      <4>2. ctr[d] # ctr[c]
        <5>1. /\ mu[ctr[c]] = Nil
              /\ pc[d] \in {"getLimit", "next"}
          BY <2>3, <4>1 DEF Lock
        <5>2. ctr[d] \in Counters
          BY <5>1 DEF TypeOK
        <5> QED
          BY <5>1, <5>2, NilAssumption DEF LockOwnership
      <4>3. windowStart'[ctr[d]] = windowStart[ctr[d]]
        BY <2>3, <4>2 DEF Lock, ResetWindow, TypeOK
      <4> QED
        BY <4>1, <4>3 DEF FreshWindow
    <3> QED
      BY <3>1, <3>2
  <2>4. ASSUME NEW c \in Calls, Reject(c) \/ Finish(c) PROVE FreshWindow'
    BY <2>4 DEF Reject, Finish, Return, FreshWindow, TypeOK
  <2>5. ASSUME NEW c \in Calls, Admit(c) PROVE FreshWindow'
    BY <2>5 DEF Admit, FreshWindow, TypeOK
  <2>6. CASE cleanup \/ Stop \/ Tick \/ UNCHANGED vars
    BY <2>6 DEF cleanup, cleanupStart, cleanupVisit, cleanupEnd, Stop, Tick,
                vars, limiterVars, callVars, FreshWindow
  <2> QED
    BY <2>1, <2>2, <2>3, <2>4, <2>5, <2>6 DEF Next, Middleware
<1> QED
  BY Invariance, <1>1, <1>2, PTL DEF Spec

(* Nobody is turned away below the limit: a rejected call's own session    *)
(* and tool had as many calls let through within the window before.        *)
THEOREM NobodyIsFalselyRejected == Spec => NoFalseReject
<1>1. TypeOK /\ CountsAreBacked /\ FreshWindow =>
        \A c \in Calls :
          Reject(c) =>
            LET s == admissions[key[c]]
                L == getLimit(key[c][2])
            IN /\ Len(s) >= L
               /\ s[Len(s) - L + 1] > at[c] - windowSize
  <2> SUFFICES ASSUME TypeOK, CountsAreBacked, FreshWindow,
                      NEW c \in Calls, Reject(c)
               PROVE  LET s == admissions[key[c]]
                          L == getLimit(key[c][2])
                      IN /\ Len(s) >= L
                         /\ s[Len(s) - L + 1] > at[c] - windowSize
    OBVIOUS
  <2> DEFINE s == admissions[key[c]]
             L == getLimit(key[c][2])
             m == count[ctr[c]]
             w == windowStart[ctr[c]]
  <2>1. key[c] \in Keys /\ ctr[c] \in Counters /\ pc[c] = "getLimit" /\ m >= L
    BY DEF Reject, TypeOK
  <2>2. Backed(s, m, w)
    BY <2>1 DEF CountsAreBacked, Serves
  <2>3. at[c] - w < windowSize
    BY <2>1 DEF FreshWindow
  <2>4. /\ at[c] \in Int /\ w \in Int /\ m \in Nat
        /\ L \in Nat \ {0}
        /\ Len(s) \in Nat
        /\ \A i \in 1..Len(s) : s[i] \in Nat
    <3>1. at[c] \in Int /\ w \in Int /\ m \in Nat
      BY <2>1, SizesAssumption DEF TypeOK
    <3>2. L \in Nat \ {0}
      BY <2>1, TypesOfAKey
    <3>3. s \in Seq(Nat)
      BY <2>1, TypesOfAKey
    <3> HIDE DEF s, L, m, w
    <3>4. Len(s) \in Nat /\ \A i \in 1..Len(s) : s[i] \in Nat
      BY <3>3
    <3> QED
      BY <3>1, <3>2, <3>4
  <2>5. m <= Len(s) /\ \A i \in 1..Len(s) : i > Len(s) - m => s[i] >= w
    BY <2>2 DEF Backed
  <2> HIDE DEF s, L, m, w
  <2>6. Len(s) - L + 1 \in 1..Len(s) /\ Len(s) - L + 1 > Len(s) - m
    BY <2>1, <2>4, <2>5
  <2>7. Len(s) >= L /\ s[Len(s) - L + 1] > at[c] - windowSize
    BY <2>3, <2>4, <2>5, <2>6, SizesAssumption
  <2> QED
    BY <2>7 DEF s, L
<1> QED
  BY TypeCorrect, BackedInvariance, WindowsAreFresh, <1>1, PTL
     DEF Spec, NoFalseReject
-----------------------------------------------------------------------------
(* What gets through besides.  A call is late when the counter it waits    *)
(* for, or looks at, is no longer the one in the map.                      *)

Late(c, k) ==
  /\ key[c] = k
  /\ pc[c] \in {"lock", "getLimit"}
  /\ requestCounts[k] # ctr[c]

Sorted(s) == \A i, j \in 1..Len(s) : i <= j => s[i] <= s[j]

(* All but the last m of s are no later than w, and no younger than a      *)
(* window at the time t.                                                   *)
Before(s, m, w) == \A i \in 1..Len(s) - m : s[i] <= w
Aged(s, t) == \A i \in 1..Len(s) - 1 : t - s[i] >= windowSize

(* Before a call can get a second stray through, the counter in the map    *)
(* has been made after the first; before a third, that counter was dropped *)
(* too, more than a window later.                                          *)
StraysAreRare ==
  \A k \in Keys, c \in Calls :
    LET s == strays[k][c]
        n == requestCounts[k]
    IN /\ Past(s, now)
       /\ Sorted(s)
       /\ Spaced(s, 2)
       /\ n # Nil => Before(s, 1, windowStart[n])
       /\ Late(c, k) => /\ n # Nil => Before(s, 0, windowStart[n])
                        /\ Aged(s, now)

LEMMA SortedGrows ==
  ASSUME NEW s \in Seq(Nat), NEW t \in Nat, Past(s, t), Sorted(s)
  PROVE  Past(Append(s, t), t) /\ Sorted(Append(s, t))
<1> DEFINE z == Append(s, t)
<1>1. /\ Len(s) \in Nat
      /\ Len(z) = Len(s) + 1
      /\ z[Len(s) + 1] = t
      /\ \A i \in 1..Len(s) : z[i] = s[i] /\ s[i] \in Nat
  BY AppendProperties
<1> HIDE DEF z
<1>2. \A i \in 1..Len(z) : i \in 1..Len(s) \/ i = Len(s) + 1
  BY <1>1
<1>3. Past(z, t)
  BY <1>1, <1>2 DEF Past
<1>4. Sorted(z)
  <2> SUFFICES ASSUME NEW i \in 1..Len(z), NEW j \in 1..Len(z), i <= j
               PROVE  z[i] <= z[j]
    BY DEF Sorted
  <2>1. CASE j = Len(s) + 1
    BY <1>1, <1>3, <2>1 DEF Past
  <2>2. CASE j \in 1..Len(s)
    <3>1. i \in 1..Len(s)
      BY <1>1, <2>2
    <3>2. s[i] <= s[j]
      BY <2>2, <3>1 DEF Sorted
    <3> QED
      BY <1>1, <2>2, <3>1, <3>2
  <2> QED
    BY <1>2, <2>1, <2>2
<1> QED
  BY <1>3, <1>4 DEF z

LEMMA StrayGrows ==
  ASSUME NEW s \in Seq(Nat), NEW t \in Nat, Spaced(s, 2), Aged(s, t)
  PROVE  /\ Spaced(Append(s, t), 2)
         /\ \A w : Before(s, 0, w) => Before(Append(s, t), 1, w)
<1> DEFINE z == Append(s, t)
<1>1. /\ Len(s) \in Nat
      /\ Len(z) = Len(s) + 1
      /\ z[Len(s) + 1] = t
      /\ \A i \in 1..Len(s) : z[i] = s[i] /\ s[i] \in Nat
  BY AppendProperties
<1> HIDE DEF z
<1>2. ASSUME NEW i \in 1..Len(z) - 2
      PROVE  z[i + 2] - z[i] >= windowSize
  <2>1. CASE i = Len(s) - 1
    <3>1. i \in 1..Len(s) - 1 /\ i \in 1..Len(s) /\ i + 2 = Len(s) + 1
      BY <1>1, <2>1
    <3>2. t - s[i] >= windowSize
      BY <3>1 DEF Aged
    <3> QED
      BY <1>1, <3>1, <3>2
  <2>2. CASE i # Len(s) - 1
    <3>1. i \in 1..Len(s) - 2 /\ i \in 1..Len(s) /\ i + 2 \in 1..Len(s)
      BY <1>1, <2>2
    <3>2. s[i + 2] - s[i] >= windowSize
      BY <3>1 DEF Spaced
    <3> QED
      BY <1>1, <3>1, <3>2
  <2> QED
    BY <2>1, <2>2
<1>3. ASSUME NEW w, Before(s, 0, w)
      PROVE  Before(z, 1, w)
  <2>1. /\ \A i \in 1..Len(z) - 1 : i \in 1..Len(s)
        /\ \A i \in 1..Len(s) : i \in 1..Len(s) - 0
    BY <1>1
  <2> QED
    BY <1>1, <1>3, <2>1 DEF Before
<1> QED
  BY <1>2, <1>3 DEF Spaced, z

(* What is past is before whatever begins now, and time only adds to it.   *)
LEMMA PastIsBefore ==
  ASSUME NEW s \in Seq(Nat), NEW t \in Nat, Past(s, t)
  PROVE  Before(s, 0, t) /\ Before(s, 1, t)
<1>1. Len(s) \in Nat
  OBVIOUS
<1> QED
  BY <1>1 DEF Past, Before

LEMMA BeforeAges ==
  ASSUME NEW s \in Seq(Nat), NEW t \in Nat, NEW w \in 0..t,
         Before(s, 1, w), t - w >= windowSize
  PROVE  Aged(s, t)
<1>1. /\ Len(s) \in Nat
      /\ \A i \in 1..Len(s) : s[i] \in Nat
      /\ \A i \in 1..Len(s) - 1 : i \in 1..Len(s)
  OBVIOUS
<1> QED
  BY <1>1, SizesAssumption DEF Before, Aged

LEMMA TimePasses ==
  ASSUME NEW s \in Seq(Nat), NEW t \in Nat, NEW u \in Nat, t <= u
  PROVE  /\ Past(s, t) => Past(s, u)
         /\ Aged(s, t) => Aged(s, u)
<1>1. /\ Len(s) \in Nat
      /\ \A i \in 1..Len(s) : s[i] \in Nat
      /\ \A i \in 1..Len(s) - 1 : i \in 1..Len(s)
  OBVIOUS
<1>2. Past(s, t) => Past(s, u)
  BY <1>1 DEF Past
<1>3. Aged(s, t) => Aged(s, u)
  BY <1>1, SizesAssumption DEF Aged
<1> QED
  BY <1>2, <1>3

LEMMA StraysUntouched ==
  ASSUME StraysAreRare, UNCHANGED <<now, strays, requestCounts, windowStart>>,
         \A c \in Calls, k \in Keys : Late(c, k)' => Late(c, k)
  PROVE  StraysAreRare'
BY DEF StraysAreRare

LEMMA getCounterStrays ==
  ASSUME TypeOK, StraysAreRare, NEW c \in Calls, getCounter(c)
  PROVE  StraysAreRare'
<1>1. /\ key[c] \in Keys
      /\ UNCHANGED <<now, key, strays>>
      /\ pc' = [pc EXCEPT ![c] = "lock"]
  BY DEF getCounter, TypeOK
<1>2. CASE requestCounts[key[c]] # Nil
  <2>1. /\ ctr' = [ctr EXCEPT ![c] = requestCounts[key[c]]]
        /\ UNCHANGED <<requestCounts, windowStart>>
    BY <1>2 DEF getCounter
  <2>2. ASSUME NEW d \in Calls, NEW k \in Keys, Late(d, k)' PROVE Late(d, k)
    <3>1. d # c
      BY <1>1, <2>1, <2>2 DEF Late, TypeOK
    <3> QED
      BY <1>1, <2>1, <2>2, <3>1 DEF Late, TypeOK
  <2> QED
    BY <1>1, <2>1, <2>2, StraysUntouched
<1>3. CASE requestCounts[key[c]] = Nil
  <2>1. PICK n \in FreeCounters :
          /\ requestCounts' = [requestCounts EXCEPT ![key[c]] = n]
          /\ windowStart' = [windowStart EXCEPT ![n] = now]
          /\ ctr' = [ctr EXCEPT ![c] = n]
    BY <1>3 DEF getCounter
  <2>2. /\ n \in Counters
        /\ \A k \in Keys : requestCounts[k] # n
    BY FreeIsUnreferenced
  <2>3. ASSUME NEW d \in Calls, NEW k \in Keys, Late(d, k)' PROVE Late(d, k)
    <3>1. d # c
      BY <1>1, <2>1, <2>2, <2>3 DEF Late, TypeOK
    <3>2. /\ key[d] = k
          /\ pc[d] \in {"lock", "getLimit"}
          /\ requestCounts'[k] # ctr[d]
      BY <1>1, <2>1, <2>3, <3>1 DEF Late, TypeOK
    <3>3. ctr[d] # Nil
      BY <3>2 DEF TypeOK
    <3> QED
      BY <1>3, <2>1, <3>2, <3>3 DEF Late, TypeOK
  <2> SUFFICES ASSUME NEW k \in Keys, NEW d \in Calls
               PROVE  LET s == strays[k][d]
                          m == requestCounts'[k]
                      IN /\ m # Nil => Before(s, 1, windowStart'[m])
                         /\ Late(d, k) /\ m # Nil => Before(s, 0, windowStart'[m])
    BY <1>1, <2>3 DEF StraysAreRare
  <2>4. CASE k = key[c]
    <3>1. requestCounts'[k] = n /\ windowStart'[n] = now
      BY <2>1, <2>2, <2>4 DEF TypeOK
    <3>2. Past(strays[k][d], now)
      BY DEF StraysAreRare
    <3> QED
      BY <3>1, <3>2, TypesOfAKey, PastIsBefore
  <2>5. CASE k # key[c]
    <3>1. requestCounts'[k] = requestCounts[k] /\ requestCounts[k] # n
      BY <2>1, <2>2, <2>5 DEF TypeOK
    <3>2. requestCounts[k] # Nil =>
            windowStart'[requestCounts[k]] = windowStart[requestCounts[k]]
      BY <2>1, <3>1 DEF TypeOK
    <3> QED
      BY <3>1, <3>2 DEF StraysAreRare
  <2> QED
    BY <2>4, <2>5
<1> QED
  BY <1>2, <1>3

LEMMA LockStrays ==
  ASSUME TypeOK, StraysAreRare, NEW c \in Calls, Lock(c)
  PROVE  StraysAreRare'
<1>1. UNCHANGED <<now, strays, requestCounts, key, ctr>>
  BY DEF Lock
<1>2. ASSUME NEW d \in Calls, NEW k \in Keys, Late(d, k)' PROVE Late(d, k)
  BY <1>1, <1>2 DEF Lock, Late, TypeOK
<1>3. CASE now - windowStart[ctr[c]] >= windowSize
  <2>1. windowStart' = [windowStart EXCEPT ![ctr[c]] = now]
    BY <1>3 DEF Lock, ResetWindow
  <2> SUFFICES ASSUME NEW k \in Keys, NEW d \in Calls, requestCounts[k] # Nil
               PROVE  LET s == strays[k][d]
                          n == requestCounts[k]
                      IN /\ Before(s, 1, windowStart'[n])
                         /\ Late(d, k) => Before(s, 0, windowStart'[n])
    BY <1>1, <1>2 DEF StraysAreRare
  <2>2. CASE requestCounts[k] = ctr[c]
    <3>1. windowStart'[requestCounts[k]] = now
      BY <2>1, <2>2, TypesOfAKey DEF TypeOK
    <3>2. Past(strays[k][d], now)
      BY DEF StraysAreRare
    <3> QED
      BY <3>1, <3>2, TypesOfAKey, PastIsBefore
  <2>3. CASE requestCounts[k] # ctr[c]
    <3>1. windowStart'[requestCounts[k]] = windowStart[requestCounts[k]]
      BY <2>1, <2>3, TypesOfAKey DEF TypeOK
    <3> QED
      BY <3>1 DEF StraysAreRare
  <2> QED
    BY <2>2, <2>3
<1>4. CASE ~(now - windowStart[ctr[c]] >= windowSize)
  BY <1>1, <1>2, <1>4, StraysUntouched DEF Lock, ResetWindow
<1> QED
  BY <1>3, <1>4

LEMMA AdmitStrays ==
  ASSUME TypeOK, StraysAreRare, NEW c \in Calls, Admit(c)
  PROVE  StraysAreRare'
<1>1. /\ key[c] \in Keys
      /\ UNCHANGED <<now, requestCounts, windowStart, key, ctr>>
  BY DEF Admit, TypeOK
<1>2. ASSUME NEW d \in Calls, NEW k \in Keys, Late(d, k)' PROVE Late(d, k) /\ d # c
  BY <1>1, <1>2 DEF Admit, Late, TypeOK
<1>3. CASE Stray(c)
  <2>1. strays' = [strays EXCEPT ![key[c]][c] = Append(@, now)]
    BY <1>3, Zenon DEF Admit
  <2>2. Late(c, key[c])
    BY <1>3 DEF Admit, Stray, Late
  <2> SUFFICES ASSUME NEW k \in Keys, NEW d \in Calls
               PROVE  LET s == strays'[k][d]
                          n == requestCounts[k]
                      IN /\ Past(s, now)
                         /\ Sorted(s)
                         /\ Spaced(s, 2)
                         /\ n # Nil => Before(s, 1, windowStart[n])
                         /\ Late(d, k) /\ d # c =>
                              /\ n # Nil => Before(s, 0, windowStart[n])
                              /\ Aged(s, now)
    BY <1>1, <1>2 DEF StraysAreRare
  <2>3. CASE k = key[c] /\ d = c
    <3>1. strays'[k][d] = Append(strays[k][d], now)
      BY <2>1, <2>3 DEF TypeOK
    <3>2. /\ Past(strays[k][d], now)
          /\ Sorted(strays[k][d])
          /\ Spaced(strays[k][d], 2)
          /\ Aged(strays[k][d], now)
          /\ requestCounts[k] # Nil =>
               Before(strays[k][d], 0, windowStart[requestCounts[k]])
      BY <2>2, <2>3 DEF StraysAreRare
    <3>3. strays[k][d] \in Seq(Nat) /\ now \in Nat
      BY TypesOfAKey
    <3>4. /\ Past(Append(strays[k][d], now), now)
          /\ Sorted(Append(strays[k][d], now))
      BY <3>2, <3>3, SortedGrows
    <3>5. /\ Spaced(Append(strays[k][d], now), 2)
          /\ requestCounts[k] # Nil =>
               Before(Append(strays[k][d], now), 1, windowStart[requestCounts[k]])
      BY <3>2, <3>3, StrayGrows
    <3> QED
      BY <2>3, <3>1, <3>4, <3>5
  <2>4. CASE ~(k = key[c] /\ d = c)
    <3>1. strays'[k][d] = strays[k][d]
      BY <2>1, <2>4 DEF TypeOK
    <3> QED
      BY <3>1 DEF StraysAreRare
  <2> QED
    BY <2>3, <2>4
<1>4. CASE ~Stray(c)
  <2>1. strays' = strays
    BY <1>4, Zenon DEF Admit
  <2> QED
    BY <1>1, <1>2, <2>1, StraysUntouched
<1> QED
  BY <1>3, <1>4

LEMMA cleanupVisitStrays ==
  ASSUME TypeOK, CountersAreUnshared, StraysAreRare, NEW j \in Keys, cleanupVisit(j)
  PROVE  StraysAreRare'
<1>1. UNCHANGED <<now, strays, windowStart, key, ctr, pc>>
  BY DEF cleanupVisit, callVars
<1>2. CASE Expired(requestCounts[j])
  <2>1. /\ requestCounts' = [requestCounts EXCEPT ![j] = Nil]
        /\ requestCounts[j] # Nil
    BY <1>2 DEF cleanupVisit, CountersAreUnshared
  <2>2. ASSUME NEW k \in Keys, k # j
        PROVE  requestCounts'[k] = requestCounts[k]
    BY <2>1, <2>2 DEF TypeOK
  <2>3. requestCounts'[j] = Nil
    BY <2>1 DEF TypeOK
  <2>4. \A d \in Calls : Aged(strays[j][d], now)
    <3>1. now - windowStart[requestCounts[j]] >= windowSize
      <4>1. sweepAt - windowStart[requestCounts[j]] > cleanupInterval
        BY <1>2 DEF Expired
      <4>2. sweepAt \in Nat /\ sweepAt <= now
        BY SizesAssumption DEF TypeOK
      <4> QED
        BY <2>1, <4>1, <4>2, TypesOfAKey, SizesAssumption
    <3>2. \A d \in Calls : Before(strays[j][d], 1, windowStart[requestCounts[j]])
      BY <2>1 DEF StraysAreRare
    <3> QED
      BY <2>1, <3>1, <3>2, TypesOfAKey, BeforeAges
  <2>5. ASSUME NEW k \in Keys, NEW d \in Calls, k # j
        PROVE  Late(d, k)' => Late(d, k)
    BY <1>1, <2>2, <2>5 DEF Late
  <2> SUFFICES ASSUME NEW k \in Keys, NEW d \in Calls
               PROVE  LET s == strays[k][d]
                          n == requestCounts'[k]
                      IN /\ n # Nil => Before(s, 1, windowStart[n])
                         /\ Late(d, k)' => /\ n # Nil => Before(s, 0, windowStart[n])
                                           /\ Aged(s, now)
    BY <1>1 DEF StraysAreRare
  <2>6. CASE k = j
    BY <2>3, <2>4, <2>6
  <2>7. CASE k # j
    BY <2>2, <2>5, <2>7 DEF StraysAreRare
  <2> QED
    BY <2>6, <2>7
<1>3. CASE ~Expired(requestCounts[j])
  <2>1. requestCounts' = requestCounts
    BY <1>3 DEF cleanupVisit
  <2>2. \A d \in Calls, k \in Keys : Late(d, k)' => Late(d, k)
    BY <1>1, <2>1 DEF Late
  <2> QED
    BY <1>1, <2>1, <2>2, StraysUntouched
<1> QED
  BY <1>2, <1>3

LEMMA TickStrays ==
  ASSUME TypeOK, StraysAreRare, Tick
  PROVE  StraysAreRare'
<1>1. UNCHANGED <<strays, requestCounts, windowStart, key, ctr, pc>>
  BY DEF Tick, limiterVars, callVars
<1>2. now \in Nat /\ now' \in Nat /\ now <= now'
  BY SizesAssumption DEF Tick, TypeOK
<1>3. \A d \in Calls, k \in Keys : Late(d, k)' => Late(d, k)
  BY <1>1 DEF Late
<1> SUFFICES ASSUME NEW k \in Keys, NEW d \in Calls
             PROVE  /\ Past(strays[k][d], now')
                    /\ Late(d, k) => Aged(strays[k][d], now')
  BY <1>1, <1>3 DEF StraysAreRare
<1>4. /\ Past(strays[k][d], now)
      /\ Late(d, k) => Aged(strays[k][d], now)
  BY DEF StraysAreRare
<1> QED
  BY <1>2, <1>4, TypesOfAKey, TimePasses

(* StraysAreRare is inductive relative to IInv.                            *)
THEOREM StraysInvariance == Spec => []StraysAreRare
<1>1. Init => StraysAreRare
  <2> SUFFICES ASSUME Init PROVE StraysAreRare
    OBVIOUS
  <2>1. Len(<<>>) = 0
    OBVIOUS
  <2>2. Past(<<>>, now) /\ Sorted(<<>>) /\ Spaced(<<>>, 2)
    BY <2>1 DEF Past, Sorted, Spaced
  <2>3. ASSUME NEW k \in Keys, NEW c \in Calls
        PROVE  strays[k][c] = <<>> /\ requestCounts[k] = Nil /\ ~Late(c, k)
    BY DEF Init, Late
  <2> QED
    BY <2>2, <2>3 DEF StraysAreRare
<1>2. IInv /\ StraysAreRare /\ [Next]_vars => StraysAreRare'
  <2> SUFFICES ASSUME IInv, StraysAreRare, [Next]_vars PROVE StraysAreRare'
    OBVIOUS
  <2> USE DEF IInv
  <2>1. ASSUME NEW c \in Calls, Arrive(c) PROVE StraysAreRare'
    <3>1. \A d \in Calls, k \in Keys : Late(d, k)' => Late(d, k)
      BY <2>1 DEF Arrive, Late, limiterVars, TypeOK
    <3> QED
      BY <2>1, <3>1, StraysUntouched DEF Arrive, limiterVars
  <2>2. ASSUME NEW c \in Calls, getCounter(c) \/ Lock(c) \/ Admit(c)
        PROVE  StraysAreRare'
    BY <2>2, getCounterStrays, LockStrays, AdmitStrays
  <2>3. ASSUME NEW c \in Calls, Reject(c) \/ Finish(c) PROVE StraysAreRare'
    <3>1. \A d \in Calls, k \in Keys : Late(d, k)' => Late(d, k)
      BY <2>3 DEF Reject, Finish, Return, Late, TypeOK
    <3> QED
      BY <2>3, <3>1, StraysUntouched DEF Reject, Finish
  <2>4. CASE \E k \in Keys : cleanupVisit(k)
    BY <2>4, cleanupVisitStrays
  <2>5. CASE Tick
    BY <2>5, TickStrays
  <2>6. CASE cleanupStart \/ cleanupEnd \/ Stop \/ UNCHANGED vars
    BY <2>6, StraysUntouched
       DEF cleanupStart, cleanupEnd, Stop, vars, limiterVars, callVars, Late
  <2> QED
    BY <2>1, <2>2, <2>3, <2>4, <2>5, <2>6 DEF Next, Middleware, cleanup
<1> QED
  BY Invariance, <1>1, <1>2, PTL DEF Spec
-----------------------------------------------------------------------------
(* All together.  The calls of a key fall into lanes: those the counter in *)
(* the map counted (the lane Nil), and for every call its strays.          *)

Lanes == Calls \cup {Nil}

LanesOf(k) == [l \in Lanes |-> IF l = Nil THEN counted[k] ELSE strays[k][l]]

(* s is a merge of the lanes y: its i-th entry is entry nth[i] of the lane *)
(* who[i], and no entry is taken twice.                                    *)
Numbered(s, y, who, nth) ==
  /\ \A i \in 1..Len(s) : nth[i] \in 1..Len(y[who[i]]) /\ s[i] = y[who[i]][nth[i]]
  /\ \A i, j \in 1..Len(s) : who[i] = who[j] /\ nth[i] = nth[j] => i = j

Merged(s, y) ==
  \E who \in [1..Len(s) -> Lanes], nth \in [1..Len(s) -> Nat] :
    Numbered(s, y, who, nth)

AllInLanes ==
  \A k \in Keys : /\ Past(admissions[k], now) /\ Sorted(admissions[k])
                  /\ Past(counted[k], now) /\ Sorted(counted[k])
                  /\ Merged(admissions[k], LanesOf(k))

LEMMA MergeGrows ==
  ASSUME NEW s \in Seq(Nat), NEW y \in [Lanes -> Seq(Nat)], NEW l \in Lanes,
         NEW t \in Nat, Merged(s, y)
  PROVE  \A x : /\ x[l] = Append(y[l], t)
                /\ \A m \in Lanes : m # l => x[m] = y[m]
                => Merged(Append(s, t), x)
<1> SUFFICES ASSUME NEW x, x[l] = Append(y[l], t),
                    \A m \in Lanes : m # l => x[m] = y[m]
             PROVE  Merged(Append(s, t), x)
  OBVIOUS
<1> DEFINE z == Append(s, t)
           p == Len(y[l]) + 1
<1>1. PICK who \in [1..Len(s) -> Lanes], nth \in [1..Len(s) -> Nat] :
        Numbered(s, y, who, nth)
  BY DEF Merged
<1> DEFINE who2 == [i \in 1..Len(z) |-> IF i = Len(s) + 1 THEN l ELSE who[i]]
           nth2 == [i \in 1..Len(z) |-> IF i = Len(s) + 1 THEN p ELSE nth[i]]
<1>2. /\ Len(s) \in Nat
      /\ Len(z) = Len(s) + 1
      /\ z[Len(s) + 1] = t
      /\ \A i \in 1..Len(s) : z[i] = s[i]
  BY AppendProperties
<1>3. y[l] \in Seq(Nat) /\ p \in Nat
  OBVIOUS
<1>4. /\ Len(x[l]) = p
      /\ x[l][p] = t
      /\ \A i \in 1..Len(y[l]) : x[l][i] = y[l][i]
  BY <1>3, AppendProperties
<1>5. \A m \in Lanes : m # l => x[m] = y[m]
  OBVIOUS
<1>6. \A m \in Lanes : Len(y[m]) \in Nat
  OBVIOUS
<1> HIDE DEF z
<1>7. /\ 1..Len(z) = (1..Len(s)) \cup {Len(s) + 1}
      /\ Len(s) + 1 \notin 1..Len(s)
  BY <1>2
<1>8. /\ who2 \in [1..Len(z) -> Lanes]
      /\ nth2 \in [1..Len(z) -> Nat]
  <2>1. \A i \in 1..Len(z) : who2[i] \in Lanes /\ nth2[i] \in Nat
    BY <1>3, <1>7
  <2> QED
    BY <2>1
<1>9. /\ who2[Len(s) + 1] = l
      /\ nth2[Len(s) + 1] = p
      /\ \A i \in 1..Len(s) : who2[i] = who[i] /\ nth2[i] = nth[i]
  BY <1>7
<1> HIDE DEF who2, nth2
<1>10. ASSUME NEW i \in 1..Len(s)
       PROVE  /\ nth[i] \in 1..Len(y[who[i]])
              /\ nth[i] \in 1..Len(x[who[i]])
              /\ z[i] = x[who[i]][nth[i]]
  <2>1. /\ nth[i] \in 1..Len(y[who[i]])
        /\ s[i] = y[who[i]][nth[i]]
    BY <1>1 DEF Numbered
  <2>2. CASE who[i] = l
    <3>1. nth[i] \in 1..Len(y[l])
      BY <2>1, <2>2
    <3>2. nth[i] \in 1..p
      BY <1>3, <3>1
    <3> HIDE DEF p
    <3> QED
      BY <1>2, <1>4, <2>1, <2>2, <3>1, <3>2
  <2>3. CASE who[i] # l
    <3>1. x[who[i]] = y[who[i]]
      BY <1>5, <2>3
    <3> QED
      BY <1>2, <2>1, <3>1
  <2> QED
    BY <2>2, <2>3
<1>11. \A i \in 1..Len(z) : nth2[i] \in 1..Len(x[who2[i]]) /\ z[i] = x[who2[i]][nth2[i]]
  <2>1. p \in 1..p
    BY <1>3, <1>6
  <2> HIDE DEF p
  <2>2. /\ nth2[Len(s) + 1] \in 1..Len(x[who2[Len(s) + 1]])
        /\ z[Len(s) + 1] = x[who2[Len(s) + 1]][nth2[Len(s) + 1]]
    BY <1>2, <1>4, <1>9, <2>1
  <2>3. \A i \in 1..Len(s) : /\ nth2[i] \in 1..Len(x[who2[i]])
                             /\ z[i] = x[who2[i]][nth2[i]]
    BY <1>9, <1>10
  <2> QED
    BY <1>7, <2>2, <2>3
<1>12. ASSUME NEW i \in 1..Len(z), NEW j \in 1..Len(z),
              who2[i] = who2[j], nth2[i] = nth2[j]
       PROVE  i = j
  <2>1. ASSUME NEW m \in 1..Len(s) PROVE ~(who[m] = l /\ nth[m] = p)
    <3>1. nth[m] \in 1..Len(y[who[m]])
      BY <1>10
    <3> QED
      BY <1>3, <1>6, <3>1
  <2>2. CASE i \in 1..Len(s) /\ j \in 1..Len(s)
    BY <1>1, <1>9, <1>12, <2>2 DEF Numbered
  <2>3. CASE ~(i \in 1..Len(s) /\ j \in 1..Len(s))
    BY <1>7, <1>9, <1>12, <2>1, <2>3
  <2> QED
    BY <2>2, <2>3
<1>13. Numbered(z, x, who2, nth2)
  BY <1>11, <1>12 DEF Numbered
<1>14. Merged(z, x)
  BY <1>8, <1>13 DEF Merged
<1> QED
  BY <1>14 DEF z

LEMMA TypesOfLanes ==
  ASSUME TypeOK, NEW k \in Keys
  PROVE  /\ LanesOf(k) \in [Lanes -> Seq(Nat)]
         /\ LanesOf(k)[Nil] = counted[k]
         /\ \A c \in Calls : LanesOf(k)[c] = strays[k][c]
BY TypesOfAKey, NilAssumption DEF LanesOf, Lanes
LEMMA AdmitInLanes ==
  ASSUME TypeOK, AllInLanes, NEW c \in Calls, Admit(c)
  PROVE  AllInLanes'
<1>1. /\ key[c] \in Keys
      /\ admissions' = [admissions EXCEPT ![key[c]] = Append(@, now)]
      /\ now' = now
  BY DEF Admit, TypeOK
<1>2. PICK l \in Lanes :
        \A k \in Keys :
          /\ k = key[c] => /\ LanesOf(k)'[l] = Append(LanesOf(k)[l], now)
                           /\ \A m \in Lanes : m # l => LanesOf(k)'[m] = LanesOf(k)[m]
          /\ k # key[c] => LanesOf(k)' = LanesOf(k)
          /\ counted'[k] \in {counted[k], Append(counted[k], now)}
  <2>1. CASE Stray(c)
    <3>1. /\ counted' = counted
          /\ strays' = [strays EXCEPT ![key[c]][c] = Append(@, now)]
      BY <2>1, Zenon DEF Admit
    <3>2. /\ c \in Lanes /\ c # Nil
          /\ \A m \in Lanes : m = Nil \/ m \in Calls
      BY NilAssumption DEF Lanes
    <3>3. ASSUME NEW k \in Keys, NEW d \in Calls
          PROVE  strays'[k][d] = IF k = key[c] /\ d = c THEN Append(strays[k][d], now)
                                 ELSE strays[k][d]
      BY <3>1 DEF TypeOK
    <3>4. ASSUME NEW k \in Keys
          PROVE  /\ LanesOf(k)'[Nil] = LanesOf(k)[Nil]
                 /\ \A d \in Calls : LanesOf(k)'[d] = strays'[k][d] /\ LanesOf(k)[d] = strays[k][d]
      BY <3>1, NilAssumption DEF LanesOf, Lanes
    <3>5. ASSUME NEW k \in Keys, k # key[c]
          PROVE  LanesOf(k)' = LanesOf(k)
      <4>1. \A d \in Calls : strays'[k][d] = strays[k][d]
        BY <3>3, <3>5
      <4> QED
        BY <3>1, <4>1 DEF LanesOf, Lanes
    <3>6. \A k \in Keys :
            /\ k = key[c] => /\ LanesOf(k)'[c] = Append(LanesOf(k)[c], now)
                             /\ \A m \in Lanes : m # c => LanesOf(k)'[m] = LanesOf(k)[m]
            /\ k # key[c] => LanesOf(k)' = LanesOf(k)
            /\ counted'[k] \in {counted[k], Append(counted[k], now)}
      <4> SUFFICES ASSUME NEW k \in Keys
                   PROVE  k = key[c] =>
                            /\ LanesOf(k)'[c] = Append(LanesOf(k)[c], now)
                            /\ \A m \in Lanes : m # c => LanesOf(k)'[m] = LanesOf(k)[m]
        BY <3>1, <3>5
      <4> QED
        BY <3>2, <3>3, <3>4
    <3> QED
      BY <3>2, <3>6, Zenon
  <2>2. CASE ~Stray(c)
    <3>1. /\ counted' = [counted EXCEPT ![key[c]] = Append(@, now)]
          /\ strays' = strays
      BY <2>2, Zenon DEF Admit
    <3>2. /\ Nil \in Lanes
          /\ \A m \in Lanes : m = Nil \/ m \in Calls
      BY DEF Lanes
    <3>3. ASSUME NEW k \in Keys
          PROVE  counted'[k] = IF k = key[c] THEN Append(counted[k], now) ELSE counted[k]
      BY <3>1 DEF TypeOK
    <3>4. ASSUME NEW k \in Keys
          PROVE  /\ LanesOf(k)'[Nil] = counted'[k] /\ LanesOf(k)[Nil] = counted[k]
                 /\ \A d \in Calls : LanesOf(k)'[d] = LanesOf(k)[d]
      BY <3>1, NilAssumption DEF LanesOf, Lanes
    <3>5. ASSUME NEW k \in Keys, k # key[c]
          PROVE  LanesOf(k)' = LanesOf(k)
      BY <3>1, <3>3, <3>5 DEF LanesOf
    <3>6. \A k \in Keys :
            /\ k = key[c] => /\ LanesOf(k)'[Nil] = Append(LanesOf(k)[Nil], now)
                             /\ \A m \in Lanes : m # Nil => LanesOf(k)'[m] = LanesOf(k)[m]
            /\ k # key[c] => LanesOf(k)' = LanesOf(k)
            /\ counted'[k] \in {counted[k], Append(counted[k], now)}
      <4> SUFFICES ASSUME NEW k \in Keys
                   PROVE  k = key[c] =>
                            /\ LanesOf(k)'[Nil] = Append(LanesOf(k)[Nil], now)
                            /\ \A m \in Lanes : m # Nil => LanesOf(k)'[m] = LanesOf(k)[m]
        BY <3>3, <3>5
      <4> QED
        BY <3>2, <3>3, <3>4
    <3> QED
      BY <3>2, <3>6, Zenon
  <2> QED
    BY <2>1, <2>2
<1> SUFFICES ASSUME NEW k \in Keys
             PROVE  /\ Past(admissions'[k], now) /\ Sorted(admissions'[k])
                    /\ Past(counted'[k], now) /\ Sorted(counted'[k])
                    /\ Merged(admissions'[k], LanesOf(k)')
  BY <1>1 DEF AllInLanes
<1>3. /\ Past(admissions[k], now) /\ Sorted(admissions[k])
      /\ Past(counted[k], now) /\ Sorted(counted[k])
      /\ Merged(admissions[k], LanesOf(k))
  BY DEF AllInLanes
<1>4. /\ now \in Nat
      /\ admissions[k] \in Seq(Nat)
      /\ counted[k] \in Seq(Nat)
      /\ LanesOf(k) \in [Lanes -> Seq(Nat)]
  BY TypesOfAKey, TypesOfLanes
<1>5. Past(counted'[k], now) /\ Sorted(counted'[k])
  <2>1. /\ Past(Append(counted[k], now), now)
        /\ Sorted(Append(counted[k], now))
    BY <1>3, <1>4, SortedGrows
  <2> QED
    BY <1>2, <1>3, <2>1
<1>6. CASE k = key[c]
  <2>1. admissions'[k] = Append(admissions[k], now)
    BY <1>1, <1>6 DEF TypeOK
  <2>2. /\ Past(Append(admissions[k], now), now)
        /\ Sorted(Append(admissions[k], now))
    BY <1>3, <1>4, SortedGrows
  <2>3. Merged(Append(admissions[k], now), LanesOf(k)')
    <3> DEFINE x == LanesOf(k)'
    <3>1. /\ x[l] = Append(LanesOf(k)[l], now)
          /\ \A m \in Lanes : m # l => x[m] = LanesOf(k)[m]
      BY <1>2, <1>6
    <3> HIDE DEF x
    <3>2. Merged(Append(admissions[k], now), x)
      <4> DEFINE a == admissions[k]
                 y == LanesOf(k)
      <4> HIDE DEF a, y
      <4>1. a \in Seq(Nat) /\ y \in [Lanes -> Seq(Nat)] /\ Merged(a, y)
        BY <1>3, <1>4 DEF a, y
      <4>2. /\ x[l] = Append(y[l], now)
            /\ \A m \in Lanes : m # l => x[m] = y[m]
        BY <3>1 DEF y
      <4>3. now \in Nat /\ l \in Lanes
        BY <1>4
      <4>4. Merged(Append(a, now), x)
        BY <4>1, <4>2, <4>3, MergeGrows, SMTT(20)
      <4> QED
        BY <4>4 DEF a
    <3> QED
      BY <3>2 DEF x
  <2> QED
    BY <1>5, <2>1, <2>2, <2>3
<1>7. CASE k # key[c]
  BY <1>1, <1>2, <1>3, <1>5, <1>7 DEF TypeOK
<1> QED
  BY <1>6, <1>7

(* Every call that gets through is in one lane, and only there.            *)
THEOREM LanesInvariance == Spec => []AllInLanes
<1>1. Init => AllInLanes
  <2> SUFFICES ASSUME Init PROVE AllInLanes
    OBVIOUS
  <2>1. Len(<<>>) = 0 /\ 1..Len(<<>>) = {}
    OBVIOUS
  <2>2. Past(<<>>, now) /\ Sorted(<<>>)
    BY <2>1 DEF Past, Sorted
  <2>3. ASSUME NEW y PROVE Merged(<<>>, y)
    <3>1. PICK who \in [1..Len(<<>>) -> Lanes], nth \in [1..Len(<<>>) -> Nat] : TRUE
      <4>1. /\ [i \in 1..Len(<<>>) |-> Nil] \in [1..Len(<<>>) -> Lanes]
            /\ [i \in 1..Len(<<>>) |-> 0] \in [1..Len(<<>>) -> Nat]
        BY DEF Lanes
      <4> QED
        BY <4>1, Zenon
    <3>2. Numbered(<<>>, y, who, nth)
      BY <2>1 DEF Numbered
    <3> QED
      BY <3>1, <3>2, Zenon DEF Merged
  <2>4. \A k \in Keys : admissions[k] = <<>> /\ counted[k] = <<>>
    BY DEF Init
  <2> QED
    BY <2>2, <2>3, <2>4 DEF AllInLanes
<1>2. TypeOK /\ AllInLanes /\ [Next]_vars => AllInLanes'
  <2> SUFFICES ASSUME TypeOK, AllInLanes, [Next]_vars PROVE AllInLanes'
    OBVIOUS
  <2>1. ASSUME UNCHANGED <<now, history>> PROVE AllInLanes'
    BY <2>1 DEF AllInLanes, LanesOf
  <2>2. ASSUME NEW c \in Calls, Admit(c) PROVE AllInLanes'
    BY <2>2, AdmitInLanes
  <2>3. ASSUME NEW c \in Calls,
               Arrive(c) \/ getCounter(c) \/ Lock(c) \/ Reject(c) \/ Finish(c)
        PROVE  AllInLanes'
    BY <2>1, <2>3 DEF Arrive, getCounter, Lock, Reject, Finish
  <2>4. CASE Tick
    <3>1. UNCHANGED <<admissions, counted, strays>>
      BY <2>4 DEF Tick
    <3>2. now \in Nat /\ now' \in Nat /\ now <= now'
      BY <2>4, SizesAssumption DEF Tick, TypeOK
    <3>3. \A k \in Keys : Past(admissions[k], now') /\ Past(counted[k], now')
      BY <3>2, TypesOfAKey, TimePasses DEF AllInLanes
    <3>4. \A k \in Keys : LanesOf(k)' = LanesOf(k)
      BY <3>1 DEF LanesOf
    <3> QED
      BY <3>1, <3>3, <3>4 DEF AllInLanes
  <2>5. CASE cleanup \/ Stop \/ UNCHANGED vars
    BY <2>1, <2>5 DEF cleanup, cleanupStart, cleanupVisit, cleanupEnd, Stop, vars
  <2> QED
    BY <2>2, <2>3, <2>4, <2>5 DEF Next, Middleware
<1> QED
  BY TypeCorrect, <1>1, <1>2, PTL DEF Spec

-----------------------------------------------------------------------------
(* Counting.  Two entries of a lane of which no more than d in a row are   *)
(* less than a window apart are a window apart when their positions differ *)
(* and are equal modulo d.  So less than a window holds at most as many    *)
(* entries as there are pairs of a lane and a remainder.                   *)

LEMMA EqualRemainders ==
  ASSUME NEW a \in Nat, NEW b \in Nat, NEW d \in Nat \ {0}, a < b, a % d = b % d
  PROVE  a + d <= b
<1> DEFINE r == a % d
           m == a \div d
           n == b \div d
<1>1. m \in Int /\ n \in Int /\ r \in Int /\ d \in Int /\ d > 0
  OBVIOUS
<1>2. a = d * m + r /\ b = d * n + r
  OBVIOUS
<1> HIDE DEF r, m, n
<1>3. n > m
  <2> SUFFICES ASSUME n <= m PROVE FALSE
    BY <1>1
  <2>1. d * n <= d * m
    BY <1>1
  <2> QED
    BY <1>1, <1>2, <2>1
<1>4. d * n >= d * (m + 1) /\ d * (m + 1) = d * m + d
  BY <1>1, <1>3
<1> QED
  BY <1>1, <1>2, <1>4

LEMMA LaneApart ==
  ASSUME NEW s \in Seq(Nat), NEW d \in Nat \ {0}, Sorted(s), Spaced(s, d),
         NEW a \in 1..Len(s), NEW b \in 1..Len(s), a < b, a % d = b % d
  PROVE  s[b] - s[a] >= windowSize
<1>1. /\ Len(s) \in Nat
      /\ \A i \in 1..Len(s) : s[i] \in Nat
  OBVIOUS
<1>2. a \in Nat /\ b \in Nat
  BY <1>1
<1>3. a + d <= b
  BY <1>2, EqualRemainders
<1>4. a \in 1..Len(s) - d /\ a + d \in 1..Len(s)
  BY <1>1, <1>3
<1>5. s[a + d] - s[a] >= windowSize
  BY <1>4 DEF Spaced
<1>6. s[a + d] <= s[b]
  BY <1>3, <1>4 DEF Sorted
<1> QED
  BY <1>1, <1>4, <1>5, <1>6, SizesAssumption, SMTT(20)

Period(l, L) == IF l = Nil THEN 2 * L ELSE 2

Tags(L) == (({Nil} \X (0..2 * L - 1)) \cup (Calls \X (0..1)))

LEMMA NumberOfTags ==
  ASSUME NEW L \in Nat \ {0}
  PROVE  /\ IsFiniteSet(Tags(L))
         /\ Cardinality(Tags(L)) <= 2 * L + 2 * Cardinality(Calls)
         /\ Cardinality(Tags(L)) \in Nat
         /\ Cardinality(Calls) \in Nat
<1> DEFINE A == {Nil} \X (0..2 * L - 1)
           B == Calls \X (0..1)
<1>1. Cardinality(Calls) \in Nat
  BY CallsAssumption, FS_CardinalityType
<1>2. IsFiniteSet(0..2 * L - 1) /\ Cardinality(0..2 * L - 1) = 2 * L
  <2>1. /\ 0 \in Int /\ 2 * L - 1 \in Int
        /\ ~(0 > 2 * L - 1)
        /\ 2 * L - 1 - 0 + 1 = 2 * L
    OBVIOUS
  <2> HIDE DEF A, B
  <2>2. Cardinality(0..2 * L - 1) = IF 0 > 2 * L - 1 THEN 0 ELSE 2 * L - 1 - 0 + 1
    BY <2>1, FS_Interval, Zenon
  <2>3. IsFiniteSet(0..2 * L - 1)
    BY <2>1, FS_Interval, Zenon
  <2> QED
    BY <2>1, <2>2, <2>3
<1>3. IsFiniteSet(0..1) /\ Cardinality(0..1) = 2
  <2>1. 0 \in Int /\ 1 \in Int /\ ~(0 > 1) /\ 1 - 0 + 1 = 2
    OBVIOUS
  <2>2. Cardinality(0..1) = IF 0 > 1 THEN 0 ELSE 1 - 0 + 1
    BY <2>1, FS_Interval, Zenon
  <2>3. IsFiniteSet(0..1)
    BY <2>1, FS_Interval, Zenon
  <2> QED
    BY <2>1, <2>2, <2>3
<1>4. IsFiniteSet({Nil}) /\ Cardinality({Nil}) = 1
  BY FS_Singleton
<1>5. IsFiniteSet(A) /\ Cardinality(A) = 2 * L
  <2>1. Cardinality(A) = 1 * Cardinality(0..2 * L - 1)
    BY <1>2, <1>4, FS_Product
  <2> QED
    BY <1>2, <1>4, <2>1, FS_Product
<1>6. IsFiniteSet(B) /\ Cardinality(B) = 2 * Cardinality(Calls)
  <2>1. Cardinality(B) = Cardinality(Calls) * 2
    BY <1>3, CallsAssumption, FS_Product
  <2> QED
    BY <1>1, <1>3, <2>1, CallsAssumption, FS_Product
<1> HIDE DEF A, B
<1>7. /\ IsFiniteSet(A \cup B)
      /\ Cardinality(A \cup B) = Cardinality(A) + Cardinality(B) - Cardinality(A \cap B)
  BY <1>5, <1>6, FS_Union
<1>8. Cardinality(A \cap B) \in Nat
  BY <1>5, FS_Intersection, FS_CardinalityType
<1>9. Cardinality(A \cup B) \in Nat
  BY <1>7, FS_CardinalityType
<1>10. Tags(L) = A \cup B
  BY DEF Tags, A, B
<1>11. Cardinality(A \cup B) <= 2 * L + 2 * Cardinality(Calls)
  BY <1>1, <1>5, <1>6, <1>7, <1>8, <1>9
<1> QED
  BY <1>1, <1>7, <1>9, <1>10, <1>11

LEMMA MergeSpaced ==
  ASSUME NEW s \in Seq(Nat), NEW y \in [Lanes -> Seq(Nat)], NEW L \in Nat \ {0},
         Sorted(s), Merged(s, y),
         \A l \in Lanes : Sorted(y[l]) /\ Spaced(y[l], Period(l, L))
  PROVE  Spaced(s, 2 * L + 2 * Cardinality(Calls))
<1> DEFINE B == 2 * L + 2 * Cardinality(Calls)
<1>1. B \in Nat
  <2>1. Cardinality(Calls) \in Nat
    BY NumberOfTags
  <2> QED
    BY <2>1
<1>2. PICK who \in [1..Len(s) -> Lanes], nth \in [1..Len(s) -> Nat] :
        Numbered(s, y, who, nth)
  BY DEF Merged
<1>3. Len(s) \in Nat /\ \A i \in 1..Len(s) : s[i] \in Nat
  OBVIOUS
<1>4. Cardinality(Tags(L)) \in Nat /\ Cardinality(Tags(L)) <= B /\ IsFiniteSet(Tags(L))
  BY NumberOfTags
<1> HIDE DEF B
<1> SUFFICES ASSUME NEW i \in 1..Len(s) - B
             PROVE  s[i + B] - s[i] >= windowSize
  BY DEF Spaced, B
<1> DEFINE S == i..i + B
           tag == [j \in S |-> <<who[j], nth[j] % Period(who[j], L)>>]
<1>5. /\ S \subseteq 1..Len(s)
      /\ i \in S /\ i + B \in S
      /\ i \in Int /\ i + B \in Int
  BY <1>1, <1>3
<1>6. \A l \in Lanes : Period(l, L) \in Nat \ {0}
  BY DEF Period
<1>7. IsFiniteSet(S) /\ Cardinality(S) = B + 1
  BY <1>1, <1>5, FS_Interval
<1>8. tag \in [S -> Tags(L)]
  <2> SUFFICES ASSUME NEW j \in S PROVE <<who[j], nth[j] % Period(who[j], L)>> \in Tags(L)
    OBVIOUS
  <2>1. who[j] \in Lanes /\ nth[j] \in Nat
    BY <1>5
  <2>2. CASE who[j] = Nil
    <3>1. Period(who[j], L) = 2 * L
      BY <2>2 DEF Period
    <3>2. nth[j] % (2 * L) \in 0..2 * L - 1
      BY <2>1
    <3> QED
      BY <2>2, <3>1, <3>2 DEF Tags
  <2>3. CASE who[j] # Nil
    <3>1. Period(who[j], L) = 2 /\ who[j] \in Calls
      BY <2>1, <2>3 DEF Period, Lanes
    <3>2. nth[j] % 2 \in 0..1
      BY <2>1
    <3> QED
      BY <3>1, <3>2 DEF Tags
  <2> QED
    BY <2>2, <2>3
<1> HIDE DEF S
<1>9. PICK j, k \in S : j # k /\ tag[j] = tag[k]
  <2>1. Cardinality(Tags(L)) < Cardinality(S)
    BY <1>1, <1>4, <1>7
  <2> HIDE DEF tag
  <2> QED
    BY <1>4, <1>7, <1>8, <2>1, FS_PigeonHole
<1>10. /\ who[j] = who[k]
       /\ nth[j] % Period(who[j], L) = nth[k] % Period(who[j], L)
  BY <1>9
<1> HIDE DEF tag
<1> DEFINE z == y[who[j]]
           d == Period(who[j], L)
<1>11. /\ j \in 1..Len(s) /\ k \in 1..Len(s)
       /\ who[j] \in Lanes
       /\ nth[j] \in 1..Len(z) /\ s[j] = z[nth[j]]
       /\ nth[k] \in 1..Len(z) /\ s[k] = z[nth[k]]
       /\ nth[j] # nth[k]
  BY <1>2, <1>5, <1>9, <1>10 DEF Numbered
<1>12. /\ z \in Seq(Nat)
       /\ d \in Nat \ {0}
       /\ Sorted(z) /\ Spaced(z, d)
       /\ nth[j] % d = nth[k] % d
  BY <1>6, <1>10, <1>11
<1> HIDE DEF z, d
<1>13. /\ nth[j] < nth[k] => s[k] - s[j] >= windowSize
       /\ nth[k] < nth[j] => s[j] - s[k] >= windowSize
  BY <1>11, <1>12, LaneApart
<1>14. nth[j] < nth[k] \/ nth[k] < nth[j]
  <2>1. nth[j] \in Nat /\ nth[k] \in Nat
    BY <1>11
  <2> QED
    BY <1>11, <2>1
<1>15. /\ s[i] <= s[j] /\ s[i] <= s[k]
       /\ s[j] <= s[i + B] /\ s[k] <= s[i + B]
  <2>1. \A n \in S : i <= n /\ n <= i + B
    BY <1>5 DEF S
  <2>2. \A n \in S : s[i] <= s[n] /\ s[n] <= s[i + B]
    BY <1>5, <2>1 DEF Sorted
  <2> QED
    BY <1>9, <2>2
<1>16. /\ s[i] \in Nat /\ s[i + B] \in Nat
       /\ s[j] \in Nat /\ s[k] \in Nat
  BY <1>3, <1>5, <1>11
<1> QED
  BY <1>13, <1>14, <1>15, <1>16, SizesAssumption, SMTT(20)

(* In less than a window a session gets at most twice the limit through    *)
(* that is counted, one call at most two that are not, and all together no *)
(* more than the sum: for all limits, all numbers of calls and every       *)
(* interleaving of the calls with the sweep.                               *)
THEOREM WhatGetsThrough == Spec => []SlidingWindowBound
<1>1. TypeOK /\ Allowance /\ StraysAreRare /\ AllInLanes => SlidingWindowBound
  <2> SUFFICES ASSUME TypeOK, Allowance, StraysAreRare, AllInLanes, NEW k \in Keys
               PROVE  LET L == getLimit(k[2])
                      IN /\ Spaced(counted[k], 2 * L)
                         /\ \A c \in Calls : Spaced(strays[k][c], 2)
                         /\ Spaced(admissions[k], 2 * L + 2 * Cardinality(Calls))
    BY DEF SlidingWindowBound
  <2> DEFINE L == getLimit(k[2])
             y == LanesOf(k)
  <2>1. Spaced(counted[k], 2 * L) /\ Sorted(counted[k])
    BY DEF Allowance, Spread, AllInLanes
  <2>2. \A c \in Calls : Spaced(strays[k][c], 2) /\ Sorted(strays[k][c])
    BY DEF StraysAreRare
  <2>3. /\ y \in [Lanes -> Seq(Nat)]
        /\ y[Nil] = counted[k]
        /\ \A c \in Calls : y[c] = strays[k][c]
    BY TypesOfLanes
  <2>4. /\ L \in Nat \ {0}
        /\ admissions[k] \in Seq(Nat)
        /\ Sorted(admissions[k])
        /\ Merged(admissions[k], y)
    BY TypesOfAKey DEF AllInLanes
  <2> HIDE DEF L, y
  <2>5. \A l \in Lanes : Sorted(y[l]) /\ Spaced(y[l], Period(l, L))
    BY <2>1, <2>2, <2>3, NilAssumption DEF Lanes, Period
  <2>6. Spaced(admissions[k], 2 * L + 2 * Cardinality(Calls))
    BY <2>3, <2>4, <2>5, MergeSpaced
  <2> QED
    BY <2>1, <2>2, <2>6 DEF L
<1> QED
  BY TypeCorrect, AllowanceInvariance, StraysInvariance, LanesInvariance, <1>1, PTL
=============================================================================
