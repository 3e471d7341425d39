---------------------------- MODULE RateLimiter ----------------------------
(***************************************************************************)
(* The fixed-window rate limiter of pkg/ratelimit: the tool middleware run *)
(* by every tool call, the counters it keeps per client session and tool,  *)
(* and the goroutine that sweeps idle counters away.                       *)
(*                                                                         *)
(* Two locks order the steps.  rl.mu guards the maps; getCounter and       *)
(* getLimit hold it for a moment only, so each is one atomic step enabled  *)
(* while the sweep does not hold it; the sweep holds it from its first to  *)
(* its last step.  counter.mu guards one counter; a call takes it in Lock  *)
(* and keeps it until its handler has returned.                            *)
(***************************************************************************)
EXTENDS Integers, Sequences, FiniteSets

CONSTANTS
  Calls,            \* goroutines serving tool calls
  Sessions,         \* client session IDs
  Tools,            \* names of the tools that are called
  Counters,         \* addresses at which a windowCounter can live
  EnvDefault,       \* MKP_RATE_LIMIT_DEFAULT, an integer, or Nil if unset or not a number
  EnvRead,          \* MKP_RATE_LIMIT_READ
  EnvWrite,         \* MKP_RATE_LIMIT_WRITE
  windowSize,       \* length of a window
  cleanupInterval,  \* period of the sweep, and the age at which a counter is dropped
  MaxTime,          \* bound: the clock stops here
  Nil               \* no value

ASSUME SizesAssumption ==
  /\ windowSize \in Nat \ {0}
  /\ cleanupInterval \in Nat
  /\ cleanupInterval >= windowSize
  /\ MaxTime \in Nat

ASSUME EnvAssumption ==
  /\ EnvDefault \in Int \cup {Nil}
  /\ EnvRead \in Int \cup {Nil}
  /\ EnvWrite \in Int \cup {Nil}

ASSUME CallsAssumption == IsFiniteSet(Calls)

ASSUME NilAssumption ==
  /\ Nil \notin Int
  /\ Nil \notin Counters
  /\ Nil \notin Calls
  /\ Nil \notin Sessions
  /\ Nil \notin (Sessions \cup Tools) \X Tools

-----------------------------------------------------------------------------
(* Configuration: config.go and the options of NewRateLimiter.             *)

getEnvInt(value, default) ==
  IF value \in Int /\ value > 0 THEN value ELSE default

DefaultLimit == getEnvInt(EnvDefault, 60)
ReadLimit    == getEnvInt(EnvRead, 120)
WriteLimit   == getEnvInt(EnvWrite, 30)

ReadTools  == {"list_resources", "get_resource"}
WriteTools == {"apply_resource", "delete_resource"}

limits == [t \in ReadTools \cup WriteTools |->
             IF t \in ReadTools THEN ReadLimit ELSE WriteLimit]

getLimit(tool) == IF tool \in DOMAIN limits THEN limits[tool] ELSE DefaultLimit

(* A call without a session is counted under the tool's own name.          *)
getSessionID(session, tool) == IF session # Nil THEN session ELSE tool

Keys == (Sessions \cup Tools) \X Tools

-----------------------------------------------------------------------------
VARIABLES
  now,            \* the clock
  ticker,         \* cleanupTicker: "armed", "fired" (a tick is pending) or "stopped"
  sweeping,       \* the cleanup goroutine holds rl.mu
  sweepAt,        \* the time the running sweep read
  todo,           \* the keys the running sweep has yet to look at
  requestCounts,  \* key -> its counter, or Nil
  count,          \* counter -> requests in its window
  windowStart,    \* counter -> start of its window
  mu,             \* counter -> the call that holds counter.mu, or Nil
  pc,             \* call -> the next step of the middleware
  key,            \* call -> <<session ID, tool>>, or Nil
  ctr,            \* call -> the counter getCounter returned, or Nil
  at,             \* call -> the time it read after locking its counter
  admissions,     \* history: key -> when its calls were let through, oldest first
  counted,        \* history: those of them that the counter in the map counted
  strays          \* history: key -> call -> those that it got from a dropped counter

limiterVars == <<requestCounts, count, windowStart, mu>>
sweepVars   == <<ticker, sweeping, sweepAt, todo>>
callVars    == <<pc, key, ctr, at>>
history     == <<admissions, counted, strays>>
vars        == <<now, sweepVars, limiterVars, callVars, history>>

(* Whether the counter a call holds is no longer the one in the map.       *)
Stray(c) == requestCounts[key[c]] # ctr[c]

(* Mutant of FreeCounters: a swept counter is reused while a call has it.   *)
UnmappedCounters == {n \in Counters : \A k \in Keys : requestCounts[k] # n}

(* The counters no map entry and no call refers to.                        *)
FreeCounters ==
  {n \in Counters : /\ \A k \in Keys : requestCounts[k] # n
                    /\ \A c \in Calls : ctr[c] # n}

Init ==
  /\ now = 0
  /\ ticker = "armed"
  /\ sweeping = FALSE
  /\ sweepAt = 0
  /\ todo = {}
  /\ requestCounts = [k \in Keys |-> Nil]
  /\ count = [n \in Counters |-> 0]
  /\ windowStart = [n \in Counters |-> 0]
  /\ mu = [n \in Counters |-> Nil]
  /\ pc = [c \in Calls |-> "idle"]
  /\ key = [c \in Calls |-> Nil]
  /\ ctr = [c \in Calls |-> Nil]
  /\ at = [c \in Calls |-> 0]
  /\ admissions = [k \in Keys |-> <<>>]
  /\ counted = [k \in Keys |-> <<>>]
  /\ strays = [k \in Keys |-> [c \in Calls |-> <<>>]]

-----------------------------------------------------------------------------
(* The middleware, step by step.                                           *)

Arrive(c) ==
  /\ pc[c] = "idle"
  /\ \E s \in Sessions \cup {Nil}, t \in Tools :
       key' = [key EXCEPT ![c] = <<getSessionID(s, t), t>>]
  /\ pc' = [pc EXCEPT ![c] = "getCounter"]
  /\ UNCHANGED <<now, sweepVars, limiterVars, ctr, at, history>>

(* Mutant of getCounter: a missing counter is not created.                 *)
LookupCounter(c) ==
  /\ pc[c] = "getCounter"
  /\ ~sweeping
  /\ ctr' = [ctr EXCEPT ![c] = requestCounts[key[c]]]
  /\ pc' = [pc EXCEPT ![c] = "lock"]
  /\ UNCHANGED <<now, sweepVars, limiterVars, key, at, history>>

(* getCounter: find or create the counter, under rl.mu.                    *)
getCounter(c) ==
  /\ pc[c] = "getCounter"
  /\ ~sweeping
  /\ \/ /\ requestCounts[key[c]] # Nil
        /\ ctr' = [ctr EXCEPT ![c] = requestCounts[key[c]]]
        /\ UNCHANGED <<requestCounts, count, windowStart>>
     \/ /\ requestCounts[key[c]] = Nil
        /\ \E n \in FreeCounters :
             /\ requestCounts' = [requestCounts EXCEPT ![key[c]] = n]
             /\ count' = [count EXCEPT ![n] = 0]
             /\ windowStart' = [windowStart EXCEPT ![n] = now]
             /\ ctr' = [ctr EXCEPT ![c] = n]
  /\ pc' = [pc EXCEPT ![c] = "lock"]
  /\ UNCHANGED <<now, sweepVars, mu, key, at, history>>

(* Mutants of ResetWindow: an elapsed window is not reset, or its start is *)
(* left behind.                                                            *)
NeverReset(n) == UNCHANGED <<count, windowStart>>

ResetCountOnly(n) ==
  /\ count' = IF now - windowStart[n] >= windowSize
                THEN [count EXCEPT ![n] = 0] ELSE count
  /\ UNCHANGED windowStart

(* The reset of an elapsed window.                                         *)
ResetWindow(n) ==
  IF now - windowStart[n] >= windowSize
    THEN /\ count' = [count EXCEPT ![n] = 0]
         /\ windowStart' = [windowStart EXCEPT ![n] = now]
    ELSE UNCHANGED <<count, windowStart>>

(* counter.mu.Lock and time.Now, then the reset.                           *)
Lock(c) ==
  /\ pc[c] = "lock"
  /\ mu[ctr[c]] = Nil
  /\ mu' = [mu EXCEPT ![ctr[c]] = c]
  /\ at' = [at EXCEPT ![c] = now]
  /\ ResetWindow(ctr[c])
  /\ pc' = [pc EXCEPT ![c] = "getLimit"]
  /\ UNCHANGED <<now, sweepVars, requestCounts, key, ctr, history>>

(* The deferred counter.mu.Unlock and the return to the caller.            *)
Return(c) ==
  /\ mu' = [mu EXCEPT ![ctr[c]] = Nil]
  /\ pc' = [pc EXCEPT ![c] = "idle"]
  /\ key' = [key EXCEPT ![c] = Nil]
  /\ ctr' = [ctr EXCEPT ![c] = Nil]
  /\ at' = [at EXCEPT ![c] = 0]

(* Mutants of Reject: the counter stays locked, or the rejected call is    *)
(* counted like an admitted one.                                           *)
RejectStillLocked(c) ==
  /\ pc[c] = "getLimit"
  /\ ~sweeping
  /\ count[ctr[c]] >= getLimit(key[c][2])
  /\ pc' = [pc EXCEPT ![c] = "idle"]
  /\ key' = [key EXCEPT ![c] = Nil]
  /\ ctr' = [ctr EXCEPT ![c] = Nil]
  /\ at' = [at EXCEPT ![c] = 0]
  /\ UNCHANGED <<now, sweepVars, limiterVars, history>>

RejectCounted(c) ==
  /\ pc[c] = "getLimit"
  /\ ~sweeping
  /\ count[ctr[c]] >= getLimit(key[c][2])
  /\ count' = [count EXCEPT ![ctr[c]] = @ + 1]
  /\ Return(c)
  /\ UNCHANGED <<now, sweepVars, requestCounts, windowStart, history>>

(* getLimit takes rl.mu for reading while the call holds counter.mu.       *)
Reject(c) ==
  /\ pc[c] = "getLimit"
  /\ ~sweeping
  /\ count[ctr[c]] >= getLimit(key[c][2])
  /\ Return(c)
  /\ UNCHANGED <<now, sweepVars, requestCounts, count, windowStart, history>>

Admit(c) ==
  /\ pc[c] = "getLimit"
  /\ ~sweeping
  /\ count[ctr[c]] < getLimit(key[c][2])
  /\ count' = [count EXCEPT ![ctr[c]] = @ + 1]
  /\ admissions' = [admissions EXCEPT ![key[c]] = Append(@, now)]
  /\ IF Stray(c)
       THEN /\ strays' = [strays EXCEPT ![key[c]][c] = Append(@, now)]
            /\ UNCHANGED counted
       ELSE /\ counted' = [counted EXCEPT ![key[c]] = Append(@, now)]
            /\ UNCHANGED strays
  /\ pc' = [pc EXCEPT ![c] = "next"]
  /\ UNCHANGED <<now, sweepVars, requestCounts, windowStart, mu, key, ctr, at>>

(* The handler returns, or panics: the deferred unlock runs either way.    *)
Finish(c) ==
  /\ pc[c] = "next"
  /\ Return(c)
  /\ UNCHANGED <<now, sweepVars, requestCounts, count, windowStart, history>>

-----------------------------------------------------------------------------
(* The sweep of idle counters.                                             *)

cleanupStart ==
  /\ ticker = "fired"
  /\ ~sweeping
  /\ ticker' = "armed"
  /\ sweeping' = TRUE
  /\ sweepAt' = now
  /\ todo' = {k \in Keys : requestCounts[k] # Nil}
  /\ UNCHANGED <<now, limiterVars, callVars, history>>

(* Mutant of Expired: any counter the sweep finds is dropped.              *)
AnyCounter(n) == windowStart[n] <= sweepAt

Expired(n) == sweepAt - windowStart[n] > cleanupInterval

(* The sweep locks a counter, so it waits for the call that holds it.      *)
cleanupVisit(k) ==
  /\ sweeping
  /\ k \in todo
  /\ mu[requestCounts[k]] = Nil
  /\ todo' = todo \ {k}
  /\ requestCounts' = IF Expired(requestCounts[k])
                        THEN [requestCounts EXCEPT ![k] = Nil]
                        ELSE requestCounts
  /\ UNCHANGED <<now, ticker, sweeping, sweepAt, count, windowStart, mu,
                 callVars, history>>

cleanupEnd ==
  /\ sweeping
  /\ todo = {}
  /\ sweeping' = FALSE
  /\ sweepAt' = 0
  /\ UNCHANGED <<now, ticker, todo, limiterVars, callVars, history>>

(* Stop stops the ticker; a tick that was not received is dropped.         *)
Stop ==
  /\ ticker # "stopped"
  /\ ticker' = "stopped"
  /\ UNCHANGED <<now, sweeping, sweepAt, todo, limiterVars, callVars, history>>

(* Time passes; a tick the busy sweep has not received yet is not doubled. *)
Tick ==
  /\ now < MaxTime
  /\ now' = now + 1
  /\ ticker' = IF ticker = "armed" /\ now' % cleanupInterval = 0
                 THEN "fired" ELSE ticker
  /\ UNCHANGED <<sweeping, sweepAt, todo, limiterVars, callVars, history>>

-----------------------------------------------------------------------------
Middleware(c) ==
  \/ Arrive(c)
  \/ getCounter(c)
  \/ Lock(c)
  \/ Reject(c)
  \/ Admit(c)
  \/ Finish(c)

cleanup ==
  \/ cleanupStart
  \/ \E k \in Keys : cleanupVisit(k)
  \/ cleanupEnd

Next ==
  \/ \E c \in Calls : Middleware(c)
  \/ cleanup
  \/ Stop
  \/ Tick

Spec == Init /\ [][Next]_vars

(***************************************************************************)
(* The Go scheduler runs every goroutine that can run, and sync.Mutex      *)
(* hands the lock to a waiter that has been passed over, so locking is     *)
(* strongly fair.  Handlers are taken to return here, because the question *)
(* is what the limiter itself can hang; a handler that does not is the     *)
(* matter of Server and KubeClient.  Nothing makes clients call or the     *)
(* clock advance.                                                          *)
(***************************************************************************)
Fairness ==
  /\ \A c \in Calls : /\ WF_vars(getCounter(c))
                      /\ SF_vars(Lock(c))
                      /\ WF_vars(Reject(c) \/ Admit(c))
                      /\ WF_vars(Finish(c))
  /\ WF_vars(cleanupStart)
  /\ \A k \in Keys : SF_vars(cleanupVisit(k))
  /\ WF_vars(cleanupEnd)

FairSpec == Spec /\ Fairness
-----------------------------------------------------------------------------
(* Properties.                                                             *)

(* Types, and which calls refer to a counter: a call has a key from        *)
(* Arrive and a counter from getCounter until it returns.                  *)
TypeOK ==
  /\ now \in 0..MaxTime
  /\ ticker \in {"armed", "fired", "stopped"}
  /\ sweeping \in BOOLEAN
  /\ sweepAt \in 0..now
  /\ todo \in SUBSET Keys
  /\ requestCounts \in [Keys -> Counters \cup {Nil}]
  /\ count \in [Counters -> Nat]
  /\ windowStart \in [Counters -> 0..now]
  /\ mu \in [Counters -> Calls \cup {Nil}]
  /\ pc \in [Calls -> {"idle", "getCounter", "lock", "getLimit", "next"}]
  /\ key \in [Calls -> Keys \cup {Nil}]
  /\ ctr \in [Calls -> Counters \cup {Nil}]
  /\ at \in [Calls -> 0..now]
  /\ admissions \in [Keys -> Seq(Nat)]
  /\ counted \in [Keys -> Seq(Nat)]
  /\ strays \in [Keys -> [Calls -> Seq(Nat)]]
  /\ \A c \in Calls : /\ key[c] = Nil <=> pc[c] = "idle"
                      /\ ctr[c] = Nil <=> pc[c] \in {"idle", "getCounter"}

(* counter.mu is held from Lock until the handler has returned, on every   *)
(* path, and by nobody else: two handlers of one counter never overlap and *)
(* a rejected call leaves nothing locked (ratelimit.go:178-179).           *)
LockOwnership ==
  \A n \in Counters, c \in Calls :
    mu[n] = c <=> ctr[c] = n /\ pc[c] \in {"getLimit", "next"}

(* A counter serves one key, in the map and in the hands of calls, also    *)
(* after the sweep has dropped it: a session pays for its own calls only.  *)
(* A counter the sweep has yet to visit is still in the map.               *)
CountersAreUnshared ==
  /\ \A j, k \in Keys :
       j # k /\ requestCounts[j] # Nil => requestCounts[j] # requestCounts[k]
  /\ \A c, d \in Calls :
       ctr[c] # Nil /\ ctr[c] = ctr[d] => key[c] = key[d]
  /\ \A k \in Keys, c \in Calls :
       requestCounts[k] # Nil /\ requestCounts[k] = ctr[c] => key[c] = k
  /\ \A k \in todo : requestCounts[k] # Nil

(* Of more than n times in a row, some are a window apart.                 *)
Spaced(s, n) == \A i \in 1..Len(s) - n : s[i + n] - s[i] >= windowSize

(* What the fixed window bounds in any time shorter than a window.  The    *)
(* calls that the counter in the map counts are at most twice the limit.   *)
(* A call that is waiting for a counter while the sweep drops it is still  *)
(* let through by that counter, beside the limit (ratelimit.go:92, 177):   *)
(* this happens to one call at most twice, so that all together no more    *)
(* get through than twice the limit and two for every call in flight.      *)
SlidingWindowBound ==
  \A k \in Keys :
    LET L == getLimit(k[2])
    IN /\ Spaced(counted[k], 2 * L)
       /\ \A c \in Calls : Spaced(strays[k][c], 2)
       /\ Spaced(admissions[k], 2 * L + 2 * Cardinality(Calls))

(* The counter agrees with what was let through: the calls in count are    *)
(* the latest count of the counted ones, let through since the window      *)
(* began, and every earlier one was let through before that.               *)
CountTracksAdmissions ==
  \A k \in Keys :
    LET n == requestCounts[k]
        s == counted[k]
    IN n # Nil =>
         /\ count[n] <= Len(s)
         /\ \A i \in 1..Len(s) : IF i > Len(s) - count[n]
                                   THEN s[i] >= windowStart[n]
                                   ELSE s[i] <= windowStart[n]

(* A call is turned away only if its own session and tool used up the      *)
(* limit within the last window; what other keys do never matters.         *)
NoFalseReject ==
  [][\A c \in Calls :
       Reject(c) =>
         LET s == admissions[key[c]]
             L == getLimit(key[c][2])
         IN /\ Len(s) >= L
            /\ s[Len(s) - L + 1] > at[c] - windowSize]_vars

(* The sweep drops a counter only when its window is over: whatever count  *)
(* it forgets, a call that arrived now would have reset it (ratelimit.go:91, *)
(* 185).  A call that already holds the counter does not notice; what that *)
(* lets through is bounded by SlidingWindowBound.                          *)
SweepSparesLiveWindows ==
  [][\A k \in Keys :
       requestCounts[k] # Nil /\ requestCounts'[k] # requestCounts[k] =>
         now - windowStart[requestCounts[k]] > windowSize]_vars

-----------------------------------------------------------------------------
(* Progress.                                                               *)

(* The sweep holds rl.mu and waits for the counter that c holds, while c   *)
(* waits for rl.mu.                                                        *)
LockCycle ==
  \E k \in todo, c \in Calls :
    /\ sweeping
    /\ mu[requestCounts[k]] = c
    /\ pc[c] = "getLimit"

(* A tool call returns unless the two locks are taken in opposite orders,  *)
(* by a call (counter.mu, then rl.mu) and by the sweep (rl.mu, then        *)
(* counter.mu): there is no other way for the limiter to hang a call.      *)
HangsOnlyInLockCycle ==
  \A c \in Calls : pc[c] = "getCounter" ~> (pc[c] = "idle" \/ LockCycle)

(* A tool call returns: its handler's context ends after the "default      *)
(* timeout for tool calls" (server.go:17) and so does the call.            *)
CallsReturn ==
  \A c \in Calls : pc[c] = "getCounter" ~> pc[c] = "idle"

(* README.md:520: the limiter "uses a token bucket algorithm", so a burst  *)
(* is at most the limit plus what has been refilled since.                 *)
TokenBucketBound ==
  \A k \in Keys :
    LET s == counted[k]
        L == getLimit(k[2])
    IN \A i \in 1..Len(s) : \A j \in i..Len(s) :
         (j - i + 1 - L) * windowSize <= L * (s[j] - s[i])
=============================================================================
