---------------------------- MODULE PodLogReads ----------------------------
(***************************************************************************)
(* Reading pod logs: get_resource calls that share one semaphore, whether  *)
(* they use the base client or one made for the user they impersonate, and *)
(* read a stream of unknown length up to a limit under a deadline.         *)
(*                                                                         *)
(* Bytes stand for blocks of the size of the smallest limit in use.        *)
(***************************************************************************)
EXTENDS Integers, FiniteSets

CONSTANTS
  Reads,                     \* goroutines serving get_resource
  Users,                     \* the users impersonated
  maxConcurrentPodLogReads,  \* slots of the semaphore
  maxPodLogLimitBytes,       \* the most a read may return
  defaultLimitBytes,         \* what it asks for unless told otherwise
  MaxStream,                 \* bound: the longest stream
  Nil                        \* no value

ASSUME SlotsAssumption == maxConcurrentPodLogReads \in Nat \ {0}

ASSUME BytesAssumption ==
  /\ maxPodLogLimitBytes \in Nat \ {0}
  /\ defaultLimitBytes \in 1..maxPodLogLimitBytes
  /\ MaxStream \in Nat

ASSUME NilAssumption ==
  /\ Nil \notin Int
  /\ Nil \notin Users \cup {"base"}

Clients == Users \cup {"base"}

-----------------------------------------------------------------------------
(* The limits of a read.  The parameter limitBytes is an integer or, when  *)
(* it is missing or not one of 64 bits, Nil.                               *)

limitBytesParams == {Nil} \cup -1..maxPodLogLimitBytes + 1

parsePositiveInt64Param(v, maxValue) ==
  IF v = Nil THEN Nil
  ELSE IF v <= 0 \/ v > maxValue THEN maxValue ELSE v

(* PodLogOptions.LimitBytes, as sent to the API server.                    *)
buildPodLogOpts(v) ==
  LET parsed == parsePositiveInt64Param(v, maxPodLogLimitBytes)
  IN IF parsed = Nil THEN defaultLimitBytes ELSE parsed

effectivePodLogLimit(requested) ==
  IF requested > 0 /\ requested < maxPodLogLimitBytes
    THEN requested ELSE maxPodLogLimitBytes

(* Mutant of StopsAt: the reader stops at the limit itself.                *)
StopsAtLimit(limit) == limit

(* io.LimitedReader lets one byte more than the limit through.             *)
StopsAt(limit) == limit + 1

-----------------------------------------------------------------------------
VARIABLES
  podLogReadSem,  \* client that owns a semaphore -> slots taken
  pc,             \* read -> "idle", "waiting", "opening" or "reading"
  client,         \* read -> the client it goes through, or Nil
  limit,          \* read -> its effective limit, 0 before it has one
  expired,        \* the reads whose deadline has passed
  length,         \* read -> the length of its stream
  buffered,       \* read -> how much of it is in buf
  result          \* read -> how the last one ended, and what it was given

vars == <<podLogReadSem, pc, client, limit, expired, length, buffered, result>>

Init ==
  /\ podLogReadSem = [c \in Clients |-> 0]
  /\ pc = [r \in Reads |-> "idle"]
  /\ client = [r \in Reads |-> Nil]
  /\ limit = [r \in Reads |-> 0]
  /\ expired = {}
  /\ length = [r \in Reads |-> 0]
  /\ buffered = [r \in Reads |-> 0]
  /\ result = [r \in Reads |-> "none"]

(* Mutant of Semaphore: a client for impersonation gets one of its own.    *)
OwnSemaphore(c) == c

(* Clients made for impersonation share the semaphore of the base client.  *)
Semaphore(c) == "base"

-----------------------------------------------------------------------------
(* clientForContext chooses the client.                                    *)
GetResource(r) ==
  /\ pc[r] = "idle"
  /\ \E c \in Clients, v \in limitBytesParams :
       /\ client' = [client EXCEPT ![r] = c]
       /\ limit' = [limit EXCEPT ![r] = effectivePodLogLimit(buildPodLogOpts(v))]
  /\ pc' = [pc EXCEPT ![r] = "waiting"]
  /\ result' = [result EXCEPT ![r] = "none"]
  /\ UNCHANGED <<podLogReadSem, expired, length, buffered>>

Acquire(r) ==
  /\ pc[r] = "waiting"
  /\ podLogReadSem[Semaphore(client[r])] < maxConcurrentPodLogReads
  /\ podLogReadSem' = [podLogReadSem EXCEPT ![Semaphore(client[r])] = @ + 1]
  /\ pc' = [pc EXCEPT ![r] = "opening"]
  /\ UNCHANGED <<client, limit, expired, length, buffered, result>>

(* The call returns; its context goes with it.                             *)
Return(r, res) ==
  /\ pc' = [pc EXCEPT ![r] = "idle"]
  /\ client' = [client EXCEPT ![r] = Nil]
  /\ limit' = [limit EXCEPT ![r] = 0]
  /\ expired' = expired \ {r}
  /\ length' = [length EXCEPT ![r] = 0]
  /\ buffered' = [buffered EXCEPT ![r] = 0]
  /\ result' = [result EXCEPT ![r] = res]

(* The deferred receive from podLogReadSem.                                *)
Release(r) ==
  podLogReadSem' = [podLogReadSem EXCEPT ![Semaphore(client[r])] = @ - 1]

(* Mutant of GiveUp: the slot is given back although none was taken.       *)
GiveUpAndRelease(r) ==
  /\ pc[r] = "waiting"
  /\ r \in expired
  /\ Return(r, "error")
  /\ Release(r)

(* The deadline passes before there is a slot.                             *)
GiveUp(r) ==
  /\ pc[r] = "waiting"
  /\ r \in expired
  /\ Return(r, "error")
  /\ UNCHANGED podLogReadSem

Stream(r) ==
  /\ pc[r] = "opening"
  /\ \E n \in 0..MaxStream : length' = [length EXCEPT ![r] = n]
  /\ pc' = [pc EXCEPT ![r] = "reading"]
  /\ UNCHANGED <<podLogReadSem, client, limit, expired, buffered, result>>

(* io.Copy: one more block, if there is one and the reader lets it through. *)
Copy(r) ==
  /\ pc[r] = "reading"
  /\ buffered[r] < length[r]
  /\ buffered[r] < StopsAt(limit[r])
  /\ buffered' = [buffered EXCEPT ![r] = @ + 1]
  /\ UNCHANGED <<podLogReadSem, pc, client, limit, expired, length, result>>

(* The stream ends, or the reader pretends so.                             *)
EOF(r) ==
  /\ pc[r] = "reading"
  /\ buffered[r] = length[r] \/ buffered[r] = StopsAt(limit[r])
  /\ Return(r, IF buffered[r] > limit[r] THEN "error"
               ELSE IF buffered[r] = length[r] THEN "whole" ELSE "part")
  /\ Release(r)

(* Mutants of Fail: a slot is lost when the stream cannot be opened, and   *)
(* the stream does not end with the call's context.                        *)
FailUnreleased(r) ==
  /\ pc[r] \in {"opening", "reading"}
  /\ Return(r, "error")
  /\ IF pc[r] = "reading" THEN Release(r) ELSE UNCHANGED podLogReadSem

FailOnOpen(r) ==
  /\ pc[r] = "opening"
  /\ Return(r, "error")
  /\ Release(r)

(* Opening or reading fails: the API server refuses or the connection      *)
(* breaks, at the latest when the deadline passes.                         *)
Fail(r) ==
  /\ pc[r] \in {"opening", "reading"}
  /\ Return(r, "error")
  /\ Release(r)

(* The deadline set by the server's middleware.                            *)
Deadline(r) ==
  /\ pc[r] # "idle"
  /\ expired' = expired \cup {r}
  /\ UNCHANGED <<podLogReadSem, pc, client, limit, length, buffered, result>>

-----------------------------------------------------------------------------
defaultGetPodLogs(r) ==
  Acquire(r) \/ GiveUp(r) \/ Stream(r) \/ Copy(r) \/ EOF(r) \/ Fail(r)

Next == \E r \in Reads : GetResource(r) \/ defaultGetPodLogs(r) \/ Deadline(r)

Spec == Init /\ [][Next]_vars

(***************************************************************************)
(* Every call carries a deadline and it passes; after it a call that still *)
(* waits gives up or takes a slot that is free just then, and one that     *)
(* opens or reads fails, because its request carries the same context.     *)
(* The API server promises nothing: a stream may neither open nor end.     *)
(***************************************************************************)
Fairness ==
  \A r \in Reads :
    /\ WF_vars(Deadline(r))
    /\ WF_vars(GiveUp(r))
    /\ WF_vars(r \in expired /\ Fail(r))

FairSpec == Spec /\ Fairness

-----------------------------------------------------------------------------
(* Properties.                                                             *)

(* Types; a read has a client and a limit while it runs, a limit that is   *)
(* never zero and never above the cap, and bytes only while it reads.      *)
TypeOK ==
  /\ podLogReadSem \in [Clients -> 0..maxConcurrentPodLogReads]
  /\ pc \in [Reads -> {"idle", "waiting", "opening", "reading"}]
  /\ client \in [Reads -> Clients \cup {Nil}]
  /\ limit \in [Reads -> 0..maxPodLogLimitBytes]
  /\ expired \subseteq Reads
  /\ length \in [Reads -> 0..MaxStream]
  /\ buffered \in [Reads -> 0..MaxStream]
  /\ result \in [Reads -> {"none", "whole", "part", "error"}]
  /\ \A r \in Reads : /\ client[r] = Nil <=> pc[r] = "idle"
                      /\ limit[r] = 0 <=> pc[r] = "idle"
                      /\ buffered[r] > 0 => pc[r] = "reading"

InFlight == {r \in Reads : pc[r] \in {"opening", "reading"}}

(* The slots taken are the reads in flight, on every path out of a read:   *)
(* failures and deadlines neither leak a slot nor give one back twice.     *)
SlotsMatchReads ==
  \A c \in Clients :
    podLogReadSem[c] = Cardinality({r \in InFlight : Semaphore(client[r]) = c})

(* What is in memory: the blocks of every stream that are in its read's    *)
(* buffer, as pairs of the read and the block's position.                  *)
Blocks == {b \in Reads \X (1..MaxStream) : b[2] <= buffered[b[1]]}

(* Together the reads of all users buffer no more than the slots allow,    *)
(* however many users there are, whatever limit they ask for and whatever  *)
(* the API server sends (client.go:58-61, 332-334).                        *)
AggregateBound ==
  Cardinality(Blocks) <= maxConcurrentPodLogReads * (maxPodLogLimitBytes + 1)

(* A read that succeeds returns the stream as it was sent, never a part    *)
(* that happens to fit the limit (subresource.go:165-169).                 *)
NeverCutShort == \A r \in Reads : result[r] # "part"

(* Every call returns, also when it never gets a slot and when the stream  *)
(* it reads never ends.                                                    *)
ReadsReturn == \A r \in Reads : pc[r] = "waiting" ~> pc[r] = "idle"
=============================================================================
