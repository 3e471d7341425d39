------------------------- MODULE PodLogReadsProofs -------------------------
(***************************************************************************)
(* What holds of the reads of pod logs for any number of reads, users and  *)
(* slots and any limits.  The count of slots and the set of reads in       *)
(* flight change together; that a slot taken is there to be given back     *)
(* follows from the second, so types and count are proved as one.          *)
(***************************************************************************)
EXTENDS PodLogReads, FiniteSetTheorems, TLAPS

Types ==
  /\ podLogReadSem \in [Clients -> 0..maxConcurrentPodLogReads]
  /\ pc \in [Reads -> {"idle", "waiting", "opening", "reading"}]
  /\ client \in [Reads -> Clients \cup {Nil}]
  /\ limit \in [Reads -> 0..maxPodLogLimitBytes]
  /\ expired \subseteq Reads
  /\ length \in [Reads -> 0..MaxStream]
  /\ buffered \in [Reads -> 0..MaxStream]
  /\ result \in [Reads -> {"none", "whole", "part", "error"}]

ReadOK(r) ==
  /\ client[r] = Nil <=> pc[r] = "idle"
  /\ limit[r] = 0 <=> pc[r] = "idle"
  /\ buffered[r] > 0 => pc[r] = "reading"

(* A read buffers at most one byte more than its limit.                    *)
BufferBound(r) == buffered[r] <= StopsAt(limit[r])

(* The reads in flight whose slot is of the semaphore of c.                *)
Holders(c) == {r \in InFlight : Semaphore(client[r]) = c}

SlotsAreHeld ==
  \A c \in Clients : /\ IsFiniteSet(Holders(c))
                     /\ podLogReadSem[c] = Cardinality(Holders(c))

IInv ==
  /\ Types
  /\ \A r \in Reads : ReadOK(r) /\ BufferBound(r)
  /\ SlotsAreHeld
  /\ NeverCutShort

-----------------------------------------------------------------------------
(* Whatever limitBytes is, the limit is positive and not above the cap.    *)
LEMMA LimitIsPositive ==
  ASSUME NEW v \in limitBytesParams
  PROVE  effectivePodLogLimit(buildPodLogOpts(v)) \in 1..maxPodLogLimitBytes
<1>1. buildPodLogOpts(v) \in 1..maxPodLogLimitBytes
  BY BytesAssumption, NilAssumption
  DEF limitBytesParams, buildPodLogOpts, parsePositiveInt64Param
<1> QED
  BY <1>1, BytesAssumption DEF effectivePodLogLimit

LEMMA SharedByAll == \A c : Semaphore(c) \in Clients
BY DEF Semaphore, Clients

LEMMA InitInv == Init => IInv
<1> SUFFICES ASSUME Init PROVE IInv
  OBVIOUS
<1>1. Types
  BY SlotsAssumption, BytesAssumption DEF Init, Types
<1>2. \A r \in Reads : ReadOK(r) /\ BufferBound(r)
  BY DEF Init, ReadOK, BufferBound, StopsAt
<1>3. \A c \in Clients : Holders(c) = {}
  BY DEF Init, Holders, InFlight
<1>4. SlotsAreHeld
  BY <1>3, FS_EmptySet DEF Init, SlotsAreHeld
<1>5. NeverCutShort
  BY DEF Init, NeverCutShort
<1> QED
  BY <1>1, <1>2, <1>4, <1>5 DEF IInv

(* A read in flight holds a slot that is counted.                          *)
LEMMA HeldSlotIsCounted ==
  ASSUME IInv, NEW r \in InFlight
  PROVE  /\ podLogReadSem[Semaphore(client[r])] \in 1..maxConcurrentPodLogReads
         /\ r \in Reads
<1> DEFINE c == Semaphore(client[r])
<1>1. c \in Clients /\ r \in Holders(c) /\ r \in Reads
  BY SharedByAll DEF Holders, InFlight
<1>2. Cardinality(Holders(c)) # 0 /\ Cardinality(Holders(c)) \in Nat
  BY <1>1, FS_EmptySet, FS_CardinalityType DEF IInv, SlotsAreHeld
<1> QED
  BY <1>1, <1>2, SlotsAssumption DEF IInv, Types, SlotsAreHeld

-----------------------------------------------------------------------------
(* Steps that leave the reads in flight and the slots alone.               *)
LEMMA SlotsKeep ==
  ASSUME IInv, InFlight' = InFlight, UNCHANGED podLogReadSem,
         \A r \in InFlight : client'[r] = client[r]
  PROVE  SlotsAreHeld'
<1>1. \A c \in Clients : Holders(c)' = Holders(c)
  BY DEF Holders
<1> QED
  BY <1>1 DEF IInv, SlotsAreHeld

LEMMA GetResourceInv ==
  ASSUME IInv, NEW r \in Reads, GetResource(r)
  PROVE  IInv'
<1> USE DEF GetResource, IInv
<1>1. PICK c \in Clients, v \in limitBytesParams :
        /\ client' = [client EXCEPT ![r] = c]
        /\ limit' = [limit EXCEPT ![r] = effectivePodLogLimit(buildPodLogOpts(v))]
  OBVIOUS
<1>2. effectivePodLogLimit(buildPodLogOpts(v)) \in 1..maxPodLogLimitBytes
  BY LimitIsPositive
<1>3. Types'
  BY <1>1, <1>2, BytesAssumption DEF Types
<1>4. c # Nil
  BY NilAssumption DEF Clients
<1>5. \A s \in Reads : ReadOK(s)' /\ BufferBound(s)'
  BY <1>1, <1>2, <1>4, BytesAssumption DEF Types, ReadOK, BufferBound, StopsAt
<1>6. SlotsAreHeld'
  <2>1. InFlight' = InFlight /\ r \notin InFlight
    BY DEF Types, InFlight
  <2> QED
    BY <1>1, <2>1, SlotsKeep DEF Types, InFlight
<1>7. NeverCutShort'
  BY DEF Types, NeverCutShort
<1> QED
  BY <1>3, <1>5, <1>6, <1>7

LEMMA AcquireInv ==
  ASSUME IInv, NEW r \in Reads, Acquire(r)
  PROVE  IInv'
<1> USE DEF Acquire, IInv
<1> DEFINE sem == Semaphore(client[r])
<1>1. sem \in Clients
  BY SharedByAll
<1>2. Types'
  BY <1>1, SlotsAssumption DEF Types
<1>3. \A s \in Reads : ReadOK(s)' /\ BufferBound(s)'
  BY BytesAssumption DEF Types, ReadOK, BufferBound, StopsAt
<1>4. SlotsAreHeld'
  <2>1. r \notin InFlight /\ InFlight' = InFlight \cup {r}
    BY DEF Types, InFlight
  <2>2. Holders(sem)' = Holders(sem) \cup {r} /\ r \notin Holders(sem)
    BY <2>1 DEF Holders
  <2>3. \A c \in Clients \ {sem} : Holders(c)' = Holders(c)
    BY <2>1 DEF Holders
  <2>4. IsFiniteSet(Holders(sem)') /\ Cardinality(Holders(sem)') = Cardinality(Holders(sem)) + 1
    BY <1>1, <2>2, FS_AddElement DEF SlotsAreHeld
  <2> QED
    BY <1>1, <2>3, <2>4 DEF SlotsAreHeld, Types
<1>5. NeverCutShort'
  BY DEF NeverCutShort
<1> QED
  BY <1>2, <1>3, <1>4, <1>5

(* A call that returns leaves nothing behind.                              *)
LEMMA ReturnKeeps ==
  ASSUME IInv, NEW r \in Reads, NEW res \in {"whole", "error"}, Return(r, res)
  PROVE  /\ podLogReadSem' \in [Clients -> 0..maxConcurrentPodLogReads] => Types'
         /\ \A s \in Reads : ReadOK(s)' /\ BufferBound(s)'
         /\ NeverCutShort'
         /\ InFlight' = InFlight \ {r}
         /\ \A s \in InFlight \ {r} : client'[s] = client[s]
<1> USE DEF Return, IInv
<1>1. podLogReadSem' \in [Clients -> 0..maxConcurrentPodLogReads] => Types'
  BY BytesAssumption DEF Types
<1>2. \A s \in Reads : ReadOK(s)' /\ BufferBound(s)'
  BY BytesAssumption DEF Types, ReadOK, BufferBound, StopsAt
<1>3. NeverCutShort'
  BY DEF Types, NeverCutShort
<1>4. InFlight' = InFlight \ {r} /\ \A s \in InFlight \ {r} : client'[s] = client[s]
  BY DEF Types, InFlight
<1> QED
  BY <1>1, <1>2, <1>3, <1>4

LEMMA GiveUpInv ==
  ASSUME IInv, NEW r \in Reads, GiveUp(r)
  PROVE  IInv'
<1>1. r \notin InFlight
  BY DEF GiveUp, InFlight
<1>2. Return(r, "error") /\ UNCHANGED podLogReadSem
  BY DEF GiveUp
<1>3. InFlight' = InFlight /\ \A s \in InFlight : client'[s] = client[s]
  BY <1>1, <1>2, ReturnKeeps
<1>4. SlotsAreHeld'
  BY <1>2, <1>3, SlotsKeep
<1>5. Types'
  BY <1>2, ReturnKeeps DEF IInv, Types
<1> QED
  BY <1>2, <1>4, <1>5, ReturnKeeps DEF IInv

(* A read that ends in flight gives its slot back, and no other.           *)
LEMMA ReleaseInv ==
  ASSUME IInv, NEW r \in InFlight, NEW res \in {"whole", "error"},
         Return(r, res), Release(r)
  PROVE  IInv'
<1>1. PICK sem \in Clients : sem = Semaphore(client[r])
  BY SharedByAll
<1>2. r \in Reads /\ podLogReadSem[sem] \in 1..maxConcurrentPodLogReads
  BY <1>1, HeldSlotIsCounted
<1>3. podLogReadSem' \in [Clients -> 0..maxConcurrentPodLogReads]
  BY <1>1, <1>2, SlotsAssumption DEF Release, IInv, Types
<1>4. SlotsAreHeld'
  <2>1. InFlight' = InFlight \ {r} /\ \A s \in InFlight \ {r} : client'[s] = client[s]
    BY <1>2, ReturnKeeps
  <2>2. Holders(sem)' = Holders(sem) \ {r} /\ r \in Holders(sem)
    BY <1>1, <2>1 DEF Holders
  <2>3. \A c \in Clients \ {sem} : Holders(c)' = Holders(c)
    BY <1>1, <2>1 DEF Holders
  <2>4. IsFiniteSet(Holders(sem)') /\ Cardinality(Holders(sem)') = Cardinality(Holders(sem)) - 1
    BY <2>2, FS_RemoveElement DEF IInv, SlotsAreHeld
  <2> QED
    BY <1>1, <2>3, <2>4 DEF Release, IInv, SlotsAreHeld, Types
<1> QED
  BY <1>2, <1>3, <1>4, ReturnKeeps DEF IInv

LEMMA StreamInv ==
  ASSUME IInv, NEW r \in Reads, Stream(r) \/ Copy(r) \/ Deadline(r)
  PROVE  IInv'
<1> USE DEF Stream, Copy, Deadline, IInv
<1>1. Types'
  BY BytesAssumption DEF Types
<1>2. \A s \in Reads : ReadOK(s)' /\ BufferBound(s)'
  BY BytesAssumption DEF Types, ReadOK, BufferBound, StopsAt
<1>3. SlotsAreHeld'
  <2>1. InFlight' = InFlight /\ UNCHANGED <<client, podLogReadSem>>
    BY DEF Types, InFlight
  <2> QED
    BY <2>1, SlotsKeep
<1>4. NeverCutShort'
  BY DEF NeverCutShort
<1> QED
  BY <1>1, <1>2, <1>3, <1>4

(* When the reader stops by itself it is past the limit: the result is an  *)
(* error, not a part.                                                      *)
LEMMA EndInv ==
  ASSUME IInv, NEW r \in Reads, EOF(r) \/ Fail(r)
  PROVE  IInv'
<1>1. r \in InFlight
  BY DEF EOF, Fail, InFlight
<1>2. PICK res \in {"whole", "error"} : Return(r, res)
  <2>1. CASE Fail(r)
    BY <2>1 DEF Fail
  <2>2. CASE EOF(r)
    <3>1. buffered[r] > limit[r] \/ buffered[r] = length[r]
      BY <2>2, BytesAssumption DEF EOF, StopsAt, IInv, Types
    <3> QED
      BY <2>2, <3>1 DEF EOF
  <2> QED
    BY <2>1, <2>2
<1> QED
  BY <1>1, <1>2, ReleaseInv DEF EOF, Fail

LEMMA StepInv == IInv /\ [Next]_vars => IInv'
<1> SUFFICES ASSUME IInv, [Next]_vars PROVE IInv'
  OBVIOUS
<1>1. ASSUME NEW r \in Reads, GetResource(r) \/ defaultGetPodLogs(r) \/ Deadline(r)
      PROVE  IInv'
  BY <1>1, GetResourceInv, AcquireInv, GiveUpInv, StreamInv, EndInv DEF defaultGetPodLogs
<1>2. CASE UNCHANGED vars
  BY <1>2 DEF vars, IInv, Types, ReadOK, BufferBound, SlotsAreHeld, Holders, InFlight,
              NeverCutShort
<1> QED
  BY <1>1, <1>2 DEF Next

(* IInv is an invariant of the log reads.                                *)
THEOREM Invariant == Spec => []IInv
BY InitInv, StepInv, PTL DEF Spec

-----------------------------------------------------------------------------
(* The variables keep their types; in particular the semaphore is never    *)
(* above its size or below zero.                                           *)
THEOREM TypeCorrect == Spec => []TypeOK
<1>1. IInv => TypeOK
  BY DEF IInv, Types, ReadOK, TypeOK
<1> QED
  BY <1>1, Invariant, PTL

(* No path out of a read leaks a slot or gives one back twice.             *)
THEOREM SlotsAreReadsInFlight == Spec => []SlotsMatchReads
<1>1. IInv => SlotsMatchReads
  BY DEF IInv, SlotsAreHeld, Holders, SlotsMatchReads
<1> QED
  BY <1>1, Invariant, PTL

(* A log is returned whole or not at all.                                  *)
THEOREM LogsAreWhole == Spec => []NeverCutShort
<1>1. IInv => NeverCutShort
  BY DEF IInv
<1> QED
  BY <1>1, Invariant, PTL

(* All reads together buffer no more than one read per slot can: a block   *)
(* in memory belongs to a read in flight, those are as many as the slots   *)
(* taken from the one semaphore, and none is more than a byte over the cap.*)
THEOREM BuffersAreBounded == Spec => []AggregateBound
<1>1. IInv => AggregateBound
  <2> SUFFICES ASSUME IInv PROVE AggregateBound
    OBVIOUS
  <2> DEFINE Room == 1..maxPodLogLimitBytes + 1
  <2>1. /\ IsFiniteSet(InFlight)
        /\ Cardinality(InFlight) \in 0..maxConcurrentPodLogReads
    <3>1. "base" \in Clients /\ Holders("base") = InFlight
      BY DEF Clients, Holders, Semaphore
    <3>2. /\ IsFiniteSet(InFlight)
          /\ Cardinality(InFlight) = podLogReadSem["base"]
      BY <3>1 DEF IInv, SlotsAreHeld
    <3> QED
      BY <3>1, <3>2 DEF IInv, Types
  <2>2. IsFiniteSet(Room) /\ Cardinality(Room) = maxPodLogLimitBytes + 1
    BY BytesAssumption, FS_Interval
  <2>3. /\ IsFiniteSet(InFlight \X Room)
        /\ Cardinality(InFlight \X Room)
             = Cardinality(InFlight) * (maxPodLogLimitBytes + 1)
    BY <2>1, <2>2, FS_Product
  <2>4. Blocks \subseteq InFlight \X Room
    <3> SUFFICES ASSUME NEW r \in Reads, NEW i \in 1..MaxStream, i <= buffered[r]
                 PROVE  r \in InFlight /\ i \in Room
      BY DEF Blocks
    <3>1. buffered[r] \in Nat /\ buffered[r] > 0
      BY BytesAssumption DEF IInv, Types
    <3>2. pc[r] = "reading"
      BY <3>1 DEF IInv, ReadOK
    <3>3. buffered[r] <= maxPodLogLimitBytes + 1
      BY BytesAssumption DEF IInv, Types, BufferBound, StopsAt
    <3> QED
      BY <3>1, <3>2, <3>3, BytesAssumption DEF InFlight
  <2>5. /\ Cardinality(Blocks) <= Cardinality(InFlight \X Room)
        /\ Cardinality(Blocks) \in Nat
    BY <2>3, <2>4, FS_Subset, FS_CardinalityType
  <2>6. Cardinality(InFlight) * (maxPodLogLimitBytes + 1)
          <= maxConcurrentPodLogReads * (maxPodLogLimitBytes + 1)
    BY <2>1, SlotsAssumption, BytesAssumption
  <2>7. /\ Cardinality(InFlight) * (maxPodLogLimitBytes + 1) \in Nat
        /\ maxConcurrentPodLogReads * (maxPodLogLimitBytes + 1) \in Nat
    BY <2>1, SlotsAssumption, BytesAssumption
  <2> QED
    BY <2>3, <2>5, <2>6, <2>7 DEF AggregateBound
<1> QED
  BY <1>1, Invariant, PTL
=============================================================================
