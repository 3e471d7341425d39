----------------------------- MODULE ExecProofs -----------------------------
(***************************************************************************)
(* What holds of an exec whatever the timeouts, the sizes of the buffers   *)
(* and the output.  A buffer holds the beginning of what was copied, and   *)
(* its mark says that there was more (BufferInv); what the handler has     *)
(* read of it is compared with that at each later step (ReadInv).          *)
(***************************************************************************)
EXTENDS Exec, TLAPS

BufferOf(s) ==
  /\ copied[s] <= written[s]
  /\ buffer[s].kept = IF copied[s] <= maxExecStreamBytes
                        THEN copied[s] ELSE maxExecStreamBytes
  /\ buffer[s].truncated <=> copied[s] > maxExecStreamBytes

BufferInv == \A s \in Streams : BufferOf(s)

(* The stream was copied to the end of the output of a command that has    *)
(* succeeded; nothing moves any more.                                      *)
Complete == command = "exited" /\ copied = written /\ copying = {}

(* What the handler has read of the buffers is what they hold if the       *)
(* stream was complete; the mark, once read, is of a buffer.               *)
ReadInv ==
  /\ pc = "returned" /\ status.error = "none" => err = "exited"
  /\ err = "exited" =>
       /\ Complete
       /\ pc \in {"stderr", "truncated", "error", "returned"} =>
            status.stdout = buffer["stdout"].kept
       /\ pc \in {"truncated", "error", "returned"} => status.stderr = buffer["stderr"].kept
       /\ pc \in {"error", "returned"} =>
            (status.truncated <=> \E s \in Streams : buffer[s].truncated)
  /\ status.truncated => \E s \in Streams : buffer[s].truncated
  /\ pc \in {"start", "stream"} => err = "none"
  /\ pc = "start" => copying = {}

IInv == TypeOK /\ BufferInv /\ ReadInv

-----------------------------------------------------------------------------
(* Whatever the body asks for, the timeout is in range.                    *)
LEMMA EffectiveInRange ==
  ASSUME NEW r \in Requests
  PROVE  Effective(r.timeout) \in 1..MaxExecTimeout
<1>1. \A x \in Int : Effective(x) \in 1..MaxExecTimeout
  BY DurationAssumption DEF Effective
<1>2. Half \in Nat \ {0}
  BY DurationAssumption DEF Half
<1>3. \A t \in Durations : Seconds(t) \in Int
  BY <1>2, DurationAssumption DEF Durations, Seconds, Wrap
<1>4. r.timeout \in Int
  <2>1. CASE r \in {[asked |-> DefaultTimeout, timeout |-> DefaultTimeout]}
    BY <2>1, DurationAssumption
  <2>2. CASE r \in {[asked |-> t * Second, timeout |-> Seconds(t)] : t \in Durations}
    BY <2>2, <1>3
  <2>3. CASE r \in {[asked |-> Half * Second, timeout |-> d] : d \in Durations}
    BY <2>3 DEF Durations
  <2>4. CASE r \in {[asked |-> d, timeout |-> d] : d \in Durations}
    BY <2>4 DEF Durations
  <2> QED
    BY <2>1, <2>2, <2>3, <2>4 DEF Requests
<1> QED
  BY <1>1, <1>4

(* boundedBuffer.Write keeps what fits, and marks what does not.           *)
LEMMA WriteKeepsBeginning ==
  ASSUME NEW b \in [kept : 0..maxExecStreamBytes, truncated : BOOLEAN],
         NEW m \in Nat, NEW n \in Nat \ {0},
         b.kept = IF m <= maxExecStreamBytes THEN m ELSE maxExecStreamBytes,
         b.truncated <=> m > maxExecStreamBytes
  PROVE  /\ Write(b, n) \in [kept : 0..maxExecStreamBytes, truncated : BOOLEAN]
         /\ Write(b, n).kept = IF m + n <= maxExecStreamBytes
                                 THEN m + n ELSE maxExecStreamBytes
         /\ Write(b, n).truncated <=> m + n > maxExecStreamBytes
<1> DEFINE remaining == maxExecStreamBytes - b.kept
<1>1. CASE remaining <= 0
  <2>1. Write(b, n) = [b EXCEPT !.truncated = TRUE]
    BY <1>1 DEF Write
  <2>2. b.kept = maxExecStreamBytes /\ m + n > maxExecStreamBytes
    BY <1>1, BytesAssumption
  <2>3. /\ Write(b, n) \in [kept : 0..maxExecStreamBytes, truncated : BOOLEAN]
        /\ Write(b, n).kept = maxExecStreamBytes
        /\ Write(b, n).truncated
    BY <2>1, <2>2
  <2> QED
    BY <2>2, <2>3, BytesAssumption
<1>2. CASE remaining > 0 /\ n > remaining
  <2>1. Write(b, n) = [kept |-> maxExecStreamBytes, truncated |-> TRUE]
    BY <1>2, BytesAssumption DEF Write
  <2>2. m + n > maxExecStreamBytes
    BY <1>2, BytesAssumption
  <2> QED
    BY <2>1, <2>2, BytesAssumption
<1>3. CASE remaining > 0 /\ n <= remaining
  <2>1. Write(b, n) = [b EXCEPT !.kept = @ + n]
    BY <1>3, BytesAssumption DEF Write
  <2>2. m <= maxExecStreamBytes /\ b.kept = m /\ m + n <= maxExecStreamBytes
    BY <1>3, BytesAssumption
  <2>3. ~b.truncated
    BY <2>2, BytesAssumption
  <2> QED
    BY <2>1, <2>2, <2>3, BytesAssumption
<1> QED
  BY <1>1, <1>2, <1>3, BytesAssumption

LEMMA InitInv == Init => IInv
<1> SUFFICES ASSUME Init PROVE IInv
  OBVIOUS
<1>1. TypeOK
  <2>1. 0 \in 0..maxExecStreamBytes /\ 0 \in 0..MaxOutput /\ 0 \in 0..MaxExecTimeout
    BY DurationAssumption, BytesAssumption
  <2>2. 0 \in 0..defaultCtxTimeout
    BY DurationAssumption
  <2>3. EmptyBuffer \in [kept : 0..maxExecStreamBytes, truncated : BOOLEAN]
    BY <2>1 DEF EmptyBuffer
  <2>4. buffer \in [Streams -> [kept : 0..maxExecStreamBytes, truncated : BOOLEAN]]
    BY <2>3 DEF Init
  <2> QED
    BY <2>1, <2>2, <2>4 DEF Init, TypeOK
<1>2. BufferInv
  BY BytesAssumption DEF Init, BufferInv, BufferOf, EmptyBuffer
<1>3. ReadInv
  BY DEF Init, ReadInv
<1> QED
  BY <1>1, <1>2, <1>3 DEF IInv

-----------------------------------------------------------------------------
(* What the proofs below need of the types.                                *)
LEMMA BytesAreNumbers ==
  ASSUME IInv, NEW s \in Streams
  PROVE  /\ written[s] \in Nat /\ written[s] <= MaxOutput
         /\ copied[s] \in Nat /\ copied[s] <= written[s]
         /\ status[s] \in Nat /\ status[s] <= maxExecStreamBytes
<1>1. /\ written[s] \in 0..MaxOutput /\ copied[s] \in 0..MaxOutput
      /\ status[s] \in 0..maxExecStreamBytes
  BY DEF IInv, TypeOK, Streams
<1>2. copied[s] <= written[s]
  BY DEF IInv, BufferInv, BufferOf
<1> QED
  BY <1>1, <1>2, BytesAssumption

(* The nearer of two deadlines.                                            *)
LEMMA EarlierInRange ==
  ASSUME NEW a \in Nat, NEW b \in Nat, NEW c \in Nat
  PROVE  (IF a + b < c THEN a + b ELSE c) \in 0..c
<1>1. CASE a + b < c
  BY <1>1
<1>2. CASE ~(a + b < c)
  BY <1>2
<1> QED
  BY <1>1, <1>2

LEMMA BeginInv ==
  ASSUME IInv, Refuse \/ Start
  PROVE  IInv'
<1>1. CASE Refuse
  BY <1>1 DEF Refuse, clockVars, callVars, podVars, copyVars,
              IInv, TypeOK, BufferInv, BufferOf, ReadInv, Complete
<1>2. CASE Start
  <2>1. PICK r \in Requests :
          large' = (r.asked > MaxExecTimeout) /\ timeout' = Effective(r.timeout)
    BY <1>2, Zenon DEF Start
  <2>2. timeout' \in 1..MaxExecTimeout
    BY <2>1, EffectiveInRange, Zenon
  <2>3. deadline' \in 0..defaultCtxTimeout
    <3>1. deadline' = IF now + timeout' < defaultCtxTimeout
                        THEN now + timeout' ELSE defaultCtxTimeout
      BY <1>2, Zenon DEF Start
    <3>2. now \in 0..defaultCtxTimeout
      BY Zenon DEF IInv, TypeOK
    <3>3. now \in Nat /\ timeout' \in Nat /\ defaultCtxTimeout \in Nat
      BY <2>2, <3>2, DurationAssumption
    <3> QED
      BY <3>1, <3>3, EarlierInRange, Zenon
  <2>4. large' \in BOOLEAN
    <3>1. (r.asked > MaxExecTimeout) \in BOOLEAN
      OBVIOUS
    <3> QED
      BY <2>1, <3>1, Zenon
  <2>5. timeout' \in 0..MaxExecTimeout /\ timeout' > 0
    BY <2>2, DurationAssumption
  <2>6. /\ pc = "start" /\ pc' = "stream" /\ copying' = Streams
        /\ UNCHANGED <<now, expired, command, written, copied, buffer, err, status>>
    BY <1>2, Zenon DEF Start, clockVars, podVars
  <2>7. TypeOK'
    BY <2>3, <2>4, <2>5, <2>6 DEF IInv, TypeOK
  <2>8. BufferInv'
    BY <2>6 DEF IInv, BufferInv, BufferOf
  <2>9. ReadInv'
    BY <2>6 DEF IInv, ReadInv
  <2> QED
    BY <2>7, <2>8, <2>9 DEF IInv
<1> QED
  BY <1>1, <1>2

LEMMA StreamInv ==
  ASSUME IInv, StreamEnds \/ StreamCancelled
  PROVE  IInv'
<1> USE DEF StreamEnds, StreamCancelled, clockVars, callVars, podVars, copyVars, IInv
<1>1. TypeOK'
  BY DEF TypeOK
<1>2. BufferInv'
  BY DEF BufferInv, BufferOf
<1>3. ReadInv'
  BY DEF ReadInv, Complete, TypeOK
<1> QED
  BY <1>1, <1>2, <1>3

LEMMA ReadingInv ==
  ASSUME IInv, ReadStdout \/ ReadStderr \/ ReadTruncated \/ Finish
  PROVE  IInv'
<1> USE DEF clockVars, callVars, podVars, copyVars, IInv
<1>1. TypeOK'
  <2>1. CASE ReadStdout
    BY <2>1 DEF ReadStdout, TypeOK, Streams
  <2>2. CASE ReadStderr
    BY <2>2 DEF ReadStderr, TypeOK, Streams
  <2>3. CASE ReadTruncated
    BY <2>3 DEF ReadTruncated, TypeOK
  <2>4. CASE Finish
    BY <2>4 DEF Finish, TypeOK
  <2> QED
    BY <2>1, <2>2, <2>3, <2>4
<1>2. BufferInv'
  BY DEF BufferInv, BufferOf, ReadStdout, ReadStderr, ReadTruncated, Finish
<1>3. ReadInv'
  <2>1. CASE ReadStdout
    BY <2>1 DEF ReadStdout, ReadInv, Complete, TypeOK
  <2>2. CASE ReadStderr
    BY <2>2 DEF ReadStderr, ReadInv, Complete, TypeOK
  <2>3. CASE ReadTruncated
    BY <2>3 DEF ReadTruncated, ReadInv, Complete, TypeOK
  <2>4. CASE Finish
    BY <2>4 DEF Finish, ReadInv, Complete, TypeOK
  <2> QED
    BY <2>1, <2>2, <2>3, <2>4
<1> QED
  BY <1>1, <1>2, <1>3

-----------------------------------------------------------------------------
(* The command, its copying goroutines and the clock.                      *)
LEMMA OutputInv ==
  ASSUME IInv, NEW s \in Streams, Output(s)
  PROVE  IInv'
<1> USE DEF Output, clockVars, callVars, copyVars
<1>1. /\ \A t \in Streams : copied[t] \in Nat /\ written[t] \in Nat
      /\ written[s] + 1 \in 0..MaxOutput
  BY BytesAreNumbers, BytesAssumption
<1>2. written' = [written EXCEPT ![s] = written[s] + 1]
  OBVIOUS
<1>3. TypeOK'
  <2>1. written' \in [Streams -> 0..MaxOutput]
    <3>1. written \in [Streams -> 0..MaxOutput]
      BY DEF IInv, TypeOK
    <3> QED
      BY <1>1, <1>2, <3>1
  <2> QED
    BY <2>1 DEF IInv, TypeOK
<1>4. BufferInv'
  <2> SUFFICES ASSUME NEW t \in Streams PROVE BufferOf(t)'
    BY DEF BufferInv
  <2>1. BufferOf(t) /\ UNCHANGED <<copied, buffer>>
    BY DEF IInv, BufferInv
  <2>2. written \in [Streams -> 0..MaxOutput]
    BY DEF IInv, TypeOK
  <2>3. written'[t] \in {written[t], written[t] + 1}
    BY <1>2, <2>2
  <2>4. copied[t] <= written'[t]
    BY <1>1, <2>1, <2>3 DEF BufferOf
  <2> QED
    BY <2>1, <2>4 DEF BufferOf
<1>5. ReadInv'
  BY DEF IInv, ReadInv, Complete
<1> QED
  BY <1>3, <1>4, <1>5 DEF IInv

LEMMA CopyInv ==
  ASSUME IInv, NEW s \in Streams, Copy(s)
  PROVE  IInv'
<1>1. PICK n \in 1..(written[s] - copied[s]) :
        /\ copied' = [copied EXCEPT ![s] = copied[s] + n]
        /\ buffer' = [buffer EXCEPT ![s] = Write(buffer[s], n)]
  BY DEF Copy
<1>2. /\ s \in copying
      /\ UNCHANGED <<now, expired, pc, large, timeout, deadline, command, written,
                     copying, err, status>>
  BY DEF Copy, clockVars, callVars, podVars
<1>3. /\ written \in [Streams -> 0..MaxOutput]
      /\ copied \in [Streams -> 0..MaxOutput]
      /\ buffer \in [Streams -> [kept : 0..maxExecStreamBytes, truncated : BOOLEAN]]
  BY DEF IInv, TypeOK
<1>4. /\ n \in Nat \ {0}
      /\ copied[s] + n \in 0..MaxOutput
      /\ copied[s] + n <= written[s]
  BY <1>3, BytesAssumption
<1>5. \A t \in Streams : BufferOf(t)
  BY DEF IInv, BufferInv
<1>6. /\ Write(buffer[s], n) \in [kept : 0..maxExecStreamBytes, truncated : BOOLEAN]
      /\ Write(buffer[s], n).kept = IF copied[s] + n <= maxExecStreamBytes
                                      THEN copied[s] + n ELSE maxExecStreamBytes
      /\ Write(buffer[s], n).truncated <=> copied[s] + n > maxExecStreamBytes
  <2>1. copied[s] \in Nat
    BY <1>3, BytesAssumption
  <2>2. /\ buffer[s].kept = IF copied[s] <= maxExecStreamBytes
                              THEN copied[s] ELSE maxExecStreamBytes
        /\ buffer[s].truncated <=> copied[s] > maxExecStreamBytes
    BY <1>5 DEF BufferOf
  <2> QED
    BY <1>3, <1>4, <2>1, <2>2, WriteKeepsBeginning
<1>7. TypeOK'
  <2>1. copied' \in [Streams -> 0..MaxOutput]
    BY <1>1, <1>3, <1>4
  <2>2. buffer' \in [Streams -> [kept : 0..maxExecStreamBytes, truncated : BOOLEAN]]
    BY <1>1, <1>3, <1>6
  <2>3. TypeOK
    BY DEF IInv
  <2> QED
    BY ZenonT(60), <1>2, <2>1, <2>2, <2>3 DEF TypeOK
<1>8. BufferInv'
  <2> SUFFICES ASSUME NEW t \in Streams PROVE BufferOf(t)'
    BY DEF BufferInv
  <2>1. CASE t = s
    BY <2>1, <1>1, <1>2, <1>3, <1>4, <1>6 DEF BufferOf
  <2>2. CASE t # s
    <3>1. copied'[t] = copied[t] /\ buffer'[t] = buffer[t]
      BY <2>2, <1>1, <1>3
    <3> QED
      BY <3>1, <1>2, <1>5 DEF BufferOf
  <2> QED
    BY <2>1, <2>2
<1>9. ReadInv'
  <2>1. err # "exited" /\ pc # "start"
    BY <1>2 DEF IInv, ReadInv, Complete
  <2>2. \A t \in Streams : buffer[t].truncated => buffer'[t].truncated
    BY <1>1, <1>3, <1>4, <1>5, <1>6, BytesAssumption DEF BufferOf
  <2> QED
    BY <2>1, <2>2, <1>2 DEF IInv, ReadInv
<1> QED
  BY <1>7, <1>8, <1>9 DEF IInv

LEMMA OutsideInv ==
  ASSUME IInv, \/ \E s \in Streams : CopyEnds(s)
               \/ Exit \/ Tick \/ Expire \/ UNCHANGED vars
  PROVE  IInv'
<1> USE DEF CopyEnds, Exit, Tick, Expire, vars, clockVars, callVars, podVars, copyVars, IInv
<1>1. TypeOK'
  <2>1. CASE Tick
    <3>1. now' \in 0..defaultCtxTimeout
      <4>1. now \in 0..defaultCtxTimeout
        BY DEF TypeOK
      <4> QED
        BY <2>1, <4>1, DurationAssumption
    <3> QED
      BY ZenonT(60), <2>1, <3>1 DEF TypeOK
  <2>2. CASE \E s \in Streams : CopyEnds(s)
    BY ZenonT(60), <2>2 DEF TypeOK
  <2>3. CASE Exit \/ Expire
    BY ZenonT(60), <2>3 DEF TypeOK
  <2>4. CASE UNCHANGED vars
    BY ZenonT(60), <2>4 DEF TypeOK
  <2> QED
    BY <2>1, <2>2, <2>3, <2>4
<1>2. BufferInv'
  BY DEF BufferInv, BufferOf
<1>3. ReadInv'
  BY DEF ReadInv, Complete
<1> QED
  BY <1>1, <1>2, <1>3

LEMMA StepInv == IInv /\ [Next]_vars => IInv'
<1> SUFFICES ASSUME IInv, [Next]_vars PROVE IInv'
  OBVIOUS
<1>1. CASE Refuse \/ Start
  BY <1>1, BeginInv
<1>2. CASE defaultExecInPod
  BY <1>2, StreamInv, ReadingInv DEF defaultExecInPod
<1>3. ASSUME NEW s \in Streams, Output(s) \/ Copy(s) PROVE IInv'
  BY <1>3, OutputInv, CopyInv
<1>4. CASE \/ \E s \in Streams : CopyEnds(s)
           \/ Exit \/ Tick \/ Expire \/ UNCHANGED vars
  BY <1>4, OutsideInv
<1> QED
  BY <1>1, <1>2, <1>3, <1>4 DEF Next

(* IInv is an invariant of the exec.                                     *)
THEOREM Invariant == Spec => []IInv
BY InitInv, StepInv, PTL DEF Spec

-----------------------------------------------------------------------------
(* The variables keep their types: whatever the body asks for, in whatever *)
(* width of integers, the timeout of a command that runs is between one    *)
(* and the cap, and a buffer never holds more than its size.               *)
THEOREM TypeCorrect == Spec => []TypeOK
<1>1. IInv => TypeOK
  BY DEF IInv
<1> QED
  BY <1>1, Invariant, PTL

(* A result without error is of a command that has succeeded, and without  *)
(* the mark it is all of its output.                                       *)
THEOREM SuccessIsHonest == Spec => []SuccessIsComplete
<1>1. IInv => SuccessIsComplete
  <2> SUFFICES ASSUME IInv, pc = "returned", status.error = "none"
               PROVE  command = "exited" /\ (~status.truncated => ~Lost)
    BY DEF SuccessIsComplete
  <2>1. /\ command = "exited" /\ copied = written
        /\ status.stdout = buffer["stdout"].kept
        /\ status.stderr = buffer["stderr"].kept
        /\ status.truncated <=> \E s \in Streams : buffer[s].truncated
    BY DEF IInv, ReadInv, Complete
  <2>2. ASSUME ~status.truncated, NEW s \in Streams
        PROVE  status[s] >= written[s]
    <3>1. ~buffer[s].truncated /\ status[s] = buffer[s].kept
      BY <2>1, <2>2 DEF Streams
    <3>2. BufferOf(s)
      BY DEF IInv, BufferInv
    <3> QED
      BY <2>1, <3>1, <3>2, BytesAreNumbers, BytesAssumption DEF BufferOf
  <2> QED
    BY <2>1, <2>2, BytesAreNumbers DEF Lost
<1> QED
  BY <1>1, Invariant, PTL

(* The mark is there only when output is missing.                          *)
THEOREM MarkIsHonest == Spec => []MarkIsTrue
<1>1. IInv => MarkIsTrue
  <2> SUFFICES ASSUME IInv, status.truncated PROVE Lost
    BY DEF MarkIsTrue
  <2>1. PICK s \in Streams : buffer[s].truncated
    BY DEF IInv, ReadInv
  <2>2. copied[s] > maxExecStreamBytes
    BY <2>1 DEF IInv, BufferInv, BufferOf
  <2> QED
    BY <2>2, BytesAreNumbers, BytesAssumption DEF Lost
<1> QED
  BY <1>1, Invariant, PTL
=============================================================================
