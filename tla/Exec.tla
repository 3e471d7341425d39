-------------------------------- MODULE Exec --------------------------------
(***************************************************************************)
(* One post_resource call that runs a command in a pod: how long it may    *)
(* run, what of its output is kept, and what is reported.  The handler,    *)
(* the goroutines that copy the two output streams, the command and the    *)
(* clock run side by side.                                                 *)
(*                                                                         *)
(* Durations are integers of DurationBits bits, as time.Duration is one of *)
(* 64; output is counted in blocks.  The tool call begins at time 0.       *)
(***************************************************************************)
EXTENDS Integers

CONSTANTS
  DurationBits,       \* width of time.Duration
  Second,             \* time.Second
  DefaultTimeout,     \* of a command, if none is given
  MaxExecTimeout,     \* of a command, at most
  defaultCtxTimeout,  \* of the tool call
  maxExecStreamBytes, \* kept of each stream
  MaxOutput           \* bound: what the command writes to each stream

(* The second conjunct follows from the first; the provers do not know it. *)
ASSUME DurationAssumption ==
  /\ DurationBits \in Nat \ {0}
  /\ 2^(DurationBits - 1) \in Nat \ {0}
  /\ Second \in Nat \ {0}
  /\ DefaultTimeout \in Nat \ {0}
  /\ MaxExecTimeout \in Nat
  /\ DefaultTimeout <= MaxExecTimeout
  /\ defaultCtxTimeout \in Nat

ASSUME BytesAssumption ==
  /\ maxExecStreamBytes \in Nat \ {0}
  /\ MaxOutput \in Nat

Streams == {"stdout", "stderr"}

-----------------------------------------------------------------------------
(* The timeout.                                                            *)

Half == 2^(DurationBits - 1)

Durations == -Half .. Half - 1

(* What an integer is in a variable of type time.Duration.                 *)
Wrap(x) == ((x + Half) % (2 * Half)) - Half

(* time.Duration(t) * time.Second                                          *)
Seconds(t) == Wrap(t * Second)

(* Mutant of Effective: a timeout that is not positive is kept.            *)
OnlyCapped(timeout) ==
  IF timeout > MaxExecTimeout THEN MaxExecTimeout ELSE timeout

(* defaultExecInPod: the default for what is not positive, and the cap.    *)
Effective(timeout) ==
  IF timeout <= 0 THEN DefaultTimeout
  ELSE IF timeout > MaxExecTimeout THEN MaxExecTimeout ELSE timeout

(* The body's timeout: what it asks for, without limits of arithmetic, and *)
(* the duration it becomes.  A number out of the range of 64 bits becomes  *)
(* any duration; one that is absent or no duration, the default.           *)
Requests ==
  {[asked |-> DefaultTimeout, timeout |-> DefaultTimeout]}
  \cup {[asked |-> t * Second, timeout |-> Seconds(t)] : t \in Durations}
  \cup {[asked |-> Half * Second, timeout |-> d] : d \in Durations}
  \cup {[asked |-> d, timeout |-> d] : d \in Durations}

-----------------------------------------------------------------------------
(* boundedBuffer                                                           *)

EmptyBuffer == [kept |-> 0, truncated |-> FALSE]

(* Mutants of Write: a block too many is dropped without a mark, and a     *)
(* buffer that is just full is marked.                                     *)
WriteUnmarked(b, n) ==
  LET remaining == maxExecStreamBytes - b.kept
  IN IF remaining <= 0 THEN [b EXCEPT !.truncated = TRUE]
     ELSE IF n > remaining THEN [b EXCEPT !.kept = maxExecStreamBytes]
     ELSE [b EXCEPT !.kept = @ + n]

WriteFullMarked(b, n) ==
  LET remaining == maxExecStreamBytes - b.kept
  IN IF n >= remaining
       THEN [kept |-> maxExecStreamBytes, truncated |-> TRUE]
       ELSE [b EXCEPT !.kept = @ + n]

Write(b, n) ==
  LET remaining == maxExecStreamBytes - b.kept
  IN IF remaining <= 0 THEN [b EXCEPT !.truncated = TRUE]
     ELSE IF n > remaining THEN [kept |-> maxExecStreamBytes, truncated |-> TRUE]
     ELSE [b EXCEPT !.kept = @ + n]

-----------------------------------------------------------------------------
VARIABLES
  now,       \* the clock, which stops when the tool call's context ends
  pc,        \* the handler's next step
  large,     \* history: the body asks for more than MaxExecTimeout
  timeout,   \* the timeout in force, 0 before there is one
  deadline,  \* of execCtx
  expired,   \* execCtx is done
  command,   \* "running", "exited" or "failed"
  written,   \* stream -> what the command has written
  copied,    \* stream -> what its goroutine has copied
  copying,   \* the streams whose goroutine still runs
  buffer,    \* stream -> its boundedBuffer
  err,       \* what StreamWithContext returned
  status     \* the result: the output, the mark and the error

clockVars == <<now, expired>>
callVars  == <<large, timeout, deadline>>
podVars   == <<command, written>>
copyVars  == <<copied, copying, buffer>>
vars      == <<clockVars, pc, callVars, podVars, copyVars, err, status>>

Init ==
  /\ now = 0
  /\ pc = "start"
  /\ large = FALSE
  /\ timeout = 0
  /\ deadline = 0
  /\ expired = FALSE
  /\ command = "running"
  /\ written = [s \in Streams |-> 0]
  /\ copied = [s \in Streams |-> 0]
  /\ copying = {}
  /\ buffer = [s \in Streams |-> EmptyBuffer]
  /\ err = "none"
  /\ status = [stdout |-> 0, stderr |-> 0, truncated |-> FALSE, error |-> "none"]

-----------------------------------------------------------------------------
(* The handler.                                                            *)

(* No pod, no command, a command of the wrong type, or no executor.        *)
Refuse ==
  /\ pc = "start"
  /\ pc' = "returned"
  /\ status' = [status EXCEPT !.error = "refused"]
  /\ UNCHANGED <<clockVars, callVars, podVars, copyVars, err>>

(* The call may have waited before it comes here, so its own deadline may  *)
(* be near or have passed; execCtx ends with the nearer of the two.        *)
Start ==
  /\ pc = "start"
  /\ \E r \in Requests :
       /\ large' = (r.asked > MaxExecTimeout)
       /\ timeout' = Effective(r.timeout)
  /\ deadline' = IF now + timeout' < defaultCtxTimeout
                   THEN now + timeout' ELSE defaultCtxTimeout
  /\ copying' = Streams
  /\ pc' = "stream"
  /\ UNCHANGED <<clockVars, podVars, copied, buffer, err, status>>

(* StreamWithContext returns when the streams are copied to their end and  *)
(* the command's exit status is there, or the connection breaks ...        *)
StreamEnds ==
  /\ pc = "stream"
  /\ \/ /\ command # "running"
        /\ copied = written
        /\ err' = command
     \/ err' = "broken"
  /\ copying' = {}
  /\ pc' = "stdout"
  /\ UNCHANGED <<clockVars, callVars, podVars, copied, buffer, status>>

(* Mutant of StreamCancelled: the stream is run with no context.           *)
StreamUncancelled ==
  /\ pc = "stream"
  /\ expired
  /\ UNCHANGED vars

(* ... or execCtx is done; the goroutines that copy may run on for a while. *)
StreamCancelled ==
  /\ pc = "stream"
  /\ expired
  /\ err' = "deadline"
  /\ pc' = "stdout"
  /\ UNCHANGED <<clockVars, callVars, podVars, copyVars, status>>

ReadStdout ==
  /\ pc = "stdout"
  /\ status' = [status EXCEPT !.stdout = buffer["stdout"].kept]
  /\ pc' = "stderr"
  /\ UNCHANGED <<clockVars, callVars, podVars, copyVars, err>>

ReadStderr ==
  /\ pc = "stderr"
  /\ status' = [status EXCEPT !.stderr = buffer["stderr"].kept]
  /\ pc' = "truncated"
  /\ UNCHANGED <<clockVars, callVars, podVars, copyVars, err>>

ReadTruncated ==
  /\ pc = "truncated"
  /\ status' = [status EXCEPT !.truncated = \E s \in Streams : buffer[s].truncated]
  /\ pc' = "error"
  /\ UNCHANGED <<clockVars, callVars, podVars, copyVars, err>>

(* A deadline that has passed by now counts as a timeout, however the      *)
(* stream ended.                                                           *)
Finish ==
  /\ pc = "error"
  /\ status' = [status EXCEPT !.error =
                  IF expired THEN "timed out"
                  ELSE IF err = "exited" THEN "none" ELSE "failed"]
  /\ pc' = "returned"
  /\ UNCHANGED <<clockVars, callVars, podVars, copyVars, err>>

-----------------------------------------------------------------------------
(* The command and the connection, the copying goroutines, the clock.      *)

Output(s) ==
  /\ pc # "start"
  /\ command = "running"
  /\ written[s] < MaxOutput
  /\ written' = [written EXCEPT ![s] = @ + 1]
  /\ UNCHANGED <<clockVars, pc, callVars, command, copyVars, err, status>>

Exit ==
  /\ pc # "start"
  /\ command = "running"
  /\ command' \in {"exited", "failed"}
  /\ UNCHANGED <<clockVars, pc, callVars, written, copyVars, err, status>>

Copy(s) ==
  /\ s \in copying
  /\ \E n \in 1..(written[s] - copied[s]) :
       /\ copied' = [copied EXCEPT ![s] = @ + n]
       /\ buffer' = [buffer EXCEPT ![s] = Write(@, n)]
  /\ UNCHANGED <<clockVars, pc, callVars, podVars, copying, err, status>>

(* A goroutine left behind notices that the connection is closed.          *)
CopyEnds(s) ==
  /\ pc # "stream"
  /\ s \in copying
  /\ copying' = copying \ {s}
  /\ UNCHANGED <<clockVars, pc, callVars, podVars, copied, buffer, err, status>>

Tick ==
  /\ now < defaultCtxTimeout
  /\ now' = now + 1
  /\ UNCHANGED <<expired, pc, callVars, podVars, copyVars, err, status>>

(* The timer of execCtx goes off, at its time or a little later.           *)
Expire ==
  /\ pc \notin {"start", "returned"}
  /\ now >= deadline
  /\ ~expired
  /\ expired' = TRUE
  /\ UNCHANGED <<now, pc, callVars, podVars, copyVars, err, status>>

-----------------------------------------------------------------------------
defaultExecInPod ==
  \/ StreamEnds
  \/ StreamCancelled
  \/ ReadStdout
  \/ ReadStderr
  \/ ReadTruncated
  \/ Finish

Next ==
  \/ Refuse
  \/ Start
  \/ defaultExecInPod
  \/ \E s \in Streams : Output(s) \/ Copy(s) \/ CopyEnds(s)
  \/ Exit
  \/ Tick
  \/ Expire

Spec == Init /\ [][Next]_vars

(***************************************************************************)
(* Time passes, timers go off, and the handler goes on once the stream has *)
(* returned.  Nothing is assumed of the command, the connection or the     *)
(* goroutines that copy.                                                   *)
(***************************************************************************)
Fairness ==
  /\ WF_vars(Tick)
  /\ WF_vars(Expire)
  /\ WF_vars(StreamCancelled)
  /\ WF_vars(ReadStdout \/ ReadStderr \/ ReadTruncated \/ Finish)

FairSpec == Spec /\ Fairness

-----------------------------------------------------------------------------
(* Properties.                                                             *)

(* Types; whatever the body asks for, a command has a timeout between one  *)
(* and the cap, and each buffer keeps its size.                            *)
TypeOK ==
  /\ now \in 0..defaultCtxTimeout
  /\ pc \in {"start", "stream", "stdout", "stderr", "truncated", "error", "returned"}
  /\ large \in BOOLEAN
  /\ timeout \in 0..MaxExecTimeout
  /\ pc \notin {"start", "returned"} => timeout > 0
  /\ deadline \in 0..defaultCtxTimeout
  /\ expired \in BOOLEAN
  /\ command \in {"running", "exited", "failed"}
  /\ written \in [Streams -> 0..MaxOutput]
  /\ copied \in [Streams -> 0..MaxOutput]
  /\ copying \subseteq Streams
  /\ buffer \in [Streams -> [kept : 0..maxExecStreamBytes, truncated : BOOLEAN]]
  /\ err \in {"none", "exited", "failed", "broken", "deadline"}
  /\ status \in [stdout : 0..maxExecStreamBytes, stderr : 0..maxExecStreamBytes,
                 truncated : BOOLEAN,
                 error : {"none", "failed", "timed out", "refused"}]

Lost == \E s \in Streams : status[s] < written[s]

(* A result without error is of a command that ended and succeeded, and    *)
(* without the mark it is all that the command wrote (exec.go:26-29).      *)
SuccessIsComplete ==
  pc = "returned" /\ status.error = "none" =>
    /\ command = "exited"
    /\ ~status.truncated => ~Lost

(* The mark is there only when output is missing, also when the goroutines *)
(* that copy still write while the handler reads.                          *)
MarkIsTrue == pc = "returned" /\ status.truncated => Lost

(* Every exec returns, also when the command never ends: at the latest the *)
(* tool call's deadline ends it (server.go:17, exec.go:89-91).             *)
ExecReturns == pc = "stream" ~> pc = "returned"

(* "Maximum timeout: 60 seconds (any larger value will be capped)"         *)
(* (README.md:422).                                                        *)
LargeTimeoutsAreCapped == large /\ timeout # 0 => timeout = MaxExecTimeout
=============================================================================
