--------------------------- MODULE CompareAndSet ---------------------------
(***************************************************************************)
(* What writing a Kubernetes object through the server promises: a call    *)
(* looks at the object once, and if its write happens at all it happens    *)
(* once and replaces exactly what the call saw.  Nobody's change is lost   *)
(* between the look and the write.                                         *)
(***************************************************************************)
EXTENDS Naturals

CONSTANT Calls

VARIABLES
  stored,   \* resourceVersion of the object, 0 if there is none
  lastRV,   \* the latest resourceVersion given out
  seen,     \* call -> the version it saw, 0 if none
  written   \* the calls whose write has happened

vars == <<stored, lastRV, seen, written>>

Init ==
  /\ stored \in Nat
  /\ lastRV = stored
  /\ seen = [c \in Calls |-> 0]
  /\ written = {}

(* A look that fails finds nothing.                                        *)
Look(c) ==
  /\ c \notin written
  /\ seen' \in {[seen EXCEPT ![c] = v] : v \in {0, stored}}
  /\ UNCHANGED <<stored, lastRV, written>>

Put(c) ==
  /\ c \notin written
  /\ stored = seen[c]
  /\ lastRV' = lastRV + 1
  /\ stored' = lastRV'
  /\ written' = written \cup {c}
  /\ UNCHANGED seen

Remove ==
  /\ stored # 0
  /\ stored' = 0
  /\ UNCHANGED <<lastRV, seen, written>>

(* Writers that do not go through the server.                              *)
OtherPut ==
  /\ lastRV' = lastRV + 1
  /\ stored' = lastRV'
  /\ UNCHANGED <<seen, written>>

Next ==
  \/ \E c \in Calls : Look(c) \/ Put(c)
  \/ Remove
  \/ OtherPut

Spec == Init /\ [][Next]_vars
=============================================================================
