-------------------------- MODULE KubeClientProofs --------------------------
(***************************************************************************)
(* What holds of the shared client for any number of operations, restarts  *)
(* of the refresh and edits of the kubeconfig.  The argument: mu keeps     *)
(* locked readers and an assigning loop apart (MuExcludes), so a locked    *)
(* reader sees components that do not change, and that agree because a     *)
(* loop unlocks only after it has assigned them all (AssignedSoFar).       *)
(***************************************************************************)
EXTENDS KubeClient, TLAPS

(* mu: the loop that assigns holds it, and no locked operation reads then. *)
MuExcludes ==
  /\ \A l \in Loops : lpc[l] = "assign" <=> writer = l
  /\ writer # Nil => Readers = {}

(* A loop that holds mu has assigned the components in order, up to        *)
(* assigned, and left the others as they were.                             *)
AssignedSoFar ==
  \A l \in Loops : \A i, j \in DOMAIN Components :
    lpc[l] = "assign" =>
      /\ i <= assigned[l] => comp[Components[i]] = built[l]
      /\ i > assigned[l] /\ j > assigned[l] =>
           comp[Components[i]] = comp[Components[j]]

(* Outside "assign" a loop has assigned nothing.                           *)
AssignedReset == \A l \in Loops : lpc[l] # "assign" => assigned[l] = 0

(* What a locked operation has read is still what the client holds; an     *)
(* unlocked one reads a single component.                                  *)
SeenIsCurrent ==
  \A o \in Ops :
    /\ o \in Readers =>
         \A i \in DOMAIN seen[o], f \in Names : seen[o][i] = comp[f]
    /\ opc[o] = "using" /\ kind[o] \in Unlocked => Len(seen[o]) <= 1

(* Only a loop that was started can have been cancelled.                   *)
CancelledWereStarted == \A l \in cancelled : lpc[l] # "new"

IInv ==
  /\ TypeOK
  /\ CancelledWereStarted
  /\ OneLiveLoop
  /\ MuExcludes
  /\ AssignedReset
  /\ AssignedSoFar
  /\ ComponentsAgree
  /\ SeenIsCurrent

-----------------------------------------------------------------------------
(* There are four components.                                              *)
LEMMA FourComponents ==
  /\ DOMAIN Components = 1..4
  /\ Len(Components) = 4
  /\ Names = {"discoveryClient", "dynamicClient", "clientset", "restConfig"}
  /\ \A i, j \in 1..4 : i # j => Components[i] # Components[j]
  /\ \A i \in 1..4 : Components[i] \in Names
<1>1. DOMAIN Components = 1..4 /\ Len(Components) = 4
  BY DEF Components
<1>2. /\ Components[1] = "discoveryClient" /\ Components[2] = "dynamicClient"
      /\ Components[3] = "clientset" /\ Components[4] = "restConfig"
  BY DEF Components
<1>3. 1..4 = {1, 2, 3, 4}
  OBVIOUS
<1>4. Names = {"discoveryClient", "dynamicClient", "clientset", "restConfig"}
  BY <1>1, <1>2, <1>3 DEF Names
<1> QED
  BY <1>1, <1>2, <1>3, <1>4

(* What an operation reads are components; an unlocked one reads one.      *)
LEMMA ReadsComponents ==
  ASSUME NEW k \in Kinds
  PROVE  /\ Len(Reads[k]) \in Nat
         /\ \A i \in 1..Len(Reads[k]) : Reads[k][i] \in Names
         /\ k \in Unlocked => Len(Reads[k]) = 1
<1>1. \/ Reads[k] = <<"discoveryClient">>
      \/ Reads[k] = <<"dynamicClient", "dynamicClient">>
      \/ Reads[k] = <<"clientset", "restConfig">>
      \/ Reads[k] = <<"restConfig">>
      \/ Reads[k] = <<"clientset">>
      \/ Reads[k] = <<"dynamicClient">>
  BY DEF Reads, Kinds
<1>2. k \in Unlocked => Reads[k] = <<"dynamicClient">> \/ Reads[k] = <<"clientset">>
  BY DEF Reads, Kinds, Unlocked
<1>3. /\ "discoveryClient" \in Names
      /\ "dynamicClient" \in Names
      /\ "clientset" \in Names
      /\ "restConfig" \in Names
  BY FourComponents
<1>4. ASSUME NEW f \in Names, Reads[k] = <<f>>
      PROVE  Len(Reads[k]) = 1 /\ \A i \in 1..Len(Reads[k]) : Reads[k][i] \in Names
  BY <1>4
<1>5. ASSUME NEW f \in Names, NEW g \in Names, Reads[k] = <<f, g>>
      PROVE  Len(Reads[k]) = 2 /\ \A i \in 1..Len(Reads[k]) : Reads[k][i] \in Names
  BY <1>5
<1>6. /\ Len(Reads[k]) \in {1, 2}
      /\ \A i \in 1..Len(Reads[k]) : Reads[k][i] \in Names
  BY <1>1, <1>3, <1>4, <1>5
<1>7. k \in Unlocked => Len(Reads[k]) = 1
  BY <1>2, <1>3, <1>4
<1> QED
  BY <1>6, <1>7

-----------------------------------------------------------------------------
LEMMA InitInv == Init => IInv
<1> SUFFICES ASSUME Init PROVE IInv
  OBVIOUS
<1>1. TypeOK
  <2>1. /\ file \in [edit : 0..MaxEdits, ok : BOOLEAN]
        /\ comp \in [Names -> 0..MaxEdits]
        /\ built \in [Loops -> 0..MaxEdits]
    BY EditsAssumption DEF Init
  <2>2. assigned \in [Loops -> 0..Len(Components)]
    BY FourComponents DEF Init
  <2>3. refreshing \in BOOLEAN
    BY DEF Init
  <2>4. /\ kind \in [Ops -> Kinds \cup {Nil}]
        /\ opc \in [Ops -> {"idle", "RLock", "using"}]
        /\ seen \in [Ops -> Seq(0..MaxEdits)]
        /\ \A o \in Ops : /\ kind[o] = Nil <=> opc[o] = "idle"
                          /\ opc[o] # "using" => seen[o] = <<>>
    BY DEF Init
  <2> QED
    BY <2>1, <2>2, <2>3, <2>4 DEF Init, TypeOK
<1>2. CancelledWereStarted /\ OneLiveLoop
  BY DEF Init, CancelledWereStarted, OneLiveLoop
<1>3. MuExcludes /\ AssignedReset /\ AssignedSoFar /\ ComponentsAgree /\ SeenIsCurrent
  BY NilAssumption DEF Init, MuExcludes, AssignedReset, AssignedSoFar,
                       ComponentsAgree, SeenIsCurrent, Readers
<1> QED
  BY <1>1, <1>2, <1>3 DEF IInv

-----------------------------------------------------------------------------
(* A step that starts, stops and cancels nothing leaves the loops alive    *)
(* that were.                                                              *)
LEMMA SameLoopsLive ==
  ASSUME CancelledWereStarted, OneLiveLoop, cancelled \subseteq Loops,
         UNCHANGED refreshVars,
         \A l \in Loops : /\ lpc'[l] = "new" <=> lpc[l] = "new"
                          /\ l \notin cancelled => (lpc'[l] = "done" <=> lpc[l] = "done")
  PROVE  CancelledWereStarted' /\ OneLiveLoop'
<1>1. CancelledWereStarted'
  BY DEF CancelledWereStarted, refreshVars
<1>2. OneLiveLoop'
  BY Zenon DEF OneLiveLoop, refreshVars
<1> QED
  BY <1>1, <1>2

(* One lemma per action, or per group of actions that write the same       *)
(* variables: the inductive invariant is kept.                             *)

LEMMA BeginInv ==
  ASSUME IInv, NEW o \in Ops, Begin(o)
  PROVE  IInv'
<1> USE DEF IInv
<1>1. PICK k \in Kinds :
        /\ kind' = [kind EXCEPT ![o] = k]
        /\ opc' = [opc EXCEPT ![o] = IF k \in Unlocked THEN "using" ELSE "RLock"]
  BY OfferedAssumption DEF Begin
<1>2. seen[o] = <<>> /\ seen' = seen
  BY DEF Begin, TypeOK
<1>3. TypeOK'
  BY <1>1, <1>2, NilAssumption DEF TypeOK, Begin, refreshVars, loopVars
<1>4. Readers' = Readers
  BY <1>1 DEF Begin, Readers, TypeOK
<1>5. MuExcludes' /\ AssignedReset' /\ AssignedSoFar' /\ ComponentsAgree'
  BY <1>4 DEF Begin, MuExcludes, AssignedReset, AssignedSoFar, ComponentsAgree, loopVars
<1>6. SeenIsCurrent'
  BY <1>1, <1>2, <1>4 DEF Begin, SeenIsCurrent, TypeOK
<1>7. CancelledWereStarted' /\ OneLiveLoop'
  BY SameLoopsLive DEF Begin, TypeOK, loopVars, refreshVars
<1> QED
  BY <1>3, <1>5, <1>6, <1>7

LEMMA RLockInv ==
  ASSUME IInv, NEW o \in Ops, RLock(o)
  PROVE  IInv'
<1> USE DEF IInv
<1>1. seen[o] = <<>> /\ seen' = seen /\ kind' = kind
  BY DEF RLock, TypeOK
<1>2. TypeOK'
  BY <1>1 DEF TypeOK, RLock, refreshVars, loopVars
<1>3. MuExcludes' /\ AssignedReset' /\ AssignedSoFar' /\ ComponentsAgree'
  BY DEF RLock, MuExcludes, AssignedReset, AssignedSoFar, ComponentsAgree, loopVars
<1>4. SeenIsCurrent'
  BY <1>1 DEF RLock, SeenIsCurrent, TypeOK, Readers
<1>5. CancelledWereStarted' /\ OneLiveLoop'
  BY SameLoopsLive DEF RLock, TypeOK, loopVars, refreshVars
<1> QED
  BY <1>2, <1>3, <1>4, <1>5

LEMMA UseInv ==
  ASSUME IInv, NEW o \in Ops, Use(o)
  PROVE  IInv'
<1> USE DEF IInv
<1> DEFINE f == Reads[kind[o]][Len(seen[o]) + 1]
<1>1. kind[o] \in Kinds /\ seen[o] \in Seq(0..MaxEdits)
  BY DEF Use, TypeOK
<1>2. f \in Names /\ comp[f] \in 0..MaxEdits
  BY <1>1, ReadsComponents DEF Use, TypeOK
<1>3. /\ seen' = [seen EXCEPT ![o] = Append(seen[o], comp[f])]
      /\ kind' = kind /\ opc' = opc /\ comp' = comp /\ writer' = writer
      /\ lpc' = lpc /\ built' = built /\ assigned' = assigned
  BY DEF Use, loopVars
<1> HIDE DEF f
<1>4. Append(seen[o], comp[f]) \in Seq(0..MaxEdits)
  BY <1>1, <1>2
<1>5. TypeOK'
  BY <1>3, <1>4 DEF TypeOK, Use, refreshVars, loopVars
<1>6. Readers' = Readers
  BY <1>3 DEF Readers
<1>7. MuExcludes' /\ AssignedReset' /\ AssignedSoFar' /\ ComponentsAgree'
  BY <1>3, <1>6 DEF MuExcludes, AssignedReset, AssignedSoFar, ComponentsAgree
<1>8. SeenIsCurrent'
  <2> SUFFICES ASSUME NEW p \in Ops
               PROVE  /\ p \in Readers =>
                           \A i \in DOMAIN seen'[p], g \in Names : seen'[p][i] = comp[g]
                      /\ opc[p] = "using" /\ kind[p] \in Unlocked => Len(seen'[p]) <= 1
    BY <1>3, <1>6 DEF SeenIsCurrent
  <2>1. CASE p # o
    BY <2>1, <1>3 DEF SeenIsCurrent, TypeOK
  <2>2. CASE p = o
    <3>1. seen'[o] = Append(seen[o], comp[f])
      BY <1>3 DEF TypeOK
    <3>2. kind[o] \in Unlocked => Len(seen'[o]) <= 1
      BY <1>1, <1>4, <3>1, ReadsComponents DEF Use
    <3>3. ASSUME o \in Readers, NEW i \in DOMAIN seen'[o], NEW g \in Names
          PROVE  seen'[o][i] = comp[g]
      <4>1. comp[f] = comp[g]
        BY <1>2, <3>3, NilAssumption DEF MuExcludes, ComponentsAgree
      <4>2. CASE i = Len(seen[o]) + 1
        BY <1>1, <3>1, <4>1, <4>2
      <4>3. CASE i # Len(seen[o]) + 1
        <5>1. i \in DOMAIN seen[o] /\ seen'[o][i] = seen[o][i]
          BY <1>1, <1>2, <3>1, <3>3, <4>3
        <5> QED
          BY <5>1, <3>3 DEF SeenIsCurrent
      <4> QED
        BY <4>2, <4>3
    <3> QED
      BY <2>2, <3>2, <3>3
  <2> QED
    BY <2>1, <2>2
<1>9. CancelledWereStarted' /\ OneLiveLoop'
  BY SameLoopsLive DEF Use, TypeOK, loopVars, refreshVars
<1> QED
  BY <1>5, <1>7, <1>8, <1>9

LEMMA FinishInv ==
  ASSUME IInv, NEW o \in Ops, Finish(o)
  PROVE  IInv'
<1> USE DEF IInv
<1>1. TypeOK'
  BY DEF TypeOK, Finish, refreshVars, loopVars
<1>2. Readers' \subseteq Readers
  BY DEF Finish, Readers, TypeOK
<1>3. MuExcludes' /\ AssignedReset' /\ AssignedSoFar' /\ ComponentsAgree'
  BY <1>2 DEF Finish, MuExcludes, AssignedReset, AssignedSoFar, ComponentsAgree, loopVars
<1>4. SeenIsCurrent'
  BY <1>2 DEF Finish, SeenIsCurrent, TypeOK, Readers
<1>5. CancelledWereStarted' /\ OneLiveLoop'
  BY SameLoopsLive DEF Finish, TypeOK, loopVars, refreshVars
<1> QED
  BY <1>1, <1>3, <1>4, <1>5

(* Edits, starts, stops and exits touch neither mu nor the components.     *)
LEMMA OutsideInv ==
  ASSUME IInv,
         \/ Edit
         \/ StartPeriodicRefresh
         \/ StopPeriodicRefresh
         \/ \E l \in Loops : Refresh(l) \/ Exit(l)
  PROVE  IInv'
<1> USE DEF IInv
<1>1. /\ comp' = comp /\ writer' = writer /\ assigned' = assigned
      /\ kind' = kind /\ opc' = opc /\ seen' = seen
  BY DEF Edit, StartPeriodicRefresh, StopPeriodicRefresh, Refresh, Exit, loopVars, opVars
<1>2. \A l \in Loops : /\ lpc'[l] = "assign" <=> lpc[l] = "assign"
                       /\ lpc[l] = "assign" => built'[l] = built[l]
  BY DEF Edit, StartPeriodicRefresh, StopPeriodicRefresh, Refresh, Exit, loopVars, TypeOK
<1>3. TypeOK'
  <2>1. CASE Edit
    <3>1. file' \in [edit : 0..MaxEdits, ok : BOOLEAN]
      BY <2>1, EditsAssumption DEF Edit, TypeOK
    <3> QED
      BY <2>1, <3>1 DEF Edit, TypeOK, refreshVars, loopVars, opVars
  <2>2. CASE StartPeriodicRefresh
    BY <2>2 DEF StartPeriodicRefresh, TypeOK, opVars
  <2>3. CASE StopPeriodicRefresh
    <3>1. cancelled' \subseteq Loops
      BY <2>3 DEF StopPeriodicRefresh, TypeOK, OneLiveLoop
    <3> QED
      BY <2>3, <3>1 DEF StopPeriodicRefresh, TypeOK, loopVars, opVars
  <2>4. ASSUME NEW l \in Loops, Refresh(l) \/ Exit(l) PROVE TypeOK'
    BY <2>4 DEF Refresh, Exit, TypeOK, refreshVars, opVars
  <2> QED
    BY <2>1, <2>2, <2>3, <2>4
<1>4. Readers' = Readers
  BY <1>1 DEF Readers
<1>5. CancelledWereStarted' /\ OneLiveLoop'
  <2>1. CASE Edit \/ \E l \in Loops : Refresh(l) \/ Exit(l)
    BY <2>1, SameLoopsLive DEF Edit, Refresh, Exit, TypeOK, loopVars, refreshVars
  <2>2. CASE StartPeriodicRefresh
    BY <2>2 DEF StartPeriodicRefresh, CancelledWereStarted, OneLiveLoop, TypeOK
  <2>3. CASE StopPeriodicRefresh
    BY <2>3 DEF StopPeriodicRefresh, CancelledWereStarted, OneLiveLoop, TypeOK, loopVars
  <2> QED
    BY <2>1, <2>2, <2>3, <1>3 DEF Edit
<1> QED
  BY <1>1, <1>2, <1>3, <1>4, <1>5 DEF MuExcludes, AssignedReset, AssignedSoFar,
                                ComponentsAgree, SeenIsCurrent

LEMMA LockInv ==
  ASSUME IInv, NEW l \in Loops, Lock(l)
  PROVE  IInv'
<1> USE DEF IInv
<1>1. TypeOK'
  BY DEF TypeOK, Lock, refreshVars, opVars
<1>2. Readers' = Readers /\ Readers = {}
  BY DEF Lock, Readers, opVars
<1>3. MuExcludes' /\ AssignedReset'
  BY <1>2, NilAssumption DEF Lock, MuExcludes, AssignedReset, TypeOK
<1>4. AssignedSoFar'
  BY FourComponents, NilAssumption
     DEF Lock, MuExcludes, AssignedReset, AssignedSoFar, ComponentsAgree, TypeOK
<1>5. ComponentsAgree' /\ SeenIsCurrent'
  BY <1>2, NilAssumption DEF Lock, ComponentsAgree, SeenIsCurrent, opVars
<1>6. CancelledWereStarted' /\ OneLiveLoop'
  BY SameLoopsLive DEF Lock, TypeOK, loopVars, refreshVars
<1> QED
  BY <1>1, <1>3, <1>4, <1>5, <1>6

LEMMA AssignInv ==
  ASSUME IInv, NEW l \in Loops, Assign(l)
  PROVE  IInv'
<1> USE DEF IInv
<1> DEFINE n == assigned[l] + 1
<1>1. /\ n \in 1..4
      /\ writer = l /\ writer # Nil /\ Readers = {}
      /\ \A m \in Loops : lpc[m] = "assign" => m = l
  <2>1. assigned[l] \in 0..4 /\ assigned[l] < 4
    BY FourComponents DEF Assign, TypeOK
  <2>2. /\ writer = l /\ writer # Nil /\ Readers = {}
        /\ \A m \in Loops : lpc[m] = "assign" => m = l
    BY NilAssumption DEF Assign, MuExcludes
  <2> QED
    BY <2>1, <2>2
<1>2. /\ comp' = [comp EXCEPT ![Components[n]] = built[l]]
      /\ assigned' = [assigned EXCEPT ![l] = n]
      /\ writer' = writer /\ lpc' = lpc /\ built' = built
      /\ kind' = kind /\ opc' = opc /\ seen' = seen
  BY DEF Assign, opVars
<1> HIDE DEF n
<1>3. \A i \in 1..4 : comp'[Components[i]] = IF i = n THEN built[l] ELSE comp[Components[i]]
  BY <1>1, <1>2, FourComponents DEF TypeOK
<1>4. assigned'[l] = n /\ assigned[l] = n - 1
  BY <1>2 DEF TypeOK, n
<1>5. TypeOK'
  BY <1>1, <1>2, FourComponents DEF TypeOK, Assign, refreshVars
<1>6. MuExcludes' /\ AssignedReset'
  BY <1>1, <1>2 DEF MuExcludes, AssignedReset, Assign, Readers, TypeOK
<1>7. AssignedSoFar'
  BY <1>1, <1>2, <1>3, <1>4, FourComponents DEF AssignedSoFar, Assign
<1>8. ComponentsAgree' /\ SeenIsCurrent'
  BY <1>1, <1>2 DEF ComponentsAgree, SeenIsCurrent, Readers
<1>9. CancelledWereStarted' /\ OneLiveLoop'
  BY SameLoopsLive DEF Assign, TypeOK, loopVars, refreshVars
<1> QED
  BY <1>5, <1>6, <1>7, <1>8, <1>9

LEMMA UnlockInv ==
  ASSUME IInv, NEW l \in Loops, Unlock(l)
  PROVE  IInv'
<1> USE DEF IInv
<1>1. writer = l /\ Readers = {} /\ \A m \in Loops : lpc[m] = "assign" => m = l
  BY NilAssumption DEF Unlock, MuExcludes
<1>2. TypeOK'
  BY FourComponents, EditsAssumption DEF TypeOK, Unlock, refreshVars, opVars
<1>3. MuExcludes' /\ AssignedReset'
  BY <1>1, NilAssumption DEF MuExcludes, AssignedReset, Unlock, Readers, TypeOK, opVars
<1>4. AssignedSoFar'
  BY <1>1 DEF AssignedSoFar, Unlock, TypeOK
<1>5. ComponentsAgree'
  <2>1. \A i \in 1..4 : comp[Components[i]] = built[l]
    BY FourComponents DEF AssignedSoFar, Unlock
  <2>2. \A f \in Names : \E i \in 1..4 : f = Components[i]
    BY FourComponents DEF Names
  <2> QED
    BY <2>1, <2>2 DEF ComponentsAgree, Unlock
<1>6. SeenIsCurrent'
  BY <1>1 DEF SeenIsCurrent, Unlock, Readers, opVars
<1>7. CancelledWereStarted' /\ OneLiveLoop'
  BY SameLoopsLive DEF Unlock, TypeOK, loopVars, refreshVars
<1> QED
  BY <1>2, <1>3, <1>4, <1>5, <1>6, <1>7

(* IInv is an invariant of the client.                                     *)
THEOREM Invariance == Spec => []IInv
<1>1. IInv /\ [Next]_vars => IInv'
  <2> SUFFICES ASSUME IInv, [Next]_vars PROVE IInv'
    OBVIOUS
  <2>1. ASSUME NEW o \in Ops, Operation(o) PROVE IInv'
    BY <2>1, BeginInv, RLockInv, UseInv, FinishInv DEF Operation
  <2>2. ASSUME NEW l \in Loops, RefreshLoop(l) PROVE IInv'
    BY <2>2, OutsideInv, LockInv, AssignInv, UnlockInv DEF RefreshLoop
  <2>3. CASE Edit \/ StartPeriodicRefresh \/ StopPeriodicRefresh
    BY <2>3, OutsideInv
  <2>4. CASE UNCHANGED vars
    BY <2>4 DEF vars, refreshVars, loopVars, opVars, IInv, TypeOK, MuExcludes,
                AssignedReset, AssignedSoFar, ComponentsAgree, SeenIsCurrent, Readers,
                CancelledWereStarted, OneLiveLoop
  <2> QED
    BY <2>1, <2>2, <2>3, <2>4 DEF Next
<1> QED
  BY InitInv, <1>1, PTL DEF Spec

(* A refresh is all or nothing.                                            *)
THEOREM RefreshIsAtomic == Spec => []ComponentsAgree
  BY Invariance, PTL DEF IInv

(* The variables keep their types.                                         *)
THEOREM TypeCorrect == Spec => []TypeOK
  BY Invariance, PTL DEF IInv

(* The flag and the goroutines agree through every start and stop.         *)
THEOREM RefreshingMeansOneLoop == Spec => []OneLiveLoop
  BY Invariance, PTL DEF IInv

(* No operation mixes two kubeconfigs.                                     *)
THEOREM OperationsSeeOneGeneration == Spec => []OneGeneration
<1>1. IInv => OneGeneration
  <2> SUFFICES ASSUME IInv, NEW o \in Ops, NEW i \in DOMAIN seen[o], NEW j \in DOMAIN seen[o]
               PROVE  seen[o][i] = seen[o][j]
    BY DEF OneGeneration
  <2> USE DEF IInv
  <2>1. seen[o] \in Seq(0..MaxEdits) /\ "restConfig" \in Names
    BY FourComponents DEF TypeOK
  <2>2. CASE o \in Readers
    BY <2>1, <2>2 DEF SeenIsCurrent
  <2>3. CASE opc[o] = "using" /\ kind[o] \in Unlocked
    BY <2>1, <2>3 DEF SeenIsCurrent
  <2>4. CASE opc[o] # "using"
    BY <2>1, <2>4 DEF TypeOK
  <2> QED
    BY <2>2, <2>3, <2>4 DEF Readers
<1> QED
  BY Invariance, <1>1, PTL
=============================================================================
