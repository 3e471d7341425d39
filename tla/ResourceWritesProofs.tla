------------------------ MODULE ResourceWritesProofs ------------------------
(***************************************************************************)
(* What holds of the writing tools for any number of calls: they implement *)
(* CompareAndSet, and a call writes at most once.  The inductive invariant *)
(* says what a write on its way looks like (InFlight) and that it is the   *)
(* call's only one (OnlyWrite).                                            *)
(***************************************************************************)
EXTENDS ResourceWrites, TLAPS

(* Only apply_resource looks first.  An update on its way carries the      *)
(* version its call found, a create the knowledge that there was none and  *)
(* the version in the manifest; only delete_resource deletes.              *)
InFlight ==
  \A c \in Calls :
    /\ pc[c] = "Get" => tool[c] = "apply_resource"
    /\ request[c] # Nil =>
         /\ tool[c] = "delete_resource" <=> request[c].verb = "Delete"
         /\ request[c].verb = "Update" => request[c].rv = existing[c] /\ existing[c] # 0
         /\ request[c].verb = "Create" => existing[c] = 0 /\ request[c].rv = carried[c]

(* A write on its way has not happened; one that is answered has, or not.  *)
OnlyWrite ==
  \A c \in Calls :
    /\ pc[c] \in {"new", "Get"} => /\ request[c] = Nil
                                   /\ answer[c] = "none"
                                   /\ existing[c] = 0
                                   /\ served[c] = 0
    /\ request[c] # Nil => served[c] = 0
    /\ answer[c] = "done" => served[c] = 1
    /\ served[c] \in {0, 1}

IInv ==
  /\ TypeOK
  /\ InFlight
  /\ OnlyWrite
  /\ OkMeansDone

-----------------------------------------------------------------------------
(* A write is a record of a verb and a version, and is not Nil.            *)
LEMMA WritesAreRequests ==
  ASSUME NEW v \in {"Update", "Create", "Delete"}, NEW rv \in 0..MaxRV
  PROVE  /\ Write(v, rv) \in Requests
         /\ Write(v, rv) # Nil
         /\ Write(v, rv).verb = v
         /\ Write(v, rv).rv = rv
  BY NilAssumption DEF Requests, Write

LEMMA InitInv == Init => IInv
  BY MaxRVAssumption, NilAssumption
     DEF Init, IInv, TypeOK, InFlight, OnlyWrite, OkMeansDone

(* The API server never gives out more than MaxRV.                         *)
LEMMA VersionsBounded ==
  ASSUME TypeOK
  PROVE  0..lastRV \subseteq 0..MaxRV /\ stored \in 0..MaxRV /\ 0 \in 0..MaxRV
  BY MaxRVAssumption DEF TypeOK

LEMMA BeginInv ==
  ASSUME IInv, NEW c \in Calls, Begin(c)
  PROVE  IInv'
<1> USE DEF IInv
<1>1. PICK t \in Tools, rv \in 0..MaxRV :
        /\ tool' = [tool EXCEPT ![c] = t]
        /\ carried' = [carried EXCEPT ![c] = IF t = "delete_resource" THEN 0 ELSE rv]
        /\ \/ /\ t = "apply_resource"
              /\ pc' = [pc EXCEPT ![c] = "Get"]
              /\ UNCHANGED request
           \/ t = "post_resource" /\ Send(c, "Create", rv)
           \/ t = "delete_resource" /\ Send(c, "Delete", 0)
  BY VersionsBounded, Zenon DEF Begin
<1>2. t # Nil /\ 0 \in 0..MaxRV /\ carried' \in [Calls -> 0..MaxRV]
  BY <1>1, VersionsBounded, NilAssumption DEF TypeOK
<1>3. /\ request' \in [Calls -> Requests \cup {Nil}]
      /\ pc' \in [Calls -> {"new", "Get", "waiting", "returned"}]
  <2>1. CASE t = "apply_resource"
    BY <1>1, <2>1 DEF TypeOK, Send
  <2>2. CASE t # "apply_resource"
    <3>1. PICK w \in Requests : request' = [request EXCEPT ![c] = w]
      BY <1>1, <1>2, <2>2, WritesAreRequests DEF Send
    <3> QED
      BY <1>1, <2>2, <3>1 DEF TypeOK, Send
  <2> QED
    BY <2>1, <2>2
<1>4. TypeOK'
  BY <1>1, <1>2, <1>3, WritesAreRequests DEF TypeOK, Begin, Send, OnlyWrite, serverVars
<1>5. InFlight' /\ OnlyWrite' /\ OkMeansDone'
  BY <1>1, <1>2, WritesAreRequests
     DEF TypeOK, Begin, Send, InFlight, OnlyWrite, OkMeansDone
<1> QED
  BY <1>4, <1>5

LEMMA GetInv ==
  ASSUME IInv, NEW c \in Calls, Get(c)
  PROVE  IInv'
<1> USE DEF IInv
<1>1. /\ stored \in 0..MaxRV /\ carried[c] \in 0..MaxRV
      /\ request[c] = Nil /\ answer[c] = "none" /\ existing[c] = 0 /\ served[c] = 0
  BY VersionsBounded DEF Get, TypeOK, OnlyWrite
<1>2. tool[c] # Nil /\ tool[c] # "delete_resource"
  BY NilAssumption DEF Get, TypeOK, InFlight
<1>3. CASE /\ stored # 0
           /\ existing' = [existing EXCEPT ![c] = stored]
           /\ Send(c, "Update", stored)
           /\ UNCHANGED misread
  <2>1. TypeOK'
    BY <1>1, <1>2, <1>3, WritesAreRequests DEF Get, TypeOK, Send, serverVars
  <2>2. InFlight' /\ OnlyWrite' /\ OkMeansDone'
    BY <1>1, <1>2, <1>3, WritesAreRequests
       DEF Get, TypeOK, Send, InFlight, OnlyWrite, OkMeansDone
  <2> QED
    BY <2>1, <2>2
<1>4. CASE /\ misread' = IF stored = 0 THEN misread ELSE misread \cup {c}
           /\ Send(c, "Create", carried[c])
           /\ UNCHANGED existing
  <2>1. misread' \subseteq Calls
    BY <1>4 DEF TypeOK
  <2>2. TypeOK'
    BY <1>1, <1>2, <1>4, <2>1, WritesAreRequests DEF Get, TypeOK, Send, serverVars
  <2>3. InFlight' /\ OnlyWrite' /\ OkMeansDone'
    BY <1>1, <1>2, <1>4, WritesAreRequests
       DEF Get, TypeOK, Send, InFlight, OnlyWrite, OkMeansDone
  <2> QED
    BY <2>2, <2>3
<1> QED
  BY <1>3, <1>4 DEF Get, UpdateVersion

LEMMA ReturnInv ==
  ASSUME IInv, NEW c \in Calls, Receive(c) \/ GiveUp(c)
  PROVE  IInv'
<1> USE DEF IInv
<1>1. pc[c] = "waiting" /\ request' = request /\ answer' = answer
  BY DEF Receive, GiveUp, netVars
<1>2. PICK r \in {"ok", "error"} : Return(c, r) /\ (r = "ok" => answer[c] = "done")
  BY DEF Receive, GiveUp
<1>3. TypeOK'
  BY <1>1, <1>2 DEF TypeOK, Return, serverVars
<1>4. InFlight' /\ OnlyWrite' /\ OkMeansDone'
  BY <1>1, <1>2 DEF TypeOK, Return, InFlight, OnlyWrite, OkMeansDone
<1> QED
  BY <1>3, <1>4

LEMMA ServeInv ==
  ASSUME IInv, NEW c \in Calls, Serve(c)
  PROVE  IInv'
<1> USE DEF IInv
<1>1. /\ request[c] # Nil /\ served[c] = 0 /\ result[c] # "ok"
      /\ request' = [request EXCEPT ![c] = Nil]
      /\ \/ answer' = [answer EXCEPT ![c] = "done"] /\ served' = [served EXCEPT ![c] = 1]
         \/ answer' = [answer EXCEPT ![c] = "refused"] /\ served' = served
      /\ tool' = tool /\ pc' = pc /\ carried' = carried /\ existing' = existing
      /\ misread' = misread /\ result' = result
  BY DEF Serve, OnlyWrite, OkMeansDone, TypeOK, callVars
<1>2. lastRV' \in 0..MaxRV /\ stored' \in 0..lastRV'
  BY MaxRVAssumption DEF Serve, TypeOK, serverVars
<1>3. TypeOK'
  BY <1>1, <1>2 DEF TypeOK
<1>4. InFlight' /\ OnlyWrite' /\ OkMeansDone'
  BY <1>1 DEF TypeOK, InFlight, OnlyWrite, OkMeansDone
<1> QED
  BY <1>3, <1>4

LEMMA LoseInv ==
  ASSUME IInv, NEW c \in Calls, Lose(c)
  PROVE  IInv'
<1> USE DEF IInv
<1>1. TypeOK'
  BY DEF Lose, TypeOK, serverVars, callVars
<1>2. InFlight' /\ OnlyWrite' /\ OkMeansDone'
  BY DEF Lose, TypeOK, InFlight, OnlyWrite, OkMeansDone, callVars
<1> QED
  BY <1>1, <1>2

LEMMA OtherInv ==
  ASSUME IInv, OtherPut \/ OtherDelete
  PROVE  IInv'
<1> USE DEF IInv
<1>1. lastRV' \in 0..MaxRV /\ stored' \in 0..lastRV'
  BY MaxRVAssumption DEF OtherPut, OtherDelete, TypeOK
<1>2. TypeOK'
  BY <1>1 DEF OtherPut, OtherDelete, TypeOK, callVars, netVars
<1>3. InFlight' /\ OnlyWrite' /\ OkMeansDone'
  BY DEF OtherPut, OtherDelete, InFlight, OnlyWrite, OkMeansDone, callVars, netVars
<1> QED
  BY <1>2, <1>3

(* IInv is an invariant of the writing tools.                              *)
THEOREM Invariance == Spec => []IInv
<1>1. IInv /\ [Next]_vars => IInv'
  <2> SUFFICES ASSUME IInv, [Next]_vars PROVE IInv'
    OBVIOUS
  <2>1. ASSUME NEW c \in Calls, ToolCall(c) PROVE IInv'
    BY <2>1, BeginInv, GetInv, ReturnInv DEF ToolCall
  <2>2. ASSUME NEW c \in Calls, Serve(c) \/ Lose(c) PROVE IInv'
    BY <2>2, ServeInv, LoseInv
  <2>3. CASE OtherPut \/ OtherDelete
    BY <2>3, OtherInv
  <2>4. CASE UNCHANGED vars
    BY <2>4 DEF vars, serverVars, callVars, netVars, IInv, TypeOK, InFlight,
                OnlyWrite, OkMeansDone
  <2> QED
    BY <2>1, <2>2, <2>3, <2>4 DEF Next
<1> QED
  BY InitInv, <1>1, PTL DEF Spec

-----------------------------------------------------------------------------
(* What follows from it.                                                   *)

(* The variables keep their types; a call has at most one request on its   *)
(* way, and none once it has its answer.                                   *)
THEOREM TypeCorrect == Spec => []TypeOK
  BY Invariance, PTL DEF IInv

(* A call changes the cluster at most once.                                *)
THEOREM WritesAtMostOnce == Spec => []AtMostOnce
<1>1. IInv => AtMostOnce
  <2> SUFFICES ASSUME OnlyWrite, NEW c \in Calls PROVE served[c] <= 1
    BY DEF IInv, AtMostOnce
  <2>1. served[c] \in {0, 1}
    BY DEF OnlyWrite
  <2> QED
    BY <2>1
<1> QED
  BY Invariance, <1>1, PTL

(* Success is never reported for something that was not done.              *)
THEOREM SuccessIsHonest == Spec => []OkMeansDone
  BY Invariance, PTL DEF IInv

(* An apply is refused for cause: only the API server refuses, and it      *)
(* would have accepted what the call sent had the object been as found.    *)
THEOREM RefusalsHaveACause == Spec => RefusedForCause
<1>1. IInv /\ [Next]_vars =>
        \A c \in Calls :
          tool[c] = "apply_resource" /\ answer[c] = "none" /\ answer'[c] = "refused" =>
            \/ stored # existing[c]
            \/ c \in misread
            \/ existing[c] = 0 /\ carried[c] # 0
  <2> SUFFICES ASSUME IInv, [Next]_vars, NEW c \in Calls,
                      tool[c] = "apply_resource",
                      answer[c] = "none", answer'[c] = "refused",
                      stored = existing[c]
               PROVE  existing[c] = 0 /\ carried[c] # 0
    OBVIOUS
  <2> USE DEF IInv
  <2>1. ASSUME NEW d \in Calls, ToolCall(d) PROVE FALSE
    BY <2>1 DEF ToolCall, Begin, Get, Receive, GiveUp, netVars
  <2>2. ASSUME NEW d \in Calls, Lose(d) PROVE FALSE
    BY <2>2 DEF Lose, TypeOK
  <2>3. CASE OtherPut \/ OtherDelete \/ UNCHANGED vars
    BY <2>3 DEF OtherPut, OtherDelete, vars, netVars
  <2>4. ASSUME NEW d \in Calls, Serve(d)
        PROVE  existing[c] = 0 /\ carried[c] # 0
    <3>1. d = c /\ ~Accepts(request[c]) /\ request[c] # Nil
      BY <2>4 DEF Serve, TypeOK
    <3>2. request[c].verb \in {"Update", "Create", "Delete"}
      BY <3>1 DEF TypeOK, Requests
    <3>3. request[c].verb # "Delete" /\ request[c].verb # "Update"
      BY <3>1 DEF InFlight, Accepts
    <3>4. request[c].verb = "Create" /\ existing[c] = 0 /\ request[c].rv = carried[c]
      BY <3>1, <3>2, <3>3 DEF InFlight
    <3> QED
      BY <3>1, <3>4 DEF Accepts
  <2> QED
    BY <2>1, <2>2, <2>3, <2>4 DEF Next
<1> QED
  BY Invariance, <1>1, PTL DEF Spec, RefusedForCause

(* A step of a call, of the API server or of another writer is a step of   *)
(* CompareAndSet, or changes nothing there.                                *)
LEMMA StepSimulation == IInv /\ [Next]_vars => [CAS!Next]_(CAS!vars)
<1> SUFFICES ASSUME IInv, [Next]_vars PROVE [CAS!Next]_(CAS!vars)
  OBVIOUS
<1> USE DEF IInv
<1>1. ASSUME NEW c \in Calls, Begin(c) PROVE UNCHANGED CAS!vars
  <2>1. served[c] = 0 /\ tool' = [tool EXCEPT ![c] = tool'[c]]
    BY <1>1 DEF Begin, OnlyWrite, TypeOK
  <2>2. Puts' = Puts
    BY <1>1, <2>1 DEF Begin, Puts, TypeOK
  <2> QED
    BY <1>1, <2>2 DEF Begin, serverVars, CAS!vars
<1>2. ASSUME NEW c \in Calls, Get(c) PROVE CAS!Look(c) \/ UNCHANGED CAS!vars
  <2>1. c \notin Puts /\ Puts' = Puts
    BY <1>2 DEF Get, Puts, OnlyWrite
  <2>2. \/ existing' = [existing EXCEPT ![c] = stored]
        \/ existing' = existing
    BY <1>2 DEF Get
  <2> QED
    BY <1>2, <2>1, <2>2 DEF Get, serverVars, CAS!Look, CAS!vars
<1>3. ASSUME NEW c \in Calls, Receive(c) \/ GiveUp(c) \/ Lose(c)
      PROVE  UNCHANGED CAS!vars
  BY <1>3 DEF Receive, GiveUp, Return, Lose, Puts, serverVars, callVars, CAS!vars
<1>4. ASSUME NEW c \in Calls, Serve(c)
      PROVE  CAS!Put(c) \/ CAS!Remove \/ UNCHANGED CAS!vars
  <2>1. existing' = existing /\ tool' = tool /\ served[c] = 0 /\ c \notin Puts
    BY <1>4 DEF Serve, OnlyWrite, Puts, callVars
  <2>2. CASE ~Accepts(request[c])
    BY <1>4, <2>1, <2>2 DEF Serve, serverVars, Puts, CAS!vars
  <2>3. CASE Accepts(request[c]) /\ request[c].verb = "Delete"
    <3>1. stored # 0 /\ stored' = 0 /\ lastRV' = lastRV
      BY <1>4, <2>3 DEF Serve, Accepts
    <3>2. Puts' = Puts
      BY <1>4, <2>1, <2>3 DEF Serve, Puts, InFlight, TypeOK
    <3> QED
      BY <2>1, <3>1, <3>2 DEF CAS!Remove
  <2>4. CASE Accepts(request[c]) /\ request[c].verb # "Delete"
    <3>1. lastRV' = lastRV + 1 /\ stored' = lastRV' /\ served' = [served EXCEPT ![c] = 1]
      BY <1>4, <2>1, <2>4 DEF Serve, TypeOK
    <3>2. stored = existing[c]
      BY <1>4, <2>4 DEF Serve, Accepts, InFlight
    <3>3. tool[c] # "delete_resource"
      BY <1>4, <2>4 DEF Serve, InFlight
    <3>4. Puts' = Puts \cup {c}
      BY <2>1, <3>1, <3>3 DEF Puts, TypeOK
    <3> QED
      BY <2>1, <3>1, <3>2, <3>4 DEF CAS!Put
  <2> QED
    BY <2>2, <2>3, <2>4
<1>5. CASE OtherPut
  BY <1>5 DEF OtherPut, callVars, Puts, CAS!OtherPut, CAS!Next
<1>6. CASE OtherDelete
  BY <1>6 DEF OtherDelete, callVars, Puts, CAS!Remove, CAS!Next
<1>7. CASE UNCHANGED vars
  BY <1>7 DEF vars, serverVars, callVars, Puts, CAS!vars
<1> QED
  BY <1>1, <1>2, <1>3, <1>4, <1>5, <1>6, <1>7 DEF Next, ToolCall, CAS!Next

(* The writing tools implement CompareAndSet.                              *)
THEOREM Refinement == Spec => WritesReplaceWhatWasSeen
<1>1. Init => CAS!Init
  BY DEF Init, Puts, CAS!Init
<1> QED
  BY Invariance, StepSimulation, <1>1, PTL DEF Spec, CAS!Spec, WritesReplaceWhatWasSeen
=============================================================================
