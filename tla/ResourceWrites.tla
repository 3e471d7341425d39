--------------------------- MODULE ResourceWrites ---------------------------
(***************************************************************************)
(* The tools that change the cluster - apply_resource, post_resource and   *)
(* delete_resource - against the API server, for one object.  An apply is  *)
(* two requests, a Get and then an Update or a Create; other writers may   *)
(* come between them.  A request may be lost, its answer may be lost, and  *)
(* a call whose deadline has passed returns while its request is still on  *)
(* its way.  Each call in Calls is made once.                              *)
(***************************************************************************)
EXTENDS Naturals

CONSTANTS
  Calls,  \* tool calls
  MaxRV,  \* bound: the resourceVersions the API server gives out
  Nil     \* nothing

ASSUME MaxRVAssumption == MaxRV \in Nat \ {0}

Requests == [verb : {"Update", "Create", "Delete"}, rv : 0..MaxRV]

Tools == {"apply_resource", "post_resource", "delete_resource"}

ASSUME NilAssumption == Nil \notin Requests /\ Nil \notin Tools

VARIABLES
  stored,    \* resourceVersion of the object in the API server, 0 if none
  lastRV,    \* the latest resourceVersion the API server gave out
  tool,      \* call -> the tool that is called, or Nil
  pc,        \* call -> "new", "Get", "waiting" or "returned"
  carried,   \* call -> the resourceVersion in its manifest, 0 if none
  existing,  \* call -> the version its Get found, 0 if none
  misread,   \* the calls whose Get failed although the object was there
  request,   \* call -> the write on its way to the API server, or Nil
  answer,    \* call -> the API server's answer, "none" until there is one
  result,    \* call -> what the tool call reported
  served     \* call -> how many of its writes the API server has done

serverVars == <<stored, lastRV>>
callVars   == <<tool, pc, carried, existing, misread, result>>
netVars    == <<request, answer>>
vars       == <<serverVars, callVars, netVars, served>>

Write(verb, rv) == [verb |-> verb, rv |-> rv]

Init ==
  /\ stored \in {0, 1}
  /\ lastRV = stored
  /\ tool = [c \in Calls |-> Nil]
  /\ pc = [c \in Calls |-> "new"]
  /\ carried = [c \in Calls |-> 0]
  /\ existing = [c \in Calls |-> 0]
  /\ misread = {}
  /\ request = [c \in Calls |-> Nil]
  /\ answer = [c \in Calls |-> "none"]
  /\ result = [c \in Calls |-> "none"]
  /\ served = [c \in Calls |-> 0]

-----------------------------------------------------------------------------
(* The calls.                                                              *)

(* Mutant of Send: the handler does not wait for the answer.               *)
SendAndStay(c, verb, rv) ==
  /\ request' = [request EXCEPT ![c] = Write(verb, rv)]
  /\ UNCHANGED pc

Send(c, verb, rv) ==
  /\ request' = [request EXCEPT ![c] = Write(verb, rv)]
  /\ pc' = [pc EXCEPT ![c] = "waiting"]

(* A manifest may carry the resourceVersion of an object read earlier.     *)
Begin(c) ==
  /\ pc[c] = "new"
  /\ \E t \in Tools, rv \in 0..lastRV :
       /\ tool' = [tool EXCEPT ![c] = t]
       /\ carried' = [carried EXCEPT ![c] = IF t = "delete_resource" THEN 0 ELSE rv]
       /\ \/ /\ t = "apply_resource"
             /\ pc' = [pc EXCEPT ![c] = "Get"]
             /\ UNCHANGED request
          \/ t = "post_resource" /\ Send(c, "Create", rv)
          \/ t = "delete_resource" /\ Send(c, "Delete", 0)
  /\ UNCHANGED <<serverVars, existing, misread, answer, result, served>>

(* Mutants of UpdateVersion: the update carries the manifest's version, or *)
(* none.                                                                   *)
ManifestVersion(c) == carried[c]

NoVersion(c) == 0

(* obj.SetResourceVersion(existing.GetResourceVersion())                   *)
UpdateVersion(c) == stored

(* Apply looks whether the object exists.  It updates what it found; on    *)
(* any error, NotFound or not, it creates.                                 *)
Get(c) ==
  /\ pc[c] = "Get"
  /\ \/ /\ stored # 0
        /\ existing' = [existing EXCEPT ![c] = stored]
        /\ Send(c, "Update", UpdateVersion(c))
        /\ UNCHANGED misread
     \/ /\ misread' = IF stored = 0 THEN misread ELSE misread \cup {c}
        /\ Send(c, "Create", carried[c])
        /\ UNCHANGED existing
  /\ UNCHANGED <<serverVars, tool, carried, answer, result, served>>

Return(c, r) ==
  /\ pc' = [pc EXCEPT ![c] = "returned"]
  /\ result' = [result EXCEPT ![c] = r]
  /\ UNCHANGED <<serverVars, tool, carried, existing, misread, served>>

(* Mutant of Receive: the answer is not looked at.                         *)
ReceiveAnything(c) ==
  /\ pc[c] = "waiting"
  /\ answer[c] # "none"
  /\ Return(c, "ok")
  /\ UNCHANGED netVars

Receive(c) ==
  /\ pc[c] = "waiting"
  /\ answer[c] # "none"
  /\ Return(c, IF answer[c] = "done" THEN "ok" ELSE "error")
  /\ UNCHANGED netVars

(* Mutant of GiveUp: the write is sent again.                              *)
SendAgain(c) ==
  /\ pc[c] = "waiting"
  /\ request[c] = Nil
  /\ answer' = [answer EXCEPT ![c] = "none"]
  /\ \E verb \in {"Update", "Create"} :
       Send(c, verb, IF verb = "Update" THEN stored ELSE 0)
  /\ UNCHANGED <<serverVars, tool, carried, existing, misread, result, served>>

(* The deadline passes or the connection breaks.  Nothing is sent again.   *)
GiveUp(c) ==
  /\ pc[c] = "waiting"
  /\ Return(c, "error")
  /\ UNCHANGED netVars

-----------------------------------------------------------------------------
(* The API server and the network.                                         *)

(* Whether the API server carries a write out: an update needs an object,  *)
(* with the version given if one is given; a create needs that there is    *)
(* none, and no version; a delete needs an object.                         *)
Accepts(w) ==
  \/ w.verb = "Update" /\ stored # 0 /\ w.rv \in {0, stored}
  \/ w.verb = "Create" /\ stored = 0 /\ w.rv = 0
  \/ w.verb = "Delete" /\ stored # 0

Serve(c) ==
  /\ request[c] # Nil
  /\ request' = [request EXCEPT ![c] = Nil]
  /\ IF Accepts(request[c])
       THEN /\ IF request[c].verb = "Delete"
                 THEN stored' = 0 /\ UNCHANGED lastRV
                 ELSE /\ lastRV < MaxRV
                      /\ lastRV' = lastRV + 1
                      /\ stored' = lastRV'
            /\ served' = [served EXCEPT ![c] = @ + 1]
            /\ answer' = [answer EXCEPT ![c] = "done"]
       ELSE /\ answer' = [answer EXCEPT ![c] = "refused"]
            /\ UNCHANGED <<serverVars, served>>
  /\ UNCHANGED callVars

Lose(c) ==
  /\ \/ request[c] # Nil
     \/ answer[c] # "none" /\ pc[c] = "waiting"
  /\ request' = [request EXCEPT ![c] = Nil]
  /\ answer' = [answer EXCEPT ![c] = "none"]
  /\ UNCHANGED <<serverVars, callVars, served>>

(* Other clients of the API server write and delete as they like.          *)
OtherPut ==
  /\ lastRV < MaxRV
  /\ lastRV' = lastRV + 1
  /\ stored' = lastRV'
  /\ UNCHANGED <<callVars, netVars, served>>

OtherDelete ==
  /\ stored # 0
  /\ stored' = 0
  /\ UNCHANGED <<lastRV, callVars, netVars, served>>

-----------------------------------------------------------------------------
ToolCall(c) == Begin(c) \/ Get(c) \/ Receive(c) \/ GiveUp(c)

Next ==
  \/ \E c \in Calls : ToolCall(c) \/ Serve(c) \/ Lose(c)
  \/ OtherPut
  \/ OtherDelete

Spec == Init /\ [][Next]_vars

-----------------------------------------------------------------------------
(* Properties.                                                             *)

(* Types; a write is on its way or answered only once the call waits.      *)
TypeOK ==
  /\ stored \in 0..lastRV
  /\ lastRV \in 0..MaxRV
  /\ tool \in [Calls -> Tools \cup {Nil}]
  /\ pc \in [Calls -> {"new", "Get", "waiting", "returned"}]
  /\ carried \in [Calls -> 0..MaxRV]
  /\ existing \in [Calls -> 0..MaxRV]
  /\ misread \subseteq Calls
  /\ request \in [Calls -> Requests \cup {Nil}]
  /\ answer \in [Calls -> {"none", "done", "refused"}]
  /\ result \in [Calls -> {"none", "ok", "error"}]
  /\ served \in [Calls -> Nat]
  /\ \A c \in Calls : /\ tool[c] = Nil <=> pc[c] = "new"
                      /\ request[c] # Nil => pc[c] \in {"waiting", "returned"}
                      /\ request[c] # Nil => answer[c] = "none"

(* A call changes the cluster at most once, also when it is told that it   *)
(* failed: an error is never a reason to send the write again.             *)
AtMostOnce == \A c \in Calls : served[c] <= 1

(* A tool that reports success has done what it says, in its own request.  *)
OkMeansDone == \A c \in Calls : result[c] = "ok" => served[c] = 1

(* An apply is refused only because somebody changed the object after its  *)
(* Get, because the Get failed, or because the manifest of an object that  *)
(* is gone still carries a resourceVersion.                                *)
RefusedForCause ==
  [][\A c \in Calls :
       tool[c] = "apply_resource" /\ answer[c] = "none" /\ answer'[c] = "refused" =>
         \/ stored # existing[c]
         \/ c \in misread
         \/ existing[c] = 0 /\ carried[c] # 0]_vars

(* No change of anybody's is lost: whatever comes between the two requests *)
(* of an apply, and however late a write arrives, it replaces exactly the  *)
(* version its call saw.                                                   *)
Puts == {c \in Calls : served[c] > 0 /\ tool[c] # "delete_resource"}

CAS == INSTANCE CompareAndSet WITH seen <- existing, written <- Puts

WritesReplaceWhatWasSeen == CAS!Spec
=============================================================================
