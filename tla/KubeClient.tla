----------------------------- MODULE KubeClient -----------------------------
(***************************************************************************)
(* The Kubernetes client of pkg/k8s that all requests share: four          *)
(* components built from one reading of the kubeconfig, the operations     *)
(* that use them, and the goroutine that rebuilds them periodically.       *)
(*                                                                         *)
(* Only the age of a component matters, so each one is the number of the   *)
(* kubeconfig edit it was built from.  An operation is the list of the     *)
(* components it reads, one after the other, around its calls to the API   *)
(* server; most operations hold mu for reading from first to last, some    *)
(* take no lock at all.                                                    *)
(***************************************************************************)
EXTENDS Naturals, Sequences

CONSTANTS
  Ops,       \* goroutines that use the client
  Offered,   \* goroutine -> the operations it performs
  Loops,     \* refresh goroutines that StartPeriodicRefresh may create
  MaxEdits,  \* bound: how often the kubeconfig is edited
  Nil        \* nobody

ASSUME EditsAssumption == MaxEdits \in Nat

-----------------------------------------------------------------------------
(* The components, in the order RefreshClient assigns them.                *)
Components == <<"discoveryClient", "dynamicClient", "clientset", "restConfig">>

Names == {Components[i] : i \in DOMAIN Components}

(* What each operation reads.  The list and delete operations are both     *)
(* ListResources here: they read the dynamic client once, as do the reads  *)
(* of resource templates, GetClusteredResource and GetNamespacedResource;  *)
(* apply reads it for its Get and again for its Update or Create.          *)
Kinds == {"ListAPIResources", "ListResources", "GetClusteredResource",
          "ApplyResource", "ExecInPod", "WithImpersonation", "GetResource",
          "PostResource", "GetPodLogs"}

ASSUME OfferedAssumption == Offered \in [Ops -> SUBSET Kinds]

ASSUME NilAssumption == Nil \notin Loops /\ Nil \notin Kinds

Reads ==
  [k \in Kinds |->
     CASE k = "ListAPIResources"  -> <<"discoveryClient">>
       [] k = "ApplyResource"     -> <<"dynamicClient", "dynamicClient">>
       [] k = "ExecInPod"         -> <<"clientset", "restConfig">>
       [] k = "WithImpersonation" -> <<"restConfig">>
       [] k = "GetPodLogs"        -> <<"clientset">>
       [] OTHER                   -> <<"dynamicClient">>]

(* Mutant of Unlocked: exec no longer goes through ExecInPod's RLock.      *)
ExecUnlocked == {"GetResource", "PostResource", "GetPodLogs", "ExecInPod"}

(* GetResource, the logs read it hands over to, and PostResource (but for  *)
(* exec) never take mu.                                                    *)
Unlocked == {"GetResource", "PostResource", "GetPodLogs"}

(* The operations whose API call no deadline of this code ends: the one    *)
(* drops its context, and reads of templates come with one that has none.  *)
(* Every other API call is a tool call's, which has a deadline.            *)
Unbounded == {"ListAPIResources", "GetClusteredResource"}

-----------------------------------------------------------------------------
VARIABLES
  file,        \* the kubeconfig: how often edited, and whether it can be used
  comp,        \* component -> the edit it was built from
  writer,      \* the loop that holds mu for writing, or Nil
  refreshing,  \* the flag of the same name
  current,     \* the loop refreshCancel belongs to, or Nil
  cancelled,   \* the loops whose context is cancelled
  lpc,         \* loop -> where its goroutine is
  built,       \* loop -> the edit it last read
  assigned,    \* loop -> how many components it has assigned
  kind,        \* operation -> what it does, or Nil
  opc,         \* operation -> where it is
  seen         \* operation -> the ages of the components it has read

refreshVars == <<refreshing, current, cancelled>>
loopVars    == <<lpc, built, assigned>>
opVars      == <<kind, opc, seen>>
vars        == <<file, comp, writer, refreshVars, loopVars, opVars>>

Readers == {o \in Ops : opc[o] = "using" /\ kind[o] \notin Unlocked}

(* RWMutex keeps new readers out from the moment a writer asks for it.     *)
WriterPending == \E l \in Loops : lpc[l] = "Lock"

Init ==
  /\ file = [edit |-> 0, ok |-> TRUE]
  /\ comp = [f \in Names |-> 0]
  /\ writer = Nil
  /\ refreshing = FALSE
  /\ current = Nil
  /\ cancelled = {}
  /\ lpc = [l \in Loops |-> "new"]
  /\ built = [l \in Loops |-> 0]
  /\ assigned = [l \in Loops |-> 0]
  /\ kind = [o \in Ops |-> Nil]
  /\ opc = [o \in Ops |-> "idle"]
  /\ seen = [o \in Ops |-> <<>>]

-----------------------------------------------------------------------------
(* Someone edits the kubeconfig, perhaps into something unusable.          *)
Edit ==
  /\ file.edit < MaxEdits
  /\ \E ok \in BOOLEAN : file' = [edit |-> file.edit + 1, ok |-> ok]
  /\ UNCHANGED <<comp, writer, refreshVars, loopVars, opVars>>

-----------------------------------------------------------------------------
(* The operations.                                                         *)

Begin(o) ==
  /\ opc[o] = "idle"
  /\ \E k \in Offered[o] :
       /\ kind' = [kind EXCEPT ![o] = k]
       /\ opc' = [opc EXCEPT ![o] = IF k \in Unlocked THEN "using" ELSE "RLock"]
  /\ UNCHANGED <<file, comp, writer, refreshVars, loopVars, seen>>

RLock(o) ==
  /\ opc[o] = "RLock"
  /\ writer = Nil
  /\ ~WriterPending
  /\ opc' = [opc EXCEPT ![o] = "using"]
  /\ UNCHANGED <<file, comp, writer, refreshVars, loopVars, kind, seen>>

(* A read of a component, and the API call made with it.  A racing read    *)
(* returns what the component was before or after the assignment.          *)
Use(o) ==
  /\ opc[o] = "using"
  /\ Len(seen[o]) < Len(Reads[kind[o]])
  /\ seen' = [seen EXCEPT ![o] = Append(@, comp[Reads[kind[o]][Len(@) + 1]])]
  /\ UNCHANGED <<file, comp, writer, refreshVars, loopVars, kind, opc>>

(* Mutant of Finish: the read lock is not given back.                      *)
FinishStillLocked(o) ==
  /\ opc[o] = "using"
  /\ Len(seen[o]) = Len(Reads[kind[o]])
  /\ opc' = [opc EXCEPT ![o] = IF kind[o] \in Unlocked THEN "idle" ELSE "using"]
  /\ seen' = [seen EXCEPT ![o] = <<>>]
  /\ UNCHANGED <<file, comp, writer, refreshVars, loopVars, kind>>

(* The operation returns, and with it the deferred RUnlock.                *)
Finish(o) ==
  /\ opc[o] = "using"
  /\ Len(seen[o]) = Len(Reads[kind[o]])
  /\ kind' = [kind EXCEPT ![o] = Nil]
  /\ opc' = [opc EXCEPT ![o] = "idle"]
  /\ seen' = [seen EXCEPT ![o] = <<>>]
  /\ UNCHANGED <<file, comp, writer, refreshVars, loopVars>>

-----------------------------------------------------------------------------
(* The refresh goroutine.                                                  *)

(* While a refresh is running, a second start is refused and changes       *)
(* nothing; likewise a stop while none is running.                         *)
StartPeriodicRefresh ==
  /\ ~refreshing
  /\ \E l \in Loops :
       /\ lpc[l] = "new"
       /\ lpc' = [lpc EXCEPT ![l] = "select"]
       /\ current' = l
  /\ refreshing' = TRUE
  /\ UNCHANGED <<file, comp, writer, cancelled, built, assigned, opVars>>

(* Mutant of StopPeriodicRefresh: the context is not cancelled.            *)
StopFlagOnly ==
  /\ refreshing
  /\ refreshing' = FALSE
  /\ UNCHANGED <<file, comp, writer, current, cancelled, loopVars, opVars>>

(* Stop cancels the context and returns without waiting for the goroutine. *)
StopPeriodicRefresh ==
  /\ refreshing
  /\ cancelled' = cancelled \cup {current}
  /\ refreshing' = FALSE
  /\ UNCHANGED <<file, comp, writer, current, loopVars, opVars>>

(* Mutant of Refresh: the goroutine gives up on an error.                  *)
RefreshOrGiveUp(l) ==
  /\ lpc[l] = "select"
  /\ built' = [built EXCEPT ![l] = IF file.ok THEN file.edit ELSE @]
  /\ lpc' = [lpc EXCEPT ![l] = IF file.ok THEN "Lock" ELSE "done"]
  /\ UNCHANGED <<file, comp, writer, refreshVars, assigned, opVars>>

(* The ticker fires: RefreshClient reads the file and builds all four      *)
(* components before it locks; on an error nothing changes.  select takes  *)
(* either ready case, so a cancelled loop may refresh once more.           *)
Refresh(l) ==
  /\ lpc[l] = "select"
  /\ file.ok
  /\ built' = [built EXCEPT ![l] = file.edit]
  /\ lpc' = [lpc EXCEPT ![l] = "Lock"]
  /\ UNCHANGED <<file, comp, writer, refreshVars, assigned, opVars>>

Lock(l) ==
  /\ lpc[l] = "Lock"
  /\ writer = Nil
  /\ Readers = {}
  /\ writer' = l
  /\ lpc' = [lpc EXCEPT ![l] = "assign"]
  /\ UNCHANGED <<file, comp, refreshVars, built, assigned, opVars>>

Assign(l) ==
  /\ lpc[l] = "assign"
  /\ assigned[l] < Len(Components)
  /\ assigned' = [assigned EXCEPT ![l] = @ + 1]
  /\ comp' = [comp EXCEPT ![Components[assigned[l] + 1]] = built[l]]
  /\ UNCHANGED <<file, writer, refreshVars, lpc, built, opVars>>

(* Mutant of Unlock: the lock is given back between two assignments.       *)
UnlockEarly(l) ==
  /\ lpc[l] = "assign"
  /\ assigned[l] > 0
  /\ writer' = Nil
  /\ lpc' = [lpc EXCEPT ![l] = "select"]
  /\ built' = [built EXCEPT ![l] = 0]
  /\ assigned' = [assigned EXCEPT ![l] = 0]
  /\ UNCHANGED <<file, comp, refreshVars, opVars>>

Unlock(l) ==
  /\ lpc[l] = "assign"
  /\ assigned[l] = Len(Components)
  /\ writer' = Nil
  /\ lpc' = [lpc EXCEPT ![l] = "select"]
  /\ built' = [built EXCEPT ![l] = 0]
  /\ assigned' = [assigned EXCEPT ![l] = 0]
  /\ UNCHANGED <<file, comp, refreshVars, opVars>>

Exit(l) ==
  /\ lpc[l] = "select"
  /\ l \in cancelled
  /\ lpc' = [lpc EXCEPT ![l] = "done"]
  /\ UNCHANGED <<file, comp, writer, refreshVars, built, assigned, opVars>>

-----------------------------------------------------------------------------
Operation(o) == Begin(o) \/ RLock(o) \/ Use(o) \/ Finish(o)

RefreshLoop(l) == Refresh(l) \/ Lock(l) \/ Assign(l) \/ Unlock(l) \/ Exit(l)

Next ==
  \/ Edit
  \/ \E o \in Ops : Operation(o)
  \/ StartPeriodicRefresh
  \/ StopPeriodicRefresh
  \/ \E l \in Loops : RefreshLoop(l)

Spec == Init /\ [][Next]_vars

(***************************************************************************)
(* An API call under a deadline returns; an unbounded one returns or not,  *)
(* so nothing is asked of its Finish.  The ticker keeps firing, and select *)
(* takes each ready case in the long run.  RWMutex lets the readers it     *)
(* held back in before the next writer, and keeps later readers out once a *)
(* writer waits: strong fairness for RLock, and for Lock too since two     *)
(* loops may compete.                                                      *)
(***************************************************************************)
Fairness ==
  /\ \A o \in Ops : /\ SF_vars(RLock(o))
                    /\ WF_vars(Use(o))
                    /\ WF_vars(kind[o] \notin Unbounded /\ Finish(o))
  /\ \A l \in Loops : /\ WF_vars(Refresh(l))
                      /\ SF_vars(Lock(l))
                      /\ WF_vars(Assign(l))
                      /\ WF_vars(Unlock(l))
                      /\ SF_vars(Exit(l))

FairSpec == Spec /\ Fairness

-----------------------------------------------------------------------------
(* Properties.                                                             *)

(* Types; a loop is past "new" once started, and only then is it current.  *)
TypeOK ==
  /\ file \in [edit : 0..MaxEdits, ok : BOOLEAN]
  /\ comp \in [Names -> 0..MaxEdits]
  /\ writer \in Loops \cup {Nil}
  /\ refreshing \in BOOLEAN
  /\ current \in Loops \cup {Nil}
  /\ cancelled \subseteq Loops
  /\ lpc \in [Loops -> {"new", "select", "Lock", "assign", "done"}]
  /\ built \in [Loops -> 0..MaxEdits]
  /\ assigned \in [Loops -> 0..Len(Components)]
  /\ kind \in [Ops -> Kinds \cup {Nil}]
  /\ opc \in [Ops -> {"idle", "RLock", "using"}]
  /\ seen \in [Ops -> Seq(0..MaxEdits)]
  /\ \A o \in Ops : /\ kind[o] = Nil <=> opc[o] = "idle"
                    /\ opc[o] # "using" => seen[o] = <<>>

(* One operation never mixes components of two kubeconfigs: exec signs     *)
(* with the config its clientset was built from, and apply writes to the   *)
(* cluster it read from, whenever the refresh strikes.                     *)
OneGeneration ==
  \A o \in Ops : \A i, j \in DOMAIN seen[o] : seen[o][i] = seen[o][j]

(* A refresh assigns all or nothing: when no loop holds mu, the components *)
(* come from one reading of the file, also when two loops overlap.         *)
ComponentsAgree ==
  writer = Nil => \A f, g \in Names : comp[f] = comp[g]

(* refreshing says whether a loop is running that nobody has cancelled,    *)
(* and there is one at most, through any sequence of starts and stops.     *)
OneLiveLoop ==
  LET live == {l \in Loops : lpc[l] \notin {"new", "done"} /\ l \notin cancelled}
  IN live = IF refreshing THEN {current} ELSE {}

(* No API call without a deadline keeps mu for ever.                       *)
UnboundedCallsReturn ==
  \A o \in Ops : []<>~(o \in Readers /\ kind[o] \in Unbounded)

(* Once the file is right and stays so, the client ends up with it for as  *)
(* long as it is refreshed: earlier failures, waiting readers and a loop   *)
(* left over from before a restart only delay it.  Nothing can prevent it  *)
(* but an API call without a deadline that keeps mu for ever.              *)
RefreshCatchesUp ==
  UnboundedCallsReturn =>
    ((file.edit = MaxEdits /\ file.ok) ~>
       (~refreshing \/ \A f \in Names : comp[f] = MaxEdits))

(* Every operation under a deadline gets its lock and returns: refreshing  *)
(* cannot lock the readers out.  Again the exception is an API call that   *)
(* keeps mu: it keeps the refresh waiting, which keeps later readers out.  *)
OperationsReturn ==
  UnboundedCallsReturn => \A o \in Ops : opc[o] = "RLock" ~> opc[o] = "idle"

(* mu "Protects access to client components" (client.go:45): nothing reads *)
(* a component while it is being assigned.                                 *)
NoRacingReads ==
  \A l \in Loops, o \in Ops :
    ~ /\ lpc[l] = "assign" /\ assigned[l] < Len(Components)
      /\ opc[o] = "using" /\ Len(seen[o]) < Len(Reads[kind[o]])
      /\ Components[assigned[l] + 1] = Reads[kind[o]][Len(seen[o]) + 1]
=============================================================================
