---------------------------- MODULE ServerProofs ----------------------------
(***************************************************************************)
(* What holds for any number of requests, sessions, tools and command      *)
(* lines.  Requests do not touch the process but for giving up what the    *)
(* shutdown waits for, and the process does not touch requests: the        *)
(* invariant has a half for each, and a step disturbs only one of them.    *)
(***************************************************************************)
EXTENDS Server, TLAPS

-----------------------------------------------------------------------------
(* The half of the requests.                                               *)

RequestTypes ==
  /\ config \in Configs
  /\ stage \in [Requests -> Stages \cup Outcomes \cup {"none"}]
  /\ request \in [Requests -> [session: Sessions \cup {Nil}, token: BOOLEAN,
                               tool: Tools \cup {Template, Nil}]]
  /\ context \in [Requests -> [session: Sessions \cup {Nil}, fresh: BOOLEAN,
                               identity: Requests \cup {Nil}]]
  /\ expired \subseteq Requests /\ left \subseteq Requests
  /\ counter \in [Keys -> Requests \cup {Nil}]
  /\ as \in [Requests -> Requests \cup {"base", Nil}]

(* A handler's context has the request's session, and an identity only if  *)
(* there was a token of its own to get it from, without JWKS exactly then; *)
(* that of a call is fresh.                                                *)
ContextOf(c) ==
  /\ context[c].session = request[c].session
  /\ context[c].identity \in {c, Nil}
  /\ context[c].identity = c => config.EnableImpersonation /\ request[c].token
  /\ request[c].token /\ ~config.jwks => context[c].identity = c
  /\ IsCall(c) => context[c].fresh
  /\ request[c].tool \in Registered \cup {Template}

RequestOK(c) ==
  /\ request[c].tool = Nil <=> ~InFlight(c)
  /\ stage[c] = "waiting" => request[c].tool \in Tools
  /\ as[c] # Nil <=> stage[c] = "requesting"
  /\ as[c] # Nil => as[c] = clientForContext(c)
  /\ InFlight(c) => ContextOf(c)

(* A request holds the counter of its key and no other.                    *)
HoldsOwnKey == \A c \in Requests, k \in Keys : counter[k] = c => k = Key(c)

RequestInv == RequestTypes /\ HoldsOwnKey /\ \A c \in Requests : RequestOK(c)

-----------------------------------------------------------------------------
(* The half of the process.                                                *)

ProcessTypes ==
  /\ owed \subseteq Requests
  /\ main \in {"starting", "created", "serving", "stopping", "exited"}
  /\ exit \in {0, 1, Nil} /\ (exit = Nil <=> Running)
  /\ ctx \in {"live", "signalled", "done"}
  /\ server \in {"off", "starting", "up", "failed", "closed"}
  /\ shutdown \in {"off", "closing", "draining", "releasing", "reporting"}
  /\ overtime \in BOOLEAN
  /\ limiter \in {"none", "running", "stopped"}
  /\ jwksClient \in {"none", "running", "stopped"}

(* The shutdown runs when nothing is started any more, releases when it    *)
(* has waited, and reports when it has released.                           *)
ShutdownInOrder ==
  /\ shutdown # "off" => main \in {"stopping", "exited"}
  /\ shutdown \in {"releasing", "reporting"} => owed = {} \/ overtime
  /\ shutdown = "reporting" => limiter # "running" /\ jwksClient # "running"
  /\ exit = 0 => shutdown = "reporting"

ProcessInv == ProcessTypes /\ ShutdownInOrder

IInv == RequestInv /\ ProcessInv

-----------------------------------------------------------------------------
LEMMA InvImpliesTypeOK == IInv => TypeOK
BY DEF IInv, RequestInv, RequestTypes, HoldsOwnKey, RequestOK, ProcessInv, ProcessTypes, TypeOK

LEMMA InitInv == Init => IInv
<1> SUFFICES ASSUME Init PROVE IInv
  OBVIOUS
<1>1. RequestTypes
  BY DEF Init, RequestTypes, NoRequest, NoContext
<1>2. HoldsOwnKey
  BY NilAssumption DEF Init, HoldsOwnKey
<1>3. \A c \in Requests : RequestOK(c)
  BY DEF Init, RequestOK, InFlight, Stages, NoRequest
<1>4. ProcessInv
  BY NilAssumption DEF Init, ProcessInv, ProcessTypes, ShutdownInOrder, Running
<1> QED
  BY <1>1, <1>2, <1>3, <1>4 DEF IInv, RequestInv

(* A request that nobody serves holds no counter.                          *)
LEMMA IdleHoldsNothing ==
  ASSUME RequestInv, NEW c \in Requests, ~InFlight(c), NEW k \in Keys
  PROVE  counter[k] # c
<1>1. request[c].tool = Nil
  BY DEF RequestInv, RequestOK
<1>2. Key(c) \notin Keys
  BY <1>1, NilAssumption DEF Key, Keys
<1> QED
  BY <1>2 DEF RequestInv, HoldsOwnKey

-----------------------------------------------------------------------------
(* The process does not touch requests.                                    *)
LEMMA ProcessKeepsRequests ==
  ASSUME RequestInv, UNCHANGED <<requests, config>>
  PROVE  RequestInv'
BY DEF requests, RequestInv, RequestTypes, HoldsOwnKey, Key, RequestOK, InFlight,
       ContextOf, IsCall, Registered, clientForContext

(* Requests only give up what the shutdown waits for.                      *)
LEMMA RequestsKeepProcess ==
  ASSUME ProcessInv, UNCHANGED process, owed' \subseteq owed
  PROVE  ProcessInv'
BY DEF process, status, resources, ProcessInv, ProcessTypes, ShutdownInOrder, Running

-----------------------------------------------------------------------------
(* What stays true of the requests a step is not about.                    *)
LEMMA OthersKeep ==
  ASSUME RequestInv, NEW c \in Requests, UNCHANGED config,
         NEW d \in Requests, d # c,
         UNCHANGED <<stage[d], request[d], context[d], as[d]>>
  PROVE  RequestOK(d)'
BY DEF RequestInv, RequestOK, InFlight, ContextOf, IsCall, Registered, clientForContext

(* Every way out of a call gives back its counter.                         *)
LEMMA ReturnInv ==
  ASSUME RequestInv, NEW c \in Requests, NEW outcome \in Outcomes, Return(c, outcome),
         counter' \in [Keys -> Requests \cup {Nil}],
         \A k \in Keys : counter'[k] \in {counter[k], Nil} /\ counter'[k] # c
  PROVE  RequestInv'
<1> USE DEF Return, RequestInv
<1>1. RequestTypes'
  BY DEF RequestTypes, NoRequest, NoContext, process
<1>2. HoldsOwnKey'
  <2> SUFFICES ASSUME NEW d \in Requests, NEW k \in Keys, counter'[k] = d
               PROVE  k = Key(d)'
    BY DEF HoldsOwnKey
  <2>1. d # c /\ counter[k] = d
    BY NilAssumption
  <2>2. k = Key(d)
    BY <2>1 DEF HoldsOwnKey
  <2> QED
    BY <2>1, <2>2 DEF Key, RequestTypes
<1>3. RequestOK(c)'
  BY NilAssumption DEF RequestOK, RequestTypes, InFlight, Stages, Outcomes, NoRequest
<1>4. ASSUME NEW d \in Requests, d # c PROVE RequestOK(d)'
  BY <1>4, OthersKeep DEF RequestTypes, process
<1> QED
  BY <1>1, <1>2, <1>3, <1>4

LEMMA UnlockFrees ==
  ASSUME RequestInv, NEW c \in Requests, Unlock(c)
  PROVE  /\ counter' \in [Keys -> Requests \cup {Nil}]
         /\ \A k \in Keys : counter'[k] \in {counter[k], Nil} /\ counter'[k] # c
BY NilAssumption DEF RequestInv, RequestTypes, Unlock

LEMMA ArriveInv ==
  ASSUME RequestInv, NEW c \in Requests, Arrive(c)
  PROVE  RequestInv'
<1> USE DEF Arrive, RequestInv
<1>1. PICK s \in Sessions \cup {Nil}, t \in Registered \cup {Template}, token \in BOOLEAN :
        /\ token => config.EnableImpersonation
        /\ request' = [request EXCEPT ![c] = [session |-> s, tool |-> t, token |-> token]]
        /\ context' = [context EXCEPT ![c] =
             IF t = Template THEN HTTPContext(c, s, token)
                             ELSE WithTimeoutContext(HTTPContext(c, s, token))]
        /\ stage' = [stage EXCEPT ![c] =
             IF t # Template /\ config.EnableRateLimiting THEN "waiting" ELSE "handling"]
  OBVIOUS
<1>2. t \in Tools \cup {Template} /\ t # Nil
  BY NilAssumption DEF Registered
<1>3. HTTPContext(c, s, token) \in [session: Sessions \cup {Nil}, fresh: BOOLEAN,
                                    identity: Requests \cup {Nil}]
  BY DEF HTTPContext
<1>4. RequestTypes'
  <2>1. request' \in [Requests -> [session: Sessions \cup {Nil}, token: BOOLEAN,
                                   tool: Tools \cup {Template, Nil}]]
    BY <1>1, <1>2 DEF RequestTypes
  <2>2. context' \in [Requests -> [session: Sessions \cup {Nil}, fresh: BOOLEAN,
                                   identity: Requests \cup {Nil}]]
    BY <1>1, <1>3 DEF RequestTypes, WithTimeoutContext
  <2>3. stage' \in [Requests -> Stages \cup Outcomes \cup {"none"}]
    BY <1>1 DEF RequestTypes, Stages
  <2> QED
    BY <2>1, <2>2, <2>3 DEF RequestTypes, process
<1>5. HoldsOwnKey'
  <2> SUFFICES ASSUME NEW d \in Requests, NEW k \in Keys, counter'[k] = d
               PROVE  k = Key(d)'
    BY DEF HoldsOwnKey
  <2>1. d # c /\ counter[k] = d
    BY IdleHoldsNothing
  <2> QED
    BY <1>1, <2>1 DEF HoldsOwnKey, Key, RequestTypes
<1>6. RequestOK(c)'
  <2>1. request'[c] = [session |-> s, tool |-> t, token |-> token]
    BY <1>1 DEF RequestTypes
  <2>2. stage'[c] \in {"waiting", "handling"} /\ (stage'[c] = "waiting" => t # Template)
    BY <1>1 DEF RequestTypes
  <2>3. as'[c] = Nil
    BY DEF RequestOK, InFlight, Stages
  <2>4. /\ context'[c].session = s
        /\ context'[c].identity \in {c, Nil}
        /\ context'[c].identity = c => config.EnableImpersonation /\ token
        /\ token /\ ~config.jwks => context'[c].identity = c
        /\ t # Template => context'[c].fresh
    BY <1>1, NilAssumption DEF RequestTypes, HTTPContext, WithTimeoutContext
  <2>5. ContextOf(c)'
    BY <1>1, <2>1, <2>4 DEF ContextOf, IsCall, Registered, process
  <2> QED
    BY <1>2, <2>1, <2>2, <2>3, <2>5 DEF RequestOK, InFlight, Stages
<1>7. ASSUME NEW d \in Requests, d # c PROVE RequestOK(d)'
  BY <1>1, <1>7, OthersKeep DEF RequestTypes, process
<1> QED
  BY <1>4, <1>5, <1>6, <1>7

LEMMA RefuseInv ==
  ASSUME RequestInv, NEW c \in Requests, Refuse(c)
  PROVE  RequestInv'
<1> USE DEF Refuse, RequestInv
<1>1. RequestTypes'
  BY DEF RequestTypes, Outcomes, process
<1>2. HoldsOwnKey'
  BY DEF HoldsOwnKey, Key
<1>3. RequestOK(c)'
  BY NilAssumption DEF RequestTypes, RequestOK, InFlight, Stages
<1>4. ASSUME NEW d \in Requests, d # c PROVE RequestOK(d)'
  BY <1>4, OthersKeep DEF RequestTypes, process
<1> QED
  BY <1>1, <1>2, <1>3, <1>4

(* It could not wait for the lock and have it.                             *)
LEMMA RejectInv ==
  ASSUME RequestInv, NEW c \in Requests, Reject(c)
  PROVE  RequestInv'
<1>1. \A k \in Keys : counter[k] # c
  BY NilAssumption DEF Reject, RequestInv, HoldsOwnKey
<1>2. counter' \in [Keys -> Requests \cup {Nil}]
  BY DEF Reject, RequestInv, RequestTypes
<1> QED
  BY <1>1, <1>2, ReturnInv DEF Reject, Outcomes

LEMMA AdmitInv ==
  ASSUME RequestInv, NEW c \in Requests, Admit(c)
  PROVE  RequestInv'
<1> USE DEF Admit, RequestInv
<1>1. RequestTypes'
  BY DEF RequestTypes, Stages, process
<1>2. HoldsOwnKey'
  BY DEF HoldsOwnKey, Key, RequestTypes
<1>3. RequestOK(c)'
  BY DEF RequestTypes, RequestOK, InFlight, Stages, ContextOf, IsCall, Registered,
         clientForContext, process
<1>4. ASSUME NEW d \in Requests, d # c PROVE RequestOK(d)'
  BY <1>4, OthersKeep DEF RequestTypes, process
<1> QED
  BY <1>1, <1>2, <1>3, <1>4

LEMMA HandleInv ==
  ASSUME RequestInv, NEW c \in Requests, Handle(c)
  PROVE  RequestInv'
<1> USE DEF Handle, NeedsClient, RequestInv
<1>1. clientForContext(c) \in Requests \cup {"base"}
  BY DEF RequestTypes, clientForContext
<1>2. RequestTypes'
  BY <1>1 DEF RequestTypes, Stages, process
<1>3. HoldsOwnKey'
  BY DEF HoldsOwnKey, Key
<1>4. RequestOK(c)'
  <2>1. stage'[c] = "requesting" /\ as'[c] = clientForContext(c) /\ as'[c] # Nil
    BY DEF RequestTypes
  <2>2. InFlight(c) /\ RequestOK(c)
    BY DEF InFlight, Stages
  <2>3. /\ InFlight(c)' /\ request' = request /\ context' = context
        /\ clientForContext(c)' = clientForContext(c) /\ config' = config
    BY <2>1 DEF InFlight, Stages, clientForContext, process
  <2>4. ContextOf(c)'
    BY <2>2, <2>3 DEF RequestOK, ContextOf, IsCall, Registered
  <2> QED
    BY <2>1, <2>2, <2>3, <2>4 DEF RequestOK
<1>5. ASSUME NEW d \in Requests, d # c PROVE RequestOK(d)'
  BY <1>5, OthersKeep DEF RequestTypes, process
<1> QED
  BY <1>2, <1>3, <1>4, <1>5

(* No client, an answer, a deadline and a panic are ways out; a passing    *)
(* deadline and a client that leaves change nothing else.                  *)
LEMMA EndInv ==
  ASSUME RequestInv, NEW c \in Requests,
         Deny(c) \/ Answer(c) \/ Cancel(c) \/ Panic(c)
  PROVE  RequestInv'
BY ReturnInv, UnlockFrees DEF Deny, Answer, Cancel, Panic, Outcomes

LEMMA WaitInv ==
  ASSUME RequestInv, NEW c \in Requests, Deadline(c) \/ Leave(c)
  PROVE  RequestInv'
BY DEF Deadline, Leave, process, RequestInv, RequestTypes, HoldsOwnKey, Key, RequestOK,
       InFlight, ContextOf, IsCall, Registered, clientForContext

LEMMA ServeInv ==
  ASSUME IInv, NEW c \in Requests, Serve(c)
  PROVE  IInv'
<1>1. RequestInv'
  BY ArriveInv, RefuseInv, RejectInv, AdmitInv, HandleInv, EndInv, WaitInv DEF IInv, Serve
<1>2. UNCHANGED process /\ owed' \subseteq owed
  BY DEF Serve, Arrive, Refuse, Reject, Admit, Deny, Handle, NeedsClient, Answer,
         Cancel, Panic, Deadline, Leave, Return
<1> QED
  BY <1>1, <1>2, RequestsKeepProcess DEF IInv

-----------------------------------------------------------------------------
(* Start-up, signals and the transport: the shutdown has not begun, or     *)
(* they do not touch it.                                                   *)
LEMMA StartInv ==
  ASSUME ProcessInv,
         Signal \/ OnSignal \/ StartFails \/ CreateServer \/ CreateTransport
           \/ Listen \/ ListenFails \/ ServerError
  PROVE  ProcessInv'
<1> USE NilAssumption
    DEF ProcessInv, ProcessTypes, ShutdownInOrder, Running, status, stopping, resources, Exit
<1>1. CASE Signal \/ OnSignal \/ Listen \/ ListenFails
  BY <1>1 DEF Signal, OnSignal, Listen, ListenFails
<1>2. CASE StartFails \/ ServerError
  BY <1>2 DEF StartFails, ServerError
<1>3. CASE CreateServer \/ CreateTransport
  BY <1>3 DEF CreateServer, CreateTransport
<1> QED
  BY <1>1, <1>2, <1>3

LEMMA StopInv ==
  ASSUME ProcessInv,
         BeginShutdown \/ Shutdown \/ ShutdownReturns \/ Stop
           \/ Overtime \/ ExitAfterShutdown \/ ForceExit
  PROVE  ProcessInv'
<1> USE NilAssumption
    DEF ProcessInv, ProcessTypes, ShutdownInOrder, Running, status, stopping, resources, Exit
<1>1. CASE BeginShutdown
  BY <1>1 DEF BeginShutdown
<1>2. CASE Shutdown
  BY <1>2 DEF Shutdown
<1>3. CASE ShutdownReturns
  BY <1>3 DEF ShutdownReturns
<1>4. CASE Stop
  BY <1>4 DEF Stop
<1>5. CASE Overtime
  BY <1>5 DEF Overtime
<1>6. CASE ExitAfterShutdown \/ ForceExit
  BY <1>6 DEF ExitAfterShutdown, ForceExit
<1> QED
  BY <1>1, <1>2, <1>3, <1>4, <1>5, <1>6

LEMMA ProcessStepInv ==
  ASSUME IInv, Signal \/ Progress
  PROVE  IInv'
<1>1. ProcessInv'
  BY StartInv, StopInv DEF IInv, Progress
<1>2. UNCHANGED <<requests, config>>
  BY DEF Signal, Progress, OnSignal, StartFails, CreateServer, CreateTransport, Listen,
         ListenFails, ServerError, BeginShutdown, Shutdown, ShutdownReturns, Stop,
         Overtime, ExitAfterShutdown, ForceExit
<1> QED
  BY <1>1, <1>2, ProcessKeepsRequests DEF IInv

LEMMA StepInv == IInv /\ [Next]_vars => IInv'
<1> SUFFICES ASSUME IInv, [Next]_vars PROVE IInv'
  OBVIOUS
<1>1. CASE \E c \in Requests : Serve(c)
  BY <1>1, ServeInv
<1>2. CASE Signal \/ Progress
  BY <1>2, ProcessStepInv
<1>3. CASE UNCHANGED vars
  <2>1. UNCHANGED <<requests, config>> /\ UNCHANGED process /\ owed' \subseteq owed
    BY <1>3 DEF vars, process
  <2> QED
    BY <2>1, ProcessKeepsRequests, RequestsKeepProcess DEF IInv
<1> QED
  BY <1>1, <1>2, <1>3 DEF Next

(* IInv is an invariant of the process and its requests.                 *)
THEOREM Invariant == Spec => []IInv
BY InitInv, StepInv, PTL DEF Spec

-----------------------------------------------------------------------------
(* The variables keep their types, and a counter's lock is held only by a  *)
(* request whose key it is and that is being served.                       *)
THEOREM TypeCorrect == Spec => []TypeOK
BY Invariant, InvImpliesTypeOK, PTL

(* No request to the API server is made for another caller, without a      *)
(* token under impersonation, or to write in read-only mode; and behind a  *)
(* trusted proxy the owner of a token reaches the handler.                 *)
THEOREM RequestsAreAuthorised == Spec => []Authorised
<1>1. IInv => Authorised
  <2>1. ASSUME IInv, NEW c \in Requests,
               InFlight(c), request[c].token, ~config.jwks
        PROVE  context[c].identity = c
    BY <2>1 DEF IInv, RequestInv, RequestOK, ContextOf
  <2>2. ASSUME IInv, NEW c \in Requests, as[c] # Nil
        PROVE  /\ as[c] = IF config.EnableImpersonation THEN c ELSE "base"
               /\ config.EnableImpersonation => request[c].token
               /\ request[c].tool \in Writers => config.ReadWrite
    <3>1. as[c] = clientForContext(c) /\ ContextOf(c)
      BY <2>2 DEF IInv, RequestInv, RequestOK, InFlight, Stages
    <3> QED
      BY <2>2, <3>1, ToolsAssumption DEF clientForContext, ContextOf, Registered
  <2> QED
    BY <2>1, <2>2 DEF Authorised
<1> QED
  BY <1>1, Invariant, PTL

(* Whoever holds the counter a call waits for is of the same session.      *)
THEOREM SessionsAreSeparate == Spec => []OnlyOwnSessionWaits
<1>1. IInv => OnlyOwnSessionWaits
  <2> SUFFICES ASSUME IInv, NEW c \in Requests, NEW d \in Requests,
                      stage[c] = "waiting", counter[Key(c)] = d
               PROVE  request[c].session = request[d].session
    BY DEF OnlyOwnSessionWaits
  <2> USE DEF IInv, RequestInv
  <2>1. InFlight(c) /\ ContextOf(c)
    BY DEF RequestOK, InFlight, Stages
  <2>2. Key(c) \in Keys
    BY <2>1 DEF RequestOK, RequestTypes, ContextOf, Key, Keys
  <2>3. Key(c) = Key(d)
    BY <2>2 DEF HoldsOwnKey
  <2>4. InFlight(d) /\ ContextOf(d)
    BY <2>2, IdleHoldsNothing DEF RequestOK
  <2> QED
    BY <2>1, <2>3, <2>4 DEF ContextOf, Key
<1> QED
  BY <1>1, Invariant, PTL

(* A call at the API server is cancelled only after its own deadline.      *)
THEOREM ClientsCancelNothing == Spec => ClientsDoNotCancelCalls
<1> DEFINE OwnDeadline ==
      \A c \in Requests :
        stage[c] = "requesting" /\ stage'[c] = "cancelled" /\ IsCall(c) => c \in expired
<1>1. IInv /\ [Next]_vars => [OwnDeadline]_vars
  <2> SUFFICES ASSUME IInv, Next, NEW c \in Requests,
                      stage[c] = "requesting", stage'[c] = "cancelled", IsCall(c)
               PROVE  c \in expired
    OBVIOUS
  <2>1. stage \in [Requests -> Stages \cup Outcomes \cup {"none"}] /\ context[c].fresh
    BY DEF IInv, RequestInv, RequestTypes, RequestOK, ContextOf, InFlight, Stages
  <2>2. ~(Signal \/ Progress)
    BY DEF Signal, Progress, OnSignal, StartFails, CreateServer, CreateTransport, Listen,
           ListenFails, ServerError, BeginShutdown, Shutdown, ShutdownReturns, Stop,
           Overtime, ExitAfterShutdown, ForceExit, requests
  <2>3. PICK d \in Requests : Serve(d)
    BY <2>2 DEF Next
  <2>4. d = c
    BY <2>1, <2>3 DEF Serve, Arrive, Refuse, Reject, Admit, Deny, Handle, NeedsClient,
                      Answer, Cancel, Panic, Deadline, Leave, Return
  <2>5. Cancel(c)
    BY <2>1, <2>3, <2>4 DEF Serve, Arrive, Refuse, Reject, Admit, Deny, Handle, NeedsClient,
                            Answer, Panic, Deadline, Leave, Return, InFlight, Stages
  <2> QED
    BY <2>1, <2>5 DEF Cancel, Done
<1> QED
  BY <1>1, Invariant, PTL DEF Spec, ClientsDoNotCancelCalls

(* Status 0 is that of a process that has waited and released.             *)
THEOREM ExitIsOrderly == Spec => []OrderlyExit
<1>1. IInv => OrderlyExit
  BY DEF IInv, ProcessInv, ShutdownInOrder, OrderlyExit
<1> QED
  BY <1>1, Invariant, PTL
=============================================================================
