------------------------------- MODULE Server -------------------------------
(***************************************************************************)
(* The process as a whole: its start, the requests it serves (tool calls   *)
(* through timeout, recovery, limiter and handler; reads of resources      *)
(* straight to their handler), and its shutdown in two stages.             *)
(*                                                                         *)
(* Every request carries a token of its own, or none: acting for request c *)
(* means acting as c.  When the limiter rejects is left open, as are its   *)
(* counts and sweep (RateLimiter), and what makes a token good (Identity). *)
(* A read of a URI just as it is on offer has no handler (ResourceReads)   *)
(* and is left out.                                                        *)
(***************************************************************************)
EXTENDS FiniteSets

CONSTANTS
  Requests,  \* goroutines that serve a request
  Sessions,  \* sessions of the MCP protocol
  Tools,     \* the tools clients call, registered or not
  Writers,   \* those that change the cluster
  Template,  \* stands for the resource templates
  Configs,   \* command lines
  Nil        \* no value

ConfigType ==
  [EnableRateLimiting: BOOLEAN, EnableImpersonation: BOOLEAN, jwks: BOOLEAN,
   ReadWrite: BOOLEAN, transport: {"streamable-http", "sse", "invalid"}]

ASSUME ToolsAssumption == Writers \subseteq Tools /\ Template \notin Tools
ASSUME ConfigsAssumption == Configs \subseteq ConfigType
ASSUME NilAssumption ==
  /\ Nil \notin Requests \cup Sessions /\ Nil \notin Tools \cup {Template, "base"}
  /\ Nil \notin {0, 1} /\ "base" \notin Requests

Keys == (Sessions \cup {Nil}) \X Tools
Stages == {"waiting", "handling", "requesting"}
Outcomes == {"rejected", "anonymous", "unknown", "done", "cancelled", "panicked"}

VARIABLES
  config,     \* the command line
  stage,      \* request -> how far it is, or how the last one ended
  request,    \* request -> its session, its tool, and whether it has a token
  context,    \* request -> its handler's context: session, identity, and
              \*            whether it is a fresh one with a deadline
  expired,    \* the requests whose deadline has passed
  left,       \* the requests whose client has gone
  counter,    \* key -> the request that holds its counter's lock, or Nil
  as,         \* request -> whom its request to the API server acts as, or Nil
  main,       \* how far main is
  exit,       \* the exit status, or Nil
  ctx,        \* main's context: "live", "signalled" (a signal waits), "done"
  server,     \* the transport: "off", "starting", "up", "failed" or "closed"
  shutdown,   \* how far the goroutine that shuts down is
  overtime,   \* the deadline of the shutdown has passed
  owed,       \* the requests that Shutdown waits for
  limiter,    \* "none", "running" or "stopped"
  jwksClient  \* "none", "running" or "stopped"

requests == <<stage, request, context, expired, left, counter, as>>
status == <<main, exit>>
stopping == <<shutdown, overtime, owed>>
resources == <<limiter, jwksClient>>
process == <<config, status, ctx, server, shutdown, overtime, resources>>
vars == <<requests, process, owed>>

NoRequest == [session |-> Nil, tool |-> Nil, token |-> FALSE]
NoContext == [session |-> Nil, identity |-> Nil, fresh |-> FALSE]

Init ==
  /\ config \in Configs
  /\ stage = [c \in Requests |-> "none"]
  /\ request = [c \in Requests |-> NoRequest]
  /\ context = [c \in Requests |-> NoContext]
  /\ expired = {} /\ left = {}
  /\ counter = [k \in Keys |-> Nil]
  /\ as = [c \in Requests |-> Nil]
  /\ main = "starting" /\ exit = Nil
  /\ ctx = "live"
  /\ server = "off"
  /\ shutdown = "off" /\ overtime = FALSE /\ owed = {}
  /\ limiter = "none" /\ jwksClient = "none"

Running == main # "exited"
InFlight(c) == stage[c] \in Stages
IsCall(c) == request[c].tool # Template

-----------------------------------------------------------------------------
(* Requests.                                                               *)

Registered == IF config.ReadWrite THEN Tools ELSE Tools \ Writers

(* The context function finds the caller by the token; under JWKS it needs *)
(* the key cache, whose context is derived from main's.                    *)
HTTPContext(c, s, token) ==
  [session |-> s,
   identity |-> IF /\ config.EnableImpersonation /\ token
                   /\ config.jwks => jwksClient = "running" /\ ctx # "done"
                THEN c ELSE Nil,
   fresh |-> FALSE]

(* Mutants of WithTimeoutContext: the request's own context is passed on;  *)
(* the session is not carried over.                                        *)
DerivedContext(x) == x
SessionlessContext(x) == [x EXCEPT !.session = Nil, !.fresh = TRUE]

WithTimeoutContext(x) ==
  [session |-> x.session, identity |-> x.identity, fresh |-> TRUE]

Key(c) == <<context[c].session, request[c].tool>>

(* Mutant of Done: the request to the API server does not carry a context. *)
NeverDone(c) == FALSE

(* A fresh context ends by its deadline, the request's own when its client *)
(* leaves; over SSE that one is detached.                                  *)
Done(c) ==
  IF context[c].fresh THEN c \in expired ELSE c \in left /\ config.transport # "sse"

Arrive(c) ==
  /\ Running /\ server = "up" /\ ~InFlight(c)
  /\ \E s \in Sessions \cup {Nil}, t \in Registered \cup {Template}, token \in BOOLEAN :
       /\ token => config.EnableImpersonation  \* or nobody looks at it
       /\ request' = [request EXCEPT ![c] = [session |-> s, tool |-> t, token |-> token]]
       /\ context' = [context EXCEPT ![c] =
            IF t = Template THEN HTTPContext(c, s, token)
                            ELSE WithTimeoutContext(HTTPContext(c, s, token))]
       /\ stage' = [stage EXCEPT ![c] =
            IF t # Template /\ config.EnableRateLimiting THEN "waiting" ELSE "handling"]
  /\ UNCHANGED <<expired, left, counter, as, owed, process>>

(* A tool that is not registered does not reach the middleware.            *)
Refuse(c) ==
  /\ Running /\ server = "up" /\ ~InFlight(c)
  /\ Registered # Tools
  /\ stage' = [stage EXCEPT ![c] = "unknown"]
  /\ UNCHANGED <<request, context, expired, left, counter, as, owed, process>>

(* The middlewares unwind; the limiter's defer unlocks the counter.        *)
Return(c, outcome) ==
  /\ stage' = [stage EXCEPT ![c] = outcome]
  /\ request' = [request EXCEPT ![c] = NoRequest]
  /\ context' = [context EXCEPT ![c] = NoContext]
  /\ expired' = expired \ {c}
  /\ left' = left \ {c}
  /\ as' = [as EXCEPT ![c] = Nil]
  /\ owed' = owed \ {c}
  /\ UNCHANGED process

Unlock(c) == counter' = [k \in Keys |-> IF counter[k] = c THEN Nil ELSE counter[k]]

Reject(c) ==
  /\ Running /\ stage[c] = "waiting" /\ counter[Key(c)] = Nil
  /\ Return(c, "rejected")
  /\ UNCHANGED counter

(* A deadline that passes meanwhile does not end the wait for the lock.    *)
Admit(c) ==
  /\ Running /\ stage[c] = "waiting" /\ counter[Key(c)] = Nil
  /\ counter' = [counter EXCEPT ![Key(c)] = c]
  /\ stage' = [stage EXCEPT ![c] = "handling"]
  /\ UNCHANGED <<request, context, expired, left, as, owed, process>>

(* Mutant of clientForContext: without an identity, the base client.       *)
clientOrBase(c) ==
  IF config.EnableImpersonation /\ context[c].identity # Nil
    THEN context[c].identity ELSE "base"

clientForContext(c) ==
  IF config.EnableImpersonation THEN context[c].identity ELSE "base"

(* Without a client the handler returns at once.                           *)
Deny(c) ==
  /\ Running /\ stage[c] = "handling" /\ clientForContext(c) = Nil
  /\ Return(c, "anonymous") /\ Unlock(c)

(* Before its request to the API server a handler reads components of the  *)
(* client, to copy them for its caller or to use them, and nearly always   *)
(* under mu: it waits to be let in, and no context ends that wait.         *)
NeedsClient(c) == Running /\ stage[c] = "handling" /\ clientForContext(c) # Nil

Handle(c) ==
  /\ NeedsClient(c)
  /\ as' = [as EXCEPT ![c] = clientForContext(c)]
  /\ stage' = [stage EXCEPT ![c] = "requesting"]
  /\ UNCHANGED <<request, context, expired, left, counter, owed, process>>

Answer(c) ==
  /\ Running /\ stage[c] = "requesting"
  /\ Return(c, "done") /\ Unlock(c)

Cancel(c) ==
  /\ Running /\ stage[c] = "requesting" /\ Done(c)
  /\ Return(c, "cancelled") /\ Unlock(c)

(* Mutant of Panic: the lock is kept.                                      *)
PanicLocked(c) ==
  /\ Running /\ stage[c] \in {"handling", "requesting"} /\ IsCall(c)
  /\ Return(c, "panicked") /\ UNCHANGED counter

(* Recovery turns a panic of a handler into an error.                      *)
Panic(c) ==
  /\ Running /\ stage[c] \in {"handling", "requesting"} /\ IsCall(c)
  /\ Return(c, "panicked") /\ Unlock(c)

Deadline(c) ==
  /\ Running /\ InFlight(c) /\ context[c].fresh
  /\ expired' = expired \cup {c}
  /\ UNCHANGED <<stage, request, context, left, counter, as, owed, process>>

Leave(c) ==
  /\ Running /\ InFlight(c)
  /\ left' = left \cup {c}
  /\ UNCHANGED <<stage, request, context, expired, counter, as, owed, process>>

Serve(c) ==
  \/ Arrive(c) \/ Refuse(c) \/ Reject(c) \/ Admit(c) \/ Deny(c) \/ Handle(c)
  \/ Answer(c) \/ Cancel(c) \/ Panic(c) \/ Deadline(c) \/ Leave(c)

-----------------------------------------------------------------------------
(* The process.                                                            *)

(* log.Fatal and os.Exit: no deferred function runs.                       *)
Exit(code) == main' = "exited" /\ exit' = code

(* A signal, and the goroutine that turns the first into a cancelled       *)
(* context; later signals are left in the channel or dropped.              *)
Signal ==
  /\ Running /\ ctx = "live" /\ ctx' = "signalled"
  /\ UNCHANGED <<config, requests, status, server, stopping, resources>>

OnSignal ==
  /\ Running /\ ctx = "signalled" /\ ctx' = "done"
  /\ UNCHANGED <<config, requests, status, server, stopping, resources>>

UsesJWKS == config.EnableImpersonation /\ config.jwks

(* No cluster configuration; no keys, or no such transport.                *)
StartFails ==
  /\ \/ main = "starting"
     \/ main = "created" /\ (UsesJWKS \/ config.transport = "invalid")
  /\ Exit(1)
  /\ UNCHANGED <<config, requests, ctx, server, stopping, resources>>

CreateServer ==
  /\ main = "starting" /\ main' = "created"
  /\ limiter' = IF config.EnableRateLimiting THEN "running" ELSE "none"
  /\ UNCHANGED <<config, requests, exit, ctx, server, stopping, jwksClient>>

(* The first fetch of the keys fails under a context that is done.         *)
CreateTransport ==
  /\ main = "created" /\ main' = "serving"
  /\ config.transport # "invalid"
  /\ UsesJWKS => ctx # "done"
  /\ jwksClient' = IF UsesJWKS THEN "running" ELSE "none"
  /\ server' = "starting"
  /\ UNCHANGED <<config, requests, exit, ctx, stopping, limiter>>

(* The goroutine of the transport may come to listen after the shutdown.   *)
Listen ==
  /\ Running /\ server = "starting" /\ server' = "up"
  /\ UNCHANGED <<config, requests, status, ctx, stopping, resources>>

ListenFails ==
  /\ Running /\ server = "starting" /\ server' = "failed"
  /\ UNCHANGED <<config, requests, status, ctx, stopping, resources>>

ServerError ==
  /\ main = "serving" /\ server = "failed"
  /\ Exit(1)
  /\ UNCHANGED <<config, requests, ctx, server, stopping, resources>>

BeginShutdown ==
  /\ main = "serving" /\ ctx = "done"
  /\ main' = "stopping" /\ shutdown' = "closing"
  /\ UNCHANGED <<config, requests, exit, ctx, server, overtime, owed, resources>>

(* Shutdown closes the listener, if there is one, and waits for the        *)
(* requests being served; over SSE these are no longer tied to it.         *)
Shutdown ==
  /\ Running /\ shutdown = "closing" /\ shutdown' = "draining"
  /\ server' = IF server = "up" THEN "closed" ELSE server
  /\ owed' = IF server = "up" /\ config.transport = "streamable-http"
               THEN {c \in Requests : InFlight(c)} ELSE {}
  /\ UNCHANGED <<config, requests, status, ctx, overtime, resources>>

(* Mutant of ShutdownReturns: it is given the context that is done.        *)
ShutdownCancelled ==
  /\ Running /\ shutdown = "draining" /\ shutdown' = "releasing"
  /\ UNCHANGED <<config, requests, status, ctx, server, overtime, owed, resources>>

ShutdownReturns ==
  /\ Running /\ shutdown = "draining" /\ (owed = {} \/ overtime)
  /\ shutdown' = "releasing"
  /\ UNCHANGED <<config, requests, status, ctx, server, overtime, owed, resources>>

(* Mutant of Stop: the key cache is forgotten.                             *)
StopLimiterOnly ==
  /\ Running /\ shutdown = "releasing" /\ shutdown' = "reporting"
  /\ limiter' = IF limiter = "running" THEN "stopped" ELSE limiter
  /\ UNCHANGED <<config, requests, status, ctx, server, overtime, owed, jwksClient>>

Stop ==
  /\ Running /\ shutdown = "releasing" /\ shutdown' = "reporting"
  /\ limiter' = IF limiter = "running" THEN "stopped" ELSE limiter
  /\ jwksClient' = IF jwksClient = "running" THEN "stopped" ELSE jwksClient
  /\ UNCHANGED <<config, requests, status, ctx, server, overtime, owed>>

(* Mutant of Overtime: the shutdown has no deadline.                       *)
NoOvertime == FALSE /\ UNCHANGED vars

Overtime ==
  /\ main = "stopping" /\ overtime' = TRUE
  /\ UNCHANGED <<config, requests, status, ctx, server, shutdown, owed, resources>>

(* The result is in the channel: main exits with 0, whatever it is.        *)
ExitAfterShutdown ==
  /\ main = "stopping" /\ shutdown = "reporting"
  /\ Exit(0)
  /\ UNCHANGED <<config, requests, ctx, server, stopping, resources>>

ForceExit ==
  /\ main = "stopping" /\ overtime
  /\ Exit(1)
  /\ UNCHANGED <<config, requests, ctx, server, stopping, resources>>

Progress ==
  \/ OnSignal \/ StartFails \/ CreateServer \/ CreateTransport
  \/ Listen \/ ListenFails \/ ServerError \/ BeginShutdown \/ Shutdown
  \/ ShutdownReturns \/ Stop \/ Overtime \/ ExitAfterShutdown \/ ForceExit

Next == (\E c \in Requests : Serve(c)) \/ Signal \/ Progress

Spec == Init /\ [][Next]_vars

(***************************************************************************)
(* The scheduler runs what can run: handlers, unlocking, main and its      *)
(* goroutines; timers go off; a request to the API server ends when its    *)
(* context does.  Go's mutex does not pass over a waiter for ever.  The    *)
(* API server may never answer, the client's mu may never let a handler in *)
(* (so nothing is asked of Handle), clients need not leave, and signals    *)
(* need not come.                                                          *)
(***************************************************************************)
Fairness ==
  /\ WF_vars(Progress)
  /\ \A c \in Requests :
       /\ WF_vars(Deny(c)) /\ WF_vars(Deadline(c)) /\ WF_vars(Cancel(c))
       /\ SF_vars(Reject(c) \/ Admit(c))

FairSpec == Spec /\ Fairness

-----------------------------------------------------------------------------
(* Properties.                                                             *)

(* Types; a request has a context while it is served, holds at most the    *)
(* counter of its key, and acts as somebody only at the API server.        *)
TypeOK ==
  /\ config \in Configs
  /\ stage \in [Requests -> Stages \cup Outcomes \cup {"none"}]
  /\ request \in [Requests -> [session: Sessions \cup {Nil}, token: BOOLEAN,
                               tool: Tools \cup {Template, Nil}]]
  /\ context \in [Requests -> [session: Sessions \cup {Nil}, fresh: BOOLEAN,
                               identity: Requests \cup {Nil}]]
  /\ expired \subseteq Requests /\ left \subseteq Requests /\ owed \subseteq Requests
  /\ counter \in [Keys -> Requests \cup {Nil}]
  /\ as \in [Requests -> Requests \cup {"base", Nil}]
  /\ main \in {"starting", "created", "serving", "stopping", "exited"}
  /\ exit \in {0, 1, Nil} /\ (exit = Nil <=> Running)
  /\ ctx \in {"live", "signalled", "done"}
  /\ server \in {"off", "starting", "up", "failed", "closed"}
  /\ shutdown \in {"off", "closing", "draining", "releasing", "reporting"}
  /\ overtime \in BOOLEAN
  /\ limiter \in {"none", "running", "stopped"}
  /\ jwksClient \in {"none", "running", "stopped"}
  /\ \A c \in Requests :
       /\ request[c].tool = Nil <=> ~InFlight(c)
       /\ as[c] # Nil <=> stage[c] = "requesting"
       /\ \A k \in Keys : counter[k] = c => k = Key(c)

(* Every request to the API server is made as the owner of the token that  *)
(* came with it, whoever else's requests are served meanwhile, and without *)
(* a token not at all while impersonation is on (implementation.go:37-41); *)
(* with it off always as the server; and in read-only mode none is a write *)
(* (server.go:26-27).  Nor is the owner lost on the way to the handler:    *)
(* behind a trusted proxy a token always has one (middleware.go:37-41).    *)
Authorised ==
  \A c \in Requests :
    /\ as[c] # Nil =>
         /\ as[c] = IF config.EnableImpersonation THEN c ELSE "base"
         /\ config.EnableImpersonation => request[c].token
         /\ request[c].tool \in Writers => config.ReadWrite
    /\ InFlight(c) /\ request[c].token /\ ~config.jwks => context[c].identity = c

(* A call waits only for calls of its own session, or for calls without    *)
(* one if it has none: the session survives the change of context          *)
(* (middleware.go:32-35).                                                  *)
OnlyOwnSessionWaits ==
  \A c, d \in Requests :
    stage[c] = "waiting" /\ counter[Key(c)] = d => request[c].session = request[d].session

(* What a tool call does at the API server is cancelled by its own         *)
(* deadline only, not by the client that hangs up (middleware.go:14-15).   *)
ClientsDoNotCancelCalls ==
  [][\A c \in Requests :
       stage[c] = "requesting" /\ stage'[c] = "cancelled" /\ IsCall(c) => c \in expired]_vars

(* The client's mu holds up c: its own handler, or that of the call before *)
(* it, waits to be let in (client.go:138 and on).                          *)
MuHoldsUp(c) ==
  \E d \in Requests :
    /\ NeedsClient(d)
    /\ d = c \/ (stage[c] = "waiting" /\ counter[Key(c)] = d)

(* A call returns, unless the process exits before: also when the API      *)
(* server never answers, and behind a call of the same session whose       *)
(* handler panics or uses up its deadline (middleware.go:28-31).  The      *)
(* exceptions are the two locks that a deadline does not reach: that of    *)
(* the client, when it holds up this call for ever (KubeClient says what   *)
(* it takes), and those inside the limiter, which is one step here         *)
(* (RateLimiter).                                                          *)
NoCallHoldsUpTheNext ==
  \A c \in Requests :
    []<>~MuHoldsUp(c) => (InFlight(c) /\ IsCall(c) ~> ~(InFlight(c) /\ Running))

(* Exit status 0 means that limiter and key cache were stopped, and that   *)
(* Shutdown had seen every request it waits for return, or had used up its *)
(* five seconds (main.go:154-196).                                         *)
OrderlyExit ==
  exit = 0 => /\ limiter # "running" /\ jwksClient # "running"
              /\ owed = {} \/ overtime

(* A signal ends the process, whatever main was doing when it came and     *)
(* whatever is still being served.                                         *)
SignalEndsProcess == ctx = "signalled" ~> ~Running
=============================================================================
