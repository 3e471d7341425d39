# A TLA+ verification project for mkp

[mkp](../src/README.md) is an MCP server that gives language-model clients access to
a Kubernetes cluster: it turns tool calls (`list_resources`, `get_resource`,
`apply_resource`, `delete_resource`, `post_resource`) into requests to the API
server. This directory holds TLA+ models of its stateful parts, the TLC runs that
check them on small instances, and TLAPS proofs of their main properties for
every instance.

`tlc -config X.cfg XMC.tla` runs a model, `tlapm XProofs.tla` checks its proofs.
`PROJECT.json` maps every definition to the lines it models and lists the runs,
the hazards and, for every property, a plausible bug (a *mutant*: one definition
replaced by another of the same module) under which TLC finds the property broken.

## 1. The system

| Part | State it keeps | Operations | Talks to |
|---|---|---|---|
| Rate limiter (`pkg/ratelimit`) | `requestCounts`: session and tool to a counter with its window; `rl.mu` over the maps, `counter.mu` per counter; a ticker | `Middleware`, `getCounter`, `getLimit`, `cleanup`, `Stop` | wraps every tool handler |
| Kubernetes client (`pkg/k8s/client.go`) | four components built from the kubeconfig under `mu`; `refreshing`, `refreshCancel` under `refreshMu`; `podLogReadSem` | list, get, apply, delete, `ExecInPod`, `WithImpersonation`, `RefreshClient`, start and stop of the periodic refresh | API server, kubeconfig file |
| Subresources and logs (`subresource.go`) | a slot of the semaphore per read | `GetResource`, `defaultGetPodLogs` and its limits | API server |
| Exec (`exec.go`) | a timeout and two bounded buffers per call | `PostResource`, `handlePodExec`, `defaultExecInPod` | API server |
| Tool handlers (`pkg/mcp/*_resource*.go`) | none | parse, choose a client (`clientForContext`), call it, convert the result | client |
| Server (`server.go`, `middleware.go`) | the limiter and the JWKS client, for `Stop` | `CreateServer`, `WithTimeoutContext` (a fresh 30 s context that carries session and identity) | mcp-go, limiter, handlers |
| Identity (`pkg/identity`) | the cache of keys, in a library | JWT to user and groups | HTTP request |
| Lifecycle (`cmd/server/main.go`) | signal, server-error and shutdown channels | start, two-stage shutdown | all |

Every tool call is a goroutine: HTTP context function (identity), timeout
middleware, recovery, limiter, handler, client. Calls meet in three places: the
limiter's counters, the client's components, and the log semaphore. Beside them
run the limiter's sweep, the refresh goroutine and, at start-up, the listing of
the cluster's resources.

What is hard here: the two locks of the limiter against its sweep; the refresh
of four components under operations that use two; refresh goroutines that are
stopped without being awaited; a read-modify-write against an API server that
others write to over a network that loses answers; deadlines that pass while a
call waits for a slot, a lock or an answer; slots that must come back on every
path; contexts that are replaced on the way; a signal at any moment of start-up
or service; keys that rotate under tokens on their way. `PROJECT.json` lists these hazards at their lines.

What makes each part correct:

- *Limiter*: a session pays for its own calls only; in less than a window at most
  twice the limit gets through the counters in the map, and at most two more per
  call in flight through those the sweep has dropped; no call rejected below the
  limit; the lock of a counter is always given back.
- *Client*: one operation sees one configuration; a refresh is all or nothing;
  one refresh goroutine at most that nobody cancelled; the client catches up.
- *Writes*: a write replaces exactly what its call saw; at most one write per
  call; success is honest.
- *Logs*: slots are neither lost nor invented; the bytes buffered stay within
  the budget; a log is whole or refused; every read returns.
- *Pipeline*: session and identity survive the change of context; a request
  without identity never uses the base client; exec ends at the nearer deadline.
- *Identity*: a request acts for exactly the user and groups of its own token, and
  only if that token may be acted on.
- *Reads*: a URI is read as the resource it stands for, or, with segments missing, as
  what the others spell; following the pages shows every object once, with the
  annotations asked for.
- *Lifecycle*: a signal ends the process, and status 0 means that it ended in order.

## 2. The modules

| Module | Models | Role |
|---|---|---|
| `RateLimiter` | `ratelimit.go`, `config.go` | specification and properties |
| `RateLimiterProofs` | | its inductive invariants and seven theorems |
| `KubeClient` | `client.go`: components, lock, refresh; component reads of `subresource.go` and `exec.go` | specification and properties |
| `KubeClientProofs` | | its inductive invariant and four theorems |
| `CompareAndSet` | | abstract: what a write promises |
| `ResourceWrites` | `HandleApplyResource`, `HandleDeleteResource`, `HandlePostResource` and the client functions under them, API server and network as environment | implements `CompareAndSet` |
| `ResourceWritesProofs` | | invariant, theorems and the refinement |
| `PodLogReads` | `defaultGetPodLogs` and its limits, the semaphore shared by impersonated clients | specification and properties |
| `PodLogReadsProofs` | | its inductive invariant and four theorems |
| `Server` | `server.go`, `middleware.go`, `clientForContext`, `main.go` | specification and properties; the composition |
| `ServerProofs` | | its inductive invariant and five theorems |
| `Identity` | `identity.go`, `Keyfunc` | operators, and a reference definition |
| `IdentityProofs` | | lemmas on `Keep`, by induction, and the theorem that the operators meet the reference |
| `ResourceReads` | `read_resource.go`, `list_resources.go`, `helpers.go`, the resource templates, discovery and key cache as environment | specification and properties; extends `Identity` |
| `ResourceReadsProofs` | | lemmas on patterns, pages and URIs, its inductive invariants and four theorems |
| `Exec` | `handlePodExec`, `defaultExecInPod`, `boundedBuffer` | specification and properties |
| `ExecProofs` | | its inductive invariant and three theorems |
| `...MC` | | symmetry sets, command lines and inputs for TLC |

### RateLimiter

An action per step between two points at which another goroutine can interfere.
`getCounter` and `getLimit` hold `rl.mu` only inside one function, so each is one
action that waits while the sweep holds `rl.mu` (`sweeping`). `Lock` takes
`counter.mu` and includes the reset of an elapsed window; the lock is held
through `Reject`, or `Admit` and `Finish` (the `defer` in the middleware). The sweep is
`cleanupStart`, one `cleanupVisit` per counter in any order (Go's map order is
unspecified), and `cleanupEnd`; it waits for the lock of each counter. A counter has
an address from `Counters`; an address is reused only when neither the map nor a
call refers to it, which is what Go's garbage collector guarantees. The clock
counts units; `windowSize` and `cleanupInterval` keep the code's order
(60 s and 10 min). The nested map is one function from pairs: the removal of an
empty inner map is not observable.

`admissions`, `counted` and `strays` are history: per key the times at which calls passed;
all of them, those that were counted by the counter the map has for the key, and, call
by call, those that were not (a call that was given a counter just before the sweep
dropped it counts in the dropped one). `SlidingWindowBound` speaks of all three. `ctr`, `at` and `key` are the
locals of the handler.

### KubeClient

A component is the number of the kubeconfig edit it was built from: all that
matters is whether components agree and whether they are current. An operation is
the list of components it reads (`Reads`), with an API call in between; operations
in `Unlocked` do not take `mu`, and the API calls of those in `Unbounded` end by no
deadline of this code. `Offered` says which operations a goroutine performs. `Begin`, `RLock`, `Use`, `Finish` are its steps. A
refresh reads the file (`Refresh`), waits for `mu` (`Lock`), assigns one component
per `Assign`, and unlocks. The RWMutex keeps new readers out once a writer waits,
as Go's does (`WriterPending`). A failing refresh changes nothing and so is no
step. `IsReady`, the getters and the setters used by tests are left out.

### ResourceWrites and CompareAndSet

One object, by its `resourceVersion` (0: no object). `Get` is the first request of
an apply; `Send` puts the second, or the only one, on its way; `Serve` is the API
server, `Lose` the network, `OtherPut` and `OtherDelete` are other clients. A call
that gives up leaves its request on its way. The mapping to `CompareAndSet` takes
the version a call's Get found as what it saw (a post sees nothing) and the
calls whose put was served as written; deletes map to `Remove`, whoever makes them.

### PodLogReads

`GetResource` chooses a client and the parameter `limitBytes`; the three functions
that turn it into a limit are translated as they are. `Acquire` or `GiveUp` is the `select`
on semaphore and context; then the stream is opened, copied block by block up to
one more than the limit, and ends in `EOF` (whole, or refused as too long) or `Fail`. Every
way out releases the slot. Bytes are counted in blocks: the code compares sizes
only. `tailLines` and the other options change what the API server sends, not
what the server does with it, and are left out.

### Exec

`Start` turns the body's timeout into a duration of `DurationBits` bits (`Seconds` wraps
like Go's `int64`), puts it between the default and the cap (`Effective`) and sets
`deadline` to the nearer of it and the tool call's own. The stream is
`StreamWithContext`: it ends when both copying goroutines have reached the end and
the exit status is there (`StreamEnds`), or as soon as the context is done
(`StreamCancelled`), and then the goroutines may still write (`Copy`) while the handler
reads the two buffers and the marks one after the other. `Finish` looks at the deadline
before it looks at the stream's error. An exec shares nothing but the client's read
lock, which `KubeClient` models, so the module has one.

### Server

The process from `main`'s first line to its exit, and any number of requests. A
request arrives with a session or none, a token or none, for a tool or for a
resource template; `Arrive` is the context function and, for tools, the timeout
middleware, which replaces the context. mcp-go puts the first middleware
outermost, so a call goes through timeout, recovery and limiter to its handler.
`Reject` and `Admit` take the counter's lock of the call's `Key`; the lock is held until
the call returns by `Deny`, `Answer`, `Cancel` or `Panic`. Which calls the limiter rejects is
left open here, and its maps, windows and sweep are `RateLimiter`'s: a `Server` in
which no sweep meets a call. A handler chooses its client, strictly when
impersonation is on (`Deny` without one), waits for the client's `mu` and asks the API server
(`Handle`); how long that wait is, is `KubeClient`'s, and what handlers do at the API server is
in `ResourceWrites`, `PodLogReads` and `Exec`. Reads by template skip both middlewares and keep
the context of their HTTP request, which over SSE is detached from the client's. A read of
a URI just as it is on offer has no handler (see `ResourceReads`) and is left out.

`main` goes from `starting` over `created`, `serving` and `stopping` to `exited`. The
transport's goroutine (`Listen`, `ListenFails`), the signal's (`OnSignal`), and the shutdown's
(`Shutdown`, `ShutdownReturns`, `Stop`) run beside it; the two `select`s of `main` are
`ServerError`/`BeginShutdown` and `ExitAfterShutdown`/`ForceExit`. `owed` is what http.Server's
Shutdown waits for: the requests in flight over streamable HTTP, none over SSE,
where a message is answered before it is handled. Periodic refresh and discovery
do not touch this state; they are in `KubeClient` and `ResourceReads`.

### Identity and ResourceReads

A token is a record of what the code asks about it: whether it parses, its key ID and
who signed it, its expiry, issuer and audience, and the two claims. Names fall
into the classes the code tells apart (too long, with control characters, with the
prefix `system:`, others, the empty string, and values that are no strings). A key has its ID for
a name, so that a signature is good under one key. `Acceptable` is the reference
that `ActsForTheTokensUser` compares with, written from the package's promises.

A claim's groups are kept one by one (`Keep`, a recursive function: the provers know
nothing of `SelectSeq`), and so are the parts of a URI.

A URI is its scope and its segments between slashes, empty ones included. mcp-go, which is
outside, first looks for the URI among the resources on offer and then for a template
that it matches: one with a segment, if an empty one, for each variable (`Matches`). The
server offers its resources without a handler (`server.go:164`), so a read of one just as
it is on offer ends in a call of nil, which the recovery of tools does not catch
(`CallNoHandler`; what a transport makes of it is not modelled). A URI that matches nothing is not
found (`FindNoHandler`); any other reaches `HandleResource`. What a client
means by a URI is an input with it; `InputsAssumption` says what that is: the resource
with which it filled in a template, or nothing when what may not be left out is
missing. `Fill` is the client that puts a name into a URI on offer, or leaves the
example's, and `Meaning` what it wants by it. A read
remembers the keys that were in the cache when it came (`Receive` is the context
function), since they may rotate before its handler runs. A list is a walk: one
filter, and a limit of the client's choice with each token; the objects do not change
under it, as the API server answers a walk from one snapshot. Annotation keys
are sequences of letters, because patterns look at their beginnings.

## 3. The runs

| Run | Asks | Bounds |
|---|---|---|
| `limiter_keys` | locks, isolation of keys, no false rejection, windows and sweep | 2 calls, a session and none, 4 counters, limit 1, window 1, sweep every 1, time to 2 |
| `limiter_window` | what gets through per window, counter agrees with admissions, hangs only in the lock cycle | 2 calls of one key, limit 1, window 2, sweep every 2, time to 4 |
| `limiter_hang` | **violated**: every call returns | 1 call, window and sweep 1 |
| `limiter_bucket` | **violated**: a token bucket's bound | 1 call, limit 2, window 3 |
| `client` | one generation, atomic refresh, one goroutine, catching up, operations return | 2 operations at a time (exec, apply or logs, and a read by template), 2 refresh goroutines, 2 edits |
| `client_race` | **violated**: `mu` protects every access | 1 operation of any kind at a time |
| `writes` | refinement, at most once, honest success, cause of refusals | 2 calls, versions to 4 |
| `pod_logs` | slots, budget, whole logs, every read returns | 3 reads, 2 clients, 2 slots, limit 1 or 2, streams to 3 |
| `exec` | honest success, true mark, every exec returns | one exec; default 2, cap 8, tool call 3; buffers of 2, output of 3 |
| `exec_cap` | **violated**: larger timeouts are capped | 5-bit durations, a second of 2 |
| `server` | own identity, own session, clients that leave, calls return, orderly exit, signals | 2 requests, a session and none, a reading and a writing tool, 4 command lines |
| `reads` | for whom, of what, with which handler, all pages | 38 inputs, 2 keys, 4 entries of discovery, 3 objects, 6 filters, 4 limits |

Why the bounds suffice. *Limiter*: a key's counter can be in use by two calls,
dropped in between and created anew, which takes two calls and one counter more than
there are keys in use; two windows and a sweep fit into `MaxTime`. Limit 1 makes the
third call within two windows the interesting one. What strays is rare: up to `MaxTime` no
call gets a second one, so that of `SlidingWindowBound` the run tests the bound on counted
calls, which a stray makes different from all calls, and the other two parts rest on
the proof. *Client*: a left-over goroutine beside its
successor takes two goroutines, and an overwrite of the newer by the older
configuration takes two edits; operations do not influence each other except
through `mu`: the second one is there to hold it without a deadline while the first,
which reads two components under it, one twice, or one without it, begins or waits. *Writes*: the properties
relate a call to everybody else, and `OtherPut` and `OtherDelete` are everybody
else; two calls add the interplay of a late write with the next call. *Logs*: three
reads for two slots have one wait; streams of 3 pass every limit. *Exec*: output of
three for buffers of two has a chunk that fits, one that just fits, one that is cut
and one that comes when the buffer is full; the default lies before the tool call's deadline and
the cap after it, as 15 s and 60 s do for 30 s; a second of 2 makes numbers wrap to both signs.
*Server*: a call and the one
behind it, or a call and a read, are two requests; identities are mixed up between two;
the command lines have every value of every switch, and each transport with
impersonation. *Reads*: tokens differ from a good one in one respect each; URIs have a group, none, a segment too few,
each other segment empty, and are the example on offer before and after it is offered; two keys rotate; three objects
take a page that is full, one that is not, and a change of limit.
The bounds are `MaxTime`, `MaxEdits`, `MaxRV`, `MaxStream`, `MaxOutput`, and sit in guards;
the clock of `Exec` stops at the tool call's deadline, after which only the order of the
remaining steps matters.

`CHECK_DEADLOCK FALSE` stands where the model ends by itself: when time is over and
the limiter is idle or in the lock cycle, when all writes are done, and when the exec
has returned, or the process has. The client, the logs and the reads never stop.

Fairness. *Limiter*: weak for the steps of a call that has begun and of a sweep
(the Go scheduler runs what can run; that a handler returns is assumed here, and is a
question for `Server`, `KubeClient`, `PodLogReads` and `Exec`), strong for taking a mutex (Go's mutex hands over to a waiter that
was passed over); none for arrivals, time or `Stop`. *Client*: weak for
the steps under the lock, but not for the end of an operation in `Unbounded`: a read by template
has a context without deadline, and `ListAPIResources` drops its context (client-go's
discovery client has a timeout of its own, on which nothing here relies). `RefreshCatchesUp`
and `OperationsReturn` therefore have a premise, `UnboundedCallsReturn`: no such call holds the
lock for ever. Without it one of them behind which a refresh waits keeps all others out; strong for `RLock` and `Lock` (a writer waits for the
readers before it, and lets the waiting readers in after it) and for `Exit` (a
`select` with two ready cases takes each in the long run). *Logs*: the deadline of
every call passes, a waiting call whose deadline has passed is not held back,
and opening or reading fails after it since the request carries the context;
nothing is assumed of the API server. *Exec*: time passes, the timer goes off, the
handler goes on; nothing is assumed of the command, the connection or the copying
goroutines. *Server*: `main` and its goroutines go on, timers go off, and a request to the API
server ends when its context does; strong for the counter's lock, as above. Nothing is
assumed of `Handle`, since the wait for the client's `mu` ends by no context:
`NoCallHoldsUpTheNext` is about the calls that this wait does not hold up for ever (`MuHoldsUp`). The API server need not answer, clients need not leave,
signals need not come. `writes` and `reads` check safety only.

### What the violated runs show

- `limiter_hang`: `Middleware` holds `counter.mu` when `getLimit` asks for `rl.mu`
  (`ratelimit.go:178,191`); `cleanup` holds `rl.mu` when it asks for `counter.mu`
  (`:83,89`). Call and sweep block each other, and all later calls with them.
  `HangsOnlyInLockCycle` shows that it is the only way the limiter hangs a call.
- `limiter_bucket`: `README.md:520` promises a token bucket; the code is a fixed
  window, through which twice the limit passes around a window's end.
  `SlidingWindowBound` is what it does guarantee.
- `client_race`: `client.go:45` says that `mu` protects the components, but
  `GetResource`, the logs read and `PostResource` read them without it.
- `exec_cap`: `README.md:422` says that larger timeouts are capped; a number of seconds is
  multiplied by 10^9 in 64 bits first (`exec.go:211-216`), so 10^10 seconds become a
  negative duration and then the default.

### What was seen without a run of its own

- `getDefaultTransport`'s comment says that the default is `sse` (`main.go:226`); it is
  `streamable-http` (`:229`).
- `os.Exit` and `log.Fatalf` skip the deferred `StopPeriodicRefresh` (`main.go:91`) and `cancel`:
  the refresh goroutine ends with the process. A second signal during the shutdown has no effect.
- A URI with an empty namespace, version, resource or name is not refused when enough
  parts remain: `k8s://namespaced//apps/v1/deployments/x` is read as a deployment in
  version `v1` of the core group in a namespace `apps`, which is not what the format in
  `README.md:446-453` says. `ReadsWhatItNames` states what such a URI is read as: all that it
  spells, in order.
- A resource on offer cannot be read as it is: it is added with a nil handler
  (`server.go:164`). With any other name or namespace it is read through its template, and
  before the listing comes to it, so is the example.
- `ListAPIResources` ignores its context (`client.go:137`), so the 30 s of the
  start-up listing (`server.go:152`) do not end it while it holds the read lock; nor does
  anything but its client end a read by template (`client.go:228-245`). A refresh that waits behind
  either keeps every operation that takes `mu` out, past the deadline of its tool call.
- A call that the sweep has overtaken counts in a dropped counter, and its key has that
  much more allowance: twice the limit does not hold of everything that gets through.

## 4. The proofs

Constants are arbitrary but for the assumptions named `...Assumption` in the modules,
which TLC evaluates in the runs.

- *RateLimiter*: the invariants build on each other. `IInv` is `TypeOK`, `LockOwnership`
  and `CountersAreUnshared`. The last is inductive only with the second conjunct of
  its own (calls that share a counter share its key, also when it has left the map)
  and with the ownership of the locks. `SweepSparesLiveWindows` is an
  action property and follows from `IInv` and the step: a counter under
  the sweep is mapped, and `cleanupInterval >= windowSize`.
  `Allowance` cuts a key's `counted` calls at the start of its counter's window: those
  after it are as many as the count, which never exceeds the limit, and of those before it
  all but the last few, a limit's worth, are a whole window older. A new window moves
  the cut to the end, so that a sliding window spans one cut at most: `CountTracksAdmissions`, and the first part
  of `SlidingWindowBound`. The second, that a call strays at most twice in less than a window,
  comes from `StraysAreRare`: a call that has strayed gets its next counter from the map, where
  it was made after that first stray, and for the call to stray again the sweep must drop that counter too,
  more than a window after its own began; so more than a window lies between the
  first stray and the third. For the third part the admissions of a key are merged from `counted` and one lane of strays
  per call (`LanesOf`): of so many in less than a window, two with the same remainder
  come from one lane and lie too near in it, by the pigeonhole principle (`MergeSpaced`).
  The three together are `WhatGetsThrough`. `CountsAreBacked` says the like of every
  counter that serves a key, dropped ones included, with all `admissions`; with
  `FreshWindow`, that a call looks at the count in the moment at which it found the window
  open, it gives `NoFalseReject`.
- *KubeClient*: `IInv` adds to the three properties what the lock gives: the writer is the
  one loop that assigns, while it does no reader has the lock, the components
  assigned so far come from what it built and the rest agree with each other, and
  what a locked operation has seen is what the components still are.
- *ResourceWrites*: `IInv` relates request, answer, result and history of a call: a
  request on its way or a refusal means it was not served, an answer "done" means it was,
  and a pending write carries the version its call saw (an update) or requires
  that there is no object (a create). From it every step is shown to be a step
  of `CompareAndSet` or to leave its variables alone. `RefusedForCause`, an action property,
  needs of a create that its manifest's version came with it, which `InFlight` says.

- *Server*: `IInv` has two halves, so that a step of one leaves the other alone: what
  each request is, holds and acts as (a request that is idle holds nothing, the
  holder of a counter is a request in flight whose key it is, whoever acts does so with
  the client its own context chose), and how far the process has come
  (its exit status, limiter and key cache go with `main`'s place). `Authorised`,
  `OnlyOwnSessionWaits` and `OrderlyExit` follow from it; `ClientsDoNotCancelCalls`
  follows from the step.
- *PodLogReads*: `IInv` counts: the slots taken are the cardinality of the reads in flight.
  Each step that takes or gives back a slot is one of adding an element to a finite
  set or removing one, by the library's facts on finite sets, and types and count
  are proved together, since the bound on the semaphore is the guard of
  `Acquire` and its being positive needs the count. Each read has buffered no more than
  its limit allows, and a log that is returned was read to its end. The blocks that all
  reads have buffered are a set of pairs of a read and a number; it is part of a
  product of the reads in flight and the numbers up to the cap, whose cardinality is
  the bound (`AggregateBound`).
- *Exec*: `IInv` says that a buffer holds the beginning of what was copied, marked exactly
  if there was more, and that once the stream ended with an exit status of success
  nothing moves any more, so that what the handler has read one after the other is
  what the buffers still hold. After a deadline this is not so, and only the mark's
  honesty is left: what was cut once stays cut. That a timeout is in range needs that
  `2^(DurationBits - 1)` is a positive integer, which `DurationAssumption` states
  because the provers know no powers; every run evaluates it.
- *Identity*: `Acceptable` is compared with what the package computes, and the number of
  groups with `maxGroupCount`, so the proof has to know what `Keep` keeps: as many elements
  as there are positions that name a group, and those names. It goes by induction
  over the claim. The library's induction theorems take a predicate for a parameter,
  which no prover here can instantiate; `SetInduction` says the same of a set of numbers
  (a set with 0 that has n + 1 with every n has them all), in first-order form, and is
  derived from the least element of what the set leaves out.
- *ResourceReads*, lists: the items gathered so far are the objects before the one the
  next page starts with, each as it has to be shown. A page continues them for every
  limit; an object is shown as it has to be because the code's test for a pattern with
  a star at its end and the reference, a prefix with a star appended, agree on all keys
  and patterns (`PatternsMatchPrefixes`).
- *ResourceReads*, reads: `ReadInv` keeps, with a read in flight, the link between what it met
  when it came and what its handler makes of it later: its identity is that of
  its header under the keys of that moment, and its URI fills in the template for what the
  client meant. What a template spells and what a URI is read as are compared through the parts
  that are not empty (`Spelling`): a filled-in template has the parts of its target
  (`TemplateSpells`: `KeepAllBut` says what is left of a sequence when one element, the empty
  group, is dropped), a URI with those parts is read as that target (`SpellingParses`), and
  whatever is read has the parts of its URI (`PartsSpell`), so that the two are the
  same for every URI that has a handler (`NothingIsLost`). A URI on offer is a filled-in template for
  every entry that discovery can return (`OffersAreTemplates`), which needs `OfferInv`:
  subresources are not on offer. `TypeOK` contains that whatever is asked for has a version,
  a resource and a name. `IInv` of each module was checked by TLC before it was proved, and so
  were these invariants.

The empty string has a name of its own in `ResourceReads` (`Empty`), since the SMT backend
cannot translate `""`.

Only model-checked are the liveness properties (`HangsOnlyInLockCycle`, `RefreshCatchesUp`,
`OperationsReturn`, `ReadsReturn`, `ExecReturns`, `NoCallHoldsUpTheNext`, `SignalEndsProcess`), since
liveness under fairness and `ENABLED` are beyond TLAPS's provers. Every invariant and every action
property that a passing run checks is a theorem.

## 5. Not modelled, and the plan

Next, in this order:

1. The safety halves of the liveness arguments: that a call which holds no lock can
   always be served, so that the lock cycle is the only state in which the limiter stands still.
2. The transports, as far as they decide what becomes of a panic outside the tools.

Not modelled: what the libraries do inside (JWT signatures, base64, JSON, the key
cache's requests, mcp-go's transports and routing of URIs); parameter validation that
returns before anything happens; the defaults of flags from the environment; setters
and getters used by tests; subresource posts other than exec, whose request is that
of any post; build, release and Helm files; wording of messages. One property was
considered and left out: a bound on concurrent reads of resources, which the code does
not set.
