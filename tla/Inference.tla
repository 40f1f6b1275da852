------------------------------ MODULE Inference ------------------------------
(***************************************************************************)
(* Asking a model server: the router (inference/router.py), the client with *)
(* its circuit breaker, slots and retries (vllm/client.py, circuit.py,      *)
(* cache/redis/semaphores.py), and the two gateways that turn what it       *)
(* raises into a typed answer (vllm/gateway.py, airllm/gateway.py).         *)
(*                                                                          *)
(* The processes share the slots, which are leases kept by Redis; each has  *)
(* breakers of its own, one per endpoint.  Between two awaits a process runs *)
(* undisturbed.  An await may raise, because Redis fails it, because the     *)
(* activity is cancelled or because of an error the client does not catch:   *)
(* what it raises leaves the gateway and fails the activity.  Redis may lose *)
(* what it knows.  Time is counted down: Tick takes one unit from every      *)
(* lease, cooldown, wait and attempt, and waits for what is due.             *)
(***************************************************************************)
EXTENDS Integers, FiniteSets, SequencesExt

CONSTANTS
  Processes,     \* worker processes
  Calls,         \* coroutines that call a model, one call at a time
  Process(_),    \* the process a coroutine runs in
  Task(_),       \* what it asks for
  Endpoints,     \* the configured endpoints, in the order they were registered
  Answers,       \* how a server that answers may answer
  Phases,        \* an HTTP timeout bounds each phase of a request, not their sum
  MinTTL,        \* MIN_SLOT_TTL_SECONDS (120)
  TTLMargin,     \* SLOT_TTL_MARGIN (2)
  SlotWait,      \* slot_wait_seconds (30)
  Backoff,       \* retry_backoff_seconds (0.5)
  Threshold,     \* failure_threshold (3)
  ResetAfter,    \* reset_after_seconds (30)
  MaxFaults      \* bound: processes that die, awaits that raise, losses of Redis

ASSUME InferenceAssumption ==
  /\ Endpoints \in Seq(Range(Endpoints))
  /\ \A c \in Calls : Process(c) \in Processes
  /\ {Phases, MinTTL, TTLMargin, SlotWait, Backoff, Threshold, ResetAfter} \subseteq Nat \ {0}
  /\ MaxFaults \in Nat
  /\ \A e \in Range(Endpoints) : {e.slots, e.timeout, e.attempts} \subseteq Nat \ {0}
  /\ Answers \subseteq {"usable", "illegal", "unusable", "rejected", "garbled"}

VARIABLES
  server,   \* whether an endpoint answers at all
  call,     \* where each coroutine is
  breaker,  \* per process and endpoint: consecutive failures, and what is left to cool
  leases,   \* the reservations Redis knows of
  reply,    \* what the step just taken returned to an agent
  lost,     \* history: leases left behind by each coroutine, that nobody will release
  faults    \* how many of the faults there may be have been

vars == <<server, call, breaker, leases, reply, lost, faults>>

-----------------------------------------------------------------------------
\* The router.

CapabilityOf(task) ==
  CASE task \in {"gui_action", "semantic_verification"} -> "fast"
    [] task = "root_cause_analysis" -> "deep"
    [] task = "embedding" -> "pooling"

\* The first endpoint registered for a capability serves it.
Serving(task) == { i \in DOMAIN Endpoints : Endpoints[i].capability = CapabilityOf(task) }
Routes ==
  [c \in { d \in Calls : Serving(Task(d)) # {} } |->
    CHOOSE i \in Serving(Task(c)) : \A j \in Serving(Task(c)) : i <= j]
Served(c) == c \in DOMAIN Routes
EndpointFor(c) == Routes[c]
Endpoint(c) == Endpoints[EndpointFor(c)]
Used == { EndpointFor(c) : c \in { d \in Calls : Served(d) } }

-----------------------------------------------------------------------------
\* The breaker.

Closed == -1
Breakers == Processes \X Used
Breaker(c) == <<Process(c), EndpointFor(c)>>
IsOpen(b) == breaker[b].cooling # Closed

\* A bug of the breaker: after its cooldown it keeps refusing.
Allows_Never(b) == breaker[b].cooling = Closed

Allows(b) == breaker[b].cooling \in {Closed, 0}

\* The first call after the cooldown half-opens it: the count is kept.
Allowed(b) == [breaker EXCEPT ![b].cooling = Closed]

\* Counted up to the threshold, where more makes no difference.
Failed(b) ==
  LET count == IF breaker[b].failures < Threshold THEN breaker[b].failures + 1 ELSE Threshold
  IN  [breaker EXCEPT ![b].failures = count,
                      ![b].cooling = IF count = Threshold THEN ResetAfter ELSE @]

Succeeded(b) == [breaker EXCEPT ![b] = [failures |-> 0, cooling |-> Closed]]

-----------------------------------------------------------------------------
\* The slots.  Redis drops a lease that ran out before it looks at the others.

TTL(e) == IF MinTTL > e.timeout * TTLMargin THEN MinTTL ELSE e.timeout * TTLMargin

\* The token of a coroutine's present reservation: a new uuid for each it asks for.
\* One that was released needs no name of its own.
Lease(c) == [call |-> c, nth |-> lost[c]]
HeldOf(e) == { l \in leases : Endpoint(l.token.call) = e }
Room(e) == Cardinality(HeldOf(e)) < e.slots

\* A bug of the semaphore: a release takes any lease.
Released_Any(c) ==
  IF HeldOf(Endpoint(c)) = {} THEN leases
  ELSE leases \ {CHOOSE l \in HeldOf(Endpoint(c)) : \A m \in HeldOf(Endpoint(c)) : l.left >= m.left}

Released(c) == { l \in leases : l.token # Lease(c) }

\* The coroutines of C forget their tokens; a lease it leaves behind is still Redis's.
Forgotten(C) ==
  [c \in Calls |-> IF c \in C /\ \E l \in leases' : l.token = Lease(c)
                   THEN lost[c] + 1 ELSE lost[c]]

-----------------------------------------------------------------------------
\* The agent's side: what the client says of the endpoint is a declared failure, never
\* an empty decision, and a decision that is no legal action is a refusal.  Whatever
\* else is raised goes through: nothing is returned.

NoReply == [decided |-> FALSE, failure |-> FALSE, refused |-> FALSE]
NextAction(result) ==
  [decided |-> result = "usable", failure |-> result # "usable", refused |-> result = "illegal"]
Judge(result) ==
  [decided |-> result \in {"usable", "illegal"}, failure |-> result \notin {"usable", "illegal"},
   refused |-> FALSE]
Analyze(result) == Judge(result)

Returned(c, result) ==
  CASE result = "raised" -> NoReply
    [] Task(c) = "gui_action" -> NextAction(result)
    [] Task(c) = "semantic_verification" -> Judge(result)
    [] OTHER -> Analyze(result)

-----------------------------------------------------------------------------
\* One call.

Idle == [at |-> "idle", timer |-> 0, attempt |-> 0, held |-> 0, result |-> "none"]

Fault == faults < MaxFaults /\ faults' = faults + 1

End(c, result) ==
  /\ call' = [call EXCEPT ![c] = Idle]
  /\ reply' = Returned(c, result)

Unserved(c) ==
  /\ call[c].at = "idle" /\ ~Served(c)
  /\ End(c, "no_endpoint")
  /\ UNCHANGED <<server, breaker, leases, lost, faults>>

Paused(c) ==
  /\ call[c].at = "idle" /\ Served(c) /\ ~Allows(Breaker(c))
  /\ End(c, "unavailable")
  /\ UNCHANGED <<server, breaker, leases, lost, faults>>

Ask(c) ==
  /\ call[c].at = "idle" /\ Served(c) /\ Allows(Breaker(c))
  /\ breaker' = Allowed(Breaker(c))
  /\ call' = [call EXCEPT ![c] = [Idle EXCEPT !.at = "waiting", !.timer = SlotWait]]
  /\ reply' = NoReply /\ UNCHANGED <<server, leases, lost, faults>>

Sent(c, attempt) ==
  [call[c] EXCEPT !.at = "posting", !.attempt = attempt, !.timer = Phases * Endpoint(c).timeout]

Reserved(c) == leases \cup {[token |-> Lease(c), left |-> TTL(Endpoint(c))]}

\* Asked for every 50 ms, as long as the wait lasts.
Reserve(c) ==
  /\ call[c].at = "waiting" /\ Room(Endpoint(c))
  /\ leases' = Reserved(c)
  /\ call' = [call EXCEPT ![c] = [Sent(c, 1) EXCEPT !.held = TTL(Endpoint(c))]]
  /\ reply' = NoReply /\ UNCHANGED <<server, breaker, lost, faults>>

\* Redis is away, or took the lease and its answer is lost: nobody knows its token.
ReserveRaises(c) ==
  /\ call[c].at = "waiting"
  /\ Fault
  /\ \/ UNCHANGED leases
     \/ Room(Endpoint(c)) /\ leases' = Reserved(c)
  /\ lost' = Forgotten({c})
  /\ End(c, "raised")
  /\ UNCHANGED <<server, breaker>>

\* Saturation is reported as unavailability and says nothing of the endpoint.
Saturated(c) ==
  /\ call[c].at = "waiting" /\ call[c].timer = 0 /\ ~Room(Endpoint(c))
  /\ End(c, "unavailable")
  /\ UNCHANGED <<server, breaker, leases, lost, faults>>

\* What ends a call goes to the breaker; a success only once the slot is given back.
Finish(c, result) ==
  /\ call' = [call EXCEPT ![c] = [@ EXCEPT !.at = "releasing", !.timer = 0, !.result = result]]
  /\ breaker' = IF result = "unavailable" THEN Failed(Breaker(c)) ELSE breaker

\* A body that is not JSON and a request the server refuses end a call as an
\* unavailable endpoint does.
Answered(c) ==
  /\ call[c].at = "posting" /\ server[EndpointFor(c)] = "up"
  /\ \E answer \in Answers :
       /\ answer = "illegal" => Task(c) = "gui_action"
       /\ Finish(c, IF answer \in {"rejected", "garbled"} THEN "unavailable" ELSE answer)
  /\ reply' = NoReply /\ UNCHANGED <<server, leases, lost, faults>>

\* No connection, a timeout or a 5xx: sent again, and at the last attempt not.
Unanswered(c) ==
  /\ call[c].at = "posting" /\ (server[EndpointFor(c)] = "down" \/ call[c].timer = 0)
  /\ IF call[c].attempt < Endpoint(c).attempts
     THEN /\ call' = [call EXCEPT ![c].at = "backoff", ![c].timer = Backoff * call[c].attempt]
          /\ UNCHANGED breaker
     ELSE Finish(c, "unavailable")
  /\ reply' = NoReply /\ UNCHANGED <<server, leases, lost, faults>>

\* A bug of the client: what was tried is forgotten with each retry.
Resend_Uncounted(c) ==
  /\ call[c].at = "backoff" /\ call[c].timer = 0
  /\ call' = [call EXCEPT ![c] = Sent(c, call[c].attempt)]
  /\ reply' = NoReply /\ UNCHANGED <<server, breaker, leases, lost, faults>>

Resend(c) ==
  /\ call[c].at = "backoff" /\ call[c].timer = 0
  /\ call' = [call EXCEPT ![c] = Sent(c, call[c].attempt + 1)]
  /\ reply' = NoReply /\ UNCHANGED <<server, breaker, leases, lost, faults>>

\* The request, or the wait for the next one, ends in an exception the client has no
\* clause for: the slot is given back, and the breaker hears nothing.
PostRaises(c) ==
  /\ call[c].at \in {"posting", "backoff"}
  /\ Fault
  /\ Finish(c, "raised")
  /\ reply' = NoReply /\ UNCHANGED <<server, leases, lost>>

\* The slot is given back whatever happened; unusable output is an answer too.
Release(c) ==
  /\ call[c].at = "releasing"
  /\ leases' = Released(c)
  /\ breaker' = IF call[c].result \in {"unavailable", "raised"} THEN breaker
                ELSE Succeeded(Breaker(c))
  /\ End(c, call[c].result)
  /\ UNCHANGED <<server, lost, faults>>

\* The release fails, in the finally: what it raises replaces the answer or the typed
\* error, and the lease may be left behind.
ReleaseRaises(c) ==
  /\ call[c].at = "releasing"
  /\ Fault
  /\ leases' \in {leases, Released(c)}
  /\ lost' = Forgotten({c})
  /\ End(c, "raised")
  /\ UNCHANGED <<server, breaker>>

\* FLUSHALL, or a Redis that restarts empty: the calls it had leases for go on.
RedisForgets ==
  /\ Fault
  /\ leases' = {}
  /\ call' = [c \in Calls |-> [call[c] EXCEPT !.held = 0]]
  /\ reply' = NoReply /\ UNCHANGED <<server, breaker, lost>>

\* A process that dies forgets its breakers; its leases run out.
Crash(p) ==
  /\ Fault
  /\ call' = [c \in Calls |-> IF Process(c) = p THEN Idle ELSE call[c]]
  /\ reply' = NoReply
  /\ breaker' = [b \in DOMAIN breaker |->
                   IF b[1] = p THEN [failures |-> 0, cooling |-> Closed] ELSE breaker[b]]
  /\ UNCHANGED <<server, leases>>
  /\ lost' = Forgotten({ c \in Calls : Process(c) = p })

ServerChanges(e) ==
  /\ server' = [server EXCEPT ![e] = IF @ = "up" THEN "down" ELSE "up"]
  /\ reply' = NoReply /\ UNCHANGED <<call, breaker, leases, lost, faults>>

Down(n) == IF n > 0 THEN n - 1 ELSE n

Due == \E c \in Calls : call[c].at \in {"waiting", "posting", "backoff"} /\ call[c].timer = 0

Tick ==
  /\ ~Due
  /\ call' = [c \in Calls |-> [call[c] EXCEPT !.timer = Down(@), !.held = Down(@)]]
  /\ breaker' = [b \in DOMAIN breaker |-> [breaker[b] EXCEPT !.cooling = Down(@)]]
  /\ leases' = { [l EXCEPT !.left = @ - 1] : l \in { m \in leases : m.left > 1 } }
  /\ reply' = NoReply /\ UNCHANGED <<server, lost, faults>>

Init ==
  /\ server \in [Used -> {"up", "down"}]
  /\ call = [c \in Calls |-> Idle]
  /\ breaker = [b \in Breakers |-> [failures |-> 0, cooling |-> Closed]]
  /\ leases = {}
  /\ reply = NoReply
  /\ lost = [c \in Calls |-> 0]
  /\ faults = 0

Asking(c) == Unserved(c) \/ Paused(c) \/ Ask(c)
Progress(c) ==
  \/ Reserve(c)
  \/ Saturated(c)
  \/ Answered(c)
  \/ Unanswered(c)
  \/ Resend(c)
  \/ Release(c)
Raises(c) == ReserveRaises(c) \/ PostRaises(c) \/ ReleaseRaises(c)

Next ==
  \/ \E c \in Calls : Asking(c) \/ Progress(c) \/ Raises(c)
  \/ RedisForgets
  \/ \E p \in Processes : Crash(p)
  \/ \E e \in Used : ServerChanges(e)
  \/ Tick

Spec == Init /\ [][Next]_vars

\* Time passes, what is due happens, and there is always another run that asks.
FairSpec ==
  /\ Spec
  /\ WF_vars(Tick)
  /\ \A c \in Calls : WF_vars(Asking(c) \/ Progress(c))

-----------------------------------------------------------------------------
OnServer(e) == { c \in Calls : Served(c) /\ Endpoint(c) = e /\ call[c].at \in {"posting", "backoff"} }

BreakersOK == \A b \in Breakers : /\ breaker[b].failures \in 0 .. Threshold
                                  /\ breaker[b].cooling \in Closed .. ResetAfter
                                  /\ IsOpen(b) => breaker[b].failures = Threshold
ReplyOK == reply # NoReply => reply.failure = ~reply.decided

\* Leases and calls agree: whoever is on a server holds a lease of its own until that
\* runs out or Redis loses it, and a lease is that of a call on its way, or one whose
\* token is lost, with the process that died or in the acquire or release that raised.
\* So a server never has more calls than slots among those whose lease is still good
\* ("a limit that belongs to the server", router.py), whatever a coroutine that lost
\* its token, or a late release, does to the others.
LeasesMatchCalls ==
  /\ BreakersOK /\ ReplyOK
  /\ \A c \in Calls : Served(c) /\ call[c].held > 0
       => [token |-> Lease(c), left |-> call[c].held] \in leases
  /\ \A l \in leases :
       \/ l.token.nth < lost[l.token.call]
       \/ l.left = call[l.token.call].held
  /\ \A e \in Range(Endpoints) : Cardinality({ c \in OnServer(e) : call[c].held > 0 }) <= e.slots

\* Every call is answered or raises, whatever the server, Redis and the other processes
\* do: waiting, attempts and backoff are bounded ("waiting forever would be" a failure).
EveryCallReturns == \A c \in Calls : call[c].at # "idle" ~> call[c].at = "idle"

\* No breaker pauses its endpoint for good, half-opened by several calls at once or
\* failed late as it may be ("after a cooldown one call is allowed through", circuit.py).
NoBreakerStaysOpen == \A b \in Breakers : IsOpen(b) ~> ~IsOpen(b)

\* "It has to outlast the call it protects: a lease that expires while the call is
\* still running hands the slot to somebody else" (client.py).
LeaseOutlastsCall == \A e \in Range(Endpoints) : Cardinality(OnServer(e)) <= e.slots

\* "Two failure modes, both ending in PlannedAction(failure=...) rather than an exception"
\* (vllm/gateway.py): a call that gives its slot back returns something.
NothingIsRaised ==
  [][\A c \in Calls :
        call[c].at = "releasing" /\ call'[c].at = "idle" /\ leases' # leases
          => reply' # NoReply]_vars

HalfOpen(b) == breaker[b].cooling = Closed /\ breaker[b].failures = Threshold

\* "Half-open: let exactly one call through" (circuit.py).
HalfOpenLetsOneThrough ==
  [][\A c \in Calls : Served(c) /\ HalfOpen(Breaker(c))
        => ~(call[c].at = "idle" /\ call'[c].at = "waiting")]_vars

\* "the breaker opens and calls fail immediately" (circuit.py).
NothingIsSentWhileOpen ==
  [][\A c \in Calls : Served(c) /\ IsOpen(Breaker(c))
        => ~(call[c].at # "posting" /\ call'[c].at = "posting")]_vars

\* "Only transport failures count" (circuit.py): a server that answers is answering.
AnsweringIsNoFailure ==
  [][\A e \in Used, p \in Processes :
        (server[e] = "up" /\ \E c \in Calls : call[c].at = "posting" /\ call[c].timer > 0
            /\ Breaker(c) = <<p, e>> /\ call'[c].at = "releasing")
          => breaker'[<<p, e>>].failures <= breaker[<<p, e>>].failures]_vars
=============================================================================
