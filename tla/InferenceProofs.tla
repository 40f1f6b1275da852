--------------------------- MODULE InferenceProofs ---------------------------
(***************************************************************************)
(* The slots of a model server and the leases behind them, for any number   *)
(* of coroutines, processes that die, awaits that raise and endpoints.      *)
(***************************************************************************)
EXTENDS Inference, FiniteSetTheorems, TLAPS

Lines ==
  [at : {"idle", "waiting", "posting", "backoff", "releasing"}, timer : Nat, attempt : Nat,
   held : Nat, result : {"none", "usable", "illegal", "unusable", "unavailable", "raised"}]

Pulses == [failures : 0 .. Threshold, cooling : Closed .. ResetAfter]

Tokens == [call : { c \in Calls : Served(c) }, nth : Nat]

Reservations == [token : Tokens, left : Nat \ {0}]

Typed ==
  /\ call \in [Calls -> Lines]
  /\ breaker \in [Breakers -> Pulses]
  /\ leases \subseteq Reservations
  /\ lost \in [Calls -> Nat]

\* Only a question an endpoint serves is asked, and nobody is on a server for nothing.
AskedIsServed == \A c \in Calls :
  /\ call[c].at # "idle" => Served(c)
  /\ call[c].at \in {"idle", "waiting"} => call[c].held = 0

\* A breaker is open only after as many failures as that takes.
OpenIsEarned == \A b \in Breakers : IsOpen(b) => breaker[b].failures = Threshold

\* Whoever is on a server holds a lease of its own until that runs out.
HolderHasLease == \A c \in Calls :
  call[c].held > 0 => [token |-> Lease(c), left |-> call[c].held] \in leases

\* A lease is one that was left behind, or that of a call on its way.
LeaseHasHolder == \A l \in leases :
  \/ l.token.nth < lost[l.token.call]
  \/ l.token = Lease(l.token.call) /\ l.left = call[l.token.call].held

\* Redis never has more leases of an endpoint than it has slots.
SlotsBound ==
  /\ IsFiniteSet(leases)
  /\ \A e \in Range(Endpoints) : Cardinality(HeldOf(e)) <= e.slots

SlotInv ==
  /\ Typed /\ AskedIsServed /\ OpenIsEarned /\ ReplyOK
  /\ HolderHasLease /\ LeaseHasHolder /\ SlotsBound

-----------------------------------------------------------------------------
\* A finite set of numbers that is not empty has a least one: ranked by how many are
\* below it, its members take every rank.
LEMMA LeastOf ==
  ASSUME NEW S \in SUBSET Int, IsFiniteSet(S), S # {}
  PROVE  \E i \in S : \A j \in S : i <= j
<1> DEFINE n == Cardinality(S)
           Below(e) == { f \in S : f < e }
           rank == [e \in S |-> Cardinality(Below(e)) + 1]
<1>1. n \in Nat /\ n # 0
  BY FS_CardinalityType, FS_EmptySet
<1>2. ASSUME NEW e \in S
      PROVE  IsFiniteSet(Below(e)) /\ Cardinality(Below(e)) \in Nat /\ Cardinality(Below(e)) < n
  <2>1. Below(e) \subseteq S /\ Below(e) # S
    OBVIOUS
  <2>2. IsFiniteSet(Below(e)) /\ Cardinality(Below(e)) \in Nat
    BY <2>1, FS_Subset, FS_CardinalityType
  <2>3. Cardinality(Below(e)) <= n /\ Cardinality(Below(e)) # n
    BY <2>1, FS_Subset
  <2> QED BY <1>1, <2>2, <2>3
<1>3. ASSUME NEW e \in S, NEW g \in S, e < g
      PROVE  rank[e] < rank[g]
  <2>1. \A f \in S : f < e => f < g
    BY <1>3
  <2>2. e \in Below(g) /\ e \notin Below(e)
    BY <1>3
  <2>3. Below(e) \subseteq Below(g) /\ Below(e) # Below(g)
    BY <2>1, <2>2
  <2>4. Cardinality(Below(e)) <= Cardinality(Below(g))
          /\ Cardinality(Below(e)) # Cardinality(Below(g))
    BY <1>2, <2>3, FS_Subset
  <2> QED BY <1>2, <2>4
<1>4. \A e \in S : rank[e] \in 1 .. n
  BY <1>1, <1>2
<1>5. rank \in [S -> 1 .. n]
  BY <1>4
<1> HIDE DEF n, rank, Below
<1>6. \A e, g \in S : rank[e] = rank[g] => e = g
  <2> TAKE e \in S, g \in S
  <2>1. rank[e] \in Int /\ rank[g] \in Int
    BY <1>4
  <2>2. e < g \/ g < e \/ e = g
    OBVIOUS
  <2> QED BY <1>3, <2>1, <2>2
<1>7. PICK i \in S : rank[i] = 1
  <2>1. rank \in Injection(S, 1 .. n)
    BY <1>5, <1>6 DEF Injection, IsInjective
  <2>2. IsFiniteSet(1 .. n) /\ Cardinality(1 .. n) = n
    BY <1>1, FS_Interval
  <2>3. rank \in Surjection(S, 1 .. n)
    BY <2>1, <2>2, FS_Injection DEF n
  <2> QED BY <1>1, <2>3 DEF Surjection
<1>8. \A j \in S : i <= j
  <2> TAKE j \in S
  <2>1. rank[j] \in 1 .. n /\ rank[i] = 1
    BY <1>4, <1>7
  <2>2. ~(rank[j] < rank[i])
    BY <2>1
  <2> QED BY <1>3, <2>2
<1> QED BY <1>7, <1>8

\* A question that is served has an endpoint, and a slot of it a time to live.
LEMMA EndpointIs ==
  ASSUME NEW c \in Calls, Served(c)
  PROVE  /\ Endpoint(c) \in Range(Endpoints)
         /\ EndpointFor(c) \in Used
         /\ Breaker(c) \in Breakers
         /\ Endpoint(c).timeout \in Nat \ {0}
         /\ TTL(Endpoint(c)) \in Nat \ {0}
<1> DEFINE S == Serving(Task(c))
           Least(i) == \A j \in S : i <= j
<1>1. S \subseteq DOMAIN Endpoints /\ S # {}
  BY DEF Serving, Served, Routes
<1>2. DOMAIN Endpoints = 1 .. Len(Endpoints) /\ Len(Endpoints) \in Nat
  BY InferenceAssumption
<1>3. IsFiniteSet(S) /\ S \in SUBSET Int
  <2>1. IsFiniteSet(1 .. Len(Endpoints))
    BY <1>2, FS_Interval
  <2> QED BY <1>1, <1>2, <2>1, FS_Subset
<1>4. EndpointFor(c) = CHOOSE i \in S : Least(i)
  BY DEF EndpointFor, Served, Routes
<1> HIDE DEF S
<1>5. \E i \in S : Least(i)
  BY <1>1, <1>3, LeastOf
<1> HIDE DEF Least
<1>6. EndpointFor(c) \in S
  BY <1>4, <1>5
<1>7. Endpoint(c) \in Range(Endpoints)
  BY <1>1, <1>6 DEF Endpoint, Range
<1>8. EndpointFor(c) \in Used
  BY DEF Used
<1>9. Breaker(c) \in Breakers
  BY <1>8, InferenceAssumption DEF Breaker, Breakers
<1>10. Endpoint(c).timeout \in Nat \ {0}
  BY <1>7, InferenceAssumption
<1>11. MinTTL \in Nat \ {0} /\ TTLMargin \in Nat \ {0}
  BY InferenceAssumption
<1>12. TTL(Endpoint(c)) \in Nat \ {0}
  <2>1. Endpoint(c).timeout * TTLMargin \in Int
    BY <1>10, <1>11
  <2> QED BY <1>11, <2>1 DEF TTL
<1> QED BY <1>7, <1>8, <1>9, <1>10, <1>12

\* It all holds at first.
LEMMA SlotInit == Init => SlotInv
<1> SUFFICES ASSUME Init PROVE SlotInv
  OBVIOUS
<1>1. Threshold \in Nat /\ ResetAfter \in Nat
  BY InferenceAssumption
<1>2. call \in [Calls -> Lines] /\ \A c \in Calls : call[c].held = 0 /\ call[c].at = "idle"
  BY DEF Init, Idle, Lines
<1>3. breaker \in [Breakers -> Pulses] /\ \A b \in Breakers : breaker[b].cooling = Closed
  BY <1>1 DEF Init, Pulses, Closed
<1>4. leases = {} /\ lost \in [Calls -> Nat]
  BY DEF Init
<1>5. Typed
  BY <1>2, <1>3, <1>4 DEF Typed
<1>6. AskedIsServed /\ HolderHasLease /\ OpenIsEarned /\ ReplyOK
  BY <1>2, <1>3 DEF AskedIsServed, HolderHasLease, OpenIsEarned, IsOpen, ReplyOK, Init
<1>7. LeaseHasHolder
  BY <1>4 DEF LeaseHasHolder
<1>8. SlotsBound
  <2>1. \A e \in Range(Endpoints) : HeldOf(e) = {}
    BY <1>4 DEF HeldOf
  <2>2. \A e \in Range(Endpoints) : 0 <= e.slots
    BY InferenceAssumption
  <2> QED BY <1>4, <2>1, <2>2, FS_EmptySet DEF SlotsBound
<1> QED BY <1>5, <1>6, <1>7, <1>8 DEF SlotInv

\* A step that touches no lease and takes none from anybody.
LEMMA HeldKept ==
  ASSUME HolderHasLease, LeaseHasHolder, SlotsBound, leases \subseteq Reservations,
         \A c \in Calls : call'[c].held = call[c].held,
         UNCHANGED <<leases, lost>>
  PROVE  HolderHasLease' /\ LeaseHasHolder' /\ SlotsBound'
<1>1. \A c \in Calls : Lease(c)' = Lease(c)
  BY DEF Lease
<1>2. HolderHasLease'
  BY <1>1 DEF HolderHasLease
<1>3. LeaseHasHolder'
  <2>1. \A l \in leases : l.token.call \in Calls
    BY DEF Reservations, Tokens
  <2> QED BY <1>1, <2>1 DEF LeaseHasHolder
<1>4. SlotsBound'
  BY DEF SlotsBound, HeldOf
<1> QED BY <1>2, <1>3, <1>4

\* What an agent is told is a decision or a declared failure, never both or neither.
LEMMA ReturnedOK ==
  ASSUME NEW c \in Calls, NEW result, reply' = Returned(c, result)
  PROVE  ReplyOK'
<1>1. NextAction(result).failure = ~NextAction(result).decided
  BY DEF NextAction
<1>2. Judge(result).failure = ~Judge(result).decided
  BY DEF Judge
<1>3. reply' \in {NoReply, NextAction(result), Judge(result)}
  BY DEF Returned, Analyze
<1> QED BY <1>1, <1>2, <1>3 DEF ReplyOK, NoReply

\* A step that answers nobody says nothing.
LEMMA NoReplyOK ==
  ASSUME reply' = NoReply
  PROVE  ReplyOK'
BY DEF ReplyOK, NoReply

\* What the outcome of a call does to a breaker.
LEMMA BreakerStep ==
  ASSUME breaker \in [Breakers -> Pulses], OpenIsEarned, NEW b \in Breakers,
         breaker' \in {breaker, Allowed(b), Failed(b), Succeeded(b)}
  PROVE  breaker' \in [Breakers -> Pulses] /\ OpenIsEarned'
<1>1. Threshold \in Nat \ {0} /\ ResetAfter \in Nat \ {0}
  BY InferenceAssumption
<1>2. breaker[b] \in Pulses /\ breaker[b].failures \in 0 .. Threshold
  BY DEF Pulses
<1>3. CASE breaker' = breaker
  BY <1>3 DEF OpenIsEarned, IsOpen
<1>4. CASE breaker' = Allowed(b)
  <2>1. Closed \in Closed .. ResetAfter
    BY <1>1 DEF Closed
  <2>2. breaker' = [breaker EXCEPT ![b] = [breaker[b] EXCEPT !.cooling = Closed]]
    BY <1>4, Zenon DEF Allowed
  <2>3. [breaker[b] EXCEPT !.cooling = Closed] \in Pulses
    BY <1>2, <2>1 DEF Pulses
  <2>4. [breaker[b] EXCEPT !.cooling = Closed].cooling = Closed
    BY <1>2 DEF Pulses
  <2>5. breaker' \in [Breakers -> Pulses]
    BY <2>2, <2>3, Zenon
  <2> QED BY <2>2, <2>4, <2>5 DEF OpenIsEarned, IsOpen
<1>5. CASE breaker' = Failed(b)
  <2> DEFINE count == IF breaker[b].failures < Threshold THEN breaker[b].failures + 1 ELSE Threshold
             rest == IF count = Threshold THEN ResetAfter ELSE breaker[b].cooling
             after == [failures |-> count, cooling |-> rest]
  <2>1. count \in 0 .. Threshold
    BY <1>1, <1>2
  <2>2. rest \in Closed .. ResetAfter
    BY <1>1, <1>2 DEF Pulses, Closed
  <2>3. rest # Closed => count = Threshold
    <3>1. breaker[b].cooling # Closed => breaker[b].failures = Threshold
      BY DEF OpenIsEarned, IsOpen
    <3> QED BY <1>1, <3>1
  <2>4. breaker' = [breaker EXCEPT ![b] = after]
    BY <1>2, <1>5 DEF Failed, Pulses
  <2> HIDE DEF count, rest
  <2>5. after \in Pulses
    BY <2>1, <2>2 DEF Pulses
  <2>6. after.cooling # Closed => after.failures = Threshold
    BY <2>3
  <2> HIDE DEF after
  <2> QED BY <2>4, <2>5, <2>6 DEF OpenIsEarned, IsOpen
<1>6. CASE breaker' = Succeeded(b)
  <2>1. [failures |-> 0, cooling |-> Closed] \in Pulses
    BY <1>1 DEF Pulses, Closed
  <2> QED BY <1>6, <2>1 DEF Succeeded, OpenIsEarned, IsOpen
<1> QED BY <1>3, <1>4, <1>5, <1>6

\* A call goes on, or ends, in a state a call may be in.
LEMMA LineStep ==
  ASSUME call \in [Calls -> Lines], AskedIsServed, NEW c \in Calls, NEW line \in Lines,
         line.at # "idle" => Served(c),
         line.at \in {"idle", "waiting"} => line.held = 0,
         call' = [call EXCEPT ![c] = line]
  PROVE  /\ call' \in [Calls -> Lines] /\ AskedIsServed'
         /\ call'[c] = line
         /\ \A d \in Calls \ {c} : call'[d] = call[d]
<1>1. call' \in [Calls -> Lines] /\ call'[c] = line /\ \A d \in Calls \ {c} : call'[d] = call[d]
  BY Zenon
<1>2. \A d \in Calls : Served(d)' = Served(d)
  BY DEF Served, Routes, Serving
<1>3. AskedIsServed'
  BY <1>1 DEF AskedIsServed, Served, Routes, Serving
<1> QED BY <1>1, <1>3

\* The line of a call that has ended.
LEMMA IdleIs == Idle \in Lines /\ Idle.at = "idle" /\ Idle.held = 0
BY DEF Idle, Lines

\* A request that is sent is one more line of a call.
LEMMA SentIs ==
  ASSUME call \in [Calls -> Lines], NEW c \in Calls, Served(c), NEW attempt \in Nat
  PROVE  /\ Sent(c, attempt) \in Lines
         /\ Sent(c, attempt).at = "posting" /\ Sent(c, attempt).held = call[c].held
<1> DEFINE timer == Phases * Endpoint(c).timeout
<1>1. timer \in Nat
  <2>1. Phases \in Nat /\ Endpoint(c).timeout \in Nat
    BY EndpointIs, InferenceAssumption
  <2>2. \A a, b \in Nat : a * b \in Nat
    OBVIOUS
  <2> QED BY <2>1, <2>2
<1>2. call[c] \in Lines
  OBVIOUS
<1>3. Sent(c, attempt) = [call[c] EXCEPT !.at = "posting", !.attempt = attempt, !.timer = timer]
  BY DEF Sent
<1> HIDE DEF timer
<1> QED BY <1>1, <1>2, <1>3 DEF Lines

\* What a step of a call has in common with every other: its line changes, and its
\* own breaker may.
Goes(c) ==
  /\ call' \in [Calls -> Lines] /\ AskedIsServed'
  /\ breaker' \in [Breakers -> Pulses] /\ OpenIsEarned'
  /\ ReplyOK'
  /\ lost' = lost
  /\ \A d \in Calls \ {c} : call'[d] = call[d]

\* A call begins, or is told at once that it cannot.
LEMMA AskingGoes ==
  ASSUME SlotInv, NEW c \in Calls, Asking(c)
  PROVE  Goes(c) /\ call'[c].held = call[c].held /\ leases' = leases
<1>1. call \in [Calls -> Lines] /\ breaker \in [Breakers -> Pulses] /\ AskedIsServed /\ OpenIsEarned
  BY DEF SlotInv, Typed
<1>2. call[c].at = "idle" /\ leases' = leases /\ lost' = lost
  BY Zenon DEF Asking, Unserved, Paused, Ask
<1>3. call[c].held = 0
  BY <1>2 DEF SlotInv, AskedIsServed
<1>4. CASE Unserved(c) \/ Paused(c)
  <2>1. call' = [call EXCEPT ![c] = Idle] /\ breaker' = breaker
    BY <1>4, Zenon DEF Unserved, Paused, End
  <2>2. \E result : reply' = Returned(c, result)
    BY <1>4, Zenon DEF Unserved, Paused, End
  <2>3. ReplyOK'
    BY <2>2, ReturnedOK
  <2>4. call' \in [Calls -> Lines] /\ AskedIsServed' /\ call'[c] = Idle
          /\ \A d \in Calls \ {c} : call'[d] = call[d]
    BY <1>1, <2>1, IdleIs, LineStep
  <2>5. breaker' \in [Breakers -> Pulses] /\ OpenIsEarned'
    BY <1>1, <2>1 DEF OpenIsEarned, IsOpen
  <2> QED BY <1>2, <1>3, <2>3, <2>4, <2>5, IdleIs, Zenon DEF Goes
<1>5. CASE Ask(c)
  <2> DEFINE line == [Idle EXCEPT !.at = "waiting", !.timer = SlotWait]
  <2>1. SlotWait \in Nat
    BY InferenceAssumption
  <2>2. line \in Lines /\ line.held = 0 /\ line.at = "waiting"
    BY <2>1 DEF Idle, Lines
  <2>3. call' = [call EXCEPT ![c] = line] /\ breaker' = Allowed(Breaker(c)) /\ Served(c)
          /\ reply' = NoReply
    BY <1>5, Zenon DEF Ask
  <2> HIDE DEF line
  <2>4. call' \in [Calls -> Lines] /\ AskedIsServed' /\ call'[c] = line
          /\ \A d \in Calls \ {c} : call'[d] = call[d]
    BY <1>1, <2>2, <2>3, LineStep
  <2>5. breaker' \in [Breakers -> Pulses] /\ OpenIsEarned'
    BY <1>1, <2>3, EndpointIs, BreakerStep
  <2>6. ReplyOK'
    BY <2>3, NoReplyOK
  <2> QED BY <1>2, <1>3, <2>2, <2>4, <2>5, <2>6, Zenon DEF Goes
<1> QED BY <1>4, <1>5 DEF Asking

\* What ends a call on a server.
LEMMA FinishGoes ==
  ASSUME SlotInv, NEW c \in Calls, Served(c),
         NEW result \in {"usable", "illegal", "unusable", "unavailable", "raised"},
         Finish(c, result),
         reply' = NoReply, UNCHANGED <<leases, lost>>
  PROVE  Goes(c) /\ call'[c].held = call[c].held
<1> DEFINE line == [call[c] EXCEPT !.at = "releasing", !.timer = 0, !.result = result]
<1>1. call \in [Calls -> Lines] /\ breaker \in [Breakers -> Pulses] /\ AskedIsServed /\ OpenIsEarned
  BY DEF SlotInv, Typed
<1>2. line \in Lines /\ line.at = "releasing" /\ line.held = call[c].held
  <2>1. call[c] \in Lines
    BY <1>1
  <2> QED BY <2>1 DEF Lines
<1>3. call' = [call EXCEPT ![c] = line]
  BY Zenon DEF Finish
<1> HIDE DEF line
<1>4. call' \in [Calls -> Lines] /\ AskedIsServed' /\ call'[c] = line
        /\ \A d \in Calls \ {c} : call'[d] = call[d]
  BY <1>1, <1>2, <1>3, LineStep
<1>5. breaker' \in {breaker, Failed(Breaker(c))}
  BY DEF Finish
<1>6. breaker' \in [Breakers -> Pulses] /\ OpenIsEarned'
  BY <1>1, <1>5, EndpointIs, BreakerStep
<1>7. ReplyOK'
  BY NoReplyOK
<1> QED BY <1>2, <1>4, <1>6, <1>7, Zenon DEF Goes

\* A call that gave up, was answered or was not, or is sent again.
LEMMA ServedGoes ==
  ASSUME SlotInv, NEW c \in Calls, Saturated(c) \/ Answered(c) \/ Unanswered(c) \/ Resend(c) \/ PostRaises(c)
  PROVE  Goes(c) /\ call'[c].held = call[c].held /\ leases' = leases
<1>1. call \in [Calls -> Lines] /\ breaker \in [Breakers -> Pulses] /\ AskedIsServed /\ OpenIsEarned
  BY DEF SlotInv, Typed
<1>2. leases' = leases /\ lost' = lost
  BY Zenon DEF Saturated, Answered, Unanswered, Resend, PostRaises
<1>3. call[c].at # "idle"
  BY DEF Saturated, Answered, Unanswered, Resend, PostRaises
<1>4. Served(c)
  BY <1>3 DEF SlotInv, AskedIsServed
<1>5. call[c] \in Lines /\ call[c].attempt \in Nat
  BY <1>1 DEF Lines
<1>6. breaker' = breaker => breaker' \in [Breakers -> Pulses] /\ OpenIsEarned'
  BY <1>1 DEF OpenIsEarned, IsOpen
<1>7. CASE Saturated(c)
  <2>1. call' = [call EXCEPT ![c] = Idle] /\ breaker' = breaker
          /\ reply' = Returned(c, "unavailable")
    BY <1>7, Zenon DEF Saturated, End
  <2>2. call[c].held = 0
    BY <1>1, <1>7 DEF Saturated, AskedIsServed
  <2>3. call' \in [Calls -> Lines] /\ AskedIsServed' /\ call'[c] = Idle
          /\ \A d \in Calls \ {c} : call'[d] = call[d]
    BY <1>1, <2>1, IdleIs, LineStep
  <2>4. ReplyOK'
    BY <2>1, ReturnedOK
  <2> QED BY <1>2, <1>6, <2>1, <2>2, <2>3, <2>4, IdleIs, Zenon DEF Goes
<1>8. CASE Answered(c)
  <2>1. PICK answer \in Answers :
          Finish(c, IF answer \in {"rejected", "garbled"} THEN "unavailable" ELSE answer)
    BY <1>8, Zenon DEF Answered
  <2>2. (IF answer \in {"rejected", "garbled"} THEN "unavailable" ELSE answer)
          \in {"usable", "illegal", "unusable", "unavailable"}
    BY InferenceAssumption
  <2>3. reply' = NoReply
    BY <1>8, Zenon DEF Answered
  <2> QED BY <1>2, <1>4, <2>1, <2>2, <2>3, FinishGoes
<1>9. CASE Unanswered(c)
  <2>1. reply' = NoReply
    BY <1>9, Zenon DEF Unanswered
  <2>2. CASE call[c].attempt < Endpoint(c).attempts
    <3> DEFINE timer == Backoff * call[c].attempt
               line == [call[c] EXCEPT !.at = "backoff", !.timer = timer]
    <3>1. timer \in Nat
      <4>1. Backoff \in Nat
        BY InferenceAssumption
      <4>2. \A a, b \in Nat : a * b \in Nat
        OBVIOUS
      <4> QED BY <1>5, <4>1, <4>2
    <3>2. call' = [call EXCEPT ![c].at = "backoff", ![c].timer = timer] /\ breaker' = breaker
      BY <1>9, <2>2 DEF Unanswered
    <3> HIDE DEF timer
    <3>3. line \in Lines /\ line.at = "backoff" /\ line.held = call[c].held
      BY <1>5, <3>1 DEF Lines
    <3>4. call' = [call EXCEPT ![c] = line]
      BY <1>1, <3>2
    <3> HIDE DEF line
    <3>5. call' \in [Calls -> Lines] /\ AskedIsServed' /\ call'[c] = line
            /\ \A d \in Calls \ {c} : call'[d] = call[d]
      BY <1>1, <1>4, <3>3, <3>4, LineStep
    <3>6. ReplyOK'
      BY <2>1, NoReplyOK
    <3> QED BY <1>2, <1>6, <3>2, <3>3, <3>5, <3>6, Zenon DEF Goes
  <2>3. CASE ~(call[c].attempt < Endpoint(c).attempts)
    <3>1. Finish(c, "unavailable")
      BY <1>9, <2>3, Zenon DEF Unanswered
    <3> QED BY <1>2, <1>4, <2>1, <3>1, FinishGoes
  <2> QED BY <2>2, <2>3
<1>10. CASE Resend(c)
  <2> DEFINE line == Sent(c, call[c].attempt + 1)
  <2>1. call' = [call EXCEPT ![c] = line] /\ breaker' = breaker /\ reply' = NoReply
    BY <1>10, Zenon DEF Resend
  <2>2. line \in Lines /\ line.at = "posting" /\ line.held = call[c].held
    <3>1. call[c].attempt + 1 \in Nat
      BY <1>5
    <3> QED BY <1>1, <1>4, <3>1, SentIs
  <2> HIDE DEF line
  <2>3. call' \in [Calls -> Lines] /\ AskedIsServed' /\ call'[c] = line
          /\ \A d \in Calls \ {c} : call'[d] = call[d]
    BY <1>1, <1>4, <2>1, <2>2, LineStep
  <2>4. ReplyOK'
    BY <2>1, NoReplyOK
  <2> QED BY <1>2, <1>6, <2>1, <2>2, <2>3, <2>4, Zenon DEF Goes
<1>11. CASE PostRaises(c)
  <2>1. Finish(c, "raised") /\ reply' = NoReply
    BY <1>11, Zenon DEF PostRaises
  <2> QED BY <1>2, <1>4, <2>1, FinishGoes
<1> QED BY <1>7, <1>8, <1>9, <1>10, <1>11

\* A lease more, where there is room for it.
LEMMA SlotTaken ==
  ASSUME SlotsBound, NEW l, leases' = leases \cup {l},
         Room(Endpoint(l.token.call))
  PROVE  SlotsBound'
<1>1. IsFiniteSet(leases')
  BY FS_AddElement DEF SlotsBound
<1>2. ASSUME NEW e \in Range(Endpoints)
      PROVE  Cardinality(HeldOf(e)') <= e.slots
  <2>1. IsFiniteSet(HeldOf(e)) /\ Cardinality(HeldOf(e)) \in Nat
    <3>1. HeldOf(e) \subseteq leases
      BY DEF HeldOf
    <3> QED BY <3>1, FS_Subset, FS_CardinalityType DEF SlotsBound
  <2>2. Cardinality(HeldOf(e)) <= e.slots /\ e.slots \in Nat
    BY InferenceAssumption DEF SlotsBound
  <2>3. CASE Endpoint(l.token.call) = e
    <3>1. HeldOf(e)' = HeldOf(e) \cup {l}
      BY <2>3 DEF HeldOf, Endpoint, EndpointFor, Routes, Serving
    <3>2. Cardinality(HeldOf(e)) < e.slots
      BY <2>3 DEF Room
    <3>3. Cardinality(HeldOf(e) \cup {l}) <= Cardinality(HeldOf(e)) + 1
      <4>1. Cardinality(HeldOf(e) \cup {l})
              = IF l \in HeldOf(e) THEN Cardinality(HeldOf(e)) ELSE Cardinality(HeldOf(e)) + 1
        BY <2>1, FS_AddElement
      <4> QED BY <2>1, <4>1
    <3>4. Cardinality(HeldOf(e) \cup {l}) \in Nat
      BY <2>1, FS_AddElement, FS_CardinalityType
    <3> QED BY <2>1, <2>2, <3>1, <3>2, <3>3, <3>4
  <2>4. CASE Endpoint(l.token.call) # e
    <3>1. HeldOf(e)' = HeldOf(e)
      BY <2>4 DEF HeldOf, Endpoint, EndpointFor, Routes, Serving
    <3> QED BY <2>2, <3>1
  <2> QED BY <2>3, <2>4
<1> QED BY <1>1, <1>2 DEF SlotsBound

\* Fewer leases are within the slots too.
LEMMA SlotLeft ==
  ASSUME SlotsBound, leases' \subseteq leases
  PROVE  SlotsBound'
<1>1. IsFiniteSet(leases')
  BY FS_Subset DEF SlotsBound
<1>2. ASSUME NEW e \in Range(Endpoints)
      PROVE  Cardinality(HeldOf(e)') <= e.slots
  <2>1. HeldOf(e)' \subseteq HeldOf(e) /\ HeldOf(e) \subseteq leases
    BY DEF HeldOf, Endpoint, EndpointFor, Routes, Serving
  <2>2. IsFiniteSet(HeldOf(e)) /\ IsFiniteSet(HeldOf(e)')
    BY <2>1, FS_Subset DEF SlotsBound
  <2>3. Cardinality(HeldOf(e)') <= Cardinality(HeldOf(e))
    BY <2>1, <2>2, FS_Subset
  <2>4. Cardinality(HeldOf(e)) \in Nat /\ Cardinality(HeldOf(e)') \in Nat
    BY <2>2, FS_CardinalityType
  <2>5. Cardinality(HeldOf(e)) <= e.slots /\ e.slots \in Nat
    BY InferenceAssumption DEF SlotsBound
  <2> QED BY <2>3, <2>4, <2>5
<1> QED BY <1>1, <1>2 DEF SlotsBound

\* A slot is reserved.
LEMMA ReserveKeeps ==
  ASSUME SlotInv, NEW c \in Calls, Reserve(c)
  PROVE  SlotInv'
<1> DEFINE ttl == TTL(Endpoint(c))
           line == [Sent(c, 1) EXCEPT !.held = ttl]
           l == [token |-> Lease(c), left |-> ttl]
<1>1. /\ call \in [Calls -> Lines] /\ breaker \in [Breakers -> Pulses] /\ lost \in [Calls -> Nat]
      /\ leases \subseteq Reservations
      /\ AskedIsServed /\ OpenIsEarned /\ HolderHasLease /\ LeaseHasHolder /\ SlotsBound
  BY DEF SlotInv, Typed
<1>2. /\ leases' = leases \cup {l} /\ call' = [call EXCEPT ![c] = line]
      /\ breaker' = breaker /\ lost' = lost /\ reply' = NoReply
      /\ Room(Endpoint(c)) /\ call[c].at = "waiting"
  BY Zenon DEF Reserve, Reserved
<1>3. Served(c) /\ call[c].held = 0
  BY <1>1, <1>2 DEF AskedIsServed
<1>4. ttl \in Nat \ {0}
  BY <1>3, EndpointIs
<1>5. Lease(c) \in Tokens /\ Lease(c).call = c /\ Lease(c).nth = lost[c]
  BY <1>1, <1>3, InferenceAssumption DEF Lease, Tokens
<1> HIDE DEF ttl
<1>6. l \in Reservations
  BY <1>4, <1>5 DEF Reservations
<1>7. line \in Lines /\ line.at = "posting" /\ line.held = ttl
  <2>1. Sent(c, 1) \in Lines /\ Sent(c, 1).at = "posting"
    BY <1>1, <1>3, SentIs
  <2> QED BY <1>4, <2>1 DEF Lines
<1> HIDE DEF line
<1>8. call' \in [Calls -> Lines] /\ AskedIsServed' /\ call'[c] = line
        /\ \A d \in Calls \ {c} : call'[d] = call[d]
  BY <1>1, <1>2, <1>3, <1>7, LineStep
<1>9. Typed'
  <2>1. leases' \subseteq Reservations
    BY <1>1, <1>2, <1>6
  <2>2. Breakers' = Breakers /\ Pulses' = Pulses /\ Reservations' = Reservations
    BY DEF Breakers, Used, EndpointFor, Routes, Serving, Served, Pulses, Reservations, Tokens
  <2> QED BY <1>1, <1>2, <1>8, <2>1, <2>2 DEF Typed
<1>10. OpenIsEarned' /\ ReplyOK'
  BY <1>1, <1>2, NoReplyOK DEF OpenIsEarned, IsOpen
<1>11. \A d \in Calls : Lease(d)' = Lease(d)
  BY <1>2 DEF Lease
<1>12. HolderHasLease'
  <2> SUFFICES ASSUME NEW d \in Calls, call'[d].held > 0
               PROVE  [token |-> Lease(d), left |-> call'[d].held] \in leases'
    BY <1>11 DEF HolderHasLease
  <2>1. CASE d = c
    BY <1>2, <1>7, <1>8, <2>1
  <2>2. CASE d # c
    BY <1>1, <1>2, <1>8, <2>2 DEF HolderHasLease
  <2> QED BY <2>1, <2>2
<1>13. LeaseHasHolder'
  <2> SUFFICES ASSUME NEW m \in leases'
               PROVE  \/ m.token.nth < lost[m.token.call]
                      \/ m.token = Lease(m.token.call) /\ m.left = call'[m.token.call].held
    BY <1>2, <1>11, <1>6, <1>1 DEF LeaseHasHolder, Reservations, Tokens
  <2>1. CASE m = l
    BY <1>5, <1>7, <1>8, <2>1
  <2>2. CASE m \in leases
    <3>1. m.token.call \in Calls /\ m.left \in Nat \ {0}
      BY <1>1, <2>2 DEF Reservations, Tokens
    <3>2. CASE m.token.call = c
      BY <1>1, <1>3, <2>2, <3>1, <3>2 DEF LeaseHasHolder
    <3>3. CASE m.token.call # c
      BY <1>1, <1>8, <2>2, <3>1, <3>3 DEF LeaseHasHolder
    <3> QED BY <3>2, <3>3
  <2> QED BY <1>2, <2>1, <2>2
<1>14. SlotsBound'
  <2>1. l.token.call = c
    BY <1>5
  <2> HIDE DEF l
  <2> QED BY <1>1, <1>2, <2>1, SlotTaken
<1> QED BY <1>8, <1>9, <1>10, <1>12, <1>13, <1>14 DEF SlotInv

\* A slot is given back: its own lease, and nobody else's.
LEMMA ReleaseKeeps ==
  ASSUME SlotInv, NEW c \in Calls, Release(c)
  PROVE  SlotInv'
<1>1. /\ call \in [Calls -> Lines] /\ breaker \in [Breakers -> Pulses] /\ lost \in [Calls -> Nat]
      /\ leases \subseteq Reservations
      /\ AskedIsServed /\ OpenIsEarned /\ HolderHasLease /\ LeaseHasHolder /\ SlotsBound
  BY DEF SlotInv, Typed
<1>2. /\ leases' = Released(c) /\ call' = [call EXCEPT ![c] = Idle] /\ lost' = lost
      /\ reply' = Returned(c, call[c].result) /\ call[c].at = "releasing"
  BY Zenon DEF Release, End
<1>3. breaker' \in {breaker, Succeeded(Breaker(c))}
  BY DEF Release
<1>4. Served(c)
  BY <1>1, <1>2 DEF AskedIsServed
<1>5. call' \in [Calls -> Lines] /\ AskedIsServed' /\ call'[c] = Idle
        /\ \A d \in Calls \ {c} : call'[d] = call[d]
  BY <1>1, <1>2, IdleIs, LineStep
<1>6. breaker' \in [Breakers -> Pulses] /\ OpenIsEarned'
  BY <1>1, <1>3, <1>4, EndpointIs, BreakerStep
<1>7. ReplyOK'
  BY <1>2, ReturnedOK
<1>8. leases' \subseteq leases /\ \A l \in leases : l \in leases' <=> l.token # Lease(c)
  BY <1>2 DEF Released
<1>9. Typed'
  <2>1. Breakers' = Breakers /\ Pulses' = Pulses /\ Reservations' = Reservations
    BY DEF Breakers, Used, EndpointFor, Routes, Serving, Served, Pulses, Reservations, Tokens
  <2> QED BY <1>1, <1>2, <1>5, <1>6, <1>8, <2>1 DEF Typed
<1>10. \A d \in Calls : Lease(d)' = Lease(d) /\ Lease(d).call = d
  BY <1>2 DEF Lease
<1>11. HolderHasLease'
  <2> SUFFICES ASSUME NEW d \in Calls, call'[d].held > 0
               PROVE  [token |-> Lease(d), left |-> call'[d].held] \in leases'
    BY <1>10 DEF HolderHasLease
  <2>1. d # c
    BY <1>5, IdleIs
  <2>2. [token |-> Lease(d), left |-> call[d].held] \in leases
    BY <1>1, <1>5, <2>1 DEF HolderHasLease
  <2>3. Lease(d) # Lease(c)
    BY <1>10, <2>1
  <2>4. [token |-> Lease(d), left |-> call[d].held].token = Lease(d)
    OBVIOUS
  <2> QED BY <1>5, <1>8, <2>1, <2>2, <2>3, <2>4
<1>12. LeaseHasHolder'
  <2> SUFFICES ASSUME NEW m \in leases'
               PROVE  \/ m.token.nth < lost[m.token.call]
                      \/ m.token = Lease(m.token.call) /\ m.left = call'[m.token.call].held
    BY <1>1, <1>2, <1>8, <1>10 DEF LeaseHasHolder, Reservations, Tokens
  <2>1. m \in leases /\ m.token # Lease(c) /\ m.token.call \in Calls
    BY <1>1, <1>8 DEF Reservations, Tokens
  <2> QED BY <1>1, <1>5, <2>1 DEF LeaseHasHolder
<1>13. SlotsBound'
  BY <1>1, <1>8, SlotLeft
<1> QED BY <1>5, <1>6, <1>7, <1>9, <1>11, <1>12, <1>13 DEF SlotInv

\* Coroutines end without giving their slots back: what they leave behind is theirs no
\* more, and the others keep what they hold.
LEMMA ForgetKeeps ==
  ASSUME SlotInv, NEW C \in SUBSET Calls, lost' = Forgotten(C),
         \A c \in C : call'[c].held = 0,
         \A c \in Calls \ C : call'[c].held = call[c].held,
         leases' \subseteq Reservations,
         \A l \in leases \cup leases' :
           \/ l \in leases /\ l \in leases'
           \/ \E c \in C : l.token = Lease(c)
  PROVE  lost' \in [Calls -> Nat] /\ HolderHasLease' /\ LeaseHasHolder'
<1>1. /\ call \in [Calls -> Lines] /\ lost \in [Calls -> Nat] /\ leases \subseteq Reservations
      /\ HolderHasLease /\ LeaseHasHolder
  BY DEF SlotInv, Typed
<1>2. \A c \in Calls : Lease(c).call = c /\ Lease(c).nth = lost[c]
  BY DEF Lease
<1>3. ASSUME NEW c \in Calls
      PROVE  /\ lost'[c] \in Nat /\ lost[c] \in Nat
             /\ c \notin C => lost'[c] = lost[c]
             /\ lost[c] <= lost'[c]
             /\ c \in C /\ (\E l \in leases' : l.token = Lease(c)) => lost[c] < lost'[c]
  BY <1>1 DEF Forgotten
<1>4. lost' \in [Calls -> Nat]
  BY <1>3 DEF Forgotten
<1>5. \A c \in Calls \ C : Lease(c)' = Lease(c)
  BY <1>3 DEF Lease
<1>6. HolderHasLease'
  <2> SUFFICES ASSUME NEW c \in Calls, call'[c].held > 0
               PROVE  [token |-> Lease(c)', left |-> call'[c].held] \in leases'
    BY DEF HolderHasLease
  <2> DEFINE l == [token |-> Lease(c), left |-> call[c].held]
  <2>1. c \notin C
    OBVIOUS
  <2>2. l \in leases
    BY <1>1, <2>1 DEF HolderHasLease
  <2>3. \A d \in C : l.token # Lease(d)
    BY <1>2, <2>1
  <2>4. l \in leases'
    BY <2>2, <2>3
  <2> QED BY <1>5, <2>1, <2>4
<1>7. LeaseHasHolder'
  <2> SUFFICES ASSUME NEW l \in leases'
               PROVE  \/ l.token.nth < lost'[l.token.call]
                      \/ /\ l.token = Lease(l.token.call)'
                         /\ l.left = call'[l.token.call].held
    BY DEF LeaseHasHolder
  <2>1. l.token.call \in Calls /\ l.token.nth \in Nat
    BY DEF Reservations, Tokens
  <2>2. CASE \E c \in C : l.token = Lease(c)
    BY <1>2, <1>3, <2>2
  <2>3. CASE l \in leases /\ ~ \E c \in C : l.token = Lease(c)
    <3>1. CASE l.token.nth < lost[l.token.call]
      BY <1>3, <2>1, <3>1
    <3>2. CASE l.token = Lease(l.token.call) /\ l.left = call[l.token.call].held
      BY <1>5, <2>1, <2>3, <3>2
    <3> QED BY <1>1, <2>3, <3>1, <3>2 DEF LeaseHasHolder
  <2> QED BY <2>2, <2>3
<1> QED BY <1>4, <1>6, <1>7

\* An acquire or a release that raises: the lease is as before or as it should be.
LEMMA RaiseKeeps ==
  ASSUME SlotInv, NEW c \in Calls, ReserveRaises(c) \/ ReleaseRaises(c)
  PROVE  SlotInv'
<1> DEFINE l == [token |-> Lease(c), left |-> TTL(Endpoint(c))]
<1>1. /\ call \in [Calls -> Lines] /\ breaker \in [Breakers -> Pulses] /\ lost \in [Calls -> Nat]
      /\ leases \subseteq Reservations
      /\ AskedIsServed /\ OpenIsEarned /\ SlotsBound
  BY DEF SlotInv, Typed
<1>2. /\ lost' = Forgotten({c}) /\ call' = [call EXCEPT ![c] = Idle]
      /\ reply' = Returned(c, "raised") /\ breaker' = breaker /\ call[c].at # "idle"
  BY DEF ReserveRaises, ReleaseRaises, End
<1>3. Served(c)
  BY <1>1, <1>2 DEF AskedIsServed
<1>4. call' \in [Calls -> Lines] /\ AskedIsServed' /\ call'[c] = Idle
        /\ \A d \in Calls \ {c} : call'[d] = call[d]
  BY <1>1, <1>2, IdleIs, LineStep
<1>5. OpenIsEarned' /\ ReplyOK'
  BY <1>1, <1>2, ReturnedOK DEF OpenIsEarned, IsOpen
<1>6. Lease(c) \in Tokens /\ Lease(c).call = c
  BY <1>1, <1>3 DEF Lease, Tokens
<1>7. l \in Reservations /\ l.token = Lease(c)
  BY <1>3, <1>6, EndpointIs DEF Reservations
<1>8. \/ leases' = leases
      \/ leases' = Released(c)
      \/ leases' = leases \cup {l} /\ Room(Endpoint(c))
  BY Zenon DEF ReserveRaises, ReleaseRaises, Reserved
<1>9. leases' \subseteq Reservations
  BY <1>1, <1>7, <1>8 DEF Released
<1>10. \A m \in leases \cup leases' : (m \in leases /\ m \in leases') \/ m.token = Lease(c)
  BY <1>7, <1>8 DEF Released
<1>11. lost' \in [Calls -> Nat] /\ HolderHasLease' /\ LeaseHasHolder'
  <2> DEFINE C == {c}
  <2>1. C \in SUBSET Calls /\ lost' = Forgotten(C)
    BY <1>2
  <2>2. (\A d \in C : call'[d].held = 0) /\ \A d \in Calls \ C : call'[d].held = call[d].held
    BY <1>4, IdleIs
  <2>3. \A m \in leases \cup leases' :
          (m \in leases /\ m \in leases') \/ \E d \in C : m.token = Lease(d)
    BY <1>10
  <2> HIDE DEF C
  <2> QED BY <1>9, <2>1, <2>2, <2>3, ForgetKeeps
<1>12. SlotsBound'
  <2>1. CASE leases' \subseteq leases
    BY <1>1, <2>1, SlotLeft
  <2>2. CASE leases' = leases \cup {l} /\ Room(Endpoint(c))
    <3>1. l.token.call = c
      BY <1>6, <1>7
    <3> HIDE DEF l
    <3> QED BY <1>1, <2>2, <3>1, SlotTaken
  <2> QED BY <1>8, <2>1, <2>2 DEF Released
<1>13. Typed'
  <2>1. Breakers' = Breakers /\ Pulses' = Pulses /\ Reservations' = Reservations
    BY DEF Breakers, Used, EndpointFor, Routes, Serving, Served, Pulses, Reservations, Tokens
  <2> QED BY <1>1, <1>2, <1>4, <1>9, <1>11, <2>1 DEF Typed
<1> QED BY <1>4, <1>5, <1>11, <1>12, <1>13 DEF SlotInv

\* A process dies: its calls are gone, and their leases are left behind.
LEMMA CrashKeeps ==
  ASSUME SlotInv, NEW p \in Processes, Crash(p)
  PROVE  SlotInv'
<1> DEFINE C == { c \in Calls : Process(c) = p }
<1>1. /\ call \in [Calls -> Lines] /\ breaker \in [Breakers -> Pulses]
      /\ leases \subseteq Reservations
      /\ AskedIsServed /\ OpenIsEarned /\ SlotsBound
  BY DEF SlotInv, Typed
<1>2. /\ lost' = Forgotten(C) /\ leases' = leases /\ reply' = NoReply
      /\ call' = [c \in Calls |-> IF Process(c) = p THEN Idle ELSE call[c]]
  BY Zenon DEF Crash
<1>3. breaker' = [b \in Breakers |->
                    IF b[1] = p THEN [failures |-> 0, cooling |-> Closed] ELSE breaker[b]]
  BY <1>1 DEF Crash
<1>4. call' \in [Calls -> Lines] /\ \A c \in Calls : call'[c] = IF Process(c) = p THEN Idle ELSE call[c]
  BY <1>1, <1>2, IdleIs
<1>5. Threshold \in Nat /\ ResetAfter \in Nat
  BY InferenceAssumption
<1>6. [failures |-> 0, cooling |-> Closed] \in Pulses
  BY <1>5 DEF Pulses, Closed
<1>7. breaker' \in [Breakers -> Pulses] /\ OpenIsEarned'
  <2>1. breaker' \in [Breakers -> Pulses]
    BY <1>1, <1>3, <1>6
  <2>2. \A b \in Breakers : breaker'[b].cooling # Closed => breaker'[b].failures = Threshold
    BY <1>1, <1>3 DEF OpenIsEarned, IsOpen
  <2> QED BY <2>1, <2>2 DEF OpenIsEarned, IsOpen, Breakers, Used, EndpointFor, Routes, Serving, Served
<1>8. AskedIsServed' /\ ReplyOK'
  BY <1>1, <1>2, <1>4, IdleIs, NoReplyOK DEF AskedIsServed, Served, Routes, Serving
<1>9. lost' \in [Calls -> Nat] /\ HolderHasLease' /\ LeaseHasHolder'
  <2>1. (\A c \in C : call'[c].held = 0) /\ \A c \in Calls \ C : call'[c].held = call[c].held
    BY <1>4, IdleIs
  <2> HIDE DEF C
  <2>2. C \in SUBSET Calls
    BY DEF C
  <2> QED BY <1>1, <1>2, <2>1, <2>2, ForgetKeeps
<1>10. Typed'
  <2>1. Breakers' = Breakers /\ Pulses' = Pulses /\ Reservations' = Reservations
    BY DEF Breakers, Used, EndpointFor, Routes, Serving, Served, Pulses, Reservations, Tokens
  <2> QED BY <1>1, <1>2, <1>4, <1>7, <1>9, <2>1 DEF Typed
<1>11. SlotsBound'
  BY <1>1, <1>2, SlotLeft
<1> QED BY <1>7, <1>8, <1>9, <1>10, <1>11 DEF SlotInv

\* Redis loses every lease: nobody holds one, and there are none.
LEMMA FlushKeeps ==
  ASSUME SlotInv, RedisForgets
  PROVE  SlotInv'
<1>1. /\ call \in [Calls -> Lines] /\ breaker \in [Breakers -> Pulses] /\ lost \in [Calls -> Nat]
      /\ AskedIsServed /\ OpenIsEarned /\ SlotsBound
  BY DEF SlotInv, Typed
<1>2. /\ leases' = {} /\ call' = [c \in Calls |-> [call[c] EXCEPT !.held = 0]]
      /\ reply' = NoReply /\ breaker' = breaker /\ lost' = lost
  BY Zenon DEF RedisForgets
<1>3. ASSUME NEW c \in Calls
      PROVE  call'[c] \in Lines /\ call'[c].at = call[c].at /\ call'[c].held = 0
  BY <1>1, <1>2 DEF Lines
<1>4. call' \in [Calls -> Lines]
  BY <1>2, <1>3
<1>5. AskedIsServed' /\ HolderHasLease' /\ LeaseHasHolder'
  BY <1>1, <1>2, <1>3 DEF AskedIsServed, HolderHasLease, LeaseHasHolder, Served, Routes, Serving
<1>6. SlotsBound'
  BY <1>1, <1>2, SlotLeft
<1>7. OpenIsEarned' /\ ReplyOK'
  BY <1>1, <1>2, NoReplyOK DEF OpenIsEarned, IsOpen
<1>8. Typed'
  <2>1. Breakers' = Breakers /\ Pulses' = Pulses /\ Reservations' = Reservations
    BY DEF Breakers, Used, EndpointFor, Routes, Serving, Served, Pulses, Reservations, Tokens
  <2> QED BY <1>1, <1>2, <1>4, <2>1 DEF Typed
<1> QED BY <1>5, <1>6, <1>7, <1>8 DEF SlotInv

\* What one unit of time makes of a lease.
Aged(l) == [l EXCEPT !.left = @ - 1]

\* A lease that ages stays one, until it runs out.
LEMMA AgedIs ==
  ASSUME leases \subseteq Reservations, NEW l \in leases, l.left > 1
  PROVE  Aged(l) \in Reservations /\ Aged(l).token = l.token /\ Aged(l).left = l.left - 1
<1>1. l \in Reservations /\ l.left \in Nat \ {0}
  BY DEF Reservations
<1>2. l.left - 1 \in Nat \ {0}
  BY <1>1
<1> QED BY <1>1, <1>2 DEF Aged, Reservations

\* The leases that have aged are no more than there were.
LEMMA SlotsAge ==
  ASSUME SlotsBound, leases \subseteq Reservations, Tick
  PROVE  SlotsBound'
<1> DEFINE Old(S) == { m \in S : m.left > 1 }
           age == [l \in Old(leases) |-> Aged(l)]
<1>1. leases' = { Aged(l) : l \in Old(leases) }
  BY DEF Tick, Aged
<1>2. ASSUME NEW S \in SUBSET leases, NEW T, T = { Aged(l) : l \in Old(S) }
      PROVE  IsFiniteSet(T) /\ Cardinality(T) <= Cardinality(S)
               /\ Cardinality(T) \in Nat /\ Cardinality(S) \in Nat
  <2> DEFINE f == [l \in Old(S) |-> Aged(l)]
  <2>1. IsFiniteSet(S) /\ IsFiniteSet(Old(S)) /\ Cardinality(Old(S)) <= Cardinality(S)
    <3>1. IsFiniteSet(S)
      BY FS_Subset DEF SlotsBound
    <3> QED BY <3>1, FS_Subset
  <2>2. f \in Surjection(Old(S), T)
    BY <1>2 DEF Surjection
  <2> HIDE DEF f, Old
  <2>3. IsFiniteSet(T) /\ Cardinality(T) <= Cardinality(Old(S))
    BY <2>1, <2>2, FS_Surjection
  <2>4. Cardinality(T) \in Nat /\ Cardinality(S) \in Nat /\ Cardinality(Old(S)) \in Nat
    BY <2>1, <2>3, FS_CardinalityType
  <2> QED BY <2>1, <2>3, <2>4
<1>3. IsFiniteSet(leases')
  BY <1>1, <1>2
<1>4. ASSUME NEW e \in Range(Endpoints)
      PROVE  Cardinality(HeldOf(e)') <= e.slots
  <2>1. HeldOf(e)' = { Aged(l) : l \in Old(HeldOf(e)) }
    <3>1. HeldOf(e)' = { m \in leases' : Endpoint(m.token.call) = e }
      BY DEF HeldOf, Endpoint, EndpointFor, Routes, Serving
    <3>2. \A l \in Old(leases) : Aged(l).token = l.token
      BY AgedIs
    <3> QED BY <1>1, <3>1, <3>2 DEF HeldOf
  <2>2. HeldOf(e) \subseteq leases
    BY DEF HeldOf
  <2> HIDE DEF Old
  <2>3. Cardinality(HeldOf(e)') <= Cardinality(HeldOf(e))
          /\ Cardinality(HeldOf(e)') \in Nat /\ Cardinality(HeldOf(e)) \in Nat
    BY <1>2, <2>1, <2>2
  <2>4. Cardinality(HeldOf(e)) <= e.slots /\ e.slots \in Nat
    BY InferenceAssumption DEF SlotsBound
  <2> QED BY <2>3, <2>4
<1> QED BY <1>3, <1>4 DEF SlotsBound

\* Time passes for a call and for its lease alike.
LEMMA TickKeeps ==
  ASSUME SlotInv, Tick
  PROVE  SlotInv'
<1>1. /\ call \in [Calls -> Lines] /\ breaker \in [Breakers -> Pulses] /\ lost \in [Calls -> Nat]
      /\ leases \subseteq Reservations
      /\ AskedIsServed /\ OpenIsEarned /\ HolderHasLease /\ LeaseHasHolder /\ SlotsBound
  BY DEF SlotInv, Typed
<1>2. /\ call' = [c \in Calls |-> [call[c] EXCEPT !.timer = Down(@), !.held = Down(@)]]
      /\ breaker' = [b \in DOMAIN breaker |-> [breaker[b] EXCEPT !.cooling = Down(@)]]
      /\ leases' = { Aged(l) : l \in { m \in leases : m.left > 1 } }
      /\ reply' = NoReply /\ lost' = lost
  BY DEF Tick, Aged
<1>3. \A n \in Nat : Down(n) \in Nat /\ (Down(n) > 0 => n > 1 /\ Down(n) = n - 1) /\ Down(0) = 0
  BY DEF Down
<1>4. ASSUME NEW c \in Calls
      PROVE  call'[c] \in Lines /\ call'[c].at = call[c].at /\ call'[c].held = Down(call[c].held)
  <2>1. call[c] \in Lines /\ call[c].timer \in Nat /\ call[c].held \in Nat
    BY <1>1 DEF Lines
  <2>2. call'[c] = [call[c] EXCEPT !.timer = Down(call[c].timer), !.held = Down(call[c].held)]
    BY <1>2
  <2>3. Down(call[c].timer) \in Nat /\ Down(call[c].held) \in Nat
    BY <1>3, <2>1
  <2> QED BY <2>1, <2>2, <2>3 DEF Lines
<1>5. call' \in [Calls -> Lines]
  BY <1>2, <1>4
<1>6. AskedIsServed'
  BY <1>1, <1>3, <1>4 DEF AskedIsServed, Served, Routes, Serving
<1>7. ASSUME NEW b \in Breakers
      PROVE  /\ breaker'[b] \in Pulses
             /\ breaker'[b].cooling # Closed => breaker'[b].failures = Threshold
  <2>1. ResetAfter \in Nat /\ Threshold \in Nat
    BY InferenceAssumption
  <2>2. breaker[b] \in Pulses /\ breaker[b].cooling \in Closed .. ResetAfter
    BY <1>1 DEF Pulses
  <2>3. Down(breaker[b].cooling) \in Closed .. ResetAfter
    BY <2>1, <2>2 DEF Down, Closed
  <2>4. breaker'[b] = [breaker[b] EXCEPT !.cooling = Down(breaker[b].cooling)]
    BY <1>1, <1>2
  <2>5. breaker[b].cooling = Closed => Down(breaker[b].cooling) = Closed
    BY DEF Down, Closed
  <2>6. breaker'[b] \in Pulses /\ breaker'[b].failures = breaker[b].failures
          /\ breaker'[b].cooling = Down(breaker[b].cooling)
    BY <2>2, <2>3, <2>4 DEF Pulses
  <2> QED BY <1>1, <2>5, <2>6 DEF OpenIsEarned, IsOpen
<1>8. breaker' \in [Breakers -> Pulses]
  BY <1>1, <1>2, <1>7
<1>9. OpenIsEarned' /\ ReplyOK'
  BY <1>2, <1>7, NoReplyOK DEF OpenIsEarned, IsOpen, Breakers, Used, EndpointFor, Routes, Serving, Served
<1>10. Typed'
  <2>1. leases' \subseteq Reservations
    BY <1>1, <1>2, AgedIs
  <2>2. Breakers' = Breakers /\ Pulses' = Pulses /\ Reservations' = Reservations
    BY DEF Breakers, Used, EndpointFor, Routes, Serving, Served, Pulses, Reservations, Tokens
  <2> QED BY <1>1, <1>2, <1>5, <1>8, <2>1, <2>2 DEF Typed
<1>11. \A c \in Calls : Lease(c)' = Lease(c)
  BY <1>2 DEF Lease
<1>12. HolderHasLease'
  <2> SUFFICES ASSUME NEW c \in Calls, call'[c].held > 0
               PROVE  [token |-> Lease(c), left |-> call'[c].held] \in leases'
    BY <1>11 DEF HolderHasLease
  <2> DEFINE l == [token |-> Lease(c), left |-> call[c].held]
  <2>1. call[c].held \in Nat
    BY <1>1 DEF Lines
  <2>2. call[c].held > 1 /\ call'[c].held = call[c].held - 1
    BY <1>3, <1>4, <2>1
  <2>3. l \in leases /\ l.left > 1
    BY <1>1, <2>1, <2>2 DEF HolderHasLease
  <2>4. Aged(l) \in leases'
    BY <1>2, <2>3
  <2>5. Aged(l) = [token |-> Lease(c), left |-> call'[c].held]
    BY <2>2 DEF Aged
  <2> QED BY <2>4, <2>5
<1>13. LeaseHasHolder'
  <2> SUFFICES ASSUME NEW m \in leases'
               PROVE  \/ m.token.nth < lost[m.token.call]
                      \/ m.token = Lease(m.token.call) /\ m.left = call'[m.token.call].held
    <3>1. \A m \in leases' : m.token.call \in Calls
      BY <1>10 DEF Typed, Reservations, Tokens
    <3> QED BY <1>2, <1>11, <3>1 DEF LeaseHasHolder
  <2>1. PICK l \in leases : l.left > 1 /\ m = Aged(l)
    BY <1>2
  <2>2. m.token = l.token /\ m.left = l.left - 1 /\ l.token.call \in Calls
    BY <1>1, <2>1, AgedIs DEF Reservations, Tokens
  <2>3. CASE l.token.nth < lost[l.token.call]
    BY <2>2, <2>3
  <2>4. CASE l.token = Lease(l.token.call) /\ l.left = call[l.token.call].held
    <3>1. call[l.token.call].held \in Nat
      BY <1>1, <2>2 DEF Lines
    <3>2. Down(l.left) = l.left - 1
      BY <2>1, <2>4, <3>1 DEF Down
    <3> QED BY <1>4, <2>2, <2>4, <3>2
  <2> QED BY <1>1, <2>3, <2>4 DEF LeaseHasHolder
<1>14. SlotsBound'
  BY <1>1, SlotsAge
<1> QED BY <1>6, <1>9, <1>10, <1>12, <1>13, <1>14 DEF SlotInv

\* A step of a call that touches no lease.
LEMMA GoesKeeps ==
  ASSUME SlotInv, NEW c \in Calls, Goes(c), call'[c].held = call[c].held, leases' = leases
  PROVE  SlotInv'
<1>1. HolderHasLease' /\ LeaseHasHolder' /\ SlotsBound'
  <2>1. \A d \in Calls : call'[d].held = call[d].held
    BY DEF Goes
  <2> QED BY <2>1, HeldKept DEF SlotInv, Typed, Goes
<1>2. Typed'
  <2>1. Breakers' = Breakers /\ Pulses' = Pulses /\ Reservations' = Reservations
    BY DEF Breakers, Used, EndpointFor, Routes, Serving, Served, Pulses, Reservations, Tokens
  <2> QED BY <2>1 DEF SlotInv, Typed, Goes
<1> QED BY <1>1, <1>2 DEF SlotInv, Goes

\* Every step keeps the invariant.
LEMMA SlotNext == SlotInv /\ [Next]_vars => SlotInv'
<1> SUFFICES ASSUME SlotInv, [Next]_vars PROVE SlotInv'
  OBVIOUS
<1>1. CASE UNCHANGED vars
  <2>1. UNCHANGED <<call, breaker, leases, reply, lost>>
    BY <1>1 DEF vars
  <2>2. HolderHasLease' /\ LeaseHasHolder' /\ SlotsBound'
    BY <2>1, HeldKept DEF SlotInv, Typed
  <2>3. Breakers' = Breakers /\ Pulses' = Pulses /\ Reservations' = Reservations
    BY DEF Breakers, Used, EndpointFor, Routes, Serving, Served, Pulses, Reservations, Tokens
  <2>4. Typed' /\ AskedIsServed' /\ OpenIsEarned' /\ ReplyOK'
    BY <2>1, <2>3 DEF SlotInv, Typed, AskedIsServed, Served, Routes, Serving, OpenIsEarned, IsOpen, ReplyOK
  <2> QED BY <2>2, <2>4 DEF SlotInv
<1>2. ASSUME NEW c \in Calls, Asking(c)
      PROVE  SlotInv'
  BY <1>2, AskingGoes, GoesKeeps
<1>3. ASSUME NEW c \in Calls, Progress(c)
      PROVE  SlotInv'
  <2>1. CASE Reserve(c)
    BY <2>1, ReserveKeeps
  <2>2. CASE Saturated(c) \/ Answered(c) \/ Unanswered(c) \/ Resend(c)
    BY <2>2, ServedGoes, GoesKeeps
  <2>3. CASE Release(c)
    BY <2>3, ReleaseKeeps
  <2> QED BY <1>3, <2>1, <2>2, <2>3, Zenon DEF Progress
<1>4. ASSUME NEW p \in Processes, Crash(p)
      PROVE  SlotInv'
  BY <1>4, CrashKeeps
<1>7. ASSUME NEW c \in Calls, Raises(c)
      PROVE  SlotInv'
  <2>1. CASE PostRaises(c)
    BY <2>1, ServedGoes, GoesKeeps
  <2> QED BY <1>7, <2>1, RaiseKeeps DEF Raises
<1>8. CASE RedisForgets
  BY <1>8, FlushKeeps
<1>5. ASSUME NEW e \in Used, ServerChanges(e)
      PROVE  SlotInv'
  <2>1. UNCHANGED <<call, breaker, leases, lost>> /\ reply' = NoReply
    BY <1>5, Zenon DEF ServerChanges
  <2>2. HolderHasLease' /\ LeaseHasHolder' /\ SlotsBound'
    BY <2>1, HeldKept DEF SlotInv, Typed
  <2>3. Breakers' = Breakers /\ Pulses' = Pulses /\ Reservations' = Reservations
    BY DEF Breakers, Used, EndpointFor, Routes, Serving, Served, Pulses, Reservations, Tokens
  <2>4. Typed' /\ AskedIsServed' /\ OpenIsEarned'
    BY <2>1, <2>3 DEF SlotInv, Typed, AskedIsServed, Served, Routes, Serving, OpenIsEarned, IsOpen
  <2>5. ReplyOK'
    BY <2>1, NoReplyOK
  <2> QED BY <2>2, <2>4, <2>5 DEF SlotInv
<1>6. CASE Tick
  BY <1>6, TickKeeps
<1> QED BY <1>1, <1>2, <1>3, <1>4, <1>5, <1>6, <1>7, <1>8, Zenon DEF Next

\* The invariant says what the property says: those on a server whose lease is good
\* are no more than the leases of it.
LEMMA SlotInvSays == SlotInv => LeasesMatchCalls
<1> SUFFICES ASSUME SlotInv PROVE LeasesMatchCalls
  OBVIOUS
<1>1. /\ call \in [Calls -> Lines] /\ breaker \in [Breakers -> Pulses] /\ leases \subseteq Reservations
      /\ OpenIsEarned /\ HolderHasLease /\ LeaseHasHolder /\ SlotsBound
  BY DEF SlotInv, Typed
<1>2. BreakersOK /\ ReplyOK
  BY <1>1 DEF SlotInv, BreakersOK, OpenIsEarned, Pulses
<1>3. \A c \in Calls : Served(c) /\ call[c].held > 0
        => [token |-> Lease(c), left |-> call[c].held] \in leases
  BY <1>1 DEF HolderHasLease
<1>4. \A l \in leases :
        \/ l.token.nth < lost[l.token.call]
        \/ l.left = call[l.token.call].held
  BY <1>1 DEF LeaseHasHolder
<1>5. ASSUME NEW e \in Range(Endpoints)
      PROVE  Cardinality({ c \in OnServer(e) : call[c].held > 0 }) <= e.slots
  <2> DEFINE S == { c \in OnServer(e) : call[c].held > 0 }
             f == [c \in S |-> [token |-> Lease(c), left |-> call[c].held]]
  <2>1. \A c \in S : /\ c \in Calls
                     /\ [token |-> Lease(c), left |-> call[c].held] \in leases
                     /\ Endpoint(c) = e
    BY <1>3 DEF OnServer
  <2>2. \A c \in S : f[c] \in HeldOf(e) /\ f[c].token.call = c
    BY <2>1 DEF HeldOf, Lease
  <2>3. f \in [S -> HeldOf(e)]
    BY <2>2
  <2> HIDE DEF S, f
  <2>4. f \in Injection(S, HeldOf(e))
    BY <2>2, <2>3 DEF Injection, IsInjective
  <2>5. IsFiniteSet(HeldOf(e))
    <3>1. HeldOf(e) \subseteq leases
      BY DEF HeldOf
    <3> QED BY <1>1, <3>1, FS_Subset DEF SlotsBound
  <2>6. IsFiniteSet(S) /\ Cardinality(S) <= Cardinality(HeldOf(e))
    BY <2>4, <2>5, FS_Injection
  <2>7. Cardinality(S) \in Nat /\ Cardinality(HeldOf(e)) \in Nat /\ e.slots \in Nat
    BY <2>5, <2>6, FS_CardinalityType, InferenceAssumption
  <2>8. Cardinality(HeldOf(e)) <= e.slots
    BY <1>1 DEF SlotsBound
  <2>9. Cardinality(S) <= e.slots
    BY <2>6, <2>7, <2>8
  <2> QED BY <2>9 DEF S
<1> QED BY <1>2, <1>3, <1>4, <1>5 DEF LeasesMatchCalls

-----------------------------------------------------------------------------
\* Leases and calls agree, for any number of coroutines and processes, endpoints of
\* any number of slots, timeouts of any length, processes that die at any moment, and
\* however often Redis fails an acquire or a release or loses what it knows
\* (semaphores.py, client.py, test_redis_loss.py).
THEOREM LeasesAreCalls == Spec => []LeasesMatchCalls
<1>1. Init => SlotInv
  BY SlotInit
<1>2. SlotInv /\ [Next]_vars => SlotInv'
  BY SlotNext
<1>3. SlotInv => LeasesMatchCalls
  BY SlotInvSays
<1> QED BY <1>1, <1>2, <1>3, PTL DEF Spec
=============================================================================
