----------------------- MODULE RealtimeEventsProofs ------------------------
(***************************************************************************)
(* What someone who watches a run sees, for a run of any length, and any    *)
(* number of lost publishes, broken sockets and late answers.               *)
(***************************************************************************)
EXTENDS RealtimeEvents, FiniteSetTheorems, SequenceTheorems, TLAPS

Ats == {"none", "retrying", "accepted", "subscribed", "unsubscribed", "relaying", "unavailable"}

Screens ==
  [at : {"opening", "opened", "watching", "over", "failed"}, run : 0 .. Total,
   timeline : Seq(1 .. durable), last : 0 .. durable, stopped : BOOLEAN]

Sockets ==
  [at : Ats, anchor : 0 .. Len(stream), last : 0 .. durable, wire : Seq(1 .. durable)]

Typed ==
  /\ durable \in 1 .. Total
  /\ unsent \subseteq 1 .. durable
  /\ stream \in Seq(1 .. durable)
  /\ missed \subseteq 1 .. durable
  /\ tab \in Screens
  /\ socket \in Sockets
  /\ refreshes \in [asked : Nat, answers : SUBSET (1 .. durable)]
  /\ faults \in Nat

\* The screen is in the order of the log.
StoryInOrder == tab.timeline = Ordered(Range(tab.timeline))

\* A socket belongs to a screen that watches.
SocketHasReason ==
  tab.stopped \/ tab.at # "watching" \/ Terminal(tab.run) => socket = NoSocket

\* Not relayed to anybody, now or later.
Gone(e) == e \in missed \/ (e \in unsent /\ \E later \in Range(stream) : later > e)

\* Every event was published, or has yet to be, or was not; and one that was
\* overtaken is counted with those that were not.
PublishedOrMissed ==
  /\ 1 .. durable \subseteq unsent \cup missed \cup Range(stream)
  /\ \A i, j \in DOMAIN stream : i < j /\ stream[j] < stream[i] => stream[j] \in missed

\* The wire is in the order of the log, and nothing on it is beyond the handler's place.
WireInOrder ==
  /\ \A i, j \in DOMAIN socket.wire : i < j => socket.wire[i] < socket.wire[j]
  /\ \A i \in DOMAIN socket.wire : socket.wire[i] <= socket.last
  /\ socket.at \in {"none", "retrying", "accepted", "subscribed", "unsubscribed"} =>
       socket.wire = << >>

\* What the screen and the handler have passed was shown, is on its way, or is gone.
PassedIsKnown ==
  /\ \A e \in 1 .. tab.last : e \in Range(tab.timeline) \/ Gone(e)
  /\ \A e \in 1 .. socket.last :
       e \in Range(tab.timeline) \/ e \in Range(socket.wire) \/ Gone(e)

\* The handler's place is beyond all that it has taken from the stream.
AnchorIsPassed ==
  socket.at = "relaying" => \A i \in 1 .. socket.anchor : stream[i] <= socket.last

RelayInv == Typed /\ PublishedOrMissed /\ WireInOrder /\ PassedIsKnown /\ AnchorIsPassed

-----------------------------------------------------------------------------
\* A finite set of numbers in its order is a sequence of its members, of every one
\* of them: there are as many below each as come before it.
LEMMA OrderedIs ==
  ASSUME NEW S \in SUBSET Int, IsFiniteSet(S)
  PROVE  /\ Ordered(S) \in Seq(S)
         /\ Range(Ordered(S)) = S
         /\ \A i, j \in DOMAIN Ordered(S) : i < j => Ordered(S)[i] < Ordered(S)[j]
<1> DEFINE n == Cardinality(S)
           Below(e) == { f \in S : f < e }
           rank == [e \in S |-> Cardinality(Below(e)) + 1]
<1>1. n \in Nat
  BY FS_CardinalityType
<1>2. ASSUME NEW e \in S
      PROVE  /\ IsFiniteSet(Below(e)) /\ Cardinality(Below(e)) \in Nat
             /\ Cardinality(Below(e)) < n
  <2>1. Below(e) \subseteq S /\ Below(e) # S
    OBVIOUS
  <2>2. IsFiniteSet(Below(e)) /\ Cardinality(Below(e)) \in Nat
    BY <2>1, FS_Subset, FS_CardinalityType
  <2>3. Cardinality(Below(e)) <= n /\ Cardinality(Below(e)) # n
    BY <2>1, FS_Subset
  <2> QED BY <1>1, <2>2, <2>3
<1>3. ASSUME NEW e \in S, NEW g \in S, e < g
      PROVE  rank[e] < rank[g]
  <2>1. \A f \in S : f < e => f < g
    BY <1>3
  <2>2. e \in Below(g) /\ e \notin Below(e)
    BY <1>3
  <2>3. Below(e) \subseteq Below(g) /\ Below(e) # Below(g)
    BY <2>1, <2>2
  <2>4. Cardinality(Below(e)) <= Cardinality(Below(g))
          /\ Cardinality(Below(e)) # Cardinality(Below(g))
    BY <1>2, <2>3, FS_Subset
  <2> QED BY <1>2, <2>4
<1>4. \A e \in S : rank[e] \in 1 .. n /\ Cardinality(Below(e)) = rank[e] - 1
  BY <1>1, <1>2
<1>5. Ordered(S) = [i \in 1 .. n |-> CHOOSE e \in S : Cardinality(Below(e)) = i - 1]
  BY Zenon DEF Ordered
<1>6. rank \in [S -> 1 .. n]
  BY <1>4
<1> HIDE DEF n, rank, Below
<1>7. \A e, g \in S : rank[e] = rank[g] => e = g
  <2> TAKE e \in S, g \in S
  <2>1. rank[e] \in Int /\ rank[g] \in Int
    BY <1>4
  <2>2. e < g \/ g < e \/ e = g
    OBVIOUS
  <2> QED BY <1>3, <2>1, <2>2
<1>8. \A i \in 1 .. n : \E e \in S : rank[e] = i
  <2>1. rank \in Injection(S, 1 .. n)
    BY <1>6, <1>7 DEF Injection, IsInjective
  <2>2. IsFiniteSet(1 .. n) /\ Cardinality(1 .. n) = n
    BY <1>1, FS_Interval
  <2>3. rank \in Surjection(S, 1 .. n)
    BY <2>1, <2>2, FS_Injection DEF n
  <2> QED BY <2>3 DEF Surjection
<1>9. ASSUME NEW i \in 1 .. n
      PROVE  Ordered(S)[i] \in S /\ rank[Ordered(S)[i]] = i
  <2> DEFINE Ranked(g) == Cardinality(Below(g)) = i - 1
  <2>1. PICK e \in S : rank[e] = i
    BY <1>8
  <2>2. Ranked(e)
    BY <1>4, <2>1
  <2>3. Ordered(S)[i] = CHOOSE g \in S : Ranked(g)
    BY <1>5
  <2> HIDE DEF Ranked
  <2>4. Ordered(S)[i] \in S /\ Ranked(Ordered(S)[i])
    BY <2>2, <2>3
  <2>5. Ordered(S)[i] \in S /\ Cardinality(Below(Ordered(S)[i])) = i - 1
    BY <2>4 DEF Ranked
  <2>6. \A g \in S : Cardinality(Below(g)) = i - 1 => rank[g] = i
    BY <1>1, <1>4
  <2> QED BY <2>5, <2>6
<1>10. Ordered(S) \in [1 .. n -> S]
  <2>1. Ordered(S) = [i \in 1 .. n |-> Ordered(S)[i]]
    BY <1>5
  <2> QED BY <1>9, <2>1, Zenon
<1>11. Ordered(S) \in Seq(S) /\ DOMAIN Ordered(S) = 1 .. n
  BY <1>1, <1>10
<1>12. \A e \in S : \E i \in 1 .. n : Ordered(S)[i] = e
  <2> TAKE e \in S
  <2>1. rank[e] \in 1 .. n
    BY <1>4
  <2>2. Ordered(S)[rank[e]] \in S /\ rank[Ordered(S)[rank[e]]] = rank[e]
    BY <1>9, <2>1
  <2>3. Ordered(S)[rank[e]] = e
    BY <1>7, <2>2
  <2> QED BY <2>1, <2>3
<1>13. Range(Ordered(S)) = S
  BY <1>9, <1>11, <1>12 DEF Range
<1>14. ASSUME NEW i \in 1 .. n, NEW j \in 1 .. n, i < j
       PROVE  Ordered(S)[i] < Ordered(S)[j]
  <2>1. /\ Ordered(S)[i] \in S /\ rank[Ordered(S)[i]] = i
        /\ Ordered(S)[j] \in S /\ rank[Ordered(S)[j]] = j
    BY <1>9
  <2>2. i \in Int /\ j \in Int
    BY <1>1
  <2>3. ASSUME NEW x \in S, NEW y \in S, rank[x] = i, rank[y] = j
        PROVE  x < y
    <3>1. x < y \/ y < x \/ x = y
      OBVIOUS
    <3> QED BY <1>3, <1>14, <2>2, <2>3, <3>1
  <2> QED BY <2>1, <2>3
<1> QED BY <1>11, <1>13, <1>14

\* A sequence over a set is one over a larger set.
LEMMA SeqOverLarger ==
  ASSUME NEW S, NEW T, S \subseteq T, NEW s \in Seq(S)
  PROVE  s \in Seq(T)
OBVIOUS

\* A set of events of a run is finite.
LEMMA UpToFinite ==
  ASSUME NEW n \in Nat, NEW S \in SUBSET (1 .. n)
  PROVE  IsFiniteSet(S)
<1>1. IsFiniteSet(1 .. n)
  BY FS_Interval
<1> QED BY <1>1, FS_Subset

\* Applying events to the screen adds them to it, and keeps the order of the log.
LEMMA ApplyIs ==
  ASSUME durable \in Nat, NEW timeline \in Seq(1 .. durable), NEW events \in SUBSET (1 .. durable)
  PROVE  /\ Apply(timeline, events) \in Seq(1 .. durable)
         /\ Range(Apply(timeline, events)) = Range(timeline) \cup events
         /\ View!InOrder(Apply(timeline, events))
         /\ Apply(timeline, events) = Ordered(Range(Apply(timeline, events)))
<1> DEFINE S == Range(timeline) \cup events
<1>0. \A i \in DOMAIN timeline : timeline[i] \in 1 .. durable
  OBVIOUS
<1>1. S \subseteq 1 .. durable
  BY <1>0, Zenon DEF Range
<1> HIDE DEF S
<1>2. IsFiniteSet(S)
  BY <1>1, UpToFinite
<1>3. S \subseteq Int
  BY <1>1
<1>4. /\ Ordered(S) \in Seq(S)
      /\ Range(Ordered(S)) = S
      /\ \A i, j \in DOMAIN Ordered(S) : i < j => Ordered(S)[i] < Ordered(S)[j]
  BY <1>2, <1>3, OrderedIs
<1>5. Ordered(S) \in Seq(1 .. durable)
  BY <1>1, <1>4, SeqOverLarger
<1>6. Apply(timeline, events) = Ordered(S)
  BY DEF Apply, S
<1> QED BY <1>4, <1>5, <1>6, Zenon DEF View!InOrder, S

\* The last event of a page that is not empty.
LEMMA PageMax ==
  ASSUME durable \in Nat, NEW after \in Nat, NEW limit \in Nat, Page(after, limit) # {}
  PROVE  /\ Max(Page(after, limit)) \in Page(after, limit)
         /\ \A e \in Page(after, limit) : e <= Max(Page(after, limit))
<1> DEFINE m == IF durable <= after + limit THEN durable ELSE after + limit
           Newest(e) == \A f \in Page(after, limit) : e >= f
<1>1. m \in Page(after, limit) /\ Newest(m)
  BY DEF Page
<1>2. Max(Page(after, limit)) = CHOOSE e \in Page(after, limit) : Newest(e)
  BY DEF Max
<1> HIDE DEF m, Newest
<1>3. Max(Page(after, limit)) \in Page(after, limit) /\ Newest(Max(Page(after, limit)))
  BY <1>1, <1>2
<1>4. \A e \in Page(after, limit) : e \in Int
  BY DEF Page
<1> QED BY <1>3, <1>4 DEF Newest

\* A page in the order of the log.
LEMMA PageOrdered ==
  ASSUME durable \in Nat, NEW events \in SUBSET (1 .. durable)
  PROVE  /\ Ordered(events) \in Seq(1 .. durable)
         /\ Range(Ordered(events)) = events
         /\ View!InOrder(Ordered(events))
<1>1. IsFiniteSet(events) /\ events \in SUBSET Int
  BY UpToFinite
<1> QED BY <1>1, OrderedIs, SeqOverLarger, Zenon DEF View!InOrder

-----------------------------------------------------------------------------
\* The types hold at first.
LEMMA TypedInit == Init => Typed
<1> SUFFICES ASSUME Init PROVE Typed
  OBVIOUS
<1>1. durable \in 1 .. Total /\ Total \in Nat
  BY RealtimeAssumption DEF Init
<1>2. tab \in Screens
  BY <1>1 DEF Init, Screens
<1>3. socket \in Sockets
  BY <1>1 DEF Init, NoSocket, Ats, Sockets
<1>4. /\ unsent \subseteq 1 .. durable /\ stream \in Seq(1 .. durable)
      /\ missed \subseteq 1 .. durable /\ faults \in Nat
      /\ refreshes \in [asked : Nat, answers : SUBSET (1 .. durable)]
  BY <1>1 DEF Init
<1> QED BY <1>1, <1>2, <1>3, <1>4 DEF Typed

\* What the types say, for the prover.
LEMMA Types ==
  ASSUME Typed
  PROVE  /\ durable \in Nat /\ durable <= Total /\ Total \in Nat
         /\ stream \in Seq(Nat) /\ Len(stream) \in Nat
         /\ socket.at \in Ats /\ socket.anchor \in Nat /\ socket.anchor <= Len(stream)
         /\ socket.last \in Nat /\ socket.last <= durable
         /\ socket.wire \in Seq(1 .. durable)
         /\ tab.last \in Nat /\ tab.last <= durable /\ tab.timeline \in Seq(1 .. durable)
<1>1. durable \in Nat /\ durable <= Total /\ Total \in Nat /\ stream \in Seq(1 .. durable)
  BY RealtimeAssumption DEF Typed
<1>2. stream \in Seq(Nat) /\ Len(stream) \in Nat
  BY <1>1, SeqOverLarger
<1>3. socket.at \in Ats /\ socket.anchor \in 0 .. Len(stream) /\ socket.last \in 0 .. durable
        /\ socket.wire \in Seq(1 .. durable)
  BY DEF Typed, Sockets
<1>4. tab.last \in 0 .. durable /\ tab.timeline \in Seq(1 .. durable)
  BY DEF Typed, Screens
<1> QED BY <1>1, <1>2, <1>3, <1>4

\* What the handler does of itself keeps the types.
LEMMA HandlerTyped ==
  ASSUME Typed, Connect \/ Subscribe \/ SubscribeFails \/ CatchUp \/ Relay \/ Refused \/ Break
  PROVE  Typed'
<1>1. UNCHANGED <<durable, unsent, stream, missed, tab, refreshes>> /\ faults' \in Nat
  BY DEF Connect, Subscribe, SubscribeFails, CatchUp, Relay, Refused, Break, Typed
<1>2. socket \in Sockets
  BY DEF Typed
<1>3. socket' \in Sockets
  <2>1. /\ Ats = Ats \cup {"accepted", "subscribed", "unsubscribed", "relaying",
                           "unavailable", "retrying"}
        /\ 0 \in 0 .. durable /\ 0 \in 0 .. Len(stream) /\ Len(stream) \in 0 .. Len(stream)
        /\ tab.last \in 0 .. durable /\ << >> \in Seq(1 .. durable)
        /\ stream \in Seq(1 .. durable)
    BY Types DEF Ats, Typed
  <2>2. CASE Connect
    BY <2>1, <2>2 DEF Connect, NoSocket, Sockets
  <2>3. CASE Subscribe
    BY <1>2, <2>1, <2>3 DEF Subscribe, Sockets
  <2>4. CASE SubscribeFails
    BY <1>2, <2>1, <2>4 DEF SubscribeFails, Sockets
  <2>5. CASE CatchUp
    <3> DEFINE events == Page(socket.last, SocketPage)
    <3>1. events \in SUBSET (1 .. durable)
      BY DEF Page
    <3>2. Ordered(events) \in Seq(1 .. durable)
      BY <3>1, Types, PageOrdered
    <3>3. (IF events = {} THEN socket.last ELSE Max(events)) \in 0 .. durable
      BY <3>1, Types, PageMax, RealtimeAssumption
    <3>4. socket' = History(events)
      BY <2>5 DEF CatchUp
    <3> HIDE DEF events
    <3> QED BY <1>2, <2>1, <3>2, <3>3, <3>4 DEF History, Sockets
  <2>6. CASE Relay
    <3> DEFINE e == stream[socket.anchor + 1]
    <3>1. socket.anchor + 1 \in 1 .. Len(stream)
      BY <2>6, Types DEF Relay
    <3>2. e \in 1 .. durable
      BY <2>1, <3>1, ElementOfSeq
    <3>3. Append(socket.wire, e) \in Seq(1 .. durable) /\ e \in 0 .. durable
            /\ socket.anchor + 1 \in 0 .. Len(stream)
      BY <3>1, <3>2, Types
    <3>4. socket' = IF e <= socket.last THEN [socket EXCEPT !.anchor = @ + 1]
                    ELSE [[socket EXCEPT !.anchor = @ + 1]
                            EXCEPT !.last = e, !.wire = Append(@, e)]
      BY <2>6 DEF Relay
    <3> HIDE DEF e
    <3> QED BY <1>2, <3>3, <3>4 DEF Sockets
  <2>7. CASE Refused \/ Break
    BY <2>1, <2>7 DEF Refused, Break, Retrying, NoSocket, Sockets
  <2> QED BY <2>2, <2>3, <2>4, <2>5, <2>6, <2>7
<1>4. Sockets' = Sockets /\ Screens' = Screens
  BY <1>1 DEF Sockets, Screens
<1> QED BY <1>1, <1>3, <1>4 DEF Typed

\* The log and the stream only grow, and what was typed stays typed.
LEMMA GrowthTyped ==
  ASSUME Typed, durable' \in Nat, durable <= durable', Len(stream') \in Nat,
         Len(stream) <= Len(stream'), UNCHANGED <<tab, socket>>
  PROVE  tab' \in Screens' /\ socket' \in Sockets'
<1>1. 1 .. durable \subseteq 1 .. durable' /\ 0 .. durable \subseteq 0 .. durable'
        /\ 0 .. Len(stream) \subseteq 0 .. Len(stream')
  BY Types
<1>2. Seq(1 .. durable) \subseteq Seq(1 .. durable')
  BY <1>1, SeqOverLarger
<1>3. tab \in [at : {"opening", "opened", "watching", "over", "failed"}, run : 0 .. Total,
               timeline : Seq(1 .. durable'), last : 0 .. durable', stopped : BOOLEAN]
  BY <1>1, <1>2 DEF Typed, Screens
<1>4. socket \in [at : Ats, anchor : 0 .. Len(stream'), last : 0 .. durable',
                  wire : Seq(1 .. durable')]
  BY <1>1, <1>2 DEF Typed, Sockets
<1> QED BY <1>3, <1>4 DEF Screens, Sockets

\* So does whatever the publishers do.
LEMMA PublisherTyped ==
  ASSUME Typed, Commit \/ \E e \in 1 .. Total : Publish(e) \/ PublishFails(e)
  PROVE  Typed'
<1>1. CASE Commit
  <2>1. /\ durable' = durable + 1 /\ durable < Total
        /\ unsent' = unsent \cup {durable + 1}
        /\ UNCHANGED <<stream, missed, tab, socket, refreshes, faults>>
    BY <1>1 DEF Commit
  <2>2. durable' \in 1 .. Total /\ durable <= durable' /\ Len(stream') \in Nat
          /\ Len(stream) <= Len(stream')
    BY <2>1, Types
  <2>3. 1 .. durable \subseteq 1 .. durable' /\ durable + 1 \in 1 .. durable'
    BY <2>1, Types
  <2>4. tab' \in Screens' /\ socket' \in Sockets'
    BY <2>1, <2>2, GrowthTyped
  <2>5. stream' \in Seq(1 .. durable')
    BY <2>1, <2>3, SeqOverLarger DEF Typed
  <2>6. refreshes' \in [asked : Nat, answers : SUBSET (1 .. durable')]
    BY <2>1, <2>3 DEF Typed
  <2>7. unsent' \subseteq 1 .. durable' /\ missed' \subseteq 1 .. durable' /\ faults' \in Nat
    BY <2>1, <2>3 DEF Typed
  <2> QED BY <2>2, <2>4, <2>5, <2>6, <2>7 DEF Typed
<1>2. ASSUME NEW e \in 1 .. Total, Publish(e) PROVE Typed'
  <2>1. /\ e \in unsent /\ unsent' = unsent \ {e} /\ stream' = Append(stream, e)
        /\ missed' \subseteq missed \cup {e}
        /\ UNCHANGED <<durable, tab, socket, refreshes, faults>>
    BY <1>2 DEF Publish
  <2>2. e \in 1 .. durable /\ stream \in Seq(1 .. durable)
    BY <2>1 DEF Typed
  <2>3. stream' \in Seq(1 .. durable) /\ Len(stream') = Len(stream) + 1
    BY <2>1, <2>2, AppendProperties
  <2>4. tab' \in Screens' /\ socket' \in Sockets'
    BY <2>1, <2>3, Types, GrowthTyped
  <2> QED BY <2>1, <2>2, <2>3, <2>4 DEF Typed
<1>3. ASSUME NEW e \in 1 .. Total, PublishFails(e) PROVE Typed'
  <2>1. /\ e \in unsent /\ unsent' = unsent \ {e} /\ missed' = missed \cup {e}
        /\ UNCHANGED <<durable, stream, tab, socket, refreshes, faults>>
    BY <1>3 DEF PublishFails
  <2>2. tab' \in Screens' /\ socket' \in Sockets'
    BY <2>1, Types, GrowthTyped
  <2> QED BY <2>1, <2>2 DEF Typed
<1> QED BY <1>1, <1>2, <1>3

\* And whatever the screen does.
LEMMA ScreenTyped ==
  ASSUME Typed,
         BeginRun \/ BeginEvents \/ BeginFails \/ Ingest \/ RefreshReads
         \/ (\E v \in 1 .. Total : RefreshArrives(v)) \/ RefreshFails \/ Leave
  PROVE  Typed'
<1>1. UNCHANGED <<durable, unsent, stream, missed>> /\ faults' \in Nat
  <2>1. /\ durable' = durable /\ unsent' = unsent /\ stream' = stream /\ missed' = missed
        /\ faults' = faults \/ faults' = faults + 1
    BY Zenon DEF BeginRun, BeginEvents, BeginFails, Ingest, RefreshReads, RefreshArrives,
       RefreshFails, Leave
  <2> QED BY <2>1 DEF Typed
<1>2. tab \in Screens /\ socket \in Sockets
        /\ refreshes \in [asked : Nat, answers : SUBSET (1 .. durable)]
  BY DEF Typed
<1>3. NoSocket \in Sockets /\ Retrying \in Sockets
  <2>1. "none" \in Ats /\ "retrying" \in Ats /\ 0 \in 0 .. Len(stream) /\ 0 \in 0 .. durable
          /\ << >> \in Seq(1 .. durable)
    BY Types DEF Ats
  <2>2. Retrying = [at |-> "retrying", anchor |-> 0, last |-> 0, wire |-> << >>]
    BY DEF Retrying, NoSocket
  <2> QED BY <2>1, <2>2 DEF NoSocket, Sockets
<1>4. tab' \in Screens /\ socket' \in Sockets
        /\ refreshes' \in [asked : Nat, answers : SUBSET (1 .. durable)]
  <2>1. CASE BeginRun
    <3>1. durable \in 0 .. Total
      BY Types
    <3> QED BY <1>2, <2>1, <3>1 DEF BeginRun, Screens
  <2>2. CASE BeginEvents
    <3> DEFINE shown == Apply(tab.timeline, Page(0, RestPage))
    <3>1. Page(0, RestPage) \in SUBSET (1 .. durable)
      BY DEF Page
    <3>2. shown \in Seq(1 .. durable)
      BY <3>1, Types, ApplyIs
    <3>3. /\ tab' = [tab EXCEPT !.at = IF Terminal(tab.run) THEN "over" ELSE "watching",
                               !.timeline = shown]
          /\ socket' = IF Watches THEN Retrying ELSE socket
          /\ UNCHANGED refreshes
      BY <2>2 DEF BeginEvents
    <3> HIDE DEF shown
    <3>4. tab' \in Screens
      BY <1>2, <3>2, <3>3 DEF Screens
    <3> QED BY <1>2, <1>3, <3>3, <3>4
  <2>3. CASE BeginFails
    BY <1>2, <2>3 DEF BeginFails, Screens
  <2>4. CASE Ingest
    <3> DEFINE e == Head(socket.wire)
               shown == Apply(tab.timeline, {e})
    <3>1. socket.wire # << >> /\ e \in 1 .. durable /\ Tail(socket.wire) \in Seq(1 .. durable)
      BY <2>4, Types, HeadTailProperties DEF Ingest
    <3>2. shown \in Seq(1 .. durable) /\ e \in 0 .. durable
      BY <3>1, Types, ApplyIs
    <3>3. /\ tab' = [tab EXCEPT !.timeline = shown, !.last = IF e > @ THEN e ELSE @]
          /\ \/ refreshes' = [refreshes EXCEPT !.asked = @ + 1]
             \/ refreshes' = refreshes
          /\ socket' = [socket EXCEPT !.wire = Tail(@)]
      BY <2>4 DEF Ingest
    <3> HIDE DEF e, shown
    <3>4. tab' \in Screens
      BY <1>2, <3>2, <3>3 DEF Screens
    <3>5. socket' \in Sockets
      BY <1>2, <3>1, <3>3 DEF Sockets
    <3>6. refreshes' \in [asked : Nat, answers : SUBSET (1 .. durable)]
      BY <1>2, <3>3
    <3> QED BY <3>4, <3>5, <3>6
  <2>5. CASE RefreshReads
    <3>1. durable \in 1 .. durable
      BY Types, RealtimeAssumption DEF Typed
    <3> QED BY <1>2, <2>5, <3>1 DEF RefreshReads
  <2>6. CASE \E v \in 1 .. Total : RefreshArrives(v)
    <3>0. PICK v \in 1 .. Total : RefreshArrives(v)
      BY <2>6
    <3>1. v \in 0 .. Total
      BY <3>0
    <3>2. tab' \in Screens
      BY <1>2, <3>0, <3>1 DEF RefreshArrives, Screens
    <3>3. refreshes' \in [asked : Nat, answers : SUBSET (1 .. durable)]
      BY <1>2, <3>0 DEF RefreshArrives
    <3> QED BY <1>2, <1>3, <3>0, <3>2, <3>3 DEF RefreshArrives
  <2>7. CASE RefreshFails
    BY <1>2, <2>7 DEF RefreshFails
  <2>8. CASE Leave
    BY <1>2, <1>3, <2>8 DEF Leave, Screens
  <2> QED BY <2>1, <2>2, <2>3, <2>4, <2>5, <2>6, <2>7, <2>8
<1>5. Sockets' = Sockets /\ Screens' = Screens
  BY <1>1 DEF Sockets, Screens
<1> QED BY <1>1, <1>4, <1>5 DEF Typed

\* Every step keeps the types.
LEMMA TypedNext == Typed /\ [Next]_vars => Typed'
<1> SUFFICES ASSUME Typed, [Next]_vars PROVE Typed'
  OBVIOUS
<1>1. CASE UNCHANGED vars
  BY <1>1 DEF vars, Typed, Screens, Sockets
<1>2. CASE Next
  BY <1>2, HandlerTyped, PublisherTyped, ScreenTyped DEF Next
<1> QED BY <1>1, <1>2

-----------------------------------------------------------------------------
\* What a step does to the story on the screen: nothing, or it adds events to it.
LEMMA StoryStep ==
  ASSUME Typed, [Next]_vars
  PROVE  \/ Commit /\ tab'.timeline = tab.timeline
         \/ durable' = durable /\ tab'.timeline = tab.timeline
         \/ /\ durable' = durable
            /\ \E events \in SUBSET (1 .. durable) :
                 tab'.timeline = Apply(tab.timeline, events)
<1>1. tab \in Screens
  BY DEF Typed
<1>2. CASE Commit
  BY <1>2 DEF Commit
<1>3. CASE \/ Connect \/ Subscribe \/ SubscribeFails \/ CatchUp \/ Relay \/ Refused \/ Break
           \/ RefreshReads \/ RefreshFails \/ UNCHANGED vars
           \/ \E e \in 1 .. Total : Publish(e) \/ PublishFails(e)
  <2>1. durable' = durable /\ tab' = tab
    BY <1>3, Zenon DEF Connect, Subscribe, SubscribeFails, CatchUp, Relay, Refused, Break,
       RefreshReads, RefreshFails, vars, Publish, PublishFails
  <2> QED BY <2>1
<1>4. CASE BeginRun
  BY <1>1, <1>4 DEF BeginRun, Screens
<1>5. CASE BeginFails
  BY <1>1, <1>5 DEF BeginFails, Screens
<1>6. CASE Leave
  BY <1>1, <1>6 DEF Leave, Screens
<1>7. CASE \E v \in 1 .. Total : RefreshArrives(v)
  BY <1>1, <1>7 DEF RefreshArrives, Screens
<1>8. CASE BeginEvents
  <2>1. Page(0, RestPage) \in SUBSET (1 .. durable)
    BY DEF Page
  <2>2. durable' = durable /\ tab'.timeline = Apply(tab.timeline, Page(0, RestPage))
    BY <1>1, <1>8 DEF BeginEvents, Screens
  <2> QED BY <2>1, <2>2
<1>9. CASE Ingest
  <2>1. {Head(socket.wire)} \in SUBSET (1 .. durable)
    BY <1>9, Types, HeadTailProperties DEF Ingest
  <2>2. durable' = durable /\ tab'.timeline = Apply(tab.timeline, {Head(socket.wire)})
    BY <1>1, <1>9 DEF Ingest, Screens
  <2> QED BY <2>1, <2>2
<1> QED
  BY <1>2, <1>3, <1>4, <1>5, <1>6, <1>7, <1>8, <1>9 DEF Next

\* The screen stays in the order of the log.
LEMMA StoryNext == Typed /\ StoryInOrder /\ [Next]_vars => StoryInOrder'
<1> SUFFICES ASSUME Typed, StoryInOrder, [Next]_vars PROVE StoryInOrder'
  OBVIOUS
<1>1. CASE tab'.timeline = tab.timeline
  BY <1>1, Zenon DEF StoryInOrder
<1>2. ASSUME NEW events \in SUBSET (1 .. durable), tab'.timeline = Apply(tab.timeline, events)
      PROVE  StoryInOrder'
  <2>1. Apply(tab.timeline, events) = Ordered(Range(Apply(tab.timeline, events)))
    BY Types, ApplyIs
  <2> QED BY <1>2, <2>1, Zenon DEF StoryInOrder
<1> QED BY <1>1, <1>2, StoryStep

\* An empty timeline is in order.
LEMMA StoryInit == Init => StoryInOrder
<1> SUFFICES ASSUME Init PROVE StoryInOrder
  OBVIOUS
<1>1. tab.timeline = << >>
  BY DEF Init
<1>2. Range(<< >>) = {}
  BY DEF Range
<1>3. Ordered({}) \in Seq({})
  <2>1. IsFiniteSet({})
    BY FS_EmptySet
  <2> QED BY <2>1, OrderedIs
<1>4. Ordered({}) = << >>
  BY <1>3
<1> QED BY <1>1, <1>2, <1>4, Zenon DEF StoryInOrder

\* The screen tells the durable story: every step shows events of the log, each once
\* and in its order, unsays none, or shows nothing new, whatever was lost, repeated
\* or overtaken between the log and the screen (timeline.ts, apply).
THEOREM StoryIsTheLog == Spec => TimelineIsTheLog
<1>1. Init => View!Init
  BY DEF Init, View!Init
<1>2. Typed /\ StoryInOrder /\ [Next]_vars => [View!Next]_<<durable, tab.timeline>>
  <2> SUFFICES ASSUME Typed, StoryInOrder, [Next]_vars
               PROVE  [View!Next]_<<durable, tab.timeline>>
    OBVIOUS
  <2>1. CASE Commit /\ tab'.timeline = tab.timeline
    BY <2>1 DEF Commit, View!Next, View!Append1
  <2>2. CASE durable' = durable /\ tab'.timeline = tab.timeline
    BY <2>2
  <2>3. ASSUME durable' = durable, NEW events \in SUBSET (1 .. durable),
               tab'.timeline = Apply(tab.timeline, events)
        PROVE  View!Learn \/ UNCHANGED <<durable, tab.timeline>>
    <3>1. /\ Apply(tab.timeline, events) \in Seq(1 .. durable)
          /\ Range(Apply(tab.timeline, events)) = Range(tab.timeline) \cup events
          /\ View!InOrder(Apply(tab.timeline, events))
          /\ Apply(tab.timeline, events) = Ordered(Range(Apply(tab.timeline, events)))
      BY Types, ApplyIs
    <3>2. CASE Range(tab'.timeline) = Range(tab.timeline)
      <4>1. tab'.timeline = tab.timeline
        BY <2>3, <3>1, <3>2, Zenon DEF StoryInOrder
      <4> QED BY <2>3, <4>1
    <3>3. CASE Range(tab'.timeline) # Range(tab.timeline)
      <4>1. Range(tab.timeline) \subseteq Range(tab'.timeline)
        BY <2>3, <3>1, Zenon
      <4> QED BY <2>3, <3>1, <3>3, <4>1, Zenon DEF View!Learn, View!Range, Range
    <3> QED BY <3>2, <3>3
  <2> QED BY <2>1, <2>2, <2>3, StoryStep DEF View!Next
<1> QED BY <1>1, <1>2, TypedInit, TypedNext, StoryInit, StoryNext, PTL
       DEF Spec, TimelineIsTheLog, View!Spec

-----------------------------------------------------------------------------
\* A handler that moves has a screen behind it, and does not move it.
LEMMA ReasonNext == Typed /\ SocketHasReason /\ [Next]_vars => SocketHasReason'
<1> SUFFICES ASSUME Typed, SocketHasReason, [Next]_vars PROVE SocketHasReason'
  OBVIOUS
<1>1. tab \in Screens
  BY DEF Typed
<1>2. NoSocket.at = "none" /\ NoSocket.wire = << >>
  BY DEF NoSocket
<1>3. CASE \/ Commit \/ RefreshReads \/ RefreshFails \/ UNCHANGED vars
           \/ \E e \in 1 .. Total : Publish(e) \/ PublishFails(e)
  <2>1. tab' = tab /\ socket' = socket
    BY <1>3, Zenon DEF Commit, RefreshReads, RefreshFails, vars, Publish, PublishFails
  <2> QED BY <2>1, Zenon DEF SocketHasReason, Terminal, NoSocket
<1>4. CASE Connect \/ Subscribe \/ SubscribeFails \/ CatchUp \/ Relay \/ Refused \/ Break
  <2>1. tab' = tab
    BY <1>4, Zenon DEF Connect, Subscribe, SubscribeFails, CatchUp, Relay, Refused, Break
  <2>2. socket.at # "none"
    BY <1>4 DEF Connect, Subscribe, SubscribeFails, CatchUp, Relay, Refused, Break
  <2>3. ~(tab.stopped \/ tab.at # "watching" \/ Terminal(tab.run))
    BY <1>2, <2>2, Zenon DEF SocketHasReason
  <2> QED BY <2>1, <2>3, Zenon DEF SocketHasReason, Terminal
<1>5. CASE BeginRun \/ BeginFails
  <2>1. socket' = socket
    BY <1>5, Zenon DEF BeginRun, BeginFails
  <2>2. tab.at # "watching"
    BY <1>5 DEF BeginRun, BeginFails
  <2>3. socket' = NoSocket
    BY <2>1, <2>2, Zenon DEF SocketHasReason
  <2> QED BY <2>3, Zenon DEF SocketHasReason, NoSocket
<1>6. CASE BeginEvents
  <2>1. tab.at # "watching"
    BY <1>6 DEF BeginEvents
  <2>2. socket = NoSocket
    BY <2>1, Zenon DEF SocketHasReason
  <2>3. CASE Watches
    <3>1. /\ tab'.at = "watching" /\ tab'.run = tab.run /\ tab'.stopped = tab.stopped
      BY <1>1, <1>6, <2>3 DEF BeginEvents, Screens, Watches
    <3>2. ~(tab'.stopped \/ tab'.at # "watching" \/ Terminal(tab'.run))
      BY <2>3, <3>1 DEF Watches, Terminal
    <3> QED BY <3>2, Zenon DEF SocketHasReason, Terminal
  <2>4. CASE ~Watches
    <3>1. socket' = NoSocket
      BY <1>6, <2>2, <2>4, Zenon DEF BeginEvents
    <3> QED BY <3>1, Zenon DEF SocketHasReason, NoSocket
  <2> QED BY <2>3, <2>4
<1>7. CASE Ingest
  <2>1. socket.wire # << >>
    BY <1>7 DEF Ingest
  <2>2. ~(tab.stopped \/ tab.at # "watching" \/ Terminal(tab.run))
    BY <1>2, <2>1, Zenon DEF SocketHasReason
  <2>3. /\ tab'.at = tab.at /\ tab'.run = tab.run /\ tab'.stopped = tab.stopped
    BY <1>1, <1>7 DEF Ingest, Screens
  <2> QED BY <2>2, <2>3, Zenon DEF SocketHasReason, Terminal
<1>8. ASSUME NEW v \in 1 .. Total, RefreshArrives(v) PROVE SocketHasReason'
  <2>1. CASE Terminal(v)
    <3>1. socket' = NoSocket
      BY <1>8, <2>1, Zenon DEF RefreshArrives
    <3> QED BY <3>1, Zenon DEF SocketHasReason, NoSocket
  <2>2. CASE ~Terminal(v)
    <3>1. socket' = socket
      BY <1>8, <2>2, Zenon DEF RefreshArrives
    <3>2. tab'.at = tab.at /\ tab'.run = v /\ tab'.stopped = tab.stopped
      BY <1>1, <1>8, <2>2 DEF RefreshArrives, Screens
    <3> QED BY <2>2, <3>1, <3>2, Zenon DEF SocketHasReason, Terminal, NoSocket
  <2> QED BY <2>1, <2>2
<1>9. CASE Leave
  <2>1. socket' = NoSocket
    BY <1>9, Zenon DEF Leave
  <2> QED BY <2>1, Zenon DEF SocketHasReason, NoSocket
<1> QED BY <1>3, <1>4, <1>5, <1>6, <1>7, <1>8, <1>9 DEF Next

\* Nothing listens to a run that is shown finished, and nothing to one nobody looks
\* at: no order of the answers that finish a watch, of leaving and of reconnecting
\* leaves a socket open or about to be (watch-run.ts, finish and stop).
THEOREM SocketsEnd == Spec => []NobodyListensInVain
<1>1. Init => SocketHasReason
  BY DEF Init, SocketHasReason
<1>2. SocketHasReason => NobodyListensInVain
  <2> SUFFICES ASSUME SocketHasReason PROVE NobodyListensInVain
    OBVIOUS
  <2>1. tab.at = "over" => tab.at # "watching"
    OBVIOUS
  <2> QED BY <2>1, Zenon DEF SocketHasReason, NobodyListensInVain
<1> QED BY <1>1, <1>2, TypedInit, TypedNext, ReasonNext, PTL DEF Spec

-----------------------------------------------------------------------------
\* What is on the screen stays there.
LEMMA ShownStays ==
  ASSUME Typed, [Next]_vars
  PROVE  Range(tab.timeline) \subseteq Range(tab'.timeline)
<1>1. CASE tab'.timeline = tab.timeline
  BY <1>1, Zenon
<1>2. ASSUME NEW events \in SUBSET (1 .. durable), tab'.timeline = Apply(tab.timeline, events)
      PROVE  Range(tab.timeline) \subseteq Range(tab'.timeline)
  <2>1. Range(Apply(tab.timeline, events)) = Range(tab.timeline) \cup events
    BY Types, ApplyIs
  <2> QED BY <1>2, <2>1, Zenon
<1> QED BY <1>1, <1>2, StoryStep

\* What a publisher does to the stream.
LEMMA PublishDoes ==
  ASSUME Typed, NEW f \in 1 .. Total, Publish(f)
  PROVE  /\ f \in unsent /\ f \in 1 .. durable /\ unsent' = unsent \ {f}
         /\ durable' = durable /\ tab' = tab /\ socket' = socket
         /\ stream' \in Seq(1 .. durable) /\ Len(stream') = Len(stream) + 1
         /\ \A i \in 1 .. Len(stream) : stream'[i] = stream[i]
         /\ stream'[Len(stream) + 1] = f
         /\ Range(stream') = Range(stream) \cup {f}
         /\ missed \subseteq missed'
         /\ (\E later \in Range(stream) : later > f) => f \in missed'
<1>1. /\ f \in unsent /\ unsent' = unsent \ {f} /\ stream' = Append(stream, f)
      /\ missed' = IF \E later \in Range(stream) : later > f THEN missed \cup {f} ELSE missed
      /\ durable' = durable /\ tab' = tab /\ socket' = socket
  BY DEF Publish
<1>2. f \in 1 .. durable /\ stream \in Seq(1 .. durable)
  BY <1>1 DEF Typed
<1>3. /\ stream' \in Seq(1 .. durable) /\ Len(stream') = Len(stream) + 1
      /\ \A i \in 1 .. Len(stream) : stream'[i] = stream[i]
      /\ stream'[Len(stream) + 1] = f
  BY <1>1, <1>2, AppendProperties
<1>4. DOMAIN stream = 1 .. Len(stream) /\ DOMAIN stream' = 1 .. Len(stream) + 1
        /\ Len(stream) \in Nat
  BY <1>2, <1>3, LenProperties
<1>5. Range(stream') = Range(stream) \cup {f}
  <2>1. \A i \in 1 .. Len(stream) + 1 : i \in 1 .. Len(stream) \/ i = Len(stream) + 1
    BY <1>4
  <2>2. 1 .. Len(stream) \subseteq 1 .. Len(stream) + 1
          /\ Len(stream) + 1 \in 1 .. Len(stream) + 1
    BY <1>4
  <2> QED BY <1>3, <1>4, <2>1, <2>2, Zenon DEF Range
<1> QED BY <1>1, <1>2, <1>3, <1>5, Zenon

\* What is gone stays gone: an event that others have overtaken is among the missed
\* from the moment it is published.
LEMMA GoneStays ==
  ASSUME Typed, [Next]_vars, NEW e \in 1 .. durable, Gone(e)
  PROVE  Gone(e)'
<1>1. CASE Commit
  <2>1. unsent \subseteq unsent' /\ missed' = missed /\ stream' = stream
    BY <1>1, Zenon DEF Commit
  <2> QED BY <2>1, Zenon DEF Gone
<1>2. ASSUME NEW f \in 1 .. Total, Publish(f) PROVE Gone(e)'
  <2>1. /\ unsent' = unsent \ {f} /\ missed \subseteq missed'
        /\ Range(stream) \subseteq Range(stream')
        /\ (\E later \in Range(stream) : later > f) => f \in missed'
    BY <1>2, PublishDoes
  <2> QED BY <2>1, Zenon DEF Gone
<1>3. ASSUME NEW f \in 1 .. Total, PublishFails(f) PROVE Gone(e)'
  <2>1. unsent' = unsent \ {f} /\ missed' = missed \cup {f} /\ stream' = stream
    BY <1>3, Zenon DEF PublishFails
  <2> QED BY <2>1, Zenon DEF Gone
<1>4. CASE unsent' = unsent /\ missed' = missed /\ stream' = stream
  BY <1>4, Zenon DEF Gone
<1>5. \/ Commit \/ (\E f \in 1 .. Total : Publish(f) \/ PublishFails(f))
      \/ unsent' = unsent /\ missed' = missed /\ stream' = stream
  BY Zenon DEF Next, vars, Connect, Subscribe, SubscribeFails, CatchUp, Relay, Refused, Break,
     BeginRun, BeginEvents, BeginFails, Ingest, RefreshReads, RefreshArrives, RefreshFails, Leave
<1> QED BY <1>1, <1>2, <1>3, <1>4, <1>5

\* What was published and what was missed accounts for the log.
LEMMA PublishedNext ==
  ASSUME Typed, PublishedOrMissed, [Next]_vars
  PROVE  PublishedOrMissed'
<1>1. CASE Commit
  <2>1. durable' = durable + 1 /\ unsent' = unsent \cup {durable + 1} /\ missed' = missed
          /\ stream' = stream
    BY <1>1 DEF Commit
  <2>2. \A e \in 1 .. durable' : e \in 1 .. durable \/ e = durable + 1
    BY <2>1, Types
  <2> QED BY <2>1, <2>2, Zenon DEF PublishedOrMissed
<1>2. ASSUME NEW f \in 1 .. Total, Publish(f) PROVE PublishedOrMissed'
  <2> DEFINE n == Len(stream)
  <2>1. /\ unsent' = unsent \ {f} /\ missed \subseteq missed' /\ durable' = durable
        /\ Range(stream') = Range(stream) \cup {f}
        /\ \A i \in 1 .. n : stream'[i] = stream[i]
        /\ stream'[n + 1] = f
        /\ stream' \in Seq(1 .. durable) /\ Len(stream') = n + 1
        /\ (\E later \in Range(stream) : later > f) => f \in missed'
    BY <1>2, PublishDoes
  <2>2. DOMAIN stream' = 1 .. n + 1 /\ DOMAIN stream = 1 .. n /\ n \in Nat
    BY <2>1, Types
  <2>3. (1 .. durable \subseteq unsent \cup missed \cup Range(stream))'
    BY <2>1, Zenon DEF PublishedOrMissed
  <2>4. ASSUME NEW i \in DOMAIN stream', NEW j \in DOMAIN stream', i < j,
               stream'[j] < stream'[i]
        PROVE  stream'[j] \in missed'
    <3>1. i \in 1 .. n
      BY <2>2, <2>4
    <3>2. CASE j \in 1 .. n
      BY <2>1, <2>2, <2>4, <3>1, <3>2 DEF PublishedOrMissed
    <3>3. CASE j = n + 1
      <4>1. stream'[j] = f /\ stream[i] \in Range(stream) /\ stream'[i] = stream[i]
        BY <2>1, <2>2, <3>1, <3>3 DEF Range
      <4>2. stream[i] \in Int /\ f \in Int
        BY <3>1, Types, ElementOfSeq
      <4>3. stream[i] > f
        BY <2>4, <4>1, <4>2
      <4> QED BY <2>1, <4>1, <4>3
    <3> QED BY <2>2, <3>2, <3>3
  <2> QED BY <2>3, <2>4, Zenon DEF PublishedOrMissed
<1>3. ASSUME NEW f \in 1 .. Total, PublishFails(f) PROVE PublishedOrMissed'
  <2>1. unsent' = unsent \ {f} /\ missed' = missed \cup {f} /\ stream' = stream
          /\ durable' = durable
    BY <1>3, Zenon DEF PublishFails
  <2> QED BY <2>1, Zenon DEF PublishedOrMissed
<1>4. CASE unsent' = unsent /\ missed' = missed /\ stream' = stream /\ durable' = durable
  BY <1>4, Zenon DEF PublishedOrMissed
<1>5. \/ Commit \/ (\E f \in 1 .. Total : Publish(f) \/ PublishFails(f))
      \/ unsent' = unsent /\ missed' = missed /\ stream' = stream /\ durable' = durable
  BY Zenon DEF Next, vars, Connect, Subscribe, SubscribeFails, CatchUp, Relay, Refused, Break,
     BeginRun, BeginEvents, BeginFails, Ingest, RefreshReads, RefreshArrives, RefreshFails, Leave
<1> QED BY <1>1, <1>2, <1>3, <1>4, <1>5

\* What a step does to the handler's place and to the screen's: nothing, or the
\* handler is gone or begins again, or has subscribed, caught up, relayed or delivered.
LEMMA RelayStep ==
  ASSUME Typed, WireInOrder, [Next]_vars
  PROVE  \/ tab'.last = tab.last /\ socket' = socket
         \/ /\ tab'.last = tab.last
            /\ socket'.at \in {"none", "retrying", "accepted"}
            /\ socket'.wire = << >> /\ (socket'.last = 0 \/ socket'.last = tab.last)
         \/ /\ tab'.last = tab.last
            /\ socket'.at \in {"subscribed", "unsubscribed"}
            /\ socket'.wire = << >> /\ socket'.last = socket.last
            /\ socket.wire = << >>
         \/ CatchUp
         \/ Relay
         \/ Ingest
<1>1. tab \in Screens /\ socket \in Sockets
  BY DEF Typed
<1>2. CASE \/ Commit \/ RefreshReads \/ RefreshFails \/ UNCHANGED vars
           \/ \E e \in 1 .. Total : Publish(e) \/ PublishFails(e)
  <2>1. tab' = tab /\ socket' = socket
    BY <1>2, Zenon DEF Commit, RefreshReads, RefreshFails, vars, Publish, PublishFails
  <2> QED BY <2>1, Zenon
<1>3. CASE Connect
  <2>1. tab' = tab /\ socket'.at = "accepted" /\ socket'.wire = << >> /\ socket'.last = tab.last
    BY <1>3 DEF Connect, NoSocket
  <2> QED BY <2>1, Zenon
<1>4. CASE Subscribe \/ SubscribeFails
  <2>1. socket.wire = << >>
    BY <1>4 DEF Subscribe, SubscribeFails, WireInOrder
  <2>2. tab' = tab
    BY <1>4, Zenon DEF Subscribe, SubscribeFails
  <2>3. CASE Subscribe
    BY <1>1, <2>1, <2>3 DEF Subscribe, Sockets
  <2>4. CASE SubscribeFails
    BY <1>1, <2>1, <2>4 DEF SubscribeFails, Sockets
  <2> QED BY <1>4, <2>3, <2>4
<1>5. CASE Refused \/ Break
  <2>1. tab' = tab /\ socket' = Retrying
    BY <1>5, Zenon DEF Refused, Break
  <2>2. Retrying.at = "retrying" /\ Retrying.wire = << >> /\ Retrying.last = 0
    BY DEF Retrying, NoSocket
  <2> QED BY <2>1, <2>2, Zenon
<1>6. CASE BeginRun
  BY <1>1, <1>6 DEF BeginRun, Screens
<1>7. CASE BeginFails
  BY <1>1, <1>7 DEF BeginFails, Screens
<1>8. CASE BeginEvents
  <2>1. tab'.last = tab.last
    BY <1>1, <1>8 DEF BeginEvents, Screens
  <2>2. socket' = Retrying \/ socket' = socket
    BY <1>8, Zenon DEF BeginEvents
  <2>3. Retrying.at = "retrying" /\ Retrying.wire = << >> /\ Retrying.last = 0
    BY DEF Retrying, NoSocket
  <2> QED BY <2>1, <2>2, <2>3, Zenon
<1>9. ASSUME \/ \E v \in 1 .. Total : RefreshArrives(v)
             \/ Leave
      PROVE  /\ tab'.last = tab.last
             /\ \/ socket' = socket
                \/ socket'.at = "none" /\ socket'.wire = << >> /\ socket'.last = 0
  <2>1. CASE Leave
    BY <1>1, <2>1 DEF Leave, Screens, NoSocket
  <2>2. CASE \E v \in 1 .. Total : RefreshArrives(v)
    <3>1. tab'.last = tab.last
      BY <1>1, <2>2 DEF RefreshArrives, Screens
    <3>2. socket' = socket \/ socket' = NoSocket
      BY <2>2, Zenon DEF RefreshArrives
    <3>3. NoSocket.at = "none" /\ NoSocket.wire = << >> /\ NoSocket.last = 0
      BY DEF NoSocket
    <3> QED BY <3>1, <3>2, <3>3, Zenon
  <2> QED BY <1>9, <2>1, <2>2
<1> QED
  BY <1>2, <1>3, <1>4, <1>5, <1>6, <1>7, <1>8, <1>9, Zenon DEF Next

\* The handler relays: what it skips was passed, what it passes by was published
\* behind a later event, and what it appends is beyond everything on the wire.
LEMMA RelayKeeps ==
  ASSUME RelayInv, [Next]_vars, Relay
  PROVE  WireInOrder' /\ PassedIsKnown' /\ AnchorIsPassed'
<1> DEFINE e == stream[socket.anchor + 1]
           n == Len(socket.wire)
<1>1. Typed /\ socket \in Sockets
  BY DEF RelayInv, Typed
<1>2. /\ tab' = tab /\ stream' = stream /\ durable' = durable
      /\ unsent' = unsent /\ missed' = missed
      /\ socket.at = "relaying" /\ socket.anchor < Len(stream)
  BY DEF Relay
<1>3. socket.anchor + 1 \in 1 .. Len(stream) /\ e \in 1 .. durable /\ e \in Range(stream)
  <2>1. socket.anchor + 1 \in 1 .. Len(stream)
    BY <1>1, <1>2, Types
  <2>2. stream \in Seq(1 .. durable)
    BY <1>1 DEF Typed
  <2>3. e \in 1 .. durable
    BY <2>1, <2>2, ElementOfSeq
  <2>4. DOMAIN stream = 1 .. Len(stream)
    BY <2>2, LenProperties
  <2> QED BY <2>1, <2>3, <2>4, Zenon DEF Range
<1>4. CASE e <= socket.last
  <2>1. socket' = [socket EXCEPT !.anchor = @ + 1]
    BY <1>4 DEF Relay
  <2>2. /\ socket'.at = socket.at /\ socket'.anchor = socket.anchor + 1
        /\ socket'.last = socket.last /\ socket'.wire = socket.wire
    BY <1>1, <2>1 DEF Sockets
  <2>3. WireInOrder'
    BY <2>2, Zenon DEF RelayInv, WireInOrder
  <2>4. PassedIsKnown'
    BY <1>2, <2>2, Zenon DEF RelayInv, PassedIsKnown, Gone
  <2>5. \A i \in 1 .. socket.anchor + 1 : stream[i] <= socket.last
    <3>1. \A i \in 1 .. socket.anchor + 1 : i \in 1 .. socket.anchor \/ i = socket.anchor + 1
      BY <1>1, Types
    <3>2. \A i \in 1 .. socket.anchor : stream[i] <= socket.last
      BY <1>2, Zenon DEF RelayInv, AnchorIsPassed
    <3> QED BY <1>4, <3>1, <3>2, Zenon
  <2>6. AnchorIsPassed'
    BY <1>2, <2>2, <2>5, Zenon DEF AnchorIsPassed
  <2> QED BY <2>3, <2>4, <2>6
<1>5. CASE ~(e <= socket.last)
  <2>1. socket' = [[socket EXCEPT !.anchor = @ + 1] EXCEPT !.last = e, !.wire = Append(@, e)]
    BY <1>5 DEF Relay
  <2> HIDE DEF e
  <2>2. /\ socket'.at = socket.at /\ socket'.anchor = socket.anchor + 1
        /\ socket'.last = e /\ socket'.wire = Append(socket.wire, e)
    BY <1>1, <2>1 DEF Sockets
  <2>3. /\ socket.wire \in Seq(1 .. durable) /\ n \in Nat /\ DOMAIN socket.wire = 1 .. n
        /\ Append(socket.wire, e) \in Seq(1 .. durable)
        /\ DOMAIN Append(socket.wire, e) = 1 .. n + 1
        /\ \A i \in 1 .. n : Append(socket.wire, e)[i] = socket.wire[i]
        /\ Append(socket.wire, e)[n + 1] = e
    BY <1>1, <1>3, Types, AppendProperties, LenProperties
  <2>4. \A i \in 1 .. n : socket.wire[i] \in Int /\ socket.wire[i] <= socket.last
    <3>1. \A i \in 1 .. n : socket.wire[i] \in 1 .. durable
      BY <2>3, ElementOfSeq
    <3>2. \A i \in 1 .. n : socket.wire[i] <= socket.last
      BY <2>3, Zenon DEF RelayInv, WireInOrder
    <3> QED BY <3>1, <3>2
  <2>5. e \in Int /\ socket.last \in Int /\ socket.last < e
    BY <1>1, <1>3, <1>5, Types DEF e
  <2>6. WireInOrder'
    <3>1. \A i, j \in 1 .. n + 1 : i < j =>
            Append(socket.wire, e)[i] < Append(socket.wire, e)[j]
      <4> TAKE i \in 1 .. n + 1, j \in 1 .. n + 1
      <4> HAVE i < j
      <4>1. i \in 1 .. n
        BY <2>3
      <4>2. CASE j \in 1 .. n
        BY <2>3, <4>1, <4>2 DEF RelayInv, WireInOrder
      <4>3. CASE j = n + 1
        BY <2>3, <2>4, <2>5, <4>1, <4>3
      <4> QED BY <2>3, <4>2, <4>3
    <3>2. \A i \in 1 .. n + 1 : Append(socket.wire, e)[i] <= e
      BY <2>3, <2>4, <2>5
    <3>3. socket'.at = "relaying"
      BY <1>2, <2>2
    <3>4. DOMAIN socket'.wire = 1 .. n + 1
      BY <2>2, <2>3
    <3> QED BY <2>2, <3>1, <3>2, <3>3, <3>4 DEF WireInOrder
\* Between the last event passed and this one.
  <2>7. ASSUME NEW f \in 1 .. e, f # e, ~(f <= socket.last)
        PROVE  Gone(f)
    <3>1. f \in 1 .. durable /\ f < e
      BY <1>1, <1>3, <2>7, Types DEF e
    <3>2. f \in unsent \cup missed \cup Range(stream)
      BY <3>1 DEF RelayInv, PublishedOrMissed
    <3>3. CASE f \in unsent \cup missed
      <4>1. e > f
        BY <2>5, <3>1
      <4> QED BY <1>3, <3>3, <4>1 DEF Gone, e
    <3>4. CASE f \in Range(stream)
      <4>1. DOMAIN stream = 1 .. Len(stream)
        BY <1>1, Types, LenProperties
      <4>2. PICK j \in 1 .. Len(stream) : stream[j] = f
        BY <3>4, <4>1, Zenon DEF Range
      <4>3. ~(j \in 1 .. socket.anchor)
        BY <1>2, <2>7, <4>2 DEF RelayInv, AnchorIsPassed
      <4>4. j # socket.anchor + 1
        BY <2>7, <4>2 DEF e
      <4>5. socket.anchor + 1 < j
        BY <1>1, <4>2, <4>3, <4>4, Types
      <4>6. stream[j] < stream[socket.anchor + 1]
        BY <3>1, <4>2 DEF e
      <4>7. f \in missed
        BY <1>3, <4>1, <4>2, <4>5, <4>6 DEF RelayInv, PublishedOrMissed
      <4> QED BY <4>7 DEF Gone
    <3> QED BY <3>2, <3>3, <3>4
  <2>8. Range(socket'.wire) = Range(socket.wire) \cup {e}
    <3>1. \A i \in 1 .. n + 1 : i \in 1 .. n \/ i = n + 1
      BY <2>3
    <3>2. 1 .. n \subseteq 1 .. n + 1 /\ n + 1 \in 1 .. n + 1
      BY <2>3
    <3> QED BY <2>2, <2>3, <3>1, <3>2, Zenon DEF Range
  <2>9. PassedIsKnown'
    <3>1. ASSUME NEW f \in 1 .. e
          PROVE  f \in Range(tab.timeline) \/ f \in Range(socket'.wire) \/ Gone(f)
      <4>1. CASE f = e
        BY <2>8, <4>1, Zenon
      <4>2. CASE f <= socket.last
        <5>1. f \in 1 .. socket.last
          BY <2>5, <4>2
        <5> QED BY <2>8, <5>1, Zenon DEF RelayInv, PassedIsKnown
      <4> QED BY <2>7, <4>1, <4>2
    <3>2. \A f \in 1 .. tab.last : f \in Range(tab.timeline) \/ Gone(f)
      BY DEF RelayInv, PassedIsKnown
    <3> QED BY <1>2, <2>2, <3>1, <3>2, Zenon DEF PassedIsKnown, Gone
  <2>10. AnchorIsPassed'
    <3>1. \A i \in 1 .. socket.anchor : i \in 1 .. Len(stream)
      BY <1>1, Types
    <3>2. \A i \in 1 .. socket.anchor : stream[i] \in Int
      BY <1>1, <3>1, Types, ElementOfSeq
    <3>3. \A i \in 1 .. socket.anchor : stream[i] <= socket.last
      BY <1>2, Zenon DEF RelayInv, AnchorIsPassed
    <3>4. \A i \in 1 .. socket.anchor : stream[i] <= e
      BY <2>5, <3>2, <3>3
    <3>5. \A i \in 1 .. socket.anchor + 1 : i \in 1 .. socket.anchor \/ i = socket.anchor + 1
      BY <1>1, Types
    <3>6. stream[socket.anchor + 1] = e /\ e <= e
      BY <2>5 DEF e
    <3>7. \A i \in 1 .. socket.anchor + 1 : stream[i] <= e
      BY <3>4, <3>5, <3>6, Zenon
    <3> QED BY <1>2, <2>2, <3>7, Zenon DEF AnchorIsPassed
  <2> QED BY <2>6, <2>9, <2>10
<1> QED BY <1>4, <1>5

\* The handler catches up: one page brings it to the end of the log, if the page is
\* long enough, and so beyond all that was in the stream when it subscribed.
LEMMA CatchUpKeeps ==
  ASSUME RelayInv, [Next]_vars, CatchUp, Total <= SocketPage
  PROVE  WireInOrder' /\ PassedIsKnown' /\ AnchorIsPassed'
<1> DEFINE events == Page(socket.last, SocketPage)
<1>1. Typed /\ socket \in Sockets
  BY DEF RelayInv, Typed
<1>2. /\ tab' = tab /\ stream' = stream /\ durable' = durable
      /\ unsent' = unsent /\ missed' = missed
      /\ socket.wire = << >> /\ socket' = History(events)
  BY DEF CatchUp, RelayInv, WireInOrder
<1>3. /\ events \in SUBSET (1 .. durable)
      /\ \A e \in 1 .. durable : e > socket.last <=> e \in events
  <2>1. /\ SocketPage \in Nat /\ Total \in Nat
        /\ socket.last \in Nat /\ durable <= Total /\ durable \in Nat
    BY <1>1, Types, RealtimeAssumption
  <2>2. \A e \in 1 .. durable : e <= socket.last + SocketPage
    BY <2>1
  <2> QED BY <2>1, <2>2 DEF Page
<1>4. /\ Ordered(events) \in Seq(1 .. durable) /\ Range(Ordered(events)) = events
      /\ View!InOrder(Ordered(events))
  BY <1>1, <1>3, Types, PageOrdered
<1>5. events # {} => Max(events) \in events /\ \A e \in events : e <= Max(events)
  BY <1>1, Types, PageMax, RealtimeAssumption
<1> HIDE DEF events
<1>6. /\ socket'.at \in {"relaying", "unavailable"} /\ socket'.anchor = socket.anchor
      /\ socket'.wire = Ordered(events)
      /\ socket'.last = IF events = {} THEN socket.last ELSE Max(events)
  BY <1>1, <1>2 DEF History, Sockets
<1>7. /\ \A e \in events : e <= socket'.last
      /\ durable <= socket'.last
      /\ \A e \in 1 .. socket'.last : e \in 1 .. socket.last \/ e \in events
  <2>1. CASE events = {}
    <3>1. \A e \in 1 .. durable : ~(e > socket.last)
      BY <1>3, <2>1
    <3>2. durable \in 1 .. durable /\ socket.last \in Nat
      BY <1>1, Types, RealtimeAssumption DEF Typed
    <3> QED BY <1>6, <2>1, <3>1, <3>2
  <2>2. CASE events # {}
    <3>1. socket'.last \in events /\ socket'.last \in 1 .. durable
      BY <1>3, <1>5, <1>6, <2>2
    <3>2. socket.last \in Nat /\ durable \in Nat /\ durable \in 1 .. durable
      BY <1>1, Types, RealtimeAssumption DEF Typed
    <3>3. \A e \in events : e <= socket'.last
      BY <1>5, <1>6, <2>2, Zenon
    <3>4. socket.last < socket'.last
      BY <1>3, <3>1, <3>2
    <3>5. durable > socket.last
      BY <3>1, <3>2, <3>4
    <3>6. durable \in events
      BY <1>3, <3>2, <3>5, Zenon
    <3>7. ASSUME NEW e \in 1 .. socket'.last
          PROVE  e \in 1 .. socket.last \/ e \in events
      <4>1. e \in 1 .. durable
        BY <3>1, <3>2
      <4>2. e > socket.last \/ e \in 1 .. socket.last
        BY <3>2, <4>1
      <4> QED BY <1>3, <4>1, <4>2, Zenon
    <3> QED BY <3>3, <3>6, <3>7
  <2> QED BY <2>1, <2>2
<1>8. WireInOrder'
  <2>1. \A i \in DOMAIN Ordered(events) : Ordered(events)[i] \in events
    BY <1>4, Zenon DEF Range
  <2>2. \A i \in DOMAIN Ordered(events) : Ordered(events)[i] <= socket'.last
    BY <1>7, <2>1, Zenon
  <2>3. socket'.at \notin {"none", "retrying", "accepted", "subscribed", "unsubscribed"}
    BY <1>6
  <2> QED BY <1>4, <1>6, <2>2, <2>3, Zenon DEF WireInOrder, View!InOrder
<1>9. PassedIsKnown'
  <2>1. ASSUME NEW f \in 1 .. socket.last
        PROVE  f \in Range(tab.timeline) \/ Gone(f)
    <3>1. Range(socket.wire) = {}
      BY <1>2 DEF Range
    <3> QED BY <3>1, Zenon DEF RelayInv, PassedIsKnown
  <2>2. \A f \in 1 .. tab.last : f \in Range(tab.timeline) \/ Gone(f)
    BY DEF RelayInv, PassedIsKnown
  <2> QED BY <1>2, <1>4, <1>6, <1>7, <2>1, <2>2, Zenon DEF PassedIsKnown, Gone
<1>10. AnchorIsPassed'
  <2>1. \A i \in 1 .. socket.anchor : i \in 1 .. Len(stream)
    BY <1>1, Types
  <2>2. \A i \in 1 .. socket.anchor : stream[i] \in 1 .. durable
    BY <1>1, <2>1, ElementOfSeq DEF Typed
  <2>3. socket'.last \in Int /\ durable \in Int
    <3>1. events # {} => Max(events) \in 1 .. durable
      BY <1>3, <1>5, Zenon
    <3>2. socket.last \in Int /\ durable \in Int
      BY <1>1, Types
    <3> QED BY <1>6, <3>1, <3>2
  <2>4. \A i \in 1 .. socket.anchor : stream[i] <= socket'.last
    BY <1>7, <2>2, <2>3
  <2> QED BY <1>2, <1>6, <2>4, Zenon DEF AnchorIsPassed
<1> QED BY <1>8, <1>9, <1>10

\* A frame is delivered: it is the next event of the wire, so the screen's place is
\* never beyond an event the wire has yet to bring.
LEMMA IngestKeeps ==
  ASSUME RelayInv, [Next]_vars, Ingest
  PROVE  WireInOrder' /\ PassedIsKnown' /\ AnchorIsPassed'
<1> DEFINE e == Head(socket.wire)
           n == Len(socket.wire)
<1>1. Typed /\ socket \in Sockets /\ tab \in Screens
  BY DEF RelayInv, Typed
<1>2. /\ stream' = stream /\ durable' = durable /\ unsent' = unsent /\ missed' = missed
      /\ socket.wire # << >>
      /\ socket' = [socket EXCEPT !.wire = Tail(@)]
      /\ tab' = [tab EXCEPT !.timeline = Apply(@, {e}), !.last = IF e > @ THEN e ELSE @]
  BY DEF Ingest
<1>3. socket.wire \in Seq(1 .. durable)
  BY <1>1, Types
<1>4. /\ e \in 1 .. durable /\ e = socket.wire[1] /\ 1 \in DOMAIN socket.wire
      /\ Tail(socket.wire) \in Seq(1 .. durable) /\ n \in Nat /\ n >= 1
      /\ DOMAIN socket.wire = 1 .. n /\ DOMAIN Tail(socket.wire) = 1 .. n - 1
      /\ \A i \in 1 .. n - 1 : Tail(socket.wire)[i] = socket.wire[i + 1]
  <2>1. n \in Nat \ {0} /\ DOMAIN socket.wire = 1 .. n
    BY <1>2, <1>3, EmptySeq, LenProperties
  <2>2. /\ Tail(socket.wire) \in Seq(1 .. durable) /\ Len(Tail(socket.wire)) = n - 1
        /\ \A i \in 1 .. Len(Tail(socket.wire)) : Tail(socket.wire)[i] = socket.wire[i + 1]
    BY <1>2, <1>3, HeadTailProperties
  <2>3. e \in 1 .. durable
    BY <1>2, <1>3, HeadTailProperties
  <2>4. DOMAIN Tail(socket.wire) = 1 .. n - 1
    BY <2>2, LenProperties
  <2>5. e = socket.wire[1]
    BY <1>2, <1>3
  <2> QED BY <2>1, <2>2, <2>3, <2>4, <2>5
<1>5. Range(Apply(tab.timeline, {e})) = Range(tab.timeline) \cup {e}
  BY <1>1, <1>4, Types, ApplyIs
<1>6. /\ tab'.last = IF e > tab.last THEN e ELSE tab.last
      /\ tab'.timeline = Apply(tab.timeline, {e})
  BY <1>1, <1>2 DEF Screens
<1>7. /\ socket'.at = socket.at /\ socket'.anchor = socket.anchor
      /\ socket'.last = socket.last /\ socket'.wire = Tail(socket.wire)
  BY <1>1, <1>2 DEF Sockets
<1> HIDE DEF e, n
<1>8. /\ Range(socket.wire) = Range(Tail(socket.wire)) \cup {e}
      /\ \A i \in 1 .. n : e <= socket.wire[i]
  <2>1. \A i \in 1 .. n : i = 1 \/ (i - 1 \in 1 .. n - 1 /\ i = (i - 1) + 1)
    BY <1>4
  <2>2. \A i \in 1 .. n - 1 : i + 1 \in 1 .. n
    BY <1>4
  <2>3. \A i \in 1 .. n : 1 < i \/ i = 1
    BY <1>4
  <2>4. \A i \in 1 .. n : socket.wire[i] \in 1 .. durable
    BY <1>3, ElementOfSeq DEF n
  <2>5. \A i \in 1 .. n : i = 1 \/ e < socket.wire[i]
    BY <1>4, <2>3 DEF RelayInv, WireInOrder
  <2>6. \A i \in 1 .. n : e <= socket.wire[i]
    BY <1>4, <2>4, <2>5
  <2>7. ASSUME NEW i \in 1 .. n
        PROVE  socket.wire[i] \in Range(Tail(socket.wire)) \cup {e}
    <3>1. CASE i = 1
      BY <1>4, <3>1
    <3>2. CASE i - 1 \in 1 .. n - 1 /\ i = (i - 1) + 1
      <4>1. Tail(socket.wire)[i - 1] = socket.wire[i]
        BY <1>4, <3>2, Zenon
      <4> QED BY <1>4, <3>2, <4>1, Zenon DEF Range
    <3> QED BY <2>1, <3>1, <3>2
  <2>8. \A i \in 1 .. n - 1 : Tail(socket.wire)[i] \in Range(socket.wire)
    BY <1>4, <2>2, Zenon DEF Range
  <2>9. e \in Range(socket.wire)
    BY <1>4, Zenon DEF Range
  <2>10. Range(socket.wire) \subseteq Range(Tail(socket.wire)) \cup {e}
    BY <1>4, <2>7, Zenon DEF Range
  <2>11. Range(Tail(socket.wire)) \cup {e} \subseteq Range(socket.wire)
    BY <1>4, <2>8, <2>9, Zenon DEF Range
  <2> QED BY <2>6, <2>10, <2>11
<1>9. WireInOrder'
  <2>1. \A i, j \in 1 .. n - 1 : i < j => i + 1 < j + 1 /\ i + 1 \in 1 .. n /\ j + 1 \in 1 .. n
    BY <1>4
  <2>2. \A i, j \in 1 .. n - 1 : i < j => Tail(socket.wire)[i] < Tail(socket.wire)[j]
    BY <1>4, <2>1, Zenon DEF RelayInv, WireInOrder
  <2>3. \A i \in 1 .. n - 1 : i + 1 \in 1 .. n
    BY <1>4
  <2>4. \A i \in 1 .. n - 1 : Tail(socket.wire)[i] <= socket.last
    BY <1>4, <2>3, Zenon DEF RelayInv, WireInOrder
  <2>5. socket.at \notin {"none", "retrying", "accepted", "subscribed", "unsubscribed"}
    BY <1>2, Zenon DEF RelayInv, WireInOrder
  <2> QED BY <1>4, <1>7, <2>2, <2>4, <2>5, Zenon DEF WireInOrder
<1>10. PassedIsKnown'
  <2>1. ASSUME NEW f \in 1 .. socket.last
        PROVE  f \in Range(tab'.timeline) \/ f \in Range(socket'.wire) \/ Gone(f)
    BY <1>5, <1>6, <1>7, <1>8, Zenon DEF RelayInv, PassedIsKnown
  <2>2. ASSUME NEW f \in 1 .. tab'.last
        PROVE  f \in Range(tab'.timeline) \/ Gone(f)
    <3>1. f \in 1 .. tab.last \/ f \in 1 .. e
      BY <1>1, <1>4, <1>6, Types
    <3>2. CASE f \in 1 .. tab.last
      BY <1>5, <1>6, <3>2, Zenon DEF RelayInv, PassedIsKnown
    <3>3. CASE f \in 1 .. e
      <4>0. e <= socket.last
        BY <1>4, Zenon DEF RelayInv, WireInOrder
      <4>1. e <= socket.last /\ socket.last \in Nat /\ e \in Nat
        BY <1>1, <1>4, <4>0, Types
      <4>2. f \in 1 .. socket.last
        BY <3>3, <4>1
      <4>3. f \in Range(tab.timeline) \/ f \in Range(socket.wire) \/ Gone(f)
        BY <4>2, Zenon DEF RelayInv, PassedIsKnown
      <4>4. CASE f \in Range(socket.wire)
        <5>1. PICK i \in 1 .. n : f = socket.wire[i]
          BY <1>4, <4>4, Zenon DEF Range
        <5>2. f = e
          BY <1>8, <3>3, <4>1, <5>1
        <5> QED BY <1>5, <1>6, <5>2, Zenon
      <4> QED BY <1>5, <1>6, <4>3, <4>4, Zenon
    <3> QED BY <3>1, <3>2, <3>3
  <2> QED BY <1>2, <1>7, <2>1, <2>2, Zenon DEF PassedIsKnown, Gone
<1>11. AnchorIsPassed'
  BY <1>2, <1>7, Zenon DEF RelayInv, AnchorIsPassed
<1> QED BY <1>9, <1>10, <1>11

\* Every step keeps what the handler and the screen have passed accounted for.
LEMMA RelayNext == Total <= SocketPage => (RelayInv /\ [Next]_vars => RelayInv')
<1> SUFFICES ASSUME Total <= SocketPage, RelayInv, [Next]_vars PROVE RelayInv'
  OBVIOUS
<1>1. Typed
  BY DEF RelayInv
<1>2. Typed' /\ PublishedOrMissed'
  BY <1>1, TypedNext, PublishedNext DEF RelayInv
<1>3. ASSUME tab'.last = tab.last
      PROVE  \A f \in 1 .. tab'.last : f \in Range(tab'.timeline) \/ Gone(f)'
  <2> SUFFICES ASSUME NEW f \in 1 .. tab.last
               PROVE  f \in Range(tab'.timeline) \/ Gone(f)'
    BY <1>3, Zenon
  <2>1. f \in 1 .. durable
    BY <1>1, Types
  <2>2. f \in Range(tab.timeline) \/ Gone(f)
    BY Zenon DEF RelayInv, PassedIsKnown
  <2>3. CASE f \in Range(tab.timeline)
    BY <1>1, <2>3, ShownStays
  <2>4. CASE Gone(f)
    BY <1>1, <2>1, <2>4, GoneStays
  <2> QED BY <2>2, <2>3, <2>4
<1>4. ASSUME NEW f \in 1 .. socket.last
      PROVE  f \in Range(tab'.timeline) \/ f \in Range(socket.wire) \/ Gone(f)'
  <2>1. f \in 1 .. durable
    BY <1>1, Types
  <2>2. f \in Range(tab.timeline) \/ f \in Range(socket.wire) \/ Gone(f)
    BY Zenon DEF RelayInv, PassedIsKnown
  <2>3. CASE f \in Range(tab.timeline)
    BY <1>1, <2>3, ShownStays
  <2>4. CASE Gone(f)
    BY <1>1, <2>1, <2>4, GoneStays
  <2> QED BY <2>2, <2>3, <2>4
<1>5. CASE tab'.last = tab.last /\ socket' = socket
  <2>1. WireInOrder'
    BY <1>5, Zenon DEF RelayInv, WireInOrder
  <2>2. PassedIsKnown'
    BY <1>3, <1>4, <1>5, Zenon DEF PassedIsKnown
  <2>3. \A i \in 1 .. socket.anchor : stream'[i] = stream[i]
    <3>1. \A i \in 1 .. socket.anchor : i \in 1 .. Len(stream)
      BY <1>1, Types
    <3>2. stream' = stream \/ \E f \in 1 .. Total : Publish(f)
      BY Zenon DEF Next, vars, Commit, PublishFails, Connect, Subscribe, SubscribeFails, CatchUp,
         Relay, Refused, Break, BeginRun, BeginEvents, BeginFails, Ingest, RefreshReads,
         RefreshArrives, RefreshFails, Leave
    <3>3. ASSUME NEW f \in 1 .. Total, Publish(f)
          PROVE  \A i \in 1 .. Len(stream) : stream'[i] = stream[i]
      BY <1>1, <3>3, PublishDoes
    <3> QED BY <3>1, <3>2, <3>3
  <2>4. AnchorIsPassed'
    BY <1>5, <2>3, Zenon DEF RelayInv, AnchorIsPassed
  <2> QED BY <1>2, <2>1, <2>2, <2>4 DEF RelayInv
<1>6. CASE /\ tab'.last = tab.last
           /\ socket'.at \in {"none", "retrying", "accepted"}
           /\ socket'.wire = << >> /\ (socket'.last = 0 \/ socket'.last = tab.last)
  <2>1. WireInOrder'
    BY <1>6 DEF WireInOrder
  <2>2. AnchorIsPassed'
    BY <1>6 DEF AnchorIsPassed
  <2>3. \A f : f \in 1 .. 0 => FALSE
    OBVIOUS
  <2>4. PassedIsKnown'
    BY <1>3, <1>6, <2>3, Zenon DEF PassedIsKnown
  <2> QED BY <1>2, <2>1, <2>2, <2>4 DEF RelayInv
<1>7. CASE /\ tab'.last = tab.last
           /\ socket'.at \in {"subscribed", "unsubscribed"}
           /\ socket'.wire = << >> /\ socket'.last = socket.last
           /\ socket.wire = << >>
  <2>1. WireInOrder'
    BY <1>7 DEF WireInOrder
  <2>2. AnchorIsPassed'
    BY <1>7 DEF AnchorIsPassed
  <2>3. PassedIsKnown'
    BY <1>3, <1>4, <1>7, Zenon DEF PassedIsKnown
  <2> QED BY <1>2, <2>1, <2>2, <2>3 DEF RelayInv
<1>8. CASE CatchUp \/ Relay \/ Ingest
  BY <1>2, <1>8, CatchUpKeeps, RelayKeeps, IngestKeeps DEF RelayInv
<1> QED
  BY <1>1, <1>5, <1>6, <1>7, <1>8, RelayStep DEF RelayInv

\* A screen that has caught up shows every event that was published in order: what it
\* does not show was not published yet, was lost by its publisher or was published
\* behind a later one.  So no handover from REST to replay to relay, and no reconnect,
\* loses an event (realtime.py, the order of subscription and history), of a run whose
\* log the replay can bring in one page.
THEOREM NoHandoverLoses == ASSUME Total <= SocketPage PROVE Spec => []HolesWereMissed
<1>1. Init => RelayInv
  <2> SUFFICES ASSUME Init PROVE RelayInv
    OBVIOUS
  <2>1. PublishedOrMissed
    BY DEF Init, PublishedOrMissed
  <2>2. WireInOrder /\ PassedIsKnown /\ AnchorIsPassed
    BY DEF Init, WireInOrder, PassedIsKnown, AnchorIsPassed, NoSocket
  <2> QED BY <2>1, <2>2, TypedInit DEF RelayInv
<1>2. RelayInv => HolesWereMissed
  <2> SUFFICES ASSUME RelayInv, CaughtUp, NEW e \in 1 .. durable, e \notin Range(tab.timeline)
               PROVE  e \in unsent \cup missed
    BY Zenon DEF HolesWereMissed, Missing
  <2>1. Typed /\ socket.at = "relaying" /\ socket.anchor = Len(stream) /\ socket.wire = << >>
    BY DEF RelayInv, CaughtUp
  <2>2. e \in unsent \cup missed \cup Range(stream)
    BY DEF RelayInv, PublishedOrMissed
  <2>3. CASE e \in Range(stream)
    <3>1. DOMAIN stream = 1 .. Len(stream)
      BY <2>1, Types, LenProperties
    <3>2. e <= socket.last
      BY <2>1, <2>3, <3>1, Zenon DEF Range, RelayInv, AnchorIsPassed
    <3>3. e \in 1 .. socket.last
      BY <2>1, <3>2, Types
    <3>4. Range(socket.wire) = {}
      BY <2>1 DEF Range
    <3>5. Gone(e)
      BY <3>3, <3>4, Zenon DEF RelayInv, PassedIsKnown
    <3> QED BY <3>5, Zenon DEF Gone
  <2> QED BY <2>2, <2>3, Zenon
<1>3. RelayInv /\ [Next]_vars => RelayInv'
  BY RelayNext
<1> QED BY <1>1, <1>2, <1>3, PTL DEF Spec
=============================================================================
