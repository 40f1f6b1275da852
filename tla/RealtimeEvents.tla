--------------------------- MODULE RealtimeEvents ---------------------------
(***************************************************************************)
(* Watching a run: the events that are published after their commit         *)
(* (application/services/event_publishing.py, infrastructure/cache/redis/   *)
(* streams.py), the socket that replays and relays them                     *)
(* (interfaces/http/routers/realtime.py), the stream that reconnects        *)
(* (frontend run-events.ts) and the screen (watch-run.ts, timeline.ts).     *)
(*                                                                          *)
(* An event is its sequence number and the status of a run is the number of *)
(* events it has: 1 is run.created, the others are run.status.changed, and  *)
(* the last of them is terminal.  Every action is what one side does        *)
(* between two awaits.                                                      *)
(***************************************************************************)
EXTENDS Integers, FiniteSets, SequencesExt

CONSTANTS
  Total,       \* events of the run; a finished run has had them all
  RestPage,    \* DEFAULT_EVENT_PAGE_SIZE (100)
  SocketPage,  \* the page the socket replays (500)
  MaxLost,     \* bound: publishes that fail
  MaxFaults    \* bound: sockets that break, subscriptions and reads that fail

ASSUME RealtimeAssumption ==
  /\ {Total, RestPage, SocketPage} \subseteq Nat \ {0}
  /\ {MaxLost, MaxFaults} \subseteq Nat

VARIABLES
  durable,    \* events in run_events
  unsent,     \* committed, not yet published by whoever committed them
  stream,     \* the Redis stream of the run
  missed,     \* history: not published, or published after a later one
  tab,        \* the screen: its run, its timeline, and whether it was left
  socket,     \* the connection of the tab and its handler
  refreshes,  \* re-reads of the run: asked for, and the answers on their way
  faults

vars == <<durable, unsent, stream, missed, tab, socket, refreshes, faults>>

Terminal(version) == version = Total
StatusChanged(e) == e > 1

Page(after, limit) == { e \in 1 .. durable : e > after /\ e <= after + limit }

\* The members of a set of numbers, in their order.
Ordered(S) ==
  [i \in 1 .. Cardinality(S) |-> CHOOSE e \in S : Cardinality({ f \in S : f < e }) = i - 1]

-----------------------------------------------------------------------------
\* The run and its publishers.  A status changes and its event is durable in one
\* transaction; the fan-out follows, best-effort, each in a process of its own.

Commit ==
  /\ durable < Total
  /\ durable' = durable + 1
  /\ unsent' = unsent \cup {durable + 1}
  /\ UNCHANGED <<stream, missed, tab, socket, refreshes, faults>>

Publish(e) ==
  /\ e \in unsent
  /\ unsent' = unsent \ {e}
  /\ stream' = Append(stream, e)
  /\ missed' = IF \E later \in Range(stream) : later > e THEN missed \cup {e} ELSE missed
  /\ UNCHANGED <<durable, tab, socket, refreshes, faults>>

PublishFails(e) ==
  /\ e \in unsent
  /\ Cardinality(missed) < MaxLost
  /\ unsent' = unsent \ {e}
  /\ missed' = missed \cup {e}
  /\ UNCHANGED <<durable, stream, tab, socket, refreshes, faults>>

-----------------------------------------------------------------------------
\* The handler of a socket.

NoSocket == [at |-> "none", anchor |-> 0, last |-> 0, wire |-> << >>]
Retrying == [NoSocket EXCEPT !.at = "retrying"]

Connect ==
  /\ socket.at = "retrying"
  /\ socket' = [NoSocket EXCEPT !.at = "accepted", !.last = tab.last]
  /\ UNCHANGED <<durable, unsent, stream, missed, tab, refreshes, faults>>

\* Anchored at the end of the stream before history is read.
Subscribe ==
  /\ socket.at = "accepted"
  /\ socket' = [socket EXCEPT !.at = "subscribed", !.anchor = Len(stream)]
  /\ UNCHANGED <<durable, unsent, stream, missed, tab, refreshes, faults>>

\* Realtime is optional: without it the history is still sent.
SubscribeFails ==
  /\ socket.at = "accepted"
  /\ faults < MaxFaults /\ faults' = faults + 1
  /\ socket' = [socket EXCEPT !.at = "unsubscribed"]
  /\ UNCHANGED <<durable, unsent, stream, missed, tab, refreshes>>

\* A bug of the handler: it only relays what comes next.
History_Skipped(events) == [socket EXCEPT !.at = IF @ = "subscribed" THEN "relaying" ELSE "unavailable"]

History(events) ==
  [socket EXCEPT !.at = IF @ = "subscribed" THEN "relaying" ELSE "unavailable",
                 !.wire = Ordered(events), !.last = IF events = {} THEN @ ELSE Max(events)]

CatchUp ==
  /\ socket.at \in {"subscribed", "unsubscribed"}
  /\ socket' = History(Page(socket.last, SocketPage))
  /\ UNCHANGED <<durable, unsent, stream, missed, tab, refreshes, faults>>

\* What the catch-up covered is skipped, and so is anything that comes out of order.
Relay ==
  /\ socket.at = "relaying" /\ socket.anchor < Len(stream)
  /\ LET e == stream[socket.anchor + 1]
         passed == [socket EXCEPT !.anchor = @ + 1]
     IN  socket' = IF e <= socket.last THEN passed
                   ELSE [passed EXCEPT !.last = e, !.wire = Append(@, e)]
  /\ UNCHANGED <<durable, unsent, stream, missed, tab, refreshes, faults>>

\* CLOSE_REALTIME_UNAVAILABLE: the tab connects again.
Refused ==
  /\ socket.at = "unavailable" /\ socket.wire = << >>
  /\ socket' = Retrying
  /\ UNCHANGED <<durable, unsent, stream, missed, tab, refreshes, faults>>

\* A network, a server or a Redis that goes away.
Break ==
  /\ socket.at \notin {"none", "retrying"}
  /\ faults < MaxFaults /\ faults' = faults + 1
  /\ socket' = Retrying
  /\ UNCHANGED <<durable, unsent, stream, missed, tab, refreshes>>

-----------------------------------------------------------------------------
\* The screen.

\* A bug of the timeline: what arrives is appended.
Apply_Appends(timeline, events) == timeline \o Ordered(events)

Apply(timeline, events) == Ordered(Range(timeline) \cup events)

\* The run is read first, its events after it.
BeginRun ==
  /\ tab.at = "opening"
  /\ tab' = [tab EXCEPT !.at = "opened", !.run = durable]
  /\ UNCHANGED <<durable, unsent, stream, missed, socket, refreshes, faults>>

\* A bug of the screen: it watches whatever it has opened.
Watches_Always == TRUE

\* Only a run that is not over, and only while somebody looks at it.
Watches == ~Terminal(tab.run) /\ ~tab.stopped

BeginEvents ==
  /\ tab.at = "opened"
  /\ tab' = [tab EXCEPT !.at = IF Terminal(tab.run) THEN "over" ELSE "watching",
                        !.timeline = Apply(@, Page(0, RestPage))]
  /\ socket' = IF Watches THEN Retrying ELSE socket
  /\ UNCHANGED <<durable, unsent, stream, missed, refreshes, faults>>

BeginFails ==
  /\ tab.at \in {"opening", "opened"}
  /\ faults < MaxFaults /\ faults' = faults + 1
  /\ tab' = [tab EXCEPT !.at = "failed"]
  /\ UNCHANGED <<durable, unsent, stream, missed, socket, refreshes>>

\* A frame moves the cursor; an event that is new is told, and if it says that the
\* status changed the run is read again.
Ingest ==
  /\ socket.wire # << >>
  /\ LET e == Head(socket.wire)
         new == e \notin Range(tab.timeline)
     IN  /\ tab' = [tab EXCEPT !.timeline = Apply(@, {e}), !.last = IF e > @ THEN e ELSE @]
         /\ refreshes' = IF new /\ StatusChanged(e) THEN [refreshes EXCEPT !.asked = @ + 1]
                         ELSE refreshes
  /\ socket' = [socket EXCEPT !.wire = Tail(@)]
  /\ UNCHANGED <<durable, unsent, stream, missed, faults>>

RefreshReads ==
  /\ refreshes.asked > 0
  /\ refreshes' = [asked |-> refreshes.asked - 1, answers |-> refreshes.answers \cup {durable}]
  /\ UNCHANGED <<durable, unsent, stream, missed, tab, socket, faults>>

\* The answers come in any order, and the last to come is what is shown.
RefreshArrives(version) ==
  /\ version \in refreshes.answers
  /\ refreshes' = [refreshes EXCEPT !.answers = @ \ {version}]
  /\ tab' = [tab EXCEPT !.run = version, !.at = IF Terminal(version) THEN "over" ELSE @]
  /\ socket' = IF Terminal(version) THEN NoSocket ELSE socket
  /\ UNCHANGED <<durable, unsent, stream, missed, faults>>

RefreshFails ==
  /\ refreshes.asked > 0
  /\ faults < MaxFaults /\ faults' = faults + 1
  /\ refreshes' = [refreshes EXCEPT !.asked = @ - 1]
  /\ UNCHANGED <<durable, unsent, stream, missed, tab, socket>>

Leave ==
  /\ ~tab.stopped
  /\ tab' = [tab EXCEPT !.stopped = TRUE]
  /\ socket' = NoSocket
  /\ UNCHANGED <<durable, unsent, stream, missed, refreshes, faults>>

Init ==
  /\ durable \in 1 .. Total
  /\ unsent = 1 .. durable
  /\ stream = << >>
  /\ missed = {}
  /\ tab = [at |-> "opening", run |-> 0, timeline |-> << >>, last |-> 0, stopped |-> FALSE]
  /\ socket = NoSocket
  /\ refreshes = [asked |-> 0, answers |-> {}]
  /\ faults = 0

Next ==
  \/ Commit
  \/ \E e \in 1 .. Total : Publish(e) \/ PublishFails(e)
  \/ Connect \/ Subscribe \/ SubscribeFails \/ CatchUp \/ Relay \/ Refused \/ Break
  \/ BeginRun \/ BeginEvents \/ BeginFails
  \/ Ingest
  \/ RefreshReads \/ (\E v \in 1 .. Total : RefreshArrives(v)) \/ RefreshFails
  \/ Leave

Spec == Init /\ [][Next]_vars

-----------------------------------------------------------------------------
\* The timeline is the durable story: the screen implements RunView, whatever is lost,
\* repeated or overtaken on the way ("never from arrival order", timeline.ts).
View == INSTANCE RunView WITH log <- durable, view <- tab.timeline
TimelineIsTheLog == View!Spec

Watching == tab.at = "watching" /\ ~tab.stopped
CaughtUp == socket.at = "relaying" /\ socket.anchor = Len(stream) /\ socket.wire = << >>
Missing == (1 .. durable) \ Range(tab.timeline)

\* What a screen that has caught up does not show was not published, or was published
\* after a later event: no handover from REST to replay to relay, and no reconnect,
\* loses an event ("delivered instead of lost", realtime.py).
HolesWereMissed == Watching /\ CaughtUp => Missing \subseteq unsent \cup missed

\* Nothing listens to a run that is shown finished, and nothing to one nobody looks at
\* ("a socket that keeps retrying against it", watch-run.ts).
NobodyListensInVain == tab.stopped \/ tab.at = "over" \/ Terminal(tab.run) => socket = NoSocket

\* "a dropped publish costs nothing but freshness" (event_publishing.py): a screen that
\* shows an event shows those before it.
DroppedIsRepaired == Watching /\ CaughtUp /\ unsent = {} => Missing \subseteq {durable}

InFlight == refreshes.asked > 0 \/ refreshes.answers # {}

\* "it is the same answer a reload would produce" (watch-run.ts), of a screen that
\* knows of every event and waits for nothing.
SettledIsCurrent ==
  (Watching /\ CaughtUp /\ Missing = {} /\ ~InFlight /\ faults = 0) => tab.run = durable

\* The same of two answers: the run on the screen does not go back.
ShownNeverOlder == [][tab'.run >= tab.run]_vars
=============================================================================
