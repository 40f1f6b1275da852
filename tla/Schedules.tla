----------------------------- MODULE Schedules ------------------------------
(***************************************************************************)
(* Recurring runs: the endpoints over the schedules Temporal keeps          *)
(* (routers/schedules.py, TemporalScheduleGateway), and what a firing does  *)
(* (ScheduledRunWorkflow, the activity start_scheduled_run).                *)
(*                                                                          *)
(* Nothing of a schedule is kept on this side: an endpoint looks at it and  *)
(* then acts on it in a second call.  A firing runs its activity up to      *)
(* MaxAttempts times, and an attempt is an execution of start_run with the  *)
(* firing's workflow id as its key: the module extends RunStart, with       *)
(* firings for keys and attempts for requests.  An attempt that was given   *)
(* up on may still be running.                                              *)
(***************************************************************************)
EXTENDS RunStart

CONSTANTS
  Ids,          \* schedule ids, one namespace for all projects
  Projects,
  Calls,        \* HTTP requests
  Pins,         \* the plan versions schedules are created with
  Foreign,      \* ids of schedules in Temporal that this system did not create
  MaxTicks,     \* bound: times a schedule may fire at
  MaxEvents,    \* bound: calls, publications, and times that come, which count twice
  MaxAttempts   \* _SCHEDULED_START_RETRY (3)

\* A firing is known by its schedule and its time, and so is its workflow id.
Firings == Ids \X (1 .. MaxTicks)
Attempts == Firings \X (1 .. MaxAttempts)

\* Nobody is not a call or a schedule either.
ASSUME SchedulesAssumption ==
  /\ Requests = Attempts /\ Keys = Firings
  /\ Foreign \subseteq Ids
  /\ MaxTicks \in Nat /\ MaxEvents \in Nat /\ MaxAttempts \in Nat \ {0}
  /\ Pins \subseteq 0 .. MaxVersion + 1
  /\ Nobody \notin Calls
  /\ Nobody # [by |-> Nobody, paused |-> FALSE]

VARIABLES
  schedules,    \* Temporal: the schedule of each id
  clock,        \* the time that has come
  firings,      \* the executions of ScheduledRunWorkflow
  calls         \* where each HTTP request stands, and what it was answered

schedulesVars == <<vars, schedules, clock, firings, calls>>

-----------------------------------------------------------------------------
\* ScheduledRunParams and the state beside them; by is the call that created it.
Schedule == [project : Projects, version : Pins, paused : BOOLEAN, by : Calls]
NotOurs == [by |-> Nobody, paused |-> FALSE]

Unfired == [at |-> "none", attempt |-> 0]
Idle == [at |-> "idle"]

SchedulesInit ==
  /\ Init
  /\ schedules = [s \in Ids |-> IF s \in Foreign THEN NotOurs ELSE Nobody]
  /\ clock = 0
  /\ firings = [f \in Firings |-> Unfired]
  /\ calls = [c \in Calls |-> Idle]

Exists(s) == schedules[s] # Nobody
Ours(s) == Exists(s) /\ schedules[s] # NotOurs

Room(n) ==
  2 * clock + (latest - 1) + Cardinality({ c \in Calls : calls[c] # Idle }) + n <= MaxEvents

Goes(c, place) == calls' = [calls EXCEPT ![c].at = place]

-----------------------------------------------------------------------------
\* The project is known, and the schedule's fields are what the domain type accepts.
AskCreate(c) ==
  /\ calls[c] = Idle
  /\ Room(1)
  /\ \E s \in Ids, p \in Projects, v \in Pins, q \in BOOLEAN :
       calls' = [calls EXCEPT ![c] =
         [at |-> "creating", kind |-> "create", id |-> s,
          new |-> [project |-> p, version |-> v, paused |-> q, by |-> c]]]
  /\ UNCHANGED <<vars, schedules, clock, firings>>

\* Temporal holds one schedule per id.
CreateSchedule(c) ==
  /\ calls[c].at = "creating"
  /\ LET s == calls[c].id IN
       IF Exists(s)
       THEN Goes(c, "conflict") /\ UNCHANGED schedules
       ELSE Goes(c, "describing") /\ schedules' = [schedules EXCEPT ![s] = calls[c].new]
  /\ UNCHANGED <<vars, clock, firings>>

AskOther(c) ==
  /\ calls[c] = Idle
  /\ Room(1)
  /\ \E kind \in {"pause", "resume", "delete"}, s \in Ids, p \in Projects :
       calls' = [calls EXCEPT ![c] =
         [at |-> "asked", kind |-> kind, id |-> s, project |-> p]]
  /\ UNCHANGED <<vars, schedules, clock, firings>>

\* A bug of the router: any schedule of that id will do.
Owned_AnyProject(c) == Ours(calls[c].id)

\* _owned: there is such a schedule, and it is this project's.
Owned(c) == Ours(calls[c].id) /\ schedules[calls[c].id].project = calls[c].project

\* What cannot be decoded into run parameters raises, wherever it is described.
Look(c) ==
  /\ calls[c].at = "asked"
  /\ LET s == calls[c].id IN
       IF Exists(s) /\ ~Ours(s) THEN Goes(c, "raised")
       ELSE IF ~Owned(c) THEN Goes(c, "not_found")
       ELSE calls' = [calls EXCEPT ![c] =
              [at |-> "owned", kind |-> calls[c].kind, id |-> s,
               project |-> calls[c].project, saw |-> schedules[s].by]]
  /\ UNCHANGED <<vars, schedules, clock, firings>>

\* delete, which does nothing to what is not there.
Delete(c) ==
  /\ calls[c].at = "owned"
  /\ calls[c].kind = "delete"
  /\ schedules' = [schedules EXCEPT ![calls[c].id] = Nobody]
  /\ Goes(c, "done")
  /\ UNCHANGED <<vars, clock, firings>>

\* set_paused reads the whole schedule once more, whosever it is by now.
Fetch(c) ==
  /\ calls[c].at = "owned"
  /\ calls[c].kind # "delete"
  /\ LET s == calls[c].id IN
       IF ~Exists(s) THEN Goes(c, "describing")
       ELSE calls' = [calls EXCEPT ![c] =
              [at |-> "updating", kind |-> calls[c].kind, id |-> s,
               project |-> calls[c].project, saw |-> calls[c].saw, held |-> schedules[s]]]
  /\ UNCHANGED <<vars, schedules, clock, firings>>

\* And it writes all of what it read over what is there by then, if anything is.
WriteBack(c) ==
  /\ calls[c].at = "updating"
  /\ LET s == calls[c].id IN
       schedules' = IF Exists(s)
         THEN [schedules EXCEPT ![s] = [calls[c].held EXCEPT !.paused = (calls[c].kind = "pause")]]
         ELSE schedules
  /\ Goes(c, "describing")
  /\ UNCHANGED <<vars, clock, firings>>

\* The answer says what the schedule is by then; create has nothing to say if it is
\* gone, and what was created elsewhere since cannot be decoded.
Describe(c) ==
  /\ calls[c].at = "describing"
  /\ LET s == calls[c].id IN
       Goes(c, IF Ours(s) THEN "done"
               ELSE IF Exists(s) \/ calls[c].kind = "create" THEN "raised"
               ELSE "not_found")
  /\ UNCHANGED <<vars, schedules, clock, firings>>

\* The ids Temporal lists may lack the newest; each of them is then described.
AskList(c) ==
  /\ calls[c] = Idle
  /\ Room(1)
  /\ \E p \in Projects, S \in SUBSET { s \in Ids : Exists(s) } :
       calls' = [calls EXCEPT ![c] =
         [at |-> "listing", kind |-> "list", project |-> p, left |-> S, found |-> {}]]
  /\ UNCHANGED <<vars, schedules, clock, firings>>

ListNext(c) ==
  /\ calls[c].at = "listing"
  /\ \E s \in calls[c].left :
       IF Exists(s) /\ ~Ours(s) THEN Goes(c, "raised")
       ELSE calls' = [calls EXCEPT
              ![c].left = @ \ {s},
              ![c].found = IF Exists(s) /\ schedules[s].project = calls[c].project
                           THEN @ \cup {s} ELSE @]
  /\ UNCHANGED <<vars, schedules, clock, firings>>

ListEnds(c) ==
  /\ calls[c].at = "listing"
  /\ calls[c].left = {}
  /\ Goes(c, "done")
  /\ UNCHANGED <<vars, schedules, clock, firings>>

-----------------------------------------------------------------------------
Tick ==
  /\ clock < MaxTicks
  /\ Room(2)
  /\ clock' = clock + 1
  /\ UNCHANGED <<vars, schedules, firings, calls>>

\* SKIP: while the last firing is still creating its run, this one is left out.
Fire(s) ==
  /\ clock > 0
  /\ Ours(s)
  /\ ~schedules[s].paused
  /\ firings[<<s, clock>>] = Unfired
  /\ \A t \in 1 .. MaxTicks : firings[<<s, t>>].at # "running"
  /\ firings' = [firings EXCEPT ![<<s, clock>>] =
       [at |-> "running", attempt |-> 0, version |-> schedules[s].version]]
  /\ UNCHANGED <<vars, schedules, clock, calls>>

Current(f) == <<f, firings[f].attempt>>

\* A bug of the workflow: the key is the schedule's, not the firing's.
KeyOf_Schedule(f) == <<f[1], 1>>

\* The firing's own workflow id.
KeyOf(f) == f

\* The first attempt; the next one after a failure, or after the two minutes are over.
Attempt(f) ==
  /\ firings[f].at = "running"
  /\ firings[f].attempt < MaxAttempts
  /\ firings' = [firings EXCEPT ![f].attempt = @ + 1]
  /\ Send(<<f, firings[f].attempt + 1>>,
       [key |-> KeyOf(f), version |-> firings[f].version, explore |-> FALSE, source |-> Nobody])
  /\ UNCHANGED <<schedules, clock, calls>>

\* start_run, in an attempt that is waited for or one that was given up on.
StartRun(a) == Handle(a) /\ UNCHANGED <<schedules, clock, firings, calls>>

PublishPlan ==
  /\ Room(1)
  /\ PublishVersion
  /\ UNCHANGED <<schedules, clock, firings, calls>>

Completes(f) ==
  /\ firings[f].at = "running"
  /\ firings[f].attempt > 0
  /\ Answered(Current(f))
  /\ firings' = [firings EXCEPT ![f] =
       [at |-> "completed", attempt |-> @.attempt, version |-> @.version,
        run |-> RunOf(Current(f))]]
  /\ UNCHANGED <<vars, schedules, clock, calls>>

\* The attempts are used up, or the firing's five minutes are.
Fails(f) ==
  /\ firings[f].at = "running"
  /\ firings' = [firings EXCEPT ![f].at = "failed"]
  /\ UNCHANGED <<vars, schedules, clock, calls>>

-----------------------------------------------------------------------------
SchedulesNext ==
  \/ Tick
  \/ PublishPlan
  \/ \E c \in Calls :
       \/ AskCreate(c)
       \/ CreateSchedule(c)
       \/ AskOther(c)
       \/ Look(c)
       \/ Delete(c)
       \/ Fetch(c)
       \/ WriteBack(c)
       \/ Describe(c)
       \/ AskList(c)
       \/ ListNext(c)
       \/ ListEnds(c)
  \/ \E s \in Ids : Fire(s)
  \/ \E f \in Firings : Attempt(f) \/ Completes(f) \/ Fails(f)
  \/ \E a \in Attempts : StartRun(a)

SchedulesSpec == SchedulesInit /\ [][SchedulesNext]_schedulesVars

-----------------------------------------------------------------------------
\* A firing makes at most one run, whatever is retried, times out or loses its
\* acknowledgement, and one that completes names a run that is its own.
OneRunPerFiring ==
  /\ \A a, b \in rows : a[1] = b[1] => a = b
  /\ \A f \in Firings : firings[f].at = "completed" =>
       firings[f].run \in rows /\ firings[f].run[1] = f

\* A call changes a schedule of its own project, or one that took the id between
\* the call's look at it and its act.
ActsOnWhatItSaw ==
  [][\A s \in Ids : Exists(s) /\ schedules'[s] # schedules[s] =>
       \E c \in Calls :
         /\ calls[c].at \in {"owned", "updating"}
         /\ calls[c].id = s
         /\ \/ schedules[s].by # calls[c].saw
            \/ schedules[s].project = calls[c].project]_schedulesVars

\* "without this check a caller could pause or delete another project's nightly
\* regression" (routers/schedules.py:119): with it, none does.
ActsWithinProject ==
  [][\A s \in Ids : Ours(s) /\ schedules'[s] # schedules[s] =>
       \E c \in Calls :
         /\ calls[c].at \in {"owned", "updating"}
         /\ calls[c].id = s
         /\ schedules[s].project = calls[c].project]_schedulesVars

\* "a firing that silently produced nothing is a regression nobody ran and nobody
\* noticed" (activities.py:289): a firing that completed has a run that executes.
CompletedFiringRuns ==
  \A f \in Firings : firings[f].at = "completed" => firings[f].run \in workflows

\* "a schedule managed elsewhere is still worth listing" (schedules.py:46): a
\* listing is answered.
ListingIsAnswered ==
  \A c \in Calls : calls[c].at = "raised" => calls[c].kind # "list"
=============================================================================
