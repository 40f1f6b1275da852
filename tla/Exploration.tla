----------------------------- MODULE Exploration -----------------------------
(***************************************************************************)
(* One exploring episode of a run: the frontier (domain/exploration/        *)
(* frontier.py), the exploring branch of the graph (langgraph/graph.py),    *)
(* its checkpoints and its browser (langgraph/episode_runner.py), the map   *)
(* the activity stores (activities.py) and its comparison with the map of   *)
(* an earlier run (application/queries/exploration_report.py).              *)
(*                                                                          *)
(* A node of the graph is one step.  The worker may die between any two;    *)
(* the next attempt resumes from the newest checkpoint with a new browser,  *)
(* which is on the page its session starts with.                            *)
(***************************************************************************)
EXTENDS PolicyGuard, ExplorationMap

CONSTANTS
  Sites,         \* applications: the page it starts on, and for every page its route,
                 \* its markup, its origin, where it redirects to and its clicks lead
  Policies,      \* policies a run may be governed by
  Baselines,     \* maps an earlier run may have left, or NoMap
  DefaultDepth,  \* default_depth of ExplorationBudget.under (4)
  MaxStates,     \* max_explored_states of the worker (50)
  MaxRecoveries, \* MAX_RECOVERY_ATTEMPTS (2)
  MaxFailures    \* bound: workers that die, pages that do not load or describe

\* An application is closed: whatever a page offers leads to a page of it.
SiteOK(s) ==
  LET pages == DOMAIN s.route
      controls == UNION { ToSet(s.offers[p]) : p \in pages }
  IN  /\ DOMAIN s = {"start", "route", "offers", "origin", "lands", "clicks"}
      /\ s.route \in [pages -> Routes]
      /\ s.start \in pages /\ s.lands \in [pages -> pages]
      /\ DOMAIN s.offers = pages
      /\ \A p \in pages : s.offers[p] \in Seq(Affordances(pages))
      /\ \A p \in pages, a \in controls : \A b \in ToSet(s.offers[p]) :
           Clickable(a) /\ ~b.disabled /\ b.key = a.key
             => s.clicks[p][a.key] \in pages

\* Pages that look the same are the same: they offer the same and lead to the same places.
PagesAgree(s) ==
  LET seen(p) == Signature([route |-> s.route[p], offers |-> s.offers[p]])
  IN  \A p, q \in DOMAIN s.route :
        seen(p) = seen(q) => s.offers[p] = s.offers[q] /\ s.clicks[p] = s.clicks[q]

NoMap == [reason |-> "none"]

ASSUME ExplorationAssumption ==
  /\ \A s \in Sites : SiteOK(s)
  /\ \A p \in Policies : PolicyOK(p)
  /\ \A b \in Baselines \ {NoMap} :
       IsFiniteSet(Signatures(b.states)) /\ Signatures(b.states) \subseteq DOMAIN Digest
  /\ MaxStates \in Nat \ {0}
  /\ {DefaultDepth, MaxRecoveries, MaxFailures} \subseteq Nat

VARIABLES
  site,      \* the application, as it is read
  policy,    \* the run's policy
  baseline,  \* the map of the previous exploration of the project
  node,      \* the node the attempt is about to run
  g,         \* the channels of its graph
  page,      \* the page in its browser
  saved,     \* the newest checkpoint of the run's thread
  stored,    \* explored_states and exploration_runs of the run
  executed,  \* history: what was sent to a browser
  excused,   \* history: what a dead worker had done and no checkpoint says
  gap,       \* history: a page was taken and not looked at, or looked at and not seen
  failures   \* how much of MaxFailures is used up

inputs == <<site, policy, baseline>>
history == <<executed, excused, gap>>
explorationVars == <<inputs, node, g, page, saved, stored, history, failures>>

NoEntry == [depth |-> 0]
GraphNodes == {"explore", "act", "verify", "checkpoint", "recover", "verify_criteria",
               "close_episode"}

-----------------------------------------------------------------------------
\* The frontier.

\* What an exploration may spend; never more than the policy.
MaxActions == policy.maxActions
MaxDepth == IF policy.maxDepth = -1 THEN DefaultDepth ELSE policy.maxDepth

\* A link whose URL is known is followed by navigating, anything else is clicked.
ExplorationAction(a) ==
  IF a.to # "none"
  THEN [type |-> "navigate", url |-> site.origin[a.to], value |-> "none", sideEffect |-> FALSE]
  ELSE [type |-> "click", url |-> "none", value |-> "none", sideEffect |-> TRUE]

Takeable(a) == Clickable(a) /\ Allowed(ExplorationAction(a), policy)

EmptyFrontier == [visited |-> << >>, depth |-> << >>, pending |-> << >>, offered |-> {},
                  taken |-> 0, declined |-> 0]

Seen(frontier, state) == Signature(state) \in Signatures(frontier.visited)

Key(entry) == <<entry.from, entry.affordance.key>>

\* Shallowest first, then by key.
Ahead(entry, other) ==
  \/ entry.depth < other.depth
  \/ entry.depth = other.depth /\ entry.affordance.key <= other.affordance.key

\* What was there before stays before its equals.
Insert(queue, entry) ==
  InsertAt(queue, Cardinality({ i \in DOMAIN queue : Ahead(queue[i], entry) }) + 1, entry)

\* Offered once: what this run may not take is counted, never queued.
Offer(frontier, from, a, depth) ==
  LET entry == [from |-> from, affordance |-> a, depth |-> depth] IN
  IF ~Takeable(a) THEN [frontier EXCEPT !.declined = @ + 1]
  ELSE IF Key(entry) \in frontier.offered THEN frontier
  ELSE [frontier EXCEPT !.offered = @ \cup {Key(entry)}, !.pending = Insert(@, entry)]

\* Everything a state offers, in page order.
Enqueue(frontier, state, depth) ==
  LET after[i \in 0 .. Len(state.offers)] ==
        IF i = 0 THEN frontier ELSE Offer(after[i - 1], Signature(state), state.offers[i], depth)
  IN  after[Len(state.offers)]

\* Bugs of the frontier: a page is pruned one step early, and every arrival queues its
\* affordances again.
Record_PrunesEarly(frontier, state, depth) ==
  IF Seen(frontier, state) THEN frontier
  ELSE LET met == [frontier EXCEPT !.visited = Append(@, state), !.depth = Append(@, depth)]
       IN  IF depth + 1 < MaxDepth THEN Enqueue(met, state, depth + 1) ELSE met
Record_Reopens(frontier, state, depth) ==
  LET met == IF Seen(frontier, state) THEN frontier
             ELSE [frontier EXCEPT !.visited = Append(@, state), !.depth = Append(@, depth)]
  IN  IF depth < MaxDepth THEN Enqueue([met EXCEPT !.offered = {}], state, depth + 1) ELSE met

\* A state's affordances are queued at its first sighting only; a shorter way to it is
\* remembered and reopens nothing.
Record(frontier, state, depth) ==
  IF Seen(frontier, state)
  THEN [frontier EXCEPT !.depth = [i \in DOMAIN @ |->
          IF Signature(frontier.visited[i]) = Signature(state) /\ depth < @[i]
          THEN depth ELSE @[i]]]
  ELSE LET met == [frontier EXCEPT !.visited = Append(@, state), !.depth = Append(@, depth)]
       IN  IF depth < MaxDepth THEN Enqueue(met, state, depth + 1) ELSE met

\* A bug of the frontier: the next entry is looked at and stays where it is.
Take_Peeks(frontier) == frontier

Take(frontier) == [frontier EXCEPT !.pending = Tail(@), !.taken = @ + 1]

\* Why to stop, in the order of the code: a budget is an interruption, an empty
\* frontier an outcome.  No caller says that a goal was reached.
StopReason(frontier, late) ==
  IF late THEN "deadline"
  ELSE IF frontier.taken >= MaxActions THEN "max_actions"
  ELSE IF Len(frontier.visited) >= MaxStates THEN "max_states"
  ELSE IF frontier.pending = << >> THEN "frontier_exhausted"
  ELSE "none"

Complete(reason) == reason \in {"goal_reached", "frontier_exhausted"}

-----------------------------------------------------------------------------
\* The graph.

Fresh == [frontier |-> EmptyFrontier, depth |-> 0, report |-> "none", pending |-> NoEntry,
          ok |-> FALSE, denied |-> FALSE, goal |-> FALSE, failed |-> FALSE, recoveries |-> 0]

\* A node returns; its checkpoint is written while the next one already runs, and only
\* the end of the graph waits for it.
Reach(next, channels) ==
  /\ node' = next
  /\ g' = channels
  /\ \/ saved' = [node |-> next, g |-> channels]
     \/ next # "end" /\ UNCHANGED saved

Described == [route |-> site.route[page], offers |-> site.offers[page]]

\* A page that moves while it is described is one that offers nothing.
Undescribed == [route |-> site.route[page], offers |-> << >>]

\* Where the last action led and what to try next are one decision.
Explored(state, late) ==
  LET frontier == Record(g.frontier, state, g.depth)
      reason == StopReason(frontier, late)
  IN  IF reason # "none"
      THEN [g EXCEPT !.frontier = frontier, !.pending = NoEntry, !.report = reason,
                     !.goal = Complete(reason), !.failed = @ \/ ~Complete(reason)]
      ELSE [g EXCEPT !.frontier = Take(frontier), !.pending = Head(frontier.pending),
                     !.depth = Head(frontier.pending).depth]

Explore ==
  /\ node = "explore"
  /\ \E late \in BOOLEAN : Reach("act", Explored(Described, late))
  /\ UNCHANGED <<inputs, page, stored, history, failures>>

ExploreBlind ==
  /\ node = "explore"
  /\ Described # Undescribed
  /\ failures < MaxFailures
  /\ failures' = failures + 1
  /\ \E late \in BOOLEAN : Reach("act", Explored(Undescribed, late))
  /\ gap' = TRUE
  /\ UNCHANGED <<inputs, page, stored, executed, excused>>

Acted(ok, denied) == [g EXCEPT !.ok = ok, !.denied = denied]

ActNothing ==
  /\ node = "act"
  /\ g.pending = NoEntry
  /\ Reach("verify", Acted(TRUE, FALSE))
  /\ UNCHANGED <<inputs, page, stored, history, failures>>

\* Where the action leads: a click needs the control on the page the browser is on,
\* which need not be the page that offered it.
OnPage(a) == \E i \in DOMAIN site.offers[page] :
               /\ site.offers[page][i].key = a.key
               /\ ~site.offers[page][i].disabled
Target(a) == IF a.to # "none" THEN site.lands[a.to] ELSE site.clicks[page][a.key]
Performable(a) == a.to # "none" \/ OnPage(a)

\* A navigation that ends outside the allowed origins is refused after the fact.
ActLands ==
  /\ node = "act"
  /\ g.pending # NoEntry
  /\ LET a == g.pending.affordance
         fits == LandingAllowed(ExplorationAction(a), site.origin[Target(a)], policy) IN
       /\ Performable(a)
       /\ page' = Target(a)
       /\ Reach("verify", Acted(fits, ~fits))
       /\ gap' = (gap \/ ~fits \/ (a.to = "none" /\ Signature(Described) # g.pending.from))
  /\ executed' = executed \cup {Key(g.pending)}
  /\ UNCHANGED <<inputs, stored, excused, failures>>

\* The control is not there, or the page does not load: an error page the navigation
\* leaves behind is refused for its origin.
ActFails ==
  /\ node = "act"
  /\ g.pending # NoEntry
  /\ \/ ~Performable(g.pending.affordance) /\ UNCHANGED failures
     \/ failures < MaxFailures /\ failures' = failures + 1
  /\ \E denied \in BOOLEAN :
       /\ denied => g.pending.affordance.to # "none"
       /\ Reach("verify", Acted(FALSE, denied))
  /\ gap' = TRUE
  /\ executed' = executed \cup {Key(g.pending)}
  /\ UNCHANGED <<inputs, page, stored, excused>>

Verify ==
  /\ node = "verify"
  /\ Reach(IF g.pending = NoEntry \/ g.denied THEN "verify_criteria"
           ELSE IF g.ok THEN "checkpoint" ELSE "recover",
           [g EXCEPT !.failed = @ \/ (g.pending # NoEntry /\ g.denied),
                     !.goal = @ /\ ~(g.pending # NoEntry /\ g.denied)])
  /\ UNCHANGED <<inputs, page, stored, history, failures>>

Checkpoint ==
  /\ node = "checkpoint"
  /\ Reach(IF g.goal THEN "verify_criteria" ELSE "explore", [g EXCEPT !.recoveries = 0])
  /\ UNCHANGED <<inputs, page, stored, history, failures>>

\* A bug of the graph: an exploration asks again for what failed.
AfterRecover_Replays(channels) == IF channels.failed THEN "verify_criteria" ELSE "act"

\* What failed is out of the frontier and is not asked for again.
AfterRecover(channels) == IF channels.failed THEN "verify_criteria" ELSE "explore"

Recover ==
  /\ node = "recover"
  /\ LET tried == [g EXCEPT !.recoveries = @ + 1, !.failed = @ \/ g.recoveries + 1 > MaxRecoveries]
     IN  Reach(AfterRecover(tried), tried)
  /\ UNCHANGED <<inputs, page, stored, history, failures>>

VerifyCriteria ==
  /\ node = "verify_criteria"
  /\ Reach("close_episode", g)
  /\ UNCHANGED <<inputs, page, stored, history, failures>>

CloseEpisode ==
  /\ node = "close_episode"
  /\ Reach("end", g)
  /\ UNCHANGED <<inputs, page, stored, history, failures>>

-----------------------------------------------------------------------------
\* The activity.

StateMap == [states |-> g.frontier.visited, complete |-> Complete(g.report),
             reason |-> g.report, taken |-> g.frontier.taken,
             remaining |-> Len(g.frontier.pending), declined |-> g.frontier.declined]

\* What the repository leaves of a run's maps: the last one, replaced and never
\* appended to.
Recorded(map) == map

\* An episode without a report has no map.
RecordStateMap ==
  /\ node = "end"
  /\ stored' = IF g.report = "none" THEN stored ELSE Recorded(StateMap)
  /\ node' = "recorded"
  /\ UNCHANGED <<inputs, g, page, saved, history, failures>>

Return ==
  /\ node = "recorded"
  /\ node' = "returned"
  /\ UNCHANGED <<inputs, g, page, saved, stored, history, failures>>

\* What the newest checkpoint knows to have been done.
Settled(key) ==
  /\ key \in saved.g.frontier.offered
  /\ \A i \in DOMAIN saved.g.frontier.pending : Key(saved.g.frontier.pending[i]) # key
  /\ ~(saved.node = "act" /\ saved.g.pending # NoEntry /\ Key(saved.g.pending) = key)

\* A new attempt resumes a thread that has a next node and otherwise starts over:
\* AgentState is new, every other channel of the thread keeps its value.
AttemptDies ==
  /\ node # "returned"
  /\ failures < MaxFailures
  /\ failures' = failures + 1
  /\ page' = site.start
  /\ IF saved.node \in GraphNodes
     THEN node' = saved.node /\ g' = saved.g
     ELSE node' = "explore" /\ g' = [saved.g EXCEPT !.goal = FALSE, !.failed = FALSE]
  /\ excused' = excused \cup { k \in executed : ~Settled(k) }
  /\ gap' = (gap \/ node \notin {"end", "recorded"})
  /\ UNCHANGED <<inputs, saved, stored, executed>>

\* A page offers what is read of its markup.
AsRead(s) == [s EXCEPT !.offers = [p \in DOMAIN @ |-> Parse(@[p])]]

ExplorationInit ==
  /\ site \in { AsRead(s) : s \in Sites }
  /\ policy \in Policies
  /\ baseline \in Baselines
  /\ node = "explore"
  /\ g = Fresh
  /\ page = site.start
  /\ saved = [node |-> "start", g |-> Fresh]
  /\ stored = NoMap
  /\ executed = {}
  /\ excused = {}
  /\ gap = FALSE
  /\ failures = 0

Step ==
  \/ Explore
  \/ ExploreBlind
  \/ ActNothing
  \/ ActLands
  \/ ActFails
  \/ Verify
  \/ Checkpoint
  \/ Recover
  \/ VerifyCriteria
  \/ CloseEpisode
  \/ RecordStateMap
  \/ Return

ExplorationNext == Step \/ AttemptDies

\* Temporal keeps a worker on the activity until it returns.
ExplorationSpec == ExplorationInit /\ [][ExplorationNext]_explorationVars /\ WF_explorationVars(Step)

-----------------------------------------------------------------------------
\* exploration_outcome: a run without a map is not found, one without a baseline has
\* no delta.
Found == stored # NoMap
HasDelta == Found /\ baseline # NoMap
Delta == Compare(baseline, stored)

\* What the tables say of a stored map: a known reason to stop, a row per state.
StopReasons == {"goal_reached", "frontier_exhausted", "max_actions", "max_states", "deadline"}
OneRowPerState == Cardinality(Signatures(stored.states)) = Len(stored.states)
StoredOK == Found => stored.reason \in StopReasons /\ OneRowPerState /\ stored.taken <= MaxActions

\* Nothing is taken twice, however often two pages link to each other and wherever the
\* worker dies: only what a dead worker did after its newest checkpoint may be sent to a
\* browser again ("every affordance is offered once", frontier.py).
OfferedOnce ==
  [][ (node = "act" /\ node' = "verify" /\ g.pending # NoEntry)
        => (Key(g.pending) \notin executed \/ Key(g.pending) \in excused) ]_explorationVars

\* The books of the frontier balance and keep to the policy, resumed or not: what was
\* offered is taken or pending, pending is in order, nothing is spent twice.
FrontierBalances ==
  /\ page \in DOMAIN site.route /\ failures \in 0 .. MaxFailures
  /\ node \in GraphNodes \cup {"end", "recorded", "returned"}
  /\ StoredOK
  /\ g.frontier.taken + Len(g.frontier.pending) = Cardinality(g.frontier.offered)
  /\ g.frontier.taken <= MaxActions
  /\ Cardinality(Signatures(g.frontier.visited)) = Len(g.frontier.visited)
  /\ \A i \in DOMAIN g.frontier.pending : g.frontier.pending[i].depth <= MaxDepth
  /\ \A i, j \in DOMAIN g.frontier.pending :
       i < j => Ahead(g.frontier.pending[i], g.frontier.pending[j])
  /\ Cardinality(executed) <= MaxActions + Cardinality(excused)

\* The states of the application in reach: MaxDepth affordances from where it starts.
StateOf(p) == [route |-> site.route[p], offers |-> site.offers[p]]
Leads(p, a) == IF a.to # "none" THEN site.lands[a.to] ELSE site.clicks[p][a.key]
Nexts(p) == { Leads(p, a) : a \in { x \in Range(StateOf(p).offers) : Takeable(x) } }
Within == LET f[d \in 0 .. MaxDepth] == IF d = 0 THEN {site.start}
                                        ELSE f[d - 1] \cup UNION { Nexts(p) : p \in f[d - 1] }
          IN  f
Reachable == { Signature(StateOf(p)) : p \in Within[MaxDepth] }

\* A map that calls itself complete has a hole only where a page was taken and never
\* seen; and a state reported gone without a caveat is out of reach now, as long as no
\* page was missed ("a comparison against it must not read a missing state as a
\* removed one", frontier.py).
HolesAreExplained ==
  (Found /\ stored.complete /\ ~gap) =>
    /\ Reachable \subseteq Signatures(stored.states)
    /\ HasDelta /\ ~Delta.unreachable => Delta.gone \cap Reachable = {}

\* One finding for one page: nothing is reported twice, and a route is not both gained
\* and lost when one page of it changed.
DeltaAccounts ==
  HasDelta =>
    LET known == Signatures(baseline.states)
        now == Signatures(stored.states)
        Of(s) == { p \in Delta.changed : s \in {p.before, p.after} }
    IN  /\ \A s \in known \ now : Cardinality(Of(s)) + (IF s \in Delta.gone THEN 1 ELSE 0) = 1
        /\ \A s \in now \ known : Cardinality(Of(s)) + (IF s \in Delta.new THEN 1 ELSE 0) = 1
        /\ \A p \in Delta.changed : p.before[1] = p.after[1] /\ Gained(p) \cup Lost(p) # {}
        /\ \A s \in Delta.gone, t \in Delta.new : s[1] # t[1]

\* Every exploration ends, on a site that is all cycles too ("the loop ends even if
\* every budget is generous and every page links to every other page", frontier.py).
ExplorationEnds == <>(node = "returned")

\* "Everything reachable within the budget was reached": what frontier.py says of
\* frontier_exhausted, whatever happened on the way.
ExhaustedIsWhole ==
  (Found /\ stored.reason = "frontier_exhausted")
    => Reachable \subseteq Signatures(stored.states)

\* "the map *is* the output of an exploring run": one that returns has stored it.
ReturnedIsMapped == node = "returned" => Found
=============================================================================
