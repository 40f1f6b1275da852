--------------------------- MODULE KnowledgeSync ---------------------------
(***************************************************************************)
(* The graph projection of one project's knowledge and the queue that keeps *)
(* it in step (application/commands/sync_knowledge_graph.py,                *)
(* PostgresGraphSyncStateRepository, infrastructure/knowledge/graphiti).    *)
(*                                                                          *)
(* A change of a candidate and its entry in the queue commit together.  A   *)
(* pass lists the backlog, reads the candidates, and then, entry by entry,  *)
(* writes to the graph and marks the entry in a transaction of its own.     *)
(* Passes are started by every run that has consolidated its experience and *)
(* by operators, so several may be under way; a rebuild is a pass that      *)
(* first clears the graph and queues one environment again.                 *)
(*                                                                          *)
(* A content stands for what a candidate's row says; the projection of it   *)
(* is the content itself, or nothing when its status is not actionable.     *)
(***************************************************************************)
EXTENDS Naturals, Sequences, FiniteSets

CONSTANTS
  Candidates,       \* the candidates a project may come to have
  Environments,
  EnvironmentOf,    \* the environment of each candidate
  Unwritable,       \* the candidates no node can be made of: their payload never changes
  Contents,         \* what else a row may say
  Projected,        \* what it says with status promoted or trusted
  Absent,           \* no row, or no node
  Passes,           \* executions of sync_pending and rebuild_project
  MaxSyncAttempts,  \* MAX_SYNC_ATTEMPTS (5)
  Batch,            \* SYNC_BATCH (200)
  MaxChanges,       \* bound: changes of candidates
  MaxRebuilds,      \* bound: rebuilds
  MaxFailures       \* bound: outages met and passes that die

ASSUME SyncAssumption ==
  /\ IsFiniteSet(Candidates)
  /\ EnvironmentOf \in [Candidates -> Environments]
  /\ Projected \subseteq Contents
  /\ Unwritable \subseteq Candidates
  /\ Absent \notin Contents
  /\ MaxSyncAttempts \in Nat \ {0}
  /\ Batch \in Nat \ {0}
  /\ MaxChanges \in Nat
  /\ MaxRebuilds \in Nat
  /\ MaxFailures \in Nat

VARIABLES
  durable,    \* knowledge_candidates
  state,      \* graph_sync_state: state of each candidate's entry
  attempts,   \* graph_sync_state: its attempts
  queue,      \* the entries by updated_at, oldest first
  graph,      \* the node of each candidate
  pc,         \* where each pass stands
  work,       \* the entries a pass has yet to handle, as it read them
  outcome,    \* of the entry it is about to mark
  scope,      \* the environment a rebuild has yet to queue
  raced,      \* history: the entry was changed, or handled twice, behind a pass's back
  spent       \* how much of each bound is used up

entries == <<state, attempts, queue>>
passes == <<pc, work, outcome, scope>>
vars == <<durable, entries, graph, passes, raced, spent>>

-----------------------------------------------------------------------------
Nothing == "no environment"

\* What the graph should hold of a candidate that says v, or is gone.
Image(v) == IF v \in Projected THEN v ELSE Absent

\* Bugs of the repository: rows that failed are not part of the backlog.
Backlog_PendingOnly == {"pending"}

Backlog == {"pending", "failed"}

Spend(what, limit) ==
  /\ spent[what] < limit
  /\ spent' = [spent EXCEPT ![what] = @ + 1]

\* A mark is the newest update; the candidates of one transaction in its order.
Latest(cs) ==
  LET Marked(c) == \E i \in DOMAIN cs : cs[i] = c
      Older(c) == ~Marked(c)
  IN  SelectSeq(queue, Older) \o cs

\* enqueue_for_sync: a new change, not another try at the old one.
Enqueue(cs) ==
  LET Queued(c) == \E i \in DOMAIN cs : cs[i] = c IN
  /\ state' = [c \in Candidates |-> IF Queued(c) THEN "pending" ELSE state[c]]
  /\ attempts' = [c \in Candidates |-> IF Queued(c) THEN 0 ELSE attempts[c]]
  /\ queue' = Latest(cs)

\* The passes that have read what candidate c says and not yet marked its entry.
Holders(c) == { p \in Passes :
  pc[p] = "working" /\ \E i \in DOMAIN work[p] : work[p][i].id = c }

Idle(p) ==
  /\ pc' = [pc EXCEPT ![p] = "idle"]
  /\ work' = [work EXCEPT ![p] = << >>]
  /\ outcome' = [outcome EXCEPT ![p] = "none"]
  /\ scope' = [scope EXCEPT ![p] = Nothing]

Init ==
  /\ durable = [c \in Candidates |-> Absent]
  /\ state = [c \in Candidates |-> "none"]
  /\ attempts = [c \in Candidates |-> 0]
  /\ queue = << >>
  /\ graph = [c \in Candidates |-> Absent]
  /\ pc = [p \in Passes |-> "idle"]
  /\ work = [p \in Passes |-> << >>]
  /\ outcome = [p \in Passes |-> "none"]
  /\ scope = [p \in Passes |-> Nothing]
  /\ raced = [c \in Candidates |-> FALSE]
  /\ spent = [what \in {"changes", "rebuilds", "failures"} |-> 0]

-----------------------------------------------------------------------------
\* A run learns, confirms or disproves something: the row and the entry commit
\* together.  A run that changes several candidates is several such changes.
Change(c) == \E v \in Contents :
  /\ Spend("changes", MaxChanges)
  /\ durable' = [durable EXCEPT ![c] = v]
  /\ Enqueue(<<c>>)
  /\ raced' = [raced EXCEPT ![c] = Holders(c) # {}]
  /\ UNCHANGED <<graph, passes>>

-----------------------------------------------------------------------------
Before(c, d) == \E i, j \in DOMAIN queue : i < j /\ queue[i] = c /\ queue[j] = d

Waiting == { c \in Candidates : state[c] \in Backlog }

\* The oldest entries of the backlog.
Page == { c \in Waiting : Cardinality({ d \in Waiting : Before(d, c) }) < Batch }

\* Those of the page that were not given up on; the others were left on it.
Due == { c \in Page : attempts[c] < MaxSyncAttempts }

Orders(S) == { s \in [1 .. Cardinality(S) -> S] : \A c \in S : \E i \in DOMAIN s : s[i] = c }

List(p) ==
  /\ pc[p] = "idle"
  /\ Due # {}
  /\ pc' = [pc EXCEPT ![p] = "listed"]
  /\ \E s \in Orders(Due) :
       /\ \A i, j \in DOMAIN s : i < j => Before(s[i], s[j])
       /\ work' = [work EXCEPT ![p] =
            [i \in DOMAIN s |-> [id |-> s[i], attempts |-> attempts[s[i]], content |-> Absent]]]
  /\ UNCHANGED <<durable, entries, graph, outcome, scope, raced, spent>>

\* A later statement of the same transaction: it sees what has committed since.
Read(p) ==
  /\ pc[p] = "listed"
  /\ pc' = [pc EXCEPT ![p] = "working"]
  /\ work' = [work EXCEPT ![p] =
       [i \in DOMAIN work[p] |-> [work[p][i] EXCEPT !.content = durable[work[p][i].id]]]]
  /\ raced' = [c \in Candidates |->
       IF \E i \in DOMAIN work[p] : work[p][i].id = c
       THEN Holders(c) # {} \/ (raced[c] /\ state[c] = "synced") ELSE raced[c]]
  /\ UNCHANGED <<durable, entries, graph, outcome, scope, spent>>

Handling(p) == pc[p] = "working" /\ outcome[p] = "none"

\* There is a node to be made, and none can be.
Raises(entry) == entry.id \in Unwritable /\ entry.content \in Projected

\* materialize or forget.
Project(p) ==
  /\ Handling(p)
  /\ ~Raises(Head(work[p]))
  /\ graph' = [graph EXCEPT ![Head(work[p]).id] = Image(Head(work[p]).content)]
  /\ outcome' = [outcome EXCEPT ![p] = "synced"]
  /\ UNCHANGED <<durable, entries, pc, work, scope, raced, spent>>

\* It fails before the graph is asked.
ProjectRaises(p) ==
  /\ Handling(p)
  /\ Raises(Head(work[p]))
  /\ outcome' = [outcome EXCEPT ![p] = "failed"]
  /\ UNCHANGED <<durable, entries, graph, pc, work, scope, raced, spent>>

\* The graph does not answer; it may have done what it was asked all the same.
GraphUnavailable(p) ==
  /\ Handling(p)
  /\ ~Raises(Head(work[p]))
  /\ Spend("failures", MaxFailures)
  /\ \/ graph' = [graph EXCEPT ![Head(work[p]).id] = Image(Head(work[p]).content)]
     \/ UNCHANGED graph
  /\ outcome' = [outcome EXCEPT ![p] = "unavailable"]
  /\ UNCHANGED <<durable, entries, pc, work, scope, raced>>

\* A bug of the pass: a failure is recorded as done.
StateAfter_AlwaysSynced(o) == "synced"

StateAfter(o) == IF o = "synced" THEN "synced" ELSE "failed"

\* Upserted whole, from what the pass had read; an outage ends the pass.
Mark(p) ==
  /\ pc[p] = "working"
  /\ outcome[p] # "none"
  /\ LET entry == Head(work[p]) IN
       /\ state' = [state EXCEPT ![entry.id] = StateAfter(outcome[p])]
       /\ attempts' = [attempts EXCEPT ![entry.id] =
                         entry.attempts + (IF outcome[p] = "synced" THEN 0 ELSE 1)]
       /\ queue' = Latest(<<entry.id>>)
  /\ IF outcome[p] = "unavailable" \/ Len(work[p]) = 1
     THEN Idle(p)
     ELSE /\ work' = [work EXCEPT ![p] = Tail(@)]
          /\ outcome' = [outcome EXCEPT ![p] = "none"]
          /\ UNCHANGED <<pc, scope>>
  /\ UNCHANGED <<durable, graph, raced, spent>>

\* The worker or the API process dies, or PostgreSQL is gone.
PassDies(p) ==
  /\ pc[p] # "idle"
  /\ Spend("failures", MaxFailures)
  /\ Idle(p)
  /\ UNCHANGED <<durable, entries, graph, raced>>

-----------------------------------------------------------------------------
Cleared ==
  /\ graph' = [c \in Candidates |-> Absent]
  /\ raced' = [c \in Candidates |-> raced[c] \/ graph[c] # Absent]

\* Every environment of the project is dropped.
Clear(p, e) ==
  /\ pc[p] = "idle"
  /\ Spend("rebuilds", MaxRebuilds)
  /\ Cleared
  /\ pc' = [pc EXCEPT ![p] = "cleared"]
  /\ scope' = [scope EXCEPT ![p] = e]
  /\ UNCHANGED <<durable, entries, work, outcome>>

\* The rebuild reports the graph unavailable and does no more, also when only the
\* answer was lost.
ClearFails(p) ==
  /\ pc[p] = "idle"
  /\ Spend("rebuilds", MaxRebuilds)
  /\ Cleared
  /\ UNCHANGED <<durable, entries, passes>>

\* What a rebuild of environment e queues again.
Actionable(e) == { c \in Candidates : EnvironmentOf[c] = e /\ durable[c] \in Projected }

\* One transaction, at most a batch of them; then the rebuild is a pass like any other.
EnqueueScope(p) ==
  /\ pc[p] = "cleared"
  /\ \E S \in SUBSET Actionable(scope[p]) :
       /\ Cardinality(S) = Batch \/ (S = Actionable(scope[p]) /\ Cardinality(S) < Batch)
       /\ \E s \in Orders(S) : Enqueue(s)
       /\ raced' = [c \in Candidates |-> IF c \in S THEN Holders(c) # {} ELSE raced[c]]
  /\ Idle(p)
  /\ UNCHANGED <<durable, graph, spent>>

-----------------------------------------------------------------------------
Drain(p) ==
  \/ List(p)
  \/ Read(p)
  \/ Project(p)
  \/ ProjectRaises(p)
  \/ Mark(p)
  \/ EnqueueScope(p)

Next ==
  \/ \E c \in Candidates : Change(c)
  \/ \E p \in Passes :
       \/ Drain(p)
       \/ GraphUnavailable(p)
       \/ PassDies(p)
       \/ \E e \in Environments : Clear(p, e)
       \/ ClearFails(p)

Spec == Init /\ [][Next]_vars

\* Runs keep completing, and each starts a pass: some pass is always alive, though
\* any given one may stand still for ever.
FairSpec == Spec /\ WF_vars(\E p \in Passes : Drain(p))

-----------------------------------------------------------------------------
Entry == [id : Candidates, attempts : 0 .. MaxSyncAttempts, content : Contents \cup {Absent}]

TypeOK ==
  /\ durable \in [Candidates -> Contents \cup {Absent}]
  /\ state \in [Candidates -> {"none", "pending", "synced", "failed"}]
  /\ attempts \in [Candidates -> 0 .. MaxSyncAttempts]
  /\ queue \in Seq(Candidates)
  /\ graph \in [Candidates -> Projected \cup {Absent}]
  /\ pc \in [Passes -> {"idle", "listed", "working", "cleared"}]
  /\ work \in [Passes -> Seq(Entry)]
  /\ outcome \in [Passes -> {"none", "synced", "failed", "unavailable"}]
  /\ scope \in [Passes -> Environments \cup {Nothing}]
  /\ raced \in [Candidates -> BOOLEAN]
  /\ spent \in [{"changes", "rebuilds", "failures"} -> Nat]

\* What the queue calls synced is in the graph as PostgreSQL has it now, and what
\* was withdrawn is not, through outages, lost answers, dying passes and any
\* number of changes: unless the candidate was changed, queued or handled by
\* another pass between a pass's reading of it and its mark, or its node was
\* cleared, and it was not queued again since.
SyncedIsProjected ==
  \A c \in Candidates : state[c] = "synced" /\ ~raced[c] => graph[c] = Image(durable[c])

\* Given up on, and left in the backlog.
Exhausted(c) == state[c] # "synced" /\ attempts[c] = MaxSyncAttempts

\* The backlog drains (RECOVERY_MATRIX.md:24): what is in the queue is synced or
\* has used up its attempts, unless entries that have fill the page.
EntryLeavesBacklog ==
  \A c \in Candidates : state[c] \in {"pending", "failed"} ~>
    \/ state[c] = "synced"
    \/ Exhausted(c)
    \/ Cardinality({ d \in Candidates : Exhausted(d) }) >= Batch

\* "it names exactly what the graph is missing" (models.py:502): with no pass under
\* way, whatever the graph does not hold as PostgreSQL has it is in the backlog.
QueueNamesWhatIsMissing ==
  (\A p \in Passes : pc[p] = "idle") =>
    \A c \in Candidates : graph[c] # Image(durable[c]) => state[c] \in {"pending", "failed"}

\* "al volver el grafo, la cola drena sola" (RECOVERY_MATRIX.md:24): after finitely
\* many failures, whatever can be written is.
QueueDrains ==
  \A c \in Candidates \ Unwritable : state[c] = "pending" ~> state[c] = "synced"
=============================================================================
