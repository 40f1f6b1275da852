----------------------------- MODULE RunStart ------------------------------
(***************************************************************************)
(* How runs come into being: start_run (application/commands/start_run.py)  *)
(* as it is called by POST /runs, by POST /runs/{id}/rerun and by the       *)
(* activity of a schedule firing, any number of requests at once.  A client *)
(* or an activity that retries is one more request with the same key and    *)
(* the same body.  A run is named by the request that creates it: its id is *)
(* a fresh uuid.                                                            *)
(*                                                                          *)
(* One request is three atomic steps, with everything else free to happen   *)
(* between them: it looks its key up and resolves what it will run, it      *)
(* commits the run with its idempotency record, and it starts the workflow. *)
(***************************************************************************)
EXTENDS Naturals, FiniteSets

CONSTANTS
  Requests,     \* start_run executions, and the runs they may create
  Keys,         \* idempotency keys
  Nobody,       \* not a request
  MaxVersion    \* bound: versions of the plan that are published

ASSUME StartAssumption ==
  /\ Nobody \notin Requests
  /\ MaxVersion \in Nat \ {0}

VARIABLES
  pc,           \* where each request stands
  ask,          \* what each request asks for, once it is sent
  pinned,       \* the plan version a request resolved
  answer,       \* what each request was answered
  rows,         \* runs table; a row is pinned to the version its request resolved
  claim,        \* idempotency_records: the run each key stands for
  workflows,    \* runs that have a workflow in Temporal
  latest        \* the newest published version of the plan

vars == <<pc, ask, pinned, answer, rows, claim, workflows, latest>>

Versions == 1 .. MaxVersion
NoPlan == 0
Latest == MaxVersion + 1

\* What a request may ask for; source is the run a rerun repeats.
Asks == [key : Keys, version : {NoPlan, Latest} \cup Versions, explore : BOOLEAN,
         source : Requests \cup {Nobody}]
NoAsk == [key |-> Nobody, version |-> NoPlan, explore |-> FALSE, source |-> Nobody]

Answers == {"none", "created", "replayed", "mismatch", "duplicate", "refused", "error"}

\* request_fingerprint: the body without the key, and without where it came from.
Fingerprint(r) == <<ask[r].version, ask[r].explore>>

\* The run a request was told about.
RunOf(r) == IF answer[r] = "created" THEN r ELSE claim[ask[r].key]

Answered(r) == answer[r] \in {"created", "replayed"}
Quiet == \A r \in Requests : pc[r] \in {"idle", "over"}

Init ==
  /\ pc = [r \in Requests |-> "idle"]
  /\ ask = [r \in Requests |-> NoAsk]
  /\ pinned = [r \in Requests |-> NoPlan]
  /\ answer = [r \in Requests |-> "none"]
  /\ rows = {}
  /\ claim = [k \in Keys |-> Nobody]
  /\ workflows = {}
  /\ latest = 1

-----------------------------------------------------------------------------
Send(r, body) ==
  /\ pc[r] = "idle"
  /\ pc' = [pc EXCEPT ![r] = "sent"]
  /\ ask' = [ask EXCEPT ![r] = body]
  /\ UNCHANGED <<pinned, answer, rows, claim, workflows, latest>>

\* POST /runs, or a schedule firing (which never explores).
Create(r) == \E k \in Keys, v \in {NoPlan, Latest} \cup Versions, e \in BOOLEAN :
  Send(r, [key |-> k, version |-> v, explore |-> e, source |-> Nobody])

\* A bug of the endpoint: the plan is resolved again instead of copied.
RerunAsk_Latest(k, source) ==
  [key |-> k, version |-> Latest, explore |-> FALSE, source |-> source]

\* The pinned version is copied from the source's row; what the row does not hold,
\* whether it explored, takes the default of StartRunCommand.
RerunAsk(k, source) ==
  [key |-> k, version |-> pinned[source], explore |-> FALSE, source |-> source]

Rerun(r) == \E k \in Keys, source \in rows : Send(r, RerunAsk(k, source))

Finish(r, a) ==
  /\ pc' = [pc EXCEPT ![r] = "over"]
  /\ answer' = [answer EXCEPT ![r] = a]

-----------------------------------------------------------------------------
\* A bug of the use case: any request that finds its key is a replay.
ReplayOrMismatch_Unchecked(r, first) == "replayed"

\* The key stands for another request: the same one, or a misuse of the key.
ReplayOrMismatch(r, first) ==
  IF Fingerprint(first) = Fingerprint(r) THEN "replayed" ELSE "mismatch"

LookupHit(r) ==
  /\ pc[r] = "sent"
  /\ claim[ask[r].key] # Nobody
  /\ Finish(r, ReplayOrMismatch(r, claim[ask[r].key]))
  /\ UNCHANGED <<ask, pinned, rows, claim, workflows, latest>>

\* No record yet: project and policy are there, and the plan version is pinned.
LookupMiss(r) ==
  /\ pc[r] = "sent"
  /\ claim[ask[r].key] = Nobody
  /\ ask[r].version \in {NoPlan, Latest} \cup (1 .. latest)
  /\ pc' = [pc EXCEPT ![r] = "missed"]
  /\ pinned' = [pinned EXCEPT ![r] =
                  IF ask[r].version = Latest THEN latest ELSE ask[r].version]
  /\ UNCHANGED <<ask, answer, rows, claim, workflows, latest>>

\* An unknown project, an unresolvable policy, a version that does not exist.
Refuse(r) ==
  /\ pc[r] = "sent"
  /\ claim[ask[r].key] = Nobody
  /\ Finish(r, "refused")
  /\ UNCHANGED <<ask, pinned, rows, claim, workflows, latest>>

\* A bug of the schema: the idempotency record has no unique key.
KeyFree_NotUnique(k) == TRUE

KeyFree(k) == claim[k] = Nobody

\* One transaction: the run, its first event and its idempotency record.
Commit(r) ==
  /\ pc[r] = "missed"
  /\ KeyFree(ask[r].key)
  /\ rows' = rows \cup {r}
  /\ claim' = [claim EXCEPT ![ask[r].key] = r]
  /\ pc' = [pc EXCEPT ![r] = "committed"]
  /\ UNCHANGED <<ask, pinned, answer, workflows, latest>>

\* A concurrent request won the key: AlreadyExistsError, all rolled back, 409.
CommitLoses(r) ==
  /\ pc[r] = "missed"
  /\ ~KeyFree(ask[r].key)
  /\ Finish(r, "duplicate")
  /\ UNCHANGED <<ask, pinned, rows, claim, workflows, latest>>

\* A bug of the use case: the workflow is started before the commit.
MayStart_BeforeCommit(r) == pc[r] \in {"missed", "committed"}

MayStart(r) == pc[r] = "committed"

\* Temporal has the workflow; whether the caller hears of it is another matter.
StartWorkflow(r) == \E a \in {"created", "error"} :
  /\ MayStart(r)
  /\ workflows' = workflows \cup {r}
  /\ Finish(r, a)
  /\ UNCHANGED <<ask, pinned, rows, claim, latest>>

\* The process dies, or PostgreSQL or Temporal is not there: no answer, or a 500.
Fail(r) ==
  /\ pc[r] \in {"sent", "missed", "committed"}
  /\ Finish(r, "error")
  /\ UNCHANGED <<ask, pinned, rows, claim, workflows, latest>>

PublishVersion ==
  /\ latest < MaxVersion
  /\ latest' = latest + 1
  /\ UNCHANGED <<pc, ask, pinned, answer, rows, claim, workflows>>

Handle(r) ==
  \/ LookupHit(r)
  \/ LookupMiss(r)
  \/ Refuse(r)
  \/ Commit(r)
  \/ CommitLoses(r)
  \/ StartWorkflow(r)
  \/ Fail(r)

Next ==
  \/ PublishVersion
  \/ \E r \in Requests : Create(r) \/ Rerun(r) \/ Handle(r)

Spec == Init /\ [][Next]_vars

-----------------------------------------------------------------------------
TypeOK ==
  /\ pc \in [Requests -> {"idle", "sent", "missed", "committed", "over"}]
  /\ ask \in [Requests -> Asks \cup {NoAsk}]
  /\ pinned \in [Requests -> 0 .. MaxVersion]
  /\ answer \in [Requests -> Answers]
  /\ rows \subseteq Requests
  /\ claim \in [Keys -> Requests \cup {Nobody}]
  /\ workflows \subseteq Requests
  /\ latest \in Versions

\* However many requests carry a key at once, one run stands behind it: every row
\* is the one its key's idempotency record names, and every record names a row.
OneRunPerKey ==
  /\ \A r \in rows : claim[ask[r].key] = r
  /\ \A k \in Keys : claim[k] # Nobody => claim[k] \in rows /\ ask[claim[k]].key = k

\* No workflow without a durable row behind it (ADR 0010): every live workflow
\* belongs to a committed run, and the plan it is pinned to has been published.
WorkflowHasRow ==
  \A r \in workflows : r \in rows /\ pinned[r] \in {NoPlan} \cup (1 .. latest)

\* A key means one request: everybody who is answered a run for a key asked for
\* the same thing, gets the same run, and that run is the one that was committed.
SameKeySameRun ==
  \A r, s \in Requests :
    Answered(r) /\ Answered(s) /\ ask[r].key = ask[s].key =>
      /\ RunOf(r) = RunOf(s)
      /\ Fingerprint(r) = Fingerprint(s)
      /\ RunOf(r) \in rows

\* A rerun executes the plan version its source ran, whatever was published since.
RerunKeepsVersion ==
  \A r \in rows : ask[r].source # Nobody => pinned[r] = pinned[ask[r].source]

\* Whoever is given a run is given one that will execute: when nothing is in
\* flight any more, every run that was answered has its workflow.
AnsweredRunHasWorkflow ==
  Quiet => \A r \in Requests : Answered(r) => RunOf(r) \in workflows

\* A retried trigger "devuelve el mismo run" (RECOVERY_MATRIX.md:34): a request that
\* asks for what its key already stands for is never told it is a conflict.
RetryIsNoConflict ==
  \A r \in Requests :
    answer[r] = "duplicate" => Fingerprint(claim[ask[r].key]) # Fingerprint(r)

\* "Start a new run of exactly what the source run executed" (runs.py:178): a
\* rerun explores exactly when its source explored.
RerunKeepsMode ==
  \A r \in workflows :
    ask[r].source # Nobody => ask[r].explore = ask[ask[r].source].explore
=============================================================================
