-------------------------- MODULE KnowledgeCandidate --------------------------
(***************************************************************************)
(* What runs teach and how it comes to be believed: consolidation of a     *)
(* finished run (consolidate_experience.py, experience_consolidation.py,    *)
(* reconciliation.py), reports on knowledge that was used                   *)
(* (record_memory_feedback.py) and the aggregate both of them change        *)
(* (experience.py, feedback.py), for one criterion of one project.          *)
(*                                                                          *)
(* A consolidation is one transaction: it merges what the run saw into      *)
(* locked rows, scans what is stored without locks, writes a contradiction  *)
(* over each row it disproves, claims the run and commits.  A report reads  *)
(* its row without a lock and writes what it computed.  PostgreSQL commits  *)
(* reads, and a write changes only the columns that differ from what the    *)
(* session had read.                                                        *)
(***************************************************************************)
EXTENDS MemoryRetrieval, Naturals, Sequences, FiniteSets

CONSTANTS
  Runs,                \* finished runs
  Policies,            \* run policies; with a policy the context of a candidate changes
  Origins,             \* where runs end
  Histories,           \* what the runs may have found
  Reporters,           \* later runs that used what was learned
  Reports,             \* what they may say of it
  Attempts,            \* attempts of each run's learning activity (2)
  MaxFailures,         \* bound: transactions that die or whose answer is lost
  MinSupportToPromote, \* MIN_SUPPORT_TO_PROMOTE (2)
  MinSupportToTrust    \* MIN_SUPPORT_TO_TRUST (5)

Kinds == {"acceptance_fact", "failure_signature", "route"}

\* The identity of a candidate, its dedup_key.  A route is never a model's.
Facts == { f \in [kind : Kinds, model : BOOLEAN, policy : Policies] :
             f.kind = "route" => ~f.model }

\* The result of the criterion, whether the run's verdict is learnable, whether its
\* observation could be redacted, and whether it ended on a page worth a route.
Findings == [outcome : {"met", "not_met", "unverified"}, model : BOOLEAN,
             learnable : BOOLEAN, safe : BOOLEAN, routed : BOOLEAN, policy : Policies,
             origin : Origins \cup {Unknown}]

FeedbackKinds == {"success", "failure", "contradiction", "stale", "unsafe"}

ASSUME CandidateAssumption ==
  /\ Histories \subseteq [Runs -> Findings]
  /\ Runs \cap Reporters = {} /\ Reporters \cap (Runs \X Nat) = {}
  /\ Reports \subseteq [fact : Facts, kind : FeedbackKinds, observed : BOOLEAN]
  /\ Attempts \in [Runs -> Nat \ {0}]
  /\ MaxFailures \in Nat
  /\ MinSupportToPromote \in Nat \ {0}
  /\ MinSupportToTrust \in Nat \ {0}

VARIABLES
  found,     \* what each run found
  row,       \* knowledge_candidates, committed
  feedback,  \* memory_feedback, committed: one row per occurrence
  claimed,   \* the idempotency records of consolidation, committed
  pc,        \* where each transaction stands
  draft,     \* the rows it has written and not committed: they are locked
  read,      \* the rows as it read them without a lock
  todo,      \* the facts it has yet to merge
  disproved, \* the facts it has yet to withdraw
  ballot,    \* the feedback it has recorded and not committed
  report,    \* what each reporter says
  sighted,   \* history: the runs whose sighting of a fact has committed
  failures   \* how much of MaxFailures is used up

stored == <<row, feedback, claimed, sighted>>
session == <<draft, read, todo, disproved, ballot>>
vars == <<found, stored, pc, session, report, failures>>

-----------------------------------------------------------------------------
\* The aggregate.

NoRow == [status |-> "absent", origin |-> Unknown,
          support |-> 0, success |-> 0, failure |-> 0, contradiction |-> 0]
Columns == DOMAIN NoRow
Statuses == {"candidate", "promoted", "trusted", "invalidated", "rejected"}
ActionableStatuses == {"promoted", "trusted"}
Terminal == {"invalidated", "rejected"}

\* reliability >= percent / 100; without any evidence it is 0.  Rounding to four
\* digits makes no difference at the counts a model reaches.
Total(q) == q.success + q.failure + 2 * q.contradiction
ReliableTo(q, percent) == Total(q) > 0 /\ 100 * q.success >= percent * Total(q)

\* As far as the evidence allows; a trusted candidate may come down to promoted.
Promoted(f, q) ==
  [q EXCEPT !.status =
     IF ~f.model /\ q.support >= MinSupportToTrust /\ ReliableTo(q, 90) THEN "trusted"
     ELSE IF q.support >= MinSupportToPromote THEN "promoted" ELSE @]

Unbanned(f, q) == IF q.status \in Terminal THEN q ELSE Promoted(f, q)

\* One run's sighting: one support, and a success unless it is of a failure.
Succeeds(f) == IF f.kind = "failure_signature" THEN 0 ELSE 1

FirstSighting(x, f) ==
  [NoRow EXCEPT !.status = "candidate", !.origin = x.origin,
                !.support = 1, !.success = Succeeds(f)]

\* A bug of the aggregate: being seen again brings a withdrawn fact back.
ReinforcedBy_Revives(f, q) ==
  Promoted(f, [q EXCEPT !.support = @ + 1, !.success = @ + Succeeds(f)])

ReinforcedBy(f, q) ==
  Unbanned(f, [q EXCEPT !.support = @ + 1, !.success = @ + Succeeds(f)])

\* apply_feedback
Apply(f, q, kind, observed) ==
  CASE kind = "unsafe" -> [q EXCEPT !.status = "rejected"]
    [] kind = "stale" -> [q EXCEPT !.status = "invalidated"]
    [] kind \in {"success", "failure", "contradiction"} /\ ~observed -> q
    [] kind = "success" /\ observed ->
         Unbanned(f, [q EXCEPT !.success = @ + 1, !.support = @ + 1])
    [] kind = "contradiction" /\ observed ->
         [q EXCEPT !.contradiction = @ + 1, !.status = "invalidated"]
    [] kind = "failure" /\ observed ->
         LET failed == [q EXCEPT !.failure = @ + 1] IN
         IF failed.status \in ActionableStatuses /\ ~ReliableTo(failed, 50)
         THEN [failed EXCEPT !.status = "candidate"] ELSE failed

-----------------------------------------------------------------------------
\* What a run teaches.

\* The fact a result states; a deterministic check observes it, a model derives it.
FactOf(x) == [kind |-> IF x.outcome = "met" THEN "acceptance_fact" ELSE "failure_signature",
              model |-> x.model, policy |-> x.policy]

RouteOf(x) == [kind |-> "route", model |-> FALSE, policy |-> x.policy]

\* Criteria first, in one order for every run, and the route last.
Sightings(x) ==
  IF ~x.learnable THEN << >>
  ELSE (IF x.outcome = "unverified" \/ ~x.safe THEN << >> ELSE <<FactOf(x)>>)
       \o (IF x.routed THEN <<RouteOf(x)>> ELSE << >>)

\* A bug of reconciliation: only what is offered is compared.
Contradicts_OnlyOffered(x, f, q) ==
  /\ ~x.model
  /\ q.status \in ActionableStatuses
  /\ \/ f.kind = "acceptance_fact" /\ x.outcome = "not_met"
     \/ f.kind = "failure_signature" /\ x.outcome = "met"

\* Deterministic results only, learnable verdict or not, whatever the context of f.
Contradicts(x, f, q) ==
  /\ ~x.model
  /\ q # NoRow
  /\ q.status \notin Terminal
  /\ \/ f.kind = "acceptance_fact" /\ x.outcome = "not_met"
     \/ f.kind = "failure_signature" /\ x.outcome = "met"

-----------------------------------------------------------------------------
\* What an episode recalls: the actionable rows that are not about another situation.
\* Their order, and the cut at DEFAULT_CONTEXT_ITEMS, are left out: a cut only drops some.

Situations == { Situation(o, x) : o \in Origins \cup {Unknown}, x \in Policies }

VerdictOn(f, now) ==
  Compatibility(row[f].status \in Terminal, Situation(row[f].origin, f.policy), now)

Offered(now) == { f \in Facts :
  row[f].status \in ActionableStatuses /\ VerdictOn(f, now) # "incompatible" }

-----------------------------------------------------------------------------
\* Transactions.  A worker's is <<run, attempt>>.

Workers == UNION { {r} \X (1 .. Attempts[r]) : r \in Runs }
Transactions == Workers \cup Reporters

Locked(f, t) == \E u \in Workers \ {t} : draft[u][f] # NoRow

Visible(t, f) == IF draft[t][f] # NoRow THEN draft[t][f] ELSE row[f]

\* A flush: the columns that the session changed, over what the row holds now.
Saved(current, old, new) ==
  [c \in Columns |-> IF new[c] = old[c] THEN current[c] ELSE new[c]]

Blank(t) ==
  /\ draft' = [draft EXCEPT ![t] = [f \in Facts |-> NoRow]]
  /\ read' = [read EXCEPT ![t] = [f \in Facts |-> NoRow]]
  /\ todo' = [todo EXCEPT ![t] = << >>]
  /\ disproved' = [disproved EXCEPT ![t] = {}]
  /\ ballot' = [ballot EXCEPT ![t] = {}]

Ends(t, how) ==
  /\ pc' = [pc EXCEPT ![t] = how]
  /\ Blank(t)

Init ==
  /\ found \in Histories
  /\ row = [f \in Facts |-> NoRow]
  /\ feedback = {}
  /\ claimed = {}
  /\ pc = [t \in Transactions |-> "idle"]
  /\ draft = [t \in Transactions |-> [f \in Facts |-> NoRow]]
  /\ read = [t \in Transactions |-> [f \in Facts |-> NoRow]]
  /\ todo = [t \in Transactions |-> << >>]
  /\ disproved = [t \in Transactions |-> {}]
  /\ ballot = [t \in Transactions |-> {}]
  /\ report \in [Reporters -> Reports]
  /\ sighted = [f \in Facts |-> {}]
  /\ failures = 0

\* Temporal dispatches an attempt; another one when the one before died or ran out of
\* time.  The latter may still be at work.
Dispatched(w) ==
  w[2] > 1 => pc[<<w[1], w[2] - 1>>] \notin {"idle", "replayed", "lost", "committed"}

\* Everything that is read before the first write.
Begin(w) ==
  /\ pc[w] = "idle"
  /\ Dispatched(w)
  /\ IF w[1] \in claimed
     THEN Ends(w, "replayed")
     ELSE /\ todo' = [todo EXCEPT ![w] = Sightings(found[w[1]])]
          /\ pc' = [pc EXCEPT ![w] = "merging"]
          /\ UNCHANGED <<draft, read, disproved, ballot>>
  /\ UNCHANGED <<found, stored, report, failures>>

\* merge: waits for the lock of the row, or for the insert of another transaction.
Merge(w) ==
  /\ pc[w] = "merging"
  /\ todo[w] # << >>
  /\ LET f == Head(todo[w]) IN
       /\ ~Locked(f, w)
       /\ draft' = [draft EXCEPT ![w][f] =
            IF row[f] = NoRow THEN FirstSighting(found[w[1]], f) ELSE ReinforcedBy(f, row[f])]
  /\ todo' = [todo EXCEPT ![w] = Tail(@)]
  /\ UNCHANGED <<found, stored, pc, read, disproved, ballot, report, failures>>

\* list_for_scope and contradicted_by.
Scan(w) ==
  /\ pc[w] = "merging"
  /\ todo[w] = << >>
  /\ read' = [read EXCEPT ![w] = [f \in Facts |-> Visible(w, f)]]
  /\ disproved' = [disproved EXCEPT ![w] =
                     { f \in Facts : Contradicts(found[w[1]], f, Visible(w, f)) }]
  /\ pc' = [pc EXCEPT ![w] = "withdrawing"]
  /\ UNCHANGED <<found, stored, draft, todo, ballot, report, failures>>

\* The occurrence is unique in candidate, run, episode and kind; none of these name an
\* episode.
Occurrence(f, r, kind, observed) == [fact |-> f, run |-> r, kind |-> kind, observed |-> observed]

\* A bug of the table: an occurrence without an episode is never a duplicate.
Occurred_Never(rows, f, r, kind) == FALSE

Occurred(rows, f, r, kind) == \E o \in rows : o.fact = f /\ o.run = r /\ o.kind = kind

\* register_feedback with a contradiction; a known occurrence changes nothing.
Withdraw(w) ==
  /\ pc[w] = "withdrawing"
  /\ \E f \in disproved[w] :
       /\ ~Locked(f, w)
       /\ disproved' = [disproved EXCEPT ![w] = @ \ {f}]
       /\ IF Occurred(feedback, f, w[1], "contradiction")
          THEN UNCHANGED <<draft, ballot>>
          ELSE /\ ballot' = [ballot EXCEPT ![w] =
                    @ \cup {Occurrence(f, w[1], "contradiction", TRUE)}]
               /\ draft' = [draft EXCEPT ![w][f] =
                    Saved(Visible(w, f), read[w][f],
                          Apply(f, read[w][f], "contradiction", TRUE))]
  /\ UNCHANGED <<found, stored, pc, read, todo, report, failures>>

\* A bug of the command: the record of a run is not unique.
Unclaimed_NotUnique(r) == TRUE

Unclaimed(r) == r \notin claimed

\* The idempotency record: another attempt's uncommitted one is waited for, a
\* committed one rolls this transaction back.
Claim(w) ==
  /\ pc[w] = "withdrawing"
  /\ disproved[w] = {}
  /\ \A v \in Workers \ {w} : v[1] = w[1] => pc[v] # "claiming"
  /\ IF Unclaimed(w[1])
     THEN /\ pc' = [pc EXCEPT ![w] = "claiming"]
          /\ UNCHANGED session
     ELSE Ends(w, "replayed")
  /\ UNCHANGED <<found, stored, report, failures>>

Commit(w) ==
  /\ pc[w] = "claiming"
  /\ row' = [f \in Facts |-> Visible(w, f)]
  /\ feedback' = feedback \cup ballot[w]
  /\ claimed' = claimed \cup {w[1]}
  /\ sighted' = [f \in Facts |->
       IF \E i \in DOMAIN Sightings(found[w[1]]) : Sightings(found[w[1]])[i] = f
       THEN sighted[f] \cup {w[1]} ELSE sighted[f]]
  /\ Ends(w, "committed")
  /\ UNCHANGED <<found, report, failures>>

InTransaction(t) == pc[t] \in {"merging", "withdrawing", "claiming"}

\* The row a worker cannot write for now.
Blocked(w, v) ==
  \/ /\ pc[w] = "merging"
     /\ todo[w] # << >>
     /\ draft[v][Head(todo[w])] # NoRow
  \/ /\ pc[w] = "withdrawing"
     /\ \E f \in disproved[w] : draft[v][f] # NoRow
     /\ \A f \in disproved[w] : Locked(f, w)

\* PostgreSQL breaks a circle of waiting transactions; the activity swallows the error
\* and what the run had to teach is lost.
DeadlockVictim(w) ==
  /\ \E D \in SUBSET Workers : w \in D /\ \A v \in D :
       (\E u \in D \ {v} : Blocked(v, u)) /\ (\E u \in D \ {v} : Blocked(u, v))
  /\ Ends(w, "lost")
  /\ UNCHANGED <<found, stored, report, failures>>

\* The worker dies, or the database is gone and the error is swallowed.
Fails(w) ==
  /\ InTransaction(w)
  /\ failures < MaxFailures
  /\ failures' = failures + 1
  /\ \E how \in {"dead", "lost"} : Ends(w, how)
  /\ UNCHANGED <<found, stored, report>>

-----------------------------------------------------------------------------
\* Reports on knowledge that was used.

Get(q) ==
  /\ pc[q] = "idle"
  /\ row[report[q].fact] # NoRow
  /\ read' = [read EXCEPT ![q][report[q].fact] = row[report[q].fact]]
  /\ pc' = [pc EXCEPT ![q] = "reporting"]
  /\ UNCHANGED <<found, stored, draft, todo, disproved, ballot, report, failures>>

Save(q) ==
  LET f == report[q].fact
      old == read[q][f]
      new == Apply(f, old, report[q].kind, report[q].observed) IN
  /\ pc[q] = "reporting"
  /\ ~Locked(f, q)
  /\ IF Occurred(feedback, f, q, report[q].kind)
     THEN UNCHANGED <<row, feedback>>
     ELSE /\ row' = [row EXCEPT ![f] = Saved(@, old, new)]
          /\ feedback' = feedback \cup
               {Occurrence(f, q, report[q].kind, report[q].observed)}
  /\ Ends(q, "reported")
  /\ UNCHANGED <<found, claimed, sighted, report, failures>>

\* The answer is lost and the caller reports the same again.
ReportAgain(q) ==
  /\ pc[q] = "reported"
  /\ failures < MaxFailures
  /\ failures' = failures + 1
  /\ pc' = [pc EXCEPT ![q] = "idle"]
  /\ UNCHANGED <<found, stored, session, report>>

-----------------------------------------------------------------------------
Next ==
  \/ \E w \in Workers :
       \/ Begin(w)
       \/ Merge(w)
       \/ Scan(w)
       \/ Withdraw(w)
       \/ Claim(w)
       \/ Commit(w)
       \/ DeadlockVictim(w)
       \/ Fails(w)
  \/ \E q \in Reporters : Get(q) \/ Save(q) \/ ReportAgain(q)

Spec == Init /\ [][Next]_vars

-----------------------------------------------------------------------------
Rows == [status : Statuses, origin : Origins \cup {Unknown}, support : Nat, success : Nat, failure : Nat, contradiction : Nat]
        \cup {NoRow}

TypeOK ==
  /\ found \in Histories
  /\ row \in [Facts -> Rows]
  /\ feedback \subseteq [fact : Facts, run : Runs \cup Reporters, kind : FeedbackKinds, observed : BOOLEAN]
  /\ claimed \subseteq Runs
  /\ pc \in [Transactions -> {"idle", "merging", "withdrawing", "claiming", "committed",
                              "replayed", "lost", "dead", "reporting", "reported"}]
  /\ draft \in [Transactions -> [Facts -> Rows]]
  /\ read \in [Transactions -> [Facts -> Rows]]
  /\ todo \in [Transactions -> Seq(Facts)]
  /\ disproved \in [Transactions -> SUBSET Facts]
  /\ ballot \in [Transactions -> SUBSET [fact : Facts, run : Runs, kind : FeedbackKinds,
                                         observed : BOOLEAN]]
  /\ report \in [Reporters -> Reports]
  /\ sighted \in [Facts -> SUBSET Runs]
  /\ failures \in 0 .. MaxFailures

Evidence(f, kind) == { o \in feedback : o.fact = f /\ o.kind = kind /\ o.observed }
Votes(f) == Cardinality(sighted[f]) + Cardinality(Evidence(f, "success"))

\* Every number has its evidence ("a count applied without its record makes a
\* reliability number nobody can audit", record_memory_feedback.py): a run is one vote
\* however often its consolidation is attempted, no counter is above the rows
\* behind it, and what is withdrawn has a row that withdrew it.
CountersHaveEvidence == \A f \in Facts :
  /\ row[f].support <= Votes(f)
  /\ row[f].failure <= Cardinality(Evidence(f, "failure"))
  /\ row[f].contradiction <= Cardinality(Evidence(f, "contradiction"))
  /\ row[f].status = "invalidated" =>
       \E o \in feedback : o.fact = f /\ o.kind \in {"contradiction", "stale"}
  /\ row[f].status = "rejected" => \E o \in feedback : o.fact = f /\ o.kind = "unsafe"

\* "a model-derived candidate can never reach trusted" (experience.py) and what is
\* trusted was seen by as many runs as that takes, through lost updates and retries.
TrustIsEarned == \A f \in Facts :
  row[f].status = "trusted" => ~f.model /\ Votes(f) >= MinSupportToTrust

\* No planner is told both that a criterion holds and that it fails, each on
\* deterministic evidence of one context, however the consolidations of runs that
\* disagree interleave: the second merge of either belief waits for the first, and
\* scans after it.  (A report of success promotes without a scan.)
NeverBothBelieved == \A x \in Policies, now \in Situations :
  LET holds == [kind |-> "acceptance_fact", model |-> FALSE, policy |-> x]
      fails == [kind |-> "failure_signature", model |-> FALSE, policy |-> x]
  IN  ~ /\ {holds, fails} \subseteq Offered(now)
        /\ Evidence(holds, "success") \cup Evidence(fails, "success") = {}

\* What was withdrawn does not come back by being seen again or reported on
\* (experience.py: reinforced_by), unless the report had read it before it was
\* withdrawn.
NoWayBack == [][ \A f \in Facts :
  row[f].status \in Terminal /\ row'[f].status \notin Terminal =>
    \E q \in Reporters : pc[q] = "reporting" /\ report[q].fact = f
                         /\ read[q][f].status \notin Terminal ]_vars

-----------------------------------------------------------------------------
\* Not so.

\* "Something invalidated or refused does not climb back on its own" (experience.py).
WithdrawnStaysWithdrawn == [][ \A f \in Facts :
  row[f].status \in Terminal => row'[f].status \in Terminal ]_vars

\* "knowledge observed ... under another policy or against another app version is not
\* weaker evidence, it is evidence about something else" (experience.py): only runs
\* made in a fact's context contradict it.
ContradictedInContext == \A o \in feedback :
  o.kind = "contradiction" /\ o.run \in Runs => found[o.run].policy = o.fact.policy

\* "every context the run knows was recorded on the candidate and matches"
\* (compatibility.py:30) makes a verdict exact.
ExactWhenKnownMatches == \A now \in Situations : \A f \in Offered(now) :
  LET learned == Situation(row[f].origin, f.policy) IN
  (\A d \in Dimensions : now[d] # Unknown => learned[d] = now[d])
    /\ (\A d \in Dimensions : learned[d] # Unknown => learned[d] = now[d])
  => VerdictOn(f, now) = "exact"

\* "Below an even chance, offering knowledge to a planner costs more than it saves"
\* (feedback.py: MIN_RELIABILITY_TO_STAY_PROMOTED), of knowledge that says what works.
OfferedIsReliable == \A f \in Facts :
  row[f].status \in ActionableStatuses /\ f.kind # "failure_signature" =>
    ReliableTo(row[f], 50)
=============================================================================
