-------------------------- MODULE FailureAnalysis --------------------------
(***************************************************************************)
(* The failures of a project, grouped and explained at the end of each run: *)
(* the criterion results runs record, the signals they are reduced to       *)
(* (domain/triage/signals.py), the clusters (domain/triage/clustering.py),  *)
(* the pass that stores them and asks a deep model about some               *)
(* (application/commands/analyze_failures.py, services/deep_analysis.py)    *)
(* and the activity that runs it (activities.analyze_failures), twice at    *)
(* once when Temporal gives up on an attempt that still lives.              *)
(*                                                                          *)
(* A run is the order it was created in.  An observation is the sentence    *)
(* that is left of it once ids, numbers and quotations are gone: two runs   *)
(* that met one wall observe the same.                                      *)
(***************************************************************************)
EXTENDS Naturals, Sequences, FiniteSets, SequencesExt, FiniteSetsExt

CONSTANTS
  Runs,          \* 1 .. n, in the order they were created
  Reports(_),    \* what a run's criteria may come out as: sequences of results
  Before(_, _),  \* the order of cluster ids, which are digests
  BatchLimit,    \* FAILURE_BATCH_LIMIT
  MaxClusters,   \* DEFAULT_MAX_ANALYZED
  Analyst,       \* whether a deep model is configured
  Attempts,      \* attempts of the activity, the later ones retries
  MaxCrashes,    \* bound: workers that die during a pass
  MaxStalls,     \* bound: live attempts Temporal stops waiting for
  MaxRepeats     \* bound: episodes run again after their results were committed

ASSUME FailuresAssumption ==
  /\ Cardinality(Runs) \in Nat /\ Runs = 1 .. Cardinality(Runs)
  /\ \A r \in Runs : \A report \in Reports(r) : report \in Seq(ToSet(report))
  /\ {BatchLimit, MaxClusters, MaxCrashes, MaxStalls, MaxRepeats} \subseteq Nat
  /\ Analyst \in BOOLEAN /\ Attempts \subseteq Nat

VARIABLES
  results,     \* criterion_results: run -> sequence
  finished,    \* the runs whose verdict is durable
  clusters,    \* failure_clusters with their members: key -> record
  hypotheses,  \* cluster_hypotheses in the order they were created
  done,        \* idempotency records of scope FAILURE_ANALYSIS_SCOPE
  pass,        \* attempt -> what it holds
  crashes, stalls, repeats

failuresVars == <<results, finished, clusters, hypotheses, done, pass, crashes, stalls, repeats>>

Passes == Runs \X Attempts

\* What of a sequence is in a set, in its order: SelectSeq, as a function to reason about.
Among(s, S) ==
  LET kept[i \in 0 .. Len(s)] ==
        IF i = 0 THEN << >>
        ELSE IF s[i] \in S THEN Append(kept[i - 1], s[i]) ELSE kept[i - 1]
  IN  kept[Len(s)]

\* -------------------------------------------------- what tables accept --
\* criterion_results: one row per criterion, and an unmet one says what kind it is.
ReportOK(report) ==
  /\ \A i, j \in DOMAIN report : i # j => report[i].criterion # report[j].criterion
  /\ \A i \in DOMAIN report :
       /\ report[i].outcome \in {"met", "not_met", "unverified"}
       /\ report[i].outcome = "not_met" <=> report[i].kind # "none"

\* failure_clusters: only what came after another names what it came after.
ClusterOK(row) ==
  /\ row.status \in {"independent", "blocked_downstream"}
  /\ row.status = "blocked_downstream" \/ row.blockedBy = "none"

\* ------------------------------------------------------------- signals --
SetupKinds == {"environment", "policy", "model"}

Signal(run, result) ==
  [run |-> run, criterion |-> result.criterion, kind |-> result.kind, says |-> result.says]

\* A deterministic failure: an opinion is nothing to group on.
IsFailure(result) == result.outcome = "not_met" /\ ~result.derived

\* What makes two failures one problem.
Key(signal) == <<signal.kind, signal.criterion, signal.says>>

\* The newest run first, each in its own order, as much as one pass takes.
RecentFailures ==
  LET failing(r) == LET kept == Among(results[r], { result \in ToSet(results[r]) : IsFailure(result) })
                    IN  [i \in DOMAIN kept |-> Signal(r, kept[i])]
      until[r \in {0} \cup Runs] == IF r = 0 THEN << >> ELSE failing(r) \o until[r - 1]
      all == until[Cardinality(Runs)]
  IN  SubSeq(all, 1, IF Len(all) < BatchLimit THEN Len(all) ELSE BatchLimit)

\* ---------------------------------------------------------- clustering --
\* The first setup failure of a run, if it had one.
BlockersIn(signals) ==
  LET setup == { i \in DOMAIN signals : signals[i].kind \in SetupKinds }
  IN  [r \in { signals[i].run : i \in setup } |->
         signals[Min({ i \in setup : signals[i].run = r })].criterion]

\* One problem: the failures that witnessed it, and whether it only came after another.
Cluster(key, signals) ==
  LET members == { i \in DOMAIN signals : Key(signals[i]) = key }
      first == signals[Min(members)]
      blockers == BlockersIn(signals)
      downstream == /\ first.kind \notin SetupKinds
                    /\ \A i \in members : signals[i].run \in DOMAIN blockers
  IN  [key |-> key, status |-> IF downstream THEN "blocked_downstream" ELSE "independent",
       blockedBy |-> IF downstream THEN blockers[first.run] ELSE "none",
       representative |-> first.run,
       members |-> { <<signals[i].run, signals[i].criterion>> : i \in members }]

RunsOf(cluster) == { m[1] : m \in cluster.members }

Triage(signals) == { Cluster(Key(signals[i]), signals) : i \in DOMAIN signals }

\* The biggest first, equal ones by their id.
Bigger(a, b) ==
  \/ Cardinality(a.members) > Cardinality(b.members)
  \/ Cardinality(a.members) = Cardinality(b.members) /\ Before(a.key, b.key)

\* ------------------------------------------------------ what to ask of --
\* The latest hypothesis of a cluster stands for it, whatever became of it.
Explained(key) ==
  LET about == { i \in DOMAIN hypotheses : hypotheses[i].key = key }
  IN  IF about = {} THEN "never" ELSE hypotheses[Max(about)].answer

\* list_for_project as the freshness rule reads it.
Previous == [key \in DOMAIN clusters |->
               [runs |-> Cardinality(RunsOf(clusters[key])), answer |-> Explained(key)]]

\* A problem nobody has seen, nobody explained, or that doubled since it was stored.
WorthAsking(cluster, previous) ==
  cluster.key \in DOMAIN previous /\ previous[cluster.key].answer = "explained" =>
    Cardinality(RunsOf(cluster)) >= Max({2, 2 * previous[cluster.key].runs})

\* The clusters a pass spends its deep calls on, in their order.
ToAsk(triaged, previous) ==
  LET worth == SetToSortSeq({ c \in triaged : c.status = "independent" /\ WorthAsking(c, previous) },
                            Bigger)
      budget == IF Analyst THEN MaxClusters ELSE 0
  IN  SubSeq(worth, 1, IF Len(worth) < budget THEN Len(worth) ELSE budget)

\* --------------------------------------------------------------- a run --
Idle == [at |-> "idle", failures |-> <<>>, triaged |-> {}, found |-> <<>>,
         asking |-> <<>>, answers |-> <<>>]

FailuresInit ==
  /\ results = [r \in Runs |-> <<>>]
  /\ finished = {}
  /\ clusters = [key \in {} |-> <<>>]
  /\ hypotheses = <<>>
  /\ done = {}
  /\ pass = [p \in Passes |-> Idle]
  /\ crashes = 0 /\ stalls = 0 /\ repeats = 0

\* An episode commits its results; one that is run again replaces them.
Verify(r) ==
  /\ r \notin finished
  /\ results[r] = <<>> \/ repeats < MaxRepeats
  /\ \E report \in Reports(r) :
       ReportOK(report) /\ results' = [results EXCEPT ![r] = report]
  /\ repeats' = repeats + IF results[r] = <<>> THEN 0 ELSE 1
  /\ UNCHANGED <<finished, clusters, hypotheses, done, pass, crashes, stalls>>

\* The verdict is durable: what follows may not change what the run reported.
Finish(r) ==
  /\ r \notin finished /\ results[r] # <<>>
  /\ finished' = finished \cup {r}
  /\ UNCHANGED <<results, clusters, hypotheses, done, pass, crashes, stalls, repeats>>

\* -------------------------------------------------------------- a pass --
Moves(p, at) == pass' = [pass EXCEPT ![p].at = at]

Ends(p, at) == pass' = [pass EXCEPT ![p] = [Idle EXCEPT !.at = at]]

Live(p) == pass[p].at \in {"read", "grouped", "found", "asking"}

\* The first attempt starts with the finished run, the next once it is given up on.
MayBegin(r, a) ==
  /\ r \in finished /\ pass[<<r, a>>].at = "idle"
  /\ a > 1 => LET before == <<r, a - 1>>
              IN  pass[before].at = "gone" \/ (Live(before) /\ stalls < MaxStalls)

\* A run whose pass is on record is left alone; otherwise its project's failures are read.
Begin(r, a) ==
  /\ MayBegin(r, a)
  /\ pass' = [pass EXCEPT ![<<r, a>>] =
                IF r \in done THEN [Idle EXCEPT !.at = "replayed"]
                ELSE [Idle EXCEPT !.at = "read", !.failures = RecentFailures]]
  /\ stalls' = stalls + IF a > 1 /\ Live(<<r, a - 1>>) THEN 1 ELSE 0
  /\ UNCHANGED <<results, finished, clusters, hypotheses, done, crashes, repeats>>

\* The stored clusters are read before this pass overwrites them; then no I/O.
Group(p) ==
  /\ pass[p].at = "read"
  /\ IF pass[p].failures = <<>> THEN Ends(p, "over")
     ELSE LET triaged == Triage(pass[p].failures)
          IN  pass' = [pass EXCEPT ![p].at = "grouped", ![p].triaged = triaged,
                                   ![p].asking = ToAsk(triaged, Previous)]
  /\ UNCHANGED <<results, finished, clusters, hypotheses, done, crashes, stalls, repeats>>

\* The transaction that records the clusters finds what is already there ...
Find(p) ==
  /\ pass[p].at = "grouped"
  /\ pass' = [pass EXCEPT ![p].at = "found",
                          ![p].found = [key \in DOMAIN clusters |-> clusters[key].members]]
  /\ UNCHANGED <<results, finished, clusters, hypotheses, done, crashes, stalls, repeats>>

\* What a pass is about to insert: a row for a cluster not found, and new members.
Inserts(cluster, found) ==
  IF cluster.key \in DOMAIN found THEN cluster.members \ found[cluster.key] ELSE cluster.members

\* ... and loses everything if another inserted one of its rows in between.
Collides(triaged, found) ==
  \E cluster \in triaged :
    \/ ~ClusterOK(cluster)
    \/ /\ cluster.key \in DOMAIN clusters
       /\ \/ cluster.key \notin DOMAIN found
          \/ Inserts(cluster, found) \cap clusters[cluster.key].members # {}

\* A bug of the repository: the first sighting decides what a cluster is made of.
Merged_KeepsFirst(old, cluster) == [cluster EXCEPT !.members = old.members]

\* Derived fields are overwritten; members only accumulate.
Merged(old, cluster) == [cluster EXCEPT !.members = @ \cup old.members]

Record(p) ==
  /\ pass[p].at = "found"
  /\ IF Collides(pass[p].triaged, pass[p].found)
     THEN Ends(p, "lost") /\ UNCHANGED clusters
     ELSE LET keys == { c.key : c \in pass[p].triaged }
              by == [key \in keys |-> CHOOSE c \in pass[p].triaged : c.key = key]
          IN  /\ clusters' = [key \in keys \cup DOMAIN clusters |->
                                IF key \notin keys THEN clusters[key]
                                ELSE IF key \notin DOMAIN clusters THEN by[key]
                                ELSE Merged(clusters[key], by[key])]
              /\ pass' = [pass EXCEPT ![p].at = "asking", ![p].found = <<>>]
  /\ UNCHANGED <<results, finished, hypotheses, done, crashes, stalls, repeats>>

\* A hypothesis names a cause or says why there is none, never both.
Answers == {"explained", "failed"}

\* One deep call, between two transactions; its failure is an answer too.
Ask(p) ==
  /\ pass[p].at = "asking" /\ pass[p].asking # <<>>
  /\ \E answer \in Answers :
       LET cluster == Head(pass[p].asking)
       IN  pass' = [pass EXCEPT
             ![p].asking = Tail(@),
             ![p].answers = Append(@, [key |-> cluster.key, run |-> p[1], answer |-> answer,
                                       runs |-> Cardinality(RunsOf(cluster))])]
  /\ UNCHANGED <<results, finished, clusters, hypotheses, done, crashes, stalls, repeats>>

\* A bug of the pass: a concurrent attempt's answers are added to what is there.
Storable_Always(r) == TRUE

\* The idempotency record is unique: whoever comes second rolls its answers back.
Storable(r) == r \notin done

\* A hypothesis this run already recorded for the cluster is kept.
Fresh(answers) ==
  Among(answers, { h \in ToSet(answers) : \A i \in DOMAIN hypotheses :
                                            ~(hypotheses[i].key = h.key /\ hypotheses[i].run = h.run) })

Store(p) ==
  /\ pass[p].at = "asking" /\ pass[p].asking = <<>>
  /\ IF Storable(p[1])
     THEN /\ hypotheses' = hypotheses \o Fresh(pass[p].answers)
          /\ done' = done \cup {p[1]}
          /\ Ends(p, "over")
     ELSE /\ Ends(p, "replayed")
          /\ UNCHANGED <<hypotheses, done>>
  /\ UNCHANGED <<results, finished, clusters, crashes, stalls, repeats>>

\* The worker dies; what was committed stays.
Crash(p) ==
  /\ Live(p) /\ crashes < MaxCrashes
  /\ Moves(p, "gone")
  /\ crashes' = crashes + 1
  /\ UNCHANGED <<results, finished, clusters, hypotheses, done, stalls, repeats>>

FailuresNext ==
  \/ \E r \in Runs : Verify(r) \/ Finish(r)
  \/ \E r \in Runs, a \in Attempts : Begin(r, a)
  \/ \E p \in Passes : Group(p) \/ Find(p) \/ Record(p) \/ Ask(p) \/ Store(p) \/ Crash(p)

FailuresSpec == FailuresInit /\ [][FailuresNext]_failuresVars

\* ---------------------------------------------------------- properties --
\* A run on record as analysed has all its failures in stored clusters, whatever
\* attempt put them there and whoever recorded meanwhile (analyze_failures.py:17), as
\* long as a batch holds every report (FAILURE_BATCH_LIMIT).
AnalysedIsGrouped ==
  \A r \in done : \A i \in DOMAIN results[r] :
    LET failure == Signal(r, results[r][i])
    IN  IsFailure(results[r][i]) =>
          /\ Key(failure) \in DOMAIN clusters
          /\ <<r, failure.criterion>> \in clusters[Key(failure)].members

\* Once a run's analysis is on record no attempt adds an answer in its name, however
\* late it comes back from the model (analyze_failures.py:127, ports/triage.py:88); and
\* what is on record of any run stays as it is.
ReplayAddsNothing ==
  [][/\ IsPrefix(hypotheses, hypotheses')
     /\ \A i \in DOMAIN hypotheses' \ DOMAIN hypotheses : hypotheses'[i].run \notin done]_failuresVars

\* ------------------------------- what the documents say and the code does not --
\* "an environment that went down does not produce one bug per criterion that came
\* after it" (clustering.py:36-37): at most one counted problem per outage.
OutageIsOneProblem ==
  \A r \in Runs :
    Cardinality({ key \in DOMAIN clusters :
                    /\ clusters[key].status = "independent" /\ key[1] = "environment"
                    /\ RunsOf(clusters[key]) = {r} }) <= 1

\* The latest good explanation of a cluster, 0 when it has none.
ExplainedAt(key) ==
  LET about == { i \in DOMAIN hypotheses : hypotheses[i].key = key }
      last == hypotheses[Max(about)]
  IN  IF about = {} \/ last.answer = "failed" THEN 0 ELSE last.runs

\* "the size a cluster had when it was last explained" (analyze_failures.py:105): a
\* cluster twice that size is asked about again by the pass that records it.
GrownIsAskedAgain ==
  [][\A p \in Passes : \A key \in DOMAIN clusters' :
       LET before == ExplainedAt(key)
       IN  /\ pass[p].at = "found" /\ pass'[p].at = "asking"
           /\ before > 0 /\ Cardinality(RunsOf(clusters'[key])) >= Max({2, 2 * before})
           /\ Len(pass[p].asking) < MaxClusters
           => \E i \in DOMAIN pass[p].asking : pass[p].asking[i].key = key]_failuresVars

\* "the retry re-derives the same clusters ... and asks again" (analyze_failures.py:18):
\* given the same failures, about everything the attempt that died had still to ask.
RetryAsksAgain ==
  [][\A r \in Runs : \A a \in Attempts \ {1} :
       /\ pass[<<r, a>>].at = "read" /\ pass'[<<r, a>>].at = "grouped"
       /\ pass[<<r, a - 1>>].at = "gone"
       /\ pass[<<r, a - 1>>].failures = pass[<<r, a>>].failures
       => { c.key : c \in ToSet(pass[<<r, a - 1>>].asking) }
            \subseteq { c.key : c \in ToSet(pass'[<<r, a>>].asking) }]_failuresVars

\* A member points at a criterion result that failed (ports/triage.py:24-29).
MembersAreFailures ==
  \A key \in DOMAIN clusters : \A m \in clusters[key].members :
    \E i \in DOMAIN results[m[1]] :
      IsFailure(results[m[1]][i]) /\ Key(Signal(m[1], results[m[1]][i])) = key
=============================================================================
