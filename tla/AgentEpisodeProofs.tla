------------------------- MODULE AgentEpisodeProofs -------------------------
(***************************************************************************)
(* What an episode may say and do, for plans, policies and applications of  *)
(* any size, and workers and browsers that die at any moment.               *)
(***************************************************************************)
EXTENDS AgentEpisode, TLAPS

Contexts ==
  [goal : BOOLEAN, failed : BOOLEAN, last : Steps, pending : Actions \cup {"none"},
   ok : BOOLEAN, denied : BOOLEAN, rejected : BOOLEAN,
   type : Types \cup {"none"}, recoveries : Nat, actions : Nat, calls : Nat,
   kind : BlockingKinds \cup {"none"}, seen : SUBSET Hinted,
   results : Seq(Results(Criteria))]

Wrong == {"failed", "refused", "denied"}

\* A proposal that was refused is not acted on, and is forgotten by the next one.
RefusalIsPending(n, h) ==
  h.rejected => n \in {"act", "verify", "recover"} /\ h.pending = "none"

\* With nothing left to do the episode stopped, or is at its goal.
StopsOrArrives(n, h) ==
  \/ h.failed \/ (h.goal /\ h.last \notin Wrong)
  \/ n \notin {"act", "verify", "verify_criteria"}
  \/ n # "verify_criteria" /\ (h.pending # "none" \/ h.rejected)

\* What the last step was, at the nodes that go by it.
LastIsKnown(n, h) ==
  /\ n = "checkpoint" => h.last = "succeeded"
  /\ n = "recover" /\ ~h.rejected => h.last = "failed"
  /\ h.last = "denied" => n \in {"verify_criteria", "close_episode"}

\* The environment is blamed once an action that needs nothing of the page failed for
\* good, until the next plan.
EnvironmentEarned(n, h) ==
  h.kind = "environment" =>
    /\ h.type \in {"navigation", "page"} /\ h.last \notin {"refused", "succeeded", "denied"}
    /\ n \notin {"act", "verify", "checkpoint", "recover"}

\* The results answer the plan, and say no more than the run did.
Answers(h) ==
  /\ DOMAIN h.results = DOMAIN plan
  /\ \A i \in DOMAIN plan :
       /\ h.results[i].criterion = plan[i]
       /\ plan[i] \in h.seen => h.results[i].outcome = "met"
       /\ IsProductDefect(h.results[i]) => h.goal /\ ~h.failed /\ h.last \notin Wrong
       /\ h.failed => h.results[i] = IF plan[i] \in h.seen THEN Result(plan[i], "met", "none")
                                     ELSE Unreached(plan[i], h.kind)

Closing == {"close_episode", "end", "recorded", "returned"}

\* What the channels of a graph are worth at a node.
Sound(n, h) ==
  /\ h \in Contexts
  /\ RefusalIsPending(n, h)
  /\ StopsOrArrives(n, h)
  /\ LastIsKnown(n, h)
  /\ EnvironmentEarned(n, h)
  /\ n \in Closing => Answers(h)

\* Every attempt that is given up on is dead, so there is the first one only.
Alone ==
  /\ awaited = 1
  /\ plan \in Seq(Criteria)
  /\ node \in [Attempts -> Nodes \cup {"none", "end", "recorded", "returned"}]
  /\ node[1] # "none" /\ node[2] = "none"
  /\ g \in [Attempts -> Contexts]
  /\ page \in [Attempts -> Pages \cup {"about:blank", "outside", "gone"}]
  /\ saved \in [node : Nodes \cup {"start", "end"}, g : Contexts]

\* What is stored and what was returned are the results of the attempt.
ReturnedIsStored ==
  /\ node[1] \in {"recorded", "returned"} => stored = g[1].results
  /\ verdict # "none" => node[1] = "returned" /\ verdict = DeriveVerdict(g[1].results, plan)

EpisodeInv ==
  /\ Alone
  /\ Sound(node[1], g[1])
  /\ Sound(saved.node, saved.g)
  /\ ReturnedIsStored
  /\ OneRowPerCriterion

\* Whoever is to act on a decision whose write was done already resumed there, and holds
\* no page.
WriteIsBehind ==
  performed # "none" /\ node[1] = "act" /\ g[1].pending # "none" =>
    page[1] \in {"about:blank", "gone"} /\ saved.node = "act"

WriteInv == EpisodeInv /\ WriteIsBehind

-----------------------------------------------------------------------------
\* What a set of channels is made of, for the prover.
LEMMA ContextIs ==
  ASSUME NEW h \in Contexts
  PROVE  /\ h.goal \in BOOLEAN /\ h.failed \in BOOLEAN /\ h.ok \in BOOLEAN
         /\ h.denied \in BOOLEAN /\ h.rejected \in BOOLEAN
         /\ h.last \in Steps /\ h.pending \in Actions \cup {"none"}
         /\ h.type \in Types \cup {"none"}
         /\ h.recoveries \in Nat /\ h.actions \in Nat /\ h.calls \in Nat
         /\ h.kind \in BlockingKinds \cup {"none"}
         /\ h.seen \subseteq Hinted /\ h.results \in Seq(Results(Criteria))
BY DEF Contexts

\* A thread nobody has started, and one that starts over.
LEMMA FreshIs == Sound("observe", Fresh) /\ Sound("start", Fresh)
<1>1. Fresh \in Contexts
  BY DEF Fresh, Contexts, Steps
<1>2. Fresh.rejected = FALSE /\ Fresh.last = "none" /\ Fresh.kind = "none"
  BY DEF Fresh
<1> QED BY <1>1, <1>2 DEF Sound, RefusalIsPending, StopsOrArrives, LastIsKnown,
                          EnvironmentEarned, Closing

\* Every channel but three is kept, and those say that nothing happened.
LEMMA NewEpisodeIs ==
  ASSUME NEW n \in {"start", "end"}, NEW h, Sound(n, h)
  PROVE  Sound("observe", NewEpisode(h))
<1> DEFINE ch == NewEpisode(h)
<1>1. h \in Contexts /\ "none" \in Steps
  BY DEF Sound, Steps
<1>2. ch \in Contexts /\ ch.last = "none" /\ ch.rejected = h.rejected /\ ch.kind = h.kind
        /\ ch.type = h.type
  BY <1>1 DEF NewEpisode, Contexts
<1>3. h.rejected = FALSE
  BY <1>1, ContextIs DEF Sound, RefusalIsPending
<1>4. h.kind = "environment" => h.type \in {"navigation", "page"}
  BY DEF Sound, EnvironmentEarned
<1> HIDE DEF ch
<1>5. Sound("observe", ch)
  BY <1>2, <1>3, <1>4 DEF Sound, RefusalIsPending, StopsOrArrives, LastIsKnown,
                          EnvironmentEarned, Closing
<1> QED BY <1>5 DEF ch

\* observe
LEMMA ObservedIs ==
  ASSUME NEW h, Sound("observe", h), NEW p
  PROVE  Sound("plan", [h EXCEPT !.seen = Sightings(@, p)])
<1> DEFINE seen == Sightings(h.seen, p)
           ch == [h EXCEPT !.seen = seen]
<1>1. h \in Contexts
  BY DEF Sound
<1>2. seen \subseteq Hinted
  <2>1. Shown(p) \subseteq Hinted
    BY EpisodeAssumption DEF Shown
  <2> QED BY <1>1, <2>1, ContextIs DEF Sightings
<1> HIDE DEF seen
<1>3. /\ ch \in Contexts /\ ch.last = h.last /\ ch.rejected = h.rejected /\ ch.kind = h.kind
      /\ ch.type = h.type
  BY <1>1, <1>2 DEF Contexts
<1> HIDE DEF ch
<1>4. Sound("plan", ch)
  BY <1>3 DEF Sound, RefusalIsPending, StopsOrArrives, LastIsKnown, EnvironmentEarned, Closing
<1> QED BY <1>4 DEF ch, seen

\* plan: what the planner may leave behind.
Planned(h) ==
  { Proposed(h, action) : action \in Actions }
    \cup { StopOnBudget(h), Refused(h), NoDecision(h), NothingLeft(h) }

\* Whatever planning leads to is sound.
LEMMA PlannedIs ==
  ASSUME NEW h, Sound("plan", h), NEW ch \in Planned(h)
  PROVE  Sound("act", ch)
<1>1. /\ h \in Contexts /\ h.rejected = FALSE /\ h.last # "denied" /\ h.calls + 1 \in Nat
      /\ h.failed \in BOOLEAN /\ h.goal \in BOOLEAN
  BY ContextIs DEF Sound, RefusalIsPending, LastIsKnown
<1>2. "refused" \in Steps /\ {"agent_budget", "model"} \subseteq BlockingKinds
  BY DEF Steps, BlockingKinds
<1>3. SUFFICES /\ ch \in Contexts /\ ch.last # "denied"
               /\ ch.kind # "environment"
               /\ ch.rejected => ch.pending = "none"
               /\ \/ ch.failed \/ (ch.goal /\ ch.last \notin Wrong)
                  \/ ch.pending # "none" \/ ch.rejected
  BY <1>1 DEF Sound, RefusalIsPending, StopsOrArrives, LastIsKnown, EnvironmentEarned, Closing
<1>4. ASSUME NEW action \in Actions, ch = Proposed(h, action)
      PROVE  /\ ch \in Contexts /\ ch.last = h.last
             /\ ch.kind = "none" /\ ch.rejected = FALSE /\ ch.pending = action
  <2>1. action \in Actions \cup {"none"}
    OBVIOUS
  <2> HIDE DEF Actions
  <2> QED BY <1>1, <1>4, <2>1 DEF Proposed, Contexts
<1>5. ASSUME ch = Refused(h)
      PROVE  /\ ch \in Contexts /\ ch.last = "refused"
             /\ ch.kind = "none" /\ ch.rejected = TRUE /\ ch.pending = "none"
  BY <1>1, <1>2, <1>5 DEF Refused, Contexts
<1>6. ASSUME ch = NoDecision(h)
      PROVE  /\ ch \in Contexts /\ ch.last = h.last
             /\ ch.kind = "model" /\ ch.rejected = FALSE /\ ch.failed = TRUE
  BY <1>1, <1>2, <1>6 DEF NoDecision, Contexts
<1>7. ASSUME ch = StopOnBudget(h)
      PROVE  /\ ch \in Contexts /\ ch.last = h.last
             /\ ch.kind = "agent_budget" /\ ch.rejected = FALSE /\ ch.failed = TRUE
  BY <1>1, <1>2, <1>7 DEF StopOnBudget, Contexts
<1>8. ASSUME ch = NothingLeft(h)
      PROVE  /\ ch \in Contexts /\ ch.last = h.last
             /\ ch.kind = "none" /\ ch.rejected = FALSE
             /\ ch.failed \/ (ch.goal /\ ch.last \notin {"failed", "refused"})
  <2> DEFINE unresolved == h.last \in {"failed", "refused"}
             failed == h.failed \/ unresolved
  <2>1. ch = [h EXCEPT !.pending = "none", !.calls = @ + 1, !.kind = "none",
                       !.rejected = FALSE, !.goal = ~unresolved, !.failed = failed]
    BY <1>8 DEF NothingLeft
  <2>2. unresolved \in BOOLEAN /\ failed \in BOOLEAN /\ (unresolved => failed)
    BY <1>1
  <2> HIDE DEF failed
  <2>3. h.last \notin {"failed", "refused"} <=> ~unresolved
    OBVIOUS
  <2> HIDE DEF unresolved
  <2>4. /\ ch \in Contexts /\ ch.last = h.last
        /\ ch.kind = "none" /\ ch.rejected = FALSE /\ ch.goal = ~unresolved /\ ch.failed = failed
    BY <1>1, <2>1, <2>2 DEF Contexts
  <2> QED BY <2>2, <2>3, <2>4
<1>9. "none" \notin Actions
  BY DEF Actions
<1> QED BY <1>1, <1>4, <1>5, <1>6, <1>7, <1>8, <1>9 DEF Planned, Wrong

\* act, with nothing to do.
LEMMA NothingDoneIs ==
  ASSUME NEW h, Sound("act", h), h.pending = "none",
         NEW ch \in {h, [h EXCEPT !.ok = TRUE, !.denied = FALSE]}
  PROVE  Sound("verify", ch)
<1>1. h \in Contexts
  BY DEF Sound
<1>2. /\ ch \in Contexts /\ ch.last = h.last /\ ch.rejected = h.rejected /\ ch.kind = h.kind
      /\ ch.type = h.type /\ ch.goal = h.goal /\ ch.failed = h.failed
      /\ ch.pending = h.pending
  BY <1>1 DEF Contexts
<1> QED BY <1>2 DEF Sound, RefusalIsPending, StopsOrArrives, LastIsKnown, EnvironmentEarned, Closing

\* act: an action that was tried or denied.
LEMMA ActedIs ==
  ASSUME NEW h, Sound("act", h), h.pending # "none", NEW ok \in BOOLEAN, NEW denied \in BOOLEAN
  PROVE  Sound("verify", Acted(h, ok, denied)) /\ Acted(h, ok, denied).ok = ok
<1> DEFINE ch == Acted(h, ok, denied)
<1>1. h \in Contexts /\ h.actions + 1 \in Nat
  BY ContextIs DEF Sound
<1>2. TypeOf(h.pending) \in Types \cup {"none"}
  BY DEF TypeOf, Types
<1>3. /\ ch \in Contexts /\ ch.last = h.last /\ ch.rejected = h.rejected /\ ch.kind = h.kind
      /\ ch.ok = ok /\ ch.pending = h.pending
  BY <1>1, <1>2 DEF Acted, Contexts
<1> HIDE DEF ch
<1>4. Sound("verify", ch)
  BY <1>3 DEF Sound, RefusalIsPending, StopsOrArrives, LastIsKnown, EnvironmentEarned, Closing
<1> QED BY <1>3, <1>4 DEF ch

\* verify
LEMMA RecordedIs ==
  ASSUME NEW h, Sound("verify", h)
  PROVE  Sound(AfterVerify(Recorded(h)), Recorded(h))
<1> DEFINE ch == Recorded(h)
<1>1. /\ h \in Contexts /\ h.rejected \in BOOLEAN /\ h.denied \in BOOLEAN /\ h.ok \in BOOLEAN
      /\ h.rejected => h.pending = "none"
      /\ h.last # "denied" /\ h.kind # "environment"
  BY ContextIs DEF Sound, RefusalIsPending, LastIsKnown, EnvironmentEarned
<1>2. {"denied", "succeeded", "failed"} \subseteq Steps /\ "policy" \in BlockingKinds
  BY DEF Steps, BlockingKinds
<1>3. CASE h.pending = "none"
  <2>1. ch = h
    BY <1>3 DEF Recorded
  <2>2. AfterVerify(h) = IF h.rejected THEN "recover" ELSE "verify_criteria"
    BY <1>1, <1>3 DEF AfterVerify
  <2>3. ~h.rejected => h.failed \/ (h.goal /\ h.last \notin Wrong)
    BY <1>3 DEF Sound, StopsOrArrives
  <2>4. CASE h.rejected
    <3>1. Sound("recover", h)
      BY <1>1, <2>4 DEF Sound, RefusalIsPending, StopsOrArrives, LastIsKnown, EnvironmentEarned,
                        Closing
    <3> QED BY <2>1, <2>2, <2>4, <3>1
  <2>5. CASE ~h.rejected
    <3>1. Sound("verify_criteria", h)
      BY <1>1, <2>3, <2>5 DEF Sound, RefusalIsPending, StopsOrArrives, LastIsKnown,
                              EnvironmentEarned, Closing
    <3> QED BY <2>1, <2>2, <2>5, <3>1
  <2> QED BY <2>4, <2>5
<1>4. CASE h.pending # "none" /\ h.denied
  <2>1. ch = [h EXCEPT !.last = "denied", !.failed = TRUE, !.goal = FALSE, !.kind = "policy"]
    BY <1>4 DEF Recorded
  <2>2. /\ ch \in Contexts /\ ch.failed = TRUE /\ ch.kind = "policy" /\ ch.rejected = FALSE
        /\ ch.denied = TRUE /\ ch.pending = h.pending
    BY <1>1, <1>2, <1>4, <2>1 DEF Contexts
  <2> HIDE DEF ch
  <2>3. AfterVerify(ch) = "verify_criteria"
    BY <2>2 DEF AfterVerify
  <2>4. Sound("verify_criteria", ch)
    BY <2>2 DEF Sound, RefusalIsPending, StopsOrArrives, LastIsKnown, EnvironmentEarned, Closing
  <2> QED BY <2>2, <2>3, <2>4 DEF ch
<1>5. CASE h.pending # "none" /\ ~h.denied
  <2> DEFINE last == IF h.ok THEN "succeeded" ELSE "failed"
  <2>1. ch = [h EXCEPT !.last = last]
    BY <1>5 DEF Recorded
  <2>2. last \in Steps /\ last \in {"succeeded", "failed"}
    BY <1>2
  <2>3. last = "succeeded" <=> h.ok
    OBVIOUS
  <2> HIDE DEF last
  <2>4. /\ ch \in Contexts /\ ch.last = last /\ ch.kind = h.kind /\ ch.rejected = FALSE
        /\ ch.denied = FALSE /\ ch.pending = h.pending /\ ch.ok = h.ok
    BY <1>1, <1>5, <2>1, <2>2 DEF Contexts
  <2> HIDE DEF ch
  <2>5. AfterVerify(ch) = IF h.ok THEN "checkpoint" ELSE "recover"
    BY <1>5, <2>4 DEF AfterVerify
  <2>6. CASE h.ok
    <3>1. Sound("checkpoint", ch)
      BY <1>1, <2>2, <2>3, <2>4, <2>6 DEF Sound, RefusalIsPending, StopsOrArrives, LastIsKnown,
                                      EnvironmentEarned, Closing
    <3> QED BY <2>4, <2>5, <2>6, <3>1 DEF ch
  <2>7. CASE ~h.ok
    <3>1. Sound("recover", ch)
      BY <1>1, <2>2, <2>3, <2>4, <2>7 DEF Sound, RefusalIsPending, StopsOrArrives, LastIsKnown,
                                      EnvironmentEarned, Closing
    <3> QED BY <2>4, <2>5, <2>7, <3>1 DEF ch
  <2> QED BY <2>6, <2>7
<1> QED BY <1>3, <1>4, <1>5

\* checkpoint
LEMMA CheckpointedIs ==
  ASSUME NEW h, Sound("checkpoint", h)
  PROVE  Sound(IF h.goal THEN "verify_criteria" ELSE "observe", [h EXCEPT !.recoveries = 0])
<1> DEFINE ch == [h EXCEPT !.recoveries = 0]
<1>1. h \in Contexts /\ h.rejected = FALSE /\ h.last = "succeeded" /\ h.kind # "environment"
  BY ContextIs DEF Sound, RefusalIsPending, LastIsKnown, EnvironmentEarned
<1>2. /\ ch \in Contexts /\ ch.last = h.last /\ ch.rejected = h.rejected /\ ch.kind = h.kind
      /\ ch.goal = h.goal
  BY <1>1 DEF Contexts
<1> HIDE DEF ch
<1>3. h.goal => Sound("verify_criteria", ch)
  BY <1>1, <1>2 DEF Sound, RefusalIsPending, StopsOrArrives, LastIsKnown, EnvironmentEarned,
                    Closing, Wrong
<1>4. Sound("observe", ch)
  BY <1>1, <1>2 DEF Sound, RefusalIsPending, StopsOrArrives, LastIsKnown, EnvironmentEarned, Closing
<1> QED BY <1>2, <1>3, <1>4 DEF ch

\* recover: tried again, or given up on.
Tried(h) == [h EXCEPT !.recoveries = @ + 1, !.rejected = FALSE]
GivenUp(h) == [Tried(h) EXCEPT !.failed = TRUE, !.goal = FALSE, !.kind = GiveUpKind(h)]

\* Recovering leads to what is sound, whether it gives up or tries again.
LEMMA RecoveredIs ==
  ASSUME NEW h, Sound("recover", h)
  PROVE  /\ Sound("verify_criteria", GivenUp(h))
         /\ Sound(IF h.failed THEN "verify_criteria" ELSE "plan", Tried(h))
<1>1. /\ h \in Contexts /\ h.last # "denied" /\ h.kind # "environment" /\ h.recoveries + 1 \in Nat
      /\ ~h.rejected => h.last = "failed"
      /\ h.type \in {"none", "navigation", "element", "page"}
  BY ContextIs DEF Sound, LastIsKnown, EnvironmentEarned, Types
<1>2. /\ Tried(h) \in Contexts /\ Tried(h).last = h.last /\ Tried(h).rejected = FALSE
      /\ Tried(h).kind = h.kind /\ Tried(h).failed = h.failed
      /\ Tried(h).type = h.type
  BY <1>1 DEF Tried, Contexts
<1>3. h.failed => Sound("verify_criteria", Tried(h))
  BY <1>1, <1>2 DEF Sound, RefusalIsPending, StopsOrArrives, LastIsKnown, EnvironmentEarned, Closing
<1>4. Sound("plan", Tried(h))
  BY <1>1, <1>2 DEF Sound, RefusalIsPending, StopsOrArrives, LastIsKnown, EnvironmentEarned, Closing
<1>5. /\ GiveUpKind(h) \in BlockingKinds \cup {"none"}
      /\ GiveUpKind(h) = "environment" => h.type \in {"navigation", "page"} /\ ~h.rejected
  BY <1>1 DEF GiveUpKind, KindForAction, BlockingKinds
<1>6. /\ GivenUp(h) \in Contexts /\ GivenUp(h).last = h.last /\ GivenUp(h).rejected = FALSE
      /\ GivenUp(h).kind = GiveUpKind(h)
      /\ GivenUp(h).failed = TRUE /\ GivenUp(h).type = h.type
  <2> DEFINE t == Tried(h)
             kind == GiveUpKind(h)
  <2>1. GivenUp(h) = [t EXCEPT !.failed = TRUE, !.goal = FALSE, !.kind = kind]
    BY DEF GivenUp
  <2>2. /\ t \in Contexts /\ t.last = h.last /\ t.rejected = FALSE
        /\ t.type = h.type /\ kind \in BlockingKinds \cup {"none"}
    BY <1>2, <1>5
  <2> HIDE DEF t, kind
  <2>3. /\ GivenUp(h) \in Contexts /\ GivenUp(h).last = t.last /\ GivenUp(h).rejected = t.rejected
        /\ GivenUp(h).kind = kind
        /\ GivenUp(h).failed = TRUE /\ GivenUp(h).type = t.type
    BY <2>1, <2>2 DEF Contexts
  <2> QED BY <2>2, <2>3 DEF kind
<1>7. Sound("verify_criteria", GivenUp(h))
  BY <1>1, <1>5, <1>6 DEF Sound, RefusalIsPending, StopsOrArrives, LastIsKnown, EnvironmentEarned,
                          Closing
<1> QED BY <1>2, <1>3, <1>4, <1>6, <1>7

\* verify_criteria: what the model made of the criteria it was asked about.
Opinions(h) ==
  { judged \in [Semantic(h) -> UNION { Judgements(c) : c \in Criteria }] :
      \A i \in Semantic(h) : judged[i] \in Judgements(plan[i]) }

\* There is one result for each criterion of the plan, and what a check has met stays met.
LEMMA ResultsAre ==
  ASSUME plan \in Seq(Criteria), NEW h \in Contexts, NEW p, NEW judged \in Opinions(h)
  PROVE  /\ ResultsOf(h, p, judged) \in Seq(Results(Criteria))
         /\ DOMAIN ResultsOf(h, p, judged) = DOMAIN plan
         /\ \A i \in DOMAIN plan :
              LET r == ResultsOf(h, p, judged)[i] IN
              /\ r.criterion = plan[i]
              /\ plan[i] \in h.seen => r.outcome = "met"
              /\ IsProductDefect(r) => ~h.failed
              /\ h.failed => r = IF plan[i] \in h.seen THEN Result(plan[i], "met", "none")
                                 ELSE Unreached(plan[i], h.kind)
<1> DEFINE R(i) == CASE h.failed -> IF plan[i] \in h.seen THEN Result(plan[i], "met", "none")
                                    ELSE Unreached(plan[i], h.kind)
                     [] ~h.failed /\ plan[i] \in Hinted -> Checked(plan[i], Shown(p), h.seen)
                     [] OTHER -> judged[i]
           results == ResultsOf(h, p, judged)
<1>1. results = [i \in DOMAIN plan |-> R(i)]
  BY DEF ResultsOf
<1>2. h.failed \in BOOLEAN /\ h.seen \subseteq Hinted /\ h.kind \in BlockingKinds \cup {"none"}
  BY ContextIs
<1>3. ASSUME NEW c \in Criteria, NEW outcome \in Outcomes, NEW kind \in FailureKinds \cup {"none"},
             outcome = "met" => kind = "none", outcome = "not_met" => kind # "none"
      PROVE  Result(c, outcome, kind) \in Results(Criteria)
               /\ Result(c, outcome, kind).criterion = c
               /\ Result(c, outcome, kind).outcome = outcome
               /\ Result(c, outcome, kind).kind = kind
  BY <1>3 DEF Result, Results
<1>4. ASSUME NEW i \in DOMAIN plan
      PROVE  /\ R(i) \in Results(Criteria)
             /\ R(i).criterion = plan[i]
             /\ plan[i] \in h.seen => R(i).outcome = "met"
             /\ IsProductDefect(R(i)) => ~h.failed
             /\ h.failed => R(i) = IF plan[i] \in h.seen THEN Result(plan[i], "met", "none")
                                   ELSE Unreached(plan[i], h.kind)
  <2>1. plan[i] \in Criteria
    OBVIOUS
  <2>2. CASE h.failed
    <3>1. R(i) = IF plan[i] \in h.seen THEN Result(plan[i], "met", "none")
                 ELSE Unreached(plan[i], h.kind)
      BY <2>2
    <3>2. /\ Result(plan[i], "met", "none") \in Results(Criteria)
          /\ Result(plan[i], "met", "none").criterion = plan[i]
          /\ Result(plan[i], "met", "none").outcome = "met"
      BY <1>3, <2>1 DEF Outcomes
    <3>3. /\ Unreached(plan[i], h.kind) \in Results(Criteria)
          /\ Unreached(plan[i], h.kind).criterion = plan[i]
          /\ Unreached(plan[i], h.kind).kind # "product"
      BY <1>2, <1>3, <2>1 DEF Unreached, Outcomes, FailureKinds, BlockingKinds
    <3>4. ~IsProductDefect(R(i))
      BY <3>1, <3>2, <3>3 DEF IsProductDefect, ProductDefectKinds
    <3> QED BY <2>2, <3>1, <3>2, <3>3, <3>4
  <2>3. CASE ~h.failed /\ plan[i] \in Hinted
    <3>1. R(i) = Checked(plan[i], Shown(p), h.seen)
      BY <2>3
    <3>2. /\ Checked(plan[i], Shown(p), h.seen) \in Results(Criteria)
          /\ Checked(plan[i], Shown(p), h.seen).criterion = plan[i]
          /\ plan[i] \in h.seen => Checked(plan[i], Shown(p), h.seen).outcome = "met"
      BY <1>3, <2>1 DEF Checked, Outcomes, FailureKinds
    <3> QED BY <2>3, <3>1, <3>2
  <2>4. CASE ~h.failed /\ plan[i] \notin Hinted
    <3>1. R(i) = judged[i]
      BY <2>4
    <3>2. judged[i] \in Judgements(plan[i])
      BY <2>4 DEF Opinions, Semantic
    <3>3. \A r \in Judgements(plan[i]) : r \in Results(Criteria) /\ r.criterion = plan[i]
      BY <1>3, <2>1 DEF Judgements, Outcomes, FailureKinds
    <3> QED BY <1>2, <2>4, <3>1, <3>2, <3>3
  <2> QED BY <1>2, <2>2, <2>3, <2>4
<1> HIDE DEF R
<1>5. results \in [1 .. Len(plan) -> Results(Criteria)] /\ DOMAIN results = DOMAIN plan
  BY <1>1, <1>4
<1>6. results \in Seq(Results(Criteria))
  BY <1>5
<1>7. \A i \in DOMAIN plan : results[i] = R(i)
  BY <1>1
<1> QED BY <1>4, <1>5, <1>6, <1>7

\* The verified episode closes with an answer to the plan.
LEMMA VerifiedIs ==
  ASSUME plan \in Seq(Criteria), NEW h, Sound("verify_criteria", h), NEW p,
         NEW judged \in Opinions(h)
  PROVE  Sound("close_episode", [h EXCEPT !.results = ResultsOf(h, p, judged)])
<1> DEFINE results == ResultsOf(h, p, judged)
           ch == [h EXCEPT !.results = results]
<1>1. /\ h \in Contexts /\ h.failed \in BOOLEAN
      /\ h.rejected = FALSE /\ (h.failed \/ (h.goal /\ h.last \notin Wrong))
  BY ContextIs DEF Sound, RefusalIsPending, StopsOrArrives
<1>2. /\ results \in Seq(Results(Criteria)) /\ DOMAIN results = DOMAIN plan
      /\ \A i \in DOMAIN plan :
           /\ results[i].criterion = plan[i]
           /\ plan[i] \in h.seen => results[i].outcome = "met"
           /\ IsProductDefect(results[i]) => ~h.failed
           /\ h.failed => results[i] = IF plan[i] \in h.seen THEN Result(plan[i], "met", "none")
                                       ELSE Unreached(plan[i], h.kind)
  BY <1>1, ResultsAre
<1> HIDE DEF results
<1>3. /\ ch \in Contexts /\ ch.last = h.last /\ ch.rejected = h.rejected /\ ch.kind = h.kind
      /\ ch.type = h.type /\ ch.goal = h.goal /\ ch.failed = h.failed
      /\ ch.seen = h.seen /\ ch.results = results
  BY <1>1, <1>2 DEF Contexts
<1> HIDE DEF ch
<1>4. Answers(ch)
  BY <1>1, <1>2, <1>3 DEF Answers
<1>5. Sound("close_episode", ch)
  BY <1>1, <1>3, <1>4 DEF Sound, RefusalIsPending, StopsOrArrives, LastIsKnown, EnvironmentEarned
<1> QED BY <1>3, <1>5 DEF ch, results

\* close_episode
LEMMA ClosedIs ==
  ASSUME NEW h, Sound("close_episode", h)
  PROVE  Sound("end", [h EXCEPT !.last = "none"])
<1> DEFINE ch == [h EXCEPT !.last = "none"]
<1>1. h \in Contexts /\ h.rejected = FALSE /\ Answers(h) /\ "none" \in Steps
  BY ContextIs DEF Sound, RefusalIsPending, Closing, Steps
<1>2. /\ ch \in Contexts /\ ch.last = "none" /\ ch.rejected = h.rejected /\ ch.kind = h.kind
      /\ ch.type = h.type /\ ch.goal = h.goal /\ ch.failed = h.failed
      /\ ch.seen = h.seen /\ ch.results = h.results
  BY <1>1 DEF Contexts
<1> HIDE DEF ch
<1>3. Answers(ch)
  BY <1>1, <1>2 DEF Answers, Wrong
<1>4. Sound("end", ch)
  BY <1>1, <1>2, <1>3 DEF Sound, RefusalIsPending, StopsOrArrives, LastIsKnown, EnvironmentEarned
<1> QED BY <1>2, <1>4 DEF ch

-----------------------------------------------------------------------------
\* A node of the first attempt's graph leads to another with channels worth as much.  A
\* decision to act is a new one, and nothing works in a browser that is gone.
Leads(next, ch) ==
  /\ Reach(1, next, ch)
  /\ next \in Nodes \cup {"end"} /\ Sound(next, ch)
  /\ next = "act" => performed' = "none" \/ ch.pending = "none"
  /\ node[1] = "act" /\ g[1].pending # "none" /\ ch.ok => page[1] # "gone"

\* A step of the graph goes from a sound node to a sound one.
LEMMA GraphLeads ==
  ASSUME EpisodeInv, GraphStep(1)
  PROVE  /\ \E next, ch : Leads(next, ch)
         /\ page' \in [Attempts -> Pages \cup {"about:blank", "outside", "gone"}]
         /\ UNCHANGED <<plan, awaited, stored, verdict>>
<1> DEFINE h == g[1]
           n == node[1]
<1>1. /\ 1 \in Attempts /\ h \in Contexts /\ Sound(n, h)
      /\ plan \in Seq(Criteria)
      /\ page \in [Attempts -> Pages \cup {"about:blank", "outside", "gone"}]
  BY ContextIs DEF EpisodeInv, Alone, Attempts
<1>2. UNCHANGED <<plan, awaited, stored, verdict>>
  BY Zenon DEF GraphStep, Observe, PlanStops, PlanAsks, ActNothing, ActDenied, ActSucceeds,
               ActFails, Verify, Checkpoint, Recover, VerifyCriteria, CloseEpisode
<1>3. page' \in [Attempts -> Pages \cup {"about:blank", "outside", "gone"}]
  <2> DEFINE all == Pages \cup {"about:blank", "outside", "gone"}
  <2>1. CASE ActSucceeds(1)
    <3>1. PICK p \in LeadsTo(h.pending, page[1]) : page' = [page EXCEPT ![1] = p]
      BY <2>1 DEF ActSucceeds
    <3>2. page[1] \in all
      BY <1>1
    <3>3. p \in all
      BY <3>1, <3>2 DEF LeadsTo
    <3> QED BY <1>1, <3>1, <3>3
  <2>2. CASE ActFails(1)
    <3>1. PICK p : p \in {page[1], "outside"} /\ page' = [page EXCEPT ![1] = p]
      BY <2>2 DEF ActFails
    <3>2. p \in all
      BY <1>1, <3>1
    <3> QED BY <1>1, <3>1, <3>2
  <2>3. CASE ~ActSucceeds(1) /\ ~ActFails(1)
    <3>1. page' = page
      BY <2>3, Zenon DEF GraphStep, Observe, PlanStops, PlanAsks, ActNothing, ActDenied, Verify,
                         Checkpoint, Recover, VerifyCriteria, CloseEpisode
    <3> QED BY <1>1, <3>1
  <2> QED BY <2>1, <2>2, <2>3
<1>4. ASSUME NEW next \in (Nodes \ {"act"}) \cup {"end"}, NEW ch, Reach(1, next, ch),
             Sound(next, ch), n # "act" \/ h.pending = "none"
      PROVE  \E to, channels : Leads(to, channels)
  <2>1. Leads(next, ch)
    BY <1>4 DEF Leads
  <2> QED BY <2>1
<1>5. ASSUME NEW ok \in BOOLEAN, NEW denied \in BOOLEAN, n = "act", h.pending # "none",
             Reach(1, "verify", Acted(h, ok, denied)), ok => page[1] # "gone"
      PROVE  \E to, channels : Leads(to, channels)
  <2> DEFINE ch == Acted(h, ok, denied)
  <2>1. Sound("verify", ch) /\ ch.ok = ok
    BY <1>1, <1>5, ActedIs
  <2>2. Reach(1, "verify", ch)
    BY <1>5
  <2> HIDE DEF ch
  <2>3. Leads("verify", ch)
    BY <1>5, <2>1, <2>2 DEF Leads, Nodes
  <2> QED BY <2>3
<1>6. CASE Observe(1)
  <2>1. n = "observe" /\ Reach(1, "plan", [h EXCEPT !.seen = Sightings(@, page[1])])
    BY <1>6 DEF Observe
  <2>2. Sound("plan", [h EXCEPT !.seen = Sightings(@, page[1])])
    BY <1>1, <2>1, ObservedIs
  <2> QED BY <1>2, <1>3, <1>4, <2>1, <2>2 DEF Nodes
<1>7. CASE PlanStops(1) \/ PlanAsks(1)
  <2>1. PICK ch \in Planned(h) :
          /\ n = "plan" /\ Reach(1, "act", ch)
          /\ performed' = "none" \/ ch = StopOnBudget(h)
    BY <1>7, Zenon DEF PlanStops, PlanAsks, Planned
  <2>2. Sound("act", ch)
    BY <1>1, <2>1, PlannedIs
  <2>3. ch = StopOnBudget(h) => ch.pending = "none"
    BY <1>1 DEF StopOnBudget, Contexts
  <2>4. Leads("act", ch)
    BY <2>1, <2>2, <2>3 DEF Leads, Nodes
  <2> QED BY <1>2, <1>3, <2>4
<1>8. CASE ActNothing(1)
  <2>1. n = "act" /\ h.pending = "none"
    BY <1>8 DEF ActNothing
  <2>2. PICK ch \in {h, [h EXCEPT !.ok = TRUE, !.denied = FALSE]} : Reach(1, "verify", ch)
    BY <1>8, Zenon DEF ActNothing
  <2>3. Sound("verify", ch)
    BY <1>1, <2>1, NothingDoneIs
  <2> QED BY <1>2, <1>3, <1>4, <2>1, <2>2, <2>3 DEF Nodes
<1>9. CASE ActDenied(1)
  <2>1. n = "act" /\ Forbidden(h.pending) /\ Reach(1, "verify", Acted(h, FALSE, TRUE))
    BY <1>9 DEF ActDenied
  <2>2. h.pending # "none"
    BY <2>1 DEF Forbidden, WriteActions
  <2> QED BY <1>2, <1>3, <1>5, <2>1, <2>2
<1>10. CASE ActFails(1)
  <2>1. n = "act" /\ h.pending # "none"
    BY <1>10 DEF ActFails
  <2>2. PICK denied \in BOOLEAN : Reach(1, "verify", Acted(h, FALSE, denied))
    BY <1>10 DEF ActFails, Sent, LandedOutside
  <2> QED BY <1>2, <1>3, <1>5, <2>1, <2>2
<1>11. CASE ActSucceeds(1)
  <2>1. n = "act" /\ h.pending # "none"
    BY <1>11 DEF ActSucceeds
  <2>2. PICK p \in LeadsTo(h.pending, page[1]) :
          Reach(1, "verify", Acted(h, ~LandedOutside(h.pending, p), LandedOutside(h.pending, p)))
    BY <1>11, Zenon DEF ActSucceeds, Sent
  <2>3. page[1] # "gone"
    BY <2>2 DEF LeadsTo
  <2> DEFINE outside == LandedOutside(h.pending, p)
             ok == ~outside
  <2>4. Reach(1, "verify", Acted(h, ok, outside))
    BY <2>2
  <2>5. ok \in BOOLEAN /\ outside \in BOOLEAN
    BY DEF LandedOutside
  <2> HIDE DEF ok, outside
  <2> QED BY <1>2, <1>3, <1>5, <2>1, <2>3, <2>4, <2>5
<1>12. CASE Verify(1)
  <2>1. n = "verify" /\ Reach(1, AfterVerify(Recorded(h)), Recorded(h))
    BY <1>12 DEF Verify
  <2>2. AfterVerify(Recorded(h)) \in Nodes \ {"act"}
    BY DEF AfterVerify, Nodes
  <2>3. Sound(AfterVerify(Recorded(h)), Recorded(h))
    BY <1>1, <2>1, RecordedIs
  <2> QED BY <1>2, <1>3, <1>4, <2>1, <2>2, <2>3
<1>13. CASE Checkpoint(1)
  <2> DEFINE next == IF h.goal THEN "verify_criteria" ELSE "observe"
             ch == [h EXCEPT !.recoveries = 0]
  <2>1. n = "checkpoint" /\ Reach(1, next, ch)
    BY <1>13 DEF Checkpoint
  <2>2. next \in Nodes \ {"act"}
    BY DEF Nodes
  <2>3. Sound(next, ch)
    BY <1>1, <2>1, CheckpointedIs
  <2> HIDE DEF next, ch
  <2> QED BY <1>2, <1>3, <1>4, <2>1, <2>2, <2>3
<1>14. CASE Recover(1)
  <2> DEFINE next == IF h.failed THEN "verify_criteria" ELSE "plan"
  <2>1. n = "recover" /\ \/ Reach(1, "verify_criteria", GivenUp(h))
                         \/ Reach(1, next, Tried(h))
    BY <1>14 DEF Recover, GivenUp, Tried
  <2>2. next \in Nodes \ {"act"} /\ "verify_criteria" \in Nodes
    BY DEF Nodes
  <2>3. /\ Sound("verify_criteria", GivenUp(h))
        /\ Sound(next, Tried(h))
    BY <1>1, <2>1, RecoveredIs
  <2> HIDE DEF next
  <2> QED BY <1>2, <1>3, <1>4, <2>1, <2>2, <2>3
<1>15. CASE VerifyCriteria(1)
  <2>1. n = "verify_criteria"
    BY <1>15 DEF VerifyCriteria
  <2>2. PICK judged \in Opinions(h) :
          Reach(1, "close_episode", [h EXCEPT !.results = ResultsOf(h, page[1], judged)])
    BY <1>15, Zenon DEF VerifyCriteria, Opinions
  <2> DEFINE ch == [h EXCEPT !.results = ResultsOf(h, page[1], judged)]
  <2>3. Sound("close_episode", ch)
    BY <1>1, <2>1, VerifiedIs
  <2>4. Reach(1, "close_episode", ch)
    BY <2>2
  <2> HIDE DEF ch
  <2> QED BY <1>2, <1>3, <1>4, <2>1, <2>3, <2>4 DEF Nodes
<1>16. CASE CloseEpisode(1)
  <2> DEFINE ch == [h EXCEPT !.last = "none"]
  <2>1. n = "close_episode" /\ Reach(1, "end", ch)
    BY <1>16 DEF CloseEpisode
  <2>2. Sound("end", ch)
    BY <1>1, <2>1, ClosedIs
  <2> HIDE DEF ch
  <2> QED BY <1>2, <1>3, <1>4, <2>1, <2>2
<1> QED BY <1>6, <1>7, <1>8, <1>9, <1>10, <1>11, <1>12, <1>13, <1>14, <1>15, <1>16, Zenon
        DEF GraphStep

\* Of the state, what channels are worth depends on the plan alone, which never changes.
LEMMA SoundKept ==
  ASSUME NEW n, NEW h, Sound(n, h), plan' = plan
  PROVE  Sound(n, h)'
<1>1. Answers(h)' = Answers(h)
  BY DEF Answers
<1> QED BY <1>1 DEF Sound, RefusalIsPending, StopsOrArrives, LastIsKnown, EnvironmentEarned

\* The checkpoint that is not written again.
LEMMA SavedKept ==
  ASSUME Sound(saved.node, saved.g), UNCHANGED <<plan, saved>>
  PROVE  Sound(saved.node, saved.g)'
BY DEF Sound, RefusalIsPending, StopsOrArrives, LastIsKnown, EnvironmentEarned, Answers

\* The rows that are not written again.
LEMMA RowsKept ==
  ASSUME OneRowPerCriterion, UNCHANGED <<plan, stored>>
  PROVE  OneRowPerCriterion'
BY DEF OneRowPerCriterion, Asked

\* It all holds at first.
LEMMA WriteInit == Init => WriteInv
<1> SUFFICES ASSUME Init PROVE WriteInv
  OBVIOUS
<1>1. 1 \in Attempts /\ 2 \in Attempts
  BY DEF Attempts
<1>2. Sound("observe", Fresh) /\ Sound("start", Fresh) /\ Fresh \in Contexts
  BY FreshIs DEF Sound
<1>3. plan \in Seq(Criteria)
  BY EpisodeAssumption DEF Init
<1>4. saved = [node |-> "start", g |-> Fresh] /\ node[1] = "observe" /\ node[2] = "none"
        /\ g[1] = Fresh
  BY <1>1 DEF Init
<1>5. Alone
  BY <1>2, <1>3, <1>4 DEF Init, Alone, Nodes
<1>6. ReturnedIsStored /\ OneRowPerCriterion /\ WriteIsBehind
  BY <1>4 DEF Init, ReturnedIsStored, OneRowPerCriterion, WriteIsBehind
<1> QED BY <1>2, <1>4, <1>5, <1>6 DEF EpisodeInv, WriteInv

\* A node of the graph returns.
LEMMA GraphKeeps ==
  ASSUME WriteInv, GraphStep(1)
  PROVE  WriteInv'
<1>1. /\ UNCHANGED <<plan, awaited, stored, verdict>>
      /\ page' \in [Attempts -> Pages \cup {"about:blank", "outside", "gone"}]
  BY GraphLeads DEF WriteInv
<1>4. PICK next, ch : Leads(next, ch)
  BY GraphLeads DEF WriteInv
<1>5. /\ awaited = 1 /\ plan \in Seq(Criteria) /\ node[2] = "none" /\ 1 \in Attempts /\ 2 \in Attempts
      /\ node \in [Attempts -> Nodes \cup {"none", "end", "recorded", "returned"}]
      /\ g \in [Attempts -> Contexts] /\ Sound(saved.node, saved.g)
      /\ saved \in [node : Nodes \cup {"start", "end"}, g : Contexts]
  BY DEF WriteInv, EpisodeInv, Alone, Attempts
<1>6. next \in Nodes \cup {"end"} /\ Sound(next, ch) /\ ch \in Contexts
  BY <1>4 DEF Leads, Sound
<1>7. /\ node' = [node EXCEPT ![1] = next] /\ g' = [g EXCEPT ![1] = ch]
      /\ saved' = [node |-> next, g |-> ch] \/ saved' = saved
  BY <1>4, Zenon DEF Leads, Reach
<1>8. /\ node'[1] = next /\ node'[2] = "none" /\ g'[1] = ch
      /\ node' \in [Attempts -> Nodes \cup {"none", "end", "recorded", "returned"}]
      /\ g' \in [Attempts -> Contexts]
  BY <1>5, <1>6, <1>7
<1>9. Sound(next, ch)' /\ Sound(saved.node, saved.g)'
  <2>1. Sound(next, ch)'
    BY <1>1, <1>6, SoundKept
  <2>2. CASE saved' = saved
    BY <1>1, <1>5, <2>1, <2>2, SavedKept
  <2>3. CASE saved' = [node |-> next, g |-> ch]
    <3>1. saved'.node = next /\ saved'.g = ch
      BY <2>3
    <3>2. Sound(saved.node, saved.g)'
      BY <2>1, <3>1, Zenon DEF Sound, RefusalIsPending, StopsOrArrives, LastIsKnown,
                               EnvironmentEarned, Answers
    <3> QED BY <2>1, <3>2
  <2> QED BY <1>7, <2>1, <2>2, <2>3
<1>10. saved' \in [node : Nodes \cup {"start", "end"}, g : Contexts]
  BY <1>5, <1>6, <1>7
<1>11. next # "none" /\ next \notin {"recorded", "returned"}
  BY <1>6 DEF Nodes
<1>12. Alone'
  BY <1>1, <1>5, <1>8, <1>10, <1>11 DEF Alone
<1>13. verdict = "none"
  <2>1. node[1] # "returned"
    BY DEF GraphStep, Observe, PlanStops, PlanAsks, ActNothing, ActDenied, ActSucceeds,
           ActFails, Verify, Checkpoint, Recover, VerifyCriteria, CloseEpisode
  <2> QED BY <2>1 DEF WriteInv, EpisodeInv, ReturnedIsStored
<1>14. ReturnedIsStored'
  BY <1>1, <1>8, <1>11, <1>13 DEF ReturnedIsStored
<1>15. OneRowPerCriterion'
  BY <1>1, RowsKept DEF WriteInv, EpisodeInv
<1>16. EpisodeInv'
  BY <1>8, <1>9, <1>12, <1>14, <1>15 DEF EpisodeInv
<1>17. WriteIsBehind'
  BY <1>4, <1>8 DEF Leads, WriteIsBehind
<1> QED BY <1>16, <1>17 DEF WriteInv

\* Another attempt begins where the checkpoint says, on no page.
LEMMA BeginKeeps ==
  ASSUME WriteInv, Begin(1), node[1] # "returned",
         UNCHANGED <<plan, awaited, saved, stored, verdict, performed>>
  PROVE  WriteInv'
<1>1. /\ awaited = 1 /\ plan \in Seq(Criteria) /\ node[2] = "none" /\ 1 \in Attempts /\ 2 \in Attempts
      /\ node \in [Attempts -> Nodes \cup {"none", "end", "recorded", "returned"}]
      /\ g \in [Attempts -> Contexts] /\ Sound(saved.node, saved.g)
      /\ page \in [Attempts -> Pages \cup {"about:blank", "outside", "gone"}]
      /\ saved \in [node : Nodes \cup {"start", "end"}, g : Contexts]
  BY DEF WriteInv, EpisodeInv, Alone, Attempts
<1> PICK next, ch : /\ next = IF Resuming THEN saved.node ELSE "observe"
                    /\ ch = IF Resuming THEN saved.g ELSE NewEpisode(saved.g)
  OBVIOUS
<1>2. /\ node' = [node EXCEPT ![1] = next] /\ g' = [g EXCEPT ![1] = ch]
      /\ page' = [page EXCEPT ![1] = "about:blank"]
  BY DEF Begin, Landing
<1>3. next \in Nodes /\ Sound(next, ch)
  <2>1. CASE Resuming
    BY <1>1, <2>1 DEF Resuming
  <2>2. CASE ~Resuming
    <3>1. saved.node \in {"start", "end"}
      BY <1>1, <2>2 DEF Resuming
    <3> QED BY <1>1, <2>2, <3>1, NewEpisodeIs DEF Nodes
  <2> QED BY <2>1, <2>2
<1>4. next = "act" => saved.node = "act"
  BY DEF Resuming
<1>5. ch \in Contexts
  BY <1>3 DEF Sound
<1>6. /\ node'[1] = next /\ node'[2] = "none" /\ g'[1] = ch /\ page'[1] = "about:blank"
      /\ node' \in [Attempts -> Nodes \cup {"none", "end", "recorded", "returned"}]
      /\ g' \in [Attempts -> Contexts]
      /\ page' \in [Attempts -> Pages \cup {"about:blank", "outside", "gone"}]
  BY <1>1, <1>2, <1>3, <1>5
<1>7. next # "none" /\ next \notin {"recorded", "returned"}
  BY <1>3 DEF Nodes
<1>8. Sound(next, ch)' /\ Sound(saved.node, saved.g)'
  BY <1>1, <1>3, SoundKept, SavedKept
<1>9. Alone'
  BY <1>1, <1>6, <1>7 DEF Alone
<1>10. ReturnedIsStored' /\ OneRowPerCriterion'
  <2>1. verdict = "none"
    BY DEF WriteInv, EpisodeInv, ReturnedIsStored
  <2>2. ReturnedIsStored'
    BY <1>6, <1>7, <2>1 DEF ReturnedIsStored
  <2> QED BY <2>2, RowsKept DEF WriteInv, EpisodeInv
<1>11. WriteIsBehind'
  BY <1>4, <1>6 DEF WriteIsBehind, Nodes
<1> QED BY <1>6, <1>8, <1>9, <1>10, <1>11 DEF EpisodeInv, WriteInv

\* The results are committed, and then returned.
LEMMA RecordKeeps ==
  ASSUME WriteInv, RecordResults(1)
  PROVE  WriteInv'
<1>1. /\ awaited = 1 /\ plan \in Seq(Criteria) /\ node[2] = "none" /\ 1 \in Attempts /\ 2 \in Attempts
      /\ node \in [Attempts -> Nodes \cup {"none", "end", "recorded", "returned"}]
      /\ Sound(node[1], g[1]) /\ Sound(saved.node, saved.g)
  BY DEF WriteInv, EpisodeInv, Alone, Attempts
<1>2. /\ node[1] = "end" /\ stored' = g[1].results /\ node' = [node EXCEPT ![1] = "recorded"]
      /\ UNCHANGED <<plan, g, page, awaited, saved, verdict, performed>>
      /\ Recordable(g[1].results)
  BY DEF RecordResults, Replaced, history
<1>3. /\ node'[1] = "recorded" /\ node'[2] = "none"
      /\ node' \in [Attempts -> Nodes \cup {"none", "end", "recorded", "returned"}]
  BY <1>1, <1>2
<1>4. Alone'
  BY <1>2, <1>3 DEF WriteInv, EpisodeInv, Alone
<1>5. Answers(g[1])
  BY <1>1, <1>2 DEF Sound, Closing
<1>6. Sound("recorded", g[1])
  BY <1>1, <1>2, <1>5 DEF Sound, RefusalIsPending, StopsOrArrives, LastIsKnown, EnvironmentEarned
<1>7. Sound(node[1], g[1])' /\ Sound(saved.node, saved.g)'
  BY <1>1, <1>2, <1>3, <1>6 DEF Sound, RefusalIsPending, StopsOrArrives, LastIsKnown,
                                EnvironmentEarned, Answers
<1>8. verdict = "none"
  BY <1>2 DEF WriteInv, EpisodeInv, ReturnedIsStored
<1>9. ReturnedIsStored'
  BY <1>2, <1>3, <1>8 DEF ReturnedIsStored
<1>10. OneRowPerCriterion'
  <2>1. { g[1].results[i].criterion : i \in DOMAIN g[1].results } = Asked
    BY <1>5 DEF Answers, Asked
  <2> QED BY <1>2, <2>1 DEF OneRowPerCriterion, Recordable, Asked
<1>11. WriteIsBehind'
  BY <1>3 DEF WriteIsBehind
<1> QED BY <1>4, <1>7, <1>9, <1>10, <1>11 DEF EpisodeInv, WriteInv

\* What is returned is derived from what was just stored.
LEMMA ReturnKeeps ==
  ASSUME WriteInv, Return(1)
  PROVE  WriteInv'
<1>1. /\ awaited = 1 /\ node[2] = "none" /\ 1 \in Attempts /\ 2 \in Attempts
      /\ node \in [Attempts -> Nodes \cup {"none", "end", "recorded", "returned"}]
      /\ Sound(node[1], g[1]) /\ Sound(saved.node, saved.g)
  BY DEF WriteInv, EpisodeInv, Alone, Attempts
<1>2. /\ node[1] = "recorded" /\ verdict' = DeriveVerdict(g[1].results, plan)
      /\ node' = [node EXCEPT ![1] = "returned"]
      /\ UNCHANGED <<plan, g, page, awaited, saved, stored, performed>>
  BY <1>1 DEF Return, history
<1>3. /\ node'[1] = "returned" /\ node'[2] = "none"
      /\ node' \in [Attempts -> Nodes \cup {"none", "end", "recorded", "returned"}]
  BY <1>1, <1>2
<1>4. Alone'
  BY <1>2, <1>3 DEF WriteInv, EpisodeInv, Alone
<1>5. Sound("returned", g[1])
  BY <1>1, <1>2 DEF Sound, RefusalIsPending, StopsOrArrives, LastIsKnown, EnvironmentEarned, Closing
<1>6. Sound(node[1], g[1])' /\ Sound(saved.node, saved.g)'
  BY <1>1, <1>2, <1>3, <1>5 DEF Sound, RefusalIsPending, StopsOrArrives, LastIsKnown,
                                EnvironmentEarned, Answers
<1>7. stored = g[1].results
  BY <1>2 DEF WriteInv, EpisodeInv, ReturnedIsStored
<1>8. DeriveVerdict(g[1].results, plan)' = DeriveVerdict(g[1].results, plan)
  BY <1>2 DEF DeriveVerdict, ByCriterion
<1>9. ReturnedIsStored'
  BY <1>2, <1>3, <1>7, <1>8 DEF ReturnedIsStored
<1>10. OneRowPerCriterion'
  BY <1>2, RowsKept DEF WriteInv, EpisodeInv
<1>11. WriteIsBehind'
  BY <1>3 DEF WriteIsBehind
<1> QED BY <1>4, <1>6, <1>9, <1>10, <1>11 DEF EpisodeInv, WriteInv

\* The browser of an attempt dies under it.
LEMMA BrowserKeeps ==
  ASSUME WriteInv, BrowserDies(1)
  PROVE  WriteInv'
<1>1. 1 \in Attempts /\ page \in [Attempts -> Pages \cup {"about:blank", "outside", "gone"}]
  BY DEF WriteInv, EpisodeInv, Alone, Attempts
<1>2. page' = [page EXCEPT ![1] = "gone"] /\ UNCHANGED <<plan, node, g, awaited, saved, stored, verdict, performed>>
  BY DEF BrowserDies, history
<1>3. page' \in [Attempts -> Pages \cup {"about:blank", "outside", "gone"}] /\ page'[1] = "gone"
  BY <1>1, <1>2
<1>4. Alone'
  BY <1>2, <1>3 DEF WriteInv, EpisodeInv, Alone
<1>5. Sound(node[1], g[1])' /\ Sound(saved.node, saved.g)'
  BY <1>2 DEF WriteInv, EpisodeInv, Sound, RefusalIsPending, StopsOrArrives, LastIsKnown,
              EnvironmentEarned, Answers
<1>6. ReturnedIsStored' /\ OneRowPerCriterion'
  BY <1>2 DEF WriteInv, EpisodeInv, ReturnedIsStored, OneRowPerCriterion, Asked
<1>7. WriteIsBehind'
  BY <1>2, <1>3 DEF WriteInv, WriteIsBehind
<1> QED BY <1>4, <1>5, <1>6, <1>7 DEF EpisodeInv, WriteInv

\* Every step keeps the invariant.
LEMMA WriteNext == WriteInv /\ [Next]_vars => WriteInv'
<1> SUFFICES ASSUME WriteInv, [Next]_vars PROVE WriteInv'
  OBVIOUS
<1>1. awaited = 1 /\ node[2] = "none" /\ Attempts = {1, 2}
  BY DEF WriteInv, EpisodeInv, Alone, Attempts
<1>2. CASE UNCHANGED vars
  <2>1. UNCHANGED <<plan, node, g, page, awaited, saved, stored, verdict, performed>>
    BY <1>2 DEF vars, attempts, history
  <2>2. Alone'
    BY <2>1 DEF WriteInv, EpisodeInv, Alone
  <2>3. Sound(node[1], g[1])' /\ Sound(saved.node, saved.g)'
    BY <2>1 DEF WriteInv, EpisodeInv, Sound, RefusalIsPending, StopsOrArrives, LastIsKnown,
                EnvironmentEarned, Answers
  <2>4. ReturnedIsStored' /\ OneRowPerCriterion'
    BY <2>1 DEF WriteInv, EpisodeInv, ReturnedIsStored, OneRowPerCriterion, Asked
  <2>5. WriteIsBehind'
    BY <2>1 DEF WriteInv, WriteIsBehind
  <2> QED BY <2>2, <2>3, <2>4, <2>5 DEF EpisodeInv, WriteInv
<1>3. ~(Activity(2) \/ AttemptDies(2) \/ BrowserDies(2))
  BY <1>1 DEF Activity, GraphStep, Observe, PlanStops, PlanAsks, ActNothing, ActDenied,
              ActSucceeds, ActFails, Verify, Checkpoint, Recover, VerifyCriteria, CloseEpisode,
              RecordResults, Return, RecordRaises, AttemptDies, BrowserDies, Running, Nodes
<1>4. CASE RecordRaises(1) \/ AttemptDies(1)
  <2>1. Begin(1) /\ node[1] # "returned"
    BY <1>1, <1>4 DEF RecordRaises, AttemptDies, Running
  <2>2. UNCHANGED <<plan, awaited, saved, stored, verdict, performed>>
    BY <1>4 DEF RecordRaises, AttemptDies, history
  <2> QED BY <2>1, <2>2, BeginKeeps
<1>5. CASE Activity(1) \/ AttemptDies(1) \/ BrowserDies(1)
  BY <1>4, <1>5, GraphKeeps, RecordKeeps, ReturnKeeps, BrowserKeeps, Zenon DEF Activity
<1> QED BY <1>1, <1>2, <1>3, <1>5, Zenon DEF Next

-----------------------------------------------------------------------------
\* What the invariant is for.
LEMMA Invariant == Spec => []WriteInv
BY WriteInit, WriteNext, PTL DEF Spec

\* The attempt there is, and the one there is not.
LEMMA OnlyTheFirst ==
  ASSUME EpisodeInv, NEW a \in Attempts, node[a] # "none"
  PROVE  a = 1 /\ awaited = 1
BY DEF EpisodeInv, Alone, Attempts

\* The verdict of an episode that failed for a known reason, from what its results say.
LEMMA BlockedVerdict ==
  ASSUME NEW h, Answers(h), h.failed, h.kind \in BlockingKinds
  PROVE  DeriveVerdict(h.results, plan) = IF Asked \subseteq h.seen THEN "passed" ELSE "blocked"
<1> DEFINE R == h.results
           all == { R[i] : i \in DOMAIN R }
           missing == { i \in DOMAIN plan : \A r \in all : r.criterion # plan[i] }
           defect == \E r \in all : IsProductDefect(r)
           blocking == \E r \in all : IsBlocking(r)
           met == missing = {} /\ \A r \in ByCriterion(R) : r.outcome = "met"
<1>1. DOMAIN R = DOMAIN plan
  BY DEF Answers
<1>2. \A i \in DOMAIN plan :
        /\ R[i].criterion = plan[i]
        /\ plan[i] \in h.seen => R[i].outcome = "met"
        /\ plan[i] \notin h.seen => R[i].outcome = "not_met" /\ R[i].kind = h.kind
  <2> TAKE i \in DOMAIN plan
  <2>1. /\ R[i].criterion = plan[i] /\ (plan[i] \in h.seen => R[i].outcome = "met")
        /\ plan[i] \notin h.seen => R[i] = Unreached(plan[i], h.kind)
    BY DEF Answers
  <2>2. Unreached(plan[i], h.kind) = [criterion |-> plan[i], outcome |-> "not_met", kind |-> h.kind]
    BY DEF Unreached, Result, BlockingKinds
  <2> QED BY <2>1, <2>2
<1>3. ~defect
  BY <1>1, <1>2 DEF IsProductDefect, ProductDefectKinds, BlockingKinds
<1>4. blocking <=> ~(Asked \subseteq h.seen)
  BY <1>1, <1>2 DEF IsBlocking, Asked
<1>5. Asked \subseteq h.seen => met
  <2>1. missing = {}
    BY <1>1, <1>2
  <2>2. Asked \subseteq h.seen => \A r \in ByCriterion(R) : r.outcome = "met"
    BY <1>1, <1>2 DEF ByCriterion, Asked
  <2> QED BY <2>1, <2>2
<1>6. DeriveVerdict(R, plan) =
        CASE defect -> "failed"
          [] ~defect /\ blocking -> "blocked"
          [] OTHER -> IF met THEN "passed" ELSE "inconclusive"
  BY Zenon DEF DeriveVerdict
<1> HIDE DEF defect, blocking, met
<1> QED BY <1>3, <1>4, <1>5, <1>6

\* The verdict the workflow was given can be derived again from what is stored, and
\* what is stored is one whole answer, whatever died before it was given
\* (activities.py:381).
THEOREM RederivedVerdict == Spec => []VerdictRederivable
<1>1. WriteInv => VerdictRederivable
  <2> SUFFICES ASSUME WriteInv PROVE VerdictRederivable
    OBVIOUS
  <2>1. verdict # "none" => verdict = DeriveVerdict(g[1].results, plan) /\ stored = g[1].results
    BY DEF WriteInv, EpisodeInv, ReturnedIsStored
  <2>2. verdict # "none" => verdict = DeriveVerdict(stored, plan)
    BY <2>1
  <2>3. OneRowPerCriterion
    BY DEF WriteInv, EpisodeInv
  <2> QED BY <2>2, <2>3 DEF VerdictRederivable
<1> QED BY <1>1, Invariant, PTL

\* Whom a failure is blamed on is earned by what the run did, after any sequence of
\* proposals, refusals, denials, failures, recoveries and deaths (graph.py:484-493,
\* criterion_verification.py:63-86).
THEOREM EarnedBlame == Spec => []BlameIsEarned
<1>1. WriteInv => BlameIsEarned
  <2> SUFFICES ASSUME WriteInv PROVE BlameIsEarned
    OBVIOUS
  <2>1. EpisodeInv /\ Sound(node[1], g[1]) /\ awaited = 1
    BY DEF WriteInv, EpisodeInv, Alone
  <2>2. AccusedOnlyAtGoal
    <3> SUFFICES ASSUME NEW a \in Attempts, NEW i \in DOMAIN plan, Judged(a),
                        IsProductDefect(g[a].results[i])
                 PROVE  g[a].goal /\ ~g[a].failed /\ g[a].last \notin {"failed", "refused", "denied"}
      BY DEF AccusedOnlyAtGoal
    <3>1. a = 1 /\ node[1] \in Closing
      BY <2>1, OnlyTheFirst DEF Judged, Closing
    <3>2. Answers(g[1])
      BY <2>1, <3>1 DEF Sound
    <3> QED BY <3>1, <3>2 DEF Answers, Wrong
  <2>3. KnownStopIsBlocked
    <3> SUFFICES ASSUME verdict # "none", g[1].failed, g[1].kind # "none"
                 PROVE  verdict = IF Asked \subseteq g[1].seen THEN "passed" ELSE "blocked"
      BY <2>1 DEF KnownStopIsBlocked
    <3>1. node[1] = "returned" /\ verdict = DeriveVerdict(g[1].results, plan)
      BY <2>1 DEF EpisodeInv, ReturnedIsStored
    <3>2. Answers(g[1]) /\ g[1].kind \in BlockingKinds
      BY <2>1, <3>1, ContextIs DEF Sound, Closing
    <3> QED BY <3>1, <3>2, BlockedVerdict
  <2>4. EnvironmentFailed
    <3> SUFFICES ASSUME NEW a \in Attempts, node[a] \in Nodes, g[a].kind = "environment"
                 PROVE  /\ g[a].type \in {"navigation", "page"}
                        /\ g[a].last \notin {"refused", "succeeded", "denied"}
      BY DEF EnvironmentFailed
    <3>1. a = 1
      BY <2>1, OnlyTheFirst DEF Nodes
    <3> QED BY <2>1, <3>1 DEF Sound, EnvironmentEarned
  <2> QED BY <2>2, <2>3, <2>4 DEF BlameIsEarned
<1> QED BY <1>1, Invariant, PTL

\* What the run watched come true is reported as met, however it went on and wherever
\* it ended (criterion_verification.py:63-67, 81-86).
THEOREM WitnessedStaysMet == Spec => []WitnessedIsMet
<1>1. WriteInv => WitnessedIsMet
  <2> SUFFICES ASSUME WriteInv, NEW a \in Attempts, NEW i \in DOMAIN plan, Judged(a),
                      plan[i] \in g[a].seen
               PROVE  g[a].results[i].outcome = "met"
    BY DEF WitnessedIsMet
  <2>1. a = 1 /\ node[1] \in Closing /\ Sound(node[1], g[1])
    BY OnlyTheFirst DEF Judged, Closing, WriteInv, EpisodeInv
  <2> QED BY <2>1 DEF Sound, Answers
<1> QED BY <1>1, Invariant, PTL

\* Once the policy denied an action, the episode only judges and closes (graph.py).
THEOREM DeniedIsOver == Spec => []DenialEndsEpisode
<1>1. WriteInv => DenialEndsEpisode
  <2> SUFFICES ASSUME WriteInv, NEW a \in Attempts, node[a] \in Nodes, g[a].last = "denied"
               PROVE  node[a] \in {"verify_criteria", "close_episode"}
    BY DEF DenialEndsEpisode
  <2>1. a = 1 /\ Sound(node[1], g[1])
    BY OnlyTheFirst DEF Nodes, WriteInv, EpisodeInv
  <2> QED BY <2>1 DEF Sound, LastIsKnown
<1> QED BY <1>1, Invariant, PTL

\* One decision of the planner is at most one write on a page, however often the worker
\* dies (episode_runner.py:59-99, graph.py:594-601): whoever resumes with the decision
\* in hand holds no page, and whoever fails plans again.
THEOREM OneWritePerDecision == Spec => OneDecisionOneWrite
<1> DEFINE Once == \A a \in Attempts : Writing(a) => performed = "none"
<1>1. WriteInv /\ [Next]_vars => Once
  <2> SUFFICES ASSUME WriteInv, [Next]_vars, NEW a \in Attempts, Writing(a), performed # "none"
               PROVE  FALSE
    OBVIOUS
  <2>1. /\ node[a] = "act" /\ node'[a] = "verify" /\ g'[a].ok /\ page[a] # "about:blank"
        /\ g[a].pending \in WriteActions
    BY DEF Writing
  <2>2. g[a].pending # "none"
    BY <2>1 DEF WriteActions
  <2>3. /\ a = 1 /\ awaited = 1 /\ node[2] = "none" /\ 1 \in Attempts /\ Attempts = {1, 2}
        /\ g \in [Attempts -> Contexts]
        /\ node \in [Attempts -> Nodes \cup {"none", "end", "recorded", "returned"}]
    BY <2>1, OnlyTheFirst DEF WriteInv, EpisodeInv, Alone, Attempts
  <2>4. page[1] = "gone" /\ saved.node = "act"
    BY <2>1, <2>2, <2>3 DEF WriteInv, WriteIsBehind
  <2>5. Activity(1) \/ AttemptDies(1) \/ BrowserDies(1)
    <3>1. ~(Activity(2) \/ AttemptDies(2) \/ BrowserDies(2))
      BY <2>3 DEF Activity, GraphStep, Observe, PlanStops, PlanAsks, ActNothing, ActDenied,
                  ActSucceeds, ActFails, Verify, Checkpoint, Recover, VerifyCriteria, CloseEpisode,
                  RecordResults, Return, RecordRaises, AttemptDies, BrowserDies, Running, Nodes
    <3>2. Next
      BY <2>1 DEF vars, attempts
    <3> QED BY <2>3, <3>1, <3>2, Zenon DEF Next
  <2>6. GraphStep(1)
    <3>1. ~(RecordResults(1) \/ Return(1) \/ RecordRaises(1) \/ BrowserDies(1))
      BY <2>1, <2>3 DEF RecordResults, Return, RecordRaises, BrowserDies
    <3>2. ~AttemptDies(1)
      <4> SUFFICES ASSUME AttemptDies(1) PROVE FALSE
        OBVIOUS
      <4>1. node' = [node EXCEPT ![1] = "act"]
        BY <2>3, <2>4 DEF AttemptDies, Begin, Resuming, Nodes
      <4> QED BY <2>1, <2>3, <4>1
    <3> QED BY <2>5, <3>1, <3>2, Zenon DEF Activity
  <2>7. PICK next, ch : Leads(next, ch)
    BY <2>6, GraphLeads DEF WriteInv
  <2>8. g' = [g EXCEPT ![1] = ch] /\ (ch.ok => page[1] # "gone")
    BY <2>1, <2>2, <2>3, <2>7 DEF Leads, Reach
  <2> QED BY <2>1, <2>3, <2>4, <2>8
<1>2. Spec => [][Once]_vars
  BY <1>1, Invariant, PTL DEF Spec
<1> QED BY <1>2 DEF OneDecisionOneWrite
=============================================================================
