------------------------------- MODULE Plans -------------------------------
(***************************************************************************)
(* The plans runs are judged by: stories (domain/qa/user_story.py) compiled *)
(* into them (domain/qa/test_plan.py, commands/compile_plan.py), documents  *)
(* imported as them (contracts/test_plan.py, commands/import_plan.py), the  *)
(* table that only gains versions (PostgresTestPlanRepository) and the      *)
(* requests that publish at the same time (routers/plans.py).               *)
(*                                                                          *)
(* A version is what it was first called and how often it was counted on:   *)
(* "3" is [name |-> "", count |-> 3], "rc+1" is [name |-> "rc", count |-> 1]*)
(* and a content hash is named by the content it digests.                   *)
(***************************************************************************)
EXTENDS Naturals, Sequences, FiniteSets, SequencesExt, FiniteSetsExt

CONSTANTS
  Projects,    \* the projects that exist
  Policies,    \* the run policies that exist
  Stories,     \* the stories that may be created
  Documents,   \* the portable documents clients hold
  PlanIds,     \* the plan ids clients name
  Requests,    \* requests of clients
  Name(_),     \* what a digest is called
  Keys(_),     \* the order JSONB gives the keys of an object
  Pinned,      \* the versions a request may pin by hand, or None
  MaxPlanSteps,\* MAX_PLAN_STEPS
  None         \* what is left out

\* The order JSONB gives keys loses none of them and makes none up.
ASSUME PlansAssumption ==
  /\ MaxPlanSteps \in Nat
  /\ ToSet(Keys({})) = {}
  /\ \A document \in Documents :
       ToSet(Keys(ToSet(document.metadata))) = ToSet(document.metadata)

VARIABLES
  stories,   \* user_stories
  plans,     \* test_plans: <<plan_id, plan_version>> -> content and created_at
  request,   \* request -> what it asks, holds and was answered
  clock,     \* now(), which a transaction reads once, at its first statement
  minted     \* plan ids the server has made up

vars == <<stories, plans, request, clock, minted>>

\* -------------------------------------------------------------- stories --
Distinct(ids) == Cardinality(ToSet(ids)) = Len(ids)

\* Executable: at least one criterion, each with an id of its own.
StoryOK(story) ==
  LET ids == [i \in DOMAIN story.criteria |-> story.criteria[i].id]
  IN  ids # <<>> /\ Distinct(ids)

\* ---------------------------------------------------------------- plans --
\* An assertion that names no criterion would say nothing of what was promised.
StepOK(step) == step.type = "assertion" => step.criterion # None

\* A plan has steps, not too many, tells them apart, and runs under a policy or a budget
\* of its own.
PlanOK(plan) ==
  /\ Len(plan.steps) \in 1 .. MaxPlanSteps
  /\ \A i \in DOMAIN plan.steps : StepOK(plan.steps[i])
  /\ Distinct([i \in DOMAIN plan.steps |-> plan.steps[i].id])
  /\ plan.policy # None \/ plan.budget

\* Every precondition and the goal to act on, every criterion to assert, in that order.
Compiled(story, policy, budget) ==
  [project |-> story.project, policy |-> policy, budget |-> budget,
   steps |-> [i \in DOMAIN story.preconditions |->
                [id |-> <<"pre", i>>, type |-> "action", criterion |-> None]]
             \o <<[id |-> <<"goal", 0>>, type |-> "action", criterion |-> None]>>
             \o [i \in DOMAIN story.criteria |->
                   [id |-> <<story.criteria[i].id, 0>>, type |-> "assertion",
                    criterion |-> story.criteria[i].id]],
   metadata |-> <<>>]

\* A document is refused or is a plan; its metadata keeps the order it was written in.
Readable(document) == document.schema = "roveqa.test-plan.v1" /\ PlanOK(document)

Parsed(document) ==
  [project |-> document.project, policy |-> document.policy, budget |-> document.budget,
   steps |-> document.steps, metadata |-> document.metadata]

\* What the hash sees of a plan: sorted keys, no identity.
Canonical(plan) == [plan EXCEPT !.metadata = Keys(ToSet(@))]

ContentVersion(document) == [name |-> Name(Canonical(Parsed(document))), count |-> 0]

\* ------------------------------------------------------------ the table --
\* What a row gives back: a JSONB object has an order of its own.
Stored(plan) == [plan EXCEPT !.metadata = Keys(ToSet(@))]

VersionsOf(id) == { key \in DOMAIN plans : key[1] = id }

\* The version whose transaction began last.
Latest(id) ==
  CHOOSE key \in VersionsOf(id) : \A other \in VersionsOf(id) : plans[key].at >= plans[other].at

\* Counted on from the latest, whatever that is called.
NextVersion(id) ==
  IF VersionsOf(id) = {} THEN [name |-> "", count |-> 1]
  ELSE [Latest(id)[2] EXCEPT !.count = @ + 1]

\* A bug of the table: nothing says that a version is stored once.
Insertable_Always(key) == TRUE

\* The primary key has the last word; there is no update.
Insertable(key) == key \notin DOMAIN plans

\* ------------------------------------------------------------- requests --
NoRequest == [at |-> "idle"]

Init ==
  /\ stories = {}
  /\ plans = [key \in {} |-> <<>>]
  /\ request = [q \in Requests |-> NoRequest]
  /\ clock = 0
  /\ minted = 0

Answer(q, how) == request' = [request EXCEPT ![q].at = how]

\* POST /projects/{project_id}/stories.
CreateStory(story) ==
  /\ story \notin stories
  /\ story.project \in Projects /\ StoryOK(story)
  /\ stories' = stories \cup {story}
  /\ UNCHANGED <<plans, request, clock, minted>>

\* The id a request names, or one made up for it.
Identified(id) == IF id = None THEN <<"minted", minted + 1>> ELSE <<id, 0>>

Mints(id) == minted' = minted + IF id = None THEN 1 ELSE 0

\* POST /stories/{story_id}/plans reads its story: its transaction begins here.
AskCompile(q, story, policy, budget, id) ==
  /\ request[q].at = "idle"
  /\ clock' = clock + 1
  /\ Mints(id)
  /\ request' = [request EXCEPT ![q] =
       IF story \notin stories \/ policy \notin Policies \cup {None}
       THEN [at |-> "not_found", kind |-> "compile", asked |-> <<story, id>>]
       ELSE [at |-> "began", kind |-> "compile", asked |-> <<story, id>>,
             id |-> Identified(id), plan |-> Compiled(story, policy, budget), began |-> clock]]
  /\ UNCHANGED <<stories, plans>>

\* The version that comes after the latest one committed so far, for what compiles to a
\* plan.
Number(q) ==
  /\ request[q].at = "began" /\ request[q].kind = "compile"
  /\ request' = [request EXCEPT ![q] =
       [at |-> IF PlanOK(@.plan) THEN "adding" ELSE "invalid", kind |-> "compile", asked |-> @.asked, id |-> @.id, plan |-> @.plan,
        began |-> @.began, version |-> NextVersion(@.id)]]
  /\ UNCHANGED <<stories, plans, clock, minted>>

\* POST /plans: the id of the request, the version of the request, of the document, or
\* of its content.
AskImport(q, document, id, version) ==
  /\ request[q].at = "idle"
  /\ clock' = clock + 1
  /\ Mints(id)
  /\ request' = [request EXCEPT ![q] =
       IF ~Readable(document)
       THEN [at |-> "invalid", kind |-> "import", asked |-> <<document, id, version>>]
       ELSE IF document.policy \notin Policies \cup {None} \/ document.project \notin Projects
       THEN [at |-> "not_found", kind |-> "import", asked |-> <<document, id, version>>]
       ELSE [at |-> "began", kind |-> "import", asked |-> <<document, id, version>>,
             id |-> Identified(id), plan |-> Parsed(document), began |-> clock,
             version |-> IF version # None THEN version
                         ELSE IF document.version # None THEN document.version
                         ELSE ContentVersion(document)]]
  /\ UNCHANGED <<stories, plans>>

\* A bug of the import: whatever is stored under the version will do.
SamePlan_Unchecked(stored, plan) == TRUE

SamePlan(stored, plan) == stored = plan

\* What is stored already is the answer, if it is the same plan.
LookUp(q) ==
  /\ request[q].at = "began" /\ request[q].kind = "import"
  /\ LET key == <<request[q].id, request[q].version>>
     IN  Answer(q, IF key \notin DOMAIN plans THEN "adding"
                   ELSE IF SamePlan(plans[key].plan, request[q].plan) THEN "existing"
                   ELSE "invalid")
  /\ UNCHANGED <<stories, plans, clock, minted>>

\* One row, committed, or the conflict with whoever added it first.
Add(q) ==
  /\ request[q].at = "adding"
  /\ LET key == <<request[q].id, request[q].version>>
     IN  IF Insertable(key)
         THEN /\ plans' = [k \in DOMAIN plans \cup {key} |->
                             IF k = key THEN [plan |-> Stored(request[q].plan),
                                              at |-> request[q].began]
                             ELSE plans[k]]
              /\ Answer(q, "created")
         ELSE Answer(q, "conflict") /\ UNCHANGED plans
  /\ UNCHANGED <<stories, clock, minted>>

Next ==
  \/ \E story \in Stories : CreateStory(story)
  \/ \E q \in Requests, id \in PlanIds \cup {None} :
       \/ \E story \in Stories, policy \in Policies \cup {None}, budget \in BOOLEAN :
            AskCompile(q, story, policy, budget, id)
       \/ \E document \in Documents, version \in Pinned : AskImport(q, document, id, version)
  \/ \E q \in Requests : Number(q) \/ LookUp(q) \/ Add(q)

Spec == Init /\ [][Next]_vars

\* ---------------------------------------------------------- properties --
\* Whoever was answered with a version finds under it, for good, the plan it compiled or
\* submitted, whoever else publishes ("never by being edited", models.py:238-240).
AnsweredIsStored ==
  \A q \in Requests : request[q].at \in {"created", "existing"} =>
    LET key == <<request[q].id, request[q].version>>
    IN  /\ key \in DOMAIN plans
        /\ Canonical(plans[key].plan) = Canonical(request[q].plan)

\* ------------------------------- what the documents say and the code does not --
\* "re-submitting the same document returns the version that already exists"
\* (routers/plans.py:143-145); two that overlap may conflict.
ResubmittedIsSame ==
  \A q, r \in Requests :
    /\ request[q].at = "created" /\ request[q].kind = "import"
    /\ request[r].at \in {"created", "existing", "invalid"} /\ request[r].kind = "import"
    /\ q # r /\ request[q].asked = request[r].asked /\ request[q].asked[2] # None
    => request[r].at = "existing"

\* "Recompiling a story that changed produces a new version" (compile_plan.py:3): the
\* next number of a plan is one that is not taken.
NextVersionIsFree ==
  \A key \in DOMAIN plans : Insertable(<<key[1], NextVersion(key[1])>>)
=============================================================================
