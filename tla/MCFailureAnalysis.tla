------------------------- MODULE MCFailureAnalysis -------------------------
(* Small projects: two criteria, and what a verification can leave of them.  A   *)
(* run that stopped early leaves every criterion unmet for the one reason it     *)
(* stopped; a run that reached its goal accuses the product, or has an opinion.  *)
EXTENDS FailureAnalysis

CONSTANTS Most

Projects == 1 .. Most

Result(criterion, outcome, kind, derived) ==
  [criterion |-> criterion, outcome |-> outcome, kind |-> kind, derived |-> derived,
   says |-> "as planned"]

Met(c) == Result(c, "met", "none", FALSE)
Defect(c) == Result(c, "not_met", "product", FALSE)
Opinion(c) == Result(c, "not_met", "unknown", TRUE)
Down(c) == Result(c, "not_met", "environment", FALSE)

\* Walls every run may meet, an outage, and an opinion beside a failure.
Mixed(r) == { <<Defect("c1"), Defect("c2")>>, <<Down("c1"), Down("c2")>>,
              <<Defect("c1"), Opinion("c2")>> }

\* One wall, run after run.
OneWall(r) == { <<Defect("c1")>> }

\* A wall that an episode run again does not meet.
Flaky(r) == { <<Defect("c1")>>, <<Met("c1")>> }

KindRank == [product |-> 1, environment |-> 2, unknown |-> 3]
ById(a, b) == \/ KindRank[a[1]] < KindRank[b[1]]
              \/ a[1] = b[1] /\ a[2] = "c1" /\ b[2] = "c2"
=============================================================================
