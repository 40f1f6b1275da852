---------------------------- MODULE Verification ----------------------------
(***************************************************************************)
(* What a run may say about the criteria it was asked to check, from        *)
(* domain/qa/verification.py: a result per assertion, and the verdict that  *)
(* is derived from the results.  Constant-level.                            *)
(***************************************************************************)
EXTENDS Naturals, Sequences

Outcomes == {"met", "not_met", "unverified"}

FailureKinds == {"product", "plan", "environment", "policy", "agent_budget", "model",
                 "unknown"}

ProductDefectKinds == {"product"}

BlockingKinds == {"environment", "policy", "agent_budget", "model"}

\* CriterionResult.__post_init__: a met criterion has no failure kind, one that is
\* not met has one.  "none" stands for None.
Results(criteria) ==
  { r \in [criterion : criteria, outcome : Outcomes, kind : FailureKinds \cup {"none"}] :
      /\ r.outcome = "met" => r.kind = "none"
      /\ r.outcome = "not_met" => r.kind # "none" }

Result(c, outcome, kind) == [criterion |-> c, outcome |-> outcome, kind |-> kind]

IsProductDefect(r) == r.outcome = "not_met" /\ r.kind \in ProductDefectKinds

IsBlocking(r) == r.outcome = "not_met" /\ r.kind \in BlockingKinds

\* The dictionary of derive_verdict: of two results for a criterion the later stays.
ByCriterion(results) ==
  { results[i] : i \in { i \in DOMAIN results :
      \A j \in DOMAIN results : j > i => results[j].criterion # results[i].criterion } }

\* expected is never empty: derive_verdict raises when it is.
DeriveVerdict(results, expected) ==
  LET all == { results[i] : i \in DOMAIN results }
      missing == { i \in DOMAIN expected : \A r \in all : r.criterion # expected[i] }
  IN  CASE \E r \in all : IsProductDefect(r) -> "failed"
        [] ~(\E r \in all : IsProductDefect(r)) /\ \E r \in all : IsBlocking(r) -> "blocked"
        [] OTHER -> IF missing = {} /\ \A r \in ByCriterion(results) : r.outcome = "met"
                    THEN "passed" ELSE "inconclusive"
=============================================================================
