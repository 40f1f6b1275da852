----------------------- MODULE MCKnowledgeCandidate ------------------------
(***************************************************************************)
(* KnowledgeCandidate with runs that agree, disagree and cannot tell, and a *)
(* report that may say anything of the fact in dispute.                     *)
(***************************************************************************)
EXTENDS KnowledgeCandidate, TLC

CONSTANTS r1, r2, r3, r4

Result(outcome, model, learnable, routed, policy) ==
  [outcome |-> outcome, model |-> model, learnable |-> learnable, safe |-> TRUE,
   routed |-> routed, policy |-> policy, origin |-> "shop"]

\* Two runs that saw the criterion met beside two that saw it fail, and three beside
\* one a model judged; r1 and r2 are interchangeable.
Met == Result("met", FALSE, TRUE, FALSE, "here")
NotMet == Result("not_met", FALSE, TRUE, FALSE, "here")
Judged == Result("met", TRUE, TRUE, TRUE, "here")
Routed == Result("met", FALSE, TRUE, TRUE, "here")

Disputed == (r1 :> Met) @@ (r2 :> Met) @@ (r3 :> NotMet) @@ (r4 :> NotMet)
Agreed == (r1 :> Met) @@ (r2 :> Met) @@ (r3 :> Routed) @@ (r4 :> Judged)

BothHistories == {Disputed, Agreed}

Retried == (r1 :> 1) @@ (r2 :> 1) @@ (r3 :> 2) @@ (r4 :> 1)

Holds == [kind |-> "acceptance_fact", model |-> FALSE, policy |-> "here"]

Reported == [fact : {Holds}, kind : {"success", "failure", "unsafe"}, observed : {TRUE}]

\* A run under another policy disproves what these learned.
Elsewhere == {Disputed, [Disputed EXCEPT ![r3].policy = "there"]}

Failing == [fact : {Holds}, kind : {"failure"}, observed : {TRUE}]

Symmetric == Permutations({r1, r2})
=============================================================================
