------------------------------ MODULE MCPlans ------------------------------
(* A story, a few documents a client may hold and one plan id all agree on.  *)
EXTENDS Plans, TLC

CONSTANTS q1, q2, q3

Symmetric == Permutations({q1, q2, q3})

\* One that compiles to as many steps as a plan may have, one to more, one to none.
OneStory == { [project |-> "shop", preconditions |-> <<"logged in">>,
               criteria |-> <<[id |-> "c1"], [id |-> "c2"]>>],
              [project |-> "shop", preconditions |-> <<"logged in", "cart filled">>,
               criteria |-> <<[id |-> "c1"], [id |-> "c2"]>>],
              [project |-> "shop", preconditions |-> <<>>,
               criteria |-> <<[id |-> "c1"], [id |-> "c1"]>>] }

Act == [id |-> <<"goal", 0>>, type |-> "action", criterion |-> None]
Promise(c) == [id |-> <<c, 0>>, type |-> "assertion", criterion |-> c]

Document(steps, version, metadata) ==
  [schema |-> "roveqa.test-plan.v1", project |-> "shop", policy |-> None, budget |-> TRUE,
   steps |-> steps, version |-> version, metadata |-> metadata]

Good == Document(<<Act, Promise("c1")>>, None, <<"owner", "env">>)
Exported == Document(<<Act, Promise("c2")>>, [name |-> "", count |-> 1], <<>>)
Twice == Document(<<Act, Act>>, None, <<>>)
Unpromised == Document(<<Act, Promise(None)>>, None, <<>>)
Foreign == [Good EXCEPT !.policy = "elsewhere"]

Held == {Good, Exported, Twice, Unpromised, Foreign}
Useful == {Good, Exported}

\* Keys by length, then by bytes.
ByLength(keys) == IF keys = {"env", "owner"} THEN <<"env", "owner">> ELSE <<>>

Digest(plan) == IF plan.metadata = <<>> THEN "f00d" ELSE "cafe"

ByHand == {None, [name |-> "", count |-> 2]}
=============================================================================
