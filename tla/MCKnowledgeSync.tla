-------------------------- MODULE MCKnowledgeSync ---------------------------
(***************************************************************************)
(* KnowledgeSync with a candidate in each of two environments.  Of one of   *)
(* them no node can be made.  A row is actionable or it is not.             *)
(***************************************************************************)
EXTENDS KnowledgeSync

OneEach == [c \in Candidates |-> IF c = "a" THEN "default" ELSE "staging"]
=============================================================================
