--------------------------- MODULE MCAgentEpisode ---------------------------
(***************************************************************************)
(* AgentEpisode on plans of two assertions, one with a literal and one      *)
(* without, or both on the one criterion, and on a plan of actions only,    *)
(* from which no verdict can be derived.  The application has two pages,    *)
(* one of which shows the literal.                                          *)
(***************************************************************************)
EXTENDS AgentEpisode

TwoCriteria == { <<"total", "tone">> }
TwoOrNone == TwoCriteria \cup { << >> }
SameTwice == { <<"total", "total">> }
OneHint == {"total"}
TwoPages == {"home", "order"}
OrderShows == [p \in TwoPages |-> IF p = "order" THEN OneHint ELSE {}]
=============================================================================
