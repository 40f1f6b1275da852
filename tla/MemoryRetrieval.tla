---------------------------- MODULE MemoryRetrieval ----------------------------
(***************************************************************************)
(* Whether knowledge still applies to a run (compatibility.py), as operators *)
(* on what a candidate recorded.  A situation, of a candidate or of a run,   *)
(* is a value for each dimension, Unknown where nothing was recorded or is   *)
(* known.  Consolidation and recall fill in the origin and the policy only.  *)
(***************************************************************************)
Unknown == "unknown"

Dimensions == {"origin", "role", "app_version", "page_fingerprint", "policy"}

Situation(origin, policy) ==
  [d \in Dimensions |-> IF d = "origin" THEN origin ELSE IF d = "policy" THEN policy ELSE Unknown]

\* Both sides known and not equal.
Differs(recorded, current) ==
  recorded # Unknown /\ current # Unknown /\ recorded # current

Confirmed(recorded, current) == recorded # Unknown /\ recorded = current

\* Recorded, and not confirmed here.
NeedsCheck(recorded, current) == recorded # Unknown /\ recorded # current

\* compatibility_of, within a project and an environment; nothing sets an expiry.
Compatibility(withdrawn, learned, now) ==
  CASE withdrawn \/ Differs(learned["origin"], now["origin"])
                 \/ Differs(learned["role"], now["role"]) -> "incompatible"
    [] OTHER ->
       IF \E d \in Dimensions : NeedsCheck(learned[d], now[d]) THEN "revalidate"
       ELSE IF \A d \in Dimensions : Confirmed(learned[d], now[d]) THEN "exact"
       ELSE "compatible"

=============================================================================
