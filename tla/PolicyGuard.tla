---------------------------- MODULE PolicyGuard ----------------------------
(***************************************************************************)
(* What a run may ask of its browser: the closed set of actions             *)
(* (domain/browser/actions.py), the policy that governs a run               *)
(* (domain/projects/run_policy.py), the guard that decides                  *)
(* (domain/browser/policy_guard.py) and the gateway that asks it before and *)
(* after (application/services/guarded_browser.py).                         *)
(*                                                                          *)
(* A URL is its origin, and "none" is what has no origin: matching is exact *)
(* after normalisation, so an origin is a value and nothing more.           *)
(***************************************************************************)
EXTENDS Integers

ActionTypes == {"navigate", "click", "fill", "select", "check", "uncheck", "upload",
                "press_key", "wait_for", "extract", "assert_text", "assert_url",
                "screenshot", "back"}

ReadOnlyActions == {"wait_for", "extract", "assert_text", "assert_url", "screenshot",
                    "back", "navigate"}

NeedsTarget == {"click", "fill", "select", "check", "uncheck", "upload", "wait_for", "extract"}
NeedsValue == {"fill", "select", "upload", "press_key", "assert_text", "assert_url"}

\* What BrowserAction refuses to be built from: a navigation without a URL, a missing
\* target or value, a write that does not say so or has no plan for a retry.
WellFormed(action) ==
  /\ action.type \in ActionTypes
  /\ action.type = "navigate" => action.url # "none"
  /\ action.type \in NeedsTarget => action.target
  /\ action.type \in NeedsValue => action.value # "none"
  /\ action.type \notin ReadOnlyActions => action.sideEffect
  /\ action.sideEffect => action.retry # "none_read_only" /\ action.verified

\* allowed_origins of an empty policy would allow anything, so there is none.
PolicyOK(policy) ==
  /\ policy.origins # {}
  /\ "none" \notin policy.origins
  /\ policy.maxActions \in Nat \ {0}
  /\ policy.maxDuration \in Nat \ {0}
  /\ policy.maxModelCalls \in Nat
  /\ policy.maxDepth \in Nat \cup {-1}     \* -1: no limit of its own

AllowsOrigin(policy, url) == url \in policy.origins

UploadAllowed(policy, path) == policy.uploads /\ path \in policy.uploadPaths

\* evaluate_action: three reasons to refuse, all decided by what the action is.
Allowed(action, policy) ==
  /\ action.type = "navigate" => AllowsOrigin(policy, action.url)
  /\ action.type \in ReadOnlyActions \/ policy.destructive
  /\ action.type = "upload" => UploadAllowed(policy, action.value)

\* A navigation that ended outside is refused after the fact; where nobody knows
\* where it ended, nothing is.
LandingAllowed(action, landed, policy) ==
  action.type \in {"navigate", "back"} /\ landed # "none" => AllowsOrigin(policy, landed)
=============================================================================
