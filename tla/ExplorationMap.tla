--------------------------- MODULE ExplorationMap ---------------------------
(***************************************************************************)
(* What an explorer takes for the same page (domain/exploration/state.py),  *)
(* and the comparison of two maps of such states                            *)
(* (domain/exploration/comparison.py).                                      *)
(*                                                                          *)
(* A state is a route and what the page there offers, in page order.  An    *)
(* affordance is its key, a number in the order of the keys; whether a      *)
(* click can take it; where its link goes; and whether it is disabled.      *)
(* Texts and titles are left out.  Signatures are compared as the route and *)
(* the keys they are the digest of, and ordered by that digest.             *)
(***************************************************************************)
EXTENDS Integers, FiniteSets, SequencesExt

CONSTANTS
  MaxAffordances,  \* MAX_AFFORDANCES (200)
  Routes,          \* routes of pages
  Labels,          \* keys of affordances, in their order
  Digest           \* state_signature, of a route and the keys a page offers

ASSUME MapAssumption ==
  /\ Labels \subseteq Int
  /\ Digest \in [Routes \X SUBSET Labels -> Nat]
  /\ \A s, t \in DOMAIN Digest : Digest[s] = Digest[t] => s = t

Affordances(pages) ==
  [key : Labels, role : STRING, to : pages \cup {"none"}, disabled : BOOLEAN]

\* parse_affordances: the controls of a page, each key once.  The first of a key is
\* kept, disabled or not; a later one lends it a URL if it had none; a page that offers
\* too much is read up to the last control that fits, and not to that one's URL.
Parse(markup) ==
  LET At(found, a) == CHOOSE i \in DOMAIN found : found[i].key = a.key
      Read(found, a) ==
        IF \A i \in DOMAIN found : found[i].key # a.key
        THEN IF Len(found) + 1 < MaxAffordances THEN Append(found, a)
        ELSE IF Len(found) + 1 = MaxAffordances THEN Append(found, [a EXCEPT !.to = "none"])
        ELSE found
        ELSE IF found[At(found, a)].to = "none" /\ Len(found) < MaxAffordances
        THEN [found EXCEPT ![At(found, a)].to = a.to]
        ELSE found
      read[i \in 0 .. Len(markup)] == IF i = 0 THEN << >> ELSE Read(read[i - 1], markup[i])
  IN  read[Len(markup)]

\* PageState.affordance_keys: sorted and without repetition, so a set.
AffordanceKeys(state) == { state.offers[i].key : i \in DOMAIN state.offers }

Signature(state) == <<state.route, AffordanceKeys(state)>>
Signatures(states) == { Signature(states[i]) : i \in DOMAIN states }

\* Affordance.is_clickable.
Clickable(a) == ~a.disabled /\ a.role \in {"link", "button"}

Least(S) == CHOOSE s \in S : \A t \in S : Digest[s] <= Digest[t]
Greatest(S) == CHOOSE s \in S : \A t \in S : Digest[t] <= Digest[s]

\* A bug of the comparison: a new state may stand for several that are gone.
Matched_Again(pairs, before, fresh) == { s \in fresh : s[1] = before[1] }

\* The new states of the same route that no other state of the baseline took.
Matched(pairs, before, fresh) ==
  { s \in fresh : s[1] = before[1] /\ \A p \in pairs : p.after # s }

\* What became of a state that is gone: the first of those it matches, if any.
Pair(pairs, before, fresh) ==
  LET candidates == Matched(pairs, before, fresh) IN
  IF candidates = {} THEN pairs
  ELSE pairs \cup {[before |-> before, after |-> Least(candidates)]}

\* The states that are gone find their pairs one after the other, in order.
Changed(lost, fresh) ==
  LET pairs[S \in SUBSET lost] ==
        IF S = {} THEN {} ELSE Pair(pairs[S \ {Greatest(S)}], Greatest(S), fresh)
  IN  pairs[lost]

\* compare: first what changed on a route both maps have, then what is new and gone.
Compare(baseline, current) ==
  LET known == Signatures(baseline.states)
      now == Signatures(current.states)
      changed == Changed(known \ now, now \ known)
  IN  [changed |-> changed,
       new |-> (now \ known) \ { p.after : p \in changed },
       gone |-> (known \ now) \ { p.before : p \in changed },
       unreachable |-> ~(baseline.complete /\ current.complete)]

\* What a page that changed gained and lost.
Gained(pair) == pair.after[2] \ pair.before[2]
Lost(pair) == pair.before[2] \ pair.after[2]
=============================================================================
