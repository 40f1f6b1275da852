----------------------- MODULE KnowledgeCandidateProofs -----------------------
(***************************************************************************)
(* What is believed of an application and on what evidence, for any number  *)
(* of runs, attempts, reports, lost updates and transactions that die.      *)
(***************************************************************************)
EXTENDS KnowledgeCandidate, FiniteSetTheorems, SequenceTheorems, TLAPS

Records ==
  [status : Statuses \cup {"absent"}, origin : Origins \cup {Unknown},
   support : Nat, success : Nat, failure : Nat, contradiction : Nat]

Occurrences ==
  [fact : Facts, run : Runs \cup Reporters, kind : FeedbackKinds, observed : BOOLEAN]

Typed ==
  /\ found \in [Runs -> Findings]
  /\ row \in [Facts -> Records]
  /\ feedback \subseteq Occurrences /\ IsFiniteSet(feedback)
  /\ claimed \subseteq Runs
  /\ DOMAIN pc = Transactions
  /\ draft \in [Transactions -> [Facts -> Records]]
  /\ read \in [Transactions -> [Facts -> Records]]
  /\ todo \in [Transactions -> Seq(Facts)]
  /\ disproved \in [Transactions -> SUBSET Facts]
  /\ ballot \in [Transactions -> SUBSET Occurrences]
  /\ \A t \in Transactions : IsFiniteSet(ballot[t])
  /\ report \in [Reporters -> Reports]
  /\ sighted \in [Facts -> SUBSET Runs] /\ \A f \in Facts : IsFiniteSet(sighted[f])

\* What a run has seen, given what it found.
SeenBy(x) == { Sightings(x)[i] : i \in DOMAIN Sightings(x) }
Seen(w) == SeenBy(found[w[1]])

\* What a transaction holds at each of its places.
WorkAtHand == \A w \in Workers :
  /\ ~InTransaction(w) =>
       draft[w] = [f \in Facts |-> NoRow] /\ disproved[w] = {} /\ ballot[w] = {}
  /\ pc[w] = "merging" =>
       /\ disproved[w] = {} /\ ballot[w] = {}
       /\ \A i \in DOMAIN todo[w] : todo[w][i] \in Seen(w)
       /\ \A f \in Facts : draft[w][f] # NoRow => f \in Seen(w)
  /\ \A f \in disproved[w] : read[w][f].status \notin Terminal
  /\ \A o \in ballot[w] : o.run = w[1]

\* One attempt of a run claims it, and nothing of a run is committed before that.
ClaimsAreUnique ==
  /\ \A w \in Workers : pc[w] = "claiming" =>
       /\ disproved[w] = {} /\ w[1] \notin claimed
       /\ \A v \in Workers \ {w} : v[1] = w[1] => pc[v] # "claiming"
  /\ \A o \in feedback : o.run \in Runs => o.run \in claimed
  /\ \A f \in Facts : sighted[f] \subseteq claimed

\* Nobody writes a row that somebody has written and not committed.
LocksHold == \A v, w \in Workers, f \in Facts :
  draft[v][f] # NoRow /\ draft[w][f] # NoRow => v = w

WorkInv == Typed /\ WorkAtHand /\ ClaimsAreUnique /\ LocksHold

-----------------------------------------------------------------------------
\* What some feedback and the runs that saw a fact allow a row of it to say.
Grounds(rows, f, kind) == { o \in rows : o.fact = f /\ o.kind = kind /\ o.observed }
Support(rows, runs, f) == Cardinality(runs) + Cardinality(Grounds(rows, f, "success"))

Justified(f, d, rows, runs) ==
  /\ d.support <= Support(rows, runs, f)
  /\ d.failure <= Cardinality(Grounds(rows, f, "failure"))
  /\ d.contradiction <= Cardinality(Grounds(rows, f, "contradiction"))
  /\ d.status = "invalidated" => \E o \in rows : o.fact = f /\ o.kind \in {"contradiction", "stale"}
  /\ d.status = "rejected" => \E o \in rows : o.fact = f /\ o.kind = "unsafe"
  /\ d.status = "trusted" => ~f.model /\ Support(rows, runs, f) >= MinSupportToTrust

\* The run of w, if it saw f.
Witnesses(w, f) == { r \in {w[1]} : f \in SeenBy(found[r]) }

RowsAreJustified == \A f \in Facts : Justified(f, row[f], feedback, sighted[f])

\* What a run that is not consolidated yet would commit is justified by what it would
\* commit along with it.
DraftsAreJustified == \A w \in Workers, f \in Facts : w[1] \notin claimed =>
  /\ Justified(f, draft[w][f], feedback \cup ballot[w], sighted[f] \cup Witnesses(w, f))
  /\ read[w][f].contradiction <= Cardinality(Grounds(feedback, f, "contradiction"))

\* What was read had its evidence, which does not go away.
ReadsAreJustified == \A q \in Reporters, f \in Facts :
  Justified(f, read[q][f], feedback, sighted[f])

CountInv == RowsAreJustified /\ DraftsAreJustified /\ ReadsAreJustified

-----------------------------------------------------------------------------
\* A row that is withdrawn is merged as one that is.
DraftsStayWithdrawn == \A w \in Workers, f \in Facts :
  draft[w][f] # NoRow /\ draft[w][f].status \notin Terminal => row[f].status \notin Terminal

\* What a draft makes believed was a row before, and the run saw it.
Believes(w, f) == draft[w][f].status \in ActionableStatuses

BeliefsAreSeen == \A w \in Workers, f \in Facts :
  Believes(w, f) => f \in Seen(w) /\ row[f] # NoRow

\* Two facts of what a check observed that cannot both hold.
Opposed(f, e) ==
  /\ {f.kind, e.kind} = {"acceptance_fact", "failure_signature"}
  /\ ~f.model /\ ~e.model
  /\ Evidence(f, "success") \cup Evidence(e, "success") = {}

\* A worker that has seen what is stored, and may yet commit.
Scanned(w) == pc[w] \in {"withdrawing", "claiming"} /\ w[1] \notin claimed

Withdraws(w, e) == e \in disproved[w] \/ draft[w][e].status \in Terminal

\* Of two opposed beliefs whoever scans the second withdraws the first.
NotBothStored == \A f, e \in Facts : Opposed(f, e) =>
  ~(row[f].status \in ActionableStatuses /\ row[e].status \in ActionableStatuses)

SecondWithdraws == \A f, e \in Facts : Opposed(f, e) =>
  \A w \in Workers : Scanned(w) /\ Believes(w, f) =>
    /\ row[e].status \in ActionableStatuses => Withdraws(w, e)
    /\ \A v \in Workers \ {w} : Scanned(v) /\ Believes(v, e) =>
         Withdraws(w, e) \/ Withdraws(v, f)

BeliefInv == DraftsStayWithdrawn /\ BeliefsAreSeen /\ NotBothStored /\ SecondWithdraws

Inv == WorkInv /\ CountInv /\ BeliefInv

-----------------------------------------------------------------------------
\* The columns of a row.
LEMMA ColumnsAre ==
  /\ Columns = {"status", "origin", "support", "success", "failure", "contradiction"}
  /\ NoRow \in Records /\ NoRow.status = "absent" /\ NoRow.support = 0
  /\ NoRow.failure = 0 /\ NoRow.contradiction = 0
BY DEF Columns, NoRow, Records

\* A flush takes each column that the session changed, and leaves the others.
LEMMA SavedIs ==
  ASSUME NEW current \in Records, NEW old \in Records, NEW new \in Records
  PROVE  /\ Saved(current, old, new) \in Records
         /\ \A c \in {"status", "support", "failure", "contradiction"} :
              Saved(current, old, new)[c] = IF new[c] = old[c] THEN current[c] ELSE new[c]
BY ColumnsAre DEF Saved, Records

\* A column by its name.
LEMMA ColumnIs ==
  ASSUME NEW d \in Records
  PROVE  /\ d["status"] = d.status /\ d["support"] = d.support
         /\ d["failure"] = d.failure /\ d["contradiction"] = d.contradiction
         /\ d.support \in Nat /\ d.failure \in Nat /\ d.contradiction \in Nat
         /\ d.status \in Statuses \cup {"absent"}
BY DEF Records

\* Evidence may promote a row that is not withdrawn, and trust takes its number of runs.
LEMMA PromotedIs ==
  ASSUME NEW f \in Facts, NEW q \in Records
  PROVE  /\ Unbanned(f, q) \in Records
         /\ Unbanned(f, q).support = q.support /\ Unbanned(f, q).failure = q.failure
         /\ Unbanned(f, q).contradiction = q.contradiction
         /\ q.status \in Terminal => Unbanned(f, q).status = q.status
         /\ Unbanned(f, q).status \in {q.status, "promoted", "trusted"}
         /\ Unbanned(f, q).status = "trusted" =>
              q.status = "trusted" \/ (~f.model /\ q.support >= MinSupportToTrust)
<1> DEFINE status == IF ~f.model /\ q.support >= MinSupportToTrust /\ ReliableTo(q, 90) THEN "trusted"
                     ELSE IF q.support >= MinSupportToPromote THEN "promoted" ELSE q.status
           p == [q EXCEPT !.status = status]
<1>1. status \in {q.status, "promoted", "trusted"} /\ status \in Statuses \cup {"absent"}
  BY ColumnIs DEF Statuses
<1>2. status = "trusted" => q.status = "trusted" \/ (~f.model /\ q.support >= MinSupportToTrust)
  OBVIOUS
<1>3. Unbanned(f, q) = IF q.status \in Terminal THEN q ELSE p
  BY DEF Unbanned, Promoted
<1> HIDE DEF status
<1>4. /\ p \in Records /\ p.status = status /\ p.support = q.support /\ p.failure = q.failure
      /\ p.contradiction = q.contradiction
  BY <1>1 DEF Records
<1> HIDE DEF p
<1> QED BY <1>1, <1>2, <1>3, <1>4

\* One more sighting of a row.
LEMMA ReinforcedIs ==
  ASSUME NEW f \in Facts, NEW q \in Records
  PROVE  /\ ReinforcedBy(f, q) \in Records
         /\ ReinforcedBy(f, q).support = q.support + 1 /\ ReinforcedBy(f, q).failure = q.failure
         /\ ReinforcedBy(f, q).contradiction = q.contradiction
         /\ q.status \in Terminal => ReinforcedBy(f, q).status = q.status
         /\ ReinforcedBy(f, q).status \in {q.status, "promoted", "trusted"}
         /\ ReinforcedBy(f, q).status = "trusted" =>
              q.status = "trusted" \/ (~f.model /\ q.support + 1 >= MinSupportToTrust)
<1> DEFINE success == q.success + Succeeds(f)
           p == [q EXCEPT !.support = @ + 1, !.success = success]
<1>1. success \in Nat /\ q.support + 1 \in Nat
  BY DEF Succeeds, Records
<1>2. ReinforcedBy(f, q) = Unbanned(f, p)
  BY DEF ReinforcedBy
<1> HIDE DEF success
<1>3. /\ p \in Records /\ p.status = q.status /\ p.support = q.support + 1 /\ p.failure = q.failure
      /\ p.contradiction = q.contradiction
  BY <1>1 DEF Records
<1> HIDE DEF p
<1> QED BY <1>2, <1>3, PromotedIs

\* The row of a first sighting.
LEMMA FirstIs ==
  ASSUME NEW x \in Findings, NEW f \in Facts
  PROVE  /\ FirstSighting(x, f) \in Records /\ FirstSighting(x, f).support = 1
         /\ FirstSighting(x, f).failure = 0 /\ FirstSighting(x, f).contradiction = 0
         /\ FirstSighting(x, f).status = "candidate"
<1> DEFINE o == x.origin
           n == Succeeds(f)
           p == [NoRow EXCEPT !.status = "candidate", !.origin = o, !.support = 1, !.success = n]
<1>1. o \in Origins \cup {Unknown} /\ n \in Nat
  BY DEF Findings, Succeeds
<1>2. FirstSighting(x, f) = p
  BY Zenon DEF FirstSighting
<1> HIDE DEF o, n
<1>3. /\ p \in Records /\ p.status = "candidate" /\ p.support = 1
      /\ p.failure = 0 /\ p.contradiction = 0
  BY <1>1, ColumnsAre DEF Records, Statuses
<1> HIDE DEF p
<1> QED BY <1>2, <1>3

\* What a report makes of the row it read: one counter more at most, and a status that
\* changes for a reason.
LEMMA ApplyIs ==
  ASSUME NEW f \in Facts, NEW q \in Records, NEW kind \in FeedbackKinds, NEW observed \in BOOLEAN,
         NEW a, a = Apply(f, q, kind, observed)
  PROVE  /\ a \in Records
         /\ a.support = IF kind = "success" /\ observed THEN q.support + 1 ELSE q.support
         /\ a.failure = IF kind = "failure" /\ observed THEN q.failure + 1 ELSE q.failure
         /\ a.contradiction = IF kind = "contradiction" /\ observed
                              THEN q.contradiction + 1 ELSE q.contradiction
         /\ a.status # q.status =>
              \/ a.status = "rejected" /\ kind = "unsafe"
              \/ a.status = "invalidated" /\ kind \in {"stale", "contradiction"}
              \/ a.status = "candidate" /\ q.status \notin Terminal
              \/ /\ a.status \in ActionableStatuses /\ q.status \notin Terminal
                 /\ kind = "success" /\ observed
                 /\ a.status = "trusted" => ~f.model /\ a.support >= MinSupportToTrust
         /\ kind = "contradiction" /\ observed => a.status = "invalidated"
<1>1. /\ q.support + 1 \in Nat /\ q.success + 1 \in Nat /\ q.failure + 1 \in Nat
      /\ q.contradiction + 1 \in Nat
      /\ {"rejected", "invalidated", "candidate"} \subseteq Statuses
  BY DEF Records, Statuses
<1>2. CASE kind = "unsafe"
  <2>1. a = [q EXCEPT !.status = "rejected"]
    BY <1>2 DEF Apply
  <2>2. /\ a \in Records /\ a.support = q.support /\ a.failure = q.failure
        /\ a.contradiction = q.contradiction /\ a.status = "rejected"
    BY <1>1, <2>1 DEF Records
  <2> QED BY <1>2, <2>2
<1>3. CASE kind = "stale"
  <2>1. a = [q EXCEPT !.status = "invalidated"]
    BY <1>3 DEF Apply
  <2>2. /\ a \in Records /\ a.support = q.support /\ a.failure = q.failure
        /\ a.contradiction = q.contradiction /\ a.status = "invalidated"
    BY <1>1, <2>1 DEF Records
  <2> QED BY <1>3, <2>2
<1>4. CASE kind \in {"success", "failure", "contradiction"} /\ ~observed
  <2>1. a = q
    BY <1>4 DEF Apply
  <2>2. observed = FALSE
    BY <1>4
  <2>3. ~(kind = "success" /\ observed) /\ ~(kind = "failure" /\ observed)
        /\ ~(kind = "contradiction" /\ observed)
    BY <2>2
  <2>4. /\ a.support = q.support /\ a.failure = q.failure /\ a.contradiction = q.contradiction
        /\ a.status = q.status /\ a \in Records
    BY <2>1
  <2> QED BY <2>3, <2>4
<1>5. CASE kind = "success" /\ observed
  <2> DEFINE p == [q EXCEPT !.success = @ + 1, !.support = @ + 1]
  <2>1. a = Unbanned(f, p)
    BY <1>5 DEF Apply
  <2>2. /\ p \in Records /\ p.support = q.support + 1 /\ p.failure = q.failure
        /\ p.contradiction = q.contradiction /\ p.status = q.status
    BY <1>1 DEF Records
  <2> HIDE DEF p
  <2>3. /\ a \in Records /\ a.support = q.support + 1 /\ a.failure = q.failure
        /\ a.contradiction = q.contradiction
        /\ q.status \in Terminal => a.status = q.status
        /\ a.status \in {q.status, "promoted", "trusted"}
        /\ a.status = "trusted" =>
             q.status = "trusted" \/ (~f.model /\ a.support >= MinSupportToTrust)
    BY <2>1, <2>2, PromotedIs
  <2>4. a.status # q.status =>
          /\ a.status \in ActionableStatuses /\ q.status \notin Terminal
          /\ a.status = "trusted" => ~f.model /\ a.support >= MinSupportToTrust
    BY <2>3 DEF ActionableStatuses
  <2> QED BY <1>5, <2>3, <2>4
<1>6. CASE kind = "contradiction" /\ observed
  <2>1. a = [q EXCEPT !.contradiction = @ + 1, !.status = "invalidated"]
    BY <1>6 DEF Apply
  <2>2. /\ a \in Records /\ a.support = q.support /\ a.failure = q.failure
        /\ a.contradiction = q.contradiction + 1 /\ a.status = "invalidated"
    BY <1>1, <2>1 DEF Records
  <2> QED BY <1>6, <2>2
<1>7. CASE kind = "failure" /\ observed
  <2> DEFINE p == [q EXCEPT !.failure = @ + 1]
             r == [p EXCEPT !.status = "candidate"]
  <2>1. a = IF p.status \in ActionableStatuses /\ ~ReliableTo(p, 50) THEN r ELSE p
    BY <1>7 DEF Apply
  <2>2. /\ p \in Records /\ p.support = q.support /\ p.failure = q.failure + 1
        /\ p.contradiction = q.contradiction /\ p.status = q.status
    BY <1>1 DEF Records
  <2> HIDE DEF p
  <2>3. /\ r \in Records /\ r.support = p.support /\ r.failure = p.failure
        /\ r.contradiction = p.contradiction /\ r.status = "candidate"
    BY <1>1, <2>2 DEF Records
  <2>4. q.status \in ActionableStatuses => q.status \notin Terminal
    BY DEF ActionableStatuses, Terminal
  <2> HIDE DEF r
  <2> QED BY <1>7, <2>1, <2>2, <2>3, <2>4
<1>8. kind \in {"unsafe", "stale", "success", "failure", "contradiction"}
  BY DEF FeedbackKinds
<1> QED BY <1>2, <1>3, <1>4, <1>5, <1>6, <1>7, <1>8

\* What a run teaches are facts, and of what a check observed the one it observed.
LEMMA SightingsAre ==
  ASSUME NEW x \in Findings
  PROVE  /\ Sightings(x) \in Seq(Facts)
         /\ \A i \in DOMAIN Sightings(x) :
              Sightings(x)[i].kind # "route" =>
                Sightings(x)[i] = FactOf(x) /\ x.outcome \in {"met", "not_met"}
<1> DEFINE one == IF x.outcome = "unverified" \/ ~x.safe THEN << >> ELSE <<FactOf(x)>>
           two == IF x.routed THEN <<RouteOf(x)>> ELSE << >>
<1>1. FactOf(x) \in Facts /\ RouteOf(x) \in Facts /\ RouteOf(x).kind = "route"
  BY DEF FactOf, RouteOf, Facts, Kinds, Findings
<1>2. one \in Seq(Facts) /\ \A i \in DOMAIN one : one[i] = FactOf(x) /\ x.outcome \in {"met", "not_met"}
  BY <1>1 DEF Findings
<1>3. two \in Seq(Facts) /\ \A i \in DOMAIN two : two[i] = RouteOf(x)
  BY <1>1
<1>4. Sightings(x) = IF ~x.learnable THEN << >> ELSE one \o two
  BY DEF Sightings
<1> HIDE DEF one, two
<1>5. /\ one \o two \in Seq(Facts) /\ Len(one \o two) = Len(one) + Len(two)
      /\ \A i \in 1 .. Len(one) : (one \o two)[i] = one[i]
      /\ \A i \in Len(one) + 1 .. Len(one) + Len(two) : (one \o two)[i] = two[i - Len(one)]
  BY <1>2, <1>3, ConcatProperties
<1>6. ASSUME NEW i \in DOMAIN (one \o two), (one \o two)[i].kind # "route"
      PROVE  (one \o two)[i] = FactOf(x) /\ x.outcome \in {"met", "not_met"}
  <2>1. Len(one) \in Nat /\ Len(two) \in Nat /\ i \in 1 .. Len(one) + Len(two)
    BY <1>2, <1>3, <1>5
  <2>2. CASE i <= Len(one)
    BY <1>2, <1>5, <2>1, <2>2
  <2>3. CASE i > Len(one)
    <3>1. i - Len(one) \in DOMAIN two /\ i \in Len(one) + 1 .. Len(one) + Len(two)
      BY <1>3, <2>1, <2>3
    <3>2. (one \o two)[i] = RouteOf(x)
      BY <1>3, <1>5, <3>1
    <3> QED BY <1>1, <1>6, <3>2
  <2> QED BY <2>1, <2>2, <2>3
<1>7. CASE ~x.learnable
  BY <1>4, <1>7
<1>8. CASE x.learnable
  BY <1>4, <1>5, <1>6, <1>8
<1> QED BY <1>7, <1>8

-----------------------------------------------------------------------------
\* More feedback is more evidence.
LEMMA GroundsGrow ==
  ASSUME NEW f, NEW kind, NEW rows, NEW more, rows \subseteq more, IsFiniteSet(more)
  PROVE  /\ Cardinality(Grounds(rows, f, kind)) \in Nat /\ Cardinality(Grounds(more, f, kind)) \in Nat
         /\ Cardinality(Grounds(rows, f, kind)) <= Cardinality(Grounds(more, f, kind))
<1>1. Grounds(rows, f, kind) \subseteq Grounds(more, f, kind) /\ Grounds(more, f, kind) \subseteq more
  BY DEF Grounds
<1>2. IsFiniteSet(Grounds(more, f, kind)) /\ IsFiniteSet(Grounds(rows, f, kind))
  BY <1>1, FS_Subset
<1> QED BY <1>1, <1>2, FS_Subset, FS_CardinalityType

\* A report that is new is one more.
LEMMA OneMoreGround ==
  ASSUME NEW f, NEW kind, NEW rows, NEW more, IsFiniteSet(more),
         NEW o, o \notin rows, o.fact = f, o.kind = kind, o.observed, rows \cup {o} \subseteq more
  PROVE  Cardinality(Grounds(rows, f, kind)) + 1 <= Cardinality(Grounds(more, f, kind))
<1> DEFINE some == Grounds(rows, f, kind)
           all == Grounds(more, f, kind)
<1>1. o \notin some /\ some \cup {o} \subseteq all /\ all \subseteq more
  BY DEF Grounds
<1>2. IsFiniteSet(all) /\ IsFiniteSet(some) /\ IsFiniteSet(some \cup {o})
  BY <1>1, FS_Subset
<1> HIDE DEF some, all
<1>3. Cardinality(some \cup {o}) = Cardinality(some) + 1
  BY <1>1, <1>2, FS_AddElement
<1>4. Cardinality(some \cup {o}) <= Cardinality(all)
  BY <1>1, <1>2, FS_Subset
<1>5. QED BY <1>3, <1>4 DEF some, all

\* One more vote of a run that had none.
LEMMA OneMoreVote ==
  ASSUME NEW runs, IsFiniteSet(runs), NEW r, r \notin runs
  PROVE  Cardinality(runs \cup {r}) = Cardinality(runs) + 1 /\ Cardinality(runs) \in Nat
BY FS_AddElement, FS_CardinalityType

\* Evidence does not expire.
LEMMA JustifiedGrows ==
  ASSUME NEW f \in Facts, NEW d \in Records, NEW rows, NEW more, rows \subseteq more,
         IsFiniteSet(more), NEW runs, NEW others, runs \subseteq others, IsFiniteSet(others),
         Justified(f, d, rows, runs)
  PROVE  Justified(f, d, more, others)
<1>1. \A kind : /\ Cardinality(Grounds(rows, f, kind)) \in Nat
                /\ Cardinality(Grounds(more, f, kind)) \in Nat
                /\ Cardinality(Grounds(rows, f, kind)) <= Cardinality(Grounds(more, f, kind))
  BY GroundsGrow
<1>2. IsFiniteSet(runs) /\ Cardinality(runs) <= Cardinality(others)
  BY FS_Subset
<1>3. Cardinality(runs) \in Nat /\ Cardinality(others) \in Nat
  BY <1>2, FS_CardinalityType
<1>4. Support(rows, runs, f) <= Support(more, others, f) /\ Support(rows, runs, f) \in Nat
      /\ Support(more, others, f) \in Nat
  BY <1>1, <1>2, <1>3 DEF Support
<1>5. /\ d.support <= Support(more, others, f)
      /\ d.failure <= Cardinality(Grounds(more, f, "failure"))
      /\ d.contradiction <= Cardinality(Grounds(more, f, "contradiction"))
  BY <1>1, <1>4, ColumnIs DEF Justified
<1>6. /\ d.status = "invalidated" => \E o \in more : o.fact = f /\ o.kind \in {"contradiction", "stale"}
      /\ d.status = "rejected" => \E o \in more : o.fact = f /\ o.kind = "unsafe"
  BY DEF Justified
<1>7. d.status = "trusted" => ~f.model /\ Support(more, others, f) >= MinSupportToTrust
  BY <1>4, CandidateAssumption DEF Justified
<1> QED BY <1>5, <1>6, <1>7 DEF Justified

\* Nothing needs no evidence.
LEMMA NothingIsJustified ==
  ASSUME NEW f \in Facts, NEW rows, IsFiniteSet(rows), NEW runs, IsFiniteSet(runs)
  PROVE  Justified(f, NoRow, rows, runs)
<1>1. \A kind : Cardinality(Grounds(rows, f, kind)) \in Nat
  BY GroundsGrow
<1>2. Cardinality(runs) \in Nat
  BY FS_CardinalityType
<1> QED BY <1>1, <1>2, ColumnsAre DEF Justified, Support

-----------------------------------------------------------------------------
\* A worker is an attempt of a run, and no reporter.
LEMMA WorkersAre ==
  ASSUME NEW w \in Workers
  PROVE  w \in Transactions /\ w \notin Reporters /\ w[1] \in Runs
<1>1. PICK r \in Runs : w \in {r} \X (1 .. Attempts[r])
  BY DEF Workers
<1>2. w[1] = r /\ w \in Runs \X Nat
  BY <1>1
<1> QED BY <1>1, <1>2, CandidateAssumption DEF Transactions

\* Whoever ends lets go of everything, and nobody else does.
LEMMA EndsIs ==
  ASSUME Typed, NEW t \in Transactions, NEW how, Ends(t, how)
  PROVE  /\ DOMAIN pc' = Transactions /\ pc'[t] = how
         /\ draft' \in [Transactions -> [Facts -> Records]] /\ draft'[t] = [f \in Facts |-> NoRow]
         /\ read' \in [Transactions -> [Facts -> Records]] /\ read'[t] = [f \in Facts |-> NoRow]
         /\ todo' \in [Transactions -> Seq(Facts)]
         /\ disproved' \in [Transactions -> SUBSET Facts] /\ disproved'[t] = {}
         /\ ballot' \in [Transactions -> SUBSET Occurrences] /\ ballot'[t] = {}
         /\ \A u \in Transactions : IsFiniteSet(ballot'[u])
         /\ \A u \in Transactions \ {t} :
              /\ pc'[u] = pc[u] /\ draft'[u] = draft[u] /\ read'[u] = read[u]
              /\ todo'[u] = todo[u] /\ disproved'[u] = disproved[u] /\ ballot'[u] = ballot[u]
<1>1. [f \in Facts |-> NoRow] \in [Facts -> Records] /\ << >> \in Seq(Facts)
  BY ColumnsAre
<1>2. IsFiniteSet({})
  BY FS_EmptySet
<1> DEFINE blank == [f \in Facts |-> NoRow]
<1>3. blank \in [Facts -> Records]
  BY <1>1
<1>4. /\ pc' = [pc EXCEPT ![t] = how] /\ draft' = [draft EXCEPT ![t] = blank]
      /\ read' = [read EXCEPT ![t] = blank] /\ todo' = [todo EXCEPT ![t] = << >>]
      /\ disproved' = [disproved EXCEPT ![t] = {}] /\ ballot' = [ballot EXCEPT ![t] = {}]
  BY DEF Ends, Blank
<1> HIDE DEF blank
<1>5. /\ DOMAIN pc' = Transactions /\ pc'[t] = how
      /\ draft' \in [Transactions -> [Facts -> Records]] /\ draft'[t] = blank
      /\ read' \in [Transactions -> [Facts -> Records]] /\ read'[t] = blank
      /\ todo' \in [Transactions -> Seq(Facts)]
      /\ disproved' \in [Transactions -> SUBSET Facts] /\ disproved'[t] = {}
      /\ ballot' \in [Transactions -> SUBSET Occurrences] /\ ballot'[t] = {}
      /\ \A u \in Transactions \ {t} :
           /\ pc'[u] = pc[u] /\ draft'[u] = draft[u] /\ read'[u] = read[u]
           /\ todo'[u] = todo[u] /\ disproved'[u] = disproved[u] /\ ballot'[u] = ballot[u]
  BY <1>1, <1>3, <1>4 DEF Typed
<1>6. \A u \in Transactions : IsFiniteSet(ballot'[u])
  BY <1>2, <1>5 DEF Typed
<1> QED BY <1>5, <1>6 DEF blank

\* Work that ended is not work at hand, and locks nothing.
LEMMA EndingKeepsWork ==
  ASSUME WorkInv, NEW t \in Transactions, NEW how,
         how \notin {"merging", "withdrawing", "claiming"}, Ends(t, how), UNCHANGED found
  PROVE  WorkAtHand' /\ LocksHold'
<1>1. WorkAtHand'
  <2> SUFFICES ASSUME NEW w \in Workers
      PROVE  /\ ~InTransaction(w)' =>
                  draft'[w] = [f \in Facts |-> NoRow] /\ disproved'[w] = {} /\ ballot'[w] = {}
             /\ pc'[w] = "merging" =>
                  /\ disproved'[w] = {} /\ ballot'[w] = {}
                  /\ \A i \in DOMAIN todo'[w] : todo'[w][i] \in SeenBy(found'[w[1]])
                  /\ \A f \in Facts : draft'[w][f] # NoRow => f \in SeenBy(found'[w[1]])
             /\ \A f \in disproved'[w] : read'[w][f].status \notin Terminal
             /\ \A o \in ballot'[w] : o.run = w[1]
    BY DEF WorkAtHand, Seen
  <2>1. CASE w = t
    BY <2>1, EndsIs DEF InTransaction, WorkInv
  <2>2. CASE w # t
    <3>1. w \in Transactions \ {t}
      BY <2>2, WorkersAre
    <3>2. /\ pc'[w] = pc[w] /\ draft'[w] = draft[w] /\ read'[w] = read[w]
          /\ todo'[w] = todo[w] /\ disproved'[w] = disproved[w] /\ ballot'[w] = ballot[w]
      BY <3>1, EndsIs DEF WorkInv
    <3> QED BY <3>2 DEF WorkInv, WorkAtHand, InTransaction, Seen
  <2> QED BY <2>1, <2>2
<1>2. LocksHold'
  <2>1. \A w \in Workers, f \in Facts : draft'[w][f] # NoRow => draft'[w][f] = draft[w][f]
    BY EndsIs, WorkersAre DEF WorkInv
  <2> QED BY <2>1 DEF WorkInv, LocksHold
<1> QED BY <1>1, <1>2

\* A run that learned its findings saw facts.
LEMMA SeenAreFacts ==
  ASSUME WorkInv, NEW w \in Workers
  PROVE  found[w[1]] \in Findings /\ Sightings(found[w[1]]) \in Seq(Facts) /\ Seen(w) \subseteq Facts
<1>1. found[w[1]] \in Findings
  BY WorkersAre DEF WorkInv, Typed
<1>2. Sightings(found[w[1]]) \in Seq(Facts)
  BY <1>1, SightingsAre
<1>3. \A i \in DOMAIN Sightings(found[w[1]]) : Sightings(found[w[1]])[i] \in Facts
  BY <1>2
<1> QED BY <1>1, <1>2, <1>3 DEF Seen, SeenBy

\* A merge writes the row of one fact that the run saw and that nobody has written.
LEMMA MergeIs ==
  ASSUME WorkInv, NEW w \in Workers, Merge(w)
  PROVE  \E f \in Facts :
           /\ f \in Seen(w)
           /\ \A u \in Workers \ {w} : draft[u][f] = NoRow
           /\ draft'[w][f] = IF row[f] = NoRow THEN FirstSighting(found[w[1]], f)
                             ELSE ReinforcedBy(f, row[f])
           /\ \A u \in Transactions, g \in Facts :
                (u # w \/ g # f) => draft'[u][g] = draft[u][g]
           /\ draft' \in [Transactions -> [Facts -> Records]]
           /\ todo' \in [Transactions -> Seq(Facts)]
           /\ \A i \in DOMAIN todo'[w] : todo'[w][i] \in Seen(w)
           /\ \A u \in Transactions \ {w} : todo'[u] = todo[u]
<1> DEFINE f == Head(todo[w])
           d == IF row[f] = NoRow THEN FirstSighting(found[w[1]], f) ELSE ReinforcedBy(f, row[f])
           rest == Tail(todo[w])
<1>1. w \in Transactions /\ found[w[1]] \in Findings
  BY WorkersAre, SeenAreFacts
<1>2. todo[w] \in Seq(Facts) /\ todo[w] # << >> /\ pc[w] = "merging"
  BY <1>1 DEF Merge, WorkInv, Typed
<1>3. f \in Facts /\ f = todo[w][1] /\ 1 \in DOMAIN todo[w]
  BY <1>2
<1>4. /\ rest \in Seq(Facts)
      /\ \A i \in DOMAIN rest : i + 1 \in DOMAIN todo[w] /\ rest[i] = todo[w][i + 1]
  BY <1>2
<1>5. \A i \in DOMAIN todo[w] : todo[w][i] \in Seen(w)
  BY <1>2 DEF WorkInv, WorkAtHand
<1>6. /\ ~Locked(f, w)
      /\ draft' = [draft EXCEPT ![w][f] = d]
      /\ todo' = [todo EXCEPT ![w] = rest]
  BY Zenon DEF Merge
<1>7. row[f] \in Records
  BY <1>3 DEF WorkInv, Typed
<1>8. d \in Records
  BY <1>1, <1>3, <1>7, FirstIs, ReinforcedIs
<1> HIDE DEF d, rest, f
<1>9. /\ draft' \in [Transactions -> [Facts -> Records]]
      /\ draft'[w][f] = d
      /\ \A u \in Transactions, g \in Facts : (u # w \/ g # f) => draft'[u][g] = draft[u][g]
  BY <1>1, <1>3, <1>6, <1>8 DEF WorkInv, Typed
<1>10. /\ todo' \in [Transactions -> Seq(Facts)] /\ todo'[w] = rest
       /\ \A u \in Transactions \ {w} : todo'[u] = todo[u]
  BY <1>1, <1>4, <1>6 DEF WorkInv, Typed
<1>11. f \in Seen(w) /\ \A i \in DOMAIN rest : rest[i] \in Seen(w)
  BY <1>3, <1>4, <1>5
<1>12. \A u \in Workers \ {w} : draft[u][f] = NoRow
  BY <1>6 DEF Locked
<1>13. d = IF row[f] = NoRow THEN FirstSighting(found[w[1]], f) ELSE ReinforcedBy(f, row[f])
  BY DEF d, f
<1> QED BY <1>3, <1>9, <1>10, <1>11, <1>12, <1>13

\* What withdrawing a fact does.
Withdrawal(w, f) ==
  /\ f \in Facts
  /\ \A u \in Workers \ {w} : draft[u][f] = NoRow
  /\ disproved'[w] = disproved[w] \ {f}
  /\ \A u \in Transactions \ {w} : disproved'[u] = disproved[u] /\ ballot'[u] = ballot[u]
  /\ disproved' \in [Transactions -> SUBSET Facts]
  /\ ballot' \in [Transactions -> SUBSET Occurrences]
  /\ draft' \in [Transactions -> [Facts -> Records]]
  /\ \A u \in Transactions, g \in Facts :
       (u # w \/ g # f) => draft'[u][g] = draft[u][g]
  /\ \/ draft' = draft /\ ballot' = ballot /\ w[1] \in claimed
     \/ /\ ballot'[w] = ballot[w] \cup {Occurrence(f, w[1], "contradiction", TRUE)}
        /\ draft'[w][f] = Saved(Visible(w, f), read[w][f],
                                Apply(f, read[w][f], "contradiction", TRUE))

\* A withdrawal withdraws a fact, unless the run had committed the same before.
LEMMA WithdrawIs ==
  ASSUME WorkInv, NEW w \in Workers, Withdraw(w)
  PROVE  \E f \in disproved[w] :
           Withdrawal(w, f)
<1>1. w \in Transactions /\ w[1] \in Runs
  BY WorkersAre
<1>2. PICK f \in disproved[w] :
       /\ ~Locked(f, w)
       /\ disproved' = [disproved EXCEPT ![w] = @ \ {f}]
       /\ IF Occurred(feedback, f, w[1], "contradiction")
          THEN UNCHANGED <<draft, ballot>>
          ELSE /\ ballot' = [ballot EXCEPT ![w] =
                    @ \cup {Occurrence(f, w[1], "contradiction", TRUE)}]
               /\ draft' = [draft EXCEPT ![w][f] =
                    Saved(Visible(w, f), read[w][f],
                          Apply(f, read[w][f], "contradiction", TRUE))]
  BY Zenon DEF Withdraw
<1>3. f \in Facts
  BY <1>1, <1>2 DEF WorkInv, Typed
<1>4. \A u \in Workers \ {w} : draft[u][f] = NoRow
  BY <1>2 DEF Locked
<1>5. /\ disproved' \in [Transactions -> SUBSET Facts] /\ disproved'[w] = disproved[w] \ {f}
      /\ \A u \in Transactions \ {w} : disproved'[u] = disproved[u]
  BY <1>1, <1>2 DEF WorkInv, Typed
<1>6. CASE Occurred(feedback, f, w[1], "contradiction")
  <2>1. PICK o \in feedback : o.run = w[1]
    BY <1>6 DEF Occurred
  <2>2. w[1] \in claimed
    BY <1>1, <2>1 DEF WorkInv, ClaimsAreUnique
  <2>3. draft' = draft /\ ballot' = ballot
    BY <1>2, <1>6
  <2> QED BY <1>3, <1>4, <1>5, <2>2, <2>3 DEF WorkInv, Typed, Withdrawal
<1>7. CASE ~Occurred(feedback, f, w[1], "contradiction")
  <2> DEFINE o == Occurrence(f, w[1], "contradiction", TRUE)
             old == read[w][f]
             d == Saved(Visible(w, f), old, Apply(f, old, "contradiction", TRUE))
  <2>1. ballot' = [ballot EXCEPT ![w] = @ \cup {o}] /\ draft' = [draft EXCEPT ![w][f] = d]
    BY <1>2, <1>7, Zenon
  <2>2. o \in Occurrences
    BY <1>1, <1>3 DEF Occurrence, Occurrences, FeedbackKinds
  <2>3. old \in Records /\ Visible(w, f) \in Records
    BY <1>1, <1>3 DEF Visible, WorkInv, Typed
  <2>4. Apply(f, old, "contradiction", TRUE) \in Records
    <3>1. "contradiction" \in FeedbackKinds
      BY DEF FeedbackKinds
    <3> HIDE DEF old
    <3> QED BY <1>3, <2>3, <3>1, ApplyIs
  <2>5. d \in Records
    BY <2>3, <2>4, SavedIs
  <2>6. d = Saved(Visible(w, f), read[w][f], Apply(f, read[w][f], "contradiction", TRUE))
        /\ o = Occurrence(f, w[1], "contradiction", TRUE)
    OBVIOUS
  <2> HIDE DEF o, d, old
  <2>7. /\ ballot' \in [Transactions -> SUBSET Occurrences] /\ ballot'[w] = ballot[w] \cup {o}
        /\ \A u \in Transactions \ {w} : ballot'[u] = ballot[u]
    BY <1>1, <2>1, <2>2 DEF WorkInv, Typed
  <2>8. /\ draft' \in [Transactions -> [Facts -> Records]] /\ draft'[w][f] = d
        /\ \A u \in Transactions, g \in Facts : (u # w \/ g # f) => draft'[u][g] = draft[u][g]
    BY <1>1, <1>3, <2>1, <2>5 DEF WorkInv, Typed
  <2> QED BY <1>3, <1>4, <1>5, <2>6, <2>7, <2>8 DEF Withdrawal
<1> QED BY <1>6, <1>7

\* An attempt that ends without committing keeps the invariant of the work.
LEMMA WorkEnds ==
  ASSUME WorkInv, NEW w \in Workers, NEW how,
         how \notin {"merging", "withdrawing", "claiming"}, Ends(w, how),
         UNCHANGED <<found, stored, report>>
  PROVE  WorkInv'
<1>1. w \in Transactions
  BY WorkersAre
<1>2. UNCHANGED <<found, row, feedback, claimed, sighted, report>>
  BY DEF stored
<1>3. Typed'
  BY <1>1, <1>2, EndsIs DEF WorkInv, Typed
<1>4. WorkAtHand' /\ LocksHold'
  BY <1>1, <1>2, EndingKeepsWork
<1>5. ClaimsAreUnique'
  <2>1. \A u \in Workers : pc'[u] = "claiming" => pc[u] = "claiming" /\ disproved'[u] = disproved[u]
    BY <1>1, EndsIs, WorkersAre DEF WorkInv
  <2> QED BY <1>2, <2>1 DEF WorkInv, ClaimsAreUnique
<1> QED BY <1>3, <1>4, <1>5 DEF WorkInv

\* Begin keeps the invariant of the work.
LEMMA WorkBegin ==
  ASSUME WorkInv, NEW w \in Workers, Begin(w)
  PROVE  WorkInv'
<1>1. w \in Transactions
  BY WorkersAre
<1>2. /\ pc[w] = "idle" /\ UNCHANGED <<found, stored, report>>
      /\ UNCHANGED <<row, feedback, claimed, sighted>>
  BY DEF Begin, stored
<1>3. CASE w[1] \in claimed
  BY <1>2, <1>3, WorkEnds DEF Begin
<1>4. CASE w[1] \notin claimed
  <2>1. /\ todo' = [todo EXCEPT ![w] = Sightings(found[w[1]])]
        /\ pc' = [pc EXCEPT ![w] = "merging"]
        /\ UNCHANGED <<draft, read, disproved, ballot>>
    BY <1>4 DEF Begin
  <2>2. Sightings(found[w[1]]) \in Seq(Facts)
    BY SeenAreFacts
  <2>3. Typed'
    BY <1>1, <1>2, <2>1, <2>2 DEF WorkInv, Typed
  <2>4. /\ pc'[w] = "merging" /\ todo'[w] = Sightings(found[w[1]])
        /\ \A u \in Transactions \ {w} : pc'[u] = pc[u] /\ todo'[u] = todo[u]
    BY <1>1, <2>1 DEF WorkInv, Typed
  <2>5. draft[w] = [f \in Facts |-> NoRow] /\ disproved[w] = {} /\ ballot[w] = {}
    BY <1>2 DEF WorkInv, WorkAtHand, InTransaction
  <2>6. WorkAtHand'
    <3> SUFFICES ASSUME NEW u \in Workers
        PROVE  /\ ~InTransaction(u)' =>
                    draft'[u] = [f \in Facts |-> NoRow] /\ disproved'[u] = {} /\ ballot'[u] = {}
               /\ pc'[u] = "merging" =>
                    /\ disproved'[u] = {} /\ ballot'[u] = {}
                    /\ \A i \in DOMAIN todo'[u] : todo'[u][i] \in SeenBy(found'[u[1]])
                    /\ \A f \in Facts : draft'[u][f] # NoRow => f \in SeenBy(found'[u[1]])
               /\ \A f \in disproved'[u] : read'[u][f].status \notin Terminal
               /\ \A o \in ballot'[u] : o.run = u[1]
      BY DEF WorkAtHand, Seen
    <3>1. CASE u = w
      BY <1>2, <2>1, <2>4, <2>5, <3>1 DEF InTransaction, SeenBy
    <3>2. CASE u # w
      BY <1>2, <2>1, <2>4, <3>2, WorkersAre DEF InTransaction, WorkInv, WorkAtHand, Seen
    <3> QED BY <3>1, <3>2
  <2>7. ClaimsAreUnique'
    <3>1. \A u \in Workers : pc'[u] = "claiming" => pc[u] = "claiming"
      BY <2>4, WorkersAre
    <3> QED BY <1>2, <2>1, <3>1 DEF WorkInv, ClaimsAreUnique
  <2>8. LocksHold'
    BY <2>1 DEF WorkInv, LocksHold
  <2> QED BY <2>3, <2>6, <2>7, <2>8 DEF WorkInv
<1> QED BY <1>3, <1>4

\* Merge keeps the invariant of the work: the lock of the row is free.
LEMMA WorkMerge ==
  ASSUME WorkInv, NEW w \in Workers, Merge(w)
  PROVE  WorkInv'
<1>1. w \in Transactions
  BY WorkersAre
<1>2. /\ pc[w] = "merging" /\ UNCHANGED <<found, row, feedback, claimed, sighted>>
      /\ UNCHANGED <<pc, read, disproved, ballot, report>>
  BY DEF Merge, stored
<1>3. PICK f \in Facts :
           /\ f \in Seen(w)
           /\ \A u \in Workers \ {w} : draft[u][f] = NoRow
           /\ \A u \in Transactions, g \in Facts :
                (u # w \/ g # f) => draft'[u][g] = draft[u][g]
           /\ draft' \in [Transactions -> [Facts -> Records]]
           /\ todo' \in [Transactions -> Seq(Facts)]
           /\ \A i \in DOMAIN todo'[w] : todo'[w][i] \in Seen(w)
           /\ \A u \in Transactions \ {w} : todo'[u] = todo[u]
  BY MergeIs, Zenon
<1>4. Typed'
  BY <1>2, <1>3 DEF WorkInv, Typed
<1>5. \A u \in Workers \ {w} : draft'[u] = draft[u]
  <2> SUFFICES ASSUME NEW u \in Workers \ {w} PROVE draft'[u] = draft[u]
    OBVIOUS
  <2>1. u \in Transactions /\ draft'[u] \in [Facts -> Records] /\ draft[u] \in [Facts -> Records]
    BY <1>3, WorkersAre DEF WorkInv, Typed
  <2> QED BY <1>3, <2>1
<1>6. WorkAtHand'
  <2> SUFFICES ASSUME NEW u \in Workers
      PROVE  /\ ~InTransaction(u)' =>
                  draft'[u] = [g \in Facts |-> NoRow] /\ disproved'[u] = {} /\ ballot'[u] = {}
             /\ pc'[u] = "merging" =>
                  /\ disproved'[u] = {} /\ ballot'[u] = {}
                  /\ \A i \in DOMAIN todo'[u] : todo'[u][i] \in SeenBy(found'[u[1]])
                  /\ \A g \in Facts : draft'[u][g] # NoRow => g \in SeenBy(found'[u[1]])
             /\ \A g \in disproved'[u] : read'[u][g].status \notin Terminal
             /\ \A o \in ballot'[u] : o.run = u[1]
    BY DEF WorkAtHand, Seen
  <2>1. CASE u = w
    <3>1. \A g \in Facts : draft'[w][g] # NoRow => g \in Seen(w)
      BY <1>1, <1>2, <1>3 DEF WorkInv, WorkAtHand
    <3> QED BY <1>2, <1>3, <2>1, <3>1 DEF InTransaction, WorkInv, WorkAtHand, Seen
  <2>2. CASE u # w
    BY <1>2, <1>3, <1>5, <2>2, WorkersAre DEF InTransaction, WorkInv, WorkAtHand, Seen
  <2> QED BY <2>1, <2>2
<1>7. ClaimsAreUnique'
  BY <1>2 DEF WorkInv, ClaimsAreUnique
<1>8. LocksHold'
  BY <1>3, <1>5, WorkersAre DEF WorkInv, LocksHold
<1> QED BY <1>4, <1>6, <1>7, <1>8 DEF WorkInv

\* Scan keeps the invariant of the work: what is withdrawn was not when it was read.
LEMMA WorkScan ==
  ASSUME WorkInv, NEW w \in Workers, Scan(w)
  PROVE  /\ WorkInv' /\ pc'[w] = "withdrawing"
         /\ \A u \in Transactions \ {w} :
              pc'[u] = pc[u] /\ read'[u] = read[u] /\ disproved'[u] = disproved[u]
         /\ \A f \in Facts : read'[w][f] = Visible(w, f)
         /\ disproved'[w] = { f \in Facts : Contradicts(found[w[1]], f, Visible(w, f)) }
<1> DEFINE visible == [f \in Facts |-> Visible(w, f)]
           contradicted == { f \in Facts : Contradicts(found[w[1]], f, Visible(w, f)) }
<1>1. w \in Transactions
  BY WorkersAre
<1>2. /\ pc[w] = "merging" /\ UNCHANGED <<found, row, feedback, claimed, sighted>>
      /\ UNCHANGED <<draft, todo, ballot, report>>
      /\ read' = [read EXCEPT ![w] = visible] /\ disproved' = [disproved EXCEPT ![w] = contradicted]
      /\ pc' = [pc EXCEPT ![w] = "withdrawing"]
  BY Zenon DEF Scan, stored
<1>3. \A f \in Facts : Visible(w, f) \in Records
  BY <1>1 DEF Visible, WorkInv, Typed
<1>4. visible \in [Facts -> Records] /\ contradicted \subseteq Facts
      /\ (\A f \in Facts : visible[f] = Visible(w, f))
      /\ \A f \in contradicted : f \in Facts /\ Visible(w, f).status \notin Terminal
  BY <1>3 DEF Contradicts
<1>5. contradicted = { f \in Facts : Contradicts(found[w[1]], f, Visible(w, f)) }
  OBVIOUS
<1> HIDE DEF visible, contradicted
<1>6. /\ pc'[w] = "withdrawing" /\ read'[w] = visible /\ disproved'[w] = contradicted
      /\ \A u \in Transactions \ {w} :
           pc'[u] = pc[u] /\ read'[u] = read[u] /\ disproved'[u] = disproved[u]
  BY <1>1, <1>2 DEF WorkInv, Typed
<1>7. Typed'
  BY <1>1, <1>2, <1>4 DEF WorkInv, Typed
<1>8. WorkAtHand'
  <2> SUFFICES ASSUME NEW u \in Workers
      PROVE  /\ ~InTransaction(u)' =>
                  draft'[u] = [g \in Facts |-> NoRow] /\ disproved'[u] = {} /\ ballot'[u] = {}
             /\ pc'[u] = "merging" =>
                  /\ disproved'[u] = {} /\ ballot'[u] = {}
                  /\ \A i \in DOMAIN todo'[u] : todo'[u][i] \in SeenBy(found'[u[1]])
                  /\ \A g \in Facts : draft'[u][g] # NoRow => g \in SeenBy(found'[u[1]])
             /\ \A g \in disproved'[u] : read'[u][g].status \notin Terminal
             /\ \A o \in ballot'[u] : o.run = u[1]
    BY DEF WorkAtHand, Seen
  <2>1. CASE u = w
    BY <1>2, <1>4, <1>6, <2>1 DEF InTransaction, WorkInv, WorkAtHand
  <2>2. CASE u # w
    BY <1>2, <1>6, <2>2, WorkersAre DEF InTransaction, WorkInv, WorkAtHand, Seen
  <2> QED BY <2>1, <2>2
<1>9. ClaimsAreUnique'
  <2>1. \A u \in Workers : pc'[u] = "claiming" => pc[u] = "claiming" /\ disproved'[u] = disproved[u]
    BY <1>6, WorkersAre
  <2> QED BY <1>2, <2>1 DEF WorkInv, ClaimsAreUnique
<1>10. LocksHold'
  BY <1>2 DEF WorkInv, LocksHold
<1> QED BY <1>4, <1>5, <1>6, <1>7, <1>8, <1>9, <1>10 DEF WorkInv

\* Withdraw keeps the invariant of the work.
LEMMA WorkWithdraw ==
  ASSUME WorkInv, NEW w \in Workers, Withdraw(w)
  PROVE  WorkInv'
<1>0. PICK f \in disproved[w] : Withdrawal(w, f)
  BY WithdrawIs
<1>1. w \in Transactions
  BY WorkersAre
<1>2. /\ pc[w] = "withdrawing" /\ UNCHANGED <<found, row, feedback, claimed, sighted>>
      /\ UNCHANGED <<pc, read, todo, report>>
  BY DEF Withdraw, stored
<1>3. /\ f \in Facts
      /\ \A u \in Workers \ {w} : draft[u][f] = NoRow
      /\ disproved'[w] = disproved[w] \ {f}
      /\ \A u \in Transactions \ {w} : disproved'[u] = disproved[u] /\ ballot'[u] = ballot[u]
      /\ disproved' \in [Transactions -> SUBSET Facts]
      /\ ballot' \in [Transactions -> SUBSET Occurrences]
      /\ draft' \in [Transactions -> [Facts -> Records]]
      /\ \A u \in Transactions, g \in Facts :
           (u # w \/ g # f) => draft'[u][g] = draft[u][g]
      /\ \/ ballot' = ballot
         \/ ballot'[w] = ballot[w] \cup {Occurrence(f, w[1], "contradiction", TRUE)}
  BY <1>0 DEF Withdrawal
<1>4. \A u \in Transactions : IsFiniteSet(ballot'[u])
  <2>1. IsFiniteSet(ballot[w]) /\ \A u \in Transactions : IsFiniteSet(ballot[u])
    BY <1>1 DEF WorkInv, Typed
  <2> DEFINE more == ballot[w] \cup {Occurrence(f, w[1], "contradiction", TRUE)}
  <2>2. IsFiniteSet(more)
    BY <2>1, FS_AddElement
  <2>3. ballot' = ballot \/ ballot'[w] = more
    BY <1>3
  <2> HIDE DEF more
  <2>4. CASE ballot' = ballot
    BY <2>1, <2>4
  <2>5. CASE ballot'[w] = more
    BY <1>3, <2>1, <2>2, <2>5
  <2> QED BY <2>3, <2>4, <2>5
<1>5. Typed'
  BY <1>2, <1>3, <1>4 DEF WorkInv, Typed
<1>6. \A u \in Workers \ {w} : draft'[u] = draft[u]
  <2> SUFFICES ASSUME NEW u \in Workers \ {w} PROVE draft'[u] = draft[u]
    OBVIOUS
  <2>1. u \in Transactions /\ draft'[u] \in [Facts -> Records] /\ draft[u] \in [Facts -> Records]
    BY <1>3, WorkersAre DEF WorkInv, Typed
  <2> QED BY <1>3, <2>1
<1>7. WorkAtHand'
  <2> SUFFICES ASSUME NEW u \in Workers
      PROVE  /\ ~InTransaction(u)' =>
                  draft'[u] = [g \in Facts |-> NoRow] /\ disproved'[u] = {} /\ ballot'[u] = {}
             /\ pc'[u] = "merging" =>
                  /\ disproved'[u] = {} /\ ballot'[u] = {}
                  /\ \A i \in DOMAIN todo'[u] : todo'[u][i] \in SeenBy(found'[u[1]])
                  /\ \A g \in Facts : draft'[u][g] # NoRow => g \in SeenBy(found'[u[1]])
             /\ \A g \in disproved'[u] : read'[u][g].status \notin Terminal
             /\ \A o \in ballot'[u] : o.run = u[1]
    BY DEF WorkAtHand, Seen
  <2>1. CASE u = w
    <3> DEFINE n == Occurrence(f, w[1], "contradiction", TRUE)
    <3>1. n.run = w[1]
      BY DEF Occurrence
    <3>2. ballot' = ballot \/ ballot'[w] = ballot[w] \cup {n}
      BY <1>3
    <3> HIDE DEF n
    <3>3. \A o \in ballot'[w] : o.run = w[1]
      BY <3>1, <3>2 DEF WorkInv, WorkAtHand
    <3> QED BY <1>2, <1>3, <2>1, <3>3 DEF InTransaction, WorkInv, WorkAtHand
  <2>2. CASE u # w
    BY <1>2, <1>3, <1>6, <2>2, WorkersAre DEF InTransaction, WorkInv, WorkAtHand, Seen
  <2> QED BY <2>1, <2>2
<1>8. ClaimsAreUnique'
  <2>1. \A u \in Workers : pc'[u] = "claiming" => pc[u] = "claiming" /\ disproved'[u] = disproved[u]
    BY <1>2, <1>3, WorkersAre
  <2> QED BY <1>2, <2>1 DEF WorkInv, ClaimsAreUnique
<1>9. LocksHold'
  BY <1>3, <1>6, WorkersAre DEF WorkInv, LocksHold
<1> QED BY <1>5, <1>7, <1>8, <1>9 DEF WorkInv

\* Claim keeps the invariant of the work: the record of a run is waited for.
LEMMA WorkClaim ==
  ASSUME WorkInv, NEW w \in Workers, Claim(w)
  PROVE  WorkInv'
<1>1. w \in Transactions
  BY WorkersAre
<1>2. /\ pc[w] = "withdrawing" /\ disproved[w] = {}
      /\ \A v \in Workers \ {w} : v[1] = w[1] => pc[v] # "claiming"
      /\ UNCHANGED <<found, row, feedback, claimed, sighted>> /\ UNCHANGED <<found, stored, report>>
  BY DEF Claim, stored
<1>3. CASE w[1] \in claimed
  BY <1>2, <1>3, WorkEnds DEF Claim, Unclaimed
<1>4. CASE w[1] \notin claimed
  <2>1. pc' = [pc EXCEPT ![w] = "claiming"] /\ UNCHANGED <<draft, read, todo, disproved, ballot, report>>
    BY <1>2, <1>4 DEF Claim, Unclaimed, session
  <2>2. pc'[w] = "claiming" /\ \A u \in Transactions \ {w} : pc'[u] = pc[u]
    BY <1>1, <2>1 DEF WorkInv, Typed
  <2>3. Typed'
    BY <1>2, <2>1 DEF WorkInv, Typed
  <2>4. WorkAtHand'
    <3>1. \A u \in Workers : /\ pc'[u] = "merging" => pc[u] = "merging"
                             /\ ~InTransaction(u)' => ~InTransaction(u)
      BY <1>2, <2>2, WorkersAre DEF InTransaction
    <3> QED BY <1>2, <2>1, <3>1 DEF WorkInv, WorkAtHand, Seen
  <2>5. ClaimsAreUnique'
    BY <1>2, <1>4, <2>1, <2>2, WorkersAre DEF WorkInv, ClaimsAreUnique
  <2>6. LocksHold'
    BY <2>1 DEF WorkInv, LocksHold
  <2> QED BY <2>3, <2>4, <2>5, <2>6 DEF WorkInv
<1> QED BY <1>3, <1>4

\* What a commit does.
LEMMA CommitIs ==
  ASSUME WorkInv, NEW w \in Workers, Commit(w)
  PROVE  /\ w \in Transactions /\ pc[w] = "claiming" /\ w[1] \notin claimed /\ disproved[w] = {}
         /\ row' \in [Facts -> Records] /\ \A f \in Facts : row'[f] = Visible(w, f)
         /\ feedback' = feedback \cup ballot[w] /\ IsFiniteSet(feedback')
         /\ feedback' \subseteq Occurrences
         /\ claimed' = claimed \cup {w[1]} /\ claimed' \subseteq Runs
         /\ sighted' \in [Facts -> SUBSET Runs]
         /\ \A f \in Facts : sighted'[f] = sighted[f] \cup Witnesses(w, f) /\ IsFiniteSet(sighted'[f])
         /\ Ends(w, "committed") /\ UNCHANGED <<found, report>>
<1>1. w \in Transactions /\ w[1] \in Runs
  BY WorkersAre
<1>2. /\ pc[w] = "claiming" /\ row' = [f \in Facts |-> Visible(w, f)]
      /\ feedback' = feedback \cup ballot[w] /\ claimed' = claimed \cup {w[1]}
      /\ sighted' = [f \in Facts |->
           IF \E i \in DOMAIN Sightings(found[w[1]]) : Sightings(found[w[1]])[i] = f
           THEN sighted[f] \cup {w[1]} ELSE sighted[f]]
      /\ Ends(w, "committed") /\ UNCHANGED <<found, report>>
  BY Zenon DEF Commit
<1>3. w[1] \notin claimed /\ disproved[w] = {}
  BY <1>2 DEF WorkInv, ClaimsAreUnique
<1>4. \A f \in Facts : Visible(w, f) \in Records
  BY <1>1 DEF Visible, WorkInv, Typed
<1>5. /\ feedback \subseteq Occurrences /\ ballot[w] \subseteq Occurrences
      /\ IsFiniteSet(feedback) /\ IsFiniteSet(ballot[w]) /\ claimed \subseteq Runs
      /\ sighted \in [Facts -> SUBSET Runs] /\ \A f \in Facts : IsFiniteSet(sighted[f])
  BY <1>1 DEF WorkInv, Typed
<1>6. IsFiniteSet(feedback \cup ballot[w])
  BY <1>5, FS_Union
<1>7. \A f \in Facts : IsFiniteSet(sighted[f] \cup {w[1]})
  BY <1>5, FS_AddElement
<1>8. ASSUME NEW f \in Facts
      PROVE  /\ sighted'[f] = sighted[f] \cup Witnesses(w, f) /\ IsFiniteSet(sighted'[f])
             /\ sighted'[f] \subseteq Runs
  <2>1. CASE \E i \in DOMAIN Sightings(found[w[1]]) : Sightings(found[w[1]])[i] = f
    <3>1. Witnesses(w, f) = {w[1]}
      BY <2>1 DEF Witnesses, SeenBy
    <3>2. sighted'[f] = sighted[f] \cup {w[1]}
      BY <1>2, <2>1
    <3> QED BY <1>1, <1>5, <1>7, <3>1, <3>2
  <2>2. CASE ~ \E i \in DOMAIN Sightings(found[w[1]]) : Sightings(found[w[1]])[i] = f
    <3>1. Witnesses(w, f) = {}
      BY <2>2 DEF Witnesses, SeenBy
    <3>2. sighted'[f] = sighted[f]
      BY <1>2, <2>2
    <3> QED BY <1>5, <3>1, <3>2
  <2> QED BY <2>1, <2>2
<1>9. sighted' \in [Facts -> SUBSET Runs]
  <2>1. DOMAIN sighted' = Facts /\ sighted' = [f \in Facts |-> sighted'[f]]
    BY <1>2
  <2> QED BY <1>8, <2>1
<1> QED BY <1>1, <1>2, <1>3, <1>4, <1>5, <1>6, <1>8, <1>9

\* Commit keeps the invariant of the work: nobody else claims the run.
LEMMA WorkCommit ==
  ASSUME WorkInv, NEW w \in Workers, Commit(w)
  PROVE  WorkInv'
<1>1. Typed'
  BY CommitIs, EndsIs DEF WorkInv, Typed
<1>2. WorkAtHand' /\ LocksHold'
  BY CommitIs, EndingKeepsWork
<1>3. ClaimsAreUnique'
  <2>1. pc'[w] = "committed" /\ \A u \in Workers \ {w} : pc'[u] = pc[u] /\ disproved'[u] = disproved[u]
    BY CommitIs, EndsIs, WorkersAre DEF WorkInv
  <2>2. \A u \in Workers : pc'[u] = "claiming" =>
          /\ u # w /\ pc[u] = "claiming" /\ disproved'[u] = {} /\ u[1] \notin claimed /\ u[1] # w[1]
          /\ \A v \in Workers \ {u} : v[1] = u[1] => pc'[v] # "claiming"
    BY <2>1, CommitIs DEF WorkInv, ClaimsAreUnique
  <2>3. \A o \in feedback' : o.run \in Runs => o.run \in claimed'
    BY CommitIs DEF WorkInv, ClaimsAreUnique, WorkAtHand
  <2>4. \A f \in Facts : sighted'[f] \subseteq claimed'
    BY CommitIs DEF WorkInv, ClaimsAreUnique, Witnesses
  <2> QED BY <2>2, <2>3, <2>4, CommitIs DEF ClaimsAreUnique
<1> QED BY <1>1, <1>2, <1>3 DEF WorkInv

\* A reporter is not a worker, and what it reports is of a fact.
LEMMA ReportersAre ==
  ASSUME WorkInv, NEW q \in Reporters
  PROVE  /\ q \in Transactions /\ q \notin Workers /\ q \notin Runs
         /\ report[q].fact \in Facts /\ report[q].kind \in FeedbackKinds
         /\ report[q].observed \in BOOLEAN
<1>1. q \in Transactions /\ q \notin Workers /\ q \notin Runs
  BY WorkersAre, CandidateAssumption DEF Transactions
<1>2. report[q] \in [fact : Facts, kind : FeedbackKinds, observed : BOOLEAN]
  BY CandidateAssumption DEF WorkInv, Typed
<1> QED BY <1>1, <1>2

\* What saving a report does.
Saves(q, f, kind, observed) ==
  /\ report[q].fact = f /\ pc[q] = "reporting"
  /\ \A u \in Workers : draft[u][f] = NoRow
  /\ row' \in [Facts -> Records] /\ \A g \in Facts \ {f} : row'[g] = row[g]
  /\ feedback' \subseteq Occurrences /\ IsFiniteSet(feedback')
  /\ \/ row' = row /\ feedback' = feedback
     \/ /\ row'[f] = Saved(row[f], read[q][f], Apply(f, read[q][f], kind, observed))
        /\ Occurrence(f, q, kind, observed) \notin feedback
        /\ feedback' = feedback \cup {Occurrence(f, q, kind, observed)}
  /\ Ends(q, "reported") /\ UNCHANGED <<found, claimed, sighted, report>>

\* A report changes one row that nobody has written, unless it was made before.
LEMMA SaveIs ==
  ASSUME WorkInv, NEW q \in Reporters, Save(q)
  PROVE  \E f \in Facts : \E kind \in FeedbackKinds : \E observed \in BOOLEAN :
           Saves(q, f, kind, observed)
<1> DEFINE f == report[q].fact
           kind == report[q].kind
           observed == report[q].observed
           old == read[q][f]
           d == Saved(row[f], old, Apply(f, old, kind, observed))
           o == Occurrence(f, q, kind, observed)
<1>1. q \in Transactions /\ q \notin Workers /\ f \in Facts /\ kind \in FeedbackKinds
      /\ observed \in BOOLEAN
  BY ReportersAre
<1>2. /\ pc[q] = "reporting" /\ ~Locked(f, q)
      /\ IF Occurred(feedback, f, q, kind)
         THEN UNCHANGED <<row, feedback>>
         ELSE row' = [row EXCEPT ![f] = d] /\ feedback' = feedback \cup {o}
      /\ Ends(q, "reported") /\ UNCHANGED <<found, claimed, sighted, report>>
  BY Zenon DEF Save
<1>3. \A u \in Workers : draft[u][f] = NoRow
  BY <1>1, <1>2 DEF Locked
<1>4. old \in Records /\ row[f] \in Records
  BY <1>1 DEF WorkInv, Typed
<1>5. d \in Records
  <2> HIDE DEF f, kind, observed, old
  <2>1. Apply(f, old, kind, observed) \in Records
    BY <1>1, <1>4, ApplyIs
  <2> QED BY <1>4, <2>1, SavedIs
<1>6. o \in Occurrences /\ o.fact = f /\ o.run = q /\ o.kind = kind
  BY <1>1 DEF Occurrence, Occurrences
<1>7. /\ row \in [Facts -> Records] /\ feedback \subseteq Occurrences /\ IsFiniteSet(feedback)
      /\ IsFiniteSet(feedback \cup {o})
  BY FS_AddElement DEF WorkInv, Typed
<1>8. /\ d = Saved(row[f], read[q][f], Apply(f, read[q][f], kind, observed))
      /\ o = Occurrence(f, q, kind, observed) /\ report[q].fact = f
  OBVIOUS
<1> HIDE DEF f, kind, observed, old, d, o
<1>9. CASE Occurred(feedback, f, q, kind)
  <2>1. row' = row /\ feedback' = feedback
    BY <1>2, <1>9
  <2> QED BY <1>1, <1>2, <1>3, <1>7, <1>8, <2>1 DEF Saves
<1>10. CASE ~Occurred(feedback, f, q, kind)
  <2>1. row' = [row EXCEPT ![f] = d] /\ feedback' = feedback \cup {o}
    BY <1>2, <1>10
  <2>2. o \notin feedback
    BY <1>6, <1>10 DEF Occurred
  <2>3. row' \in [Facts -> Records] /\ row'[f] = d /\ \A g \in Facts \ {f} : row'[g] = row[g]
    BY <1>1, <1>5, <1>7, <2>1
  <2> QED BY <1>1, <1>2, <1>3, <1>6, <1>7, <1>8, <2>1, <2>2, <2>3 DEF Saves
<1> QED BY <1>9, <1>10

\* What is left alone by a step that only concerns a reporter.
LEMMA WorkReporter ==
  ASSUME WorkInv, NEW q \in Reporters, UNCHANGED found,
         \A u \in Transactions \ {q} :
           /\ pc'[u] = pc[u] /\ draft'[u] = draft[u] /\ read'[u] = read[u]
           /\ todo'[u] = todo[u] /\ disproved'[u] = disproved[u] /\ ballot'[u] = ballot[u]
  PROVE  WorkAtHand' /\ LocksHold'
<1>1. \A u \in Workers :
         /\ pc'[u] = pc[u] /\ draft'[u] = draft[u] /\ read'[u] = read[u]
         /\ todo'[u] = todo[u] /\ disproved'[u] = disproved[u] /\ ballot'[u] = ballot[u]
  BY WorkersAre, ReportersAre
<1>2. WorkAtHand'
  BY <1>1 DEF WorkInv, WorkAtHand, InTransaction, Seen
<1>3. LocksHold'
  BY <1>1 DEF WorkInv, LocksHold
<1> QED BY <1>2, <1>3

\* Save keeps the invariant of the work.
LEMMA WorkSave ==
  ASSUME WorkInv, NEW q \in Reporters, Save(q)
  PROVE  WorkInv'
<1>1. q \in Transactions /\ q \notin Workers /\ q \notin Runs
  BY ReportersAre
<1>2. PICK f \in Facts : \E kind \in FeedbackKinds : \E observed \in BOOLEAN :
        Saves(q, f, kind, observed)
  BY SaveIs
<1>3. PICK kind \in FeedbackKinds : \E observed \in BOOLEAN : Saves(q, f, kind, observed)
  BY <1>2
<1>4. PICK observed \in BOOLEAN : Saves(q, f, kind, observed)
  BY <1>3
<1>5. Typed'
  BY <1>1, <1>4, EndsIs DEF WorkInv, Typed, Saves
<1>6. \A u \in Transactions \ {q} :
           /\ pc'[u] = pc[u] /\ draft'[u] = draft[u] /\ read'[u] = read[u]
           /\ todo'[u] = todo[u] /\ disproved'[u] = disproved[u] /\ ballot'[u] = ballot[u]
  BY <1>1, <1>4, EndsIs DEF WorkInv, Saves
<1>7. WorkAtHand' /\ LocksHold'
  BY <1>6, <1>4, WorkReporter DEF Saves
<1>8. ClaimsAreUnique'
  <2>1. \A u \in Workers : pc'[u] = pc[u] /\ disproved'[u] = disproved[u]
    BY <1>1, <1>6, WorkersAre
  <2>2. \A o \in feedback' : o \in feedback \/ o.run = q
    BY <1>4 DEF Occurrence, Saves
  <2> QED BY <1>1, <1>4, <2>1, <2>2 DEF WorkInv, ClaimsAreUnique, Saves
<1> QED BY <1>5, <1>7, <1>8 DEF WorkInv

\* Get reads a row that is there.
LEMMA GetIs ==
  ASSUME WorkInv, NEW q \in Reporters, Get(q)
  PROVE  \E f \in Facts :
           /\ read' \in [Transactions -> [Facts -> Records]] /\ read'[q][f] = row[f]
           /\ \A g \in Facts \ {f} : read'[q][g] = read[q][g]
           /\ \A u \in Transactions \ {q} : read'[u] = read[u] /\ pc'[u] = pc[u]
           /\ DOMAIN pc' = Transactions
           /\ UNCHANGED <<found, row, feedback, claimed, sighted>>
           /\ UNCHANGED <<draft, todo, disproved, ballot, report>>
<1> DEFINE f == report[q].fact
           d == row[f]
<1>1. q \in Transactions /\ f \in Facts
  BY ReportersAre
<1>2. d \in Records
  BY <1>1 DEF WorkInv, Typed
<1>3. /\ read' = [read EXCEPT ![q][f] = d] /\ pc' = [pc EXCEPT ![q] = "reporting"]
      /\ UNCHANGED <<found, row, feedback, claimed, sighted>>
      /\ UNCHANGED <<draft, todo, disproved, ballot, report>>
  BY Zenon DEF Get, stored
<1>4. d = row[f]
  OBVIOUS
<1> HIDE DEF f, d
<1>5. /\ read' \in [Transactions -> [Facts -> Records]] /\ read'[q][f] = d
      /\ \A g \in Facts \ {f} : read'[q][g] = read[q][g]
      /\ \A u \in Transactions \ {q} : read'[u] = read[u]
  BY <1>1, <1>2, <1>3 DEF WorkInv, Typed
<1>6. DOMAIN pc' = Transactions /\ \A u \in Transactions \ {q} : pc'[u] = pc[u]
  BY <1>3 DEF WorkInv, Typed
<1> QED BY <1>1, <1>3, <1>4, <1>5, <1>6

\* Get keeps the invariant of the work.
LEMMA WorkGet ==
  ASSUME WorkInv, NEW q \in Reporters, Get(q)
  PROVE  WorkInv'
<1>1. /\ read' \in [Transactions -> [Facts -> Records]]
      /\ \A u \in Transactions \ {q} : read'[u] = read[u] /\ pc'[u] = pc[u]
      /\ DOMAIN pc' = Transactions
      /\ UNCHANGED <<found, row, feedback, claimed, sighted>>
      /\ UNCHANGED <<draft, todo, disproved, ballot, report>>
  BY GetIs, Zenon
<1>2. Typed'
  BY <1>1 DEF WorkInv, Typed
<1>3. WorkAtHand' /\ LocksHold'
  BY <1>1, WorkReporter
<1>4. ClaimsAreUnique'
  <2>1. \A u \in Workers : pc'[u] = pc[u]
    BY <1>1, WorkersAre
  <2> QED BY <1>1, <2>1 DEF WorkInv, ClaimsAreUnique
<1> QED BY <1>2, <1>3, <1>4 DEF WorkInv

\* A report that is made again is a new one.
LEMMA AgainIs ==
  ASSUME WorkInv, NEW q \in Reporters, ReportAgain(q)
  PROVE  /\ \A u \in Transactions \ {q} : pc'[u] = pc[u]
         /\ DOMAIN pc' = Transactions
         /\ UNCHANGED <<found, row, feedback, claimed, sighted>>
         /\ UNCHANGED <<draft, read, todo, disproved, ballot, report>>
BY DEF ReportAgain, stored, session, WorkInv, Typed

\* ReportAgain keeps the invariant of the work.
LEMMA WorkAgain ==
  ASSUME WorkInv, NEW q \in Reporters, ReportAgain(q)
  PROVE  WorkInv'
<1>1. Typed'
  BY AgainIs DEF WorkInv, Typed
<1>2. WorkAtHand' /\ LocksHold'
  BY AgainIs, WorkReporter
<1>3. ClaimsAreUnique'
  <2>1. \A u \in Workers : pc'[u] = pc[u]
    BY AgainIs, WorkersAre
  <2> QED BY AgainIs, <2>1 DEF WorkInv, ClaimsAreUnique
<1> QED BY <1>1, <1>2, <1>3 DEF WorkInv

\* An attempt that ends with nothing: it was a replay, it died, or it was the victim.
Drops(w) == \E how \in {"replayed", "lost", "dead"} :
  Ends(w, how) /\ UNCHANGED <<found, stored, report>>

\* Every attempt that does not go on drops what it had.
LEMMA DropsAre ==
  ASSUME NEW w \in Workers
  PROVE  /\ Begin(w) => \/ (w[1] \in claimed /\ Drops(w))
                         \/ UNCHANGED <<found, stored, draft, read, disproved, ballot, report>>
         /\ Claim(w) => Drops(w) \/ UNCHANGED <<found, stored, session, report>>
         /\ DeadlockVictim(w) => Drops(w)
         /\ Fails(w) => Drops(w)
<1>1. Begin(w) => (w[1] \in claimed /\ Drops(w)) \/ UNCHANGED <<found, stored, draft, read, disproved, ballot, report>>
  BY DEF Begin, Drops
<1>2. Claim(w) => Drops(w) \/ UNCHANGED <<found, stored, session, report>>
  BY DEF Claim, Drops
<1>3. DeadlockVictim(w) => Drops(w)
  BY Zenon DEF DeadlockVictim, Drops
<1>4. Fails(w) => Drops(w)
  BY Zenon DEF Fails, Drops
<1> QED BY <1>1, <1>2, <1>3, <1>4

\* The work is in order in every state.
LEMMA WorkNext ==
  ASSUME WorkInv, [Next]_vars
  PROVE  WorkInv'
<1>1. CASE UNCHANGED vars
  <2>1. UNCHANGED <<found, row, feedback, claimed, sighted, pc, report>>
        /\ UNCHANGED <<draft, read, todo, disproved, ballot>>
    BY <1>1 DEF vars, stored, session
  <2>2. Typed'
    BY <2>1 DEF WorkInv, Typed
  <2>3. WorkAtHand' /\ ClaimsAreUnique' /\ LocksHold'
    BY <2>1 DEF WorkInv, WorkAtHand, ClaimsAreUnique, LocksHold, InTransaction, Seen
  <2> QED BY <2>2, <2>3 DEF WorkInv
<1>2. ASSUME NEW w \in Workers, Drops(w) PROVE WorkInv'
  <2>1. PICK how \in {"replayed", "lost", "dead"} :
          Ends(w, how) /\ UNCHANGED <<found, stored, report>>
    BY <1>2 DEF Drops
  <2>2. how \notin {"merging", "withdrawing", "claiming"}
    OBVIOUS
  <2> QED BY <2>1, <2>2, WorkEnds
<1>3. ASSUME NEW w \in Workers, Begin(w) PROVE WorkInv'
  BY <1>3, WorkBegin
<1>4. ASSUME NEW w \in Workers, Merge(w) PROVE WorkInv'
  BY <1>4, WorkMerge
<1>5. ASSUME NEW w \in Workers, Scan(w) PROVE WorkInv'
  BY <1>5, WorkScan
<1>6. ASSUME NEW w \in Workers, Withdraw(w) PROVE WorkInv'
  BY <1>6, WorkWithdraw
<1>7. ASSUME NEW w \in Workers, Claim(w) PROVE WorkInv'
  BY <1>7, WorkClaim
<1>8. ASSUME NEW w \in Workers, Commit(w) PROVE WorkInv'
  BY <1>8, WorkCommit
<1>9. ASSUME NEW w \in Workers, DeadlockVictim(w) \/ Fails(w) PROVE WorkInv'
  BY <1>2, <1>9, DropsAre
<1>10. ASSUME NEW q \in Reporters, Get(q) PROVE WorkInv'
  BY <1>10, WorkGet
<1>11. ASSUME NEW q \in Reporters, Save(q) PROVE WorkInv'
  BY <1>11, WorkSave
<1>12. ASSUME NEW q \in Reporters, ReportAgain(q) PROVE WorkInv'
  BY <1>12, WorkAgain
<1> QED BY Zenon, <1>1, <1>3, <1>4, <1>5, <1>6, <1>7, <1>8, <1>9, <1>10, <1>11, <1>12 DEF Next

-----------------------------------------------------------------------------
\* What is stored only grows.
Grows ==
  /\ UNCHANGED found
  /\ claimed \subseteq claimed'
  /\ feedback \subseteq feedback'
  /\ \A f \in Facts : sighted[f] \subseteq sighted'[f]

\* What was justified stays so.
LEMMA StoredKept ==
  ASSUME WorkInv, WorkInv', Grows, CountInv
  PROVE  /\ \A f \in Facts : Justified(f, row[f], feedback', sighted'[f])
         /\ \A q \in Reporters, f \in Facts : Justified(f, read[q][f], feedback', sighted'[f])
<1>1. /\ feedback \subseteq feedback' /\ IsFiniteSet(feedback')
      /\ \A f \in Facts : sighted[f] \subseteq sighted'[f] /\ IsFiniteSet(sighted'[f])
  BY DEF WorkInv, Typed, Grows
<1>2. ASSUME NEW f \in Facts
      PROVE  Justified(f, row[f], feedback', sighted'[f])
  <2>1. row[f] \in Records /\ Justified(f, row[f], feedback, sighted[f])
    BY DEF WorkInv, Typed, CountInv, RowsAreJustified
  <2> QED BY <1>1, <2>1, JustifiedGrows
<1>3. ASSUME NEW q \in Reporters, NEW f \in Facts
      PROVE  Justified(f, read[q][f], feedback', sighted'[f])
  <2>1. read[q][f] \in Records /\ Justified(f, read[q][f], feedback, sighted[f])
    BY ReportersAre DEF WorkInv, Typed, CountInv, ReadsAreJustified
  <2> QED BY <1>1, <2>1, JustifiedGrows
<1> QED BY <1>2, <1>3

\* What a worker would commit is as justified as it was, while it leaves it alone, and
\* when it gives it up.
DraftOK(w, f) ==
  /\ Justified(f, draft[w][f], feedback \cup ballot[w], sighted[f] \cup Witnesses(w, f))
  /\ read[w][f].contradiction <= Cardinality(Grounds(feedback, f, "contradiction"))

\* The evidence of a worker is finite.
LEMMA EvidenceIs ==
  ASSUME WorkInv, WorkInv', Grows, NEW w \in Workers, NEW f \in Facts
  PROVE  /\ w \in Transactions /\ Witnesses(w, f)' = Witnesses(w, f)
         /\ IsFiniteSet(feedback' \cup ballot'[w])
         /\ IsFiniteSet(sighted'[f] \cup Witnesses(w, f))
         /\ IsFiniteSet(feedback') /\ IsFiniteSet(feedback) /\ IsFiniteSet(sighted[f])
         /\ feedback \subseteq feedback' /\ sighted[f] \subseteq sighted'[f]
         /\ draft[w][f] \in Records /\ read[w][f] \in Records /\ row[f] \in Records
<1>1. w \in Transactions
  BY WorkersAre
<1>2. /\ IsFiniteSet(feedback') /\ IsFiniteSet(ballot'[w]) /\ IsFiniteSet(sighted'[f])
      /\ IsFiniteSet(feedback) /\ IsFiniteSet(sighted[f])
      /\ draft[w][f] \in Records /\ read[w][f] \in Records /\ row[f] \in Records
  BY <1>1 DEF WorkInv, Typed
<1>3. IsFiniteSet({w[1]}) /\ Witnesses(w, f) \subseteq {w[1]}
  BY FS_Singleton DEF Witnesses
<1>4. IsFiniteSet(Witnesses(w, f))
  BY <1>3, FS_Subset
<1>5. IsFiniteSet(feedback' \cup ballot'[w]) /\ IsFiniteSet(sighted'[f] \cup Witnesses(w, f))
  BY <1>2, <1>4, FS_Union
<1>6. Witnesses(w, f)' = Witnesses(w, f)
  BY DEF Grows, Witnesses
<1> QED BY <1>1, <1>2, <1>5, <1>6 DEF Grows

\* What a worker leaves alone stays justified.
LEMMA DraftKept ==
  ASSUME WorkInv, WorkInv', Grows, CountInv, NEW w \in Workers, NEW f \in Facts,
         w[1] \notin claimed',
         draft'[w][f] = draft[w][f], ballot[w] \subseteq ballot'[w], read'[w][f] = read[w][f]
  PROVE  DraftOK(w, f)'
<1> DEFINE d == draft[w][f]
           old == read[w][f]
           rows == feedback \cup ballot[w]
           more == feedback' \cup ballot'[w]
           runs == sighted[f] \cup Witnesses(w, f)
           others == sighted'[f] \cup Witnesses(w, f)
<1>1. /\ Justified(f, d, rows, runs)
      /\ old.contradiction <= Cardinality(Grounds(feedback, f, "contradiction"))
  BY DEF Grows, CountInv, DraftsAreJustified
<1>2. /\ rows \subseteq more /\ runs \subseteq others /\ IsFiniteSet(more) /\ IsFiniteSet(others)
      /\ d \in Records /\ old \in Records
      /\ IsFiniteSet(feedback') /\ feedback \subseteq feedback'
  BY EvidenceIs
<1>3. /\ draft'[w][f] = d /\ read'[w][f] = old /\ feedback' \cup ballot'[w] = more
      /\ sighted'[f] \cup Witnesses(w, f)' = others
  BY EvidenceIs
<1> HIDE DEF d, old, rows, more, runs, others
<1>4. Justified(f, d, more, others)
  BY <1>1, <1>2, JustifiedGrows
<1>5. /\ Cardinality(Grounds(feedback, f, "contradiction")) \in Nat
      /\ Cardinality(Grounds(feedback', f, "contradiction")) \in Nat
      /\ Cardinality(Grounds(feedback, f, "contradiction"))
           <= Cardinality(Grounds(feedback', f, "contradiction"))
  BY <1>2, GroundsGrow
<1>6. old.contradiction \in Nat
  BY <1>2, ColumnIs
<1>7. old.contradiction <= Cardinality(Grounds(feedback', f, "contradiction"))
  BY <1>1, <1>5, <1>6
<1> QED BY <1>3, <1>4, <1>7 DEF DraftOK

\* What is blank is justified.
LEMMA DraftGone ==
  ASSUME WorkInv, WorkInv', Grows, NEW w \in Workers, NEW f \in Facts,
         draft'[w] = [g \in Facts |-> NoRow], read'[w] = [g \in Facts |-> NoRow]
  PROVE  DraftOK(w, f)'
<1>1. draft'[w][f] = NoRow /\ read'[w][f] = NoRow
  OBVIOUS
<1>2. Justified(f, NoRow, feedback' \cup ballot'[w], sighted'[f] \cup Witnesses(w, f))
  BY EvidenceIs, NothingIsJustified
<1>3. Cardinality(Grounds(feedback', f, "contradiction")) \in Nat
  BY EvidenceIs, GroundsGrow
<1>4. NoRow.contradiction <= Cardinality(Grounds(feedback', f, "contradiction"))
  BY <1>3, ColumnsAre
<1> QED BY <1>1, <1>2, <1>4, EvidenceIs DEF DraftOK

\* A step that stores nothing keeps the counts, if what workers would commit is justified.
LEMMA CountQuiet ==
  ASSUME WorkInv, WorkInv', CountInv, UNCHANGED <<found, row, feedback, claimed, sighted>>,
         \A w \in Workers, f \in Facts : w[1] \notin claimed => DraftOK(w, f)',
         \A q \in Reporters, f \in Facts : read'[q][f] = read[q][f] \/ read'[q][f] = row[f]
  PROVE  CountInv'
<1>1. Grows
  BY DEF Grows
<1>2. RowsAreJustified'
  BY DEF CountInv, RowsAreJustified
<1>3. ReadsAreJustified'
  <2> SUFFICES ASSUME NEW q \in Reporters, NEW f \in Facts
      PROVE  Justified(f, read'[q][f], feedback', sighted'[f])
    BY DEF ReadsAreJustified
  <2>1. /\ Justified(f, row[f], feedback', sighted'[f])
        /\ Justified(f, read[q][f], feedback', sighted'[f])
    BY <1>1, StoredKept
  <2>2. CASE read'[q][f] = read[q][f]
    BY <2>1, <2>2
  <2>3. CASE read'[q][f] = row[f]
    BY <2>1, <2>3
  <2> QED BY <2>2, <2>3
<1>4. DraftsAreJustified'
  BY DEF DraftsAreJustified, DraftOK
<1> QED BY <1>2, <1>3, <1>4 DEF CountInv

\* Giving up keeps the counts.
LEMMA CountDrops ==
  ASSUME WorkInv, WorkInv', CountInv, NEW w \in Workers, Drops(w)
  PROVE  CountInv'
<1>1. PICK how \in {"replayed", "lost", "dead"} :
        Ends(w, how) /\ UNCHANGED <<found, stored, report>>
  BY DEF Drops
<1>2. w \in Transactions /\ UNCHANGED <<found, row, feedback, claimed, sighted>> /\ Grows
  BY <1>1, WorkersAre DEF stored, Grows
<1>3. /\ draft'[w] = [f \in Facts |-> NoRow] /\ read'[w] = [f \in Facts |-> NoRow]
      /\ \A u \in Transactions \ {w} :
           draft'[u] = draft[u] /\ ballot'[u] = ballot[u] /\ read'[u] = read[u]
  BY <1>1, <1>2, EndsIs DEF WorkInv
<1>4. ASSUME NEW u \in Workers, NEW f \in Facts, u[1] \notin claimed PROVE DraftOK(u, f)'
  <2>1. CASE u = w
    BY <1>2, <1>3, <2>1, DraftGone
  <2>2. CASE u # w
    <3>1. draft'[u][f] = draft[u][f] /\ ballot[u] \subseteq ballot'[u] /\ read'[u][f] = read[u][f]
          /\ u[1] \notin claimed'
      BY <1>2, <1>3, <1>4, <2>2, WorkersAre
    <3> QED BY <1>2, <3>1, DraftKept
  <2> QED BY <2>1, <2>2
<1>5. \A q \in Reporters, f \in Facts : read'[q][f] = read[q][f]
  BY <1>3, ReportersAre
<1> QED BY <1>2, <1>4, <1>5, CountQuiet

\* A step that writes and reads nothing keeps the counts.
LEMMA CountStill ==
  ASSUME WorkInv, WorkInv', CountInv, UNCHANGED <<found, row, feedback, claimed, sighted>>,
         UNCHANGED <<draft, ballot>>, \A u \in Workers : read'[u] = read[u],
         \A q \in Reporters, f \in Facts : read'[q][f] = read[q][f] \/ read'[q][f] = row[f]
  PROVE  CountInv'
<1>1. Grows
  BY DEF Grows
<1>2. ASSUME NEW u \in Workers, NEW f \in Facts, u[1] \notin claimed PROVE DraftOK(u, f)'
  BY <1>1, <1>2, DraftKept
<1> QED BY <1>2, CountQuiet

\* A merge adds the support of a run that is not counted yet.
LEMMA CountMerge ==
  ASSUME WorkInv, WorkInv', CountInv, NEW w \in Workers, Merge(w)
  PROVE  CountInv'
<1>1. /\ UNCHANGED <<found, row, feedback, claimed, sighted>> /\ UNCHANGED <<read, ballot>>
      /\ pc[w] = "merging" /\ Grows
  BY DEF Merge, stored, Grows
<1>2. PICK f \in Facts :
           /\ f \in Seen(w)
           /\ draft'[w][f] = IF row[f] = NoRow THEN FirstSighting(found[w[1]], f)
                             ELSE ReinforcedBy(f, row[f])
           /\ \A u \in Transactions, g \in Facts :
                (u # w \/ g # f) => draft'[u][g] = draft[u][g]
  BY MergeIs, Zenon
<1>3. ASSUME NEW u \in Workers, NEW g \in Facts, u[1] \notin claimed PROVE DraftOK(u, g)'
  <2>1. CASE u # w \/ g # f
    <3>1. draft'[u][g] = draft[u][g]
      BY <1>2, <2>1, WorkersAre
    <3> QED BY <1>1, <1>3, <3>1, DraftKept
  <2>2. CASE u = w /\ g = f
    <3> DEFINE d == draft'[w][f]
               rows == feedback' \cup ballot'[w]
               runs == sighted'[f] \cup Witnesses(w, f)'
    <3>1. /\ ballot[w] = {} /\ ballot'[w] = {} /\ w[1] \notin sighted[f]
      BY <1>1, <1>3, <2>2 DEF WorkInv, WorkAtHand, ClaimsAreUnique
    <3>2. runs = sighted[f] \cup {w[1]} /\ rows = feedback
      BY <1>1, <1>2, <3>1 DEF Witnesses, Seen
    <3>3. IsFiniteSet(feedback) /\ IsFiniteSet(sighted[f]) /\ row[f] \in Records
      BY DEF WorkInv, Typed
    <3>4. /\ Cardinality(runs) = Cardinality(sighted[f]) + 1 /\ Cardinality(sighted[f]) \in Nat
      BY <3>1, <3>2, <3>3, OneMoreVote
    <3>5. \A kind : Cardinality(Grounds(feedback, f, kind)) \in Nat
      BY <3>3, GroundsGrow
    <3> HIDE DEF runs, rows
    <3>6. Support(rows, runs, f) = Support(feedback, sighted[f], f) + 1
          /\ Support(feedback, sighted[f], f) \in Nat
      <4>1. /\ Support(rows, runs, f) = Cardinality(runs) + Cardinality(Grounds(feedback, f, "success"))
            /\ Support(feedback, sighted[f], f)
                 = Cardinality(sighted[f]) + Cardinality(Grounds(feedback, f, "success"))
        BY <3>2 DEF Support
      <4> QED BY <3>4, <3>5, <4>1
    <3>7. Justified(f, row[f], feedback, sighted[f])
      BY DEF CountInv, RowsAreJustified
    <3> HIDE DEF d
    <3>8. Justified(f, d, rows, runs)
      <4>1. CASE row[f] = NoRow
        <5> DEFINE x == found[w[1]]
                   first == FirstSighting(x, f)
        <5>1. x \in Findings /\ d = first
          BY <1>2, <4>1, SeenAreFacts DEF d
        <5> HIDE DEF x
        <5>2. first.support = 1 /\ first.failure = 0 /\ first.contradiction = 0 /\ first.status = "candidate"
          BY <5>1, FirstIs
        <5> HIDE DEF first
        <5> QED BY <3>2, <3>5, <3>6, <5>1, <5>2 DEF Justified
      <4>2. CASE row[f] # NoRow
        <5> DEFINE q == row[f]
                   again == ReinforcedBy(f, q)
        <5>1. d = again /\ q \in Records
          BY <1>2, <3>3, <4>2 DEF d
        <5>2. Justified(f, q, feedback, sighted[f])
          BY <3>7
        <5> HIDE DEF q
        <5>3. /\ again.support = q.support + 1 /\ again.failure = q.failure
              /\ again.contradiction = q.contradiction
              /\ again.status \in {q.status, "promoted", "trusted"}
              /\ again.status = "trusted" =>
                   q.status = "trusted" \/ (~f.model /\ q.support + 1 >= MinSupportToTrust)
              /\ q.support \in Nat /\ q.failure \in Nat /\ q.contradiction \in Nat
          BY <5>1, ReinforcedIs, ColumnIs
        <5> HIDE DEF again
        <5>4. /\ again.support <= Support(rows, runs, f)
              /\ again.failure <= Cardinality(Grounds(rows, f, "failure"))
              /\ again.contradiction <= Cardinality(Grounds(rows, f, "contradiction"))
          BY <3>2, <3>5, <3>6, <5>2, <5>3 DEF Justified
        <5>5. again.status = "trusted" => ~f.model /\ Support(rows, runs, f) >= MinSupportToTrust
          BY <3>6, <5>2, <5>3, CandidateAssumption DEF Justified
        <5>6. /\ again.status = "invalidated" =>
                   \E o \in rows : o.fact = f /\ o.kind \in {"contradiction", "stale"}
              /\ again.status = "rejected" => \E o \in rows : o.fact = f /\ o.kind = "unsafe"
          BY <3>2, <5>2, <5>3 DEF Justified
        <5> QED BY <5>1, <5>4, <5>5, <5>6 DEF Justified
      <4> QED BY <4>1, <4>2
    <3>9. read'[w][f].contradiction <= Cardinality(Grounds(feedback', f, "contradiction"))
      BY <1>1, <1>3, <2>2 DEF CountInv, DraftsAreJustified
    <3> QED BY <2>2, <3>8, <3>9 DEF DraftOK, d, rows, runs
  <2> QED BY <2>1, <2>2
<1> QED BY <1>1, <1>3, CountQuiet

\* A scan reads rows that are justified by what is stored.
LEMMA CountScan ==
  ASSUME WorkInv, WorkInv', CountInv, NEW w \in Workers, Scan(w)
  PROVE  CountInv'
<1>1. /\ UNCHANGED <<found, row, feedback, claimed, sighted>> /\ UNCHANGED <<draft, ballot>>
      /\ pc[w] = "merging" /\ Grows
  BY DEF Scan, stored, Grows
<1>2. /\ \A u \in Transactions \ {w} : read'[u] = read[u]
      /\ \A f \in Facts : read'[w][f] = Visible(w, f)
  BY WorkScan
<1>3. ASSUME NEW u \in Workers, NEW f \in Facts, u[1] \notin claimed PROVE DraftOK(u, f)'
  <2>1. CASE u # w
    <3>1. read'[u][f] = read[u][f]
      BY <1>2, <2>1, WorkersAre
    <3> QED BY <1>1, <1>3, <3>1, DraftKept
  <2>2. CASE u = w
    <3>1. /\ Justified(f, draft[w][f], feedback \cup ballot[w], sighted[f] \cup Witnesses(w, f))
          /\ ballot[w] = {}
      BY <1>1, <1>3, <2>2 DEF CountInv, DraftsAreJustified, WorkInv, WorkAtHand
    <3>2. feedback \cup ballot[w] = feedback
      BY <3>1
    <3>3. draft[w][f].contradiction <= Cardinality(Grounds(feedback, f, "contradiction"))
      BY <3>1, <3>2 DEF Justified
    <3>4. row[f].contradiction <= Cardinality(Grounds(feedback, f, "contradiction"))
      BY DEF CountInv, RowsAreJustified, Justified
    <3>5. read'[w][f].contradiction <= Cardinality(Grounds(feedback, f, "contradiction"))
      BY <1>2, <3>3, <3>4 DEF Visible
    <3>6. Witnesses(w, f)' = Witnesses(w, f)
      BY <1>1 DEF Witnesses
    <3> QED BY <1>1, <2>2, <3>1, <3>5, <3>6 DEF DraftOK
  <2> QED BY <2>1, <2>2
<1>4. \A q \in Reporters, f \in Facts : read'[q][f] = read[q][f]
  BY <1>2, ReportersAre, WorkersAre
<1> QED BY <1>1, <1>3, <1>4, CountQuiet

\* What a report makes of what it read, saved over a row that is justified, is justified
\* along with the report, if the counter it raises was.
LEMMA SavedIsJustified ==
  ASSUME NEW f \in Facts, NEW current \in Records, NEW old \in Records,
         NEW kind \in FeedbackKinds, NEW observed \in BOOLEAN,
         NEW rows, NEW more, IsFiniteSet(more), NEW runs, IsFiniteSet(runs),
         NEW o, o \notin rows, o.fact = f, o.kind = kind, o.observed = observed,
         rows \cup {o} \subseteq more,
         Justified(f, current, more, runs),
         kind = "success" => old.support <= Support(rows, runs, f),
         kind = "failure" => old.failure <= Cardinality(Grounds(rows, f, "failure")),
         kind = "contradiction" => old.contradiction <= Cardinality(Grounds(rows, f, "contradiction"))
  PROVE  Justified(f, Saved(current, old, Apply(f, old, kind, observed)), more, runs)
<1> DEFINE a == Apply(f, old, kind, observed)
           d == Saved(current, old, a)
<1>1. /\ a \in Records
      /\ a.support = IF kind = "success" /\ observed THEN old.support + 1 ELSE old.support
      /\ a.failure = IF kind = "failure" /\ observed THEN old.failure + 1 ELSE old.failure
      /\ a.contradiction = IF kind = "contradiction" /\ observed
                           THEN old.contradiction + 1 ELSE old.contradiction
      /\ a.status # old.status =>
           \/ a.status = "rejected" /\ kind = "unsafe"
           \/ a.status = "invalidated" /\ kind \in {"stale", "contradiction"}
           \/ a.status = "candidate" /\ old.status \notin Terminal
           \/ /\ a.status \in ActionableStatuses /\ old.status \notin Terminal
              /\ kind = "success" /\ observed
              /\ a.status = "trusted" => ~f.model /\ a.support >= MinSupportToTrust
  BY ApplyIs
<1> HIDE DEF a
<1>2. /\ d.support = IF a.support = old.support THEN current.support ELSE a.support
      /\ d.failure = IF a.failure = old.failure THEN current.failure ELSE a.failure
      /\ d.contradiction = IF a.contradiction = old.contradiction
                           THEN current.contradiction ELSE a.contradiction
      /\ d.status = IF a.status = old.status THEN current.status ELSE a.status
      /\ d \in Records
  <2>1. /\ d \in Records
        /\ \A c \in {"status", "support", "failure", "contradiction"} :
             d[c] = IF a[c] = old[c] THEN current[c] ELSE a[c]
    BY <1>1, SavedIs
  <2> HIDE DEF d
  <2> QED BY <1>1, <2>1, ColumnIs
<1> HIDE DEF d
<1>3. /\ old.support \in Nat /\ old.failure \in Nat /\ old.contradiction \in Nat
      /\ current.support \in Nat /\ current.failure \in Nat /\ current.contradiction \in Nat
  BY ColumnIs
<1>4. /\ \A k : /\ Cardinality(Grounds(rows, f, k)) \in Nat /\ Cardinality(Grounds(more, f, k)) \in Nat
                /\ Cardinality(Grounds(rows, f, k)) <= Cardinality(Grounds(more, f, k))
      /\ Cardinality(runs) \in Nat
  <2>1. rows \subseteq more
    OBVIOUS
  <2> QED BY <2>1, GroundsGrow, FS_CardinalityType
<1>5. observed => Cardinality(Grounds(rows, f, kind)) + 1 <= Cardinality(Grounds(more, f, kind))
  BY OneMoreGround
<1>6. kind = "success" /\ observed => old.support + 1 <= Support(more, runs, f)
  BY <1>3, <1>4, <1>5 DEF Support
<1>7. d.support <= Support(more, runs, f)
  BY <1>1, <1>2, <1>6 DEF Justified
<1>8. d.failure <= Cardinality(Grounds(more, f, "failure"))
  BY <1>1, <1>2, <1>3, <1>4, <1>5 DEF Justified
<1>9. d.contradiction <= Cardinality(Grounds(more, f, "contradiction"))
  BY <1>1, <1>2, <1>3, <1>4, <1>5 DEF Justified
<1>10. o \in more
  OBVIOUS
<1>11. d.status = "invalidated" => \E p \in more : p.fact = f /\ p.kind \in {"contradiction", "stale"}
  BY <1>1, <1>2, <1>10 DEF Justified, ActionableStatuses
<1>12. d.status = "rejected" => \E p \in more : p.fact = f /\ p.kind = "unsafe"
  BY <1>1, <1>2, <1>10 DEF Justified, ActionableStatuses
<1>13. Support(more, runs, f) \in Nat
  BY <1>4 DEF Support
<1>14. d.status = "trusted" => ~f.model /\ Support(more, runs, f) >= MinSupportToTrust
  <2>1. CASE a.status = old.status
    BY <1>2, <2>1 DEF Justified
  <2>2. CASE a.status # old.status
    BY <1>1, <1>2, <1>3, <1>6, <1>13, <2>2, CandidateAssumption
  <2> QED BY <2>1, <2>2
<1>15. Justified(f, d, more, runs)
  BY <1>7, <1>8, <1>9, <1>11, <1>12, <1>14 DEF Justified
<1> QED BY <1>15 DEF a, d

\* A contradiction is counted along with its record, and a run that is not consolidated
\* has none yet.
LEMMA CountWithdraw ==
  ASSUME WorkInv, WorkInv', CountInv, NEW w \in Workers, Withdraw(w)
  PROVE  CountInv'
<1>0. PICK f \in disproved[w] : Withdrawal(w, f)
  BY WithdrawIs
<1>1. UNCHANGED <<found, row, feedback, claimed, sighted>> /\ UNCHANGED read /\ Grows
  BY DEF Withdraw, stored, Grows
<1>2. /\ f \in Facts
      /\ \A u \in Transactions \ {w} : disproved'[u] = disproved[u] /\ ballot'[u] = ballot[u]
      /\ \A u \in Transactions, g \in Facts :
           (u # w \/ g # f) => draft'[u][g] = draft[u][g]
      /\ \/ draft' = draft /\ ballot' = ballot /\ w[1] \in claimed
         \/ /\ ballot'[w] = ballot[w] \cup {Occurrence(f, w[1], "contradiction", TRUE)}
            /\ draft'[w][f] = Saved(Visible(w, f), read[w][f],
                                    Apply(f, read[w][f], "contradiction", TRUE))
  BY <1>0 DEF Withdrawal
<1>3. ASSUME NEW u \in Workers, NEW g \in Facts, u[1] \notin claimed PROVE DraftOK(u, g)'
  <2>1. CASE u # w
    <3>1. draft'[u][g] = draft[u][g] /\ ballot'[u] = ballot[u] /\ read'[u][g] = read[u][g]
      BY <1>1, <1>2, <2>1, WorkersAre
    <3> QED BY <1>1, <1>3, <3>1, DraftKept
  <2>2. CASE u = w /\ g # f
    <3>1. ballot[w] \subseteq ballot'[w]
      BY <1>2, <1>3, <2>2
    <3>2. draft'[w][g] = draft[w][g] /\ read'[w][g] = read[w][g]
      BY <1>1, <1>2, <2>2, WorkersAre
    <3> QED BY <1>1, <1>3, <2>2, <3>1, <3>2, DraftKept
  <2>3. CASE u = w /\ g = f
    <3> DEFINE o == Occurrence(f, w[1], "contradiction", TRUE)
               more == feedback' \cup ballot'[w]
               runs == sighted'[f] \cup Witnesses(w, f)
               old == read[w][f]
               current == Visible(w, f)
               d == Saved(current, old, Apply(f, old, "contradiction", TRUE))
    <3>1. ballot'[w] = ballot[w] \cup {o} /\ draft'[w][f] = d
      BY <1>2, <1>3, <2>3
    <3>2. o.run = w[1] /\ o.fact = f /\ o.kind = "contradiction" /\ o.observed = TRUE
      BY DEF Occurrence
    <3>3. o \notin feedback
      BY <1>3, <2>3, <3>2, WorkersAre DEF WorkInv, ClaimsAreUnique
    <3>4. /\ Justified(f, draft[w][f], feedback \cup ballot[w], sighted[f] \cup Witnesses(w, f))
          /\ old.contradiction <= Cardinality(Grounds(feedback, f, "contradiction"))
          /\ Justified(f, row[f], feedback, sighted[f])
      BY <1>3, <2>3 DEF CountInv, DraftsAreJustified, RowsAreJustified
    <3>5. /\ IsFiniteSet(more) /\ IsFiniteSet(runs) /\ feedback \cup {o} \subseteq more
          /\ feedback \subseteq more /\ feedback \cup ballot[w] \subseteq more
          /\ sighted[f] \subseteq runs /\ runs = sighted[f] \cup Witnesses(w, f)
          /\ row[f] \in Records /\ draft[w][f] \in Records /\ old \in Records
      BY <1>1, <1>2, <3>1, EvidenceIs
    <3>6. Witnesses(w, f)' = Witnesses(w, f) /\ f \in Facts
      BY <1>1, <1>2, EvidenceIs
    <3>7. Justified(f, row[f], more, runs)
      <4> HIDE DEF more, runs
      <4> QED BY <3>4, <3>5, <3>6, JustifiedGrows
    <3>8. Justified(f, draft[w][f], more, runs)
      <4> DEFINE rows == feedback \cup ballot[w]
      <4>1. rows \subseteq more /\ Justified(f, draft[w][f], rows, runs)
        BY <3>4, <3>5
      <4> HIDE DEF more, runs, rows
      <4> QED BY <3>5, <3>6, <4>1, JustifiedGrows
    <3>9. current \in Records /\ Justified(f, current, more, runs)
      BY <3>5, <3>7, <3>8 DEF Visible
    <3>10. "contradiction" \in FeedbackKinds
      BY DEF FeedbackKinds
    <3>11. Justified(f, d, more, runs)
      <4> HIDE DEF o, more, runs, old, current
      <4> QED BY <3>2, <3>3, <3>4, <3>5, <3>6, <3>9, <3>10, SavedIsJustified
    <3>12. read'[w][f].contradiction <= Cardinality(Grounds(feedback', f, "contradiction"))
      BY <1>1, <3>4
    <3> QED BY <2>3, <3>1, <3>6, <3>11, <3>12 DEF DraftOK
  <2> QED BY <2>1, <2>2, <2>3
<1> QED BY <1>1, <1>3, CountQuiet

\* A commit stores rows along with what justifies them.
LEMMA CountCommit ==
  ASSUME WorkInv, WorkInv', CountInv, NEW w \in Workers, Commit(w)
  PROVE  CountInv'
<1>1. /\ w \in Transactions /\ w[1] \notin claimed
      /\ \A f \in Facts : row'[f] = Visible(w, f)
      /\ feedback' = feedback \cup ballot[w]
      /\ claimed' = claimed \cup {w[1]}
      /\ \A f \in Facts : sighted'[f] = sighted[f] \cup Witnesses(w, f)
      /\ Ends(w, "committed") /\ UNCHANGED <<found, report>> /\ Grows
  <2>1. /\ w \in Transactions /\ w[1] \notin claimed
        /\ \A f \in Facts : row'[f] = Visible(w, f)
        /\ feedback' = feedback \cup ballot[w]
        /\ claimed' = claimed \cup {w[1]}
        /\ \A f \in Facts : sighted'[f] = sighted[f] \cup Witnesses(w, f)
        /\ Ends(w, "committed") /\ UNCHANGED <<found, report>>
    BY CommitIs
  <2> QED BY <2>1 DEF Grows
<1>2. \A u \in Transactions \ {w} :
        draft'[u] = draft[u] /\ ballot'[u] = ballot[u] /\ read'[u] = read[u]
  BY <1>1, EndsIs DEF WorkInv
<1>3. RowsAreJustified'
  <2> SUFFICES ASSUME NEW f \in Facts PROVE Justified(f, row'[f], feedback', sighted'[f])
    BY DEF RowsAreJustified
  <2>1. Justified(f, row[f], feedback', sighted'[f])
    BY <1>1, StoredKept
  <2>2. Justified(f, draft[w][f], feedback', sighted'[f])
    BY <1>1 DEF CountInv, DraftsAreJustified
  <2> QED BY <1>1, <2>1, <2>2 DEF Visible
<1>4. DraftsAreJustified'
  <2> SUFFICES ASSUME NEW u \in Workers, NEW f \in Facts, u[1] \notin claimed' PROVE DraftOK(u, f)'
    BY DEF DraftsAreJustified, DraftOK
  <2>1. u # w
    BY <1>1
  <2>2. draft'[u][f] = draft[u][f] /\ ballot'[u] = ballot[u] /\ read'[u][f] = read[u][f]
    BY <1>2, <2>1, WorkersAre
  <2> QED BY <1>1, <2>2, DraftKept
<1>5. ReadsAreJustified'
  <2>1. \A q \in Reporters : read'[q] = read[q]
    BY <1>2, ReportersAre
  <2>2. \A q \in Reporters, f \in Facts : Justified(f, read[q][f], feedback', sighted'[f])
    BY <1>1, StoredKept
  <2> QED BY <2>1, <2>2 DEF ReadsAreJustified
<1> QED BY <1>3, <1>4, <1>5 DEF CountInv

\* A report raises a counter along with its record, and a report made again does not.
LEMMA CountSave ==
  ASSUME WorkInv, WorkInv', CountInv, NEW q \in Reporters, Save(q)
  PROVE  CountInv'
<1>1. q \in Transactions /\ q \notin Workers
  BY ReportersAre
<1>2. PICK f \in Facts : \E kind \in FeedbackKinds : \E observed \in BOOLEAN :
        Saves(q, f, kind, observed)
  BY SaveIs
<1>3. PICK kind \in FeedbackKinds : \E observed \in BOOLEAN : Saves(q, f, kind, observed)
  BY <1>2
<1>4. PICK observed \in BOOLEAN : Saves(q, f, kind, observed)
  BY <1>3
<1>5. Grows /\ \A g \in Facts \ {f} : row'[g] = row[g]
  BY <1>4 DEF Grows, Saves
<1>6. /\ read'[q] = [g \in Facts |-> NoRow]
      /\ \A u \in Transactions \ {q} :
           draft'[u] = draft[u] /\ ballot'[u] = ballot[u] /\ read'[u] = read[u]
  BY <1>1, <1>4, EndsIs DEF WorkInv, Saves
<1>7. /\ IsFiniteSet(feedback') /\ \A g \in Facts : IsFiniteSet(sighted'[g])
      /\ row[f] \in Records /\ read[q][f] \in Records
      /\ sighted'[f] = sighted[f]
  BY <1>1, <1>4 DEF WorkInv, Typed, Saves
<1>8. /\ \A g \in Facts : Justified(g, row[g], feedback', sighted'[g])
      /\ \A p \in Reporters, g \in Facts : Justified(g, read[p][g], feedback', sighted'[g])
  BY <1>5, StoredKept
<1>9. Justified(f, row'[f], feedback', sighted'[f])
  <2>1. CASE row' = row
    BY <1>8, <2>1
  <2>2. CASE row' # row
    <3> DEFINE o == Occurrence(f, q, kind, observed)
               old == read[q][f]
               current == row[f]
               d == Saved(current, old, Apply(f, old, kind, observed))
               runs == sighted'[f]
    <3>1. row'[f] = d /\ o \notin feedback /\ feedback \cup {o} \subseteq feedback'
      BY <1>4, <2>2 DEF Saves
    <3>2. o.fact = f /\ o.kind = kind /\ o.observed = observed
      BY DEF Occurrence
    <3>3. Justified(f, old, feedback, runs) /\ Justified(f, current, feedback', runs)
      BY <1>7, <1>8 DEF CountInv, ReadsAreJustified
    <3>4. /\ kind = "success" => old.support <= Support(feedback, runs, f)
          /\ kind = "failure" => old.failure <= Cardinality(Grounds(feedback, f, "failure"))
          /\ kind = "contradiction" =>
               old.contradiction <= Cardinality(Grounds(feedback, f, "contradiction"))
      BY <3>3 DEF Justified
    <3>5. IsFiniteSet(runs) /\ old \in Records /\ current \in Records
      BY <1>7
    <3>6. Justified(f, d, feedback', runs)
      <4> HIDE DEF o, old, current, runs
      <4> QED BY <1>7, <3>1, <3>2, <3>3, <3>4, <3>5, SavedIsJustified
    <3> QED BY <3>1, <3>6
  <2> QED BY <2>1, <2>2
<1>10. RowsAreJustified'
  <2>1. ASSUME NEW g \in Facts PROVE Justified(g, row'[g], feedback', sighted'[g])
    BY <1>5, <1>8, <1>9
  <2> QED BY <2>1 DEF RowsAreJustified
<1>11. DraftsAreJustified'
  <2> SUFFICES ASSUME NEW u \in Workers, NEW g \in Facts, u[1] \notin claimed' PROVE DraftOK(u, g)'
    BY DEF DraftsAreJustified, DraftOK
  <2>1. draft'[u][g] = draft[u][g] /\ ballot'[u] = ballot[u] /\ read'[u][g] = read[u][g]
    BY <1>1, <1>6, WorkersAre
  <2> QED BY <1>5, <2>1, DraftKept
<1>12. ReadsAreJustified'
  <2> SUFFICES ASSUME NEW p \in Reporters, NEW g \in Facts
      PROVE  Justified(g, read'[p][g], feedback', sighted'[g])
    BY DEF ReadsAreJustified
  <2>1. CASE p = q
    <3>1. read'[p][g] = NoRow
      BY <1>6, <2>1
    <3>2. Justified(g, NoRow, feedback', sighted'[g])
      BY <1>7, NothingIsJustified
    <3> QED BY <3>1, <3>2
  <2>2. CASE p # q
    <3>1. read'[p] = read[p]
      BY <1>6, <2>2, ReportersAre
    <3> QED BY <1>8, <3>1
  <2> QED BY <2>1, <2>2
<1> QED BY <1>10, <1>11, <1>12 DEF CountInv

\* Every count has its evidence in every state.
LEMMA CountNext ==
  ASSUME WorkInv, WorkInv', CountInv, [Next]_vars
  PROVE  CountInv'
<1>1. CASE UNCHANGED vars
  <2>1. UNCHANGED <<found, row, feedback, claimed, sighted>> /\ UNCHANGED <<draft, ballot>> /\ UNCHANGED read
    BY <1>1 DEF vars, stored, session
  <2> QED BY <2>1, CountStill
<1>2. ASSUME NEW w \in Workers, Begin(w) PROVE CountInv'
  <2>1. CASE Drops(w)
    BY <2>1, CountDrops
  <2>2. CASE UNCHANGED <<found, stored, draft, read, disproved, ballot, report>>
    <3>1. UNCHANGED <<found, row, feedback, claimed, sighted>> /\ UNCHANGED <<draft, ballot>> /\ UNCHANGED read
      BY <2>2 DEF stored
    <3> QED BY <3>1, CountStill
  <2> QED BY <1>2, <2>1, <2>2, DropsAre
<1>3. ASSUME NEW w \in Workers, Claim(w) PROVE CountInv'
  <2>1. CASE Drops(w)
    BY <2>1, CountDrops
  <2>2. CASE UNCHANGED <<found, stored, session, report>>
    <3>1. UNCHANGED <<found, row, feedback, claimed, sighted>> /\ UNCHANGED <<draft, ballot>> /\ UNCHANGED read
      BY <2>2 DEF stored, session
    <3> QED BY <3>1, CountStill
  <2> QED BY <1>3, <2>1, <2>2, DropsAre
<1>4. ASSUME NEW w \in Workers, Merge(w) PROVE CountInv'
  BY <1>4, CountMerge
<1>5. ASSUME NEW w \in Workers, Scan(w) PROVE CountInv'
  BY <1>5, CountScan
<1>6. ASSUME NEW w \in Workers, Withdraw(w) PROVE CountInv'
  BY <1>6, CountWithdraw
<1>7. ASSUME NEW w \in Workers, Commit(w) PROVE CountInv'
  BY <1>7, CountCommit
<1>8. ASSUME NEW w \in Workers, DeadlockVictim(w) \/ Fails(w) PROVE CountInv'
  BY <1>8, DropsAre, CountDrops
<1>9. ASSUME NEW q \in Reporters, Get(q) PROVE CountInv'
  <2>1. PICK f \in Facts :
           /\ read'[q][f] = row[f]
           /\ \A g \in Facts \ {f} : read'[q][g] = read[q][g]
           /\ \A u \in Transactions \ {q} : read'[u] = read[u]
           /\ UNCHANGED <<found, row, feedback, claimed, sighted>>
           /\ UNCHANGED <<draft, todo, disproved, ballot, report>>
    BY <1>9, GetIs, Zenon
  <2>2. \A u \in Workers : read'[u] = read[u]
    BY <2>1, WorkersAre
  <2>3. \A p \in Reporters, g \in Facts : read'[p][g] = read[p][g] \/ read'[p][g] = row[g]
    BY <2>1, ReportersAre
  <2> QED BY <2>1, <2>2, <2>3, CountStill
<1>10. ASSUME NEW q \in Reporters, Save(q) PROVE CountInv'
  BY <1>10, CountSave
<1>11. ASSUME NEW q \in Reporters, ReportAgain(q) PROVE CountInv'
  <2>1. /\ UNCHANGED <<found, row, feedback, claimed, sighted>>
        /\ UNCHANGED <<draft, ballot>> /\ UNCHANGED read
    BY <1>11, AgainIs
  <2> QED BY <2>1, CountStill
<1> QED BY Zenon, <1>1, <1>2, <1>3, <1>4, <1>5, <1>6, <1>7, <1>8, <1>9, <1>10, <1>11 DEF Next

-----------------------------------------------------------------------------
\* What is opposed was opposed.
LEMMA OpposedBefore ==
  ASSUME feedback \subseteq feedback', NEW f \in Facts, NEW e \in Facts, Opposed(f, e)'
  PROVE  Opposed(f, e)
<1>1. Evidence(f, "success") \subseteq Evidence(f, "success")'
      /\ Evidence(e, "success") \subseteq Evidence(e, "success")'
  BY DEF Evidence
<1> QED BY <1>1 DEF Opposed

\* Of two opposed facts a run that saw one contradicts the other.
LEMMA SeenOpposed ==
  ASSUME WorkInv, NEW w \in Workers, NEW f \in Facts, NEW e \in Facts, f \in Seen(w), Opposed(f, e)
  PROVE  /\ e \notin Seen(w) /\ ~found[w[1]].model
         /\ \/ e.kind = "acceptance_fact" /\ found[w[1]].outcome = "not_met"
            \/ e.kind = "failure_signature" /\ found[w[1]].outcome = "met"
<1> DEFINE x == found[w[1]]
<1>1. x \in Findings
  BY SeenAreFacts
<1>2. \A g \in Seen(w) : g.kind # "route" => g = FactOf(x) /\ x.outcome \in {"met", "not_met"}
  BY <1>1, SightingsAre DEF Seen, SeenBy
<1>3. /\ f.kind \in {"acceptance_fact", "failure_signature"} /\ e.kind # f.kind /\ ~f.model
      /\ e.kind \in {"acceptance_fact", "failure_signature"}
  BY DEF Opposed
<1>4. f = FactOf(x) /\ x.outcome \in {"met", "not_met"}
  BY <1>2, <1>3
<1>5. FactOf(x).model = x.model
      /\ FactOf(x).kind = IF x.outcome = "met" THEN "acceptance_fact" ELSE "failure_signature"
  BY DEF FactOf
<1>6. e \notin Seen(w)
  BY <1>2, <1>3, <1>4
<1> HIDE DEF x
<1>7. /\ ~x.model
      /\ \/ e.kind = "acceptance_fact" /\ x.outcome = "not_met"
         \/ e.kind = "failure_signature" /\ x.outcome = "met"
  BY <1>3, <1>4, <1>5
<1> QED BY <1>6, <1>7 DEF x

\* What is neither absent nor withdrawn.
LEMMA StatusesAre ==
  /\ NoRow.status \notin ActionableStatuses /\ NoRow.status \notin Terminal
  /\ \A s \in ActionableStatuses : s \notin Terminal
BY ColumnsAre DEF ActionableStatuses, Terminal

\* A step that offers nothing new without a success, scans nothing, and lets no worker
\* that may commit believe more or withdraw less.
LEMMA SecondStill ==
  ASSUME BeliefInv, feedback \subseteq feedback',
         \A f \in Facts : row'[f].status \in ActionableStatuses =>
           row[f].status \in ActionableStatuses \/ Evidence(f, "success")' # {},
         \A w \in Workers, f \in Facts : Scanned(w)' =>
           /\ Scanned(w)
           /\ Believes(w, f)' => Believes(w, f)
           /\ Withdraws(w, f) => Withdraws(w, f)'
  PROVE  NotBothStored' /\ SecondWithdraws'
<1>1. ASSUME NEW f \in Facts, NEW e \in Facts, Opposed(f, e)'
      PROVE  /\ Opposed(f, e) /\ Opposed(e, f)
             /\ row'[f].status \in ActionableStatuses => row[f].status \in ActionableStatuses
             /\ row'[e].status \in ActionableStatuses => row[e].status \in ActionableStatuses
  <2>1. Opposed(f, e)
    BY <1>1, OpposedBefore
  <2>2. Evidence(f, "success")' = {} /\ Evidence(e, "success")' = {}
    BY <1>1 DEF Opposed
  <2>3. Opposed(e, f)
    BY <2>1 DEF Opposed
  <2> QED BY <2>1, <2>2, <2>3
<1>2. NotBothStored'
  <2> SUFFICES ASSUME NEW f \in Facts, NEW e \in Facts, Opposed(f, e)'
      PROVE  ~(row'[f].status \in ActionableStatuses /\ row'[e].status \in ActionableStatuses)
    BY DEF NotBothStored
  <2> QED BY <1>1 DEF BeliefInv, NotBothStored
<1>3. SecondWithdraws'
  <2> SUFFICES ASSUME NEW f \in Facts, NEW e \in Facts, Opposed(f, e)',
                      NEW w \in Workers, Scanned(w)', Believes(w, f)'
      PROVE  /\ row'[e].status \in ActionableStatuses => Withdraws(w, e)'
             /\ \A v \in Workers \ {w} : Scanned(v)' /\ Believes(v, e)' =>
                  Withdraws(w, e)' \/ Withdraws(v, f)'
    BY DEF SecondWithdraws
  <2>1. Opposed(f, e) /\ Scanned(w) /\ Believes(w, f)
    BY <1>1
  <2>2. /\ row[e].status \in ActionableStatuses => Withdraws(w, e)
        /\ \A v \in Workers \ {w} : Scanned(v) /\ Believes(v, e) => Withdraws(w, e) \/ Withdraws(v, f)
    BY <2>1 DEF BeliefInv, SecondWithdraws
  <2> QED BY <1>1, <2>2
<1> QED BY <1>2, <1>3

\* What a worker leaves alone, and what it gives up.
LEMMA BeliefKept ==
  ASSUME WorkInv, BeliefInv, UNCHANGED <<found, row, feedback, claimed>>,
         \A u \in Workers :
           \/ /\ draft'[u] = draft[u] /\ disproved'[u] = disproved[u]
              /\ Scanned(u)' => Scanned(u)
           \/ draft'[u] = [g \in Facts |-> NoRow] /\ ~Scanned(u)'
  PROVE  BeliefInv'
<1>1. ASSUME NEW u \in Workers, NEW f \in Facts
      PROVE  /\ draft'[u][f] = draft[u][f] \/ draft'[u][f] = NoRow
             /\ Believes(u, f)' => Believes(u, f)
             /\ Scanned(u)' => Scanned(u) /\ (Withdraws(u, f) => Withdraws(u, f)')
  <2>1. CASE draft'[u] = draft[u] /\ disproved'[u] = disproved[u] /\ (Scanned(u)' => Scanned(u))
    BY <2>1 DEF Believes, Withdraws
  <2>2. CASE draft'[u] = [g \in Facts |-> NoRow] /\ ~Scanned(u)'
    BY <2>2, StatusesAre DEF Believes
  <2> QED BY <2>1, <2>2
<1>2. DraftsStayWithdrawn'
  BY <1>1 DEF BeliefInv, DraftsStayWithdrawn
<1>3. BeliefsAreSeen'
  <2> SUFFICES ASSUME NEW u \in Workers, NEW f \in Facts, Believes(u, f)'
      PROVE  f \in SeenBy(found'[u[1]]) /\ row'[f] # NoRow
    BY DEF BeliefsAreSeen, Seen
  <2> QED BY <1>1 DEF BeliefInv, BeliefsAreSeen, Seen
<1>4. NotBothStored' /\ SecondWithdraws'
  <2>1. feedback \subseteq feedback'
    OBVIOUS
  <2>2. \A f \in Facts : row'[f].status \in ActionableStatuses => row[f].status \in ActionableStatuses
    OBVIOUS
  <2> QED BY <1>1, <2>1, <2>2, SecondStill
<1> QED BY <1>2, <1>3, <1>4 DEF BeliefInv

\* Giving up keeps the beliefs apart.
LEMMA BeliefDrops ==
  ASSUME WorkInv, BeliefInv, NEW w \in Workers, Drops(w)
  PROVE  BeliefInv'
<1>1. PICK how \in {"replayed", "lost", "dead"} :
        Ends(w, how) /\ UNCHANGED <<found, stored, report>>
  BY DEF Drops
<1>2. w \in Transactions /\ UNCHANGED <<found, row, feedback, claimed>>
  BY <1>1, WorkersAre DEF stored
<1>3. /\ draft'[w] = [f \in Facts |-> NoRow] /\ pc'[w] = how
      /\ \A u \in Transactions \ {w} :
           draft'[u] = draft[u] /\ disproved'[u] = disproved[u] /\ pc'[u] = pc[u]
  BY <1>1, <1>2, EndsIs DEF WorkInv
<1>4. ASSUME NEW u \in Workers
      PROVE  \/ /\ draft'[u] = draft[u] /\ disproved'[u] = disproved[u]
                /\ Scanned(u)' => Scanned(u)
             \/ draft'[u] = [g \in Facts |-> NoRow] /\ ~Scanned(u)'
  BY <1>2, <1>3, WorkersAre DEF Scanned
<1> QED BY <1>2, <1>4, BeliefKept

\* A merge comes before the scan, and brings nothing back.
LEMMA BeliefMerge ==
  ASSUME WorkInv, BeliefInv, NEW w \in Workers, Merge(w)
  PROVE  BeliefInv'
<1>1. /\ UNCHANGED <<found, row, feedback, claimed>> /\ UNCHANGED <<pc, disproved>>
      /\ pc[w] = "merging" /\ w \in Transactions /\ found[w[1]] \in Findings
  BY WorkersAre, SeenAreFacts DEF Merge, stored
<1>2. PICK f \in Facts :
           /\ f \in Seen(w)
           /\ draft'[w][f] = IF row[f] = NoRow THEN FirstSighting(found[w[1]], f)
                             ELSE ReinforcedBy(f, row[f])
           /\ \A u \in Transactions, g \in Facts :
                (u # w \/ g # f) => draft'[u][g] = draft[u][g]
  BY MergeIs, Zenon
<1>3. \A u \in Workers, g \in Facts : u # w => draft'[u][g] = draft[u][g]
  BY <1>2, WorkersAre
<1>4. /\ draft'[w][f].status \notin Terminal => row[f].status \notin Terminal
      /\ Believes(w, f)' => row[f] # NoRow
  <2>1. CASE row[f] = NoRow
    <3>1. draft'[w][f].status = "candidate"
      BY <1>1, <1>2, <2>1, FirstIs
    <3> QED BY <2>1, <3>1, StatusesAre DEF Believes, ActionableStatuses
  <2>2. CASE row[f] # NoRow
    <3>1. row[f] \in Records
      BY DEF WorkInv, Typed
    <3>2. row[f].status \in Terminal => draft'[w][f].status = row[f].status
      BY <1>2, <2>2, <3>1, ReinforcedIs
    <3> QED BY <2>2, <3>2
  <2> QED BY <2>1, <2>2
<1>5. DraftsStayWithdrawn'
  BY <1>1, <1>2, <1>4, WorkersAre DEF BeliefInv, DraftsStayWithdrawn
<1>6. BeliefsAreSeen'
  <2> SUFFICES ASSUME NEW u \in Workers, NEW g \in Facts, Believes(u, g)'
      PROVE  g \in Seen(u) /\ row[g] # NoRow
    BY <1>1 DEF BeliefsAreSeen, Seen
  <2>1. CASE u = w /\ g = f
    BY <1>2, <1>4, <2>1
  <2>2. CASE ~(u = w /\ g = f)
    BY <1>2, <2>2, WorkersAre DEF BeliefInv, BeliefsAreSeen, Believes
  <2> QED BY <2>1, <2>2
<1>7. NotBothStored' /\ SecondWithdraws'
  <2>1. feedback \subseteq feedback'
        /\ \A g \in Facts : row'[g].status \in ActionableStatuses => row[g].status \in ActionableStatuses
    BY <1>1
  <2>2. ASSUME NEW u \in Workers, NEW g \in Facts, Scanned(u)'
        PROVE  /\ Scanned(u)
               /\ Believes(u, g)' => Believes(u, g)
               /\ Withdraws(u, g) => Withdraws(u, g)'
    <3>1. Scanned(u) /\ u # w
      BY <1>1, <2>2 DEF Scanned
    <3> QED BY <1>1, <1>3, <3>1 DEF Believes, Withdraws
  <2> QED BY <2>1, <2>2, SecondStill
<1> QED BY <1>5, <1>6, <1>7 DEF BeliefInv

\* A withdrawal only withdraws.
LEMMA BeliefWithdraw ==
  ASSUME WorkInv, BeliefInv, NEW w \in Workers, Withdraw(w)
  PROVE  BeliefInv'
<1>0. PICK f \in disproved[w] : Withdrawal(w, f)
  BY WithdrawIs
<1>1. UNCHANGED <<found, row, feedback, claimed>> /\ UNCHANGED pc /\ w \in Transactions
  BY WorkersAre DEF Withdraw, stored
<1>2. /\ f \in Facts
      /\ disproved'[w] = disproved[w] \ {f}
      /\ \A u \in Transactions \ {w} : disproved'[u] = disproved[u]
      /\ \A u \in Transactions, g \in Facts :
           (u # w \/ g # f) => draft'[u][g] = draft[u][g]
      /\ \/ draft' = draft /\ w[1] \in claimed
         \/ draft'[w][f] = Saved(Visible(w, f), read[w][f],
                                 Apply(f, read[w][f], "contradiction", TRUE))
  BY <1>0 DEF Withdrawal
<1>3. (draft' = draft /\ w[1] \in claimed) \/ draft'[w][f].status = "invalidated"
  <2> DEFINE old == read[w][f]
             a == Apply(f, old, "contradiction", TRUE)
             current == Visible(w, f)
             d == Saved(current, old, a)
  <2>1. old \in Records /\ current \in Records /\ old.status \notin Terminal /\ f \in Facts
    BY <1>1, <1>2 DEF Visible, WorkInv, Typed, WorkAtHand
  <2>2. "invalidated" \in Terminal
    BY DEF Terminal
  <2>3. (draft' = draft /\ w[1] \in claimed) \/ draft'[w][f] = d
    BY <1>2
  <2> HIDE DEF old, current
  <2>4. a \in Records /\ a.status = "invalidated"
    <3>1. a = [old EXCEPT !.contradiction = @ + 1, !.status = "invalidated"]
      BY DEF Apply
    <3> HIDE DEF a
    <3>2. old.contradiction + 1 \in Nat /\ "invalidated" \in Statuses
      BY <2>1, ColumnIs DEF Statuses
    <3> QED BY <2>1, <3>1, <3>2 DEF Records
  <2> HIDE DEF a
  <2>5. a.status # old.status
    BY <2>1, <2>4 DEF Terminal
  <2>6. /\ d \in Records
        /\ \A c \in {"status", "support", "failure", "contradiction"} :
             d[c] = IF a[c] = old[c] THEN current[c] ELSE a[c]
    BY <2>1, <2>4, SavedIs
  <2> HIDE DEF d
  <2>7. d.status = "invalidated"
    BY <2>1, <2>4, <2>5, <2>6, ColumnIs
  <2> QED BY <2>3, <2>7
<1>4. "invalidated" \in Terminal /\ "invalidated" \notin ActionableStatuses
  BY DEF Terminal, ActionableStatuses
<1>5. ASSUME NEW u \in Workers, NEW g \in Facts
      PROVE  draft'[u][g] = draft[u][g] \/ (u = w /\ g = f /\ draft'[w][f].status = "invalidated")
  BY <1>2, <1>3, WorkersAre
<1>6. DraftsStayWithdrawn'
  BY <1>1, <1>4, <1>5 DEF BeliefInv, DraftsStayWithdrawn
<1>7. \A u \in Workers, g \in Facts : Believes(u, g)' => Believes(u, g)
  BY <1>4, <1>5 DEF Believes
<1>8. BeliefsAreSeen'
  BY <1>1, <1>7 DEF BeliefInv, BeliefsAreSeen, Seen
<1>9. NotBothStored' /\ SecondWithdraws'
  <2>1. feedback \subseteq feedback'
        /\ \A g \in Facts : row'[g].status \in ActionableStatuses => row[g].status \in ActionableStatuses
    BY <1>1
  <2>2. ASSUME NEW u \in Workers, NEW g \in Facts, Scanned(u)'
        PROVE  /\ Scanned(u)
               /\ Believes(u, g)' => Believes(u, g)
               /\ Withdraws(u, g) => Withdraws(u, g)'
    <3>1. Scanned(u)
      BY <1>1, <2>2 DEF Scanned
    <3>2. CASE u # w
      BY <1>2, <1>5, <1>7, <3>1, <3>2, WorkersAre DEF Withdraws
    <3>3. CASE u = w /\ g # f
      BY <1>2, <1>5, <1>7, <3>1, <3>3 DEF Withdraws
    <3>4. CASE u = w /\ g = f
      <4>1. draft'[u][g].status = "invalidated"
        BY <1>3, <3>1, <3>4 DEF Scanned
      <4> QED BY <1>4, <1>7, <3>1, <4>1 DEF Withdraws
    <3> QED BY <3>1, <3>2, <3>3, <3>4
  <2> QED BY <2>1, <2>2, SecondStill
<1> QED BY <1>6, <1>8, <1>9 DEF BeliefInv

\* Whoever scans withdraws whatever is opposed to what it believes, and sees every row
\* that somebody else may yet store as believed.
LEMMA BeliefScan ==
  ASSUME WorkInv, BeliefInv, NEW w \in Workers, Scan(w)
  PROVE  BeliefInv'
<1>1. /\ UNCHANGED <<found, row, feedback, claimed>> /\ UNCHANGED draft
      /\ pc[w] = "merging" /\ w \in Transactions /\ found[w[1]] \in Findings
  BY WorkersAre, SeenAreFacts DEF Scan, stored
<1>2. /\ \A u \in Transactions \ {w} : pc'[u] = pc[u] /\ disproved'[u] = disproved[u]
      /\ disproved'[w] = { f \in Facts : Contradicts(found[w[1]], f, Visible(w, f)) }
  BY WorkScan
<1>3. DraftsStayWithdrawn' /\ BeliefsAreSeen'
  BY <1>1 DEF BeliefInv, DraftsStayWithdrawn, BeliefsAreSeen, Believes, Seen
<1>4. NotBothStored'
  BY <1>1 DEF BeliefInv, NotBothStored, Opposed, Evidence
\* An opposed row that stands is disproved by the scan.
<1>5. ASSUME NEW f \in Facts, NEW e \in Facts, Opposed(f, e), Believes(w, f),
             row[e] # NoRow, row[e].status \notin Terminal
      PROVE  e \in disproved'[w]
  <2>1. f \in Seen(w)
    BY <1>5 DEF BeliefInv, BeliefsAreSeen
  <2>2. /\ e \notin Seen(w) /\ ~found[w[1]].model
        /\ \/ e.kind = "acceptance_fact" /\ found[w[1]].outcome = "not_met"
           \/ e.kind = "failure_signature" /\ found[w[1]].outcome = "met"
    BY <1>5, <2>1, SeenOpposed
  <2>3. draft[w][e] = NoRow
    BY <1>1, <2>2 DEF WorkInv, WorkAtHand
  <2>4. Visible(w, e) = row[e]
    BY <2>3 DEF Visible
  <2>5. Contradicts(found[w[1]], e, Visible(w, e))
    BY <1>5, <2>2, <2>4 DEF Contradicts
  <2> QED BY <1>2, <2>5
<1>6. SecondWithdraws'
  <2> SUFFICES ASSUME NEW f \in Facts, NEW e \in Facts, Opposed(f, e)',
                      NEW u \in Workers, Scanned(u)', Believes(u, f)'
      PROVE  /\ row'[e].status \in ActionableStatuses => Withdraws(u, e)'
             /\ \A v \in Workers \ {u} : Scanned(v)' /\ Believes(v, e)' =>
                  Withdraws(u, e)' \/ Withdraws(v, f)'
    BY DEF SecondWithdraws
  <2>1. Opposed(f, e) /\ Opposed(e, f)
    BY <1>1 DEF Opposed, Evidence
  <2>2. \A v \in Workers, g \in Facts : Believes(v, g)' => Believes(v, g)
    BY <1>1 DEF Believes
  <2>3. \A v \in Workers \ {w}, g \in Facts :
          /\ Scanned(v)' => Scanned(v)
          /\ Withdraws(v, g) => Withdraws(v, g)'
    BY <1>1, <1>2, WorkersAre DEF Scanned, Withdraws
  <2>4. \A v \in Workers, g \in Facts : Believes(v, g) => row[g] # NoRow /\ row[g].status \notin Terminal
    BY StatusesAre DEF BeliefInv, BeliefsAreSeen, DraftsStayWithdrawn, Believes
  <2>5. Believes(u, f)
    BY <2>2
  <2>6. CASE u = w
    <3>1. row'[e].status \in ActionableStatuses => e \in disproved'[w]
      BY <1>1, <1>5, <2>1, <2>5, <2>6, StatusesAre
    <3>2. ASSUME NEW v \in Workers, Believes(v, e)' PROVE e \in disproved'[w]
      BY <1>5, <2>1, <2>2, <2>4, <2>5, <2>6, <3>2
    <3> QED BY <2>6, <3>1, <3>2 DEF Withdraws
  <2>7. CASE u # w
    <3>1. Scanned(u)
      BY <2>3, <2>7
    <3>2. /\ row[e].status \in ActionableStatuses => Withdraws(u, e)
          /\ \A v \in Workers \ {u} : Scanned(v) /\ Believes(v, e) => Withdraws(u, e) \/ Withdraws(v, f)
      BY <2>1, <2>5, <3>1 DEF BeliefInv, SecondWithdraws
    <3>3. row'[e].status \in ActionableStatuses => Withdraws(u, e)'
      BY <1>1, <2>3, <2>7, <3>2
    <3>4. ASSUME NEW v \in Workers \ {u}, Scanned(v)', Believes(v, e)'
          PROVE  Withdraws(u, e)' \/ Withdraws(v, f)'
      <4>1. Believes(v, e)
        BY <2>2, <3>4
      <4>2. CASE v = w
        <5>1. f \in disproved'[w]
          BY <1>5, <2>1, <2>4, <2>5, <4>1, <4>2
        <5> QED BY <4>2, <5>1 DEF Withdraws
      <4>3. CASE v # w
        BY <2>3, <2>7, <3>2, <3>4, <4>1, <4>3
      <4> QED BY <4>2, <4>3
    <3> QED BY <3>3, <3>4
  <2> QED BY <2>6, <2>7
<1> QED BY <1>3, <1>4, <1>6 DEF BeliefInv

\* A commit stores what it had not withdrawn, and nobody believed the opposite by then.
LEMMA BeliefCommit ==
  ASSUME WorkInv, BeliefInv, NEW w \in Workers, Commit(w)
  PROVE  BeliefInv'
<1>1. /\ w \in Transactions /\ w[1] \notin claimed /\ pc[w] = "claiming" /\ disproved[w] = {}
      /\ \A f \in Facts : row'[f] = Visible(w, f)
      /\ feedback \subseteq feedback' /\ claimed \subseteq claimed'
      /\ Ends(w, "committed") /\ UNCHANGED found
  BY CommitIs
<1>2. /\ draft'[w] = [f \in Facts |-> NoRow] /\ pc'[w] = "committed"
      /\ \A u \in Workers \ {w} :
           draft'[u] = draft[u] /\ disproved'[u] = disproved[u] /\ pc'[u] = pc[u]
  BY <1>1, EndsIs, WorkersAre DEF WorkInv
<1>3. Scanned(w)
  BY <1>1 DEF Scanned
<1>4. ASSUME NEW u \in Workers, NEW f \in Facts, draft'[u][f] # NoRow
      PROVE  u # w /\ draft'[u][f] = draft[u][f] /\ row'[f] = row[f]
  <2>1. u # w /\ draft'[u][f] = draft[u][f]
    BY <1>2, <1>4
  <2>2. draft[w][f] = NoRow
    BY <1>4, <2>1 DEF WorkInv, LocksHold
  <2> QED BY <1>1, <2>1, <2>2 DEF Visible
<1>5. DraftsStayWithdrawn'
  BY <1>4 DEF BeliefInv, DraftsStayWithdrawn
<1>6. \A u \in Workers, f \in Facts : Believes(u, f)' => u # w /\ Believes(u, f) /\ row'[f] = row[f]
  BY <1>4, StatusesAre DEF Believes
<1>7. BeliefsAreSeen'
  <2> SUFFICES ASSUME NEW u \in Workers, NEW f \in Facts, Believes(u, f)'
      PROVE  f \in SeenBy(found'[u[1]]) /\ row'[f] # NoRow
    BY DEF BeliefsAreSeen, Seen
  <2> QED BY <1>1, <1>6 DEF BeliefInv, BeliefsAreSeen, Seen
<1>8. \A f \in Facts : Withdraws(w, f) => draft[w][f] # NoRow /\ ~Believes(w, f)
  BY <1>1, StatusesAre DEF Withdraws, Believes
<1>9. \A f \in Facts : row'[f].status \in ActionableStatuses =>
        Believes(w, f) \/ (draft[w][f] = NoRow /\ row[f].status \in ActionableStatuses)
  BY <1>1 DEF Visible, Believes
<1>10. ASSUME NEW f \in Facts, NEW e \in Facts, Opposed(f, e)'
       PROVE  Opposed(f, e) /\ Opposed(e, f)
  <2>1. Opposed(f, e)
    BY <1>1, <1>10, OpposedBefore
  <2> QED BY <2>1 DEF Opposed
<1>11. NotBothStored'
  <2> SUFFICES ASSUME NEW f \in Facts, NEW e \in Facts, Opposed(f, e)',
                      row'[f].status \in ActionableStatuses, row'[e].status \in ActionableStatuses
      PROVE  FALSE
    BY DEF NotBothStored
  <2>1. ~(row[f].status \in ActionableStatuses /\ row[e].status \in ActionableStatuses)
    BY <1>10 DEF BeliefInv, NotBothStored
  <2>2. ~(Believes(w, f) /\ Believes(w, e))
    <3>1. ASSUME Believes(w, f), Believes(w, e) PROVE FALSE
      <4>1. f \in Seen(w) /\ e \in Seen(w)
        BY <3>1 DEF BeliefInv, BeliefsAreSeen
      <4> QED BY <1>10, <4>1, SeenOpposed
    <3> QED BY <3>1
  <2>3. \A g, h \in Facts : Opposed(g, h) /\ Believes(w, g) /\ row[h].status \in ActionableStatuses =>
          draft[w][h] # NoRow
    BY <1>3, <1>8 DEF BeliefInv, SecondWithdraws
  <2> QED BY <1>9, <1>10, <2>1, <2>2, <2>3
<1>12. SecondWithdraws'
  <2> SUFFICES ASSUME NEW f \in Facts, NEW e \in Facts, Opposed(f, e)',
                      NEW u \in Workers, Scanned(u)', Believes(u, f)'
      PROVE  /\ row'[e].status \in ActionableStatuses => Withdraws(u, e)'
             /\ \A v \in Workers \ {u} : Scanned(v)' /\ Believes(v, e)' =>
                  Withdraws(u, e)' \/ Withdraws(v, f)'
    BY DEF SecondWithdraws
  <2>1. /\ u # w /\ Believes(u, f) /\ Opposed(f, e)
    BY <1>6, <1>10
  <2>2. \A v \in Workers \ {w}, g \in Facts :
          /\ Scanned(v)' => Scanned(v)
          /\ Withdraws(v, g) => Withdraws(v, g)'
    BY <1>1, <1>2 DEF Scanned, Withdraws
  <2>3. /\ row[e].status \in ActionableStatuses => Withdraws(u, e)
        /\ \A v \in Workers \ {u} : Scanned(v) /\ Believes(v, e) => Withdraws(u, e) \/ Withdraws(v, f)
    BY <2>1, <2>2 DEF BeliefInv, SecondWithdraws
  <2>4. ~Withdraws(w, f)
    <3>1. draft[u][f] # NoRow
      BY <2>1, StatusesAre DEF Believes
    <3>2. draft[w][f] = NoRow
      BY <2>1, <3>1 DEF WorkInv, LocksHold
    <3> QED BY <1>8, <3>2
  <2>5. row'[e].status \in ActionableStatuses => Withdraws(u, e)
    BY <1>3, <1>9, <2>1, <2>3, <2>4
  <2>6. \A v \in Workers \ {u} : Scanned(v)' /\ Believes(v, e)' => Withdraws(u, e) \/ Withdraws(v, f)
    BY <1>6, <2>2, <2>3
  <2> QED BY <1>6, <2>1, <2>2, <2>5, <2>6
<1> QED BY <1>5, <1>7, <1>11, <1>12 DEF BeliefInv

\* A report makes nothing believed but with a success, and brings nothing back that was
\* withdrawn when it was read.
LEMMA SavedStatus ==
  ASSUME NEW f \in Facts, NEW current \in Records, NEW old \in Records,
         NEW kind \in FeedbackKinds, NEW observed \in BOOLEAN, NEW d,
         d = Saved(current, old, Apply(f, old, kind, observed))
  PROVE  /\ d.status \in ActionableStatuses =>
              current.status \in ActionableStatuses \/ (kind = "success" /\ observed)
         /\ d.status \notin Terminal => current.status \notin Terminal \/ old.status \notin Terminal
<1> DEFINE a == Apply(f, old, kind, observed)
<1>1. /\ a \in Records
      /\ a.status # old.status =>
           \/ a.status = "rejected" /\ kind = "unsafe"
           \/ a.status = "invalidated" /\ kind \in {"stale", "contradiction"}
           \/ a.status = "candidate" /\ old.status \notin Terminal
           \/ /\ a.status \in ActionableStatuses /\ old.status \notin Terminal
              /\ kind = "success" /\ observed
  BY ApplyIs
<1>2. d = Saved(current, old, a)
  OBVIOUS
<1> HIDE DEF a
<1>3. d.status = IF a.status = old.status THEN current.status ELSE a.status
  <2>1. /\ Saved(current, old, a) \in Records
        /\ \A c \in {"status", "support", "failure", "contradiction"} :
             Saved(current, old, a)[c] = IF a[c] = old[c] THEN current[c] ELSE a[c]
    BY <1>1, SavedIs
  <2> QED BY <1>1, <1>2, <2>1, ColumnIs
<1>4. CASE a.status = old.status
  BY <1>3, <1>4
<1>5. CASE a.status # old.status
  BY <1>1, <1>3, <1>5 DEF ActionableStatuses, Terminal
<1> QED BY <1>4, <1>5

\* A report is saved over a row that no worker has written.
LEMMA BeliefSave ==
  ASSUME WorkInv, BeliefInv, NEW q \in Reporters, Save(q)
  PROVE  BeliefInv'
<1>1. q \in Transactions /\ q \notin Workers
  BY ReportersAre
<1>2. PICK f \in Facts : \E kind \in FeedbackKinds : \E observed \in BOOLEAN :
        Saves(q, f, kind, observed)
  BY SaveIs
<1>3. PICK kind \in FeedbackKinds : \E observed \in BOOLEAN : Saves(q, f, kind, observed)
  BY <1>2
<1>4. PICK observed \in BOOLEAN : Saves(q, f, kind, observed)
  BY <1>3
<1>5. /\ \A u \in Workers : draft[u][f] = NoRow
      /\ \A g \in Facts \ {f} : row'[g] = row[g]
      /\ feedback \subseteq feedback' /\ UNCHANGED <<found, claimed>>
      /\ Ends(q, "reported")
  BY <1>4 DEF Saves
<1>6. \A u \in Workers : draft'[u] = draft[u] /\ disproved'[u] = disproved[u] /\ pc'[u] = pc[u]
  BY <1>1, <1>5, EndsIs, WorkersAre DEF WorkInv
<1>7. DraftsStayWithdrawn'
  BY <1>5, <1>6 DEF BeliefInv, DraftsStayWithdrawn
<1>8. BeliefsAreSeen'
  <2> SUFFICES ASSUME NEW u \in Workers, NEW g \in Facts, Believes(u, g)'
      PROVE  g \in SeenBy(found'[u[1]]) /\ row'[g] # NoRow
    BY DEF BeliefsAreSeen, Seen
  <2>1. Believes(u, g) /\ draft[u][g] # NoRow
    BY <1>6, StatusesAre DEF Believes
  <2>2. row'[g] = row[g]
    BY <1>5, <2>1
  <2> QED BY <1>5, <2>1, <2>2 DEF BeliefInv, BeliefsAreSeen, Seen
<1>9. row'[f].status \in ActionableStatuses =>
        row[f].status \in ActionableStatuses \/ Evidence(f, "success")' # {}
  <2>1. CASE row' = row
    BY <2>1
  <2>2. CASE row' # row
    <3> DEFINE o == Occurrence(f, q, kind, observed)
               old == read[q][f]
               current == row[f]
               d == Saved(current, old, Apply(f, old, kind, observed))
    <3>1. row'[f] = d /\ o \in feedback'
      BY <1>4, <2>2 DEF Saves
    <3>2. o.fact = f /\ o.kind = kind /\ o.observed = observed
      BY DEF Occurrence
    <3>3. old \in Records /\ current \in Records
      BY <1>1 DEF WorkInv, Typed
    <3>4. d.status \in ActionableStatuses =>
            current.status \in ActionableStatuses \/ (kind = "success" /\ observed)
      <4> HIDE DEF old, current
      <4> QED BY <3>3, SavedStatus
    <3> HIDE DEF o, d
    <3>5. kind = "success" /\ observed => o \in Evidence(f, "success")'
      BY <3>1, <3>2 DEF Evidence
    <3> QED BY <3>1, <3>4, <3>5
  <2> QED BY <2>1, <2>2
<1>10. NotBothStored' /\ SecondWithdraws'
  <2>1. \A g \in Facts : row'[g].status \in ActionableStatuses =>
          row[g].status \in ActionableStatuses \/ Evidence(g, "success")' # {}
    BY <1>5, <1>9
  <2>2. ASSUME NEW u \in Workers, NEW g \in Facts, Scanned(u)'
        PROVE  /\ Scanned(u)
               /\ Believes(u, g)' => Believes(u, g)
               /\ Withdraws(u, g) => Withdraws(u, g)'
    BY <1>5, <1>6, <2>2 DEF Scanned, Believes, Withdraws
  <2> QED BY <1>5, <2>1, <2>2, SecondStill
<1> QED BY <1>7, <1>8, <1>10 DEF BeliefInv

\* Of two opposed facts never both are believed, in every state.
LEMMA BeliefNext ==
  ASSUME WorkInv, BeliefInv, [Next]_vars
  PROVE  BeliefInv'
<1>1. ASSUME UNCHANGED <<found, row, feedback, claimed>>, UNCHANGED <<draft, disproved>>,
             \A u \in Workers : Scanned(u)' => Scanned(u)
      PROVE  BeliefInv'
  BY <1>1, BeliefKept
<1>2. CASE UNCHANGED vars
  <2>1. UNCHANGED <<found, row, feedback, claimed>> /\ UNCHANGED <<draft, disproved>> /\ UNCHANGED pc
    BY <1>2 DEF vars, stored, session
  <2>2. \A u \in Workers : Scanned(u)' => Scanned(u)
    BY <2>1 DEF Scanned
  <2> QED BY <1>1, <2>1, <2>2
<1>3. ASSUME NEW w \in Workers, Begin(w) PROVE BeliefInv'
  <2>1. CASE w[1] \in claimed
    BY <1>3, <2>1, BeliefDrops DEF Begin, Drops
  <2>2. CASE w[1] \notin claimed
    <3>1. /\ UNCHANGED <<found, row, feedback, claimed>> /\ UNCHANGED <<draft, disproved>>
          /\ pc' = [pc EXCEPT ![w] = "merging"]
      BY <1>3, <2>2 DEF Begin, stored
    <3>2. \A u \in Workers : Scanned(u)' => Scanned(u)
      BY <3>1, WorkersAre DEF Scanned, WorkInv, Typed
    <3> QED BY <1>1, <3>1, <3>2
  <2> QED BY <2>1, <2>2
<1>4. ASSUME NEW w \in Workers, Claim(w) PROVE BeliefInv'
  <2>1. CASE w[1] \in claimed
    BY <1>4, <2>1, BeliefDrops DEF Claim, Unclaimed, Drops
  <2>2. CASE w[1] \notin claimed
    <3>1. /\ UNCHANGED <<found, row, feedback, claimed>> /\ UNCHANGED <<draft, disproved>>
          /\ pc[w] = "withdrawing" /\ pc' = [pc EXCEPT ![w] = "claiming"]
      BY <1>4, <2>2 DEF Claim, Unclaimed, stored, session
    <3>2. \A u \in Workers : Scanned(u)' => Scanned(u)
      BY <3>1, WorkersAre DEF Scanned, WorkInv, Typed
    <3> QED BY <1>1, <3>1, <3>2
  <2> QED BY <2>1, <2>2
<1>5. ASSUME NEW w \in Workers, Merge(w) PROVE BeliefInv'
  BY <1>5, BeliefMerge
<1>6. ASSUME NEW w \in Workers, Scan(w) PROVE BeliefInv'
  BY <1>6, BeliefScan
<1>7. ASSUME NEW w \in Workers, Withdraw(w) PROVE BeliefInv'
  BY <1>7, BeliefWithdraw
<1>8. ASSUME NEW w \in Workers, Commit(w) PROVE BeliefInv'
  BY <1>8, BeliefCommit
<1>9. ASSUME NEW w \in Workers, DeadlockVictim(w) \/ Fails(w) PROVE BeliefInv'
  BY <1>9, DropsAre, BeliefDrops
<1>10. ASSUME NEW q \in Reporters, Get(q) PROVE BeliefInv'
  <2>1. /\ \A u \in Transactions \ {q} : pc'[u] = pc[u]
        /\ UNCHANGED <<found, row, feedback, claimed, sighted>>
        /\ UNCHANGED <<draft, todo, disproved, ballot, report>>
    BY <1>10, GetIs, Zenon
  <2>2. \A u \in Workers : Scanned(u)' => Scanned(u)
    BY <2>1, <1>10, WorkersAre DEF Scanned
  <2> QED BY <1>1, <2>1, <2>2
<1>11. ASSUME NEW q \in Reporters, Save(q) PROVE BeliefInv'
  BY <1>11, BeliefSave
<1>12. ASSUME NEW q \in Reporters, ReportAgain(q) PROVE BeliefInv'
  <2>1. /\ \A u \in Transactions \ {q} : pc'[u] = pc[u]
        /\ UNCHANGED <<found, row, feedback, claimed, sighted>>
        /\ UNCHANGED <<draft, read, todo, disproved, ballot, report>>
    BY <1>12, AgainIs
  <2>2. \A u \in Workers : Scanned(u)' => Scanned(u)
    BY <2>1, <1>12, WorkersAre DEF Scanned
  <2> QED BY <1>1, <2>1, <2>2
<1> QED BY Zenon, <1>2, <1>3, <1>4, <1>5, <1>6, <1>7, <1>8, <1>9, <1>10, <1>11, <1>12 DEF Next

-----------------------------------------------------------------------------
\* Nothing is known at first.
LEMMA InvInit == Init => Inv
<1> SUFFICES ASSUME Init PROVE Inv
  OBVIOUS
<1> DEFINE blank == [f \in Facts |-> NoRow]
<1>1. /\ found \in [Runs -> Findings] /\ row = blank /\ feedback = {} /\ claimed = {}
      /\ pc = [t \in Transactions |-> "idle"]
      /\ draft = [t \in Transactions |-> blank] /\ read = [t \in Transactions |-> blank]
      /\ todo = [t \in Transactions |-> << >>]
      /\ disproved = [t \in Transactions |-> {}] /\ ballot = [t \in Transactions |-> {}]
      /\ report \in [Reporters -> Reports] /\ sighted = [f \in Facts |-> {}]
  BY CandidateAssumption DEF Init
<1>2. /\ blank \in [Facts -> Records] /\ << >> \in Seq(Facts)
      /\ \A f \in Facts : blank[f] = NoRow
  BY ColumnsAre
<1>3. IsFiniteSet({})
  BY FS_EmptySet
<1> HIDE DEF blank
<1>4. Typed
  BY <1>1, <1>2, <1>3 DEF Typed
<1>5. /\ \A w \in Workers : /\ pc[w] = "idle" /\ draft[w] = blank /\ disproved[w] = {}
                            /\ ballot[w] = {} /\ read[w] = blank
      /\ \A q \in Reporters : read[q] = blank
  BY <1>1, WorkersAre DEF Transactions
<1>6. WorkAtHand
  BY <1>5 DEF WorkAtHand, InTransaction, blank
<1>7. ClaimsAreUnique /\ LocksHold
  BY <1>1, <1>2, <1>5 DEF ClaimsAreUnique, LocksHold
<1>8. RowsAreJustified /\ ReadsAreJustified
  <2>1. \A f \in Facts : Justified(f, NoRow, {}, {})
    BY <1>3, NothingIsJustified
  <2> QED BY <1>1, <1>2, <1>5, <2>1 DEF RowsAreJustified, ReadsAreJustified
<1>9. DraftsAreJustified
  <2> SUFFICES ASSUME NEW w \in Workers, NEW f \in Facts
      PROVE  /\ Justified(f, draft[w][f], feedback \cup ballot[w], sighted[f] \cup Witnesses(w, f))
             /\ read[w][f].contradiction <= Cardinality(Grounds(feedback, f, "contradiction"))
    BY DEF DraftsAreJustified
  <2> DEFINE runs == sighted[f] \cup Witnesses(w, f)
  <2>1. IsFiniteSet({w[1]}) /\ runs \subseteq {w[1]}
    BY <1>1, FS_Singleton DEF Witnesses
  <2>2. IsFiniteSet(runs)
    BY <2>1, FS_Subset
  <2> HIDE DEF runs
  <2>3. Justified(f, NoRow, {}, runs)
    BY <1>3, <2>2, NothingIsJustified
  <2>4. Cardinality(Grounds({}, f, "contradiction")) \in Nat
    BY <1>3, GroundsGrow
  <2>5. /\ feedback = {} /\ feedback \cup ballot[w] = {}
        /\ draft[w][f] = NoRow /\ read[w][f] = NoRow
    BY <1>1, <1>2, <1>5
  <2>6. Justified(f, draft[w][f], feedback \cup ballot[w], runs)
    BY <2>3, <2>5
  <2>7. NoRow.contradiction <= Cardinality(Grounds({}, f, "contradiction"))
    BY <2>4, ColumnsAre
  <2>8. read[w][f].contradiction <= Cardinality(Grounds(feedback, f, "contradiction"))
    BY <2>5, <2>7
  <2> QED BY <2>6, <2>8 DEF runs
<1>10. BeliefInv
  <2>1. \A w \in Workers, f \in Facts : draft[w][f] = NoRow /\ ~Believes(w, f)
    BY <1>2, <1>5, StatusesAre DEF Believes
  <2>2. \A f \in Facts : row[f].status \notin ActionableStatuses
    BY <1>1, <1>2, StatusesAre
  <2> QED BY <2>1, <2>2 DEF BeliefInv, DraftsStayWithdrawn, BeliefsAreSeen, NotBothStored, SecondWithdraws
<1> QED BY <1>4, <1>6, <1>7, <1>8, <1>9, <1>10 DEF Inv, WorkInv, CountInv

\* The invariant holds in every state.
LEMMA InvHolds == Spec => []Inv
<1>1. Inv /\ [Next]_vars => Inv'
  BY WorkNext, CountNext, BeliefNext DEF Inv
<1> QED BY InvInit, <1>1, PTL DEF Spec

\* Every counter of a row is covered by runs and feedback that are on record, and a row
\* that is withdrawn by the feedback that withdrew it: merges, reports, retries and lost
\* updates never make a number up.
THEOREM CountsAreEvidence == Spec => []CountersHaveEvidence
<1>1. Inv => CountersHaveEvidence
  <2> SUFFICES ASSUME Inv, NEW f \in Facts
      PROVE  /\ row[f].support <= Votes(f)
             /\ row[f].failure <= Cardinality(Evidence(f, "failure"))
             /\ row[f].contradiction <= Cardinality(Evidence(f, "contradiction"))
             /\ row[f].status = "invalidated" =>
                  \E o \in feedback : o.fact = f /\ o.kind \in {"contradiction", "stale"}
             /\ row[f].status = "rejected" => \E o \in feedback : o.fact = f /\ o.kind = "unsafe"
    BY DEF CountersHaveEvidence
  <2>1. \A kind : Evidence(f, kind) = Grounds(feedback, f, kind)
    BY DEF Evidence, Grounds
  <2>2. Votes(f) = Support(feedback, sighted[f], f)
    BY <2>1 DEF Votes, Support
  <2> QED BY <2>1, <2>2 DEF Inv, CountInv, RowsAreJustified, Justified
<1> QED BY InvHolds, <1>1, PTL

\* What is trusted was not derived by a model, and has the runs that takes.
THEOREM TrustHasItsRuns == Spec => []TrustIsEarned
<1>1. Inv => TrustIsEarned
  <2> SUFFICES ASSUME Inv, NEW f \in Facts, row[f].status = "trusted"
      PROVE  ~f.model /\ Votes(f) >= MinSupportToTrust
    BY DEF TrustIsEarned
  <2>1. Votes(f) = Support(feedback, sighted[f], f)
    BY DEF Votes, Support, Evidence, Grounds
  <2> QED BY <2>1 DEF Inv, CountInv, RowsAreJustified, Justified
<1> QED BY InvHolds, <1>1, PTL

\* However consolidations interleave, no planner is offered both that a criterion holds
\* and that it fails, each as observed in one context, without a report of success.
THEOREM BeliefsAgree == Spec => []NeverBothBelieved
<1>1. Inv => NeverBothBelieved
  <2> SUFFICES ASSUME Inv, NEW x \in Policies, NEW now \in Situations
      PROVE  LET holds == [kind |-> "acceptance_fact", model |-> FALSE, policy |-> x]
                 fails == [kind |-> "failure_signature", model |-> FALSE, policy |-> x]
             IN  ~ /\ {holds, fails} \subseteq Offered(now)
                   /\ Evidence(holds, "success") \cup Evidence(fails, "success") = {}
    BY DEF NeverBothBelieved
  <2> DEFINE holds == [kind |-> "acceptance_fact", model |-> FALSE, policy |-> x]
             fails == [kind |-> "failure_signature", model |-> FALSE, policy |-> x]
  <2> SUFFICES ASSUME {holds, fails} \subseteq Offered(now),
                      Evidence(holds, "success") \cup Evidence(fails, "success") = {}
      PROVE  FALSE
    OBVIOUS
  <2>1. /\ holds \in Facts /\ row[holds].status \in ActionableStatuses
        /\ fails \in Facts /\ row[fails].status \in ActionableStatuses
    BY DEF Offered
  <2>2. Opposed(holds, fails)
    BY DEF Opposed
  <2> QED BY <2>1, <2>2 DEF Inv, BeliefInv, NotBothStored
<1> QED BY InvHolds, <1>1, PTL

\* No consolidation brings a withdrawn row back, and a report only if it had read the row
\* before it was withdrawn.
THEOREM WithdrawnIsNotRevived == Spec => NoWayBack
<1> DEFINE Kept == \A f \in Facts :
      row[f].status \in Terminal /\ row'[f].status \notin Terminal =>
        \E q \in Reporters : pc[q] = "reporting" /\ report[q].fact = f
                             /\ read[q][f].status \notin Terminal
<1>1. Inv /\ [Next]_vars => [Kept]_vars
  <2> SUFFICES ASSUME Inv, Next PROVE Kept
    OBVIOUS
  <2>1. CASE UNCHANGED row
    BY <2>1
  <2>2. ASSUME NEW w \in Workers, Commit(w) PROVE Kept
    <3>1. \A f \in Facts : row'[f] = Visible(w, f)
      BY <2>2, CommitIs DEF Inv
    <3> QED BY <3>1 DEF Inv, BeliefInv, DraftsStayWithdrawn, Visible
  <2>3. ASSUME NEW q \in Reporters, Save(q) PROVE Kept
    <3>1. PICK f \in Facts : \E kind \in FeedbackKinds : \E observed \in BOOLEAN :
            Saves(q, f, kind, observed)
      BY <2>3, SaveIs DEF Inv
    <3>2. PICK kind \in FeedbackKinds : \E observed \in BOOLEAN : Saves(q, f, kind, observed)
      BY <3>1
    <3>3. PICK observed \in BOOLEAN : Saves(q, f, kind, observed)
      BY <3>2
    <3>4. q \in Transactions /\ row[f] \in Records /\ read[q][f] \in Records
      BY ReportersAre DEF Inv, WorkInv, Typed
    <3>5. /\ \A g \in Facts \ {f} : row'[g] = row[g]
          /\ row' # row => row'[f] = Saved(row[f], read[q][f], Apply(f, read[q][f], kind, observed))
          /\ pc[q] = "reporting" /\ report[q].fact = f
      BY <3>3 DEF Saves
    <3>6. row' # row /\ row'[f].status \notin Terminal =>
            row[f].status \notin Terminal \/ read[q][f].status \notin Terminal
      BY <3>4, <3>5, SavedStatus
    <3> QED BY <3>5, <3>6
  <2>4. \A w \in Workers :
          Begin(w) \/ Merge(w) \/ Scan(w) \/ Withdraw(w) \/ Claim(w) \/ DeadlockVictim(w) \/ Fails(w)
            => UNCHANGED row
    BY DEF Begin, Merge, Scan, Withdraw, Claim, DeadlockVictim, Fails, stored
  <2>5. \A q \in Reporters : Get(q) \/ ReportAgain(q) => UNCHANGED row
    BY DEF Get, ReportAgain, stored
  <2> HIDE DEF Kept
  <2> QED BY Zenon, <2>1, <2>2, <2>3, <2>4, <2>5 DEF Next
<1> QED BY InvHolds, <1>1, PTL DEF Spec, NoWayBack

=============================================================================
