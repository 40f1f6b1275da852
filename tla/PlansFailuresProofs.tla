----------------------- MODULE PlansFailuresProofs ------------------------
(***************************************************************************)
(* What holds of Plans for any number of requests, documents and stories,   *)
(* and of FailureAnalysis, whose results are judged by those plans, for any  *)
(* number of runs, attempts, crashes and clusters.  The two share nothing    *)
(* but this module.                                                         *)
(***************************************************************************)
EXTENDS Plans, FailureAnalysis, WellFoundedInduction, TLAPS

-----------------------------------------------------------------------------
\* Plans.


\* A JSONB column gives back the keys the plan put into it.
KeepsKeys(plan) == ToSet(Keys(ToSet(plan.metadata))) = ToSet(plan.metadata)

HoldsPlan(r) ==
  /\ {"at", "kind", "id", "plan", "began"} \subseteq DOMAIN r
  /\ "metadata" \in DOMAIN r.plan
  /\ KeepsKeys(r.plan)

\* What a request holds at its place: a plan that was compiled or parsed, and, from
\* the insert on, the version it publishes under.
WellFormed(r) ==
  /\ "at" \in DOMAIN r
  /\ r.at \in {"began", "adding", "created", "existing"} => HoldsPlan(r)
  /\ r.at \in {"adding", "created", "existing"} \/ (r.at = "began" /\ r.kind = "import")
       => "version" \in DOMAIN r

IsStored(r, table) ==
  LET key == <<r.id, r.version>>
  IN  key \in DOMAIN table /\ Canonical(table[key].plan) = Canonical(r.plan)

PlansInv ==
  /\ DOMAIN request = Requests
  /\ \A q \in Requests : WellFormed(request[q])
  /\ AnsweredIsStored

\* The table only gains rows, so what was stored stays stored.
LEMMA RowsStay ==
  ASSUME NEW q \in Requests, Add(q), NEW key \in DOMAIN plans
  PROVE  key \in DOMAIN plans' /\ plans'[key] = plans[key]
  BY DEF Add, Insertable

\* What a row gives back is, to the hash, what was put into it.
LEMMA StoredIsSame ==
  ASSUME NEW plan, "metadata" \in DOMAIN plan, KeepsKeys(plan)
  PROVE  Canonical(Stored(plan)) = Canonical(plan)
<1> DEFINE sorted == Keys(ToSet(plan.metadata))
<1>1. Stored(plan).metadata = sorted
  BY DEF Stored
<1>2. Canonical(Stored(plan)) = [Stored(plan) EXCEPT !.metadata = Keys(ToSet(sorted))]
  BY <1>1 DEF Canonical
<1>3. Keys(ToSet(sorted)) = sorted
  BY DEF KeepsKeys
<1> QED BY <1>2, <1>3 DEF Canonical, Stored

\* What is compiled keeps the keys of its metadata, having none; what is parsed keeps
\* those of its document.
LEMMA CompiledKeepsKeys ==
  ASSUME NEW story, NEW policy, NEW budget
  PROVE  /\ "metadata" \in DOMAIN Compiled(story, policy, budget)
         /\ KeepsKeys(Compiled(story, policy, budget))
<1>1. /\ Compiled(story, policy, budget).metadata = << >>
      /\ "metadata" \in DOMAIN Compiled(story, policy, budget)
  BY DEF Compiled
<1>2. ToSet(<< >>) = {}
  BY DEF ToSet
<1> QED BY <1>1, <1>2, PlansAssumption DEF KeepsKeys

\* Parsing a document keeps its keys.
LEMMA ParsedKeepsKeys ==
  ASSUME NEW document \in Documents
  PROVE  /\ "metadata" \in DOMAIN Parsed(document)
         /\ KeepsKeys(Parsed(document))
<1>1. /\ Parsed(document).metadata = document.metadata
      /\ "metadata" \in DOMAIN Parsed(document)
  BY DEF Parsed
<1> QED BY <1>1, PlansAssumption DEF KeepsKeys

\* A step that leaves the table alone and every request but one, and answers none with
\* a version, keeps the invariant when what it writes is well formed.
LEMMA OneRequestMoves ==
  ASSUME PlansInv, NEW q \in Requests, NEW r,
         request' = [request EXCEPT ![q] = r], plans' = plans,
         WellFormed(r), r.at \in {"created", "existing"} => IsStored(r, plans)
  PROVE  PlansInv'
<1>1. request'[q] = r /\ \A other \in Requests \ {q} : request'[other] = request[other]
  BY DEF PlansInv
<1>2. DOMAIN request' = Requests
  BY DEF PlansInv
<1>3. ASSUME NEW other \in Requests PROVE WellFormed(request'[other])
  BY <1>1, <1>3 DEF PlansInv
<1>4. ASSUME NEW other \in Requests, request'[other].at \in {"created", "existing"}
      PROVE  IsStored(request'[other], plans')
  BY <1>1, <1>4 DEF PlansInv, AnsweredIsStored, IsStored
<1> QED BY <1>2, <1>3, <1>4 DEF PlansInv, AnsweredIsStored, IsStored, WellFormed, HoldsPlan, KeepsKeys

\* Whoever is answered with a version finds under it, for good, the plan it published:
\* a row is committed before its request is answered, and rows are only added.
THEOREM AnsweredStays == Spec => []AnsweredIsStored
<1>1. Init => PlansInv
  BY DEF Init, PlansInv, NoRequest, WellFormed, AnsweredIsStored
<1>2. PlansInv /\ [Next]_vars => PlansInv'
  <2> SUFFICES ASSUME PlansInv, [Next]_vars PROVE PlansInv'
    OBVIOUS
  <2>1. ASSUME NEW story \in Stories, CreateStory(story) PROVE PlansInv'
    BY <2>1 DEF CreateStory, PlansInv, WellFormed, HoldsPlan, KeepsKeys, AnsweredIsStored
  <2>2. ASSUME NEW q \in Requests, NEW id \in PlanIds \cup {None}, NEW story \in Stories,
               NEW policy \in Policies \cup {None}, NEW budget \in BOOLEAN,
               AskCompile(q, story, policy, budget, id)
        PROVE  PlansInv'
    <3> DEFINE refused == [at |-> "not_found", kind |-> "compile", asked |-> <<story, id>>]
               begun == [at |-> "began", kind |-> "compile", asked |-> <<story, id>>,
                         id |-> Identified(id), plan |-> Compiled(story, policy, budget),
                         began |-> clock]
    <3>1. WellFormed(refused) /\ refused.at \notin {"created", "existing"}
      BY DEF WellFormed
    <3>2. WellFormed(begun) /\ begun.at \notin {"created", "existing"}
      BY CompiledKeepsKeys DEF WellFormed, HoldsPlan
    <3>3. CASE story \notin stories \/ policy \notin Policies \cup {None}
      <4>1. request' = [request EXCEPT ![q] = refused] /\ plans' = plans
        BY <2>2, <3>3 DEF AskCompile
      <4> QED BY <4>1, <3>1, OneRequestMoves
    <3>4. CASE ~(story \notin stories \/ policy \notin Policies \cup {None})
      <4>1. request' = [request EXCEPT ![q] = begun] /\ plans' = plans
        BY <2>2, <3>4 DEF AskCompile
      <4> QED BY <4>1, <3>2, OneRequestMoves
    <3> QED BY <3>3, <3>4
  <2>3. ASSUME NEW q \in Requests, NEW id \in PlanIds \cup {None}, NEW document \in Documents,
               NEW version \in Pinned, AskImport(q, document, id, version)
        PROVE  PlansInv'
    <3> DEFINE asked == <<document, id, version>>
               refused(how) == [at |-> how, kind |-> "import", asked |-> asked]
               begun(v) == [at |-> "began", kind |-> "import", asked |-> asked,
                            id |-> Identified(id), plan |-> Parsed(document),
                            began |-> clock, version |-> v]
    <3>1. \A how \in {"invalid", "not_found"} :
            WellFormed(refused(how)) /\ refused(how).at \notin {"created", "existing"}
      BY DEF WellFormed
    <3>2. ASSUME NEW v
          PROVE  WellFormed(begun(v)) /\ begun(v).at \notin {"created", "existing"}
      BY ParsedKeepsKeys DEF WellFormed, HoldsPlan
    <3>3. CASE ~Readable(document)
      <4>1. request' = [request EXCEPT ![q] = refused("invalid")] /\ plans' = plans
        BY <2>3, <3>3 DEF AskImport
      <4> HIDE DEF refused
      <4> QED BY <4>1, <3>1, OneRequestMoves
    <3>4. CASE /\ Readable(document)
               /\ document.policy \notin Policies \cup {None} \/ document.project \notin Projects
      <4>1. request' = [request EXCEPT ![q] = refused("not_found")] /\ plans' = plans
        BY <2>3, <3>4 DEF AskImport
      <4> HIDE DEF refused
      <4> QED BY <4>1, <3>1, OneRequestMoves
    <3>5. CASE /\ Readable(document)
               /\ ~(document.policy \notin Policies \cup {None} \/ document.project \notin Projects)
      <4> DEFINE v == IF version # None THEN version
                      ELSE IF document.version # None THEN document.version
                      ELSE ContentVersion(document)
      <4>1. request' = [request EXCEPT ![q] = begun(v)] /\ plans' = plans
        BY <2>3, <3>5 DEF AskImport
      <4> HIDE DEF begun, v
      <4> QED BY <4>1, <3>2, OneRequestMoves
    <3> QED BY <3>3, <3>4, <3>5
  <2>4. ASSUME NEW q \in Requests, Number(q) PROVE PlansInv'
    <3> DEFINE r == request[q]
               numbered == [at |-> IF PlanOK(r.plan) THEN "adding" ELSE "invalid", kind |-> "compile", asked |-> r.asked,
                            id |-> r.id, plan |-> r.plan, began |-> r.began,
                            version |-> NextVersion(r.id)]
    <3>1. HoldsPlan(r)
      BY <2>4 DEF Number, PlansInv, WellFormed
    <3>2. WellFormed(numbered) /\ numbered.at \notin {"created", "existing"}
      BY <3>1 DEF WellFormed, HoldsPlan
    <3>3. request' = [request EXCEPT ![q] = numbered] /\ plans' = plans
      BY <2>4 DEF Number, PlansInv
    <3> HIDE DEF numbered
    <3> QED BY <3>2, <3>3, OneRequestMoves
  <2>5. ASSUME NEW q \in Requests, LookUp(q) PROVE PlansInv'
    <3> DEFINE r == request[q]
               key == <<r.id, r.version>>
               answered(how) == [r EXCEPT !.at = how]
    <3>1. r.at = "began" /\ HoldsPlan(r) /\ "version" \in DOMAIN r
      BY <2>5 DEF LookUp, PlansInv, WellFormed
    <3>2. ASSUME NEW how
          PROVE  /\ answered(how).at = how /\ WellFormed(answered(how))
                 /\ answered(how).id = r.id /\ answered(how).version = r.version
                 /\ answered(how).plan = r.plan
      BY <3>1 DEF WellFormed, HoldsPlan
    <3>3. PICK how \in {"adding", "existing", "invalid"} :
            /\ request' = [request EXCEPT ![q] = answered(how)]
            /\ how = "existing" => key \in DOMAIN plans /\ plans[key].plan = r.plan
      BY <2>5 DEF LookUp, Answer, SamePlan, PlansInv
    <3>4. answered(how).at \in {"created", "existing"} => IsStored(answered(how), plans)
      BY <3>2, <3>3 DEF IsStored
    <3>5. WellFormed(answered(how)) /\ plans' = plans
      BY <3>2, <2>5 DEF LookUp
    <3> HIDE DEF answered
    <3> QED BY <3>3, <3>4, <3>5, OneRequestMoves
  <2>6. ASSUME NEW q \in Requests, Add(q) PROVE PlansInv'
    <3> DEFINE r == request[q]
               key == <<r.id, r.version>>
               answered(how) == [r EXCEPT !.at = how]
    <3>1. r.at = "adding" /\ HoldsPlan(r) /\ "version" \in DOMAIN r
      BY <2>6 DEF Add, PlansInv, WellFormed
    <3>2. ASSUME NEW how
          PROVE  /\ answered(how).at = how /\ WellFormed(answered(how))
                 /\ answered(how).id = r.id /\ answered(how).version = r.version
                 /\ answered(how).plan = r.plan
      BY <3>1 DEF WellFormed, HoldsPlan
    <3>3. CASE Insertable(key)
      <4>1. /\ request' = [request EXCEPT ![q] = answered("created")]
            /\ key \in DOMAIN plans' /\ plans'[key].plan = Stored(r.plan)
        BY <2>6, <3>3 DEF Add, Answer, PlansInv
      <4>2. request'[q] = answered("created")
            /\ \A other \in Requests \ {q} : request'[other] = request[other]
        BY <4>1 DEF PlansInv
      <4>3. DOMAIN request' = Requests
        BY <4>1 DEF PlansInv
      <4>4. Canonical(Stored(r.plan)) = Canonical(r.plan)
        BY <3>1, StoredIsSame DEF HoldsPlan
      <4>5. IsStored(request'[q], plans')
        BY <4>1, <4>2, <4>4, <3>2 DEF IsStored
      <4>6. ASSUME NEW other \in Requests, request'[other].at \in {"created", "existing"}
            PROVE  IsStored(request'[other], plans')
        <5>1. CASE other = q
          BY <5>1, <4>5
        <5>2. CASE other # q
          <6>1. request'[other] = request[other] /\ IsStored(request[other], plans)
            BY <4>2, <4>6, <5>2 DEF PlansInv, AnsweredIsStored, IsStored
          <6>2. \A k \in DOMAIN plans : k \in DOMAIN plans' /\ plans'[k] = plans[k]
            BY <2>6, RowsStay
          <6> QED BY <6>1, <6>2 DEF IsStored
        <5> QED BY <5>1, <5>2
      <4>7. ASSUME NEW other \in Requests PROVE WellFormed(request'[other])
        BY <4>2, <3>2 DEF PlansInv
      <4> QED BY <4>3, <4>6, <4>7
            DEF PlansInv, AnsweredIsStored, IsStored, WellFormed, HoldsPlan, KeepsKeys
    <3>4. CASE ~Insertable(key)
      <4>1. request' = [request EXCEPT ![q] = answered("conflict")] /\ plans' = plans
        BY <2>6, <3>4 DEF Add, Answer, PlansInv
      <4>2. WellFormed(answered("conflict")) /\ answered("conflict").at = "conflict"
        BY <3>2
      <4> HIDE DEF answered
      <4> QED BY <4>1, <4>2, OneRequestMoves
    <3> QED BY <3>3, <3>4
  <2>7. CASE UNCHANGED vars
    BY <2>7 DEF vars, PlansInv, WellFormed, HoldsPlan, KeepsKeys, AnsweredIsStored
  <2> QED BY <2>1, <2>2, <2>3, <2>4, <2>5, <2>6, <2>7 DEF Next
<1>3. PlansInv => AnsweredIsStored
  BY DEF PlansInv
<1> QED BY <1>1, <1>2, <1>3, PTL DEF Spec

-----------------------------------------------------------------------------
\* FailureAnalysis.

\* A set that holds 0 and, with every number under n, the next one, holds all up to n.
LEMMA Climb ==
  ASSUME NEW n \in Nat, NEW S, 0 \in S, \A i \in 0 .. n : i \in S /\ i < n => i + 1 \in S
  PROVE  \A i \in 0 .. n : i \in S
<1> DEFINE Bad == { i \in 0 .. n : i \notin S }
<1>1. Bad \subseteq Nat
  OBVIOUS
<1>2. SUFFICES ASSUME Bad # {} PROVE FALSE
  OBVIOUS
<1>3. PICK x \in Bad : \A y \in Bad : ~(<<y, x>> \in OpToRel(<, Nat))
  <2> HIDE DEF Bad
  <2> QED BY <1>1, <1>2, WFMin, NatLessThanWellFounded, Zenon
<1>4. x # 0 /\ x - 1 \in 0 .. n /\ x - 1 < n
  <2>1. x \in 0 .. n /\ x \notin S
    BY <1>3
  <2> QED BY <2>1
<1>5. x \in Nat /\ x - 1 \notin Bad
  <2>1. <<x - 1, x>> \in OpToRel(<, Nat)
    BY <1>3, <1>4 DEF OpToRel
  <2> QED BY <1>1, <1>3, <2>1
<1>6. x - 1 + 1 \in S
  BY <1>4, <1>5
<1>7. x - 1 + 1 = x
  BY <1>5
<1> QED BY <1>3, <1>6, <1>7

\* The function Among is defined by exists, and is what its definition says.
LEMMA AmongSteps ==
  ASSUME NEW s, Len(s) \in Nat, NEW S
  PROVE  \E kept : /\ kept = [i \in 0 .. Len(s) |->
                         IF i = 0 THEN << >>
                         ELSE IF s[i] \in S THEN Append(kept[i - 1], s[i]) ELSE kept[i - 1]]
                   /\ Among(s, S) = kept[Len(s)]
<1> DEFINE Step(was, i) == IF s[i] \in S THEN Append(was, s[i]) ELSE was
           Defines(h, n) == h = [i \in 0 .. n |-> IF i = 0 THEN << >> ELSE Step(h[i - 1], i)]
           Defined == { n \in Nat : \E h : Defines(h, n) }
<1>1. 0 \in Defined
  <2> DEFINE h == [i \in 0 .. 0 |-> << >>]
  <2>1. Defines(h, 0)
    OBVIOUS
  <2> QED BY <2>1
<1>2. ASSUME NEW n \in Defined PROVE n + 1 \in Defined
  <2>1. PICK h : Defines(h, n)
    BY <1>2
  <2> DEFINE k == [i \in 0 .. n + 1 |-> IF i = n + 1 THEN Step(h[n], n + 1) ELSE h[i]]
  <2> HIDE DEF Step
  <2>2. \A i \in 0 .. n : k[i] = h[i]
    OBVIOUS
  <2>3. \A i \in 0 .. n + 1 : k[i] = IF i = 0 THEN << >> ELSE Step(k[i - 1], i)
    BY <2>1, <2>2
  <2>4. Defines(k, n + 1)
    BY <2>3
  <2>5. n + 1 \in Nat
    BY <1>2
  <2> QED BY <2>4, <2>5
<1>3. Len(s) \in Defined
  <2> HIDE DEF Defined
  <2>1. \A i \in 0 .. Len(s) : i \in Defined
    BY <1>1, <1>2, Climb
  <2> QED BY <2>1
<1> DEFINE f == CHOOSE h : Defines(h, Len(s))
<1>4. Defines(f, Len(s))
  BY <1>3
<1>5. Among(s, S) = f[Len(s)]
  BY DEF Among
<1> QED BY <1>4, <1>5

\* What Among leaves: a sequence no longer than s, of elements of s that are in S, and
\* all of them.
LEMMA AmongElements ==
  ASSUME NEW T, NEW s \in Seq(T), NEW S
  PROVE  /\ Among(s, S) \in Seq(T) /\ Len(Among(s, S)) <= Len(s)
         /\ \A j \in DOMAIN Among(s, S) : Among(s, S)[j] \in S
         /\ \A j \in DOMAIN Among(s, S) : \E i \in DOMAIN s : Among(s, S)[j] = s[i]
         /\ \A i \in DOMAIN s : s[i] \in S => \E j \in DOMAIN Among(s, S) : Among(s, S)[j] = s[i]
<1>1. PICK kept : /\ kept = [i \in 0 .. Len(s) |->
                        IF i = 0 THEN << >>
                        ELSE IF s[i] \in S THEN Append(kept[i - 1], s[i]) ELSE kept[i - 1]]
                  /\ Among(s, S) = kept[Len(s)]
  <2> Len(s) \in Nat
    OBVIOUS
  <2> QED BY AmongSteps
<1> DEFINE Good(n) ==
      /\ kept[n] \in Seq(T) /\ Len(kept[n]) <= n
      /\ \A j \in DOMAIN kept[n] : kept[n][j] \in S
      /\ \A j \in DOMAIN kept[n] : \E i \in DOMAIN s : kept[n][j] = s[i]
      /\ \A i \in 1 .. n : s[i] \in S => \E j \in DOMAIN kept[n] : kept[n][j] = s[i]
           Goods == { n \in Nat : Good(n) }
<1>2. 0 \in Goods
  <2>1. kept[0] = << >>
    BY <1>1
  <2>2. Good(0)
    BY <2>1
  <2> QED BY <2>2
<1>3. ASSUME NEW n \in 0 .. Len(s), n \in Goods, n < Len(s) PROVE n + 1 \in Goods
  <2> DEFINE m == n + 1
             x == s[m]
             was == kept[n]
  <2>0. m \in 1 .. Len(s) /\ m # 0 /\ m - 1 = n
    BY <1>3
  <2>1. /\ m \in DOMAIN s /\ x \in T /\ m \in Nat
        /\ kept[m] = IF x \in S THEN Append(was, x) ELSE was
    <3>1. m \in DOMAIN s /\ x \in T /\ m \in 0 .. Len(s) /\ m \in Nat
      BY <2>0
    <3> HIDE DEF m
    <3>2. kept[m] = IF s[m] \in S THEN Append(kept[m - 1], s[m]) ELSE kept[m - 1]
      BY <1>1, <2>0, <3>1
    <3> QED BY <2>0, <3>1, <3>2
  <2>2. Good(n)
    BY <1>3
  <2>3. CASE x \notin S
    <3>1. kept[m] = was
      BY <2>1, <2>3
    <3>2. \A i \in 1 .. m : s[i] \in S => i \in 1 .. n
      BY <2>1, <2>3
    <3>3. \A i \in 1 .. m : s[i] \in S => \E j \in DOMAIN was : was[j] = s[i]
      BY <2>2, <3>2
    <3>4. Good(m)
      BY <2>2, <3>1, <3>3
    <3> QED BY <2>1, <3>4
  <2>4. CASE x \in S
    <3>1. kept[m] = Append(was, x) /\ was \in Seq(T)
      BY <2>1, <2>2, <2>4
    <3>2. /\ kept[m] \in Seq(T) /\ Len(kept[m]) = Len(was) + 1
          /\ \A j \in 1 .. Len(was) : kept[m][j] = was[j]
          /\ kept[m][Len(was) + 1] = x
      BY <2>1, <3>1
    <3>3. DOMAIN was = 1 .. Len(was) /\ DOMAIN kept[m] = 1 .. Len(was) + 1
      BY <3>1, <3>2
    <3>4. \A j \in DOMAIN kept[m] : j \in DOMAIN was \/ j = Len(was) + 1
      BY <3>1, <3>3
    <3>5. \A i \in 1 .. m : s[i] \in S => \E j \in DOMAIN kept[m] : kept[m][j] = s[i]
      <4> SUFFICES ASSUME NEW i \in 1 .. m, s[i] \in S
                   PROVE  \E j \in DOMAIN kept[m] : kept[m][j] = s[i]
        OBVIOUS
      <4>1. CASE i = m
        BY <3>1, <3>2, <3>3, <4>1
      <4>2. CASE i # m
        <5>1. i \in 1 .. n
          BY <4>2
        <5>2. PICK j \in DOMAIN was : was[j] = s[i]
          BY <2>2, <5>1
        <5>3. j \in DOMAIN kept[m] /\ kept[m][j] = s[i]
          BY <3>1, <3>2, <3>3, <5>2
        <5> QED BY <5>3
      <4> QED BY <4>1, <4>2
    <3>6. \A j \in DOMAIN kept[m] : kept[m][j] \in S /\ \E i \in DOMAIN s : kept[m][j] = s[i]
      BY <2>1, <2>2, <2>4, <3>2, <3>3, <3>4
    <3>7. Len(kept[m]) <= m
      BY <2>2, <3>1, <3>2
    <3>8. Good(m)
      BY <3>2, <3>5, <3>6, <3>7
    <3> QED BY <2>1, <3>8
  <2> QED BY <2>3, <2>4
<1>4. Good(Len(s))
  <2> HIDE DEF Goods
  <2>1. Len(s) \in Nat
    OBVIOUS
  <2>2. \A n \in 0 .. Len(s) : n \in Goods
    BY <1>2, <1>3, <2>1, Climb
  <2>3. Len(s) \in Goods
    BY <2>1, <2>2
  <2> QED BY <2>3 DEF Goods
<1>5. DOMAIN s = 1 .. Len(s)
  OBVIOUS
<1> QED BY <1>1, <1>4, <1>5

IsSequence(s) == s \in Seq(ToSet(s))

ResultsTyped ==
  /\ DOMAIN results = Runs
  /\ \A r \in Runs : IsSequence(results[r])
  /\ finished \subseteq Runs

\* The failures of a run are among these signals, are members of these clusters, are
\* members of the stored ones.
Reads(r, signals) ==
  \A i \in DOMAIN results[r] : IsFailure(results[r][i]) =>
    \E j \in DOMAIN signals : signals[j] = Signal(r, results[r][i])

Triages(r, triaged) ==
  \A i \in DOMAIN results[r] : IsFailure(results[r][i]) =>
    \E c \in triaged : /\ c.key = Key(Signal(r, results[r][i]))
                       /\ <<r, results[r][i].criterion>> \in c.members

Stores(r, table) ==
  \A i \in DOMAIN results[r] : IsFailure(results[r][i]) =>
    LET key == Key(Signal(r, results[r][i]))
    IN  key \in DOMAIN table /\ <<r, results[r][i].criterion>> \in table[key].members

\* What RecentFailures takes of one run.
Failing(r) ==
  LET kept == Among(results[r], { result \in ToSet(results[r]) : IsFailure(result) })
  IN  [i \in DOMAIN kept |-> Signal(r, kept[i])]

AllSignals == UNION { { Signal(r, result) : result \in ToSet(results[r]) } : r \in Runs }

\* One run's part of them has its failures, and is no longer than its report.
LEMMA FailingElements ==
  ASSUME ResultsTyped, NEW r \in Runs
  PROVE  /\ Failing(r) \in Seq(AllSignals) /\ Len(Failing(r)) <= Len(results[r])
         /\ Reads(r, Failing(r))
<1> DEFINE S == { result \in ToSet(results[r]) : IsFailure(result) }
           T == ToSet(results[r])
           kept == Among(results[r], S)
<1>1. results[r] \in Seq(T)
  BY DEF ResultsTyped, IsSequence
<1>2. /\ kept \in Seq(T) /\ Len(kept) <= Len(results[r])
      /\ \A i \in DOMAIN results[r] : results[r][i] \in S => \E j \in DOMAIN kept : kept[j] = results[r][i]
  <2> HIDE DEF S, T
  <2> QED BY <1>1, AmongElements
<1> HIDE DEF kept
<1>3. Failing(r) = [i \in DOMAIN kept |-> Signal(r, kept[i])]
  BY DEF Failing, kept
<1>4. DOMAIN kept = 1 .. Len(kept) /\ Len(kept) \in Nat
  BY <1>2
<1>5. \A i \in 1 .. Len(kept) : Signal(r, kept[i]) \in AllSignals
  BY <1>2 DEF AllSignals
<1>6. Failing(r) \in Seq(AllSignals) /\ Len(Failing(r)) = Len(kept)
  BY <1>3, <1>4, <1>5
<1>7. Reads(r, Failing(r))
  <2> SUFFICES ASSUME NEW i \in DOMAIN results[r], IsFailure(results[r][i])
               PROVE  \E j \in DOMAIN Failing(r) : Failing(r)[j] = Signal(r, results[r][i])
    BY DEF Reads
  <2>1. results[r][i] \in S
    BY DEF ToSet
  <2>2. PICK j \in DOMAIN kept : kept[j] = results[r][i]
    BY <1>2, <2>1
  <2> QED BY <1>3, <2>2
<1> QED BY <1>2, <1>6, <1>7

\* When a batch holds the reports of all runs, it has the failures of each of them.
LEMMA RecentHasAll ==
  ASSUME ResultsTyped, NEW Longest \in Nat, Cardinality(Runs) * Longest <= BatchLimit,
         \A r \in Runs : Len(results[r]) <= Longest, NEW run \in Runs
  PROVE  Reads(run, RecentFailures)
<1> DEFINE n == Cardinality(Runs)
           Step(was, r) == Failing(r) \o was
           Defines(h, m) == h = [r \in 0 .. m |-> IF r = 0 THEN << >> ELSE Step(h[r - 1], r)]
           Defined == { m \in Nat : \E h : Defines(h, m) }
           all == CHOOSE h : h = [r \in {0} \cup Runs |->
                                   IF r = 0 THEN << >> ELSE Failing(r) \o h[r - 1]]
<1>1. n \in Nat /\ Runs = 1 .. n /\ BatchLimit \in Nat
  BY FailuresAssumption
<1> HIDE DEF n
<1>2. 0 \in Defined
  <2> DEFINE h == [r \in 0 .. 0 |-> << >>]
  <2>1. Defines(h, 0)
    OBVIOUS
  <2> QED BY <2>1
<1>3. ASSUME NEW m \in Defined PROVE m + 1 \in Defined
  <2>1. PICK h : Defines(h, m)
    BY <1>3
  <2> DEFINE k == [r \in 0 .. m + 1 |-> IF r = m + 1 THEN Step(h[m], m + 1) ELSE h[r]]
  <2> HIDE DEF Step
  <2>2. \A r \in 0 .. m : k[r] = h[r]
    OBVIOUS
  <2>3. \A r \in 0 .. m + 1 : k[r] = IF r = 0 THEN << >> ELSE Step(k[r - 1], r)
    BY <2>1, <2>2
  <2>4. Defines(k, m + 1)
    BY <2>3
  <2>5. m + 1 \in Nat
    BY <1>3
  <2> QED BY <2>4, <2>5
<1>4. n \in Defined
  <2> HIDE DEF Defined
  <2>1. \A r \in 0 .. n : r \in Defined
    BY <1>1, <1>2, <1>3, Climb
  <2> QED BY <1>1, <2>1
<1>5. {0} \cup Runs = 0 .. n
  BY <1>1
<1>6. Defines(all, n)
  BY <1>4, <1>5
<1> HIDE DEF all, Defined
<1> DEFINE Good(k) ==
      /\ all[k] \in Seq(AllSignals)
      /\ Len(all[k]) <= k * Longest
      /\ \A r \in 1 .. k : Reads(r, all[k])
           Goods == { k \in Nat : Good(k) }
<1>7. 0 \in Goods
  <2>1. all[0] = << >>
    BY <1>1, <1>6
  <2>2. Good(0)
    BY <2>1
  <2> QED BY <2>2
<1>8. ASSUME NEW k \in 0 .. n, k \in Goods, k < n PROVE k + 1 \in Goods
  <2> DEFINE m == k + 1
  <2>1. m \in Runs /\ m \in 0 .. n /\ m # 0 /\ m - 1 = k /\ m \in Nat /\ k \in Nat
    BY <1>1, <1>8
  <2>2. Good(k)
    BY <1>8
  <2>3. all[m] = Failing(m) \o all[k]
    <3> HIDE DEF m
    <3>1. all[m] = Failing(m) \o all[m - 1]
      BY <1>6, <2>1
    <3> QED BY <2>1, <3>1
  <2>4. /\ Failing(m) \in Seq(AllSignals) /\ Len(Failing(m)) <= Longest
        /\ Reads(m, Failing(m))
    <3> HIDE DEF m
    <3>1. Len(Failing(m)) \in Nat /\ Len(results[m]) \in Nat /\ Len(results[m]) <= Longest
      BY <2>1, FailingElements DEF ResultsTyped, IsSequence
    <3> QED BY <2>1, <3>1, FailingElements
  <2>5. /\ all[m] \in Seq(AllSignals) /\ Len(all[m]) = Len(Failing(m)) + Len(all[k])
        /\ \A j \in 1 .. Len(Failing(m)) : all[m][j] = Failing(m)[j]
        /\ \A j \in 1 .. Len(all[k]) : all[m][Len(Failing(m)) + j] = all[k][j]
    <3> HIDE DEF m
    <3> QED BY <2>2, <2>3, <2>4
  <2>6. Len(all[m]) <= m * Longest
    <3>1. m * Longest = k * Longest + Longest /\ k * Longest \in Nat
      BY <2>1
    <3>2. Len(Failing(m)) \in Nat /\ Len(all[k]) \in Nat
      BY <2>2, <2>4
    <3>3. Len(all[k]) <= k * Longest /\ Len(Failing(m)) <= Longest
      BY <2>2, <2>4
    <3> DEFINE old == k * Longest
               new == m * Longest
    <3> HIDE DEF old, new, m
    <3>4. new = old + Longest /\ old \in Nat /\ Len(all[k]) <= old
      BY <3>1, <3>3 DEF old, new
    <3>5. Len(all[m]) <= new
      BY <2>5, <3>2, <3>3, <3>4
    <3> QED BY <3>5 DEF new
  <2>7. ASSUME NEW r \in 1 .. m PROVE Reads(r, all[m])
    <3>1. CASE r = m
      <4> HIDE DEF m
      <4> QED BY <2>4, <2>5, <3>1 DEF Reads
    <3>2. CASE r # m
      <4>1. Reads(r, all[k])
        BY <2>1, <2>2, <3>2
      <4> SUFFICES ASSUME NEW i \in DOMAIN results[r], IsFailure(results[r][i])
                   PROVE  \E j \in DOMAIN all[m] : all[m][j] = Signal(r, results[r][i])
        BY DEF Reads
      <4>2. PICK j \in DOMAIN all[k] : all[k][j] = Signal(r, results[r][i])
        BY <4>1 DEF Reads
      <4> HIDE DEF m
      <4>3. j \in 1 .. Len(all[k]) /\ Len(all[k]) \in Nat /\ Len(Failing(m)) \in Nat
        BY <2>2, <2>4
      <4>4. Len(Failing(m)) + j \in 1 .. Len(all[m])
        BY <2>5, <4>3
      <4> QED BY <2>5, <4>2, <4>3, <4>4
    <3> QED BY <3>1, <3>2
  <2>8. Good(m)
    BY <2>5, <2>6, <2>7
  <2> QED BY <2>1, <2>8
<1>9. Good(n)
  <2> HIDE DEF Goods
  <2>1. \A k \in 0 .. n : k \in Goods
    BY <1>1, <1>7, <1>8, Climb
  <2>2. n \in Goods
    BY <1>1, <2>1
  <2> QED BY <2>2 DEF Goods
<1>10. Len(all[n]) <= BatchLimit /\ Len(all[n]) \in Nat
  <2>1. n * Longest \in Nat /\ n * Longest <= BatchLimit
    BY <1>1 DEF n
  <2>2. Len(all[n]) \in Nat
    BY <1>9
  <2> QED BY <1>1, <1>9, <2>1, <2>2
<1>11. RecentFailures = SubSeq(all[n], 1, IF Len(all[n]) < BatchLimit THEN Len(all[n]) ELSE BatchLimit)
  BY DEF RecentFailures, Failing, all, n
<1>12. (IF Len(all[n]) < BatchLimit THEN Len(all[n]) ELSE BatchLimit) = Len(all[n])
  BY <1>1, <1>10
<1>13. RecentFailures = all[n]
  BY <1>9, <1>11, <1>12
<1> QED BY <1>1, <1>9, <1>13

\* A pass holds what Idle has, and what it was told it was told for its own run.
PassOK(p, row) ==
  /\ DOMAIN row = DOMAIN Idle
  /\ IsSequence(row.answers)
  /\ \A i \in DOMAIN row.answers : row.answers[i].run = p[1]

PassesTyped == DOMAIN pass = Passes /\ \A p \in Passes : PassOK(p, pass[p])

AnswersInv == PassesTyped /\ IsSequence(hypotheses)

\* The fields of a pass that no step has touched.
LEMMA IdleFields ==
  /\ DOMAIN Idle = {"at", "failures", "triaged", "found", "asking", "answers"}
  /\ Idle.at = "idle" /\ Idle.answers = << >> /\ \A p : PassOK(p, Idle)
  /\ \A at, p : LET over == [Idle EXCEPT !.at = at]
                IN  over.at = at /\ over.answers = << >> /\ PassOK(p, over)
<1>1. IsSequence(<< >>) /\ DOMAIN << >> = {}
  BY DEF IsSequence, ToSet
<1> QED BY <1>1 DEF Idle, PassOK

\* A sequence of anything is one of its elements.
LEMMA SequenceOfItsOwn ==
  ASSUME NEW T, NEW s \in Seq(T)
  PROVE  IsSequence(s)
<1>1. s = [i \in 1 .. Len(s) |-> s[i]] /\ Len(s) \in Nat /\ \A i \in 1 .. Len(s) : s[i] \in ToSet(s)
  BY DEF ToSet
<1> QED BY <1>1 DEF IsSequence

\* What is appended to a sequence leaves a sequence.
LEMMA AppendedIsSequence ==
  ASSUME NEW s, IsSequence(s), NEW x
  PROVE  /\ IsSequence(Append(s, x)) /\ DOMAIN Append(s, x) = 1 .. Len(s) + 1 /\ DOMAIN s = 1 .. Len(s)
         /\ Len(s) \in Nat
         /\ Append(s, x)[Len(s) + 1] = x /\ \A i \in DOMAIN s : Append(s, x)[i] = s[i]
<1> DEFINE T == ToSet(s) \cup {x}
<1>1. s \in Seq(T) /\ x \in T
  <2>1. s \in Seq(ToSet(s))
    BY DEF IsSequence
  <2> HIDE DEF T
  <2>2. ToSet(s) \subseteq T /\ x \in T
    BY DEF T
  <2> QED BY <2>1, <2>2
<1> HIDE DEF T
<1>2. /\ Append(s, x) \in Seq(T) /\ Len(Append(s, x)) = Len(s) + 1
      /\ Append(s, x)[Len(s) + 1] = x /\ \A i \in 1 .. Len(s) : Append(s, x)[i] = s[i]
  BY <1>1
<1>3. DOMAIN s = 1 .. Len(s) /\ Len(s) \in Nat
  BY <1>1
<1>4. DOMAIN Append(s, x) = 1 .. Len(s) + 1
  BY <1>2
<1> QED BY <1>2, <1>3, <1>4, SequenceOfItsOwn

\* What one pass holds is all that most steps change.
LEMMA OnePassMoves ==
  ASSUME PassesTyped, NEW p \in Passes, NEW row, PassOK(p, row), pass' = [pass EXCEPT ![p] = row]
  PROVE  PassesTyped'
  BY DEF PassesTyped, PassOK

\* A pass that is about to store keeps of its answers those nobody recorded.
LEMMA FreshAnswers ==
  ASSUME AnswersInv, NEW p \in Passes
  PROVE  /\ Fresh(pass[p].answers) \in Seq(ToSet(pass[p].answers))
         /\ \A i \in DOMAIN Fresh(pass[p].answers) : Fresh(pass[p].answers)[i].run = p[1]
<1> DEFINE answers == pass[p].answers
           S == { h \in ToSet(answers) : \A i \in DOMAIN hypotheses :
                                           ~(hypotheses[i].key = h.key /\ hypotheses[i].run = h.run) }
<1>1. answers \in Seq(ToSet(answers)) /\ \A i \in DOMAIN answers : answers[i].run = p[1]
  BY DEF AnswersInv, PassesTyped, PassOK, IsSequence
<1>2. Fresh(answers) = Among(answers, S)
  BY DEF Fresh
<1> HIDE DEF answers, S
<1>3. /\ Among(answers, S) \in Seq(ToSet(answers))
      /\ \A j \in DOMAIN Among(answers, S) : \E i \in DOMAIN answers : Among(answers, S)[j] = answers[i]
  BY <1>1, AmongElements
<1>4. \A j \in DOMAIN Among(answers, S) : Among(answers, S)[j].run = p[1]
  BY <1>1, <1>3
<1> QED BY <1>2, <1>3, <1>4 DEF answers

\* Storing appends to what is on record, in the name of the pass's run, which was not.
LEMMA StoreAppends ==
  ASSUME AnswersInv, NEW p \in Passes, Store(p)
  PROVE  /\ IsSequence(hypotheses')
         /\ IsPrefix(hypotheses, hypotheses')
         /\ \A i \in DOMAIN hypotheses' \ DOMAIN hypotheses : hypotheses'[i].run \notin done
<1> DEFINE fresh == Fresh(pass[p].answers)
<1>1. IsSequence(hypotheses)
  BY DEF AnswersInv
<1>2. CASE ~Storable(p[1])
  <2>1. hypotheses' = hypotheses
    BY <1>2 DEF Store
  <2>2. IsPrefix(hypotheses, hypotheses)
    BY <1>1 DEF IsPrefix, IsSequence
  <2> QED BY <1>1, <2>1, <2>2
<1>3. CASE Storable(p[1])
  <2>1. hypotheses' = hypotheses \o fresh /\ p[1] \notin done
    BY <1>3 DEF Store, Storable
  <2>2. fresh \in Seq(ToSet(pass[p].answers)) /\ \A i \in DOMAIN fresh : fresh[i].run = p[1]
    BY FreshAnswers
  <2> HIDE DEF fresh
  <2> DEFINE T == ToSet(hypotheses) \cup ToSet(pass[p].answers)
  <2>3. hypotheses \in Seq(T) /\ fresh \in Seq(T)
    <3>1. ToSet(hypotheses) \subseteq T /\ ToSet(pass[p].answers) \subseteq T
      OBVIOUS
    <3> HIDE DEF T
    <3> QED BY <1>1, <2>2, <3>1 DEF IsSequence
  <2> HIDE DEF T
  <2> DEFINE both == hypotheses \o fresh
  <2>4. /\ both \in Seq(T) /\ Len(both) = Len(hypotheses) + Len(fresh)
        /\ \A i \in 1 .. Len(hypotheses) : both[i] = hypotheses[i]
        /\ \A i \in 1 .. Len(fresh) : both[Len(hypotheses) + i] = fresh[i]
    BY <2>3
  <2> HIDE DEF both
  <2>5. /\ Len(hypotheses) \in Nat /\ Len(fresh) \in Nat /\ Len(both) \in Nat
        /\ DOMAIN hypotheses = 1 .. Len(hypotheses) /\ DOMAIN fresh = 1 .. Len(fresh)
        /\ DOMAIN both = 1 .. Len(both)
    BY <2>3, <2>4
  <2>6. IsPrefix(hypotheses, both)
    BY <2>3, <2>4, <2>5 DEF IsPrefix
  <2>7. ASSUME NEW i \in DOMAIN both \ DOMAIN hypotheses PROVE both[i].run = p[1]
    <3> DEFINE j == i - Len(hypotheses)
    <3>1. j \in 1 .. Len(fresh) /\ i = Len(hypotheses) + j
      BY <2>4, <2>5
    <3> HIDE DEF j
    <3> QED BY <2>2, <2>4, <2>5, <3>1
  <2> QED BY <2>1, <2>4, <2>6, <2>7, SequenceOfItsOwn DEF both
<1> QED BY <1>2, <1>3

\* No other step touches what is on record.
LEMMA OthersRecordNothing ==
  ASSUME FailuresNext
  PROVE  UNCHANGED hypotheses \/ \E p \in Passes : Store(p)
  BY DEF FailuresNext, Verify, Finish, Begin, Group, Find, Record, Ask, Crash

\* Every step keeps the passes typed.
LEMMA PassesStayTyped ==
  ASSUME PassesTyped, [FailuresNext]_failuresVars
  PROVE  PassesTyped'
<1>1. ASSUME UNCHANGED pass PROVE PassesTyped'
  BY <1>1 DEF PassesTyped, PassOK
<1>2. ASSUME NEW r \in Runs, Verify(r) \/ Finish(r) PROVE PassesTyped'
  BY <1>1, <1>2 DEF Verify, Finish
<1>3. ASSUME NEW r \in Runs, NEW a \in Attempts, Begin(r, a) PROVE PassesTyped'
  <2> DEFINE p == <<r, a>>
             row == IF r \in done THEN [Idle EXCEPT !.at = "replayed"]
                    ELSE [Idle EXCEPT !.at = "read", !.failures = RecentFailures]
  <2>1. p \in Passes
    BY DEF Passes
  <2>2. PassOK(p, row)
    BY IdleFields DEF PassOK
  <2> QED BY <1>3, <2>1, <2>2, OnePassMoves DEF Begin
<1>4. ASSUME NEW p \in Passes, NEW at, Ends(p, at) PROVE PassesTyped'
  BY <1>4, IdleFields, OnePassMoves DEF Ends
<1>5. ASSUME NEW p \in Passes, Group(p) \/ Find(p) \/ Record(p) \/ Crash(p) PROVE PassesTyped'
  <2>1. DOMAIN pass = Passes /\ PassOK(p, pass[p])
    BY DEF PassesTyped
  <2>2. ASSUME NEW row, DOMAIN row = DOMAIN Idle, row.answers = pass[p].answers,
               pass' = [pass EXCEPT ![p] = row]
        PROVE  PassesTyped'
    BY <2>1, <2>2, OnePassMoves DEF PassOK
  <2>3. CASE Group(p)
    <3>1. CASE pass[p].failures = <<>>
      BY <1>4, <2>3, <3>1 DEF Group
    <3>2. CASE pass[p].failures # <<>>
      <4> DEFINE triaged == Triage(pass[p].failures)
                 row == [pass[p] EXCEPT !.at = "grouped", !.triaged = triaged,
                                        !.asking = ToAsk(triaged, Previous)]
      <4>1. pass' = [pass EXCEPT ![p] = row]
        BY <2>3, <3>2 DEF Group
      <4>2. DOMAIN row = DOMAIN Idle /\ row.answers = pass[p].answers
        BY <2>1 DEF PassOK
      <4> HIDE DEF row
      <4> QED BY <2>2, <4>1, <4>2
    <3> QED BY <3>1, <3>2
  <2>4. CASE Find(p)
    <3> DEFINE row == [pass[p] EXCEPT !.at = "found",
                         !.found = [key \in DOMAIN clusters |-> clusters[key].members]]
    <3>1. pass' = [pass EXCEPT ![p] = row]
      BY <2>4 DEF Find
    <3>2. DOMAIN row = DOMAIN Idle /\ row.answers = pass[p].answers
      BY <2>1 DEF PassOK
    <3> HIDE DEF row
    <3> QED BY <2>2, <3>1, <3>2
  <2>5. CASE Record(p)
    <3>1. CASE Collides(pass[p].triaged, pass[p].found)
      BY <1>4, <2>5, <3>1 DEF Record
    <3>2. CASE ~Collides(pass[p].triaged, pass[p].found)
      <4> DEFINE row == [pass[p] EXCEPT !.at = "asking", !.found = <<>>]
      <4>1. pass' = [pass EXCEPT ![p] = row]
        BY <2>5, <3>2 DEF Record
      <4>2. DOMAIN row = DOMAIN Idle /\ row.answers = pass[p].answers
        BY <2>1 DEF PassOK
      <4> HIDE DEF row
      <4> QED BY <2>2, <4>1, <4>2
    <3> QED BY <3>1, <3>2
  <2>6. CASE Crash(p)
    <3> DEFINE row == [pass[p] EXCEPT !.at = "gone"]
    <3>1. pass' = [pass EXCEPT ![p] = row]
      BY <2>6 DEF Crash, Moves
    <3>2. DOMAIN row = DOMAIN Idle /\ row.answers = pass[p].answers
      BY <2>1 DEF PassOK
    <3> HIDE DEF row
    <3> QED BY <2>2, <3>1, <3>2
  <2> QED BY <1>5, <2>3, <2>4, <2>5, <2>6
<1>6. ASSUME NEW p \in Passes, Ask(p) PROVE PassesTyped'
  <2>1. DOMAIN pass = Passes /\ PassOK(p, pass[p])
    BY DEF PassesTyped
  <2>2. PICK answer \in Answers :
          LET cluster == Head(pass[p].asking)
          IN  pass' = [pass EXCEPT
                ![p].asking = Tail(@),
                ![p].answers = Append(@, [key |-> cluster.key, run |-> p[1], answer |-> answer,
                                          runs |-> Cardinality(RunsOf(cluster))])]
    BY <1>6 DEF Ask
  <2> DEFINE cluster == Head(pass[p].asking)
             told == [key |-> cluster.key, run |-> p[1], answer |-> answer,
                      runs |-> Cardinality(RunsOf(cluster))]
             row == [pass[p] EXCEPT !.asking = Tail(@), !.answers = Append(@, told)]
  <2>3. pass' = [pass EXCEPT ![p] = row]
    BY <2>2
  <2>4. told.run = p[1]
    OBVIOUS
  <2> HIDE DEF told
  <2>5. DOMAIN row = DOMAIN Idle /\ row.answers = Append(pass[p].answers, told)
    BY <2>1, IdleFields DEF PassOK
  <2> HIDE DEF row
  <2>6. IsSequence(pass[p].answers) /\ \A i \in DOMAIN pass[p].answers : pass[p].answers[i].run = p[1]
    BY <2>1 DEF PassOK
  <2>7. IsSequence(row.answers) /\ \A i \in DOMAIN row.answers : row.answers[i].run = p[1]
    <3> DEFINE old == pass[p].answers
    <3> HIDE DEF old
    <3>1. /\ IsSequence(Append(old, told)) /\ DOMAIN Append(old, told) = 1 .. Len(old) + 1
          /\ DOMAIN old = 1 .. Len(old) /\ Len(old) \in Nat
          /\ Append(old, told)[Len(old) + 1] = told
          /\ \A i \in DOMAIN old : Append(old, told)[i] = old[i]
      BY <2>6, AppendedIsSequence DEF old
    <3>2. \A i \in 1 .. Len(old) + 1 : i \in 1 .. Len(old) \/ i = Len(old) + 1
      BY <3>1
    <3>3. \A i \in DOMAIN Append(old, told) : Append(old, told)[i].run = p[1]
      BY <2>4, <2>6, <3>1, <3>2 DEF old
    <3> QED BY <2>5, <3>1, <3>3 DEF old
  <2> QED BY <2>3, <2>5, <2>7, OnePassMoves DEF PassOK
<1>7. ASSUME NEW p \in Passes, Store(p) PROVE PassesTyped'
  BY <1>4, <1>7 DEF Store
<1>8. CASE UNCHANGED failuresVars
  BY <1>1, <1>8 DEF failuresVars
<1> QED BY <1>2, <1>3, <1>5, <1>6, <1>7, <1>8 DEF FailuresNext

\* What is on record of any run stays, and once a run's analysis is on record no attempt
\* adds an answer in its name: a pass answers for its own run, and stores only while the
\* idempotency record of that run is not there.
THEOREM ReplaysAddNothing == FailuresSpec => ReplayAddsNothing
<1> DEFINE Adds == /\ IsPrefix(hypotheses, hypotheses')
                   /\ \A i \in DOMAIN hypotheses' \ DOMAIN hypotheses : hypotheses'[i].run \notin done
<1>1. FailuresInit => AnswersInv
  <2> SUFFICES ASSUME FailuresInit PROVE AnswersInv
    OBVIOUS
  <2>1. pass = [p \in Passes |-> Idle] /\ hypotheses = << >>
    BY DEF FailuresInit
  <2>2. PassesTyped
    BY <2>1, IdleFields DEF PassesTyped
  <2>3. IsSequence(<< >>)
    BY DEF IsSequence, ToSet
  <2> QED BY <2>1, <2>2, <2>3 DEF AnswersInv
<1>2. AnswersInv /\ [FailuresNext]_failuresVars => AnswersInv' /\ Adds
  <2> SUFFICES ASSUME AnswersInv, [FailuresNext]_failuresVars PROVE AnswersInv' /\ Adds
    OBVIOUS
  <2>1. PassesTyped'
    BY PassesStayTyped DEF AnswersInv
  <2>2. CASE UNCHANGED hypotheses
    BY <2>1, <2>2 DEF AnswersInv, IsPrefix
  <2>3. ASSUME NEW p \in Passes, Store(p) PROVE AnswersInv' /\ Adds
    BY <2>1, <2>3, StoreAppends DEF AnswersInv
  <2> QED BY <2>2, <2>3, OthersRecordNothing DEF failuresVars
<1>3. FailuresSpec => [][Adds]_failuresVars
  BY <1>1, <1>2, PTL DEF FailuresSpec
<1> QED BY <1>3 DEF ReplayAddsNothing

\* One cluster per key.
OnePerKey(triaged) ==
  /\ \A c \in triaged : {"key", "members"} \subseteq DOMAIN c
  /\ \A c, d \in triaged : c.key = d.key => c = d

\* A live pass is of a finished run, whose failures it carries from place to place.
Carries(p, row) ==
  /\ row.at \in {"read", "grouped", "found", "asking"} => p[1] \in finished
  /\ row.at = "read" => Reads(p[1], row.failures)
  /\ row.at \in {"grouped", "found"} => Triages(p[1], row.triaged) /\ OnePerKey(row.triaged)
  /\ row.at = "asking" => Stores(p[1], clusters)

PassesCarry == \A p \in Passes : Carries(p, pass[p])

DoneStored == done \subseteq finished /\ \A r \in done : Stores(r, clusters)

GroupedInv == ResultsTyped /\ PassesTyped /\ PassesCarry /\ DoneStored

ReportsFit(longest) == \A r \in Runs : Len(results[r]) <= longest

\* Triage loses no failure and makes one cluster of a key.
LEMMA TriageKeepsAll ==
  ASSUME NEW r, NEW signals, Reads(r, signals)
  PROVE  Triages(r, Triage(signals)) /\ OnePerKey(Triage(signals))
<1>1. \A key : Cluster(key, signals).key = key /\ {"key", "members"} \subseteq DOMAIN Cluster(key, signals)
  BY DEF Cluster
<1>2. \A key : \A i \in DOMAIN signals : Key(signals[i]) = key =>
        <<signals[i].run, signals[i].criterion>> \in Cluster(key, signals).members
  BY DEF Cluster
<1>3. OnePerKey(Triage(signals))
  BY <1>1 DEF OnePerKey, Triage
<1>4. ASSUME NEW i \in DOMAIN results[r], IsFailure(results[r][i])
      PROVE  \E c \in Triage(signals) : /\ c.key = Key(Signal(r, results[r][i]))
                                        /\ <<r, results[r][i].criterion>> \in c.members
  <2>1. PICK j \in DOMAIN signals : signals[j] = Signal(r, results[r][i])
    BY <1>4 DEF Reads
  <2>2. signals[j].run = r /\ signals[j].criterion = results[r][i].criterion
    BY <2>1 DEF Signal
  <2>3. Cluster(Key(signals[j]), signals) \in Triage(signals)
    BY DEF Triage
  <2> QED BY <1>1, <1>2, <2>1, <2>2, <2>3
<1> QED BY <1>3, <1>4 DEF Triages

\* A recorded cluster has the members it had, and those of the pass that recorded it.
LEMMA RecordKeepsAll ==
  ASSUME NEW p \in Passes, Record(p), Carries(p, pass[p]), NEW r, Stores(r, clusters) \/ r = p[1],
         ~Collides(pass[p].triaged, pass[p].found)
  PROVE  Stores(r, clusters')
<1> DEFINE triaged == pass[p].triaged
           keys == { c.key : c \in triaged }
           by == [key \in keys |-> CHOOSE c \in triaged : c.key = key]
           new == [key \in keys |-> IF key \notin DOMAIN clusters THEN by[key]
                                    ELSE Merged(clusters[key], by[key])]
<1>1. Triages(p[1], triaged) /\ OnePerKey(triaged)
  BY DEF Carries, Record
<1>2. clusters' = [key \in keys \cup DOMAIN clusters |->
                    IF key \notin keys THEN clusters[key]
                    ELSE IF key \notin DOMAIN clusters THEN by[key] ELSE Merged(clusters[key], by[key])]
  BY DEF Record
<1>3. /\ DOMAIN clusters' = keys \cup DOMAIN clusters
      /\ \A key \in keys : clusters'[key] = new[key]
      /\ \A key \in DOMAIN clusters \ keys : clusters'[key] = clusters[key]
  <2> HIDE DEF by, keys
  <2> QED BY <1>2
<1>4. \A c \in triaged : c.key \in keys /\ by[c.key] = c
  BY <1>1 DEF OnePerKey
<1>5. ASSUME NEW c \in triaged
      PROVE  /\ c.key \in DOMAIN clusters' /\ c.members \subseteq clusters'[c.key].members
             /\ c.key \in DOMAIN clusters => clusters[c.key].members \subseteq clusters'[c.key].members
  <2>1. c.key \in keys /\ by[c.key] = c /\ clusters'[c.key] = new[c.key]
    BY <1>3, <1>4
  <2>2. "members" \in DOMAIN c
    BY <1>1 DEF OnePerKey
  <2> HIDE DEF by
  <2>3. new[c.key] = IF c.key \in DOMAIN clusters THEN Merged(clusters[c.key], c) ELSE c
    BY <2>1
  <2>4. \A old : Merged(old, c).members = c.members \cup old.members
    BY <2>2 DEF Merged
  <2> QED BY <1>3, <2>1, <2>3, <2>4
<1>6. \A key \in DOMAIN clusters : clusters[key].members \subseteq clusters'[key].members
  BY <1>3, <1>5
<1> SUFFICES ASSUME NEW i \in DOMAIN results[r], IsFailure(results[r][i])
             PROVE  LET key == Key(Signal(r, results[r][i]))
                    IN  key \in DOMAIN clusters' /\ <<r, results[r][i].criterion>> \in clusters'[key].members
  BY DEF Stores, Record
<1>7. CASE Stores(r, clusters)
  BY <1>3, <1>6, <1>7 DEF Stores
<1>8. CASE r = p[1]
  <2>1. PICK c \in triaged : /\ c.key = Key(Signal(r, results[r][i]))
                             /\ <<r, results[r][i].criterion>> \in c.members
    BY <1>1, <1>8 DEF Triages
  <2> QED BY <1>5, <2>1
<1> QED BY <1>7, <1>8

\* A step that leaves the results of finished runs alone and only adds to the clusters
\* keeps what the passes carry and what is on record.
LEMMA OthersCarryOn ==
  ASSUME GroupedInv, finished \subseteq finished',
         \A r \in finished : results'[r] = results[r],
         \A r \in finished : Stores(r, clusters) => Stores(r, clusters'),
         NEW p \in Passes, pass'[p] = pass[p]
  PROVE  Carries(p, pass[p])'
<1>1. Carries(p, pass[p])
  BY DEF GroupedInv, PassesCarry
<1>2. CASE p[1] \in finished
  <2>1. results'[p[1]] = results[p[1]] /\ p[1] \in finished'
    BY <1>2
  <2>2. Stores(p[1], clusters) => Stores(p[1], clusters)'
    BY <1>2, <2>1 DEF Stores
  <2> QED BY <1>1, <2>1, <2>2 DEF Carries, Reads, Triages, OnePerKey
<1>3. CASE p[1] \notin finished
  BY <1>1, <1>3 DEF Carries
<1> QED BY <1>2, <1>3

\* The same for a step of one pass, which carries on itself.
LEMMA OnePassCarries ==
  ASSUME GroupedInv, NEW p \in Passes, UNCHANGED <<results, finished>>,
         \A r \in finished : Stores(r, clusters) => Stores(r, clusters'),
         \A q \in Passes \ {p} : pass'[q] = pass[q],
         PassesTyped', Carries(p, pass[p])', UNCHANGED done
  PROVE  GroupedInv'
<1>1. ResultsTyped'
  BY DEF GroupedInv, ResultsTyped, IsSequence
<1>2. ASSUME NEW q \in Passes PROVE Carries(q, pass[q])'
  BY <1>2, OthersCarryOn
<1>3. DoneStored'
  BY DEF GroupedInv, DoneStored, Stores
<1> QED BY <1>1, <1>2, <1>3 DEF GroupedInv, PassesCarry

\* Every step keeps what the passes carry, and whose analysis is on record is grouped.
LEMMA GroupedStays ==
  ASSUME GroupedInv, FailuresNext,
         NEW Longest \in Nat, Cardinality(Runs) * Longest <= BatchLimit, ReportsFit(Longest)
  PROVE  GroupedInv'
<1>0. PassesTyped' /\ DOMAIN pass = Passes /\ ResultsTyped /\ \A p \in Passes : DOMAIN pass[p] = DOMAIN Idle
  BY PassesStayTyped DEF GroupedInv, PassesTyped, PassOK
<1>1. ASSUME NEW r \in Runs, Verify(r) PROVE GroupedInv'
  <2>1. PICK report \in Reports(r) : results' = [results EXCEPT ![r] = report]
    BY <1>1 DEF Verify
  <2>2. r \notin finished /\ UNCHANGED <<finished, clusters, done, pass>>
    BY <1>1 DEF Verify
  <2>3. /\ results'[r] = report /\ DOMAIN results' = Runs
        /\ \A other \in Runs \ {r} : results'[other] = results[other]
    BY <1>0, <2>1 DEF ResultsTyped
  <2>4. IsSequence(report)
    BY FailuresAssumption DEF IsSequence
  <2>5. ResultsTyped'
    BY <1>0, <2>2, <2>3, <2>4 DEF ResultsTyped, IsSequence
  <2>6. \A other \in finished : results'[other] = results[other]
    BY <1>0, <2>2, <2>3 DEF ResultsTyped
  <2>7. ASSUME NEW p \in Passes PROVE Carries(p, pass[p])'
    BY <2>2, <2>6, <2>7, OthersCarryOn
  <2>8. DoneStored'
    BY <2>2, <2>6 DEF GroupedInv, DoneStored, Stores
  <2> QED BY <1>0, <2>5, <2>7, <2>8 DEF GroupedInv, PassesCarry
<1>2. ASSUME NEW r \in Runs, Finish(r) PROVE GroupedInv'
  <2>1. finished' = finished \cup {r} /\ UNCHANGED <<results, clusters, done, pass>>
    BY <1>2 DEF Finish
  <2>2. ResultsTyped'
    BY <1>0, <2>1 DEF ResultsTyped, IsSequence
  <2>3. ASSUME NEW p \in Passes PROVE Carries(p, pass[p])'
    BY <2>1, <2>3, OthersCarryOn
  <2>4. DoneStored'
    BY <2>1 DEF GroupedInv, DoneStored, Stores
  <2> QED BY <1>0, <2>2, <2>3, <2>4 DEF GroupedInv, PassesCarry
<1>3. ASSUME NEW r \in Runs, NEW a \in Attempts, Begin(r, a) PROVE GroupedInv'
  <2> DEFINE p == <<r, a>>
  <2>1. p \in Passes /\ p[1] = r
    BY DEF Passes
  <2>2. r \in finished /\ UNCHANGED <<results, finished, clusters, done>>
    BY <1>3 DEF Begin, MayBegin
  <2>3. \A q \in Passes \ {p} : pass'[q] = pass[q]
    BY <1>0, <1>3 DEF Begin
  <2>4. Reads(r, RecentFailures)
    BY <1>0, RecentHasAll DEF ReportsFit
  <2>5. \/ pass'[p].at = "replayed"
        \/ pass'[p].at = "read" /\ pass'[p].failures = RecentFailures
    BY <1>0, <1>3, <2>1, IdleFields DEF Begin
  <2> HIDE DEF p
  <2>6. Carries(p, pass[p])'
    BY <2>1, <2>2, <2>4, <2>5 DEF Carries, Reads
  <2> QED BY <1>0, <2>1, <2>2, <2>3, <2>6, OnePassCarries
<1>4. ASSUME NEW p \in Passes, Group(p) PROVE GroupedInv'
  <2>1. UNCHANGED <<results, finished, clusters, done>> /\ pass[p].at = "read"
    BY <1>4 DEF Group
  <2>2. \A q \in Passes \ {p} : pass'[q] = pass[q]
    BY <1>0, <1>4 DEF Group, Ends
  <2>3. p[1] \in finished /\ Reads(p[1], pass[p].failures)
    BY <2>1 DEF GroupedInv, PassesCarry, Carries
  <2>4. \/ pass'[p].at = "over"
        \/ pass'[p].at = "grouped" /\ pass'[p].triaged = Triage(pass[p].failures)
    BY <1>0, <1>4, IdleFields DEF Group, Ends
  <2>5. Triages(p[1], Triage(pass[p].failures)) /\ OnePerKey(Triage(pass[p].failures))
    BY <2>3, TriageKeepsAll
  <2>6. Carries(p, pass[p])'
    BY <2>1, <2>3, <2>4, <2>5 DEF Carries, Triages
  <2> QED BY <1>0, <2>1, <2>2, <2>6, OnePassCarries
<1>5. ASSUME NEW p \in Passes, Find(p) PROVE GroupedInv'
  <2>1. UNCHANGED <<results, finished, clusters, done>> /\ pass[p].at = "grouped"
    BY <1>5 DEF Find
  <2>2. \A q \in Passes \ {p} : pass'[q] = pass[q]
    BY <1>0, <1>5 DEF Find
  <2>3. pass'[p].at = "found" /\ pass'[p].triaged = pass[p].triaged
    BY <1>0, <1>5, IdleFields DEF Find
  <2>4. Carries(p, pass[p])
    BY DEF GroupedInv, PassesCarry
  <2>5. Carries(p, pass[p])'
    BY <2>1, <2>3, <2>4 DEF Carries, Triages, OnePerKey
  <2> QED BY <1>0, <2>1, <2>2, <2>5, OnePassCarries
<1>6. ASSUME NEW p \in Passes, Record(p) PROVE GroupedInv'
  <2>1. UNCHANGED <<results, finished, done>> /\ pass[p].at = "found"
    BY <1>6 DEF Record
  <2>2. \A q \in Passes \ {p} : pass'[q] = pass[q]
    BY <1>0, <1>6 DEF Record, Ends
  <2>3. Carries(p, pass[p])
    BY DEF GroupedInv, PassesCarry
  <2>4. CASE Collides(pass[p].triaged, pass[p].found)
    <3>1. pass'[p].at = "lost" /\ clusters' = clusters
      BY <1>0, <1>6, <2>4, IdleFields DEF Record, Ends
    <3>2. Carries(p, pass[p])'
      BY <3>1 DEF Carries
    <3> QED BY <1>0, <2>1, <2>2, <3>1, <3>2, OnePassCarries
  <2>5. CASE ~Collides(pass[p].triaged, pass[p].found)
    <3>1. pass'[p].at = "asking"
      BY <1>0, <1>6, <2>5, IdleFields DEF Record
    <3>2. \A r : Stores(r, clusters) \/ r = p[1] => Stores(r, clusters')
      BY <1>6, <2>3, <2>5, RecordKeepsAll
    <3>3. p[1] \in finished
      BY <2>1, <2>3 DEF Carries
    <3>4. Stores(p[1], clusters)'
      BY <2>1, <3>2 DEF Stores
    <3>5. Carries(p, pass[p])'
      BY <2>1, <3>1, <3>3, <3>4 DEF Carries
    <3> QED BY <1>0, <2>1, <2>2, <3>2, <3>5, OnePassCarries
  <2> QED BY <2>4, <2>5
<1>7. ASSUME NEW p \in Passes, Ask(p) PROVE GroupedInv'
  <2>1. UNCHANGED <<results, finished, clusters, done>> /\ pass[p].at = "asking"
    BY <1>7 DEF Ask
  <2>2. \A q \in Passes \ {p} : pass'[q] = pass[q]
    BY <1>0, <1>7 DEF Ask
  <2>3. pass'[p].at = "asking"
    BY <1>0, <1>7, <2>1, IdleFields DEF Ask
  <2>4. Carries(p, pass[p])
    BY DEF GroupedInv, PassesCarry
  <2>5. Carries(p, pass[p])'
    BY <2>1, <2>3, <2>4 DEF Carries, Stores
  <2> QED BY <1>0, <2>1, <2>2, <2>5, OnePassCarries
<1>8. ASSUME NEW p \in Passes, Crash(p) PROVE GroupedInv'
  <2>1. UNCHANGED <<results, finished, clusters, done>>
    BY <1>8 DEF Crash
  <2>2. \A q \in Passes \ {p} : pass'[q] = pass[q]
    BY <1>0, <1>8 DEF Crash, Moves
  <2>3. pass'[p].at = "gone"
    BY <1>0, <1>8, IdleFields DEF Crash, Moves
  <2>4. Carries(p, pass[p])'
    BY <2>3 DEF Carries
  <2> QED BY <1>0, <2>1, <2>2, <2>4, OnePassCarries
<1>9. ASSUME NEW p \in Passes, Store(p) PROVE GroupedInv'
  <2>1. UNCHANGED <<results, finished, clusters>> /\ pass[p].at = "asking"
    BY <1>9 DEF Store
  <2>2. \A q \in Passes \ {p} : pass'[q] = pass[q]
    BY <1>0, <1>9 DEF Store, Ends
  <2>3. pass'[p].at \in {"over", "replayed"}
    BY <1>0, <1>9, IdleFields DEF Store, Ends
  <2>4. p[1] \in finished /\ Stores(p[1], clusters)
    BY <2>1 DEF GroupedInv, PassesCarry, Carries
  <2>5. done' = done \/ done' = done \cup {p[1]}
    BY <1>9 DEF Store
  <2>6. DoneStored'
    BY <2>1, <2>4, <2>5 DEF GroupedInv, DoneStored, Stores
  <2>7. ResultsTyped'
    BY <1>0, <2>1 DEF ResultsTyped, IsSequence
  <2>8. ASSUME NEW q \in Passes PROVE Carries(q, pass[q])'
    <3>1. CASE q = p
      BY <2>3, <3>1 DEF Carries
    <3>2. CASE q # p
      BY <2>1, <2>2, <2>8, <3>2, OthersCarryOn
    <3> QED BY <3>1, <3>2
  <2> QED BY <1>0, <2>6, <2>7, <2>8 DEF GroupedInv, PassesCarry
<1> QED BY <1>1, <1>2, <1>3, <1>4, <1>5, <1>6, <1>7, <1>8, <1>9 DEF FailuresNext

\* As long as a batch holds the reports of all runs, a run on record as analysed has all
\* its failures in stored clusters: what a run reported stays once it is finished, each
\* pass carries the failures of its own run to the transaction that records them, and
\* members only accumulate.  Beyond a batch the oldest failures are not read at all.
THEOREM AnalysedStaysGrouped ==
  ASSUME NEW Longest \in Nat, Cardinality(Runs) * Longest <= BatchLimit,
         \A r \in Runs : \A report \in Reports(r) : Len(report) <= Longest
  PROVE  FailuresSpec => []AnalysedIsGrouped
<1> DEFINE Inv == GroupedInv /\ ReportsFit(Longest)
<1>1. FailuresInit => Inv
  <2> SUFFICES ASSUME FailuresInit PROVE Inv
    OBVIOUS
  <2>1. /\ results = [r \in Runs |-> << >>] /\ finished = {} /\ done = {}
        /\ pass = [p \in Passes |-> Idle]
    BY DEF FailuresInit
  <2>2. ResultsTyped
    BY <2>1 DEF ResultsTyped, IsSequence, ToSet
  <2>3. PassesTyped /\ PassesCarry
    BY <2>1, IdleFields DEF PassesTyped, PassesCarry, Carries
  <2>4. DoneStored /\ ReportsFit(Longest)
    BY <2>1 DEF DoneStored, ReportsFit
  <2> QED BY <2>2, <2>3, <2>4 DEF GroupedInv
<1>2. Inv /\ [FailuresNext]_failuresVars => Inv'
  <2> SUFFICES ASSUME Inv, [FailuresNext]_failuresVars PROVE Inv'
    OBVIOUS
  <2>1. CASE UNCHANGED failuresVars
    <3> USE <2>1 DEF failuresVars
    <3>1. ResultsTyped' /\ DoneStored' /\ ReportsFit(Longest)'
      BY DEF GroupedInv, ResultsTyped, IsSequence, DoneStored, Stores, ReportsFit
    <3>2. PassesTyped'
      BY DEF GroupedInv, PassesTyped, PassOK
    <3>3. ASSUME NEW p \in Passes PROVE Carries(p, pass[p])'
      BY <3>3, OthersCarryOn
    <3> QED BY <3>1, <3>2, <3>3 DEF GroupedInv, PassesCarry
  <2>2. CASE FailuresNext
    <3>1. GroupedInv'
      BY <2>2, GroupedStays
    <3>2. ASSUME NEW r \in Runs, Verify(r) PROVE ReportsFit(Longest)'
      BY <3>2 DEF Verify, ReportsFit, GroupedInv, ResultsTyped
    <3>3. UNCHANGED results => ReportsFit(Longest)'
      BY DEF ReportsFit
    <3>4. UNCHANGED results \/ \E r \in Runs : Verify(r)
      BY <2>2 DEF FailuresNext, Finish, Begin, Group, Find, Record, Ask, Store, Crash
    <3> QED BY <3>1, <3>2, <3>3, <3>4
  <2> QED BY <2>1, <2>2
<1>3. Inv => AnalysedIsGrouped
  BY DEF GroupedInv, DoneStored, Stores, AnalysedIsGrouped, Signal
<1> QED BY <1>1, <1>2, <1>3, PTL DEF FailuresSpec
=============================================================================
