---------------------- MODULE StartsExplorationProofs ----------------------
(***************************************************************************)
(* What holds of the start of a run and of one that explores.  Exploration: *)
(* for any application, policy and number of workers that die.  RunStart:   *)
(* for any number of requests, keys and versions; and Schedules, which      *)
(* extends it: requests are then the attempts of firings, which the part    *)
(* about RunStart makes no use of.                                          *)
(***************************************************************************)
EXTENDS Schedules, Exploration, FiniteSetTheorems, SequenceTheorems, WellFoundedInduction, TLAPS

-----------------------------------------------------------------------------
\* Exploration.

\* A set that holds 0 and, with every number under n, the next one, holds all up to n.
LEMMA Climb ==
  ASSUME NEW n \in Nat, NEW S, 0 \in S, \A i \in 0 .. n : i \in S /\ i < n => i + 1 \in S
  PROVE  \A i \in 0 .. n : i \in S
<1> DEFINE Bad == { i \in 0 .. n : i \notin S }
<1>1. Bad \subseteq Nat
  OBVIOUS
<1>2. SUFFICES ASSUME Bad # {} PROVE FALSE
  OBVIOUS
<1>3. PICK x \in Bad : \A y \in Bad : ~(<<y, x>> \in OpToRel(<, Nat))
  <2> HIDE DEF Bad
  <2> QED BY <1>1, <1>2, WFMin, NatLessThanWellFounded, Zenon
<1>4. x # 0 /\ x - 1 \in 0 .. n /\ x - 1 < n
  <2>1. x \in 0 .. n /\ x \notin S
    BY <1>3
  <2> QED BY <2>1
<1>5. x \in Nat /\ x - 1 \notin Bad
  <2>1. <<x - 1, x>> \in OpToRel(<, Nat)
    BY <1>3, <1>4 DEF OpToRel
  <2> QED BY <1>1, <1>3, <2>1
<1>6. x - 1 + 1 \in S
  BY <1>4, <1>5
<1>7. x - 1 + 1 = x
  BY <1>5
<1> QED BY <1>3, <1>6, <1>7

IsSequence(s) == s \in Seq(ToSet(s))

\* A sequence of anything is one of its elements.
LEMMA SequenceOfItsOwn ==
  ASSUME NEW T, NEW s \in Seq(T)
  PROVE  IsSequence(s)
<1>1. s = [i \in 1 .. Len(s) |-> s[i]] /\ Len(s) \in Nat /\ \A i \in 1 .. Len(s) : s[i] \in ToSet(s)
  BY DEF ToSet
<1> QED BY <1>1 DEF IsSequence

\* What is appended to a sequence leaves a sequence.
LEMMA AppendedIsSequence ==
  ASSUME NEW s, IsSequence(s), NEW x
  PROVE  /\ IsSequence(Append(s, x)) /\ DOMAIN Append(s, x) = 1 .. Len(s) + 1 /\ DOMAIN s = 1 .. Len(s)
         /\ Len(s) \in Nat
         /\ Append(s, x)[Len(s) + 1] = x /\ \A i \in DOMAIN s : Append(s, x)[i] = s[i]
<1> DEFINE T == ToSet(s) \cup {x}
<1>1. s \in Seq(T) /\ x \in T
  <2>1. s \in Seq(ToSet(s))
    BY DEF IsSequence
  <2> HIDE DEF T
  <2>2. ToSet(s) \subseteq T /\ x \in T
    BY DEF T
  <2> QED BY <2>1, <2>2
<1> HIDE DEF T
<1>2. /\ Append(s, x) \in Seq(T) /\ Len(Append(s, x)) = Len(s) + 1
      /\ Append(s, x)[Len(s) + 1] = x /\ \A i \in 1 .. Len(s) : Append(s, x)[i] = s[i]
  BY <1>1
<1>3. DOMAIN s = 1 .. Len(s) /\ Len(s) \in Nat
  BY <1>1
<1>4. DOMAIN Append(s, x) = 1 .. Len(s) + 1
  BY <1>2
<1> QED BY <1>2, <1>3, <1>4, SequenceOfItsOwn

\* Of the states of an application one has the least digest.
LEMMA LeastIsOne ==
  ASSUME NEW S, S \subseteq DOMAIN Digest, S # {}
  PROVE  Least(S) \in S
<1> DEFINE N == { Digest[s] : s \in S }
<1>1. \A s \in S : Digest[s] \in Nat
  BY MapAssumption
<1>2. N \subseteq Nat /\ N # {}
  BY <1>1
<1>3. PICK n \in N : \A m \in N : ~(<<m, n>> \in OpToRel(<, Nat))
  <2> HIDE DEF N
  <2> QED BY <1>2, WFMin, NatLessThanWellFounded, Zenon
<1>4. PICK s \in S : Digest[s] = n
  BY <1>3
<1>5. \A t \in S : Digest[s] <= Digest[t]
  <2> SUFFICES ASSUME NEW t \in S PROVE Digest[s] <= Digest[t]
    OBVIOUS
  <2>1. ~(<<Digest[t], n>> \in OpToRel(<, Nat))
    BY <1>3
  <2>2. Digest[t] \in Nat /\ n \in Nat
    BY <1>1, <1>4
  <2>3. ~(Digest[t] < n)
    BY <2>1, <2>2 DEF OpToRel
  <2> QED BY <1>4, <2>2, <2>3
<1> QED BY <1>5 DEF Least

\* Of finitely many one has the greatest.
LEMMA GreatestIsOne ==
  ASSUME NEW S, S \subseteq DOMAIN Digest, S # {}, IsFiniteSet(S)
  PROVE  Greatest(S) \in S
<1> DEFINE Tops(T) == \E s \in T : \A t \in T : Digest[t] <= Digest[s]
           Good(n) == \A T \in SUBSET S : Cardinality(T) = n /\ T # {} => Tops(T)
           Goods == { n \in Nat : Good(n) }
<1>1. /\ \A s \in S : Digest[s] \in Nat
      /\ \A T \in SUBSET S : IsFiniteSet(T) /\ Cardinality(T) \in Nat
  BY MapAssumption, FS_Subset, FS_CardinalityType
<1>2. 0 \in Goods
  BY <1>1, FS_EmptySet
<1>3. ASSUME NEW n \in 0 .. Cardinality(S), n \in Goods, n < Cardinality(S) PROVE n + 1 \in Goods
  <2>1. n \in Nat /\ n + 1 \in Nat
    BY <1>1
  <2>2. ASSUME NEW T \in SUBSET S, Cardinality(T) = n + 1, T # {} PROVE Tops(T)
    <3>1. PICK x \in T : TRUE
      BY <2>2
    <3> DEFINE R == T \ {x}
    <3>2. R \in SUBSET S /\ Cardinality(R) = n
      <4>1. IsFiniteSet(T)
        BY <1>1
      <4>2. Cardinality(R) = Cardinality(T) - 1
        BY <4>1, FS_RemoveElement
      <4> QED BY <2>1, <2>2, <4>2
    <3>3. CASE R = {}
      <4>1. \A t \in T : t = x
        BY <3>3
      <4>2. Digest[x] \in Nat
        BY <1>1
      <4> QED BY <4>1, <4>2
    <3>4. CASE R # {}
      <4> HIDE DEF R
      <4>1. Tops(R)
        BY <1>3, <3>2, <3>4
      <4>2. PICK s \in R : \A t \in R : Digest[t] <= Digest[s]
        BY <4>1
      <4>3. \A t \in T : t = x \/ t \in R
        BY DEF R
      <4>4. s \in T /\ Digest[s] \in Nat /\ Digest[x] \in Nat /\ \A t \in T : Digest[t] \in Nat
        BY <1>1, <3>2 DEF R
      <4>5. CASE Digest[x] <= Digest[s]
        BY <4>2, <4>3, <4>4, <4>5
      <4>6. CASE Digest[s] <= Digest[x]
        <5>1. \A t \in T : Digest[t] <= Digest[x]
          BY <4>2, <4>3, <4>4, <4>6
        <5> QED BY <5>1
      <4> QED BY <4>4, <4>5, <4>6
    <3> QED BY <3>3, <3>4
  <2>3. Good(n + 1)
    BY <2>2
  <2> HIDE DEF Good
  <2> QED BY <2>1, <2>3
<1>4. Cardinality(S) \in Nat
  BY FS_CardinalityType
<1>5. Good(Cardinality(S))
  <2> HIDE DEF Goods
  <2>1. \A n \in 0 .. Cardinality(S) : n \in Goods
    BY <1>2, <1>3, <1>4, Climb
  <2> QED BY <1>4, <2>1 DEF Goods
<1>6. Tops(S)
  BY <1>5
<1> QED BY <1>6 DEF Greatest

\* The function Changed is defined by exists, and is what its definition says.
LEMMA ChangedSteps ==
  ASSUME NEW lost, lost \subseteq DOMAIN Digest, IsFiniteSet(lost), NEW fresh
  PROVE  \E pairs : /\ pairs = [S \in SUBSET lost |->
                          IF S = {} THEN {}
                          ELSE Pair(pairs[S \ {Greatest(S)}], Greatest(S), fresh)]
                    /\ Changed(lost, fresh) = pairs[lost]
<1> DEFINE More(was, x) == Pair(was, x, fresh)
           Small(n) == { S \in SUBSET lost : Cardinality(S) <= n }
           Defines(h, D) == h = [S \in D |->
                          IF S = {} THEN {} ELSE More(h[S \ {Greatest(S)}], Greatest(S))]
           Defined == { n \in Nat : \E h : Defines(h, Small(n)) }
<1>1. \A S \in SUBSET lost : IsFiniteSet(S) /\ Cardinality(S) \in Nat /\ (Cardinality(S) = 0 <=> S = {})
  BY FS_Subset, FS_CardinalityType, FS_EmptySet
<1>2. \A S \in SUBSET lost : S # {} =>
        /\ S \ {Greatest(S)} \in SUBSET lost
        /\ Cardinality(S \ {Greatest(S)}) = Cardinality(S) - 1
  BY <1>1, GreatestIsOne, FS_RemoveElement
<1> HIDE DEF More
<1>3. 0 \in Defined
  <2>1. Small(0) = {{}}
    BY <1>1
  <2> DEFINE h == [S \in {{}} |-> {}]
  <2>2. Defines(h, {{}})
    OBVIOUS
  <2> HIDE DEF h
  <2> QED BY <2>1, <2>2
<1>4. ASSUME NEW n \in Defined PROVE n + 1 \in Defined
  <2>1. PICK h : Defines(h, Small(n))
    BY <1>4
  <2> DEFINE k == [S \in Small(n + 1) |->
                     IF S = {} THEN {} ELSE More(h[S \ {Greatest(S)}], Greatest(S))]
  <2>2. n \in Nat /\ Small(n) \subseteq Small(n + 1)
    BY <1>1, <1>4
  <2>3. \A S \in Small(n) : k[S] = h[S]
    BY <2>1, <2>2
  <2>4. \A S \in Small(n + 1) : S # {} => S \ {Greatest(S)} \in Small(n)
    BY <1>1, <1>2, <2>2
  <2>5. \A S \in Small(n + 1) : k[S] = IF S = {} THEN {} ELSE More(k[S \ {Greatest(S)}], Greatest(S))
    <3> HIDE DEF Small
    <3> SUFFICES ASSUME NEW S \in Small(n + 1)
                 PROVE  k[S] = IF S = {} THEN {} ELSE More(k[S \ {Greatest(S)}], Greatest(S))
      OBVIOUS
    <3>1. k[S] = IF S = {} THEN {} ELSE More(h[S \ {Greatest(S)}], Greatest(S))
      OBVIOUS
    <3>2. S # {} => k[S \ {Greatest(S)}] = h[S \ {Greatest(S)}]
      BY <2>3, <2>4
    <3> HIDE DEF k
    <3> QED BY <3>1, <3>2
  <2>6. Defines(k, Small(n + 1))
    <3>1. k = [S \in Small(n + 1) |-> k[S]]
      OBVIOUS
    <3> HIDE DEF k, Small
    <3> QED BY <2>5, <3>1
  <2>7. n + 1 \in Nat
    BY <2>2
  <2> HIDE DEF Small, Defines
  <2> QED BY <2>6, <2>7
<1>5. Cardinality(lost) \in Defined
  <2>1. Cardinality(lost) \in Nat
    BY <1>1
  <2> HIDE DEF Defined
  <2>2. \A i \in 0 .. Cardinality(lost) : i \in Defined
    BY <1>3, <1>4, <2>1, Climb
  <2> QED BY <2>1, <2>2
<1>6. Small(Cardinality(lost)) = SUBSET lost
  <2>1. \A S \in SUBSET lost : Cardinality(S) <= Cardinality(lost)
    BY FS_Subset
  <2> QED BY <2>1
<1> DEFINE pairs == CHOOSE h : Defines(h, SUBSET lost)
<1>7. Defines(pairs, SUBSET lost)
  <2>1. \E h : Defines(h, SUBSET lost)
    <3> HIDE DEF Defines, Small
    <3> QED BY <1>5, <1>6
  <2> HIDE DEF Defines
  <2> QED BY <2>1
<1>8. Changed(lost, fresh) = pairs[lost]
  BY DEF Changed, More
<1> QED BY <1>7, <1>8 DEF More

\* What the states of S found among the fresh ones: a pair each, with a page of its route
\* nobody else found, or nothing because nothing of its route was left.
Accounted(S, pairs, fresh) ==
  /\ \A p \in pairs : p.before \in S /\ p.after \in fresh /\ p.after[1] = p.before[1]
  /\ \A p, q \in pairs : p.before = q.before \/ p.after = q.after => p = q
  /\ \A s \in S : \/ \E p \in pairs : p.before = s
                  \/ \A t \in fresh : t[1] = s[1] => \E p \in pairs : p.after = t

\* One more state finds its pair.
LEMMA PairAccounts ==
  ASSUME NEW S, NEW x, x \notin S, NEW fresh, fresh \subseteq DOMAIN Digest,
         NEW pairs, Accounted(S, pairs, fresh)
  PROVE  Accounted(S \cup {x}, Pair(pairs, x, fresh), fresh)
<1> DEFINE C == Matched(pairs, x, fresh)
           new == [before |-> x, after |-> Least(C)]
           both == Pair(pairs, x, fresh)
<1>1. \A t \in fresh : t \in C <=> t[1] = x[1] /\ \A p \in pairs : p.after # t
  BY DEF Matched
<1>2. C \subseteq fresh
  BY DEF Matched
<1>3. CASE C = {}
  <2>1. both = pairs
    BY <1>3 DEF Pair
  <2>2. \A t \in fresh : t[1] = x[1] => \E p \in pairs : p.after = t
    BY <1>1, <1>3
  <2> QED BY <2>1, <2>2 DEF Accounted
<1>4. CASE C # {}
  <2>1. both = pairs \cup {new}
    BY <1>4 DEF Pair
  <2>2. Least(C) \in C
    <3>1. C \subseteq DOMAIN Digest
      BY <1>2
    <3> HIDE DEF C
    <3> QED BY <1>4, <3>1, LeastIsOne
  <2>3. /\ new.before = x /\ new.after \in fresh /\ new.after[1] = x[1]
        /\ \A p \in pairs : p.after # new.after
    BY <1>1, <1>2, <2>2
  <2> HIDE DEF C, new, both
  <2>4. \A p \in pairs : p.before # new.before
    BY <2>3 DEF Accounted
  <2>5. \A p \in both : p.before \in S \cup {x} /\ p.after \in fresh /\ p.after[1] = p.before[1]
    BY <2>1, <2>3 DEF Accounted
  <2>6. \A p, q \in both : p.before = q.before \/ p.after = q.after => p = q
    BY <2>1, <2>3, <2>4 DEF Accounted
  <2>7. ASSUME NEW s \in S \cup {x}
        PROVE  \/ \E p \in both : p.before = s
               \/ \A t \in fresh : t[1] = s[1] => \E p \in both : p.after = t
    <3>1. CASE s = x
      BY <2>1, <2>3, <3>1
    <3>2. CASE s \in S
      BY <2>1, <3>2 DEF Accounted
    <3> QED BY <3>1, <3>2
  <2>8. Accounted(S \cup {x}, both, fresh)
    BY <2>5, <2>6, <2>7 DEF Accounted
  <2> QED BY <2>8 DEF both
<1> QED BY <1>3, <1>4

\* All of them have.
LEMMA ChangedAccounts ==
  ASSUME NEW lost, lost \subseteq DOMAIN Digest, IsFiniteSet(lost),
         NEW fresh, fresh \subseteq DOMAIN Digest
  PROVE  Accounted(lost, Changed(lost, fresh), fresh)
<1>1. PICK pairs : /\ pairs = [S \in SUBSET lost |->
                         IF S = {} THEN {}
                         ELSE Pair(pairs[S \ {Greatest(S)}], Greatest(S), fresh)]
                   /\ Changed(lost, fresh) = pairs[lost]
  BY ChangedSteps
<1> DEFINE Good(n) == \A S \in SUBSET lost : Cardinality(S) = n => Accounted(S, pairs[S], fresh)
           Goods == { n \in Nat : Good(n) }
<1>2. \A S \in SUBSET lost : IsFiniteSet(S) /\ Cardinality(S) \in Nat /\ (Cardinality(S) = 0 <=> S = {})
  BY FS_Subset, FS_CardinalityType, FS_EmptySet
<1>3. 0 \in Goods
  <2>1. pairs[{}] = {}
    BY <1>1
  <2>2. Accounted({}, {}, fresh)
    BY DEF Accounted
  <2> QED BY <1>2, <2>1, <2>2
<1>4. ASSUME NEW n \in 0 .. Cardinality(lost), n \in Goods, n < Cardinality(lost)
      PROVE  n + 1 \in Goods
  <2>1. n \in Nat /\ n + 1 \in Nat /\ n + 1 # 0
    BY <1>2
  <2>2. ASSUME NEW S \in SUBSET lost, Cardinality(S) = n + 1 PROVE Accounted(S, pairs[S], fresh)
    <3> DEFINE x == Greatest(S)
               R == S \ {x}
    <3>1. S # {} /\ IsFiniteSet(S) /\ S \subseteq DOMAIN Digest
      BY <1>2, <2>1, <2>2
    <3>2. x \in S
      BY <3>1, GreatestIsOne
    <3>3. pairs[S] = Pair(pairs[R], x, fresh)
      BY <1>1, <3>1
    <3> HIDE DEF x
    <3>4. R \in SUBSET lost /\ Cardinality(R) = n /\ R \cup {x} = S /\ x \notin R
      <4>1. Cardinality(R) = Cardinality(S) - 1
        BY <3>1, <3>2, FS_RemoveElement
      <4> QED BY <2>1, <2>2, <3>2, <4>1
    <3> HIDE DEF R
    <3>5. Accounted(R, pairs[R], fresh)
      BY <1>4, <3>4
    <3>6. Accounted(R \cup {x}, Pair(pairs[R], x, fresh), fresh)
      BY <3>4, <3>5, PairAccounts
    <3> QED BY <3>3, <3>4, <3>6
  <2>3. Good(n + 1)
    BY <2>2
  <2> HIDE DEF Good
  <2> QED BY <2>1, <2>3
<1>5. Good(Cardinality(lost))
  <2>1. Cardinality(lost) \in Nat
    BY <1>2
  <2> HIDE DEF Goods
  <2>2. \A n \in 0 .. Cardinality(lost) : n \in Goods
    BY <1>3, <1>4, <2>1, Climb
  <2> QED BY <2>1, <2>2 DEF Goods
<1> QED BY <1>1, <1>5

\* What is said of the states that are in one map only is said of each once, a page of
\* one route is not both new and gone, and one that changed gained or lost something.
EachOnce(lost, fresh, pairs, new, gone) ==
  /\ \A s \in lost : Cardinality({ p \in pairs : s \in {p.before, p.after} })
                        + (IF s \in gone THEN 1 ELSE 0) = 1
  /\ \A s \in fresh : Cardinality({ p \in pairs : s \in {p.before, p.after} })
                         + (IF s \in new THEN 1 ELSE 0) = 1
  /\ \A p \in pairs : p.before[1] = p.after[1] /\ Gained(p) \cup Lost(p) # {}
  /\ \A s \in gone, t \in new : s[1] # t[1]

\* Once accounted for, every state is in one pair or else still gone or new.
LEMMA AccountsAreSingle ==
  ASSUME NEW lost, lost \subseteq DOMAIN Digest, NEW fresh, fresh \subseteq DOMAIN Digest,
         \A s \in lost : s \notin fresh, NEW pairs, Accounted(lost, pairs, fresh),
         NEW new, \A s : s \in new <=> s \in fresh /\ \A p \in pairs : p.after # s,
         NEW gone, \A s : s \in gone <=> s \in lost /\ \A p \in pairs : p.before # s
  PROVE  EachOnce(lost, fresh, pairs, new, gone)
<1> DEFINE Of(s) == { p \in pairs : s \in {p.before, p.after} }
<1>3. ASSUME NEW s, NEW q \in pairs, s \in {q.before, q.after} PROVE Cardinality(Of(s)) = 1
  <2>1. \A p \in pairs : p.before \notin fresh /\ p.after \notin lost
    BY DEF Accounted
  <2>2. \A p \in Of(s) : p = q
    <3> SUFFICES ASSUME NEW p \in pairs, s \in {p.before, p.after} PROVE p = q
      OBVIOUS
    <3>1. p.before \in lost /\ p.after \in fresh /\ q.before \in lost /\ q.after \in fresh
      BY DEF Accounted
    <3>2. p.before = q.before \/ p.after = q.after
      BY <1>3, <3>1
    <3> QED BY <3>2 DEF Accounted
  <2>3. Of(s) = {q}
    BY <1>3, <2>2
  <2> QED BY <2>3, FS_Singleton
<1>4. ASSUME NEW s, \A p \in pairs : s \notin {p.before, p.after} PROVE Cardinality(Of(s)) = 0
  <2>1. Of(s) = {}
    BY <1>4
  <2> QED BY <2>1, FS_EmptySet
<1> HIDE DEF Of
<1>5. ASSUME NEW s \in lost PROVE Cardinality(Of(s)) + (IF s \in gone THEN 1 ELSE 0) = 1
  <2>1. CASE s \in gone
    <3>1. \A p \in pairs : p.before \in lost /\ p.after \in fresh
      BY DEF Accounted
    <3>2. \A p \in pairs : s # p.before /\ s # p.after
      BY <2>1, <3>1
    <3>3. Cardinality(Of(s)) = 0
      BY <1>4, <3>2
    <3> QED BY <2>1, <3>3
  <2>2. CASE s \notin gone
    <3>1. PICK p \in pairs : p.before = s
      BY <2>2
    <3>2. Cardinality(Of(s)) = 1
      BY <1>3, <3>1
    <3> QED BY <2>2, <3>2
  <2> QED BY <2>1, <2>2
<1>6. ASSUME NEW s \in fresh PROVE Cardinality(Of(s)) + (IF s \in new THEN 1 ELSE 0) = 1
  <2>1. CASE s \in new
    <3>1. \A p \in pairs : p.before \in lost /\ p.after \in fresh
      BY DEF Accounted
    <3>2. \A p \in pairs : s # p.before /\ s # p.after
      BY <2>1, <3>1
    <3>3. Cardinality(Of(s)) = 0
      BY <1>4, <3>2
    <3> QED BY <2>1, <3>3
  <2>2. CASE s \notin new
    <3>1. PICK p \in pairs : p.after = s
      BY <2>2
    <3>2. Cardinality(Of(s)) = 1
      BY <1>3, <3>1
    <3> QED BY <2>2, <3>2
  <2> QED BY <2>1, <2>2
<1>7. ASSUME NEW p \in pairs PROVE p.before[1] = p.after[1] /\ Gained(p) \cup Lost(p) # {}
  <2>1. p.before \in lost /\ p.after \in fresh /\ p.after[1] = p.before[1]
    BY DEF Accounted
  <2>2. p.before \in Routes \X SUBSET Labels /\ p.after \in Routes \X SUBSET Labels
    BY <2>1, MapAssumption
  <2>3. p.before # p.after
    BY <2>1
  <2>4. p.before[2] # p.after[2]
    BY <2>1, <2>2, <2>3
  <2>5. Gained(p) \cup Lost(p) # {}
    BY <2>2, <2>4 DEF Gained, Lost
  <2> QED BY <2>1, <2>5
<1>8. ASSUME NEW s \in gone, NEW t \in new PROVE s[1] # t[1]
  <2>1. s \in lost /\ t \in fresh
    OBVIOUS
  <2>2. \A p \in pairs : p.before # s /\ p.after # t
    OBVIOUS
  <2> QED BY <2>1, <2>2 DEF Accounted
<1> QED BY <1>5, <1>6, <1>7, <1>8 DEF Of, EachOnce

\* That is so of every comparison of two maps.
LEMMA ComparisonAccounts ==
  ASSUME NEW known, known \subseteq DOMAIN Digest, IsFiniteSet(known),
         NEW now, now \subseteq DOMAIN Digest,
         NEW pairs, pairs = Changed(known \ now, now \ known),
         NEW new, new = (now \ known) \ { p.after : p \in pairs },
         NEW gone, gone = (known \ now) \ { p.before : p \in pairs }
  PROVE  EachOnce(known \ now, now \ known, pairs, new, gone)
<1> DEFINE lost == known \ now
           fresh == now \ known
<1>1. /\ lost \subseteq DOMAIN Digest /\ fresh \subseteq DOMAIN Digest
      /\ \A s \in lost : s \notin fresh
      /\ \A s : s \in new <=> s \in fresh /\ \A p \in pairs : p.after # s
      /\ \A s : s \in gone <=> s \in lost /\ \A p \in pairs : p.before # s
  OBVIOUS
<1>2. Accounted(lost, pairs, fresh)
  <2>1. IsFiniteSet(lost)
    BY FS_Subset
  <2> HIDE DEF lost, fresh
  <2>2. pairs = Changed(lost, fresh)
    BY DEF lost, fresh
  <2> QED BY <1>1, <2>1, <2>2, ChangedAccounts
<1> HIDE DEF lost, fresh
<1>3. EachOnce(lost, fresh, pairs, new, gone)
  BY <1>1, <1>2, AccountsAreSingle
<1> QED BY <1>3 DEF lost, fresh

\* What holds with every element before it ends somewhere.
LEMMA Initial ==
  ASSUME NEW n \in Nat, NEW A, A \subseteq 1 .. n, \A i \in A : \A j \in 1 .. i : j \in A
  PROVE  \E m \in 0 .. n : A = 1 .. m /\ Cardinality(A) = m
<1> DEFINE Fills(k) == \E m \in 0 .. k : A \cap (1 .. k) = 1 .. m
           Good == { k \in 0 .. n : Fills(k) }
<1>1. 0 \in Good
  <2>1. Fills(0)
    OBVIOUS
  <2> QED BY <2>1
<1>2. ASSUME NEW k \in 0 .. n, k \in Good, k < n PROVE k + 1 \in Good
  <2>1. PICK m \in 0 .. k : A \cap (1 .. k) = 1 .. m
    BY <1>2
  <2>2. k + 1 \in 0 .. n /\ k \in Nat /\ m \in Nat /\ m <= k
    BY <1>2
  <2>3. CASE k + 1 \in A
    <3>1. A \cap (1 .. k + 1) = 1 .. k + 1
      BY <2>2, <2>3
    <3>2. Fills(k + 1)
      BY <2>2, <3>1
    <3> QED BY <2>2, <3>2
  <2>4. CASE k + 1 \notin A
    <3>1. \A x \in 1 .. k + 1 : x \in 1 .. k \/ x = k + 1
      BY <2>2
    <3>2. A \cap (1 .. k + 1) = A \cap (1 .. k)
      BY <2>2, <2>4, <3>1
    <3>3. m \in 0 .. k + 1
      BY <2>2
    <3>4. Fills(k + 1)
      BY <2>1, <3>2, <3>3
    <3> QED BY <2>2, <3>4
  <2> QED BY <2>3, <2>4
<1>3. \A k \in 0 .. n : k \in Good
  <2> HIDE DEF Good
  <2> QED BY <1>1, <1>2, Climb
<1>4. PICK m \in 0 .. n : A \cap (1 .. n) = 1 .. m
  BY <1>3
<1>5. A = 1 .. m
  BY <1>4
<1>6. Cardinality(1 .. m) = m
  <2>1. 1 \in Int /\ m \in Int /\ m >= 0
    OBVIOUS
  <2> QED BY <2>1, FS_Interval
<1> QED BY <1>5, <1>6

\* A queue of entries whose depths and keys are numbers, in its order.
Queue(q) ==
  /\ IsSequence(q)
  /\ \A i \in DOMAIN q : q[i].depth \in Int /\ q[i].affordance.key \in Int
  /\ \A i, j \in DOMAIN q : i < j => Ahead(q[i], q[j])

\* An entry goes in behind the last one that is ahead of it.
LEMMA InsertPlaces ==
  ASSUME NEW q, Queue(q), NEW entry, entry.depth \in Int, entry.affordance.key \in Int
  PROVE  \E m \in 0 .. Len(q) :
           /\ IsSequence(Insert(q, entry)) /\ Len(Insert(q, entry)) = Len(q) + 1
           /\ \A i \in 1 .. m : Insert(q, entry)[i] = q[i] /\ Ahead(q[i], entry)
           /\ Insert(q, entry)[m + 1] = entry
           /\ \A i \in m + 1 .. Len(q) : Insert(q, entry)[i + 1] = q[i] /\ Ahead(entry, q[i])
<1> DEFINE n == Len(q)
           A == { i \in DOMAIN q : Ahead(q[i], entry) }
<1>1. /\ q \in Seq(ToSet(q)) /\ n \in Nat /\ DOMAIN q = 1 .. n
      /\ \A i \in 1 .. n : q[i].depth \in Int /\ q[i].affordance.key \in Int
      /\ \A i, j \in 1 .. n : i < j => Ahead(q[i], q[j])
  BY DEF Queue, IsSequence
<1>2. \A i \in A : \A j \in 1 .. i : j \in A
  <2> SUFFICES ASSUME NEW i \in A, NEW j \in 1 .. i PROVE Ahead(q[j], entry) /\ j \in 1 .. n
    BY <1>1
  <2>1. j \in 1 .. n /\ i \in 1 .. n /\ (j = i \/ j < i)
    BY <1>1
  <2> QED BY <1>1, <2>1 DEF Ahead
<1>3. PICK m \in 0 .. n : A = 1 .. m /\ Cardinality(A) = m
  <2>1. A \subseteq 1 .. n
    BY <1>1
  <2> HIDE DEF A, n
  <2>2. n \in Nat
    BY <1>1
  <2> QED BY <1>2, <2>1, <2>2, Initial
<1> DEFINE c == Cardinality(A)
<1>4. Insert(q, entry) = SubSeq(q, 1, (c + 1) - 1) \o <<entry>> \o SubSeq(q, c + 1, n)
  <2>1. Insert(q, entry) = InsertAt(q, c + 1, entry)
    BY DEF Insert
  <2> HIDE DEF c
  <2> QED BY <2>1 DEF InsertAt
<1>5. c = m /\ m \in Nat /\ m <= n /\ n - m \in Nat
  BY <1>1, <1>3
<1> HIDE DEF c
<1>6. Insert(q, entry) = SubSeq(q, 1, m) \o <<entry>> \o SubSeq(q, m + 1, n)
  <2>1. (c + 1) - 1 = m /\ c + 1 = m + 1
    BY <1>5
  <2> QED BY <1>4, <2>1
<1> HIDE DEF A
<1> DEFINE T == ToSet(q) \cup {entry}
           a == SubSeq(q, 1, m)
           b == <<entry>>
           z == SubSeq(q, m + 1, n)
<1>7. q \in Seq(T) /\ entry \in T
  <2>1. ToSet(q) \subseteq T /\ entry \in T
    OBVIOUS
  <2> HIDE DEF T
  <2> QED BY <1>1, <2>1
<1> HIDE DEF T
<1>8. a \in Seq(T) /\ Len(a) = m /\ \A i \in 1 .. m : a[i] = q[i]
  BY <1>1, <1>5, <1>7
<1>9. b \in Seq(T) /\ Len(b) = 1 /\ b[1] = entry
  BY <1>7
<1>10. z \in Seq(T) /\ Len(z) = n - m /\ \A i \in 1 .. n - m : z[i] = q[m + i]
  <2>1. m + 1 \in Int /\ n \in Int /\ \A i \in m + 1 .. n : q[i] \in T
    BY <1>1, <1>5, <1>7
  <2> HIDE DEF n
  <2>2. /\ z \in Seq(T) /\ Len(z) = IF m + 1 <= n THEN n - (m + 1) + 1 ELSE 0
        /\ \A i \in 1 .. n - (m + 1) + 1 : z[i] = q[m + 1 + i - 1]
    BY <2>1, SubSeqProperties
  <2>3. n - (m + 1) + 1 = n - m /\ \A i \in 1 .. n - m : m + 1 + i - 1 = m + i
    BY <1>1, <1>5
  <2> HIDE DEF z
  <2>4. Len(z) = n - m
    BY <1>1, <1>5, <2>2, <2>3
  <2> QED BY <2>2, <2>3, <2>4
<1> HIDE DEF a, b, z
<1> DEFINE ab == a \o b
<1>11. ab \in Seq(T) /\ Len(ab) = m + 1 /\ ab[m + 1] = entry /\ \A i \in 1 .. m : ab[i] = q[i]
  <2>1. /\ ab \in Seq(T) /\ Len(ab) = Len(a) + Len(b)
        /\ \A i \in 1 .. Len(a) + Len(b) : ab[i] = IF i <= Len(a) THEN a[i] ELSE b[i - Len(a)]
    BY <1>8, <1>9, ConcatProperties
  <2> HIDE DEF ab
  <2>2. Len(a) + Len(b) = m + 1 /\ m + 1 - m = 1
    BY <1>5, <1>8, <1>9
  <2>3. \A i \in 1 .. m : ab[i] = q[i]
    BY <1>5, <1>8, <2>1, <2>2
  <2>4. ab[m + 1] = entry
    BY <1>5, <1>8, <1>9, <2>1, <2>2
  <2> QED BY <2>1, <2>2, <2>3, <2>4
<1> HIDE DEF ab
<1> DEFINE r == ab \o z
<1>12. /\ r \in Seq(T) /\ Len(r) = n + 1 
       /\ \A i \in 1 .. m + 1 : r[i] = ab[i]
       /\ \A i \in 1 .. n - m : r[m + 1 + i] = z[i]
  <2>1. /\ r \in Seq(T) /\ Len(r) = Len(ab) + Len(z)
        /\ \A i \in 1 .. Len(ab) + Len(z) : r[i] = IF i <= Len(ab) THEN ab[i] ELSE z[i - Len(ab)]
    BY <1>10, <1>11, ConcatProperties
  <2> HIDE DEF r, n
  <2>2. Len(ab) + Len(z) = n + 1
    BY <1>1, <1>5, <1>10, <1>11
  <2>3. \A i \in 1 .. m + 1 : r[i] = ab[i]
    BY <1>1, <1>5, <1>11, <2>1, <2>2
  <2>4. \A i \in 1 .. n - m : m + 1 + i \in 1 .. n + 1 /\ ~(m + 1 + i <= m + 1) /\ m + 1 + i - (m + 1) = i
    BY <1>1, <1>5
  <2>5. \A i \in 1 .. n - m : r[m + 1 + i] = z[i]
    BY <1>11, <2>1, <2>2, <2>4
  <2> QED BY <2>1, <2>2, <2>3, <2>5
<1>13. Insert(q, entry) = r
  BY <1>6 DEF r, ab, a, b, z
<1> HIDE DEF r
<1>14. \A i \in 1 .. m : r[i] = q[i] /\ Ahead(q[i], entry)
  <2> SUFFICES ASSUME NEW i \in 1 .. m PROVE r[i] = q[i] /\ Ahead(q[i], entry)
    OBVIOUS
  <2>1. i \in 1 .. m + 1 /\ i \in 1 .. n
    BY <1>1, <1>5
  <2>2. Ahead(q[i], entry)
    BY <1>3 DEF A
  <2> QED BY <1>11, <1>12, <2>1, <2>2
<1>15. r[m + 1] = entry
  BY <1>5, <1>11, <1>12
<1>16. ASSUME NEW i \in m + 1 .. n PROVE r[i + 1] = q[i] /\ Ahead(entry, q[i])
  <2> DEFINE j == i - m
  <2>1. j \in 1 .. n - m /\ m + 1 + j = i + 1 /\ m + j = i /\ i \in 1 .. n /\ i \notin 1 .. m
    BY <1>1, <1>5
  <2> HIDE DEF j
  <2>2. r[i + 1] = q[i]
    BY <1>10, <1>12, <2>1
  <2>3. ~Ahead(q[i], entry)
    BY <1>1, <1>3, <2>1 DEF A
  <2>4. Ahead(entry, q[i])
    BY <1>1, <2>1, <2>3 DEF Ahead
  <2> QED BY <2>2, <2>4
<1>17. IsSequence(r)
  BY <1>12, SequenceOfItsOwn
<1> QED BY <1>3, <1>12, <1>13, <1>14, <1>15, <1>16, <1>17

\* z is the queue q with an entry put in behind its first m.
PutAt(z, q, entry, m) ==
  \A i \in DOMAIN z :
    \/ i <= m /\ i \in DOMAIN q /\ z[i] = q[i]
    \/ i = m + 1 /\ z[i] = entry
    \/ i > m + 1 /\ i - 1 \in DOMAIN q /\ z[i] = q[i - 1]

\* An entry put into a queue leaves a queue, and every other entry where it was or one on.
LEMMA InsertKeepsQueue ==
  ASSUME NEW q, Queue(q), NEW entry, entry.depth \in Int, entry.affordance.key \in Int,
         NEW z, z = Insert(q, entry)
  PROVE  /\ Queue(z) /\ Len(z) = Len(q) + 1 /\ Len(q) \in Nat
         /\ \E m \in 0 .. Len(q) : PutAt(z, q, entry, m)
<1> DEFINE n == Len(q)
<1>1. PICK m \in 0 .. n :
        /\ IsSequence(z) /\ Len(z) = n + 1
        /\ \A i \in 1 .. m : z[i] = q[i] /\ Ahead(q[i], entry)
        /\ z[m + 1] = entry
        /\ \A i \in m + 1 .. n : z[i + 1] = q[i] /\ Ahead(entry, q[i])
  BY InsertPlaces
<1>2. /\ n \in Nat /\ DOMAIN q = 1 .. n /\ DOMAIN z = 1 .. n + 1 /\ m \in Nat /\ m <= n
      /\ \A i \in 1 .. n : q[i].depth \in Int /\ q[i].affordance.key \in Int
      /\ \A i, j \in 1 .. n : i < j => Ahead(q[i], q[j])
  BY <1>1 DEF Queue, IsSequence
<1> HIDE DEF n
<1>3. \A i \in 1 .. n + 1 :
        \/ i <= m /\ i \in 1 .. n /\ z[i] = q[i] /\ Ahead(q[i], entry)
        \/ i = m + 1 /\ z[i] = entry
        \/ i > m + 1 /\ i - 1 \in 1 .. n /\ z[i] = q[i - 1] /\ Ahead(entry, q[i - 1])
  <2> SUFFICES ASSUME NEW i \in 1 .. n + 1, i # m + 1
               PROVE  \/ i <= m /\ i \in 1 .. n /\ z[i] = q[i] /\ Ahead(q[i], entry)
                      \/ i > m + 1 /\ i - 1 \in 1 .. n /\ z[i] = q[i - 1] /\ Ahead(entry, q[i - 1])
    BY <1>1
  <2>1. CASE i <= m
    <3>1. i \in 1 .. m /\ i \in 1 .. n
      BY <1>2, <2>1
    <3> QED BY <1>1, <2>1, <3>1
  <2>2. CASE ~(i <= m)
    <3>1. i - 1 \in m + 1 .. n /\ i - 1 \in 1 .. n /\ i > m + 1 /\ (i - 1) + 1 = i
      BY <1>2, <2>2
    <3> QED BY <1>1, <3>1
  <2> QED BY <2>1, <2>2
<1>4. ASSUME NEW i \in 1 .. n + 1 PROVE z[i].depth \in Int /\ z[i].affordance.key \in Int
  BY <1>2, <1>3
<1>5. ASSUME NEW i \in 1 .. n + 1, NEW j \in 1 .. n + 1, i < j PROVE Ahead(z[i], z[j])
  <2>1. CASE j <= m
    <3>1. i \in 1 .. n /\ j \in 1 .. n /\ z[i] = q[i] /\ z[j] = q[j]
      BY <1>2, <1>3, <1>5, <2>1
    <3> QED BY <1>2, <1>5, <3>1
  <2>2. CASE j = m + 1
    <3>1. i <= m /\ z[j] = entry
      BY <1>2, <1>3, <1>5, <2>2
    <3> QED BY <1>2, <1>3, <3>1
  <2>3. CASE j > m + 1
    <3>1. j - 1 \in 1 .. n /\ z[j] = q[j - 1] /\ Ahead(entry, q[j - 1])
      <4>1. ~(j <= m) /\ j # m + 1
        BY <1>2, <2>3
      <4> QED BY <1>3, <4>1
    <3>2. CASE i <= m
      <4>1. i \in 1 .. n /\ z[i] = q[i] /\ i < j - 1
        BY <1>2, <1>3, <2>3, <3>2
      <4> QED BY <1>2, <3>1, <4>1
    <3>3. CASE i = m + 1
      BY <1>2, <1>3, <3>1, <3>3
    <3>4. CASE i > m + 1
      <4>1. i - 1 \in 1 .. n /\ z[i] = q[i - 1] /\ i - 1 < j - 1
        BY <1>2, <1>3, <1>5, <3>4
      <4> QED BY <1>2, <3>1, <4>1
    <3> QED BY <1>2, <3>2, <3>3, <3>4
  <2> QED BY <1>2, <2>1, <2>2, <2>3
<1>6. Queue(z)
  BY <1>1, <1>2, <1>4, <1>5 DEF Queue
<1>7. PutAt(z, q, entry, m)
  BY <1>2, <1>3 DEF PutAt
<1> QED BY <1>1, <1>2, <1>6, <1>7 DEF n

\* What the books of a frontier refer to: what the pages offer and what may be spent.
World == [controls |-> UNION { ToSet(site.offers[p]) : p \in DOMAIN site.offers },
          actions |-> MaxActions, depth |-> MaxDepth]

WorldOK(w) == w.depth \in Nat /\ w.actions \in Nat /\ \A a \in w.controls : a.key \in Int

EntryOK(w, e) ==
  e.depth \in 0 .. w.depth /\ e.affordance \in w.controls /\ Clickable(e.affordance)

PendingOK(w, q) ==
  /\ Queue(q)
  /\ \A i \in DOMAIN q : EntryOK(w, q[i])
  /\ \A i, j \in DOMAIN q : Key(q[i]) = Key(q[j]) => i = j

VisitedOK(states) ==
  /\ IsSequence(states) /\ IsFiniteSet(Signatures(states))
  /\ Signatures(states) \subseteq DOMAIN Digest
  /\ Cardinality(Signatures(states)) = Len(states)

FrontierOK(w, f) ==
  /\ DOMAIN f = DOMAIN EmptyFrontier
  /\ VisitedOK(f.visited)
  /\ PendingOK(w, f.pending)
  /\ \A i \in DOMAIN f.pending : Key(f.pending[i]) \in f.offered
  /\ IsFiniteSet(f.offered)
  /\ f.taken \in Nat /\ f.taken <= w.actions
  /\ f.taken + Len(f.pending) = Cardinality(f.offered)

\* From f to h entries may be offered; none is that had been, and none is taken.
Grows(f, h) ==
  /\ f.offered \subseteq h.offered
  /\ \A i \in DOMAIN h.pending :
       \/ Key(h.pending[i]) \notin f.offered
       \/ \E j \in DOMAIN f.pending : Key(f.pending[j]) = Key(h.pending[i])

\* What an affordance of a page adds to a frontier, it adds to both sides of its books.
LEMMA OfferKeeps ==
  ASSUME NEW w, WorldOK(w), NEW f, FrontierOK(w, f), NEW from, NEW a \in w.controls,
         NEW depth \in 0 .. w.depth, NEW h, h = Offer(f, from, a, depth)
  PROVE  FrontierOK(w, h) /\ Grows(f, h)
<1> DEFINE e == [from |-> from, affordance |-> a, depth |-> depth]
           k == Key(e)
<1>1. /\ DOMAIN f = {"visited", "depth", "pending", "offered", "taken", "declined"}
      /\ Queue(f.pending) /\ f.taken \in Nat /\ w.depth \in Nat
      /\ e.depth = depth /\ e.affordance = a /\ a.key \in Int /\ e.depth \in Int
  BY DEF FrontierOK, EmptyFrontier, PendingOK, WorldOK
<1>2. CASE ~Takeable(a)
  <2>1. h = [f EXCEPT !.declined = @ + 1]
    BY <1>2 DEF Offer
  <2>2. /\ DOMAIN h = DOMAIN f /\ h.visited = f.visited /\ h.pending = f.pending
        /\ h.offered = f.offered /\ h.taken = f.taken
    BY <1>1, <2>1
  <2> QED BY <2>2 DEF FrontierOK, Grows
<1>3. CASE Takeable(a) /\ k \in f.offered
  <2>1. h = f
    BY <1>3 DEF Offer
  <2> QED BY <2>1 DEF Grows
<1>4. CASE Takeable(a) /\ k \notin f.offered
  <2>1. h = [f EXCEPT !.offered = @ \cup {k}, !.pending = Insert(@, e)]
    BY <1>4 DEF Offer
  <2> DEFINE z == Insert(f.pending, e)
  <2>2. EntryOK(w, e)
    BY <1>1, <1>4 DEF EntryOK, Takeable
  <2> HIDE DEF k, e
  <2>3. /\ DOMAIN h = DOMAIN f /\ h.visited = f.visited /\ h.pending = z
        /\ h.offered = f.offered \cup {k} /\ h.taken = f.taken
    BY <1>1, <2>1
  <2>4. /\ Queue(z) /\ Len(z) = Len(f.pending) + 1 /\ Len(f.pending) \in Nat
        /\ \E m \in 0 .. Len(f.pending) : PutAt(z, f.pending, e, m)
    <3>1. e.depth \in Int /\ e.affordance.key \in Int
      BY <1>1 DEF e
    <3> QED BY <1>1, <3>1, InsertKeepsQueue
  <2> HIDE DEF z
  <2>5. PICK m \in 0 .. Len(f.pending) :
             \A i \in DOMAIN z :
                \/ i <= m /\ i \in DOMAIN f.pending /\ z[i] = f.pending[i]
                \/ i = m + 1 /\ z[i] = e
                \/ i > m + 1 /\ i - 1 \in DOMAIN f.pending /\ z[i] = f.pending[i - 1]
    BY <2>4 DEF PutAt
  <2>6. /\ \A i \in DOMAIN f.pending : EntryOK(w, f.pending[i]) /\ Key(f.pending[i]) \in f.offered
        /\ \A i, j \in DOMAIN f.pending : Key(f.pending[i]) = Key(f.pending[j]) => i = j
        /\ IsFiniteSet(f.offered) /\ f.taken + Len(f.pending) = Cardinality(f.offered)
        /\ VisitedOK(f.visited) /\ f.taken <= w.actions
    BY DEF FrontierOK, PendingOK
  <2>7. \A i \in DOMAIN z : EntryOK(w, z[i]) /\ Key(z[i]) \in f.offered \cup {k}
    BY <2>2, <2>5, <2>6 DEF k
  <2>8. \A i \in DOMAIN z : i \in Int /\ m \in Int
    <3>1. IsSequence(z) /\ Len(z) \in Nat
      BY <2>4 DEF Queue
    <3> QED BY <2>4, <3>1 DEF IsSequence
  <2>9. ASSUME NEW i \in DOMAIN z, NEW j \in DOMAIN z, Key(z[i]) = Key(z[j]) PROVE i = j
    <3>1. i \in Int /\ j \in Int /\ m \in Int
      BY <2>8
    <3>2. \A x \in DOMAIN f.pending : Key(f.pending[x]) # k
      BY <1>4, <2>6
    <3>3. CASE i = m + 1
      <4>1. z[i] = e
        BY <2>5, <3>1, <3>3
      <4> QED BY <2>5, <2>9, <3>1, <3>2, <3>3, <4>1 DEF k
    <3>4. CASE j = m + 1
      <4>1. z[j] = e
        BY <2>5, <3>1, <3>4
      <4> QED BY <2>5, <2>9, <3>1, <3>2, <3>4, <4>1 DEF k
    <3>5. CASE i # m + 1 /\ j # m + 1
      <4> DEFINE was(x) == IF x <= m THEN x ELSE x - 1
      <4>1. was(i) \in DOMAIN f.pending /\ z[i] = f.pending[was(i)]
        BY <2>5, <3>1, <3>5
      <4>2. was(j) \in DOMAIN f.pending /\ z[j] = f.pending[was(j)]
        BY <2>5, <3>1, <3>5
      <4>3. was(i) = was(j)
        BY <2>6, <2>9, <4>1, <4>2
      <4> QED BY <3>1, <3>5, <4>3
    <3> QED BY <3>3, <3>4, <3>5
  <2>10. PendingOK(w, z)
    BY <2>4, <2>7, <2>9 DEF PendingOK
  <2>11. IsFiniteSet(f.offered \cup {k}) /\ Cardinality(f.offered \cup {k}) = Cardinality(f.offered) + 1
    BY <1>4, <2>6, FS_AddElement
  <2>12. h.taken + Len(h.pending) = Cardinality(h.offered)
    BY <1>1, <2>3, <2>4, <2>6, <2>11
  <2>13. FrontierOK(w, h)
    BY <1>1, <2>3, <2>6, <2>7, <2>10, <2>11, <2>12 DEF FrontierOK
  <2>14. Grows(f, h)
    <3>1. ASSUME NEW i \in DOMAIN z
          PROVE  \/ Key(z[i]) \notin f.offered
                 \/ \E j \in DOMAIN f.pending : Key(f.pending[j]) = Key(z[i])
      BY <1>4, <2>5 DEF k
    <3> QED BY <2>3, <3>1 DEF Grows
  <2> QED BY <2>13, <2>14
<1> QED BY <1>2, <1>3, <1>4

\* The function Enqueue is defined by exists, and is what its definition says.
LEMMA EnqueueSteps ==
  ASSUME NEW f, NEW state, NEW depth, Len(state.offers) \in Nat
  PROVE  \E after : /\ after = [i \in 0 .. Len(state.offers) |->
                          IF i = 0 THEN f
                          ELSE Offer(after[i - 1], Signature(state), state.offers[i], depth)]
                    /\ Enqueue(f, state, depth) = after[Len(state.offers)]
<1> DEFINE Next1(was, i) == Offer(was, Signature(state), state.offers[i], depth)
           Defines(h, n) == h = [i \in 0 .. n |-> IF i = 0 THEN f ELSE Next1(h[i - 1], i)]
           Defined == { n \in Nat : \E h : Defines(h, n) }
<1>1. 0 \in Defined
  <2> DEFINE h == [i \in 0 .. 0 |-> f]
  <2>1. Defines(h, 0)
    OBVIOUS
  <2> QED BY <2>1
<1>2. ASSUME NEW n \in Defined PROVE n + 1 \in Defined
  <2>1. PICK h : Defines(h, n)
    BY <1>2
  <2> DEFINE k == [i \in 0 .. n + 1 |-> IF i = n + 1 THEN Next1(h[n], n + 1) ELSE h[i]]
  <2> HIDE DEF Next1
  <2>2. \A i \in 0 .. n : k[i] = h[i]
    OBVIOUS
  <2>3. \A i \in 0 .. n + 1 : k[i] = IF i = 0 THEN f ELSE Next1(k[i - 1], i)
    BY <2>1, <2>2
  <2>4. Defines(k, n + 1)
    BY <2>3
  <2>5. n + 1 \in Nat
    BY <1>2
  <2> QED BY <2>4, <2>5
<1>3. Len(state.offers) \in Defined
  <2> HIDE DEF Defined
  <2>1. \A i \in 0 .. Len(state.offers) : i \in Defined
    BY <1>1, <1>2, Climb
  <2> QED BY <2>1
<1> DEFINE after == CHOOSE h : Defines(h, Len(state.offers))
<1>4. Defines(after, Len(state.offers))
  BY <1>3
<1>5. Enqueue(f, state, depth) = after[Len(state.offers)]
  BY DEF Enqueue
<1> QED BY <1>4, <1>5

\* Entries offered to what grew may have been offered to what it grew from.
LEMMA GrowsOn ==
  ASSUME NEW f, NEW h, NEW r, Grows(f, h), Grows(h, r)
  PROVE  Grows(f, r)
<1>1. f.offered \subseteq r.offered
  BY DEF Grows
<1>2. ASSUME NEW i \in DOMAIN r.pending
      PROVE  \/ Key(r.pending[i]) \notin f.offered
             \/ \E j \in DOMAIN f.pending : Key(f.pending[j]) = Key(r.pending[i])
  <2>1. CASE Key(r.pending[i]) \notin h.offered
    BY <2>1 DEF Grows
  <2>2. CASE \E j \in DOMAIN h.pending : Key(h.pending[j]) = Key(r.pending[i])
    BY <2>2 DEF Grows
  <2> QED BY <2>1, <2>2 DEF Grows
<1> QED BY <1>1, <1>2 DEF Grows

\* A page whose affordances the application has keeps the books of the frontier.
PageOK(w, state) ==
  /\ IsSequence(state.offers) /\ ToSet(state.offers) \subseteq w.controls
  /\ Signature(state) \in DOMAIN Digest

\* Offering a page keeps the books: what enters the queue was never offered before, and
\* the frontier only grows by it.
LEMMA EnqueueKeeps ==
  ASSUME NEW w, WorldOK(w), NEW f, FrontierOK(w, f), NEW state, PageOK(w, state),
         NEW depth \in 0 .. w.depth
  PROVE  FrontierOK(w, Enqueue(f, state, depth)) /\ Grows(f, Enqueue(f, state, depth))
<1> DEFINE n == Len(state.offers)
<1>1. /\ n \in Nat /\ DOMAIN state.offers = 1 .. n
      /\ \A i \in 1 .. n : state.offers[i] \in w.controls
  <2>1. state.offers \in Seq(ToSet(state.offers)) /\ ToSet(state.offers) \subseteq w.controls
    BY DEF PageOK, IsSequence
  <2> QED BY <2>1
<1>2. PICK after : /\ after = [i \in 0 .. n |->
                         IF i = 0 THEN f
                         ELSE Offer(after[i - 1], Signature(state), state.offers[i], depth)]
                   /\ Enqueue(f, state, depth) = after[n]
  BY <1>1, EnqueueSteps
<1> DEFINE Good(h) == FrontierOK(w, h) /\ Grows(f, h)
           Goods == { i \in 0 .. n : Good(after[i]) }
<1> HIDE DEF n
<1>3. 0 \in Goods
  <2>1. after[0] = f /\ 0 \in 0 .. n
    BY <1>1, <1>2
  <2>2. Grows(f, f)
    BY DEF Grows
  <2> QED BY <2>1, <2>2
<1>4. ASSUME NEW i \in 0 .. n, i \in Goods, i < n PROVE i + 1 \in Goods
  <2> DEFINE m == i + 1
  <2>1. m \in 1 .. n /\ m \in 0 .. n /\ m # 0 /\ m - 1 = i
    BY <1>1, <1>4
  <2> HIDE DEF m
  <2>2. after[m] = Offer(after[i], Signature(state), state.offers[m], depth)
    BY <1>2, <2>1
  <2>3. state.offers[m] \in w.controls /\ FrontierOK(w, after[i]) /\ Grows(f, after[i])
    BY <1>1, <1>4, <2>1
  <2>4. FrontierOK(w, after[m]) /\ Grows(after[i], after[m])
    BY <2>2, <2>3, OfferKeeps
  <2>5. Good(after[m])
    BY <2>3, <2>4, GrowsOn
  <2>6. m \in Goods
    BY <2>1, <2>5
  <2> QED BY <2>6 DEF m
<1>5. n \in Goods
  <2> HIDE DEF Goods
  <2>1. \A i \in 0 .. n : i \in Goods
    BY <1>1, <1>3, <1>4, Climb
  <2> QED BY <1>1, <2>1
<1> QED BY <1>2, <1>5

\* A state that was not met before makes a map of one state more.
LEMMA VisitedGrows ==
  ASSUME NEW map, VisitedOK(map), NEW state, Signature(state) \in DOMAIN Digest,
         Signature(state) \notin Signatures(map)
  PROVE  VisitedOK(Append(map, state))
<1> DEFINE states == Append(map, state)
<1>1. /\ IsSequence(map) /\ IsFiniteSet(Signatures(map))
      /\ Signatures(map) \subseteq DOMAIN Digest
      /\ Cardinality(Signatures(map)) = Len(map)
  BY DEF VisitedOK
<1>2. /\ IsSequence(states) /\ DOMAIN states = 1 .. Len(map) + 1
      /\ DOMAIN map = 1 .. Len(map) /\ Len(map) \in Nat
      /\ states[Len(map) + 1] = state /\ \A i \in DOMAIN map : states[i] = map[i]
  BY <1>1, AppendedIsSequence
<1> HIDE DEF states
<1>3. Len(states) = Len(map) + 1
  BY <1>2 DEF IsSequence
<1>4. Signatures(states) = Signatures(map) \cup {Signature(state)}
  <2>1. \A i \in 1 .. Len(map) + 1 : i \in 1 .. Len(map) \/ i = Len(map) + 1
    BY <1>2
  <2>2. ASSUME NEW x \in Signatures(states) PROVE x \in Signatures(map) \cup {Signature(state)}
    <3>1. PICK i \in DOMAIN states : x = Signature(states[i])
      BY <2>2 DEF Signatures
    <3> QED BY <1>2, <2>1, <3>1 DEF Signatures
  <2>3. ASSUME NEW x \in Signatures(map) PROVE x \in Signatures(states)
    <3>1. PICK i \in DOMAIN map : x = Signature(map[i])
      BY <2>3 DEF Signatures
    <3>2. i \in DOMAIN states /\ states[i] = map[i]
      BY <1>2
    <3> QED BY <3>1, <3>2 DEF Signatures
  <2>4. Signature(state) \in Signatures(states)
    <3>1. Len(map) + 1 \in DOMAIN states
      BY <1>2
    <3> QED BY <1>2, <3>1 DEF Signatures
  <2> QED BY <2>2, <2>3, <2>4
<1>6. /\ IsFiniteSet(Signatures(states))
      /\ Cardinality(Signatures(states)) = Cardinality(Signatures(map)) + 1
  BY <1>1, <1>4, FS_AddElement
<1>7. Signatures(states) \subseteq DOMAIN Digest
  BY <1>1, <1>4
<1>8. VisitedOK(states)
  BY <1>1, <1>2, <1>3, <1>6, <1>7 DEF VisitedOK
<1> QED BY <1>8 DEF states

\* A first sighting adds one state to the map, another none.
LEMMA RecordKeeps ==
  ASSUME NEW w, WorldOK(w), MaxDepth = w.depth, NEW f, FrontierOK(w, f),
         NEW state, PageOK(w, state), NEW depth \in Nat
  PROVE  FrontierOK(w, Record(f, state, depth)) /\ Grows(f, Record(f, state, depth))
<1>0. DOMAIN f = {"visited", "depth", "pending", "offered", "taken", "declined"}
  BY DEF FrontierOK, EmptyFrontier
<1>1. CASE Seen(f, state)
  <2> DEFINE r == [f EXCEPT !.depth = [i \in DOMAIN @ |->
                    IF Signature(f.visited[i]) = Signature(state) /\ depth < @[i]
                    THEN depth ELSE @[i]]]
  <2>1. Record(f, state, depth) = r
    BY <1>1 DEF Record
  <2>2. /\ DOMAIN r = DOMAIN f /\ r.visited = f.visited /\ r.pending = f.pending
        /\ r.offered = f.offered /\ r.taken = f.taken
    BY <1>0
  <2> HIDE DEF r
  <2> QED BY <2>1, <2>2 DEF FrontierOK, Grows
<1>2. CASE ~Seen(f, state)
  <2> DEFINE met == [f EXCEPT !.visited = Append(@, state), !.depth = Append(@, depth)]
             states == Append(f.visited, state)
  <2>1. Record(f, state, depth) = IF depth < MaxDepth THEN Enqueue(met, state, depth + 1) ELSE met
    BY <1>2 DEF Record
  <2>2. /\ DOMAIN met = DOMAIN f /\ met.visited = states /\ met.pending = f.pending
        /\ met.offered = f.offered /\ met.taken = f.taken
    BY <1>0
  <2> HIDE DEF met
  <2>3. VisitedOK(states)
    BY <1>2, VisitedGrows DEF FrontierOK, PageOK, Seen
  <2> HIDE DEF states
  <2>4. FrontierOK(w, met) /\ Grows(f, met)
    BY <2>2, <2>3 DEF FrontierOK, Grows
  <2>5. CASE depth < MaxDepth
    <3>1. depth + 1 \in 0 .. w.depth
      BY <2>5 DEF WorldOK
    <3>2. FrontierOK(w, Enqueue(met, state, depth + 1)) /\ Grows(met, Enqueue(met, state, depth + 1))
      BY <2>4, <3>1, EnqueueKeeps
    <3> QED BY <2>1, <2>4, <2>5, <3>2, GrowsOn
  <2>6. CASE ~(depth < MaxDepth)
    BY <2>1, <2>4, <2>6
  <2> QED BY <2>5, <2>6
<1> QED BY <1>1, <1>2

\* One more control is read of a page.
ReadOn(found, a) ==
  LET at == CHOOSE i \in DOMAIN found : found[i].key = a.key
  IN  IF \A i \in DOMAIN found : found[i].key # a.key
      THEN IF Len(found) + 1 < MaxAffordances THEN Append(found, a)
      ELSE IF Len(found) + 1 = MaxAffordances THEN Append(found, [a EXCEPT !.to = "none"])
      ELSE found
      ELSE IF found[at].to = "none" /\ Len(found) < MaxAffordances
      THEN [found EXCEPT ![at].to = a.to]
      ELSE found

\* The function Parse is defined by exists, and is what its definition says.
LEMMA ParseSteps ==
  ASSUME NEW markup, Len(markup) \in Nat
  PROVE  \E read : /\ read = [i \in 0 .. Len(markup) |->
                         IF i = 0 THEN << >> ELSE ReadOn(read[i - 1], markup[i])]
                   /\ Parse(markup) = read[Len(markup)]
<1> DEFINE Next1(was, i) == ReadOn(was, markup[i])
           Defines(h, n) == h = [i \in 0 .. n |-> IF i = 0 THEN << >> ELSE Next1(h[i - 1], i)]
           Defined == { n \in Nat : \E h : Defines(h, n) }
<1>1. 0 \in Defined
  <2> DEFINE h == [i \in 0 .. 0 |-> << >>]
  <2>1. Defines(h, 0)
    OBVIOUS
  <2> QED BY <2>1
<1>2. ASSUME NEW n \in Defined PROVE n + 1 \in Defined
  <2>1. PICK h : Defines(h, n)
    BY <1>2
  <2> DEFINE k == [i \in 0 .. n + 1 |-> IF i = n + 1 THEN Next1(h[n], n + 1) ELSE h[i]]
  <2> HIDE DEF Next1
  <2>2. \A i \in 0 .. n : k[i] = h[i]
    OBVIOUS
  <2>3. \A i \in 0 .. n + 1 : k[i] = IF i = 0 THEN << >> ELSE Next1(k[i - 1], i)
    BY <2>1, <2>2
  <2>4. Defines(k, n + 1)
    BY <2>3
  <2>5. n + 1 \in Nat
    BY <1>2
  <2> QED BY <2>4, <2>5
<1>3. Len(markup) \in Defined
  <2> HIDE DEF Defined
  <2>1. \A i \in 0 .. Len(markup) : i \in Defined
    BY <1>1, <1>2, Climb
  <2> QED BY <2>1
<1> DEFINE read == CHOOSE h : Defines(h, Len(markup))
<1>4. Defines(read, Len(markup))
  BY <1>3
<1>5. Parse(markup) = read[Len(markup)]
  BY DEF Parse, ReadOn
<1> QED BY <1>4, <1>5

\* What is read of a page is made of its controls: only a URL may have been lent or missed.
LEMMA ParseKeeps ==
  ASSUME NEW pages, NEW markup \in Seq(Affordances(pages))
  PROVE  /\ Parse(markup) \in Seq(Affordances(pages))
         /\ \A x \in ToSet(Parse(markup)) : \E y \in ToSet(markup) :
              x.key = y.key /\ x.role = y.role /\ x.disabled = y.disabled
<1> DEFINE n == Len(markup)
           As(x, y) == x.key = y.key /\ x.role = y.role /\ x.disabled = y.disabled
           Good(found) == /\ found \in Seq(Affordances(pages))
                          /\ \A j \in DOMAIN found : \E i \in 1 .. n : As(found[j], markup[i])
<1>1. n \in Nat /\ DOMAIN markup = 1 .. n /\ \A i \in 1 .. n : markup[i] \in Affordances(pages)
  OBVIOUS
<1>2. PICK read : /\ read = [i \in 0 .. n |-> IF i = 0 THEN << >> ELSE ReadOn(read[i - 1], markup[i])]
                  /\ Parse(markup) = read[n]
  BY <1>1, ParseSteps
<1> HIDE DEF n
<1> DEFINE Goods == { i \in 0 .. n : Good(read[i]) }
<1>3. 0 \in Goods
  <2>1. read[0] = << >> /\ 0 \in 0 .. n
    BY <1>1, <1>2
  <2>2. Good(<< >>)
    OBVIOUS
  <2> HIDE DEF Good
  <2> QED BY <2>1, <2>2
<1>4. ASSUME NEW found, Good(found), NEW i \in 1 .. n PROVE Good(ReadOn(found, markup[i]))
  <2> DEFINE a == markup[i]
             at == CHOOSE j \in DOMAIN found : found[j].key = a.key
             r == ReadOn(found, a)
  <2>1. a \in Affordances(pages) /\ found \in Seq(Affordances(pages)) /\ As(a, a)
    BY <1>1, <1>4
  <2>2. CASE r = found
    BY <1>4, <2>2
  <2> DEFINE cut == [a EXCEPT !.to = "none"]
  <2>c. cut \in Affordances(pages) /\ As(cut, a) /\ cut.key = a.key
    BY <2>1 DEF Affordances
  <2>3. ASSUME NEW b \in {a, cut}, r = Append(found, b) PROVE Good(r)
    <3>0. b \in Affordances(pages) /\ As(b, a)
      <4> HIDE DEF cut, As
      <4> QED BY <2>1, <2>c, <2>3
    <3> HIDE DEF a, cut, As, r
    <3>1. /\ r \in Seq(Affordances(pages)) /\ DOMAIN r = 1 .. Len(found) + 1
          /\ DOMAIN found = 1 .. Len(found)
      BY <2>1, <2>3, <3>0
    <3>2. \A j \in DOMAIN r : \/ j \in DOMAIN found /\ r[j] = found[j]
                              \/ r[j] = b
      BY <2>1, <2>3, <3>1
    <3>3. \A j \in DOMAIN r : \E k \in 1 .. n : As(r[j], markup[k])
      BY <1>4, <3>0, <3>1, <3>2 DEF a
    <3> QED BY <3>1, <3>3 DEF r, a
  <2>4. CASE /\ \E j \in DOMAIN found : found[j].key = a.key
             /\ found[at].to = "none" /\ r = [found EXCEPT ![at].to = a.to]
    <3>1. at \in DOMAIN found
      BY <2>4
    <3> HIDE DEF at, a, r
    <3>2. found[at] \in Affordances(pages)
      BY <2>1, <3>1
    <3> DEFINE x == [found[at] EXCEPT !.to = a.to]
    <3>3. /\ x \in Affordances(pages) /\ x.key = found[at].key /\ x.role = found[at].role
          /\ x.disabled = found[at].disabled
      BY <2>1, <3>2 DEF Affordances
    <3>4. r = [found EXCEPT ![at] = x]
      BY <2>4
    <3> HIDE DEF x
    <3>5. r \in Seq(Affordances(pages)) /\ DOMAIN r = DOMAIN found
      BY <2>1, <3>1, <3>3, <3>4
    <3>6. \A j \in DOMAIN r : (j = at /\ r[j] = x) \/ r[j] = found[j]
      BY <3>1, <3>4, <3>5
    <3>7. PICK k \in 1 .. n : As(found[at], markup[k])
      BY <1>4, <3>1
    <3>8. As(x, markup[k])
      BY <2>4, <3>3, <3>7
    <3> HIDE DEF As
    <3>9. \A j \in DOMAIN r : \E l \in 1 .. n : As(r[j], markup[l])
      BY <1>4, <3>5, <3>6, <3>8
    <3> QED BY <3>5, <3>9 DEF r, a
  <2>5. \/ r = found \/ r = Append(found, a) \/ r = Append(found, cut)
        \/ /\ \E j \in DOMAIN found : found[j].key = a.key
           /\ found[at].to = "none" /\ r = [found EXCEPT ![at].to = a.to]
    BY DEF ReadOn
  <2> QED BY <2>2, <2>3, <2>4, <2>5
<1>5. ASSUME NEW i \in 0 .. n, i \in Goods, i < n PROVE i + 1 \in Goods
  <2> DEFINE m == i + 1
  <2>1. m \in 1 .. n /\ m \in 0 .. n /\ m # 0 /\ m - 1 = i
    BY <1>1, <1>5
  <2> HIDE DEF m
  <2>2. read[m] = ReadOn(read[i], markup[m])
    BY <1>2, <2>1
  <2>3. Good(read[i])
    BY <1>5
  <2> HIDE DEF Good
  <2>4. Good(read[m])
    BY <1>4, <2>1, <2>2, <2>3
  <2> QED BY <2>1, <2>4 DEF m
<1>6. Good(read[n])
  <2> HIDE DEF Goods
  <2>1. n \in Goods
    <3>1. \A i \in 0 .. n : i \in Goods
      BY <1>1, <1>3, <1>5, Climb
    <3> QED BY <1>1, <3>1
  <2> QED BY <2>1 DEF Goods
<1>7. \A x \in ToSet(Parse(markup)) : \E y \in ToSet(markup) : As(x, y)
  <2> HIDE DEF As
  <2>1. \A j \in DOMAIN Parse(markup) : \E i \in DOMAIN markup : As(Parse(markup)[j], markup[i])
    BY <1>1, <1>2, <1>6
  <2> QED BY <2>1 DEF ToSet
<1> QED BY <1>2, <1>6, <1>7

\* An application is closed as it is read, too.
LEMMA ReadSitesAreOK ==
  ASSUME NEW s, SiteOK(s)
  PROVE  SiteOK(AsRead(s))
<1> DEFINE r == AsRead(s)
           pages == DOMAIN s.route
           offers == [p \in DOMAIN s.offers |-> Parse(s.offers[p])]
<1>1. /\ DOMAIN s = {"start", "route", "offers", "origin", "lands", "clicks"}
      /\ s.route \in [pages -> Routes]
      /\ s.start \in pages /\ s.lands \in [pages -> pages] /\ DOMAIN s.offers = pages
      /\ \A p \in pages : s.offers[p] \in Seq(Affordances(pages))
      /\ \A p \in pages, a \in UNION { ToSet(s.offers[x]) : x \in pages } : \A b \in ToSet(s.offers[p]) :
           Clickable(a) /\ ~b.disabled /\ b.key = a.key
             => s.clicks[p][a.key] \in pages
  BY DEF SiteOK
<1>2. /\ DOMAIN r = DOMAIN s /\ r.start = s.start /\ r.route = s.route /\ r.lands = s.lands
      /\ r.clicks = s.clicks /\ r.offers = offers
  BY <1>1 DEF AsRead
<1>3. DOMAIN offers = pages /\ \A p \in pages : offers[p] = Parse(s.offers[p])
  BY <1>1
<1> HIDE DEF r, offers, pages
<1>4. \A p \in pages : offers[p] \in Seq(Affordances(pages))
  BY <1>1, <1>3, ParseKeeps
<1>5. ASSUME NEW p \in pages, NEW x \in ToSet(offers[p])
      PROVE  \E y \in ToSet(s.offers[p]) :
               x.key = y.key /\ x.role = y.role /\ x.disabled = y.disabled
  BY <1>1, <1>3, <1>5, ParseKeeps
<1>6. ASSUME NEW p \in pages, NEW q \in pages, NEW a \in ToSet(offers[q]), NEW b \in ToSet(offers[p]),
             Clickable(a), ~b.disabled, b.key = a.key
      PROVE  s.clicks[p][a.key] \in pages
  <2>1. PICK c \in ToSet(s.offers[q]) :
          a.key = c.key /\ a.role = c.role /\ a.disabled = c.disabled
    BY <1>5
  <2>2. PICK d \in ToSet(s.offers[p]) : b.key = d.key /\ b.disabled = d.disabled
    BY <1>5
  <2>3. c \in UNION { ToSet(s.offers[x]) : x \in pages }
    BY <2>1
  <2>4. Clickable(c) /\ ~d.disabled /\ d.key = c.key
    BY <1>6, <2>1, <2>2 DEF Clickable
  <2>5. s.clicks[p][c.key] \in pages
    BY <1>1, <2>2, <2>3, <2>4
  <2> QED BY <2>1, <2>5
<1>7. SiteOK(r)
  <2>1. DOMAIN r.route = pages
    BY <1>2 DEF pages
  <2>2. \A p \in pages, a \in UNION { ToSet(offers[x]) : x \in pages } : \A b \in ToSet(offers[p]) :
           Clickable(a) /\ ~b.disabled /\ b.key = a.key
             => s.clicks[p][a.key] \in pages
    BY <1>6
  <2>3. /\ DOMAIN r = {"start", "route", "offers", "origin", "lands", "clicks"}
        /\ r.route \in [DOMAIN r.route -> Routes]
        /\ r.start \in DOMAIN r.route /\ r.lands \in [DOMAIN r.route -> DOMAIN r.route]
        /\ DOMAIN r.offers = DOMAIN r.route
        /\ \A p \in DOMAIN r.route : r.offers[p] \in Seq(Affordances(DOMAIN r.route))
    BY <1>1, <1>2, <1>3, <1>4, <2>1
  <2>4. \A p \in DOMAIN r.route, a \in UNION { ToSet(r.offers[x]) : x \in DOMAIN r.route } :
          \A b \in ToSet(r.offers[p]) :
            Clickable(a) /\ ~b.disabled /\ b.key = a.key
              => r.clicks[p][a.key] \in DOMAIN r.route
    BY <1>2, <2>1, <2>2
  <2> QED BY <2>3, <2>4 DEF SiteOK
<1> QED BY <1>7 DEF r

\* What is taken leaves the queue without a trace of its key, and is what was offered.
LEMMA TakeKeeps ==
  ASSUME NEW w, NEW f, FrontierOK(w, f), f.pending # << >>, f.taken < w.actions, w.actions \in Nat
  PROVE  /\ FrontierOK(w, Take(f)) /\ Take(f).offered = f.offered
         /\ EntryOK(w, Head(f.pending)) /\ Key(Head(f.pending)) \in f.offered
         /\ \E j \in DOMAIN f.pending : f.pending[j] = Head(f.pending)
         /\ \A i \in DOMAIN Take(f).pending :
              /\ Key(Take(f).pending[i]) # Key(Head(f.pending))
              /\ \E j \in DOMAIN f.pending : f.pending[j] = Take(f).pending[i]
<1> DEFINE q == f.pending
           z == Tail(q)
<1>1. /\ DOMAIN f = {"visited", "depth", "pending", "offered", "taken", "declined"}
      /\ f.taken \in Nat /\ f.taken + Len(q) = Cardinality(f.offered)
      /\ PendingOK(w, q) /\ IsSequence(q) /\ q # << >>
      /\ \A i \in DOMAIN q : EntryOK(w, q[i]) /\ Key(q[i]) \in f.offered
      /\ \A i, j \in DOMAIN q : Key(q[i]) = Key(q[j]) => i = j
  BY DEF FrontierOK, EmptyFrontier, PendingOK, Queue
<1>2. /\ DOMAIN Take(f) = DOMAIN f /\ Take(f).visited = f.visited /\ Take(f).pending = z
      /\ Take(f).offered = f.offered /\ Take(f).taken = f.taken + 1
  BY <1>1 DEF Take
<1> HIDE DEF q
<1>3. /\ Head(q) = q[1] /\ DOMAIN q = 1 .. Len(q) /\ Len(q) \in Nat /\ Len(q) >= 1
      /\ z \in Seq(ToSet(q)) /\ Len(z) = Len(q) - 1 /\ DOMAIN z = 1 .. Len(q) - 1
      /\ \A i \in 1 .. Len(q) - 1 : z[i] = q[i + 1]
  <2>1. q \in Seq(ToSet(q)) /\ q # << >>
    BY <1>1 DEF IsSequence
  <2> QED BY <2>1
<1> HIDE DEF z
<1>4. \A i \in DOMAIN z : i + 1 \in DOMAIN q /\ z[i] = q[i + 1] /\ i + 1 # 1 /\ i \in Int
  BY <1>3
<1>5. 1 \in DOMAIN q
  BY <1>3
<1>6. IsSequence(z)
  BY <1>3, SequenceOfItsOwn
<1>7. \A i, j \in DOMAIN z : i < j => Ahead(z[i], z[j])
  <2>1. \A i, j \in DOMAIN q : i < j => Ahead(q[i], q[j])
    BY <1>1 DEF PendingOK, Queue
  <2> SUFFICES ASSUME NEW i \in DOMAIN z, NEW j \in DOMAIN z, i < j PROVE Ahead(z[i], z[j])
    OBVIOUS
  <2>2. i + 1 \in DOMAIN q /\ j + 1 \in DOMAIN q /\ i + 1 < j + 1 /\ z[i] = q[i + 1] /\ z[j] = q[j + 1]
    BY <1>4
  <2> QED BY <2>1, <2>2
<1>8. \A i \in DOMAIN z : z[i].depth \in Int /\ z[i].affordance.key \in Int
  <2>1. \A i \in DOMAIN q : q[i].depth \in Int /\ q[i].affordance.key \in Int
    BY <1>1 DEF PendingOK, Queue
  <2> QED BY <1>4, <2>1
<1>9. \A i, j \in DOMAIN z : Key(z[i]) = Key(z[j]) => i = j
  <2> SUFFICES ASSUME NEW i \in DOMAIN z, NEW j \in DOMAIN z, Key(z[i]) = Key(z[j]) PROVE i = j
    OBVIOUS
  <2>1. i + 1 = j + 1
    BY <1>1, <1>4
  <2> QED BY <1>4, <2>1
<1>10. \A i \in DOMAIN z : EntryOK(w, z[i]) /\ Key(z[i]) \in f.offered
  BY <1>1, <1>4
<1>11. PendingOK(w, z)
  <2>1. Queue(z)
    BY <1>6, <1>7, <1>8 DEF Queue
  <2> QED BY <1>9, <1>10, <2>1 DEF PendingOK
<1>12. f.taken + 1 \in Nat /\ f.taken + 1 <= w.actions /\ f.taken + 1 + Len(z) = Cardinality(f.offered)
  BY <1>1, <1>3
<1>13. FrontierOK(w, Take(f))
  <2>1. VisitedOK(f.visited) /\ IsFiniteSet(f.offered) /\ DOMAIN f = DOMAIN EmptyFrontier
    BY DEF FrontierOK
  <2> QED BY <1>2, <1>10, <1>11, <1>12, <2>1 DEF FrontierOK
<1>14. \A i \in DOMAIN z : Key(z[i]) # Key(Head(q)) /\ \E j \in DOMAIN q : q[j] = z[i]
  BY <1>1, <1>3, <1>4, <1>5
<1>15. EntryOK(w, Head(q)) /\ Key(Head(q)) \in f.offered /\ \E j \in DOMAIN q : q[j] = Head(q)
  BY <1>1, <1>3, <1>5
<1> QED BY <1>2, <1>13, <1>14, <1>15 DEF q

\* The channels of a graph: what it does next was offered and waits no more.
ChannelsOK(w, c) ==
  /\ DOMAIN c = DOMAIN Fresh
  /\ FrontierOK(w, c.frontier)
  /\ c.depth \in Nat
  /\ c.report \in StopReasons \cup {"none"}
  /\ c.pending # NoEntry =>
       /\ EntryOK(w, c.pending) /\ Key(c.pending) \in c.frontier.offered
       /\ \A i \in DOMAIN c.frontier.pending : Key(c.frontier.pending[i]) # Key(c.pending)

\* What the node at and the channels c know to have been done.
SettledIn(at, c, key) ==
  /\ key \in c.frontier.offered
  /\ \A i \in DOMAIN c.frontier.pending : Key(c.frontier.pending[i]) # key
  /\ ~(at = "act" /\ c.pending # NoEntry /\ Key(c.pending) = key)

\* Channels that differ in what these do not read are as good.
LEMMA ChannelsKept ==
  ASSUME NEW w, NEW c, ChannelsOK(w, c), NEW d, DOMAIN d = DOMAIN c,
         d.frontier = c.frontier, d.depth = c.depth, d.report = c.report, d.pending = c.pending
  PROVE  /\ ChannelsOK(w, d)
         /\ \A k, at, before : SettledIn(before, c, k) /\ at # "act" => SettledIn(at, d, k)
BY DEF ChannelsOK, SettledIn

\* What an exploring node returns, whether it goes on or stops; what was done stays done.
LEMMA ExploredKeeps ==
  ASSUME NEW w, WorldOK(w), MaxDepth = w.depth, MaxActions = w.actions, ChannelsOK(w, g),
         NEW state, PageOK(w, state), NEW late \in BOOLEAN
  PROVE  /\ ChannelsOK(w, Explored(state, late))
         /\ \A k : SettledIn("explore", g, k) => SettledIn("act", Explored(state, late), k)
<1> DEFINE f == Record(g.frontier, state, g.depth)
           reason == StopReason(f, late)
           c == Explored(state, late)
<1>1. /\ DOMAIN g = {"frontier", "depth", "report", "pending", "ok", "denied", "goal", "failed",
                     "recoveries"}
      /\ FrontierOK(w, g.frontier) /\ g.depth \in Nat /\ g.report \in StopReasons \cup {"none"}
      /\ DOMAIN g = DOMAIN Fresh
  BY DEF ChannelsOK, Fresh
<1>2. FrontierOK(w, f) /\ Grows(g.frontier, f)
  BY <1>1, RecordKeeps
<1>3. c = IF reason # "none"
          THEN [g EXCEPT !.frontier = f, !.pending = NoEntry, !.report = reason,
                     !.goal = Complete(reason), !.failed = @ \/ ~Complete(reason)]
          ELSE [g EXCEPT !.frontier = Take(f), !.pending = Head(f.pending),
                     !.depth = Head(f.pending).depth]
  BY DEF Explored
<1>4. /\ reason \in StopReasons \cup {"none"}
      /\ reason = "none" => f.taken < MaxActions /\ f.pending # << >>
  <2>1. f.taken \in Nat /\ MaxActions \in Nat
    BY <1>2 DEF FrontierOK, WorldOK
  <2> HIDE DEF f
  <2> QED BY <2>1 DEF StopReason, StopReasons
<1> HIDE DEF f, reason, c
<1>5. \A k : SettledIn("explore", g, k) =>
          k \in f.offered /\ \A i \in DOMAIN f.pending : Key(f.pending[i]) # k
  BY <1>2 DEF Grows, SettledIn
<1>6. CASE reason # "none"
  <2>1. /\ DOMAIN c = DOMAIN g /\ c.frontier = f /\ c.pending = NoEntry /\ c.report = reason
        /\ c.depth = g.depth
    BY <1>1, <1>3, <1>6
  <2>2. ChannelsOK(w, c)
    BY <1>1, <1>2, <1>4, <2>1 DEF ChannelsOK
  <2>3. \A k : SettledIn("explore", g, k) => SettledIn("act", c, k)
    BY <1>5, <2>1 DEF SettledIn
  <2> QED BY <2>2, <2>3 DEF c
<1>7. CASE reason = "none"
  <2> DEFINE e == Head(f.pending)
  <2>1. /\ DOMAIN c = DOMAIN g /\ c.frontier = Take(f) /\ c.pending = e /\ c.report = g.report
        /\ c.depth = e.depth
    BY <1>1, <1>3, <1>7
  <2>2. /\ FrontierOK(w, Take(f)) /\ Take(f).offered = f.offered
        /\ EntryOK(w, e) /\ Key(e) \in f.offered
        /\ \E j \in DOMAIN f.pending : f.pending[j] = e
        /\ \A i \in DOMAIN Take(f).pending :
             /\ Key(Take(f).pending[i]) # Key(e)
             /\ \E j \in DOMAIN f.pending : f.pending[j] = Take(f).pending[i]
    <3>1. f.pending # << >> /\ f.taken < w.actions /\ w.actions \in Nat
      BY <1>4, <1>7 DEF WorldOK
    <3> QED BY <1>2, <3>1, TakeKeeps
  <2> HIDE DEF e
  <2>3. e.depth \in Nat
    BY <2>2 DEF EntryOK, WorldOK
  <2>4. ChannelsOK(w, c)
    BY <1>1, <2>1, <2>2, <2>3 DEF ChannelsOK
  <2>5. \A k : SettledIn("explore", g, k) => SettledIn("act", c, k)
    BY <1>5, <2>1, <2>2 DEF SettledIn
  <2> QED BY <2>4, <2>5 DEF c
<1> QED BY <1>6, <1>7

\* The inductive invariant: the channels of the graph and of the newest checkpoint are in
\* order, and what was sent to a browser is settled in the channels or excused.
EpisodeInv ==
  /\ SiteOK(site) /\ PolicyOK(policy)
  /\ page \in DOMAIN site.route /\ failures \in 0 .. MaxFailures
  /\ node \in GraphNodes \cup {"end", "recorded", "returned"}
  /\ ChannelsOK(World, g)
  /\ saved.node \in GraphNodes \cup {"start", "end"} /\ ChannelsOK(World, saved.g)
  /\ StoredOK /\ (Found => VisitedOK(stored.states)) /\ baseline \in Baselines
  /\ IsFiniteSet(executed) /\ excused \subseteq executed
  /\ \A k \in executed \ excused : SettledIn(node, g, k)

\* What a site and a policy let an exploration take and spend.
LEMMA WorldIsOK ==
  ASSUME SiteOK(site), PolicyOK(policy)
  PROVE  WorldOK(World) /\ MaxDepth = World.depth /\ MaxActions = World.actions
<1>1. MaxActions \in Nat /\ MaxDepth \in Nat
  BY ExplorationAssumption DEF PolicyOK, MaxActions, MaxDepth
<1>2. ASSUME NEW a \in World.controls PROVE a.key \in Int
  <2>1. PICK p \in DOMAIN site.route : a \in ToSet(site.offers[p])
    BY <1>2 DEF World, SiteOK
  <2>2. site.offers[p] \in Seq(Affordances(DOMAIN site.route))
    BY DEF SiteOK
  <2>3. a \in Affordances(DOMAIN site.route)
    BY <2>1, <2>2 DEF ToSet
  <2> QED BY <2>3, MapAssumption DEF Affordances
<1> QED BY <1>1, <1>2 DEF World, WorldOK

\* What is seen of a page is something the application has, described or not.
LEMMA PagesAreOK ==
  ASSUME SiteOK(site), page \in DOMAIN site.route
  PROVE  PageOK(World, Described) /\ PageOK(World, Undescribed)
<1>1. site.offers[page] \in Seq(Affordances(DOMAIN site.route)) /\ page \in DOMAIN site.offers
  BY DEF SiteOK
<1>0. /\ site.route[page] \in Routes /\ DOMAIN Digest = Routes \X SUBSET Labels
      /\ \A i \in DOMAIN site.offers[page] : site.offers[page][i].key \in Labels
  <2>1. site.route \in [DOMAIN site.route -> Routes]
    BY DEF SiteOK
  <2>2. \A i \in DOMAIN site.offers[page] : site.offers[page][i] \in Affordances(DOMAIN site.route)
    BY <1>1
  <2> QED BY <2>1, <2>2, MapAssumption DEF Affordances
<1>2. PageOK(World, Described)
  <2>1. IsSequence(site.offers[page])
    BY <1>1, SequenceOfItsOwn
  <2>2. ToSet(site.offers[page]) \subseteq World.controls
    BY <1>1 DEF World
  <2>3. Signature(Described) \in DOMAIN Digest
    BY <1>0 DEF Signature, AffordanceKeys, Described
  <2> QED BY <2>1, <2>2, <2>3 DEF PageOK, Described
<1>3. PageOK(World, Undescribed)
  <2>1. IsSequence(<< >>) /\ ToSet(<< >>) = {}
    BY DEF IsSequence, ToSet
  <2>2. Signature(Undescribed) \in DOMAIN Digest
    BY <1>0 DEF Signature, AffordanceKeys, Undescribed
  <2> QED BY <2>1, <2>2 DEF PageOK, Undescribed
<1> QED BY <1>2, <1>3

\* What a node that leaves the map and the excuses alone has to keep.
LEMMA ReachKeeps ==
  ASSUME EpisodeInv, UNCHANGED <<inputs, stored, excused>>,
         NEW next \in GraphNodes \cup {"end"}, NEW c, Reach(next, c), ChannelsOK(World, c),
         page' \in DOMAIN site.route, failures' \in 0 .. MaxFailures,
         IsFiniteSet(executed'), executed \subseteq executed',
         \A k \in executed' \ excused : SettledIn(next, c, k)
  PROVE  EpisodeInv'
<1>1. /\ site' = site /\ policy' = policy /\ stored' = stored /\ excused' = excused
      /\ baseline' = baseline /\ node' = next /\ g' = c
  BY DEF inputs, Reach
<1>2. saved' = [node |-> next, g |-> c] \/ saved' = saved
  BY DEF Reach
<1>3. World' = World /\ MaxActions' = MaxActions
  BY <1>1 DEF World, MaxActions, MaxDepth
<1>4. (SiteOK(site) /\ PolicyOK(policy))'
  BY <1>1 DEF EpisodeInv
<1>5. (StoredOK /\ (Found => VisitedOK(stored.states)) /\ baseline \in Baselines)'
  BY <1>1, <1>3 DEF EpisodeInv, StoredOK, Found, OneRowPerState
<1>6. ChannelsOK(World, g)'
  BY <1>1, <1>3
<1>7. (saved.node \in GraphNodes \cup {"start", "end"} /\ ChannelsOK(World, saved.g))'
  <2>1. CASE saved' = saved
    BY <1>3, <2>1 DEF EpisodeInv
  <2>2. CASE saved' = [node |-> next, g |-> c]
    <3>1. saved'.node = next /\ saved'.g = c
      BY <2>2
    <3> QED BY <1>3, <3>1
  <2> QED BY <1>2, <2>1, <2>2
<1>8. (\A k \in executed \ excused : SettledIn(node, g, k))'
  BY <1>1
<1>9. (excused \subseteq executed)'
  BY <1>1 DEF EpisodeInv
<1>10. page' \in DOMAIN site'.route
  BY <1>1
<1> QED BY <1>1, <1>4, <1>5, <1>6, <1>7, <1>8, <1>9, <1>10 DEF EpisodeInv

\* A node that changes only channels nothing refers to.
LEMMA MoveKeeps ==
  ASSUME EpisodeInv, UNCHANGED <<inputs, page, stored, history, failures>>,
         NEW next \in GraphNodes \cup {"end"}, next # "act", NEW c, Reach(next, c),
         DOMAIN c = DOMAIN g, c.frontier = g.frontier, c.depth = g.depth,
         c.report = g.report, c.pending = g.pending
  PROVE  EpisodeInv'
<1>1. ChannelsOK(World, c) /\ \A k : SettledIn(node, g, k) => SettledIn(next, c, k)
  BY ChannelsKept DEF EpisodeInv
<1>2. /\ UNCHANGED <<inputs, stored, excused>> /\ executed' = executed
      /\ page' = page /\ failures' = failures
  BY DEF history
<1>3. \A k \in executed' \ excused : SettledIn(next, c, k)
  BY <1>1, <1>2 DEF EpisodeInv
<1>4. /\ page' \in DOMAIN site.route /\ failures' \in 0 .. MaxFailures /\ IsFiniteSet(executed')
      /\ executed \subseteq executed'
  BY <1>2 DEF EpisodeInv
<1> QED BY <1>1, <1>2, <1>3, <1>4, ReachKeeps

\* The node that explores, whatever it sees of the page.
LEMMA ExploringKeeps ==
  ASSUME EpisodeInv, node = "explore", NEW state, PageOK(World, state), NEW late \in BOOLEAN,
         Reach("act", Explored(state, late)), UNCHANGED <<inputs, page, stored, executed, excused>>,
         failures' \in 0 .. MaxFailures
  PROVE  EpisodeInv'
<1>1. WorldOK(World) /\ MaxDepth = World.depth /\ MaxActions = World.actions
  BY WorldIsOK DEF EpisodeInv
<1> DEFINE w == World
           c == Explored(state, late)
<1>2. ChannelsOK(w, g)
  BY DEF EpisodeInv
<1>3. ChannelsOK(w, c) /\ \A k : SettledIn("explore", g, k) => SettledIn("act", c, k)
  <2> HIDE DEF w
  <2>1. WorldOK(w) /\ MaxDepth = w.depth /\ MaxActions = w.actions /\ PageOK(w, state)
    BY <1>1 DEF w
  <2> QED BY <1>2, <2>1, ExploredKeeps
<1> HIDE DEF c
<1>4. \A k \in executed' \ excused : SettledIn("act", c, k)
  BY <1>3 DEF EpisodeInv
<1>5. "act" \in GraphNodes \cup {"end"} /\ Reach("act", c)
  BY DEF GraphNodes, c
<1>6. /\ page' \in DOMAIN site.route /\ IsFiniteSet(executed') /\ executed \subseteq executed'
      /\ UNCHANGED <<inputs, stored, excused>>
  BY DEF EpisodeInv
<1> QED BY <1>3, <1>4, <1>5, <1>6, ReachKeeps

\* An action that was sent to a browser, whatever came of it.
LEMMA ActingKeeps ==
  ASSUME EpisodeInv, node = "act", g.pending # NoEntry, NEW ok, NEW denied,
         Reach("verify", Acted(ok, denied)), executed' = executed \cup {Key(g.pending)},
         UNCHANGED <<inputs, stored, excused>>,
         page' \in DOMAIN site.route, failures' \in 0 .. MaxFailures
  PROVE  EpisodeInv'
<1> DEFINE c == Acted(ok, denied)
<1>1. /\ DOMAIN c = DOMAIN g /\ c.frontier = g.frontier /\ c.depth = g.depth
      /\ c.report = g.report /\ c.pending = g.pending
  <2>1. DOMAIN g = DOMAIN Fresh
    BY DEF EpisodeInv, ChannelsOK
  <2> QED BY <2>1 DEF Acted, Fresh
<1> HIDE DEF c
<1>2. ChannelsOK(World, c) /\ \A k : SettledIn(node, g, k) => SettledIn("verify", c, k)
  BY <1>1, ChannelsKept DEF EpisodeInv
<1>3. SettledIn("verify", c, Key(g.pending))
  BY <1>1 DEF EpisodeInv, ChannelsOK, SettledIn
<1>4. \A k \in executed' \ excused : SettledIn("verify", c, k)
  BY <1>2, <1>3 DEF EpisodeInv
<1>5. IsFiniteSet(executed')
  BY FS_AddElement DEF EpisodeInv
<1>6. "verify" \in GraphNodes \cup {"end"} /\ Reach("verify", c) /\ executed \subseteq executed'
  BY DEF GraphNodes, c
<1> QED BY <1>2, <1>4, <1>5, <1>6, ReachKeeps

\* Where an action leads is a page of the application.
LEMMA TargetIsAPage ==
  ASSUME EpisodeInv, g.pending # NoEntry, Performable(g.pending.affordance)
  PROVE  Target(g.pending.affordance) \in DOMAIN site.route
<1> DEFINE a == g.pending.affordance
           pages == DOMAIN site.route
<1>1. /\ SiteOK(site) /\ page \in pages
      /\ a \in UNION { ToSet(site.offers[p]) : p \in DOMAIN site.offers } /\ Clickable(a)
  BY DEF EpisodeInv, ChannelsOK, EntryOK, World
<1>2. /\ site.lands \in [pages -> pages]
      /\ \A p \in pages : site.offers[p] \in Seq(Affordances(pages))
      /\ DOMAIN site.offers = pages
  BY <1>1 DEF SiteOK
<1>3. a \in Affordances(pages)
  <2>1. PICK p \in pages : a \in ToSet(site.offers[p])
    BY <1>1, <1>2
  <2>2. site.offers[p] \in Seq(Affordances(pages))
    BY <1>2
  <2> HIDE DEF a, pages
  <2> QED BY <2>1, <2>2 DEF ToSet
<1>4. CASE a.to # "none"
  <2>1. a.to \in pages
    BY <1>3, <1>4 DEF Affordances
  <2>2. Target(a) = site.lands[a.to]
    BY <1>4 DEF Target
  <2> QED BY <1>2, <2>1, <2>2
<1>5. CASE a.to = "none"
  <2>1. Target(a) = site.clicks[page][a.key]
    BY <1>5 DEF Target
  <2>2. PICK i \in DOMAIN site.offers[page] :
          site.offers[page][i].key = a.key /\ ~site.offers[page][i].disabled
    BY <1>5 DEF Performable, OnPage
  <2>3. site.offers[page][i] \in ToSet(site.offers[page])
    <3>1. site.offers[page] \in Seq(Affordances(pages))
      BY <1>1, <1>2
    <3> QED BY <2>2, <3>1 DEF ToSet
  <2>4. a \in UNION { ToSet(site.offers[p]) : p \in pages }
    BY <1>1, <1>2
  <2> HIDE DEF a
  <2>5. site.clicks[page][a.key] \in pages
    BY <1>1, <1>5, <2>2, <2>3, <2>4 DEF SiteOK
  <2> QED BY <2>1, <2>5 DEF a
<1> QED BY <1>4, <1>5

\* What nothing was spent from is in order.
LEMMA FreshIsOK ==
  ASSUME NEW w, WorldOK(w)
  PROVE  ChannelsOK(w, Fresh)
<1>1. /\ DOMAIN EmptyFrontier = DOMAIN EmptyFrontier
      /\ EmptyFrontier.visited = << >> /\ EmptyFrontier.pending = << >>
      /\ EmptyFrontier.offered = {} /\ EmptyFrontier.taken = 0
  BY DEF EmptyFrontier
<1>2. IsSequence(<< >>)
  BY DEF IsSequence
<1>3. IsFiniteSet({}) /\ Cardinality({}) = 0
  BY FS_EmptySet
<1>4. VisitedOK(<< >>)
  <2>1. Signatures(<< >>) = {}
    BY DEF Signatures
  <2> QED BY <1>2, <1>3, <2>1 DEF VisitedOK
<1>5. PendingOK(w, << >>)
  BY <1>2 DEF PendingOK, Queue
<1>6. FrontierOK(w, EmptyFrontier)
  BY <1>1, <1>3, <1>4, <1>5 DEF FrontierOK, WorldOK
<1>7. /\ Fresh.frontier = EmptyFrontier /\ Fresh.depth = 0 /\ Fresh.report = "none"
      /\ Fresh.pending = NoEntry
  BY DEF Fresh
<1> QED BY <1>6, <1>7 DEF ChannelsOK

\* Each node, each checkpoint and each death of a worker keeps the invariant.
LEMMA EpisodeInvStep == EpisodeInv /\ [ExplorationNext]_explorationVars => EpisodeInv'
<1> SUFFICES ASSUME EpisodeInv, [ExplorationNext]_explorationVars PROVE EpisodeInv'
  OBVIOUS
<1> USE DEF history
<1>0. /\ DOMAIN g = DOMAIN Fresh /\ page \in DOMAIN site.route /\ SiteOK(site)
      /\ failures \in 0 .. MaxFailures /\ MaxFailures \in Nat
  BY ExplorationAssumption DEF EpisodeInv, ChannelsOK
<1>1. CASE Explore
  <2>1. PICK late \in BOOLEAN : Reach("act", Explored(Described, late))
    BY <1>1 DEF Explore
  <2>2. node = "explore" /\ UNCHANGED <<inputs, page, stored, executed, excused>> /\ failures' = failures
    BY <1>1 DEF Explore
  <2>3. PageOK(World, Described)
    BY <1>0, PagesAreOK
  <2> QED BY <1>0, <2>1, <2>2, <2>3, ExploringKeeps
<1>2. CASE ExploreBlind
  <2>1. PICK late \in BOOLEAN : Reach("act", Explored(Undescribed, late))
    BY <1>2 DEF ExploreBlind
  <2>2. /\ node = "explore" /\ UNCHANGED <<inputs, page, stored, executed, excused>>
        /\ failures' \in 0 .. MaxFailures
    BY <1>0, <1>2 DEF ExploreBlind
  <2>3. PageOK(World, Undescribed)
    BY <1>0, PagesAreOK
  <2> QED BY <1>0, <2>1, <2>2, <2>3, ExploringKeeps
<1>3. CASE ActNothing
  <2> DEFINE c == Acted(TRUE, FALSE)
  <2>1. /\ DOMAIN c = DOMAIN g /\ c.frontier = g.frontier /\ c.depth = g.depth
        /\ c.report = g.report /\ c.pending = g.pending
    BY <1>0 DEF Acted, Fresh
  <2> HIDE DEF c
  <2>2. Reach("verify", c) /\ UNCHANGED <<inputs, page, stored, history, failures>>
    BY <1>3 DEF ActNothing, c
  <2>3. "verify" \in GraphNodes \cup {"end"} /\ "verify" # "act"
    BY DEF GraphNodes
  <2> QED BY <2>1, <2>2, <2>3, MoveKeeps
<1>4. CASE ActLands
  <2> DEFINE a == g.pending.affordance
             fits == LandingAllowed(ExplorationAction(a), site.origin[Target(a)], policy)
  <2>1. /\ node = "act" /\ g.pending # NoEntry /\ Performable(a) /\ page' = Target(a)
        /\ Reach("verify", Acted(fits, ~fits)) /\ executed' = executed \cup {Key(g.pending)}
        /\ UNCHANGED <<inputs, stored, excused, failures>>
    BY <1>4 DEF ActLands
  <2>2. page' \in DOMAIN site.route
    BY <2>1, TargetIsAPage
  <2>3. UNCHANGED <<inputs, stored, excused>> /\ failures' \in 0 .. MaxFailures
    BY <1>0, <2>1
  <2> HIDE DEF fits
  <2> QED BY <2>1, <2>2, <2>3, ActingKeeps
<1>5. CASE ActFails
  <2>1. PICK denied \in BOOLEAN :
          /\ node = "act" /\ g.pending # NoEntry /\ Reach("verify", Acted(FALSE, denied))
          /\ executed' = executed \cup {Key(g.pending)}
          /\ UNCHANGED <<inputs, stored, excused>> /\ page' = page
    BY <1>5 DEF ActFails
  <2>2. failures' \in 0 .. MaxFailures
    BY <1>0, <1>5 DEF ActFails
  <2>3. page' \in DOMAIN site.route
    BY <1>0, <2>1
  <2> QED BY <2>1, <2>2, <2>3, ActingKeeps
<1>6. CASE Verify
  <2> DEFINE c == [g EXCEPT !.failed = @ \/ (g.pending # NoEntry /\ g.denied),
                            !.goal = @ /\ ~(g.pending # NoEntry /\ g.denied)]
             next == IF g.pending = NoEntry \/ g.denied THEN "verify_criteria"
                     ELSE IF g.ok THEN "checkpoint" ELSE "recover"
  <2>1. /\ DOMAIN c = DOMAIN g /\ c.frontier = g.frontier /\ c.depth = g.depth
        /\ c.report = g.report /\ c.pending = g.pending
    BY <1>0 DEF Fresh
  <2>2. next \in GraphNodes \cup {"end"} /\ next # "act"
    BY DEF GraphNodes
  <2>3. Reach(next, c) /\ UNCHANGED <<inputs, page, stored, history, failures>>
    BY <1>6 DEF Verify
  <2> HIDE DEF c, next
  <2> QED BY <2>1, <2>2, <2>3, MoveKeeps
<1>7. CASE Checkpoint
  <2> DEFINE c == [g EXCEPT !.recoveries = 0]
             next == IF g.goal THEN "verify_criteria" ELSE "explore"
  <2>1. /\ DOMAIN c = DOMAIN g /\ c.frontier = g.frontier /\ c.depth = g.depth
        /\ c.report = g.report /\ c.pending = g.pending
    BY <1>0 DEF Fresh
  <2>2. next \in GraphNodes \cup {"end"} /\ next # "act"
    BY DEF GraphNodes
  <2>3. Reach(next, c) /\ UNCHANGED <<inputs, page, stored, history, failures>>
    BY <1>7 DEF Checkpoint
  <2> HIDE DEF c, next
  <2> QED BY <2>1, <2>2, <2>3, MoveKeeps
<1>8. CASE Recover
  <2> DEFINE c == [g EXCEPT !.recoveries = @ + 1, !.failed = @ \/ g.recoveries + 1 > MaxRecoveries]
  <2>1. /\ DOMAIN c = DOMAIN g /\ c.frontier = g.frontier /\ c.depth = g.depth
        /\ c.report = g.report /\ c.pending = g.pending
    BY <1>0 DEF Fresh
  <2>2. Reach(AfterRecover(c), c) /\ UNCHANGED <<inputs, page, stored, history, failures>>
    BY <1>8 DEF Recover
  <2> HIDE DEF c
  <2>3. AfterRecover(c) \in GraphNodes \cup {"end"} /\ AfterRecover(c) # "act"
    BY DEF GraphNodes, AfterRecover
  <2> QED BY <2>1, <2>2, <2>3, MoveKeeps
<1>9. CASE VerifyCriteria
  <2>1. Reach("close_episode", g) /\ UNCHANGED <<inputs, page, stored, history, failures>>
    BY <1>9 DEF VerifyCriteria
  <2>2. "close_episode" \in GraphNodes \cup {"end"} /\ "close_episode" # "act"
    BY DEF GraphNodes
  <2> QED BY <2>1, <2>2, MoveKeeps
<1>10. CASE CloseEpisode
  <2>1. Reach("end", g) /\ UNCHANGED <<inputs, page, stored, history, failures>>
    BY <1>10 DEF CloseEpisode
  <2> QED BY <2>1, MoveKeeps
<1>11. CASE RecordStateMap
  <2>1. /\ node = "end" /\ node' = "recorded" /\ stored' = IF g.report = "none" THEN stored ELSE StateMap
        /\ UNCHANGED <<inputs, g, page, saved, history, failures>>
    BY <1>11 DEF RecordStateMap, Recorded
  <2>2. World' = World /\ MaxActions' = MaxActions /\ site' = site /\ policy' = policy /\ baseline' = baseline
    BY <2>1 DEF World, MaxActions, MaxDepth, inputs
  <2>3. (StoredOK /\ (Found => VisitedOK(stored.states)) /\ baseline \in Baselines)'
    <3>1. CASE stored' = stored
      BY <2>2, <3>1 DEF EpisodeInv, StoredOK, Found, OneRowPerState
    <3>2. CASE g.report # "none"
      <4>1. stored' = StateMap
        BY <2>1, <3>2
      <4>2. /\ stored'.reason = g.report /\ stored'.states = g.frontier.visited
            /\ stored'.taken = g.frontier.taken
        BY <4>1 DEF StateMap
      <4>3. /\ g.report \in StopReasons /\ g.frontier.taken <= MaxActions
            /\ Cardinality(Signatures(g.frontier.visited)) = Len(g.frontier.visited)
            /\ VisitedOK(g.frontier.visited) /\ baseline \in Baselines
        BY <3>2 DEF EpisodeInv, ChannelsOK, FrontierOK, VisitedOK, World
      <4> QED BY <2>2, <4>2, <4>3 DEF StoredOK, OneRowPerState
    <3> QED BY <2>1, <3>1, <3>2
  <2>4. (\A k \in executed \ excused : SettledIn(node, g, k))'
    BY <2>1 DEF EpisodeInv, SettledIn
  <2> QED BY <2>1, <2>2, <2>3, <2>4 DEF EpisodeInv
<1>12. CASE Return
  <2>1. /\ node' = "returned" /\ UNCHANGED <<inputs, g, page, saved, stored, history, failures>>
    BY <1>12 DEF Return
  <2>2. World' = World /\ MaxActions' = MaxActions /\ site' = site /\ policy' = policy /\ baseline' = baseline
    BY <2>1 DEF World, MaxActions, MaxDepth, inputs
  <2>3. (StoredOK /\ (Found => VisitedOK(stored.states)) /\ baseline \in Baselines)'
    BY <2>1, <2>2 DEF EpisodeInv, StoredOK, Found, OneRowPerState
  <2>4. (\A k \in executed \ excused : SettledIn(node, g, k))'
    BY <2>1 DEF EpisodeInv, SettledIn
  <2> QED BY <2>1, <2>2, <2>3, <2>4 DEF EpisodeInv
<1>13. CASE AttemptDies
  <2>1. /\ page' = site.start /\ failures' = failures + 1 /\ failures < MaxFailures
        /\ IF saved.node \in GraphNodes
           THEN node' = saved.node /\ g' = saved.g
           ELSE node' = "explore" /\ g' = [saved.g EXCEPT !.goal = FALSE, !.failed = FALSE]
        /\ excused' = excused \cup { k \in executed : ~Settled(k) }
        /\ UNCHANGED <<inputs, saved, stored, executed>>
    BY <1>13 DEF AttemptDies
  <2>2. World' = World /\ MaxActions' = MaxActions /\ site' = site /\ policy' = policy /\ baseline' = baseline
    BY <2>1 DEF World, MaxActions, MaxDepth, inputs
  <2>3. (StoredOK /\ (Found => VisitedOK(stored.states)) /\ baseline \in Baselines)'
    BY <2>1, <2>2 DEF EpisodeInv, StoredOK, Found, OneRowPerState
  <2>4. page' \in DOMAIN site.route /\ failures' \in 0 .. MaxFailures
    BY <1>0, <2>1 DEF SiteOK
  <2>5. \A k \in executed' \ excused' : SettledIn(saved.node, saved.g, k)
    BY <2>1 DEF Settled, SettledIn
  <2>6. ChannelsOK(World, saved.g)
    BY DEF EpisodeInv
  <2>7. /\ node' \in GraphNodes /\ ChannelsOK(World, g')
        /\ \A k \in executed' \ excused' : SettledIn(node', g', k)
    <3>1. CASE saved.node \in GraphNodes
      BY <2>1, <2>5, <2>6, <3>1
    <3>2. CASE saved.node \notin GraphNodes
      <4> DEFINE c == [saved.g EXCEPT !.goal = FALSE, !.failed = FALSE]
      <4>1. node' = "explore" /\ g' = c
        BY <2>1, <3>2
      <4>2. /\ DOMAIN c = DOMAIN saved.g /\ c.frontier = saved.g.frontier /\ c.depth = saved.g.depth
            /\ c.report = saved.g.report /\ c.pending = saved.g.pending
        <5>1. DOMAIN saved.g = DOMAIN Fresh
          BY <2>6 DEF ChannelsOK
        <5> QED BY <5>1 DEF Fresh
      <4> HIDE DEF c
      <4>3. ChannelsOK(World, c) /\ \A k : SettledIn(saved.node, saved.g, k) => SettledIn("explore", c, k)
        BY <2>6, <4>2, ChannelsKept
      <4>4. "explore" \in GraphNodes
        BY DEF GraphNodes
      <4> QED BY <2>5, <4>1, <4>3, <4>4
    <3> QED BY <3>1, <3>2
  <2>8. IsFiniteSet(executed') /\ excused' \subseteq executed'
    BY <2>1 DEF EpisodeInv
  <2> QED BY <2>1, <2>2, <2>3, <2>4, <2>7, <2>8 DEF EpisodeInv
<1>14. CASE UNCHANGED explorationVars
  <2>1. /\ UNCHANGED <<inputs, g, page, saved, stored, history, failures, node>>
    BY <1>14 DEF explorationVars
  <2>2. World' = World /\ MaxActions' = MaxActions /\ site' = site /\ policy' = policy /\ baseline' = baseline
    BY <2>1 DEF World, MaxActions, MaxDepth, inputs
  <2>3. (StoredOK /\ (Found => VisitedOK(stored.states)) /\ baseline \in Baselines)'
    BY <2>1, <2>2 DEF EpisodeInv, StoredOK, Found, OneRowPerState
  <2>4. (\A k \in executed \ excused : SettledIn(node, g, k))'
    BY <2>1 DEF EpisodeInv, SettledIn
  <2> QED BY <2>1, <2>2, <2>3, <2>4 DEF EpisodeInv
<1> QED BY <1>1, <1>2, <1>3, <1>4, <1>5, <1>6, <1>7, <1>8, <1>9, <1>10, <1>11, <1>12, <1>13, <1>14
        DEF ExplorationNext, Step

\* An episode begins with an empty frontier over a site in order.
LEMMA EpisodeInvInit == ExplorationInit => EpisodeInv
<1> SUFFICES ASSUME ExplorationInit PROVE EpisodeInv
  OBVIOUS
<1>1. PICK s \in Sites : site = AsRead(s)
  BY DEF ExplorationInit
<1>2. SiteOK(site) /\ PolicyOK(policy)
  BY <1>1, ExplorationAssumption, ReadSitesAreOK DEF ExplorationInit
<1>3. ChannelsOK(World, Fresh)
  BY <1>2, WorldIsOK, FreshIsOK
<1>4. page \in DOMAIN site.route /\ failures \in 0 .. MaxFailures
  BY <1>2, ExplorationAssumption DEF ExplorationInit, SiteOK
<1>5. /\ node = "explore" /\ g = Fresh /\ saved.node = "start" /\ saved.g = Fresh
      /\ stored = NoMap /\ executed = {} /\ excused = {}
  BY DEF ExplorationInit
<1>6. StoredOK
  BY <1>5 DEF StoredOK, Found
<1>7. IsFiniteSet({}) /\ ~Found /\ baseline \in Baselines
  BY <1>5, FS_EmptySet DEF Found, ExplorationInit
<1> QED BY <1>2, <1>3, <1>4, <1>5, <1>6, <1>7 DEF EpisodeInv, GraphNodes

\* The invariant holds of every behaviour of an exploration.
LEMMA EpisodeInvariant == ExplorationSpec => []EpisodeInv
BY EpisodeInvInit, EpisodeInvStep, PTL DEF ExplorationSpec

\* An action is sent to a browser once, wherever the worker dies and whichever of its
\* checkpoints were lost: what is sent again was done by a worker that died before any
\* checkpoint said so.
THEOREM OffersAreTakenOnce == ExplorationSpec => OfferedOnce
<1>1. EpisodeInv /\ [ExplorationNext]_explorationVars =>
        [ (node = "act" /\ node' = "verify" /\ g.pending # NoEntry)
            => (Key(g.pending) \notin executed \/ Key(g.pending) \in excused) ]_explorationVars
  BY DEF EpisodeInv, SettledIn
<1> QED BY <1>1, EpisodeInvariant, PTL DEF ExplorationSpec, OfferedOnce

\* There are as many keys in a queue as entries.
LEMMA AsManyKeys ==
  ASSUME NEW w, NEW q, PendingOK(w, q)
  PROVE  /\ IsFiniteSet({ Key(q[i]) : i \in DOMAIN q })
         /\ Cardinality({ Key(q[i]) : i \in DOMAIN q }) = Len(q) /\ Len(q) \in Nat
<1> DEFINE K == { Key(q[i]) : i \in DOMAIN q }
           h == [i \in 1 .. Len(q) |-> Key(q[i])]
<1>1. DOMAIN q = 1 .. Len(q) /\ Len(q) \in Nat
  BY DEF PendingOK, Queue, IsSequence
<1>2. h \in Bijection(1 .. Len(q), K)
  <2>1. h \in [1 .. Len(q) -> K]
    BY <1>1
  <2>2. \A i, j \in 1 .. Len(q) : h[i] = h[j] => i = j
    BY <1>1 DEF PendingOK
  <2>3. \A x \in K : \E i \in 1 .. Len(q) : h[i] = x
    BY <1>1
  <2> HIDE DEF h, K
  <2> QED BY <2>1, <2>2, <2>3 DEF Bijection, Injection, Surjection, IsInjective
<1> HIDE DEF h, K
<1>3. ExistsBijection(1 .. Len(q), K)
  BY <1>2 DEF ExistsBijection
<1>4. Cardinality(K) = Len(q)
  BY <1>1, <1>3, FS_CountingElements
<1>5. IsFiniteSet(K)
  <2>1. IsFiniteSet(1 .. Len(q))
    BY <1>1, FS_Interval
  <2>2. h \in Surjection(1 .. Len(q), K)
    BY <1>2 DEF Bijection
  <2> QED BY <2>1, <2>2, FS_Surjection
<1> QED BY <1>1, <1>4, <1>5 DEF K

\* The books of the frontier balance and what was sent to a browser keeps to the policy,
\* for every application, every policy and any number of workers that die.
THEOREM FrontiersBalance == ExplorationSpec => []FrontierBalances
<1>1. EpisodeInv => FrontierBalances
  <2> SUFFICES ASSUME EpisodeInv PROVE FrontierBalances
    OBVIOUS
  <2> DEFINE f == g.frontier
             K == { Key(f.pending[i]) : i \in DOMAIN f.pending }
             done == executed \ excused
  <2>1. FrontierOK(World, f)
    BY DEF EpisodeInv, ChannelsOK
  <2>2. /\ IsFiniteSet(f.offered) /\ f.taken \in Nat /\ f.taken <= MaxActions
        /\ f.taken + Len(f.pending) = Cardinality(f.offered)
        /\ PendingOK(World, f.pending) /\ K \subseteq f.offered
        /\ Cardinality(Signatures(f.visited)) = Len(f.visited)
    BY <2>1 DEF FrontierOK, World, VisitedOK
  <2>3. MaxActions \in Nat /\ World.depth = MaxDepth /\ MaxDepth \in Nat
    BY WorldIsOK DEF EpisodeInv, WorldOK
  <2>4. \A i \in DOMAIN f.pending : f.pending[i].depth <= MaxDepth
    <3>1. \A i \in DOMAIN f.pending : f.pending[i].depth \in 0 .. World.depth
      BY <2>2 DEF PendingOK, EntryOK
    <3> QED BY <2>3, <3>1
  <2>5. \A i, j \in DOMAIN f.pending : i < j => Ahead(f.pending[i], f.pending[j])
    BY <2>2 DEF PendingOK, Queue
  <2>6. IsFiniteSet(K) /\ Cardinality(K) = Len(f.pending) /\ Len(f.pending) \in Nat
    BY <2>2, AsManyKeys
  <2>7. done \subseteq f.offered \ K
    BY DEF EpisodeInv, SettledIn
  <2> HIDE DEF K, done
  <2>8. Cardinality(f.offered \ K) = f.taken /\ IsFiniteSet(f.offered \ K)
    <3>1. f.offered \cap K = K
      BY <2>2
    <3>2. /\ IsFiniteSet(f.offered \ K)
          /\ Cardinality(f.offered \ K) = Cardinality(f.offered) - Cardinality(f.offered \cap K)
      BY <2>2, FS_Difference
    <3>3. Cardinality(f.offered \ K) = Cardinality(f.offered) - Cardinality(K)
      BY <3>1, <3>2
    <3>4. /\ f.taken \in Nat /\ Cardinality(K) = Len(f.pending) /\ Len(f.pending) \in Nat
          /\ Cardinality(f.offered) = f.taken + Len(f.pending)
      BY <2>2, <2>6
    <3>5. Cardinality(f.offered \ K) = f.taken
      BY <3>3, <3>4
    <3> QED BY <3>2, <3>5
  <2>9. IsFiniteSet(done) /\ Cardinality(done) <= f.taken /\ Cardinality(done) \in Nat
    BY <2>2, <2>7, <2>8, FS_Subset, FS_CardinalityType
  <2>10. Cardinality(executed) <= MaxActions + Cardinality(excused)
    <3>1. IsFiniteSet(executed) /\ excused \subseteq executed /\ executed \cap excused = excused
      BY DEF EpisodeInv
    <3>2. Cardinality(done) = Cardinality(executed) - Cardinality(executed \cap excused)
      BY <3>1, FS_Difference, FS_Subset DEF done
    <3>3. Cardinality(executed) \in Nat /\ Cardinality(excused) \in Nat
      BY <3>1, FS_Subset, FS_CardinalityType
    <3>4. Cardinality(done) = Cardinality(executed) - Cardinality(excused)
      BY <3>1, <3>2
    <3>5. /\ f.taken \in Nat /\ f.taken <= MaxActions /\ MaxActions \in Nat
          /\ Cardinality(done) \in Nat /\ Cardinality(done) <= f.taken
      BY <2>2, <2>3, <2>9
    <3> QED BY <3>3, <3>4, <3>5
  <2>11. /\ page \in DOMAIN site.route /\ failures \in 0 .. MaxFailures
         /\ node \in GraphNodes \cup {"end", "recorded", "returned"} /\ StoredOK
    BY DEF EpisodeInv
  <2> QED BY <2>2, <2>4, <2>5, <2>10, <2>11 DEF FrontierBalances
<1> QED BY <1>1, EpisodeInvariant, PTL

\* A comparison with an earlier map accounts for every state that is in one of the two
\* only, once: whatever was stored, and however the digests order the states.
THEOREM DeltasAccount == ExplorationSpec => []DeltaAccounts
<1>1. EpisodeInv => DeltaAccounts
  <2> SUFFICES ASSUME EpisodeInv, HasDelta PROVE DeltaAccounts
    BY DEF DeltaAccounts
  <2> DEFINE known == Signatures(baseline.states)
             now == Signatures(stored.states)
             pairs == Changed(known \ now, now \ known)
             new == (now \ known) \ { p.after : p \in pairs }
             gone == (known \ now) \ { p.before : p \in pairs }
  <2>1. known \subseteq DOMAIN Digest /\ IsFiniteSet(known) /\ now \subseteq DOMAIN Digest
    BY ExplorationAssumption DEF EpisodeInv, HasDelta, VisitedOK
  <2>2. Delta.changed = pairs /\ Delta.new = new /\ Delta.gone = gone
    BY DEF Delta, Compare
  <2> HIDE DEF known, now
  <2>3. EachOnce(known \ now, now \ known, pairs, new, gone)
    BY <2>1, ComparisonAccounts
  <2> HIDE DEF pairs, new, gone
  <2> QED BY <2>2, <2>3 DEF DeltaAccounts, EachOnce, known, now
<1> QED BY <1>1, EpisodeInvariant, PTL

\* What is read of a page has each key once.
LEMMA ParsedOnce ==
  ASSUME NEW pages, NEW markup \in Seq(Affordances(pages))
  PROVE  \A i, j \in DOMAIN Parse(markup) : Parse(markup)[i].key = Parse(markup)[j].key => i = j
<1> DEFINE n == Len(markup)
           Good(found) == /\ found \in Seq(Affordances(pages))
                          /\ \A i, j \in DOMAIN found : found[i].key = found[j].key => i = j
<1>1. n \in Nat /\ DOMAIN markup = 1 .. n /\ \A i \in 1 .. n : markup[i] \in Affordances(pages)
  OBVIOUS
<1>2. PICK read : /\ read = [i \in 0 .. n |-> IF i = 0 THEN << >> ELSE ReadOn(read[i - 1], markup[i])]
                  /\ Parse(markup) = read[n]
  BY <1>1, ParseSteps
<1> HIDE DEF n
<1> DEFINE Goods == { i \in 0 .. n : Good(read[i]) }
<1>3. 0 \in Goods
  <2>1. read[0] = << >> /\ 0 \in 0 .. n
    BY <1>1, <1>2
  <2>2. Good(<< >>)
    OBVIOUS
  <2> HIDE DEF Good
  <2> QED BY <2>1, <2>2
<1>4. ASSUME NEW found, Good(found), NEW a \in Affordances(pages) PROVE Good(ReadOn(found, a))
  <2> DEFINE at == CHOOSE j \in DOMAIN found : found[j].key = a.key
             r == ReadOn(found, a)
  <2>1. found \in Seq(Affordances(pages)) /\ \A i, j \in DOMAIN found : found[i].key = found[j].key => i = j
    BY <1>4
  <2>2. CASE r = found
    BY <1>4, <2>2
  <2> DEFINE cut == [a EXCEPT !.to = "none"]
  <2>c. cut \in Affordances(pages) /\ cut.key = a.key
    BY <1>4 DEF Affordances
  <2>3. ASSUME NEW b \in {a, cut}, r = Append(found, b), \A i \in DOMAIN found : found[i].key # a.key
        PROVE  Good(r)
    <3>0. b \in Affordances(pages) /\ b.key = a.key
      <4> HIDE DEF cut
      <4> QED BY <1>4, <2>c, <2>3
    <3> HIDE DEF cut, r
    <3>1. /\ r \in Seq(Affordances(pages)) /\ DOMAIN r = 1 .. Len(found) + 1
          /\ DOMAIN found = 1 .. Len(found)
      BY <2>1, <2>3, <3>0
    <3>2. \A j \in DOMAIN r : \/ j \in DOMAIN found /\ r[j] = found[j]
                              \/ j = Len(found) + 1 /\ r[j] = b
      BY <2>1, <2>3, <3>1
    <3>3. \A i, j \in DOMAIN r : r[i].key = r[j].key => i = j
      BY <2>1, <2>3, <3>0, <3>1, <3>2
    <3> QED BY <3>1, <3>3 DEF r
  <2>4. CASE /\ \E j \in DOMAIN found : found[j].key = a.key
             /\ r = [found EXCEPT ![at].to = a.to]
    <3>1. at \in DOMAIN found
      BY <2>4
    <3> HIDE DEF at, r
    <3>2. found[at] \in Affordances(pages)
      BY <2>1, <3>1
    <3> DEFINE x == [found[at] EXCEPT !.to = a.to]
    <3>3. x \in Affordances(pages) /\ x.key = found[at].key
      BY <1>4, <3>2 DEF Affordances
    <3>4. r = [found EXCEPT ![at] = x]
      BY <2>4
    <3> HIDE DEF x
    <3>5. r \in Seq(Affordances(pages)) /\ DOMAIN r = DOMAIN found
      BY <2>1, <3>1, <3>3, <3>4
    <3>6. \A j \in DOMAIN r : r[j].key = found[j].key
      BY <3>1, <3>3, <3>4, <3>5
    <3> QED BY <2>1, <3>5, <3>6 DEF r
  <2>5. \/ r = found
        \/ /\ r = Append(found, a) \/ r = Append(found, cut)
           /\ \A i \in DOMAIN found : found[i].key # a.key
        \/ /\ \E j \in DOMAIN found : found[j].key = a.key
           /\ r = [found EXCEPT ![at].to = a.to]
    BY DEF ReadOn
  <2> QED BY <2>2, <2>3, <2>4, <2>5
<1>5. ASSUME NEW i \in 0 .. n, i \in Goods, i < n PROVE i + 1 \in Goods
  <2> DEFINE m == i + 1
  <2>1. m \in 1 .. n /\ m \in 0 .. n /\ m # 0 /\ m - 1 = i
    BY <1>1, <1>5
  <2> HIDE DEF m
  <2>2. read[m] = ReadOn(read[i], markup[m])
    BY <1>2, <2>1
  <2>3. Good(read[i])
    BY <1>5
  <2> HIDE DEF Good
  <2>4. Good(read[m])
    BY <1>1, <1>4, <2>1, <2>2, <2>3
  <2> QED BY <2>1, <2>4 DEF m
<1>6. Good(read[n])
  <2> HIDE DEF Goods
  <2>1. n \in Goods
    <3>1. \A i \in 0 .. n : i \in Goods
      BY <1>1, <1>3, <1>5, Climb
    <3> QED BY <1>1, <3>1
  <2> QED BY <2>1 DEF Goods
<1> QED BY <1>2, <1>6

\* What q holds, z holds too.
Holds(z, q) == \A j \in DOMAIN q : \E i \in DOMAIN z : z[i] = q[j]

\* A queue holds what is put into it, what it held, and nothing else.
LEMMA InsertHolds ==
  ASSUME NEW q, Queue(q), NEW entry, entry.depth \in Int, entry.affordance.key \in Int,
         NEW z, z = Insert(q, entry)
  PROVE  /\ Holds(z, q) /\ \E i \in DOMAIN z : z[i] = entry
         /\ \A i \in DOMAIN z : z[i] = entry \/ \E j \in DOMAIN q : z[i] = q[j]
<1> DEFINE n == Len(q)
<1>1. PICK m \in 0 .. n :
        /\ IsSequence(z) /\ Len(z) = n + 1
        /\ \A i \in 1 .. m : z[i] = q[i] /\ Ahead(q[i], entry)
        /\ z[m + 1] = entry
        /\ \A i \in m + 1 .. n : z[i + 1] = q[i] /\ Ahead(entry, q[i])
  BY InsertPlaces
<1>2. n \in Nat /\ DOMAIN q = 1 .. n /\ DOMAIN z = 1 .. n + 1 /\ m \in Nat /\ m <= n
  BY <1>1 DEF Queue, IsSequence
<1> HIDE DEF n
<1>3. ASSUME NEW j \in 1 .. n PROVE \E i \in 1 .. n + 1 : z[i] = q[j]
  <2>1. CASE j <= m
    <3>1. j \in 1 .. m /\ j \in 1 .. n + 1
      BY <1>2, <2>1
    <3> QED BY <1>1, <3>1
  <2>2. CASE ~(j <= m)
    <3>1. j \in m + 1 .. n /\ j + 1 \in 1 .. n + 1
      BY <1>2, <2>2
    <3> QED BY <1>1, <3>1
  <2> QED BY <2>1, <2>2
<1>4. m + 1 \in 1 .. n + 1 /\ z[m + 1] = entry
  BY <1>1, <1>2
<1>5. ASSUME NEW i \in 1 .. n + 1, i # m + 1 PROVE \E j \in 1 .. n : z[i] = q[j]
  <2>1. CASE i <= m
    <3>1. i \in 1 .. m /\ i \in 1 .. n
      BY <1>2, <2>1
    <3> QED BY <1>1, <3>1
  <2>2. CASE ~(i <= m)
    <3>1. i - 1 \in m + 1 .. n /\ i - 1 \in 1 .. n /\ (i - 1) + 1 = i
      BY <1>2, <1>5, <2>2
    <3> QED BY <1>1, <3>1
  <2> QED BY <2>1, <2>2
<1>6. \A i \in DOMAIN z : z[i] = entry \/ \E j \in DOMAIN q : z[i] = q[j]
  BY <1>2, <1>4, <1>5
<1>7. \E i \in DOMAIN z : z[i] = entry
  BY <1>2, <1>4
<1>8. Holds(z, q)
  BY <1>2, <1>3 DEF Holds
<1> QED BY <1>6, <1>7, <1>8

\* What an offer does to a queue and to what was offered.
LEMMA OfferHolds ==
  ASSUME NEW w, WorldOK(w), NEW f, FrontierOK(w, f), NEW from, NEW a \in w.controls,
         NEW depth \in 0 .. w.depth, NEW h, h = Offer(f, from, a, depth),
         NEW e, e = [from |-> from, affordance |-> a, depth |-> depth]
  PROVE  /\ h.visited = f.visited /\ h.depth = f.depth /\ Holds(h.pending, f.pending)
         /\ \A i \in DOMAIN h.pending :
              h.pending[i] = e \/ \E j \in DOMAIN f.pending : h.pending[i] = f.pending[j]
         /\ \A k \in h.offered : k \in f.offered \/ k = <<from, a.key>>
         /\ Takeable(a) /\ <<from, a.key>> \notin f.offered =>
              \E i \in DOMAIN h.pending : h.pending[i] = e
<1>1. /\ DOMAIN f = {"visited", "depth", "pending", "offered", "taken", "declined"}
      /\ Queue(f.pending) /\ e.depth \in Int /\ e.affordance.key \in Int
      /\ Key(e) = <<from, a.key>>
  BY DEF FrontierOK, EmptyFrontier, PendingOK, WorldOK, Key
<1>2. Holds(f.pending, f.pending)
  BY DEF Holds
<1>3. CASE ~Takeable(a)
  <2>1. h = [f EXCEPT !.declined = @ + 1]
    BY <1>3 DEF Offer
  <2>2. h.visited = f.visited /\ h.depth = f.depth /\ h.pending = f.pending /\ h.offered = f.offered
    BY <1>1, <2>1
  <2> QED BY <1>2, <1>3, <2>2
<1>4. CASE Takeable(a) /\ Key(e) \in f.offered
  <2>1. h = f
    BY <1>4 DEF Offer
  <2> QED BY <1>1, <1>2, <1>4, <2>1
<1>5. CASE Takeable(a) /\ Key(e) \notin f.offered
  <2> DEFINE z == Insert(f.pending, e)
  <2>1. h = [f EXCEPT !.offered = @ \cup {Key(e)}, !.pending = z]
    BY <1>5 DEF Offer
  <2>2. /\ Holds(z, f.pending) /\ \E i \in DOMAIN z : z[i] = e
        /\ \A i \in DOMAIN z : z[i] = e \/ \E j \in DOMAIN f.pending : z[i] = f.pending[j]
    BY <1>1, InsertHolds
  <2> HIDE DEF z
  <2>3. /\ h.visited = f.visited /\ h.depth = f.depth /\ h.pending = z
        /\ h.offered = f.offered \cup {Key(e)}
    BY <1>1, <2>1
  <2> QED BY <1>1, <2>2, <2>3
<1> QED BY <1>3, <1>4, <1>5

\* What offering the first n affordances of a page makes of a frontier f.
Offered(f, h, state, depth, n) ==
  /\ h.visited = f.visited /\ h.depth = f.depth /\ Holds(h.pending, f.pending)
  /\ \A i \in DOMAIN h.pending :
       h.pending[i].depth = depth \/ \E j \in DOMAIN f.pending : h.pending[i] = f.pending[j]
  /\ \A k \in h.offered :
       k \in f.offered \/ \E x \in 1 .. n : k = <<Signature(state), state.offers[x].key>>
  /\ \A x \in 1 .. n : Takeable(state.offers[x]) =>
       \E i \in DOMAIN h.pending :
         h.pending[i] = [from |-> Signature(state), affordance |-> state.offers[x], depth |-> depth]

\* One more affordance, of another key, of a page nothing was offered of.
LEMMA OneMoreOffered ==
  ASSUME NEW w, WorldOK(w), NEW f, NEW state, NEW depth \in 0 .. w.depth,
         \A k \in f.offered : k[1] # Signature(state),
         NEW n \in Nat, NEW h, FrontierOK(w, h), Offered(f, h, state, depth, n),
         state.offers[n + 1] \in w.controls,
         \A x \in 1 .. n : state.offers[x].key # state.offers[n + 1].key,
         NEW r, r = Offer(h, Signature(state), state.offers[n + 1], depth)
  PROVE  Offered(f, r, state, depth, n + 1)
<1> DEFINE a == state.offers[n + 1]
           from == Signature(state)
           e == [from |-> from, affordance |-> a, depth |-> depth]
           Entry(x) == [from |-> from, affordance |-> state.offers[x], depth |-> depth]
<1>1. /\ r.visited = h.visited /\ r.depth = h.depth /\ Holds(r.pending, h.pending)
      /\ \A i \in DOMAIN r.pending :
           r.pending[i] = e \/ \E j \in DOMAIN h.pending : r.pending[i] = h.pending[j]
      /\ \A k \in r.offered : k \in h.offered \/ k = <<from, a.key>>
      /\ Takeable(a) /\ <<from, a.key>> \notin h.offered => \E i \in DOMAIN r.pending : r.pending[i] = e
  BY OfferHolds
<1>2. /\ h.visited = f.visited /\ h.depth = f.depth /\ Holds(h.pending, f.pending)
      /\ \A i \in DOMAIN h.pending :
           h.pending[i].depth = depth \/ \E j \in DOMAIN f.pending : h.pending[i] = f.pending[j]
      /\ \A k \in h.offered : k \in f.offered \/ \E x \in 1 .. n : k = <<from, state.offers[x].key>>
      /\ \A x \in 1 .. n : Takeable(state.offers[x]) => \E i \in DOMAIN h.pending : h.pending[i] = Entry(x)
  BY DEF Offered
<1>3. e.depth = depth /\ e = Entry(n + 1)
  OBVIOUS
<1>4. <<from, a.key>> \notin h.offered
  <2> SUFFICES ASSUME <<from, a.key>> \in h.offered PROVE FALSE
    OBVIOUS
  <2>1. CASE <<from, a.key>> \in f.offered
    <3>1. <<from, a.key>>[1] = from
      OBVIOUS
    <3> QED BY <2>1, <3>1
  <2>2. CASE \E x \in 1 .. n : <<from, a.key>> = <<from, state.offers[x].key>>
    BY <2>2
  <2> QED BY <1>2, <2>1, <2>2
<1>5. \A x \in 1 .. n + 1 : x \in 1 .. n \/ x = n + 1
  OBVIOUS
<1>6. 1 .. n \subseteq 1 .. n + 1 /\ n + 1 \in 1 .. n + 1
  OBVIOUS
<1> HIDE DEF e, a, from, Entry
<1>7. Holds(r.pending, f.pending)
  BY <1>1, <1>2 DEF Holds
<1>8. \A i \in DOMAIN r.pending :
        r.pending[i].depth = depth \/ \E j \in DOMAIN f.pending : r.pending[i] = f.pending[j]
  BY <1>1, <1>2, <1>3
<1>9. \A k \in r.offered : k \in f.offered \/ \E x \in 1 .. n + 1 : k = <<from, state.offers[x].key>>
  BY <1>1, <1>2, <1>6 DEF a
<1>10. ASSUME NEW x \in 1 .. n + 1, Takeable(state.offers[x])
       PROVE  \E i \in DOMAIN r.pending : r.pending[i] = Entry(x)
  <2>1. CASE x \in 1 .. n
    <3>1. PICK j \in DOMAIN h.pending : h.pending[j] = Entry(x)
      BY <1>2, <1>10, <2>1
    <3> QED BY <1>1, <3>1 DEF Holds
  <2>2. CASE x = n + 1
    BY <1>1, <1>3, <1>4, <1>10, <2>2 DEF a
  <2> QED BY <1>5, <2>1, <2>2
<1> QED BY <1>1, <1>2, <1>7, <1>8, <1>9, <1>10 DEF Offered, Entry, from

\* A page nothing was offered of puts everything that may be taken into the queue.
LEMMA EnqueueOffers ==
  ASSUME NEW w, WorldOK(w), NEW f, FrontierOK(w, f), NEW state, PageOK(w, state),
         NEW depth \in 0 .. w.depth
  PROVE  /\ \A k \in f.offered : k[1] # Signature(state)
         /\ \A i, j \in DOMAIN state.offers : state.offers[i].key = state.offers[j].key => i = j
         => Offered(f, Enqueue(f, state, depth), state, depth, Len(state.offers))
<1> DEFINE n == Len(state.offers)
<1>1. /\ n \in Nat /\ DOMAIN state.offers = 1 .. n
      /\ \A i \in 1 .. n : state.offers[i] \in w.controls
  <2>1. state.offers \in Seq(ToSet(state.offers)) /\ ToSet(state.offers) \subseteq w.controls
    BY DEF PageOK, IsSequence
  <2> QED BY <2>1
<1>2. PICK after : /\ after = [i \in 0 .. n |->
                         IF i = 0 THEN f
                         ELSE Offer(after[i - 1], Signature(state), state.offers[i], depth)]
                   /\ Enqueue(f, state, depth) = after[n]
  BY <1>1, EnqueueSteps
<1> SUFFICES ASSUME \A k \in f.offered : k[1] # Signature(state),
                    \A i, j \in DOMAIN state.offers :
                      state.offers[i].key = state.offers[j].key => i = j
             PROVE  Offered(f, Enqueue(f, state, depth), state, depth, Len(state.offers))
  OBVIOUS
<1> DEFINE Good(i) == FrontierOK(w, after[i]) /\ Offered(f, after[i], state, depth, i)
           Goods == { i \in 0 .. n : Good(i) }
<1> HIDE DEF n
<1>3. 0 \in Goods
  <2>1. after[0] = f /\ 0 \in 0 .. n
    BY <1>1, <1>2
  <2>2. Offered(f, f, state, depth, 0)
    BY DEF Offered, Holds
  <2> QED BY <2>1, <2>2
<1>4. ASSUME NEW i \in 0 .. n, i \in Goods, i < n PROVE i + 1 \in Goods
  <2> DEFINE m == i + 1
  <2>1. m \in 1 .. n /\ m \in 0 .. n /\ m # 0 /\ m - 1 = i /\ i \in Nat /\ \A x \in 1 .. i : x \in 1 .. n /\ x # m
    BY <1>1, <1>4
  <2>2. after[m] = Offer(after[i], Signature(state), state.offers[m], depth)
    <3> HIDE DEF m
    <3> QED BY <1>2, <2>1
  <2>3. /\ state.offers[m] \in w.controls /\ FrontierOK(w, after[i])
        /\ Offered(f, after[i], state, depth, i)
        /\ \A x \in 1 .. i : state.offers[x].key # state.offers[m].key
    <3> HIDE DEF m
    <3> QED BY <1>1, <1>4, <2>1
  <2>4. FrontierOK(w, after[m])
    BY <2>2, <2>3, OfferKeeps
  <2>5. Offered(f, after[m], state, depth, i + 1)
    <3>1. state.offers[i + 1] \in w.controls /\ \A x \in 1 .. i : state.offers[x].key # state.offers[i + 1].key
      BY <2>3
    <3>2. after[i + 1] = Offer(after[i], Signature(state), state.offers[i + 1], depth)
      BY <2>2
    <3> QED BY <2>1, <2>3, <3>1, <3>2, OneMoreOffered
  <2> QED BY <2>1, <2>4, <2>5
<1>5. Good(n)
  <2> HIDE DEF Goods
  <2>1. \A i \in 0 .. n : i \in Goods
    BY <1>1, <1>3, <1>4, Climb
  <2>2. n \in Goods
    BY <1>1, <2>1
  <2> QED BY <2>2 DEF Goods
<1> QED BY <1>2, <1>5 DEF n

\* A page was met within so many steps.
MetIn(f, p, d) ==
  \E i \in DOMAIN f.visited : Signature(f.visited[i]) = Signature(StateOf(p)) /\ f.depth[i] <= d

\* A frontier that went no further than d steps, and owes nothing nearer than that.
Walked(f, d) ==
  /\ f.depth \in Seq(Nat) /\ Len(f.depth) = Len(f.visited)
  /\ \A i \in DOMAIN f.visited :
       f.depth[i] <= d /\ \E p \in DOMAIN site.route : f.visited[i] = StateOf(p)
  /\ \A i \in DOMAIN f.pending : d <= f.pending[i].depth
  /\ \A k \in f.offered : k[1] \in Signatures(f.visited)

\* What was visited stays visited, where and when it was.
Remembers(h, f) ==
  \A i \in DOMAIN f.visited :
    i \in DOMAIN h.visited /\ h.visited[i] = f.visited[i] /\ h.depth[i] = f.depth[i]

\* Everything the state offers is in the queue.
AllWait(h, state, d) ==
  \A x \in DOMAIN state.offers : Takeable(state.offers[x]) =>
    \E i \in DOMAIN h.pending :
      h.pending[i] = [from |-> Signature(state), affordance |-> state.offers[x], depth |-> d]

\* What a page that is looked at d steps from the start makes of a frontier.
Looked(f, h, p, d) ==
  /\ Walked(h, d) /\ Remembers(h, f) /\ Holds(h.pending, f.pending) /\ MetIn(h, p, d)
  /\ \A i \in DOMAIN h.visited :
       \/ i \in DOMAIN f.visited
       \/ h.visited[i] = StateOf(p) /\ h.depth[i] = d /\ (d < MaxDepth => AllWait(h, StateOf(p), d + 1))
  /\ Seen(f, StateOf(p)) => h.pending = f.pending

\* A page that was looked at before changes nothing: this way to it is no shorter.
LEMMA SeenAgain ==
  ASSUME NEW w, NEW f, FrontierOK(w, f), NEW d \in Nat, Walked(f, d),
         NEW p, Seen(f, StateOf(p))
  PROVE  Looked(f, Record(f, StateOf(p), d), p, d)
<1> DEFINE state == StateOf(p)
           r == Record(f, state, d)
           depths == [i \in DOMAIN f.depth |->
                       IF Signature(f.visited[i]) = Signature(state) /\ d < f.depth[i]
                       THEN d ELSE f.depth[i]]
<1>1. /\ DOMAIN f = {"visited", "depth", "pending", "offered", "taken", "declined"}
      /\ IsSequence(f.visited)
  BY DEF FrontierOK, EmptyFrontier, VisitedOK
<1>2. /\ f.depth \in Seq(Nat) /\ DOMAIN f.depth = DOMAIN f.visited
      /\ \A i \in DOMAIN f.depth : f.depth[i] \in Nat /\ f.depth[i] <= d
  BY <1>1 DEF Walked, IsSequence
<1>3. r = [f EXCEPT !.depth = depths]
  BY DEF Record
<1>4. depths = f.depth
  <2>1. \A i \in DOMAIN f.depth : ~(d < f.depth[i])
    BY <1>2
  <2>2. depths = [i \in DOMAIN f.depth |-> f.depth[i]]
    BY <2>1
  <2> HIDE DEF depths
  <2> QED BY <1>2, <2>2
<1> HIDE DEF r, depths, state
<1>5. r.visited = f.visited /\ r.depth = f.depth /\ r.pending = f.pending /\ r.offered = f.offered
  BY <1>1, <1>3, <1>4
<1>6. Walked(r, d)
  BY <1>5 DEF Walked
<1>7. MetIn(r, p, d)
  <2>1. PICK i \in DOMAIN f.visited : Signature(state) = Signature(f.visited[i])
    BY DEF Seen, Signatures, state
  <2> QED BY <1>2, <1>5, <2>1 DEF MetIn, state
<1>8. Remembers(r, f) /\ Holds(r.pending, f.pending)
  BY <1>5 DEF Remembers, Holds
<1>9. Looked(f, r, p, d)
  BY <1>5, <1>6, <1>7, <1>8 DEF Looked
<1> QED BY <1>9 DEF r, state

\* A page that is new is put on the map, and what it offers into the queue.
LEMMA SeenFirst ==
  ASSUME NEW w, WorldOK(w), MaxDepth = w.depth, NEW f, FrontierOK(w, f), NEW d \in Nat, Walked(f, d),
         NEW p \in DOMAIN site.route, ~Seen(f, StateOf(p)), PageOK(w, StateOf(p)),
         \A i, j \in DOMAIN StateOf(p).offers :
           StateOf(p).offers[i].key = StateOf(p).offers[j].key => i = j
  PROVE  Looked(f, Record(f, StateOf(p), d), p, d)
<1> DEFINE state == StateOf(p)
           r == Record(f, state, d)
           met == [f EXCEPT !.visited = Append(@, state), !.depth = Append(@, d)]
           states == Append(f.visited, state)
           depths == Append(f.depth, d)
           n == Len(f.visited)
<1>1. /\ DOMAIN f = {"visited", "depth", "pending", "offered", "taken", "declined"}
      /\ IsSequence(f.visited) /\ Len(f.visited) \in Nat /\ DOMAIN f.visited = 1 .. n
      /\ f.depth \in Seq(Nat) /\ Len(f.depth) = n /\ DOMAIN f.depth = 1 .. n
      /\ \A i \in DOMAIN f.visited : f.depth[i] <= d /\ \E q \in DOMAIN site.route : f.visited[i] = StateOf(q)
      /\ \A i \in DOMAIN f.pending : d <= f.pending[i].depth
      /\ \A k \in f.offered : k[1] \in Signatures(f.visited)
  BY DEF FrontierOK, EmptyFrontier, VisitedOK, Walked, IsSequence
<1>2. r = IF d < MaxDepth THEN Enqueue(met, state, d + 1) ELSE met
  BY DEF Record
<1>3. /\ met.visited = states /\ met.pending = f.pending /\ met.depth = depths
      /\ met.offered = f.offered /\ met.taken = f.taken /\ DOMAIN met = DOMAIN f
  BY <1>1
<1>4. /\ IsSequence(states) /\ DOMAIN states = 1 .. n + 1 /\ Len(states) = n + 1
      /\ states[n + 1] = state /\ \A i \in 1 .. n : states[i] = f.visited[i]
  <2>1. /\ IsSequence(states) /\ DOMAIN states = 1 .. n + 1
        /\ states[n + 1] = state /\ \A i \in DOMAIN f.visited : states[i] = f.visited[i]
    BY <1>1, AppendedIsSequence
  <2> HIDE DEF states
  <2>2. Len(states) = n + 1
    BY <1>1, <2>1 DEF IsSequence
  <2> QED BY <1>1, <2>1, <2>2
<1>5. /\ depths \in Seq(Nat) /\ Len(depths) = n + 1 /\ depths[n + 1] = d
      /\ \A i \in 1 .. n : depths[i] = f.depth[i]
  BY <1>1
<1>6. Signature(state) \notin Signatures(f.visited)
  BY DEF Seen
<1> HIDE DEF met, states, depths, r, state
<1>7. \A k \in met.offered : k[1] # Signature(state)
  BY <1>1, <1>3, <1>6
<1>8. \A i \in 1 .. n + 1 : i \in 1 .. n \/ i = n + 1
  BY <1>1
<1>9. n + 1 \in 1 .. n + 1 /\ 1 .. n \subseteq 1 .. n + 1
  BY <1>1
<1>10. Signatures(f.visited) \subseteq Signatures(states) /\ Signature(state) \in Signatures(states)
  <2>1. \A i \in DOMAIN f.visited : i \in DOMAIN states /\ states[i] = f.visited[i]
    BY <1>1, <1>4, <1>9
  <2>2. n + 1 \in DOMAIN states
    BY <1>4, <1>9
  <2> QED BY <1>4, <2>1, <2>2 DEF Signatures
<1>11. /\ r.visited = states /\ r.depth = depths /\ Holds(r.pending, f.pending)
       /\ \A i \in DOMAIN r.pending : d <= r.pending[i].depth
       /\ \A k \in r.offered : k[1] \in Signatures(states)
       /\ d < MaxDepth => AllWait(r, state, d + 1)
  <2>1. CASE d < MaxDepth
    <3>1. d + 1 \in 0 .. w.depth
      BY <2>1 DEF WorldOK
    <3>2. FrontierOK(w, met)
      <4>1. VisitedOK(states)
        BY <1>6, VisitedGrows DEF FrontierOK, PageOK, state, states
      <4> QED BY <1>3, <4>1 DEF FrontierOK
    <3>3. Offered(met, Enqueue(met, state, d + 1), state, d + 1, Len(state.offers))
      <4>1. PageOK(w, state) /\ \A i, j \in DOMAIN state.offers : state.offers[i].key = state.offers[j].key => i = j
        BY DEF state
      <4> QED BY <1>7, <3>1, <3>2, <4>1, EnqueueOffers
    <3>4. r = Enqueue(met, state, d + 1)
      BY <1>2, <2>1
    <3>5. Offered(met, r, state, d + 1, Len(state.offers))
      BY <3>3, <3>4
    <3>6. r.visited = states /\ r.depth = depths /\ Holds(r.pending, f.pending)
      BY <1>3, <3>5 DEF Offered
    <3>7. \A i \in DOMAIN r.pending : d <= r.pending[i].depth
      <4>1. \A i \in DOMAIN r.pending :
              r.pending[i].depth = d + 1 \/ \E j \in DOMAIN f.pending : r.pending[i] = f.pending[j]
        BY <1>3, <3>5 DEF Offered
      <4> QED BY <1>1, <4>1
    <3>8. \A k \in r.offered : k[1] \in Signatures(states)
      <4>1. \A k \in r.offered :
              k \in f.offered \/ \E x \in 1 .. Len(state.offers) : k = <<Signature(state), state.offers[x].key>>
        BY <1>3, <3>5 DEF Offered
      <4>2. ASSUME NEW k \in r.offered, k \notin f.offered PROVE k[1] = Signature(state)
        BY <4>1, <4>2
      <4> QED BY <1>1, <1>10, <4>2
    <3>9. AllWait(r, state, d + 1)
      <4>1. DOMAIN state.offers = 1 .. Len(state.offers)
        BY DEF PageOK, IsSequence, state
      <4> QED BY <3>5, <4>1 DEF Offered, AllWait
    <3> QED BY <3>6, <3>7, <3>8, <3>9
  <2>2. CASE ~(d < MaxDepth)
    <3>1. r = met
      BY <1>2, <2>2
    <3>2. Holds(f.pending, f.pending)
      BY DEF Holds
    <3> QED BY <1>1, <1>3, <1>10, <2>2, <3>1, <3>2
  <2> QED BY <2>1, <2>2
<1>12. Walked(r, d)
  <2>1. \A i \in DOMAIN states : depths[i] <= d /\ \E q \in DOMAIN site.route : states[i] = StateOf(q)
    <3>1. \A i \in 1 .. n : depths[i] <= d /\ \E q \in DOMAIN site.route : states[i] = StateOf(q)
      BY <1>1, <1>4, <1>5
    <3>2. depths[n + 1] <= d /\ states[n + 1] = StateOf(p)
      BY <1>4, <1>5 DEF state
    <3> QED BY <1>4, <1>8, <3>1, <3>2
  <2> QED BY <1>4, <1>5, <1>11, <2>1 DEF Walked
<1>13. Remembers(r, f)
  BY <1>1, <1>4, <1>5, <1>9, <1>11 DEF Remembers
<1>14. MetIn(r, p, d)
  <2>1. n + 1 \in DOMAIN r.visited /\ r.visited[n + 1] = StateOf(p) /\ r.depth[n + 1] <= d
    BY <1>4, <1>5, <1>9, <1>11 DEF state
  <2> QED BY <2>1 DEF MetIn
<1>15. \A i \in DOMAIN r.visited :
         \/ i \in DOMAIN f.visited
         \/ r.visited[i] = state /\ r.depth[i] = d /\ (d < MaxDepth => AllWait(r, state, d + 1))
  BY <1>1, <1>4, <1>5, <1>8, <1>11
<1>16. ~Seen(f, state)
  BY DEF state
<1> QED BY <1>11, <1>12, <1>13, <1>14, <1>15, <1>16 DEF Looked, r, state

\* The entry by which an affordance of a state is followed.
EntryIn(f, i, a) ==
  [from |-> Signature(f.visited[i]), affordance |-> a, depth |-> f.depth[i] + 1]

Landed == {"verify", "checkpoint", "explore"}
Closing == {"verify_criteria", "close_episode", "end", "recorded", "returned"}

\* What an affordance of a page leads to is due, on its way, just reached, or on the map.
Follows(at, c, pg, i, p, a) ==
  \/ \E j \in DOMAIN c.frontier.pending : c.frontier.pending[j] = EntryIn(c.frontier, i, a)
  \/ c.pending = EntryIn(c.frontier, i, a) /\ (at = "act" \/ (at \in Landed /\ pg = Leads(p, a)))
  \/ MetIn(c.frontier, Leads(p, a), c.frontier.depth[i] + 1)

AllFollowed(at, c, pg) ==
  \A i \in DOMAIN c.frontier.visited, p \in DOMAIN site.route :
    c.frontier.visited[i] = StateOf(p) /\ c.frontier.depth[i] < MaxDepth =>
      \A x \in DOMAIN StateOf(p).offers :
        Takeable(StateOf(p).offers[x]) => Follows(at, c, pg, i, p, StateOf(p).offers[x])

Searched(at, c, pg) == Walked(c.frontier, c.depth) /\ AllFollowed(at, c, pg)

\* What a node knows of where it is, as long as no page was missed.
Placed(at, c, pg) ==
  /\ c.pending # NoEntry => c.depth = c.pending.depth /\ ~c.goal
  /\ at \in {"explore", "checkpoint"} => ~c.goal
  /\ at = "verify" /\ c.pending # NoEntry => c.ok /\ ~c.denied
  /\ at = "checkpoint" => c.pending # NoEntry
  /\ at # "recover"
  /\ at \in Closing => c.pending = NoEntry
  /\ MetIn(c.frontier, site.start, 0) \/ (at = "explore" /\ pg = site.start /\ c.depth = 0)
  /\ c.report # "goal_reached"
  /\ c.report = "frontier_exhausted" =>
       /\ MetIn(c.frontier, site.start, 0)
       /\ c.frontier.pending = << >> /\ c.pending = NoEntry
       /\ at = "explore" => pg = site.start

\* A page offers each key once.
KeysOnce == \A p \in DOMAIN site.route : \A i, j \in DOMAIN site.offers[p] :
              site.offers[p][i].key = site.offers[p][j].key => i = j

\* A page that was met is still met when more was looked at.
LEMMA StillMet ==
  ASSUME NEW f, NEW h, Remembers(h, f), NEW p, NEW d, MetIn(f, p, d)
  PROVE  MetIn(h, p, d)
BY DEF Remembers, MetIn

\* What is looked at is what the last action led to: it is on the map now.
LEMMA LookedIsFollowed ==
  ASSUME NEW c, Walked(c.frontier, c.depth), AllFollowed("explore", c, page),
         c.pending # NoEntry => c.depth = c.pending.depth,
         NEW h, Looked(c.frontier, h, page, c.depth), DOMAIN h.depth = DOMAIN h.visited,
         NEW i \in DOMAIN h.visited, NEW p \in DOMAIN site.route,
         h.visited[i] = StateOf(p), h.depth[i] < MaxDepth,
         NEW x \in DOMAIN StateOf(p).offers, Takeable(StateOf(p).offers[x])
  PROVE  \/ \E j \in DOMAIN h.pending : h.pending[j] = EntryIn(h, i, StateOf(p).offers[x])
         \/ MetIn(h, Leads(p, StateOf(p).offers[x]), h.depth[i] + 1)
<1> DEFINE a == StateOf(p).offers[x]
           f == c.frontier
<1>1. /\ Remembers(h, f) /\ Holds(h.pending, f.pending) /\ MetIn(h, page, c.depth)
      /\ \/ i \in DOMAIN f.visited
         \/ h.visited[i] = StateOf(page) /\ h.depth[i] = c.depth
              /\ (c.depth < MaxDepth => AllWait(h, StateOf(page), c.depth + 1))
  BY DEF Looked
<1>2. CASE i \in DOMAIN f.visited
  <2>1. h.visited[i] = f.visited[i] /\ h.depth[i] = f.depth[i]
    BY <1>1, <1>2 DEF Remembers
  <2>2. Follows("explore", c, page, i, p, a)
    BY <1>2, <2>1 DEF AllFollowed
  <2>3. EntryIn(h, i, a) = EntryIn(f, i, a)
    BY <2>1 DEF EntryIn
  <2>4. CASE \E j \in DOMAIN f.pending : f.pending[j] = EntryIn(f, i, a)
    BY <1>1, <2>3, <2>4 DEF Holds
  <2>5. CASE c.pending = EntryIn(f, i, a) /\ page = Leads(p, a)
    <3>1. c.pending # NoEntry /\ c.pending.depth = h.depth[i] + 1
      <4>1. /\ DOMAIN EntryIn(f, i, a) = {"from", "affordance", "depth"} /\ DOMAIN NoEntry = {"depth"}
            /\ EntryIn(f, i, a).depth = f.depth[i] + 1
        BY DEF EntryIn, NoEntry
      <4>2. "from" \notin DOMAIN NoEntry /\ "from" \in DOMAIN EntryIn(f, i, a)
        BY <4>1
      <4> QED BY <2>1, <2>5, <4>1, <4>2
    <3>2. c.depth = h.depth[i] + 1
      BY <3>1
    <3> QED BY <1>1, <2>5, <3>2
  <2>6. CASE MetIn(f, Leads(p, a), f.depth[i] + 1)
    BY <1>1, <2>1, <2>6, StillMet
  <2> QED BY <2>2, <2>4, <2>5, <2>6 DEF Follows
<1>3. CASE i \notin DOMAIN f.visited
  <2>1. h.visited[i] = StateOf(page) /\ h.depth[i] = c.depth /\ AllWait(h, StateOf(page), c.depth + 1)
    BY <1>1, <1>3
  <2>2. StateOf(page) = StateOf(p)
    BY <2>1
  <2>3. PICK j \in DOMAIN h.pending :
          h.pending[j] = [from |-> Signature(StateOf(p)), affordance |-> a, depth |-> c.depth + 1]
    BY <2>1, <2>2 DEF AllWait
  <2>4. h.pending[j] = EntryIn(h, i, a)
    BY <2>1, <2>3 DEF EntryIn
  <2> QED BY <2>4
<1> QED BY <1>2, <1>3

\* What the node that explores takes is the nearest there is, and the rest stays due.
LEMMA TakeSearches ==
  ASSUME NEW w, NEW h, FrontierOK(w, h), NEW d \in Nat, Walked(h, d), h.pending # << >>
  PROVE  /\ Walked(Take(h), Head(h.pending).depth)
         /\ Take(h).visited = h.visited /\ Take(h).depth = h.depth
         /\ \A j \in DOMAIN h.pending :
              \/ h.pending[j] = Head(h.pending)
              \/ \E i \in DOMAIN Take(h).pending : Take(h).pending[i] = h.pending[j]
<1> DEFINE q == h.pending
           z == Tail(q)
<1>1. /\ DOMAIN h = {"visited", "depth", "pending", "offered", "taken", "declined"}
      /\ IsSequence(q) /\ q # << >>
      /\ \A i, j \in DOMAIN q : i < j => Ahead(q[i], q[j])
      /\ \A i \in DOMAIN q : q[i].depth \in Int /\ d <= q[i].depth
  BY DEF FrontierOK, EmptyFrontier, PendingOK, Queue, Walked
<1>2. /\ Take(h).visited = h.visited /\ Take(h).depth = h.depth /\ Take(h).pending = z
      /\ Take(h).offered = h.offered
  BY <1>1 DEF Take
<1> HIDE DEF q
<1>3. /\ Head(q) = q[1] /\ DOMAIN q = 1 .. Len(q) /\ Len(q) \in Nat /\ Len(q) >= 1
      /\ DOMAIN z = 1 .. Len(q) - 1 /\ \A i \in 1 .. Len(q) - 1 : z[i] = q[i + 1]
  <2>1. q \in Seq(ToSet(q)) /\ q # << >>
    BY <1>1 DEF IsSequence
  <2> QED BY <2>1
<1> HIDE DEF z
<1>4. ASSUME NEW j \in DOMAIN q, j # 1 PROVE \E i \in DOMAIN z : z[i] = q[j]
  <2>1. j - 1 \in 1 .. Len(q) - 1 /\ (j - 1) + 1 = j
    BY <1>3, <1>4
  <2> QED BY <1>3, <2>1
<1>5. \A j \in DOMAIN q : q[1].depth <= q[j].depth
  <2> SUFFICES ASSUME NEW j \in DOMAIN q, j # 1 PROVE q[1].depth <= q[j].depth
    BY <1>1, <1>3
  <2>1. 1 \in DOMAIN q /\ 1 < j
    BY <1>3
  <2> QED BY <1>1, <2>1 DEF Ahead
<1>6. \A i \in DOMAIN z : Head(q).depth <= z[i].depth
  <2>1. \A i \in DOMAIN z : i + 1 \in DOMAIN q /\ z[i] = q[i + 1]
    BY <1>3
  <2> QED BY <1>3, <1>5, <2>1
<1>7. d <= Head(q).depth /\ Head(q).depth \in Int
  <2>1. 1 \in DOMAIN q
    BY <1>3
  <2> QED BY <1>1, <1>3, <2>1
<1>8. Walked(Take(h), Head(q).depth)
  <2>1. /\ h.depth \in Seq(Nat) /\ Len(h.depth) = Len(h.visited)
        /\ \A i \in DOMAIN h.visited :
             h.depth[i] <= d /\ \E p \in DOMAIN site.route : h.visited[i] = StateOf(p)
        /\ \A k \in h.offered : k[1] \in Signatures(h.visited)
        /\ DOMAIN h.visited = 1 .. Len(h.visited)
    BY DEF Walked, FrontierOK, VisitedOK, IsSequence
  <2>2. \A i \in DOMAIN h.visited : h.depth[i] <= Head(q).depth
    <3>1. \A i \in DOMAIN h.visited : h.depth[i] \in Nat
      BY <2>1
    <3> QED BY <1>7, <2>1, <3>1
  <2> QED BY <1>2, <1>6, <2>1, <2>2 DEF Walked
<1> QED BY <1>2, <1>3, <1>4, <1>8 DEF q

\* A step of an exploration that looks at the page it is on, and goes on or stops.
LEMMA ExploreSearches ==
  ASSUME NEW w, WorldOK(w), MaxDepth = w.depth, MaxActions = w.actions, ChannelsOK(w, g),
         page \in DOMAIN site.route, PageOK(w, StateOf(page)), KeysOnce,
         Searched("explore", g, page), Placed("explore", g, page), NEW late \in BOOLEAN,
         NEW c, c = Explored(StateOf(page), late)
  PROVE  Searched("act", c, page) /\ Placed("act", c, page)
<1> DEFINE f == g.frontier
           d == g.depth
           h == Record(f, StateOf(page), d)
           reason == StopReason(h, late)
<1>1. /\ DOMAIN g = {"frontier", "depth", "report", "pending", "ok", "denied", "goal", "failed",
                     "recoveries"}
      /\ FrontierOK(w, f) /\ d \in Nat /\ Walked(f, d)
  BY DEF ChannelsOK, Fresh, Searched
<1>2. FrontierOK(w, h)
  BY <1>1, RecordKeeps
<1>3. Looked(f, h, page, d)
  <2>1. CASE Seen(f, StateOf(page))
    BY <1>1, <2>1, SeenAgain
  <2>2. CASE ~Seen(f, StateOf(page))
    <3>1. \A i, j \in DOMAIN StateOf(page).offers :
            StateOf(page).offers[i].key = StateOf(page).offers[j].key => i = j
      BY DEF KeysOnce, StateOf
    <3> QED BY <1>1, <2>2, <3>1, SeenFirst
  <2> QED BY <2>1, <2>2
<1>4. c = IF reason # "none"
          THEN [g EXCEPT !.frontier = h, !.pending = NoEntry, !.report = reason,
                     !.goal = Complete(reason), !.failed = @ \/ ~Complete(reason)]
          ELSE [g EXCEPT !.frontier = Take(h), !.pending = Head(h.pending),
                     !.depth = Head(h.pending).depth]
  BY DEF Explored
<1>5. /\ reason \in {"deadline", "max_actions", "max_states", "frontier_exhausted", "none"}
      /\ reason \in {"none", "frontier_exhausted"} => (reason = "none" <=> h.pending # << >>)
  <2> HIDE DEF h
  <2> QED BY DEF StopReason
<1> HIDE DEF h, reason
<1>6. /\ Walked(h, d) /\ Remembers(h, f) /\ Holds(h.pending, f.pending) /\ MetIn(h, page, d)
      /\ Seen(f, StateOf(page)) => h.pending = f.pending
  BY <1>3 DEF Looked
<1>7. DOMAIN h.depth = DOMAIN h.visited /\ \A i \in DOMAIN h.visited : h.depth[i] \in Nat
  BY <1>2, <1>6 DEF Walked, FrontierOK, VisitedOK, IsSequence
<1>8. ASSUME NEW i \in DOMAIN h.visited, NEW p \in DOMAIN site.route,
             h.visited[i] = StateOf(p), h.depth[i] < MaxDepth,
             NEW x \in DOMAIN StateOf(p).offers, Takeable(StateOf(p).offers[x])
      PROVE  \/ \E j \in DOMAIN h.pending : h.pending[j] = EntryIn(h, i, StateOf(p).offers[x])
             \/ MetIn(h, Leads(p, StateOf(p).offers[x]), h.depth[i] + 1)
  BY <1>3, <1>7, <1>8, LookedIsFollowed DEF Searched, Placed
<1>9. MetIn(h, site.start, 0)
  <2>1. CASE MetIn(f, site.start, 0)
    BY <1>6, <2>1, StillMet
  <2>2. CASE page = site.start /\ d = 0
    BY <1>6, <2>2
  <2> QED BY <2>1, <2>2 DEF Placed
<1>10. CASE reason # "none"
  <2>1. /\ c.frontier = h /\ c.pending = NoEntry /\ c.report = reason /\ c.depth = d
    BY <1>1, <1>4, <1>10
  <2>2. Searched("act", c, page)
    <3>1. Walked(c.frontier, c.depth)
      BY <1>6, <2>1
    <3>2. AllFollowed("act", c, page)
      BY <1>8, <2>1 DEF AllFollowed, Follows
    <3> QED BY <3>1, <3>2 DEF Searched
  <2>3. Placed("act", c, page)
    <3>1. reason = "frontier_exhausted" => h.pending = << >>
      BY <1>5
    <3>2. reason # "goal_reached"
      BY <1>5
    <3> QED BY <1>9, <2>1, <3>1, <3>2 DEF Placed, Closing
  <2> QED BY <2>2, <2>3
<1>11. CASE reason = "none"
  <2> DEFINE e == Head(h.pending)
             t == Take(h)
  <2>1. /\ c.frontier = t /\ c.pending = e /\ c.report = g.report /\ c.depth = e.depth
        /\ c.goal = g.goal
    BY <1>1, <1>4, <1>11
  <2>2. h.pending # << >>
    BY <1>5, <1>11
  <2>3. /\ Walked(t, e.depth) /\ t.visited = h.visited /\ t.depth = h.depth
        /\ \A j \in DOMAIN h.pending :
             h.pending[j] = e \/ \E i \in DOMAIN t.pending : t.pending[i] = h.pending[j]
    BY <1>1, <1>2, <1>6, <2>2, TakeSearches
  <2> HIDE DEF e, t
  <2>4. ASSUME NEW i \in DOMAIN t.visited, NEW p \in DOMAIN site.route,
               t.visited[i] = StateOf(p), t.depth[i] < MaxDepth,
               NEW x \in DOMAIN StateOf(p).offers, Takeable(StateOf(p).offers[x])
        PROVE  Follows("act", c, page, i, p, StateOf(p).offers[x])
    <3> DEFINE a == StateOf(p).offers[x]
    <3>1. EntryIn(t, i, a) = EntryIn(h, i, a)
      BY <2>3 DEF EntryIn
    <3>2. \/ \E j \in DOMAIN h.pending : h.pending[j] = EntryIn(h, i, a)
          \/ MetIn(h, Leads(p, a), h.depth[i] + 1)
      BY <1>8, <2>3, <2>4
    <3>3. CASE \E j \in DOMAIN h.pending : h.pending[j] = EntryIn(h, i, a)
      BY <2>1, <2>3, <3>1, <3>3 DEF Follows
    <3>4. CASE MetIn(h, Leads(p, a), h.depth[i] + 1)
      <4>1. MetIn(t, Leads(p, a), t.depth[i] + 1)
        BY <2>3, <3>4 DEF MetIn
      <4> QED BY <2>1, <4>1 DEF Follows
    <3> QED BY <3>2, <3>3, <3>4
  <2>5. Searched("act", c, page)
    BY <2>1, <2>3, <2>4 DEF Searched, AllFollowed
  <2>6. MetIn(t, site.start, 0)
    BY <1>9, <2>3 DEF MetIn
  <2>7. g.report # "frontier_exhausted"
    <3> SUFFICES ASSUME g.report = "frontier_exhausted" PROVE FALSE
      OBVIOUS
    <3>1. MetIn(f, site.start, 0) /\ f.pending = << >> /\ page = site.start
      BY DEF Placed
    <3>2. Seen(f, StateOf(page))
      BY <3>1 DEF MetIn, Seen, Signatures
    <3> QED BY <1>6, <2>2, <3>1, <3>2
  <2>8. ~g.goal /\ g.report # "goal_reached"
    BY DEF Placed
  <2>9. Placed("act", c, page)
    BY <2>1, <2>6, <2>7, <2>8 DEF Placed, Closing
  <2> QED BY <2>5, <2>9
<1> QED BY <1>10, <1>11

\* The function Within is defined by exists, and is what its definition says.
LEMMA WithinSteps ==
  ASSUME MaxDepth \in Nat
  PROVE  Within = [d \in 0 .. MaxDepth |->
                     IF d = 0 THEN {site.start}
                     ELSE Within[d - 1] \cup UNION { Nexts(p) : p \in Within[d - 1] }]
<1> DEFINE Next1(was) == was \cup UNION { Nexts(p) : p \in was }
           Defines(h, n) == h = [i \in 0 .. n |-> IF i = 0 THEN {site.start} ELSE Next1(h[i - 1])]
           Defined == { n \in Nat : \E h : Defines(h, n) }
<1>1. 0 \in Defined
  <2> DEFINE h == [i \in 0 .. 0 |-> {site.start}]
  <2>1. Defines(h, 0)
    OBVIOUS
  <2> QED BY <2>1
<1>2. ASSUME NEW n \in Defined PROVE n + 1 \in Defined
  <2>1. PICK h : Defines(h, n)
    BY <1>2
  <2> DEFINE k == [i \in 0 .. n + 1 |-> IF i = n + 1 THEN Next1(h[n]) ELSE h[i]]
  <2> HIDE DEF Next1
  <2>2. \A i \in 0 .. n : k[i] = h[i]
    OBVIOUS
  <2>3. ASSUME NEW i \in 0 .. n + 1 PROVE k[i] = IF i = 0 THEN {site.start} ELSE Next1(k[i - 1])
    <3>1. CASE i = n + 1
      <4>1. k[i] = Next1(h[n]) /\ i # 0 /\ i - 1 = n /\ k[n] = h[n]
        BY <1>2, <2>2, <3>1
      <4> QED BY <4>1
    <3>2. CASE i = 0
      BY <1>2, <2>1, <2>2, <3>2
    <3>3. CASE i \in 1 .. n
      <4>1. i \in 0 .. n /\ i - 1 \in 0 .. n /\ i # 0
        BY <1>2, <3>3
      <4>2. h[i] = Next1(h[i - 1])
        BY <2>1, <4>1
      <4> QED BY <2>2, <4>1, <4>2
    <3>4. i = 0 \/ i \in 1 .. n \/ i = n + 1
      BY <1>2
    <3> QED BY <3>1, <3>2, <3>3, <3>4
  <2>4. Defines(k, n + 1)
    BY <2>3
  <2>5. n + 1 \in Nat
    BY <1>2
  <2> QED BY <2>4, <2>5
<1>3. MaxDepth \in Defined
  <2> HIDE DEF Defined
  <2>1. \A i \in 0 .. MaxDepth : i \in Defined
    BY <1>1, <1>2, Climb
  <2> QED BY <2>1
<1>4. Within = CHOOSE h : Defines(h, MaxDepth)
  BY DEF Within
<1>5. Defines(Within, MaxDepth)
  BY <1>3, <1>4
<1> QED BY <1>5

\* Where an affordance of a page leads is a page.
LEMMA LeadsToAPage ==
  ASSUME SiteOK(site), NEW p \in DOMAIN site.route, NEW x \in DOMAIN site.offers[p],
         Clickable(site.offers[p][x])
  PROVE  Leads(p, site.offers[p][x]) \in DOMAIN site.route
<1> DEFINE pages == DOMAIN site.route
           a == site.offers[p][x]
<1>1. /\ site.lands \in [pages -> pages] /\ DOMAIN site.offers = pages
      /\ site.offers[p] \in Seq(Affordances(pages))
  BY DEF SiteOK
<1>2. a \in Affordances(pages) /\ a \in ToSet(site.offers[p])
  BY <1>1 DEF ToSet
<1>3. CASE a.to # "none"
  <2>1. a.to \in pages
    BY <1>2, <1>3 DEF Affordances
  <2> QED BY <1>1, <1>3, <2>1 DEF Leads
<1>4. CASE a.to = "none"
  <2>1. a \in UNION { ToSet(site.offers[q]) : q \in pages } /\ ~a.disabled
    BY <1>2 DEF Clickable
  <2>2. site.clicks[p][a.key] \in pages
    <3> HIDE DEF a
    <3> QED BY <1>2, <1>4, <2>1 DEF SiteOK, a
  <2> QED BY <1>4, <2>2 DEF Leads
<1> QED BY <1>3, <1>4

\* A search that owes nothing has met every page within reach.
LEMMA ClosedIsWhole ==
  ASSUME SiteOK(site), PagesAgree(site), MaxDepth \in Nat, NEW at, NEW c, NEW pg,
         Searched(at, c, pg), IsSequence(c.frontier.visited),
         c.frontier.pending = << >>, c.pending = NoEntry,
         MetIn(c.frontier, site.start, 0)
  PROVE  Reachable \subseteq Signatures(c.frontier.visited)
<1> DEFINE f == c.frontier
           pages == DOMAIN site.route
           Good(d) == \A p \in Within[d] : p \in pages /\ MetIn(f, p, d)
           Goods == { d \in 0 .. MaxDepth : Good(d) }
<1>1. /\ \A i \in DOMAIN f.visited : f.depth[i] \in Nat /\ \E p \in pages : f.visited[i] = StateOf(p)
      /\ AllFollowed(at, c, pg)
  BY DEF Searched, Walked, IsSequence
<1>2. /\ Within[0] = {site.start}
      /\ \A d \in 0 .. MaxDepth : d # 0 =>
           Within[d] = Within[d - 1] \cup UNION { Nexts(p) : p \in Within[d - 1] }
  BY WithinSteps
<1>3. site.start \in pages
  BY DEF SiteOK
<1>4. 0 \in Goods
  BY <1>2, <1>3
<1>5. ASSUME NEW d \in 0 .. MaxDepth, d < MaxDepth, NEW p \in pages, MetIn(f, p, d),
             NEW q \in Nexts(p)
      PROVE  q \in pages /\ MetIn(f, q, d + 1)
  <2>1. PICK i \in DOMAIN f.visited : Signature(f.visited[i]) = Signature(StateOf(p)) /\ f.depth[i] <= d
    BY <1>5 DEF MetIn
  <2>2. PICK r \in pages : f.visited[i] = StateOf(r)
    BY <1>1
  <2>3. StateOf(r) = StateOf(p)
    <3>1. Signature(StateOf(r)) = Signature(StateOf(p))
      BY <2>1, <2>2
    <3>2. site.offers[r] = site.offers[p]
      BY <3>1 DEF PagesAgree, StateOf
    <3>3. site.route[r] = site.route[p]
      BY <3>1 DEF Signature, StateOf
    <3> QED BY <3>2, <3>3 DEF StateOf
  <2>4. PICK x \in DOMAIN StateOf(p).offers :
          Takeable(StateOf(p).offers[x]) /\ q = Leads(p, StateOf(p).offers[x])
    BY <1>5 DEF Nexts, Range
  <2>5. StateOf(p).offers = site.offers[p] /\ Clickable(StateOf(p).offers[x])
    BY <2>4 DEF StateOf, Takeable
  <2>6. q \in pages
    BY <2>4, <2>5, LeadsToAPage
  <2>7. f.depth[i] < MaxDepth /\ f.depth[i] + 1 <= d + 1 /\ f.depth[i] \in Nat
    BY <1>1, <1>5, <2>1
  <2>8. Follows(at, c, pg, i, p, StateOf(p).offers[x])
    BY <1>1, <2>2, <2>3, <2>4, <2>7 DEF AllFollowed
  <2>9. MetIn(f, q, f.depth[i] + 1)
    <3>1. c.pending # EntryIn(f, i, StateOf(p).offers[x])
      <4>1. "from" \notin DOMAIN NoEntry /\ "from" \in DOMAIN EntryIn(f, i, StateOf(p).offers[x])
        BY DEF NoEntry, EntryIn
      <4> QED BY <4>1
    <3> QED BY <2>4, <2>8, <3>1 DEF Follows
  <2>10. MetIn(f, q, d + 1)
    <3>1. PICK j \in DOMAIN f.visited : Signature(f.visited[j]) = Signature(StateOf(q)) /\ f.depth[j] <= f.depth[i] + 1
      BY <2>9 DEF MetIn
    <3>2. f.depth[j] <= d + 1
      BY <1>1, <2>7, <3>1
    <3> QED BY <3>1, <3>2 DEF MetIn
  <2> QED BY <2>6, <2>10
<1>6. ASSUME NEW d \in 0 .. MaxDepth, d \in Goods, d < MaxDepth PROVE d + 1 \in Goods
  <2>1. /\ d + 1 \in 0 .. MaxDepth /\ d + 1 # 0 /\ (d + 1) - 1 = d
    BY <1>6
  <2>2. Within[d + 1] = Within[d] \cup UNION { Nexts(p) : p \in Within[d] }
    BY <1>2, <2>1
  <2>3. ASSUME NEW q \in Within[d] PROVE q \in pages /\ MetIn(f, q, d + 1)
    <3>1. q \in pages /\ MetIn(f, q, d)
      BY <1>6
    <3> QED BY <1>1, <3>1 DEF MetIn
  <2>4. ASSUME NEW p \in Within[d], NEW q \in Nexts(p) PROVE q \in pages /\ MetIn(f, q, d + 1)
    <3>1. p \in pages /\ MetIn(f, p, d)
      BY <1>6
    <3> QED BY <1>5, <1>6, <3>1
  <2>5. Good(d + 1)
    BY <2>2, <2>3, <2>4
  <2> QED BY <2>1, <2>5
<1>7. Good(MaxDepth)
  <2> HIDE DEF Goods
  <2>1. MaxDepth \in Goods
    <3>1. \A d \in 0 .. MaxDepth : d \in Goods
      BY <1>4, <1>6, Climb
    <3> QED BY <3>1
  <2> QED BY <2>1 DEF Goods
<1> QED BY <1>7 DEF Reachable, MetIn, Signatures

\* Where an affordance leads does not depend on the node, unless it is on its way.
LEMMA FollowedElsewhere ==
  ASSUME NEW at, NEW next, NEW c, NEW e, NEW pg, NEW there, AllFollowed(at, c, pg),
         e.frontier = c.frontier, e.pending = c.pending,
         c.pending = NoEntry \/ (at \in Landed /\ next \in Landed /\ there = pg)
  PROVE  AllFollowed(next, e, there)
<1> SUFFICES ASSUME NEW i \in DOMAIN c.frontier.visited, NEW p \in DOMAIN site.route,
                    c.frontier.visited[i] = StateOf(p), c.frontier.depth[i] < MaxDepth,
                    NEW x \in DOMAIN StateOf(p).offers, Takeable(StateOf(p).offers[x])
             PROVE  Follows(next, e, there, i, p, StateOf(p).offers[x])
  BY DEF AllFollowed
<1> DEFINE a == StateOf(p).offers[x]
<1>1. Follows(at, c, pg, i, p, a)
  BY DEF AllFollowed
<1>2. NoEntry # EntryIn(c.frontier, i, a)
  <2>1. "from" \notin DOMAIN NoEntry /\ "from" \in DOMAIN EntryIn(c.frontier, i, a)
    BY DEF NoEntry, EntryIn
  <2> QED BY <2>1
<1>3. "act" \notin Landed
  BY DEF Landed
<1> HIDE DEF a
<1> QED BY <1>1, <1>2, <1>3 DEF Follows, a

\* An action that lands where the page that offered it says.
LEMMA FollowedLands ==
  ASSUME PagesAgree(site), page \in DOMAIN site.route, NEW c, AllFollowed("act", c, page),
         NEW e, e.frontier = c.frontier, e.pending = c.pending,
         c.pending.affordance.to = "none" => Signature(StateOf(page)) = c.pending.from
  PROVE  AllFollowed("verify", e, Target(c.pending.affordance))
<1> SUFFICES ASSUME NEW i \in DOMAIN c.frontier.visited, NEW p \in DOMAIN site.route,
                    c.frontier.visited[i] = StateOf(p), c.frontier.depth[i] < MaxDepth,
                    NEW x \in DOMAIN StateOf(p).offers, Takeable(StateOf(p).offers[x])
             PROVE  Follows("verify", e, Target(c.pending.affordance), i, p, StateOf(p).offers[x])
  BY DEF AllFollowed
<1> DEFINE a == StateOf(p).offers[x]
<1>1. Follows("act", c, page, i, p, a)
  BY DEF AllFollowed
<1>2. ASSUME c.pending = EntryIn(c.frontier, i, a) PROVE Target(c.pending.affordance) = Leads(p, a)
  <2>1. c.pending.affordance = a /\ c.pending.from = Signature(StateOf(p))
    BY <1>2 DEF EntryIn
  <2>2. CASE a.to # "none"
    BY <2>1, <2>2 DEF Target, Leads
  <2>3. CASE a.to = "none"
    <3>1. Signature(StateOf(page)) = Signature(StateOf(p))
      BY <2>1, <2>3
    <3>2. site.clicks[page] = site.clicks[p]
      BY <3>1 DEF PagesAgree, StateOf
    <3> QED BY <2>1, <2>3, <3>2 DEF Target, Leads
  <2> QED BY <2>2, <2>3
<1>3. "verify" \in Landed /\ "act" \notin Landed
  BY DEF Landed
<1> HIDE DEF a
<1> QED BY <1>1, <1>2, <1>3 DEF Follows, a

\* The inductive invariant: as long as no page was missed, what the pages on the map offer
\* is followed, by the attempt and by one that starts over where a finished graph ended.
SearchInv ==
  /\ gap \in BOOLEAN /\ PagesAgree(site) /\ KeysOnce
  /\ ~gap =>
       /\ Searched(node, g, page) /\ Placed(node, g, page)
       /\ node \in {"end", "recorded", "returned"} => saved.node = "end" /\ saved.g = g
       /\ Found /\ stored.complete => Reachable \subseteq Signatures(stored.states)

\* The application and the policy stay, and with them what is in reach.
LEMMA SearchKept ==
  ASSUME SearchInv, UNCHANGED inputs, gap' \in BOOLEAN,
         ~gap' =>
           /\ Searched(node', g', page') /\ Placed(node', g', page')
           /\ node' \in {"end", "recorded", "returned"} => saved'.node = "end" /\ saved'.g = g'
           /\ stored' # NoMap /\ stored'.complete => Reachable \subseteq Signatures(stored'.states)
  PROVE  SearchInv'
<1>1. site' = site /\ policy' = policy
  BY DEF inputs
<1>2. (PagesAgree(site) /\ KeysOnce)'
  BY <1>1 DEF SearchInv, KeysOnce
<1>3. /\ MaxDepth' = MaxDepth
      /\ \A a : Takeable(a)' <=> Takeable(a)
      /\ \A p : StateOf(p)' = StateOf(p)
      /\ \A p, a : Leads(p, a)' = Leads(p, a)
  BY <1>1 DEF MaxDepth, Takeable, StateOf, Leads, ExplorationAction
<1>4. ASSUME ~gap' PROVE Searched(node, g, page)'
  <2>1. Walked(g'.frontier, g'.depth) /\ AllFollowed(node', g', page')
    BY <1>4 DEF Searched
  <2>2. Walked(g.frontier, g.depth)'
    BY <1>1, <2>1 DEF Walked, StateOf
  <2>3. AllFollowed(node, g, page)'
    <3> SUFFICES ASSUME NEW i \in DOMAIN g'.frontier.visited, NEW p \in DOMAIN site.route,
                        g'.frontier.visited[i] = StateOf(p), g'.frontier.depth[i] < MaxDepth,
                        NEW x \in DOMAIN StateOf(p).offers, Takeable(StateOf(p).offers[x])
                 PROVE  Follows(node, g, page, i, p, StateOf(p).offers[x])'
      BY <1>1 DEF AllFollowed, StateOf, Takeable, ExplorationAction, MaxDepth
    <3>1. Follows(node', g', page', i, p, StateOf(p).offers[x])
      BY <2>1 DEF AllFollowed
    <3> QED BY <1>1, <3>1 DEF Follows, MetIn, StateOf, Leads
  <2> QED BY <2>2, <2>3 DEF Searched
<1>5. ASSUME ~gap' PROVE Placed(node, g, page)'
  <2>1. Placed(node', g', page')
    BY <1>5
  <2> QED BY <1>1, <2>1 DEF Placed, MetIn, StateOf
<1>6. Reachable' = Reachable
  BY <1>1 DEF Reachable, Within, Nexts, StateOf, Leads, Takeable, ExplorationAction, MaxDepth
<1> QED BY <1>2, <1>4, <1>5, <1>6 DEF SearchInv, Found

\* An exploration begins with nothing on its map and nothing missed.
LEMMA SearchInvInit ==
  ASSUME \A s \in Sites : PagesAgree(AsRead(s)), ExplorationInit
  PROVE  SearchInv
<1>1. PICK s \in Sites : site = AsRead(s)
  BY DEF ExplorationInit
<1>2. /\ node = "explore" /\ g = Fresh /\ page = site.start /\ stored = NoMap /\ gap = FALSE
  BY DEF ExplorationInit
<1>3. PagesAgree(site)
  BY <1>1
<1>4. KeysOnce
  <2>1. SiteOK(s)
    BY ExplorationAssumption
  <2>2. /\ site.route = s.route /\ DOMAIN s.offers = DOMAIN s.route
        /\ \A p \in DOMAIN s.route : /\ s.offers[p] \in Seq(Affordances(DOMAIN s.route))
                                     /\ site.offers[p] = Parse(s.offers[p])
    BY <1>1, <2>1 DEF SiteOK, AsRead
  <2>3. ASSUME NEW p \in DOMAIN s.route
        PROVE  \A i, j \in DOMAIN Parse(s.offers[p]) :
                 Parse(s.offers[p])[i].key = Parse(s.offers[p])[j].key => i = j
    BY <2>2, ParsedOnce
  <2> QED BY <2>2, <2>3 DEF KeysOnce
<1>5. /\ Fresh.frontier.visited = << >> /\ Fresh.frontier.depth = << >>
      /\ Fresh.frontier.pending = << >> /\ Fresh.frontier.offered = {}
      /\ Fresh.depth = 0 /\ Fresh.pending = NoEntry /\ Fresh.report = "none" /\ ~Fresh.goal
  BY DEF Fresh, EmptyFrontier
<1>6. Searched("explore", Fresh, page)
  <2>1. Walked(Fresh.frontier, Fresh.depth)
    BY <1>5 DEF Walked
  <2>2. AllFollowed("explore", Fresh, page)
    BY <1>5 DEF AllFollowed
  <2> QED BY <2>1, <2>2 DEF Searched
<1>7. Placed("explore", Fresh, page)
  BY <1>2, <1>5 DEF Placed, Closing
<1> QED BY <1>2, <1>3, <1>4, <1>6, <1>7 DEF SearchInv, Found

\* A node that looks at nothing goes on where nothing is on its way.
LEMMA MoveSearches ==
  ASSUME SearchInv, UNCHANGED <<inputs, page, stored, gap>>, NEW next, NEW c,
         node' = next, g' = c,
         c.frontier = g.frontier, c.depth = g.depth, c.pending = g.pending,
         ~gap => /\ g.pending = NoEntry \/ (node \in Landed /\ next \in Landed)
                 /\ Placed(next, c, page)
                 /\ next \in {"end", "recorded", "returned"} => saved'.node = "end" /\ saved'.g = c
  PROVE  SearchInv'
<1>1. ASSUME ~gap PROVE Searched(next, c, page)
  <2>1. Walked(g.frontier, g.depth) /\ AllFollowed(node, g, page)
    BY <1>1 DEF SearchInv, Searched
  <2>2. Walked(c.frontier, c.depth)
    BY <2>1
  <2>3. AllFollowed(next, c, page)
    BY <1>1, <2>1, FollowedElsewhere
  <2> QED BY <2>2, <2>3 DEF Searched
<1>2. /\ gap' = gap /\ page' = page /\ stored' = stored /\ UNCHANGED inputs /\ gap \in BOOLEAN
      /\ ~gap => (stored # NoMap /\ stored.complete => Reachable \subseteq Signatures(stored.states))
  BY DEF SearchInv, Found
<1> QED BY <1>1, <1>2, SearchKept

\* A page that was missed is remembered.
LEMMA MissedKeeps ==
  ASSUME SearchInv, UNCHANGED inputs, gap' = TRUE
  PROVE  SearchInv'
BY SearchKept

\* Each node, each checkpoint and each death of a worker keeps the invariant.
LEMMA SearchInvStep == EpisodeInv /\ SearchInv /\ [ExplorationNext]_explorationVars => SearchInv'
<1> SUFFICES ASSUME EpisodeInv, SearchInv, [ExplorationNext]_explorationVars PROVE SearchInv'
  OBVIOUS
<1> USE DEF history
<1>0. /\ DOMAIN g = {"frontier", "depth", "report", "pending", "ok", "denied", "goal", "failed",
                     "recoveries"}
      /\ page \in DOMAIN site.route /\ SiteOK(site) /\ PolicyOK(policy)
      /\ PagesAgree(site) /\ KeysOnce /\ gap \in BOOLEAN
      /\ ChannelsOK(World, g)
  BY DEF EpisodeInv, ChannelsOK, Fresh, SearchInv
<1>s. ASSUME ~gap
      PROVE  /\ Searched(node, g, page) /\ Placed(node, g, page)
             /\ node \in {"end", "recorded", "returned"} => saved.node = "end" /\ saved.g = g
             /\ stored # NoMap /\ stored.complete => Reachable \subseteq Signatures(stored.states)
  BY <1>s DEF SearchInv, Found
<1>1. CASE Explore
  <2>1. PICK late \in BOOLEAN : Reach("act", Explored(Described, late))
    BY <1>1 DEF Explore
  <2> DEFINE c == Explored(StateOf(page), late)
  <2>2. /\ node = "explore" /\ UNCHANGED <<inputs, page, stored, gap>> /\ node' = "act" /\ g' = c
    BY <1>1, <2>1 DEF Explore, Reach, Described, StateOf
  <2>3. WorldOK(World) /\ MaxDepth = World.depth /\ MaxActions = World.actions
    BY <1>0, WorldIsOK
  <2>4. PageOK(World, StateOf(page))
    BY <1>0, PagesAreOK DEF Described, StateOf
  <2>5. ASSUME ~gap PROVE Searched("act", c, page) /\ Placed("act", c, page)
    BY <1>0, <1>s, <2>2, <2>3, <2>4, <2>5, ExploreSearches
  <2> HIDE DEF c
  <2> QED BY <1>0, <1>s, <2>2, <2>5, SearchKept
<1>2. CASE ExploreBlind
  BY <1>2, MissedKeeps DEF ExploreBlind
<1>3. CASE ActNothing
  <2> DEFINE c == Acted(TRUE, FALSE)
  <2>1. /\ node = "act" /\ g.pending = NoEntry /\ Reach("verify", c)
        /\ UNCHANGED <<inputs, page, stored, gap>>
    BY <1>3 DEF ActNothing
  <2>2. /\ c.frontier = g.frontier /\ c.depth = g.depth /\ c.pending = g.pending
        /\ c.report = g.report /\ c.goal = g.goal
    BY <1>0 DEF Acted
  <2> HIDE DEF c
  <2>3. Placed("act", g, page) => Placed("verify", c, page)
    BY <2>1, <2>2 DEF Placed, Closing
  <2>4. node' = "verify" /\ g' = c
    BY <2>1 DEF Reach
  <2> QED BY <1>s, <2>1, <2>2, <2>3, <2>4, MoveSearches
<1>4. CASE ActLands
  <2> DEFINE a == g.pending.affordance
             fits == LandingAllowed(ExplorationAction(a), site.origin[Target(a)], policy)
             c == Acted(fits, ~fits)
  <2>1. /\ node = "act" /\ g.pending # NoEntry /\ page' = Target(a)
        /\ Reach("verify", c) /\ UNCHANGED <<inputs, stored>>
        /\ gap' = (gap \/ ~fits \/ (a.to = "none" /\ Signature(StateOf(page)) # g.pending.from))
    BY <1>4 DEF ActLands, Described, StateOf
  <2>2. /\ c.frontier = g.frontier /\ c.depth = g.depth /\ c.pending = g.pending
        /\ c.report = g.report /\ c.goal = g.goal /\ c.ok = fits /\ c.denied = ~fits
    BY <1>0 DEF Acted
  <2>3. node' = "verify" /\ g' = c
    BY <2>1 DEF Reach
  <2>4. gap' \in BOOLEAN
    <3> HIDE DEF fits
    <3> QED BY <1>0, <2>1
  <2> HIDE DEF c, fits
  <2>5. ASSUME ~gap'
        PROVE  ~gap /\ fits /\ (a.to = "none" => Signature(StateOf(page)) = g.pending.from)
    BY <2>1, <2>5
  <2>6. ASSUME ~gap' PROVE Searched("verify", c, page') /\ Placed("verify", c, page')
    <3>1. Walked(g.frontier, g.depth) /\ AllFollowed("act", g, page) /\ Placed("act", g, page)
      BY <1>s, <2>1, <2>5, <2>6 DEF Searched
    <3>2. Walked(c.frontier, c.depth)
      BY <2>2, <3>1
    <3>3. AllFollowed("verify", c, Target(a))
      BY <1>0, <2>2, <2>5, <2>6, <3>1, FollowedLands
    <3>4. Placed("verify", c, page')
      BY <2>1, <2>2, <2>5, <2>6, <3>1 DEF Placed, Closing
    <3> QED BY <2>1, <3>2, <3>3, <3>4 DEF Searched
  <2> QED BY <1>s, <2>1, <2>3, <2>4, <2>5, <2>6, SearchKept
<1>5. CASE ActFails
  BY <1>5, MissedKeeps DEF ActFails
<1>6. CASE Verify
  <2> DEFINE c == [g EXCEPT !.failed = @ \/ (g.pending # NoEntry /\ g.denied),
                            !.goal = @ /\ ~(g.pending # NoEntry /\ g.denied)]
             next == IF g.pending = NoEntry \/ g.denied THEN "verify_criteria"
                     ELSE IF g.ok THEN "checkpoint" ELSE "recover"
  <2>1. node = "verify" /\ node' = next /\ g' = c /\ UNCHANGED <<inputs, page, stored, gap>>
    BY <1>6 DEF Verify, Reach
  <2>2. /\ c.frontier = g.frontier /\ c.depth = g.depth /\ c.pending = g.pending
        /\ c.report = g.report /\ (c.goal => g.goal)
    BY <1>0
  <2>3. ASSUME ~gap
        PROVE  /\ g.pending = NoEntry \/ (node \in Landed /\ next \in Landed)
               /\ Placed(next, c, page) /\ next \notin {"end", "recorded", "returned"}
    <3>1. Placed("verify", g, page)
      BY <1>s, <2>1, <2>3
    <3>2. \/ g.pending = NoEntry /\ next = "verify_criteria"
          \/ g.pending # NoEntry /\ next = "checkpoint"
      BY <3>1 DEF Placed
    <3> HIDE DEF c, next
    <3>3. Placed(next, c, page)
      BY <2>2, <3>1, <3>2 DEF Placed, Closing
    <3> QED BY <2>1, <3>2, <3>3 DEF Landed
  <2> HIDE DEF c, next
  <2> QED BY <2>1, <2>2, <2>3, MoveSearches
<1>7. CASE Checkpoint
  <2> DEFINE c == [g EXCEPT !.recoveries = 0]
             next == IF g.goal THEN "verify_criteria" ELSE "explore"
  <2>1. node = "checkpoint" /\ node' = next /\ g' = c /\ UNCHANGED <<inputs, page, stored, gap>>
    BY <1>7 DEF Checkpoint, Reach
  <2>2. /\ c.frontier = g.frontier /\ c.depth = g.depth /\ c.pending = g.pending
        /\ c.report = g.report /\ c.goal = g.goal
    BY <1>0
  <2>3. ASSUME ~gap
        PROVE  next = "explore" /\ Placed("explore", c, page)
    <3>1. Placed("checkpoint", g, page)
      BY <1>s, <2>1, <2>3
    <3>2. ~g.goal
      BY <3>1 DEF Placed
    <3> HIDE DEF c
    <3>3. Placed("explore", c, page)
      BY <2>2, <3>1 DEF Placed, Closing
    <3> QED BY <3>2, <3>3
  <2>4. "checkpoint" \in Landed /\ "explore" \in Landed
    BY DEF Landed
  <2> HIDE DEF c, next
  <2> QED BY <2>1, <2>2, <2>3, <2>4, MoveSearches
<1>8. CASE Recover
  <2>1. gap
    BY <1>8, <1>s DEF Recover, Placed
  <2>2. UNCHANGED inputs /\ gap' = TRUE
    BY <1>0, <1>8, <2>1 DEF Recover
  <2> QED BY <2>2, MissedKeeps
<1>9. CASE VerifyCriteria
  <2>1. /\ node = "verify_criteria" /\ node' = "close_episode" /\ g' = g
        /\ UNCHANGED <<inputs, page, stored, gap>>
    BY <1>9 DEF VerifyCriteria, Reach
  <2>2. ASSUME ~gap PROVE g.pending = NoEntry /\ Placed("close_episode", g, page)
    <3>1. Placed("verify_criteria", g, page)
      BY <1>s, <2>1, <2>2
    <3> QED BY <3>1 DEF Placed, Closing
  <2> QED BY <2>1, <2>2, MoveSearches
<1>10. CASE CloseEpisode
  <2>1. /\ node = "close_episode" /\ node' = "end" /\ g' = g
        /\ saved' = [node |-> "end", g |-> g] /\ UNCHANGED <<inputs, page, stored, gap>>
    BY <1>10 DEF CloseEpisode, Reach
  <2>2. ASSUME ~gap PROVE g.pending = NoEntry /\ Placed("end", g, page)
    <3>1. Placed("close_episode", g, page)
      BY <1>s, <2>1, <2>2
    <3> QED BY <3>1 DEF Placed, Closing
  <2>3. saved'.node = "end" /\ saved'.g = g
    BY <2>1
  <2> QED BY <2>1, <2>2, <2>3, MoveSearches
<1>11. CASE RecordStateMap
  <2>1. /\ node = "end" /\ node' = "recorded" /\ stored' = IF g.report = "none" THEN stored ELSE StateMap
        /\ UNCHANGED <<inputs, g, page, saved, gap>>
    BY <1>11 DEF RecordStateMap, Recorded
  <2>2. ASSUME ~gap
        PROVE  /\ Searched("recorded", g, page) /\ Placed("recorded", g, page)
               /\ saved.node = "end" /\ saved.g = g
               /\ stored' # NoMap /\ stored'.complete => Reachable \subseteq Signatures(stored'.states)
    <3>1. /\ Searched("end", g, page) /\ Placed("end", g, page)
          /\ saved.node = "end" /\ saved.g = g
          /\ stored # NoMap /\ stored.complete => Reachable \subseteq Signatures(stored.states)
      BY <1>s, <2>1, <2>2
    <3>2. g.pending = NoEntry
      BY <3>1 DEF Placed, Closing
    <3>3. Searched("recorded", g, page)
      BY <3>1, <3>2, FollowedElsewhere DEF Searched
    <3>4. Placed("recorded", g, page)
      BY <3>1 DEF Placed, Closing
    <3>5. CASE g.report = "none"
      BY <2>1, <3>1, <3>3, <3>4, <3>5
    <3>6. CASE g.report # "none"
      <4>1. stored'.states = g.frontier.visited /\ stored'.complete = Complete(g.report)
        BY <2>1, <3>6 DEF StateMap
      <4>2. ASSUME Complete(g.report) PROVE Reachable \subseteq Signatures(g.frontier.visited)
        <5>1. g.report = "frontier_exhausted"
          BY <3>1, <4>2 DEF Complete, Placed
        <5>2. MetIn(g.frontier, site.start, 0) /\ g.frontier.pending = << >>
          BY <3>1, <5>1 DEF Placed
        <5>3. MaxDepth \in Nat
          BY <1>0, WorldIsOK DEF WorldOK
        <5>4. IsSequence(g.frontier.visited)
          BY <1>0 DEF ChannelsOK, FrontierOK, VisitedOK
        <5> QED BY <1>0, <3>1, <3>2, <5>2, <5>3, <5>4, ClosedIsWhole
      <4> QED BY <3>1, <3>3, <3>4, <4>1, <4>2
    <3> QED BY <3>5, <3>6
  <2>3. saved' = saved /\ gap' = gap /\ g' = g /\ page' = page /\ UNCHANGED inputs
    BY <2>1
  <2> QED BY <1>0, <2>1, <2>2, <2>3, SearchKept
<1>12. CASE Return
  <2>1. /\ node = "recorded" /\ node' = "returned" /\ g' = g /\ saved' = saved
        /\ UNCHANGED <<inputs, page, stored, gap>>
    BY <1>12 DEF Return
  <2>2. ASSUME ~gap
        PROVE  /\ g.pending = NoEntry /\ Placed("returned", g, page)
               /\ saved'.node = "end" /\ saved'.g = g
    <3>1. Placed("recorded", g, page) /\ saved.node = "end" /\ saved.g = g
      BY <1>s, <2>1, <2>2
    <3> QED BY <2>1, <3>1 DEF Placed, Closing
  <2> QED BY <2>1, <2>2, MoveSearches
<1>13. CASE AttemptDies
  <2>1. /\ page' = site.start /\ UNCHANGED <<inputs, saved, stored>>
        /\ IF saved.node \in GraphNodes
           THEN node' = saved.node /\ g' = saved.g
           ELSE node' = "explore" /\ g' = [saved.g EXCEPT !.goal = FALSE, !.failed = FALSE]
        /\ gap' = (gap \/ node \notin {"end", "recorded"})
    BY <1>13 DEF AttemptDies
  <2>2. CASE gap'
    BY <1>0, <2>1, <2>2, MissedKeeps
  <2>3. CASE ~gap'
    <3>1. ~gap /\ node \in {"end", "recorded"} /\ saved.node = "end" /\ saved.g = g
      BY <1>s, <2>1, <2>3
    <3> DEFINE c == [g EXCEPT !.goal = FALSE, !.failed = FALSE]
    <3>2. node' = "explore" /\ g' = c
      <4>1. "end" \notin GraphNodes
        BY DEF GraphNodes
      <4> QED BY <2>1, <3>1, <4>1
    <3>3. /\ c.frontier = g.frontier /\ c.depth = g.depth /\ c.pending = g.pending
          /\ c.report = g.report /\ ~c.goal
      BY <1>0
    <3> HIDE DEF c
    <3>4. Searched(node, g, page) /\ Placed(node, g, page)
      BY <1>s, <3>1
    <3>5. g.pending = NoEntry
      BY <3>1, <3>4 DEF Placed, Closing
    <3>6. Searched("explore", c, site.start)
      <4>1. Walked(c.frontier, c.depth)
        BY <3>3, <3>4 DEF Searched
      <4>2. AllFollowed("explore", c, site.start)
        BY <3>3, <3>4, <3>5, FollowedElsewhere DEF Searched
      <4> QED BY <4>1, <4>2 DEF Searched
    <3>7. Placed("explore", c, site.start)
      BY <3>1, <3>3, <3>4, <3>5 DEF Placed, Closing
    <3> QED BY <1>s, <2>1, <2>3, <3>1, <3>2, <3>6, <3>7, SearchKept
  <2>4. gap' \in BOOLEAN
    BY <1>0, <2>1
  <2> QED BY <2>2, <2>3
<1>14. CASE UNCHANGED explorationVars
  <2>1. UNCHANGED <<inputs, node, g, page, saved, stored, gap>>
    BY <1>14 DEF explorationVars
  <2> QED BY <1>0, <1>s, <2>1, SearchKept
<1> QED BY <1>1, <1>2, <1>3, <1>4, <1>5, <1>6, <1>7, <1>8, <1>9, <1>10, <1>11, <1>12, <1>13, <1>14
        DEF ExplorationNext, Step

\* A map that calls itself complete has a hole only where the run missed a page itself,
\* and a state that is reported gone is out of reach: for every site whose pages look
\* the same only where they are, every policy and every death of the worker.
THEOREM CompleteMapsAreWhole ==
  ASSUME \A s \in Sites : PagesAgree(AsRead(s))
  PROVE  ExplorationSpec => []HolesAreExplained
<1>1. ExplorationInit => SearchInv
  BY SearchInvInit
<1>2. EpisodeInv /\ SearchInv => HolesAreExplained
  <2> SUFFICES ASSUME SearchInv, Found, stored.complete, ~gap PROVE HolesAreExplained
    BY DEF HolesAreExplained
  <2>1. Reachable \subseteq Signatures(stored.states)
    BY DEF SearchInv
  <2>2. ASSUME HasDelta PROVE Delta.gone \cap Signatures(stored.states) = {}
    BY DEF Delta, Compare
  <2> QED BY <2>1, <2>2 DEF HolesAreExplained
<1> QED BY <1>1, <1>2, EpisodeInvariant, SearchInvStep, PTL DEF ExplorationSpec

-----------------------------------------------------------------------------
\* RunStart.

USE StartAssumption DEF Versions, NoPlan, Latest

\* Every variable keeps its type: in particular a rerun, which copies what its
\* source's row holds, asks for something a request may ask for.
THEOREM StartTypeCorrect == Spec => []TypeOK
<1>1. Init => TypeOK
  <2> SUFFICES ASSUME Init PROVE TypeOK
    OBVIOUS
  <2>1. pc \in [Requests -> {"idle", "sent", "missed", "committed", "over"}]
    BY DEF Init
  <2>2. ask \in [Requests -> Asks \cup {NoAsk}]
    BY DEF Init
  <2>3. answer \in [Requests -> Answers]
    BY DEF Init, Answers
  <2>4. /\ pinned \in [Requests -> 0 .. MaxVersion]
        /\ claim \in [Keys -> Requests \cup {Nobody}]
        /\ rows \subseteq Requests /\ workflows \subseteq Requests /\ latest \in Versions
    BY DEF Init
  <2> QED BY <2>1, <2>2, <2>3, <2>4 DEF TypeOK
<1>2. TypeOK /\ [Next]_vars => TypeOK'
  <2> SUFFICES ASSUME TypeOK, [Next]_vars PROVE TypeOK'
    OBVIOUS
  <2>1. CASE PublishVersion
    BY <2>1 DEF PublishVersion, TypeOK
  <2>2. ASSUME NEW r \in Requests, Create(r) PROVE TypeOK'
    <3>1. PICK body \in Asks : Send(r, body)
      BY <2>2 DEF Create, Asks
    <3> QED BY <3>1 DEF Send, TypeOK
  <2>3. ASSUME NEW r \in Requests, Rerun(r) PROVE TypeOK'
    <3>1. PICK k \in Keys, source \in rows : Send(r, RerunAsk(k, source))
      BY <2>3 DEF Rerun
    <3>2. source \in Requests /\ pinned[source] \in 0 .. MaxVersion
      BY <3>1 DEF TypeOK
    <3>3. RerunAsk(k, source) \in Asks
      BY <3>2 DEF RerunAsk, Asks
    <3> QED BY <3>1, <3>3 DEF Send, TypeOK
  <2>4. ASSUME NEW r \in Requests, LookupHit(r) PROVE TypeOK'
    BY <2>4 DEF LookupHit, Finish, ReplayOrMismatch, TypeOK, Answers
  <2>5. ASSUME NEW r \in Requests, LookupMiss(r) PROVE TypeOK'
    <3>1. (IF ask[r].version = Latest THEN latest ELSE ask[r].version) \in 0 .. MaxVersion
      BY <2>5 DEF LookupMiss, TypeOK
    <3> QED BY <2>5, <3>1 DEF LookupMiss, TypeOK
  <2>6. ASSUME NEW r \in Requests, Refuse(r) PROVE TypeOK'
    BY <2>6 DEF Refuse, Finish, TypeOK, Answers
  <2>7. ASSUME NEW r \in Requests, Commit(r) PROVE TypeOK'
    BY <2>7 DEF Commit, TypeOK
  <2>8. ASSUME NEW r \in Requests, CommitLoses(r) PROVE TypeOK'
    BY <2>8 DEF CommitLoses, Finish, TypeOK, Answers
  <2>9. ASSUME NEW r \in Requests, StartWorkflow(r) PROVE TypeOK'
    BY <2>9 DEF StartWorkflow, Finish, TypeOK, Answers
  <2>10. ASSUME NEW r \in Requests, Fail(r) PROVE TypeOK'
    BY <2>10 DEF Fail, Finish, TypeOK, Answers
  <2>11. CASE UNCHANGED vars
    BY <2>11 DEF vars, TypeOK
  <2> QED
    BY <2>1, <2>2, <2>3, <2>4, <2>5, <2>6, <2>7, <2>8, <2>9, <2>10, <2>11
    DEF Next, Handle
<1> QED BY <1>1, <1>2, PTL DEF Spec

-----------------------------------------------------------------------------
\* Who has asked, and how far that took them.
StagesAgree ==
  \A r \in Requests :
    /\ pc[r] # "idle" => ask[r] \in Asks
    /\ pc[r] # "over" => answer[r] = "none"
    /\ pc[r] = "committed" => r \in rows
    /\ r \in rows => pc[r] \in {"committed", "over"}

\* What an answer that names a run rests on.
AnswersRest ==
  \A r \in Requests :
    /\ answer[r] = "created" => r \in rows
    /\ answer[r] = "replayed" =>
         /\ claim[ask[r].key] # Nobody
         /\ Fingerprint(claim[ask[r].key]) = Fingerprint(r)

\* What a request resolved is what it asked for, if it asked for one version, and
\* is a version there is.
PinsAgree ==
  \A r \in Requests :
    /\ pinned[r] <= latest
    /\ (pc[r] = "missed" \/ r \in rows) /\ ask[r].version # Latest =>
         pinned[r] = ask[r].version
    /\ pc[r] # "idle" /\ ask[r].source # Nobody =>
         /\ ask[r].source \in rows
         /\ ask[r].version = pinned[ask[r].source]

StartInv ==
  /\ TypeOK
  /\ StagesAgree
  /\ OneRunPerKey
  /\ workflows \subseteq rows
  /\ AnswersRest
  /\ PinsAgree

\* A request that ends without touching the store keeps the invariant if what it
\* is answered rests on something.
LEMMA FinishKeepsStartInv ==
  ASSUME StartInv, TypeOK', NEW r \in Requests, NEW a \in Answers, Finish(r, a),
         pc[r] \in {"sent", "missed", "committed"},
         UNCHANGED <<ask, pinned, rows, claim, latest>>,
         workflows' \subseteq rows,
         a = "created" => r \in rows,
         a = "replayed" =>
           /\ claim[ask[r].key] # Nobody
           /\ Fingerprint(claim[ask[r].key]) = Fingerprint(r)
  PROVE  StartInv'
<1>1. /\ pc' = [pc EXCEPT ![r] = "over"]
      /\ answer' = [answer EXCEPT ![r] = a]
      /\ pc \in [Requests -> {"idle", "sent", "missed", "committed", "over"}]
      /\ answer \in [Requests -> Answers]
  BY DEF Finish, StartInv, TypeOK
<1>2. StagesAgree'
  BY <1>1 DEF StartInv, StagesAgree
<1>3. OneRunPerKey'
  BY DEF StartInv, OneRunPerKey
<1>4. AnswersRest'
  BY <1>1 DEF StartInv, AnswersRest, Fingerprint
<1>5. PinsAgree'
  BY <1>1 DEF StartInv, PinsAgree
<1> QED BY <1>2, <1>3, <1>4, <1>5 DEF StartInv

\* A request may be sent for anything that a source, if it names one, agrees with.
LEMMA SendKeepsStartInv ==
  ASSUME StartInv, TypeOK', NEW r \in Requests, NEW body \in Asks, Send(r, body),
         body.source # Nobody =>
           body.source \in rows /\ body.version = pinned[body.source]
  PROVE  StartInv'
<1>1. /\ pc[r] = "idle"
      /\ pc' = [pc EXCEPT ![r] = "sent"]
      /\ ask' = [ask EXCEPT ![r] = body]
      /\ UNCHANGED <<pinned, answer, rows, claim, workflows, latest>>
  BY DEF Send
<1>2. /\ pc \in [Requests -> {"idle", "sent", "missed", "committed", "over"}]
      /\ ask \in [Requests -> Asks \cup {NoAsk}]
      /\ rows \subseteq Requests
      /\ claim \in [Keys -> Requests \cup {Nobody}]
  BY DEF StartInv, TypeOK
<1>3. r \notin rows /\ answer[r] = "none"
  BY <1>1 DEF StartInv, StagesAgree
<1>4. \A s \in Requests : s # r => ask'[s] = ask[s] /\ pc'[s] = pc[s]
  BY <1>1, <1>2
<1>5. ask'[r] = body /\ pc'[r] = "sent"
  BY <1>1, <1>2
<1>6. StagesAgree'
  BY <1>1, <1>3, <1>4, <1>5 DEF StartInv, StagesAgree
<1>7. OneRunPerKey'
  <2>1. \A s \in rows : s # r /\ ask'[s] = ask[s]
    BY <1>2, <1>3, <1>4
  <2> QED BY <1>1, <2>1 DEF StartInv, OneRunPerKey
<1>8. AnswersRest'
  <2>1. ASSUME NEW s \in Requests, answer[s] = "replayed"
        PROVE  /\ (claim[ask[s].key])' # Nobody
               /\ (Fingerprint(claim[ask[s].key]))' = (Fingerprint(s))'
    <3>1. s # r /\ ask'[s] = ask[s]
      BY <2>1, <1>3, <1>4
    <3>2. pc[s] # "idle"
      BY <2>1 DEF StartInv, StagesAgree
    <3>3. ask[s] \in Asks
      BY <3>2 DEF StartInv, StagesAgree
    <3>4. claim[ask[s].key] # Nobody /\ Fingerprint(claim[ask[s].key]) = Fingerprint(s)
      BY <2>1 DEF StartInv, AnswersRest
    <3>5. ask[s].key \in Keys
      BY <3>3 DEF Asks
    <3>6. claim[ask[s].key] \in rows
      BY <3>4, <3>5 DEF StartInv, OneRunPerKey
    <3>7. ask'[claim[ask[s].key]] = ask[claim[ask[s].key]]
      BY <3>6, <1>2, <1>3, <1>4
    <3> QED BY <3>1, <3>4, <3>7, <1>1 DEF Fingerprint
  <2> QED BY <2>1, <1>1 DEF StartInv, AnswersRest
<1>9. PinsAgree'
  <2>1. ASSUME NEW s \in Requests
        PROVE  /\ pinned[s] <= latest
               /\ (pc'[s] = "missed" \/ s \in rows) /\ ask'[s].version # Latest =>
                    pinned[s] = ask'[s].version
               /\ pc'[s] # "idle" /\ ask'[s].source # Nobody =>
                    /\ ask'[s].source \in rows
                    /\ ask'[s].version = pinned[ask'[s].source]
    <3>1. CASE s = r
      BY <3>1, <1>3, <1>5 DEF StartInv, PinsAgree
    <3>2. CASE s # r
      BY <3>2, <1>4 DEF StartInv, PinsAgree
    <3> QED BY <3>1, <3>2
  <2> QED BY <2>1, <1>1 DEF PinsAgree
<1> QED BY <1>1, <1>6, <1>7, <1>8, <1>9 DEF StartInv

\* Every step keeps the invariant.
LEMMA StartInvStep == StartInv /\ TypeOK' /\ [Next]_vars => StartInv'
<1> SUFFICES ASSUME StartInv, TypeOK', [Next]_vars PROVE StartInv'
  OBVIOUS
<1>0. TypeOK /\ StagesAgree /\ OneRunPerKey /\ workflows \subseteq rows
      /\ AnswersRest /\ PinsAgree
  BY DEF StartInv
<1>1. CASE PublishVersion
  <2>1. /\ latest' = latest + 1
        /\ UNCHANGED <<pc, ask, pinned, answer, rows, claim, workflows>>
    BY <1>1 DEF PublishVersion
  <2>2. StagesAgree' /\ OneRunPerKey' /\ AnswersRest'
    BY <2>1, <1>0 DEF StagesAgree, OneRunPerKey, AnswersRest, Fingerprint
  <2>3. PinsAgree'
    <3>1. latest \in Nat /\ \A s \in Requests : pinned[s] \in Nat
      BY <1>0 DEF TypeOK
    <3> QED BY <2>1, <3>1, <1>0 DEF PinsAgree
  <2> QED BY <2>1, <2>2, <2>3, <1>0 DEF StartInv
<1>2. ASSUME NEW r \in Requests, Create(r) PROVE StartInv'
  <2>1. PICK k \in Keys, v \in {NoPlan, Latest} \cup Versions, e \in BOOLEAN :
          Send(r, [key |-> k, version |-> v, explore |-> e, source |-> Nobody])
    BY <1>2 DEF Create
  <2> DEFINE body == [key |-> k, version |-> v, explore |-> e, source |-> Nobody]
  <2>2. body \in Asks /\ body.source = Nobody
    BY DEF Asks
  <2>3. Send(r, body)
    BY <2>1
  <2> HIDE DEF body
  <2> QED BY <2>2, <2>3, SendKeepsStartInv
<1>3. ASSUME NEW r \in Requests, Rerun(r) PROVE StartInv'
  <2>1. PICK k \in Keys, source \in rows : Send(r, RerunAsk(k, source))
    BY <1>3 DEF Rerun
  <2>2. source \in Requests /\ pinned[source] \in 0 .. MaxVersion
    BY <2>1, <1>0 DEF TypeOK
  <2>3. RerunAsk(k, source) \in Asks
    BY <2>2 DEF RerunAsk, Asks
  <2>4. RerunAsk(k, source).source = source /\ RerunAsk(k, source).version = pinned[source]
    BY DEF RerunAsk
  <2> QED BY <2>1, <2>3, <2>4, SendKeepsStartInv
<1>4. ASSUME NEW r \in Requests, LookupHit(r) PROVE StartInv'
  <2> DEFINE a == ReplayOrMismatch(r, claim[ask[r].key])
  <2>1. /\ pc[r] = "sent" /\ claim[ask[r].key] # Nobody /\ Finish(r, a)
        /\ UNCHANGED <<ask, pinned, rows, claim, workflows, latest>>
    BY <1>4 DEF LookupHit
  <2>2. /\ a \in Answers /\ a # "created"
        /\ a = "replayed" => Fingerprint(claim[ask[r].key]) = Fingerprint(r)
    BY DEF ReplayOrMismatch, Answers
  <2> HIDE DEF a
  <2> QED BY <2>1, <2>2, <1>0, FinishKeepsStartInv
<1>5. ASSUME NEW r \in Requests, LookupMiss(r) PROVE StartInv'
  <2>1. /\ pc[r] = "sent" /\ r \notin rows
        /\ pc' = [pc EXCEPT ![r] = "missed"]
        /\ pinned' = [pinned EXCEPT ![r] =
                        IF ask[r].version = Latest THEN latest ELSE ask[r].version]
        /\ ask[r].version \in {NoPlan, Latest} \cup (1 .. latest)
        /\ UNCHANGED <<ask, answer, rows, claim, workflows, latest>>
    BY <1>5, <1>0 DEF LookupMiss, StagesAgree
  <2>2. /\ pc \in [Requests -> {"idle", "sent", "missed", "committed", "over"}]
        /\ pinned \in [Requests -> 0 .. MaxVersion]
        /\ latest \in 1 .. MaxVersion
    BY <1>0 DEF TypeOK
  <2>3. StagesAgree'
    BY <2>1, <2>2, <1>0 DEF StagesAgree
  <2>4. OneRunPerKey' /\ AnswersRest'
    BY <2>1, <1>0 DEF OneRunPerKey, AnswersRest, Fingerprint
  <2>5. \A s \in Requests : s # r => pinned'[s] = pinned[s] /\ pc'[s] = pc[s]
    BY <2>1, <2>2
  <2>6. /\ pinned'[r] <= latest
        /\ ask[r].version # Latest => pinned'[r] = ask[r].version
    BY <2>1, <2>2
  <2>7. ASSUME NEW s \in Requests, pc'[s] # "idle", ask[s].source # Nobody
        PROVE  /\ ask[s].source \in rows
               /\ ask[s].version = pinned'[ask[s].source]
    <3>1. pc[s] # "idle"
      BY <2>7, <2>5, <2>1
    <3>2. ask[s].source \in rows /\ ask[s].version = pinned[ask[s].source]
      BY <2>7, <3>1, <1>0 DEF PinsAgree
    <3>3. ask[s].source # r /\ ask[s].source \in Requests
      BY <3>2, <2>1, <1>0 DEF TypeOK
    <3> QED BY <3>2, <3>3, <2>5
  <2>8. ASSUME NEW s \in Requests
        PROVE  /\ pinned'[s] <= latest
               /\ (pc'[s] = "missed" \/ s \in rows) /\ ask[s].version # Latest =>
                    pinned'[s] = ask[s].version
    <3>1. CASE s = r
      BY <3>1, <2>6
    <3>2. CASE s # r
      BY <3>2, <2>5, <1>0 DEF PinsAgree
    <3> QED BY <3>1, <3>2
  <2>9. PinsAgree'
    BY <2>1, <2>7, <2>8 DEF PinsAgree
  <2> QED BY <2>1, <2>3, <2>4, <2>9, <1>0 DEF StartInv
<1>6. ASSUME NEW r \in Requests, Refuse(r) PROVE StartInv'
  BY <1>6, <1>0, FinishKeepsStartInv DEF Refuse, Answers
<1>7. ASSUME NEW r \in Requests, Commit(r) PROVE StartInv'
  <2>1. /\ pc[r] = "missed" /\ claim[ask[r].key] = Nobody
        /\ rows' = rows \cup {r}
        /\ claim' = [claim EXCEPT ![ask[r].key] = r]
        /\ pc' = [pc EXCEPT ![r] = "committed"]
        /\ UNCHANGED <<ask, pinned, answer, workflows, latest>>
    BY <1>7 DEF Commit, KeyFree
  <2>2. ask[r] \in Asks /\ r \notin rows /\ answer[r] = "none"
    BY <2>1, <1>0 DEF StagesAgree
  <2>3. /\ pc \in [Requests -> {"idle", "sent", "missed", "committed", "over"}]
        /\ claim \in [Keys -> Requests \cup {Nobody}]
        /\ ask[r].key \in Keys
    BY <2>2, <1>0 DEF TypeOK, Asks
  <2>4. \A s \in Requests : s # r => pc'[s] = pc[s]
    BY <2>1, <2>3
  <2>5. StagesAgree'
    BY <2>1, <2>2, <2>3, <2>4, <1>0 DEF StagesAgree
  <2>6. /\ claim'[ask[r].key] = r
        /\ \A k \in Keys : k # ask[r].key => claim'[k] = claim[k]
    BY <2>1, <2>3
  <2>7. \A s \in Requests : pc[s] # "idle" /\ claim[ask[s].key] # Nobody =>
           ask[s].key \in Keys /\ ask[s].key # ask[r].key
    BY <2>1, <1>0 DEF StagesAgree, Asks
  <2>8. \A s \in rows : s \in Requests /\ pc[s] # "idle" /\ claim[ask[s].key] = s
    BY <1>0 DEF OneRunPerKey, StagesAgree, TypeOK
  <2>9. OneRunPerKey'
    <3>1. ASSUME NEW s \in rows' PROVE claim'[ask[s].key] = s
      <4>1. CASE s = r
        BY <4>1, <2>6
      <4>2. CASE s # r
        <5>1. s \in rows /\ claim[ask[s].key] # Nobody
          BY <4>2, <2>1, <2>8
        <5> QED BY <5>1, <2>6, <2>7, <2>8
      <4> QED BY <4>1, <4>2
    <3>2. ASSUME NEW k \in Keys, claim'[k] # Nobody
          PROVE  claim'[k] \in rows' /\ ask[claim'[k]].key = k
      BY <3>2, <2>1, <2>6, <1>0 DEF OneRunPerKey
    <3> QED BY <3>1, <3>2, <2>1 DEF OneRunPerKey
  <2>10. AnswersRest'
    <3>1. ASSUME NEW s \in Requests, answer[s] = "replayed"
          PROVE  claim'[ask[s].key] = claim[ask[s].key]
      <4>1. pc[s] # "idle" /\ claim[ask[s].key] # Nobody
        BY <3>1, <1>0 DEF StagesAgree, AnswersRest
      <4> QED BY <4>1, <2>6, <2>7
    <3> QED BY <3>1, <2>1, <1>0 DEF AnswersRest, Fingerprint
  <2>11. PinsAgree'
    BY <2>1, <2>3, <2>4, <1>0 DEF PinsAgree
  <2> QED BY <2>1, <2>5, <2>9, <2>10, <2>11, <1>0 DEF StartInv
<1>8. ASSUME NEW r \in Requests, CommitLoses(r) PROVE StartInv'
  BY <1>8, <1>0, FinishKeepsStartInv DEF CommitLoses, Answers
<1>9. ASSUME NEW r \in Requests, StartWorkflow(r) PROVE StartInv'
  <2>1. PICK a \in {"created", "error"} :
          /\ pc[r] = "committed" /\ workflows' = workflows \cup {r} /\ Finish(r, a)
          /\ UNCHANGED <<ask, pinned, rows, claim, latest>>
    BY <1>9 DEF StartWorkflow, MayStart
  <2>2. r \in rows /\ a \in Answers /\ a # "replayed"
    BY <2>1, <1>0 DEF StagesAgree, Answers
  <2>3. workflows' \subseteq rows
    BY <2>1, <2>2, <1>0
  <2> QED BY <2>1, <2>2, <2>3, FinishKeepsStartInv
<1>10. ASSUME NEW r \in Requests, Fail(r) PROVE StartInv'
  BY <1>10, <1>0, FinishKeepsStartInv DEF Fail, Answers
<1>11. CASE UNCHANGED vars
  BY <1>11, <1>0
  DEF vars, StartInv, StagesAgree, OneRunPerKey, AnswersRest, Fingerprint, PinsAgree
<1> QED
  BY <1>1, <1>2, <1>3, <1>4, <1>5, <1>6, <1>7, <1>8, <1>9, <1>10, <1>11 DEF Next, Handle

\* The invariant holds in every state.
LEMMA StartInvariant == Spec => []StartInv
<1>1. Init /\ TypeOK => StartInv
  <2> SUFFICES ASSUME Init, TypeOK PROVE StartInv
    OBVIOUS
  <2>1. \A r \in Requests : /\ pc[r] = "idle" /\ answer[r] = "none"
                            /\ pinned[r] = 0 /\ latest = 1
    BY DEF Init
  <2>2. StagesAgree /\ AnswersRest /\ PinsAgree
    BY <2>1 DEF Init, StagesAgree, AnswersRest, PinsAgree
  <2>3. OneRunPerKey /\ workflows \subseteq rows
    BY DEF Init, OneRunPerKey
  <2> QED BY <2>2, <2>3 DEF StartInv
<1> QED BY <1>1, StartTypeCorrect, StartInvStep, PTL DEF Spec

\* However many requests race for a key, one run stands behind it.
THEOREM OneRun == Spec => []OneRunPerKey
<1>1. StartInv => OneRunPerKey
  BY DEF StartInv
<1> QED BY <1>1, StartInvariant, PTL

\* No workflow runs without its committed row and a published plan.
THEOREM WorkflowsHaveRows == Spec => []WorkflowHasRow
<1>1. StartInv => WorkflowHasRow
  BY DEF StartInv, TypeOK, PinsAgree, WorkflowHasRow
<1> QED BY <1>1, StartInvariant, PTL

\* Everybody who is answered a run for one key asked for the same and got the same.
THEOREM SameKey == Spec => []SameKeySameRun
<1>1. StartInv => SameKeySameRun
  <2> SUFFICES ASSUME StartInv PROVE SameKeySameRun
    OBVIOUS
  <2>1. ASSUME NEW r \in Requests, Answered(r)
        PROVE  /\ RunOf(r) = claim[ask[r].key]
               /\ RunOf(r) \in rows
               /\ Fingerprint(RunOf(r)) = Fingerprint(r)
    <3>1. ask[r].key \in Keys
      BY <2>1 DEF Answered, StartInv, StagesAgree, Asks
    <3>2. CASE answer[r] = "created"
      BY <3>2 DEF RunOf, StartInv, AnswersRest, OneRunPerKey
    <3>3. CASE answer[r] = "replayed"
      BY <3>1, <3>3 DEF RunOf, StartInv, AnswersRest, OneRunPerKey
    <3> QED BY <2>1, <3>2, <3>3 DEF Answered
  <2> QED BY <2>1 DEF SameKeySameRun
<1> QED BY <1>1, StartInvariant, PTL

\* A rerun executes the version its source ran, however many were published since.
THEOREM RerunIsPinned == Spec => []RerunKeepsVersion
<1>1. StartInv => RerunKeepsVersion
  <2> SUFFICES ASSUME StartInv, NEW r \in rows, ask[r].source # Nobody
               PROVE  pinned[r] = pinned[ask[r].source]
    BY DEF RerunKeepsVersion
  <2>1. r \in Requests /\ pc[r] # "idle"
    BY DEF StartInv, TypeOK, StagesAgree
  <2>2. ask[r].source \in rows /\ ask[r].version = pinned[ask[r].source]
    BY <2>1 DEF StartInv, PinsAgree
  <2>3. pinned[ask[r].source] \in 0 .. MaxVersion
    BY <2>2 DEF StartInv, TypeOK
  <2>4. ask[r].version # Latest
    BY <2>2, <2>3
  <2> QED BY <2>1, <2>2, <2>4 DEF StartInv, PinsAgree
<1> QED BY <1>1, StartInvariant, PTL

-----------------------------------------------------------------------------
(***************************************************************************)
(* Schedules: the firings of recurring runs are requests, with their own    *)
(* names for keys.                                                          *)
(***************************************************************************)
USE SchedulesAssumption

\* What an HTTP request holds, by what it is and how far it got.
CreateCalls == [at : {"creating", "describing", "conflict", "done", "raised"},
                kind : {"create"}, id : Ids, new : Schedule]
AskedCalls == [at : {"asked", "raised", "not_found"},
               kind : {"pause", "resume", "delete"}, id : Ids, project : Projects]
OwnedCalls == [at : {"owned", "describing", "done", "raised", "not_found"},
               kind : {"pause", "resume", "delete"}, id : Ids, project : Projects, saw : Calls]
ListCalls == [at : {"listing", "done", "raised"}, kind : {"list"}, project : Projects,
              left : SUBSET Ids, found : SUBSET Ids]
UpdatingCalls == [at : {"updating", "describing", "done", "raised", "not_found"},
                  kind : {"pause", "resume"}, id : Ids, project : Projects, saw : Calls,
                  held : Schedule]
HeldByCalls == {Idle} \cup CreateCalls \cup AskedCalls \cup OwnedCalls \cup UpdatingCalls
                 \cup ListCalls

\* What the creator of a project's schedule holds.
Created(held, s, p) ==
  held \in CreateCalls /\ held.at # "creating" /\ held.id = s /\ held.new.project = p

\* What a call that may act on a schedule rests on, given what all calls hold: it saw
\* one that was its own project's, and what it is about to write back was there once.
Vouched(all, held) ==
  /\ held.at = "owned" =>
       /\ held \in OwnedCalls /\ held.id \notin Foreign
       /\ Created(all[held.saw], held.id, held.project)
  /\ held.at = "updating" =>
       /\ held \in UpdatingCalls /\ held.id \notin Foreign
       /\ Created(all[held.saw], held.id, held.project)
       /\ Created(all[held.held.by], held.id, held.held.project)

\* Where a schedule comes from, and what a call that looked at one knows of it: a
\* schedule of this system bears the name of the call that created it.
Provenance ==
  /\ calls \in [Calls -> HeldByCalls]
  /\ schedules \in [Ids -> Schedule \cup {NotOurs, Nobody}]
  /\ \A s \in Foreign : schedules[s] = NotOurs
  /\ \A s \in Ids \ Foreign : schedules[s] # Nobody =>
       schedules[s] \in Schedule
         /\ Created(calls[schedules[s].by], s, schedules[s].project)
  /\ \A c \in Calls :
       /\ calls[c].at = "creating" => calls[c] \in CreateCalls /\ calls[c].new.by = c
       /\ Vouched(calls, calls[c])

\* A call that created a schedule goes on having done so, and a step of one call that
\* leaves in the schedules nothing but what some call created keeps the rest.
LEMMA CallMovesKeepProvenance ==
  ASSUME Provenance, NEW c \in Calls, NEW held \in HeldByCalls,
         calls' = [calls EXCEPT ![c] = held],
         schedules' \in [Ids -> Schedule \cup {NotOurs, Nobody}],
         \A t \in Ids : schedules'[t] # schedules[t] =>
           /\ t \notin Foreign
           /\ schedules'[t] # Nobody =>
                schedules'[t] \in Schedule
                  /\ Created(calls'[schedules'[t].by], t, schedules'[t].project),
         \A s, p : Created(calls[c], s, p) => Created(held, s, p),
         held.at = "creating" => held \in CreateCalls /\ held.new.by = c,
         Vouched(calls, held)
  PROVE  Provenance'
<1>1. /\ calls \in [Calls -> HeldByCalls] /\ calls' \in [Calls -> HeldByCalls]
      /\ calls'[c] = held
      /\ \A d \in Calls : d # c => calls'[d] = calls[d]
  BY DEF Provenance
<1>2. ASSUME NEW d \in Calls, NEW s, NEW p, Created(calls[d], s, p)
      PROVE  Created(calls'[d], s, p)
  BY <1>1, <1>2
<1>3. ASSUME NEW s \in Ids \ Foreign, schedules'[s] # Nobody
      PROVE  /\ schedules'[s] \in Schedule
             /\ Created(calls'[schedules'[s].by], s, schedules'[s].project)
  <2>1. CASE schedules'[s] = schedules[s]
    BY <2>1, <1>2, <1>3 DEF Provenance, Schedule
  <2>2. CASE schedules'[s] # schedules[s]
    BY <2>2, <1>3
  <2> QED BY <2>1, <2>2
<1>4. ASSUME NEW any, Vouched(calls, any) PROVE Vouched(calls', any)
  <2>1. ASSUME any.at = "owned"
        PROVE  /\ any \in OwnedCalls /\ any.id \notin Foreign
               /\ Created(calls'[any.saw], any.id, any.project)
    <3>1. any \in OwnedCalls /\ any.id \notin Foreign
          /\ Created(calls[any.saw], any.id, any.project)
      BY <2>1, <1>4 DEF Vouched
    <3>2. any.saw \in Calls
      BY <3>1 DEF OwnedCalls
    <3> QED BY <3>1, <3>2, <1>2
  <2>2. ASSUME any.at = "updating"
        PROVE  /\ any \in UpdatingCalls /\ any.id \notin Foreign
               /\ Created(calls'[any.saw], any.id, any.project)
               /\ Created(calls'[any.held.by], any.id, any.held.project)
    <3>1. /\ any \in UpdatingCalls /\ any.id \notin Foreign
          /\ Created(calls[any.saw], any.id, any.project)
          /\ Created(calls[any.held.by], any.id, any.held.project)
      BY <2>2, <1>4 DEF Vouched
    <3>2. any.saw \in Calls /\ any.held.by \in Calls
      BY <3>1 DEF UpdatingCalls, Schedule
    <3> QED BY <3>1, <3>2, <1>2
  <2> QED BY <2>1, <2>2 DEF Vouched
<1>5. ASSUME NEW d \in Calls
      PROVE  /\ calls'[d].at = "creating" => calls'[d] \in CreateCalls /\ calls'[d].new.by = d
             /\ Vouched(calls', calls'[d])
  <2>1. CASE d = c
    BY <2>1, <1>1, <1>4
  <2>2. CASE d # c
    BY <2>2, <1>1, <1>4 DEF Provenance
  <2> QED BY <2>1, <2>2
<1>6. \A s \in Foreign : schedules'[s] = NotOurs
  BY DEF Provenance
<1> QED BY <1>1, <1>3, <1>5, <1>6 DEF Provenance

\* Every step keeps it; Temporal holds one schedule per id, so the creator of the one
\* there is stays known when another call fails to create it.
LEMMA ProvenanceStep ==
  ASSUME Provenance, [SchedulesNext]_schedulesVars
  PROVE  Provenance'
<1> USE DEF Goes
<1>0. /\ calls \in [Calls -> HeldByCalls]
      /\ schedules \in [Ids -> Schedule \cup {NotOurs, Nobody}]
      /\ Nobody \notin Calls /\ Nobody # NotOurs /\ Foreign \subseteq Ids
      /\ UNCHANGED schedules => schedules' = schedules
  BY DEF Provenance, NotOurs
<1>1. CASE UNCHANGED <<schedules, calls>>
  BY <1>1 DEF Provenance
\* A call that has just begun.
<1>2. ASSUME NEW c \in Calls, NEW held \in HeldByCalls, calls[c] = Idle,
             calls' = [calls EXCEPT ![c] = held], UNCHANGED schedules,
             held.at \notin {"owned", "updating"},
             held.at = "creating" => held \in CreateCalls /\ held.new.by = c
      PROVE  Provenance'
  <2>1. \A s, p : ~Created(calls[c], s, p)
    BY <1>2 DEF Created, CreateCalls, Idle
  <2>2. Vouched(calls, held)
    BY <1>2 DEF Vouched
  <2> QED BY <1>2, <1>0, <2>1, <2>2, CallMovesKeepProvenance
<1>3. ASSUME NEW c \in Calls, AskCreate(c) PROVE Provenance'
  <2>1. PICK s \in Ids, p \in Projects, v \in Pins, q \in BOOLEAN :
          calls' = [calls EXCEPT ![c] =
            [at |-> "creating", kind |-> "create", id |-> s,
             new |-> [project |-> p, version |-> v, paused |-> q, by |-> c]]]
    BY <1>3 DEF AskCreate
  <2> DEFINE held == [at |-> "creating", kind |-> "create", id |-> s,
                      new |-> [project |-> p, version |-> v, paused |-> q, by |-> c]]
  <2>2. held \in CreateCalls /\ held \in HeldByCalls /\ held.new.by = c /\ held.at = "creating"
    BY DEF CreateCalls, Schedule, HeldByCalls
  <2>3. calls[c] = Idle /\ UNCHANGED schedules /\ calls' = [calls EXCEPT ![c] = held]
    BY <1>3, <2>1 DEF AskCreate
  <2> HIDE DEF held
  <2> QED BY <2>2, <2>3, <1>2
<1>4. ASSUME NEW c \in Calls, AskOther(c) PROVE Provenance'
  <2>1. PICK kind \in {"pause", "resume", "delete"}, s \in Ids, p \in Projects :
          calls' = [calls EXCEPT ![c] =
            [at |-> "asked", kind |-> kind, id |-> s, project |-> p]]
    BY <1>4 DEF AskOther
  <2> DEFINE held == [at |-> "asked", kind |-> kind, id |-> s, project |-> p]
  <2>2. held \in HeldByCalls /\ held.at = "asked"
    BY DEF AskedCalls, HeldByCalls
  <2>3. calls[c] = Idle /\ UNCHANGED schedules /\ calls' = [calls EXCEPT ![c] = held]
    BY <1>4, <2>1 DEF AskOther
  <2> HIDE DEF held
  <2> QED BY <2>2, <2>3, <1>2
<1>5. ASSUME NEW c \in Calls, AskList(c) PROVE Provenance'
  <2>1. PICK p \in Projects, S \in SUBSET { s \in Ids : Exists(s) } :
          calls' = [calls EXCEPT ![c] =
            [at |-> "listing", kind |-> "list", project |-> p, left |-> S, found |-> {}]]
    BY <1>5 DEF AskList
  <2> DEFINE held == [at |-> "listing", kind |-> "list", project |-> p,
                      left |-> S, found |-> {}]
  <2>2. held \in HeldByCalls /\ held.at = "listing"
    BY DEF ListCalls, HeldByCalls
  <2>3. calls[c] = Idle /\ UNCHANGED schedules /\ calls' = [calls EXCEPT ![c] = held]
    BY <1>5, <2>1 DEF AskList
  <2> HIDE DEF held
  <2> QED BY <2>2, <2>3, <1>2
\* A call that goes on, and touches no schedule.
<1>6. ASSUME NEW c \in Calls, NEW at \in {"conflict", "describing", "done", "raised", "not_found"},
             calls' = [calls EXCEPT ![c].at = at], UNCHANGED schedules,
             [calls[c] EXCEPT !.at = at] \in HeldByCalls
      PROVE  Provenance'
  <2> DEFINE held == [calls[c] EXCEPT !.at = at]
  <2>1. calls[c] \in HeldByCalls
    BY <1>0
  <2>2. held.at = at
    BY <2>1 DEF HeldByCalls, Idle, CreateCalls, AskedCalls, OwnedCalls, UpdatingCalls,
                ListCalls
  <2>3. ASSUME NEW s, NEW p, Created(calls[c], s, p) PROVE Created(held, s, p)
    <3>1. calls[c] \in CreateCalls /\ calls[c].id = s /\ calls[c].new.project = p
      BY <2>3 DEF Created
    <3>2. /\ held.kind = "create" /\ held.id = s /\ held.new.project = p
      BY <3>1 DEF CreateCalls
    <3>3. held \in CreateCalls
      BY <1>6, <3>2 DEF HeldByCalls, CreateCalls, AskedCalls, OwnedCalls, UpdatingCalls,
                        ListCalls, Idle
    <3> QED BY <2>2, <3>2, <3>3, <1>6 DEF Created
  <2>4. calls' = [calls EXCEPT ![c] = held] /\ held \in HeldByCalls
    BY <1>6, <1>0
  <2> HIDE DEF held
  <2>5. Vouched(calls, held)
    BY <2>2 DEF Vouched
  <2> QED BY <1>6, <1>0, <2>2, <2>3, <2>4, <2>5, CallMovesKeepProvenance
<1>7. ASSUME NEW c \in Calls, CreateSchedule(c) PROVE Provenance'
  <2> DEFINE s == calls[c].id
             held == [calls[c] EXCEPT !.at = "describing"]
  <2>1. /\ calls[c] \in CreateCalls /\ calls[c].at = "creating" /\ calls[c].new.by = c
        /\ s \in Ids /\ calls[c].new \in Schedule
    BY <1>7 DEF CreateSchedule, Provenance, CreateCalls
  <2>2. CASE Exists(s)
    <3>1. [calls[c] EXCEPT !.at = "conflict"] \in HeldByCalls
      BY <2>1 DEF CreateCalls, HeldByCalls
    <3>2. calls' = [calls EXCEPT ![c].at = "conflict"] /\ UNCHANGED schedules
      BY <1>7, <2>2 DEF CreateSchedule
    <3> QED BY <3>1, <3>2, <1>6
  <2>3. CASE ~Exists(s)
    <3>1. /\ held \in CreateCalls /\ held.at = "describing"
          /\ held.id = s /\ held.new = calls[c].new /\ held \in HeldByCalls
      BY <2>1 DEF CreateCalls, HeldByCalls
    <3>2. /\ calls' = [calls EXCEPT ![c] = held]
          /\ schedules' = [schedules EXCEPT ![s] = calls[c].new]
      BY <1>7, <2>3 DEF CreateSchedule
    <3> HIDE DEF held
    <3>3. s \notin Foreign
      BY <2>3, <1>0 DEF Exists, Provenance
    <3>4. \A t, p : ~Created(calls[c], t, p)
      BY <2>1 DEF Created
    <3>5. /\ calls' \in [Calls -> HeldByCalls] /\ calls'[c] = held
          /\ \A d \in Calls : d # c => calls'[d] = calls[d]
          /\ schedules'[s] = calls[c].new
          /\ \A t \in Ids : t # s => schedules'[t] = schedules[t]
          /\ schedules' \in [Ids -> Schedule \cup {NotOurs, Nobody}]
      BY <3>1, <3>2, <2>1, <1>0
    <3>6. Created(calls'[c], s, calls[c].new.project)
      BY <3>1, <3>5 DEF Created
    <3>7. \A t \in Ids : schedules'[t] # schedules[t] =>
            /\ t \notin Foreign
            /\ schedules'[t] # Nobody =>
                 schedules'[t] \in Schedule
                   /\ Created(calls'[schedules'[t].by], t, schedules'[t].project)
      BY <3>3, <3>5, <3>6, <2>1
    <3>8. Vouched(calls, held)
      BY <3>1 DEF Vouched
    <3> QED BY <3>1, <3>2, <3>4, <3>5, <3>7, <3>8, CallMovesKeepProvenance
  <2> QED BY <2>2, <2>3
<1>8. ASSUME NEW c \in Calls, Look(c) PROVE Provenance'
  <2> DEFINE s == calls[c].id
  <2>1. /\ calls[c] \in AskedCalls /\ calls[c].at = "asked" /\ s \in Ids
        /\ UNCHANGED schedules
    BY <1>8, <1>0 DEF Look, HeldByCalls, Idle, CreateCalls, AskedCalls, OwnedCalls,
                      UpdatingCalls, ListCalls
  <2>2. CASE calls' = [calls EXCEPT ![c].at = "raised"]
    <3>1. [calls[c] EXCEPT !.at = "raised"] \in HeldByCalls
      BY <2>1 DEF AskedCalls, HeldByCalls
    <3> QED BY <2>1, <2>2, <3>1, <1>6
  <2>3. CASE calls' = [calls EXCEPT ![c].at = "not_found"]
    <3>1. [calls[c] EXCEPT !.at = "not_found"] \in HeldByCalls
      BY <2>1 DEF AskedCalls, HeldByCalls
    <3> QED BY <2>1, <2>3, <3>1, <1>6
  <2> DEFINE held == [at |-> "owned", kind |-> calls[c].kind, id |-> s,
                      project |-> calls[c].project, saw |-> schedules[s].by]
  <2>4. CASE calls' = [calls EXCEPT ![c] = held] /\ Owned(c)
    <3>1. schedules[s] # Nobody /\ schedules[s] # NotOurs
          /\ schedules[s].project = calls[c].project
      BY <2>4 DEF Owned, Ours, Exists
    <3>2. s \notin Foreign /\ schedules[s] \in Schedule
          /\ Created(calls[schedules[s].by], s, calls[c].project)
      BY <3>1, <2>1 DEF Provenance
    <3>3. schedules[s].by \in Calls /\ schedules[s].by # c
      BY <3>2, <2>1 DEF Schedule, Created, CreateCalls, AskedCalls
    <3>4. /\ held \in OwnedCalls /\ held \in HeldByCalls /\ held.at = "owned"
          /\ held.id = s /\ held.project = calls[c].project /\ held.saw = schedules[s].by
      BY <2>1, <3>3 DEF OwnedCalls, AskedCalls, HeldByCalls
    <3>5. \A t, p : ~Created(calls[c], t, p)
      BY <2>1 DEF Created, CreateCalls, AskedCalls
    <3>6. calls' = [calls EXCEPT ![c] = held]
      BY <2>4
    <3> HIDE DEF held
    <3>7. Vouched(calls, held)
      BY <3>2, <3>4 DEF Vouched
    <3> QED BY <2>1, <1>0, <3>4, <3>5, <3>6, <3>7, CallMovesKeepProvenance
  <2>5. \/ calls' = [calls EXCEPT ![c].at = "raised"]
        \/ calls' = [calls EXCEPT ![c].at = "not_found"]
        \/ calls' = [calls EXCEPT ![c] = held] /\ Owned(c)
    BY <1>8 DEF Look
  <2> QED BY <2>2, <2>3, <2>4, <2>5
\* A call that removes what is there, or writes back what was there once.
<1>9. ASSUME NEW c \in Calls, NEW held \in HeldByCalls, NEW s \in Ids \ Foreign,
             NEW new \in Schedule \cup {Nobody},
             calls[c] \in OwnedCalls \cup UpdatingCalls,
             calls' = [calls EXCEPT ![c] = held], held.at \in {"describing", "done"},
             schedules' = [schedules EXCEPT ![s] = new],
             new # Nobody => Created(calls[new.by], s, new.project)
      PROVE  Provenance'
  <2>1. \A t, p : ~Created(calls[c], t, p)
    BY <1>9 DEF Created, CreateCalls, OwnedCalls, UpdatingCalls
  <2>2. /\ schedules' \in [Ids -> Schedule \cup {NotOurs, Nobody}]
        /\ \A t \in Ids : schedules'[t] = IF t = s THEN new ELSE schedules[t]
    BY <1>9, <1>0
  <2>3. new # Nobody => new \in Schedule /\ Created(calls'[new.by], s, new.project)
    <3> SUFFICES ASSUME new # Nobody
                 PROVE  new \in Schedule /\ Created(calls'[new.by], s, new.project)
      OBVIOUS
    <3>1. new.by \in Calls
      BY DEF Schedule
    <3>2. new.by # c
      BY <1>9, <2>1
    <3> QED BY <3>1, <3>2, <1>9, <1>0
  <2>4. \A t \in Ids : schedules'[t] # schedules[t] =>
          /\ t \notin Foreign
          /\ schedules'[t] # Nobody =>
               schedules'[t] \in Schedule
                 /\ Created(calls'[schedules'[t].by], t, schedules'[t].project)
    BY <2>2, <2>3
  <2>5. Vouched(calls, held)
    BY <1>9 DEF Vouched
  <2> QED BY <1>9, <2>1, <2>2, <2>4, <2>5, CallMovesKeepProvenance
<1>14. ASSUME NEW c \in Calls, Delete(c) PROVE Provenance'
  <2> DEFINE held == [calls[c] EXCEPT !.at = "done"]
  <2>1. calls[c] \in OwnedCalls /\ calls[c].id \in Ids \ Foreign
    BY <1>14 DEF Delete, Provenance, Vouched, OwnedCalls
  <2>2. held \in HeldByCalls /\ held.at = "done"
    BY <2>1 DEF OwnedCalls, HeldByCalls
  <2>3. calls' = [calls EXCEPT ![c] = held]
    BY <1>14, <1>0 DEF Delete
  <2>4. schedules' = [schedules EXCEPT ![calls[c].id] = Nobody]
    BY <1>14 DEF Delete
  <2> HIDE DEF held
  <2> QED BY <2>1, <2>2, <2>3, <2>4, <1>9
<1>15. ASSUME NEW c \in Calls, Fetch(c) PROVE Provenance'
  <2> DEFINE s == calls[c].id
             held == [at |-> "updating", kind |-> calls[c].kind, id |-> s,
                      project |-> calls[c].project, saw |-> calls[c].saw,
                      held |-> schedules[s]]
  <2>1. /\ calls[c] \in OwnedCalls /\ s \in Ids \ Foreign
        /\ Created(calls[calls[c].saw], s, calls[c].project)
        /\ calls[c].kind # "delete" /\ UNCHANGED schedules
    BY <1>15 DEF Fetch, Provenance, Vouched, OwnedCalls
  <2>2. CASE ~Exists(s)
    <3>1. [calls[c] EXCEPT !.at = "describing"] \in HeldByCalls
      BY <2>1 DEF OwnedCalls, HeldByCalls
    <3>2. calls' = [calls EXCEPT ![c].at = "describing"]
      BY <1>15, <2>2 DEF Fetch
    <3> QED BY <2>1, <3>1, <3>2, <1>6
  <2>3. CASE Exists(s)
    <3>1. /\ schedules[s] \in Schedule
          /\ Created(calls[schedules[s].by], s, schedules[s].project)
      BY <2>1, <2>3 DEF Provenance, Exists
    <3>2. /\ held \in UpdatingCalls /\ held \in HeldByCalls /\ held.at = "updating"
          /\ held.id = s /\ held.project = calls[c].project /\ held.saw = calls[c].saw
          /\ held.held = schedules[s]
      BY <2>1, <3>1 DEF OwnedCalls, UpdatingCalls, HeldByCalls
    <3>3. calls' = [calls EXCEPT ![c] = held]
      BY <1>15, <2>3 DEF Fetch
    <3>4. \A t, p : ~Created(calls[c], t, p)
      BY <2>1 DEF Created, CreateCalls, OwnedCalls
    <3> HIDE DEF held
    <3>5. Vouched(calls, held)
      BY <2>1, <3>1, <3>2 DEF Vouched
    <3> QED BY <2>1, <1>0, <3>2, <3>3, <3>4, <3>5, CallMovesKeepProvenance
  <2> QED BY <2>2, <2>3
<1>16. ASSUME NEW c \in Calls, WriteBack(c) PROVE Provenance'
  <2> DEFINE s == calls[c].id
             held == [calls[c] EXCEPT !.at = "describing"]
  <2>1. /\ calls[c] \in UpdatingCalls /\ s \in Ids \ Foreign
        /\ Created(calls[calls[c].held.by], s, calls[c].held.project)
    BY <1>16 DEF WriteBack, Provenance, Vouched, UpdatingCalls
  <2>2. held \in HeldByCalls /\ held.at = "describing"
    BY <2>1 DEF UpdatingCalls, HeldByCalls
  <2>3. calls' = [calls EXCEPT ![c] = held]
    BY <1>16, <1>0 DEF WriteBack
  <2>4. CASE ~Exists(s)
    <3>1. [calls[c] EXCEPT !.at = "describing"] \in HeldByCalls
      BY <2>2
    <3> QED BY <1>16, <2>4, <3>1, <1>6 DEF WriteBack
  <2>5. CASE Exists(s)
    <3>1. PICK b \in BOOLEAN : b = (calls[c].kind = "pause")
      OBVIOUS
    <3> DEFINE new == [calls[c].held EXCEPT !.paused = b]
    <3>2. calls[c].held \in Schedule
      BY <2>1 DEF UpdatingCalls
    <3>3. /\ new \in Schedule /\ new.by = calls[c].held.by
          /\ new.project = calls[c].held.project
      BY <3>2 DEF Schedule
    <3>4. schedules' = [schedules EXCEPT ![s] = new]
      BY <1>16, <2>5, <3>1 DEF WriteBack
    <3> HIDE DEF new, held
    <3> QED BY <2>1, <2>2, <2>3, <3>3, <3>4, <1>9
  <2> QED BY <2>4, <2>5
<1>10. ASSUME NEW c \in Calls, Describe(c) PROVE Provenance'
  <2>1. PICK at \in {"done", "raised", "not_found"} : calls' = [calls EXCEPT ![c].at = at]
    BY <1>10 DEF Describe
  <2>2. calls[c].at = "describing" /\ UNCHANGED schedules
    BY <1>10 DEF Describe
  <2>3. calls[c] \in CreateCalls \/ calls[c] \in OwnedCalls \/ calls[c] \in UpdatingCalls
    BY <2>2, <1>0 DEF HeldByCalls, Idle, AskedCalls, ListCalls
  <2>4. CASE calls[c] \in CreateCalls
    <3>1. PICK there \in {"done", "raised"} : calls' = [calls EXCEPT ![c].at = there]
      BY <1>10, <2>4 DEF Describe, CreateCalls
    <3>2. [calls[c] EXCEPT !.at = there] \in CreateCalls
      BY <2>4 DEF CreateCalls
    <3> QED BY <2>2, <3>1, <3>2, <1>6 DEF HeldByCalls
  <2>5. CASE calls[c] \in OwnedCalls
    <3>1. [calls[c] EXCEPT !.at = at] \in OwnedCalls
      BY <2>1, <2>5 DEF OwnedCalls
    <3> QED BY <2>1, <2>2, <3>1, <1>6 DEF HeldByCalls
  <2>6. CASE calls[c] \in UpdatingCalls
    <3>1. [calls[c] EXCEPT !.at = at] \in UpdatingCalls
      BY <2>1, <2>6 DEF UpdatingCalls
    <3> QED BY <2>1, <2>2, <3>1, <1>6 DEF HeldByCalls
  <2> QED BY <2>3, <2>4, <2>5, <2>6
<1>11. ASSUME NEW c \in Calls, ListNext(c) PROVE Provenance'
  <2>1. calls[c] \in ListCalls /\ UNCHANGED schedules /\ calls[c].at = "listing"
    BY <1>11, <1>0 DEF ListNext, HeldByCalls, Idle, CreateCalls, AskedCalls, OwnedCalls,
                      UpdatingCalls, ListCalls
  <2>2. CASE calls' = [calls EXCEPT ![c].at = "raised"]
    <3>1. [calls[c] EXCEPT !.at = "raised"] \in HeldByCalls
      BY <2>1 DEF ListCalls, HeldByCalls
    <3> QED BY <2>1, <2>2, <3>1, <1>6
  <2>3. ASSUME NEW l \in SUBSET Ids, NEW f \in SUBSET Ids,
               calls' = [calls EXCEPT ![c].left = l, ![c].found = f]
        PROVE  Provenance'
    <3> DEFINE held == [calls[c] EXCEPT !.left = l, !.found = f]
    <3>1. held \in ListCalls /\ held.at = "listing" /\ held \in HeldByCalls
      BY <2>1, <2>3 DEF ListCalls, HeldByCalls
    <3>2. calls' = [calls EXCEPT ![c] = held]
      BY <2>3, <1>0
    <3>3. \A t, p : ~Created(calls[c], t, p)
      BY <2>1 DEF Created, CreateCalls, ListCalls
    <3> HIDE DEF held
    <3>4. Vouched(calls, held)
      BY <3>1 DEF Vouched
    <3> QED BY <2>1, <1>0, <3>1, <3>2, <3>3, <3>4, CallMovesKeepProvenance
  <2>4. CASE calls' # [calls EXCEPT ![c].at = "raised"]
    <3>1. PICK s \in calls[c].left :
            calls' = [calls EXCEPT
              ![c].left = @ \ {s},
              ![c].found = IF Exists(s) /\ schedules[s].project = calls[c].project
                           THEN @ \cup {s} ELSE @]
      BY <2>4, <1>11 DEF ListNext
    <3>2. calls[c].left \subseteq Ids /\ calls[c].found \subseteq Ids /\ s \in Ids
      BY <2>1, <3>1 DEF ListCalls
    <3>3. PICK f \in SUBSET Ids :
            f = IF Exists(s) /\ schedules[s].project = calls[c].project
                THEN calls[c].found \cup {s} ELSE calls[c].found
      BY <3>2
    <3>4. calls' = [calls EXCEPT ![c].left = calls[c].left \ {s}, ![c].found = f]
      BY <3>1, <3>3, <1>0
    <3> QED BY <3>2, <3>4, <2>3
  <2> QED BY <2>2, <2>4
<1>12. ASSUME NEW c \in Calls, ListEnds(c) PROVE Provenance'
  <2>1. /\ calls[c] \in ListCalls /\ UNCHANGED schedules
        /\ calls' = [calls EXCEPT ![c].at = "done"]
    BY <1>12, <1>0 DEF ListEnds, HeldByCalls, Idle, CreateCalls, AskedCalls, OwnedCalls,
                      UpdatingCalls, ListCalls
  <2>2. [calls[c] EXCEPT !.at = "done"] \in HeldByCalls
    BY <2>1 DEF ListCalls, HeldByCalls
  <2> QED BY <2>1, <2>2, <1>6
<1>13. UNCHANGED <<schedules, calls>> \/ \E c \in Calls :
         \/ AskCreate(c) \/ CreateSchedule(c) \/ AskOther(c) \/ Look(c) \/ Delete(c)
         \/ Fetch(c) \/ WriteBack(c) \/ Describe(c) \/ AskList(c) \/ ListNext(c) \/ ListEnds(c)
  BY DEF SchedulesNext, schedulesVars, Tick, PublishPlan, Fire, Attempt, Completes,
         Fails, StartRun
<1> QED
  BY <1>1, <1>3, <1>4, <1>5, <1>7, <1>8, <1>14, <1>15, <1>16, <1>10, <1>11, <1>12, <1>13

\* Provenance holds in every state.
LEMMA ProvenanceHolds == SchedulesSpec => []Provenance
<1>1. SchedulesInit => Provenance
  BY DEF SchedulesInit, Provenance, Vouched, HeldByCalls, Idle
<1>2. Provenance /\ [SchedulesNext]_schedulesVars => Provenance'
  BY ProvenanceStep
<1> QED BY <1>1, <1>2, PTL DEF SchedulesSpec

\* A call changes a schedule of its own project, or one that took the id between the
\* call's look at it and its act.
THEOREM SchedulesChangeOwned == SchedulesSpec => ActsOnWhatItSaw
<1> DEFINE Acts(s) == \E c \in Calls :
             /\ calls[c].at \in {"owned", "updating"}
             /\ calls[c].id = s
             /\ \/ schedules[s].by # calls[c].saw
                \/ schedules[s].project = calls[c].project
           Changes == \A s \in Ids : Exists(s) /\ schedules'[s] # schedules[s] => Acts(s)
<1>1. ASSUME Provenance, [SchedulesNext]_schedulesVars, NEW s \in Ids,
             Exists(s), schedules'[s] # schedules[s]
      PROVE  Acts(s)
  <2>1. ASSUME NEW c \in Calls, Delete(c) \/ WriteBack(c) PROVE Acts(s)
    <3>1. /\ calls[c].at \in {"owned", "updating"}
          /\ calls[c].id \in Ids \ Foreign
          /\ Created(calls[calls[c].saw], calls[c].id, calls[c].project)
      BY <2>1, <1>1 DEF Delete, WriteBack, Provenance, Vouched, OwnedCalls, UpdatingCalls
    <3>2. calls[c].id = s
      BY <2>1, <3>1, <1>1 DEF Delete, WriteBack, Provenance
    <3>3. Created(calls[schedules[s].by], s, schedules[s].project)
      BY <2>1, <3>1, <3>2, <1>1 DEF Provenance, Exists
    <3>4. schedules[s].by = calls[c].saw => schedules[s].project = calls[c].project
      BY <3>1, <3>2, <3>3 DEF Created
    <3> QED BY <3>1, <3>2, <3>4
  <2>2. ASSUME NEW c \in Calls, CreateSchedule(c) PROVE Acts(s)
    <3>1. calls[c].id # s => schedules'[s] = schedules[s]
      BY <2>2, <1>1 DEF CreateSchedule, Provenance, Exists
    <3> QED BY <2>2, <3>1, <1>1 DEF CreateSchedule
  <2>3. UNCHANGED schedules
          \/ (\E c \in Calls : Delete(c) \/ WriteBack(c)) \/ (\E c \in Calls : CreateSchedule(c))
    BY <1>1
    DEF SchedulesNext, schedulesVars, Tick, PublishPlan, Fire, Attempt, Completes,
        Fails, StartRun, AskCreate, AskOther, Look, Fetch, Describe,
        AskList, ListNext, ListEnds
  <2> QED BY <2>1, <2>2, <2>3, <1>1
<1>2. Provenance /\ [SchedulesNext]_schedulesVars => Changes
  BY <1>1
<1>3. SchedulesSpec => [][Changes]_schedulesVars
  BY <1>2, ProvenanceHolds, PTL DEF SchedulesSpec
<1> QED BY <1>3 DEF ActsOnWhatItSaw

-----------------------------------------------------------------------------
\* A firing that is running has a number of attempts and one of the pinned versions.
FiringsTyped ==
  /\ firings = [f \in Firings |-> firings[f]]
  /\ \A f \in Firings : firings[f].at = "running" =>
       firings[f] \in [at : {"running"}, attempt : 0 .. MaxAttempts, version : Pins]

\* Every step keeps that, since the schedules of this system are typed.
LEMMA FiringsTypedStep ==
  ASSUME Provenance, FiringsTyped, [SchedulesNext]_schedulesVars
  PROVE  FiringsTyped'
<1>1. CASE UNCHANGED firings
  BY <1>1 DEF FiringsTyped
<1>2. ASSUME NEW f \in Firings, NEW held, firings' = [firings EXCEPT ![f] = held],
             held.at = "running" =>
               held \in [at : {"running"}, attempt : 0 .. MaxAttempts, version : Pins]
      PROVE  FiringsTyped'
  BY <1>2 DEF FiringsTyped
<1>3. ASSUME NEW s \in Ids, Fire(s) PROVE FiringsTyped'
  <2> DEFINE held == [at |-> "running", attempt |-> 0, version |-> schedules[s].version]
  <2>1. schedules[s] \in Schedule
    BY <1>3 DEF Fire, Ours, Exists, Provenance
  <2>2. held \in [at : {"running"}, attempt : 0 .. MaxAttempts, version : Pins]
    BY <2>1 DEF Schedule
  <2>3. <<s, clock>> \in Firings \/ firings' = firings
    BY <1>3 DEF Fire, FiringsTyped
  <2>4. firings' = [firings EXCEPT ![<<s, clock>>] = held]
    BY <1>3 DEF Fire
  <2> HIDE DEF held
  <2> QED BY <2>2, <2>3, <2>4, <1>1, <1>2
<1>4. ASSUME NEW f \in Firings, Attempt(f) PROVE FiringsTyped'
  <2> DEFINE held == [firings[f] EXCEPT !.attempt = @ + 1]
  <2>1. firings[f] \in [at : {"running"}, attempt : 0 .. MaxAttempts, version : Pins]
        /\ firings[f].attempt < MaxAttempts
    BY <1>4 DEF Attempt, FiringsTyped
  <2>2. held \in [at : {"running"}, attempt : 0 .. MaxAttempts, version : Pins]
    BY <2>1
  <2>3. firings' = [firings EXCEPT ![f] = held]
    BY <1>4 DEF Attempt, FiringsTyped
  <2> HIDE DEF held
  <2> QED BY <2>2, <2>3, <1>2
<1>5. ASSUME NEW f \in Firings, Completes(f) PROVE FiringsTyped'
  <2> DEFINE held == [at |-> "completed", attempt |-> firings[f].attempt,
                      version |-> firings[f].version, run |-> RunOf(Current(f))]
  <2>1. held.at = "completed"
    OBVIOUS
  <2>2. firings' = [firings EXCEPT ![f] = held]
    BY <1>5 DEF Completes, FiringsTyped
  <2> HIDE DEF held
  <2> QED BY <2>1, <2>2, <1>2
<1>6. ASSUME NEW f \in Firings, Fails(f) PROVE FiringsTyped'
  <2> DEFINE held == [firings[f] EXCEPT !.at = "failed"]
  <2>1. held.at = "failed"
    BY <1>6 DEF Fails, FiringsTyped
  <2>2. firings' = [firings EXCEPT ![f] = held]
    BY <1>6 DEF Fails, FiringsTyped
  <2> HIDE DEF held
  <2> QED BY <2>1, <2>2, <1>2
<1>7. \/ UNCHANGED firings
      \/ \E s \in Ids : Fire(s)
      \/ \E f \in Firings : Attempt(f) \/ Completes(f) \/ Fails(f)
  BY DEF SchedulesNext, schedulesVars, Tick, PublishPlan, StartRun, AskCreate,
         CreateSchedule, AskOther, Look, Delete, Fetch, WriteBack, Describe, AskList,
         ListNext, ListEnds
<1> QED BY <1>1, <1>3, <1>4, <1>5, <1>6, <1>7

\* The firings are typed in every state.
LEMMA FiringsTypeCorrect == SchedulesSpec => []FiringsTyped
<1>1. SchedulesInit => FiringsTyped
  BY DEF SchedulesInit, FiringsTyped, Unfired
<1>2. Provenance /\ FiringsTyped /\ [SchedulesNext]_schedulesVars => FiringsTyped'
  BY FiringsTypedStep
<1> QED BY <1>1, <1>2, ProvenanceHolds, PTL DEF SchedulesSpec

\* A firing's attempt is a request like any other: it sends its own workflow id for a
\* key and the version its schedule was created with.
LEMMA AttemptIsCreate ==
  ASSUME FiringsTyped, NEW f \in Firings, Attempt(f)
  PROVE  \E r \in Requests : Create(r)
<1> DEFINE r == <<f, firings[f].attempt + 1>>
           body == [key |-> f, version |-> firings[f].version, explore |-> FALSE,
                    source |-> Nobody]
<1>1. /\ firings[f] \in [at : {"running"}, attempt : 0 .. MaxAttempts, version : Pins]
      /\ firings[f].attempt < MaxAttempts
  BY DEF Attempt, FiringsTyped
<1>2. firings[f].version \in {NoPlan, Latest} \cup Versions
  BY <1>1
<1>3. r \in Requests
  <2>1. firings[f].attempt + 1 \in 1 .. MaxAttempts
    BY <1>1
  <2> QED BY <2>1 DEF Attempts
<1>4. Send(r, body)
  BY DEF Attempt, Send, KeyOf
<1>5. Create(r)
  BY <1>2, <1>4 DEF Create
<1> QED BY <1>3, <1>5

\* Recurring runs come into being as all runs do: every behaviour of the schedules is
\* one of RunStart, with the firings for keys and their attempts for requests.
THEOREM FiringsAreRequests == SchedulesSpec => Spec
<1>1. SchedulesInit => Init
  BY DEF SchedulesInit
<1>2. FiringsTyped /\ [SchedulesNext]_schedulesVars => [Next]_vars
  <2> SUFFICES ASSUME FiringsTyped, [SchedulesNext]_schedulesVars PROVE [Next]_vars
    OBVIOUS
  <2>1. ASSUME NEW a \in Attempts, StartRun(a) PROVE Next
    BY <2>1 DEF StartRun, Next
  <2>2. ASSUME NEW f \in Firings, Attempt(f) PROVE Next
    BY <2>2, AttemptIsCreate DEF Next
  <2>3. ASSUME PublishPlan PROVE Next
    BY <2>3 DEF PublishPlan, PublishVersion, Next
  <2>4. ASSUME NEW c \in Calls,
               \/ AskCreate(c) \/ CreateSchedule(c) \/ AskOther(c) \/ Look(c)
               \/ Delete(c) \/ Fetch(c) \/ WriteBack(c) \/ Describe(c)
               \/ AskList(c) \/ ListNext(c) \/ ListEnds(c)
        PROVE  UNCHANGED vars
    <3>1. ASSUME AskCreate(c) \/ CreateSchedule(c) \/ AskOther(c) \/ Look(c) PROVE UNCHANGED vars
      BY <3>1 DEF AskCreate, CreateSchedule, AskOther, Look
    <3>2. ASSUME Delete(c) \/ Fetch(c) \/ WriteBack(c) \/ Describe(c) PROVE UNCHANGED vars
      BY <3>2 DEF Delete, Fetch, WriteBack, Describe
    <3>3. ASSUME AskList(c) \/ ListNext(c) \/ ListEnds(c) PROVE UNCHANGED vars
      BY <3>3 DEF AskList, ListNext, ListEnds
    <3> QED BY <2>4, <3>1, <3>2, <3>3
  <2>5. ASSUME (\E s \in Ids : Fire(s)) \/ \E f \in Firings : Completes(f) \/ Fails(f)
        PROVE  UNCHANGED vars
    BY <2>5 DEF Fire, Completes, Fails
  <2>6. Tick \/ UNCHANGED schedulesVars => UNCHANGED vars
    BY DEF Tick, schedulesVars
  <2>7. CASE UNCHANGED vars
    BY <2>7
  <2>8. CASE SchedulesNext
    BY <2>1, <2>2, <2>3, <2>4, <2>5, <2>6, <2>8 DEF SchedulesNext
  <2> QED BY <2>6, <2>7, <2>8
<1> QED BY <1>1, <1>2, FiringsTypeCorrect, PTL DEF SchedulesSpec, Spec

-----------------------------------------------------------------------------
\* An attempt asks with its own firing's key, and the run a firing completed with is
\* a committed one of its own.
FiringsAgree ==
  /\ \A a \in Attempts : pc[a] # "idle" => ask[a].key = a[1]
  /\ \A f \in Firings : firings[f].at = "completed" =>
       firings[f].run \in rows /\ firings[f].run[1] = f

\* No step changes what was asked, or takes a run away.
LEMMA HandleKeepsAsks ==
  ASSUME StartInv, NEW r \in Requests, Handle(r)
  PROVE  /\ UNCHANGED ask
         /\ rows \subseteq rows'
         /\ pc[r] # "idle"
         /\ \A s \in Requests : s # r => pc'[s] = pc[s]
<1>1. pc \in [Requests -> {"idle", "sent", "missed", "committed", "over"}]
  BY DEF StartInv, TypeOK
<1> QED
  BY <1>1 DEF Handle, LookupHit, LookupMiss, Refuse, Commit, CommitLoses, StartWorkflow, Fail,
              Finish, MayStart

\* Every step keeps it: what a firing completes with is the run that its key stands
\* for, and only the firing's own attempts carry that key.
LEMMA FiringsAgreeStep ==
  ASSUME StartInv, FiringsTyped, FiringsAgree, [SchedulesNext]_schedulesVars
  PROVE  FiringsAgree'
<1>1. CASE UNCHANGED <<pc, ask, rows, firings>>
  BY <1>1 DEF FiringsAgree
<1>2. ASSUME NEW s \in Ids, Fire(s) PROVE FiringsAgree'
  <2>1. UNCHANGED <<pc, ask, rows>>
    BY <1>2 DEF Fire, vars
  <2>2. \A f \in Firings : firings'[f].at = "completed" => firings'[f] = firings[f]
    BY <1>2 DEF Fire, FiringsTyped
  <2> QED BY <2>1, <2>2 DEF FiringsAgree
<1>3. ASSUME NEW f \in Firings, Attempt(f) PROVE FiringsAgree'
  <2> DEFINE r == <<f, firings[f].attempt + 1>>
  <2>1. /\ firings[f] \in [at : {"running"}, attempt : 0 .. MaxAttempts, version : Pins]
        /\ firings[f].attempt < MaxAttempts
    BY <1>3 DEF Attempt, FiringsTyped
  <2>2. r \in Attempts
    <3>1. firings[f].attempt + 1 \in 1 .. MaxAttempts
      BY <2>1
    <3> QED BY <3>1 DEF Attempts
  <2>3. /\ pc' = [pc EXCEPT ![r] = "sent"]
        /\ ask' = [ask EXCEPT ![r] = [key |-> f, version |-> firings[f].version,
                                      explore |-> FALSE, source |-> Nobody]]
        /\ UNCHANGED rows
    BY <1>3 DEF Attempt, Send, KeyOf
  <2>4. pc \in [Attempts -> {"idle", "sent", "missed", "committed", "over"}]
        /\ ask \in [Attempts -> Asks \cup {NoAsk}]
    BY DEF StartInv, TypeOK
  <2>5. r[1] = f
    OBVIOUS
  <2> HIDE DEF r
  <2>6. \A a \in Attempts : pc'[a] # "idle" => ask'[a].key = a[1]
    BY <2>2, <2>3, <2>4, <2>5 DEF FiringsAgree
  <2>7. \A e \in Firings : firings'[e].at = "completed" => firings'[e] = firings[e]
    BY <1>3, <2>1 DEF Attempt, FiringsTyped
  <2> QED BY <2>3, <2>6, <2>7 DEF FiringsAgree
<1>4. ASSUME NEW f \in Firings, Completes(f) PROVE FiringsAgree'
  <2> DEFINE r == <<f, firings[f].attempt>>
             run == RunOf(r)
  <2>1. /\ firings[f] \in [at : {"running"}, attempt : 0 .. MaxAttempts, version : Pins]
        /\ firings[f].attempt > 0
        /\ UNCHANGED <<pc, ask, rows>>
    BY <1>4 DEF Completes, FiringsTyped, vars
  <2>2. r \in Attempts /\ r[1] = f
    <3>1. firings[f].attempt \in 1 .. MaxAttempts
      BY <2>1
    <3> QED BY <3>1 DEF Attempts
  <2>3. Answered(r) /\ run = RunOf(r)
    BY <1>4 DEF Completes, Current, Answered, RunOf
  <2>4. firings' = [firings EXCEPT ![f] =
          [at |-> "completed", attempt |-> firings[f].attempt,
           version |-> firings[f].version, run |-> run]]
    BY <1>4 DEF Completes, FiringsTyped, Current
  <2> HIDE DEF r, run
  <2>5. pc[r] # "idle"
    BY <2>2, <2>3 DEF Answered, StartInv, StagesAgree
  <2>6. ask[r].key = f
    BY <2>2, <2>5 DEF FiringsAgree
  <2>7. run \in rows /\ ask[run].key = f
    <3>1. CASE answer[r] = "created"
      BY <2>2, <2>3, <2>6, <3>1 DEF RunOf, StartInv, AnswersRest
    <3>2. CASE answer[r] = "replayed"
      BY <2>2, <2>3, <2>6, <3>2 DEF RunOf, StartInv, AnswersRest, OneRunPerKey
    <3> QED BY <2>3, <3>1, <3>2 DEF Answered
  <2>8. run \in Attempts /\ pc[run] # "idle"
    BY <2>7 DEF StartInv, StagesAgree, TypeOK
  <2>9. run[1] = f
    BY <2>7, <2>8 DEF FiringsAgree
  <2>10. \A e \in Firings : firings'[e].at = "completed" =>
           firings'[e].run \in rows /\ firings'[e].run[1] = e
    BY <2>4, <2>7, <2>9 DEF FiringsAgree, FiringsTyped
  <2> QED BY <2>1, <2>10 DEF FiringsAgree
<1>5. ASSUME NEW f \in Firings, Fails(f) PROVE FiringsAgree'
  <2>1. UNCHANGED <<pc, ask, rows>>
    BY <1>5 DEF Fails, vars
  <2>2. \A e \in Firings : firings'[e].at = "completed" => firings'[e] = firings[e]
    BY <1>5 DEF Fails, FiringsTyped
  <2> QED BY <2>1, <2>2 DEF FiringsAgree
<1>6. ASSUME NEW a \in Attempts, StartRun(a) PROVE FiringsAgree'
  <2>1. UNCHANGED ask /\ rows \subseteq rows' /\ pc[a] # "idle"
        /\ \A s \in Requests : s # a => pc'[s] = pc[s]
    BY <1>6, HandleKeepsAsks DEF StartRun
  <2>2. UNCHANGED firings
    BY <1>6 DEF StartRun
  <2> QED BY <2>1, <2>2 DEF FiringsAgree
<1>7. \/ UNCHANGED <<pc, ask, rows, firings>>
      \/ \E s \in Ids : Fire(s)
      \/ \E f \in Firings : Attempt(f) \/ Completes(f) \/ Fails(f)
      \/ \E a \in Attempts : StartRun(a)
  BY DEF SchedulesNext, schedulesVars, vars, Tick, PublishPlan, PublishVersion,
         AskCreate, CreateSchedule, AskOther, Look, Delete, Fetch, WriteBack, Describe, AskList,
         ListNext, ListEnds
<1> QED BY <1>1, <1>2, <1>3, <1>4, <1>5, <1>6, <1>7

\* A firing makes at most one run, whatever is retried, times out or loses its
\* acknowledgement, and one that completes names a run that is its own.
THEOREM FiringsMakeOneRun == SchedulesSpec => []OneRunPerFiring
<1>1. SchedulesInit => FiringsAgree
  BY DEF SchedulesInit, Init, FiringsAgree, Unfired
<1>2. StartInv /\ FiringsTyped /\ FiringsAgree /\ [SchedulesNext]_schedulesVars => FiringsAgree'
  BY FiringsAgreeStep
<1>3. StartInv /\ FiringsAgree => OneRunPerFiring
  <2> SUFFICES ASSUME StartInv, FiringsAgree PROVE OneRunPerFiring
    OBVIOUS
  <2>1. \A a \in rows : a \in Attempts /\ ask[a].key = a[1] /\ claim[ask[a].key] = a
    BY DEF StartInv, TypeOK, StagesAgree, OneRunPerKey, FiringsAgree
  <2>2. \A a, b \in rows : a[1] = b[1] => a = b
    BY <2>1
  <2> QED BY <2>2 DEF OneRunPerFiring, FiringsAgree
<1>4. SchedulesSpec => []StartInv
  BY FiringsAreRequests, StartInvariant, PTL
<1> QED BY <1>1, <1>2, <1>3, <1>4, FiringsTypeCorrect, PTL DEF SchedulesSpec
=============================================================================
