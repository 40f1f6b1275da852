------------------------ MODULE KnowledgeSyncProofs ------------------------
(***************************************************************************)
(* What the queue says of the graph, for any number of candidates and of    *)
(* passes, any page size and any number of changes, outages and rebuilds.   *)
(***************************************************************************)
EXTENDS KnowledgeSync, FiniteSetTheorems, SequenceTheorems, TLAPS

\* What a pass may have read of an entry: it was not given up on.
Claim == [id : Candidates, attempts : 0 .. MaxSyncAttempts - 1, content : Contents \cup {Absent}]

Typed ==
  /\ durable \in [Candidates -> Contents \cup {Absent}]
  /\ state \in [Candidates -> {"none", "pending", "synced", "failed"}]
  /\ attempts \in [Candidates -> 0 .. MaxSyncAttempts]
  /\ graph \in [Candidates -> Projected \cup {Absent}]
  /\ pc \in [Passes -> {"idle", "listed", "working", "cleared"}]
  /\ work \in [Passes -> Seq(Claim)]
  /\ outcome \in [Passes -> {"none", "synced", "failed", "unavailable"}]
  /\ raced \in [Candidates -> BOOLEAN]

\* A pass that has listed the backlog has an entry to handle, and it marks no other.
PassesWork ==
  \A p \in Passes :
    /\ pc[p] \in {"listed", "working"} => work[p] # << >>
    /\ outcome[p] # "none" => pc[p] = "working"

\* Where nothing raced, what a pass has read is what PostgreSQL says.
ReadIsCurrent ==
  \A p \in Passes : pc[p] = "working" =>
    \A i \in DOMAIN work[p] :
      raced[work[p][i].id] \/ work[p][i].content = durable[work[p][i].id]

\* Where nothing raced, what a pass is about to call synced is in the graph.
ProjectedIsCurrent ==
  \A p \in Passes : outcome[p] = "synced" =>
    LET c == Head(work[p]).id IN raced[c] \/ graph[c] = Image(durable[c])

SyncInv == Typed /\ PassesWork /\ ReadIsCurrent /\ ProjectedIsCurrent /\ SyncedIsProjected

-----------------------------------------------------------------------------
\* What a pass holds is an entry of a candidate, and the entry it marks is among
\* those it holds.
LEMMA Holding ==
  ASSUME Typed, PassesWork, NEW p \in Passes
  PROVE  /\ work[p] \in Seq(Claim)
         /\ \A i \in DOMAIN work[p] : work[p][i] \in Claim /\ work[p][i].id \in Candidates
         /\ pc[p] = "working" => /\ 1 \in DOMAIN work[p]
                                 /\ Head(work[p]) = work[p][1]
                                 /\ p \in Holders(Head(work[p]).id)
         /\ outcome[p] # "none" => pc[p] = "working"
<1>1. work[p] \in Seq(Claim)
  BY DEF Typed
<1>2. \A i \in DOMAIN work[p] : work[p][i] \in Claim
  BY <1>1
<1>3. \A i \in DOMAIN work[p] : work[p][i].id \in Candidates
  BY <1>2 DEF Claim
<1>4. ASSUME pc[p] = "working"
      PROVE  1 \in DOMAIN work[p] /\ Head(work[p]) = work[p][1]
  BY <1>1, <1>4 DEF PassesWork
<1> QED BY <1>1, <1>2, <1>3, <1>4 DEF Holders, PassesWork

\* What a candidate's row says can be projected.
LEMMA ImageType == \A v : Image(v) \in Projected \cup {Absent}
BY DEF Image

\* An order of a finite set is a sequence of its members, of each of them.
LEMMA OrdersType ==
  ASSUME NEW S, IsFiniteSet(S), NEW s \in Orders(S)
  PROVE  /\ s \in Seq(S)
         /\ \A c : c \in S <=> \E i \in DOMAIN s : s[i] = c
<1>1. Cardinality(S) \in Nat
  BY FS_CardinalityType
<1> QED BY <1>1 DEF Orders

\* What is left of a sequence is what came after its head.
LEMMA TailOf ==
  ASSUME NEW S, NEW s \in Seq(S), s # << >>
  PROVE  /\ Tail(s) \in Seq(S)
         /\ Len(s) # 1 => Tail(s) # << >>
         /\ \A i \in DOMAIN Tail(s) : i + 1 \in DOMAIN s /\ Tail(s)[i] = s[i + 1]
<1>1. Len(Tail(s)) = Len(s) - 1 /\ Len(s) \in Nat /\ DOMAIN s = 1 .. Len(s)
  OBVIOUS
<1>2. Tail(s) \in Seq(S)
  OBVIOUS
<1>3. DOMAIN Tail(s) = 1 .. Len(s) - 1
  BY <1>1, <1>2
<1>4. \A i \in 1 .. Len(s) - 1 : Tail(s)[i] = s[i + 1]
  OBVIOUS
<1>5. \A n \in Nat : n - 1 = 0 => n = 1
  OBVIOUS
<1>6. ASSUME Tail(s) = << >> PROVE Len(s) = 1
  <2>1. Len(s) - 1 = 0
    BY <1>1, <1>6, EmptySeq, Zenon
  <2> QED BY <1>1, <1>5, <2>1, Zenon
<1> QED BY <1>1, <1>2, <1>3, <1>4, <1>6

-----------------------------------------------------------------------------
\* At first there is nothing to be wrong about.
LEMMA SyncInvInit == Init => SyncInv
<1> SUFFICES ASSUME Init PROVE SyncInv
  OBVIOUS
<1>1. Typed
  BY SyncAssumption DEF Init, Typed
<1>2. PassesWork /\ ReadIsCurrent /\ ProjectedIsCurrent /\ SyncedIsProjected
  BY DEF Init, PassesWork, ReadIsCurrent, ProjectedIsCurrent, SyncedIsProjected
<1> QED BY <1>1, <1>2 DEF SyncInv

\* A candidate some pass holds raced by changing; of any other, no pass has read
\* anything that could now be stale.
LEMMA ChangeKeeps ==
  ASSUME SyncInv, NEW c \in Candidates, Change(c)
  PROVE  SyncInv'
<1> USE DEF SyncInv
<1>1. PICK v \in Contents :
        /\ durable' = [durable EXCEPT ![c] = v]
        /\ Enqueue(<<c>>)
        /\ raced' = [raced EXCEPT ![c] = Holders(c) # {}]
        /\ UNCHANGED <<graph, passes>>
  BY DEF Change
<1>2. /\ state' = [d \in Candidates |-> IF d = c THEN "pending" ELSE state[d]]
      /\ attempts' = [d \in Candidates |-> IF d = c THEN 0 ELSE attempts[d]]
  BY <1>1 DEF Enqueue
<1>3. UNCHANGED <<graph, pc, work, outcome>>
  BY <1>1 DEF passes
<1>4. Typed'
  BY <1>1, <1>2, <1>3, SyncAssumption DEF Typed
<1>5. PassesWork'
  BY <1>3 DEF PassesWork
<1>6. \A d \in Candidates : d # c => raced'[d] = raced[d] /\ durable'[d] = durable[d]
  BY <1>1 DEF Typed
<1>7. \A p \in Passes : p \in Holders(c) => raced'[c]
  BY <1>1 DEF Typed
<1>8. ReadIsCurrent'
  <2> SUFFICES ASSUME NEW p \in Passes, pc[p] = "working", NEW i \in DOMAIN work[p]
               PROVE  raced'[work[p][i].id] \/ work[p][i].content = durable'[work[p][i].id]
    BY <1>3 DEF ReadIsCurrent
  <2>1. work[p][i].id \in Candidates
    BY Holding
  <2>2. CASE work[p][i].id = c
    BY <1>7, <2>2 DEF Holders
  <2>3. CASE work[p][i].id # c
    BY <1>6, <2>1, <2>3 DEF ReadIsCurrent
  <2> QED BY <2>2, <2>3
<1>9. ProjectedIsCurrent'
  <2> SUFFICES ASSUME NEW p \in Passes, outcome[p] = "synced"
               PROVE  LET d == Head(work[p]).id IN raced'[d] \/ graph[d] = Image(durable'[d])
    BY <1>3 DEF ProjectedIsCurrent, Image
  <2>1. Head(work[p]).id \in Candidates /\ p \in Holders(Head(work[p]).id)
    BY Holding
  <2> QED BY <1>6, <1>7, <2>1 DEF ProjectedIsCurrent
<1>10. SyncedIsProjected'
  BY <1>2, <1>3, <1>6 DEF SyncedIsProjected, Image
<1> QED BY <1>4, <1>5, <1>8, <1>9, <1>10

\* Listing reads only the queue: what it copies was not given up on.
LEMMA ListKeeps ==
  ASSUME SyncInv, NEW p \in Passes, List(p)
  PROVE  SyncInv'
<1> USE DEF SyncInv
<1>1. /\ pc[p] = "idle" /\ Due # {}
      /\ pc' = [pc EXCEPT ![p] = "listed"]
      /\ UNCHANGED <<durable, state, attempts, graph, outcome, raced>>
  BY DEF List, entries
<1>2. PICK s \in Orders(Due) : work' = [work EXCEPT ![p] =
        [i \in DOMAIN s |-> [id |-> s[i], attempts |-> attempts[s[i]], content |-> Absent]]]
  BY DEF List
<1>3. /\ IsFiniteSet(Due)
      /\ \A c \in Due : c \in Candidates /\ attempts[c] \in 0 .. MaxSyncAttempts - 1
  <2>1. \A c \in Due : c \in Candidates /\ attempts[c] < MaxSyncAttempts
    BY DEF Due, Page, Waiting
  <2>2. IsFiniteSet(Due)
    BY <2>1, SyncAssumption, FS_Subset
  <2> QED BY <2>1, <2>2, SyncAssumption DEF Typed
<1>4. s \in Seq(Due) /\ \E i \in DOMAIN s : TRUE
  BY <1>1, <1>3, OrdersType
<1>5. work'[p] \in Seq(Claim) /\ work'[p] # << >>
  <2>1. work'[p] = [i \in 1 .. Len(s) |->
                      [id |-> s[i], attempts |-> attempts[s[i]], content |-> Absent]]
    BY <1>2, <1>4 DEF Typed
  <2>2. \A i \in 1 .. Len(s) :
          [id |-> s[i], attempts |-> attempts[s[i]], content |-> Absent] \in Claim
    BY <1>3, <1>4 DEF Claim
  <2> QED BY <1>4, <2>1, <2>2
<1>6. /\ pc'[p] = "listed"
      /\ \A q \in Passes : q # p => pc'[q] = pc[q] /\ work'[q] = work[q]
  BY <1>1, <1>2 DEF Typed
<1>7. Typed'
  BY <1>1, <1>2, <1>5 DEF Typed
<1>8. outcome[p] = "none"
  BY <1>1 DEF PassesWork
<1>9. PassesWork'
  BY <1>1, <1>5, <1>6, <1>8 DEF PassesWork
<1>10. ReadIsCurrent'
  BY <1>1, <1>6 DEF ReadIsCurrent
<1>11. ProjectedIsCurrent'
  BY <1>1, <1>6, <1>8 DEF ProjectedIsCurrent, Image
<1>12. SyncedIsProjected'
  BY <1>1 DEF SyncedIsProjected, Image
<1> QED BY <1>7, <1>9, <1>10, <1>11, <1>12

\* Reading a row replaces what a claim says of its content, and nothing else.
LEMMA ReadOf ==
  ASSUME NEW claim \in Claim, NEW v \in Contents \cup {Absent}
  PROVE  [claim EXCEPT !.content = v] = [id |-> claim.id, attempts |-> claim.attempts, content |-> v]
BY DEF Claim

\* What is read is current, and a reader that is not alone has raced with the other.
LEMMA ReadKeeps ==
  ASSUME SyncInv, NEW p \in Passes, Read(p)
  PROVE  SyncInv'
<1> USE DEF SyncInv
<1> DEFINE Lists(c) == \E i \in DOMAIN work[p] : work[p][i].id = c
<1>1. /\ pc[p] = "listed"
      /\ pc' = [pc EXCEPT ![p] = "working"]
      /\ work' = [work EXCEPT ![p] =
           [i \in DOMAIN work[p] |-> [work[p][i] EXCEPT !.content = durable[work[p][i].id]]]]
      /\ raced' = [c \in Candidates |->
           IF Lists(c) THEN Holders(c) # {} \/ (raced[c] /\ state[c] = "synced") ELSE raced[c]]
      BY DEF Read
<1>0. UNCHANGED <<durable, state, attempts, graph, outcome>>
  BY DEF Read, entries
<1>2. work[p] \in Seq(Claim) /\ outcome[p] = "none" /\ work[p] # << >>
  BY <1>1, Holding DEF PassesWork
<1>3. \A i \in DOMAIN work[p] :
        /\ work[p][i] \in Claim /\ durable[work[p][i].id] \in Contents \cup {Absent}
        /\ [work[p][i] EXCEPT !.content = durable[work[p][i].id]]
             = [id |-> work[p][i].id, attempts |-> work[p][i].attempts,
                content |-> durable[work[p][i].id]]
  <2> TAKE i \in DOMAIN work[p]
  <2>1. work[p][i] \in Claim /\ work[p][i].id \in Candidates
    BY Holding
  <2>2. durable[work[p][i].id] \in Contents \cup {Absent}
    BY <2>1 DEF Typed
  <2> HIDE DEF SyncInv
  <2> QED BY <2>1, <2>2, ReadOf
<1>4. /\ DOMAIN work'[p] = DOMAIN work[p]
      /\ work'[p] \in Seq(Claim) /\ work'[p] # << >>
      /\ \A i \in DOMAIN work[p] : /\ work'[p][i].id = work[p][i].id
                                   /\ work'[p][i].content = durable[work[p][i].id]
  <2>1. work'[p] = [i \in DOMAIN work[p] |->
                      [work[p][i] EXCEPT !.content = durable[work[p][i].id]]]
    BY <1>1, Zenon DEF Typed
  <2>2. work'[p] = [i \in DOMAIN work[p] |->
                      [id |-> work[p][i].id, attempts |-> work[p][i].attempts,
                       content |-> durable[work[p][i].id]]]
    BY <1>3, <2>1, Zenon
  <2>3. \A i \in DOMAIN work[p] :
          [id |-> work[p][i].id, attempts |-> work[p][i].attempts,
           content |-> durable[work[p][i].id]] \in Claim
    BY <1>3 DEF Claim
  <2> QED BY <1>2, <2>2, <2>3
<1>5. /\ pc'[p] = "working"
      /\ \A q \in Passes : q # p => pc'[q] = pc[q] /\ work'[q] = work[q]
  BY <1>1 DEF Typed
<1>6. Typed'
  BY <1>0, <1>1, <1>4 DEF Typed
<1>7. PassesWork'
  BY <1>0, <1>2, <1>4, <1>5 DEF PassesWork
\* Another pass that holds what this one reads has raced with it.
<1>8. ASSUME NEW q \in Passes, q # p, pc[q] = "working",
             NEW i \in DOMAIN work[q], ~raced'[work[q][i].id]
      PROVE  ~raced[work[q][i].id]
  <2>1. work[q][i].id \in Candidates /\ q \in Holders(work[q][i].id)
    BY <1>8, Holding DEF Holders
  <2> QED BY <1>1, <1>8, <2>1
<1>9. ReadIsCurrent'
  <2> SUFFICES ASSUME NEW q \in Passes, pc'[q] = "working", NEW i \in DOMAIN work'[q],
                      ~raced'[work'[q][i].id]
               PROVE  work'[q][i].content = durable[work'[q][i].id]
    BY <1>0 DEF ReadIsCurrent
  <2>1. CASE q = p
    BY <1>4, <2>1
  <2>2. CASE q # p
    BY <1>5, <1>8, <2>2 DEF ReadIsCurrent
  <2> QED BY <2>1, <2>2
<1>10. ProjectedIsCurrent'
  <2> SUFFICES ASSUME NEW q \in Passes, outcome[q] = "synced", ~raced'[Head(work'[q]).id]
               PROVE  graph[Head(work'[q]).id] = Image(durable[Head(work'[q]).id])
    BY <1>0 DEF ProjectedIsCurrent, Image
  <2>1. q # p /\ work'[q] = work[q] /\ pc[q] = "working"
    BY <1>2, <1>5 DEF PassesWork
  <2>2. 1 \in DOMAIN work[q] /\ Head(work[q]) = work[q][1]
    BY <2>1, Holding
  <2>3. ~raced[Head(work[q]).id]
    BY <1>8, <2>1, <2>2
  <2> QED BY <2>1, <2>3 DEF ProjectedIsCurrent
<1>11. SyncedIsProjected'
  <2>1. \A c \in Candidates : state[c] = "synced" /\ ~raced'[c] => ~raced[c]
    BY <1>1
  <2> QED BY <1>0, <2>1 DEF SyncedIsProjected, Image
<1> QED BY <1>6, <1>7, <1>9, <1>10, <1>11

\* Writing what a pass has read spoils no node that is as PostgreSQL has it.
LEMMA Written ==
  ASSUME SyncInv, NEW p \in Passes, pc[p] = "working",
         graph' = [graph EXCEPT ![Head(work[p]).id] = Image(Head(work[p]).content)]
  PROVE  /\ graph' \in [Candidates -> Projected \cup {Absent}]
         /\ \A c \in Candidates :
              ~raced[c] /\ (c = Head(work[p]).id \/ graph[c] = Image(durable[c]))
                => graph'[c] = Image(durable[c])
<1> USE DEF SyncInv
<1>1. 1 \in DOMAIN work[p] /\ Head(work[p]) = work[p][1] /\ Head(work[p]).id \in Candidates
  BY Holding
<1>2. raced[Head(work[p]).id] \/ Head(work[p]).content = durable[Head(work[p]).id]
  BY <1>1 DEF ReadIsCurrent
<1>3. graph' \in [Candidates -> Projected \cup {Absent}]
  BY <1>1, ImageType DEF Typed
<1>4. /\ graph'[Head(work[p]).id] = Image(Head(work[p]).content)
      /\ \A c \in Candidates : c # Head(work[p]).id => graph'[c] = graph[c]
  BY <1>1 DEF Typed
<1> QED BY <1>2, <1>3, <1>4

\* A pass that writes and remembers the answer, or only remembers it.
LEMMA HandlingKeeps ==
  ASSUME SyncInv, NEW p \in Passes, Handling(p),
         NEW o \in {"synced", "failed", "unavailable"},
         outcome' = [outcome EXCEPT ![p] = o],
         \/ graph' = [graph EXCEPT ![Head(work[p]).id] = Image(Head(work[p]).content)]
         \/ o # "synced" /\ UNCHANGED graph,
         UNCHANGED <<durable, state, attempts, pc, work, raced>>
  PROVE  SyncInv'
<1> USE DEF SyncInv
<1>1. pc[p] = "working"
  BY DEF Handling
<1>2. /\ graph' \in [Candidates -> Projected \cup {Absent}]
      /\ \A c \in Candidates :
           ~raced[c] /\ graph[c] = Image(durable[c]) => graph'[c] = Image(durable[c])
      /\ o = "synced" /\ ~raced[Head(work[p]).id] =>
           graph'[Head(work[p]).id] = Image(durable[Head(work[p]).id])
  <2>1. Head(work[p]).id \in Candidates
    BY <1>1, Holding
  <2>2. CASE graph' = [graph EXCEPT ![Head(work[p]).id] = Image(Head(work[p]).content)]
    BY <1>1, <2>1, <2>2, Written
  <2>3. CASE o # "synced" /\ UNCHANGED graph
    BY <2>3 DEF Typed
  <2> QED BY <2>2, <2>3
<1>3. /\ outcome'[p] = o
      /\ \A q \in Passes : q # p => outcome'[q] = outcome[q]
  BY DEF Typed
<1>4. Typed'
  BY <1>2 DEF Typed
<1>5. PassesWork'
  BY <1>1, <1>3 DEF PassesWork
<1>6. ReadIsCurrent'
  BY DEF ReadIsCurrent
<1>7. ProjectedIsCurrent'
  <2> SUFFICES ASSUME NEW q \in Passes, outcome'[q] = "synced", ~raced[Head(work[q]).id]
               PROVE  graph'[Head(work[q]).id] = Image(durable[Head(work[q]).id])
    BY DEF ProjectedIsCurrent, Image
  <2>1. CASE q = p
    BY <1>2, <1>3, <2>1
  <2>2. CASE q # p
    <3>1. outcome[q] = "synced" /\ Head(work[q]).id \in Candidates
      BY <1>3, <2>2, Holding
    <3> QED BY <1>2, <3>1 DEF ProjectedIsCurrent
  <2> QED BY <2>1, <2>2
<1>8. SyncedIsProjected'
  BY <1>2 DEF SyncedIsProjected, Image
<1> QED BY <1>4, <1>5, <1>6, <1>7, <1>8

\* An entry is called synced after its node was written, and a pass goes on with the
\* rest of what it had read.
LEMMA MarkKeeps ==
  ASSUME SyncInv, NEW p \in Passes, Mark(p)
  PROVE  SyncInv'
<1> USE DEF SyncInv
<1> DEFINE entry == Head(work[p])
<1>1. /\ pc[p] = "working" /\ outcome[p] # "none"
      /\ state' = [state EXCEPT ![entry.id] = StateAfter(outcome[p])]
      /\ attempts' = [attempts EXCEPT ![entry.id] =
                        entry.attempts + (IF outcome[p] = "synced" THEN 0 ELSE 1)]
      /\ UNCHANGED <<durable, graph, raced>>
  BY DEF Mark
<1>2. /\ work[p] \in Seq(Claim) /\ work[p] # << >>
      /\ 1 \in DOMAIN work[p] /\ entry = work[p][1]
      /\ entry \in Claim /\ entry.id \in Candidates
  BY <1>1, Holding DEF PassesWork
<1>3. /\ state' \in [Candidates -> {"none", "pending", "synced", "failed"}]
      /\ attempts' \in [Candidates -> 0 .. MaxSyncAttempts]
  <2>1. entry.attempts \in 0 .. MaxSyncAttempts - 1
    BY <1>2 DEF Claim
  <2>2. entry.attempts + (IF outcome[p] = "synced" THEN 0 ELSE 1) \in 0 .. MaxSyncAttempts
    BY <2>1, SyncAssumption
  <2> QED BY <1>1, <1>2, <2>2 DEF Typed, StateAfter
\* What is left of the work is work the pass had.
<1>4. \/ Idle(p)
      \/ /\ Len(work[p]) # 1 /\ pc' = pc
         /\ work' = [work EXCEPT ![p] = Tail(work[p])]
         /\ outcome' = [outcome EXCEPT ![p] = "none"]
  BY DEF Mark
<1>5. /\ pc' \in [Passes -> {"idle", "listed", "working", "cleared"}]
      /\ work' \in [Passes -> Seq(Claim)]
      /\ outcome' \in [Passes -> {"none", "synced", "failed", "unavailable"}]
      /\ outcome'[p] = "none"
      /\ pc'[p] \in {"listed", "working"} => /\ work'[p] # << >>
                                             /\ work'[p] = Tail(work[p])
      /\ \A q \in Passes : q # p =>
           pc'[q] = pc[q] /\ work'[q] = work[q] /\ outcome'[q] = outcome[q]
  <2>1. CASE Idle(p)
    BY <2>1 DEF Idle, Typed
  <2>2. CASE /\ Len(work[p]) # 1 /\ pc' = pc
             /\ work' = [work EXCEPT ![p] = Tail(work[p])]
             /\ outcome' = [outcome EXCEPT ![p] = "none"]
    <3>1. Tail(work[p]) \in Seq(Claim) /\ Tail(work[p]) # << >>
      BY <1>2, <2>2, TailOf
    <3> QED BY <2>2, <3>1 DEF Typed
  <2> QED BY <1>4, <2>1, <2>2
<1>6. Typed'
  BY <1>1, <1>3, <1>5 DEF Typed
<1>7. PassesWork'
  BY <1>5 DEF PassesWork
<1>8. ReadIsCurrent'
  <2> SUFFICES ASSUME NEW q \in Passes, pc'[q] = "working", NEW i \in DOMAIN work'[q]
               PROVE  raced[work'[q][i].id] \/ work'[q][i].content = durable[work'[q][i].id]
    BY <1>1 DEF ReadIsCurrent
  <2>1. CASE q = p
    <3>1. work'[q] = Tail(work[p])
      BY <1>5, <2>1
    <3>2. i \in DOMAIN Tail(work[p])
      BY <3>1
    <3>3. i + 1 \in DOMAIN work[p] /\ work'[q][i] = work[p][i + 1]
      BY <1>2, <3>1, <3>2, TailOf
    <3> QED BY <1>1, <2>1, <3>3 DEF ReadIsCurrent
  <2>2. CASE q # p
    BY <1>5, <2>2 DEF ReadIsCurrent
  <2> QED BY <2>1, <2>2
<1>9. ProjectedIsCurrent'
  <2> SUFFICES ASSUME NEW q \in Passes, outcome'[q] = "synced", ~raced[Head(work'[q]).id]
               PROVE  graph[Head(work'[q]).id] = Image(durable[Head(work'[q]).id])
    BY <1>1 DEF ProjectedIsCurrent, Image
  <2> QED BY <1>5 DEF ProjectedIsCurrent
<1>10. SyncedIsProjected'
  <2> SUFFICES ASSUME NEW c \in Candidates, state'[c] = "synced", ~raced[c]
               PROVE  graph[c] = Image(durable[c])
    BY <1>1 DEF SyncedIsProjected, Image
  <2>1. CASE c = entry.id
    <3>1. StateAfter(outcome[p]) = "synced"
      BY <1>1, <1>2, <2>1 DEF Typed
    <3>2. outcome[p] = "synced"
      BY <3>1 DEF StateAfter
    <3> QED BY <2>1, <3>2 DEF ProjectedIsCurrent
  <2>2. CASE c # entry.id
    BY <1>1, <2>2 DEF SyncedIsProjected, Typed
  <2> QED BY <2>1, <2>2
<1> QED BY <1>6, <1>7, <1>8, <1>9, <1>10

\* A pass that dies promises nothing any more.
LEMMA PassDiesKeeps ==
  ASSUME SyncInv, NEW p \in Passes, Idle(p), UNCHANGED <<durable, state, attempts, graph, raced>>
  PROVE  SyncInv'
<1> USE DEF SyncInv
<1>1. /\ pc' = [pc EXCEPT ![p] = "idle"]
      /\ work' = [work EXCEPT ![p] = << >>]
      /\ outcome' = [outcome EXCEPT ![p] = "none"]
  BY DEF Idle
<1>2. /\ pc'[p] = "idle" /\ outcome'[p] = "none"
      /\ \A q \in Passes : q # p =>
           pc'[q] = pc[q] /\ work'[q] = work[q] /\ outcome'[q] = outcome[q]
  BY <1>1 DEF Typed
<1>3. Typed'
  BY <1>1 DEF Typed
<1>4. PassesWork'
  BY <1>2 DEF PassesWork
<1>5. ReadIsCurrent'
  BY <1>2 DEF ReadIsCurrent
<1>6. ProjectedIsCurrent'
  BY <1>2 DEF ProjectedIsCurrent, Image
<1>7. SyncedIsProjected'
  BY DEF SyncedIsProjected, Image
<1> QED BY <1>3, <1>4, <1>5, <1>6, <1>7

\* What is still right after a clear was not in the graph before it either.
LEMMA ClearedKeeps ==
  ASSUME SyncInv, Cleared, UNCHANGED <<durable, state, attempts, work, outcome>>,
         pc' \in [Passes -> {"idle", "listed", "working", "cleared"}],
         \A p \in Passes : pc'[p] = pc[p] \/ (pc[p] = "idle" /\ pc'[p] = "cleared")
  PROVE  SyncInv'
<1> USE DEF SyncInv
<1>1. /\ graph' = [c \in Candidates |-> Absent]
      /\ raced' = [c \in Candidates |-> raced[c] \/ graph[c] # Absent]
  BY DEF Cleared
<1>2. \A c \in Candidates : ~raced'[c] => ~raced[c] /\ graph'[c] = graph[c]
  BY <1>1
<1>3. Typed'
  BY <1>1 DEF Typed
<1>4. PassesWork'
  BY DEF PassesWork
<1>5. ReadIsCurrent'
  <2> SUFFICES ASSUME NEW p \in Passes, pc[p] = "working", NEW i \in DOMAIN work[p],
                      ~raced'[work[p][i].id]
               PROVE  work[p][i].content = durable[work[p][i].id]
    BY DEF ReadIsCurrent
  <2>1. work[p][i].id \in Candidates
    BY Holding
  <2> QED BY <1>2, <2>1 DEF ReadIsCurrent
<1>6. ProjectedIsCurrent'
  <2> SUFFICES ASSUME NEW p \in Passes, outcome[p] = "synced", ~raced'[Head(work[p]).id]
               PROVE  graph'[Head(work[p]).id] = Image(durable[Head(work[p]).id])
    BY DEF ProjectedIsCurrent, Image
  <2>1. Head(work[p]).id \in Candidates
    BY Holding
  <2> QED BY <1>2, <2>1 DEF ProjectedIsCurrent
<1>7. SyncedIsProjected'
  BY <1>2 DEF SyncedIsProjected, Image
<1> QED BY <1>3, <1>4, <1>5, <1>6, <1>7

\* What a rebuild queues again is no longer called synced.
LEMMA EnqueueScopeKeeps ==
  ASSUME SyncInv, NEW p \in Passes, EnqueueScope(p)
  PROVE  SyncInv'
<1> USE DEF SyncInv
<1>0. PICK S \in SUBSET Actionable(scope[p]) :
        /\ \E s \in Orders(S) : Enqueue(s)
        /\ raced' = [c \in Candidates |-> IF c \in S THEN Holders(c) # {} ELSE raced[c]]
  BY DEF EnqueueScope
<1>1. PICK s \in Orders(S) :
        /\ Enqueue(s)
        /\ raced' = [c \in Candidates |-> IF c \in S THEN Holders(c) # {} ELSE raced[c]]
  BY <1>0
<1>2. Idle(p) /\ UNCHANGED <<durable, graph>>
  BY DEF EnqueueScope
<1>3. \A c : c \in S <=> \E i \in DOMAIN s : s[i] = c
  <2>1. S \subseteq Candidates
    BY DEF Actionable
  <2>2. IsFiniteSet(S)
    BY <2>1, SyncAssumption, FS_Subset
  <2> QED BY <2>2, OrdersType
<1>4. /\ state' = [c \in Candidates |-> IF c \in S THEN "pending" ELSE state[c]]
      /\ attempts' = [c \in Candidates |-> IF c \in S THEN 0 ELSE attempts[c]]
  BY <1>1, <1>3 DEF Enqueue
<1>5. /\ pc' = [pc EXCEPT ![p] = "idle"]
      /\ work' = [work EXCEPT ![p] = << >>]
      /\ outcome' = [outcome EXCEPT ![p] = "none"]
  BY <1>2 DEF Idle
<1>6. /\ pc'[p] = "idle" /\ outcome'[p] = "none"
      /\ \A q \in Passes : q # p =>
           pc'[q] = pc[q] /\ work'[q] = work[q] /\ outcome'[q] = outcome[q]
  BY <1>5 DEF Typed
<1>7. Typed'
  <2>1. raced' \in [Candidates -> BOOLEAN]
    BY <1>1 DEF Typed
  <2>2. /\ state' \in [Candidates -> {"none", "pending", "synced", "failed"}]
        /\ attempts' \in [Candidates -> 0 .. MaxSyncAttempts]
    BY <1>4, SyncAssumption DEF Typed
  <2>3. /\ pc' \in [Passes -> {"idle", "listed", "working", "cleared"}]
        /\ work' \in [Passes -> Seq(Claim)]
        /\ outcome' \in [Passes -> {"none", "synced", "failed", "unavailable"}]
    BY <1>5 DEF Typed
  <2> QED BY <1>2, <2>1, <2>2, <2>3 DEF Typed
<1>8. PassesWork'
  BY <1>6 DEF PassesWork
\* A candidate that some pass holds was queued behind its back, or was not queued.
<1>9. \A c \in Candidates : Holders(c) # {} => raced'[c] \/ raced'[c] = raced[c]
  BY <1>1
<1>10. ReadIsCurrent'
  <2> SUFFICES ASSUME NEW q \in Passes, pc'[q] = "working", NEW i \in DOMAIN work'[q],
                      ~raced'[work'[q][i].id]
               PROVE  work'[q][i].content = durable[work'[q][i].id]
    BY <1>2 DEF ReadIsCurrent
  <2>1. pc[q] = "working" /\ work'[q] = work[q]
    BY <1>6
  <2>2. work[q][i].id \in Candidates /\ q \in Holders(work[q][i].id)
    BY <2>1, Holding DEF Holders
  <2> QED BY <1>9, <2>1, <2>2 DEF ReadIsCurrent
<1>11. ProjectedIsCurrent'
  <2> SUFFICES ASSUME NEW q \in Passes, outcome'[q] = "synced", ~raced'[Head(work'[q]).id]
               PROVE  graph[Head(work'[q]).id] = Image(durable[Head(work'[q]).id])
    BY <1>2 DEF ProjectedIsCurrent, Image
  <2>1. outcome[q] = "synced" /\ work'[q] = work[q]
    BY <1>6
  <2>2. 1 \in DOMAIN work[q] /\ q \in Holders(Head(work[q]).id) /\ Head(work[q]).id \in Candidates
    BY <2>1, Holding
  <2> QED BY <1>9, <2>1, <2>2 DEF ProjectedIsCurrent
<1>12. SyncedIsProjected'
  <2>1. \A c \in Candidates : state'[c] = "synced" => state[c] = "synced" /\ raced'[c] = raced[c]
    BY <1>1, <1>4
  <2> QED BY <1>2, <2>1 DEF SyncedIsProjected, Image
<1> QED BY <1>7, <1>8, <1>10, <1>11, <1>12

-----------------------------------------------------------------------------
\* Every step of every pass, of a rebuild and of a run keeps the invariant.
LEMMA SyncInvNext == SyncInv /\ [Next]_vars => SyncInv'
<1> SUFFICES ASSUME SyncInv, [Next]_vars PROVE SyncInv'
  OBVIOUS
<1>1. ASSUME NEW c \in Candidates, Change(c) PROVE SyncInv'
  BY <1>1, ChangeKeeps
<1>2. ASSUME NEW p \in Passes, List(p) PROVE SyncInv'
  BY <1>2, ListKeeps
<1>3. ASSUME NEW p \in Passes, Read(p) PROVE SyncInv'
  BY <1>3, ReadKeeps
<1>4. ASSUME NEW p \in Passes, Project(p) PROVE SyncInv'
  BY <1>4, HandlingKeeps DEF Project, entries
<1>5. ASSUME NEW p \in Passes, ProjectRaises(p) PROVE SyncInv'
  BY <1>5, HandlingKeeps DEF ProjectRaises, entries
<1>6. ASSUME NEW p \in Passes, GraphUnavailable(p) PROVE SyncInv'
  BY <1>6, HandlingKeeps DEF GraphUnavailable, entries
<1>7. ASSUME NEW p \in Passes, Mark(p) PROVE SyncInv'
  BY <1>7, MarkKeeps
<1>8. ASSUME NEW p \in Passes, PassDies(p) PROVE SyncInv'
  BY <1>8, PassDiesKeeps DEF PassDies, entries
<1>9. ASSUME NEW p \in Passes, NEW e \in Environments, Clear(p, e) PROVE SyncInv'
  <2>1. /\ pc' \in [Passes -> {"idle", "listed", "working", "cleared"}]
        /\ \A q \in Passes : pc'[q] = pc[q] \/ (pc[q] = "idle" /\ pc'[q] = "cleared")
    BY <1>9 DEF Clear, SyncInv, Typed
  <2> QED BY <1>9, <2>1, ClearedKeeps DEF Clear, entries
<1>10. ASSUME NEW p \in Passes, ClearFails(p) PROVE SyncInv'
  BY <1>10, ClearedKeeps DEF ClearFails, entries, passes, SyncInv, Typed
<1>11. ASSUME NEW p \in Passes, EnqueueScope(p) PROVE SyncInv'
  BY <1>11, EnqueueScopeKeeps
<1>12. CASE UNCHANGED vars
  BY <1>12 DEF vars, entries, passes, SyncInv, Typed, PassesWork, ReadIsCurrent,
     ProjectedIsCurrent, SyncedIsProjected, Image
<1> QED
  BY <1>1, <1>2, <1>3, <1>4, <1>5, <1>6, <1>7, <1>8, <1>9, <1>10, <1>11, <1>12
  DEF Next, Drain

\* What the queue calls synced is in the graph as PostgreSQL has it now, unless
\* the candidate was changed, queued or handled behind a pass's back, or its node
\* was cleared: sync_pending writes and marks what it read in another transaction,
\* and any number of passes may do so at once.
THEOREM SyncedStaysProjected == Spec => []SyncedIsProjected
<1>1. SyncInv => SyncedIsProjected
  BY DEF SyncInv
<1> QED BY SyncInvInit, SyncInvNext, <1>1, PTL DEF Spec
=============================================================================
