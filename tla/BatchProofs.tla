---------------------------- MODULE BatchProofs ----------------------------
(***************************************************************************)
(* Proofs about work that is handed over as a whole: the batches of jobs   *)
(* (B), the batches of signed payloads (S), how much of it a caller may    *)
(* hand over (the rate limiter, L), and the validator every workflow       *)
(* passes.  The properties are those of Services.cfg; the variables v1 to  *)
(* v9 stand for the variables of the service as MCServices instantiates    *)
(* it, and the validator keeps its own.  The inductive invariants are      *)
(* BatchInv of BatchJobs, ClaimInv of SubmissionBatch, LimiterInv of       *)
(* RateLimiter and ValidatorInv of DagValidator.                           *)
(*                                                                         *)
(* The validator's search leaves nothing behind it: children of black      *)
(* nodes are black, and every set of black nodes has a member without a    *)
(* child in it.  When it ends without a cycle that holds for all nodes,    *)
(* and then every set also has a member that depends on none of it         *)
(* (SinksAndSources).  The sort therefore cannot get stuck, which is why   *)
(* it is never incomplete.                                                 *)
(***************************************************************************)
EXTENDS MCServices, FiniteSetTheorems, WellFoundedInduction, TLAPS

-----------------------------------------------------------------------------
(* Batches of jobs (B): v1 is config, v2 order, v3 loop, v4 next,          *)
(* v5 queued, v6 jobOf, v7 progress, v8 late.                              *)

BatchTypes ==
    /\ v1 \in B!Configs
    /\ v2 \in [B!Items -> B!Items]
    /\ v3 \in {"idle", "running", "returned", "threw"}
    /\ v4 \in 0..NumItems
    /\ v5 \subseteq B!Items
    /\ v6 \in [B!Items -> Int]
    /\ v7 \in [status : {"none", "running", "completed", "failed", "cancelled"},
               completed : Nat, failed : Nat, slots : [B!Items -> B!SlotStatus]]
    /\ v8 \in BOOLEAN

(* The order in which the sort puts two items. *)
Before(i, j) ==
    \/ Priority[i] < Priority[j]
    \/ Priority[i] = Priority[j] /\ i < j

Ahead(i) == {j \in B!Items : Before(j, i)}

(* The place of an item in the sorted list. *)
Place == [i \in B!Items |-> Cardinality(Ahead(i)) + 1]

(* The service counts with the same operator. *)
LEMMA SameCount == \A T : B!Cardinality(T) = Cardinality(T)
BY DEF B!Cardinality, Cardinality

LEMMA ItemFacts ==
    /\ \A i : i \in B!Items <=> i \in Int /\ 1 <= i /\ i <= NumItems
    /\ NumItems \in Nat
    /\ \A i \in B!Items : Priority[i] \in Int
    /\ IsFiniteSet(B!Items) /\ Cardinality(B!Items) = NumItems
<1>1. NumItems \in Nat /\ Priority \in [B!Items -> Int]
  BY ServicesAssumption, PriorityAssumption DEF B!Items
<1>2. IsFiniteSet(B!Items) /\ Cardinality(B!Items) = NumItems
  BY <1>1, FS_Interval DEF B!Items
<1>3. QED
  BY <1>1, <1>2 DEF B!Items

LEMMA BeforeIsTotal ==
    /\ \A i \in B!Items : ~Before(i, i)
    /\ \A i, j \in B!Items : i # j => Before(i, j) \/ Before(j, i)
    /\ \A i, j, k \in B!Items : Before(i, j) /\ Before(j, k) => Before(i, k)
BY ItemFacts DEF Before

LEMMA PlaceIsItem == Place \in [B!Items -> B!Items]
<1>1. ASSUME NEW i \in B!Items PROVE Cardinality(Ahead(i)) + 1 \in B!Items
  <2>1. IsFiniteSet(B!Items \ {i}) /\ Cardinality(B!Items \ {i}) = NumItems - 1
    BY ItemFacts, FS_RemoveElement
  <2>2. Ahead(i) \in SUBSET (B!Items \ {i})
    BY BeforeIsTotal DEF Ahead
  <2>3. IsFiniteSet(Ahead(i)) /\ Cardinality(Ahead(i)) <= NumItems - 1
    BY <2>1, <2>2, FS_Subset
  <2>4. Cardinality(Ahead(i)) \in Nat
    BY <2>3, FS_CardinalityType
  <2>5. QED
    BY <2>3, <2>4, ItemFacts
<1>2. QED
  BY <1>1 DEF Place

LEMMA PlaceFollowsOrder ==
    ASSUME NEW i \in B!Items, NEW j \in B!Items, Before(i, j)
    PROVE  Place[i] < Place[j]
<1>1. Ahead(i) \in SUBSET B!Items /\ Ahead(j) \in SUBSET B!Items
  BY DEF Ahead
<1>2. IsFiniteSet(Ahead(i)) /\ IsFiniteSet(Ahead(j))
  BY <1>1, ItemFacts, FS_Subset
<1>3. i \notin Ahead(i)
  BY BeforeIsTotal DEF Ahead
<1>4. Ahead(i) \cup {i} \in SUBSET Ahead(j)
  BY BeforeIsTotal DEF Ahead
<1>5. Cardinality(Ahead(i) \cup {i}) = Cardinality(Ahead(i)) + 1
  BY <1>2, <1>3, FS_AddElement
<1>6. Cardinality(Ahead(i) \cup {i}) <= Cardinality(Ahead(j))
  BY <1>2, <1>4, FS_Subset
<1>7. Cardinality(Ahead(i)) \in Nat /\ Cardinality(Ahead(j)) \in Nat
  BY <1>2, FS_CardinalityType
<1>8. QED
  BY <1>5, <1>6, <1>7 DEF Place

LEMMA OnceIsAll ==
    ASSUME NEW f \in [B!Items -> B!Items], \A i, j \in B!Items : f[i] = f[j] => i = j
    PROVE  \A i \in B!Items : \E a \in B!Items : f[a] = i
<1>1. f \in Injection(B!Items, B!Items)
  BY DEF Injection, IsInjective
<1>2. f \in Surjection(B!Items, B!Items)
  BY <1>1, ItemFacts, FS_Injection
<1>3. QED
  BY <1>2 DEF Surjection

(* The stable sort of the priority loop exists. *)
LEMMA SortExists ==
    \E s \in [B!Items -> B!Items] :
        \A i, j \in B!Items : i < j => s[i] # s[j] /\ Before(s[i], s[j])
<1>1. \A i, j \in B!Items : Place[i] = Place[j] => i = j
  <2> SUFFICES ASSUME NEW i \in B!Items, NEW j \in B!Items, i # j PROVE Place[i] # Place[j]
    OBVIOUS
  <2>1. Place[i] < Place[j] \/ Place[j] < Place[i]
    BY BeforeIsTotal, PlaceFollowsOrder
  <2>2. Place[i] \in Int /\ Place[j] \in Int
    BY PlaceIsItem, ItemFacts
  <2>3. QED
    BY <2>1, <2>2
<1>2. \A i \in B!Items : \E a \in B!Items : Place[a] = i
  BY <1>1, PlaceIsItem, OnceIsAll
<1> DEFINE s == [a \in B!Items |-> CHOOSE i \in B!Items : Place[i] = a]
<1>3. s \in [B!Items -> B!Items] /\ \A a \in B!Items : Place[s[a]] = a
  BY <1>2
<1> HIDE DEF s
<1>4. ASSUME NEW i \in B!Items, NEW j \in B!Items, i < j
      PROVE  s[i] # s[j] /\ Before(s[i], s[j])
  <2>1. s[i] \in B!Items /\ s[j] \in B!Items /\ Place[s[i]] = i /\ Place[s[j]] = j
    BY <1>3
  <2>2. i \in Int /\ j \in Int
    BY ItemFacts
  <2>3. s[i] # s[j]
    BY <1>4, <2>1, <2>2
  <2>4. ~Before(s[j], s[i])
    <3>1. PICK x \in B!Items, y \in B!Items : x = s[j] /\ y = s[i]
      BY <2>1
    <3>2. Before(x, y) => Place[x] < Place[y]
      BY PlaceFollowsOrder
    <3>3. Place[x] = j /\ Place[y] = i
      BY <2>1, <3>1
    <3>4. QED
      BY <1>4, <2>2, <3>1, <3>2, <3>3
  <2>5. QED
    BY <2>1, <2>3, <2>4, BeforeIsTotal
<1>5. QED
  BY <1>3, <1>4

LEMMA SortIsOnce ==
    /\ B!ByPriority \in [B!Items -> B!Items]
    /\ \A a, b \in B!Items : B!ByPriority[a] = B!ByPriority[b] => a = b
    /\ \A i \in B!Items : \E a \in B!Items : B!ByPriority[a] = i
    /\ \A a, b \in B!Items : a < b => Priority[B!ByPriority[a]] <= Priority[B!ByPriority[b]]
<1>1. \E s \in [B!Items -> B!Items] :
        \A i, j \in B!Items : i < j =>
            /\ s[i] # s[j]
            /\ \/ Priority[s[i]] < Priority[s[j]]
               \/ Priority[s[i]] = Priority[s[j]] /\ s[i] < s[j]
  BY SortExists DEF Before
<1>2. PICK s : s = B!ByPriority
  OBVIOUS
<1>3. /\ s \in [B!Items -> B!Items]
      /\ \A i, j \in B!Items : i < j =>
            /\ s[i] # s[j]
            /\ \/ Priority[s[i]] < Priority[s[j]]
               \/ Priority[s[i]] = Priority[s[j]] /\ s[i] < s[j]
  BY <1>1, <1>2 DEF B!ByPriority
<1>4. \A a, b \in B!Items : s[a] = s[b] => a = b
  <2> SUFFICES ASSUME NEW a \in B!Items, NEW b \in B!Items, a # b PROVE s[a] # s[b]
    OBVIOUS
  <2>1. a < b \/ b < a
    BY ItemFacts
  <2>2. QED
    BY <1>3, <2>1
<1>5. \A i \in B!Items : \E a \in B!Items : s[a] = i
  BY <1>3, <1>4, OnceIsAll
<1>6. \A a, b \in B!Items : a < b => Priority[s[a]] <= Priority[s[b]]
  BY <1>3, ItemFacts
<1>7. QED
  BY <1>2, <1>3, <1>4, <1>5, <1>6

(* Among the items of a chunk that came first, one is the very first. *)
LEMMA FirstItem ==
    ASSUME NEW T, T \subseteq B!Items, T # {}
    PROVE  \E k \in T : \A l \in T : k <= l
<1>1. T \subseteq Nat
  BY ItemFacts
<1>2. \E k \in T : \A l \in T : ~(<<l, k>> \in OpToRel(<, Nat))
  BY <1>1, NatLessThanWellFounded, WFMin
<1>3. ASSUME NEW k \in Nat, NEW l \in Nat, l < k
      PROVE  <<l, k>> \in OpToRel(<, Nat)
  <2>1. PICK p : p = <<l, k>>
    OBVIOUS
  <2>2. p \in Nat \X Nat /\ p[1] = l /\ p[2] = k
    BY <2>1
  <2>3. p[1] < p[2]
    BY <1>3, <2>2
  <2>4. p \in OpToRel(<, Nat)
    BY <2>2, <2>3, Zenon DEF OpToRel
  <2>5. QED
    BY <2>1, <2>4
<1>4. PICK k \in T : \A l \in T : ~(<<l, k>> \in OpToRel(<, Nat))
  BY <1>2
<1>5. \A l \in T : ~(l < k)
  BY <1>1, <1>3, <1>4
<1>6. QED
  BY <1>1, <1>5

LEMMA ConfigFacts ==
    ASSUME NEW c \in B!Configs
    PROVE  /\ c.chunk \in Int /\ 1 <= c.chunk
           /\ c.continueOnError \in BOOLEAN
BY ItemFacts DEF B!Configs

LEMMA ProgressFields ==
    ASSUME BatchTypes
    PROVE  /\ v7.status \in {"none", "running", "completed", "failed", "cancelled"}
           /\ v7.completed \in Nat /\ v7.failed \in Nat
           /\ v7.slots \in [B!Items -> B!SlotStatus]
           /\ \A s : B!Slots(s) \in SUBSET B!Items /\ IsFiniteSet(B!Slots(s))
           /\ \A s : Cardinality(B!Slots(s)) \in Nat
<1>1. /\ v7.status \in {"none", "running", "completed", "failed", "cancelled"}
      /\ v7.completed \in Nat /\ v7.failed \in Nat
      /\ v7.slots \in [B!Items -> B!SlotStatus]
  BY DEF BatchTypes
<1>2. ASSUME NEW s
      PROVE  /\ B!Slots(s) \in SUBSET B!Items
             /\ IsFiniteSet(B!Slots(s)) /\ Cardinality(B!Slots(s)) \in Nat
  <2>1. B!Slots(s) \in SUBSET B!Items
    BY DEF B!Slots
  <2>2. IsFiniteSet(B!Slots(s))
    BY <2>1, ItemFacts, FS_Subset
  <2>3. QED
    BY <2>1, <2>2, FS_CardinalityType
<1>3. QED
  BY <1>1, <1>2

LEMMA InitBatch == B!Init => BatchTypes /\ B!BatchInv
<1> SUFFICES ASSUME B!Init PROVE BatchTypes /\ B!BatchInv
  OBVIOUS
<1>1. /\ v1.strategy = "sequential" /\ v1.chunk = 1 /\ v1 \in B!Configs
      /\ v2 = [i \in B!Items |-> i] /\ v3 = "idle" /\ v4 = 0 /\ v5 = {}
      /\ v6 = [i \in B!Items |-> 0] /\ v7 = B!NoProgress /\ v8 = FALSE
  BY DEF B!Init, B!Configs
<1>2. /\ v7.status = "none" /\ v7.completed = 0 /\ v7.failed = 0
      /\ v7.slots = [i \in B!Items |-> "pending"]
  BY <1>1 DEF B!NoProgress
<1>3. BatchTypes
  <2>1. v7 \in [status : {"none", "running", "completed", "failed", "cancelled"},
                completed : Nat, failed : Nat, slots : [B!Items -> B!SlotStatus]]
    BY <1>1 DEF B!NoProgress, B!SlotStatus
  <2>2. v4 \in 0..NumItems
    BY <1>1, ItemFacts
  <2>3. v2 \in [B!Items -> B!Items] /\ v6 \in [B!Items -> Int]
    BY <1>1
  <2>4. QED
    BY <1>1, <2>1, <2>2, <2>3 DEF BatchTypes
<1>4. B!Slots("completed") = {} /\ B!Slots("failed") = {}
  BY <1>2 DEF B!Slots
<1>5. B!OrderIsOnce
  BY <1>1 DEF B!OrderIsOnce
<1>6. B!ChunksInTurn
  BY <1>1, <1>2, ItemFacts DEF B!ChunksInTurn
<1>7. B!JobsAreTheirs
  BY <1>2 DEF B!JobsAreTheirs
<1>8. B!CountersAreTrue
  <2>1. Cardinality({}) = 0
    BY FS_EmptySet
  <2>2. QED
    BY <1>2, <1>4, <2>1, SameCount DEF B!CountersAreTrue
<1>9. B!StatusIsTrue
  BY <1>1, <1>4 DEF B!StatusIsTrue
<1>10. QED
  BY <1>3, <1>5, <1>6, <1>7, <1>8, <1>9 DEF B!BatchInv

(* A step that leaves the slots, the order and the jobs alone. *)
LEMMA SameSlots ==
    ASSUME BatchTypes, B!BatchInv, v7'.slots = v7.slots, v7'.completed = v7.completed,
           v7'.failed = v7.failed, UNCHANGED <<v1, v2, v4, v5, v6>>
    PROVE  /\ B!OrderIsOnce' /\ B!ChunksInTurn' /\ B!JobsAreTheirs' /\ B!CountersAreTrue'
           /\ \A s : B!Slots(s)' = B!Slots(s)
           /\ B!Open' = B!Open
<1>1. \A s : B!Slots(s)' = B!Slots(s)
  BY DEF B!Slots
<1>2. B!OrderIsOnce' /\ B!ChunksInTurn'
  BY DEF B!BatchInv, B!OrderIsOnce, B!ChunksInTurn
<1>3. B!JobsAreTheirs'
  BY DEF B!BatchInv, B!JobsAreTheirs
<1>4. B!CountersAreTrue'
  BY <1>1 DEF B!BatchInv, B!CountersAreTrue
<1>5. B!Open' = B!Open
  BY DEF B!Open
<1>6. QED
  BY <1>1, <1>2, <1>3, <1>4, <1>5

LEMMA BatchStarts ==
    ASSUME BatchTypes, B!BatchInv, B!AddBatchJob
    PROVE  (BatchTypes /\ B!BatchInv)'
<1>1. /\ v3 = "idle" /\ v7 = B!NoProgress /\ v1' \in B!Configs /\ v3' = "running"
      /\ UNCHANGED <<v4, v5, v6, v8>>
      /\ v2' = IF v1'.strategy = "priority-based" THEN B!ByPriority ELSE [i \in B!Items |-> i]
      /\ v7' = [v7 EXCEPT !.status = "running"]
  BY DEF B!AddBatchJob, B!BatchInv, B!StatusIsTrue
<1>2. /\ v7.slots = [i \in B!Items |-> "pending"] /\ v7.completed = 0 /\ v7.failed = 0
      /\ v7'.slots = v7.slots /\ v7'.completed = 0 /\ v7'.failed = 0 /\ v7'.status = "running"
  BY <1>1 DEF B!NoProgress
<1>3. v4 = 0
  <2>1. CASE NumItems = 0
    BY <2>1 DEF BatchTypes
  <2>2. CASE NumItems # 0
    <3>1. v4 \in Int
      BY ItemFacts DEF BatchTypes
    <3>2. ASSUME v4 # 0 PROVE FALSE
      <4>1. 1 \in B!Items /\ 1 <= v4
        <5>1. v4 \in 0..NumItems /\ NumItems \in Nat /\ NumItems # 0 /\ v4 # 0
          BY <2>2, <3>2, ItemFacts DEF BatchTypes
        <5>2. 1 <= v4 /\ 1 <= NumItems
          BY <5>1
        <5>3. QED
          BY <5>2, ItemFacts
      <4>2. v2[1] \in B!Items
        BY <4>1 DEF BatchTypes
      <4>3. v7.slots[v2[1]] # "pending"
        BY <4>1, <3>1 DEF B!BatchInv, B!ChunksInTurn
      <4>4. QED
        BY <1>2, <4>2, <4>3
    <3>3. QED
      BY <3>2
  <2>3. QED
    BY <2>1, <2>2
<1>4. B!OrderIsOnce' /\ v2' \in [B!Items -> B!Items]
  <2>1. CASE v1'.strategy = "priority-based"
    BY <1>1, <2>1, SortIsOnce DEF B!OrderIsOnce
  <2>2. CASE v1'.strategy # "priority-based"
    <3>1. v2' = [i \in B!Items |-> i]
      BY <1>1, <2>2
    <3>2. QED
      BY <2>2, <3>1 DEF B!OrderIsOnce
  <2>3. QED
    BY <2>1, <2>2
<1>5. B!ChunksInTurn'
  BY <1>1, <1>2, <1>3, <1>4, ItemFacts DEF B!ChunksInTurn
<1>6. B!JobsAreTheirs'
  BY <1>2 DEF B!JobsAreTheirs
<1>7. B!Slots("completed")' = {} /\ B!Slots("failed")' = {}
  BY <1>2 DEF B!Slots
<1>8. B!CountersAreTrue'
  <2>1. Cardinality({}) = 0
    BY FS_EmptySet
  <2>2. QED
    BY <1>2, <1>7, <2>1, SameCount DEF B!CountersAreTrue
<1>9. B!StatusIsTrue'
  <2>1. ~v8
    BY <1>1 DEF B!BatchInv, B!StatusIsTrue, B!Quiet
  <2>2. QED
    BY <1>1, <1>7, <2>1 DEF B!StatusIsTrue
<1>10. BatchTypes'
  <2>1. v7' \in [status : {"none", "running", "completed", "failed", "cancelled"},
                 completed : Nat, failed : Nat, slots : [B!Items -> B!SlotStatus]]
    BY <1>1 DEF BatchTypes
  <2>2. QED
    BY <1>1, <1>4, <2>1 DEF BatchTypes
<1>11. QED
  BY <1>4, <1>5, <1>6, <1>8, <1>9, <1>10 DEF B!BatchInv

LEMMA BatchEnds ==
    ASSUME BatchTypes, B!BatchInv, B!LoopEnds
    PROVE  (BatchTypes /\ B!BatchInv)'
<1>1. /\ v3 = "running" /\ v4 = NumItems /\ B!Open = {} /\ v3' = "returned"
      /\ UNCHANGED <<v1, v2, v4, v5, v6, v8>> /\ v7' = [v7 EXCEPT !.status = "completed"]
  BY DEF B!LoopEnds
<1>2. /\ v7'.slots = v7.slots /\ v7'.completed = v7.completed /\ v7'.failed = v7.failed
      /\ v7'.status = "completed"
  BY <1>1 DEF BatchTypes
<1>3. /\ B!OrderIsOnce' /\ B!ChunksInTurn' /\ B!JobsAreTheirs' /\ B!CountersAreTrue'
      /\ B!Slots("failed")' = B!Slots("failed") /\ B!Open' = B!Open
  BY <1>1, <1>2, SameSlots
<1>4. ~v8
  BY <1>1 DEF B!BatchInv, B!StatusIsTrue, B!Quiet
<1>5. B!StatusIsTrue'
  BY <1>1, <1>2, <1>3, <1>4 DEF B!BatchInv, B!StatusIsTrue
<1>6. BatchTypes'
  <2>1. v7' \in [status : {"none", "running", "completed", "failed", "cancelled"},
                 completed : Nat, failed : Nat, slots : [B!Items -> B!SlotStatus]]
    BY <1>1 DEF BatchTypes
  <2>2. QED
    BY <1>1, <2>1 DEF BatchTypes
<1>7. QED
  BY <1>3, <1>5, <1>6 DEF B!BatchInv

LEMMA BatchCancelled ==
    ASSUME BatchTypes, B!BatchInv, B!CancelBatchJob
    PROVE  (BatchTypes /\ B!BatchInv)'
<1>1. /\ v3 # "idle" /\ v8' = B!Quiet /\ v7' = [v7 EXCEPT !.status = "cancelled"]
      /\ UNCHANGED <<v1, v2, v3, v4, v5, v6>>
  BY DEF B!CancelBatchJob
<1>2. /\ v7'.slots = v7.slots /\ v7'.completed = v7.completed /\ v7'.failed = v7.failed
      /\ v7'.status = "cancelled"
  BY <1>1 DEF BatchTypes
<1>3. /\ B!OrderIsOnce' /\ B!ChunksInTurn' /\ B!JobsAreTheirs' /\ B!CountersAreTrue'
      /\ B!Slots("failed")' = B!Slots("failed") /\ B!Open' = B!Open
  BY <1>1, <1>2, SameSlots
<1>4. B!StatusIsTrue'
  BY <1>1, <1>2, <1>3 DEF B!BatchInv, B!StatusIsTrue, B!Quiet
<1>5. BatchTypes'
  <2>1. v7' \in [status : {"none", "running", "completed", "failed", "cancelled"},
                 completed : Nat, failed : Nat, slots : [B!Items -> B!SlotStatus]]
    BY <1>1 DEF BatchTypes
  <2>2. v8' \in BOOLEAN
    BY <1>1 DEF B!Quiet
  <2>3. QED
    BY <1>1, <2>1, <2>2 DEF BatchTypes
<1>6. QED
  BY <1>3, <1>4, <1>5 DEF B!BatchInv

(* An item that is answered moves from the open slots to the others. *)
LEMMA SlotAnswered ==
    ASSUME BatchTypes, B!BatchInv, NEW i \in B!Items, NEW s \in {"completed", "failed"},
           v7.slots[i] = "open", v7'.slots = [v7.slots EXCEPT ![i] = s],
           UNCHANGED <<v1, v2, v4, v5, v6>>
    PROVE  /\ B!OrderIsOnce' /\ B!ChunksInTurn' /\ B!JobsAreTheirs'
           /\ B!Slots(s)' = B!Slots(s) \cup {i} /\ i \notin B!Slots(s)
           /\ \A t \in {"completed", "failed"} \ {s} : B!Slots(t)' = B!Slots(t)
           /\ B!Open' \subseteq B!Open /\ i \in B!Open /\ i \notin B!Open'
           /\ ~v8 /\ v3 # "returned"
<1>1. v7.slots \in [B!Items -> B!SlotStatus]
  BY ProgressFields
<1>2. /\ \A k \in B!Items : v7'.slots[k] = IF k = i THEN s ELSE v7.slots[k]
      /\ s # "open" /\ s # "pending"
  BY <1>1
<1>3. /\ B!Slots(s)' = B!Slots(s) \cup {i} /\ i \notin B!Slots(s)
      /\ \A t \in {"completed", "failed"} \ {s} : B!Slots(t)' = B!Slots(t)
  BY <1>2 DEF B!Slots
<1>4. B!Open' \subseteq B!Open /\ i \in B!Open /\ i \notin B!Open'
  BY <1>2 DEF B!Open
<1>5. B!OrderIsOnce'
  BY DEF B!BatchInv, B!OrderIsOnce
<1>6. B!ChunksInTurn'
  <2>1. v2 \in [B!Items -> B!Items]
    BY DEF BatchTypes
  <2>2. ASSUME NEW a \in B!Items
        PROVE  /\ v7'.slots[v2[a]] = "pending" <=> v7.slots[v2[a]] = "pending"
               /\ v7'.slots[v2[a]] = "open" => v7.slots[v2[a]] = "open"
    BY <1>2, <2>1
  <2>3. QED
    BY <2>2 DEF B!BatchInv, B!ChunksInTurn
<1>7. B!JobsAreTheirs'
  <2>1. \A k \in B!Items : v7'.slots[k] # "pending" => v7.slots[k] # "pending"
    BY <1>2
  <2>2. QED
    BY <2>1 DEF B!BatchInv, B!JobsAreTheirs
<1>8. ~v8 /\ v3 # "returned"
  BY <1>4 DEF B!BatchInv, B!StatusIsTrue, B!Quiet
<1>9. QED
  BY <1>3, <1>4, <1>5, <1>6, <1>7, <1>8

LEMMA BatchAnswered ==
    ASSUME BatchTypes, B!BatchInv, NEW i \in B!Items, B!JobFinished(i)
    PROVE  (BatchTypes /\ B!BatchInv)'
<1>1. /\ v7.slots[i] = "open" /\ UNCHANGED <<v1, v2, v3, v4, v5, v6, v8>>
      /\ v7' = [v7 EXCEPT !.slots[i] = "completed", !.completed = @ + 1]
  BY DEF B!JobFinished
<1>2. /\ v7.slots \in [B!Items -> B!SlotStatus] /\ v7.completed \in Nat
      /\ IsFiniteSet(B!Slots("completed")) /\ Cardinality(B!Slots("completed")) \in Nat
  BY ProgressFields
<1>3. /\ v7'.slots = [v7.slots EXCEPT ![i] = "completed"] /\ v7'.completed = v7.completed + 1
      /\ v7'.failed = v7.failed /\ v7'.status = v7.status
  BY <1>1 DEF BatchTypes
<1>4. /\ B!OrderIsOnce' /\ B!ChunksInTurn' /\ B!JobsAreTheirs'
      /\ B!Slots("completed")' = B!Slots("completed") \cup {i} /\ i \notin B!Slots("completed")
      /\ B!Slots("failed")' = B!Slots("failed")
      /\ B!Open' \subseteq B!Open /\ i \in B!Open /\ i \notin B!Open'
      /\ ~v8 /\ v3 # "returned"
  BY <1>1, <1>3, SlotAnswered
<1>5. B!CountersAreTrue'
  <2>1. Cardinality(B!Slots("completed") \cup {i}) = Cardinality(B!Slots("completed")) + 1
    BY <1>2, <1>4, FS_AddElement
  <2>2. QED
    BY <1>3, <1>4, <2>1, SameCount DEF B!BatchInv, B!CountersAreTrue
<1>6. B!StatusIsTrue'
  <2>1. v3 # "idle"
    <3>1. B!NoProgress.slots[i] = "pending"
      BY DEF B!NoProgress
    <3>2. QED
      BY <1>1, <3>1 DEF B!BatchInv, B!StatusIsTrue
  <2>2. QED
    BY <1>1, <1>3, <1>4, <2>1 DEF B!BatchInv, B!StatusIsTrue
<1>7. BatchTypes'
  <2>1. v7' \in [status : {"none", "running", "completed", "failed", "cancelled"},
                 completed : Nat, failed : Nat, slots : [B!Items -> B!SlotStatus]]
    <3>1. v7' = [f \in {"status", "completed", "failed", "slots"} |-> v7'[f]]
      BY <1>1 DEF BatchTypes
    <3>2. v7'.slots \in [B!Items -> B!SlotStatus]
      BY <1>2, <1>3 DEF B!SlotStatus
    <3>3. /\ v7'.completed \in Nat /\ v7'.failed \in Nat
          /\ v7'.status \in {"none", "running", "completed", "failed", "cancelled"}
      BY <1>2, <1>3, ProgressFields
    <3>4. QED
      BY <3>1, <3>2, <3>3
  <2>2. QED
    BY <1>1, <2>1 DEF BatchTypes
<1>8. QED
  BY <1>4, <1>5, <1>6, <1>7 DEF B!BatchInv

LEMMA BatchRejected ==
    ASSUME BatchTypes, B!BatchInv, NEW i \in B!Items, B!JobRejected(i)
    PROVE  (BatchTypes /\ B!BatchInv)'
<1>1. /\ v7.slots[i] = "open" /\ UNCHANGED <<v1, v2, v4, v5, v6, v8>>
      /\ v7' = [v7 EXCEPT !.slots[i] = "failed", !.failed = @ + 1,
                          !.status = IF v1.continueOnError THEN @ ELSE "failed"]
      /\ v3' = IF v1.continueOnError THEN v3 ELSE "threw"
  BY DEF B!JobRejected
<1>2. /\ v7.slots \in [B!Items -> B!SlotStatus] /\ v7.failed \in Nat
      /\ IsFiniteSet(B!Slots("failed")) /\ Cardinality(B!Slots("failed")) \in Nat
  BY ProgressFields
<1>3. /\ v7'.slots = [v7.slots EXCEPT ![i] = "failed"] /\ v7'.failed = v7.failed + 1
      /\ v7'.completed = v7.completed
      /\ v7'.status = IF v1.continueOnError THEN v7.status ELSE "failed"
  BY <1>1 DEF BatchTypes
<1>4. /\ B!OrderIsOnce' /\ B!ChunksInTurn' /\ B!JobsAreTheirs'
      /\ B!Slots("failed")' = B!Slots("failed") \cup {i} /\ i \notin B!Slots("failed")
      /\ B!Slots("completed")' = B!Slots("completed")
      /\ B!Open' \subseteq B!Open /\ i \in B!Open /\ i \notin B!Open'
      /\ ~v8 /\ v3 # "returned"
  BY <1>1, <1>3, SlotAnswered
<1>5. B!CountersAreTrue'
  <2>1. Cardinality(B!Slots("failed") \cup {i}) = Cardinality(B!Slots("failed")) + 1
    BY <1>2, <1>4, FS_AddElement
  <2>2. QED
    BY <1>3, <1>4, <2>1, SameCount DEF B!BatchInv, B!CountersAreTrue
<1>6. B!StatusIsTrue'
  <2>1. v3 # "idle"
    <3>1. B!NoProgress.slots[i] = "pending"
      BY DEF B!NoProgress
    <3>2. QED
      BY <1>1, <3>1 DEF B!BatchInv, B!StatusIsTrue
  <2>2. v1.continueOnError \in BOOLEAN
    BY ConfigFacts DEF BatchTypes
  <2>3. v3' # "idle" /\ v3' # "returned" /\ ~v8'
    BY <1>1, <1>4, <2>1
  <2>4. v3' = "threw" <=> B!Slots("failed")' # {} /\ ~v1'.continueOnError
    BY <1>1, <1>4, <2>2 DEF B!BatchInv, B!StatusIsTrue
  <2>5. v3' = "threw" => v7'.status \in {"failed", "cancelled"}
    BY <1>1, <1>3, <2>2 DEF B!BatchInv, B!StatusIsTrue
  <2>6. QED
    BY <2>3, <2>4, <2>5 DEF B!StatusIsTrue
<1>7. BatchTypes'
  <2>1. v7' \in [status : {"none", "running", "completed", "failed", "cancelled"},
                 completed : Nat, failed : Nat, slots : [B!Items -> B!SlotStatus]]
    <3>1. v7' = [f \in {"status", "completed", "failed", "slots"} |-> v7'[f]]
      BY <1>1 DEF BatchTypes
    <3>2. v7'.slots \in [B!Items -> B!SlotStatus]
      BY <1>2, <1>3 DEF B!SlotStatus
    <3>3. /\ v7'.completed \in Nat /\ v7'.failed \in Nat
          /\ v7'.status \in {"none", "running", "completed", "failed", "cancelled"}
      BY <1>2, <1>3, ProgressFields
    <3>4. QED
      BY <3>1, <3>2, <3>3
  <2>2. QED
    BY <1>1, <2>1 DEF BatchTypes
<1>8. QED
  BY <1>4, <1>5, <1>6, <1>7 DEF B!BatchInv

LEMMA ChunkTaken ==
    ASSUME BatchTypes, B!BatchInv, B!NextChunk
    PROVE  (BatchTypes /\ B!BatchInv)'
<1> DEFINE chunk == {v2[k] : k \in {k \in B!Items : v4 < k /\ k <= v4 + v1.chunk}}
<1>1. /\ v3 = "running" /\ v4 < NumItems /\ B!Open = {} /\ UNCHANGED <<v1, v2, v3, v8>>
      /\ v7' = [v7 EXCEPT !.slots = [i \in B!Items |-> IF i \in chunk THEN "open" ELSE @[i]]]
      /\ v4' = IF v4 + v1.chunk < NumItems THEN v4 + v1.chunk ELSE NumItems
  BY DEF B!NextChunk
<1>2. PICK merged \in SUBSET chunk :
        /\ \A i \in merged : \E k \in chunk \ merged : k < i /\ Kind[k] = Kind[i]
        /\ v5' = v5 \cup (chunk \ merged)
        /\ v6' = [i \in B!Items |->
              IF i \in merged
              THEN CHOOSE k \in chunk \ merged :
                       Kind[k] = Kind[i] /\ \A l \in chunk \ merged : Kind[l] = Kind[i] => k <= l
              ELSE IF i \in chunk THEN i ELSE v6[i]]
  BY DEF B!NextChunk
<1>3. /\ v2 \in [B!Items -> B!Items] /\ v4 \in 0..NumItems /\ v5 \subseteq B!Items
      /\ v6 \in [B!Items -> Int] /\ v7.slots \in [B!Items -> B!SlotStatus]
      /\ v1 \in B!Configs
  BY ProgressFields DEF BatchTypes
<1>4. /\ v4 \in Int /\ 0 <= v4 /\ NumItems \in Int /\ v1.chunk \in Int /\ 1 <= v1.chunk
      /\ v4' \in Int /\ v4 < v4' /\ v4' <= NumItems /\ v4' <= v4 + v1.chunk
  BY <1>1, <1>3, ItemFacts, ConfigFacts
<1>5. /\ chunk \subseteq B!Items
      /\ \A a \in B!Items : v2[a] \in chunk <=> v4 < a /\ a <= v4'
  <2>1. chunk \subseteq B!Items
    BY <1>3
  <2>2. \A a, b \in B!Items : v2[a] = v2[b] => a = b
    BY DEF B!BatchInv, B!OrderIsOnce
  <2>3. \A a \in B!Items : v2[a] \in chunk <=> v4 < a /\ a <= v4 + v1.chunk
    BY <2>2
  <2>4. \A a \in B!Items : a <= v4 + v1.chunk <=> a <= v4'
    BY <1>1, <1>4, ItemFacts
  <2>5. QED
    BY <2>1, <2>3, <2>4
<1> HIDE DEF chunk
<1>6. /\ v7'.slots \in [B!Items -> B!SlotStatus]
      /\ \A i \in B!Items : v7'.slots[i] = IF i \in chunk THEN "open" ELSE v7.slots[i]
      /\ v7'.completed = v7.completed /\ v7'.failed = v7.failed /\ v7'.status = v7.status
  <2>1. /\ v7'.slots = [i \in B!Items |-> IF i \in chunk THEN "open" ELSE v7.slots[i]]
        /\ v7'.completed = v7.completed /\ v7'.failed = v7.failed /\ v7'.status = v7.status
    BY <1>1 DEF BatchTypes
  <2>2. QED
    BY <1>3, <2>1 DEF B!SlotStatus
<1>7. \A i \in chunk : v7.slots[i] = "pending"
  <2>1. \A i \in B!Items : \E a \in B!Items : v2[a] = i
    BY DEF B!BatchInv, B!OrderIsOnce
  <2>2. ASSUME NEW i \in chunk PROVE v7.slots[i] = "pending"
    <3>1. PICK a \in B!Items : v2[a] = i
      BY <1>5, <2>1
    <3>2. a > v4
      BY <1>4, <1>5, <3>1, ItemFacts
    <3>3. QED
      BY <3>1, <3>2 DEF B!BatchInv, B!ChunksInTurn
  <2>3. QED
    BY <2>2
<1>8. B!OrderIsOnce'
  BY <1>1 DEF B!BatchInv, B!OrderIsOnce
<1>9. B!ChunksInTurn'
  <2>1. ASSUME NEW a \in B!Items
        PROVE  /\ v7'.slots[v2[a]] = "pending" <=> a > v4'
               /\ v7'.slots[v2[a]] = "open" => a > v4' - v1.chunk
    <3>1. v2[a] \in B!Items /\ a \in Int
      BY <1>3, ItemFacts
    <3>2. CASE v2[a] \in chunk
      <4>1. v7'.slots[v2[a]] = "open" /\ v4 < a /\ a <= v4'
        BY <1>5, <1>6, <3>1, <3>2
      <4>2. ~(a > v4') /\ a > v4' - v1.chunk
        BY <1>4, <3>1, <4>1
      <4>3. QED
        BY <4>1, <4>2
    <3>3. CASE v2[a] \notin chunk
      <4>1. v7'.slots[v2[a]] = v7.slots[v2[a]]
        BY <1>6, <3>1, <3>3
      <4>2. v7.slots[v2[a]] # "open"
        BY <1>1, <3>1 DEF B!Open
      <4>3. v7.slots[v2[a]] = "pending" <=> a > v4
        BY DEF B!BatchInv, B!ChunksInTurn
      <4>4. a > v4 <=> a > v4'
        BY <1>4, <1>5, <3>1, <3>3
      <4>5. QED
        BY <4>1, <4>2, <4>3, <4>4
    <3>4. QED
      BY <3>2, <3>3
  <2>2. QED
    BY <1>1, <2>1 DEF B!ChunksInTurn
<1>10. ASSUME NEW i \in merged
       PROVE  v6'[i] \in chunk \ merged /\ Kind[v6'[i]] = Kind[i]
  <2> DEFINE T == {k \in chunk \ merged : Kind[k] = Kind[i]}
  <2>1. T # {} /\ T \subseteq B!Items
    BY <1>2, <1>5, <1>10
  <2>2. \E k \in T : \A l \in T : k <= l
    BY <2>1, FirstItem
  <2>3. \E k \in chunk \ merged :
            Kind[k] = Kind[i] /\ \A l \in chunk \ merged : Kind[l] = Kind[i] => k <= l
    BY <2>2
  <2>4. i \in B!Items
    BY <1>2, <1>5, <1>10
  <2>5. v6'[i] = CHOOSE k \in chunk \ merged :
            Kind[k] = Kind[i] /\ \A l \in chunk \ merged : Kind[l] = Kind[i] => k <= l
    BY <1>2, <1>10, <2>4
  <2>6. QED
    BY <2>3, <2>5
<1>11. \A i \in B!Items : i \notin merged => v6'[i] = IF i \in chunk THEN i ELSE v6[i]
  BY <1>2
<1>12. v1.chunk = 1 => merged = {}
  <2> SUFFICES ASSUME v1.chunk = 1, NEW i \in merged PROVE FALSE
    OBVIOUS
  <2>1. PICK k \in chunk \ merged : k < i
    BY <1>2
  <2>2. i \in chunk /\ k \in chunk /\ k # i
    BY <1>2, <2>1
  <2>3. PICK a \in B!Items, b \in B!Items : v2[a] = i /\ v2[b] = k
    BY <1>5, <2>2 DEF B!BatchInv, B!OrderIsOnce
  <2>4. v4 < a /\ a <= v4 + 1 /\ v4 < b /\ b <= v4 + 1
    BY <1>4, <1>5, <2>2, <2>3, ItemFacts
  <2>5. a = b
    BY <1>4, <2>4, ItemFacts
  <2>6. QED
    BY <2>2, <2>3, <2>5
<1>13. B!JobsAreTheirs'
  <2>1. ASSUME NEW i \in B!Items, v7'.slots[i] # "pending"
        PROVE  /\ v6'[i] \in v5' /\ v6'[i] \in B!Items
               /\ Kind[v6'[i]] = Kind[i]
               /\ v1.chunk = 1 => v6'[i] = i
    <3>1. CASE i \in merged
      <4>1. PICK k : k = v6'[i]
        OBVIOUS
      <4>2. k \in chunk \ merged /\ Kind[k] = Kind[i] /\ v1.chunk # 1
        BY <1>10, <1>12, <3>1, <4>1
      <4>3. k \in v5' /\ k \in B!Items
        BY <1>2, <1>5, <4>2
      <4>4. QED
        BY <4>1, <4>2, <4>3
    <3>2. CASE i \in chunk \ merged
      BY <1>2, <1>11, <3>2
    <3>3. CASE i \notin chunk
      <4>1. v7.slots[i] # "pending" /\ v6'[i] = v6[i]
        BY <1>2, <1>6, <1>11, <2>1, <3>3
      <4>2. QED
        BY <1>2, <4>1 DEF B!BatchInv, B!JobsAreTheirs
    <3>4. QED
      BY <3>1, <3>2, <3>3
  <2>2. QED
    BY <1>1, <2>1 DEF B!JobsAreTheirs
<1>14. B!Slots("completed")' = B!Slots("completed") /\ B!Slots("failed")' = B!Slots("failed")
  BY <1>6, <1>7 DEF B!Slots
<1>15. B!CountersAreTrue'
  BY <1>6, <1>14 DEF B!BatchInv, B!CountersAreTrue
<1>16. ~v8
  BY <1>1 DEF B!BatchInv, B!StatusIsTrue, B!Quiet
<1>17. B!StatusIsTrue'
  BY <1>1, <1>14, <1>16 DEF B!BatchInv, B!StatusIsTrue
<1>18. BatchTypes'
  <2>1. v7' \in [status : {"none", "running", "completed", "failed", "cancelled"},
                 completed : Nat, failed : Nat, slots : [B!Items -> B!SlotStatus]]
    BY <1>1, <1>3 DEF BatchTypes, B!SlotStatus
  <2>2. v4' \in 0..NumItems
    BY <1>4
  <2>3. v5' \subseteq B!Items
    BY <1>2, <1>3, <1>5
  <2>4. v6' \in [B!Items -> Int]
    <3>1. \A i \in B!Items : v6'[i] \in Int
      BY <1>3, <1>5, <1>10, <1>11, ItemFacts
    <3>2. v6' = [i \in B!Items |-> v6'[i]]
      BY <1>2
    <3>3. QED
      BY <3>1, <3>2
  <2>5. QED
    BY <1>1, <1>3, <2>1, <2>2, <2>3, <2>4 DEF BatchTypes
<1>19. QED
  BY <1>8, <1>9, <1>13, <1>15, <1>17, <1>18 DEF B!BatchInv

LEMMA StepBatch == BatchTypes /\ B!BatchInv /\ [B!Next]_(B!vars) => (BatchTypes /\ B!BatchInv)'
<1> SUFFICES ASSUME BatchTypes, B!BatchInv, [B!Next]_(B!vars)
             PROVE  (BatchTypes /\ B!BatchInv)'
  OBVIOUS
<1>1. CASE UNCHANGED B!vars
  <2>1. UNCHANGED <<v1, v2, v3, v4, v5, v6, v7, v8>>
    BY <1>1 DEF B!vars
  <2>2. BatchTypes'
    BY <2>1 DEF BatchTypes
  <2>3. B!OrderIsOnce' /\ B!ChunksInTurn' /\ B!JobsAreTheirs' /\ B!CountersAreTrue'
    BY <2>1, SameSlots
  <2>4. B!StatusIsTrue'
    BY <2>1 DEF B!BatchInv, B!StatusIsTrue, B!Quiet, B!Slots, B!Open
  <2>5. QED
    BY <2>2, <2>3, <2>4 DEF B!BatchInv
<1>2. CASE B!AddBatchJob
  BY <1>2, BatchStarts
<1>3. CASE B!NextChunk
  BY <1>3, ChunkTaken
<1>4. CASE B!LoopEnds
  BY <1>4, BatchEnds
<1>5. CASE B!CancelBatchJob
  BY <1>5, BatchCancelled
<1>6. ASSUME NEW i \in B!Items, B!JobFinished(i) PROVE (BatchTypes /\ B!BatchInv)'
  BY <1>6, BatchAnswered
<1>7. ASSUME NEW i \in B!Items, B!JobRejected(i) PROVE (BatchTypes /\ B!BatchInv)'
  BY <1>7, BatchRejected
<1>8. QED
  BY <1>1, <1>2, <1>3, <1>4, <1>5, <1>6, <1>7 DEF B!Next

LEMMA ProgressFollows == BatchTypes /\ B!BatchInv => B!ProgressIsTrue
<1> SUFFICES ASSUME BatchTypes, B!BatchInv PROVE B!ProgressIsTrue
  OBVIOUS
<1>1. /\ v7.completed = B!Cardinality(B!Slots("completed"))
      /\ v7.failed = B!Cardinality(B!Slots("failed"))
  BY DEF B!BatchInv, B!CountersAreTrue
<1>2. v7.failed > 0 <=> B!Slots("failed") # {}
  <2>1. IsFiniteSet(B!Slots("failed")) /\ Cardinality(B!Slots("failed")) \in Nat
    BY ProgressFields
  <2>2. Cardinality(B!Slots("failed")) = 0 <=> B!Slots("failed") = {}
    BY <2>1, FS_EmptySet
  <2>3. QED
    BY <1>1, <2>1, <2>2, SameCount
<1>3. v3 = "returned" => B!Slots("pending") = {}
  <2> SUFFICES ASSUME v3 = "returned", NEW i \in B!Slots("pending") PROVE FALSE
    OBVIOUS
  <2>1. v4 = NumItems /\ i \in B!Items /\ v7.slots[i] = "pending"
    BY DEF B!BatchInv, B!StatusIsTrue, B!Slots
  <2>2. PICK a \in B!Items : v2[a] = i
    BY <2>1 DEF B!BatchInv, B!OrderIsOnce
  <2>3. a > v4
    BY <2>1, <2>2 DEF B!BatchInv, B!ChunksInTurn
  <2>4. QED
    BY <2>1, <2>3, ItemFacts
<1>4. ASSUME B!Quiet
      PROVE  /\ v3 = "threw" <=> v7.failed > 0 /\ ~v1.continueOnError
             /\ v3 = "returned" => B!Slots("pending") = {}
             /\ v8 => v7.status = "cancelled"
             /\ ~v8 => v7.status \in {IF v3 = "threw" THEN "failed" ELSE "completed", "cancelled"}
             /\ ~v8 /\ v7.status = "cancelled" => v3 = "threw"
  <2>1. v3 \in {"returned", "threw"}
    BY <1>4 DEF B!Quiet
  <2>2. QED
    BY <1>2, <1>3, <2>1 DEF B!BatchInv, B!StatusIsTrue
<1>5. QED
  BY <1>1, <1>4 DEF B!ProgressIsTrue

LEMMA OrderFollows == BatchTypes /\ B!BatchInv => B!OrderIsKept
<1> SUFFICES ASSUME BatchTypes, B!BatchInv, NEW a \in B!Items, NEW b \in B!Items, a < b
             PROVE  /\ v7.slots[v2[b]] # "pending" => v7.slots[v2[a]] # "pending"
                    /\ {v2[a], v2[b]} \subseteq B!Open => b - a < v1.chunk
                    /\ Priority[v2[b]] < Priority[v2[a]] => v1.strategy # "priority-based"
                    /\ v7.slots[v2[b]] = "completed" =>
                          /\ v6[v2[b]] \in v5
                          /\ Kind[v6[v2[b]]] = Kind[v2[b]]
                          /\ v1.chunk = 1 => v6[v2[b]] = v2[b]
  BY DEF B!OrderIsKept
<1>1. /\ v2[a] \in B!Items /\ v2[b] \in B!Items /\ a \in Int /\ b \in Int
      /\ v4 \in Int /\ v1.chunk \in Int
  BY ItemFacts, ConfigFacts DEF BatchTypes
<1>2. /\ v7.slots[v2[a]] = "pending" <=> a > v4
      /\ v7.slots[v2[b]] = "pending" <=> b > v4
      /\ v7.slots[v2[a]] = "open" => a > v4 - v1.chunk
  BY DEF B!BatchInv, B!ChunksInTurn
<1>3. {v2[a], v2[b]} \subseteq B!Open => b - a < v1.chunk
  <2>1. {v2[a], v2[b]} \subseteq B!Open => a > v4 - v1.chunk /\ ~(b > v4)
    BY <1>2 DEF B!Open
  <2>2. QED
    BY <1>1, <2>1
<1>4. Priority[v2[b]] < Priority[v2[a]] => v1.strategy # "priority-based"
  <2>1. Priority[v2[a]] \in Int /\ Priority[v2[b]] \in Int
    BY <1>1, ItemFacts
  <2>2. v1.strategy = "priority-based" => Priority[v2[a]] <= Priority[v2[b]]
    BY DEF B!BatchInv, B!OrderIsOnce
  <2>3. QED
    BY <2>1, <2>2
<1>5. v7.slots[v2[b]] = "completed" =>
          /\ v6[v2[b]] \in v5
          /\ Kind[v6[v2[b]]] = Kind[v2[b]]
          /\ v1.chunk = 1 => v6[v2[b]] = v2[b]
  BY <1>1 DEF B!BatchInv, B!JobsAreTheirs
<1>6. v7.slots[v2[b]] # "pending" => v7.slots[v2[a]] # "pending"
  BY <1>1, <1>2
<1>7. QED
  BY <1>3, <1>4, <1>5, <1>6

LEMMA BatchSubject ==
    /\ MCInit /\ subject = "batch" => B!Init
    /\ [MCNext]_all => UNCHANGED subject
    /\ [MCNext]_all /\ subject = "batch" => [B!Next]_(B!vars)
<1>1. MCInit /\ subject = "batch" => B!Init
  BY DEF MCInit
<1>2. [MCNext]_all => UNCHANGED subject
  BY DEF MCNext, all
<1>3. [MCNext]_all /\ subject = "batch" => [B!Next]_(B!vars)
  BY DEF MCNext, all, B!vars
<1>4. QED
  BY <1>1, <1>2, <1>3

LEMMA BatchIsSound == MCSpec => [](subject = "batch" => BatchTypes /\ B!BatchInv)
<1> DEFINE Inv == subject = "batch" => BatchTypes /\ B!BatchInv
<1>1. MCInit => Inv
  BY BatchSubject, InitBatch
<1>2. Inv /\ [MCNext]_all => Inv'
  BY BatchSubject, StepBatch
<1>3. QED
  BY <1>1, <1>2, PTL DEF MCSpec

(* The progress that the loop, the jobs an error leaves behind and         *)
(* cancelBatchJob all write says at the end what became of the batch, for  *)
(* any number of items, any priorities and any concurrency (QueueService   *)
(* addBatchJob, its three strategies and cancelBatchJob).                  *)
THEOREM ProgressIsTold == MCSpec => []ProgressIsTrue
<1>1. (subject = "batch" => BatchTypes /\ B!BatchInv) => ProgressIsTrue
  BY ProgressFollows DEF ProgressIsTrue
<1>2. QED
  BY <1>1, BatchIsSound, PTL

(* Every strategy takes the items in its order and keeps to its            *)
(* concurrency, and a completed item has a job of its kind, for any number *)
(* of items and any priorities: the stable sort that the priority loop     *)
(* chooses exists and has each item once.                                  *)
THEOREM OrderIsRespected == MCSpec => []OrderIsKept
<1>1. (subject = "batch" => BatchTypes /\ B!BatchInv) => OrderIsKept
  BY OrderFollows DEF OrderIsKept
<1>2. QED
  BY <1>1, BatchIsSound, PTL

-----------------------------------------------------------------------------
(* Submission batches (S): v1 is ordered, v2 row, v3 expired, v4 marks,    *)
(* v5 batch, v6 retrier, v7 handedOut, v8 retried.  Only the shape of a    *)
(* batch is needed of its type. *)

BatchShape(x) ==
    /\ x.pc \in {"idle", "validate", "submit"}
    /\ x.pc # "idle" => x = [pc |-> x.pc, left |-> x.left, valid |-> x.valid, open |-> x.open]

BatchShapes ==
    /\ DOMAIN v5 = Batches /\ v5 = [b \in Batches |-> v5[b]]
    /\ \A b \in Batches : BatchShape(v5[b])

LEMMA InitClaims == S!Init => BatchShapes /\ S!ClaimInv
BY DEF S!Init, BatchShapes, BatchShape, S!ClaimInv, S!ClaimsAreExclusive, S!OpenAreValid, S!Owned,
   S!Idle

(* One batch takes another state. *)
LEMMA BatchMoves ==
    ASSUME BatchShapes, NEW b \in Batches, NEW x, BatchShape(x), v5' = [v5 EXCEPT ![b] = x]
    PROVE  /\ BatchShapes'
           /\ v5'[b] = x
           /\ \A c \in Batches \ {b} : v5'[c] = v5[c] /\ S!Owned(c)' = S!Owned(c)
           /\ S!Owned(b)' = IF x.pc = "idle" THEN {} ELSE DOMAIN x.valid
<1>1. /\ DOMAIN v5' = Batches /\ v5' = [c \in Batches |-> v5'[c]] /\ v5'[b] = x
      /\ \A c \in Batches \ {b} : v5'[c] = v5[c]
  BY DEF BatchShapes
<1>2. BatchShapes'
  BY <1>1 DEF BatchShapes
<1>3. S!Owned(b)' = IF x.pc = "idle" THEN {} ELSE DOMAIN x.valid
  BY <1>1 DEF S!Owned
<1>4. ASSUME NEW c \in Batches \ {b} PROVE S!Owned(c)' = S!Owned(c)
  BY <1>1, <1>4 DEF S!Owned
<1>5. QED
  BY <1>1, <1>2, <1>3, <1>4

LEMMA SameFunction ==
    ASSUME NEW F, NEW f, NEW g, f = [x \in F |-> f[x]], g = [x \in F |-> g[x]],
           \A x \in F : f[x] = g[x]
    PROVE  f = g
OBVIOUS

(* What EXCEPT does to a batch at work. *)
LEMMA BatchExcept ==
    ASSUME NEW y, y = [pc |-> y.pc, left |-> y.left, valid |-> y.valid, open |-> y.open],
           NEW l, NEW o, NEW q
    PROVE  /\ [y EXCEPT !.left = l] = [pc |-> y.pc, left |-> l, valid |-> y.valid, open |-> y.open]
           /\ [y EXCEPT !.pc = q] = [pc |-> q, left |-> y.left, valid |-> y.valid, open |-> y.open]
           /\ [y EXCEPT !.open = o] = [pc |-> y.pc, left |-> y.left, valid |-> y.valid, open |-> o]
<1>1. PICK a, b, c, d : a = y.pc /\ b = y.left /\ c = y.valid /\ d = y.open
  OBVIOUS
<1>2. y = [pc |-> a, left |-> b, valid |-> c, open |-> d]
  BY <1>1
<1>3. [y EXCEPT !.left = l] = [pc |-> a, left |-> l, valid |-> c, open |-> d]
  BY <1>2
<1>4. [y EXCEPT !.pc = q] = [pc |-> q, left |-> b, valid |-> c, open |-> d]
  BY <1>2
<1>5. [y EXCEPT !.open = o] = [pc |-> a, left |-> b, valid |-> c, open |-> o]
  BY <1>2
<1>6. QED
  BY <1>1, <1>3, <1>4, <1>5

LEMMA StepClaims ==
    BatchShapes /\ S!ClaimInv /\ [S!Next]_(S!vars) => (BatchShapes /\ S!ClaimInv)'
<1> SUFFICES ASSUME BatchShapes, S!ClaimInv, [S!Next]_(S!vars)
             PROVE  (BatchShapes /\ S!ClaimInv)'
  OBVIOUS
<1>1. ASSUME v5' = v5, v8 \subseteq v8',
             \A b \in Batches : S!Owned(b) \cap v4 \subseteq v4' \cup v8',
             v4' \subseteq v4 \cup v7', v7 \cap v4' \subseteq v7'
      PROVE  (BatchShapes /\ S!ClaimInv)'
  <2>1. \A b \in Batches : S!Owned(b)' = S!Owned(b)
    BY <1>1 DEF S!Owned
  <2>2. S!ClaimsAreExclusive'
    BY <1>1, <2>1 DEF S!ClaimInv, S!ClaimsAreExclusive
  <2>3. S!OpenAreValid' /\ BatchShapes'
    BY <1>1 DEF S!ClaimInv, S!OpenAreValid, BatchShapes
  <2>4. QED
    BY <2>2, <2>3 DEF S!ClaimInv
<1>2. ASSUME NEW p \in Payloads, S!GetPayloadsForBatching(p)
      PROVE  (BatchShapes /\ S!ClaimInv)'
  <2>1. v5' = v5 /\ v8' = v8 /\ v4 \subseteq v4' /\ v4' \subseteq v4 \cup v7' /\ v7 \subseteq v7'
    BY <1>2 DEF S!GetPayloadsForBatching
  <2>2. QED
    BY <1>1, <2>1
<1>3. ASSUME UNCHANGED <<v4, v5, v7, v8>>
      PROVE  (BatchShapes /\ S!ClaimInv)'
  BY <1>1, <1>3
<1>4. ASSUME NEW b \in Batches, NEW x, BatchShape(x), v5' = [v5 EXCEPT ![b] = x],
             IF x.pc = "idle" THEN {} = S!Owned(b)
             ELSE DOMAIN x.valid = S!Owned(b) /\ x.open \subseteq DOMAIN x.valid,
             UNCHANGED <<v4, v7, v8>>
      PROVE  (BatchShapes /\ S!ClaimInv)'
  <2>1. /\ BatchShapes' /\ v5'[b] = x
        /\ \A c \in Batches \ {b} : v5'[c] = v5[c]
    BY <1>4, BatchMoves
  <2>2. \A c \in Batches : S!Owned(c)' = S!Owned(c)
    BY <1>4, BatchMoves
  <2>3. S!ClaimsAreExclusive'
    BY <1>4, <2>2 DEF S!ClaimInv, S!ClaimsAreExclusive
  <2>4. S!OpenAreValid'
    BY <1>4, <2>1 DEF S!ClaimInv, S!OpenAreValid
  <2>5. QED
    BY <2>1, <2>3, <2>4 DEF S!ClaimInv
<1>5. ASSUME NEW b \in Batches, NEW ids, S!ProcessBatch(b, ids)
      PROVE  (BatchShapes /\ S!ClaimInv)'
  <2>1. PICK x : x = [pc |-> "validate", left |-> [p \in ids |-> v2[p]], valid |-> S!NoEntities,
                      open |-> {}]
    OBVIOUS
  <2>2. BatchShape(x) /\ x.pc = "validate" /\ DOMAIN x.valid = {} /\ x.open = {}
    BY <2>1 DEF BatchShape, S!NoEntities
  <2>3. v5' = [v5 EXCEPT ![b] = x] /\ S!Owned(b) = {} /\ UNCHANGED <<v4, v7, v8>>
    BY <1>5, <2>1 DEF S!ProcessBatch, S!Owned
  <2>4. QED
    BY <1>4, <1>5, <2>2, <2>3
<1>6. ASSUME NEW b \in Batches, v5[b].pc # "idle"
      PROVE  /\ v5[b] = [pc |-> v5[b].pc, left |-> v5[b].left, valid |-> v5[b].valid,
                         open |-> v5[b].open]
             /\ S!Owned(b) = DOMAIN v5[b].valid /\ v5[b].open \subseteq S!Owned(b)
  BY <1>6 DEF BatchShapes, BatchShape, S!Owned, S!ClaimInv, S!OpenAreValid
<1>7. ASSUME NEW b \in Batches, NEW p \in Payloads, v5[b].pc = "validate",
             v5' = [v5 EXCEPT ![b].left = S!Without(@, p)], UNCHANGED <<v4, v7, v8>>
      PROVE  (BatchShapes /\ S!ClaimInv)'
  <2>1. PICK x : x = [pc |-> v5[b].pc, left |-> S!Without(v5[b].left, p), valid |-> v5[b].valid,
                      open |-> v5[b].open]
    OBVIOUS
  <2>2. BatchShape(x) /\ x.pc = "validate" /\ x.valid = v5[b].valid /\ x.open = v5[b].open
    BY <1>7, <2>1 DEF BatchShape
  <2>3. [v5[b] EXCEPT !.left = S!Without(v5[b].left, p)] = x
    BY <1>6, <1>7, <2>1, BatchExcept
  <2>4. v5' = [v5 EXCEPT ![b] = x]
    BY <1>7, <2>3
  <2>5. QED
    BY <1>4, <1>6, <1>7, <2>2, <2>4
<1>8. ASSUME NEW b \in Batches, NEW p \in Payloads, S!Refuse(b, p)
      PROVE  (BatchShapes /\ S!ClaimInv)'
  BY <1>7, <1>8 DEF S!Refuse
<1>9. ASSUME NEW b \in Batches, NEW p \in Payloads, S!Validate(b, p)
      PROVE  (BatchShapes /\ S!ClaimInv)'
  <2>1. /\ v5[b].pc = "validate" /\ v7' = v7 /\ v8' = v8
        /\ \/ v5' = [v5 EXCEPT ![b].left = S!Without(@, p)] /\ v4' = v4
           \/ /\ p \notin v4 /\ v4' = v4 \cup {p}
              /\ v5' = [v5 EXCEPT ![b].left = S!Without(@, p),
                                  ![b].valid = S!With(@, p, v5[b].left[p]), ![b].open = @ \cup {p}]
    BY <1>9 DEF S!Validate
  <2>2. CASE v5' = [v5 EXCEPT ![b].left = S!Without(@, p)] /\ v4' = v4
    BY <1>7, <1>9, <2>1, <2>2
  <2>3. CASE /\ p \notin v4 /\ v4' = v4 \cup {p}
             /\ v5' = [v5 EXCEPT ![b].left = S!Without(@, p),
                                 ![b].valid = S!With(@, p, v5[b].left[p]), ![b].open = @ \cup {p}]
    <3>1. PICK x : x = [pc |-> v5[b].pc, left |-> S!Without(v5[b].left, p),
                        valid |-> S!With(v5[b].valid, p, v5[b].left[p]),
                        open |-> v5[b].open \cup {p}]
      OBVIOUS
    <3>2. /\ BatchShape(x) /\ x.pc = "validate" /\ x.open = v5[b].open \cup {p}
          /\ DOMAIN x.valid = S!Owned(b) \cup {p}
      <4>1. /\ x.pc = "validate" /\ x.open = v5[b].open \cup {p}
            /\ x.valid = S!With(v5[b].valid, p, v5[b].left[p])
        BY <2>1, <3>1
      <4>2. DOMAIN x.valid = S!Owned(b) \cup {p}
        BY <1>6, <1>9, <2>1, <4>1 DEF S!With
      <4>3. BatchShape(x)
        BY <3>1, <4>1 DEF BatchShape
      <4>4. QED
        BY <4>1, <4>2, <4>3
    <3>3. [v5[b] EXCEPT !.left = S!Without(v5[b].left, p),
                        !.valid = S!With(v5[b].valid, p, v5[b].left[p]),
                        !.open = v5[b].open \cup {p}] = x
      <4>1. v5[b] = [pc |-> v5[b].pc, left |-> v5[b].left, valid |-> v5[b].valid,
                     open |-> v5[b].open]
        BY <1>6, <1>9, <2>1
      <4>2. PICK y, l, v, o : /\ y = v5[b] /\ l = S!Without(v5[b].left, p)
                              /\ v = S!With(v5[b].valid, p, v5[b].left[p])
                              /\ o = v5[b].open \cup {p}
        OBVIOUS
      <4> DEFINE F == {"pc", "left", "valid", "open"}
      <4>3. PICK z : z = [y EXCEPT !.left = l, !.valid = v, !.open = o]
        OBVIOUS
      <4>4. /\ z = [f \in F |-> z[f]]
            /\ z["pc"] = y["pc"] /\ z["left"] = l /\ z["valid"] = v /\ z["open"] = o
        BY <4>1, <4>2, <4>3
      <4>5. /\ x = [f \in F |-> x[f]]
            /\ x["pc"] = y["pc"] /\ x["left"] = l /\ x["valid"] = v /\ x["open"] = o
        BY <3>1, <4>2
      <4>6. \A f \in F : z[f] = x[f]
        BY <4>4, <4>5
      <4> HIDE DEF F
      <4>7. z = x
        BY <4>4, <4>5, <4>6, SameFunction
      <4>8. QED
        BY <4>2, <4>3, <4>7
    <3>4. v5' = [v5 EXCEPT ![b] = x]
      BY <2>3, <3>3 DEF BatchShapes
    <3>5. /\ BatchShapes' /\ v5'[b] = x
          /\ \A c \in Batches \ {b} : v5'[c] = v5[c] /\ S!Owned(c)' = S!Owned(c)
          /\ S!Owned(b)' = S!Owned(b) \cup {p}
      BY <1>9, <3>2, <3>4, BatchMoves
    <3>6. S!ClaimsAreExclusive'
      <4>1. \A c \in Batches : p \in S!Owned(c) => p \in v8
        BY <2>3 DEF S!ClaimInv, S!ClaimsAreExclusive
      <4>2. QED
        BY <1>9, <2>1, <2>3, <3>5, <4>1 DEF S!ClaimInv, S!ClaimsAreExclusive
    <3>7. S!OpenAreValid'
      BY <1>6, <1>9, <2>1, <3>2, <3>5 DEF S!ClaimInv, S!OpenAreValid
    <3>8. QED
      BY <3>5, <3>6, <3>7 DEF S!ClaimInv
  <2>4. QED
    BY <2>1, <2>2, <2>3
<1>10. ASSUME NEW b \in Batches, S!Validated(b)
       PROVE  (BatchShapes /\ S!ClaimInv)'
  <2>1. PICK x : x = [pc |-> "submit", left |-> v5[b].left, valid |-> v5[b].valid,
                      open |-> v5[b].open]
    OBVIOUS
  <2>2. BatchShape(x) /\ x.pc = "submit" /\ x.valid = v5[b].valid /\ x.open = v5[b].open
    BY <2>1 DEF BatchShape
  <2>3. v5[b].pc = "validate" /\ UNCHANGED <<v4, v7, v8>>
    BY <1>10 DEF S!Validated
  <2>4. [v5[b] EXCEPT !.pc = "submit"] = x
    BY <1>6, <1>10, <2>1, <2>3, BatchExcept
  <2>5. v5' = [v5 EXCEPT ![b] = x]
    BY <1>10, <2>4 DEF S!Validated
  <2>6. QED
    BY <1>4, <1>6, <1>10, <2>2, <2>3, <2>5
<1>11. ASSUME NEW b \in Batches, NEW p \in Payloads, S!SubmitOfBatch(b, p)
       PROVE  (BatchShapes /\ S!ClaimInv)'
  <2>1. PICK x : x = [pc |-> v5[b].pc, left |-> v5[b].left, valid |-> v5[b].valid,
                      open |-> v5[b].open \ {p}]
    OBVIOUS
  <2>2. v5[b].pc = "submit" /\ UNCHANGED <<v4, v7, v8>>
    BY <1>11 DEF S!SubmitOfBatch
  <2>3. BatchShape(x) /\ x.pc = "submit" /\ x.valid = v5[b].valid /\ x.open = v5[b].open \ {p}
    BY <2>1, <2>2 DEF BatchShape
  <2>4. [v5[b] EXCEPT !.open = v5[b].open \ {p}] = x
    BY <1>6, <1>11, <2>1, <2>2, BatchExcept
  <2>5. v5' = [v5 EXCEPT ![b] = x]
    BY <1>11, <2>4 DEF S!SubmitOfBatch
  <2>6. DOMAIN x.valid = S!Owned(b) /\ x.open \subseteq DOMAIN x.valid
    BY <1>6, <1>11, <2>2, <2>3
  <2>7. QED
    BY <1>4, <1>11, <2>2, <2>3, <2>5, <2>6
<1>12. ASSUME NEW b \in Batches, S!BatchReturns(b)
       PROVE  (BatchShapes /\ S!ClaimInv)'
  <2>1. v5' = [v5 EXCEPT ![b] = S!Idle]
    BY <1>12 DEF S!BatchReturns
  <2>2. BatchShape(S!Idle) /\ S!Idle.pc = "idle"
    BY DEF BatchShape, S!Idle
  <2>3. /\ BatchShapes' /\ v5'[b] = S!Idle
        /\ \A c \in Batches \ {b} : v5'[c] = v5[c] /\ S!Owned(c)' = S!Owned(c)
        /\ S!Owned(b)' = {}
    BY <1>12, <2>1, <2>2, BatchMoves
  <2>4. /\ v4' = v4 \ S!Owned(b) /\ v7' = v7
        /\ v8' = v8 \cap UNION {S!Owned(c) : c \in Batches \ {b}}
    BY <1>12 DEF S!BatchReturns
  <2>5. \A p \in v4' : p \in v7' \/ \E c \in Batches : p \in S!Owned(c)'
    <3>1. ASSUME NEW p \in v4', p \notin v7' PROVE \E c \in Batches : p \in S!Owned(c)'
      <4>1. PICK c \in Batches : p \in S!Owned(c)
        BY <2>4, <3>1 DEF S!ClaimInv, S!ClaimsAreExclusive
      <4>2. c # b
        BY <2>4, <3>1, <4>1
      <4>3. QED
        BY <2>3, <4>1, <4>2
    <3>2. QED
      BY <3>1
  <2>6. \A c \in Batches : S!Owned(c)' \subseteq v4' \cup v8'
    <3>1. ASSUME NEW c \in Batches \ {b}, NEW p \in S!Owned(c) PROVE p \in v4' \cup v8'
      <4>1. p \in UNION {S!Owned(d) : d \in Batches \ {b}}
        BY <3>1
      <4>2. p \in v8 => p \in v8'
        BY <2>4, <4>1
      <4>3. p \in v4 \cup v8 /\ (p \in S!Owned(b) => p \in v8)
        BY <1>12, <3>1 DEF S!ClaimInv, S!ClaimsAreExclusive
      <4>4. QED
        BY <2>4, <4>2, <4>3
    <3>2. QED
      BY <2>3, <3>1
  <2>7. \A c, d \in Batches : c # d => S!Owned(c)' \cap S!Owned(d)' \subseteq v8'
    <3>1. ASSUME NEW c \in Batches \ {b}, NEW d \in Batches \ {b}, c # d,
                 NEW p \in S!Owned(c) \cap S!Owned(d)
          PROVE  p \in v8'
      <4>1. p \in UNION {S!Owned(e) : e \in Batches \ {b}}
        BY <3>1
      <4>2. p \in v8
        BY <3>1 DEF S!ClaimInv, S!ClaimsAreExclusive
      <4>3. QED
        BY <2>4, <4>1, <4>2
    <3>2. QED
      BY <2>3, <3>1
  <2>8. S!OpenAreValid'
    BY <2>2, <2>3 DEF S!ClaimInv, S!OpenAreValid
  <2>9. QED
    BY <2>3, <2>5, <2>6, <2>7, <2>8 DEF S!ClaimInv, S!ClaimsAreExclusive
<1>13. ASSUME NEW p, v5' = v5, S!Release(p)
       PROVE  (BatchShapes /\ S!ClaimInv)'
  <2>1. v4' = v4 \ {p} /\ v7' = v7 \ {p}
        /\ v8' = v8 \cup ({p} \cap UNION {S!Owned(b) : b \in Batches})
    BY <1>13 DEF S!Release
  <2>2. \A b \in Batches : S!Owned(b) \cap v4 \subseteq v4' \cup v8'
    <3>1. ASSUME NEW b \in Batches, NEW q \in S!Owned(b) \cap v4 PROVE q \in v4' \cup v8'
      <4>1. q \in UNION {S!Owned(c) : c \in Batches}
        BY <3>1
      <4>2. QED
        BY <2>1, <3>1, <4>1
    <3>2. QED
      BY <3>1
  <2>3. v8 \subseteq v8' /\ v4' \subseteq v4 \cup v7' /\ v7 \cap v4' \subseteq v7'
    BY <2>1
  <2>4. QED
    BY <1>1, <1>13, <2>2, <2>3
<1>14. ASSUME NEW w \in Retriers, S!RetrySubmit(w)
       PROVE  (BatchShapes /\ S!ClaimInv)'
  <2>1. v5' = v5 /\ (S!Release(v6[w].id) \/ UNCHANGED <<v4, v7, v8>>)
    BY <1>14 DEF S!RetrySubmit
  <2>2. CASE S!Release(v6[w].id)
    <3>1. PICK p : p = v6[w].id
      OBVIOUS
    <3>2. QED
      BY <1>13, <2>1, <2>2, <3>1
  <2>3. CASE UNCHANGED <<v4, v7, v8>>
    BY <1>3, <2>1, <2>3
  <2>4. QED
    BY <2>1, <2>2, <2>3
<1>15. ASSUME NEW p \in Payloads, S!Sign(p) \/ S!Expire(p)
       PROVE  (BatchShapes /\ S!ClaimInv)'
  BY <1>3, <1>15 DEF S!Sign, S!Expire
<1>16. ASSUME NEW w \in Retriers, (\E p \in Payloads : S!ProcessWithRetry(w, p)) \/ S!RetryLoad(w)
       PROVE  (BatchShapes /\ S!ClaimInv)'
  BY <1>3, <1>16 DEF S!ProcessWithRetry, S!RetryLoad
<1>17. CASE UNCHANGED S!vars
  BY <1>3, <1>17 DEF S!vars
<1>18. QED
  BY <1>2, <1>5, <1>8, <1>9, <1>10, <1>11, <1>12, <1>14, <1>15, <1>16, <1>17 DEF S!Next

LEMMA SubmissionSubject ==
    /\ MCInit /\ subject = "submission" => S!Init
    /\ [MCNext]_all => UNCHANGED subject
    /\ [MCNext]_all /\ subject = "submission" => [S!Next]_(S!vars)
<1>1. MCInit /\ subject = "submission" => S!Init
  BY DEF MCInit
<1>2. [MCNext]_all => UNCHANGED subject
  BY DEF MCNext, all
<1>3. [MCNext]_all /\ subject = "submission" => [S!Next]_(S!vars)
  BY DEF MCNext, all, S!vars
<1>4. QED
  BY <1>1, <1>2, <1>3

(* The marks keep two batches off one payload and none outlives its batch, *)
(* but for what a retry released, for any number of payloads, batches and  *)
(* retries at once (SubmissionBatchService.processBatch, processWithRetry  *)
(* and the inFlightSubmissions they share). *)
THEOREM ClaimsAreKept == MCSpec => []ClaimsAreExclusive
<1> DEFINE Inv == subject = "submission" => BatchShapes /\ S!ClaimInv
<1>1. MCInit => Inv
  BY SubmissionSubject, InitClaims
<1>2. Inv /\ [MCNext]_all => Inv'
  BY SubmissionSubject, StepClaims DEF BatchShapes
<1>3. Inv => ClaimsAreExclusive
  BY DEF ClaimsAreExclusive, S!ClaimInv
<1>4. QED
  BY <1>1, <1>2, <1>3, PTL DEF MCSpec

-----------------------------------------------------------------------------
(* Limits (L): v1 is policy, v2 now, v3 bucket, v4 entries, v5 count,      *)
(* v6 touched, v7 granted. *)

(* The cardinalities of the limiter are those of the library. *)
LEMMA SameCounts ==
    \A T : L!Cardinality(T) = Cardinality(T)
BY DEF L!Cardinality, Cardinality, L!IsFiniteSet, IsFiniteSet

LEMMA Products ==
    \A x, y, n \in Int : /\ (x + y) * n = x * n + y * n
                         /\ (x - y) * n = x * n - y * n
                         /\ n * (x + y) = n * x + n * y
                         /\ x * n \in Int
OBVIOUS

LEMMA Grows ==
    \A x, y, n \in Int : n >= 0 /\ x <= y => x * n <= y * n
<1>1. \A z, n \in Nat : z * n \in Nat
  OBVIOUS
<1>2. SUFFICES ASSUME NEW x \in Int, NEW y \in Int, NEW n \in Int, n >= 0, x <= y
               PROVE  x * n <= y * n
  OBVIOUS
<1>3. PICK z \in Nat : y = x + z
  <2>1. y - x \in Nat /\ y = x + (y - x)
    BY <1>2
  <2>2. QED BY <2>1
<1>4. z * n \in Nat
  BY <1>1, <1>2
<1>5. y * n = x * n + z * n /\ x * n \in Int
  BY <1>2, <1>3, Products
<1>6. QED BY <1>4, <1>5

LimiterCore ==
    /\ L!TypeOK /\ L!HistoryIsTrue
    /\ L!TokensAreTrue /\ L!LeakIsTrue /\ L!EntriesAreTrue /\ L!CountIsTrue

LEMMA LimiterShapes ==
    ASSUME L!TypeOK
    PROVE  /\ v1.limit \in Nat /\ v1.burst \in Nat /\ v1.algorithm \in L!Algorithm
           /\ v2 \in L!Times /\ v2 \in Nat /\ v6 \in Nat /\ v2 <= ClockEnd
           /\ L!Full \in Nat
           /\ v3 # L!NoBucket => /\ v3 \in [level : 0..(L!Full + Window), last : L!Times]
                                 /\ v3.level \in Nat /\ v3.last \in Nat
                                 /\ v3.level <= L!Full + Window
           /\ \A t \in L!Times : v7[t] \in Nat
           /\ \A t : t \in L!Times <=> t \in Nat /\ t <= ClockEnd
<1>1. v1.limit \in Nat /\ v1.burst \in Nat /\ v1.algorithm \in L!Algorithm
  BY ServicesAssumption DEF L!TypeOK, L!Algorithm
<1>2. Window \in Nat /\ v1.limit + v1.burst \in Nat
  BY <1>1, ServicesAssumption
<1>3. L!Full \in Nat
  BY <1>2 DEF L!Full
<1>4. \A t : t \in L!Times <=> t \in Nat /\ t <= ClockEnd
  BY ServicesAssumption DEF L!Times
<1>5. v3 # L!NoBucket => v3 \in [level : 0..(L!Full + Window), last : L!Times]
  BY DEF L!TypeOK
<1>6. v3 # L!NoBucket => /\ v3.level \in Nat /\ v3.last \in Nat
                         /\ v3.level <= L!Full + Window
  BY <1>2, <1>3, <1>4, <1>5
<1>7. /\ v2 \in L!Times /\ v2 \in Nat /\ v6 \in Nat /\ v2 <= ClockEnd
      /\ \A t \in L!Times : v7[t] \in Nat
  BY <1>4 DEF L!TypeOK
<1>8. QED BY <1>1, <1>3, <1>4, <1>5, <1>6, <1>7

(* Nothing was allowed yet in the ticks to come. *)
LEMMA GrantedForms ==
    ASSUME L!TypeOK, L!HistoryIsTrue
    PROVE  /\ \A b \in L!Times : \A a \in 0..b : L!GrantedIn(a, b) \in Nat
           /\ \A b \in L!Times : \A a \in 0..b :
                 b >= v2 => L!GrantedIn(a, b) = IF a <= v2 THEN L!GrantedIn(a, v2) ELSE 0
           /\ \A t \in L!Times : t > v2 => L!GrantedIn(t, t) = 0
<1>1. \A s, t \in L!Times : s <= t => v7[s] <= v7[t]
  BY DEF L!HistoryIsTrue
<1>2. \A t \in L!Times : t >= v2 => v7[t] = v7[v2]
  BY DEF L!HistoryIsTrue
<1>3. ASSUME NEW b \in L!Times, NEW a \in 0..b
      PROVE  /\ L!GrantedIn(a, b) \in Nat
             /\ b >= v2 => L!GrantedIn(a, b) = IF a <= v2 THEN L!GrantedIn(a, v2) ELSE 0
  <2>1. a \in Nat /\ b \in Nat /\ a <= b /\ b <= ClockEnd /\ v7[b] \in Nat
    BY LimiterShapes
  <2>2. CASE a = 0
    BY <1>2, <2>1, <2>2, LimiterShapes DEF L!GrantedIn
  <2>3. CASE a # 0
    <3>1. a - 1 \in L!Times /\ a - 1 <= b /\ v7[a - 1] \in Nat /\ v7[a - 1] <= v7[b]
      <4>1. a - 1 \in Nat /\ a - 1 <= b /\ a - 1 <= ClockEnd
        BY <2>1, <2>3, ServicesAssumption
      <4>2. QED BY <1>1, <4>1, LimiterShapes
    <3>2. L!GrantedIn(a, b) = v7[b] - v7[a - 1] /\ L!GrantedIn(a, v2) = v7[v2] - v7[a - 1]
      BY <2>3 DEF L!GrantedIn
    <3>3. b >= v2 => v7[b] = v7[v2]
      BY <1>2
    <3>4. a > v2 => v7[a - 1] = v7[v2]
      BY <1>2, <2>1, <3>1, LimiterShapes
    <3>5. QED BY <2>1, <3>1, <3>2, <3>3, <3>4, LimiterShapes
  <2>4. QED BY <2>2, <2>3
<1>4. ASSUME NEW t \in L!Times, t > v2 PROVE L!GrantedIn(t, t) = 0
  BY <1>3, <1>4, LimiterShapes
<1>5. QED BY <1>3, <1>4

(* Parts of the busy ticks are finite. *)
LEMMA BusyIs ==
    ASSUME L!TypeOK, L!HistoryIsTrue, NEW a \in Int, NEW b \in Int
    PROVE  /\ IsFiniteSet(L!BusyTicks(a, b))
           /\ \A t : t \in L!BusyTicks(a, b) <=> t \in Int /\ a <= t /\ t <= b /\ L!GrantedIn(t, t) > 0
<1>1. L!BusyTicks(a, b) \subseteq a..b
  BY DEF L!BusyTicks
<1>2. IsFiniteSet(a..b)
  BY FS_Interval
<1>3. IsFiniteSet(L!BusyTicks(a, b))
  BY <1>1, <1>2, FS_Subset
<1>4. QED BY <1>3 DEF L!BusyTicks

(* Windows are intervals, and end where the remainder is 0. *)
LEMMA Quotients ==
    ASSUME NEW w \in Nat, w > 0, NEW x \in Nat
    PROVE  /\ (x \div w) \in Nat /\ (x % w) \in 0..(w - 1)
           /\ x = w * (x \div w) + (x % w)
<1>1. (x \div w) \in Int
  OBVIOUS
<1>2. (x % w) \in Int
  OBVIOUS
<1>3. x = w * (x \div w) + (x % w)
  OBVIOUS
<1>4. 0 <= (x % w)
  OBVIOUS
<1>5. (x % w) < w
  OBVIOUS
<1>6. (x \div w) \in Nat
  OBVIOUS
<1>7. QED BY <1>1, <1>2, <1>3, <1>4, <1>5, <1>6

LEMMA SameWindow ==
    ASSUME NEW w \in Nat, w > 0, NEW a \in Nat, NEW n \in Nat, NEW b \in Nat,
           a <= n, n <= b, a \div w = b \div w
    PROVE  a \div w = n \div w
<1>1. PICK p, q : p = a \div w /\ q = n \div w
  OBVIOUS
<1>2. PICK r, s, t : r = a % w /\ s = n % w /\ t = b % w
  OBVIOUS
<1>3. /\ p \in Nat /\ q \in Nat /\ r \in 0..(w - 1) /\ s \in 0..(w - 1) /\ t \in 0..(w - 1)
      /\ a = w * p + r /\ n = w * q + s /\ b = w * p + t
  BY <1>1, <1>2, Quotients
<1>4. w * p \in Int /\ w * q \in Int
  BY <1>3
<1>5. CASE q > p
  <2>1. w * (p + 1) <= w * q
    <3>1. (p + 1) * w <= q * w
      BY <1>3, <1>5, Grows
    <3>2. QED BY <1>3, <3>1
  <2>2. w * (p + 1) = w * p + w * 1
    BY <1>3, Products
  <2>3. w * p + w <= w * q
    BY <1>3, <2>1, <2>2
  <2>4. QED BY <1>3, <1>4, <2>3
<1>6. CASE p > q
  <2>1. w * (q + 1) <= w * p
    <3>1. (q + 1) * w <= p * w
      BY <1>3, <1>6, Grows
    <3>2. QED BY <1>3, <3>1
  <2>2. w * (q + 1) = w * q + w * 1
    BY <1>3, Products
  <2>3. w * q + w <= w * p
    BY <1>3, <2>1, <2>2
  <2>4. QED BY <1>3, <1>4, <2>3
<1>7. QED BY <1>1, <1>3, <1>5, <1>6

LEMMA NextWindow ==
    ASSUME NEW w \in Nat, w > 0, NEW n \in Nat
    PROVE  /\ (n + 1) % w # 0 => n \div w = (n + 1) \div w
           /\ (n + 1) % w = 0 => \A a \in 0..n : a \div w # (n + 1) \div w
<1>1. PICK p, q : p = n \div w /\ q = (n + 1) \div w
  OBVIOUS
<1>2. PICK r, s : r = n % w /\ s = (n + 1) % w
  OBVIOUS
<1>3. /\ p \in Nat /\ q \in Nat /\ r \in 0..(w - 1) /\ s \in 0..(w - 1)
      /\ n = w * p + r /\ n + 1 = w * q + s
  BY <1>1, <1>2, Quotients
<1>4. w * p \in Int /\ w * q \in Int
  BY <1>3
<1>5. ASSUME s # 0 PROVE p = q
  <2>1. CASE q > p
    <3>1. w * (p + 1) <= w * q
      <4>1. (p + 1) * w <= q * w
        BY <1>3, <2>1, Grows
      <4>2. QED BY <1>3, <4>1
    <3>2. w * (p + 1) = w * p + w * 1
      BY <1>3, Products
    <3>3. w * p + w <= w * q
      BY <1>3, <3>1, <3>2
    <3>4. QED BY <1>3, <1>4, <1>5, <3>3
  <2>2. CASE p > q
    <3>1. w * (q + 1) <= w * p
      <4>1. (q + 1) * w <= p * w
        BY <1>3, <2>2, Grows
      <4>2. QED BY <1>3, <4>1
    <3>2. w * (q + 1) = w * q + w * 1
      BY <1>3, Products
    <3>3. w * q + w <= w * p
      BY <1>3, <3>1, <3>2
    <3>4. QED BY <1>3, <1>4, <3>3
  <2>3. QED BY <1>3, <2>1, <2>2
<1>6. ASSUME s = 0, NEW a \in 0..n PROVE a \div w # q
  <2>1. PICK u, v : u = a \div w /\ v = a % w
    OBVIOUS
  <2>2. u \in Nat /\ v \in 0..(w - 1) /\ a = w * u + v
    BY <2>1, Quotients
  <2>3. ASSUME u = q PROVE FALSE
    <3>1. w * u = w * q
      BY <2>3
    <3>2. QED BY <1>3, <1>4, <1>6, <2>2, <3>1
  <2>4. QED BY <2>1, <2>3
<1>7. QED BY <1>1, <1>2, <1>5, <1>6

PromisedAfter == \A b \in L!Times : b >= v2 => \A a \in 0..b : L!Promised(a, b)

(* What the key tells of the requests up to now keeps the promise for now  *)
(* and, as nothing was allowed later, for the ticks to come. *)
LEMMA Future == LimiterCore => PromisedAfter
<1> SUFFICES ASSUME LimiterCore, NEW b \in L!Times, b >= v2, NEW a \in 0..b
             PROVE  L!Promised(a, b)
  BY DEF PromisedAfter
<1>1. L!TypeOK /\ L!HistoryIsTrue
  BY DEF LimiterCore
<1>2. /\ v1.limit \in Nat /\ v1.burst \in Nat /\ v1.algorithm \in L!Algorithm
      /\ v2 \in Nat /\ b \in Nat /\ a \in Nat /\ a <= b /\ Window \in Nat /\ Window > 0
      /\ L!Full \in Nat /\ v2 \in L!Times /\ b <= ClockEnd /\ ClockEnd \in Nat
  BY <1>1, LimiterShapes, ServicesAssumption
<1>3. PICK m : m = v1.limit
  OBVIOUS
<1>4. m \in Nat
  BY <1>2, <1>3
<1>5. PICK g : g = L!GrantedIn(a, b)
  OBVIOUS
<1>6. g \in Nat /\ (a <= v2 => g = L!GrantedIn(a, v2)) /\ (a > v2 => g = 0)
  BY <1>1, <1>2, <1>5, GrantedForms
<1>7. (b - a) * m \in Nat /\ (a <= v2 => (v2 - a) * m \in Nat /\ (v2 - a) * m <= (b - a) * m)
  <2>1. 0 * m = 0
    BY <1>4
  <2>2. (b - a) \in Int /\ (v2 - a) \in Int /\ 0 <= b - a /\ v2 - a <= b - a
    BY <1>2
  <2>3. (b - a) * m \in Int /\ (v2 - a) * m \in Int
    BY <1>4, <2>2, Products
  <2>4. 0 * m <= (b - a) * m /\ (v2 - a) * m <= (b - a) * m
    BY <1>4, <2>2, Grows
  <2>5. a <= v2 => 0 * m <= (v2 - a) * m
    <3>1. a <= v2 => 0 <= v2 - a
      BY <1>2
    <3>2. QED BY <1>4, <2>2, <3>1, Grows
  <2>6. QED BY <2>1, <2>3, <2>4, <2>5
<1>8. CASE v1.algorithm = "TOKEN_BUCKET"
  <2>1. ASSUME v1.burst <= v1.limit PROVE g * Window <= L!Full + (b - a) * m
    <3>1. CASE a <= v2
      <4>1. a \in 0..v2
        BY <1>2, <3>1
      <4>2. g * Window + L!Tokens <= L!Full + (v2 - a) * m
        BY <1>3, <1>6, <1>8, <2>1, <3>1, <4>1 DEF LimiterCore, L!TokensAreTrue
      <4>3. L!Tokens \in Nat
        <5>1. CASE v3 = L!NoBucket
          BY <1>2, <5>1 DEF L!Tokens
        <5>2. CASE v3 # L!NoBucket
          <6>1. v3.level \in Nat /\ v3.last \in Nat /\ v3.last <= v2
            BY <1>1, <5>2, LimiterShapes DEF L!HistoryIsTrue
          <6>2. v2 - v3.last \in Nat
            BY <1>2, <6>1
          <6>3. (v2 - v3.last) * m \in Nat
            <7>1. 0 * m = 0 /\ 0 * m <= (v2 - v3.last) * m
              BY <1>4, <6>2, Grows
            <7>2. QED BY <1>4, <6>2, <7>1, Products
          <6>4. QED BY <1>2, <1>3, <5>2, <6>1, <6>3 DEF L!Tokens, L!Least
        <5>3. QED BY <5>1, <5>2
      <4>4. g * Window \in Int
        BY <1>2, <1>6, Products
      <4>5. QED BY <1>2, <1>7, <3>1, <4>2, <4>3, <4>4
    <3>2. CASE a > v2
      <4>1. g * Window = 0
        BY <1>2, <1>6, <3>2
      <4>2. QED BY <1>2, <1>7, <4>1
    <3>3. QED BY <1>2, <3>1, <3>2
  <2>2. QED BY <1>3, <1>5, <1>8, <2>1 DEF L!Promised
<1>9. CASE v1.algorithm = "LEAKY_BUCKET"
  <2>1. g * Window < (m + 1) * Window + (b - a) * m
    <3>1. PICK k : k = (m + 1) * Window
      OBVIOUS
    <3>2. k \in Nat /\ k > 0
      <4>1. k = m * Window + 1 * Window /\ m * Window \in Int
        BY <1>2, <1>4, <3>1, Products
      <4>2. 0 * Window = 0 /\ 0 * Window <= m * Window
        BY <1>2, <1>4, Grows
      <4>3. QED BY <1>2, <4>1, <4>2
    <3>3. CASE a <= v2
      <4>1. a \in 0..v2
        BY <1>2, <3>3
      <4>2. g * Window <= L!Leaked + (v2 - a) * m
        BY <1>3, <1>6, <1>9, <3>3, <4>1 DEF LimiterCore, L!LeakIsTrue
      <4>3. L!Leaked \in Int /\ L!Leaked < k
        <5>1. CASE v3 = L!NoBucket
          BY <3>2, <5>1 DEF L!Leaked
        <5>2. CASE v3 # L!NoBucket
          <6>1. v3.level \in Nat /\ v3.last \in Nat /\ v3.last <= v2
            BY <1>1, <5>2, LimiterShapes DEF L!HistoryIsTrue
          <6>2. v2 - v3.last \in Nat
            BY <1>2, <6>1
          <6>3. (v2 - v3.last) * m \in Nat
            <7>1. 0 * m = 0 /\ 0 * m <= (v2 - v3.last) * m
              BY <1>4, <6>2, Grows
            <7>2. QED BY <1>4, <6>2, <7>1, Products
          <6>4. v3.level < k
            BY <1>3, <1>9, <3>1, <5>2 DEF LimiterCore, L!LeakIsTrue
          <6>5. QED BY <1>2, <1>3, <3>2, <5>2, <6>1, <6>3, <6>4 DEF L!Leaked
        <5>3. QED BY <5>1, <5>2
      <4>4. g * Window \in Int
        BY <1>2, <1>6, Products
      <4>5. g * Window < k + (b - a) * m
        BY <1>7, <3>2, <3>3, <4>2, <4>3, <4>4
      <4>6. QED BY <3>1, <4>5
    <3>4. CASE a > v2
      <4>1. g * Window = 0
        BY <1>2, <1>6, <3>4
      <4>2. g * Window < k + (b - a) * m
        BY <1>7, <3>2, <4>1
      <4>3. QED BY <3>1, <4>2
    <3>5. QED BY <1>2, <3>3, <3>4
  <2>2. QED BY <1>3, <1>5, <1>9, <2>1 DEF L!Promised
<1>10. CASE v1.algorithm = "SLIDING_WINDOW"
  <2>1. ASSUME b - a < Window PROVE L!Cardinality(L!BusyTicks(a, b)) <= m
    <3>1. CASE a <= v2
      <4>1. a \in 0..v2 /\ v2 - a < Window
        BY <1>2, <2>1, <3>1
      <4>2. L!Cardinality(L!BusyTicks(a, v2)) <= m
        BY <1>3, <1>10, <4>1 DEF LimiterCore, L!EntriesAreTrue
      <4>3. L!BusyTicks(a, b) \subseteq L!BusyTicks(a, v2)
        <5>1. ASSUME NEW t \in L!BusyTicks(a, b) PROVE t \in L!BusyTicks(a, v2)
          <6>1. t \in Int /\ a <= t /\ t <= b /\ L!GrantedIn(t, t) > 0
            BY <1>1, <1>2, <5>1, BusyIs
          <6>2. t \in L!Times
            <7>1. t \in Nat /\ t <= ClockEnd
              BY <1>2, <6>1
            <7>2. QED BY <1>1, <7>1, LimiterShapes
          <6>3. ~(t > v2)
            <7>1. t > v2 => L!GrantedIn(t, t) = 0
              BY <1>1, <6>2, GrantedForms
            <7>2. QED BY <6>1, <7>1
          <6>4. QED BY <1>1, <1>2, <6>1, <6>3, BusyIs
        <5>2. QED BY <5>1
      <4>4. IsFiniteSet(L!BusyTicks(a, v2))
        BY <1>1, <1>2, BusyIs
      <4>5. /\ Cardinality(L!BusyTicks(a, b)) <= Cardinality(L!BusyTicks(a, v2))
            /\ IsFiniteSet(L!BusyTicks(a, b))
        BY <4>3, <4>4, FS_Subset
      <4>6. Cardinality(L!BusyTicks(a, b)) \in Nat /\ Cardinality(L!BusyTicks(a, v2)) \in Nat
        BY <4>4, <4>5, FS_CardinalityType
      <4>7. QED BY <1>4, <4>2, <4>5, <4>6, SameCounts
    <3>2. CASE a > v2
      <4>1. L!BusyTicks(a, b) = {}
        <5>1. ASSUME NEW t \in L!BusyTicks(a, b) PROVE FALSE
          <6>1. t \in Int /\ a <= t /\ t <= b /\ L!GrantedIn(t, t) > 0
            BY <1>1, <1>2, <5>1, BusyIs
          <6>2. t \in L!Times /\ t > v2
            <7>1. t \in Nat /\ t <= ClockEnd /\ t > v2
              BY <1>2, <3>2, <6>1
            <7>2. QED BY <1>1, <7>1, LimiterShapes
          <6>3. L!GrantedIn(t, t) = 0
            BY <1>1, <6>2, GrantedForms
          <6>4. QED BY <6>1, <6>3
        <5>2. QED BY <5>1
      <4>2. Cardinality(L!BusyTicks(a, b)) = 0
        BY <4>1, FS_EmptySet
      <4>3. QED BY <1>4, <4>2, SameCounts
    <3>3. QED BY <1>2, <3>1, <3>2
  <2>2. QED BY <1>3, <1>10, <2>1 DEF L!Promised
<1>11. CASE v1.algorithm = "FIXED_WINDOW"
  <2>1. ASSUME a \div Window = b \div Window PROVE g <= m
    <3>1. CASE a <= v2
      <4>1. a \div Window = v2 \div Window
        BY <1>2, <2>1, <3>1, SameWindow
      <4>2. a \in 0..v2
        BY <1>2, <3>1
      <4>3. g <= L!Least(v5, m)
        BY <1>3, <1>6, <1>11, <3>1, <4>1, <4>2 DEF LimiterCore, L!CountIsTrue
      <4>4. v5 \in Nat
        BY <1>1, <1>2 DEF L!TypeOK
      <4>5. QED BY <1>4, <1>6, <4>3, <4>4 DEF L!Least
    <3>2. CASE a > v2
      BY <1>4, <1>6, <3>2
    <3>3. QED BY <1>2, <3>1, <3>2
  <2>2. QED BY <1>3, <1>5, <1>11, <2>1 DEF L!Promised
<1>12. QED BY <1>2, <1>8, <1>9, <1>10, <1>11 DEF L!Algorithm

(* What an answer adds to what was granted. *)
LEMMA AnswerIs ==
    ASSUME L!TypeOK, L!HistoryIsTrue, NEW yes \in BOOLEAN, L!Answer(yes),
           v3' # L!NoBucket => v3'.last = v2 /\ v1.algorithm \in {"TOKEN_BUCKET", "LEAKY_BUCKET"}
    PROVE  /\ v7' \in [L!Times -> Nat] /\ L!HistoryIsTrue'
           /\ v1' = v1 /\ v2' = v2 /\ v6' = v2
           /\ \A b \in L!Times : \A a \in 0..b :
                 b < v2 => L!GrantedIn(a, b)' = L!GrantedIn(a, b)
           /\ \A a \in 0..v2 :
                 L!GrantedIn(a, v2)' = L!GrantedIn(a, v2) + (IF yes THEN 1 ELSE 0)
<1>1. PICK n : n = IF yes THEN 1 ELSE 0
  OBVIOUS
<1>2. n \in {0, 1}
  BY <1>1
<1>3. v1' = v1 /\ v2' = v2 /\ v6' = v2
  BY DEF L!Answer
<1>4. /\ v2 \in Nat /\ v2 \in L!Times /\ v2 <= ClockEnd
      /\ \A t \in L!Times : v7[t] \in Nat /\ t \in Nat
      /\ \A t : t \in L!Times <=> t \in Nat /\ t <= ClockEnd
  BY LimiterShapes
<1>5. v7' = [t \in L!Times |-> v7[t] + (IF t >= v2 THEN n ELSE 0)]
  <2>1. CASE yes
    BY <1>1, <2>1 DEF L!Answer
  <2>2. CASE ~yes
    <3>1. v7' = v7 /\ n = 0
      BY <1>1, <2>2 DEF L!Answer
    <3>2. \A t \in L!Times : v7[t] + (IF t >= v2 THEN n ELSE 0) = v7[t]
      BY <1>4, <3>1
    <3>3. v7 \in [L!Times -> Nat]
      BY DEF L!TypeOK
    <3>4. QED BY <3>1, <3>2, <3>3
  <2>3. QED BY <2>1, <2>2
<1>6. \A t \in L!Times : /\ v7'[t] = v7[t] + (IF t >= v2 THEN n ELSE 0)
                         /\ v7'[t] \in Nat
  BY <1>2, <1>4, <1>5
<1>7. v7' \in [L!Times -> Nat]
  BY <1>5, <1>6
<1>8. L!HistoryIsTrue'
  <2>1. /\ \A s, t \in L!Times : s <= t => v7[s] <= v7[t]
        /\ \A t \in L!Times : t >= v2 => v7[t] = v7[v2]
    BY DEF L!HistoryIsTrue
  <2>2. \A s, t \in L!Times : s <= t => v7'[s] <= v7'[t]
    BY <1>2, <1>4, <1>6, <2>1
  <2>3. \A t \in L!Times : t >= v2 => v7'[t] = v7'[v2]
    BY <1>2, <1>4, <1>6, <2>1
  <2>4. /\ v6' <= v2'
        /\ v3' # L!NoBucket => v3'.last = v6' /\ v1'.algorithm \in {"TOKEN_BUCKET", "LEAKY_BUCKET"}
    BY <1>3, <1>4
  <2>5. QED BY <1>3, <2>2, <2>3, <2>4 DEF L!HistoryIsTrue, L!Times, L!NoBucket
<1>9. ASSUME NEW b \in L!Times, NEW a \in 0..b, b <= v2
      PROVE  L!GrantedIn(a, b)' = L!GrantedIn(a, b) + (IF b = v2 THEN n ELSE 0)
  <2>1. a \in Nat /\ b \in Nat /\ a <= b /\ b <= ClockEnd
    BY <1>4
  <2>2. v7'[b] = v7[b] + (IF b = v2 THEN n ELSE 0) /\ v7[b] \in Nat
    BY <1>4, <1>6, <1>9, <2>1
  <2>3. CASE a = 0
    <3>1. L!GrantedIn(a, b) = v7[b] - 0 /\ L!GrantedIn(a, b)' = v7'[b] - 0
      BY <2>3 DEF L!GrantedIn
    <3>2. QED BY <1>2, <2>2, <3>1
  <2>4. CASE a # 0
    <3>1. a - 1 \in L!Times /\ a - 1 < v2
      <4>1. a - 1 \in Nat /\ a - 1 <= ClockEnd /\ a - 1 < v2
        BY <1>4, <1>9, <2>1, <2>4, ServicesAssumption
      <4>2. QED BY <1>4, <4>1
    <3>2. v7'[a - 1] = v7[a - 1] /\ v7[a - 1] \in Nat
      BY <1>4, <1>6, <3>1
    <3>3. L!GrantedIn(a, b) = v7[b] - v7[a - 1] /\ L!GrantedIn(a, b)' = v7'[b] - v7'[a - 1]
      BY <2>4 DEF L!GrantedIn
    <3>4. QED BY <1>2, <2>2, <3>2, <3>3
  <2>5. QED BY <2>3, <2>4
<1>10. ASSUME NEW b \in L!Times, NEW a \in 0..b, b < v2
       PROVE  L!GrantedIn(a, b)' = L!GrantedIn(a, b)
  <2>1. b # v2 /\ b <= v2 /\ L!GrantedIn(a, b) \in Nat
    BY <1>4, <1>10, GrantedForms
  <2>2. QED BY <1>9, <2>1
<1>11. \A a \in 0..v2 : L!GrantedIn(a, v2)' = L!GrantedIn(a, v2) + n
  <2>1. PICK now : now = v2
    OBVIOUS
  <2>2. \A a \in 0..now : L!GrantedIn(a, now)' = L!GrantedIn(a, now) + n
    BY <1>4, <1>9, <2>1
  <2>3. QED BY <1>3, <2>1, <2>2 DEF L!GrantedIn
<1>12. QED BY <1>1, <1>3, <1>7, <1>8, <1>10, <1>11

LEMMA StepTokenBucket ==
    ASSUME LimiterCore, v1.algorithm = "TOKEN_BUCKET", L!TokenBucket
    PROVE  LimiterCore' /\ \E yes \in BOOLEAN : L!Answer(yes)
<1>1. L!TypeOK /\ L!HistoryIsTrue
  BY DEF LimiterCore
<1>2. PICK m, full : m = v1.limit /\ full = L!Full
  OBVIOUS
<1>3. /\ m \in Nat /\ full \in Nat /\ v2 \in Nat /\ v2 \in L!Times
      /\ Window \in Nat /\ Window > 0
  BY <1>1, <1>2, LimiterShapes, ServicesAssumption
<1>4. PICK level : level = L!Tokens
  OBVIOUS
<1>5. PICK yes \in BOOLEAN : yes <=> level >= Window
  <2>1. (level >= Window) \in BOOLEAN
    OBVIOUS
  <2>2. QED BY <2>1
<1>6. /\ v3' = [level |-> IF yes THEN level - Window ELSE level, last |-> v2]
      /\ L!Answer(yes) /\ UNCHANGED <<v4, v5>>
  <2>1. level = IF v3 = L!NoBucket THEN L!Full
                ELSE L!Least(L!Full, v3.level + (v2 - v3.last) * v1.limit)
    BY <1>4 DEF L!Tokens
  <2>2. /\ v3' = [level |-> IF level >= Window THEN level - Window ELSE level, last |-> v2]
        /\ L!Answer(level >= Window) /\ UNCHANGED <<v4, v5>>
    BY <2>1 DEF L!TokenBucket
  <2>3. yes = (level >= Window)
    BY <1>5
  <2>4. QED BY <1>5, <2>2, <2>3 DEF L!Answer
<1>7. level \in Nat /\ level <= full
  <2>1. CASE v3 = L!NoBucket
    BY <1>2, <1>3, <1>4, <2>1 DEF L!Tokens
  <2>2. CASE v3 # L!NoBucket
    <3>1. v3.level \in Nat /\ v3.last \in Nat /\ v3.last <= v2
      BY <1>1, <2>2, LimiterShapes DEF L!HistoryIsTrue
    <3>2. v2 - v3.last \in Nat
      BY <1>3, <3>1
    <3>3. (v2 - v3.last) * m \in Nat
      <4>1. 0 * m = 0 /\ 0 * m <= (v2 - v3.last) * m
        BY <1>3, <3>2, Grows
      <4>2. QED BY <1>3, <3>2, <4>1, Products
    <3>4. QED BY <1>2, <1>3, <1>4, <2>2, <3>1, <3>3 DEF L!Tokens, L!Least
  <2>3. QED BY <2>1, <2>2
<1>8. PICK rest : rest = IF yes THEN level - Window ELSE level
  OBVIOUS
<1>9. /\ rest \in Nat /\ rest <= full /\ v3' = [level |-> rest, last |-> v2]
      /\ rest = level - (IF yes THEN Window ELSE 0)
  BY <1>3, <1>5, <1>6, <1>7, <1>8
<1>10. v3' \in [level : 0..(full + Window), last : L!Times] /\ v3'.level = rest /\ v3'.last = v2
  BY <1>3, <1>9
<1>11. v3' # L!NoBucket
  BY <1>9, <1>10 DEF L!NoBucket
<1>12. /\ v7' \in [L!Times -> Nat] /\ L!HistoryIsTrue'
       /\ v1' = v1 /\ v2' = v2 /\ v6' = v2
       /\ \A a \in 0..v2 :
             L!GrantedIn(a, v2)' = L!GrantedIn(a, v2) + (IF yes THEN 1 ELSE 0)
  BY <1>1, <1>6, <1>10, AnswerIs
<1>13. L!Full' = full
  BY <1>2, <1>12 DEF L!Full
<1>14. L!TypeOK'
  BY <1>1, <1>3, <1>6, <1>10, <1>12, <1>13 DEF L!TypeOK, L!Times, L!NoBucket
<1>15. L!TokensAreTrue'
  <2> SUFFICES ASSUME v1.burst <= m, NEW a \in 0..v2
               PROVE  (L!GrantedIn(a, v2) * Window)' + L!Tokens' <= full + (v2 - a) * m
    BY <1>2, <1>12, <1>13 DEF L!TokensAreTrue, L!GrantedIn
  <2>1. PICK g : g = L!GrantedIn(a, v2)
    OBVIOUS
  <2>2. g \in Nat /\ g * Window + level <= full + (v2 - a) * m
    BY <1>1, <1>2, <1>3, <1>4, <2>1, GrantedForms DEF LimiterCore, L!TokensAreTrue
  <2>3. L!Tokens' = rest
    <3>1. L!Tokens' = L!Least(full, rest + (v2 - v2) * m)
      BY <1>2, <1>10, <1>11, <1>12, <1>13 DEF L!Tokens, L!NoBucket, L!Least
    <3>2. (v2 - v2) * m = 0
      BY <1>3
    <3>3. QED BY <1>3, <1>9, <3>1, <3>2 DEF L!Least
  <2>4. (L!GrantedIn(a, v2) * Window)' = (g + (IF yes THEN 1 ELSE 0)) * Window
    BY <1>12, <2>1
  <2>5. (g + 1) * Window = g * Window + 1 * Window /\ g * Window \in Int
    BY <1>3, <2>2, Products
  <2>6. (v2 - a) * m \in Int
    BY <1>3, Products
  <2>7. (g + (IF yes THEN 1 ELSE 0)) * Window + rest = g * Window + level
    <3>1. CASE yes
      BY <1>3, <1>7, <1>9, <2>5, <3>1
    <3>2. CASE ~yes
      <4>1. g + 0 = g
        BY <2>2
      <4>2. QED BY <1>7, <1>9, <3>2, <4>1
    <3>3. QED BY <3>1, <3>2
  <2>8. QED BY <2>2, <2>3, <2>4, <2>7
<1>16. L!LeakIsTrue' /\ L!EntriesAreTrue' /\ L!CountIsTrue'
  BY <1>12 DEF L!LeakIsTrue, L!EntriesAreTrue, L!CountIsTrue
<1>17. LimiterCore'
  BY <1>12, <1>14, <1>15, <1>16 DEF LimiterCore
<1>18. QED BY <1>6, <1>17

LEMMA StepLeakyBucket ==
    ASSUME LimiterCore, v1.algorithm = "LEAKY_BUCKET", L!LeakyBucket
    PROVE  LimiterCore' /\ \E yes \in BOOLEAN : L!Answer(yes)
<1>1. L!TypeOK /\ L!HistoryIsTrue
  BY DEF LimiterCore
<1>2. PICK m, full : m = v1.limit /\ full = L!Full
  OBVIOUS
<1>3. /\ m \in Nat /\ full \in Nat /\ v2 \in Nat /\ v2 \in L!Times
      /\ Window \in Nat /\ Window > 0 /\ v1.burst \in Nat
  BY <1>1, <1>2, LimiterShapes, ServicesAssumption
<1>4. PICK level, room : level = L!Leaked /\ room = m * Window
  OBVIOUS
<1>5. PICK yes \in BOOLEAN : yes <=> level < room
  <2>1. (level < room) \in BOOLEAN
    OBVIOUS
  <2>2. QED BY <2>1
<1>6. /\ v3' = [level |-> IF yes THEN level + Window ELSE level, last |-> v2]
      /\ L!Answer(yes) /\ UNCHANGED <<v4, v5>>
  <2>1. level = IF v3 = L!NoBucket \/ v3.level - (v2 - v3.last) * v1.limit < 0 THEN 0
                ELSE v3.level - (v2 - v3.last) * v1.limit
    BY <1>4 DEF L!Leaked
  <2>2. /\ v3' = [level |-> IF level < room THEN level + Window ELSE level, last |-> v2]
        /\ L!Answer(level < room) /\ UNCHANGED <<v4, v5>>
    BY <1>2, <1>4, <2>1 DEF L!LeakyBucket
  <2>3. yes = (level < room)
    BY <1>5
  <2>4. QED BY <1>5, <2>2, <2>3 DEF L!Answer
<1>7. PICK above : above = (m + 1) * Window
  OBVIOUS
<1>8. /\ room \in Nat /\ above = room + Window /\ room <= full
      /\ 2 * v1.limit * Window = room + room
      /\ m = 0 => room = 0
      /\ m > 0 => Window <= room
  <2>1. room \in Int /\ above = room + 1 * Window
    BY <1>3, <1>4, <1>7, Products
  <2>2. full = (m + v1.burst) * Window
    BY <1>2 DEF L!Full
  <2>3. 0 * Window <= m * Window /\ m * Window <= (m + v1.burst) * Window
    <3>1. 0 <= m /\ m <= m + v1.burst
      BY <1>3
    <3>2. QED BY <1>3, <3>1, Grows
  <2>4. 0 * Window = 0
    BY <1>3
  <2>5. 2 * v1.limit * Window = room + room
    <3>1. 2 * v1.limit = m + m
      BY <1>2, <1>3
    <3>2. (m + m) * Window = room + room
      BY <1>3, <1>4, Products
    <3>3. QED BY <3>1, <3>2
  <2>6. m > 0 => 1 * Window <= m * Window
    BY <1>3, Grows
  <2>7. 1 * Window = Window
    BY <1>3
  <2>8. QED BY <1>3, <1>4, <2>1, <2>2, <2>3, <2>4, <2>5, <2>6, <2>7
<1>9. level \in Nat /\ level < above /\ level <= room + room /\ level <= full + Window
  <2>1. CASE v3 = L!NoBucket
    BY <1>3, <1>4, <1>8, <2>1 DEF L!Leaked
  <2>2. CASE v3 # L!NoBucket
    <3>1. /\ v3.level \in Nat /\ v3.last \in Nat /\ v3.last <= v2
          /\ v3.level <= full + Window
      BY <1>1, <1>2, <2>2, LimiterShapes DEF L!HistoryIsTrue
    <3>2. v2 - v3.last \in Nat
      BY <1>3, <3>1
    <3>3. (v2 - v3.last) * m \in Nat
      <4>1. 0 * m = 0 /\ 0 * m <= (v2 - v3.last) * m
        BY <1>3, <3>2, Grows
      <4>2. QED BY <1>3, <3>2, <4>1, Products
    <3>4. v3.level < above /\ v3.level <= room + room
      BY <1>2, <1>7, <1>8, <2>2 DEF LimiterCore, L!LeakIsTrue
    <3>5. level = 0 \/ level = v3.level - (v2 - v3.last) * m
      BY <1>2, <1>4 DEF L!Leaked
    <3>6. level = v3.level - (v2 - v3.last) * m => level >= 0
      BY <1>2, <1>3, <1>4, <2>2, <3>1, <3>3 DEF L!Leaked
    <3>7. QED BY <1>3, <1>8, <3>1, <3>3, <3>4, <3>5, <3>6
  <2>3. QED BY <2>1, <2>2
<1>10. PICK rest : rest = IF yes THEN level + Window ELSE level
  OBVIOUS
<1>11. /\ rest \in Nat /\ rest <= full + Window /\ v3' = [level |-> rest, last |-> v2]
       /\ rest = level + (IF yes THEN Window ELSE 0)
       /\ rest < above /\ rest <= room + room
  BY <1>3, <1>5, <1>6, <1>8, <1>9, <1>10
<1>12. v3' \in [level : 0..(full + Window), last : L!Times] /\ v3'.level = rest /\ v3'.last = v2
  BY <1>3, <1>11
<1>13. v3' # L!NoBucket
  BY <1>11, <1>12 DEF L!NoBucket
<1>14. /\ v7' \in [L!Times -> Nat] /\ L!HistoryIsTrue'
       /\ v1' = v1 /\ v2' = v2 /\ v6' = v2
       /\ \A a \in 0..v2 :
             L!GrantedIn(a, v2)' = L!GrantedIn(a, v2) + (IF yes THEN 1 ELSE 0)
  BY <1>1, <1>6, <1>12, AnswerIs
<1>15. L!Full' = full
  BY <1>2, <1>14 DEF L!Full
<1>16. L!TypeOK'
  BY <1>1, <1>3, <1>6, <1>12, <1>14, <1>15 DEF L!TypeOK, L!Times, L!NoBucket
<1>17. L!Leaked' = rest
  <2>1. (v2 - v2) * m = 0
    BY <1>3
  <2>2. rest - (v2 - v2) * m = rest /\ ~(rest < 0)
    BY <1>11, <2>1
  <2>3. QED BY <1>2, <1>12, <1>13, <1>14, <2>2 DEF L!Leaked, L!NoBucket
<1>18. L!LeakIsTrue'
  <2>1. ASSUME NEW a \in 0..v2
        PROVE  (L!GrantedIn(a, v2) * Window)' <= rest + (v2 - a) * m
    <3>1. PICK g : g = L!GrantedIn(a, v2)
      OBVIOUS
    <3>2. g \in Nat /\ g * Window <= level + (v2 - a) * m
      BY <1>1, <1>2, <1>3, <1>4, <3>1, GrantedForms DEF LimiterCore, L!LeakIsTrue
    <3>3. (L!GrantedIn(a, v2) * Window)' = (g + (IF yes THEN 1 ELSE 0)) * Window
      BY <1>14, <3>1
    <3>4. (g + 1) * Window = g * Window + 1 * Window /\ g * Window \in Int
      BY <1>3, <3>2, Products
    <3>5. (v2 - a) * m \in Int
      BY <1>3, Products
    <3>6. (g + (IF yes THEN 1 ELSE 0)) * Window <= rest + (v2 - a) * m
      <4>1. CASE yes
        BY <1>3, <1>9, <1>11, <3>2, <3>4, <3>5, <4>1
      <4>2. CASE ~yes
        <5>1. g + 0 = g /\ rest = level
          BY <1>9, <1>11, <3>2, <4>2
        <5>2. QED BY <3>2, <4>2, <5>1
      <4>3. QED BY <4>1, <4>2
    <3>7. QED BY <3>3, <3>6
  <2>2. v3'.level < (v1.limit + 1) * Window /\ v3'.level <= 2 * v1.limit * Window
    BY <1>2, <1>7, <1>8, <1>11, <1>12
  <2>3. QED BY <1>2, <1>14, <1>17, <2>1, <2>2 DEF L!LeakIsTrue, L!GrantedIn
<1>19. L!TokensAreTrue' /\ L!EntriesAreTrue' /\ L!CountIsTrue'
  BY <1>14 DEF L!TokensAreTrue, L!EntriesAreTrue, L!CountIsTrue
<1>20. LimiterCore'
  BY <1>14, <1>16, <1>18, <1>19 DEF LimiterCore
<1>21. QED BY <1>6, <1>20

LEMMA StepFixedWindow ==
    ASSUME LimiterCore, v1.algorithm = "FIXED_WINDOW", L!FixedWindow
    PROVE  LimiterCore' /\ \E yes \in BOOLEAN : L!Answer(yes)
<1>1. L!TypeOK /\ L!HistoryIsTrue
  BY DEF LimiterCore
<1>2. PICK m : m = v1.limit
  OBVIOUS
<1>3. m \in Nat /\ v2 \in Nat /\ v2 \in L!Times /\ v5 \in Nat
  BY <1>1, <1>2, LimiterShapes DEF L!TypeOK
<1>4. PICK used : used = L!Least(v5, m)
  OBVIOUS
<1>5. used \in Nat /\ used <= m /\ v5' = used + 1 /\ UNCHANGED <<v3, v4>>
  BY <1>2, <1>3, <1>4 DEF L!Least, L!FixedWindow
<1>6. PICK yes \in BOOLEAN : yes <=> used + 1 <= m
  <2>1. (used + 1 <= m) \in BOOLEAN
    OBVIOUS
  <2>2. QED BY <2>1
<1>7. L!Answer(yes)
  <2>1. yes = (v5' <= v1.limit)
    BY <1>2, <1>5, <1>6
  <2>2. QED BY <2>1 DEF L!FixedWindow
<1>8. v3' = L!NoBucket
  BY <1>1, <1>5 DEF L!HistoryIsTrue
<1>9. /\ v7' \in [L!Times -> Nat] /\ L!HistoryIsTrue'
      /\ v1' = v1 /\ v2' = v2 /\ v6' = v2
      /\ \A a \in 0..v2 :
             L!GrantedIn(a, v2)' = L!GrantedIn(a, v2) + (IF yes THEN 1 ELSE 0)
  BY <1>1, <1>7, <1>8, AnswerIs
<1>10. L!TypeOK'
  <2>1. v5' \in 0..(m + 1)
    BY <1>3, <1>5
  <2>2. QED BY <1>1, <1>2, <1>3, <1>5, <1>8, <1>9, <2>1 DEF L!TypeOK, L!Times, L!NoBucket
<1>11. L!CountIsTrue'
  <2>1. ASSUME NEW a \in 0..v2, a \div Window = v2 \div Window
        PROVE  L!GrantedIn(a, v2)' <= L!Least(used + 1, m)
    <3>1. PICK g : g = L!GrantedIn(a, v2)
      OBVIOUS
    <3>2. g \in Nat /\ g <= used
      BY <1>1, <1>2, <1>3, <1>4, <2>1, <3>1, GrantedForms DEF LimiterCore, L!CountIsTrue
    <3>3. L!GrantedIn(a, v2)' = g + (IF yes THEN 1 ELSE 0)
      BY <1>9, <3>1
    <3>4. QED BY <1>3, <1>5, <1>6, <3>2, <3>3 DEF L!Least
  <2>2. QED BY <1>2, <1>5, <1>9, <2>1 DEF L!CountIsTrue, L!GrantedIn, L!Least
<1>12. L!TokensAreTrue' /\ L!LeakIsTrue' /\ L!EntriesAreTrue'
  BY <1>9 DEF L!TokensAreTrue, L!LeakIsTrue, L!EntriesAreTrue
<1>13. LimiterCore'
  BY <1>9, <1>10, <1>11, <1>12 DEF LimiterCore
<1>14. QED BY <1>7, <1>13

LEMMA StepSlidingWindow ==
    ASSUME LimiterCore, v1.algorithm = "SLIDING_WINDOW", L!SlidingWindow
    PROVE  LimiterCore' /\ \E yes \in BOOLEAN : L!Answer(yes)
<1>1. L!TypeOK /\ L!HistoryIsTrue
  BY DEF LimiterCore
<1>2. PICK m, now : m = v1.limit /\ now = v2
  OBVIOUS
<1>3. /\ m \in Nat /\ now \in Nat /\ now \in L!Times /\ now <= ClockEnd /\ ClockEnd \in Nat
      /\ Window \in Nat /\ Window > 0
      /\ \A t : t \in L!Times <=> t \in Nat /\ t <= ClockEnd
  BY <1>1, <1>2, LimiterShapes, ServicesAssumption
<1>4. PICK kept : kept = {t \in v4 : t > now - Window}
  OBVIOUS
<1>5. v4 \subseteq L!Times /\ kept \subseteq L!Times /\ IsFiniteSet(kept) /\ Cardinality(kept) \in Nat
  <2>1. v4 \subseteq L!Times /\ kept \subseteq L!Times
    BY <1>1, <1>4 DEF L!TypeOK
  <2>2. IsFiniteSet(0..ClockEnd)
    BY <1>3, FS_Interval
  <2>3. kept \subseteq 0..ClockEnd
    BY <2>1 DEF L!Times
  <2>4. IsFiniteSet(kept)
    BY <2>2, <2>3, FS_Subset
  <2>5. QED BY <2>1, <2>4, FS_CardinalityType
<1>6. PICK yes \in BOOLEAN : yes <=> Cardinality(kept) < m
  <2>1. (Cardinality(kept) < m) \in BOOLEAN
    OBVIOUS
  <2>2. QED BY <2>1
<1>7. /\ v4' = IF yes THEN kept \cup {now} ELSE kept
      /\ L!Answer(yes) /\ UNCHANGED <<v3, v5>>
  <2>1. L!Cardinality(kept) = Cardinality(kept)
    BY SameCounts
  <2>2. yes = (L!Cardinality(kept) < v1.limit)
    BY <1>2, <1>6, <2>1
  <2>3. kept = {t \in v4 : t > v2 - Window}
    BY <1>2, <1>4
  <2>4. QED BY <1>2, <2>2, <2>3 DEF L!SlidingWindow
<1>8. v3' = L!NoBucket
  BY <1>1, <1>7 DEF L!HistoryIsTrue
<1>9. /\ v7' \in [L!Times -> Nat] /\ L!HistoryIsTrue'
      /\ v1' = v1 /\ v2' = v2 /\ v6' = v2
      /\ \A b \in L!Times : \A a \in 0..b :
            b < v2 => L!GrantedIn(a, b)' = L!GrantedIn(a, b)
      /\ \A a \in 0..v2 :
            L!GrantedIn(a, v2)' = L!GrantedIn(a, v2) + (IF yes THEN 1 ELSE 0)
  BY <1>1, <1>7, <1>8, AnswerIs
<1>10. L!TypeOK'
  <2>1. v4' \subseteq L!Times
    BY <1>3, <1>5, <1>7
  <2>2. QED BY <1>1, <1>7, <1>8, <1>9, <2>1 DEF L!TypeOK, L!Times, L!NoBucket
<1>11. ASSUME NEW t \in 0..now, L!GrantedIn(t, t)' > 0
       PROVE  L!GrantedIn(t, t) > 0 \/ (yes /\ t = now)
  <2>1. t \in L!Times /\ t \in 0..t
    BY <1>3
  <2>2. CASE t < now
    BY <1>2, <1>9, <1>11, <2>1, <2>2
  <2>3. CASE t = now
    <3>1. L!GrantedIn(t, t)' = L!GrantedIn(t, t) + (IF yes THEN 1 ELSE 0)
      <4>1. L!GrantedIn(t, v2)' = L!GrantedIn(t, t)'
        BY <1>2, <1>9, <2>3 DEF L!GrantedIn
      <4>2. L!GrantedIn(t, v2) = L!GrantedIn(t, t)
        BY <1>2, <2>3
      <4>3. QED BY <1>2, <1>9, <4>1, <4>2
    <3>2. L!GrantedIn(t, t) \in Nat
      BY <1>1, <2>1, GrantedForms
    <3>3. QED BY <1>11, <2>3, <3>1, <3>2
  <2>4. QED BY <1>3, <2>2, <2>3
<1>12. ASSUME NEW a \in 0..now, NEW t, t \in L!BusyTicks(a, now)'
       PROVE  t \in 0..now /\ a <= t /\ (t \in L!BusyTicks(a, now) \/ (yes /\ t = now))
  <2>1. t \in a..now /\ L!GrantedIn(t, t)' > 0
    BY <1>12 DEF L!BusyTicks
  <2>2. t \in 0..now /\ a <= t
    BY <1>3, <2>1
  <2>3. L!GrantedIn(t, t) > 0 \/ (yes /\ t = now)
    BY <1>11, <2>1, <2>2
  <2>4. QED BY <2>1, <2>2, <2>3 DEF L!BusyTicks
<1>13. \A a \in 0..now : \A t \in L!BusyTicks(a, now) : t > now - Window => t \in kept
  <2>1. ASSUME NEW a \in 0..now, NEW t \in L!BusyTicks(a, now), t > now - Window PROVE t \in kept
    <3>1. t \in L!BusyTicks(0, now)
      <4>1. t \in Int /\ a <= t /\ t <= now /\ L!GrantedIn(t, t) > 0
        BY <1>1, <1>3, <2>1, BusyIs
      <4>2. QED BY <1>1, <1>3, <4>1, BusyIs
    <3>2. t \in v4
      BY <1>2, <2>1, <3>1 DEF LimiterCore, L!EntriesAreTrue
    <3>3. QED BY <1>4, <2>1, <3>2
  <2>2. QED BY <2>1
<1>14. ASSUME NEW t \in L!BusyTicks(0, now)' PROVE t <= now /\ (t > now - Window => t \in v4')
  <2>1. t \in 0..now /\ (t \in L!BusyTicks(0, now) \/ (yes /\ t = now))
    BY <1>3, <1>12, <1>14
  <2>2. t \in L!BusyTicks(0, now) /\ t > now - Window => t \in kept
    BY <1>3, <1>13
  <2>3. QED BY <1>3, <1>7, <2>1, <2>2
<1>15. ASSUME NEW a \in 0..now, now - a < Window PROVE Cardinality(L!BusyTicks(a, now)') <= m
  <2>1. CASE yes
    <3>1. L!BusyTicks(a, now)' \subseteq kept \cup {now}
      <4>1. ASSUME NEW t \in L!BusyTicks(a, now)' PROVE t \in kept \cup {now}
        <5>1. t \in 0..now /\ a <= t /\ (t \in L!BusyTicks(a, now) \/ t = now)
          BY <1>12, <4>1
        <5>2. t > now - Window
          BY <1>3, <1>15, <5>1
        <5>3. QED BY <1>13, <5>1, <5>2
      <4>2. QED BY <4>1
    <3>2. /\ IsFiniteSet(kept \cup {now})
          /\ Cardinality(kept \cup {now}) \in Nat /\ Cardinality(kept \cup {now}) <= Cardinality(kept) + 1
      <4>1. /\ IsFiniteSet(kept \cup {now})
            /\ Cardinality(kept \cup {now}) = Cardinality(kept)
               \/ Cardinality(kept \cup {now}) = Cardinality(kept) + 1
        BY <1>5, FS_AddElement
      <4>2. QED BY <1>5, <4>1
    <3>3. /\ Cardinality(L!BusyTicks(a, now)') <= Cardinality(kept \cup {now})
          /\ IsFiniteSet(L!BusyTicks(a, now)')
      BY <3>1, <3>2, FS_Subset
    <3>4. Cardinality(L!BusyTicks(a, now)') \in Nat
      BY <3>3, FS_CardinalityType
    <3>5. QED BY <1>3, <1>5, <1>6, <2>1, <3>2, <3>3, <3>4
  <2>2. CASE ~yes
    <3>1. L!BusyTicks(a, now)' \subseteq L!BusyTicks(a, now)
      BY <1>12, <2>2
    <3>2. IsFiniteSet(L!BusyTicks(a, now))
      BY <1>1, <1>3, BusyIs
    <3>3. /\ Cardinality(L!BusyTicks(a, now)') <= Cardinality(L!BusyTicks(a, now))
          /\ IsFiniteSet(L!BusyTicks(a, now)')
      BY <3>1, <3>2, FS_Subset
    <3>4. Cardinality(L!BusyTicks(a, now)) <= m
      <4>1. L!Cardinality(L!BusyTicks(a, now)) <= m
        BY <1>2, <1>15 DEF LimiterCore, L!EntriesAreTrue
      <4>2. L!Cardinality(L!BusyTicks(a, now)) = Cardinality(L!BusyTicks(a, now))
        BY SameCounts
      <4>3. QED BY <4>1, <4>2
    <3>5. Cardinality(L!BusyTicks(a, now)') \in Nat /\ Cardinality(L!BusyTicks(a, now)) \in Nat
      BY <3>2, <3>3, FS_CardinalityType
    <3>6. QED BY <1>3, <3>3, <3>4, <3>5
  <2>3. QED BY <2>1, <2>2
<1>16. L!EntriesAreTrue'
  <2>1. ASSUME NEW a \in 0..now, now - a < Window PROVE L!Cardinality(L!BusyTicks(a, now)') <= m
    <3>1. PICK busy : busy = L!BusyTicks(a, now)'
      OBVIOUS
    <3>2. Cardinality(busy) <= m
      BY <1>15, <2>1, <3>1
    <3>3. QED BY <3>1, <3>2, SameCounts
  <2>2. \A a \in 0..now : L!BusyTicks(a, v2)' = L!BusyTicks(a, now)'
    BY <1>2, <1>9 DEF L!BusyTicks
  <2>3. \A t \in L!BusyTicks(0, v2)' : t <= v6' /\ (t > v2' - Window => t \in v4')
    BY <1>2, <1>3, <1>9, <1>14, <2>2
  <2>4. \A a \in 0..v2' : v2' - a < Window => (L!Cardinality(L!BusyTicks(a, v2)) <= v1.limit)'
    BY <1>2, <1>9, <2>1, <2>2
  <2>5. QED BY <2>3, <2>4 DEF L!EntriesAreTrue
<1>17. L!TokensAreTrue' /\ L!LeakIsTrue' /\ L!CountIsTrue'
  BY <1>9 DEF L!TokensAreTrue, L!LeakIsTrue, L!CountIsTrue
<1>18. LimiterCore'
  BY <1>9, <1>10, <1>16, <1>17 DEF LimiterCore
<1>19. QED BY <1>7, <1>18

(* The levels of the buckets. *)
LEMMA Levels ==
    ASSUME LimiterCore, v1.algorithm \in {"TOKEN_BUCKET", "LEAKY_BUCKET"}
    PROVE  /\ L!Tokens \in Nat /\ L!Tokens <= L!Full /\ L!Leaked \in Nat
           /\ v3 # L!NoBucket => /\ v2 - v3.last \in Nat /\ v3.level \in Nat /\ v3.last = v6
                                 /\ (v2 - v3.last) * v1.limit \in Nat
<1>1. L!TypeOK /\ L!HistoryIsTrue
  BY DEF LimiterCore
<1>2. v1.limit \in Nat /\ v2 \in Nat /\ L!Full \in Nat
  BY <1>1, LimiterShapes
<1>3. PICK m, n, full : m = v1.limit /\ n = v2 /\ full = L!Full
  OBVIOUS
<1>4. CASE v3 = L!NoBucket
  BY <1>2, <1>4 DEF L!Tokens, L!Leaked
<1>5. CASE v3 # L!NoBucket
  <2>1. PICK l, h : l = v3.last /\ h = v3.level
    OBVIOUS
  <2>2. /\ h \in Nat /\ l \in Nat /\ l <= n /\ v3.last = v6
    BY <1>1, <1>3, <1>5, <2>1, LimiterShapes DEF L!HistoryIsTrue
  <2>3. n - l \in Nat
    BY <1>2, <1>3, <2>2
  <2>4. (n - l) * m \in Nat
    <3>1. 0 * m = 0 /\ 0 * m <= (n - l) * m
      BY <1>2, <1>3, <2>3, Grows
    <3>2. QED BY <1>2, <1>3, <2>3, <3>1, Products
  <2>5. L!Tokens = L!Least(full, h + (n - l) * m)
    BY <1>3, <1>5, <2>1 DEF L!Tokens
  <2>6. L!Leaked = IF h - (n - l) * m < 0 THEN 0 ELSE h - (n - l) * m
    BY <1>3, <1>5, <2>1 DEF L!Leaked
  <2>7. L!Tokens \in Nat /\ L!Tokens <= full
    BY <1>2, <1>3, <2>2, <2>4, <2>5 DEF L!Least
  <2>8. L!Leaked \in Nat
    BY <2>2, <2>4, <2>6
  <2>9. QED BY <1>3, <2>1, <2>2, <2>3, <2>4, <2>7, <2>8
<1>6. QED BY <1>4, <1>5

(* A tick later a bucket has at most as much more, or as much less, as the *)
(* limit. *)
LEMMA LevelsLater ==
    ASSUME LimiterCore, v1.algorithm \in {"TOKEN_BUCKET", "LEAKY_BUCKET"},
           v2' = v2 + 1, UNCHANGED <<v1, v3>>
    PROVE  /\ L!Tokens' \in Nat /\ L!Tokens' <= L!Tokens + v1.limit /\ L!Tokens' <= L!Full
           /\ L!Leaked' \in Nat /\ L!Leaked <= L!Leaked' + v1.limit
<1>1. v1.limit \in Nat /\ v2 \in Nat /\ L!Full \in Nat
  BY LimiterShapes DEF LimiterCore
<1>2. PICK m, n, full : m = v1.limit /\ n = v2 /\ full = L!Full
  OBVIOUS
<1>3. v2' = n + 1 /\ v1'.limit = m /\ L!Full' = full
  BY <1>2 DEF L!Full
<1>4. CASE v3 = L!NoBucket
  <2>1. v3' = L!NoBucket
    BY <1>4
  <2>2. L!Tokens' = full /\ L!Tokens = full
    BY <1>2, <1>3, <1>4, <2>1 DEF L!Tokens, L!NoBucket
  <2>3. L!Leaked' = 0 /\ L!Leaked = 0
    BY <1>4, <2>1 DEF L!Leaked, L!NoBucket
  <2>4. QED BY <1>1, <1>2, <2>2, <2>3
<1>5. CASE v3 # L!NoBucket
  <2>1. PICK l, h : l = v3.last /\ h = v3.level
    OBVIOUS
  <2>2. /\ h \in Nat /\ n - l \in Nat /\ (n - l) * m \in Nat
    BY <1>2, <1>5, <2>1, Levels
  <2>3. PICK d : d = n - l
    OBVIOUS
  <2>4. PICK e : e = v2' - v3'.last
    OBVIOUS
  <2>5. e \in Int /\ e = d + 1 /\ v3' # L!NoBucket /\ v3'.level = h
    <3>1. l \in Nat /\ v3'.last = l /\ v3' # L!NoBucket /\ v3'.level = h
      BY <1>5, <2>1, LimiterShapes DEF LimiterCore
    <3>2. QED BY <1>1, <1>2, <1>3, <2>3, <2>4, <3>1
  <2>6. d * m \in Nat /\ e * m = d * m + m
    <3>1. d \in Int /\ (d + 1) * m = d * m + 1 * m
      BY <1>1, <1>2, <2>2, <2>3, Products
    <3>2. 1 * m = m
      BY <1>1, <1>2
    <3>3. e * m = (d + 1) * m
      BY <2>5
    <3>4. QED BY <2>2, <2>3, <3>1, <3>2, <3>3
  <2>7. /\ L!Tokens = L!Least(full, h + d * m)
        /\ L!Leaked = IF h - d * m < 0 THEN 0 ELSE h - d * m
    BY <1>2, <1>5, <2>1, <2>3 DEF L!Tokens, L!Leaked
  <2>8. L!Tokens' = L!Least(full, h + e * m)
    BY <1>3, <2>4, <2>5 DEF L!Tokens, L!NoBucket, L!Least
  <2>9. L!Leaked' = IF h - e * m < 0 THEN 0 ELSE h - e * m
    BY <1>3, <2>4, <2>5 DEF L!Leaked, L!NoBucket
  <2>10. PICK k, k1 : k = d * m /\ k1 = e * m
    OBVIOUS
  <2>11. L!Tokens' \in Nat /\ L!Tokens' <= L!Tokens + m /\ L!Tokens' <= full
    BY <1>1, <1>2, <2>2, <2>6, <2>7, <2>8, <2>10 DEF L!Least
  <2>12. L!Leaked' \in Nat /\ L!Leaked <= L!Leaked' + m
    BY <1>1, <1>2, <2>2, <2>6, <2>7, <2>9, <2>10
  <2>13. QED BY <1>2, <2>11, <2>12
<1>6. QED BY <1>4, <1>5

LEMMA StepTick ==
    ASSUME LimiterCore, L!Tick
    PROVE  LimiterCore'
<1>1. L!TypeOK /\ L!HistoryIsTrue
  BY DEF LimiterCore
<1>2. PICK m, now, n, full : m = v1.limit /\ now = v2 /\ n = v2 + 1 /\ full = L!Full
  OBVIOUS
<1>3. /\ v2' = n /\ now < ClockEnd /\ UNCHANGED <<v1, v3, v4, v6, v7>>
      /\ v5' = IF n % Window = 0 THEN 0 ELSE v5
  BY <1>2 DEF L!Tick
<1>4. /\ m \in Nat /\ now \in Nat /\ n \in Nat /\ n = now + 1 /\ n \in L!Times /\ now \in L!Times
      /\ full \in Nat /\ Window \in Nat /\ Window > 0 /\ v6 \in Nat /\ v6 <= now
      /\ v1.algorithm \in L!Algorithm
      /\ \A t : t \in L!Times <=> t \in Nat /\ t <= ClockEnd
  <2>1. /\ m \in Nat /\ now \in Nat /\ now \in L!Times /\ full \in Nat /\ v6 \in Nat
        /\ v1.algorithm \in L!Algorithm
        /\ \A t : t \in L!Times <=> t \in Nat /\ t <= ClockEnd
    BY <1>1, <1>2, LimiterShapes
  <2>2. n \in Nat /\ n = now + 1 /\ n <= ClockEnd
    BY <1>2, <1>3, <2>1, ServicesAssumption
  <2>3. v6 <= now
    BY <1>1, <1>2 DEF L!HistoryIsTrue
  <2>4. QED BY <2>1, <2>2, <2>3, ServicesAssumption
<1>5. L!Full' = full /\ v1'.limit = m
  BY <1>2, <1>3 DEF L!Full
<1>6. L!TypeOK'
  <2>1. v5' \in 0..(m + 1)
    BY <1>1, <1>2, <1>3, <1>4 DEF L!TypeOK
  <2>2. QED BY <1>1, <1>2, <1>3, <1>4, <1>5, <2>1 DEF L!TypeOK, L!Times, L!NoBucket
<1>7. L!HistoryIsTrue'
  <2>1. /\ \A s, t \in L!Times : s <= t => v7[s] <= v7[t]
        /\ \A t \in L!Times : t >= now => v7[t] = v7[now]
    BY <1>1, <1>2 DEF L!HistoryIsTrue
  <2>2. \A t \in L!Times : t >= n => v7[t] = v7[n]
    <3>1. \A t \in L!Times : t >= n => t >= now
      BY <1>4
    <3>2. v7[n] = v7[now]
      BY <1>4, <2>1, <3>1
    <3>3. QED BY <2>1, <3>1, <3>2
  <2>3. v6' <= v2'
    BY <1>3, <1>4
  <2>4. v3 # L!NoBucket => /\ v3.last = v6
                           /\ v1.algorithm \in {"TOKEN_BUCKET", "LEAKY_BUCKET"}
    BY <1>1 DEF L!HistoryIsTrue
  <2>5. QED BY <1>3, <2>1, <2>2, <2>3, <2>4 DEF L!HistoryIsTrue, L!Times, L!NoBucket
<1>8. ASSUME NEW a \in 0..n
      PROVE  /\ L!GrantedIn(a, n)' = IF a = n THEN 0 ELSE L!GrantedIn(a, now)
             /\ a # n => a \in 0..now /\ L!GrantedIn(a, now) \in Nat
  <2>1. L!GrantedIn(a, n)' = L!GrantedIn(a, n)
    BY <1>3 DEF L!GrantedIn
  <2>2. L!GrantedIn(a, n) = IF a <= now THEN L!GrantedIn(a, now) ELSE 0
    BY <1>1, <1>2, <1>4, GrantedForms
  <2>3. a <= now <=> a # n
    BY <1>4
  <2>4. a # n => a \in 0..now
    BY <1>4
  <2>5. a # n => L!GrantedIn(a, now) \in Nat
    BY <1>1, <1>4, <2>4, GrantedForms
  <2>6. QED BY <2>1, <2>2, <2>3, <2>4, <2>5
<1>9. L!TokensAreTrue'
  <2> SUFFICES ASSUME v1.algorithm = "TOKEN_BUCKET", v1.burst <= m, NEW a \in 0..n
               PROVE  (L!GrantedIn(a, n) * Window)' + L!Tokens' <= full + (n - a) * m
    BY <1>2, <1>3, <1>5 DEF L!TokensAreTrue, L!GrantedIn
  <2>1. L!Tokens' \in Nat /\ L!Tokens' <= L!Tokens + m /\ L!Tokens' <= full /\ L!Tokens \in Nat
    BY <1>2, <1>3, LevelsLater, Levels
  <2>2. CASE a = n
    <3>1. (L!GrantedIn(a, n) * Window)' = 0
      <4>1. L!GrantedIn(a, n)' = 0
        BY <1>8, <2>2
      <4>2. QED BY <1>4, <4>1
    <3>2. (n - a) * m = 0
      BY <1>4, <2>2
    <3>3. QED BY <1>4, <2>1, <3>1, <3>2
  <2>3. CASE a # n
    <3>1. PICK g : g = L!GrantedIn(a, now)
      OBVIOUS
    <3>2. a \in 0..now /\ g \in Nat /\ L!GrantedIn(a, n)' = g
      BY <1>8, <2>3, <3>1
    <3>3. g * Window + L!Tokens <= full + (now - a) * m
      BY <1>2, <3>1, <3>2 DEF LimiterCore, L!TokensAreTrue
    <3>4. (n - a) * m = (now - a) * m + m /\ (now - a) * m \in Int
      <4>1. n - a = (now - a) + 1 /\ now - a \in Int
        BY <1>4
      <4>2. ((now - a) + 1) * m = (now - a) * m + 1 * m /\ (now - a) * m \in Int
        BY <1>4, <4>1, Products
      <4>3. 1 * m = m
        BY <1>4
      <4>4. QED BY <4>1, <4>2, <4>3
    <3>5. g * Window \in Int
      BY <1>4, <3>2, Products
    <3>6. g * Window + L!Tokens' <= full + (n - a) * m
      <4>1. PICK x, y, z : x = g * Window /\ y = (now - a) * m /\ z = (n - a) * m
        OBVIOUS
      <4>2. x \in Int /\ y \in Int /\ z = y + m /\ x + L!Tokens <= full + y
        BY <3>3, <3>4, <3>5, <4>1
      <4>3. PICK j, k : j = L!Tokens /\ k = L!Tokens'
        OBVIOUS
      <4>4. /\ j \in Nat /\ k \in Nat /\ m \in Nat /\ full \in Nat
            /\ k <= j + m /\ x + j <= full + y
        BY <1>4, <2>1, <4>2, <4>3
      <4>5. x + k <= full + z
        BY <4>2, <4>4
      <4>6. QED BY <4>1, <4>3, <4>5
    <3>7. QED BY <3>2, <3>6
  <2>4. QED BY <2>2, <2>3
<1>10. L!LeakIsTrue'
  <2> SUFFICES ASSUME v1.algorithm = "LEAKY_BUCKET" PROVE L!LeakIsTrue'
    BY <1>3 DEF L!LeakIsTrue
  <2>1. L!Leaked' \in Nat /\ L!Leaked <= L!Leaked' + m /\ L!Leaked \in Nat
    BY <1>2, <1>3, LevelsLater, Levels
  <2>2. ASSUME NEW a \in 0..n
        PROVE  (L!GrantedIn(a, n) * Window)' <= L!Leaked' + (n - a) * m
    <3>1. CASE a = n
      <4>1. (L!GrantedIn(a, n) * Window)' = 0
        <5>1. L!GrantedIn(a, n)' = 0
          BY <1>8, <3>1
        <5>2. QED BY <1>4, <5>1
      <4>2. (n - a) * m = 0
        BY <1>4, <3>1
      <4>3. QED BY <2>1, <4>1, <4>2
    <3>2. CASE a # n
      <4>1. PICK g : g = L!GrantedIn(a, now)
        OBVIOUS
      <4>2. a \in 0..now /\ g \in Nat /\ L!GrantedIn(a, n)' = g
        BY <1>8, <3>2, <4>1
      <4>3. g * Window <= L!Leaked + (now - a) * m
        BY <1>2, <4>1, <4>2 DEF LimiterCore, L!LeakIsTrue
      <4>4. (n - a) * m = (now - a) * m + m /\ (now - a) * m \in Int
        <5>1. n - a = (now - a) + 1 /\ now - a \in Int
          BY <1>4
        <5>2. ((now - a) + 1) * m = (now - a) * m + 1 * m /\ (now - a) * m \in Int
          BY <1>4, <5>1, Products
        <5>3. 1 * m = m
          BY <1>4
        <5>4. QED BY <5>1, <5>2, <5>3
      <4>5. g * Window \in Int
        BY <1>4, <4>2, Products
      <4>6. g * Window <= L!Leaked' + (n - a) * m
        <5>1. PICK x, y, z : x = g * Window /\ y = (now - a) * m /\ z = (n - a) * m
          OBVIOUS
        <5>2. x \in Int /\ y \in Int /\ z = y + m /\ x <= L!Leaked + y
          BY <4>3, <4>4, <4>5, <5>1
        <5>3. PICK j, k : j = L!Leaked /\ k = L!Leaked'
          OBVIOUS
        <5>4. j \in Nat /\ k \in Nat /\ m \in Nat /\ j <= k + m /\ x <= j + y
          BY <1>4, <2>1, <5>2, <5>3
        <5>5. x <= k + z
          BY <5>2, <5>4
        <5>6. QED BY <5>1, <5>3, <5>5
      <4>7. QED BY <4>2, <4>6
    <3>3. QED BY <3>1, <3>2
  <2>3. v3 # L!NoBucket => v3.level < (m + 1) * Window /\ v3.level <= 2 * m * Window
    BY <1>2 DEF LimiterCore, L!LeakIsTrue
  <2>4. QED BY <1>2, <1>3, <1>5, <2>2, <2>3 DEF L!LeakIsTrue, L!GrantedIn, L!NoBucket
<1>11. ASSUME NEW a \in 0..n
       PROVE  /\ L!BusyTicks(a, n)' \subseteq L!BusyTicks(a, now)
              /\ a = n => L!BusyTicks(a, n)' = {}
  <2>1. ASSUME NEW t \in L!BusyTicks(a, n)' PROVE t \in L!BusyTicks(a, now) /\ a # n
    <3>1. t \in a..n /\ L!GrantedIn(t, t)' > 0
      BY <2>1 DEF L!BusyTicks
    <3>2. t \in 0..n
      BY <1>4, <3>1
    <3>3. t # n
      <4>1. L!GrantedIn(n, n)' = 0
        BY <1>4, <1>8
      <4>2. QED BY <3>1, <4>1
    <3>4. t \in a..now /\ a # n
      BY <1>4, <3>1, <3>3
    <3>5. L!GrantedIn(t, t)' = L!GrantedIn(t, t)
      BY <1>3 DEF L!GrantedIn
    <3>6. QED BY <3>1, <3>4, <3>5 DEF L!BusyTicks
  <2>2. QED BY <2>1
<1>12. L!EntriesAreTrue'
  <2> SUFFICES ASSUME v1.algorithm = "SLIDING_WINDOW" PROVE L!EntriesAreTrue'
    BY <1>3 DEF L!EntriesAreTrue
  <2>1. ASSUME NEW t \in L!BusyTicks(0, n)' PROVE t <= v6 /\ (t > n - Window => t \in v4)
    <3>1. t \in L!BusyTicks(0, now)
      BY <1>4, <1>11, <2>1
    <3>2. t <= v6 /\ (t > now - Window => t \in v4)
      BY <1>2, <3>1 DEF LimiterCore, L!EntriesAreTrue
    <3>3. t \in Int
      BY <1>1, <1>4, <3>1, BusyIs
    <3>4. QED BY <1>4, <3>2, <3>3
  <2>2. ASSUME NEW a \in 0..n, n - a < Window PROVE L!Cardinality(L!BusyTicks(a, n)') <= m
    <3>1. PICK busy : busy = L!BusyTicks(a, n)'
      OBVIOUS
    <3>2. CASE a = n
      <4>1. busy = {}
        BY <1>11, <3>1, <3>2
      <4>2. Cardinality(busy) = 0
        BY <4>1, FS_EmptySet
      <4>3. L!Cardinality(busy) = Cardinality(busy)
        BY SameCounts
      <4>4. QED BY <1>4, <3>1, <4>2, <4>3
    <3>3. CASE a # n
      <4>1. a \in 0..now /\ now - a < Window
        BY <1>4, <2>2, <3>3
      <4>2. PICK old : old = L!BusyTicks(a, now)
        OBVIOUS
      <4>3. L!Cardinality(old) <= m
        BY <1>2, <4>1, <4>2 DEF LimiterCore, L!EntriesAreTrue
      <4>4. IsFiniteSet(old)
        BY <1>1, <1>4, <4>1, <4>2, BusyIs
      <4>5. busy \subseteq old
        BY <1>11, <3>1, <4>2
      <4>6. Cardinality(busy) <= Cardinality(old) /\ IsFiniteSet(busy)
        BY <4>4, <4>5, FS_Subset
      <4>7. Cardinality(busy) \in Nat /\ Cardinality(old) \in Nat
        BY <4>4, <4>6, FS_CardinalityType
      <4>8. L!Cardinality(busy) = Cardinality(busy) /\ L!Cardinality(old) = Cardinality(old)
        BY SameCounts
      <4>9. L!Cardinality(busy) <= m
        BY <1>4, <4>3, <4>6, <4>7, <4>8
      <4>10. QED BY <3>1, <4>9
    <3>4. QED BY <3>2, <3>3
  <2>3. \A a \in 0..n : L!BusyTicks(a, v2)' = L!BusyTicks(a, n)'
    BY <1>3 DEF L!BusyTicks
  <2>4. \A t \in L!BusyTicks(0, v2)' : t <= v6' /\ (t > v2' - Window => t \in v4')
    BY <1>3, <1>4, <2>1, <2>3
  <2>5. \A a \in 0..v2' : v2' - a < Window => (L!Cardinality(L!BusyTicks(a, v2)) <= v1.limit)'
    BY <1>3, <1>5, <2>2, <2>3
  <2>6. QED BY <2>4, <2>5 DEF L!EntriesAreTrue
<1>13. L!CountIsTrue'
  <2> SUFFICES ASSUME v1.algorithm = "FIXED_WINDOW", NEW a \in 0..n,
                      a \div Window = n \div Window
               PROVE  L!GrantedIn(a, n)' <= L!Least(v5', m)
    BY <1>3, <1>5 DEF L!CountIsTrue, L!GrantedIn, L!Least
  <2>1. v5 \in Nat /\ v5' \in Nat
    BY <1>1, <1>2, <1>3, <1>4 DEF L!TypeOK
  <2>2. CASE a = n
    <3>1. L!GrantedIn(a, n)' = 0
      BY <1>8, <2>2
    <3>2. QED BY <1>4, <2>1, <3>1 DEF L!Least
  <2>3. CASE a # n
    <3>1. a \in 0..now /\ L!GrantedIn(a, n)' = L!GrantedIn(a, now)
      BY <1>8, <2>3
    <3>2. n % Window # 0 /\ now \div Window = n \div Window
      BY <1>4, <3>1, NextWindow
    <3>3. L!GrantedIn(a, now) <= L!Least(v5, m)
      BY <1>2, <3>1, <3>2 DEF LimiterCore, L!CountIsTrue
    <3>4. v5' = v5
      BY <1>3, <3>2
    <3>5. QED BY <3>1, <3>3, <3>4
  <2>4. QED BY <2>2, <2>3
<1>14. QED BY <1>6, <1>7, <1>9, <1>10, <1>12, <1>13 DEF LimiterCore

LEMMA StepExpire ==
    ASSUME LimiterCore, L!Expire
    PROVE  LimiterCore'
<1>1. L!TypeOK /\ L!HistoryIsTrue
  BY DEF LimiterCore
<1>2. PICK m, now, full : m = v1.limit /\ now = v2 /\ full = L!Full
  OBVIOUS
<1>3. /\ m \in Nat /\ now \in Nat /\ full \in Nat /\ v6 \in Nat /\ v1.burst \in Nat
      /\ Window \in Nat /\ Window > 0 /\ v1.algorithm \in L!Algorithm
  BY <1>1, <1>2, LimiterShapes, ServicesAssumption
<1>4. UNCHANGED <<v1, v2, v5, v6, v7>>
  BY DEF L!Expire
<1>5. /\ v3' = v3 \/ (v3' = L!NoBucket /\ v3 # L!NoBucket /\ now - v6 >= 2 * Window)
      /\ v4' = v4 \/ (v4' = {} /\ now - v6 >= Window)
  BY <1>2 DEF L!Expire
<1>6. L!Full' = full
  BY <1>2, <1>4 DEF L!Full
<1>7. L!TypeOK'
  BY <1>1, <1>2, <1>4, <1>5, <1>6 DEF L!TypeOK, L!Times, L!NoBucket
<1>8. L!HistoryIsTrue'
  <2>1. v3' # L!NoBucket => v3 # L!NoBucket /\ v3' = v3
    BY <1>5
  <2>2. QED BY <1>1, <1>4, <2>1 DEF L!HistoryIsTrue, L!Times, L!NoBucket
<1>9. \A a, b : L!GrantedIn(a, b)' = L!GrantedIn(a, b)
  BY <1>4 DEF L!GrantedIn
<1>10. ASSUME v1.algorithm \in {"TOKEN_BUCKET", "LEAKY_BUCKET"},
              v3' = L!NoBucket, v3 # L!NoBucket, now - v6 >= 2 * Window
       PROVE  /\ v1.burst <= m => L!Tokens = full
              /\ v3.level <= 2 * m * Window => L!Leaked = 0
  <2>1. PICK d, h : d = v2 - v3.last /\ h = v3.level
    OBVIOUS
  <2>2. d \in Nat /\ h \in Nat /\ d * m \in Nat /\ d >= 2 * Window
    <3>1. v3.last = v6 /\ d \in Nat /\ h \in Nat /\ d * m \in Nat
      BY <1>2, <1>10, <2>1, Levels
    <3>2. QED BY <1>2, <1>10, <2>1, <3>1
  <2>3. PICK k : k = m * Window
    OBVIOUS
  <2>4. k \in Nat /\ 2 * m * Window = k + k /\ (2 * Window) * m = k + k
    <3>1. 2 * m = m + m /\ 2 * Window = Window + Window
      BY <1>3
    <3>2. (m + m) * Window = k + k /\ k \in Int
      BY <1>3, <2>3, Products
    <3>3. (Window + Window) * m = k + k
      <4>1. (Window + Window) * m = Window * m + Window * m
        BY <1>3, Products
      <4>2. Window * m = m * Window
        BY <1>3
      <4>3. QED BY <2>3, <4>1, <4>2
    <3>4. 0 * Window = 0 /\ 0 * Window <= m * Window
      BY <1>3, Grows
    <3>5. QED BY <2>3, <3>1, <3>2, <3>3, <3>4
  <2>5. k + k <= d * m
    <3>1. 2 * Window \in Int
      BY <1>3
    <3>2. (2 * Window) * m <= d * m
      BY <1>3, <2>2, <3>1, Grows
    <3>3. QED BY <2>4, <3>2
  <2>6. ASSUME v1.burst <= m PROVE L!Tokens = full
    <3>1. full = (m + v1.burst) * Window
      BY <1>2 DEF L!Full
    <3>2. (m + v1.burst) * Window <= (m + m) * Window
      <4>1. m + v1.burst \in Int /\ m + m \in Int /\ m + v1.burst <= m + m
        BY <1>3, <2>6
      <4>2. QED BY <1>3, <4>1, Grows
    <3>3. (m + m) * Window = k + k
      BY <1>3, <2>3, Products
    <3>4. full <= h + d * m
      BY <1>3, <2>2, <2>4, <2>5, <3>1, <3>2, <3>3
    <3>5. L!Tokens = L!Least(full, h + d * m)
      BY <1>2, <1>10, <2>1 DEF L!Tokens
    <3>6. QED BY <1>3, <2>2, <3>4, <3>5 DEF L!Least
  <2>7. ASSUME v3.level <= 2 * m * Window PROVE L!Leaked = 0
    <3>1. h <= d * m
      BY <2>1, <2>2, <2>4, <2>5, <2>7
    <3>2. L!Leaked = IF h - d * m < 0 THEN 0 ELSE h - d * m
      BY <1>2, <1>10, <2>1 DEF L!Leaked
    <3>3. QED BY <2>2, <3>1, <3>2
  <2>8. QED BY <2>6, <2>7
<1>11. L!TokensAreTrue'
  <2> SUFFICES ASSUME v1.algorithm = "TOKEN_BUCKET", v1.burst <= m, NEW a \in 0..now
               PROVE  L!GrantedIn(a, now) * Window + L!Tokens' <= full + (now - a) * m
    BY <1>2, <1>4, <1>6, <1>9 DEF L!TokensAreTrue
  <2>1. L!Tokens' = L!Tokens
    <3>1. CASE v3' = v3
      BY <1>4, <1>6, <1>2, <3>1 DEF L!Tokens, L!NoBucket, L!Least
    <3>2. CASE v3' = L!NoBucket /\ v3 # L!NoBucket /\ now - v6 >= 2 * Window
      <4>1. L!Tokens' = full
        BY <1>6, <3>2 DEF L!Tokens, L!NoBucket
      <4>2. QED BY <1>10, <3>2, <4>1
    <3>3. QED BY <1>5, <3>1, <3>2
  <2>2. QED BY <1>2, <2>1 DEF LimiterCore, L!TokensAreTrue
<1>12. L!LeakIsTrue'
  <2> SUFFICES ASSUME v1.algorithm = "LEAKY_BUCKET" PROVE L!LeakIsTrue'
    BY <1>4 DEF L!LeakIsTrue
  <2>1. v3 # L!NoBucket => v3.level < (m + 1) * Window /\ v3.level <= 2 * m * Window
    BY <1>2 DEF LimiterCore, L!LeakIsTrue
  <2>2. L!Leaked' = L!Leaked
    <3>1. CASE v3' = v3
      BY <1>4, <3>1 DEF L!Leaked, L!NoBucket
    <3>2. CASE v3' = L!NoBucket /\ v3 # L!NoBucket /\ now - v6 >= 2 * Window
      <4>1. L!Leaked' = 0
        BY <3>2 DEF L!Leaked, L!NoBucket
      <4>2. QED BY <1>10, <2>1, <3>2, <4>1
    <3>3. QED BY <1>5, <3>1, <3>2
  <2>3. \A a \in 0..now : L!GrantedIn(a, now) * Window <= L!Leaked + (now - a) * m
    BY <1>2 DEF LimiterCore, L!LeakIsTrue
  <2>4. v3' # L!NoBucket => v3'.level < (m + 1) * Window /\ v3'.level <= 2 * m * Window
    BY <1>5, <2>1
  <2>5. \A a \in 0..v2' : (L!GrantedIn(a, v2) * Window)' <= L!Leaked' + (v2' - a) * m
    BY <1>2, <1>4, <1>9, <2>2, <2>3
  <2>6. QED BY <1>2, <1>4, <2>4, <2>5 DEF L!LeakIsTrue, L!NoBucket
<1>13. \A a, b : L!BusyTicks(a, b)' = L!BusyTicks(a, b)
  BY <1>9 DEF L!BusyTicks
<1>14. L!EntriesAreTrue'
  <2> SUFFICES ASSUME v1.algorithm = "SLIDING_WINDOW" PROVE L!EntriesAreTrue'
    BY <1>4 DEF L!EntriesAreTrue
  <2>1. \A t \in L!BusyTicks(0, now) : t <= v6 /\ (t > now - Window => t \in v4)
    BY <1>2 DEF LimiterCore, L!EntriesAreTrue
  <2>2. ASSUME NEW t \in L!BusyTicks(0, now), t > now - Window PROVE t \in v4'
    <3>1. t \in Int /\ t <= v6 /\ t \in v4
      BY <1>1, <1>3, <2>1, <2>2, BusyIs
    <3>2. ~(now - v6 >= Window)
      BY <1>3, <2>2, <3>1
    <3>3. QED BY <1>5, <3>1, <3>2
  <2>3. \A a \in 0..now : now - a < Window => L!Cardinality(L!BusyTicks(a, now)) <= m
    BY <1>2 DEF LimiterCore, L!EntriesAreTrue
  <2>4. \A t \in L!BusyTicks(0, v2)' : t <= v6' /\ (t > v2' - Window => t \in v4')
    BY <1>2, <1>4, <1>13, <2>1, <2>2
  <2>5. \A a \in 0..v2' : v2' - a < Window => (L!Cardinality(L!BusyTicks(a, v2)) <= v1.limit)'
    BY <1>2, <1>4, <1>13, <2>3
  <2>6. QED BY <2>4, <2>5 DEF L!EntriesAreTrue
<1>15. L!CountIsTrue'
  BY <1>4, <1>9 DEF LimiterCore, L!CountIsTrue, L!Least
<1>16. QED BY <1>7, <1>8, <1>11, <1>12, <1>14, <1>15 DEF LimiterCore

LEMMA InitLimiter == L!Init => LimiterCore
<1> SUFFICES ASSUME L!Init PROVE LimiterCore
  OBVIOUS
<1>1. /\ v1 \in Policies /\ v2 = 0 /\ v6 = 0 /\ v5 = 0 /\ v4 = {} /\ v3 = L!NoBucket
      /\ v7 = [t \in L!Times |-> 0] /\ 0 \in L!Times
  BY ServicesAssumption DEF L!Init, L!Times
<1>2. v1.limit \in Nat
  BY <1>1, ServicesAssumption
<1>3. L!TypeOK
  <2>1. v7 \in [L!Times -> Nat]
    BY <1>1
  <2>2. v5 \in 0..(v1.limit + 1)
    BY <1>1, <1>2
  <2>3. QED BY <1>1, <2>1, <2>2 DEF L!TypeOK
<1>4. L!HistoryIsTrue
  BY <1>1 DEF L!HistoryIsTrue
<1>5. L!GrantedIn(0, 0) = 0
  BY <1>1 DEF L!GrantedIn
<1>6. L!Full \in Nat
  BY <1>3, LimiterShapes
<1>7. \A a \in 0..v2 : a = 0
  BY <1>1
<1>8. 0 * v1.limit = 0 /\ 0 * Window = 0 /\ v2 - 0 = 0
  BY <1>1, <1>2, ServicesAssumption
<1>9. L!TokensAreTrue
  <2>1. L!Tokens = L!Full
    BY <1>1 DEF L!Tokens
  <2>2. 0 * Window + L!Full <= L!Full + 0 * v1.limit
    BY <1>6, <1>8
  <2>3. QED BY <1>1, <1>5, <1>7, <1>8, <2>1, <2>2 DEF L!TokensAreTrue
<1>10. L!LeakIsTrue
  <2>1. L!Leaked = 0
    BY <1>1 DEF L!Leaked
  <2>2. QED BY <1>1, <1>5, <1>7, <1>8, <2>1 DEF L!LeakIsTrue
<1>11. L!EntriesAreTrue
  <2>1. L!BusyTicks(0, v2) = {}
    <3>1. ASSUME NEW t \in L!BusyTicks(0, v2) PROVE FALSE
      <4>1. t \in 0..v2 /\ L!GrantedIn(t, t) > 0
        BY <3>1 DEF L!BusyTicks
      <4>2. QED BY <1>5, <1>7, <4>1
    <3>2. QED BY <3>1
  <2>2. L!Cardinality({}) = 0
    BY FS_EmptySet, SameCounts
  <2>3. QED BY <1>2, <1>7, <2>1, <2>2 DEF L!EntriesAreTrue
<1>12. L!CountIsTrue
  BY <1>1, <1>2, <1>5, <1>7 DEF L!CountIsTrue, L!Least
<1>13. QED BY <1>3, <1>4, <1>9, <1>10, <1>11, <1>12 DEF LimiterCore

LEMMA StepCheckRateLimit ==
    ASSUME LimiterCore, L!CheckRateLimit
    PROVE  LimiterCore' /\ \E yes \in BOOLEAN : L!Answer(yes)
<1>1. v1.algorithm \in L!Algorithm
  BY LimiterShapes DEF LimiterCore
<1>2. CASE v1.algorithm = "TOKEN_BUCKET"
  <2>1. L!TokenBucket
    BY <1>2 DEF L!CheckRateLimit
  <2>2. QED BY <1>2, <2>1, StepTokenBucket
<1>3. CASE v1.algorithm = "LEAKY_BUCKET"
  <2>1. L!LeakyBucket
    BY <1>3 DEF L!CheckRateLimit
  <2>2. QED BY <1>3, <2>1, StepLeakyBucket
<1>4. CASE v1.algorithm = "SLIDING_WINDOW"
  <2>1. L!SlidingWindow
    BY <1>4 DEF L!CheckRateLimit
  <2>2. QED BY <1>4, <2>1, StepSlidingWindow
<1>5. CASE v1.algorithm = "FIXED_WINDOW"
  <2>1. L!FixedWindow
    BY <1>5 DEF L!CheckRateLimit
  <2>2. QED BY <1>5, <2>1, StepFixedWindow
<1>6. QED BY <1>1, <1>2, <1>3, <1>4, <1>5 DEF L!Algorithm

(* A check changes nothing of the ticks before it. *)
LEMMA PastStays ==
    ASSUME LimiterCore, LimiterCore', NEW yes \in BOOLEAN, L!Answer(yes), L!AllowanceHolds
    PROVE  \A b \in L!Times : b < v2 => \A a \in 0..b : L!Promised(a, b)'
<1>1. /\ L!TypeOK /\ L!HistoryIsTrue /\ v1' = v1 /\ v2' = v2 /\ v6' = v2
      /\ v2 \in Nat
      /\ \A t : t \in L!Times <=> t \in Nat /\ t <= ClockEnd
  BY LimiterShapes DEF LimiterCore, L!Answer
<1>2. v3' # L!NoBucket => v3'.last = v2 /\ v1.algorithm \in {"TOKEN_BUCKET", "LEAKY_BUCKET"}
  BY <1>1 DEF LimiterCore, L!HistoryIsTrue, L!NoBucket
<1>3. \A b \in L!Times : \A a \in 0..b : b < v2 => L!GrantedIn(a, b)' = L!GrantedIn(a, b)
  BY <1>1, <1>2, AnswerIs
<1>4. ASSUME NEW b \in L!Times, b < v2, NEW a \in 0..b PROVE L!Promised(a, b)'
  <2>1. L!Promised(a, b)
    BY <1>4 DEF L!AllowanceHolds
  <2>2. L!GrantedIn(a, b)' = L!GrantedIn(a, b)
    BY <1>3, <1>4
  <2>3. L!BusyTicks(a, b)' = L!BusyTicks(a, b)
    <3>1. ASSUME NEW t \in a..b PROVE L!GrantedIn(t, t)' = L!GrantedIn(t, t)
      <4>1. t \in Nat /\ t <= b /\ b \in Nat /\ b <= ClockEnd
        BY <1>1, <3>1
      <4>2. t \in L!Times /\ t \in 0..t /\ t < v2
        BY <1>1, <1>4, <4>1, ServicesAssumption
      <4>3. QED BY <1>3, <4>2
    <3>2. QED BY <3>1 DEF L!BusyTicks
  <2>4. L!Full' = L!Full
    BY <1>1 DEF L!Full
  <2>5. QED BY <1>1, <2>1, <2>2, <2>3, <2>4 DEF L!Promised
<1>5. QED BY <1>4

LEMMA StepAllowance ==
    LimiterCore /\ L!AllowanceHolds /\ [L!Next]_(L!vars) => LimiterCore' /\ L!AllowanceHolds'
<1> SUFFICES ASSUME LimiterCore, L!AllowanceHolds, [L!Next]_(L!vars)
             PROVE  LimiterCore' /\ L!AllowanceHolds'
  OBVIOUS
<1>1. (LimiterCore => PromisedAfter)'
  BY Future, PTL
<1>2. CASE L!CheckRateLimit
  <2>1. PICK yes \in BOOLEAN : LimiterCore' /\ L!Answer(yes)
    BY <1>2, StepCheckRateLimit
  <2>2. \A b \in L!Times : b < v2 => \A a \in 0..b : L!Promised(a, b)'
    BY <2>1, PastStays
  <2>3. \A b \in L!Times : b >= v2 => \A a \in 0..b : L!Promised(a, b)'
    <3>1. v2' = v2
      BY <2>1 DEF L!Answer
    <3>2. QED BY <1>1, <2>1, <3>1 DEF PromisedAfter, L!Times
  <2>4. \A b \in L!Times : b < v2 \/ b >= v2
    BY LimiterShapes DEF LimiterCore
  <2>5. QED BY <2>1, <2>2, <2>3, <2>4 DEF L!AllowanceHolds, L!Times
<1>3. ASSUME UNCHANGED <<v1, v7>> PROVE L!AllowanceHolds'
  <2>1. \A a, b : L!GrantedIn(a, b)' = L!GrantedIn(a, b)
    BY <1>3 DEF L!GrantedIn
  <2>2. \A a, b : L!BusyTicks(a, b)' = L!BusyTicks(a, b)
    BY <2>1 DEF L!BusyTicks
  <2>3. L!Full' = L!Full
    BY <1>3 DEF L!Full
  <2>4. \A a, b : L!Promised(a, b) => L!Promised(a, b)'
    BY <1>3, <2>1, <2>2, <2>3 DEF L!Promised
  <2>5. QED BY <2>4 DEF L!AllowanceHolds, L!Times
<1>4. CASE L!Tick
  BY <1>3, <1>4, StepTick DEF L!Tick
<1>5. CASE L!Expire
  BY <1>3, <1>5, StepExpire DEF L!Expire
<1>6. CASE UNCHANGED L!vars
  <2>1. UNCHANGED <<v1, v2, v3, v4, v5, v6, v7>>
    BY <1>6 DEF L!vars
  <2>2. \A a, b : L!GrantedIn(a, b)' = L!GrantedIn(a, b)
    BY <2>1 DEF L!GrantedIn
  <2>3. \A a, b : L!BusyTicks(a, b)' = L!BusyTicks(a, b)
    BY <2>2 DEF L!BusyTicks
  <2>4. L!Full' = L!Full
    BY <2>1 DEF L!Full
  <2>5. L!Tokens' = L!Tokens /\ L!Leaked' = L!Leaked
    BY <2>1, <2>4 DEF L!Tokens, L!Leaked, L!NoBucket, L!Least
  <2>6. L!TypeOK' /\ L!HistoryIsTrue'
    BY <2>1, <2>4 DEF LimiterCore, L!TypeOK, L!HistoryIsTrue, L!Times, L!NoBucket
  <2>7. L!TokensAreTrue' /\ L!LeakIsTrue'
    BY <2>1, <2>2, <2>4, <2>5 DEF LimiterCore, L!TokensAreTrue, L!LeakIsTrue, L!NoBucket
  <2>8. L!EntriesAreTrue' /\ L!CountIsTrue'
    BY <2>1, <2>2, <2>3 DEF LimiterCore, L!EntriesAreTrue, L!CountIsTrue, L!Least
  <2>9. QED BY <1>3, <2>1, <2>6, <2>7, <2>8 DEF LimiterCore
<1>7. QED BY <1>2, <1>4, <1>5, <1>6 DEF L!Next

LEMMA LimiterSubject ==
    /\ MCInit /\ subject = "limits" => L!Init
    /\ [MCNext]_all => UNCHANGED subject
    /\ [MCNext]_all /\ subject = "limits" => [L!Next]_(L!vars)
<1>1. MCInit /\ subject = "limits" => L!Init
  BY DEF MCInit
<1>2. [MCNext]_all => UNCHANGED subject
  BY DEF MCNext, all
<1>3. [MCNext]_all /\ subject = "limits" => [L!Next]_(L!vars)
  BY DEF MCNext, all, L!vars
<1>4. QED BY <1>1, <1>2, <1>3

(* Whatever the policy, however requests come and whenever the key expires, *)
(* no interval has more allowed requests than its algorithm promises        *)
(* (RateLimiterService and the four algorithms). *)
THEOREM AllowanceIsKept == MCSpec => []AllowanceHolds
<1> DEFINE Inv == subject = "limits" => L!TypeOK /\ L!LimiterInv
<1>1. MCInit => Inv
  <2>1. L!Init => LimiterCore /\ L!AllowanceHolds
    <3>1. L!Init => v2 = 0 /\ LimiterCore /\ PromisedAfter
      BY InitLimiter, Future DEF L!Init
    <3>2. \A b \in L!Times : b >= 0
      BY DEF L!Times
    <3>3. QED BY <3>1, <3>2 DEF PromisedAfter, L!AllowanceHolds
  <2>2. QED BY <2>1, LimiterSubject DEF LimiterCore, L!LimiterInv
<1>2. Inv /\ [MCNext]_all => Inv'
  BY LimiterSubject, StepAllowance DEF LimiterCore, L!LimiterInv
<1>3. Inv => AllowanceHolds
  BY DEF AllowanceHolds, L!LimiterInv
<1>4. QED
  BY <1>1, <1>2, <1>3, PTL DEF MCSpec

-----------------------------------------------------------------------------
(* The validator of submitted workflows *)

(* A graph is the input the assumption describes, and it is finite. *)
LEMMA GraphFacts ==
    ASSUME graph \in Graphs
    PROVE  /\ graph.order \in Seq(Ids)
           /\ DOMAIN graph.order = 1..Len(graph.order) /\ Len(graph.order) \in Nat
           /\ \A i, j \in DOMAIN graph.order : graph.order[i] = graph.order[j] => i = j
           /\ graph.deps \in [Known -> Seq(Ids)]
           /\ graph.order \in Seq(Known) /\ Elements(graph.order) = Known
           /\ IsFiniteSet(Known)
<1>1. /\ graph.order \in Seq(Ids)
      /\ \A i, j \in DOMAIN graph.order : graph.order[i] = graph.order[j] => i = j
      /\ graph.deps \in [Known -> Seq(Ids)]
  BY ValidatorAssumption DEF Known, Elements
<1>2. PICK s : s = graph.order
  OBVIOUS
<1>3. DOMAIN s = 1..Len(s) /\ Len(s) \in Nat
  BY <1>1, <1>2
<1>4. Known = {s[i] : i \in 1..Len(s)} /\ Elements(graph.order) = Known
  BY <1>2, <1>3 DEF Known, Elements
<1>5. s \in Seq(Known)
  <2>1. s \in Seq(Ids) /\ \A i \in 1..Len(s) : s[i] \in Known
    BY <1>1, <1>2, <1>4
  <2>2. QED BY <1>3, <2>1
<1>6. IsFiniteSet(Known)
  <2>1. IsFiniteSet(1..Len(s))
    BY <1>3, FS_Interval
  <2>2. s \in Surjection(1..Len(s), Known)
    BY <1>3, <1>4, <1>5 DEF Surjection
  <2>3. QED BY <2>1, <2>2, FS_Surjection
<1>7. QED BY <1>1, <1>2, <1>3, <1>4, <1>5, <1>6

(* Every rank up to the size of a finite set of numbers is the rank of a   *)
(* member. *)
LEMMA RankIsOnto ==
    ASSUME NEW K \in SUBSET Nat, IsFiniteSet(K), NEW k \in 1..Cardinality(K)
    PROVE  \E n \in K : Cardinality({m \in K : m <= n}) = k
<1> DEFINE UpTo(n) == {m \in K : m <= n}
           rank == [n \in K |-> Cardinality(UpTo(n))]
<1>1. Cardinality(K) \in Nat
  BY FS_CardinalityType
<1>2. \A n \in K : IsFiniteSet(UpTo(n)) /\ Cardinality(UpTo(n)) \in 1..Cardinality(K)
  <2> SUFFICES ASSUME NEW n \in K
               PROVE  IsFiniteSet(UpTo(n)) /\ Cardinality(UpTo(n)) \in 1..Cardinality(K)
    OBVIOUS
  <2>1. UpTo(n) \in SUBSET K /\ {n} \in SUBSET UpTo(n)
    OBVIOUS
  <2>2. IsFiniteSet(UpTo(n)) /\ Cardinality(UpTo(n)) <= Cardinality(K)
    BY <2>1, FS_Subset
  <2> HIDE DEF UpTo
  <2>3. Cardinality({n}) <= Cardinality(UpTo(n)) /\ Cardinality({n}) = 1
    BY <2>1, <2>2, FS_Subset, FS_Singleton
  <2>4. Cardinality(UpTo(n)) \in Nat
    BY <2>2, FS_CardinalityType
  <2>5. QED BY <1>1, <2>2, <2>3, <2>4
<1>3. ASSUME NEW m \in K, NEW n \in K, m < n PROVE rank[m] # rank[n]
  <2>0. m \in Nat /\ n \in Nat /\ \A l \in K : l \in Nat
    OBVIOUS
  <2>1. UpTo(m) \in SUBSET UpTo(n) /\ n \in UpTo(n) /\ n \notin UpTo(m)
    <3>1. \A l \in K : l <= m => l <= n
      BY <1>3, <2>0
    <3>2. n <= n /\ ~(n <= m)
      BY <1>3, <2>0
    <3>3. QED BY <3>1, <3>2
  <2> HIDE DEF UpTo
  <2>2. Cardinality(UpTo(m)) # Cardinality(UpTo(n))
    BY <1>2, <2>1, FS_Subset
  <2>3. QED BY <2>2
<1>4. rank \in [K -> 1..Cardinality(K)]
  BY <1>2
<1> HIDE DEF rank
<1>5. \A m, n \in K : rank[m] = rank[n] => m = n
  <2> SUFFICES ASSUME NEW m \in K, NEW n \in K, m # n PROVE rank[m] # rank[n]
    OBVIOUS
  <2>1. m < n \/ n < m
    OBVIOUS
  <2>2. QED BY <1>3, <2>1
<1>6. rank \in Injection(K, 1..Cardinality(K))
  BY <1>4, <1>5 DEF Injection, IsInjective
<1>7. IsFiniteSet(1..Cardinality(K)) /\ Cardinality(1..Cardinality(K)) = Cardinality(K)
  BY <1>1, FS_Interval
<1>8. rank \in Surjection(K, 1..Cardinality(K))
  BY <1>6, <1>7, FS_Injection
<1>9. \E n \in K : rank[n] = k
  BY <1>8 DEF Surjection
<1>10. QED BY <1>9 DEF rank

(* What is kept of a sequence. *)
LEMMA KeptFacts ==
    ASSUME NEW X, NEW s \in Seq(X), NEW T
    PROVE  /\ KeptOf(s, T) \in Seq(X)
           /\ Elements(KeptOf(s, T)) = Elements(s) \cap T
           /\ (\A i, j \in DOMAIN s : s[i] = s[j] => i = j)
                 => \A i, j \in DOMAIN KeptOf(s, T) : KeptOf(s, T)[i] = KeptOf(s, T)[j] => i = j
<1> DEFINE K == {i \in DOMAIN s : s[i] \in T}
           upTo(i) == Cardinality({j \in K : j <= i})
           nth(k) == CHOOSE i \in K : Cardinality({j \in K : j <= i}) = k
           t == [k \in 1..Cardinality(K) |-> s[nth(k)]]
<1>1. DOMAIN s = 1..Len(s) /\ Len(s) \in Nat
  OBVIOUS
<1>2. K \in SUBSET Nat /\ K \in SUBSET (1..Len(s)) /\ \A i \in DOMAIN s : i \in K <=> s[i] \in T
  BY <1>1
<1>0. KeptOf(s, T) = t
  BY DEF KeptOf
<1> HIDE DEF K
<1>3. IsFiniteSet(K) /\ Cardinality(K) \in Nat
  <2>1. IsFiniteSet(1..Len(s))
    BY <1>1, FS_Interval
  <2>2. QED BY <1>2, <2>1, FS_Subset, FS_CardinalityType
<1>4. ASSUME NEW k \in 1..Cardinality(K) PROVE nth(k) \in K /\ upTo(nth(k)) = k
  BY <1>2, <1>3, RankIsOnto
<1> HIDE DEF nth, upTo
<1>5. ASSUME NEW i \in K PROVE \E k \in 1..Cardinality(K) : nth(k) = i
  <2>1. PICK rank : rank = [k \in 1..Cardinality(K) |-> nth(k)]
    OBVIOUS
  <2>2. rank \in [1..Cardinality(K) -> K]
    BY <1>4, <2>1
  <2>3. \A k, l \in 1..Cardinality(K) : rank[k] = rank[l] => k = l
    BY <1>4, <2>1
  <2>4. rank \in Injection(1..Cardinality(K), K)
    BY <2>2, <2>3 DEF Injection, IsInjective
  <2>5. IsFiniteSet(1..Cardinality(K)) /\ Cardinality(1..Cardinality(K)) = Cardinality(K)
    BY <1>3, FS_Interval
  <2>6. rank \in Surjection(1..Cardinality(K), K)
    BY <1>3, <2>4, <2>5, FS_Injection
  <2>7. QED BY <2>1, <2>6 DEF Surjection
<1>6. \A k, l \in 1..Cardinality(K) : nth(k) = nth(l) => k = l
  BY <1>4
<1>7. \A k \in 1..Cardinality(K) : nth(k) \in 1..Len(s) /\ s[nth(k)] \in T
  BY <1>1, <1>2, <1>4
<1>8. DOMAIN t = 1..Cardinality(K) /\ \A k \in DOMAIN t : t[k] = s[nth(k)]
  OBVIOUS
<1> HIDE DEF t
<1>9. t \in Seq(X)
  <2>1. \A k \in 1..Cardinality(K) : t[k] \in X
    BY <1>1, <1>7, <1>8
  <2>2. QED BY <1>3, <1>8, <2>1 DEF t
<1>10. Elements(t) = Elements(s) \cap T
  <2>1. ASSUME NEW x \in Elements(t) PROVE x \in Elements(s) /\ x \in T
    BY <1>1, <1>7, <1>8 DEF Elements
  <2>2. ASSUME NEW x \in Elements(s), x \in T PROVE x \in Elements(t)
    <3>1. PICK i \in DOMAIN s : s[i] = x
      BY DEF Elements
    <3>2. i \in K
      BY <1>2, <2>2, <3>1
    <3>3. PICK k \in 1..Cardinality(K) : nth(k) = i
      BY <1>5, <3>2
    <3>4. QED BY <1>8, <3>1, <3>3 DEF Elements
  <2>3. QED BY <2>1, <2>2
<1>11. (\A i, j \in DOMAIN s : s[i] = s[j] => i = j) => \A i, j \in DOMAIN t : t[i] = t[j] => i = j
  BY <1>1, <1>6, <1>7, <1>8
<1>12. QED BY <1>0, <1>9, <1>10, <1>11

(* The children of a node are listed, each once. *)
LEMMA ChildrenFacts ==
    ASSUME graph \in Graphs, NEW p
    PROVE  /\ Children(p) \in Seq(Known) /\ Elements(Children(p)) = ChildrenOf(p)
           /\ \A i, j \in DOMAIN Children(p) : Children(p)[i] = Children(p)[j] => i = j
<1>1. Elements(graph.order) \cap ChildrenOf(p) = ChildrenOf(p)
  BY GraphFacts DEF ChildrenOf
<1>2. PICK s : s = graph.order
  OBVIOUS
<1>3. s \in Seq(Known) /\ Elements(s) = Known /\ \A i, j \in DOMAIN s : s[i] = s[j] => i = j
  BY <1>2, GraphFacts
<1>4. PICK t : t = KeptOf(s, ChildrenOf(p))
  OBVIOUS
<1>5. /\ t \in Seq(Known) /\ Elements(t) = Elements(s) \cap ChildrenOf(p)
      /\ \A i, j \in DOMAIN t : t[i] = t[j] => i = j
  BY <1>3, <1>4, KeptFacts
<1>6. Children(p) = t
  BY <1>2, <1>4 DEF Children
<1>7. QED BY <1>1, <1>2, <1>5, <1>6

(* What the operators on sequences return. *)
LEMMA AppendFacts ==
    ASSUME NEW X, NEW s \in Seq(X), NEW x \in X
    PROVE  /\ Append(s, x) \in Seq(X) /\ Len(s) \in Nat
           /\ DOMAIN s = 1..Len(s) /\ DOMAIN Append(s, x) = 1..(Len(s) + 1)
           /\ Len(Append(s, x)) = Len(s) + 1
           /\ \A i \in 1..Len(s) : Append(s, x)[i] = s[i]
           /\ Append(s, x)[Len(s) + 1] = x
<1>1. Append(s, x) \in Seq(X) /\ Len(s) \in Nat /\ DOMAIN s = 1..Len(s) /\ Len(Append(s, x)) = Len(s) + 1
  OBVIOUS
<1>2. DOMAIN Append(s, x) = 1..(Len(s) + 1)
  BY <1>1
<1>3. \A i \in 1..Len(s) : Append(s, x)[i] = s[i]
  BY <1>1
<1>4. Append(s, x)[Len(s) + 1] = x
  BY <1>1
<1>5. QED BY <1>1, <1>2, <1>3, <1>4

LEMMA FrontFacts ==
    ASSUME NEW X, NEW s \in Seq(X), s # <<>>
    PROVE  /\ SubSeq(s, 1, Len(s) - 1) \in Seq(X) /\ Len(s) \in Nat \ {0}
           /\ DOMAIN s = 1..Len(s) /\ DOMAIN SubSeq(s, 1, Len(s) - 1) = 1..(Len(s) - 1)
           /\ Len(SubSeq(s, 1, Len(s) - 1)) = Len(s) - 1
           /\ \A i \in 1..(Len(s) - 1) : SubSeq(s, 1, Len(s) - 1)[i] = s[i]
           /\ s[Len(s)] \in X
<1>1. Len(s) \in Nat \ {0} /\ DOMAIN s = 1..Len(s)
  OBVIOUS
<1>2. s[Len(s)] \in X
  BY <1>1
<1>3. PICK n : n = Len(s) - 1
  OBVIOUS
<1>4. n \in Nat
  BY <1>1, <1>3
<1>5. \A i \in 1..n : i \in 1..Len(s) /\ s[i] \in X
  BY <1>1, <1>3, <1>4
<1>6. SubSeq(s, 1, n) \in Seq(X) /\ Len(SubSeq(s, 1, n)) = n
  BY <1>1, <1>3, <1>4, <1>5
<1>7. DOMAIN SubSeq(s, 1, n) = 1..n
  BY <1>6
<1>8. \A i \in 1..n : SubSeq(s, 1, n)[i] = s[i]
  BY <1>1, <1>3, <1>4, <1>5
<1>9. QED BY <1>1, <1>2, <1>3, <1>6, <1>7, <1>8

LEMMA TailFacts ==
    ASSUME NEW X, NEW s \in Seq(X), s # <<>>
    PROVE  /\ Head(s) \in X /\ Tail(s) \in Seq(X) /\ Len(s) \in Nat \ {0}
           /\ DOMAIN s = 1..Len(s) /\ DOMAIN Tail(s) = 1..(Len(s) - 1) /\ Head(s) = s[1]
           /\ \A i \in 1..(Len(s) - 1) : Tail(s)[i] = s[i + 1]
           /\ Elements(s) = {Head(s)} \cup Elements(Tail(s))
<1>1. /\ Head(s) \in X /\ Tail(s) \in Seq(X) /\ Len(s) \in Nat \ {0}
      /\ DOMAIN s = 1..Len(s) /\ DOMAIN Tail(s) = 1..(Len(s) - 1) /\ Head(s) = s[1]
      /\ \A i \in 1..(Len(s) - 1) : Tail(s)[i] = s[i + 1]
  OBVIOUS
<1>2. ASSUME NEW i \in DOMAIN s PROVE s[i] = Head(s) \/ \E j \in DOMAIN Tail(s) : s[i] = Tail(s)[j]
  <2>1. CASE i = 1
    BY <1>1, <2>1
  <2>2. CASE i # 1
    <3>1. i - 1 \in 1..(Len(s) - 1) /\ (i - 1) + 1 = i
      BY <1>1, <2>2
    <3>2. QED BY <1>1, <3>1
  <2>3. QED BY <2>1, <2>2
<1>3. Head(s) \in Elements(s) /\ \A j \in DOMAIN Tail(s) : Tail(s)[j] \in Elements(s)
  <2>1. 1 \in DOMAIN s /\ \A j \in DOMAIN Tail(s) : j + 1 \in DOMAIN s
    BY <1>1
  <2>2. QED BY <1>1, <2>1 DEF Elements
<1>4. Elements(s) = {Head(s)} \cup Elements(Tail(s))
  BY <1>2, <1>3 DEF Elements
<1>5. QED BY <1>1, <1>4

(* An entry of the path. *)
Frame == [id : Known, unseen : Seq(Known)]

(* The path once the next child of its last node was looked at. *)
Looked == Append(Below, [Top EXCEPT !.unseen = Tail(@)])

LEMMA LookedFacts ==
    ASSUME TypeOK, stack # <<>>, Top.unseen # <<>>
    PROVE  /\ Len(stack) \in Nat \ {0} /\ DOMAIN stack = 1..Len(stack)
           /\ Top \in Frame /\ Top = stack[Len(stack)]
           /\ Looked \in Seq(Frame) /\ DOMAIN Looked = 1..Len(stack) /\ Len(Looked) = Len(stack)
           /\ \A i \in DOMAIN stack : Looked[i].id = stack[i].id
           /\ \A i \in DOMAIN stack : i < Len(stack) => Looked[i] = stack[i]
           /\ Looked[Len(stack)].unseen = Tail(Top.unseen)
           /\ Head(Top.unseen) \in Known
           /\ Elements(Top.unseen) = {Head(Top.unseen)} \cup Elements(Tail(Top.unseen))
<1>1. PICK s : s = stack
  OBVIOUS
<1>2. s \in Seq(Frame) /\ s # <<>>
  BY <1>1 DEF TypeOK, Frame
<1>3. Len(s) \in Nat \ {0} /\ DOMAIN s = 1..Len(s)
  BY <1>2
<1>4. PICK f : f = s[Len(s)]
  OBVIOUS
<1>5. f \in Frame /\ f = Top
  BY <1>1, <1>2, <1>3, <1>4 DEF Top
<1>6. PICK u : u = f.unseen
  OBVIOUS
<1>7. u \in Seq(Known) /\ u # <<>>
  BY <1>5, <1>6 DEF Frame
<1>8. Head(u) \in Known /\ Tail(u) \in Seq(Known)
  BY <1>7
<1>9. Elements(u) = {Head(u)} \cup Elements(Tail(u))
  BY <1>7, TailFacts
<1>10. PICK g : g = [f EXCEPT !.unseen = Tail(u)]
  OBVIOUS
<1>11. g \in Frame /\ g.id = f.id /\ g.unseen = Tail(u)
  BY <1>5, <1>8, <1>10 DEF Frame
<1>12. PICK b : b = SubSeq(s, 1, Len(s) - 1)
  OBVIOUS
<1>13. /\ b \in Seq(Frame) /\ Len(b) = Len(s) - 1
       /\ \A i \in 1..(Len(s) - 1) : b[i] = s[i]
  BY <1>2, <1>12, FrontFacts
<1>14. Looked = Append(b, g)
  BY <1>1, <1>5, <1>6, <1>10, <1>12 DEF Looked, Below
<1>15. PICK l : l = Append(b, g)
  OBVIOUS
<1>16. /\ l \in Seq(Frame) /\ Len(l) = Len(s) /\ DOMAIN l = 1..Len(s) /\ l[Len(s)] = g
       /\ \A i \in 1..(Len(s) - 1) : l[i] = s[i]
  <2>1. Len(b) + 1 = Len(s) /\ \A i : i \in 1..(Len(s) - 1) <=> i \in 1..Len(b)
    BY <1>3, <1>13
  <2>2. /\ l \in Seq(Frame) /\ DOMAIN l = 1..(Len(b) + 1) /\ Len(l) = Len(b) + 1
        /\ l[Len(b) + 1] = g /\ \A i \in 1..Len(b) : l[i] = b[i]
    BY <1>11, <1>13, <1>15, AppendFacts
  <2>3. QED BY <1>13, <2>1, <2>2
<1>17. \A i \in 1..Len(s) : l[i].id = s[i].id /\ (i < Len(s) => l[i] = s[i])
  BY <1>3, <1>4, <1>11, <1>16
<1>18. QED
  <2>1. /\ Len(stack) \in Nat \ {0} /\ DOMAIN stack = 1..Len(stack)
        /\ Top \in Frame /\ Top = stack[Len(stack)]
    BY <1>1, <1>3, <1>4, <1>5
  <2>2. /\ Looked \in Seq(Frame) /\ DOMAIN Looked = 1..Len(stack) /\ Len(Looked) = Len(stack)
        /\ \A i \in DOMAIN stack : Looked[i].id = stack[i].id
        /\ \A i \in DOMAIN stack : i < Len(stack) => Looked[i] = stack[i]
    BY <1>1, <1>3, <1>14, <1>15, <1>16, <1>17
  <2>3. /\ Looked[Len(stack)].unseen = Tail(Top.unseen)
        /\ Head(Top.unseen) \in Known
        /\ Elements(Top.unseen) = {Head(Top.unseen)} \cup Elements(Tail(Top.unseen))
    BY <1>1, <1>5, <1>6, <1>8, <1>9, <1>11, <1>14, <1>15, <1>16
  <2>4. QED BY <2>1, <2>2, <2>3

(* The path without its last node. *)
LEMMA BelowFacts ==
    ASSUME TypeOK, stack # <<>>
    PROVE  /\ Len(stack) \in Nat \ {0} /\ DOMAIN stack = 1..Len(stack)
           /\ Top \in Frame /\ Top = stack[Len(stack)]
           /\ Below \in Seq(Frame) /\ DOMAIN Below = 1..(Len(stack) - 1) /\ Len(Below) = Len(stack) - 1
           /\ \A i \in DOMAIN Below : Below[i] = stack[i]
<1>1. PICK s : s = stack
  OBVIOUS
<1>2. s \in Seq(Frame) /\ s # <<>>
  BY <1>1 DEF TypeOK, Frame
<1>3. QED BY <1>1, <1>2, FrontFacts DEF Top, Below

(* The path with a node more. *)
LEMMA EnteredFacts ==
    ASSUME graph \in Graphs, NEW path \in Seq(Frame), NEW n \in Known
    PROVE  LET t == Append(path, [id |-> n, unseen |-> Children(n)]) IN
           /\ t \in Seq(Frame) /\ Len(path) \in Nat
           /\ DOMAIN path = 1..Len(path) /\ DOMAIN t = 1..(Len(path) + 1) /\ Len(t) = Len(path) + 1
           /\ \A i \in DOMAIN path : t[i] = path[i]
           /\ t[Len(path) + 1].id = n /\ Elements(t[Len(path) + 1].unseen) = ChildrenOf(n)
<1>1. PICK f : f = [id |-> n, unseen |-> Children(n)]
  OBVIOUS
<1>2. f \in Frame /\ f.id = n /\ Elements(f.unseen) = ChildrenOf(n)
  BY <1>1, ChildrenFacts DEF Frame
<1>3. PICK t : t = Append(path, f)
  OBVIOUS
<1>4. /\ t \in Seq(Frame) /\ Len(path) \in Nat
      /\ DOMAIN path = 1..Len(path) /\ DOMAIN t = 1..(Len(path) + 1) /\ Len(t) = Len(path) + 1
      /\ \A i \in DOMAIN path : t[i] = path[i]
      /\ t[Len(path) + 1] = f
  BY <1>2, <1>3, AppendFacts
<1>5. QED BY <1>1, <1>2, <1>3, <1>4

-----------------------------------------------------------------------------
(* The search *)

(* A step of the search paints the node it enters or leaves, and leaves    *)
(* nothing behind it that a later step would have to look at again. *)
LEMMA SearchBegins ==
    ASSUME TypeOK, PathIsGrey, NothingIsMissed, StartSearch
    PROVE  PathIsGrey' /\ NothingIsMissed' /\ stack' \in Seq(Frame) /\ colour' \in [Known -> {"WHITE", "GREY", "BLACK"}]
<1>1. PICK i \in DOMAIN graph.order :
         colour[graph.order[i]] = "WHITE" /\ Enter(graph.order[i], <<>>)
  BY DEF StartSearch
<1>2. PICK n : n = graph.order[i]
  OBVIOUS
<1>3. n \in Known /\ colour[n] = "WHITE" /\ colour' = [colour EXCEPT ![n] = "GREY"]
  BY <1>1, <1>2 DEF Enter, Known, Elements
<1>4. stack = <<>> /\ UNCHANGED <<graph, pc, cycles>> /\ graph \in Graphs
      /\ colour \in [Known -> {"WHITE", "GREY", "BLACK"}]
  BY DEF StartSearch, TypeOK
<1>5. /\ stack' \in Seq(Frame) /\ DOMAIN stack' = {1} /\ Len(stack') = 1
      /\ stack'[1].id = n /\ Elements(stack'[1].unseen) = ChildrenOf(n)
  <2>1. PICK p : p = <<>>
    OBVIOUS
  <2>2. p \in Seq(Frame) /\ Len(p) = 0
    BY <2>1
  <2>3. stack' = Append(p, [id |-> n, unseen |-> Children(n)])
    BY <1>1, <1>2, <2>1 DEF Enter
  <2>4. /\ stack' \in Seq(Frame) /\ DOMAIN stack' = 1..(Len(p) + 1) /\ Len(stack') = Len(p) + 1
        /\ stack'[Len(p) + 1].id = n /\ Elements(stack'[Len(p) + 1].unseen) = ChildrenOf(n)
    BY <1>3, <1>4, <2>2, <2>3, EnteredFacts
  <2>5. Len(p) + 1 = 1 /\ 1..1 = {1}
    BY <2>2
  <2>6. QED BY <2>4, <2>5
<1>6. Known' = Known /\ \A p : ChildrenOf(p)' = ChildrenOf(p)
  BY <1>4 DEF Known, ChildrenOf
<1>7. \A m \in Known : colour'[m] = IF m = n THEN "GREY" ELSE colour[m]
  BY <1>3, <1>4
<1>8. Black' = Black
  BY <1>3, <1>6, <1>7 DEF Black
<1>9. PathIsGrey'
  <2>1. \A m \in Known : colour[m] # "GREY"
    BY <1>4 DEF PathIsGrey
  <2>2. \A m \in Known' : colour'[m] = "GREY" <=> \E k \in DOMAIN stack' : stack'[k].id = m
    BY <1>5, <1>6, <1>7, <2>1
  <2>3. \A k \in DOMAIN stack' : Elements(stack'[k].unseen) \subseteq ChildrenOf(stack'[k].id) /\ ~(k > 1)
    BY <1>5
  <2>4. \A k, m \in DOMAIN stack' : k = m
    BY <1>5
  <2>5. QED BY <1>6, <2>2, <2>3, <2>4 DEF PathIsGrey
<1>10. NothingIsMissed'
  <2> SUFFICES ASSUME cycles = {}
               PROVE  /\ \A p \in Black : ChildrenOf(p) \subseteq Black
                      /\ \A k \in DOMAIN stack' : \A m \in ChildrenOf(stack'[k].id) : m \in Elements(stack'[k].unseen)
                      /\ \A X \in SUBSET Black : X # {} => \E p \in X : ChildrenOf(p) \cap X = {}
    BY <1>4, <1>6, <1>8 DEF NothingIsMissed
  <2>1. QED BY <1>5 DEF NothingIsMissed
<1>11. QED BY <1>3, <1>4, <1>5, <1>9, <1>10

(* A node is done with: its children are. *)
LEMMA SearchRetreats ==
    ASSUME TypeOK, PathIsGrey, NothingIsMissed, Retreat
    PROVE  PathIsGrey' /\ NothingIsMissed' /\ stack' \in Seq(Frame) /\ colour' \in [Known -> {"WHITE", "GREY", "BLACK"}]
<1>1. PICK q : q = Top.id
  OBVIOUS
<1>2. /\ stack # <<>> /\ Top.unseen = <<>> /\ stack' = Below /\ UNCHANGED <<graph, pc, cycles>>
      /\ colour' = [colour EXCEPT ![q] = "BLACK"]
      /\ graph \in Graphs /\ colour \in [Known -> {"WHITE", "GREY", "BLACK"}]
  BY <1>1 DEF Retreat, TypeOK
<1>3. PICK l : l = Len(stack)
  OBVIOUS
<1>4. /\ l \in Nat \ {0} /\ DOMAIN stack = 1..l /\ l \in DOMAIN stack
      /\ stack[l].id = q /\ q \in Known /\ stack[l].unseen = <<>>
      /\ stack' \in Seq(Frame) /\ DOMAIN stack' = 1..(l - 1) /\ Len(stack') = l - 1
      /\ \A i \in 1..(l - 1) : i \in DOMAIN stack /\ stack'[i] = stack[i]
  <2>1. /\ l \in Nat \ {0} /\ DOMAIN stack = 1..l /\ Top \in Frame /\ Top = stack[l]
        /\ Below \in Seq(Frame) /\ DOMAIN Below = 1..(l - 1) /\ Len(Below) = l - 1
        /\ \A i \in DOMAIN Below : Below[i] = stack[i]
    BY <1>2, <1>3, BelowFacts
  <2>2. l \in 1..l /\ \A i \in 1..(l - 1) : i \in 1..l
    BY <2>1
  <2>3. stack[l].id = q /\ q \in Known /\ stack[l].unseen = <<>>
    BY <1>1, <1>2, <2>1 DEF Frame
  <2>4. QED BY <1>2, <2>1, <2>2, <2>3
<1>5. Known' = Known /\ \A p : ChildrenOf(p)' = ChildrenOf(p)
  BY <1>2 DEF Known, ChildrenOf
<1>6. \A m \in Known : colour'[m] = IF m = q THEN "BLACK" ELSE colour[m]
  BY <1>2, <1>4
<1>7. colour[q] = "GREY"
  BY <1>4 DEF PathIsGrey
<1>8. Black' = Black \cup {q} /\ q \notin Black
  BY <1>4, <1>5, <1>6, <1>7 DEF Black
<1>9. PathIsGrey'
  <2>1. ASSUME NEW m \in Known PROVE colour'[m] = "GREY" <=> \E k \in DOMAIN stack' : stack'[k].id = m
    <3>1. CASE m = q
      <4>1. ASSUME NEW k \in 1..(l - 1) PROVE stack[k].id # q
        <5>1. k \in DOMAIN stack /\ k # l
          BY <1>4
        <5>2. stack[k].id # stack[l].id
          BY <1>4, <5>1 DEF PathIsGrey
        <5>3. QED BY <1>4, <5>2
      <4>2. \A k \in DOMAIN stack' : stack'[k].id # q
        BY <1>4, <4>1
      <4>3. QED BY <1>6, <3>1, <4>2
    <3>2. CASE m # q
      <4>1. \A k \in DOMAIN stack : stack[k].id = m => k \in 1..(l - 1)
        BY <1>4, <3>2
      <4>2. colour'[m] = colour[m] /\ (colour[m] = "GREY" <=> \E k \in DOMAIN stack : stack[k].id = m)
        BY <1>6, <3>2 DEF PathIsGrey
      <4>3. (\E k \in DOMAIN stack : stack[k].id = m) <=> \E k \in DOMAIN stack' : stack'[k].id = m
        BY <1>4, <4>1
      <4>4. QED BY <4>2, <4>3
    <3>3. QED BY <3>1, <3>2
  <2>2. ASSUME NEW k \in 1..(l - 1)
        PROVE  /\ Elements(stack'[k].unseen) \subseteq ChildrenOf(stack'[k].id)
               /\ k > 1 => stack'[k].id \in ChildrenOf(stack'[k - 1].id)
    <3>1. k > 1 => k - 1 \in 1..(l - 1)
      BY <1>4
    <3>2. QED BY <1>4, <3>1 DEF PathIsGrey
  <2>3. \A i, j \in DOMAIN stack' : stack'[i].id = stack'[j].id => i = j
    BY <1>4 DEF PathIsGrey
  <2>4. QED BY <1>4, <1>5, <2>1, <2>2, <2>3 DEF PathIsGrey
<1>10. NothingIsMissed'
  <2> SUFFICES ASSUME cycles = {}
               PROVE  /\ \A p \in Black' : ChildrenOf(p) \subseteq Black'
                      /\ \A k \in DOMAIN stack' : \A m \in ChildrenOf(stack'[k].id) :
                            \/ m \in Elements(stack'[k].unseen) \/ m \in Black'
                            \/ k < Len(stack') /\ m = stack'[k + 1].id
                      /\ \A X \in SUBSET Black' : X # {} => \E p \in X : ChildrenOf(p) \cap X = {}
    BY <1>2, <1>5 DEF NothingIsMissed
  <2>1. ChildrenOf(q) \subseteq Black
    <3>1. Elements(<<>>) = {}
      BY DEF Elements
    <3>2. ~(l < Len(stack))
      BY <1>3, <1>4
    <3>3. \A n \in ChildrenOf(q) : n \in Black
      BY <1>4, <3>1, <3>2 DEF NothingIsMissed
    <3>4. QED BY <3>3
  <2>2. \A p \in Black' : ChildrenOf(p) \subseteq Black'
    BY <1>8, <2>1 DEF NothingIsMissed
  <2>3. ASSUME NEW k \in DOMAIN stack', NEW m \in ChildrenOf(stack'[k].id)
        PROVE  \/ m \in Elements(stack'[k].unseen) \/ m \in Black'
               \/ k < Len(stack') /\ m = stack'[k + 1].id
    <3>1. /\ k \in 1..(l - 1) /\ stack'[k] = stack[k] /\ k \in DOMAIN stack
          /\ m \in Elements(stack[k].unseen) \/ m \in Black \/ m = stack[k + 1].id
      BY <1>3, <1>4 DEF NothingIsMissed
    <3>2. CASE m = stack[k + 1].id
      <4>1. k + 1 = l \/ (k < l - 1 /\ k + 1 \in 1..(l - 1))
        BY <1>4, <3>1
      <4>2. QED BY <1>4, <1>8, <3>2, <4>1
    <3>3. QED BY <1>8, <3>1, <3>2
  <2>4. ASSUME NEW X \in SUBSET Black', X # {} PROVE \E p \in X : ChildrenOf(p) \cap X = {}
    <3>1. CASE X \ {q} = {}
      <4>1. X = {q}
        BY <2>4, <3>1
      <4>2. QED BY <1>8, <2>1, <4>1
    <3>2. CASE X \ {q} # {}
      <4>1. PICK p \in X \ {q} : ChildrenOf(p) \cap (X \ {q}) = {}
        BY <1>8, <3>2 DEF NothingIsMissed
      <4>2. p \in Black
        BY <1>8, <4>1
      <4>3. q \notin ChildrenOf(p)
        BY <1>8, <4>2 DEF NothingIsMissed
      <4>4. QED BY <4>1, <4>3
    <3>3. QED BY <3>1, <3>2
  <2>5. QED BY <2>2, <2>3, <2>4
<1>11. QED BY <1>2, <1>4, <1>9, <1>10

(* What looking at a child that is not grey leaves to do. *)
LEMMA SearchLooks ==
    ASSUME TypeOK, PathIsGrey, NothingIsMissed, Descend
    PROVE  PathIsGrey' /\ NothingIsMissed' /\ stack' \in Seq(Frame) /\ colour' \in [Known -> {"WHITE", "GREY", "BLACK"}]
<1>1. PICK c : c = Head(Top.unseen)
  OBVIOUS
<1>2. PICK l : l = Len(stack)
  OBVIOUS
<1>3. /\ stack # <<>> /\ Top.unseen # <<>> /\ UNCHANGED <<graph, pc>> /\ Visit(c, Looked)
      /\ graph \in Graphs /\ colour \in [Known -> {"WHITE", "GREY", "BLACK"}]
  BY <1>1 DEF Descend, Looked, TypeOK
<1>4. /\ l \in Nat \ {0} /\ DOMAIN stack = 1..l /\ l \in DOMAIN stack
      /\ Looked \in Seq(Frame) /\ DOMAIN Looked = 1..l /\ Len(Looked) = l
      /\ \A i \in 1..l : Looked[i].id = stack[i].id /\ (i < l => Looked[i] = stack[i])
      /\ Elements(stack[l].unseen) = {c} \cup Elements(Looked[l].unseen)
      /\ c \in Known
  <2>1. /\ l \in Nat \ {0} /\ DOMAIN stack = 1..l /\ Top = stack[l]
        /\ Looked \in Seq(Frame) /\ DOMAIN Looked = 1..l /\ Len(Looked) = l
        /\ \A i \in 1..l : Looked[i].id = stack[i].id /\ (i < l => Looked[i] = stack[i])
    BY <1>2, <1>3, LookedFacts
  <2>2. c \in Known /\ Looked[l].unseen = Tail(Top.unseen)
        /\ Elements(Top.unseen) = {c} \cup Elements(Tail(Top.unseen))
    BY <1>1, <1>2, <1>3, LookedFacts
  <2>3. l \in 1..l
    BY <2>1
  <2>4. QED BY <2>1, <2>2, <2>3
<1>5. Known' = Known /\ \A p : ChildrenOf(p)' = ChildrenOf(p)
  BY <1>3 DEF Known, ChildrenOf
<1>6. c \in ChildrenOf(stack[l].id)
  <2>1. l \in DOMAIN stack /\ c \in Elements(stack[l].unseen)
    BY <1>4
  <2>2. Elements(stack[l].unseen) \subseteq ChildrenOf(stack[l].id)
    BY <2>1 DEF PathIsGrey
  <2>3. QED BY <2>1, <2>2
<1>7. \A i \in 1..l : Elements(Looked[i].unseen) \subseteq ChildrenOf(Looked[i].id)
  <2>1. \A i \in 1..l : i < l \/ i = l
    BY <1>4
  <2>2. QED BY <1>4, <2>1 DEF PathIsGrey
<1>8. \A i \in 1..l : i > 1 => i - 1 \in 1..l /\ Looked[i].id \in ChildrenOf(Looked[i - 1].id)
  <2>1. \A i \in 1..l : i > 1 => i - 1 \in 1..l
    BY <1>4
  <2>2. QED BY <1>4, <2>1 DEF PathIsGrey
<1>9. \A i, j \in 1..l : Looked[i].id = Looked[j].id => i = j
  BY <1>4 DEF PathIsGrey
<1>10. \A n \in Known : colour[n] = "GREY" <=> \E i \in 1..l : Looked[i].id = n
  <2>1. \A n \in Known : colour[n] = "GREY" <=> \E i \in 1..l : stack[i].id = n
    BY <1>4 DEF PathIsGrey
  <2>2. QED BY <1>4, <2>1
<1>11. ASSUME cycles = {}, NEW i \in 1..l, NEW n \in ChildrenOf(Looked[i].id)
       PROVE  \/ n \in Elements(Looked[i].unseen) \/ n \in Black
              \/ i < l /\ i + 1 \in 1..l /\ n = Looked[i + 1].id
              \/ i = l /\ n = c
  <2>1. /\ n \in ChildrenOf(stack[i].id)
        /\ n \in Elements(stack[i].unseen) \/ n \in Black \/ (i < l /\ n = stack[i + 1].id)
    BY <1>2, <1>4, <1>11 DEF NothingIsMissed
  <2>2. i < l => i + 1 \in 1..l
    BY <1>4
  <2>3. i < l \/ i = l
    BY <1>4
  <2>4. QED BY <1>4, <2>1, <2>2, <2>3
<1>12. CASE colour[c] = "WHITE"
  <2>1. /\ colour' = [colour EXCEPT ![c] = "GREY"] /\ cycles' = cycles
        /\ stack' = Append(Looked, [id |-> c, unseen |-> Children(c)])
    BY <1>3, <1>12 DEF Visit, Enter
  <2>2. /\ stack' \in Seq(Frame) /\ DOMAIN stack' = 1..(l + 1) /\ Len(stack') = l + 1
        /\ \A i \in 1..l : stack'[i] = Looked[i]
        /\ stack'[l + 1].id = c /\ Elements(stack'[l + 1].unseen) = ChildrenOf(c)
    BY <1>3, <1>4, <2>1, EnteredFacts
  <2>3. \A i : i \in 1..(l + 1) <=> i \in 1..l \/ i = l + 1
    BY <1>4
  <2>4. \A n \in Known : colour'[n] = IF n = c THEN "GREY" ELSE colour[n]
    BY <1>3, <2>1
  <2>5. Black' = Black
    BY <1>5, <1>12, <2>4 DEF Black
  <2>6. PathIsGrey'
    <3>1. ASSUME NEW n \in Known PROVE colour'[n] = "GREY" <=> \E k \in DOMAIN stack' : stack'[k].id = n
      <4>1. CASE n = c
        BY <2>2, <2>3, <2>4, <4>1
      <4>2. CASE n # c
        BY <1>10, <2>2, <2>3, <2>4, <4>2
      <4>3. QED BY <4>1, <4>2
    <3>2. ASSUME NEW i \in DOMAIN stack', NEW j \in DOMAIN stack', stack'[i].id = stack'[j].id PROVE i = j
      <4>1. \A k \in 1..l : stack'[k].id # c
        BY <1>4, <1>10, <1>12, <2>2
      <4>2. QED BY <1>9, <2>2, <2>3, <3>2, <4>1
    <3>3. ASSUME NEW i \in DOMAIN stack'
          PROVE  /\ Elements(stack'[i].unseen) \subseteq ChildrenOf(stack'[i].id)
                 /\ i > 1 => stack'[i].id \in ChildrenOf(stack'[i - 1].id)
      <4>1. CASE i \in 1..l
        BY <1>7, <1>8, <2>2, <4>1
      <4>2. CASE i = l + 1
        <5>1. (l + 1) - 1 = l /\ l \in 1..l
          BY <1>4
        <5>2. QED BY <1>4, <1>6, <2>2, <4>2, <5>1
      <4>3. QED BY <2>2, <2>3, <4>1, <4>2
    <3>4. QED BY <1>5, <3>1, <3>2, <3>3 DEF PathIsGrey
  <2>7. NothingIsMissed'
    <3> SUFFICES ASSUME cycles = {}
                 PROVE  \A k \in DOMAIN stack' : \A m \in ChildrenOf(stack'[k].id) :
                            \/ m \in Elements(stack'[k].unseen) \/ m \in Black
                            \/ k < Len(stack') /\ m = stack'[k + 1].id
      BY <1>5, <2>1, <2>5 DEF NothingIsMissed
    <3> TAKE k \in DOMAIN stack'
    <3> TAKE m \in ChildrenOf(stack'[k].id)
    <3>1. CASE k \in 1..l
      <4>1. k < l + 1
        BY <1>4, <3>1
      <4>2. QED BY <1>11, <2>2, <3>1, <4>1
    <3>2. CASE k = l + 1
      BY <2>2, <3>2
    <3>3. QED BY <2>2, <2>3, <3>1, <3>2
  <2>8. colour' \in [Known -> {"WHITE", "GREY", "BLACK"}]
    BY <1>3, <2>1
  <2>9. QED BY <2>2, <2>6, <2>7, <2>8
<1>13. CASE colour[c] # "WHITE"
  <2>1. /\ colour' = colour /\ stack' = Looked
        /\ cycles' = {} => cycles = {} /\ colour[c] # "GREY"
    BY <1>3, <1>13 DEF Visit
  <2>2. PathIsGrey'
    BY <1>4, <1>5, <1>7, <1>8, <1>9, <1>10, <2>1 DEF PathIsGrey
  <2>3. Black' = Black
    BY <1>5, <2>1 DEF Black
  <2>4. NothingIsMissed'
    <3> SUFFICES ASSUME cycles' = {}
                 PROVE  /\ cycles = {}
                        /\ \A k \in 1..l : \A m \in ChildrenOf(Looked[k].id) :
                            \/ m \in Elements(Looked[k].unseen) \/ m \in Black
                            \/ k < l /\ m = Looked[k + 1].id
      BY <1>4, <1>5, <2>1, <2>3 DEF NothingIsMissed
    <3>1. cycles = {} /\ c \in Black
      BY <1>3, <1>4, <1>13, <2>1 DEF Black
    <3>2. QED BY <1>11, <3>1
  <2>5. QED BY <1>3, <1>4, <2>1, <2>2, <2>4
<1>14. QED BY <1>12, <1>13

(* The path from the grey child on is a cycle. *)
(* The path from a grey child on, closed by it, is a cycle. *)
LEMMA PathClosed ==
    ASSUME TypeOK, PathIsGrey, NEW c \in Known, colour[c] = "GREY", stack # <<>>, c \in ChildrenOf(Top.id)
    PROVE  LET path == CyclePath(c) IN
           /\ path \in Seq(Known) /\ Len(path) > 1 /\ path[1] = path[Len(path)]
           /\ \A i \in 1..(Len(path) - 1) : path[i] \in Elements(graph.deps[path[i + 1]])
<1>1. PICK f : f = CHOOSE i \in DOMAIN stack : stack[i].id = c
  OBVIOUS
<1>2. f \in DOMAIN stack /\ stack[f].id = c
  BY <1>1 DEF PathIsGrey
<1>3. PICK l : l = Len(stack)
  OBVIOUS
<1>4. /\ stack \in Seq(Frame) /\ l \in Nat \ {0} /\ DOMAIN stack = 1..l /\ Top = stack[l]
  BY <1>3, BelowFacts DEF TypeOK, Frame
<1>5. PICK s : s = SubSeq(stack, f, l)
  OBVIOUS
<1>6. PICK m : m = l - f + 1
  OBVIOUS
<1>7. f \in 1..l /\ m \in Nat \ {0} /\ \A i \in 1..m : f + i - 1 \in 1..l
  BY <1>2, <1>4, <1>6
<1>8. DOMAIN s = 1..m /\ \A i \in 1..m : s[i] = stack[f + i - 1]
  <2>1. PICK t : t = stack
    OBVIOUS
  <2>2. t \in Seq(Frame) /\ Len(t) = l /\ s = SubSeq(t, f, l) /\ DOMAIN t = 1..l
    BY <1>3, <1>4, <1>5, <2>1
  <2>3. Len(s) = m /\ DOMAIN s = 1..m
    BY <1>6, <1>7, <2>2
  <2>4. \A i \in 1..m : s[i] = t[f + i - 1]
    BY <1>6, <1>7, <2>2
  <2>5. QED BY <2>1, <2>3, <2>4
<1>9. PICK r : r = [i \in DOMAIN s |-> s[i].id]
  OBVIOUS
<1>10. \A i \in 1..l : stack[i].id \in Known
  <2>1. PICK t : t = stack
    OBVIOUS
  <2>2. \A i \in 1..l : t[i] \in Frame
    BY <1>3, <1>4, <2>1
  <2>3. QED BY <2>1, <2>2 DEF Frame
<1>11. r \in Seq(Known) /\ Len(r) = m /\ \A i \in 1..m : r[i] = stack[f + i - 1].id
  <2>1. r = [i \in 1..m |-> s[i].id] /\ \A i \in 1..m : s[i].id \in Known
    BY <1>7, <1>8, <1>9, <1>10
  <2>2. r \in Seq(Known) /\ Len(r) = m
    BY <1>7, <2>1
  <2>3. QED BY <1>8, <2>1, <2>2
<1>12. CyclePath(c) = Append(r, c)
  BY <1>1, <1>3, <1>5, <1>9 DEF CyclePath
<1>13. PICK p : p = Append(r, c)
  OBVIOUS
<1>14. /\ p \in Seq(Known) /\ Len(p) = m + 1 /\ p[m + 1] = c
       /\ \A i \in 1..m : p[i] = stack[f + i - 1].id
  BY <1>11, <1>13, AppendFacts
<1>15. Len(p) > 1 /\ p[1] = c /\ Len(p) - 1 = m
  <2>1. 1 \in 1..m /\ f + 1 - 1 = f /\ m + 1 > 1 /\ (m + 1) - 1 = m
    BY <1>7
  <2>2. QED BY <1>2, <1>14, <2>1
<1>16. ASSUME NEW i \in 1..m PROVE p[i] \in Elements(graph.deps[p[i + 1]])
  <2>1. CASE i = m
    <3>1. f + m - 1 = l
      <4>1. f \in Int /\ l \in Int
        BY <1>4, <1>7
      <4>2. QED BY <1>6, <4>1
    <3>2. p[m] = Top.id
      BY <1>4, <1>7, <1>14, <3>1, <2>1
    <3>3. QED BY <1>14, <2>1, <3>2 DEF ChildrenOf
  <2>2. CASE i # m
    <3>1. i + 1 \in 1..m /\ f + (i + 1) - 1 \in 1..l /\ f + (i + 1) - 1 > 1 /\ f + (i + 1) - 1 - 1 = f + i - 1
      BY <1>7, <2>2
    <3>2. PICK k : k = f + (i + 1) - 1
      OBVIOUS
    <3>3. k \in 1..l /\ k > 1 /\ k - 1 = f + i - 1
      BY <1>4, <1>7, <3>1, <3>2
    <3>4. p[i + 1] = stack[k].id /\ p[i] = stack[k - 1].id
      BY <1>14, <3>1, <3>2, <3>3
    <3>5. stack[k].id \in ChildrenOf(stack[k - 1].id)
      BY <1>4, <3>3 DEF PathIsGrey
    <3>6. QED BY <3>4, <3>5 DEF ChildrenOf
  <2>3. QED BY <2>1, <2>2
<1>17. QED BY <1>12, <1>13, <1>14, <1>15, <1>16

-----------------------------------------------------------------------------
(* What the search has found out *)

(* A set of numbers has a least member. *)
LEMMA LeastOf ==
    ASSUME NEW T, T \subseteq Nat, T # {}
    PROVE  \E k \in T : \A l \in T : k <= l
<1>1. PICK k \in T : \A l \in T : ~(<<l, k>> \in OpToRel(<, Nat))
  BY NatLessThanWellFounded, WFMin
<1>2. ASSUME NEW l \in T, l < k PROVE FALSE
  <2>1. PICK p : p = <<l, k>>
    OBVIOUS
  <2>2. p \in Nat \X Nat /\ p[1] = l /\ p[2] = k
    BY <2>1
  <2>3. p[1] < p[2]
    BY <1>2, <2>2
  <2>4. p \in OpToRel(<, Nat)
    BY <2>2, <2>3, Zenon DEF OpToRel
  <2>5. QED BY <1>1, <2>1, <2>4
<1>3. k \in Nat /\ \A l \in T : l \in Nat /\ ~(l < k)
  BY <1>2
<1>4. \A l \in T : k <= l
  BY <1>3
<1>5. QED BY <1>4

(* If every set of nodes has a member without children in it, every set    *)
(* has one without parents in it. *)
LEMMA SinksAndSources ==
    ASSUME graph \in Graphs,
           \A X \in SUBSET Known : X # {} => \E p \in X : ChildrenOf(p) \cap X = {}
    PROVE  \A X \in SUBSET Known : X # {} => \E n \in X : \A p \in X : n \notin ChildrenOf(p)
<1> DEFINE Bad == {X \in SUBSET Known : X # {} /\ \A n \in X : \E p \in X : n \in ChildrenOf(p)}
<1> SUFFICES ASSUME Bad # {} PROVE FALSE
  OBVIOUS
<1>1. \A X \in SUBSET Known : IsFiniteSet(X) /\ Cardinality(X) \in Nat
  BY GraphFacts, FS_Subset, FS_CardinalityType
<1>2. PICK sizes : sizes = {Cardinality(X) : X \in Bad}
  OBVIOUS
<1>3. sizes \subseteq Nat /\ sizes # {}
  BY <1>1, <1>2
<1>4. PICK k \in sizes : \A l \in sizes : k <= l
  BY <1>3, LeastOf
<1>5. PICK X \in Bad : k = Cardinality(X)
  BY <1>2, <1>4
<1>6. X \in SUBSET Known /\ X # {} /\ \A n \in X : \E p \in X : n \in ChildrenOf(p)
  BY <1>5
<1>7. PICK p \in X : ChildrenOf(p) \cap X = {}
  BY <1>6
<1>8. \A n \in X : \E q \in X \ {p} : n \in ChildrenOf(q)
  BY <1>6, <1>7
<1>9. X \ {p} \in Bad
  BY <1>6, <1>8
<1> HIDE DEF Bad
<1>10. Cardinality(X \ {p}) \in sizes
  BY <1>2, <1>9
<1>11. Cardinality(X \ {p}) = Cardinality(X) - 1 /\ Cardinality(X) \in Nat
  BY <1>1, <1>6, <1>7, FS_RemoveElement
<1>12. QED BY <1>4, <1>5, <1>10, <1>11

(* A search that met no cycle proves the graph well formed. *)
LEMMA SearchedIsWellFormed ==
    ASSUME TypeOK, PathIsGrey, NothingIsMissed, PhasesAreTrue, pc = "dfs", stack = <<>>, cycles = {},
           \A n \in Known : colour[n] # "WHITE"
    PROVE  WellFormed
<1>1. \A n \in Known : colour[n] # "GREY"
  BY DEF PathIsGrey
<1>2. graph \in Graphs /\ \A n \in Known : colour[n] \in {"WHITE", "GREY", "BLACK"}
  BY DEF TypeOK
<1>3. Black = Known
  BY <1>1, <1>2 DEF Black
<1>4. \A X \in SUBSET Known : X # {} => \E n \in X : \A p \in X : n \notin ChildrenOf(p)
  BY <1>2, <1>3, SinksAndSources DEF NothingIsMissed
<1>5. Known # {} /\ \A n \in Known : \A p \in Elements(graph.deps[n]) : p \in Known
  BY DEF PhasesAreTrue, StructuralErrors
<1>6. ASSUME NEW X \in SUBSET Known, X # {}
      PROVE  \E n \in X : Elements(graph.deps[n]) \subseteq Known \ X
  <2>1. PICK n \in X : \A p \in X : n \notin ChildrenOf(p)
    BY <1>4, <1>6
  <2>2. \A p \in Elements(graph.deps[n]) : p \in Known /\ p \notin X
    BY <1>5, <2>1 DEF ChildrenOf
  <2>3. QED BY <2>2
<1>7. QED BY <1>5, <1>6 DEF WellFormed

(* A graph with a cycle is not well formed. *)
LEMMA CyclesAreNotWellFormed ==
    ASSUME TypeOK, ReportedCyclesExist, cycles # {}
    PROVE  ~WellFormed
<1>1. PICK path \in cycles : TRUE
  OBVIOUS
<1>2. PICK m : m = Len(path)
  OBVIOUS
<1>3. path \in Seq(Known) /\ m \in Nat /\ m > 1 /\ DOMAIN path = 1..m /\ path[1] = path[m]
      /\ \A i \in 1..(m - 1) : path[i] \in Elements(graph.deps[path[i + 1]])
  <2>1. path \in Seq(Known)
    BY <1>1 DEF TypeOK
  <2>2. m \in Nat /\ DOMAIN path = 1..m
    BY <1>2, <2>1
  <2>3. /\ m > 1 /\ path[1] = path[m]
        /\ \A i \in 1..(m - 1) : path[i] \in Elements(graph.deps[path[i + 1]])
    BY <1>1, <1>2 DEF ReportedCyclesExist
  <2>4. QED BY <2>1, <2>2, <2>3
<1>4. PICK X : X = {path[i] : i \in 1..m}
  OBVIOUS
<1>5. X \in SUBSET Known /\ X # {}
  BY <1>3, <1>4
<1>6. ASSUME NEW n \in X PROVE \E p \in X : p \in Elements(graph.deps[n])
  <2>1. PICK i \in 1..m : n = path[i]
    BY <1>4
  <2>2. PICK j \in 1..(m - 1) : n = path[j + 1]
    <3>1. CASE i = 1
      <4>1. m - 1 \in 1..(m - 1) /\ (m - 1) + 1 = m
        BY <1>3
      <4>2. QED BY <1>3, <2>1, <3>1, <4>1
    <3>2. CASE i # 1
      <4>1. i - 1 \in 1..(m - 1) /\ (i - 1) + 1 = i
        BY <1>3, <3>2
      <4>2. QED BY <2>1, <4>1
    <3>3. QED BY <3>1, <3>2
  <2>3. path[j] \in Elements(graph.deps[n]) /\ j \in 1..m
    BY <1>3, <2>2
  <2>4. QED BY <1>4, <2>3
<1>7. QED BY <1>5, <1>6 DEF WellFormed

-----------------------------------------------------------------------------
(* The sort *)

LEMMA ConcatFacts ==
    ASSUME NEW X, NEW s \in Seq(X), NEW t \in Seq(X)
    PROVE  /\ s \o t \in Seq(X)
           /\ Elements(s \o t) = Elements(s) \cup Elements(t)
           /\ /\ \A i, j \in DOMAIN s : s[i] = s[j] => i = j
              /\ \A i, j \in DOMAIN t : t[i] = t[j] => i = j
              /\ Elements(s) \cap Elements(t) = {}
              => \A i, j \in DOMAIN (s \o t) : (s \o t)[i] = (s \o t)[j] => i = j
<1>1. PICK c : c = s \o t
  OBVIOUS
<1>2. PICK m, n : m = Len(s) /\ n = Len(t)
  OBVIOUS
<1>3. /\ m \in Nat /\ n \in Nat /\ DOMAIN s = 1..m /\ DOMAIN t = 1..n
      /\ c \in Seq(X) /\ DOMAIN c = 1..(m + n)
      /\ \A i \in 1..(m + n) : c[i] = IF i <= m THEN s[i] ELSE t[i - m]
  BY <1>1, <1>2
<1>4. \A i \in 1..(m + n) : IF i <= m THEN i \in 1..m ELSE i - m \in 1..n
  BY <1>3
<1>5. (\A i \in 1..m : i \in 1..(m + n) /\ i <= m) /\ (\A i \in 1..n : m + i \in 1..(m + n) /\ ~(m + i <= m) /\ (m + i) - m = i)
  BY <1>3
<1>6. Elements(c) = Elements(s) \cup Elements(t)
  <2>1. \A i \in DOMAIN c : c[i] \in Elements(s) \cup Elements(t)
    BY <1>3, <1>4 DEF Elements
  <2>2. \A i \in DOMAIN s : s[i] \in Elements(c)
    BY <1>3, <1>5 DEF Elements
  <2>3. ASSUME NEW i \in DOMAIN t PROVE t[i] \in Elements(c)
    <3>1. m + i \in DOMAIN c /\ c[m + i] = t[i]
      BY <1>3, <1>5
    <3>2. QED BY <3>1 DEF Elements
  <2>4. QED BY <2>1, <2>2, <2>3 DEF Elements
<1>7. ASSUME \A i, j \in DOMAIN s : s[i] = s[j] => i = j,
             \A i, j \in DOMAIN t : t[i] = t[j] => i = j,
             Elements(s) \cap Elements(t) = {},
             NEW i \in DOMAIN c, NEW j \in DOMAIN c, c[i] = c[j]
      PROVE  i = j
  <2>0. i \in Int /\ j \in Int /\ m \in Int
    BY <1>3
  <2>1. CASE i <= m /\ j <= m
    BY <1>3, <1>4, <1>7, <2>1
  <2>2. CASE ~(i <= m) /\ ~(j <= m)
    <3>1. i - m \in DOMAIN t /\ j - m \in DOMAIN t /\ t[i - m] = t[j - m]
      BY <1>3, <1>4, <1>7, <2>2
    <3>2. i - m = j - m
      BY <1>7, <3>1
    <3>3. QED BY <2>0, <3>2
  <2>3. CASE i <= m /\ ~(j <= m)
    <3>1. c[i] \in Elements(s) /\ c[j] \in Elements(t)
      BY <1>3, <1>4, <2>3 DEF Elements
    <3>2. QED BY <1>7, <3>1
  <2>4. CASE ~(i <= m) /\ j <= m
    <3>1. c[i] \in Elements(t) /\ c[j] \in Elements(s)
      BY <1>3, <1>4, <2>4 DEF Elements
    <3>2. QED BY <1>7, <3>1
  <2>5. QED BY <2>1, <2>2, <2>3, <2>4
<1>8. QED BY <1>1, <1>3, <1>6, <1>7

(* Nothing is left of a list once all it names is sorted. *)
LEMMA LeftFacts ==
    ASSUME TypeOK, NEW n \in Known
    PROVE  /\ IsFiniteSet(Left(n)) /\ Cardinality(Left(n)) \in Nat
           /\ Cardinality(Left(n)) = 0 <=> Elements(graph.deps[n]) \subseteq Elements(sorted)
           /\ IsFiniteSet(DOMAIN graph.deps[n])
<1>1. PICK d : d = graph.deps[n]
  OBVIOUS
<1>2. d \in Seq(Ids)
  BY <1>1, GraphFacts DEF TypeOK
<1>3. DOMAIN d = 1..Len(d) /\ Len(d) \in Nat
  BY <1>2
<1>4. IsFiniteSet(DOMAIN d)
  BY <1>3, FS_Interval
<1>5. Left(n) \subseteq DOMAIN d
  BY <1>1 DEF Left
<1>6. IsFiniteSet(Left(n)) /\ Cardinality(Left(n)) \in Nat
  BY <1>4, <1>5, FS_Subset, FS_CardinalityType
<1>7. Cardinality(Left(n)) = 0 <=> Left(n) = {}
  BY <1>6, FS_EmptySet
<1>8. Left(n) = {} <=> Elements(d) \subseteq Elements(sorted)
  BY <1>1 DEF Left, Elements
<1>9. QED BY <1>1, <1>4, <1>6, <1>7, <1>8

(* What counting down the entries of a node that is sorted leaves. *)
LEMMA CountedDown ==
    ASSUME TypeOK, NEW x, x \notin Elements(sorted), NEW n \in Known,
           inDegree[n] = Cardinality(Left(n)),
           NEW rest, rest = {i \in DOMAIN graph.deps[n] : graph.deps[n][i] \notin Elements(sorted) \cup {x}}
    PROVE  /\ inDegree[n] - Entries(n, x) = Cardinality(rest) /\ Cardinality(rest) \in Nat
           /\ inDegree[n] = 0 => Cardinality(rest) = 0 /\ n \notin ChildrenOf(x)
           /\ n \notin ChildrenOf(x) => Cardinality(rest) = inDegree[n]
<1>1. PICK Y : Y = {i \in DOMAIN graph.deps[n] : graph.deps[n][i] = x}
  OBVIOUS
<1>2. Entries(n, x) = Cardinality(Y)
  BY <1>1 DEF Entries
<1>3. Left(n) = rest \cup Y /\ rest \cap Y = {}
  BY <1>1 DEF Left
<1>4. IsFiniteSet(rest) /\ IsFiniteSet(Y) /\ Cardinality(rest) \in Nat /\ Cardinality(Y) \in Nat
  <2>1. rest \subseteq DOMAIN graph.deps[n] /\ Y \subseteq DOMAIN graph.deps[n]
    BY <1>1
  <2>2. QED BY <2>1, LeftFacts, FS_Subset, FS_CardinalityType
<1>5. Cardinality(Left(n)) = Cardinality(rest) + Cardinality(Y)
  <2>1. Cardinality(rest \cup Y) = Cardinality(rest) + Cardinality(Y) - Cardinality({})
    BY <1>3, <1>4, FS_Union
  <2>2. Cardinality({}) = 0
    BY FS_EmptySet
  <2>3. QED BY <1>3, <1>4, <2>1, <2>2
<1>6. n \in ChildrenOf(x) <=> Y # {}
  BY <1>1 DEF ChildrenOf, Elements
<1>7. Cardinality(Y) = 0 <=> Y = {}
  BY <1>4, FS_EmptySet
<1>8. QED BY <1>2, <1>4, <1>5, <1>6, <1>7

(* A step of the sort: the node at the head of the queue is sorted, after   *)
(* all it depends on, and those it was the last to hold back are queued. *)
LEMMA SortGoesOn ==
    ASSUME TypeOK, ValidatorInv, Process
    PROVE  TypeOK' /\ DegreesAreTrue' /\ OrderRespectsDependencies'
<1>1. PICK x : x = Head(queue)
  OBVIOUS
<1>2. /\ pc = "kahn" /\ queue # <<>> /\ queue \in Seq(Known) /\ sorted \in Seq(Known)
      /\ UNCHANGED <<graph, pc, colour, stack, cycles, verdict>> /\ graph \in Graphs
      /\ sorted' = Append(sorted, x) /\ inDegree' = DecrementedBy(x)
      /\ queue' = Tail(queue) \o Released(x)
  BY <1>1 DEF Process, TypeOK
<1>3. /\ \A n \in Known :
            /\ inDegree[n] = Cardinality(Left(n))
            /\ inDegree[n] = 0 <=> n \in Elements(sorted) \cup Elements(queue)
      /\ Elements(sorted) \cap Elements(queue) = {}
      /\ \A i, j \in DOMAIN queue : queue[i] = queue[j] => i = j
  BY <1>2 DEF ValidatorInv, DegreesAreTrue
<1>4. /\ x \in Known /\ Tail(queue) \in Seq(Known) /\ Len(queue) \in Nat \ {0} /\ DOMAIN queue = 1..Len(queue)
      /\ DOMAIN Tail(queue) = 1..(Len(queue) - 1) /\ x = queue[1]
      /\ \A i \in 1..(Len(queue) - 1) : Tail(queue)[i] = queue[i + 1]
      /\ Elements(queue) = {x} \cup Elements(Tail(queue))
  BY <1>1, <1>2, TailFacts
<1>5. \A i \in 1..(Len(queue) - 1) : i + 1 \in DOMAIN queue /\ i + 1 # 1
  BY <1>4
<1>6. x \notin Elements(Tail(queue))
  BY <1>3, <1>4, <1>5 DEF Elements
<1>7. \A i, j \in DOMAIN Tail(queue) : Tail(queue)[i] = Tail(queue)[j] => i = j
  <2> SUFFICES ASSUME NEW i \in DOMAIN Tail(queue), NEW j \in DOMAIN Tail(queue), Tail(queue)[i] = Tail(queue)[j]
               PROVE  i = j
    OBVIOUS
  <2>1. i + 1 = j + 1
    BY <1>3, <1>4, <1>5
  <2>2. QED BY <1>4, <2>1
<1>8. x \notin Elements(sorted) /\ inDegree[x] = 0
  BY <1>3, <1>4
<1>9. /\ sorted' \in Seq(Known) /\ Len(sorted) \in Nat
      /\ DOMAIN sorted = 1..Len(sorted) /\ DOMAIN sorted' = 1..(Len(sorted) + 1)
      /\ \A i \in 1..Len(sorted) : sorted'[i] = sorted[i]
      /\ sorted'[Len(sorted) + 1] = x
  BY <1>2, <1>4, AppendFacts
<1>10. \A i : i \in 1..(Len(sorted) + 1) <=> i \in 1..Len(sorted) \/ i = Len(sorted) + 1
  BY <1>9
<1>11. Elements(sorted') = Elements(sorted) \cup {x}
  <2>1. \A i \in DOMAIN sorted' : sorted'[i] \in Elements(sorted) \cup {x}
    BY <1>9, <1>10 DEF Elements
  <2>2. x \in Elements(sorted') /\ \A i \in DOMAIN sorted : sorted[i] \in Elements(sorted')
    BY <1>9, <1>10 DEF Elements
  <2>3. QED BY <2>1, <2>2 DEF Elements
<1>12. Known' = Known /\ \A p : ChildrenOf(p)' = ChildrenOf(p)
  BY <1>2 DEF Known, ChildrenOf
<1>13. \A n \in Known : Left(n)' = {i \in DOMAIN graph.deps[n] : graph.deps[n][i] \notin Elements(sorted) \cup {x}}
  BY <1>2, <1>11 DEF Left
<1>14. ASSUME NEW n \in Known
       PROVE  /\ inDegree'[n] = Cardinality(Left(n)') /\ inDegree'[n] \in Nat
              /\ inDegree[n] = 0 => inDegree'[n] = 0 /\ n \notin ChildrenOf(x)
              /\ n \notin ChildrenOf(x) => inDegree'[n] = inDegree[n]
  <2>1. inDegree'[n] = inDegree[n] - Entries(n, x)
    BY <1>2 DEF DecrementedBy
  <2>2. PICK rest : rest = Left(n)'
    OBVIOUS
  <2>3. QED BY <1>3, <1>8, <1>13, <2>1, <2>2, CountedDown
<1>15. PICK new : new = Released(x)
  OBVIOUS
<1>16. /\ new \in Seq(Known)
       /\ \A n : n \in Elements(new) <=> n \in Known /\ n \in ChildrenOf(x) /\ inDegree'[n] = 0
       /\ \A i, j \in DOMAIN new : new[i] = new[j] => i = j
  <2>1. PICK T : T = {n \in Known : DecrementedBy(x)[n] = 0}
    OBVIOUS
  <2>2. new = KeptOf(Children(x), T)
    BY <1>15, <2>1 DEF Released
  <2>3. /\ Children(x) \in Seq(Known) /\ Elements(Children(x)) = ChildrenOf(x)
        /\ \A i, j \in DOMAIN Children(x) : Children(x)[i] = Children(x)[j] => i = j
    BY <1>2, ChildrenFacts
  <2>4. Elements(new) = ChildrenOf(x) \cap T
    BY <2>2, <2>3, KeptFacts
  <2>5. new \in Seq(Known) /\ \A i, j \in DOMAIN new : new[i] = new[j] => i = j
    BY <2>2, <2>3, KeptFacts
  <2>6. QED BY <1>2, <2>1, <2>4, <2>5
<1>17. /\ queue' \in Seq(Known) /\ Elements(queue') = Elements(Tail(queue)) \cup Elements(new)
       /\ \A i, j \in DOMAIN queue' : queue'[i] = queue'[j] => i = j
  <2>1. Elements(Tail(queue)) \cap Elements(new) = {}
    <3>1. ASSUME NEW n \in Elements(Tail(queue)) PROVE n \notin Elements(new)
      <4>1. n \in Known => inDegree[n] = 0
        BY <1>3, <1>4
      <4>2. QED BY <1>14, <1>16, <4>1
    <3>2. QED BY <3>1
  <2>2. PICK s : s = Tail(queue)
    OBVIOUS
  <2>3. queue' = s \o new /\ s \in Seq(Known) /\ new \in Seq(Known)
    BY <1>2, <1>4, <1>15, <1>16, <2>2
  <2>4. /\ \A i, j \in DOMAIN s : s[i] = s[j] => i = j
        /\ \A i, j \in DOMAIN new : new[i] = new[j] => i = j
        /\ Elements(s) \cap Elements(new) = {}
    BY <1>7, <1>16, <2>1, <2>2
  <2>5. PICK c : c = s \o new
    OBVIOUS
  <2>6. /\ c \in Seq(Known) /\ Elements(c) = Elements(s) \cup Elements(new)
        /\ \A i, j \in DOMAIN c : c[i] = c[j] => i = j
    BY <2>3, <2>4, <2>5, ConcatFacts
  <2>7. queue' = c
    BY <2>3, <2>5
  <2>8. QED BY <2>2, <2>6, <2>7
<1>18. DegreesAreTrue'
  <2>1. ASSUME NEW n \in Known
        PROVE  inDegree'[n] = 0 <=> n \in Elements(sorted') \cup Elements(queue')
    <3>1. inDegree[n] = 0 <=> n \in Elements(sorted) \/ n = x \/ n \in Elements(Tail(queue))
      BY <1>3, <1>4
    <3>2. CASE inDegree[n] = 0
      BY <1>11, <1>14, <1>17, <3>1, <3>2
    <3>3. CASE inDegree[n] # 0
      BY <1>11, <1>14, <1>16, <1>17, <3>1, <3>3
    <3>4. QED BY <3>2, <3>3
  <2>2. ASSUME NEW n \in Elements(queue') PROVE n \notin Elements(sorted')
    <3>1. CASE n \in Elements(Tail(queue))
      BY <1>3, <1>4, <1>6, <1>11, <3>1
    <3>2. CASE n \in Elements(new)
      <4>1. n \in Known /\ inDegree[n] # 0
        BY <1>14, <1>16, <3>2
      <4>2. QED BY <1>3, <1>4, <1>11, <4>1
    <3>3. QED BY <1>17, <3>1, <3>2
  <2>3. Elements(sorted') \cap Elements(queue') = {}
    BY <2>2
  <2>4. QED BY <1>12, <1>14, <1>17, <2>1, <2>3 DEF DegreesAreTrue
<1>19. OrderRespectsDependencies'
  <2>1. \A i \in DOMAIN sorted :
          /\ \A j \in DOMAIN sorted : sorted[i] = sorted[j] => i = j
          /\ \A p \in Elements(graph.deps[sorted[i]]) : \E j \in 1..(i - 1) : sorted[j] = p
    BY DEF ValidatorInv, AnswersAreTrue, OrderRespectsDependencies
  <2>2. \A i \in 1..Len(sorted) : sorted[i] \in Elements(sorted) /\ sorted[i] # x
    BY <1>8, <1>9 DEF Elements
  <2>3. ASSUME NEW i \in DOMAIN sorted', NEW j \in DOMAIN sorted', sorted'[i] = sorted'[j] PROVE i = j
    BY <1>9, <1>10, <2>1, <2>2, <2>3
  <2>4. ASSUME NEW i \in DOMAIN sorted', NEW p \in Elements(graph.deps[sorted'[i]])
        PROVE  \E j \in 1..(i - 1) : sorted'[j] = p
    <3>1. CASE i \in 1..Len(sorted)
      <4>1. PICK j \in 1..(i - 1) : sorted[j] = p
        BY <1>9, <2>1, <2>4, <3>1
      <4>2. j \in 1..Len(sorted)
        BY <1>9, <3>1
      <4>3. QED BY <1>9, <4>1, <4>2
    <3>2. CASE i = Len(sorted) + 1
      <4>1. p \in Elements(graph.deps[x])
        BY <1>9, <2>4, <3>2
      <4>2. p \in Elements(sorted)
        BY <1>3, <1>4, <1>8, <4>1, LeftFacts
      <4>3. PICK j \in 1..Len(sorted) : sorted[j] = p
        BY <1>9, <4>2 DEF Elements
      <4>4. (Len(sorted) + 1) - 1 = Len(sorted)
        BY <1>9
      <4>5. QED BY <1>9, <3>2, <4>3, <4>4
    <3>3. QED BY <1>9, <1>10, <3>1, <3>2
  <2>5. QED BY <1>2, <2>3, <2>4 DEF OrderRespectsDependencies
<1>20. inDegree' \in [Known -> Nat]
  <2>1. inDegree' = [n \in Known |-> inDegree[n] - Entries(n, x)]
    BY <1>2 DEF DecrementedBy
  <2>2. \A n \in Known : inDegree'[n] \in Nat
    BY <1>14
  <2>3. QED BY <2>1, <2>2
<1>21. TypeOK'
  BY <1>2, <1>9, <1>12, <1>17, <1>20 DEF TypeOK
<1>22. QED BY <1>18, <1>19, <1>21

(* What a step of the algorithms keeps true whatever it does. *)
LEMMA ValidatorUnmoved ==
    ASSUME UNCHANGED graph
    PROVE  /\ Known' = Known /\ WellFormed' = WellFormed /\ StructuralErrors' = StructuralErrors
           /\ \A p : ChildrenOf(p)' = ChildrenOf(p)
BY DEF Known, WellFormed, StructuralErrors, ChildrenOf

(* The structural checks reject what cannot be well formed. *)
LEMMA ValidatorChecks ==
    ASSUME TypeOK, ValidatorInv, Check
    PROVE  TypeOK' /\ ValidatorInv'
<1>1. UNCHANGED <<graph, colour, stack, cycles, inDegree, queue, sorted>> /\ pc = "check"
  BY DEF Check
<1>2. /\ Known' = Known /\ WellFormed' = WellFormed /\ StructuralErrors' = StructuralErrors
      /\ \A p : ChildrenOf(p)' = ChildrenOf(p)
  BY <1>1, ValidatorUnmoved
<1>3. PathIsGrey' /\ NothingIsMissed' /\ OrderRespectsDependencies' /\ ReportedCyclesExist'
  <2>1. PathIsGrey' BY <1>1, <1>2 DEF ValidatorInv, PathIsGrey
  <2>2. NothingIsMissed' BY <1>1, <1>2 DEF ValidatorInv, NothingIsMissed, Black
  <2>3. QED BY <1>1, <2>1, <2>2 DEF ValidatorInv, AnswersAreTrue, OrderRespectsDependencies, ReportedCyclesExist
<1>4. verdict.reason # "incomplete"
  BY DEF ValidatorInv, AnswersAreTrue, VerdictCorrect
<1>5. CASE Known = {}
  <2>1. pc' = "done" /\ verdict' = [valid |-> FALSE, reason |-> "empty"] /\ ~WellFormed
    BY <1>5 DEF Check, Returned, WellFormed
  <2>2. VerdictCorrect' /\ PhasesAreTrue' /\ DegreesAreTrue' /\ TypeOK'
    BY <1>1, <1>2, <2>1 DEF VerdictCorrect, PhasesAreTrue, DegreesAreTrue, TypeOK
  <2>3. QED BY <1>3, <2>2 DEF ValidatorInv, AnswersAreTrue
<1>6. CASE Known # {} /\ StructuralErrors
  <2>1. pc' = "done" /\ verdict' = [valid |-> FALSE, reason |-> "structure"]
    BY <1>6 DEF Check, Returned
  <2>2. ~WellFormed
    <3>1. PICK n \in Known : \E p \in Elements(graph.deps[n]) : p = n \/ p \notin Known
      BY <1>6 DEF StructuralErrors
    <3>2. ~(Elements(graph.deps[n]) \subseteq Known \ {n})
      BY <3>1
    <3>3. QED BY <3>2 DEF WellFormed
  <2>3. VerdictCorrect' /\ PhasesAreTrue' /\ DegreesAreTrue' /\ TypeOK'
    BY <1>1, <1>2, <2>1, <2>2 DEF VerdictCorrect, PhasesAreTrue, DegreesAreTrue, TypeOK
  <2>4. QED BY <1>3, <2>3 DEF ValidatorInv, AnswersAreTrue
<1>7. CASE Known # {} /\ ~StructuralErrors
  <2>1. pc' = "dfs" /\ UNCHANGED verdict
    BY <1>7 DEF Check
  <2>2. sorted = <<>>
    BY <1>1 DEF ValidatorInv, PhasesAreTrue
  <2>3. VerdictCorrect' /\ PhasesAreTrue' /\ DegreesAreTrue' /\ TypeOK'
    BY <1>1, <1>2, <1>4, <1>7, <2>1, <2>2 DEF VerdictCorrect, PhasesAreTrue, DegreesAreTrue, TypeOK
  <2>4. QED BY <1>3, <2>3 DEF ValidatorInv, AnswersAreTrue
<1>8. QED BY <1>5, <1>6, <1>7

(* A child that is grey closes a cycle; the other steps report none. *)
LEMMA CyclesAreReported ==
    ASSUME TypeOK, PathIsGrey, ReportedCyclesExist, Descend
    PROVE  ReportedCyclesExist' /\ cycles' \subseteq Seq(Known)
<1>1. /\ stack # <<>> /\ Top.unseen # <<>> /\ UNCHANGED graph
      /\ cycles' = IF colour[Head(Top.unseen)] = "GREY" THEN cycles \cup {CyclePath(Head(Top.unseen))} ELSE cycles
  BY DEF Descend, Visit
<1>2. PICK c : c = Head(Top.unseen)
  OBVIOUS
<1>3. /\ Top = stack[Len(stack)] /\ Len(stack) \in DOMAIN stack
      /\ c \in Known /\ c \in Elements(Top.unseen)
  BY <1>1, <1>2, LookedFacts
<1>4. c \in ChildrenOf(Top.id)
  BY <1>3 DEF PathIsGrey
<1>5. cycles \subseteq Seq(Known)
  BY DEF TypeOK
<1>6. CASE colour[c] = "GREY"
  <2>1. PICK path : path = CyclePath(c)
    OBVIOUS
  <2>2. /\ path \in Seq(Known) /\ Len(path) > 1 /\ path[1] = path[Len(path)]
        /\ \A i \in 1..(Len(path) - 1) : path[i] \in Elements(graph.deps[path[i + 1]])
    BY <1>1, <1>3, <1>4, <1>6, <2>1, PathClosed
  <2>3. cycles' = cycles \cup {path}
    BY <1>1, <1>2, <1>6, <2>1
  <2>4. \A q \in cycles \cup {path} :
           /\ Len(q) > 1 /\ q[1] = q[Len(q)]
           /\ \A i \in 1..(Len(q) - 1) : q[i] \in Elements(graph.deps[q[i + 1]])
    BY <2>2 DEF ReportedCyclesExist
  <2>5. QED BY <1>1, <1>5, <2>2, <2>3, <2>4 DEF ReportedCyclesExist
<1>7. CASE colour[c] # "GREY"
  BY <1>1, <1>2, <1>5, <1>7 DEF ReportedCyclesExist
<1>8. QED BY <1>6, <1>7

(* The three steps of the search. *)
LEMMA ValidatorSearches ==
    ASSUME TypeOK, ValidatorInv, StartSearch \/ Descend \/ Retreat
    PROVE  TypeOK' /\ ValidatorInv'
<1>1. UNCHANGED <<graph, pc, inDegree, queue, sorted, verdict>> /\ pc = "dfs"
  BY DEF StartSearch, Descend, Retreat
<1>2. /\ Known' = Known /\ WellFormed' = WellFormed /\ StructuralErrors' = StructuralErrors
  BY <1>1, ValidatorUnmoved
<1>3. PathIsGrey' /\ NothingIsMissed' /\ stack' \in Seq(Frame) /\ colour' \in [Known -> {"WHITE", "GREY", "BLACK"}]
  BY SearchBegins, SearchLooks, SearchRetreats DEF ValidatorInv
<1>4. ReportedCyclesExist' /\ cycles' \subseteq Seq(Known)
  <2>1. CASE UNCHANGED cycles
    BY <1>1, <2>1 DEF ValidatorInv, AnswersAreTrue, ReportedCyclesExist, TypeOK
  <2>2. CASE Descend
    BY <2>2, CyclesAreReported DEF ValidatorInv, AnswersAreTrue
  <2>3. QED BY <2>1, <2>2 DEF StartSearch, Retreat
<1>5. TypeOK'
  BY <1>1, <1>2, <1>3, <1>4 DEF TypeOK, Frame
<1>6. PhasesAreTrue' /\ DegreesAreTrue'
  BY <1>1, <1>2 DEF ValidatorInv, PhasesAreTrue, DegreesAreTrue
<1>7. VerdictCorrect' /\ OrderRespectsDependencies'
  BY <1>1, <1>2 DEF ValidatorInv, AnswersAreTrue, VerdictCorrect, OrderRespectsDependencies
<1>8. QED BY <1>3, <1>4, <1>5, <1>6, <1>7 DEF ValidatorInv, AnswersAreTrue

(* The sort starts with the roots queued and nothing sorted. *)
LEMMA SortBegins ==
    ASSUME TypeOK, sorted = <<>>,
           inDegree' = [n \in Known |-> Len(graph.deps[n])],
           queue' = KeptOf(graph.order, {n \in Known : graph.deps[n] = <<>>}),
           UNCHANGED <<graph, sorted>>
    PROVE  /\ queue' \in Seq(Known) /\ inDegree' \in [Known -> Nat]
           /\ DegreesAreTrue'
<1>1. /\ graph.order \in Seq(Known) /\ Elements(graph.order) = Known
      /\ \A i, j \in DOMAIN graph.order : graph.order[i] = graph.order[j] => i = j
      /\ graph.deps \in [Known -> Seq(Ids)]
  BY GraphFacts DEF TypeOK
<1>2. PICK T : T = {n \in Known : graph.deps[n] = <<>>}
  OBVIOUS
<1>3. PICK q : q = KeptOf(graph.order, T)
  OBVIOUS
<1>4. /\ q \in Seq(Known) /\ Elements(q) = Known \cap T
      /\ \A i, j \in DOMAIN q : q[i] = q[j] => i = j
  <2>1. PICK s : s = graph.order
    OBVIOUS
  <2>2. s \in Seq(Known) /\ Elements(s) = Known /\ \A i, j \in DOMAIN s : s[i] = s[j] => i = j
    BY <1>1, <2>1
  <2>3. /\ KeptOf(s, T) \in Seq(Known) /\ Elements(KeptOf(s, T)) = Elements(s) \cap T
        /\ \A i, j \in DOMAIN KeptOf(s, T) : KeptOf(s, T)[i] = KeptOf(s, T)[j] => i = j
    BY <2>2, KeptFacts
  <2>4. QED BY <1>3, <2>1, <2>2, <2>3
<1>5. Elements(sorted) = {} /\ Elements(sorted') = {}
  BY DEF Elements
<1>6. ASSUME NEW n \in Known
      PROVE  /\ Len(graph.deps[n]) \in Nat
             /\ Left(n)' = 1..Len(graph.deps[n]) /\ Cardinality(1..Len(graph.deps[n])) = Len(graph.deps[n])
             /\ Len(graph.deps[n]) = 0 <=> n \in T
  <2>1. PICK s : s = graph.deps[n]
    OBVIOUS
  <2>2. s \in Seq(Ids) /\ Len(s) \in Nat /\ DOMAIN s = 1..Len(s)
    BY <1>1, <2>1
  <2>3. Len(s) = 0 <=> s = <<>>
    BY <2>2
  <2>4. Cardinality(1..Len(s)) = Len(s)
    <3>1. Cardinality(1..Len(s)) = IF 1 > Len(s) THEN 0 ELSE Len(s) - 1 + 1
      BY <2>2, FS_Interval
    <3>2. QED BY <2>2, <3>1
  <2>5. Left(n)' = DOMAIN s
    BY <1>5, <2>1 DEF Left
  <2>6. QED BY <1>2, <2>1, <2>2, <2>3, <2>4, <2>5
<1>7. Known' = Known
  BY DEF Known
<1>8. queue' = q
  BY <1>2, <1>3
<1>9. inDegree' \in [Known -> Nat] /\ \A n \in Known : inDegree'[n] = Len(graph.deps[n])
  BY <1>6
<1>10. DegreesAreTrue'
  <2>1. \A n \in Known : inDegree'[n] = Cardinality(Left(n)')
    BY <1>6, <1>9
  <2>2. \A n \in Known : inDegree'[n] = 0 <=> n \in Elements(sorted') \cup Elements(queue')
    BY <1>4, <1>5, <1>6, <1>8, <1>9
  <2>3. QED BY <1>4, <1>5, <1>7, <1>8, <2>1, <2>2 DEF DegreesAreTrue
<1>11. QED BY <1>4, <1>8, <1>9, <1>10

(* The end of the search: the verdict, or the start of the sort. *)
LEMMA SearchEnds ==
    ASSUME TypeOK, ValidatorInv, EndSearch
    PROVE  TypeOK' /\ ValidatorInv'
<1>1. /\ UNCHANGED <<graph, colour, stack, cycles, sorted>> /\ pc = "dfs" /\ stack = <<>>
      /\ \A n \in Known : colour[n] # "WHITE"
  BY DEF EndSearch
<1>2. /\ Known' = Known /\ WellFormed' = WellFormed /\ StructuralErrors' = StructuralErrors
      /\ \A p : ChildrenOf(p)' = ChildrenOf(p)
  BY <1>1, ValidatorUnmoved
<1>3. PathIsGrey' /\ NothingIsMissed' /\ OrderRespectsDependencies' /\ ReportedCyclesExist'
  <2>1. PathIsGrey' BY <1>1, <1>2 DEF ValidatorInv, PathIsGrey
  <2>2. NothingIsMissed' BY <1>1, <1>2 DEF ValidatorInv, NothingIsMissed, Black
  <2>3. QED BY <1>1, <2>1, <2>2 DEF ValidatorInv, AnswersAreTrue, OrderRespectsDependencies, ReportedCyclesExist
<1>4. sorted = <<>> /\ Known # {} /\ ~StructuralErrors /\ verdict.reason # "incomplete"
  BY <1>1 DEF ValidatorInv, PhasesAreTrue, AnswersAreTrue, VerdictCorrect
<1>5. CASE cycles # {}
  <2>1. pc' = "done" /\ verdict' = [valid |-> FALSE, reason |-> "cycle"] /\ UNCHANGED <<inDegree, queue>>
    BY <1>5 DEF EndSearch, Returned
  <2>2. ~WellFormed
    BY <1>5, CyclesAreNotWellFormed DEF ValidatorInv, AnswersAreTrue
  <2>3. VerdictCorrect' /\ PhasesAreTrue' /\ DegreesAreTrue' /\ TypeOK'
    BY <1>1, <1>2, <2>1, <2>2 DEF VerdictCorrect, PhasesAreTrue, DegreesAreTrue, TypeOK
  <2>4. QED BY <1>3, <2>3 DEF ValidatorInv, AnswersAreTrue
<1>6. CASE cycles = {}
  <2>1. /\ pc' = "kahn" /\ UNCHANGED verdict
        /\ inDegree' = [n \in Known |-> Len(graph.deps[n])]
        /\ queue' = KeptOf(graph.order, {n \in Known : graph.deps[n] = <<>>})
    BY <1>6 DEF EndSearch
  <2>2. WellFormed
    BY <1>1, <1>6, SearchedIsWellFormed DEF ValidatorInv
  <2>3. queue' \in Seq(Known) /\ inDegree' \in [Known -> Nat] /\ DegreesAreTrue'
    BY <1>1, <1>4, <2>1, SortBegins
  <2>4. VerdictCorrect' /\ PhasesAreTrue' /\ TypeOK'
    BY <1>1, <1>2, <1>4, <2>1, <2>2, <2>3 DEF VerdictCorrect, PhasesAreTrue, TypeOK
  <2>5. QED BY <1>3, <2>3, <2>4 DEF ValidatorInv, AnswersAreTrue
<1>7. QED BY <1>5, <1>6

(* With an empty queue everything is sorted: a set of unsorted nodes would *)
(* have a member whose dependencies are all sorted.                        *)
LEMMA SortIsComplete ==
    ASSUME TypeOK, ValidatorInv, pc = "kahn", queue = <<>>
    PROVE  Len(sorted) = Cardinality(Known)
<1>1. /\ WellFormed
      /\ \A n \in Known : inDegree[n] = Cardinality(Left(n))
      /\ \A n \in Known : inDegree[n] = 0 <=> n \in Elements(sorted) \cup Elements(queue)
      /\ \A i, j \in DOMAIN sorted : sorted[i] = sorted[j] => i = j
  BY DEF ValidatorInv, PhasesAreTrue, DegreesAreTrue, AnswersAreTrue, OrderRespectsDependencies
<1>2. Elements(queue) = {}
  BY DEF Elements
<1>3. Known \ Elements(sorted) = {}
  <2>1. SUFFICES ASSUME Known \ Elements(sorted) # {} PROVE FALSE
    OBVIOUS
  <2>2. PICK n \in Known \ Elements(sorted) : Elements(graph.deps[n]) \subseteq Known \ (Known \ Elements(sorted))
    BY <1>1, <2>1 DEF WellFormed
  <2>3. Elements(graph.deps[n]) \subseteq Elements(sorted)
    BY <2>2
  <2>4. Cardinality(Left(n)) = 0
    BY <2>2, <2>3, LeftFacts
  <2>5. QED BY <1>1, <1>2, <2>2, <2>4
<1>4. PICK s : s = sorted
  OBVIOUS
<1>5. s \in Seq(Known) /\ Len(s) \in Nat /\ DOMAIN s = 1..Len(s)
  BY <1>4 DEF TypeOK
<1>6. s \in [1..Len(s) -> Known] /\ \A n \in Known : \E i \in 1..Len(s) : s[i] = n
  BY <1>3, <1>4, <1>5 DEF Elements
<1>7. s \in Bijection(1..Len(s), Known)
  <2>1. \A i, j \in 1..Len(s) : s[i] = s[j] => i = j
    BY <1>1, <1>4, <1>5
  <2>2. s \in Surjection(1..Len(s), Known)
    BY <1>6 DEF Surjection
  <2>3. s \in Injection(1..Len(s), Known)
    BY <1>6, <2>1 DEF Injection, IsInjective
  <2>4. QED BY <2>2, <2>3 DEF Bijection
<1>8. IsFiniteSet(1..Len(s)) /\ Cardinality(1..Len(s)) = Len(s)
  <2>1. /\ IsFiniteSet(1..Len(s))
        /\ Cardinality(1..Len(s)) = IF 1 > Len(s) THEN 0 ELSE Len(s) - 1 + 1
    BY <1>5, FS_Interval
  <2>2. QED BY <1>5, <2>1
<1>9. ExistsBijection(1..Len(s), Known)
  BY <1>7 DEF ExistsBijection
<1>10. Cardinality(Known) = Cardinality(1..Len(s))
  BY <1>8, <1>9, FS_Bijection
<1>11. QED BY <1>4, <1>8, <1>10

(* The end of the sort is the answer that the graph is well formed. *)
LEMMA SortEnds ==
    ASSUME TypeOK, ValidatorInv, EndSort
    PROVE  TypeOK' /\ ValidatorInv'
<1>1. UNCHANGED <<graph, colour, stack, cycles, inDegree, queue, sorted>> /\ pc = "kahn" /\ queue = <<>>
  BY DEF EndSort
<1>2. /\ Known' = Known /\ WellFormed' = WellFormed /\ StructuralErrors' = StructuralErrors
      /\ \A p : ChildrenOf(p)' = ChildrenOf(p)
  BY <1>1, ValidatorUnmoved
<1>3. PathIsGrey' /\ NothingIsMissed' /\ OrderRespectsDependencies' /\ ReportedCyclesExist'
  <2>1. PathIsGrey' BY <1>1, <1>2 DEF ValidatorInv, PathIsGrey
  <2>2. NothingIsMissed' BY <1>1, <1>2 DEF ValidatorInv, NothingIsMissed, Black
  <2>3. QED BY <1>1, <2>1, <2>2 DEF ValidatorInv, AnswersAreTrue, OrderRespectsDependencies, ReportedCyclesExist
<1>4. pc' = "done" /\ verdict' = [valid |-> TRUE, reason |-> "none"]
  BY <1>1, SortIsComplete DEF EndSort, Returned
<1>5. WellFormed
  BY <1>1 DEF ValidatorInv, PhasesAreTrue
<1>6. VerdictCorrect' /\ PhasesAreTrue' /\ DegreesAreTrue' /\ TypeOK'
  BY <1>1, <1>2, <1>4, <1>5 DEF VerdictCorrect, PhasesAreTrue, DegreesAreTrue, TypeOK
<1>7. QED BY <1>3, <1>6 DEF ValidatorInv, AnswersAreTrue

LEMMA ValidatorSorts ==
    ASSUME TypeOK, ValidatorInv, Process
    PROVE  TypeOK' /\ ValidatorInv'
<1>1. UNCHANGED <<graph, pc, colour, stack, cycles, verdict>> /\ pc = "kahn"
  BY DEF Process
<1>2. /\ Known' = Known /\ WellFormed' = WellFormed /\ StructuralErrors' = StructuralErrors
      /\ \A p : ChildrenOf(p)' = ChildrenOf(p)
  BY <1>1, ValidatorUnmoved
<1>3. PathIsGrey' /\ NothingIsMissed' /\ ReportedCyclesExist' /\ VerdictCorrect' /\ PhasesAreTrue'
  <2>1. PathIsGrey' BY <1>1, <1>2 DEF ValidatorInv, PathIsGrey
  <2>2. NothingIsMissed' BY <1>1, <1>2 DEF ValidatorInv, NothingIsMissed, Black
  <2>3. PhasesAreTrue' BY <1>1, <1>2 DEF ValidatorInv, PhasesAreTrue
  <2>4. QED BY <1>1, <1>2, <2>1, <2>2, <2>3 DEF ValidatorInv, AnswersAreTrue, ReportedCyclesExist, VerdictCorrect
<1>4. TypeOK' /\ DegreesAreTrue' /\ OrderRespectsDependencies'
  BY SortGoesOn
<1>5. QED BY <1>3, <1>4 DEF ValidatorInv, AnswersAreTrue

LEMMA ValidatorStarts ==
    ASSUME Init
    PROVE  TypeOK /\ ValidatorInv
<1>1. /\ graph \in Graphs /\ pc = "check" /\ stack = <<>> /\ cycles = {} /\ queue = <<>> /\ sorted = <<>>
      /\ colour = [n \in Known |-> "WHITE"] /\ inDegree = [n \in Known |-> 0]
      /\ verdict = [valid |-> FALSE, reason |-> "none"]
  BY DEF Init
<1>2. TypeOK
  BY <1>1 DEF TypeOK
<1>3. DOMAIN stack = {} /\ DOMAIN sorted = {} /\ Black = {}
  BY <1>1 DEF Black
<1>4. PathIsGrey /\ NothingIsMissed
  BY <1>1, <1>3 DEF PathIsGrey, NothingIsMissed
<1>5. PhasesAreTrue /\ DegreesAreTrue
  BY <1>1 DEF PhasesAreTrue, DegreesAreTrue
<1>6. AnswersAreTrue
  BY <1>1, <1>3 DEF AnswersAreTrue, VerdictCorrect, OrderRespectsDependencies, ReportedCyclesExist
<1>7. QED BY <1>2, <1>4, <1>5, <1>6 DEF ValidatorInv

(* Every step keeps the invariant. *)
LEMMA ValidatorStep ==
    ASSUME TypeOK, ValidatorInv, [Next]_vars
    PROVE  TypeOK' /\ ValidatorInv'
<1>1. CASE Next
  BY <1>1, ValidatorChecks, ValidatorSearches, SearchEnds, ValidatorSorts, SortEnds DEF Next
<1>2. CASE UNCHANGED vars
  <2>1. UNCHANGED <<graph, pc, colour, stack, cycles, inDegree, queue, sorted, verdict>>
    BY <1>2 DEF vars
  <2>2. /\ Known' = Known /\ WellFormed' = WellFormed /\ StructuralErrors' = StructuralErrors
        /\ \A p : ChildrenOf(p)' = ChildrenOf(p)
    BY <2>1, ValidatorUnmoved
  <2>3. TypeOK'
    BY <2>1, <2>2 DEF TypeOK
  <2>4. PathIsGrey' BY <2>1, <2>2 DEF ValidatorInv, PathIsGrey
  <2>5. NothingIsMissed' BY <2>1, <2>2 DEF ValidatorInv, NothingIsMissed, Black
  <2>6. PhasesAreTrue' BY <2>1, <2>2 DEF ValidatorInv, PhasesAreTrue
  <2>7. DegreesAreTrue'
    <3>1. \A n : Left(n)' = Left(n)
      BY <2>1 DEF Left
    <3>2. QED BY <2>1, <2>2, <3>1 DEF ValidatorInv, DegreesAreTrue
  <2>8. AnswersAreTrue'
    <3>1. VerdictCorrect' BY <2>1, <2>2 DEF ValidatorInv, AnswersAreTrue, VerdictCorrect
    <3>2. OrderRespectsDependencies' BY <2>1 DEF ValidatorInv, AnswersAreTrue, OrderRespectsDependencies
    <3>3. ReportedCyclesExist' BY <2>1 DEF ValidatorInv, AnswersAreTrue, ReportedCyclesExist
    <3>4. QED BY <3>1, <3>2, <3>3 DEF AnswersAreTrue
  <2>9. QED BY <2>3, <2>4, <2>5, <2>6, <2>7, <2>8 DEF ValidatorInv
<1>3. QED BY <1>1, <1>2

LEMMA ValidatorSubject ==
    /\ MCInit => Init
    /\ [MCNext]_all => [Next]_vars
<1>1. MCInit => Init
  BY DEF MCInit, Waits
<1>2. [MCNext]_all => [Next]_vars
  BY DEF MCNext, all
<1>3. QED BY <1>1, <1>2

(* The validator accepts exactly the graphs without cycles, self-loops and *)
(* dangling references, never finds its sort incomplete, lists every node  *)
(* after all it depends on, and reports cycles that are there, for every   *)
(* set of graphs (DagValidator.validate). *)
THEOREM AnswersStayTrue == MCSpec => []AnswersAreTrue
<1> DEFINE Inv == TypeOK /\ ValidatorInv
<1>1. MCInit => Inv
  BY ValidatorSubject, ValidatorStarts
<1>2. Inv /\ [MCNext]_all => Inv'
  BY ValidatorSubject, ValidatorStep
<1>3. Inv => AnswersAreTrue
  BY DEF ValidatorInv
<1>4. QED
  BY <1>1, <1>2, <1>3, PTL DEF MCSpec

=============================================================================
