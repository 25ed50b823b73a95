-------------------------- MODULE BlockPool_proofs --------------------------
(***************************************************************************)
(* Proofs about BlockPool, for any block objects, blockpools, pools of any *)
(* size and memory of blocks.                                              *)
(***************************************************************************)
EXTENDS BlockPool, FiniteSetTheorems, SequenceTheorems, TLAPS

-----------------------------------------------------------------------------
(* The invariant.                                                          *)

PCs == {"unmade", "make", "make clean", "idle", "get", "grow", "grow clean", "delete"}

Types ==
  /\ points \in [Handle -> Counted \cup {NoBlock}]
  /\ releasing \in [Handle -> Memory \cup {NoBlock}]
  /\ allocated \subseteq Memory /\ nfreed \in [Memory -> Nat]
  /\ life \in [Pool -> {"new", "live", "dying", "garbage", "freed"}]
  /\ use_cnt \in [Counted -> Nat]
  /\ next_alloc \in [Pool -> 1..NBlock]
  /\ can \subseteq Pool /\ todo \subseteq can
  /\ cur \in Pool \cup {"none"} /\ seen \in 0..NBlock /\ usecount \in Nat
  /\ pools \in [BlockPools -> Seq(Pool)]
  /\ curpool \in [BlockPools -> Nat] /\ oldcurpool \in [BlockPools -> Nat]
  /\ previous_next \in [BlockPools -> 1..NBlock]
  /\ pc \in [BlockPools -> PCs]
  /\ lock \in BlockPools \cup {"none"}
  /\ dropped \in [BlockPools -> BOOLEAN]

\* A blockpool in use has a current pool; who has the lock looks after garbage.
Places ==
  \A b \in BlockPools :
    /\ pc[b] \in {"idle", "get", "grow"} => curpool[b] \in 1..Len(pools[b])
    /\ pc[b] = "get" => oldcurpool[b] \in 1..Len(pools[b])
    /\ lock = b => /\ pc[b] \in {"make", "grow", "delete"}
                   /\ pc[b] = "delete" => pools[b] # <<>>

\* Each pool is of one blockpool, and live as long as it may be used.
Owned ==
  /\ \A b \in BlockPools : \A k \in 1..Len(pools[b]) :
       \/ life[pools[b][k]] = "live"
       \/ lock = b /\ pc[b] = "delete" /\ k = 1 /\ life[pools[b][k]] # "new"
  /\ \A b, c \in BlockPools : \A k \in 1..Len(pools[b]), l \in 1..Len(pools[c]) :
       pools[b][k] = pools[c][l] => b = c /\ k = l

\* What is in the can, and who is asked.
Garbage ==
  /\ \A p \in can : life[p] = "garbage"
  /\ cur # "none" => life[cur] \in {"dying", "garbage"} /\ lock # "none"
  /\ cur = "none" => seen = 0 /\ usecount = 0

\* Of which pools no block is in use, as far as is known.
Unused ==
  /\ \A p \in Pool : life[p] \in {"new", "freed"} => \A i \in 1..NBlock : use_cnt[<<p, i>>] = 0
  /\ \A p \in Pool : life[p] = "new" => next_alloc[p] = 1
  /\ cur # "none" /\ usecount = 0 => \A i \in 1..seen : use_cnt[<<cur, i>>] = 0

\* The memory of the blocks that have their own.
Heap ==
  /\ \A h \in Handle : {points[h], releasing[h]} \cap Memory \subseteq allocated
  /\ \A h \in Handle : points[h] = NoBlock \/ releasing[h] = NoBlock
  /\ \A m \in Memory \ allocated : use_cnt[m] = 0 /\ nfreed[m] = 0
  /\ \A m \in Memory : nfreed[m] > 0 => use_cnt[m] = 0
  /\ NothingLeaks

\* Going round from a one has come by x before one is at z.
Passed(a, z, x) == IF a <= z THEN a <= x /\ x < z ELSE a <= x \/ x < z

\* What get() has seen was in use, or it has come to a block that is not.
Search ==
  \A b \in BlockPools : pc[b] = "get" /\ ~dropped[b] =>
    \/ use_cnt[<<Current(b), next_alloc[Current(b)]>>] = 0
    \/ /\ \A k \in 1..Len(pools[b]) : Passed(oldcurpool[b], curpool[b], k) =>
            \A i \in 1..NBlock : use_cnt[<<pools[b][k], i>>] > 0
       /\ \A i \in 1..NBlock : Passed(previous_next[b], next_alloc[Current(b)], i) =>
            use_cnt[<<Current(b), i>>] > 0

IInv == /\ Types /\ CountsAreReferences /\ Places /\ Owned
        /\ Garbage /\ Unused /\ Heap /\ Search /\ GrowsOnlyIfFull

-----------------------------------------------------------------------------
(* Facts.                                                                  *)

LEMMA Round ==
  ASSUME NEW n \in Nat \ {0}, NEW i \in 1..n
  PROVE  CircNext(i, n) = (IF i = n THEN 1 ELSE i + 1) /\ CircNext(i, n) \in 1..n
<1>1. CASE i = n
  <2>1. n % n = 0
    OBVIOUS
  <2>. QED  BY <1>1, <2>1 DEF CircNext
<1>2. CASE i # n
  <2>1. i % n = i
    BY <1>2
  <2>. QED  BY <1>2, <2>1 DEF CircNext
<1>. QED  BY <1>1, <1>2

LEMMA CountedFacts ==
  /\ NoBlock \notin Counted
  /\ \A p \in Pool, i \in 1..NBlock : <<p, i>> \in Counted /\ <<p, i>> \notin Memory
  /\ Memory \subseteq Counted
  /\ \A s \in Slot : s[1] \in Pool /\ s[2] \in 1..NBlock /\ s = <<s[1], s[2]>> /\ s \notin Memory
  /\ \A s \in Counted : s \in Slot \/ s \in Memory
BY BlockPoolAssumption DEF Counted, Slot

LEMMA Typed ==
  ASSUME NEW S, NEW T, NEW f \in [S -> T], NEW x, NEW v \in T, NEW g,
         g = [f EXCEPT ![x] = v]
  PROVE  g \in [S -> T]
OBVIOUS

Refs(s) == {h \in Handle : points[h] = s}

LEMMA RefsFacts ==
  /\ \A s : IsFiniteSet(Refs(s)) /\ Cardinality(Refs(s)) \in Nat
  /\ \A s : Cardinality(Refs(s)) = 0 <=> \A h \in Handle : points[h] # s
<1>1. \A s : Refs(s) \in SUBSET Handle
  BY DEF Refs
<1>2. \A s : IsFiniteSet(Refs(s)) /\ Cardinality(Refs(s)) \in Nat
  BY <1>1, BlockPoolAssumption, FS_Subset, FS_CardinalityType
<1>3. \A s : Cardinality(Refs(s)) = 0 <=> Refs(s) = {}
  BY <1>2, FS_EmptySet
<1>. QED  BY <1>2, <1>3 DEF Refs

LEMMA CountsAreRefs ==
  ASSUME CountsAreReferences, NEW s \in Counted
  PROVE  use_cnt[s] = Cardinality(Refs(s)) /\ (use_cnt[s] = 0 <=> \A h \in Handle : points[h] # s)
BY RefsFacts DEF CountsAreReferences, Refs

\* The block that get() looks at.
LEMMA CurrentFacts ==
  ASSUME Types, Places, NEW b \in BlockPools, pc[b] \in {"idle", "get", "grow"}
  PROVE  /\ curpool[b] \in 1..Len(pools[b]) /\ Current(b) = pools[b][curpool[b]]
         /\ Len(pools[b]) \in Nat \ {0}
         /\ Current(b) \in Pool /\ next_alloc[Current(b)] \in 1..NBlock
         /\ <<Current(b), next_alloc[Current(b)]>> \in Slot
         /\ \A k \in 1..Len(pools[b]) : pools[b][k] \in Pool
<1>1. pools[b] \in Seq(Pool) /\ curpool[b] \in 1..Len(pools[b])
  BY DEF Types, Places
<1>2. Len(pools[b]) \in Nat /\ \A k \in 1..Len(pools[b]) : pools[b][k] \in Pool
  BY <1>1, ElementOfSeq, LenProperties
<1>3. Len(pools[b]) # 0
  BY <1>1, <1>2
<1>4. Current(b) \in Pool /\ next_alloc[Current(b)] \in 1..NBlock
  BY <1>1, <1>2 DEF Current, Types
<1>. QED  BY <1>1, <1>2, <1>3, <1>4 DEF Current, Slot

-----------------------------------------------------------------------------
(* Types.                                                                  *)

HeapStep(h) ==
  \/ \E m \in Memory : Allocate(h, m)
  \/ \E g \in Handle : Copy(h, g)
  \/ Drop(h) \/ FreeIfUnused(h)

PoolStep(b) ==
  \/ BeginGet(b) \/ SkipUsed(b) \/ \E h \in Handle : TakeFree(b, h)
  \/ Make(b) \/ \E p \in Pool : NewPool(b, p)
  \/ BeginDelete(b) \/ LockCan(b) \/ UnlockCan(b)

LEMMA NextTypes ==
  ASSUME Types, CountsAreReferences, Places, Next
  PROVE  Types'
<1>. USE CountedFacts, BlockPoolAssumption DEF Types
<1>1. ASSUME NEW h \in Handle, HeapStep(h) PROVE Types'
  <2>1. CASE \E m \in Memory : Allocate(h, m)
    <3>1. PICK m \in Memory : Allocate(h, m)
      BY <2>1
    <3>2. /\ allocated' = allocated \cup {m}
          /\ use_cnt' = [use_cnt EXCEPT ![m] = 1] /\ points' = [points EXCEPT ![h] = m]
      BY <3>1 DEF Allocate
    <3>3. m \in Counted /\ 1 \in Nat /\ m \in Counted \cup {NoBlock}
      BY <3>1 DEF Counted
    <3>4. use_cnt \in [Counted -> Nat] /\ points \in [Handle -> Counted \cup {NoBlock}]
      OBVIOUS
    <3>5. use_cnt' \in [Counted -> Nat]
      BY ONLY <3>2, <3>3, <3>4, Typed
    <3>6. points' \in [Handle -> Counted \cup {NoBlock}]
      BY ONLY <3>2, <3>3, <3>4, Typed
    <3>7. allocated' \subseteq Memory
      BY <3>2
    <3>8. UNCHANGED <<releasing, nfreed, dropped, life, next_alloc, threadVars, canVars>>
      BY <3>1 DEF Allocate
    <3>. QED  BY <3>5, <3>6, <3>7, <3>8 DEF threadVars, canVars
  <2>2. CASE \E g \in Handle : Copy(h, g)
    <3>1. PICK g \in Handle : Copy(h, g)
      BY <2>2
    <3>2. PICK c \in Counted : c = points[h]
      BY <3>1 DEF Copy
    <3>3. use_cnt' = [use_cnt EXCEPT ![c] = use_cnt[c] + 1] /\ points' = [points EXCEPT ![g] = c]
      BY <3>1, <3>2 DEF Copy
    <3>4. /\ use_cnt \in [Counted -> Nat] /\ points \in [Handle -> Counted \cup {NoBlock}]
          /\ use_cnt[c] + 1 \in Nat /\ c \in Counted \cup {NoBlock}
      OBVIOUS
    <3>5. use_cnt' \in [Counted -> Nat] /\ points' \in [Handle -> Counted \cup {NoBlock}]
      BY ONLY <3>2, <3>3, <3>4, Typed
    <3>6. UNCHANGED <<releasing, allocated, nfreed, dropped, life, next_alloc, threadVars, canVars>>
      BY <3>1 DEF Copy
    <3>. QED  BY <3>5, <3>6 DEF threadVars, canVars
  <2>3. CASE Drop(h)
    <3>1. points[h] \in Counted
      BY <2>3 DEF Drop
    <3>2. use_cnt[points[h]] # 0
      BY <3>1, CountsAreRefs
    <3>3. use_cnt[points[h]] - 1 \in Nat
      BY <3>1, <3>2
    <3>4. use_cnt' \in [Counted -> Nat]
      BY <2>3, <3>1, <3>3 DEF Drop
    <3>5. dropped' \in [BlockPools -> BOOLEAN]
      BY <2>3 DEF Drop
    <3>6. points' \in [Handle -> Counted \cup {NoBlock}]
      BY <2>3 DEF Drop
    <3>7. releasing' \in [Handle -> Memory \cup {NoBlock}]
      BY <2>3 DEF Drop
    <3>. QED  BY <2>3, <3>4, <3>5, <3>6, <3>7 DEF Drop, threadVars, canVars
  <2>4. CASE FreeIfUnused(h)
    <3>1. nfreed' \in [Memory -> Nat]
      <4>1. PICK m \in Memory : m = releasing[h]
        BY <2>4 DEF FreeIfUnused
      <4>2. nfreed' = nfreed \/ nfreed' = [nfreed EXCEPT ![m] = nfreed[m] + 1]
        BY <2>4, <4>1 DEF FreeIfUnused
      <4>3. nfreed \in [Memory -> Nat] /\ nfreed[m] + 1 \in Nat
        OBVIOUS
      <4>. QED  BY ONLY <4>1, <4>2, <4>3, Typed
    <3>2. releasing' \in [Handle -> Memory \cup {NoBlock}]
      BY <2>4 DEF FreeIfUnused
    <3>. QED  BY <2>4, <3>1, <3>2 DEF FreeIfUnused, poolVars, threadVars, canVars
  <2>. QED  BY <1>1, <2>1, <2>2, <2>3, <2>4 DEF HeapStep
<1>2. ASSUME NEW b \in BlockPools, PoolStep(b) PROVE Types'
  <2>. USE DEF Goto, PCs
  <2>1. CASE BeginGet(b)
    <3>1. next_alloc[Current(b)] \in 1..NBlock
      BY <2>1, CurrentFacts DEF BeginGet
    <3>2. previous_next' \in [BlockPools -> 1..NBlock] /\ oldcurpool' \in [BlockPools -> Nat]
      BY <2>1, <3>1 DEF BeginGet
    <3>3. pc' \in [BlockPools -> PCs]
      BY <2>1 DEF BeginGet
    <3>. QED  BY <2>1, <3>2, <3>3 DEF BeginGet, handleVars, poolVars, canVars
  <2>2. CASE SkipUsed(b)
    <3>1. PICK p \in Pool, n \in 1..NBlock, k \in 1..Len(pools[b]) :
            /\ p = Current(b) /\ n = CircNext(next_alloc[p], NBlock)
            /\ k = CircNext(curpool[b], Len(pools[b])) /\ k \in Nat /\ pools[b][k] \in Pool
      <4>1. pc[b] = "get"
        BY <2>2 DEF SkipUsed
      <4>2. PICK p \in Pool : p = Current(b)
        BY <4>1, CurrentFacts
      <4>3. PICK n \in 1..NBlock : n = CircNext(next_alloc[p], NBlock)
        BY <4>2, Round
      <4>4. Len(pools[b]) \in Nat \ {0} /\ curpool[b] \in 1..Len(pools[b])
            /\ \A j \in 1..Len(pools[b]) : pools[b][j] \in Pool
        BY <4>1, CurrentFacts
      <4>5. PICK k \in 1..Len(pools[b]) : k = CircNext(curpool[b], Len(pools[b]))
        BY <4>4, Round
      <4>6. k \in Nat /\ pools[b][k] \in Pool
        BY ONLY <4>4, <4>5
      <4>. QED  BY ONLY <4>2, <4>3, <4>5, <4>6
    <3>2. next_alloc' = [next_alloc EXCEPT ![p] = n] /\ next_alloc' \in [Pool -> 1..NBlock]
      BY <2>2, <3>1 DEF SkipUsed
    <3>3. next_alloc'[pools[b][k]] \in 1..NBlock
      BY <3>1, <3>2
    <3>4. /\ curpool' \in [BlockPools -> Nat] /\ previous_next' \in [BlockPools -> 1..NBlock]
          /\ pc' \in [BlockPools -> PCs]
      <4>1. CASE n # previous_next[b]
        BY <2>2, <3>1, <4>1 DEF SkipUsed
      <4>2. CASE n = previous_next[b]
        <5>1. /\ curpool' = [curpool EXCEPT ![b] = k]
              /\ previous_next' = [previous_next EXCEPT ![b] = next_alloc'[pools[b][k]]]
              /\ pc' = [pc EXCEPT ![b] = IF k = oldcurpool[b] THEN "grow" ELSE "get"]
          BY <2>2, <3>1, <4>2 DEF SkipUsed
        <5>. QED  BY <3>1, <3>3, <5>1
      <4>. QED  BY <4>1, <4>2
    <3>. QED  BY <2>2, <3>2, <3>4 DEF SkipUsed, handleVars, canVars
  <2>3. CASE \E h \in Handle : TakeFree(b, h)
    <3>1. PICK h \in Handle : TakeFree(b, h)
      BY <2>3
    <3>2. PICK p \in Pool, i \in 1..NBlock, n \in 1..NBlock :
            p = Current(b) /\ i = next_alloc[p] /\ n = CircNext(i, NBlock) /\ <<p, i>> \in Counted
      <4>1. pc[b] = "get"
        BY <3>1 DEF TakeFree
      <4>2. PICK p \in Pool : p = Current(b)
        BY <4>1, CurrentFacts
      <4>3. PICK i \in 1..NBlock : i = next_alloc[p]
        BY <4>2
      <4>4. PICK n \in 1..NBlock : n = CircNext(i, NBlock)
        BY <4>3, Round
      <4>. QED  BY <4>2, <4>3, <4>4
    <3>3. use_cnt' \in [Counted -> Nat] /\ points' \in [Handle -> Counted \cup {NoBlock}]
      BY <3>1, <3>2 DEF TakeFree
    <3>4. next_alloc' = [next_alloc EXCEPT ![p] = n]
      BY <3>1, <3>2 DEF TakeFree
    <3>5. /\ pc' \in [BlockPools -> PCs] /\ oldcurpool' \in [BlockPools -> Nat]
          /\ previous_next' \in [BlockPools -> 1..NBlock] /\ dropped' \in [BlockPools -> BOOLEAN]
      <4>1. /\ pc' = [pc EXCEPT ![b] = "idle"] /\ oldcurpool' = [oldcurpool EXCEPT ![b] = 1]
            /\ previous_next' = [previous_next EXCEPT ![b] = 1]
            /\ dropped' = [dropped EXCEPT ![b] = FALSE]
        BY <3>1 DEF TakeFree, EndGet
      <4>2. /\ pc \in [BlockPools -> PCs] /\ oldcurpool \in [BlockPools -> Nat]
            /\ previous_next \in [BlockPools -> 1..NBlock] /\ dropped \in [BlockPools -> BOOLEAN]
        OBVIOUS
      <4>3. "idle" \in PCs /\ 1 \in 1..NBlock /\ 1 \in Nat
        BY ONLY BlockPoolAssumption DEF PCs
      <4>4. pc' \in [BlockPools -> PCs]
        BY ONLY <4>1, <4>2, <4>3
      <4>5. oldcurpool' \in [BlockPools -> Nat]
        BY ONLY <4>1, <4>2, <4>3
      <4>6. previous_next' \in [BlockPools -> 1..NBlock]
        BY ONLY <4>1, <4>2, <4>3
      <4>7. dropped' \in [BlockPools -> BOOLEAN]
        BY ONLY <4>1, <4>2, <4>3
      <4>. QED  BY <4>4, <4>5, <4>6, <4>7
    <3>6. UNCHANGED <<releasing, allocated, nfreed, life, pools, curpool, canVars>>
      BY <3>1 DEF TakeFree
    <3>7. next_alloc' \in [Pool -> 1..NBlock]
      <4>1. next_alloc \in [Pool -> 1..NBlock]
        OBVIOUS
      <4>. QED  BY ONLY <3>2, <3>4, <4>1, Typed
    <3>8. /\ releasing' = releasing /\ allocated' = allocated /\ nfreed' = nfreed /\ life' = life
          /\ pools' = pools /\ curpool' = curpool
          /\ can' = can /\ todo' = todo /\ cur' = cur /\ seen' = seen
          /\ usecount' = usecount /\ lock' = lock
      BY ONLY <3>6 DEF canVars
    <3>. QED  BY <3>3, <3>5, <3>7, <3>8
  <2>4. CASE Make(b) \/ BeginDelete(b)
    BY <2>4 DEF Make, BeginDelete, handleVars, poolVars, canVars
  <2>5. CASE \E p \in Pool : NewPool(b, p)
    <3>1. PICK p \in Pool : NewPool(b, p)
      BY <2>5
    <3>2. Append(pools[b], p) \in Seq(Pool) /\ Len(pools[b]) \in Nat
      BY AppendProperties, LenProperties
    <3>3. pools' \in [BlockPools -> Seq(Pool)] /\ curpool' \in [BlockPools -> Nat]
      <4>1. pools' = [pools EXCEPT ![b] = Append(pools[b], p)]
            /\ curpool' = [curpool EXCEPT ![b] = Len(pools[b]) + 1]
        BY <3>1 DEF NewPool
      <4>2. Len(pools[b]) + 1 \in Nat
        BY ONLY <3>2
      <4>3. pools \in [BlockPools -> Seq(Pool)] /\ curpool \in [BlockPools -> Nat]
        OBVIOUS
      <4>. QED  BY ONLY <3>2, <4>1, <4>2, <4>3, Typed
    <3>4. /\ life' \in [Pool -> {"new", "live", "dying", "garbage", "freed"}]
          /\ pc' \in [BlockPools -> PCs] /\ oldcurpool' \in [BlockPools -> Nat]
          /\ previous_next' \in [BlockPools -> 1..NBlock] /\ dropped' \in [BlockPools -> BOOLEAN]
      <4>1. /\ life' = [life EXCEPT ![p] = "live"]
            /\ oldcurpool' = [oldcurpool EXCEPT ![b] = 1]
            /\ previous_next' = [previous_next EXCEPT ![b] = 1]
            /\ dropped' = [dropped EXCEPT ![b] = FALSE]
            /\ pc' = [pc EXCEPT ![b] = IF pc[b] = "make clean" THEN "idle" ELSE "get"]
        BY <3>1 DEF NewPool
      <4>2. /\ pc \in [BlockPools -> PCs] /\ oldcurpool \in [BlockPools -> Nat]
            /\ previous_next \in [BlockPools -> 1..NBlock] /\ dropped \in [BlockPools -> BOOLEAN]
            /\ life \in [Pool -> {"new", "live", "dying", "garbage", "freed"}]
        OBVIOUS
      <4>3. {"idle", "get"} \subseteq PCs /\ 1 \in 1..NBlock /\ 1 \in Nat
        BY ONLY BlockPoolAssumption DEF PCs
      <4>4. pc' \in [BlockPools -> PCs]
        BY ONLY <4>1, <4>2, <4>3
      <4>5. oldcurpool' \in [BlockPools -> Nat]
        BY ONLY <4>1, <4>2, <4>3
      <4>6. previous_next' \in [BlockPools -> 1..NBlock]
        BY ONLY <4>1, <4>2, <4>3
      <4>7. dropped' \in [BlockPools -> BOOLEAN]
        BY ONLY <4>1, <4>2, <4>3
      <4>8. life' \in [Pool -> {"new", "live", "dying", "garbage", "freed"}]
        BY ONLY <4>1, <4>2
      <4>. QED  BY <4>4, <4>5, <4>6, <4>7, <4>8
    <3>5. UNCHANGED <<points, releasing, allocated, nfreed, use_cnt, next_alloc, canVars>>
      BY <3>1 DEF NewPool
    <3>. QED  BY <3>3, <3>4, <3>5 DEF canVars
  <2>6. CASE LockCan(b)
    <3>1. life' \in [Pool -> {"new", "live", "dying", "garbage", "freed"}]
          /\ UNCHANGED <<use_cnt, next_alloc>>
      <4>1. CASE Deleting(b)
        BY <2>6, <4>1 DEF LockCan
      <4>2. CASE ~Deleting(b)
        BY <2>6, <4>2 DEF LockCan, poolVars
      <4>. QED  BY <4>1, <4>2
    <3>. QED  BY <2>6, <3>1 DEF LockCan, handleVars, threadVars
  <2>7. CASE UnlockCan(b)
    <3>1. pools' \in [BlockPools -> Seq(Pool)] /\ pc' \in [BlockPools -> PCs]
      <4>1. CASE pc[b] = "delete"
        <5>1. pools[b] \in Seq(Pool) /\ pools[b] # <<>>
          BY <2>7, <4>1 DEF UnlockCan, Places
        <5>2. Tail(pools[b]) \in Seq(Pool)
          BY <5>1, HeadTailProperties
        <5>3. pools' = [pools EXCEPT ![b] = Tail(pools[b])] /\ pc' = pc
          BY <2>7, <4>1 DEF UnlockCan
        <5>4. pools \in [BlockPools -> Seq(Pool)] /\ pc \in [BlockPools -> PCs]
          OBVIOUS
        <5>. QED  BY ONLY <5>2, <5>3, <5>4, Typed
      <4>2. CASE pc[b] # "delete"
        <5>1. /\ pools' = pools
              /\ pc' = [pc EXCEPT ![b] = IF pc[b] = "make" THEN "make clean" ELSE "grow clean"]
          BY <2>7, <4>2 DEF UnlockCan, Goto
        <5>2. /\ pools \in [BlockPools -> Seq(Pool)] /\ pc \in [BlockPools -> PCs]
              /\ {"make clean", "grow clean"} \subseteq PCs
          BY DEF PCs
        <5>. QED  BY ONLY <5>1, <5>2
      <4>. QED  BY <4>1, <4>2
    <3>. QED  BY <2>7, <3>1 DEF UnlockCan, handleVars, poolVars
  <2>. QED  BY <1>2, <2>1, <2>2, <2>3, <2>4, <2>5, <2>6, <2>7 DEF PoolStep
<1>3. CASE (\E p \in Pool : BeginTry(p)) \/ AddUse
  <2>1. CASE AddUse
    <3>1. seen + 1 \in 1..NBlock
      BY <2>1 DEF AddUse
    <3>2. use_cnt[<<cur, seen + 1>>] \in Nat
      BY <2>1, <3>1 DEF AddUse
    <3>3. /\ seen' = seen + 1 /\ usecount' = usecount + use_cnt[<<cur, seen + 1>>]
          /\ UNCHANGED <<handleVars, poolVars, threadVars, lock, can, todo, cur>>
      BY <2>1 DEF AddUse
    <3>4. seen' \in 0..NBlock
      BY ONLY <3>1, <3>3, BlockPoolAssumption DEF BlockPoolAssumption
    <3>5. usecount \in Nat
      OBVIOUS
    <3>6. usecount' \in Nat
      BY ONLY <3>2, <3>3, <3>5
    <3>. HIDE <2>1
    <3>. QED  BY <3>3, <3>4, <3>6 DEF handleVars, poolVars, threadVars
  <2>2. CASE \E p \in Pool : BeginTry(p)
    <3>1. /\ cur' \in Pool
          /\ UNCHANGED <<handleVars, poolVars, threadVars, lock, can, todo, seen, usecount>>
      BY <2>2 DEF BeginTry
    <3>. QED  BY <3>1 DEF handleVars, poolVars, threadVars
  <2>. QED  BY <1>3, <2>1, <2>2
<1>4. CASE EndTry
  <2>1. PICK p \in Pool : p = cur
    BY <1>4 DEF EndTry
  <2>2. /\ life' = [life EXCEPT ![p] = IF usecount = 0 THEN "freed" ELSE "garbage"]
        /\ can' \subseteq can \cup {p} /\ todo' = todo \ {p}
        /\ cur' = "none" /\ seen' = 0 /\ usecount' = 0
        /\ todo \ {p} \subseteq can'
        /\ UNCHANGED <<handleVars, use_cnt, next_alloc, threadVars, lock>>
    BY <1>4, <2>1 DEF EndTry
  <2>3. life' \in [Pool -> {"new", "live", "dying", "garbage", "freed"}]
    BY ONLY <2>1, <2>2, Types DEF Types
  <2>4. seen' \in 0..NBlock /\ usecount' \in Nat
    BY ONLY <2>2, BlockPoolAssumption DEF BlockPoolAssumption
  <2>5. can' \subseteq Pool /\ todo' \subseteq can' /\ cur' \in Pool \cup {"none"}
    BY ONLY <2>1, <2>2, Types DEF Types
  <2>. QED  BY <2>2, <2>3, <2>4, <2>5 DEF handleVars, threadVars
<1>. QED  BY <1>1, <1>2, <1>3, <1>4 DEF Next, HeapStep, PoolStep

-----------------------------------------------------------------------------
(* The counters.                                                           *)

\* A block object that was empty refers to s, and is counted.
LEMMA PutCounts ==
  ASSUME Types, CountsAreReferences, NEW h \in Handle, NEW s \in Counted,
         points[h] = NoBlock,
         points' = [points EXCEPT ![h] = s],
         use_cnt' = [use_cnt EXCEPT ![s] = use_cnt[s] + 1]
  PROVE  CountsAreReferences'
<1>1. points \in [Handle -> Counted \cup {NoBlock}] /\ use_cnt \in [Counted -> Nat]
  BY DEF Types
<1>2. NoBlock \notin Counted
  BY CountedFacts
<1>. DEFINE R(q) == {k \in Handle : points'[k] = q}
<1>3. R(s) = Refs(s) \cup {h} /\ h \notin Refs(s)
  BY <1>1, <1>2 DEF Refs
<1>4. \A q \in Counted \ {s} : R(q) = Refs(q)
  BY <1>1, <1>2 DEF Refs
<1>5. Cardinality(R(s)) = Cardinality(Refs(s)) + 1
  BY <1>3, RefsFacts, FS_AddElement
<1>6. ASSUME NEW q \in Counted
      PROVE  use_cnt'[q] = Cardinality(R(q))
  <2>1. CASE q = s
    BY <1>1, <1>5, <2>1, CountsAreRefs
  <2>2. CASE q # s
    <3>1. use_cnt'[q] = use_cnt[q]
      BY <1>1, <2>2
    <3>. QED  BY <1>4, <2>2, <3>1, CountsAreRefs
  <2>. QED  BY <2>1, <2>2
<1>. QED  BY <1>6 DEF CountsAreReferences

\* A block object gives up its reference to s.
LEMMA DropCounts ==
  ASSUME Types, CountsAreReferences, NEW h \in Handle, NEW s \in Counted,
         points[h] = s,
         points' = [points EXCEPT ![h] = NoBlock],
         use_cnt' = [use_cnt EXCEPT ![s] = use_cnt[s] - 1]
  PROVE  CountsAreReferences'
<1>1. points \in [Handle -> Counted \cup {NoBlock}] /\ use_cnt \in [Counted -> Nat]
  BY DEF Types
<1>2. NoBlock \notin Counted
  BY CountedFacts
<1>. DEFINE R(q) == {k \in Handle : points'[k] = q}
<1>3. R(s) = Refs(s) \ {h} /\ h \in Refs(s)
  BY <1>1, <1>2 DEF Refs
<1>4. \A q \in Counted \ {s} : R(q) = Refs(q)
  BY <1>1, <1>2 DEF Refs
<1>5. Cardinality(R(s)) = Cardinality(Refs(s)) - 1
  BY <1>3, RefsFacts, FS_RemoveElement
<1>6. ASSUME NEW q \in Counted
      PROVE  use_cnt'[q] = Cardinality(R(q))
  <2>1. CASE q = s
    BY <1>1, <1>5, <2>1, CountsAreRefs
  <2>2. CASE q # s
    <3>1. use_cnt'[q] = use_cnt[q]
      BY <1>1, <2>2
    <3>. QED  BY <1>4, <2>2, <3>1, CountsAreRefs
  <2>. QED  BY <2>1, <2>2
<1>. QED  BY <1>6 DEF CountsAreReferences

\* What a step does to the counters and to who refers to what.
Counts(h, s, from, to) ==
  /\ points[h] = from /\ points' = [points EXCEPT ![h] = to]
  /\ use_cnt' = [use_cnt EXCEPT ![s] = IF to = s THEN use_cnt[s] + 1 ELSE use_cnt[s] - 1]

LEMMA AllocateCounts ==
  ASSUME Types, Heap, NEW h \in Handle, NEW m \in Memory, Allocate(h, m)
  PROVE  Counts(h, m, NoBlock, m) /\ use_cnt[m] = 0
<1>1. use_cnt[m] = 0
  BY DEF Allocate, Heap
<1>. QED  BY <1>1 DEF Allocate, IsEmpty, Counts

LEMMA TakeCounts ==
  ASSUME Types, Places, NEW b \in BlockPools, NEW h \in Handle, TakeFree(b, h)
  PROVE  /\ pc[b] = "get" /\ IsEmpty(h)
         /\ <<Current(b), next_alloc[Current(b)]>> \in Counted
         /\ use_cnt[<<Current(b), next_alloc[Current(b)]>>] = 0
         /\ Counts(h, <<Current(b), next_alloc[Current(b)]>>, NoBlock,
                   <<Current(b), next_alloc[Current(b)]>>)
<1>1. pc[b] = "get" /\ IsEmpty(h) /\ use_cnt[<<Current(b), next_alloc[Current(b)]>>] = 0
  BY DEF TakeFree
<1>2. <<Current(b), next_alloc[Current(b)]>> \in Counted
  BY <1>1, CurrentFacts DEF Counted
<1>3. PICK s \in Counted : s = <<Current(b), next_alloc[Current(b)]>>
  BY <1>2
<1>4. /\ use_cnt' = [use_cnt EXCEPT ![s] = 1] /\ points' = [points EXCEPT ![h] = s]
      /\ use_cnt[s] = 0
  BY <1>1, <1>3 DEF TakeFree
<1>5. Counts(h, s, NoBlock, s)
  BY <1>1, <1>4 DEF Counts, IsEmpty
<1>. QED  BY <1>1, <1>2, <1>3, <1>5

LEMMA CopyCounts ==
  ASSUME Types, NEW h \in Handle, NEW g \in Handle, Copy(h, g)
  PROVE  /\ points[h] \in Counted /\ IsEmpty(g)
         /\ Counts(g, points[h], NoBlock, points[h])
<1>1. points[h] \in Counted /\ IsEmpty(g)
  BY DEF Copy, Types
<1>2. PICK s \in Counted : s = points[h]
  BY <1>1
<1>3. use_cnt' = [use_cnt EXCEPT ![s] = use_cnt[s] + 1] /\ points' = [points EXCEPT ![g] = s]
  BY <1>2 DEF Copy
<1>. QED  BY <1>1, <1>2, <1>3 DEF Counts, IsEmpty

LEMMA DroppedCounts ==
  ASSUME Types, NEW h \in Handle, Drop(h)
  PROVE  points[h] \in Counted /\ Counts(h, points[h], points[h], NoBlock)
<1>1. points[h] \in Counted
  BY DEF Drop, Types
<1>2. PICK s \in Counted : s = points[h]
  BY <1>1
<1>3. use_cnt' = [use_cnt EXCEPT ![s] = use_cnt[s] - 1] /\ points' = [points EXCEPT ![h] = NoBlock]
  BY <1>2 DEF Drop
<1>4. NoBlock # s
  BY <1>2, CountedFacts
<1>. QED  BY <1>1, <1>2, <1>3, <1>4 DEF Counts

\* All other steps leave them alone.
LEMMA OthersDoNotCount ==
  ASSUME Next,
         ~ \E h \in Handle : \/ \E m \in Memory : Allocate(h, m)
                             \/ \E g \in Handle : Copy(h, g)
                             \/ Drop(h)
                             \/ \E b \in BlockPools : TakeFree(b, h)
  PROVE  points' = points /\ use_cnt' = use_cnt
<1>1. \/ \E h \in Handle : FreeIfUnused(h)
      \/ \E b \in BlockPools :
           \/ BeginGet(b) \/ SkipUsed(b) \/ Make(b) \/ \E p \in Pool : NewPool(b, p)
           \/ BeginDelete(b) \/ LockCan(b) \/ UnlockCan(b)
      \/ \E p \in Pool : BeginTry(p)
      \/ AddUse \/ EndTry
  BY DEF Next
<1>2. ASSUME NEW b \in BlockPools, LockCan(b) PROVE points' = points /\ use_cnt' = use_cnt
  <2>1. use_cnt' = use_cnt
    BY <1>2 DEF LockCan, poolVars
  <2>. QED  BY <1>2, <2>1 DEF LockCan, handleVars
<1>. QED  BY <1>1, <1>2 DEF FreeIfUnused, BeginGet, SkipUsed, Make, NewPool, BeginDelete,
                            UnlockCan, BeginTry, AddUse, EndTry, handleVars, poolVars

LEMMA NextCounts ==
  ASSUME Types, CountsAreReferences, Places, Heap, Next
  PROVE  CountsAreReferences'
<1>1. ASSUME NEW h \in Handle, NEW s \in Counted, Counts(h, s, NoBlock, s)
      PROVE  CountsAreReferences'
  <2>1. /\ points[h] = NoBlock /\ points' = [points EXCEPT ![h] = s]
        /\ use_cnt' = [use_cnt EXCEPT ![s] = use_cnt[s] + 1]
    BY <1>1 DEF Counts
  <2>. QED  BY <2>1, PutCounts
<1>2. ASSUME NEW h \in Handle, NEW s \in Counted, Counts(h, s, s, NoBlock)
      PROVE  CountsAreReferences'
  <2>1. s # NoBlock
    BY CountedFacts
  <2>2. /\ points[h] = s /\ points' = [points EXCEPT ![h] = NoBlock]
        /\ use_cnt' = [use_cnt EXCEPT ![s] = use_cnt[s] - 1]
    BY <1>2, <2>1 DEF Counts
  <2>. QED  BY <2>2, DropCounts
<1>3. ASSUME NEW h \in Handle, NEW m \in Memory, Allocate(h, m) PROVE CountsAreReferences'
  BY <1>1, <1>3, AllocateCounts, CountedFacts
<1>4. ASSUME NEW h \in Handle, NEW g \in Handle, Copy(h, g) PROVE CountsAreReferences'
  BY <1>1, <1>4, CopyCounts
<1>5. ASSUME NEW h \in Handle, Drop(h) PROVE CountsAreReferences'
  BY <1>2, <1>5, DroppedCounts
<1>6. ASSUME NEW b \in BlockPools, NEW h \in Handle, TakeFree(b, h) PROVE CountsAreReferences'
  BY <1>1, <1>6, TakeCounts
<1>7. ASSUME points' = points /\ use_cnt' = use_cnt PROVE CountsAreReferences'
  BY <1>7 DEF CountsAreReferences
<1>. QED  BY <1>3, <1>4, <1>5, <1>6, <1>7, OthersDoNotCount

\* A block of which there is no reference comes into use only by being allocated
\* or by get().
LEMMA StaysUnused ==
  ASSUME Types, CountsAreReferences, Places, Heap, Next,
         NEW s \in Counted, use_cnt[s] = 0
  PROVE  \/ use_cnt'[s] = 0
         \/ \E h \in Handle : s \in Memory /\ Allocate(h, s)
         \/ \E b \in BlockPools, h \in Handle :
              TakeFree(b, h) /\ s = <<Current(b), next_alloc[Current(b)]>>
<1>1. use_cnt \in [Counted -> Nat]
  BY DEF Types
<1>2. ASSUME NEW h, NEW q \in Counted, NEW from, NEW to, Counts(h, q, from, to), q # s
      PROVE  use_cnt'[s] = 0
  BY <1>1, <1>2 DEF Counts
<1>3. ASSUME NEW h \in Handle, points[h] = s PROVE FALSE
  BY <1>3, CountsAreRefs
<1>4. ASSUME NEW h \in Handle, NEW m \in Memory, Allocate(h, m)
      PROVE  use_cnt'[s] = 0 \/ s = m
  BY <1>2, <1>4, AllocateCounts, CountedFacts
<1>5. ASSUME NEW h \in Handle, NEW g \in Handle, Copy(h, g) PROVE use_cnt'[s] = 0
  BY <1>2, <1>3, <1>5, CopyCounts
<1>6. ASSUME NEW h \in Handle, Drop(h) PROVE use_cnt'[s] = 0
  BY <1>2, <1>3, <1>6, DroppedCounts
<1>7. ASSUME NEW b \in BlockPools, NEW h \in Handle, TakeFree(b, h)
      PROVE  use_cnt'[s] = 0 \/ s = <<Current(b), next_alloc[Current(b)]>>
  BY <1>2, <1>7, TakeCounts
<1>. QED  BY <1>4, <1>5, <1>6, <1>7, OthersDoNotCount

\* A block goes out of use only when one that refers to it is dropped.
LEMMA StaysUsed ==
  ASSUME Types, CountsAreReferences, Places, Heap, Next,
         NEW s \in Counted, use_cnt[s] > 0
  PROVE  use_cnt'[s] > 0 \/ \E h \in Handle : Drop(h) /\ points[h] = s
<1>1. use_cnt \in [Counted -> Nat]
  BY DEF Types
<1>2. ASSUME NEW h, NEW q \in Counted, Counts(h, q, NoBlock, q)
      PROVE  use_cnt'[s] > 0
  BY <1>1, <1>2 DEF Counts
<1>3. ASSUME NEW h \in Handle, Drop(h), points[h] # s
      PROVE  use_cnt'[s] > 0
  <2>1. points[h] \in Counted /\ Counts(h, points[h], points[h], NoBlock)
    BY <1>3, DroppedCounts
  <2>. QED  BY <1>1, <1>3, <2>1 DEF Counts
<1>4. ASSUME NEW h \in Handle, NEW m \in Memory, Allocate(h, m) PROVE use_cnt'[s] > 0
  BY <1>2, <1>4, AllocateCounts, CountedFacts
<1>5. ASSUME NEW h \in Handle, NEW g \in Handle, Copy(h, g) PROVE use_cnt'[s] > 0
  BY <1>2, <1>5, CopyCounts
<1>6. ASSUME NEW b \in BlockPools, NEW h \in Handle, TakeFree(b, h) PROVE use_cnt'[s] > 0
  BY <1>2, <1>6, TakeCounts
<1>. QED  BY <1>3, <1>4, <1>5, <1>6, OthersDoNotCount

-----------------------------------------------------------------------------
(* Where the threads of the blockpools are.                                *)

\* What does not concern blockpools at all.
LEMMA OthersLeavePools ==
  ASSUME NEW h \in Handle, HeapStep(h)
  PROVE  UNCHANGED <<threadVars, canVars, life, next_alloc>>
<1>1. ASSUME FreeIfUnused(h) PROVE UNCHANGED <<threadVars, canVars, life, next_alloc>>
  BY <1>1 DEF FreeIfUnused, poolVars
<1>. QED  BY <1>1 DEF HeapStep, Allocate, Copy, Drop

CanStep == (\E p \in Pool : BeginTry(p)) \/ AddUse \/ EndTry

LEMMA NextCases ==
  Next => \/ \E h \in Handle : HeapStep(h)
          \/ \E b \in BlockPools : PoolStep(b)
          \/ CanStep
BY DEF Next, HeapStep, PoolStep, CanStep

\* A thread of a blockpool changes its own variables only.
OwnThread(b) ==
  \A c \in BlockPools \ {b} :
    /\ pools'[c] = pools[c] /\ curpool'[c] = curpool[c] /\ pc'[c] = pc[c]
    /\ oldcurpool'[c] = oldcurpool[c] /\ previous_next'[c] = previous_next[c]

LEMMA PoolStepIsOwn ==
  ASSUME Types, NEW b \in BlockPools, PoolStep(b)
  PROVE  OwnThread(b)
<1>. USE DEF Types, Goto, OwnThread
<1>1. ASSUME BeginGet(b) PROVE OwnThread(b)
  BY <1>1 DEF BeginGet
<1>2. ASSUME SkipUsed(b) PROVE OwnThread(b)
  <2>1. \A c \in BlockPools \ {b} : /\ curpool'[c] = curpool[c] /\ pc'[c] = pc[c]
                                    /\ previous_next'[c] = previous_next[c]
    BY <1>2 DEF SkipUsed
  <2>. QED  BY <1>2, <2>1 DEF SkipUsed
<1>3. ASSUME NEW h \in Handle, TakeFree(b, h) PROVE OwnThread(b)
  BY <1>3 DEF TakeFree, EndGet
<1>4. ASSUME Make(b) PROVE OwnThread(b)
  BY <1>4 DEF Make
<1>5. ASSUME NEW p \in Pool, NewPool(b, p) PROVE OwnThread(b)
  BY <1>5 DEF NewPool
<1>6. ASSUME BeginDelete(b) PROVE OwnThread(b)
  BY <1>6 DEF BeginDelete
<1>7. ASSUME LockCan(b) PROVE OwnThread(b)
  BY <1>7 DEF LockCan, threadVars
<1>8. ASSUME UnlockCan(b) PROVE OwnThread(b)
  <2>1. \A c \in BlockPools \ {b} : pools'[c] = pools[c] /\ pc'[c] = pc[c]
    BY <1>8 DEF UnlockCan
  <2>. QED  BY <1>8, <2>1 DEF UnlockCan
<1>. QED  BY <1>1, <1>2, <1>3, <1>4, <1>5, <1>6, <1>7, <1>8 DEF PoolStep

PlaceOf(b) ==
  /\ pc[b] \in {"idle", "get", "grow"} => curpool[b] \in 1..Len(pools[b])
  /\ pc[b] = "get" => oldcurpool[b] \in 1..Len(pools[b])
  /\ lock = b => /\ pc[b] \in {"make", "grow", "delete"}
                 /\ pc[b] = "delete" => pools[b] # <<>>

\* Nobody else gets the lock.
LEMMA PoolStepLock ==
  ASSUME NEW b \in BlockPools, PoolStep(b)
  PROVE  lock' \in {lock, b, "none"}
BY DEF PoolStep, BeginGet, SkipUsed, TakeFree, Make, NewPool, BeginDelete, LockCan, UnlockCan,
       canVars

LEMMA NextPlaces ==
  ASSUME Types, CountsAreReferences, Places, Next
  PROVE  Places'
<1>. USE BlockPoolAssumption
<1>1. ASSUME UNCHANGED threadVars, lock' = lock PROVE Places'
  BY <1>1 DEF Places, threadVars
<1>2. ASSUME NEW b \in BlockPools, PoolStep(b) PROVE Places'
  <2>1. \A c \in BlockPools \ {b} : PlaceOf(c)'
    <3>1. OwnThread(b) /\ lock' \in {lock, b, "none"}
      BY <1>2, PoolStepIsOwn, PoolStepLock
    <3>. QED  BY <3>1 DEF Places, PlaceOf, OwnThread
  <2>2. pools \in [BlockPools -> Seq(Pool)] /\ pc \in [BlockPools -> PCs]
        /\ curpool \in [BlockPools -> Nat] /\ oldcurpool \in [BlockPools -> Nat]
    BY DEF Types
  <2>3. PlaceOf(b)
    BY DEF Places, PlaceOf
  <2>4. PlaceOf(b)'
    <3>. USE DEF PlaceOf, Goto
    <3>1. CASE BeginGet(b)
      BY <2>2, <2>3, <3>1 DEF BeginGet, canVars
    <3>2. CASE SkipUsed(b)
      <4>1. pc[b] = "get"
        BY <3>2 DEF SkipUsed
      <4>2. CircNext(curpool[b], Len(pools[b])) \in 1..Len(pools[b])
        <5>1. Len(pools[b]) \in Nat \ {0} /\ curpool[b] \in 1..Len(pools[b])
          BY <4>1, CurrentFacts
        <5>. QED  BY <5>1, Round
      <4>3. lock' = lock /\ pools' = pools /\ oldcurpool' = oldcurpool
        BY <3>2 DEF SkipUsed, canVars
      <4>4. /\ curpool'[b] \in {curpool[b], CircNext(curpool[b], Len(pools[b]))}
            /\ pc'[b] \in {"get", "grow"}
        BY <2>2, <3>2, <4>1 DEF SkipUsed
      <4>5. lock # b
        BY <2>3, <4>1
      <4>. QED  BY <2>3, <4>1, <4>2, <4>3, <4>4, <4>5
    <3>3. CASE \E h \in Handle : TakeFree(b, h)
      BY <2>2, <2>3, <3>3 DEF TakeFree, EndGet, canVars
    <3>4. CASE Make(b)
      BY <2>2, <2>3, <3>4 DEF Make, canVars
    <3>5. CASE \E p \in Pool : NewPool(b, p)
      <4>1. PICK p \in Pool : NewPool(b, p)
        BY <3>5
      <4>2. /\ pools'[b] = Append(pools[b], p) /\ curpool'[b] = Len(pools[b]) + 1
            /\ oldcurpool'[b] = 1 /\ pc'[b] \in {"idle", "get"} /\ lock' = lock /\ lock # b
        BY <2>2, <2>3, <4>1 DEF NewPool, canVars
      <4>3. Len(Append(pools[b], p)) = Len(pools[b]) + 1 /\ Len(pools[b]) \in Nat
        BY <2>2, AppendProperties, LenProperties
      <4>. QED  BY <4>2, <4>3
    <3>6. CASE BeginDelete(b)
      BY <2>2, <2>3, <3>6 DEF BeginDelete, canVars
    <3>7. CASE LockCan(b)
      BY <2>2, <2>3, <3>7 DEF LockCan, Deleting, threadVars
    <3>8. CASE UnlockCan(b)
      <4>1. lock' = "none" /\ curpool' = curpool /\ oldcurpool' = oldcurpool
        BY <3>8 DEF UnlockCan
      <4>2. pc'[b] \in {"delete", "make clean", "grow clean"}
        BY <2>2, <3>8 DEF UnlockCan
      <4>. QED  BY <4>1, <4>2
    <3>. QED  BY <1>2, <3>1, <3>2, <3>3, <3>4, <3>5, <3>6, <3>7, <3>8 DEF PoolStep
  <2>. QED  BY <2>1, <2>4 DEF Places, PlaceOf
<1>3. ASSUME CanStep PROVE UNCHANGED threadVars /\ lock' = lock
  BY <1>3 DEF CanStep, BeginTry, AddUse, EndTry
<1>. QED  BY <1>1, <1>2, <1>3, NextCases, OthersLeavePools DEF canVars

-----------------------------------------------------------------------------
(* Whose a pool is, and what becomes of it.                                *)

Lives(b, k) ==
  \/ life[pools[b][k]] = "live"
  \/ lock = b /\ pc[b] = "delete" /\ k = 1 /\ life[pools[b][k]] # "new"

Apart ==
  \A b, c \in BlockPools : \A k \in 1..Len(pools[b]), l \in 1..Len(pools[c]) :
    pools[b][k] = pools[c][l] => b = c /\ k = l

LEMMA PoolsTypes ==
  ASSUME Types, NEW b \in BlockPools
  PROVE  /\ pools[b] \in Seq(Pool) /\ Len(pools[b]) \in Nat
         /\ \A k \in 1..Len(pools[b]) : pools[b][k] \in Pool
BY ElementOfSeq, LenProperties DEF Types

\* A pool of whose blockpool the thread is not deleting anything is live.
LEMMA InUseIsLive ==
  ASSUME Owned, NEW b \in BlockPools, lock # b \/ pc[b] # "delete",
         NEW k \in 1..Len(pools[b])
  PROVE  life[pools[b][k]] = "live"
BY DEF Owned

LEMMA CurrentIsLive ==
  ASSUME Types, Places, Owned, NEW b \in BlockPools, pc[b] \in {"idle", "get", "grow"}
  PROVE  Current(b) \in Pool /\ life[Current(b)] = "live"
<1>1. Current(b) = pools[b][curpool[b]] /\ curpool[b] \in 1..Len(pools[b]) /\ Current(b) \in Pool
  BY CurrentFacts
<1>. QED  BY <1>1, InUseIsLive

LEMMA NewPoolFacts ==
  ASSUME Types, Owned, Places, NEW b \in BlockPools, NEW p \in Pool, NewPool(b, p)
  PROVE  /\ life[p] = "new" /\ life' = [life EXCEPT ![p] = "live"]
         /\ pools' = [pools EXCEPT ![b] = Append(pools[b], p)]
         /\ lock' = lock /\ lock # b /\ pc[b] # "delete"
         /\ \A c \in BlockPools : \A k \in 1..Len(pools[c]) : pools[c][k] # p
         /\ Len(pools'[b]) = Len(pools[b]) + 1
         /\ \A k \in 1..Len(pools[b]) : pools'[b][k] = pools[b][k]
         /\ pools'[b][Len(pools[b]) + 1] = p
         /\ \A c \in BlockPools \ {b} : pools'[c] = pools[c]
<1>1. /\ life[p] = "new" /\ life' = [life EXCEPT ![p] = "live"]
      /\ pools' = [pools EXCEPT ![b] = Append(pools[b], p)]
      /\ lock' = lock /\ pc[b] \in {"make clean", "grow clean"}
  BY DEF NewPool, canVars
<1>2. lock # b /\ pc[b] # "delete"
  BY <1>1 DEF Places
<1>3. ASSUME NEW c \in BlockPools, NEW k \in 1..Len(pools[c]), pools[c][k] = p
      PROVE  FALSE
  <2>1. life[pools[c][k]] = "new"
    BY <1>1, <1>3
  <2>. QED  BY <1>3, <2>1 DEF Owned
<1>4. pools'[b] = Append(pools[b], p) /\ \A c \in BlockPools \ {b} : pools'[c] = pools[c]
  BY <1>1 DEF Types
<1>5. pools[b] \in Seq(Pool)
  BY DEF Types
<1>6. /\ Len(Append(pools[b], p)) = Len(pools[b]) + 1
      /\ \A k \in 1..Len(pools[b]) : Append(pools[b], p)[k] = pools[b][k]
      /\ Append(pools[b], p)[Len(pools[b]) + 1] = p
  BY <1>5, AppendProperties
<1>. QED  BY <1>1, <1>2, <1>3, <1>4, <1>6

LEMMA ShiftedPools ==
  ASSUME Types, Places, NEW b \in BlockPools, UnlockCan(b), pc[b] = "delete"
  PROVE  /\ pools'[b] = Tail(pools[b])
         /\ Len(pools'[b]) = Len(pools[b]) - 1
         /\ \A k \in 1..Len(pools[b]) - 1 : pools'[b][k] = pools[b][k + 1]
         /\ \A c \in BlockPools \ {b} : pools'[c] = pools[c]
         /\ pc' = pc /\ lock = b /\ life' = life
<1>1. lock = b /\ pools' = [pools EXCEPT ![b] = Tail(pools[b])] /\ pc' = pc /\ life' = life
  BY DEF UnlockCan, poolVars
<1>2. pools[b] \in Seq(Pool) /\ pools[b] # <<>>
  BY <1>1 DEF Places, Types
<1>3. /\ Len(Tail(pools[b])) = Len(pools[b]) - 1
      /\ \A k \in 1..Len(pools[b]) - 1 : Tail(pools[b])[k] = pools[b][k + 1]
  BY <1>2, HeadTailProperties
<1>4. pools'[b] = Tail(pools[b]) /\ \A c \in BlockPools \ {b} : pools'[c] = pools[c]
  BY <1>1 DEF Types
<1>. QED  BY <1>1, <1>3, <1>4

LEMMA NextApart ==
  ASSUME Types, Places, Owned, Next
  PROVE  Apart'
<1>1. ASSUME pools' = pools PROVE Apart'
  BY <1>1 DEF Apart, Owned
<1>2. ASSUME NEW b \in BlockPools, NEW p \in Pool, NewPool(b, p) PROVE Apart'
  <2>1. Len(pools[b]) \in Nat
    BY PoolsTypes
  <2>2. SUFFICES ASSUME NEW c \in BlockPools, NEW d \in BlockPools,
                        NEW k \in 1..Len(pools'[c]), NEW l \in 1..Len(pools'[d]),
                        pools'[c][k] = pools'[d][l]
                 PROVE  c = d /\ k = l
    BY DEF Apart
  <2>3. ASSUME NEW e \in BlockPools, NEW j \in 1..Len(pools'[e])
        PROVE  \/ e = b /\ j = Len(pools[b]) + 1 /\ pools'[e][j] = p
               \/ j \in 1..Len(pools[e]) /\ pools'[e][j] = pools[e][j] /\ pools[e][j] # p
    <3>0. /\ \A g \in BlockPools : \A i \in 1..Len(pools[g]) : pools[g][i] # p
          /\ Len(pools'[b]) = Len(pools[b]) + 1
          /\ \A i \in 1..Len(pools[b]) : pools'[b][i] = pools[b][i]
          /\ pools'[b][Len(pools[b]) + 1] = p
          /\ \A g \in BlockPools \ {b} : pools'[g] = pools[g]
      BY <1>2, NewPoolFacts
    <3>1. CASE e = b /\ j = Len(pools[b]) + 1
      BY ONLY <3>0, <3>1
    <3>2. CASE e = b /\ j # Len(pools[b]) + 1
      <4>1. j \in 1..Len(pools[b])
        BY ONLY <2>1, <2>3, <3>0, <3>2
      <4>. QED  BY ONLY <1>2, <2>3, <3>0, <3>2, <4>1
    <3>3. CASE e # b
      BY ONLY <2>3, <3>0, <3>3
    <3>. QED  BY <3>1, <3>2, <3>3
  <2>4. /\ \/ c = b /\ k = Len(pools[b]) + 1 /\ pools'[c][k] = p
           \/ k \in 1..Len(pools[c]) /\ pools'[c][k] = pools[c][k] /\ pools[c][k] # p
        /\ \/ d = b /\ l = Len(pools[b]) + 1 /\ pools'[d][l] = p
           \/ l \in 1..Len(pools[d]) /\ pools'[d][l] = pools[d][l] /\ pools[d][l] # p
    BY <2>3
  <2>5. \A f, g \in BlockPools : \A i \in 1..Len(pools[f]), j \in 1..Len(pools[g]) :
          pools[f][i] = pools[g][j] => f = g /\ i = j
    BY DEF Owned
  <2>. QED  BY ONLY <2>2, <2>4, <2>5
<1>3. ASSUME NEW b \in BlockPools, UnlockCan(b), pc[b] = "delete" PROVE Apart'
  <2>1. Len(pools[b]) \in Nat
    BY PoolsTypes
  <2>2. SUFFICES ASSUME NEW c \in BlockPools, NEW d \in BlockPools,
                        NEW k \in 1..Len(pools'[c]), NEW l \in 1..Len(pools'[d]),
                        pools'[c][k] = pools'[d][l]
                 PROVE  c = d /\ k = l
    BY DEF Apart
  <2>3. ASSUME NEW e \in BlockPools, NEW j \in 1..Len(pools'[e])
        PROVE  LET i == IF e = b THEN j + 1 ELSE j
               IN  i \in 1..Len(pools[e]) /\ pools'[e][j] = pools[e][i]
    <3>1. CASE e = b
      BY <1>3, <2>1, <2>3, <3>1, ShiftedPools
    <3>2. CASE e # b
      BY <1>3, <2>3, <3>2, ShiftedPools
    <3>. QED  BY <3>1, <3>2
  <2>4. PICK i \in 1..Len(pools[c]) : i = (IF c = b THEN k + 1 ELSE k) /\ pools'[c][k] = pools[c][i]
    BY <2>3
  <2>5. PICK j \in 1..Len(pools[d]) : j = (IF d = b THEN l + 1 ELSE l) /\ pools'[d][l] = pools[d][j]
    BY <2>3
  <2>6. c = d /\ i = j
    <3>1. pools[c][i] = pools[d][j]
      BY ONLY <2>2, <2>4, <2>5
    <3>. QED  BY <3>1 DEF Owned
  <2>7. k \in Int /\ l \in Int
    BY <2>2
  <2>. QED  BY ONLY <2>4, <2>5, <2>6, <2>7
<1>4. ASSUME NEW b \in BlockPools, PoolStep(b), ~ \E p \in Pool : NewPool(b, p),
             ~ (UnlockCan(b) /\ pc[b] = "delete")
      PROVE  pools' = pools
  BY <1>4 DEF PoolStep, BeginGet, SkipUsed, TakeFree, Make, BeginDelete, LockCan, UnlockCan,
              threadVars
<1>5. CanStep => pools' = pools
  BY DEF CanStep, BeginTry, AddUse, EndTry, threadVars
<1>. QED  BY <1>1, <1>2, <1>3, <1>4, <1>5, NextCases, OthersLeavePools DEF threadVars

LEMMA NextLives ==
  ASSUME Types, Places, Owned, Garbage, Next
  PROVE  \A b \in BlockPools : \A k \in 1..Len(pools'[b]) : Lives(b, k)'
<1>. DEFINE Goal == \A b \in BlockPools : \A k \in 1..Len(pools'[b]) : Lives(b, k)'
<1>0. \A b \in BlockPools : \A k \in 1..Len(pools[b]) : Lives(b, k)
  BY DEF Owned, Lives
<1>1. ASSUME UNCHANGED <<threadVars, lock, life>> PROVE Goal
  BY <1>0, <1>1 DEF threadVars, Lives
<1>2. ASSUME NEW b \in BlockPools,
             BeginGet(b) \/ SkipUsed(b) \/ (\E h \in Handle : TakeFree(b, h))
               \/ Make(b) \/ BeginDelete(b) \/ (UnlockCan(b) /\ pc[b] # "delete")
      PROVE  Goal
  <2>1. pools' = pools /\ life' = life
    BY <1>2 DEF BeginGet, SkipUsed, TakeFree, Make, BeginDelete, UnlockCan, poolVars
  <2>2. pc[b] # "delete"
    BY <1>2 DEF BeginGet, SkipUsed, TakeFree, Make, BeginDelete
  <2>3. lock' = lock \/ lock = b
    BY <1>2 DEF BeginGet, SkipUsed, TakeFree, Make, BeginDelete, UnlockCan, canVars
  <2>4. OwnThread(b)
    BY <1>2, PoolStepIsOwn DEF PoolStep
  <2>5. \A c \in BlockPools \ {b} : pc'[c] = pc[c]
    BY <2>4 DEF OwnThread
  <2>. QED  BY <1>0, <2>1, <2>2, <2>3, <2>5 DEF Lives
<1>3. ASSUME NEW b \in BlockPools, NEW p \in Pool, NewPool(b, p) PROVE Goal
  <2>1. SUFFICES ASSUME NEW c \in BlockPools, NEW k \in 1..Len(pools'[c])
                 PROVE  Lives(c, k)'
    OBVIOUS
  <2>2. life \in [Pool -> {"new", "live", "dying", "garbage", "freed"}] /\ Len(pools[b]) \in Nat
    BY PoolsTypes DEF Types
  <2>3. CASE c = b /\ k = Len(pools[b]) + 1
    BY <1>3, <2>2, <2>3, NewPoolFacts DEF Lives
  <2>4. CASE c = b /\ k # Len(pools[b]) + 1
    <3>1. k \in 1..Len(pools[b])
      BY <1>3, <2>1, <2>2, <2>4, NewPoolFacts
    <3>2. pools'[b][k] = pools[b][k] /\ pools[b][k] # p /\ life[pools[b][k]] = "live"
      BY <1>3, <3>1, NewPoolFacts, InUseIsLive
    <3>3. pools[b][k] \in Pool
      BY <3>1, PoolsTypes
    <3>4. life'[pools'[b][k]] = "live"
      BY <1>3, <2>2, <3>2, <3>3, NewPoolFacts
    <3>. QED  BY <2>4, <3>4 DEF Lives
  <2>5. CASE c # b
    <3>1. pools'[c] = pools[c] /\ k \in 1..Len(pools[c]) /\ pools[c][k] # p /\ lock' = lock
      BY <1>3, <2>1, <2>5, NewPoolFacts
    <3>2. pools[c][k] \in Pool
      BY <3>1, PoolsTypes
    <3>3. life'[pools[c][k]] = life[pools[c][k]]
      BY <1>3, <2>2, <3>1, <3>2, NewPoolFacts
    <3>4. pc'[c] = pc[c]
      BY <1>3, <2>5, PoolStepIsOwn DEF PoolStep, OwnThread
    <3>. QED  BY <1>0, <3>1, <3>3, <3>4 DEF Lives
  <2>. QED  BY <2>3, <2>4, <2>5
<1>4. ASSUME NEW b \in BlockPools, LockCan(b) PROVE Goal
  <2>1. lock = "none" /\ lock' = b /\ UNCHANGED threadVars
    BY <1>4 DEF LockCan
  <2>2. \A c \in BlockPools : \A k \in 1..Len(pools[c]) :
          life[pools[c][k]] = "live" /\ pools[c][k] \in Pool
    BY <2>1, BlockPoolAssumption, InUseIsLive, PoolsTypes
  <2>3. CASE ~Deleting(b)
    <3>1. life' = life
      BY <1>4, <2>3 DEF LockCan, poolVars
    <3>. QED  BY <2>1, <2>2, <3>1 DEF threadVars, Lives
  <2>4. CASE Deleting(b)
    <3>1. life' = [life EXCEPT ![Head(pools[b])] = "dying"] /\ pc[b] = "delete" /\ pools[b] # <<>>
      BY <1>4, <2>4 DEF LockCan, Deleting
    <3>2. Head(pools[b]) = pools[b][1] /\ 1 \in 1..Len(pools[b])
      BY <3>1, PoolsTypes, HeadTailProperties
    <3>3. SUFFICES ASSUME NEW c \in BlockPools, NEW k \in 1..Len(pools[c])
                   PROVE  Lives(c, k)'
      BY <2>1 DEF threadVars
    <3>4. life \in [Pool -> {"new", "live", "dying", "garbage", "freed"}]
      BY DEF Types
    <3>5. CASE pools[c][k] = pools[b][1]
      <4>1. c = b /\ k = 1
        BY <3>2, <3>3, <3>5 DEF Owned
      <4>2. life'[pools[c][k]] = "dying"
        BY <2>2, <3>1, <3>2, <3>4, <3>5
      <4>. QED  BY <2>1, <3>1, <4>1, <4>2 DEF Lives, threadVars
    <3>6. CASE pools[c][k] # pools[b][1]
      <4>1. life'[pools[c][k]] = "live"
        BY <2>2, <3>1, <3>2, <3>4, <3>6
      <4>. QED  BY <2>1, <4>1 DEF Lives, threadVars
    <3>. QED  BY <3>5, <3>6
  <2>. QED  BY <2>3, <2>4
<1>5. ASSUME NEW b \in BlockPools, UnlockCan(b), pc[b] = "delete" PROVE Goal
  <2>1. SUFFICES ASSUME NEW c \in BlockPools, NEW k \in 1..Len(pools'[c])
                 PROVE  life'[pools'[c][k]] = "live"
    BY DEF Lives
  <2>2. lock = b /\ life' = life
    BY <1>5, ShiftedPools
  <2>3. CASE c = b
    <3>1. Len(pools[b]) \in Nat
      BY PoolsTypes
    <3>2. k + 1 \in 1..Len(pools[b]) /\ k + 1 # 1 /\ pools'[b][k] = pools[b][k + 1]
      BY <1>5, <2>1, <2>3, <3>1, ShiftedPools
    <3>3. Lives(b, k + 1)
      BY <1>0, <3>2
    <3>. QED  BY <2>2, <2>3, <3>2, <3>3 DEF Lives
  <2>4. CASE c # b
    BY <1>5, <2>1, <2>2, <2>4, ShiftedPools, InUseIsLive
  <2>. QED  BY <2>3, <2>4
<1>6. ASSUME (\E p \in Pool : BeginTry(p)) \/ AddUse PROVE Goal
  <2>1. UNCHANGED <<threadVars, lock, life>>
    BY <1>6 DEF BeginTry, AddUse, poolVars
  <2>. QED  BY <1>1, <2>1
<1>7. ASSUME EndTry PROVE Goal
  <2>1. /\ UNCHANGED <<threadVars, lock>> /\ cur # "none"
        /\ life' = [life EXCEPT ![cur] = IF usecount = 0 THEN "freed" ELSE "garbage"]
    BY <1>7 DEF EndTry
  <2>2. cur \in Pool /\ life[cur] # "live"
    BY <2>1 DEF Types, Garbage
  <2>3. life \in [Pool -> {"new", "live", "dying", "garbage", "freed"}]
    BY DEF Types
  <2>4. \A p \in Pool : /\ life[p] = "live" => life'[p] = "live"
                        /\ life[p] # "new" => life'[p] # "new"
    BY <2>1, <2>2, <2>3
  <2>. QED  BY <1>0, <2>1, <2>4, PoolsTypes DEF Lives, threadVars
<1>. HIDE DEF Goal
<1>8. Goal
  BY <1>1, <1>2, <1>3, <1>4, <1>5, <1>6, <1>7, NextCases, OthersLeavePools
     DEF PoolStep, CanStep, canVars
<1>. QED  BY <1>8 DEF Goal

LEMMA NextOwned ==
  ASSUME Types, Places, Owned, Garbage, Next
  PROVE  Owned'
BY NextApart, NextLives DEF Owned, Apart, Lives

-----------------------------------------------------------------------------
(* The garbage.                                                            *)

LEMMA NextGarbage ==
  ASSUME Types, Places, Owned, Garbage, Next
  PROVE  Garbage'
<1>0. life \in [Pool -> {"new", "live", "dying", "garbage", "freed"}] /\ can \subseteq Pool
      /\ todo \subseteq can
  BY DEF Types
<1>1. ASSUME UNCHANGED <<canVars, life>> PROVE Garbage'
  BY <1>1 DEF Garbage, canVars
<1>2. ASSUME NEW b \in BlockPools,
             BeginGet(b) \/ SkipUsed(b) \/ (\E h \in Handle : TakeFree(b, h))
               \/ Make(b) \/ BeginDelete(b)
      PROVE  Garbage'
  <2>1. UNCHANGED <<canVars, life>>
    BY <1>2 DEF BeginGet, SkipUsed, TakeFree, Make, BeginDelete, poolVars
  <2>. QED  BY <1>1, <2>1
<1>3. ASSUME NEW b \in BlockPools, NEW p \in Pool, NewPool(b, p) PROVE Garbage'
  <2>1. life[p] = "new" /\ life' = [life EXCEPT ![p] = "live"] /\ UNCHANGED canVars
    BY <1>3 DEF NewPool
  <2>2. \A q \in Pool : life[q] # "new" => life'[q] = life[q]
    BY <1>0, <2>1
  <2>3. \A q \in can : q \in Pool /\ life[q] = "garbage"
    BY <1>0 DEF Garbage
  <2>4. cur # "none" => cur \in Pool /\ life[cur] \in {"dying", "garbage"}
    BY DEF Garbage, Types
  <2>. QED  BY <2>1, <2>2, <2>3, <2>4 DEF Garbage, canVars
<1>4. ASSUME NEW b \in BlockPools, LockCan(b) PROVE Garbage'
  <2>1. lock = "none" /\ UNCHANGED <<can, cur, seen, usecount>>
    BY <1>4 DEF LockCan
  <2>2. cur = "none"
    BY <2>1 DEF Garbage
  <2>3. CASE ~Deleting(b)
    BY <1>4, <2>1, <2>2, <2>3 DEF LockCan, poolVars, Garbage
  <2>4. CASE Deleting(b)
    <3>1. life' = [life EXCEPT ![Head(pools[b])] = "dying"] /\ pools[b] # <<>>
      BY <1>4, <2>4 DEF LockCan, Deleting
    <3>2. Head(pools[b]) = pools[b][1] /\ 1 \in 1..Len(pools[b])
      BY <3>1, PoolsTypes, HeadTailProperties
    <3>3. Head(pools[b]) \in Pool /\ life[Head(pools[b])] = "live"
      BY <2>1, <3>2, BlockPoolAssumption, PoolsTypes, InUseIsLive
    <3>4. \A q \in can : life'[q] = "garbage"
      <4>1. \A q \in can : q \in Pool /\ life[q] = "garbage"
        BY <1>0 DEF Garbage
      <4>. QED  BY <1>0, <3>1, <3>3, <4>1
    <3>. QED  BY <2>1, <2>2, <3>4 DEF Garbage
  <2>. QED  BY <2>3, <2>4
<1>5. ASSUME NEW b \in BlockPools, UnlockCan(b) PROVE Garbage'
  <2>1. cur = "none" /\ UNCHANGED <<can, cur, seen, usecount, life>>
    BY <1>5 DEF UnlockCan, poolVars
  <2>. QED  BY <2>1 DEF Garbage
<1>6. ASSUME NEW p \in Pool, BeginTry(p) PROVE Garbage'
  <2>1. /\ UNCHANGED <<life, lock, can, seen, usecount>> /\ cur' = p /\ lock # "none"
        /\ p \in todo \/ life[p] = "dying"
    BY <1>6 DEF BeginTry, poolVars
  <2>2. life[p] \in {"dying", "garbage"} /\ p # "none"
    BY <1>0, <2>1, BlockPoolAssumption DEF Garbage
  <2>. QED  BY <2>1, <2>2 DEF Garbage
<1>7. ASSUME AddUse PROVE Garbage'
  BY <1>7 DEF AddUse, Garbage, poolVars
<1>8. ASSUME EndTry PROVE Garbage'
  <2>1. /\ cur # "none" /\ cur' = "none" /\ seen' = 0 /\ usecount' = 0 /\ lock' = lock
        /\ life' = [life EXCEPT ![cur] = IF usecount = 0 THEN "freed" ELSE "garbage"]
        /\ can' = IF usecount = 0 THEN can \ {cur} ELSE can \cup {cur}
    BY <1>8 DEF EndTry
  <2>2. cur \in Pool
    BY <2>1 DEF Types
  <2>3. \A q \in can : q \in Pool /\ life[q] = "garbage"
    BY <1>0 DEF Garbage
  <2>4. \A q \in can' : life'[q] = "garbage"
    BY <1>0, <2>1, <2>2, <2>3
  <2>. QED  BY <2>1, <2>4 DEF Garbage
<1>. QED  BY <1>1, <1>2, <1>3, <1>4, <1>5, <1>6, <1>7, <1>8, NextCases, OthersLeavePools
          DEF PoolStep, CanStep

\* What a step does to a pool that is not live.
LEMMA LeftAlone ==
  ASSUME Types, CountsAreReferences, Places, Owned, Heap, Next,
         NEW p \in Pool, life[p] # "live", NEW i \in 1..NBlock, use_cnt[<<p, i>>] = 0
  PROVE  use_cnt'[<<p, i>>] = 0
<1>1. <<p, i>> \in Counted /\ <<p, i>> \notin Memory
  BY CountedFacts
<1>2. ASSUME NEW b \in BlockPools, NEW h \in Handle, TakeFree(b, h),
             <<p, i>> = <<Current(b), next_alloc[Current(b)]>>
      PROVE  FALSE
  <2>1. life[Current(b)] = "live"
    BY <1>2, TakeCounts, CurrentIsLive
  <2>. QED  BY <1>2, <2>1
<1>. QED  BY <1>1, <1>2, StaysUnused

\* Where a pool goes.
LEMMA Lifetime ==
  ASSUME Types, Owned, Places, Garbage, Next, NEW p \in Pool
  PROVE  /\ life'[p] = "new" => life[p] = "new" /\ next_alloc'[p] = next_alloc[p]
         /\ life'[p] = "freed" =>
              \/ life[p] = "freed"
              \/ EndTry /\ p = cur /\ usecount = 0 /\ seen = NBlock
<1>. DEFINE Goal == /\ life'[p] = "new" => life[p] = "new" /\ next_alloc'[p] = next_alloc[p]
                    /\ life'[p] = "freed" =>
                         \/ life[p] = "freed"
                         \/ EndTry /\ p = cur /\ usecount = 0 /\ seen = NBlock
<1>0. life \in [Pool -> {"new", "live", "dying", "garbage", "freed"}]
      /\ next_alloc \in [Pool -> 1..NBlock]
  BY DEF Types
<1>1. ASSUME UNCHANGED <<life, next_alloc>> PROVE Goal
  BY <1>1
<1>2. ASSUME NEW b \in BlockPools, SkipUsed(b) \/ \E h \in Handle : TakeFree(b, h) PROVE Goal
  <2>1. life' = life /\ pc[b] = "get"
    BY <1>2 DEF SkipUsed, TakeFree
  <2>2. Current(b) \in Pool /\ life[Current(b)] = "live"
    BY <2>1, CurrentIsLive
  <2>3. PICK v : next_alloc' = [next_alloc EXCEPT ![Current(b)] = v]
    BY <1>2 DEF SkipUsed, TakeFree
  <2>4. p # Current(b) => next_alloc'[p] = next_alloc[p]
    BY <1>0, <2>3
  <2>. QED  BY <2>1, <2>2, <2>4
<1>3. ASSUME NEW b \in BlockPools, NEW q \in Pool, NewPool(b, q) PROVE Goal
  <2>1. life[q] = "new" /\ life' = [life EXCEPT ![q] = "live"] /\ next_alloc' = next_alloc
    BY <1>3 DEF NewPool
  <2>. QED  BY <1>0, <2>1
<1>4. ASSUME NEW b \in BlockPools, LockCan(b) PROVE Goal
  <2>1. CASE ~Deleting(b)
    BY <1>4, <2>1 DEF LockCan, poolVars
  <2>2. CASE Deleting(b)
    <3>1. life' = [life EXCEPT ![Head(pools[b])] = "dying"] /\ next_alloc' = next_alloc
      BY <1>4, <2>2 DEF LockCan
    <3>. QED  BY <1>0, <3>1
  <2>. QED  BY <2>1, <2>2
<1>5. ASSUME NEW b \in BlockPools, BeginGet(b) \/ Make(b) \/ BeginDelete(b) \/ UnlockCan(b)
      PROVE  Goal
  BY <1>5 DEF BeginGet, Make, BeginDelete, UnlockCan, poolVars
<1>6. ASSUME (\E q \in Pool : BeginTry(q)) \/ AddUse PROVE Goal
  BY <1>6 DEF BeginTry, AddUse, poolVars
<1>7. ASSUME EndTry PROVE Goal
  <2>1. /\ life' = [life EXCEPT ![cur] = IF usecount = 0 THEN "freed" ELSE "garbage"]
        /\ next_alloc' = next_alloc /\ seen = NBlock
    BY <1>7 DEF EndTry
  <2>. QED  BY <1>0, <1>7, <2>1
<1>. HIDE DEF Goal
<1>8. Goal
  BY <1>1, <1>2, <1>3, <1>4, <1>5, <1>6, <1>7, NextCases, OthersLeavePools DEF PoolStep, CanStep
<1>. QED  BY <1>8 DEF Goal

LEMMA NextUnused ==
  ASSUME Types, CountsAreReferences, Places, Owned, Garbage, Heap, Unused, Next
  PROVE  Unused'
<1>0. cur \in Pool \cup {"none"} /\ seen \in 0..NBlock /\ usecount \in Nat
  BY DEF Types
<1>1. ASSUME NEW p \in Pool, life'[p] \in {"new", "freed"}, NEW i \in 1..NBlock
      PROVE  use_cnt'[<<p, i>>] = 0
  <2>1. CASE life[p] \in {"new", "freed"}
    BY <1>1, <2>1, LeftAlone DEF Unused
  <2>2. CASE life[p] \notin {"new", "freed"}
    <3>1. EndTry /\ p = cur /\ usecount = 0 /\ seen = NBlock
      BY <1>1, <2>2, Lifetime
    <3>2. cur # "none" /\ use_cnt' = use_cnt
      BY <3>1 DEF EndTry
    <3>. QED  BY <1>1, <3>1, <3>2 DEF Unused
  <2>. QED  BY <2>1, <2>2
<1>2. ASSUME NEW p \in Pool, life'[p] = "new"
      PROVE  next_alloc'[p] = 1
  BY <1>2, Lifetime DEF Unused
<1>3. ASSUME cur' # "none", usecount' = 0, NEW i \in 1..seen'
      PROVE  use_cnt'[<<cur', i>>] = 0
  <2>1. CASE UNCHANGED <<cur, seen, usecount>>
    <3>1. cur # "none" /\ cur \in Pool /\ i \in 1..NBlock /\ use_cnt[<<cur, i>>] = 0
      <4>1. cur # "none" /\ cur \in Pool /\ usecount = 0 /\ i \in 1..seen
        BY <1>0, <1>3, <2>1
      <4>2. i \in 1..NBlock
        BY ONLY <1>0, <4>1, BlockPoolAssumption
      <4>. QED  BY <4>1, <4>2 DEF Unused
    <3>2. life[cur] # "live"
      BY <3>1 DEF Garbage
    <3>. QED  BY <2>1, <3>1, <3>2, LeftAlone
  <2>2. CASE \E p \in Pool : BeginTry(p)
    <3>1. seen' = seen /\ cur = "none"
      BY <2>2 DEF BeginTry
    <3>2. seen = 0
      BY <3>1 DEF Garbage
    <3>. QED  BY <1>3, <3>1, <3>2
  <2>3. CASE AddUse
    <3>1. /\ cur # "none" /\ seen < NBlock /\ seen' = seen + 1 /\ cur' = cur
          /\ usecount' = usecount + use_cnt[<<cur, seen + 1>>] /\ use_cnt' = use_cnt
      BY <2>3 DEF AddUse, poolVars
    <3>2. seen + 1 \in 1..NBlock /\ cur \in Pool
      BY ONLY <1>0, <3>1, BlockPoolAssumption
    <3>3. use_cnt[<<cur, seen + 1>>] \in Nat
      BY <3>2, CountedFacts DEF Types
    <3>4. usecount = 0 /\ use_cnt[<<cur, seen + 1>>] = 0
      BY <1>0, <1>3, <3>1, <3>3
    <3>5. \A j \in 1..seen : use_cnt[<<cur, j>>] = 0
      BY <3>1, <3>4 DEF Unused
    <3>6. i \in 1..seen \/ i = seen + 1
      BY <1>0, <1>3, <3>1
    <3>. QED  BY <3>1, <3>4, <3>5, <3>6
  <2>4. CASE EndTry
    BY <1>3, <2>4 DEF EndTry
  <2>5. ASSUME NEW b \in BlockPools, PoolStep(b) PROVE UNCHANGED <<cur, seen, usecount>>
    BY <2>5 DEF PoolStep, BeginGet, SkipUsed, TakeFree, Make, NewPool, BeginDelete, LockCan,
                UnlockCan, canVars
  <2>. QED  BY <2>1, <2>2, <2>3, <2>4, <2>5, NextCases, OthersLeavePools DEF CanStep, canVars
<1>. QED  BY <1>1, <1>2, <1>3 DEF Unused

-----------------------------------------------------------------------------
(* Memory of the blocks' own.                                              *)

\* Other than by FreeIfUnused, memory is not freed, and by Allocate alone used.
LEMMA OthersNeitherAllocateNorFree ==
  ASSUME Next, ~ \E h \in Handle : FreeIfUnused(h) \/ \E m \in Memory : Allocate(h, m)
  PROVE  nfreed' = nfreed /\ allocated' = allocated
<1>1. ASSUME NEW b \in BlockPools, PoolStep(b) PROVE nfreed' = nfreed /\ allocated' = allocated
  BY <1>1 DEF PoolStep, BeginGet, SkipUsed, TakeFree, EndGet, Make, NewPool, BeginDelete, LockCan,
              UnlockCan, handleVars
<1>2. CanStep => nfreed' = nfreed /\ allocated' = allocated
  BY DEF CanStep, BeginTry, AddUse, EndTry, handleVars
<1>3. ASSUME NEW h \in Handle, (\E g \in Handle : Copy(h, g)) \/ Drop(h)
      PROVE  nfreed' = nfreed /\ allocated' = allocated
  BY <1>3 DEF Copy, Drop
<1>. QED  BY <1>1, <1>2, <1>3, NextCases DEF HeapStep

\* Blocks of pools do not matter here.
LEMMA PoolsAreNotHeap ==
  ASSUME Types, Places, Heap, CountsAreReferences, Next,
         ~ \E h \in Handle : HeapStep(h)
  PROVE  /\ nfreed' = nfreed /\ allocated' = allocated /\ releasing' = releasing
         /\ \A h \in Handle : \/ points'[h] = points[h]
                              \/ IsEmpty(h) /\ points'[h] \notin Memory \cup {NoBlock}
         /\ \A m \in Memory : use_cnt'[m] = use_cnt[m]
<1>1. nfreed' = nfreed /\ allocated' = allocated
  BY OthersNeitherAllocateNorFree DEF HeapStep
<1>2. ASSUME NEW b \in BlockPools, PoolStep(b) PROVE releasing' = releasing
  BY <1>2 DEF PoolStep, BeginGet, SkipUsed, TakeFree, EndGet, Make, NewPool, BeginDelete, LockCan,
              UnlockCan, handleVars
<1>3. CanStep => releasing' = releasing
  BY DEF CanStep, BeginTry, AddUse, EndTry, handleVars
<1>4. CASE \E b \in BlockPools, h \in Handle : TakeFree(b, h)
  <2>1. PICK b \in BlockPools, h \in Handle : TakeFree(b, h)
    BY <1>4
  <2>2. PICK s : s = <<Current(b), next_alloc[Current(b)]>>
    OBVIOUS
  <2>3. s \in Counted /\ IsEmpty(h) /\ Counts(h, s, NoBlock, s)
    BY <2>1, <2>2, TakeCounts
  <2>4. s \notin Memory \cup {NoBlock}
    <3>1. pc[b] = "get"
      BY <2>1, TakeCounts
    <3>2. s \in Slot
      BY <2>2, <3>1, CurrentFacts
    <3>. QED  BY <3>2, <2>3, CountedFacts
  <2>5. \A k \in Handle : points'[k] = points[k] \/ (k = h /\ points'[k] = s)
    <3>1. points' = [points EXCEPT ![h] = s]
      BY <2>3 DEF Counts
    <3>2. points \in [Handle -> Counted \cup {NoBlock}]
      BY DEF Types
    <3>. QED  BY <3>1, <3>2
  <2>6. \A m \in Memory : use_cnt'[m] = use_cnt[m]
    BY <2>3, <2>4, CountedFacts DEF Counts, Types
  <2>. QED  BY <1>1, <1>2, <1>3, <2>3, <2>4, <2>5, <2>6, NextCases
<1>5. CASE ~ \E b \in BlockPools, h \in Handle : TakeFree(b, h)
  <2>1. points' = points /\ use_cnt' = use_cnt
    BY <1>5, OthersDoNotCount DEF HeapStep
  <2>. QED  BY <1>1, <1>2, <1>3, <2>1, NextCases
<1>. QED  BY <1>4, <1>5

HeapRefs ==
  /\ \A h \in Handle : /\ points[h] \in Memory => points[h] \in allocated
                       /\ releasing[h] \in Memory => releasing[h] \in allocated
                       /\ points[h] = NoBlock \/ releasing[h] = NoBlock

HeapCounts ==
  /\ \A m \in Memory \ allocated : use_cnt[m] = 0 /\ nfreed[m] = 0
  /\ \A m \in Memory : nfreed[m] > 0 => use_cnt[m] = 0

LEMMA HeapParts == Heap <=> HeapRefs /\ HeapCounts /\ NothingLeaks
BY DEF Heap, HeapRefs, HeapCounts

LEMMA NextHeap ==
  ASSUME Types, CountsAreReferences, Places, Heap, Next
  PROVE  Heap'
<1>. DEFINE Goal == HeapRefs' /\ HeapCounts' /\ NothingLeaks'
<1>0. /\ points \in [Handle -> Counted \cup {NoBlock}]
      /\ releasing \in [Handle -> Memory \cup {NoBlock}]
      /\ allocated \subseteq Memory /\ nfreed \in [Memory -> Nat]
      /\ use_cnt \in [Counted -> Nat] /\ Memory \subseteq Counted /\ NoBlock \notin Counted
  BY CountedFacts DEF Types
<1>a. HeapRefs /\ HeapCounts /\ NothingLeaks
  BY HeapParts
<1>1. ASSUME NEW h \in Handle, NEW m \in Memory, Allocate(h, m) PROVE Goal
  <2>1. /\ points' = [points EXCEPT ![h] = m] /\ allocated' = allocated \cup {m}
        /\ use_cnt' = [use_cnt EXCEPT ![m] = 1] /\ nfreed' = nfreed /\ releasing' = releasing
        /\ m \notin allocated /\ IsEmpty(h)
    BY <1>1 DEF Allocate
  <2>2. HeapRefs'
    BY <1>0, <1>a, <2>1 DEF HeapRefs, IsEmpty
  <2>3. HeapCounts'
    <3>1. nfreed[m] = 0
      BY <1>a, <2>1 DEF HeapCounts
    <3>2. \A k \in Memory \ {m} : use_cnt'[k] = use_cnt[k]
      BY <1>0, <2>1
    <3>. QED  BY <1>a, <2>1, <3>1, <3>2 DEF HeapCounts
  <2>4. NothingLeaks'
    <3>1. points'[h] = m /\ \A k \in Handle \ {h} : points'[k] = points[k]
      BY <1>0, <2>1
    <3>2. points[h] = NoBlock /\ \A k \in allocated : k # NoBlock
      BY <1>0, <2>1 DEF IsEmpty
    <3>. QED  BY <1>a, <2>1, <3>1, <3>2 DEF NothingLeaks
  <2>. QED  BY <2>2, <2>3, <2>4
<1>2. ASSUME NEW h \in Handle, NEW g \in Handle, Copy(h, g) PROVE Goal
  <2>1. PICK s \in Counted : s = points[h]
    BY <1>0, <1>2 DEF Copy
  <2>2. /\ points' = [points EXCEPT ![g] = s] /\ allocated' = allocated
        /\ use_cnt' = [use_cnt EXCEPT ![s] = use_cnt[s] + 1] /\ nfreed' = nfreed
        /\ releasing' = releasing /\ IsEmpty(g)
    BY <1>2, <2>1 DEF Copy
  <2>3. use_cnt[s] # 0
    BY <2>1, CountsAreRefs
  <2>4. HeapRefs'
    BY <1>0, <1>a, <2>1, <2>2 DEF HeapRefs, IsEmpty
  <2>5. HeapCounts'
    <3>1. \A m \in Memory : use_cnt[m] = 0 => use_cnt'[m] = 0
      BY <1>0, <2>2, <2>3
    <3>. QED  BY <1>a, <2>2, <3>1 DEF HeapCounts
  <2>6. NothingLeaks'
    <3>1. \A k \in Handle : points'[k] = points[k] \/ points[k] = NoBlock
      BY <1>0, <2>2 DEF IsEmpty
    <3>2. \A k \in allocated : k # NoBlock
      BY <1>0
    <3>. QED  BY <1>a, <2>2, <3>1, <3>2 DEF NothingLeaks
  <2>. QED  BY <2>4, <2>5, <2>6
<1>3. ASSUME NEW h \in Handle, Drop(h) PROVE Goal
  <2>1. PICK s \in Counted : s = points[h]
    BY <1>0, <1>3 DEF Drop
  <2>2. /\ points' = [points EXCEPT ![h] = NoBlock] /\ allocated' = allocated
        /\ use_cnt' = [use_cnt EXCEPT ![s] = use_cnt[s] - 1] /\ nfreed' = nfreed
        /\ releasing' = [releasing EXCEPT ![h] = IF s \in Memory THEN s ELSE releasing[h]]
    BY <1>3, <2>1 DEF Drop
  <2>3. use_cnt[s] # 0
    BY <2>1, CountsAreRefs
  <2>a. s # NoBlock /\ releasing[h] = NoBlock
    BY <1>0, <1>a, <2>1 DEF HeapRefs
  <2>4. HeapRefs'
    <3>1. s \in Memory => s \in allocated
      BY <1>a, <2>1 DEF HeapRefs
    <3>2. points'[h] = NoBlock /\ releasing'[h] \in {s, NoBlock}
          /\ (releasing'[h] = s => s \in Memory)
      BY <1>0, <2>2, <2>a
    <3>3. \A k \in Handle \ {h} : points'[k] = points[k] /\ releasing'[k] = releasing[k]
      BY <1>0, <2>2
    <3>4. NoBlock \notin Memory
      BY <1>0
    <3>. QED  BY <1>a, <2>2, <3>1, <3>2, <3>3, <3>4 DEF HeapRefs
  <2>5. HeapCounts'
    <3>1. \A m \in Memory : use_cnt[m] = 0 => use_cnt'[m] = 0
      BY <1>0, <2>2, <2>3
    <3>. QED  BY <1>a, <2>2, <3>1 DEF HeapCounts
  <2>6. NothingLeaks'
    <3>1. SUFFICES ASSUME NEW m \in allocated,
                          \A k \in Handle : points'[k] # m /\ releasing'[k] # m
                   PROVE  nfreed[m] > 0
      BY <2>2 DEF NothingLeaks
    <3>2. m # s
      BY <1>0, <2>2, <3>1
    <3>3. \A k \in Handle : points[k] # m /\ releasing[k] # m
      <4>1. \A k \in Handle \ {h} : points'[k] = points[k] /\ releasing'[k] = releasing[k]
        BY <1>0, <2>2
      <4>2. m # NoBlock
        BY <1>0
      <4>. QED  BY <2>1, <2>a, <3>1, <3>2, <4>1, <4>2
    <3>. QED  BY <1>a, <3>3 DEF NothingLeaks
  <2>. QED  BY <2>4, <2>5, <2>6
<1>4. ASSUME NEW h \in Handle, FreeIfUnused(h) PROVE Goal
  <2>1. PICK m \in Memory : m = releasing[h]
    BY <1>0, <1>4 DEF FreeIfUnused
  <2>2. /\ \/ (use_cnt[m] = 0 \/ nfreed[m] > 0) /\ nfreed' = [nfreed EXCEPT ![m] = nfreed[m] + 1]
           \/ (use_cnt[m] > 0 \/ nfreed[m] > 0) /\ nfreed' = nfreed
        /\ releasing' = [releasing EXCEPT ![h] = NoBlock]
        /\ points' = points /\ allocated' = allocated /\ use_cnt' = use_cnt
    BY <1>4, <2>1 DEF FreeIfUnused, poolVars
  <2>3. nfreed'[m] \in {nfreed[m], nfreed[m] + 1} /\ nfreed[m] \in Nat
        /\ \A k \in Memory \ {m} : nfreed'[k] = nfreed[k]
    BY <1>0, <2>2
  <2>4. m \in allocated
    BY <1>a, <2>1 DEF HeapRefs
  <2>5. HeapRefs'
    <3>1. \A k \in Handle : releasing'[k] = releasing[k] \/ releasing'[k] = NoBlock
      BY <1>0, <2>2
    <3>2. NoBlock \notin Memory
      BY <1>0
    <3>. QED  BY <1>a, <2>2, <3>1, <3>2 DEF HeapRefs
  <2>6. HeapCounts'
    <3>1. nfreed'[m] > 0 => use_cnt[m] = 0
      <4>1. nfreed[m] > 0 => use_cnt[m] = 0
        BY <1>a DEF HeapCounts
      <4>2. CASE nfreed' = nfreed
        BY <4>1, <4>2
      <4>3. CASE use_cnt[m] = 0 \/ nfreed[m] > 0
        BY <4>1, <4>3
      <4>. QED  BY <2>2, <4>2, <4>3
    <3>. QED  BY <1>a, <2>2, <2>3, <2>4, <3>1 DEF HeapCounts
  <2>7. NothingLeaks'
    <3>1. SUFFICES ASSUME NEW k \in allocated,
                          \A g \in Handle : points[g] # k /\ releasing'[g] # k
                   PROVE  nfreed'[k] > 0
      BY <2>2 DEF NothingLeaks
    <3>2. CASE k = m
      <4>1. use_cnt[m] = 0
        BY <1>0, <3>1, <3>2, CountsAreRefs
      <4>2. nfreed'[m] = nfreed[m] + 1 \/ nfreed[m] > 0
        BY <1>0, <2>2, <4>1
      <4>. QED  BY <2>3, <3>2, <4>2
    <3>3. CASE k # m
      <4>1. \A g \in Handle : releasing[g] # k
        BY <1>0, <2>1, <2>2, <3>1, <3>3
      <4>2. nfreed[k] > 0
        BY <1>a, <3>1, <4>1 DEF NothingLeaks
      <4>. QED  BY <1>0, <2>3, <3>3, <4>2
    <3>. QED  BY <3>2, <3>3
  <2>. QED  BY <2>5, <2>6, <2>7
<1>5. ASSUME ~ \E h \in Handle : HeapStep(h) PROVE Goal
  <2>1. /\ nfreed' = nfreed /\ allocated' = allocated /\ releasing' = releasing
        /\ \A h \in Handle : \/ points'[h] = points[h]
                             \/ IsEmpty(h) /\ points'[h] \notin Memory \cup {NoBlock}
        /\ \A m \in Memory : use_cnt'[m] = use_cnt[m]
    BY <1>5, PoolsAreNotHeap
  <2>2. HeapRefs'
    BY <1>a, <2>1 DEF HeapRefs, IsEmpty
  <2>3. HeapCounts'
    BY <1>a, <2>1 DEF HeapCounts
  <2>4. NothingLeaks'
    <3>1. \A k \in allocated : k # NoBlock /\ k \in Memory
      BY <1>0
    <3>. QED  BY <1>a, <2>1, <3>1 DEF NothingLeaks, IsEmpty
  <2>. QED  BY <2>2, <2>3, <2>4
<1>. HIDE DEF Goal
<1>6. Goal
  BY <1>1, <1>2, <1>3, <1>4, <1>5 DEF HeapStep
<1>. QED  BY <1>6, HeapParts DEF Goal, Heap, HeapRefs, HeapCounts

-----------------------------------------------------------------------------
(* What get() has seen.                                                    *)

LEMMA PassedStart == \A a, x \in Nat : ~Passed(a, a, x)
BY DEF Passed

\* One further: the one left behind is passed as well; back at the start, all are.
LEMMA PassedNext ==
  ASSUME NEW n \in Nat \ {0}, NEW a \in 1..n, NEW z \in 1..n, NEW x \in 1..n
  PROVE  /\ CircNext(z, n) # a /\ Passed(a, CircNext(z, n), x) => Passed(a, z, x) \/ x = z
         /\ CircNext(z, n) = a => Passed(a, z, x) \/ x = z
<1>1. CircNext(z, n) = IF z = n THEN 1 ELSE z + 1
  BY Round
<1>. QED  BY <1>1 DEF Passed

Used(p) == \A i \in 1..NBlock : use_cnt[<<p, i>>] > 0

PoolsSeen(b) ==
  \A k \in 1..Len(pools[b]) : Passed(oldcurpool[b], curpool[b], k) => Used(pools[b][k])
SlotsSeen(b) ==
  \A i \in 1..NBlock : Passed(previous_next[b], next_alloc[Current(b)], i) =>
    use_cnt[<<Current(b), i>>] > 0
Seen(b) ==
  \/ use_cnt[<<Current(b), next_alloc[Current(b)]>>] = 0
  \/ PoolsSeen(b) /\ SlotsSeen(b)

SearchOf(b) == pc[b] = "get" /\ ~dropped[b] => Seen(b)
FullOf(b) == pc[b] = "grow" /\ ~dropped[b] => \A k \in 1..Len(pools[b]) : Used(pools[b][k])

LEMMA SearchParts ==
  ASSUME Types
  PROVE  Search /\ GrowsOnlyIfFull <=> \A b \in BlockPools : SearchOf(b) /\ FullOf(b)
<1>1. \A b \in BlockPools : DOMAIN pools[b] = 1..Len(pools[b])
  BY LenProperties DEF Types
<1>2. Search <=> \A b \in BlockPools : SearchOf(b)
  BY DEF Search, SearchOf, Seen, PoolsSeen, SlotsSeen, Used
<1>3. GrowsOnlyIfFull <=> \A b \in BlockPools : FullOf(b)
  BY <1>1 DEF GrowsOnlyIfFull, FullOf, Used
<1>. QED  BY <1>2, <1>3

\* That a block was dropped is not forgotten during the search.
LEMMA DroppedKept ==
  ASSUME Types, Next, NEW b \in BlockPools, pc[b] \in {"get", "grow"}, pc'[b] = pc[b],
         ~dropped'[b]
  PROVE  ~dropped[b]
<1>0. dropped \in [BlockPools -> BOOLEAN] /\ pc \in [BlockPools -> PCs]
  BY DEF Types
<1>1. ASSUME NEW h \in Handle, HeapStep(h) PROVE ~dropped[b]
  <2>1. CASE Drop(h)
    BY <2>1 DEF Drop
  <2>2. CASE ~Drop(h)
    BY <1>1, <2>2 DEF HeapStep, Allocate, Copy, FreeIfUnused
  <2>. QED  BY <2>1, <2>2
<1>2. ASSUME NEW c \in BlockPools, PoolStep(c) PROVE ~dropped[b]
  <2>1. CASE \E h \in Handle : TakeFree(c, h)
    <3>1. /\ pc' = [pc EXCEPT ![c] = "idle"] /\ dropped' = [dropped EXCEPT ![c] = FALSE]
      BY <2>1 DEF TakeFree, EndGet, Goto
    <3>. QED  BY <1>0, <3>1
  <2>2. CASE \E p \in Pool : NewPool(c, p)
    <3>1. /\ pc[c] \in {"make clean", "grow clean"} /\ dropped' = [dropped EXCEPT ![c] = FALSE]
      BY <2>2 DEF NewPool
    <3>. QED  BY <1>0, <3>1
  <2>3. CASE BeginGet(c) \/ SkipUsed(c) \/ Make(c) \/ BeginDelete(c) \/ LockCan(c) \/ UnlockCan(c)
    BY <2>3 DEF BeginGet, SkipUsed, Make, BeginDelete, LockCan, UnlockCan, handleVars
  <2>. QED  BY <1>2, <2>1, <2>2, <2>3 DEF PoolStep
<1>3. CanStep => ~dropped[b]
  BY DEF CanStep, BeginTry, AddUse, EndTry, handleVars
<1>. QED  BY <1>1, <1>2, <1>3, NextCases

\* Two blockpools do not look at the same pool.
LEMMA LooksApart ==
  ASSUME Types, Places, Owned, NEW b \in BlockPools, NEW c \in BlockPools,
         pc[b] \in {"get", "grow"}, pc[c] = "get", Current(b) = Current(c)
  PROVE  b = c
<1>1. /\ curpool[b] \in 1..Len(pools[b]) /\ Current(b) = pools[b][curpool[b]]
      /\ curpool[c] \in 1..Len(pools[c]) /\ Current(c) = pools[c][curpool[c]]
  BY CurrentFacts
<1>2. pools[b][curpool[b]] = pools[c][curpool[c]]
  BY <1>1
<1>3. Apart
  BY DEF Owned, Apart
<1>. QED  BY <1>1, <1>2, <1>3 DEF Apart

\* The steps in which b does not go on with its search.
LEMMA SearchKept ==
  ASSUME Types, CountsAreReferences, Places, Owned, Heap, Next, NEW b \in BlockPools,
         SearchOf(b), FullOf(b),
         pools'[b] = pools[b], curpool'[b] = curpool[b], pc'[b] = pc[b],
         oldcurpool'[b] = oldcurpool[b], previous_next'[b] = previous_next[b],
         pc[b] = "get" => next_alloc'[Current(b)] = next_alloc[Current(b)]
  PROVE  SearchOf(b)' /\ FullOf(b)'
<1>1. SUFFICES ASSUME pc[b] \in {"get", "grow"}, ~dropped'[b]
               PROVE  SearchOf(b)' /\ FullOf(b)'
  BY DEF SearchOf, FullOf
<1>2. ~dropped[b]
  BY <1>1, DroppedKept
<1>3. Current(b)' = Current(b)
  BY DEF Current
<1>4. ASSUME NEW k \in 1..Len(pools[b]), NEW i \in 1..NBlock, use_cnt[<<pools[b][k], i>>] > 0
      PROVE  use_cnt'[<<pools[b][k], i>>] > 0
  <2>1. PICK s \in Counted : s = <<pools[b][k], i>>
    BY PoolsTypes, CountedFacts
  <2>2. ASSUME NEW h \in Handle, Drop(h), points[h] = s PROVE FALSE
    <3>1. DOMAIN pools[b] = 1..Len(pools[b])
      BY LenProperties DEF Types
    <3>2. points[h] \in {pools[b][k]} \X (1..NBlock)
      BY <2>1, <2>2
    <3>3. dropped'[b]
      BY <1>1, <1>4, <2>2, <3>1, <3>2 DEF Drop
    <3>. QED  BY <1>1, <3>3
  <2>3. use_cnt[s] > 0
    BY <1>4, <2>1
  <2>4. use_cnt'[s] > 0
    BY <2>2, <2>3, StaysUsed
  <2>. QED  BY <2>1, <2>4
<1>5. \A k \in 1..Len(pools[b]) : Used(pools[b][k]) => Used(pools[b][k])'
  BY <1>4 DEF Used
<1>6. CASE pc[b] = "grow"
  BY <1>2, <1>5, <1>6 DEF SearchOf, FullOf, Used
<1>7. CASE pc[b] = "get"
  <2>1. Seen(b) /\ next_alloc'[Current(b)] = next_alloc[Current(b)]
    BY <1>2, <1>7 DEF SearchOf
  <2>2. CASE use_cnt[<<Current(b), next_alloc[Current(b)]>>] = 0
    <3>1. PICK s \in Slot : s = <<Current(b), next_alloc[Current(b)]>>
      BY <1>7, CurrentFacts
    <3>2. s \in Counted /\ s \notin Memory /\ use_cnt[s] = 0
      BY <2>2, <3>1, CountedFacts DEF Counted
    <3>3. ASSUME NEW c \in BlockPools, NEW h \in Handle, TakeFree(c, h),
                 s = <<Current(c), next_alloc[Current(c)]>>
          PROVE  FALSE
      <4>1. pc[c] = "get" /\ Current(b) = Current(c)
        BY <3>1, <3>3 DEF TakeFree
      <4>2. c = b
        BY <1>7, <4>1, LooksApart
      <4>3. pc'[b] = "idle"
        BY <3>3, <4>2 DEF TakeFree, EndGet, Goto, Types
      <4>. QED  BY <1>7, <4>3
    <3>4. use_cnt'[s] = 0
      BY <3>2, <3>3, StaysUnused
    <3>. QED  BY <1>3, <1>7, <2>1, <3>1, <3>4 DEF SearchOf, FullOf, Seen
  <2>3. CASE PoolsSeen(b) /\ SlotsSeen(b)
    <3>1. curpool[b] \in 1..Len(pools[b]) /\ Current(b) = pools[b][curpool[b]]
      BY <1>7, CurrentFacts
    <3>2. \A i \in 1..NBlock : use_cnt[<<Current(b), i>>] > 0 => use_cnt'[<<Current(b), i>>] > 0
      BY <1>4, <3>1
    <3>3. PoolsSeen(b)'
      BY <1>5, <2>3 DEF PoolsSeen
    <3>4. SlotsSeen(b)'
      BY <1>3, <2>1, <2>3, <3>2 DEF SlotsSeen
    <3>. QED  BY <1>7, <3>3, <3>4 DEF SearchOf, FullOf, Seen
  <2>. QED  BY <2>1, <2>2, <2>3 DEF Seen
<1>. QED  BY <1>1, <1>6, <1>7

\* SkipUsed, when the pool is not at its end, and when it is.
LEMMA SkipFacts ==
  ASSUME Types, Places, NEW b \in BlockPools, SkipUsed(b)
  PROVE  LET n == CircNext(next_alloc[Current(b)], NBlock)
             k == CircNext(curpool[b], Len(pools[b]))
         IN  /\ pc[b] = "get" /\ use_cnt[<<Current(b), next_alloc[Current(b)]>>] # 0
             /\ use_cnt' = use_cnt /\ pools' = pools /\ oldcurpool' = oldcurpool
             /\ dropped' = dropped /\ n \in 1..NBlock /\ k \in 1..Len(pools[b])
             /\ next_alloc' = [next_alloc EXCEPT ![Current(b)] = n]
             /\ next_alloc'[Current(b)] = n
             /\ n # previous_next[b] =>
                  /\ curpool'[b] = curpool[b] /\ previous_next'[b] = previous_next[b]
                  /\ pc'[b] = "get"
             /\ n = previous_next[b] =>
                  /\ curpool'[b] = k /\ previous_next'[b] = next_alloc'[pools[b][k]]
                  /\ pc'[b] = IF k = oldcurpool[b] THEN "grow" ELSE "get"
<1>1. pc[b] = "get"
  BY DEF SkipUsed
<1>2. /\ Current(b) \in Pool /\ next_alloc[Current(b)] \in 1..NBlock
      /\ curpool[b] \in 1..Len(pools[b]) /\ Len(pools[b]) \in Nat \ {0}
  BY <1>1, CurrentFacts
<1>3. PICK n \in 1..NBlock : n = CircNext(next_alloc[Current(b)], NBlock)
  BY <1>2, Round, BlockPoolAssumption
<1>4. PICK k \in 1..Len(pools[b]) : k = CircNext(curpool[b], Len(pools[b]))
  BY <1>2, Round
<1>5. /\ use_cnt[<<Current(b), next_alloc[Current(b)]>>] # 0
      /\ use_cnt' = use_cnt /\ pools' = pools /\ oldcurpool' = oldcurpool /\ dropped' = dropped
      /\ next_alloc' = [next_alloc EXCEPT ![Current(b)] = n]
  BY <1>3 DEF SkipUsed, handleVars
<1>6. next_alloc'[Current(b)] = n
  BY <1>2, <1>5 DEF Types
<1>7. /\ pc \in [BlockPools -> PCs] /\ curpool \in [BlockPools -> Nat]
      /\ previous_next \in [BlockPools -> 1..NBlock]
  BY DEF Types
<1>8. ASSUME n # previous_next[b]
      PROVE  /\ curpool'[b] = curpool[b] /\ previous_next'[b] = previous_next[b]
             /\ pc'[b] = "get"
  BY <1>1, <1>3, <1>8 DEF SkipUsed
<1>9. ASSUME n = previous_next[b]
      PROVE  /\ curpool'[b] = k /\ previous_next'[b] = next_alloc'[pools[b][k]]
             /\ pc'[b] = IF k = oldcurpool[b] THEN "grow" ELSE "get"
  <2>1. /\ curpool' = [curpool EXCEPT ![b] = k]
        /\ previous_next' = [previous_next EXCEPT ![b] = next_alloc'[pools[b][k]]]
        /\ pc' = [pc EXCEPT ![b] = IF k = oldcurpool[b] THEN "grow" ELSE "get"]
    BY <1>3, <1>4, <1>9 DEF SkipUsed, Goto
  <2>. QED  BY ONLY <1>7, <2>1
<1>. QED  BY <1>1, <1>3, <1>4, <1>5, <1>6, <1>8, <1>9

LEMMA SkipSearches ==
  ASSUME Types, Places, NEW b \in BlockPools, SearchOf(b), SkipUsed(b)
  PROVE  SearchOf(b)' /\ FullOf(b)'
<1>1. PICK n \in 1..NBlock, k \in 1..Len(pools[b]) :
        /\ n = CircNext(next_alloc[Current(b)], NBlock) /\ k = CircNext(curpool[b], Len(pools[b]))
        /\ next_alloc'[Current(b)] = n
        /\ n # previous_next[b] =>
             /\ curpool'[b] = curpool[b] /\ previous_next'[b] = previous_next[b]
             /\ pc'[b] = "get"
        /\ n = previous_next[b] =>
             /\ curpool'[b] = k /\ previous_next'[b] = next_alloc'[pools[b][k]]
             /\ pc'[b] = IF k = oldcurpool[b] THEN "grow" ELSE "get"
  BY SkipFacts
<1>2. /\ pc[b] = "get" /\ use_cnt[<<Current(b), next_alloc[Current(b)]>>] # 0
      /\ use_cnt' = use_cnt /\ pools' = pools /\ oldcurpool' = oldcurpool /\ dropped' = dropped
  BY SkipFacts
<1>3. SUFFICES ASSUME ~dropped[b] PROVE SearchOf(b)' /\ FullOf(b)'
  BY <1>2 DEF SearchOf, FullOf
<1>4. PoolsSeen(b) /\ SlotsSeen(b)
  BY <1>2, <1>3 DEF SearchOf, Seen
<1>5. /\ Current(b) \in Pool /\ next_alloc[Current(b)] \in 1..NBlock
      /\ curpool[b] \in 1..Len(pools[b]) /\ Current(b) = pools[b][curpool[b]]
      /\ Len(pools[b]) \in Nat \ {0}
      /\ <<Current(b), next_alloc[Current(b)]>> \in Counted
  BY <1>2, CurrentFacts DEF Counted
<1>6. previous_next[b] \in 1..NBlock /\ oldcurpool[b] \in 1..Len(pools[b])
  BY <1>2 DEF Types, Places
<1>7. use_cnt[<<Current(b), next_alloc[Current(b)]>>] > 0
  <2>1. use_cnt[<<Current(b), next_alloc[Current(b)]>>] \in Nat
    BY <1>5 DEF Types
  <2>. QED  BY <1>2, <2>1
<1>8. CASE n # previous_next[b]
  <2>1. Current(b)' = Current(b)
    BY <1>1, <1>2, <1>8 DEF Current
  <2>2. PoolsSeen(b)'
    BY <1>1, <1>2, <1>4, <1>8 DEF PoolsSeen, Used
  <2>3. ASSUME NEW i \in 1..NBlock, Passed(previous_next[b], n, i)
        PROVE  use_cnt[<<Current(b), i>>] > 0
    <3>1. Passed(previous_next[b], next_alloc[Current(b)], i) \/ i = next_alloc[Current(b)]
      BY <1>1, <1>5, <1>6, <1>8, <2>3, PassedNext, BlockPoolAssumption
    <3>. QED  BY <1>4, <1>7, <3>1 DEF SlotsSeen
  <2>4. SlotsSeen(b)'
    BY <1>1, <1>2, <1>8, <2>1, <2>3 DEF SlotsSeen
  <2>5. pc'[b] = "get"
    BY <1>1, <1>8
  <2>. QED  BY <2>2, <2>4, <2>5 DEF SearchOf, FullOf, Seen
<1>9. CASE n = previous_next[b]
  <2>1. Used(Current(b))
    <3>1. ASSUME NEW i \in 1..NBlock PROVE use_cnt[<<Current(b), i>>] > 0
      <4>1. Passed(previous_next[b], next_alloc[Current(b)], i) \/ i = next_alloc[Current(b)]
        BY <1>1, <1>5, <1>6, <1>9, PassedNext, BlockPoolAssumption
      <4>. QED  BY <1>4, <1>7, <4>1 DEF SlotsSeen
    <3>. QED  BY <3>1 DEF Used
  <2>2. ASSUME NEW j \in 1..Len(pools[b]),
               Passed(oldcurpool[b], curpool[b], j) \/ j = curpool[b]
        PROVE  Used(pools[b][j])
    BY <1>4, <1>5, <2>1, <2>2 DEF PoolsSeen
  <2>3. CASE k = oldcurpool[b]
    <3>1. ASSUME NEW j \in 1..Len(pools[b]) PROVE Used(pools[b][j])
      <4>1. Passed(oldcurpool[b], curpool[b], j) \/ j = curpool[b]
        BY <1>1, <1>5, <1>6, <2>3, PassedNext
      <4>. QED  BY <2>2, <4>1
    <3>2. \A j \in 1..Len(pools'[b]) : Used(pools[b][j])'
      BY <1>2, <3>1 DEF Used
    <3>3. pc'[b] = "grow"
      BY <1>1, <1>9, <2>3
    <3>. QED  BY <3>2, <3>3 DEF SearchOf, FullOf
  <2>4. CASE k # oldcurpool[b]
    <3>1. ASSUME NEW j \in 1..Len(pools[b]), Passed(oldcurpool[b], k, j)
          PROVE  Used(pools[b][j])
      <4>1. Passed(oldcurpool[b], curpool[b], j) \/ j = curpool[b]
        BY <1>1, <1>5, <1>6, <2>4, <3>1, PassedNext
      <4>. QED  BY <2>2, <4>1
    <3>2. PoolsSeen(b)'
      BY <1>1, <1>2, <1>9, <3>1 DEF PoolsSeen, Used
    <3>3. Current(b)' = pools[b][k] /\ previous_next'[b] = next_alloc'[Current(b)']
      BY <1>1, <1>2, <1>9 DEF Current
    <3>4. next_alloc'[Current(b)'] \in Nat
      <4>1. pools[b][k] \in Pool
        BY PoolsTypes
      <4>2. next_alloc' = [next_alloc EXCEPT ![Current(b)] = n]
        BY <1>1, SkipFacts
      <4>3. next_alloc'[pools[b][k]] \in 1..NBlock
        BY <1>5, <4>1, <4>2 DEF Types
      <4>. QED  BY <3>3, <4>3
    <3>5. SlotsSeen(b)'
      BY <3>3, <3>4, PassedStart DEF SlotsSeen
    <3>6. pc'[b] = "get"
      BY <1>1, <1>9, <2>4
    <3>. QED  BY <3>2, <3>5, <3>6 DEF SearchOf, FullOf, Seen
  <2>. QED  BY <2>3, <2>4
<1>. QED  BY <1>8, <1>9

LEMMA NextSearch ==
  ASSUME Types, CountsAreReferences, Places, Owned, Heap, Unused, Next,
         NEW b \in BlockPools, SearchOf(b), FullOf(b)
  PROVE  SearchOf(b)' /\ FullOf(b)'
<1>1. CASE UNCHANGED threadVars /\ next_alloc' = next_alloc
  BY <1>1, SearchKept DEF threadVars
<1>2. ASSUME NEW c \in BlockPools \ {b}, PoolStep(c) PROVE SearchOf(b)' /\ FullOf(b)'
  <2>1. OwnThread(c)
    BY <1>2, PoolStepIsOwn
  <2>2. ASSUME pc[b] = "get" PROVE next_alloc'[Current(b)] = next_alloc[Current(b)]
    <3>1. CASE SkipUsed(c) \/ \E h \in Handle : TakeFree(c, h)
      <4>1. pc[c] = "get"
        BY <3>1 DEF SkipUsed, TakeFree
      <4>2. Current(b) # Current(c) /\ Current(b) \in Pool
        BY <1>2, <2>2, <4>1, LooksApart, CurrentFacts
      <4>3. PICK v : next_alloc' = [next_alloc EXCEPT ![Current(c)] = v]
        BY <3>1 DEF SkipUsed, TakeFree
      <4>. QED  BY <4>2, <4>3 DEF Types
    <3>2. CASE LockCan(c)
      BY <3>2 DEF LockCan, poolVars
    <3>3. CASE \/ BeginGet(c) \/ Make(c) \/ (\E p \in Pool : NewPool(c, p))
               \/ BeginDelete(c) \/ UnlockCan(c)
      BY <3>3 DEF BeginGet, Make, NewPool, BeginDelete, UnlockCan, poolVars
    <3>. QED  BY <1>2, <3>1, <3>2, <3>3 DEF PoolStep
  <2>. QED  BY <1>2, <2>1, <2>2, SearchKept DEF OwnThread
<1>3. ASSUME PoolStep(b) PROVE SearchOf(b)' /\ FullOf(b)'
  <2>0. pc \in [BlockPools -> PCs]
    BY DEF Types
  <2>1. CASE BeginGet(b)
    <3>1. /\ pc'[b] = "get" /\ oldcurpool'[b] = curpool[b] /\ pools' = pools /\ curpool' = curpool
          /\ previous_next'[b] = next_alloc[Current(b)] /\ next_alloc' = next_alloc
          /\ pc[b] = "idle"
      BY <2>1 DEF BeginGet, Goto, Types, poolVars
    <3>2. Current(b)' = Current(b) /\ curpool[b] \in Nat /\ next_alloc[Current(b)] \in Nat
      <4>1. Current(b)' = Current(b)
        BY <3>1 DEF Current
      <4>2. /\ curpool[b] \in 1..Len(pools[b]) /\ Len(pools[b]) \in Nat \ {0}
            /\ next_alloc[Current(b)] \in 1..NBlock
        BY <3>1, CurrentFacts
      <4>3. curpool[b] \in Nat /\ next_alloc[Current(b)] \in Nat
        BY ONLY <4>2, BlockPoolAssumption DEF BlockPoolAssumption
      <4>. QED  BY <4>1, <4>3
    <3>3. Len(pools[b]) \in Nat /\ \A x \in 1..Len(pools[b]) : ~Passed(curpool[b], curpool[b], x)
      BY <3>2, PoolsTypes, PassedStart
    <3>4. \A x \in 1..NBlock : ~Passed(next_alloc[Current(b)], next_alloc[Current(b)], x)
      BY <3>2, PassedStart
    <3>5. PoolsSeen(b)'
      BY <3>1, <3>3 DEF PoolsSeen
    <3>6. SlotsSeen(b)'
      BY <3>1, <3>2, <3>4 DEF SlotsSeen
    <3>. QED  BY <3>1, <3>5, <3>6 DEF SearchOf, FullOf, Seen
  <2>2. CASE SkipUsed(b)
    BY <2>2, SkipSearches
  <2>3. CASE \E h \in Handle : TakeFree(b, h)
    <3>1. pc'[b] = "idle"
      BY <2>0, <2>3 DEF TakeFree, EndGet, Goto
    <3>. QED  BY <3>1 DEF SearchOf, FullOf
  <2>4. CASE Make(b)
    <3>1. pc'[b] = "make"
      BY <2>0, <2>4 DEF Make, Goto
    <3>. QED  BY <3>1 DEF SearchOf, FullOf
  <2>5. CASE \E p \in Pool : NewPool(b, p)
    <3>1. PICK p \in Pool : NewPool(b, p)
      BY <2>5
    <3>2. /\ life[p] = "new" /\ pools'[b][Len(pools[b]) + 1] = p
          /\ curpool'[b] = Len(pools[b]) + 1
          /\ pc'[b] \in {"idle", "get"} /\ use_cnt' = use_cnt /\ next_alloc' = next_alloc
      <4>1. life[p] = "new" /\ pools'[b][Len(pools[b]) + 1] = p
        BY <3>1, NewPoolFacts
      <4>2. /\ curpool' = [curpool EXCEPT ![b] = Len(pools[b]) + 1]
            /\ pc' = [pc EXCEPT ![b] = IF pc[b] = "make clean" THEN "idle" ELSE "get"]
            /\ use_cnt' = use_cnt /\ next_alloc' = next_alloc
        BY <3>1 DEF NewPool, Goto
      <4>3. curpool \in [BlockPools -> Nat] /\ pc \in [BlockPools -> PCs]
        BY DEF Types
      <4>. QED  BY ONLY <4>1, <4>2, <4>3
    <3>3. Current(b)' = p
      BY <3>2 DEF Current
    <3>4. next_alloc[p] = 1 /\ 1 \in 1..NBlock
      BY <3>2, BlockPoolAssumption DEF Unused
    <3>5. use_cnt[<<p, 1>>] = 0
      BY <3>2, <3>4 DEF Unused
    <3>. QED  BY <3>2, <3>3, <3>4, <3>5 DEF SearchOf, FullOf, Seen
  <2>6. CASE BeginDelete(b)
    <3>1. pc'[b] = "delete"
      BY <2>0, <2>6 DEF BeginDelete, Goto
    <3>. QED  BY <3>1 DEF SearchOf, FullOf
  <2>7. CASE LockCan(b)
    <3>1. UNCHANGED threadVars /\ next_alloc' = next_alloc
      BY <2>7 DEF LockCan, poolVars
    <3>. QED  BY <1>1, <3>1
  <2>8. CASE UnlockCan(b)
    <3>1. pc'[b] \notin {"get", "grow"}
      BY <2>0, <2>8 DEF UnlockCan, Goto
    <3>. QED  BY <3>1 DEF SearchOf, FullOf
  <2>. QED  BY <1>3, <2>1, <2>2, <2>3, <2>4, <2>5, <2>6, <2>7, <2>8 DEF PoolStep
<1>4. CanStep => UNCHANGED threadVars /\ next_alloc' = next_alloc
  BY DEF CanStep, BeginTry, AddUse, EndTry, poolVars
<1>. QED  BY <1>1, <1>2, <1>3, <1>4, NextCases, OthersLeavePools

-----------------------------------------------------------------------------
(* Theorems.                                                               *)

LEMMA InitHolds == Init => IInv
<1>. SUFFICES ASSUME Init PROVE IInv
  OBVIOUS
<1>. USE DEF Init
<1>1. Types
  BY BlockPoolAssumption DEF Types, PCs
<1>2. CountsAreReferences
  <2>1. ASSUME NEW s \in Counted PROVE use_cnt[s] = Cardinality(Refs(s))
    <3>1. \A h \in Handle : points[h] # s
      BY CountedFacts
    <3>. QED  BY <3>1, RefsFacts
  <2>. QED  BY <2>1 DEF CountsAreReferences, Refs
<1>3. Places
  BY BlockPoolAssumption DEF Places
<1>4. \A b \in BlockPools : Len(pools[b]) = 0
  OBVIOUS
<1>5. Owned
  BY <1>4 DEF Owned
<1>6. Garbage
  BY DEF Garbage
<1>7. Unused
  BY CountedFacts DEF Unused
<1>8. Heap
  <2>1. HeapRefs
    BY CountedFacts DEF HeapRefs
  <2>2. HeapCounts
    BY CountedFacts DEF HeapCounts
  <2>3. NothingLeaks
    BY DEF NothingLeaks
  <2>. QED  BY <2>1, <2>2, <2>3, HeapParts
<1>9. Search /\ GrowsOnlyIfFull
  BY DEF Search, GrowsOnlyIfFull
<1>. QED  BY <1>1, <1>2, <1>3, <1>5, <1>6, <1>7, <1>8, <1>9 DEF IInv

LEMMA Invariance == IInv /\ [Next]_vars => IInv'
<1>. SUFFICES ASSUME IInv, [Next]_vars PROVE IInv'
  OBVIOUS
<1>0. /\ Types /\ CountsAreReferences /\ Places /\ Owned /\ Garbage /\ Unused /\ Heap
      /\ Search /\ GrowsOnlyIfFull
  BY DEF IInv
<1>1. CASE Next
  <2>1. Types' /\ CountsAreReferences' /\ Places' /\ Owned' /\ Garbage' /\ Unused' /\ Heap'
    BY <1>0, <1>1, NextTypes, NextCounts, NextPlaces, NextOwned, NextGarbage, NextUnused, NextHeap
  <2>2. \A b \in BlockPools : SearchOf(b)' /\ FullOf(b)'
    BY <1>0, <1>1, SearchParts, NextSearch
  <2>3. Search' /\ GrowsOnlyIfFull'
    <3>1. (\A b \in BlockPools : SearchOf(b) /\ FullOf(b))'
      BY <2>2
    <3>2. (Search /\ GrowsOnlyIfFull)'
      BY <2>1, <3>1, SearchParts, PTL
    <3>. QED  BY <3>2
  <2>. QED  BY <2>1, <2>3 DEF IInv
<1>2. CASE UNCHANGED vars
  <2>. USE <1>0, <1>2 DEF vars, handleVars, poolVars, threadVars, canVars
  <2>1. Types' /\ CountsAreReferences' /\ Places'
    BY DEF Types, CountsAreReferences, Places
  <2>2. Owned' /\ Garbage' /\ Unused'
    BY DEF Owned, Garbage, Unused
  <2>3. Heap'
    BY DEF Heap, NothingLeaks
  <2>4. Search' /\ GrowsOnlyIfFull'
    BY DEF Search, GrowsOnlyIfFull, Current
  <2>. QED  BY <2>1, <2>2, <2>3, <2>4 DEF IInv
<1>. QED  BY <1>1, <1>2

LEMMA Always == Spec => []IInv
<1>. QED  BY InitHolds, Invariance, PTL DEF Spec

\* Every variable keeps its type: no counter of the blocks is ever decremented
\* below zero, by whatever thread (block.cc:151).
THEOREM PoolTypes == Spec => []TypeOK
<1>1. IInv => TypeOK
  BY DEF IInv, Types, TypeOK
<1>. QED  BY <1>1, Always, PTL

\* The counter of a block is the number of block objects that refer to it, at
\* every moment of its copying and dropping by all threads (block.cc, DEC).
THEOREM CountersAreExact == Spec => []CountsAreReferences
<1>1. IInv => CountsAreReferences
  BY DEF IInv
<1>. QED  BY <1>1, Always, PTL

\* No pool is given back while a block refers to it, though try_delete() adds the
\* counters one by one (blockpool.cc:67), and no memory of a block's own is freed
\* under another block object.
THEOREM NoBlockWithoutMemory == Spec => []MemoryOutlivesBlocks
<1>1. ASSUME IInv, NEW h \in Handle
      PROVE  /\ points[h] \in Slot => life[points[h][1]] # "freed"
             /\ points[h] \in Memory => nfreed[points[h]] = 0
  <2>1. CountsAreReferences /\ Unused /\ Heap /\ Types
    BY <1>1 DEF IInv
  <2>2. ASSUME points[h] \in Slot, life[points[h][1]] = "freed" PROVE FALSE
    <3>1. PICK p \in Pool, i \in 1..NBlock : points[h] = <<p, i>>
      BY <2>2 DEF Slot
    <3>2. use_cnt[<<p, i>>] = 0
      BY <2>1, <2>2, <3>1 DEF Unused
    <3>. QED  BY <2>1, <3>1, <3>2, CountedFacts, CountsAreRefs
  <2>3. ASSUME points[h] \in Memory PROVE nfreed[points[h]] = 0
    <3>1. PICK m \in Memory : points[h] = m
      BY <2>3
    <3>2. use_cnt[m] # 0
      BY <2>1, <3>1, CountedFacts, CountsAreRefs
    <3>3. ~(nfreed[m] > 0)
      BY <2>1, <3>2, HeapParts DEF HeapCounts
    <3>4. nfreed[m] \in Nat
      BY <2>1 DEF Types
    <3>. QED  BY <3>1, <3>3, <3>4
  <2>. QED  BY <2>2, <2>3
<1>2. IInv => MemoryOutlivesBlocks
  BY <1>1 DEF MemoryOutlivesBlocks
<1>. QED  BY <1>2, Always, PTL

\* When the last block object that refers to memory of its own is gone, and with
\* it those that have yet to look at the counter, the memory is freed (block.cc).
THEOREM NoMemoryLeaks == Spec => []NothingLeaks
<1>1. IInv => NothingLeaks
  BY DEF IInv, Heap
<1>. QED  BY <1>1, Always, PTL

\* Wherever get() begins, it makes a pool only when it has seen every block of
\* every pool in use, unless one was dropped meanwhile (blockpool.cc:176).
THEOREM GrowsAtNeed == Spec => []GrowsOnlyIfFull
<1>1. IInv => GrowsOnlyIfFull
  BY DEF IInv
<1>. QED  BY <1>1, Always, PTL

\* The block that get() returns is nobody else's (blockpool.cc, pool_type::get()).
THEOREM NobodySharesAFreshBlock == Spec => HandedOutOnce
<1>1. ASSUME IInv, [Next]_vars,
             NEW b \in BlockPools, NEW h \in Handle, NEW g \in Handle,
             pc[b] = "get", pc'[b] = "idle", points'[h] # points[h], g # h
      PROVE  points'[g] # points'[h]
  <2>1. Types /\ CountsAreReferences /\ Places /\ Owned
    BY <1>1 DEF IInv
  <2>2. pc \in [BlockPools -> PCs] /\ points \in [Handle -> Counted \cup {NoBlock}]
    BY <2>1 DEF Types
  <2>3. Next
    BY <1>1 DEF vars, threadVars
  <2>4. PICK k \in Handle : TakeFree(b, k)
    <3>1. ASSUME NEW c \in BlockPools, PoolStep(c) PROVE c = b
      BY <1>1, <2>1, <3>1, PoolStepIsOwn DEF OwnThread
    <3>2. ASSUME PoolStep(b), ~ \E k \in Handle : TakeFree(b, k) PROVE FALSE
      BY <1>1, <2>2, <3>2 DEF PoolStep, BeginGet, SkipUsed, Make, NewPool, BeginDelete, LockCan,
                              UnlockCan, Goto, threadVars
    <3>3. CanStep => pc' = pc
      BY DEF CanStep, BeginTry, AddUse, EndTry, threadVars
    <3>. QED  BY <1>1, <2>3, <3>1, <3>2, <3>3, NextCases, OthersLeavePools DEF threadVars
  <2>5. PICK s \in Counted : s = <<Current(b), next_alloc[Current(b)]>>
    BY <2>1, <2>4, TakeCounts
  <2>6. points' = [points EXCEPT ![k] = s] /\ use_cnt[s] = 0
    BY <2>4, <2>5 DEF TakeFree
  <2>7. k = h /\ points'[h] = s /\ points'[g] = points[g]
    BY <1>1, <2>2, <2>6
  <2>8. points[g] # s
    BY <2>1, <2>6, CountsAreRefs
  <2>. QED  BY <2>7, <2>8
<1>2. IInv /\ [Next]_vars =>
        [\A b \in BlockPools, h, g \in Handle :
           (pc[b] = "get" /\ pc'[b] = "idle" /\ points'[h] # points[h] /\ g # h)
             => points'[g] # points'[h]]_vars
  BY <1>1
<1>. QED  BY <1>2, Always, PTL DEF Spec, HandedOutOnce

=============================================================================
