------------------------------ MODULE BlockPool ------------------------------
(***************************************************************************)
(* Reference counted memory: blockpool_type and pool_type                  *)
(* (src/src/blockpool.h, blockpool.cc) and the blocks that they hand out   *)
(* (block.h, block.cc).                                                    *)
(*                                                                         *)
(* A blockpool belongs to one step of a chain, whose thread is the only    *)
(* one to call its get() and that deletes it in the end.  A block wanders  *)
(* through the queues of this and other chains, and is copied and dropped  *)
(* by whatever thread has it: also when its pool is long deleted.  Then    *)
(* the memory is garbage, that the next pool to come or to go looks after. *)
(*                                                                         *)
(* A handle is an object of type block, wherever it is: on a stack, in a   *)
(* queue, in a list.  The counters are atomic; each access is a step.      *)
(*                                                                         *)
(* A block may also manage memory of its own, block(size_t): the readers   *)
(* of multisend.cc fill one, push it, and drop their own object while the  *)
(* thread that popped it drops another.  The counter sits in that memory,  *)
(* and giving up a reference is two steps, DEC(refcountptr) and then the   *)
(* test of *refcountptr, in ~block() and operator=() alike.                *)
(***************************************************************************)
EXTENDS Naturals, Sequences, FiniteSets

CONSTANTS
  Handle,       \* block objects
  BlockPools,   \* blockpool_type objects, each with its thread
  Pool,         \* pool_type objects that may be made: bound
  NBlock,       \* blocks in a pool, nblock_p_pool
  Memory,       \* allocations of blocks that manage their memory: bound
  NoBlock       \* what an empty block refers to

ASSUME BlockPoolAssumption ==
  /\ NBlock \in Nat \ {0}
  /\ NoBlock \notin (Pool \X (1..NBlock)) \cup Memory
  /\ Memory \cap (Pool \X (1..NBlock)) = {}
  /\ IsFiniteSet(Handle)
  /\ "none" \notin BlockPools \cup Pool

VARIABLES
  points,     \* points[h]: what h refers to, of a pool or its own, or NoBlock
  releasing,  \* releasing[h]: the memory whose counter h has yet to look at
  life,       \* life[p]: "new", "live", "dying" in ~pool_type(), "garbage", "freed"
  use_cnt,    \* use_cnt[p][i], and the counters in memory of blocks
  next_alloc, \* next_alloc[p]
  allocated,  \* the memory of blocks that was ever allocated
  nfreed,     \* nfreed[m]: how often free() was called for memory m
  pools, curpool, \* blockpool_type: its pools, and which is the current one
  pc,         \* pc[b]: where the thread of blockpool b is
  oldcurpool, previous_next, \* local variables of the two get()'s
  lock,       \* the holder of garbagecan_lock, or "none"
  can,        \* garbagecan, as the pools that are in it
  todo, cur, seen, usecount, \* the loops of check_garbage() and try_delete()
  dropped     \* dropped[b]: a block of b was given back during its get()

handleVars == <<points, releasing, allocated, nfreed, dropped>>
poolVars == <<life, use_cnt, next_alloc>>
threadVars == <<pools, curpool, pc, oldcurpool, previous_next>>
canVars == <<lock, can, todo, cur, seen, usecount>>
vars == <<handleVars, poolVars, threadVars, canVars>>

Slot == Pool \X (1..NBlock)
Counted == Slot \cup Memory

Init ==
  /\ points = [h \in Handle |-> NoBlock]
  /\ releasing = [h \in Handle |-> NoBlock]
  /\ allocated = {}
  /\ nfreed = [m \in Memory |-> 0]
  /\ dropped = [b \in BlockPools |-> FALSE]
  /\ life = [p \in Pool |-> "new"]
  /\ use_cnt = [s \in Counted |-> 0]
  /\ next_alloc = [p \in Pool |-> 1]
  /\ pools = [b \in BlockPools |-> <<>>]
  /\ curpool = [b \in BlockPools |-> 1]
  /\ pc = [b \in BlockPools |-> "unmade"]
  /\ oldcurpool = [b \in BlockPools |-> 1]
  /\ previous_next = [b \in BlockPools |-> 1]
  /\ lock = "none" /\ can = {}
  /\ todo = {} /\ cur = "none" /\ seen = 0 /\ usecount = 0

Goto(b, where) == pc' = [pc EXCEPT ![b] = where]

\* CIRCNEXT(cur, sz), for indices that count from 1.
CircNext(i, n) == (i % n) + 1

-----------------------------------------------------------------------------
(* Blocks: construction, copy and destruction.  An assignment is the copy of *)
(* the one block and then the destruction of the other.                      *)

IsEmpty(h) == points[h] = NoBlock /\ releasing[h] = NoBlock

\* block(size_t)
Allocate(h, m) ==
  /\ IsEmpty(h) /\ m \notin allocated
  /\ allocated' = allocated \cup {m}
  /\ use_cnt' = [use_cnt EXCEPT ![m] = 1]
  /\ points' = [points EXCEPT ![h] = m]
  /\ UNCHANGED <<releasing, nfreed, dropped, life, next_alloc, threadVars,
                 canVars>>

\* The copy constructor, and sub().
Copy(h, g) ==
  /\ points[h] # NoBlock /\ IsEmpty(g)
  /\ use_cnt' = [use_cnt EXCEPT ![points[h]] = @ + 1]
  /\ points' = [points EXCEPT ![g] = points[h]]
  /\ UNCHANGED <<releasing, allocated, nfreed, dropped, life, next_alloc,
                 threadVars, canVars>>

Drop(h) ==
  /\ points[h] # NoBlock
  /\ use_cnt' = [use_cnt EXCEPT ![points[h]] = @ - 1]
  /\ points' = [points EXCEPT ![h] = NoBlock]
  /\ releasing' = [releasing EXCEPT ![h] = IF points[h] \in Memory THEN points[h] ELSE @]
  /\ dropped' = [b \in BlockPools |->
                   \/ dropped[b]
                   \/ /\ pc[b] \in {"get", "grow"}
                      /\ \E k \in DOMAIN pools[b] : points[h] \in {pools[b][k]} \X (1..NBlock)]
  /\ UNCHANGED <<allocated, nfreed, life, next_alloc, threadVars, canVars>>

\* NothingLeaks: the memory is not given back.
Fault_NeverFree(h) ==
  /\ releasing[h] # NoBlock
  /\ releasing' = [releasing EXCEPT ![h] = NoBlock]
  /\ UNCHANGED <<points, allocated, nfreed, dropped, poolVars, threadVars, canVars>>

\* What is read from memory that is freed already may be anything.
FreeIfUnused(h) ==
  /\ releasing[h] # NoBlock
  /\ LET m == releasing[h]
     IN  \/ /\ use_cnt[m] = 0 \/ nfreed[m] > 0
            /\ nfreed' = [nfreed EXCEPT ![m] = @ + 1]
         \/ /\ use_cnt[m] > 0 \/ nfreed[m] > 0
            /\ UNCHANGED nfreed
  /\ releasing' = [releasing EXCEPT ![h] = NoBlock]
  /\ UNCHANGED <<points, allocated, dropped, poolVars, threadVars, canVars>>

-----------------------------------------------------------------------------
(* blockpool_type::get() and pool_type::get().                              *)

\* The pool that b looks at.
Current(b) == pools[b][curpool[b]]

BeginGet(b) ==
  /\ pc[b] = "idle"
  /\ oldcurpool' = [oldcurpool EXCEPT ![b] = curpool[b]]
  /\ previous_next' = [previous_next EXCEPT ![b] = next_alloc[Current(b)]]
  /\ Goto(b, "get")
  /\ UNCHANGED <<handleVars, poolVars, pools, curpool, canVars>>

\* What get() leaves of its local variables does not matter.
EndGet(b) ==
  /\ Goto(b, "idle")
  /\ oldcurpool' = [oldcurpool EXCEPT ![b] = 1]
  /\ previous_next' = [previous_next EXCEPT ![b] = 1]
  /\ dropped' = [dropped EXCEPT ![b] = FALSE]

\* HandedOutOnce: the counter is set, whatever it was.
Fault_TakeUnchecked(b, h) ==
  LET p == Current(b)
      s == <<p, next_alloc[p]>>
  IN  /\ pc[b] = "get" /\ IsEmpty(h)
      /\ use_cnt' = [use_cnt EXCEPT ![s] = 1]
      /\ points' = [points EXCEPT ![h] = s]
      /\ next_alloc' = [next_alloc EXCEPT ![p] = CircNext(@, NBlock)]
      /\ EndGet(b)
      /\ UNCHANGED <<releasing, allocated, nfreed, life, pools, curpool, canVars>>

\* The counter is 0 and set to 1, in one: the block is for handle h.
TakeFree(b, h) ==
  LET p == Current(b)
      s == <<p, next_alloc[p]>>
  IN  /\ pc[b] = "get" /\ IsEmpty(h)
      /\ use_cnt[s] = 0
      /\ use_cnt' = [use_cnt EXCEPT ![s] = 1]
      /\ points' = [points EXCEPT ![h] = s]
      /\ next_alloc' = [next_alloc EXCEPT ![p] = CircNext(@, NBlock)]
      /\ EndGet(b)
      /\ UNCHANGED <<releasing, allocated, nfreed, life, pools, curpool, canVars>>

\* GrowsOnlyIfFull: after the last pool in the list comes a new one.
Fault_SkipToNew(b) ==
  LET p == Current(b)
      n == CircNext(next_alloc[p], NBlock)
      k == CircNext(curpool[b], Len(pools[b]))
  IN  /\ pc[b] = "get" /\ use_cnt[<<p, next_alloc[p]>>] # 0
      /\ next_alloc' = [next_alloc EXCEPT ![p] = n]
      /\ IF n # previous_next[b]
         THEN UNCHANGED <<curpool, previous_next, pc>>
         ELSE /\ curpool' = [curpool EXCEPT ![b] = k]
              /\ previous_next' = [previous_next EXCEPT ![b] = next_alloc'[pools[b][k]]]
              /\ Goto(b, IF k = 1 THEN "grow" ELSE "get")
      /\ UNCHANGED <<handleVars, life, use_cnt, pools, oldcurpool, canVars>>

\* The next block of this pool, or else the next pool, or else a new one.
SkipUsed(b) ==
  LET p == Current(b)
      n == CircNext(next_alloc[p], NBlock)
      k == CircNext(curpool[b], Len(pools[b]))
  IN  /\ pc[b] = "get" /\ use_cnt[<<p, next_alloc[p]>>] # 0
      /\ next_alloc' = [next_alloc EXCEPT ![p] = n]
      /\ IF n # previous_next[b]
         THEN UNCHANGED <<curpool, previous_next, pc>>
         ELSE /\ curpool' = [curpool EXCEPT ![b] = k]
              /\ previous_next' = [previous_next EXCEPT ![b] = next_alloc'[pools[b][k]]]
              /\ Goto(b, IF k = oldcurpool[b] THEN "grow" ELSE "get")
      /\ UNCHANGED <<handleVars, life, use_cnt, pools, oldcurpool, canVars>>

\* The constructor of a blockpool makes a pool as well.
Make(b) ==
  /\ pc[b] = "unmade"
  /\ Goto(b, "make")
  /\ UNCHANGED <<handleVars, poolVars, pools, curpool, oldcurpool,
                 previous_next, canVars>>

\* pool_type(), after the garbage; in get() its first block is taken at once.
NewPool(b, p) ==
  /\ pc[b] \in {"make clean", "grow clean"} /\ life[p] = "new"
  /\ life' = [life EXCEPT ![p] = "live"]
  /\ pools' = [pools EXCEPT ![b] = Append(@, p)]
  /\ curpool' = [curpool EXCEPT ![b] = Len(pools[b]) + 1]
  /\ oldcurpool' = [oldcurpool EXCEPT ![b] = 1]
  /\ previous_next' = [previous_next EXCEPT ![b] = 1]
  /\ dropped' = [dropped EXCEPT ![b] = FALSE]
  /\ Goto(b, IF pc[b] = "make clean" THEN "idle" ELSE "get")
  /\ UNCHANGED <<points, releasing, allocated, nfreed, use_cnt, next_alloc, canVars>>

-----------------------------------------------------------------------------
(* Garbage: check_garbage() and maybe_add_to_can().                         *)

\* ~blockpool_type() deletes its pools one after another.
BeginDelete(b) ==
  /\ pc[b] = "idle"
  /\ Goto(b, "delete")
  /\ UNCHANGED <<handleVars, poolVars, pools, curpool, oldcurpool,
                 previous_next, canVars>>

Deleting(b) == pc[b] = "delete" /\ pools[b] # <<>>

\* With the lock held, the pools in the can are tried first.
LockCan(b) ==
  /\ lock = "none"
  /\ pc[b] \in {"make", "grow"} \/ Deleting(b)
  /\ lock' = b
  /\ todo' = can
  /\ IF Deleting(b)
     THEN /\ life' = [life EXCEPT ![Head(pools[b])] = "dying"]
          /\ UNCHANGED <<use_cnt, next_alloc>>
     ELSE UNCHANGED poolVars
  /\ UNCHANGED <<handleVars, threadVars, can, cur, seen, usecount>>

\* try_delete(): of any pool in the can, and of the dying one as the last.
BeginTry(p) ==
  /\ lock # "none" /\ cur = "none"
  /\ p \in todo \/ (todo = {} /\ life[p] = "dying")
  /\ cur' = p
  /\ UNCHANGED <<handleVars, poolVars, threadVars, lock, can, todo, seen,
                 usecount>>

\* MemoryOutlivesBlocks: = for +=.
Fault_AddUseLast ==
  /\ cur # "none" /\ seen < NBlock
  /\ seen' = seen + 1
  /\ usecount' = use_cnt[<<cur, seen + 1>>]
  /\ UNCHANGED <<handleVars, poolVars, threadVars, lock, can, todo, cur>>

AddUse ==
  /\ cur # "none" /\ seen < NBlock
  /\ seen' = seen + 1
  /\ usecount' = usecount + use_cnt[<<cur, seen + 1>>]
  /\ UNCHANGED <<handleVars, poolVars, threadVars, lock, can, todo, cur>>

EndTry ==
  /\ cur # "none" /\ seen = NBlock
  /\ life' = [life EXCEPT ![cur] = IF usecount = 0 THEN "freed" ELSE "garbage"]
  /\ can' = IF usecount = 0 THEN can \ {cur} ELSE can \cup {cur}
  /\ todo' = todo \ {cur}
  /\ cur' = "none" /\ seen' = 0 /\ usecount' = 0
  /\ UNCHANGED <<handleVars, use_cnt, next_alloc, threadVars, lock>>

\* All were tried: the lock is given back, and the thread goes on.
UnlockCan(b) ==
  /\ lock = b /\ cur = "none" /\ todo = {}
  /\ \A p \in Pool : life[p] # "dying"
  /\ lock' = "none"
  /\ IF pc[b] = "delete"
     THEN /\ pools' = [pools EXCEPT ![b] = Tail(@)]
          /\ UNCHANGED pc
     ELSE /\ Goto(b, IF pc[b] = "make" THEN "make clean" ELSE "grow clean")
          /\ UNCHANGED pools
  /\ UNCHANGED <<handleVars, poolVars, curpool, oldcurpool, previous_next, can,
                 todo, cur, seen, usecount>>

-----------------------------------------------------------------------------
Next ==
  \/ \E h \in Handle :
       \/ \E m \in Memory : Allocate(h, m)
       \/ \E g \in Handle : Copy(h, g)
       \/ Drop(h) \/ FreeIfUnused(h)
  \/ \E b \in BlockPools :
       \/ BeginGet(b) \/ SkipUsed(b) \/ \E h \in Handle : TakeFree(b, h)
       \/ Make(b) \/ \E p \in Pool : NewPool(b, p)
       \/ BeginDelete(b) \/ LockCan(b) \/ UnlockCan(b)
  \/ \E p \in Pool : BeginTry(p)
  \/ AddUse \/ EndTry

Spec == Init /\ [][Next]_vars

-----------------------------------------------------------------------------
(* Properties.  (An operator Fault_... above is a slip that this code could *)
(* have had, and that the property named with it notices.)                  *)

TypeOK ==
  /\ points \in [Handle -> Counted \cup {NoBlock}]
  /\ releasing \in [Handle -> Memory \cup {NoBlock}]
  /\ allocated \subseteq Memory /\ nfreed \in [Memory -> Nat]
  /\ life \in [Pool -> {"new", "live", "dying", "garbage", "freed"}]
  /\ use_cnt \in [Counted -> Nat]
  /\ next_alloc \in [Pool -> 1..NBlock]
  /\ can \subseteq Pool /\ todo \subseteq can
  /\ cur \in Pool \cup {"none"} /\ seen \in 0..NBlock /\ usecount \in Nat

\* A counter is the number of block objects that refer to the block, whatever
\* the threads do with them: the free ones have 0.
CountsAreReferences ==
  \A s \in Counted : use_cnt[s] = Cardinality({h \in Handle : points[h] = s})

\* Memory is there as long as a block refers to it: that of a pool outlives the
\* pool, although try_delete() reads the counters one by one while other threads
\* copy and drop blocks; and no block object frees what another refers to.
MemoryOutlivesBlocks ==
  \A h \in Handle :
    /\ points[h] \in Slot => life[points[h][1]] # "freed"
    /\ points[h] \in Memory => nfreed[points[h]] = 0

\* "If refcount drops to zero the mem is returned to the O/S": when the last
\* block object is gone the memory is freed, by one of those that were dropped.
NothingLeaks ==
  \A m \in allocated :
    (\A h \in Handle : points[h] # m /\ releasing[h] # m) => nfreed[m] > 0

\* ... and it is returned once: there is but one reference that makes the
\* counter drop to zero.
FreedOnce == \A m \in Memory : nfreed[m] <= 1

\* Who gets a block from get() is the only one to have it.
HandedOutOnce ==
  [][\A b \in BlockPools, h, g \in Handle :
       (pc[b] = "get" /\ pc'[b] = "idle" /\ points'[h] # points[h] /\ g # h)
         => points'[g] # points'[h]]_vars

\* get() adds a pool only if all blocks of all pools are in use: it looks at
\* each of them, wherever it begins (and blocks may come free behind its back).
GrowsOnlyIfFull ==
  \A b \in BlockPools : (pc[b] = "grow" /\ ~dropped[b]) =>
    \A k \in DOMAIN pools[b] : \A i \in 1..NBlock : use_cnt[<<pools[b][k], i>>] > 0

==============================================================================
