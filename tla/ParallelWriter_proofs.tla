----------------------- MODULE ParallelWriter_proofs -----------------------
(***************************************************************************)
(* Proofs about ParallelWriter, for every number of writers, of mountpoints *)
(* and of chunks.                                                          *)
(***************************************************************************)
EXTENDS ParallelWriter, FiniteSetTheorems, SequenceTheorems, TLAPS

-----------------------------------------------------------------------------
(* The invariant.                                                          *)

Looking == {"take", "wait", "woken"}
Using == {"inspect", "write"}
Ended == {"quit", "gone"}

\* Who has a mountpoint, and who a chunk.
HandsOf(w) ==
  /\ pc[w] \in Looking \cup {"pop"} => mountpoint[w] = NoMountpoint
  /\ pc[w] \in Using => mountpoint[w] \in Mountpoint
  /\ pc[w] \in Looking \cup Using => chunk[w] # 0
  /\ pc[w] \in Ended \cup {"pop"} => chunk[w] = 0
Hands == \A w \in Writer : HandsOf(w)

\* The mountpoints that a writer can get, or has: none of them is one that it
\* tried for its chunk, but for the one that it is trying.
InReach == Listed \cup {mountpoint[v] : v \in Holders}
UntriedBy(w) ==
  /\ pc[w] \in Looking \cup {"inspect"} => mp_seen[w] \cap InReach = {}
  /\ pc[w] = "write" => mp_seen[w] \cap InReach \subseteq {mountpoint[w]}
Untried == \A w \in Writer : UntriedBy(w)

\* Nobody waits when there is nothing to wait for, because whoever marks the last
\* mountpoint bad wakes all.
WaitsForSome == Waiting # {} => listlength > 0

IInv ==
  /\ TypeOK
  /\ Hands
  /\ MountpointsAreExclusive
  /\ ListIsAccounted
  /\ Untried
  /\ WaitsForSome
  /\ NobodyWaitsInVain

-----------------------------------------------------------------------------
(* Lists of mountpoints.                                                   *)

Members(s) == {s[i] : i \in DOMAIN s}
Distinct(s) == \A i, j \in DOMAIN s : s[i] = s[j] => i = j

\* Taking the first of a list of distinct mountpoints.
LEMMA TailMembers ==
  ASSUME NEW s \in Seq(Mountpoint), s # <<>>
  PROVE  /\ Head(s) \in Mountpoint /\ Head(s) \in Members(s)
         /\ Tail(s) \in Seq(Mountpoint)
         /\ Len(Tail(s)) = Len(s) - 1 /\ Len(s) \in Nat
         /\ Members(Tail(s)) \subseteq Members(s)
         /\ Distinct(s) => Distinct(Tail(s)) /\ Head(s) \notin Members(Tail(s))
<1>1. /\ Len(s) \in Nat \ {0} /\ DOMAIN s = 1..Len(s)
      /\ Tail(s) \in Seq(Mountpoint) /\ Len(Tail(s)) = Len(s) - 1
      /\ DOMAIN Tail(s) = 1..(Len(s) - 1)
      /\ \A i \in 1..(Len(s) - 1) : Tail(s)[i] = s[i + 1]
  BY EmptySeq, HeadTailProperties, LenProperties
<1>2. Head(s) = s[1] /\ 1 \in DOMAIN s /\ Head(s) \in Mountpoint
  BY <1>1, HeadTailProperties
<1>3. Members(Tail(s)) \subseteq Members(s)
  <2> SUFFICES ASSUME NEW i \in DOMAIN Tail(s) PROVE Tail(s)[i] \in Members(s)
    BY DEF Members
  <2>1. i + 1 \in DOMAIN s /\ Tail(s)[i] = s[i + 1]
    BY <1>1
  <2> QED BY <2>1 DEF Members
<1>4. ASSUME Distinct(s) PROVE Distinct(Tail(s))
  <2> SUFFICES ASSUME NEW i \in DOMAIN Tail(s), NEW j \in DOMAIN Tail(s),
                      Tail(s)[i] = Tail(s)[j]
               PROVE  i = j
    BY DEF Distinct
  <2>1. /\ i + 1 \in DOMAIN s /\ j + 1 \in DOMAIN s /\ s[i + 1] = s[j + 1]
        /\ i \in Nat /\ j \in Nat
    BY <1>1
  <2>2. i + 1 = j + 1
    BY <1>4, <2>1 DEF Distinct
  <2> QED BY <2>1, <2>2
<1>5. ASSUME Distinct(s) PROVE Head(s) \notin Members(Tail(s))
  <2> SUFFICES ASSUME NEW i \in DOMAIN Tail(s), Tail(s)[i] = Head(s) PROVE FALSE
    BY DEF Members
  <2>1. i + 1 \in DOMAIN s /\ s[i + 1] = s[1] /\ i \in Nat /\ i # 0
    BY <1>1, <1>2
  <2>2. i + 1 = 1
    BY <1>2, <1>5, <2>1 DEF Distinct
  <2> QED BY <2>1, <2>2
<1> QED BY <1>1, <1>2, <1>3, <1>4, <1>5 DEF Members

\* Putting one back that is not in the list.
LEMMA AppendMembers ==
  ASSUME NEW s \in Seq(Mountpoint), NEW m \in Mountpoint
  PROVE  /\ Append(s, m) \in Seq(Mountpoint)
         /\ Len(Append(s, m)) = Len(s) + 1 /\ Len(s) \in Nat
         /\ Members(Append(s, m)) = Members(s) \cup {m}
         /\ Distinct(s) /\ m \notin Members(s) => Distinct(Append(s, m))
<1>1. /\ Len(s) \in Nat /\ DOMAIN s = 1..Len(s)
      /\ Append(s, m) \in Seq(Mountpoint) /\ Len(Append(s, m)) = Len(s) + 1
      /\ DOMAIN Append(s, m) = 1..(Len(s) + 1)
      /\ \A i \in 1..Len(s) : Append(s, m)[i] = s[i]
      /\ Append(s, m)[Len(s) + 1] = m
  BY LenProperties, AppendProperties
<1>2. 1..(Len(s) + 1) = (1..Len(s)) \cup {Len(s) + 1}
  BY <1>1
<1>3. Members(Append(s, m)) = Members(s) \cup {m}
  BY <1>1, <1>2 DEF Members
<1>4. ASSUME Distinct(s), m \notin Members(s) PROVE Distinct(Append(s, m))
  <2> SUFFICES ASSUME NEW i \in DOMAIN Append(s, m), NEW j \in DOMAIN Append(s, m),
                      Append(s, m)[i] = Append(s, m)[j]
               PROVE  i = j
    BY DEF Distinct
  <2>1. \A k \in DOMAIN s : s[k] # m
    BY <1>4 DEF Members
  <2> QED BY <1>1, <1>2, <1>4, <2>1 DEF Distinct
<1> QED BY <1>1, <1>3, <1>4

-----------------------------------------------------------------------------
(* Where the writers are after a step of w.                                *)

\* w goes on, and the others stay where they are or are woken.
Moves(w, where) ==
  /\ pc' \in [Writer -> PCs] /\ pc'[w] = where
  /\ \A v \in Writer \ {w} : pc'[v] = pc[v] \/ (pc[v] = "wait" /\ pc'[v] = "woken")

LEMMA GotoMoves ==
  ASSUME pc \in [Writer -> PCs], NEW w \in Writer, NEW where \in PCs, Goto(w, where)
  PROVE  /\ Moves(w, where)
         /\ \A v \in Writer \ {w} : pc'[v] = pc[v]
BY DEF Goto, Moves

\* cond_signal() wakes one of the others, if any of them waits.
LEMMA SignalMoves ==
  ASSUME pc \in [Writer -> PCs], NEW w \in Writer, NEW where \in PCs,
         pc[w] # "wait", Signal(w, where)
  PROVE  /\ Moves(w, where)
         /\ Waiting # {} => \E v \in Writer \ {w} : pc'[v] = "woken"
<1>1. CASE Waiting = {} /\ Goto(w, where)
  BY <1>1, GotoMoves
<1>2. CASE \E v \in Waiting : pc' = [pc EXCEPT ![w] = where, ![v] = "woken"]
  <2>1. PICK v \in Waiting : pc' = [pc EXCEPT ![w] = where, ![v] = "woken"]
    BY <1>2
  <2>2. v \in Writer \ {w} /\ pc[v] = "wait" /\ "woken" \in PCs
    BY DEF Waiting, PCs
  <2>3. /\ pc' \in [Writer -> PCs] /\ pc'[w] = where /\ pc'[v] = "woken"
        /\ \A u \in Writer \ {w, v} : pc'[u] = pc[u]
    BY <2>1, <2>2
  <2> QED BY <2>2, <2>3 DEF Moves
<1> QED BY <1>1, <1>2 DEF Signal

\* cond_broadcast() leaves none of them waiting.
LEMMA BroadcastMoves ==
  ASSUME pc \in [Writer -> PCs], NEW w \in Writer, NEW where \in PCs,
         Broadcast(w, where)
  PROVE  /\ Moves(w, where)
         /\ \A v \in Writer \ {w} : pc'[v] # "wait"
<1>1. "woken" \in PCs
  BY DEF PCs
<1>2. pc' \in [Writer -> PCs]
  BY <1>1 DEF Broadcast
<1> QED BY <1>2 DEF Broadcast, Moves

\* The sets of writers that the invariant speaks of.
LEMMA MovesSets ==
  ASSUME NEW w \in Writer, NEW where, Moves(w, where)
  PROVE  /\ where \in Using => Holders' = Holders \cup {w}
         /\ where \notin Using => Holders' = Holders \ {w}
         /\ where # "wait" => Waiting' \subseteq Waiting
<1>1. \A v \in Writer \ {w} : (pc'[v] \in Using <=> pc[v] \in Using)
                              /\ (pc'[v] = "wait" => pc[v] = "wait")
  BY DEF Moves, Using
<1> QED BY <1>1 DEF Moves, Using, Holders, Waiting

LEMMA MovesLost ==
  ASSUME NEW w \in Writer, NEW where, Moves(w, where),
         \A v \in Writer \ {w} : mountpoint'[v] = mountpoint[v]
  PROVE  /\ where \notin Ended \/ mountpoint'[w] = NoMountpoint => Lost' = Lost \ {w}
         /\ where \in Ended /\ mountpoint'[w] # NoMountpoint => Lost' = Lost \cup {w}
<1>1. \A v \in Writer \ {w} : pc'[v] \in Ended <=> pc[v] \in Ended
  BY DEF Moves, Ended
<1> QED BY <1>1 DEF Moves, Ended, Lost

LEMMA SetsAreFinite ==
  IsFiniteSet(Holders) /\ IsFiniteSet(Lost) /\
  Cardinality(Holders) \in Nat /\ Cardinality(Lost) \in Nat
<1>1. Holders \in SUBSET Writer /\ Lost \in SUBSET Writer
  BY DEF Holders, Lost
<1> QED BY <1>1, ParallelWriterAssumption, FS_Subset, FS_CardinalityType

LEMMA SizeAdd ==
  ASSUME NEW S, IsFiniteSet(S), NEW x, x \notin S
  PROVE  Cardinality(S \cup {x}) = Cardinality(S) + 1
BY FS_AddElement

LEMMA SizeRemove ==
  ASSUME NEW S, IsFiniteSet(S), NEW x \in S
  PROVE  /\ Cardinality(S \ {x}) = Cardinality(S) - 1
         /\ Cardinality(S) \in Nat \ {0}
<1>1. Cardinality(S) \in Nat /\ Cardinality(S \ {x}) \in Nat
  BY FS_RemoveElement, FS_CardinalityType
<1>2. Cardinality(S) # 0
  BY FS_EmptySet
<1> QED
  BY <1>1, <1>2, FS_RemoveElement

-----------------------------------------------------------------------------
(* The queue.                                                              *)

LEMMA QueueTypes ==
  ASSUME inq \in Queues(Chunk, {QueueDepth})
  PROVE  /\ \A n \in Chunk : Pushed(inq, n) \in Queues(Chunk, {QueueDepth})
         /\ Popped(inq) \in Queues(Chunk, {QueueDepth})
         /\ Disabled(inq) \in Queues(Chunk, {QueueDepth})
         /\ DelayedDisabled(inq) \in Queues(Chunk, {QueueDepth})
         /\ Takes(inq) => Head(inq.items) \in Chunk
<1>1. /\ inq.items \in Seq(Chunk) /\ inq.capacity \in {QueueDepth}
      /\ inq.enable_push \in BOOLEAN /\ inq.enable_pop \in BOOLEAN
  BY DEF Queues
<1>2. /\ \A n \in Chunk : Append(inq.items, n) \in Seq(Chunk)
      /\ <<>> \in Seq(Chunk)
      /\ inq.items # <<>> => Head(inq.items) \in Chunk /\ Tail(inq.items) \in Seq(Chunk)
  BY <1>1
<1>3. \A n \in Chunk : Pushed(inq, n) \in Queues(Chunk, {QueueDepth})
  BY <1>1, <1>2 DEF Pushed, Queue, Queues
<1>4. Disabled(inq) \in Queues(Chunk, {QueueDepth})
  BY <1>1, <1>2 DEF Disabled, Queue, Queues
<1>5. DelayedDisabled(inq) \in Queues(Chunk, {QueueDepth})
  BY <1>1, <1>2 DEF DelayedDisabled, Queue, Queues
<1>6. Popped(inq) \in Queues(Chunk, {QueueDepth})
  <2> DEFINE rest == IF Takes(inq) THEN Tail(inq.items) ELSE inq.items
  <2>1. rest \in Seq(Chunk)
    BY <1>1, <1>2 DEF Takes
  <2> HIDE DEF rest
  <2>2. Popped(inq) = Queue(rest, inq.capacity, inq.enable_push,
                            inq.enable_pop /\ (inq.enable_push \/ rest # <<>>))
    BY DEF Popped, rest
  <2> QED BY <1>1, <2>1, <2>2 DEF Queue, Queues
<1> QED BY <1>2, <1>3, <1>4, <1>5, <1>6 DEF Takes

-----------------------------------------------------------------------------
(* What a step of w leaves to the others, and to all if it does not touch the *)
(* mountpoints.                                                               *)

LEMMA OthersKept ==
  ASSUME IInv, NEW w \in Writer, NEW where, Moves(w, where),
         \A v \in Writer \ {w} : /\ chunk'[v] = chunk[v]
                                 /\ mountpoint'[v] = mountpoint[v]
                                 /\ mp_seen'[v] = mp_seen[v],
         InReach' \subseteq InReach
  PROVE  \A v \in Writer \ {w} : HandsOf(v)' /\ UntriedBy(v)'
<1> SUFFICES ASSUME NEW v \in Writer \ {w} PROVE HandsOf(v)' /\ UntriedBy(v)'
  OBVIOUS
<1>1. HandsOf(v) /\ UntriedBy(v)
  BY DEF IInv, Hands, Untried
<1>2. pc'[v] = pc[v] \/ (pc[v] = "wait" /\ pc'[v] = "woken")
  BY DEF Moves
<1>3. HandsOf(v)'
  BY <1>1, <1>2 DEF HandsOf, Looking, Using, Ended
<1>4. UntriedBy(v)'
  BY <1>1, <1>2 DEF UntriedBy, Looking
<1> QED BY <1>3, <1>4

LEMMA ListKept ==
  ASSUME IInv, UNCHANGED <<listlength, filelist>>, Holders' = Holders, Lost' = Lost,
         \A v \in Holders : mountpoint'[v] = mountpoint[v]
  PROVE  /\ MountpointsAreExclusive'
         /\ ListIsAccounted'
         /\ InReach' = InReach
<1>1. Listed' = Listed
  BY DEF Listed
<1>2. InReach' = InReach
  BY <1>1 DEF InReach
<1>3. MountpointsAreExclusive'
  BY <1>1 DEF IInv, MountpointsAreExclusive
<1>4. ListIsAccounted'
  BY DEF IInv, ListIsAccounted
<1> QED BY <1>2, <1>3, <1>4

\* Nobody is left waiting by a writer that neither held a mountpoint nor was
\* woken to fetch one, and does not begin to wait.
LEMMA WaitersKept ==
  ASSUME IInv, NEW w \in Writer, NEW where, Moves(w, where), where # "wait",
         pc[w] \notin Using \cup {"woken"},
         Lost' = {} => Lost = {}, listlength' = listlength
  PROVE  WaitsForSome' /\ NobodyWaitsInVain'
<1>1. Waiting' \subseteq Waiting
  BY MovesSets
<1>2. WaitsForSome'
  BY <1>1 DEF IInv, WaitsForSome
<1>3. ASSUME Waiting' # {}, Lost' = {}
      PROVE  \E v \in Writer : v \in Holders' \/ pc'[v] = "woken"
  <2>1. PICK v \in Writer : v \in Holders \/ pc[v] = "woken"
    BY <1>1, <1>3 DEF IInv, NobodyWaitsInVain
  <2>2. v # w
    BY <2>1 DEF Holders, Using
  <2>3. pc'[v] = pc[v]
    BY <2>1, <2>2 DEF Moves, Holders
  <2> QED BY <2>1, <2>3 DEF Holders
<1> QED BY <1>2, <1>3 DEF NobodyWaitsInVain

-----------------------------------------------------------------------------
(* Each action keeps the invariant.                                        *)

LEMMA InitIInv == Init => IInv
<1> SUFFICES ASSUME Init PROVE IInv
  OBVIOUS
<1>0. /\ Cardinality(Mountpoint) \in Nat
      /\ filelist \in [1..Cardinality(Mountpoint) -> Mountpoint]
      /\ NChunks \in Nat /\ QueueDepth \in Nat
  BY ParallelWriterAssumption, FS_CardinalityType DEF Init
<1>1. filelist \in Seq(Mountpoint) /\ Len(filelist) = Cardinality(Mountpoint)
  BY <1>0
<1>2. Holders = {} /\ Lost = {} /\ Waiting = {}
  BY DEF Init, Holders, Lost, Waiting
<1>3. TypeOK
  <2>1. inq \in Queues(Chunk, {QueueDepth})
    BY DEF Init, QueueOf, Queue, Queues
  <2>2. pc \in [Writer -> PCs]
    BY DEF Init, PCs
  <2>3. /\ chunk \in [Writer -> 0..NChunks]
        /\ seenlength \in [Writer -> Nat]
        /\ produced \in 0..NChunks
    BY <1>0 DEF Init
  <2>4. /\ mountpoint \in [Writer -> Mountpoint \cup {NoMountpoint}]
        /\ mp_seen \in [Writer -> SUBSET Mountpoint]
    BY DEF Init
  <2> QED BY <1>0, <1>1, <2>1, <2>2, <2>3, <2>4 DEF Init, TypeOK
<1>4. Hands
  BY DEF Init, Hands, HandsOf, Looking, Using, Ended
<1>5. MountpointsAreExclusive
  BY <1>2 DEF Init, MountpointsAreExclusive
<1>6. ListIsAccounted
  BY <1>0, <1>1, <1>2, FS_EmptySet DEF Init, ListIsAccounted
<1>7. Untried
  BY DEF Init, Untried, UntriedBy
<1> QED
  BY <1>2, <1>3, <1>4, <1>5, <1>6, <1>7
     DEF Init, IInv, WaitsForSome, NobodyWaitsInVain

\* What happens to the queue is nothing to the writers.
LEMMA QueueKeeps ==
  ASSUME IInv, UNCHANGED <<listVars, pc, localVars, diskVars>>,
         inq' \in Queues(Chunk, {QueueDepth}), produced' \in 0..NChunks
  PROVE  IInv'
<1>1. Holders' = Holders /\ Lost' = Lost /\ Waiting' = Waiting /\ Listed' = Listed
      /\ InReach' = InReach
  BY DEF Holders, Lost, Waiting, Listed, InReach, listVars, localVars
<1>2. TypeOK'
  BY DEF IInv, TypeOK, listVars, localVars, diskVars
<1>3. Hands'
  BY DEF IInv, Hands, HandsOf, localVars
<1>4. MountpointsAreExclusive' /\ ListIsAccounted'
  BY <1>1 DEF IInv, MountpointsAreExclusive, ListIsAccounted, listVars, localVars
<1>5. Untried'
  BY <1>1 DEF IInv, Untried, UntriedBy, localVars
<1>6. WaitsForSome' /\ NobodyWaitsInVain'
  BY <1>1 DEF IInv, WaitsForSome, NobodyWaitsInVain, listVars, diskVars
<1> QED BY <1>2, <1>3, <1>4, <1>5, <1>6 DEF IInv

LEMMA PopChunkKeeps ==
  ASSUME IInv, NEW w \in Writer, PopChunk(w)
  PROVE  IInv'
<1>0. TypeOK /\ HandsOf(w) /\ pc[w] = "pop" /\ mountpoint[w] = NoMountpoint
  BY DEF IInv, Hands, HandsOf, PopChunk
<1> DEFINE where == IF Takes(inq) THEN "take" ELSE "quit"
<1>1. Moves(w, where) /\ where \notin Using /\ where # "wait"
  <2>1. Goto(w, where) /\ where \in PCs
    BY DEF PopChunk, PCs
  <2> QED BY <1>0, <2>1, GotoMoves DEF TypeOK, Using
<1> HIDE DEF where
<1>2. Holders' = Holders /\ Lost' = Lost
  <2>1. w \notin Holders /\ w \notin Lost
    BY <1>0 DEF Holders, Lost
  <2> QED BY <1>0, <1>1, <2>1, MovesSets, MovesLost DEF PopChunk
<1>3. MountpointsAreExclusive' /\ ListIsAccounted' /\ InReach' = InReach
  BY <1>2, ListKept DEF PopChunk, listVars
<1>4. WaitsForSome' /\ NobodyWaitsInVain'
  BY <1>0, <1>1, <1>2, WaitersKept DEF PopChunk, listVars, Using
<1>5. /\ inq' \in Queues(Chunk, {QueueDepth})
      /\ Takes(inq) => Head(inq.items) \in Chunk
  BY <1>0, QueueTypes DEF TypeOK, PopChunk
<1>6. /\ chunk' \in [Writer -> 0..NChunks]
      /\ mp_seen' \in [Writer -> SUBSET Mountpoint]
      /\ \A v \in Writer \ {w} : chunk'[v] = chunk[v] /\ mp_seen'[v] = mp_seen[v]
      /\ Takes(inq) => chunk'[w] # 0 /\ mp_seen'[w] = {}
      /\ ~Takes(inq) => chunk'[w] = 0
  <2>1. /\ chunk \in [Writer -> 0..NChunks] /\ mp_seen \in [Writer -> SUBSET Mountpoint]
        /\ pc[w] = "pop" => chunk[w] = 0
    BY <1>0 DEF TypeOK, HandsOf
  <2>2. CASE Takes(inq)
    <3>1. /\ chunk' = [chunk EXCEPT ![w] = Head(inq.items)]
          /\ mp_seen' = [mp_seen EXCEPT ![w] = {}]
      BY <2>2 DEF PopChunk
    <3>2. Head(inq.items) \in 0..NChunks /\ Head(inq.items) # 0
      BY <1>5, <2>2, ParallelWriterAssumption DEF Chunk
    <3> QED BY <2>1, <2>2, <3>1, <3>2
  <2>3. CASE ~Takes(inq)
    BY <1>0, <2>1, <2>3 DEF PopChunk
  <2> QED BY <2>2, <2>3
<1>7. TypeOK'
  BY <1>0, <1>1, <1>5, <1>6 DEF PopChunk, TypeOK, Moves, listVars, diskVars
<1>8. HandsOf(w)' /\ UntriedBy(w)'
  BY <1>0, <1>1, <1>6 DEF HandsOf, UntriedBy, Moves, where, PopChunk, Looking, Using, Ended
<1>9. Hands' /\ Untried'
  <2>1. \A v \in Writer \ {w} : HandsOf(v)' /\ UntriedBy(v)'
    BY <1>1, <1>3, <1>6, OthersKept DEF PopChunk
  <2> QED BY <1>8, <2>1 DEF Hands, Untried
<1> QED BY <1>3, <1>4, <1>7, <1>9 DEF IInv

\* A step of w that changes where it is and nothing that the others see.
LEMMA PlainKeeps ==
  ASSUME IInv, NEW w \in Writer, NEW where \in PCs, Moves(w, where),
         UNCHANGED <<listVars, produced, mountpoint, seenlength, stored, written>>,
         inq' \in Queues(Chunk, {QueueDepth}), unwritten' \subseteq Chunk,
         chunk' \in [Writer -> 0..NChunks],
         mp_seen' \in [Writer -> SUBSET Mountpoint],
         \A v \in Writer \ {w} : chunk'[v] = chunk[v] /\ mp_seen'[v] = mp_seen[v],
         Holders' = Holders, Lost' = Lost,
         WaitsForSome', NobodyWaitsInVain', HandsOf(w)',
         InReach' = InReach => UntriedBy(w)'
  PROVE  IInv'
<1>1. MountpointsAreExclusive' /\ ListIsAccounted' /\ InReach' = InReach
  BY ListKept DEF listVars
<1>2. TypeOK'
  BY DEF IInv, TypeOK, Moves, listVars
<1>3. Hands' /\ Untried'
  <2>1. \A v \in Writer \ {w} : HandsOf(v)' /\ UntriedBy(v)'
    BY <1>1, OthersKept
  <2> QED BY <1>1, <2>1 DEF Hands, Untried
<1> QED BY <1>1, <1>2, <1>3 DEF IInv

LEMMA WaitKeeps ==
  ASSUME IInv, NEW w \in Writer, WaitForMountpoint(w)
  PROVE  IInv'
<1>0. /\ TypeOK /\ HandsOf(w) /\ UntriedBy(w) /\ pc[w] \in {"take", "woken"}
      /\ UNCHANGED <<listVars, queueVars, localVars, diskVars>>
      /\ listlength > 0 /\ filelist = <<>> /\ Goto(w, "wait") /\ "wait" \in PCs
  BY DEF IInv, Hands, Untried, WaitForMountpoint, PCs
<1>1. Moves(w, "wait") /\ \A v \in Writer \ {w} : pc'[v] = pc[v]
  BY <1>0, GotoMoves DEF TypeOK
<1>2. Holders' = Holders /\ Lost' = Lost
  <2>1. w \notin Holders /\ w \notin Lost
    BY <1>0 DEF Holders, Lost
  <2>2. Holders' = Holders \ {w}
    BY <1>1, MovesSets DEF Using
  <2>3. Lost' = Lost \ {w}
    BY <1>0, <1>1, MovesLost DEF Ended, localVars
  <2> QED BY <2>1, <2>2, <2>3
<1>3. WaitsForSome'
  BY <1>0 DEF WaitsForSome, listVars
\* The mountpoints that could be in the list are in somebody's hands.
<1>4. NobodyWaitsInVain'
  <2> SUFFICES ASSUME Lost' = {} PROVE Holders' # {} /\ Holders' \subseteq Writer
    BY DEF NobodyWaitsInVain
  <2>1. Cardinality(Lost) = 0 /\ Len(filelist) = 0
    BY <1>0, <1>2, FS_EmptySet
  <2>2. listlength = Cardinality(Holders)
    BY <2>1, SetsAreFinite DEF IInv, ListIsAccounted
  <2>3. Cardinality(Holders) # 0
    BY <1>0, <2>2
  <2>4. Holders # {}
    BY <2>3, FS_EmptySet
  <2> QED BY <1>2, <2>4 DEF Holders
<1>5. HandsOf(w)' /\ (InReach' = InReach => UntriedBy(w)')
  BY <1>0, <1>1 DEF HandsOf, UntriedBy, Moves, localVars, Looking, Using, Ended
<1> QED
  BY <1>0, <1>1, <1>2, <1>3, <1>4, <1>5, PlainKeeps
     DEF TypeOK, queueVars, localVars, diskVars

LEMMA SpuriousKeeps ==
  ASSUME IInv, NEW w \in Writer, SpuriousWakeup(w)
  PROVE  IInv'
<1>0. /\ TypeOK /\ HandsOf(w) /\ UntriedBy(w) /\ pc[w] = "wait"
      /\ UNCHANGED <<listVars, queueVars, localVars, diskVars>>
      /\ Goto(w, "woken") /\ "woken" \in PCs
  BY DEF IInv, Hands, Untried, SpuriousWakeup, PCs
<1>1. Moves(w, "woken")
  BY <1>0, GotoMoves DEF TypeOK
<1>2. Holders' = Holders /\ Lost' = Lost /\ Waiting' \subseteq Waiting
  <2>1. w \notin Holders /\ w \notin Lost
    BY <1>0 DEF Holders, Lost
  <2>2. Holders' = Holders \ {w} /\ Waiting' \subseteq Waiting
    BY <1>1, MovesSets DEF Using
  <2>3. Lost' = Lost \ {w}
    BY <1>0, <1>1, MovesLost DEF Ended, localVars
  <2> QED BY <2>1, <2>2, <2>3
<1>3. WaitsForSome' /\ NobodyWaitsInVain'
  BY <1>0, <1>1, <1>2 DEF IInv, WaitsForSome, NobodyWaitsInVain, Moves, listVars
<1>4. HandsOf(w)' /\ (InReach' = InReach => UntriedBy(w)')
  BY <1>0, <1>1 DEF HandsOf, UntriedBy, Moves, localVars, Looking, Using, Ended
<1> QED
  BY <1>0, <1>1, <1>2, <1>3, <1>4, PlainKeeps
     DEF TypeOK, queueVars, localVars, diskVars

LEMMA GiveUpKeeps ==
  ASSUME IInv, NEW w \in Writer, GiveUp(w)
  PROVE  IInv'
<1>0. /\ TypeOK /\ HandsOf(w) /\ UntriedBy(w) /\ pc[w] \in {"take", "woken"}
      /\ UNCHANGED <<listVars, queueVars, mountpoint, mp_seen, seenlength, stored,
                     written>>
      /\ listlength = 0 /\ filelist = <<>> /\ Goto(w, "quit") /\ "quit" \in PCs
      /\ unwritten' = unwritten \cup {chunk[w]}
      /\ chunk' = [chunk EXCEPT ![w] = 0]
  BY DEF IInv, Hands, Untried, GiveUp, PCs
<1>1. Moves(w, "quit")
  BY <1>0, GotoMoves DEF TypeOK
<1>2. Holders' = Holders /\ Lost' = Lost /\ Waiting' \subseteq Waiting
  <2>1. w \notin Holders /\ w \notin Lost /\ mountpoint'[w] = NoMountpoint
    BY <1>0 DEF Holders, Lost, HandsOf, Looking
  <2>2. Holders' = Holders \ {w} /\ Waiting' \subseteq Waiting
    BY <1>1, MovesSets DEF Using
  <2>3. Lost' = Lost \ {w}
    BY <1>0, <1>1, <2>1, MovesLost
  <2> QED BY <2>1, <2>2, <2>3
\* Nobody waits any more.
<1>3. WaitsForSome' /\ NobodyWaitsInVain'
  <2>1. Waiting = {}
    BY <1>0 DEF IInv, WaitsForSome
  <2> QED BY <1>2, <2>1 DEF WaitsForSome, NobodyWaitsInVain
<1>4. /\ chunk' \in [Writer -> 0..NChunks] /\ unwritten' \subseteq Chunk
      /\ chunk'[w] = 0 /\ \A v \in Writer \ {w} : chunk'[v] = chunk[v]
  <2>1. /\ chunk \in [Writer -> 0..NChunks] /\ unwritten \subseteq Chunk
        /\ chunk[w] # 0 /\ NChunks \in Nat
    BY <1>0, ParallelWriterAssumption DEF TypeOK, HandsOf, Looking
  <2>2. chunk[w] \in Chunk
    BY <2>1 DEF Chunk
  <2> QED BY <1>0, <2>1, <2>2
<1>5. HandsOf(w)' /\ UntriedBy(w)'
  BY <1>1, <1>4 DEF HandsOf, UntriedBy, Moves, Looking, Using, Ended
<1> QED
  BY <1>0, <1>1, <1>2, <1>3, <1>4, <1>5, PlainKeeps DEF TypeOK, queueVars

LEMMA QuitKeeps ==
  ASSUME IInv, NEW w \in Writer, Quit(w)
  PROVE  IInv'
<1>0. /\ TypeOK /\ HandsOf(w) /\ pc[w] = "quit"
      /\ UNCHANGED <<produced, listVars, localVars, diskVars>>
      /\ Goto(w, "gone") /\ "gone" \in PCs
  BY DEF IInv, Hands, Quit, PCs
<1>1. Moves(w, "gone")
  BY <1>0, GotoMoves DEF TypeOK
<1>2. Holders' = Holders /\ Lost' = Lost
  <2>1. w \notin Holders
    BY <1>0 DEF Holders
  <2>2. Holders' = Holders \ {w}
    BY <1>1, MovesSets DEF Using
  <2>3. Lost' = Lost
    BY <1>0, <1>1, MovesLost DEF Ended, localVars, Lost
  <2> QED BY <2>1, <2>2, <2>3
<1>3. WaitsForSome' /\ NobodyWaitsInVain'
  BY <1>0, <1>1, <1>2, WaitersKept DEF Using, listVars
<1>4. inq' \in Queues(Chunk, {QueueDepth})
  BY <1>0, QueueTypes DEF TypeOK, Quit
<1>5. HandsOf(w)' /\ UntriedBy(w)'
  BY <1>0, <1>1 DEF HandsOf, UntriedBy, Moves, localVars, Looking, Using, Ended
<1> QED
  BY <1>0, <1>1, <1>2, <1>3, <1>4, <1>5, PlainKeeps DEF TypeOK, localVars, diskVars

LEMMA TakeKeeps ==
  ASSUME IInv, NEW w \in Writer, TakeMountpoint(w)
  PROVE  IInv'
<1>0. /\ TypeOK /\ HandsOf(w) /\ UntriedBy(w) /\ pc[w] \in {"take", "woken"}
      /\ UNCHANGED <<mk6, listlength, fdmap, queueVars, chunk, mp_seen, diskVars>>
      /\ filelist # <<>> /\ filelist' = Tail(filelist)
      /\ mountpoint' = [mountpoint EXCEPT ![w] = Head(filelist)]
      /\ seenlength' = [seenlength EXCEPT ![w] = listlength]
      /\ Goto(w, "inspect") /\ "inspect" \in PCs
  BY DEF IInv, Hands, Untried, TakeMountpoint, PCs
<1>1. Moves(w, "inspect")
  BY <1>0, GotoMoves DEF TypeOK
<1>2. /\ filelist' \in Seq(Mountpoint) /\ Len(filelist') = Len(filelist) - 1
      /\ Len(filelist) \in Nat
      /\ Head(filelist) \in Mountpoint /\ Head(filelist) \in Listed
      /\ Listed' \subseteq Listed /\ Head(filelist) \notin Listed'
      /\ Distinct(filelist')
  <2>1. filelist \in Seq(Mountpoint) /\ Distinct(filelist)
    BY <1>0 DEF TypeOK, IInv, MountpointsAreExclusive, Distinct
  <2>2. Listed = Members(filelist) /\ Listed' = Members(filelist')
    BY DEF Listed, Members
  <2> QED BY <1>0, <2>1, <2>2, TailMembers
<1>3. /\ mountpoint' \in [Writer -> Mountpoint \cup {NoMountpoint}]
      /\ mountpoint'[w] = Head(filelist)
      /\ \A v \in Writer \ {w} : mountpoint'[v] = mountpoint[v]
      /\ seenlength' \in [Writer -> Nat]
  BY <1>0, <1>2 DEF TypeOK
<1>4. /\ w \notin Holders /\ w \in Holders' /\ Holders' = Holders \cup {w}
      /\ Lost' = Lost /\ Waiting' \subseteq Waiting
  <2>1. w \notin Holders /\ w \notin Lost
    BY <1>0 DEF Holders, Lost
  <2>2. Holders' = Holders \cup {w} /\ Waiting' \subseteq Waiting
    BY <1>1, MovesSets DEF Using
  <2>3. Lost' = Lost \ {w}
    BY <1>1, <1>3, MovesLost DEF Ended
  <2> QED BY <2>1, <2>2, <2>3
<1>5. TypeOK'
  BY <1>0, <1>1, <1>2, <1>3 DEF TypeOK, Moves, queueVars, diskVars
<1>6. MountpointsAreExclusive'
  <2>1. MountpointsAreExclusive /\ Holders \subseteq Writer
    BY DEF IInv, Holders
  <2>2. \A v \in Holders : mountpoint'[v] = mountpoint[v] /\ mountpoint[v] \notin Listed
    BY <1>3, <1>4, <2>1 DEF MountpointsAreExclusive
  <2>3. \A u, v \in Holders' : mountpoint'[u] = mountpoint'[v] => u = v
    BY <1>2, <1>3, <1>4, <2>1, <2>2 DEF MountpointsAreExclusive
  <2>4. \A v \in Holders' : mountpoint'[v] \notin Listed'
    BY <1>2, <1>3, <1>4, <2>2
  <2>. QED  BY <1>2, <2>3, <2>4 DEF MountpointsAreExclusive, Distinct
<1>7. ListIsAccounted'
  <2>1. Cardinality(Holders') = Cardinality(Holders) + 1
    BY <1>4, SetsAreFinite, SizeAdd
  <2> QED BY <1>0, <1>2, <1>4, <2>1, SetsAreFinite DEF IInv, ListIsAccounted
<1>8. InReach' \subseteq InReach
  BY <1>2, <1>3, <1>4 DEF InReach, Holders
<1>9. Hands' /\ Untried'
  <2>1. \A v \in Writer \ {w} : HandsOf(v)' /\ UntriedBy(v)'
    BY <1>0, <1>1, <1>3, <1>8, OthersKept
  <2>2. HandsOf(w)' /\ UntriedBy(w)'
    BY <1>0, <1>1, <1>2, <1>3, <1>8
       DEF HandsOf, UntriedBy, Moves, Looking, Using, Ended
  <2> QED BY <2>1, <2>2 DEF Hands, Untried
<1>10. WaitsForSome' /\ NobodyWaitsInVain'
  BY <1>0, <1>4
     DEF IInv, WaitsForSome, NobodyWaitsInVain, diskVars
<1> QED BY <1>5, <1>6, <1>7, <1>9, <1>10 DEF IInv

\* A mountpoint that w takes is not one that it tried for this chunk.
LEMMA InspectedIsUntried ==
  ASSUME IInv, NEW w \in Writer, pc[w] = "inspect"
  PROVE  mountpoint[w] \notin mp_seen[w]
<1>1. UntriedBy(w) /\ w \in Holders
  BY DEF IInv, Untried, Holders
<1>2. mountpoint[w] \in InReach
  BY <1>1 DEF InReach
<1> QED BY <1>1, <1>2 DEF UntriedBy

LEMMA InspectKeeps ==
  ASSUME IInv, NEW w \in Writer, InspectMountpoint(w)
  PROVE  IInv'
<1>1. pc[w] = "inspect" /\ mountpoint[w] \notin mp_seen[w]
  BY InspectedIsUntried DEF InspectMountpoint
<1>0. /\ TypeOK /\ HandsOf(w) /\ UntriedBy(w)
      /\ mp_seen' = [mp_seen EXCEPT ![w] = @ \cup {mountpoint[w]}]
      /\ Goto(w, "write") /\ "write" \in PCs
      /\ UNCHANGED <<filelist, mountpoint, chunk, unwritten>>
      /\ UNCHANGED <<mk6, listlength, fdmap, queueVars, seenlength, stored, written>>
  BY <1>1 DEF IInv, Hands, Untried, InspectMountpoint, PCs
<1>2. Moves(w, "write") /\ \A v \in Writer \ {w} : pc'[v] = pc[v]
  BY <1>0, GotoMoves DEF TypeOK
<1>3. Holders' = Holders /\ Lost' = Lost /\ Waiting' \subseteq Waiting /\ w \in Holders
  <2>1. w \in Holders /\ w \notin Lost
    BY <1>1 DEF Holders, Lost
  <2>2. Holders' = Holders \cup {w} /\ Waiting' \subseteq Waiting
    BY <1>2, MovesSets DEF Using
  <2>3. Lost' = Lost \ {w}
    BY <1>0, <1>2, MovesLost DEF Ended
  <2> QED BY <2>1, <2>2, <2>3
<1>4. WaitsForSome' /\ NobodyWaitsInVain'
  BY <1>0, <1>3 DEF IInv, WaitsForSome, NobodyWaitsInVain
<1>5. /\ mp_seen' \in [Writer -> SUBSET Mountpoint]
      /\ mp_seen'[w] = mp_seen[w] \cup {mountpoint[w]}
      /\ \A v \in Writer \ {w} : mp_seen'[v] = mp_seen[v]
  BY <1>0, <1>1 DEF TypeOK, HandsOf, Using
<1>6. HandsOf(w)' /\ (InReach' = InReach => UntriedBy(w)')
  BY <1>0, <1>1, <1>2, <1>5 DEF HandsOf, UntriedBy, Moves, Looking, Using, Ended
<1> QED
  BY <1>0, <1>2, <1>3, <1>4, <1>5, <1>6, PlainKeeps
     DEF TypeOK, queueVars, listVars

\* The chunk that a writer works on.
LEMMA ChunkInHand ==
  ASSUME TypeOK, NEW w \in Writer, HandsOf(w), pc[w] \in Looking \cup Using
  PROVE  chunk[w] \in Chunk
<1>1. chunk[w] \in 0..NChunks /\ chunk[w] # 0 /\ NChunks \in Nat
  BY ParallelWriterAssumption DEF TypeOK, HandsOf
<1> QED BY <1>1 DEF Chunk

\* The mountpoint that w has is in reach of nobody once w has left it, and of
\* everybody once it has put it back.
LEMMA Released ==
  ASSUME IInv, NEW w \in Writer, w \in Holders,
         \A v \in Writer \ {w} : mountpoint'[v] = mountpoint[v],
         Holders' = Holders \ {w}, filelist' = filelist
  PROVE  /\ MountpointsAreExclusive'
         /\ InReach' \subseteq InReach
         /\ mountpoint[w] \notin InReach'
<1>1. Listed' = Listed
  BY DEF Listed
<1>2. MountpointsAreExclusive'
  BY <1>1 DEF IInv, MountpointsAreExclusive, Holders
<1>3. InReach' \subseteq InReach /\ mountpoint[w] \notin InReach'
  BY <1>1 DEF IInv, MountpointsAreExclusive, InReach, Holders
<1> QED BY <1>2, <1>3

LEMMA ChownKeeps ==
  ASSUME IInv, NEW w \in Writer, ChownThrows(w)
  PROVE  IInv'
<1>0. /\ TypeOK /\ HandsOf(w) /\ pc[w] = "write" /\ mountpoint[w] \in Mountpoint
      /\ UNCHANGED <<listVars, queueVars, mountpoint, mp_seen, seenlength, stored,
                     written>>
      /\ Goto(w, "quit") /\ "quit" \in PCs
      /\ unwritten' = unwritten \cup {chunk[w]}
      /\ chunk' = [chunk EXCEPT ![w] = 0]
  BY DEF IInv, Hands, HandsOf, Using, ChownThrows, PCs
<1>1. Moves(w, "quit")
  BY <1>0, GotoMoves DEF TypeOK
<1>2. /\ w \in Holders /\ Holders' = Holders \ {w} /\ Waiting' \subseteq Waiting
      /\ w \notin Lost /\ w \in Lost' /\ Lost' = Lost \cup {w}
  <2>1. w \in Holders /\ w \notin Lost /\ mountpoint'[w] # NoMountpoint
    BY <1>0, ParallelWriterAssumption DEF Holders, Lost
  <2>2. Holders' = Holders \ {w} /\ Waiting' \subseteq Waiting
    BY <1>1, MovesSets DEF Using
  <2>3. Lost' = Lost \cup {w}
    BY <1>0, <1>1, <2>1, MovesLost DEF Ended
  <2> QED BY <2>1, <2>2, <2>3
<1>3. MountpointsAreExclusive' /\ InReach' \subseteq InReach
  BY <1>0, <1>2, Released DEF listVars
<1>4. ListIsAccounted'
  <2>1. /\ Cardinality(Holders') = Cardinality(Holders) - 1
        /\ Cardinality(Lost') = Cardinality(Lost) + 1
    BY <1>2, SetsAreFinite, SizeAdd, SizeRemove
  <2>2. Len(filelist) \in Nat /\ UNCHANGED <<listlength, filelist>>
    BY <1>0, LenProperties DEF TypeOK, listVars
  <2> QED BY <2>1, <2>2, SetsAreFinite DEF IInv, ListIsAccounted
<1>5. /\ chunk' \in [Writer -> 0..NChunks] /\ unwritten' \subseteq Chunk
      /\ chunk'[w] = 0 /\ \A v \in Writer \ {w} : chunk'[v] = chunk[v]
  <2>1. chunk[w] \in Chunk /\ 0 \in 0..NChunks
    BY <1>0, ChunkInHand, ParallelWriterAssumption DEF Using
  <2> QED BY <1>0, <2>1 DEF TypeOK
<1>6. TypeOK'
  BY <1>0, <1>1, <1>5 DEF TypeOK, Moves, listVars, queueVars
<1>7. Hands' /\ Untried'
  <2>1. \A v \in Writer \ {w} : HandsOf(v)' /\ UntriedBy(v)'
    BY <1>0, <1>1, <1>3, <1>5, OthersKept
  <2>2. HandsOf(w)' /\ UntriedBy(w)'
    BY <1>1, <1>5 DEF HandsOf, UntriedBy, Moves, Looking, Using, Ended
  <2> QED BY <2>1, <2>2 DEF Hands, Untried
<1>8. WaitsForSome' /\ NobodyWaitsInVain'
  BY <1>0, <1>2 DEF IInv, WaitsForSome, NobodyWaitsInVain, listVars
<1> QED BY <1>3, <1>4, <1>6, <1>7, <1>8 DEF IInv

LEMMA MarkBadKeeps ==
  ASSUME IInv, NEW w \in Writer, MarkBad(w)
  PROVE  IInv'
<1>0. /\ TypeOK /\ HandsOf(w) /\ UntriedBy(w) /\ pc[w] = "write"
      /\ UNCHANGED <<mk6, filelist, fdmap, queueVars, chunk, mp_seen, seenlength,
                     diskVars>>
      /\ Broadcast(w, "take") /\ "take" \in PCs
      /\ listlength' = listlength - 1
      /\ mountpoint' = [mountpoint EXCEPT ![w] = NoMountpoint]
  BY DEF IInv, Hands, Untried, MarkBad, PCs
<1>1. Moves(w, "take") /\ \A v \in Writer \ {w} : pc'[v] # "wait"
  BY <1>0, BroadcastMoves DEF TypeOK
<1>2. w \in Holders /\ Holders' = Holders \ {w} /\ Lost' = Lost /\ Waiting' = {}
  <2>1. w \in Holders /\ w \notin Lost
    BY <1>0 DEF Holders, Lost
  <2>2. Holders' = Holders \ {w}
    BY <1>1, MovesSets DEF Using
  <2>3. Lost' = Lost \ {w}
    BY <1>0, <1>1, MovesLost DEF Ended, TypeOK
  <2>4. Waiting' = {}
    BY <1>1 DEF Waiting, Moves
  <2> QED BY <2>1, <2>2, <2>3, <2>4
<1>3. /\ mountpoint' \in [Writer -> Mountpoint \cup {NoMountpoint}]
      /\ mountpoint'[w] = NoMountpoint
      /\ \A v \in Writer \ {w} : mountpoint'[v] = mountpoint[v]
  BY <1>0 DEF TypeOK
<1>4. /\ MountpointsAreExclusive' /\ InReach' \subseteq InReach
      /\ mountpoint[w] \notin InReach'
  BY <1>0, <1>2, <1>3, Released
<1>5. ListIsAccounted' /\ listlength' \in Nat
  <2>1. /\ Cardinality(Holders') = Cardinality(Holders) - 1
        /\ Cardinality(Holders) \in Nat \ {0}
    BY <1>2, SetsAreFinite, SizeRemove
  <2>2. Len(filelist) \in Nat /\ UNCHANGED filelist
    BY <1>0, LenProperties DEF TypeOK
  <2> QED BY <1>0, <1>2, <2>1, <2>2, SetsAreFinite DEF IInv, ListIsAccounted
<1>6. TypeOK'
  BY <1>0, <1>1, <1>3, <1>5 DEF TypeOK, Moves, queueVars, diskVars
<1>7. Hands' /\ Untried'
  <2>1. \A v \in Writer \ {w} : HandsOf(v)' /\ UntriedBy(v)'
    BY <1>0, <1>1, <1>3, <1>4, OthersKept
  <2>2. HandsOf(w)' /\ UntriedBy(w)'
    BY <1>0, <1>1, <1>3, <1>4 DEF HandsOf, UntriedBy, Moves, Looking, Using, Ended
  <2> QED BY <2>1, <2>2 DEF Hands, Untried
<1>8. WaitsForSome' /\ NobodyWaitsInVain'
  BY <1>0, <1>2
     DEF IInv, WaitsForSome, NobodyWaitsInVain, diskVars
<1> QED BY <1>4, <1>5, <1>6, <1>7, <1>8 DEF IInv

LEMMA PutBackKeeps ==
  ASSUME IInv, NEW w \in Writer, PutBack(w)
  PROVE  IInv'
<1>0. /\ TypeOK /\ HandsOf(w) /\ pc[w] = "write" /\ mountpoint[w] \in Mountpoint
      /\ UNCHANGED <<mk6, listlength, queueVars, mp_seen, seenlength, unwritten>>
      /\ Signal(w, "pop") /\ "pop" \in PCs
      /\ filelist' = Append(filelist, mountpoint[w])
      /\ mountpoint' = [mountpoint EXCEPT ![w] = NoMountpoint]
      /\ chunk' = [chunk EXCEPT ![w] = 0]
      /\ fdmap' = IF mk6 THEN fdmap \cup {mountpoint[w]} ELSE fdmap
      /\ written' = written \cup {chunk[w]}
      /\ stored' = stored \cup {chunk[w]} \/ (mk6 /\ stored' = stored)
  BY DEF IInv, Hands, HandsOf, Using, PutBack, PCs
<1>1. /\ Moves(w, "pop")
      /\ Waiting # {} => \E v \in Writer \ {w} : pc'[v] = "woken"
  BY <1>0, SignalMoves DEF TypeOK
<1>2. /\ w \in Holders /\ Holders' = Holders \ {w} /\ Lost' = Lost
      /\ Waiting' \subseteq Waiting
  <2>1. w \in Holders /\ w \notin Lost
    BY <1>0 DEF Holders, Lost
  <2>2. Holders' = Holders \ {w} /\ Waiting' \subseteq Waiting
    BY <1>1, MovesSets DEF Using
  <2>3. Lost' = Lost \ {w}
    BY <1>0, <1>1, MovesLost DEF Ended, TypeOK
  <2> QED BY <2>1, <2>2, <2>3
<1>3. /\ mountpoint' \in [Writer -> Mountpoint \cup {NoMountpoint}]
      /\ mountpoint'[w] = NoMountpoint
      /\ \A v \in Writer \ {w} : mountpoint'[v] = mountpoint[v]
  BY <1>0 DEF TypeOK
<1>4. /\ filelist' \in Seq(Mountpoint) /\ Len(filelist') = Len(filelist) + 1
      /\ Len(filelist) \in Nat
      /\ Listed' = Listed \cup {mountpoint[w]} /\ mountpoint[w] \notin Listed
      /\ Distinct(filelist')
  <2>1. filelist \in Seq(Mountpoint) /\ Distinct(filelist) /\ mountpoint[w] \notin Listed
    BY <1>0, <1>2 DEF TypeOK, IInv, MountpointsAreExclusive, Distinct
  <2>2. Listed = Members(filelist) /\ Listed' = Members(filelist')
    BY DEF Listed, Members
  <2> QED BY <1>0, <2>1, <2>2, AppendMembers
<1>5. MountpointsAreExclusive'
  <2>1. \A v \in Holders' : /\ v \in Holders /\ mountpoint'[v] = mountpoint[v]
                            /\ mountpoint[v] # mountpoint[w] /\ mountpoint[v] \notin Listed
    BY <1>2, <1>3 DEF IInv, MountpointsAreExclusive, Holders
  <2>2. \A u, v \in Holders' : mountpoint'[u] = mountpoint'[v] => u = v
    BY <2>1 DEF IInv, MountpointsAreExclusive
  <2> QED BY <1>4, <2>1, <2>2 DEF MountpointsAreExclusive, Distinct
<1>6. ListIsAccounted'
  <2>1. Cardinality(Holders') = Cardinality(Holders) - 1
    BY <1>2, SetsAreFinite, SizeRemove
  <2> QED BY <1>0, <1>2, <1>4, <2>1, SetsAreFinite DEF IInv, ListIsAccounted
<1>7. InReach' \subseteq InReach
  BY <1>2, <1>3, <1>4 DEF InReach, Holders
<1>8. /\ chunk' \in [Writer -> 0..NChunks] /\ chunk[w] \in Chunk
      /\ chunk'[w] = 0 /\ \A v \in Writer \ {w} : chunk'[v] = chunk[v]
  <2>1. chunk[w] \in Chunk /\ 0 \in 0..NChunks
    BY <1>0, ChunkInHand, ParallelWriterAssumption DEF Using
  <2> QED BY <1>0, <2>1 DEF TypeOK
<1>9. TypeOK'
  <2>1. fdmap' \subseteq Mountpoint /\ written' \subseteq Chunk /\ stored' \subseteq Chunk
    BY <1>0, <1>8 DEF TypeOK
  <2> QED BY <1>0, <1>1, <1>3, <1>4, <1>8, <2>1 DEF TypeOK, Moves, queueVars
<1>10. Hands' /\ Untried'
  <2>1. \A v \in Writer \ {w} : HandsOf(v)' /\ UntriedBy(v)'
    BY <1>0, <1>1, <1>3, <1>7, <1>8, OthersKept
  <2>2. HandsOf(w)' /\ UntriedBy(w)'
    BY <1>1, <1>3, <1>8 DEF HandsOf, UntriedBy, Moves, Looking, Using, Ended
  <2> QED BY <2>1, <2>2 DEF Hands, Untried
<1>11. WaitsForSome' /\ NobodyWaitsInVain'
  BY <1>0, <1>1, <1>2 DEF IInv, WaitsForSome, NobodyWaitsInVain
<1> QED BY <1>5, <1>6, <1>9, <1>10, <1>11 DEF IInv

LEMMA EnvironmentKeeps ==
  ASSUME IInv, Produce \/ EndOfInput \/ StopInput
  PROVE  IInv'
<1>0. TypeOK /\ produced \in 0..NChunks /\ NChunks \in Nat
  BY ParallelWriterAssumption DEF IInv, TypeOK
<1>1. CASE Produce
  <2>1. produced' \in Chunk /\ produced' \in 0..NChunks
    BY <1>0, <1>1 DEF Produce, Chunk
  <2>2. inq' \in Queues(Chunk, {QueueDepth})
    BY <1>0, <1>1, <2>1, QueueTypes DEF TypeOK, Produce
  <2> QED BY <1>1, <2>1, <2>2, QueueKeeps DEF Produce
<1>2. CASE EndOfInput
  <2>1. inq' \in Queues(Chunk, {QueueDepth})
    BY <1>0, <1>2, QueueTypes DEF TypeOK, EndOfInput
  <2> QED BY <1>0, <1>2, <2>1, QueueKeeps DEF EndOfInput
<1>3. CASE StopInput
  <2>1. inq' \in Queues(Chunk, {QueueDepth})
    BY <1>0, <1>3, QueueTypes DEF TypeOK, StopInput
  <2> QED BY <1>0, <1>3, <2>1, QueueKeeps DEF StopInput
<1> QED BY <1>1, <1>2, <1>3

LEMMA StutterKeeps == IInv /\ UNCHANGED vars => IInv'
<1> SUFFICES ASSUME IInv, UNCHANGED vars PROVE IInv'
  OBVIOUS
<1>1. /\ inq' \in Queues(Chunk, {QueueDepth}) /\ produced' \in 0..NChunks
      /\ UNCHANGED <<listVars, pc, localVars, diskVars>>
  BY DEF IInv, TypeOK, vars, queueVars
<1> QED BY <1>1, QueueKeeps

LEMMA NextIInv == IInv /\ [Next]_vars => IInv'
<1> SUFFICES ASSUME IInv, Next \/ UNCHANGED vars PROVE IInv'
  BY DEF Next
<1>1. CASE Produce \/ EndOfInput \/ StopInput
  BY <1>1, EnvironmentKeeps
<1>2. ASSUME NEW w \in Writer, WriterStep(w) \/ SpuriousWakeup(w)
      PROVE  IInv'
  BY <1>2, PopChunkKeeps, WaitKeeps, GiveUpKeeps, TakeKeeps, InspectKeeps, ChownKeeps,
     MarkBadKeeps, PutBackKeeps, QuitKeeps, SpuriousKeeps DEF WriterStep
<1>3. CASE UNCHANGED vars
  BY <1>3, StutterKeeps
<1> QED BY <1>1, <1>2, <1>3 DEF Next

\* The invariant that the theorems below follow from.
LEMMA Invariant == SafeSpec => []IInv
<1>1. Init => IInv
  BY InitIInv
<1>2. IInv /\ [Next]_vars => IInv'
  BY NextIInv
<1> QED BY <1>1, <1>2, PTL DEF SafeSpec

-----------------------------------------------------------------------------
(* The theorems.                                                           *)

\* The writers' variables, the list and its counter keep their types: listlength
\* is unsigned, and no writer decrements it below zero.
THEOREM WriterTypes == SafeSpec => []TypeOK
<1>1. IInv => TypeOK
  BY DEF IInv
<1> QED BY <1>1, Invariant, PTL

\* No two writers write on the same mountpoint, and none on one that is in the
\* list: the code that looks at fdmap and writes to the files does it without
\* the lock.
THEOREM OneWriterPerMountpoint == SafeSpec => []MountpointsAreExclusive
<1>1. IInv => MountpointsAreExclusive
  BY DEF IInv
<1> QED BY <1>1, Invariant, PTL

\* listlength counts the mountpoints in the list, those in use and those lost to
\* an exception: "how many items there could be in the list".
THEOREM EveryMountpointIsCounted == SafeSpec => []ListIsAccounted
<1>1. IInv => ListIsAccounted
  BY DEF IInv
<1> QED BY <1>1, Invariant, PTL

\* Unless an exception took a mountpoint, cond_signal() when one is put back and
\* cond_broadcast() when one is marked bad are enough: whenever a writer waits,
\* another has a mountpoint or has been woken.
THEOREM NoWriterWaitsForNothing == SafeSpec => []NobodyWaitsInVain
<1>1. IInv => NobodyWaitsInVain
  BY DEF IInv
<1> QED BY <1>1, Invariant, PTL

\* Unless by an exception, a chunk is given up only when no mountpoint is left, in
\* the list or in the hands of another writer.
THEOREM NothingLeftWhenGivingUp == SafeSpec => TriedBeforeGivingUp
<1>1. ASSUME IInv, Next, unwritten' # unwritten, Lost' = Lost
      PROVE  filelist = <<>> /\ Holders = {}
  <2>1. PICK w \in Writer : GiveUp(w) \/ InspectMountpoint(w) \/ ChownThrows(w)
    BY <1>1 DEF Next, WriterStep, Produce, EndOfInput, StopInput, PopChunk,
                WaitForMountpoint, TakeMountpoint, MarkBad, PutBack, Quit,
                SpuriousWakeup, diskVars
  <2>2. CASE GiveUp(w)
    <3>1. filelist = <<>> /\ Len(filelist) = 0 /\ listlength = 0
      BY <2>2 DEF GiveUp
    <3>2. Cardinality(Holders) = 0
      BY <1>1, <3>1, SetsAreFinite DEF IInv, ListIsAccounted
    <3> QED BY <3>1, <3>2, SetsAreFinite, FS_EmptySet
  <2>3. CASE InspectMountpoint(w)
    <3>1. mountpoint[w] \notin mp_seen[w]
      BY <1>1, <2>3, InspectedIsUntried DEF InspectMountpoint
    <3> QED BY <1>1, <2>3, <3>1 DEF InspectMountpoint
  <2>4. CASE ChownThrows(w)
    <3>1. pc[w] = "write" /\ mountpoint[w] \in Mountpoint /\ mountpoint' = mountpoint
          /\ Goto(w, "quit")
      BY <1>1, <2>4 DEF IInv, Hands, HandsOf, Using, ChownThrows
    <3>2. w \notin Lost /\ pc'[w] = "quit"
      BY <1>1, <3>1 DEF Lost, Goto, IInv, TypeOK
    <3>3. w \in Lost'
      BY <3>1, <3>2, ParallelWriterAssumption DEF Lost
    <3> QED BY <1>1, <3>2, <3>3
  <2> QED BY <2>1, <2>2, <2>3, <2>4
<1>2. IInv /\ [Next]_vars =>
        [unwritten' # unwritten /\ Lost' = Lost => filelist = <<>> /\ Holders = {}]_vars
  BY <1>1
<1> QED BY <1>2, Invariant, PTL DEF SafeSpec, TriedBeforeGivingUp

\* A writer never takes a mountpoint that it has tried for the same chunk, so the
\* code for that case, which compares mp_seen.size() with its copy of listlength,
\* never runs: a mountpoint that failed is gone, and one that did not ends the
\* attempt.
THEOREM NoMountpointIsTriedTwice ==
  SafeSpec => [](\A w \in Writer : pc[w] = "inspect" => mountpoint[w] \notin mp_seen[w])
<1>1. IInv => \A w \in Writer : pc[w] = "inspect" => mountpoint[w] \notin mp_seen[w]
  BY InspectedIsUntried
<1> QED BY <1>1, Invariant, PTL

=============================================================================
