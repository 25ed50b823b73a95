------------------------- MODULE Interchain_proofs --------------------------
(***************************************************************************)
(* Proofs about Interchain, for any readers, blocks and queues of any      *)
(* size, any commands and any number of transfers.  No fairness is used.   *)
(***************************************************************************)
EXTENDS Interchain, SequenceTheorems, TLAPS

-----------------------------------------------------------------------------
(* The invariant.                                                          *)

SourcePlaces ==
  {"idle", "starting", "enabling", "running", "pushing", "disabling"}
ReaderPlaces ==
  {"waiting", "request", "check", "enable", "pop", "push", "ended", "finals",
   "removed", "done"}
ControlPlaces == {"idle", "on", "look", "disable_pop", "flag", "close"}

\* What is known of the source.  Its block is the last one, of this transfer.
SourceTypes ==
  /\ spc \in SourcePlaces
  /\ todo \subseteq registered /\ (~Walking => todo = {})
  /\ transfers \in 0..MaxTransfers /\ blocks \in 0..MaxBlocks
  /\ spc # "idle" => transfers >= 1
  /\ spc = "pushing" => /\ block \in Blocks
                        /\ block.number = blocks /\ block.transfer = transfers

QueueTypes ==
  /\ capacity \in Capacities \cup {DefaultCapacity}
  /\ registered \subseteq Readers
  /\ queue \in [Readers -> Queues(Blocks, Nat)]
  /\ \A r \in registered :
       /\ queue[r].capacity \in Capacities \cup {DefaultCapacity}
       /\ Len(queue[r].items) <= queue[r].capacity

\* A reader uses its queue only as long as it is registered, and has enough
\* when it is about to push.
ReaderTypes ==
  /\ stupid \subseteq Readers
  /\ pc \in [Readers -> ReaderPlaces]
  /\ have \in [Readers -> Seq(Byte)] /\ out \in [Readers -> Seq(Seq(Byte))]
  /\ \A r \in Readers :
       /\ pc[r] \in {"check", "enable", "pop", "push"} => r \in registered
       /\ pc[r] = "push" => Enough(r, have[r])

FlagTypes ==
  /\ run \in [Readers -> BOOLEAN] /\ cancelled \in [Readers -> BOOLEAN]
  /\ source_queue \in [Readers -> BOOLEAN] /\ out_open \in [Readers -> BOOLEAN]
  /\ cpc \in [Readers -> ControlPlaces]
  /\ ncommand \in [Readers -> Nat]
  /\ \A r \in Readers : ncommand[r] <= Len(Commands[r])

Types == SourceTypes /\ QueueTypes /\ ReaderTypes /\ FlagTypes

\* All numbers that reader r has seen so far, in its queue and after it, are
\* less than the next one that the source can push to it.
Coming(r) == IF spc = "pushing" /\ r \in todo THEN blocks ELSE blocks + 1

\* Bytes, or rows of bytes, of blocks before number n.
Before(bytes, n) == \A k \in DOMAIN bytes : bytes[k][2] < n
RowsBefore(rows, n) == \A i \in DOMAIN rows : Before(rows[i], n)

\* Bytes x come before bytes y.
Precede(x, y) == \A k \in DOMAIN x, l \in DOMAIN y : Earlier(x[k], y[l])

\* Bytes are in order.
Ordered(x) == \A k, l \in DOMAIN x : k < l => Earlier(x[k], x[l])

\* The queue is in order, and comes after all that was taken out of it.
ItemsInOrder(items, bytes, rows, n) ==
  /\ \A k, l \in DOMAIN items : k < l => items[k].number < items[l].number
  /\ \A k \in DOMAIN items : /\ Before(bytes, items[k].number)
                             /\ RowsBefore(rows, items[k].number)
                             /\ items[k].number < n

\* The bytes that a reader has are in order, and come after those it has pushed.
BytesInOrder(bytes, rows, n) ==
  /\ Before(bytes, n) /\ RowsBefore(rows, n)
  /\ Ordered(bytes)
  /\ \A i \in DOMAIN rows : Precede(rows[i], bytes)

RowsInOrder(rows) ==
  /\ \A i \in DOMAIN rows : Ordered(rows[i])
  /\ \A i, j \in DOMAIN rows : i < j => Precede(rows[i], rows[j])

InOrderBefore(items, bytes, rows, n) ==
  /\ ItemsInOrder(items, bytes, rows, n)
  /\ BytesInOrder(bytes, rows, n)
  /\ RowsInOrder(rows)

Order ==
  \A r \in Readers : InOrderBefore(queue[r].items, have[r], out[r], Coming(r))

\* The source does not send to r before it has opened its queue, nor after it
\* has disabled it.
Quiet(r) ==
  \/ spc \in {"idle", "starting", "enabling"}
  \/ spc = "disabling" /\ r \notin todo

\* What is in a queue is of this transfer, and so is what its reader has, as
\* long as the pop end was not disabled since the reader enabled it.
OfTransfer(r) ==
  r \in registered =>
    /\ \A k \in DOMAIN queue[r].items : queue[r].items[k].transfer = transfers
    /\ queue[r].enable_pop =>
         \A k \in DOMAIN have[r] : have[r][k][1] = transfers
    /\ Quiet(r) => /\ queue[r].items = <<>>
                   /\ queue[r].enable_pop => have[r] = <<>>

OneTransfer(bytes) == \A k, l \in DOMAIN bytes : bytes[k][1] = bytes[l][1]

Together ==
  \A r \in Readers :
    /\ OfTransfer(r)
    /\ OneTransfer(have[r])
    /\ \A i \in DOMAIN out[r] : OneTransfer(out[r][i])

-----------------------------------------------------------------------------
(* What a step does to one reader.                                         *)

\* All that reader r has stays; only its flags, or those of its queue, may not.
Same(r) ==
  queue'[r].items = queue[r].items /\ have'[r] = have[r] /\ out'[r] = out[r]

\* Nobody but the reader enables the pop end.
NotReopened(r) == queue'[r].enable_pop => queue[r].enable_pop

\* Its queue is made, (re)enabled or disabled.
Emptied(r) ==
  /\ queue'[r].items = <<>> /\ have'[r] = have[r] /\ out'[r] = out[r]
  /\ NotReopened(r)

\* The source pushes its block to the queue.
Received(r) ==
  /\ spc = "pushing" /\ r \in todo /\ r \notin todo'
  /\ queue'[r].items = Append(queue[r].items, block)
  /\ have'[r] = have[r] /\ out'[r] = out[r] /\ NotReopened(r)

\* The reader enables its queue, with an empty blocklist.
Restarted(r) ==
  /\ queue'[r].items = queue[r].items /\ have'[r] = <<>> /\ out'[r] = out[r]

\* It takes a block out of its queue.
Took(r) ==
  /\ r \in registered /\ queue[r].enable_pop /\ queue[r].items # <<>>
  /\ queue'[r].items = Tail(queue[r].items)
  /\ have'[r] = have[r] \o BytesOf(Head(queue[r].items))
  /\ out'[r] = out[r] /\ NotReopened(r)

\* It pushes the first n bytes that it has.
PushedOut(r, n) ==
  /\ n \in 1..Len(have[r])
  /\ queue'[r] = queue[r]
  /\ out'[r] = Append(out[r], SubSeq(have[r], 1, n))
  /\ have'[r] = SubSeq(have[r], n + 1, Len(have[r]))

\* A queue with nothing in it, and its pop end disabled.
Calm(r) == queue'[r].items = <<>> /\ ~queue'[r].enable_pop

\* One of these is what any step does to a reader.
Change(r) ==
  \/ Same(r) /\ NotReopened(r)
  \/ Emptied(r) \/ Received(r) \/ Restarted(r) \/ Took(r)
  \/ \E n \in Nat : PushedOut(r, n)

-----------------------------------------------------------------------------
(* The operators of QueueState on the queues of readers.                   *)

\* (Re)enabling the push end empties the queue, and leaves the pop end as it is.
LEMMA EnabledFields ==
  ASSUME NEW q \in Queues(Blocks, Nat), NEW cap \in Nat, cap # 0
  PROVE  /\ ResizeEnabledPush(q, cap) \in Queues(Blocks, Nat)
         /\ ResizeEnabledPush(q, cap).items = <<>>
         /\ ResizeEnabledPush(q, cap).capacity = cap
         /\ ResizeEnabledPush(q, cap).enable_pop = q.enable_pop
<1>1. q.enable_pop \in BOOLEAN /\ <<>> \in Seq(Blocks)
  BY DEF Queues
<1>2. Resized(cap, q) = cap
  BY DEF Resized
<1> QED
  BY <1>1, <1>2 DEF ResizeEnabledPush, Queue, Queues

\* Disabling empties the queue.
LEMMA DisabledFields ==
  ASSUME NEW q \in Queues(Blocks, Nat)
  PROVE  /\ Disabled(q) \in Queues(Blocks, Nat)
         /\ Disabled(q).items = <<>> /\ Disabled(q).capacity = q.capacity
         /\ Disabled(q).enable_pop = FALSE
<1>1. q.capacity \in Nat /\ <<>> \in Seq(Blocks)
  BY DEF Queues
<1> QED
  BY <1>1 DEF Disabled, Queue, Queues

\* Switching the pop end leaves what is in the queue.
LEMMA SwitchedFields ==
  ASSUME NEW q \in Queues(Blocks, Nat)
  PROVE  /\ PopDisabled(q) \in Queues(Blocks, Nat)
         /\ PopDisabled(q).items = q.items
         /\ PopDisabled(q).capacity = q.capacity
         /\ PopDisabled(q).enable_pop = FALSE
         /\ PopEnabled(q) \in Queues(Blocks, Nat)
         /\ PopEnabled(q).items = q.items
         /\ PopEnabled(q).capacity = q.capacity
<1>1. /\ q.items \in Seq(Blocks) /\ q.capacity \in Nat
      /\ q.enable_push \in BOOLEAN
  BY DEF Queues
<1>2. /\ PopDisabled(q) \in Queues(Blocks, Nat)
      /\ PopDisabled(q).items = q.items
      /\ PopDisabled(q).capacity = q.capacity
      /\ PopDisabled(q).enable_pop = FALSE
  BY <1>1 DEF PopDisabled, Queue, Queues
<1>3. /\ PopEnabled(q) \in Queues(Blocks, Nat)
      /\ PopEnabled(q).items = q.items
      /\ PopEnabled(q).capacity = q.capacity
  BY <1>1 DEF PopEnabled, Queue, Queues
<1> QED
  BY <1>2, <1>3

\* A block is appended if there is room for it and the push end is enabled.
LEMMA TryPushedFields ==
  ASSUME NEW q \in Queues(Blocks, Nat), NEW b \in Blocks
  PROVE  /\ TryPushed(q, b) \in Queues(Blocks, Nat)
         /\ TryPushed(q, b).capacity = q.capacity
         /\ TryPushed(q, b).enable_pop = q.enable_pop
         /\ \/ TryPushed(q, b).items = q.items
            \/ /\ TryPushed(q, b).items = Append(q.items, b)
               /\ Len(q.items) < q.capacity
<1>1. /\ q.items \in Seq(Blocks) /\ q.capacity \in Nat
      /\ q.enable_push \in BOOLEAN /\ q.enable_pop \in BOOLEAN
  BY DEF Queues
<1>2. CASE q.enable_push /\ Len(q.items) < q.capacity
  <2>1. TryPushed(q, b) =
          Queue(Append(q.items, b), q.capacity, q.enable_push, q.enable_pop)
    BY <1>2 DEF TryPushed, Pushed
  <2>2. Append(q.items, b) \in Seq(Blocks)
    BY <1>1
  <2> QED
    BY <2>1, <2>2, <1>1, <1>2 DEF Queue, Queues
<1>3. CASE ~(q.enable_push /\ Len(q.items) < q.capacity)
  BY <1>3, <1>1 DEF TryPushed
<1> QED
  BY <1>2, <1>3

\* pop() takes the first block, or leaves them all; it never enables.
LEMMA PoppedFields ==
  ASSUME NEW q \in Queues(Blocks, Nat)
  PROVE  /\ Popped(q) \in Queues(Blocks, Nat)
         /\ Popped(q).capacity = q.capacity
         /\ Popped(q).items = IF Takes(q) THEN Tail(q.items) ELSE q.items
         /\ Popped(q).enable_pop => q.enable_pop
<1> DEFINE rest == IF Takes(q) THEN Tail(q.items) ELSE q.items
           on == q.enable_pop /\ (q.enable_push \/ rest # <<>>)
<1>1. /\ q.items \in Seq(Blocks) /\ q.capacity \in Nat
      /\ q.enable_push \in BOOLEAN /\ q.enable_pop \in BOOLEAN
  BY DEF Queues
<1>2. rest \in Seq(Blocks)
  <2>1. CASE Takes(q)
    BY <2>1, <1>1 DEF Takes
  <2> QED
    BY <2>1, <1>1
<1>3. Popped(q) = Queue(rest, q.capacity, q.enable_push, on)
  BY DEF Popped
<1>4. on \in BOOLEAN /\ (on => q.enable_pop)
  OBVIOUS
<1> HIDE DEF rest, on
<1>5. /\ Popped(q) \in Queues(Blocks, Nat)
      /\ Popped(q).capacity = q.capacity
      /\ Popped(q).items = rest
      /\ Popped(q).enable_pop = on
  BY <1>1, <1>2, <1>3, <1>4 DEF Queue, Queues
<1> QED
  BY <1>5, <1>4 DEF rest

\* A queue that is requested is empty, and its pop end disabled.
LEMMA FreshQueue ==
  /\ QueueOf(0, FALSE) \in Queues(Blocks, Nat)
  /\ QueueOf(0, FALSE).items = <<>> /\ QueueOf(0, FALSE).enable_pop = FALSE
  BY DEF QueueOf, Queue, Queues

-----------------------------------------------------------------------------
(* The steps, as far as they concern the queues.                           *)

\* A walk of the source reaches the queue of r, and leaves q there.
Visited(how, r, q) ==
  /\ spc = how /\ r \in todo
  /\ queue' = [queue EXCEPT ![r] = q] /\ todo' = todo \ {r}
  /\ UNCHANGED <<registered, capacity, spc, transfers, blocks, block, readerVars,
                 flagVars, out_open, controlVars>>

\* What a step of the source is that is part of a walk.
LEMMA SourceSteps ==
  ASSUME SourceStep
  PROVE  \/ BeginEnable
         \/ EndWalk("enabling", "running") \/ EndWalk("pushing", "running")
         \/ EndWalk("disabling", "idle")
         \/ \E r \in todo :
              \/ Visited("enabling", r, ResizeEnabledPush(queue[r], capacity))
              \/ Visited("pushing", r, TryPushed(queue[r], block))
              \/ Visited("disabling", r, Disabled(queue[r]))
<1>1. ASSUME EnableQueue
      PROVE  \E r \in todo :
               Visited("enabling", r, ResizeEnabledPush(queue[r], capacity))
  BY <1>1 DEF EnableQueue, Visit, Visited
<1>2. ASSUME PushToQueue
      PROVE  \E r \in todo : Visited("pushing", r, TryPushed(queue[r], block))
  BY <1>2 DEF PushToQueue, Visit, Visited
<1>3. ASSUME DisableQueue
      PROVE  \E r \in todo : Visited("disabling", r, Disabled(queue[r]))
  BY <1>3 DEF DisableQueue, Visit, Visited
<1> QED
  BY <1>1, <1>2, <1>3 DEF SourceStep

\* The variables of the source and the registration stay.
SourceKept == UNCHANGED <<registered, capacity, spc, todo, transfers, blocks, block>>

\* A step of reader r, or of the thread that controls its chain, by what it
\* does to the registration and to the source.
LEMMA ReaderSteps ==
  ASSUME NEW r \in Readers,
         ReaderStep(r) \/ DownstreamEnds(r) \/ SwitchOn(r) \/ CancelRun(r)
           \/ ControlStep(r)
  PROVE  Request(r) \/ RemoveQueue(r) \/ SourceKept
<1>1. ASSUME StartReading(r) \/ EnablePop(r) \/ Check(r) \/ Pop(r) \/ PushOut(r)
             \/ Leave(r) \/ ForgetQueue(r)
      PROVE  SourceKept
  BY <1>1 DEF StartReading, EnablePop, Check, Pop, PushOut, Leave, ForgetQueue,
     SourceKept, sourceVars
<1>2. ASSUME DownstreamEnds(r) \/ SwitchOn(r) \/ CancelRun(r) \/ CancelLook(r)
             \/ CancelDisablePop(r) \/ CancelFlag(r) \/ CloseOut(r)
      PROVE  SourceKept
  BY <1>2 DEF DownstreamEnds, SwitchOn, CancelRun, CancelLook, CancelDisablePop,
     CancelFlag, CloseOut, SourceKept, sourceVars
<1> QED
  BY <1>1, <1>2 DEF ReaderStep, ControlStep

-----------------------------------------------------------------------------
(* Types.                                                                  *)

LEMMA TypesInit ==
  ASSUME InterchainAssumption, Init
  PROVE  Types
<1>1. SourceTypes
  BY DEF Init, SourceTypes, SourcePlaces, InterchainAssumption, Walking
<1>2. QueueTypes
  BY FreshQueue DEF Init, QueueTypes
<1>3. ReaderTypes
  BY DEF Init, ReaderTypes, ReaderPlaces
<1>4. FlagTypes
  <2>1. \A r \in Readers : Commands[r] \in Seq({"flush", "stop"})
    BY DEF InterchainAssumption
  <2>2. \A r \in Readers : Len(Commands[r]) \in Nat
    BY <2>1
  <2> QED
    BY <2>2 DEF Init, FlagTypes, ControlPlaces
<1> QED
  BY <1>1, <1>2, <1>3, <1>4 DEF Types

LEMMA SourceTypesStep ==
  ASSUME InterchainAssumption, Types, [Next]_vars
  PROVE  SourceTypes'
<1> USE DEF SourcePlaces
<1>1. MaxTransfers \in Nat /\ MaxBlocks \in Nat
  BY DEF InterchainAssumption
<1>2. ASSUME SourceKept
      PROVE  SourceTypes'
  BY <1>2 DEF SourceKept, Types, SourceTypes, Walking
<1>3. ASSUME StartTransfer
      PROVE  SourceTypes'
  BY <1>1, <1>3 DEF StartTransfer, Types, SourceTypes, Walking
<1>4. ASSUME BeginEnable
      PROVE  SourceTypes'
  BY <1>1, <1>4 DEF BeginEnable, BeginWalk, Types, SourceTypes, Walking
<1>5. ASSUME BeginDisable
      PROVE  SourceTypes'
  BY <1>1, <1>5 DEF BeginDisable, BeginWalk, Types, SourceTypes, Walking
<1>6. ASSUME BeginPush
      PROVE  SourceTypes'
  <2>1. PICK s \in Sizes :
          block' = [transfer |-> transfers, number |-> blocks + 1, size |-> s]
    BY <1>6 DEF BeginPush
  <2>2. /\ spc = "running" /\ spc' = "pushing" /\ todo' = registered
        /\ registered' = registered /\ transfers' = transfers
        /\ blocks' = blocks + 1 /\ blocks < MaxBlocks
    BY <1>6 DEF BeginPush, BeginWalk
  <2>3. transfers \in 1..MaxTransfers /\ blocks + 1 \in 1..MaxBlocks
    BY <1>1, <2>2 DEF Types, SourceTypes
  <2>4. /\ block' \in Blocks /\ block'.number = blocks'
        /\ block'.transfer = transfers'
    BY <2>1, <2>2, <2>3 DEF Blocks
  <2>5. transfers' \in 0..MaxTransfers /\ blocks' \in 0..MaxBlocks /\ transfers' >= 1
    BY <1>1, <2>2, <2>3
  <2> QED
    BY <2>2, <2>4, <2>5 DEF SourceTypes, Walking
<1>7. ASSUME NEW from \in {"enabling", "pushing", "disabling"},
             NEW to \in {"running", "idle"}, EndWalk(from, to)
      PROVE  SourceTypes'
  BY <1>1, <1>7 DEF EndWalk, Types, SourceTypes, Walking
<1>8. ASSUME NEW how \in {"enabling", "pushing", "disabling"}, NEW r \in todo,
             NEW q, Visited(how, r, q)
      PROVE  SourceTypes'
  BY <1>1, <1>8 DEF Visited, Types, SourceTypes, Walking
<1>9. ASSUME SourceStep
      PROVE  SourceTypes'
  BY <1>4, <1>7, <1>8, <1>9, SourceSteps
<1>10. ASSUME NEW r \in Readers, Request(r) \/ RemoveQueue(r)
       PROVE  SourceTypes'
  <2>1. ~Walking /\ UNCHANGED <<spc, todo, transfers, blocks, block>>
    BY <1>10 DEF Request, RemoveQueue, sourceVars
  <2>2. todo = {}
    BY <2>1 DEF Types, SourceTypes
  <2> QED
    BY <2>1, <2>2 DEF Types, SourceTypes, Walking
<1>11. ASSUME UNCHANGED vars
       PROVE  SourceTypes'
  BY <1>2, <1>11 DEF vars, sourceVars, SourceKept
<1>12. ASSUME NEW r \in Readers,
              ReaderStep(r) \/ DownstreamEnds(r) \/ SwitchOn(r) \/ CancelRun(r)
                \/ ControlStep(r)
       PROVE  SourceTypes'
  BY <1>2, <1>10, <1>12, ReaderSteps
<1> QED
  BY <1>3, <1>5, <1>6, <1>9, <1>11, <1>12 DEF Next

\* The same, by what it does to the queues.
LEMMA ReaderQueueSteps ==
  ASSUME NEW r \in Readers,
         ReaderStep(r) \/ DownstreamEnds(r) \/ SwitchOn(r) \/ CancelRun(r)
           \/ ControlStep(r)
  PROVE  \/ Request(r) \/ EnablePop(r) \/ Pop(r) \/ CancelDisablePop(r)
         \/ /\ UNCHANGED <<queue, capacity>>
            /\ registered' = registered \/ registered' = registered \ {r}
<1>1. ASSUME StartReading(r) \/ Check(r) \/ PushOut(r) \/ Leave(r)
             \/ RemoveQueue(r) \/ ForgetQueue(r)
      PROVE  /\ UNCHANGED <<queue, capacity>>
             /\ registered' = registered \/ registered' = registered \ {r}
  BY <1>1 DEF StartReading, Check, PushOut, Leave, RemoveQueue, ForgetQueue,
     sourceVars
<1>2. ASSUME DownstreamEnds(r) \/ SwitchOn(r) \/ CancelRun(r) \/ CancelLook(r)
             \/ CancelFlag(r) \/ CloseOut(r)
      PROVE  UNCHANGED <<queue, capacity, registered>>
  BY <1>2 DEF DownstreamEnds, SwitchOn, CancelRun, CancelLook, CancelFlag,
     CloseOut, sourceVars
<1> QED
  BY <1>1, <1>2 DEF ReaderStep, ControlStep

\* One queue is replaced by another that is as long at most.
LEMMA QueueReplaced ==
  ASSUME QueueTypes, NEW r \in Readers, NEW q \in Queues(Blocks, Nat),
         queue' = [queue EXCEPT ![r] = q],
         registered' = registered, capacity' = capacity,
         q.capacity = queue[r].capacity \/ q.capacity = capacity,
         r \in registered => Len(q.items) <= q.capacity
  PROVE  QueueTypes'
<1>1. queue' \in [Readers -> Queues(Blocks, Nat)]
  BY DEF QueueTypes
<1>2. ASSUME NEW t \in registered'
      PROVE  /\ queue'[t].capacity \in Capacities' \cup {DefaultCapacity'}
             /\ Len(queue'[t].items) <= queue'[t].capacity
  <2>1. t \in Readers /\ t \in registered
    BY <1>2 DEF QueueTypes
  <2>2. CASE t = r
    BY <2>1, <2>2 DEF QueueTypes
  <2>3. CASE t # r
    BY <2>1, <2>3 DEF QueueTypes
  <2> QED
    BY <2>2, <2>3
<1> QED
  BY <1>1, <1>2 DEF QueueTypes

LEMMA QueueTypesStep ==
  ASSUME InterchainAssumption, Types, [Next]_vars
  PROVE  QueueTypes'
<1>1. /\ Capacities \subseteq Nat \ {0} /\ DefaultCapacity \in Nat \ {0}
      /\ capacity \in Nat \ {0}
      /\ capacity \in Capacities \cup {DefaultCapacity}
  BY DEF InterchainAssumption, Types, QueueTypes
<1>2. /\ registered \subseteq Readers /\ todo \subseteq registered
      /\ \A r \in Readers : queue[r] \in Queues(Blocks, Nat)
  BY DEF Types, QueueTypes, SourceTypes
<1>3. \A r \in Readers :
        queue[r].items \in Seq(Blocks) /\ queue[r].capacity \in Nat
  BY <1>2 DEF Queues
<1>4. QueueTypes
  BY DEF Types
<1>5. ASSUME UNCHANGED queue,
             capacity' \in Capacities \cup {DefaultCapacity},
             registered' \subseteq registered
      PROVE  QueueTypes'
  BY <1>5, <1>4 DEF QueueTypes
<1>6. ASSUME StartTransfer
      PROVE  QueueTypes'
  BY <1>5, <1>6 DEF StartTransfer
<1>7. ASSUME BeginEnable \/ BeginPush \/ BeginDisable
      PROVE  QueueTypes'
  BY <1>1, <1>5, <1>7 DEF BeginEnable, BeginPush, BeginDisable
<1>8. ASSUME NEW from, NEW to, EndWalk(from, to)
      PROVE  QueueTypes'
  BY <1>1, <1>5, <1>8 DEF EndWalk
<1>9. ASSUME NEW r \in todo,
             Visited("enabling", r, ResizeEnabledPush(queue[r], capacity))
      PROVE  QueueTypes'
  <2> DEFINE q == ResizeEnabledPush(queue[r], capacity)
  <2>0. r \in Readers /\ queue[r] \in Queues(Blocks, Nat) /\ capacity \in Nat /\ capacity # 0
    BY <1>1, <1>2
  <2>1. /\ q \in Queues(Blocks, Nat) /\ q.items = <<>> /\ q.capacity = capacity
        /\ r \in Readers
    BY ONLY <2>0, EnabledFields
  <2>2. /\ queue' = [queue EXCEPT ![r] = q]
        /\ registered' = registered /\ capacity' = capacity
    BY <1>9 DEF Visited
  <2>3. Len(q.items) <= q.capacity
    BY <1>1, <2>1
  <2> HIDE DEF q
  <2> QED
    BY <1>4, <2>1, <2>2, <2>3, QueueReplaced
<1>10. ASSUME NEW r \in todo, Visited("pushing", r, TryPushed(queue[r], block))
       PROVE  QueueTypes'
  <2> DEFINE q == TryPushed(queue[r], block)
  <2>1. block \in Blocks /\ r \in Readers /\ r \in registered
    BY <1>2, <1>10 DEF Visited, Types, SourceTypes
  <2>2. /\ q \in Queues(Blocks, Nat) /\ q.capacity = queue[r].capacity
        /\ \/ q.items = queue[r].items
           \/ /\ q.items = Append(queue[r].items, block)
              /\ Len(queue[r].items) < queue[r].capacity
    BY <1>2, <2>1, TryPushedFields
  <2>3. /\ queue' = [queue EXCEPT ![r] = q]
        /\ registered' = registered /\ capacity' = capacity
    BY <1>10 DEF Visited
  <2> HIDE DEF q
  <2>4. Len(queue[r].items) <= queue[r].capacity
    BY <1>4, <2>1 DEF QueueTypes
  <2>5. Len(Append(queue[r].items, block)) = Len(queue[r].items) + 1
    BY <1>3, <2>1
  <2>6. Len(queue[r].items) \in Nat /\ queue[r].capacity \in Nat
    BY <1>3, <2>1
  <2>7. Len(q.items) <= q.capacity
    BY <2>2, <2>4, <2>5, <2>6
  <2> QED
    BY <1>4, <2>1, <2>2, <2>3, <2>7, QueueReplaced
<1>11. ASSUME NEW r \in todo, Visited("disabling", r, Disabled(queue[r]))
       PROVE  QueueTypes'
  <2> DEFINE q == Disabled(queue[r])
  <2>1. /\ q \in Queues(Blocks, Nat) /\ q.items = <<>>
        /\ q.capacity = queue[r].capacity /\ r \in Readers
    BY <1>2, DisabledFields
  <2>2. /\ queue' = [queue EXCEPT ![r] = q]
        /\ registered' = registered /\ capacity' = capacity
    BY <1>11 DEF Visited
  <2>3. Len(q.items) <= q.capacity
    BY <1>3, <2>1
  <2> HIDE DEF q
  <2> QED
    BY <1>4, <2>1, <2>2, <2>3, QueueReplaced
<1>12. ASSUME SourceStep
       PROVE  QueueTypes'
  BY <1>7, <1>8, <1>9, <1>10, <1>11, <1>12, SourceSteps
<1>13. ASSUME NEW r \in Readers, Request(r)
       PROVE  QueueTypes'
  <2> DEFINE q == ResizeEnabledPush(QueueOf(0, FALSE), capacity)
  <2>0. QueueOf(0, FALSE) \in Queues(Blocks, Nat) /\ capacity \in Nat /\ capacity # 0
    BY <1>1, FreshQueue
  <2>1. /\ q \in Queues(Blocks, Nat) /\ q.items = <<>> /\ q.capacity = capacity
    BY ONLY <2>0, EnabledFields
  <2>2. /\ queue' = [queue EXCEPT ![r] = q]
        /\ registered' = registered \cup {r} /\ capacity' = capacity
    BY <1>13 DEF Request, sourceVars
  <2> HIDE DEF q
  <2>3. queue' \in [Readers -> Queues(Blocks, Nat)]
    BY <1>4, <2>1, <2>2 DEF QueueTypes
  <2>4. ASSUME NEW t \in registered'
        PROVE  /\ queue'[t].capacity \in Capacities \cup {DefaultCapacity}
               /\ Len(queue'[t].items) <= queue'[t].capacity
    <3>1. CASE t = r
      <4>1. queue'[t] = q
        BY <3>1, <2>2, <1>4 DEF QueueTypes
      <4> QED
        BY <4>1, <2>1, <1>1
    <3>2. CASE t # r
      <4>1. t \in registered /\ t \in Readers
        BY <3>2, <2>2, <1>2
      <4>2. queue'[t] = queue[t]
        BY <4>1, <3>2, <2>2, <1>4 DEF QueueTypes
      <4> QED
        BY <4>1, <4>2, <1>4 DEF QueueTypes
    <3> QED
      BY <3>1, <3>2
  <2> QED
    BY <1>1, <1>2, <2>2, <2>3, <2>4 DEF QueueTypes
<1>14. ASSUME NEW r \in Readers, EnablePop(r)
       PROVE  QueueTypes'
  <2> DEFINE q == PopEnabled(queue[r])
  <2>1. /\ q \in Queues(Blocks, Nat) /\ q.items = queue[r].items
        /\ q.capacity = queue[r].capacity
    BY <1>2, SwitchedFields
  <2>2. /\ queue' = [queue EXCEPT ![r] = q]
        /\ registered' = registered /\ capacity' = capacity
    BY <1>14 DEF EnablePop, sourceVars
  <2> HIDE DEF q
  <2>3. r \in registered => Len(q.items) <= q.capacity
    BY <2>1, <1>4 DEF QueueTypes
  <2> QED
    BY <1>4, <2>1, <2>2, <2>3, QueueReplaced
<1>15. ASSUME NEW r \in Readers, CancelDisablePop(r)
       PROVE  QueueTypes'
  <2> DEFINE q == PopDisabled(queue[r])
  <2>1. /\ q \in Queues(Blocks, Nat) /\ q.items = queue[r].items
        /\ q.capacity = queue[r].capacity
    BY <1>2, SwitchedFields
  <2>2. /\ queue' = [queue EXCEPT ![r] = q]
        /\ registered' = registered /\ capacity' = capacity
    BY <1>15 DEF CancelDisablePop, sourceVars
  <2> HIDE DEF q
  <2>3. r \in registered => Len(q.items) <= q.capacity
    BY <2>1, <1>4 DEF QueueTypes
  <2> QED
    BY <1>4, <2>1, <2>2, <2>3, QueueReplaced
<1>16. ASSUME NEW r \in Readers, Pop(r)
       PROVE  QueueTypes'
  <2> DEFINE q == Popped(queue[r])
  <2>1. /\ q \in Queues(Blocks, Nat) /\ q.capacity = queue[r].capacity
        /\ q.items = IF Takes(queue[r]) THEN Tail(queue[r].items)
                                        ELSE queue[r].items
    BY <1>2, PoppedFields
  <2>2. /\ queue' = [queue EXCEPT ![r] = q]
        /\ registered' = registered /\ capacity' = capacity
    BY <1>16 DEF Pop, sourceVars
  <2> HIDE DEF q
  <2>3. Takes(queue[r]) => Len(Tail(queue[r].items)) <= Len(queue[r].items)
    BY <1>3 DEF Takes
  <2>4. r \in registered => Len(queue[r].items) <= queue[r].capacity
    BY <1>4 DEF QueueTypes
  <2>5. Len(queue[r].items) \in Nat /\ queue[r].capacity \in Nat
        /\ (Takes(queue[r]) => Len(Tail(queue[r].items)) \in Nat)
    BY <1>3 DEF Takes
  <2>6. r \in registered => Len(q.items) <= q.capacity
    BY <2>1, <2>3, <2>4, <2>5
  <2> QED
    BY <1>4, <2>1, <2>2, <2>6, QueueReplaced
<1>17. ASSUME UNCHANGED vars
       PROVE  QueueTypes'
  BY <1>1, <1>5, <1>17 DEF vars, sourceVars
<1>18. ASSUME NEW r \in Readers,
              ReaderStep(r) \/ DownstreamEnds(r) \/ SwitchOn(r) \/ CancelRun(r)
                \/ ControlStep(r)
       PROVE  QueueTypes'
  BY <1>1, <1>5, <1>13, <1>14, <1>15, <1>16, <1>18, ReaderQueueSteps
<1> QED
  BY <1>6, <1>7, <1>12, <1>17, <1>18 DEF Next

\* The blocklist and the rows have their types when that of one reader changes.
LEMMA ReaderReplaced ==
  ASSUME ReaderTypes, NEW r \in Readers, NEW p \in ReaderPlaces,
         NEW h \in Seq(Byte), NEW o \in Seq(Seq(Byte)),
         stupid' = stupid, pc' = [pc EXCEPT ![r] = p],
         have' = [have EXCEPT ![r] = h], out' = [out EXCEPT ![r] = o],
         \A t \in Readers : t \in registered /\ t # r => t \in registered',
         p \in {"check", "enable", "pop", "push"} => r \in registered',
         p = "push" => Enough(r, h)
  PROVE  ReaderTypes'
<1>1. /\ pc' \in [Readers -> ReaderPlaces]
      /\ have' \in [Readers -> Seq(Byte)] /\ out' \in [Readers -> Seq(Seq(Byte))]
      /\ stupid' \subseteq Readers
  BY DEF ReaderTypes
<1>2. ASSUME NEW t \in Readers
      PROVE  /\ pc'[t] \in {"check", "enable", "pop", "push"} => t \in registered'
             /\ pc'[t] = "push" => Enough(t, have[t])'
  <2>1. CASE t = r
    <3>1. pc'[t] = p /\ have'[t] = h
      BY <2>1 DEF ReaderTypes
    <3> QED
      BY <2>1, <3>1 DEF Enough
  <2>2. CASE t # r
    <3>1. pc'[t] = pc[t] /\ have'[t] = have[t]
      BY <2>2 DEF ReaderTypes
    <3>2. Enough(t, have[t]) => Enough(t, have[t])'
      BY <3>1 DEF Enough
    <3> QED
      BY <2>2, <3>1, <3>2 DEF ReaderTypes
  <2> QED
    BY <2>1, <2>2
<1> QED
  BY <1>1, <1>2 DEF ReaderTypes

\* The same when only its place in the code changes.
LEMMA ReaderMoved ==
  ASSUME ReaderTypes, NEW r \in Readers, NEW p \in ReaderPlaces \ {"push"},
         Goto(r, p), UNCHANGED <<stupid, have, out>>,
         \A t \in Readers : t \in registered /\ t # r => t \in registered',
         p \in {"check", "enable", "pop"} => r \in registered'
  PROVE  ReaderTypes'
<1>1. have[r] \in Seq(Byte) /\ out[r] \in Seq(Seq(Byte))
  BY DEF ReaderTypes
<1>2. have' = [have EXCEPT ![r] = have[r]] /\ out' = [out EXCEPT ![r] = out[r]]
  BY DEF ReaderTypes
<1>3. pc' = [pc EXCEPT ![r] = p] /\ stupid' = stupid
  BY DEF Goto
<1> QED
  BY <1>1, <1>2, <1>3, ReaderReplaced

\* A sequence that is given element by element.
LEMMA Given ==
  ASSUME NEW S, NEW n \in Nat, NEW c, c = [i \in 1..n |-> c[i]],
         \A i \in 1..n : c[i] \in S
  PROVE  c \in Seq(S) /\ Len(c) = n
<1>1. c \in [1..n -> S]
  OBVIOUS
<1>2. c \in Seq(S) /\ DOMAIN c = 1..n
  BY <1>1
<1> QED
  BY <1>2, LenProperties

\* The bytes of a block.
LEMMA BytesOfBlock ==
  ASSUME InterchainAssumption, NEW b \in Blocks
  PROVE  /\ BytesOf(b) \in Seq(Byte) /\ BytesOf(b) # <<>>
         /\ Len(BytesOf(b)) = b.size /\ b.size \in Nat
         /\ \A k \in 1..b.size : BytesOf(b)[k] = <<b.transfer, b.number, k>>
<1> DEFINE c == BytesOf(b)
           n == b.size
<1>1. n \in Nat /\ n # 0 /\ b.number \in 1..MaxBlocks
      /\ b.transfer \in 1..MaxTransfers
  BY DEF Blocks, InterchainAssumption
<1>2. c = [i \in 1..n |-> c[i]] /\ \A i \in 1..n : c[i] = <<b.transfer, b.number, i>>
  BY DEF BytesOf
<1> HIDE DEF c, n
<1>3. ASSUME NEW i \in 1..n
      PROVE  c[i] \in Byte
  <2>1. i \in Nat \ {0}
    BY <1>1
  <2>2. <<b.transfer, b.number, i>> \in Byte
    BY <1>1, <2>1 DEF Byte
  <2> QED
    BY <1>2, <2>2
<1>4. c \in Seq(Byte) /\ Len(c) = n
  BY ONLY <1>1, <1>2, <1>3, Given
<1>5. c # <<>>
  BY <1>1, <1>4
<1> QED
  BY <1>1, <1>2, <1>4, <1>5 DEF c, n

\* A pop appends the bytes of the first block, or nothing.
LEMMA PopTypes ==
  ASSUME InterchainAssumption, Types, NEW r \in Readers, Pop(r)
  PROVE  ReaderTypes'
<1>1. /\ pc[r] = "pop" /\ stupid' = stupid /\ out' = out
      /\ registered' = registered
  BY DEF Pop, flagVars
<1>2. r \in registered /\ ReaderTypes
  BY <1>1 DEF Types, ReaderTypes
<1>3. ASSUME Takes(queue[r])
      PROVE  ReaderTypes'
  <2> DEFINE b == Head(queue[r].items)
             h == have[r] \o BytesOf(b)
             p == IF Enough(r, h) THEN "push" ELSE "pop"
  <2>1. queue[r].items \in Seq(Blocks) /\ queue[r].items # <<>>
    BY <1>3 DEF Takes, Types, QueueTypes, Queues
  <2>2. b \in Blocks
    BY <2>1
  <2>3. BytesOf(b) \in Seq(Byte)
    BY <2>2, BytesOfBlock
  <2>4. have[r] \in Seq(Byte) /\ out[r] \in Seq(Seq(Byte))
    BY <1>2 DEF ReaderTypes
  <2>5. have' = [have EXCEPT ![r] = h]
    BY <1>3 DEF Pop
  <2>6. have'[r] = h
    BY <2>5, <1>2 DEF ReaderTypes
  <2>7. pc' = [pc EXCEPT ![r] = p]
    BY <1>3, <2>6 DEF Pop, Goto
  <2>8. h \in Seq(Byte)
    BY <2>3, <2>4
  <2>9. p \in {"push", "pop"} /\ (p = "push" => Enough(r, h))
    OBVIOUS
  <2>10. out' = [out EXCEPT ![r] = out[r]]
    BY <1>1, <1>2 DEF ReaderTypes
  <2> HIDE DEF h, p
  <2>11. p \in ReaderPlaces
    BY <2>9 DEF ReaderPlaces
  <2> QED
    BY <1>1, <1>2, <2>4, <2>5, <2>7, <2>8, <2>9, <2>10, <2>11, ReaderReplaced
<1>4. ASSUME ~Takes(queue[r])
      PROVE  ReaderTypes'
  <2> DEFINE p == IF r \in stupid THEN "enable" ELSE "check"
  <2>1. Goto(r, p) /\ have' = have
    BY <1>4 DEF Pop
  <2>2. p \in ReaderPlaces \ {"push"}
    BY DEF ReaderPlaces
  <2> HIDE DEF p
  <2> QED
    BY <1>1, <1>2, <2>1, <2>2, ReaderMoved
<1> QED
  BY <1>3, <1>4

\* What is pushed is the beginning of the blocklist; the rest stays.
LEMMA PushOutSteps ==
  ASSUME InterchainAssumption, Types, NEW r \in Readers, PushOut(r)
  PROVE  \/ out_open[r] = FALSE /\ Goto(r, "ended") /\ UNCHANGED <<out, have>>
         \/ \E n \in 1..Len(have[r]) :
              /\ out' = [out EXCEPT ![r] = Append(@, SubSeq(have[r], 1, n))]
              /\ have' = [have EXCEPT ![r] = SubSeq(@, n + 1, Len(@))]
              /\ Goto(r, IF Enough(r, have'[r]) THEN "push" ELSE "pop")
<1>1. pc[r] = "push" /\ out_open[r] \in BOOLEAN /\ have[r] \in Seq(Byte)
  BY DEF PushOut, Types, FlagTypes, ReaderTypes
<1>2. Enough(r, have[r])
  BY <1>1 DEF Types, ReaderTypes
<1>3. CASE ~out_open[r]
  BY <1>1, <1>3 DEF PushOut
<1>4. CASE out_open[r]
  <2> DEFINE n == IF r \in stupid THEN Len(have[r]) ELSE OutSize
  <2>1. n \in 1..Len(have[r])
    <3>1. OutSize \in Nat \ {0} /\ Len(have[r]) \in Nat
      BY <1>1 DEF InterchainAssumption
    <3>2. CASE r \in stupid
      <4>1. have[r] # <<>>
        BY <3>2, <1>2 DEF Enough
      <4>2. Len(have[r]) # 0
        BY <4>1, <1>1
      <4> QED
        BY <3>1, <3>2, <4>2
    <3>3. CASE r \notin stupid
      BY <3>1, <3>3, <1>2 DEF Enough
    <3> QED
      BY <3>2, <3>3
  <2>2. /\ out' = [out EXCEPT ![r] = Append(@, SubSeq(have[r], 1, n))]
        /\ have' = [have EXCEPT ![r] = SubSeq(@, n + 1, Len(@))]
        /\ Goto(r, IF Enough(r, have'[r]) THEN "push" ELSE "pop")
    BY <1>4 DEF PushOut
  <2> HIDE DEF n
  <2> QED
    BY <2>1, <2>2
<1> QED
  BY <1>3, <1>4

LEMMA PushOutTypes ==
  ASSUME InterchainAssumption, Types, NEW r \in Readers, PushOut(r)
  PROVE  ReaderTypes'
<1>1. /\ pc[r] = "push" /\ stupid' = stupid /\ registered' = registered
  BY DEF PushOut, flagVars
<1>2. /\ r \in registered /\ ReaderTypes
      /\ have[r] \in Seq(Byte) /\ out[r] \in Seq(Seq(Byte))
  BY <1>1 DEF Types, ReaderTypes
<1>3. ASSUME Goto(r, "ended"), UNCHANGED <<out, have>>
      PROVE  ReaderTypes'
  <2>1. "ended" \in ReaderPlaces \ {"push"}
    BY DEF ReaderPlaces
  <2> QED
    BY <1>1, <1>2, <1>3, <2>1, ReaderMoved
<1>4. ASSUME NEW n \in 1..Len(have[r]),
             out' = [out EXCEPT ![r] = Append(@, SubSeq(have[r], 1, n))],
             have' = [have EXCEPT ![r] = SubSeq(@, n + 1, Len(@))],
             Goto(r, IF Enough(r, have'[r]) THEN "push" ELSE "pop")
      PROVE  ReaderTypes'
  <2> DEFINE h == SubSeq(have[r], n + 1, Len(have[r]))
             o == Append(out[r], SubSeq(have[r], 1, n))
             p == IF Enough(r, h) THEN "push" ELSE "pop"
  <2>1. h \in Seq(Byte) /\ SubSeq(have[r], 1, n) \in Seq(Byte)
    BY <1>2
  <2>2. o \in Seq(Seq(Byte))
    BY <2>1, <1>2
  <2>3. out' = [out EXCEPT ![r] = o] /\ have' = [have EXCEPT ![r] = h]
    BY <1>4
  <2>4. have'[r] = h
    BY <2>3, <1>2 DEF ReaderTypes
  <2>5. pc' = [pc EXCEPT ![r] = p]
    BY <1>4, <2>4 DEF Goto
  <2>6. p \in {"push", "pop"} /\ (p = "push" => Enough(r, h))
    OBVIOUS
  <2> HIDE DEF h, o, p
  <2>7. p \in ReaderPlaces
    BY <2>6 DEF ReaderPlaces
  <2> QED
    BY <1>1, <1>2, <2>1, <2>2, <2>3, <2>5, <2>6, <2>7, ReaderReplaced
<1> QED
  BY <1>3, <1>4, PushOutSteps

\* Steps that leave the readers alone.
LEMMA SourceLeavesReaders ==
  ASSUME StartTransfer \/ BeginPush \/ BeginDisable \/ SourceStep
  PROVE  UNCHANGED <<registered, readerVars, flagVars, out_open, controlVars>>
<1>1. ASSUME StartTransfer \/ BeginPush \/ BeginDisable \/ BeginEnable
      PROVE  UNCHANGED <<registered, readerVars, flagVars, out_open, controlVars>>
  BY <1>1 DEF StartTransfer, BeginPush, BeginDisable, BeginEnable
<1>2. ASSUME NEW from, NEW to, EndWalk(from, to)
      PROVE  UNCHANGED <<registered, readerVars, flagVars, out_open, controlVars>>
  BY <1>2 DEF EndWalk
<1>3. ASSUME NEW how, NEW r \in todo, NEW q, Visited(how, r, q)
      PROVE  UNCHANGED <<registered, readerVars, flagVars, out_open, controlVars>>
  BY <1>3 DEF Visited
<1> QED
  BY <1>1, <1>2, <1>3, SourceSteps

LEMMA CommandsLeaveReaders ==
  ASSUME NEW r \in Readers,
         DownstreamEnds(r) \/ SwitchOn(r) \/ CancelRun(r) \/ ControlStep(r)
  PROVE  UNCHANGED <<registered, readerVars, stupid, source_queue>>
  BY DEF DownstreamEnds, SwitchOn, CancelRun, ControlStep, CancelLook,
     CancelDisablePop, CancelFlag, CloseOut, flagVars

LEMMA ReaderTypesStep ==
  ASSUME InterchainAssumption, Types, [Next]_vars
  PROVE  ReaderTypes'
<1>1. ReaderTypes /\ registered \subseteq Readers
  BY DEF Types, QueueTypes
<1>2. ASSUME UNCHANGED <<registered, readerVars, stupid>>
      PROVE  ReaderTypes'
  BY <1>1, <1>2 DEF readerVars, ReaderTypes, Enough
<1>3. ASSUME StartTransfer \/ BeginPush \/ BeginDisable \/ SourceStep
      PROVE  ReaderTypes'
  BY <1>2, <1>3, SourceLeavesReaders DEF flagVars
<1>4. ASSUME NEW r \in Readers,
             DownstreamEnds(r) \/ SwitchOn(r) \/ CancelRun(r) \/ ControlStep(r)
      PROVE  ReaderTypes'
  BY <1>2, <1>4, CommandsLeaveReaders
<1>5. ASSUME NEW r \in Readers, StartReading(r)
      PROVE  ReaderTypes'
  <2> DEFINE p == IF cancelled[r] THEN "ended" ELSE "request"
  <2>1. /\ Goto(r, p) /\ UNCHANGED <<stupid, have, out>>
        /\ registered' = registered
    BY <1>5 DEF StartReading, flagVars
  <2>2. p \in ReaderPlaces \ {"push"} /\ p \notin {"check", "enable", "pop"}
    BY DEF ReaderPlaces
  <2> HIDE DEF p
  <2> QED
    BY <1>1, <2>1, <2>2, ReaderMoved
<1>6. ASSUME NEW r \in Readers, Request(r)
      PROVE  ReaderTypes'
  <2> DEFINE p == IF r \in stupid THEN "enable" ELSE "check"
  <2>1. /\ Goto(r, p) /\ UNCHANGED <<stupid, have, out>>
        /\ registered' = registered \cup {r}
    BY <1>6 DEF Request
  <2>2. p \in ReaderPlaces \ {"push"}
    BY DEF ReaderPlaces
  <2> HIDE DEF p
  <2> QED
    BY <1>1, <2>1, <2>2, ReaderMoved
<1>7. ASSUME NEW r \in Readers, EnablePop(r)
      PROVE  ReaderTypes'
  <2> DEFINE p == IF r \in stupid THEN "check" ELSE "pop"
  <2>1. /\ pc[r] = "enable" /\ pc' = [pc EXCEPT ![r] = p] /\ stupid' = stupid
        /\ out' = out /\ have' = [have EXCEPT ![r] = <<>>]
        /\ registered' = registered
    BY <1>7 DEF EnablePop, Goto, flagVars
  <2>2. p \in ReaderPlaces /\ p # "push"
    BY DEF ReaderPlaces
  <2> HIDE DEF p
  <2>3. out[r] \in Seq(Seq(Byte)) /\ out' = [out EXCEPT ![r] = out[r]]
        /\ r \in registered
    BY <1>1, <2>1 DEF ReaderTypes
  <2>4. <<>> \in Seq(Byte)
    OBVIOUS
  <2> QED
    BY <1>1, <2>1, <2>2, <2>3, <2>4, ReaderReplaced
<1>8. ASSUME NEW r \in Readers, Check(r)
      PROVE  ReaderTypes'
  <2> DEFINE p == IF ~run[r] \/ cancelled[r] THEN "ended"
                  ELSE IF r \in stupid THEN "pop" ELSE "enable"
  <2>1. /\ Goto(r, p) /\ UNCHANGED <<stupid, have, out>>
        /\ registered' = registered /\ pc[r] = "check"
    BY <1>8 DEF Check, flagVars
  <2>2. p \in ReaderPlaces \ {"push"}
    BY DEF ReaderPlaces
  <2>3. r \in registered
    BY <1>1, <2>1 DEF ReaderTypes
  <2> HIDE DEF p
  <2> QED
    BY <1>1, <2>1, <2>2, <2>3, ReaderMoved
<1>9. ASSUME NEW r \in Readers, Leave(r)
      PROVE  ReaderTypes'
  <2>1. /\ Goto(r, "finals") /\ UNCHANGED <<stupid, have, out>>
        /\ registered' = registered
    BY <1>9 DEF Leave, flagVars
  <2>2. "finals" \in ReaderPlaces \ {"push"}
    BY DEF ReaderPlaces
  <2> QED
    BY <1>1, <2>1, <2>2, ReaderMoved
<1>10. ASSUME NEW r \in Readers, RemoveQueue(r)
       PROVE  ReaderTypes'
  <2> DEFINE p == IF source_queue[r] THEN "removed" ELSE "done"
  <2>1. /\ Goto(r, p) /\ UNCHANGED <<stupid, have, out>>
        /\ registered' = registered \ {r}
    BY <1>10 DEF RemoveQueue, flagVars
  <2>2. p \in ReaderPlaces \ {"push"} /\ p \notin {"check", "enable", "pop"}
    BY DEF ReaderPlaces
  <2> HIDE DEF p
  <2> QED
    BY <1>1, <2>1, <2>2, ReaderMoved
<1>11. ASSUME NEW r \in Readers, ForgetQueue(r)
       PROVE  ReaderTypes'
  <2>1. /\ Goto(r, "done") /\ UNCHANGED <<stupid, have, out>>
        /\ registered' = registered
    BY <1>11 DEF ForgetQueue
  <2>2. "done" \in ReaderPlaces \ {"push"}
    BY DEF ReaderPlaces
  <2> QED
    BY <1>1, <2>1, <2>2, ReaderMoved
<1>12. ASSUME NEW r \in Readers, ReaderStep(r)
       PROVE  ReaderTypes'
  BY <1>5, <1>6, <1>7, <1>8, <1>9, <1>10, <1>11, <1>12, PopTypes, PushOutTypes
     DEF ReaderStep
<1>13. ASSUME UNCHANGED vars
       PROVE  ReaderTypes'
  BY <1>2, <1>13 DEF vars, flagVars
<1> QED
  BY <1>3, <1>4, <1>12, <1>13 DEF Next

LEMMA FlagTypesStep ==
  ASSUME InterchainAssumption, Types, [Next]_vars
  PROVE  FlagTypes'
<1> USE DEF ControlPlaces
<1>1. /\ FlagTypes
      /\ \A r \in Readers : Len(Commands[r]) \in Nat
  <2>1. \A r \in Readers : Commands[r] \in Seq({"flush", "stop"})
    BY DEF InterchainAssumption
  <2> QED
    BY <2>1 DEF Types
<1>2. ASSUME UNCHANGED <<run, cancelled, source_queue, out_open, cpc, ncommand>>
      PROVE  FlagTypes'
  BY <1>1, <1>2 DEF FlagTypes
<1>3. ASSUME StartTransfer \/ BeginPush \/ BeginDisable \/ SourceStep
      PROVE  FlagTypes'
  BY <1>2, <1>3, SourceLeavesReaders DEF flagVars, controlVars
<1>4. ASSUME NEW r \in Readers, ReaderStep(r)
      PROVE  FlagTypes'
  <2>1. ASSUME Request(r)
        PROVE  FlagTypes'
    BY <1>1, <2>1 DEF Request, FlagTypes, controlVars
  <2>2. ASSUME ForgetQueue(r)
        PROVE  FlagTypes'
    BY <1>1, <2>2 DEF ForgetQueue, FlagTypes, controlVars
  <2>3. ASSUME StartReading(r) \/ EnablePop(r) \/ Check(r) \/ Pop(r) \/ PushOut(r)
               \/ Leave(r) \/ RemoveQueue(r)
        PROVE  FlagTypes'
    <3>1. UNCHANGED <<flagVars, out_open, controlVars>>
      BY <2>3 DEF StartReading, EnablePop, Check, Pop, PushOut, Leave, RemoveQueue
    <3> QED
      BY <1>2, <3>1 DEF flagVars, controlVars
  <2> QED
    BY <1>4, <2>1, <2>2, <2>3 DEF ReaderStep
<1>5. ASSUME NEW r \in Readers, DownstreamEnds(r)
      PROVE  FlagTypes'
  BY <1>1, <1>5 DEF DownstreamEnds, FlagTypes, flagVars, controlVars
<1>6. ASSUME NEW r \in Readers, SwitchOn(r)
      PROVE  FlagTypes'
  BY <1>1, <1>6 DEF SwitchOn, Control, FlagTypes
<1>7. ASSUME NEW r \in Readers, CancelRun(r)
      PROVE  FlagTypes'
  <2>1. /\ ncommand[r] < Len(Commands[r])
        /\ ncommand' = [ncommand EXCEPT ![r] = @ + 1]
        /\ cpc' = [cpc EXCEPT ![r] = "look"] /\ run' = [run EXCEPT ![r] = FALSE]
        /\ UNCHANGED <<cancelled, source_queue, out_open>>
    BY <1>7 DEF CancelRun, Control
  <2>2. ncommand[r] \in Nat /\ ncommand \in [Readers -> Nat]
        /\ Len(Commands[r]) \in Nat
        /\ \A t \in Readers : ncommand[t] <= Len(Commands[t])
    BY <1>1 DEF FlagTypes
  <2>3. ncommand[r] + 1 \in Nat /\ ncommand[r] + 1 <= Len(Commands[r])
    BY <2>1, <2>2
  <2>4. /\ ncommand' \in [Readers -> Nat]
        /\ \A t \in Readers : ncommand'[t] <= Len(Commands[t])
    BY <2>1, <2>2, <2>3
  <2>5. /\ cpc' \in [Readers -> ControlPlaces] /\ run' \in [Readers -> BOOLEAN]
        /\ cancelled' \in [Readers -> BOOLEAN]
        /\ source_queue' \in [Readers -> BOOLEAN]
        /\ out_open' \in [Readers -> BOOLEAN]
    BY <1>1, <2>1 DEF FlagTypes
  <2> QED
    BY <2>4, <2>5 DEF FlagTypes
<1>8. ASSUME NEW r \in Readers, CancelLook(r)
      PROVE  FlagTypes'
  <2>1. PICK w \in {"disable_pop", "flag"} : cpc' = [cpc EXCEPT ![r] = w]
    BY <1>8 DEF CancelLook, Control
  <2>2. UNCHANGED <<run, cancelled, source_queue, out_open, ncommand>>
    BY <1>8 DEF CancelLook, flagVars
  <2> QED
    BY <1>1, <2>1, <2>2 DEF FlagTypes
<1>9. ASSUME NEW r \in Readers, CancelDisablePop(r)
      PROVE  FlagTypes'
  BY <1>1, <1>9 DEF CancelDisablePop, Control, FlagTypes, flagVars
<1>10. ASSUME NEW r \in Readers, CancelFlag(r)
       PROVE  FlagTypes'
  <2>1. /\ cpc' = [cpc EXCEPT ![r] = "close"]
        /\ UNCHANGED <<run, source_queue, out_open, ncommand>>
    BY <1>10 DEF CancelFlag, Control
  <2>2. cancelled' \in [Readers -> BOOLEAN]
    <3> DEFINE c == cancelled[r] \/ Commands[r][ncommand[r]] = "stop"
    <3>1. cancelled' = [cancelled EXCEPT ![r] = c]
      BY <1>10 DEF CancelFlag
    <3>2. c \in BOOLEAN
      OBVIOUS
    <3> HIDE DEF c
    <3> QED
      BY <1>1, <3>1, <3>2 DEF FlagTypes
  <2> QED
    BY <1>1, <2>1, <2>2 DEF FlagTypes
<1>11. ASSUME NEW r \in Readers, CloseOut(r)
       PROVE  FlagTypes'
  BY <1>1, <1>11 DEF CloseOut, Control, FlagTypes, flagVars
<1>12. ASSUME UNCHANGED vars
       PROVE  FlagTypes'
  BY <1>2, <1>12 DEF vars, flagVars, controlVars
<1> QED
  BY <1>3, <1>4, <1>5, <1>6, <1>7, <1>8, <1>9, <1>10, <1>11, <1>12
     DEF Next, ControlStep

LEMMA TypesStep ==
  ASSUME InterchainAssumption, Types, [Next]_vars
  PROVE  Types'
  BY SourceTypesStep, QueueTypesStep, ReaderTypesStep, FlagTypesStep DEF Types

\* TypeOK is what the runs check; it says less of the queues that nobody uses.
LEMMA TypesImplyTypeOK ==
  ASSUME InterchainAssumption, Types
  PROVE  TypeOK
<1>1. \A r \in Readers : Len(Commands[r]) \in Nat
  <2>1. \A r \in Readers : Commands[r] \in Seq({"flush", "stop"})
    BY DEF InterchainAssumption
  <2> QED
    BY <2>1
<1>2. \A r \in Readers : ncommand[r] \in 0..Len(Commands[r])
  BY <1>1 DEF Types, FlagTypes
<1>3. ASSUME NEW r \in registered
      PROVE  /\ queue[r] \in Queues(Blocks, Capacities \cup {DefaultCapacity})
             /\ Len(queue[r].items) <= queue[r].capacity
  BY <1>3 DEF Types, QueueTypes, Queues
<1>4. \A r \in Readers : have[r] \in Seq(Byte) /\ out[r] \in Seq(Seq(Byte))
  BY DEF Types, ReaderTypes
<1>5. /\ stupid \subseteq Readers
      /\ registered \subseteq Readers /\ todo \subseteq registered
      /\ spc \in {"idle", "starting", "enabling", "running", "pushing", "disabling"}
      /\ transfers \in 0..MaxTransfers /\ blocks \in 0..MaxBlocks
  BY DEF Types, SourceTypes, QueueTypes, ReaderTypes, SourcePlaces
<1>6. /\ pc \in [Readers -> ReaderPlaces] /\ cpc \in [Readers -> ControlPlaces]
      /\ run \in [Readers -> BOOLEAN] /\ cancelled \in [Readers -> BOOLEAN]
      /\ source_queue \in [Readers -> BOOLEAN]
      /\ out_open \in [Readers -> BOOLEAN]
  BY DEF Types, ReaderTypes, FlagTypes
<1> QED
  BY <1>2, <1>3, <1>4, <1>5, <1>6 DEF TypeOK, ReaderPlaces, ControlPlaces

-----------------------------------------------------------------------------
(* Every step does one of the things of Change to a reader.                *)

\* A queue is replaced: nothing happens to the readers that do not own it.
LEMMA OthersSame ==
  ASSUME QueueTypes, NEW r \in Readers, NEW t \in Readers, t # r, NEW q,
         queue' = [queue EXCEPT ![r] = q], have'[t] = have[t], out'[t] = out[t]
  PROVE  Change(t)
<1>1. queue'[t] = queue[t]
  BY DEF QueueTypes
<1> QED
  BY <1>1 DEF Change, Same, NotReopened

\* The owner of a queue that is replaced by an empty one, or one that is
\* switched.
LEMMA OwnerChange ==
  ASSUME QueueTypes, NEW r \in Readers, NEW q,
         queue' = [queue EXCEPT ![r] = q], have'[r] = have[r], out'[r] = out[r],
         q.items = <<>> \/ q.items = queue[r].items,
         q.enable_pop => queue[r].enable_pop
  PROVE  Change(r)
<1>1. queue'[r] = q
  BY DEF QueueTypes
<1> QED
  BY <1>1 DEF Change, Same, Emptied, NotReopened

LEMMA SourceChange ==
  ASSUME InterchainAssumption, Types, NEW t \in Readers,
         StartTransfer \/ BeginPush \/ BeginDisable \/ SourceStep
  PROVE  Change(t)
<1>1. UNCHANGED <<have, out>>
  BY SourceLeavesReaders DEF readerVars
<1>2. QueueTypes /\ todo \subseteq Readers
      /\ \A r \in Readers : queue[r] \in Queues(Blocks, Nat)
  BY DEF Types, QueueTypes, SourceTypes
<1>3. ASSUME UNCHANGED queue
      PROVE  Change(t)
  BY <1>1, <1>3 DEF Change, Same, NotReopened
<1>4. ASSUME StartTransfer \/ BeginPush \/ BeginDisable \/ BeginEnable
      PROVE  Change(t)
  BY <1>3, <1>4 DEF StartTransfer, BeginPush, BeginDisable, BeginEnable
<1>5. ASSUME NEW from, NEW to, EndWalk(from, to)
      PROVE  Change(t)
  BY <1>3, <1>5 DEF EndWalk
<1>6. ASSUME NEW r \in todo, NEW how, NEW q, Visited(how, r, q), r # t
      PROVE  Change(t)
  <2>1. r \in Readers /\ queue' = [queue EXCEPT ![r] = q]
    BY <1>2, <1>6 DEF Visited
  <2> QED
    BY <1>1, <1>2, <1>6, <2>1, OthersSame
<1>7. ASSUME t \in todo,
             Visited("enabling", t, ResizeEnabledPush(queue[t], capacity))
      PROVE  Change(t)
  <2> DEFINE q == ResizeEnabledPush(queue[t], capacity)
  <2>1. queue[t] \in Queues(Blocks, Nat) /\ capacity \in Nat /\ capacity # 0
    BY <1>2 DEF Types, QueueTypes, InterchainAssumption
  <2>2. q.items = <<>> /\ q.enable_pop = queue[t].enable_pop
    BY ONLY <2>1, EnabledFields
  <2>3. queue' = [queue EXCEPT ![t] = q]
    BY <1>7 DEF Visited
  <2> HIDE DEF q
  <2> QED
    BY <1>1, <1>2, <2>2, <2>3, OwnerChange
<1>8. ASSUME t \in todo, Visited("disabling", t, Disabled(queue[t]))
      PROVE  Change(t)
  <2> DEFINE q == Disabled(queue[t])
  <2>1. q.items = <<>> /\ q.enable_pop = FALSE
    BY <1>2, DisabledFields
  <2>2. queue' = [queue EXCEPT ![t] = q]
    BY <1>8 DEF Visited
  <2> HIDE DEF q
  <2> QED
    BY <1>1, <1>2, <2>1, <2>2, OwnerChange
<1>9. ASSUME t \in todo, Visited("pushing", t, TryPushed(queue[t], block))
      PROVE  Change(t)
  <2> DEFINE q == TryPushed(queue[t], block)
  <2>1. /\ spc = "pushing" /\ queue' = [queue EXCEPT ![t] = q]
        /\ todo' = todo \ {t}
    BY <1>9 DEF Visited
  <2>2. block \in Blocks
    BY <2>1 DEF Types, SourceTypes
  <2>3. /\ q.enable_pop = queue[t].enable_pop
        /\ q.items = queue[t].items \/ q.items = Append(queue[t].items, block)
    BY <1>2, <2>2, TryPushedFields
  <2>4. queue'[t] = q
    BY <1>2, <2>1 DEF QueueTypes
  <2> HIDE DEF q
  <2>5. NotReopened(t)
    BY <2>3, <2>4 DEF NotReopened
  <2>6. CASE q.items = queue[t].items
    BY <1>1, <2>4, <2>5, <2>6 DEF Change, Same
  <2>7. CASE q.items = Append(queue[t].items, block)
    BY <1>1, <1>9, <2>1, <2>4, <2>5, <2>7 DEF Change, Received
  <2> QED
    BY <2>3, <2>6, <2>7
<1> QED
  BY <1>4, <1>5, <1>6, <1>7, <1>8, <1>9, SourceSteps

\* A reader that pops or pushes.
LEMMA PopChange ==
  ASSUME InterchainAssumption, Types, NEW r \in Readers, Pop(r)
  PROVE  Change(r)
<1> DEFINE q == Popped(queue[r])
<1>1. /\ queue \in [Readers -> Queues(Blocks, Nat)] /\ have \in [Readers -> Seq(Byte)]
      /\ pc[r] = "pop" => r \in registered
  BY DEF Types, QueueTypes, ReaderTypes
<1>2. /\ pc[r] = "pop" /\ queue' = [queue EXCEPT ![r] = q] /\ out' = out
  BY DEF Pop
<1>3. queue'[r] = q
  BY <1>1, <1>2
<1>4. /\ q.items = IF Takes(queue[r]) THEN Tail(queue[r].items)
                                      ELSE queue[r].items
      /\ q.enable_pop => queue[r].enable_pop
  BY <1>1, PoppedFields
<1> HIDE DEF q
<1>5. NotReopened(r) /\ r \in registered
  BY <1>1, <1>2, <1>3, <1>4 DEF NotReopened
<1>6. CASE Takes(queue[r])
  <2>1. have' = [have EXCEPT ![r] = @ \o BytesOf(Head(queue[r].items))]
    BY <1>6 DEF Pop
  <2>2. have'[r] = have[r] \o BytesOf(Head(queue[r].items))
    BY <2>1, <1>1
  <2>3. queue[r].enable_pop /\ queue[r].items # <<>>
    BY <1>6 DEF Takes
  <2> QED
    BY <1>2, <1>3, <1>4, <1>5, <1>6, <2>2, <2>3 DEF Change, Took
<1>7. CASE ~Takes(queue[r])
  <2>1. have' = have
    BY <1>7 DEF Pop
  <2> QED
    BY <1>2, <1>3, <1>4, <1>5, <1>7, <2>1 DEF Change, Same
<1> QED
  BY <1>6, <1>7

LEMMA PushOutChange ==
  ASSUME InterchainAssumption, Types, NEW r \in Readers, PushOut(r)
  PROVE  Change(r)
<1>1. /\ queue' = queue
      /\ out \in [Readers -> Seq(Seq(Byte))] /\ have \in [Readers -> Seq(Byte)]
  BY DEF PushOut, Types, ReaderTypes
<1>2. ASSUME UNCHANGED <<out, have>>
      PROVE  Change(r)
  BY <1>1, <1>2 DEF Change, Same, NotReopened
<1>3. ASSUME NEW n \in 1..Len(have[r]),
             out' = [out EXCEPT ![r] = Append(@, SubSeq(have[r], 1, n))],
             have' = [have EXCEPT ![r] = SubSeq(@, n + 1, Len(@))]
      PROVE  Change(r)
  <2>1. /\ out'[r] = Append(out[r], SubSeq(have[r], 1, n))
        /\ have'[r] = SubSeq(have[r], n + 1, Len(have[r]))
    BY <1>1, <1>3
  <2>2. PushedOut(r, n) /\ n \in Nat
    BY <1>1, <1>3, <2>1 DEF PushedOut
  <2> QED
    BY <2>2 DEF Change
<1> QED
  BY <1>2, <1>3, PushOutSteps

LEMMA ChangeStep ==
  ASSUME InterchainAssumption, Types, [Next]_vars, NEW t \in Readers
  PROVE  Change(t)
<1>1. /\ QueueTypes /\ queue \in [Readers -> Queues(Blocks, Nat)]
      /\ have \in [Readers -> Seq(Byte)] /\ out \in [Readers -> Seq(Seq(Byte))]
  BY DEF Types, QueueTypes, ReaderTypes
<1>2. ASSUME UNCHANGED <<queue, have, out>>
      PROVE  Change(t)
  BY <1>2 DEF Change, Same, NotReopened
<1>3. ASSUME NEW r \in Readers, Request(r)
      PROVE  Change(t)
  <2> DEFINE q == ResizeEnabledPush(QueueOf(0, FALSE), capacity)
  <2>1. /\ QueueOf(0, FALSE) \in Queues(Blocks, Nat)
        /\ capacity \in Nat /\ capacity # 0
    BY FreshQueue DEF Types, QueueTypes, InterchainAssumption
  <2>2. q.items = <<>> /\ q.enable_pop = QueueOf(0, FALSE).enable_pop
    BY ONLY <2>1, EnabledFields
  <2>3. /\ queue' = [queue EXCEPT ![r] = q] /\ UNCHANGED <<have, out>>
    BY <1>3 DEF Request
  <2> HIDE DEF q
  <2>4. CASE t = r
    BY <1>1, <2>2, <2>3, <2>4, FreshQueue, OwnerChange
  <2>5. CASE t # r
    BY <1>1, <2>3, <2>5, OthersSame
  <2> QED
    BY <2>4, <2>5
<1>4. ASSUME NEW r \in Readers, EnablePop(r)
      PROVE  Change(t)
  <2> DEFINE q == PopEnabled(queue[r])
  <2>1. q.items = queue[r].items
    BY <1>1, SwitchedFields
  <2>2. /\ queue' = [queue EXCEPT ![r] = q] /\ out' = out
        /\ have' = [have EXCEPT ![r] = <<>>]
    BY <1>4 DEF EnablePop
  <2> HIDE DEF q
  <2>3. CASE t = r
    <3>1. queue'[t] = q /\ have'[t] = <<>>
      BY <1>1, <2>2, <2>3
    <3> QED
      BY <2>1, <2>2, <2>3, <3>1 DEF Change, Restarted
  <2>4. CASE t # r
    <3>1. have'[t] = have[t] /\ out'[t] = out[t]
      BY <1>1, <2>2, <2>4
    <3> QED
      BY <1>1, <2>2, <2>4, <3>1, OthersSame
  <2> QED
    BY <2>3, <2>4
<1>5. ASSUME NEW r \in Readers, Pop(r)
      PROVE  Change(t)
  <2>1. CASE t = r
    BY <1>5, <2>1, PopChange
  <2>2. CASE t # r
    <3>1. queue' = [queue EXCEPT ![r] = Popped(queue[r])] /\ out' = out
      BY <1>5 DEF Pop
    <3>2. have'[t] = have[t]
      BY <1>1, <1>5, <2>2 DEF Pop
    <3> QED
      BY <1>1, <2>2, <3>1, <3>2, OthersSame
  <2> QED
    BY <2>1, <2>2
<1>6. ASSUME NEW r \in Readers, PushOut(r)
      PROVE  Change(t)
  <2>1. CASE t = r
    BY <1>6, <2>1, PushOutChange
  <2>2. CASE t # r
    <3>1. queue' = queue /\ have'[t] = have[t] /\ out'[t] = out[t]
      BY <1>1, <1>6, <2>2 DEF PushOut
    <3> QED
      BY <3>1 DEF Change, Same, NotReopened
  <2> QED
    BY <2>1, <2>2
<1>7. ASSUME NEW r \in Readers, CancelDisablePop(r)
      PROVE  Change(t)
  <2> DEFINE q == PopDisabled(queue[r])
  <2>1. q.items = queue[r].items /\ ~q.enable_pop
    BY <1>1, SwitchedFields
  <2>2. /\ queue' = [queue EXCEPT ![r] = q] /\ UNCHANGED <<have, out>>
    BY <1>7 DEF CancelDisablePop, readerVars
  <2> HIDE DEF q
  <2>3. CASE t = r
    BY <1>1, <2>1, <2>2, <2>3, OwnerChange
  <2>4. CASE t # r
    BY <1>1, <2>2, <2>4, OthersSame
  <2> QED
    BY <2>3, <2>4
<1>8. ASSUME NEW r \in Readers,
             StartReading(r) \/ Check(r) \/ Leave(r) \/ RemoveQueue(r) \/ ForgetQueue(r)
      PROVE  Change(t)
  BY <1>2, <1>8 DEF StartReading, Check, Leave, RemoveQueue, ForgetQueue
<1>9. ASSUME NEW r \in Readers,
             DownstreamEnds(r) \/ SwitchOn(r) \/ CancelRun(r) \/ CancelLook(r)
               \/ CancelFlag(r) \/ CloseOut(r)
      PROVE  Change(t)
  BY <1>2, <1>9 DEF DownstreamEnds, SwitchOn, CancelRun, CancelLook, CancelFlag,
     CloseOut, readerVars
<1>10. ASSUME UNCHANGED vars
       PROVE  Change(t)
  BY <1>2, <1>10 DEF vars, readerVars
<1> QED
  BY <1>3, <1>4, <1>5, <1>6, <1>7, <1>8, <1>9, <1>10, SourceChange
     DEF Next, ReaderStep, ControlStep

-----------------------------------------------------------------------------
(* What the source does meanwhile.                                         *)

\* A walk that pushes begins with a new block, and goes on with the rest.
LEMMA WalkStep ==
  ASSUME Types, [Next]_vars
  PROVE  \/ BeginPush
         \/ /\ blocks' = blocks
            /\ \A r \in todo' : spc' = "pushing" => spc = "pushing" /\ r \in todo
<1> DEFINE Goal == \/ BeginPush
                   \/ /\ blocks' = blocks
                      /\ \A r \in todo' :
                           spc' = "pushing" => spc = "pushing" /\ r \in todo
<1>1. ASSUME UNCHANGED <<spc, todo, blocks>>
      PROVE  Goal
  BY <1>1
<1>2. ASSUME StartTransfer \/ BeginEnable \/ BeginDisable
      PROVE  Goal
  BY <1>2 DEF StartTransfer, BeginEnable, BeginDisable, BeginWalk
<1>3. ASSUME NEW from, NEW to \in {"running", "idle"}, EndWalk(from, to)
      PROVE  Goal
  BY <1>3 DEF EndWalk
<1>4. ASSUME NEW how, NEW r \in todo, NEW q, Visited(how, r, q)
      PROVE  Goal
  BY <1>4 DEF Visited
<1>5. ASSUME SourceStep
      PROVE  Goal
  BY <1>2, <1>3, <1>4, <1>5, SourceSteps
<1>6. ASSUME NEW r \in Readers, Request(r) \/ RemoveQueue(r)
      PROVE  Goal
  BY <1>1, <1>6 DEF Request, RemoveQueue, sourceVars
<1>7. ASSUME NEW r \in Readers,
             ReaderStep(r) \/ DownstreamEnds(r) \/ SwitchOn(r) \/ CancelRun(r)
               \/ ControlStep(r)
      PROVE  Goal
  BY <1>1, <1>6, <1>7, ReaderSteps DEF SourceKept
<1>8. ASSUME UNCHANGED vars
      PROVE  Goal
  BY <1>1, <1>8 DEF vars, sourceVars
<1> QED
  BY <1>2, <1>5, <1>7, <1>8 DEF Next

\* The next number that a reader can get does not go back, and is used once.
LEMMA ComingStep ==
  ASSUME InterchainAssumption, Types, [Next]_vars, NEW r \in Readers
  PROVE  /\ Coming(r) \in Nat /\ Coming(r)' \in Nat /\ Coming(r) <= Coming(r)'
         /\ Received(r) => /\ block \in Blocks /\ block.transfer = transfers
                           /\ block.number = Coming(r) /\ Coming(r) < Coming(r)'
<1>1. blocks \in Nat /\ blocks' \in Nat
  <2>1. Types'
    BY TypesStep
  <2> QED
    BY <2>1 DEF Types, SourceTypes, InterchainAssumption
<1>2. /\ Coming(r) = IF spc = "pushing" /\ r \in todo THEN blocks ELSE blocks + 1
      /\ Coming(r)' = IF spc' = "pushing" /\ r \in todo' THEN blocks' ELSE blocks' + 1
  BY DEF Coming
<1>3. ASSUME BeginPush
      PROVE  spc = "running" /\ blocks' = blocks + 1
  BY <1>3 DEF BeginPush
<1>4. Coming(r) <= Coming(r)'
  <2>0. blocks \in Int /\ blocks' \in Int
    BY <1>1
  <2>1. CASE BeginPush
    BY <2>0, <1>2, <1>3, <2>1
  <2>2. CASE ~BeginPush
    <3>1. /\ blocks' = blocks
          /\ spc' = "pushing" /\ r \in todo' => spc = "pushing" /\ r \in todo
      BY <2>2, WalkStep
    <3> QED
      BY <2>0, <1>2, <3>1
  <2> QED
    BY <2>1, <2>2
<1>5. ASSUME Received(r)
      PROVE  /\ block \in Blocks /\ block.transfer = transfers
             /\ block.number = Coming(r) /\ Coming(r) < Coming(r)'
  <2>1. spc = "pushing" /\ r \in todo /\ r \notin todo'
    BY <1>5 DEF Received
  <2>2. /\ block \in Blocks /\ block.transfer = transfers
        /\ block.number = blocks
    BY <2>1 DEF Types, SourceTypes
  <2>3. blocks' = blocks
    BY <2>1, <1>3, WalkStep
  <2> QED
    BY <1>1, <1>2, <2>1, <2>2, <2>3
<1>6. Coming(r) \in Nat /\ Coming(r)' \in Nat
  <2>1. \A n \in Nat : n + 1 \in Nat
    OBVIOUS
  <2>2. blocks + 1 \in Nat /\ blocks' + 1 \in Nat
    BY ONLY <1>1, <2>1, Zenon
  <2> QED
    BY ONLY <1>1, <1>2, <2>2, Zenon
<1> QED
  BY <1>4, <1>5, <1>6

\* When the number of the transfer goes up, all is quiet.
LEMMA TransferStep ==
  ASSUME Types, [Next]_vars
  PROVE  \/ transfers' = transfers
         \/ /\ \A r \in Readers : Quiet(r)
            /\ UNCHANGED <<registered, queue, have, out>>
<1>1. ASSUME StartTransfer
      PROVE  /\ \A r \in Readers : Quiet(r)
             /\ UNCHANGED <<registered, queue, have, out>>
  BY <1>1 DEF StartTransfer, readerVars, Quiet
<1>2. ASSUME BeginPush \/ BeginEnable \/ BeginDisable
      PROVE  transfers' = transfers
  BY <1>2 DEF BeginPush, BeginEnable, BeginDisable
<1>3. ASSUME NEW from, NEW to, EndWalk(from, to)
      PROVE  transfers' = transfers
  BY <1>3 DEF EndWalk
<1>4. ASSUME NEW how, NEW r \in todo, NEW q, Visited(how, r, q)
      PROVE  transfers' = transfers
  BY <1>4 DEF Visited
<1>5. ASSUME SourceStep
      PROVE  transfers' = transfers
  BY <1>2, <1>3, <1>4, <1>5, SourceSteps
<1>6. ASSUME NEW r \in Readers, Request(r) \/ RemoveQueue(r)
      PROVE  transfers' = transfers
  BY <1>6 DEF Request, RemoveQueue, sourceVars
<1>7. ASSUME NEW r \in Readers,
             ReaderStep(r) \/ DownstreamEnds(r) \/ SwitchOn(r) \/ CancelRun(r)
               \/ ControlStep(r)
      PROVE  transfers' = transfers
  BY <1>6, <1>7, ReaderSteps DEF SourceKept
<1>8. ASSUME UNCHANGED vars
      PROVE  transfers' = transfers
  BY <1>8 DEF vars, sourceVars
<1> QED
  BY <1>1, <1>2, <1>5, <1>7, <1>8 DEF Next

\* A queue that comes, or gets quiet, is empty and has its pop end disabled.
LEMMA QuietStep ==
  ASSUME InterchainAssumption, Types, [Next]_vars, NEW t \in Readers,
         t \in registered', ~Calm(t)
  PROVE  t \in registered /\ (Quiet(t)' => Quiet(t))
<1>1. /\ queue \in [Readers -> Queues(Blocks, Nat)]
      /\ spc \in {"enabling", "pushing", "disabling"} \/ todo = {}
  BY DEF Types, QueueTypes, SourceTypes, Walking
<1> DEFINE Goal == t \in registered /\ (Quiet(t)' => Quiet(t))
<1>2. ASSUME registered' = registered \/ registered' = registered \ {t},
             UNCHANGED <<spc, todo>>
      PROVE  Goal
  BY <1>2 DEF Quiet
<1>3. ASSUME StartTransfer \/ BeginEnable
      PROVE  Goal
  BY <1>3 DEF StartTransfer, BeginEnable, BeginWalk, Quiet
<1>4. ASSUME BeginPush \/ BeginDisable
      PROVE  Goal
  BY <1>4 DEF BeginPush, BeginDisable, BeginWalk, Quiet
<1>5. ASSUME EndWalk("enabling", "running") \/ EndWalk("pushing", "running")
      PROVE  Goal
  BY <1>5 DEF EndWalk, Quiet
<1>6. ASSUME EndWalk("disabling", "idle")
      PROVE  Goal
  BY <1>6 DEF EndWalk, Quiet
<1>7. ASSUME NEW r \in todo, NEW q, Visited("enabling", r, q)
      PROVE  Goal
  BY <1>7 DEF Visited, Quiet
<1>8. ASSUME NEW r \in todo, NEW q, Visited("pushing", r, q)
      PROVE  Goal
  BY <1>8 DEF Visited, Quiet
<1>9. ASSUME NEW r \in todo, Visited("disabling", r, Disabled(queue[r]))
      PROVE  Goal
  <2>1. /\ spc = "disabling" /\ spc' = spc /\ registered' = registered
        /\ todo' = todo \ {r} /\ queue' = [queue EXCEPT ![r] = Disabled(queue[r])]
    BY <1>9 DEF Visited
  <2>2. CASE t = r
    <3>1. queue'[t] = Disabled(queue[t])
      BY <1>1, <2>1, <2>2
    <3>2. Disabled(queue[t]).items = <<>> /\ Disabled(queue[t]).enable_pop = FALSE
      BY <1>1, DisabledFields
    <3>3. Calm(t)
      BY <3>1, <3>2 DEF Calm
    <3> QED
      BY <3>3
  <2>3. CASE t # r
    BY <2>1, <2>3 DEF Quiet
  <2> QED
    BY <2>2, <2>3
<1>10. ASSUME SourceStep
       PROVE  Goal
  BY <1>3, <1>5, <1>6, <1>7, <1>8, <1>9, <1>10, SourceSteps
<1>11. ASSUME NEW r \in Readers, Request(r)
       PROVE  Goal
  <2>1. /\ registered' = registered \cup {r} /\ UNCHANGED <<spc, todo>>
        /\ queue' = [queue EXCEPT ![r] = ResizeEnabledPush(QueueOf(0, FALSE), capacity)]
    BY <1>11 DEF Request, sourceVars
  <2>2. CASE t = r
    <3> DEFINE q == ResizeEnabledPush(QueueOf(0, FALSE), capacity)
    <3>1. /\ QueueOf(0, FALSE) \in Queues(Blocks, Nat)
          /\ capacity \in Nat /\ capacity # 0
      BY FreshQueue DEF Types, QueueTypes, InterchainAssumption
    <3>2. q.items = <<>> /\ q.enable_pop = QueueOf(0, FALSE).enable_pop
      BY ONLY <3>1, EnabledFields
    <3>3. queue'[t] = q
      BY <1>1, <2>1, <2>2
    <3> HIDE DEF q
    <3>4. Calm(t)
      BY <3>2, <3>3, FreshQueue DEF Calm
    <3> QED
      BY <3>4
  <2>3. CASE t # r
    BY <2>1, <2>3 DEF Quiet
  <2> QED
    BY <2>2, <2>3
<1>12. ASSUME NEW r \in Readers, RemoveQueue(r)
       PROVE  Goal
  BY <1>12 DEF RemoveQueue, sourceVars, Quiet
<1>13. ASSUME NEW r \in Readers,
              ReaderStep(r) \/ DownstreamEnds(r) \/ SwitchOn(r) \/ CancelRun(r)
                \/ ControlStep(r)
       PROVE  Goal
  BY <1>2, <1>11, <1>12, <1>13, ReaderSteps DEF SourceKept
<1>14. ASSUME UNCHANGED vars
       PROVE  Goal
  BY <1>2, <1>14 DEF vars, sourceVars
<1> QED
  BY <1>3, <1>4, <1>10, <1>13, <1>14 DEF Next

-----------------------------------------------------------------------------
(* Order.  What the changes of a reader do to the order of what it has.    *)

LEMMA Numbers ==
  /\ \A b \in Blocks : b.number \in Nat /\ b.transfer \in Nat
  /\ \A x \in Byte : x[2] \in Nat /\ x[3] \in Nat
<1>1. \A b \in Blocks : b.number \in Nat /\ b.transfer \in Nat
  BY DEF Blocks
<1>2. \A x \in Byte : x[2] \in Nat /\ x[3] \in Nat
  BY DEF Byte
<1> QED
  BY <1>1, <1>2

\* Numbers of bytes and of the bytes of rows.
LEMMA ByteNumbers ==
  /\ \A x \in Seq(Byte) : \A k \in DOMAIN x : x[k][2] \in Nat /\ x[k][3] \in Nat
  /\ \A o \in Seq(Seq(Byte)) : \A i \in DOMAIN o : o[i] \in Seq(Byte)
<1>1. ASSUME NEW x \in Seq(Byte), NEW k \in DOMAIN x
      PROVE  x[k][2] \in Nat /\ x[k][3] \in Nat
  <2>1. x[k] \in Byte
    OBVIOUS
  <2> QED
    BY <2>1, Numbers
<1>2. ASSUME NEW o \in Seq(Seq(Byte)), NEW i \in DOMAIN o
      PROVE  o[i] \in Seq(Byte)
  OBVIOUS
<1> QED
  BY <1>1, <1>2

LEMMA BeforeLater ==
  ASSUME NEW x \in Seq(Byte), NEW n \in Nat, NEW m \in Nat, n <= m, Before(x, n)
  PROVE  Before(x, m)
<1>1. ASSUME NEW k \in DOMAIN x
      PROVE  x[k][2] < m
  <2>1. x[k][2] \in Nat /\ x[k][2] < n
    BY ByteNumbers DEF Before
  <2> QED
    BY <2>1
<1> QED
  BY <1>1 DEF Before

LEMMA RowsBeforeLater ==
  ASSUME NEW o \in Seq(Seq(Byte)), NEW n \in Nat, NEW m \in Nat, n <= m,
         RowsBefore(o, n)
  PROVE  RowsBefore(o, m)
<1>1. ASSUME NEW i \in DOMAIN o
      PROVE  Before(o[i], m)
  <2>1. o[i] \in Seq(Byte) /\ Before(o[i], n)
    BY ByteNumbers DEF RowsBefore
  <2> QED
    BY <2>1, BeforeLater
<1> QED
  BY <1>1 DEF RowsBefore

\* Time passes: the source has gone on with other numbers.
LEMMA OrderLater ==
  ASSUME NEW q \in Seq(Blocks), NEW h \in Seq(Byte), NEW o \in Seq(Seq(Byte)),
         NEW n \in Nat, NEW m \in Nat, n <= m, InOrderBefore(q, h, o, n)
  PROVE  InOrderBefore(q, h, o, m)
<1>1. ASSUME NEW k \in DOMAIN q
      PROVE  q[k].number < m
  <2>1. q[k] \in Blocks
    OBVIOUS
  <2>2. q[k].number \in Nat /\ q[k].number < n
    BY <2>1, Numbers DEF InOrderBefore, ItemsInOrder
  <2> QED
    BY <2>2
<1>2. ItemsInOrder(q, h, o, m)
  BY <1>1 DEF InOrderBefore, ItemsInOrder
<1>3. Before(h, m) /\ RowsBefore(o, m)
  BY BeforeLater, RowsBeforeLater DEF InOrderBefore, BytesInOrder
<1>4. BytesInOrder(h, o, m)
  BY <1>3 DEF InOrderBefore, BytesInOrder
<1> QED
  BY <1>2, <1>4 DEF InOrderBefore

LEMMA OrderEmptied ==
  ASSUME NEW q, NEW h, NEW o, NEW n, InOrderBefore(q, h, o, n)
  PROVE  InOrderBefore(<<>>, h, o, n)
<1>1. DOMAIN <<>> = {}
  OBVIOUS
<1> QED
  BY <1>1 DEF InOrderBefore, ItemsInOrder

LEMMA OrderRestarted ==
  ASSUME NEW q, NEW h, NEW o, NEW n, InOrderBefore(q, h, o, n)
  PROVE  InOrderBefore(q, <<>>, o, n)
<1>1. DOMAIN <<>> = {}
  OBVIOUS
<1>2. Before(<<>>, n) /\ \A k \in DOMAIN q : Before(<<>>, q[k].number)
  BY <1>1 DEF Before
<1>3. ItemsInOrder(q, <<>>, o, n)
  BY <1>2 DEF InOrderBefore, ItemsInOrder
<1>4. BytesInOrder(<<>>, o, n)
  BY <1>1, <1>2 DEF InOrderBefore, BytesInOrder, Precede, Ordered
<1> QED
  BY <1>3, <1>4 DEF InOrderBefore

\* The next block comes to the end of the queue.
LEMMA OrderReceived ==
  ASSUME NEW q \in Seq(Blocks), NEW h \in Seq(Byte), NEW o \in Seq(Seq(Byte)),
         NEW n \in Nat, NEW m \in Nat, InOrderBefore(q, h, o, n),
         NEW b \in Blocks, b.number = n, n < m
  PROVE  InOrderBefore(Append(q, b), h, o, m)
<1> DEFINE p == Append(q, b)
<1>1. /\ p \in Seq(Blocks) /\ DOMAIN p = DOMAIN q \cup {Len(q) + 1}
      /\ \A k \in DOMAIN q : p[k] = q[k] /\ k \in Nat /\ k < Len(q) + 1
      /\ p[Len(q) + 1] = b
  <2>1. DOMAIN q = 1..Len(q) /\ Len(q) \in Nat /\ Len(p) = Len(q) + 1
        /\ p \in Seq(Blocks)
    BY LenProperties
  <2>2. DOMAIN p = 1..Len(q) + 1
    BY <2>1, LenProperties
  <2>3. 1..Len(q) + 1 = (1..Len(q)) \cup {Len(q) + 1}
    BY <2>1
  <2>4. /\ \A k \in 1..Len(q) : p[k] = q[k]
        /\ p[Len(q) + 1] = b
    BY <2>1
  <2> QED
    BY <2>1, <2>2, <2>3, <2>4
<1>2. \A k \in DOMAIN q : q[k] \in Blocks /\ q[k].number \in Nat
  BY Numbers
<1>3. \A k \in DOMAIN q : q[k].number < n
  BY DEF InOrderBefore, ItemsInOrder
<1> HIDE DEF p
<1>4. Len(q) \in Nat
  OBVIOUS
<1>5. ASSUME NEW k \in DOMAIN p, NEW l \in DOMAIN p, k < l
      PROVE  p[k].number < p[l].number
  <2>1. CASE l \in DOMAIN q
    <3>1. k \in DOMAIN q
      BY <1>1, <1>4, <1>5, <2>1
    <3>2. q[k].number < q[l].number
      BY <1>5, <2>1, <3>1 DEF InOrderBefore, ItemsInOrder
    <3> QED
      BY <1>1, <2>1, <3>1, <3>2
  <2>2. CASE l = Len(q) + 1
    <3>1. k \in DOMAIN q
      BY <1>1, <1>4, <1>5, <2>2
    <3> QED
      BY <1>1, <1>3, <2>2, <3>1
  <2> QED
    BY <1>1, <2>1, <2>2
<1>6. Before(h, n) /\ RowsBefore(o, n) /\ n <= m
  BY DEF InOrderBefore, BytesInOrder
<1>7. ASSUME NEW k \in DOMAIN p
      PROVE  /\ Before(h, p[k].number) /\ RowsBefore(o, p[k].number)
             /\ p[k].number < m
  <2>1. CASE k \in DOMAIN q
    <3>1. p[k] = q[k] /\ q[k].number \in Nat /\ q[k].number < n
      BY <1>1, <1>2, <1>3, <2>1
    <3>2. Before(h, q[k].number) /\ RowsBefore(o, q[k].number)
      BY <2>1 DEF InOrderBefore, ItemsInOrder
    <3>3. q[k].number < m
      BY <3>1
    <3> QED
      BY <3>1, <3>2, <3>3
  <2>2. CASE k = Len(q) + 1
    BY <1>1, <1>6, <2>2
  <2> QED
    BY <1>1, <2>1, <2>2
<1>8. ItemsInOrder(p, h, o, m)
  BY <1>5, <1>7 DEF ItemsInOrder
<1>9. Before(h, m) /\ RowsBefore(o, m)
  BY <1>6, BeforeLater, RowsBeforeLater
<1>10. BytesInOrder(h, o, m)
  BY <1>9 DEF InOrderBefore, BytesInOrder
<1> QED
  BY <1>8, <1>10 DEF InOrderBefore, p

\* A block is appended to some bytes.
LEMMA Appended ==
  ASSUME InterchainAssumption, NEW h \in Seq(Byte), NEW b \in Blocks
  PROVE  /\ h \o BytesOf(b) \in Seq(Byte)
         /\ \A k \in DOMAIN (h \o BytesOf(b)) :
              \/ k \in DOMAIN h /\ (h \o BytesOf(b))[k] = h[k]
              \/ /\ k \notin DOMAIN h /\ k > Len(h)
                 /\ (h \o BytesOf(b))[k] = <<b.transfer, b.number, k - Len(h)>>
<1> DEFINE c == BytesOf(b)
           y == h \o c
<1>1. /\ c \in Seq(Byte) /\ Len(c) = b.size /\ b.size \in Nat
      /\ \A k \in 1..b.size : c[k] = <<b.transfer, b.number, k>>
  BY BytesOfBlock
<1> HIDE DEF c
<1>2. /\ y \in Seq(Byte) /\ Len(y) = Len(h) + Len(c)
      /\ \A k \in 1..Len(h) + Len(c) :
           y[k] = IF k <= Len(h) THEN h[k] ELSE c[k - Len(h)]
  BY <1>1, ConcatProperties
<1>3. /\ DOMAIN y = 1..Len(h) + Len(c) /\ DOMAIN h = 1..Len(h)
      /\ Len(h) \in Nat
  BY <1>2, LenProperties
<1> HIDE DEF y
<1>4. ASSUME NEW k \in DOMAIN y
      PROVE  \/ k \in DOMAIN h /\ y[k] = h[k]
             \/ /\ k \notin DOMAIN h /\ k > Len(h)
                /\ y[k] = <<b.transfer, b.number, k - Len(h)>>
  <2>1. k \in 1..Len(h) + Len(c)
    BY <1>3, <1>4
  <2>2. CASE k <= Len(h)
    <3>1. k \in 1..Len(h)
      BY <2>1, <2>2, <1>3
    <3> QED
      BY <1>2, <1>3, <2>1, <2>2, <3>1
  <2>3. CASE ~(k <= Len(h))
    <3>1. k - Len(h) \in 1..b.size /\ k > Len(h) /\ k \notin 1..Len(h)
      BY <1>1, <1>3, <2>1, <2>3
    <3>2. y[k] = c[k - Len(h)]
      BY <1>2, <2>1, <2>3
    <3> QED
      BY <1>1, <1>3, <3>1, <3>2
  <2> QED
    BY <2>2, <2>3
<1> QED
  BY <1>2, <1>4 DEF y, c

\* What is left of a queue when its first block is taken.
LEMMA Rest ==
  ASSUME NEW q \in Seq(Blocks), q # <<>>
  PROVE  /\ Head(q) = q[1] /\ 1 \in DOMAIN q /\ Head(q) \in Blocks
         /\ Tail(q) \in Seq(Blocks)
         /\ \A k \in DOMAIN Tail(q) :
              /\ k \in Nat /\ k + 1 \in DOMAIN q /\ Tail(q)[k] = q[k + 1]
              /\ 1 < k + 1
<1>1. Len(q) \in Nat /\ Len(q) # 0 /\ DOMAIN q = 1..Len(q)
  BY EmptySeq, LenProperties
<1>2. /\ Head(q) = q[1] /\ Tail(q) \in Seq(Blocks) /\ Len(Tail(q)) = Len(q) - 1
      /\ \A k \in 1..Len(Tail(q)) : Tail(q)[k] = q[k + 1]
  BY <1>1, HeadTailProperties
<1>3. DOMAIN Tail(q) = 1..Len(q) - 1
  BY <1>2, LenProperties
<1>4. 1 \in DOMAIN q /\ q[1] \in Blocks
  BY <1>1
<1>5. \A k \in 1..Len(q) - 1 : k \in Nat /\ k + 1 \in 1..Len(q) /\ 1 < k + 1
  BY <1>1
<1> QED
  BY <1>1, <1>2, <1>3, <1>4, <1>5

\* The reader takes the first block of its queue.
LEMMA OrderTook ==
  ASSUME InterchainAssumption,
         NEW q \in Seq(Blocks), NEW h \in Seq(Byte), NEW o \in Seq(Seq(Byte)),
         NEW n \in Nat, InOrderBefore(q, h, o, n), q # <<>>
  PROVE  InOrderBefore(Tail(q), h \o BytesOf(Head(q)), o, n)
<1> DEFINE b == Head(q)
           p == Tail(q)
           y == h \o BytesOf(b)
<1>1. /\ b = q[1] /\ 1 \in DOMAIN q /\ b \in Blocks /\ p \in Seq(Blocks)
      /\ \A k \in DOMAIN p : /\ k \in Nat /\ k + 1 \in DOMAIN q
                             /\ p[k] = q[k + 1] /\ 1 < k + 1
  BY Rest
<1>2. b.number \in Nat
      /\ \A k : /\ <<b.transfer, b.number, k>>[2] = b.number
              /\ <<b.transfer, b.number, k>>[3] = k
  BY <1>1, Numbers
<1>3. /\ y \in Seq(Byte)
      /\ \A k \in DOMAIN y :
           \/ k \in DOMAIN h /\ y[k] = h[k]
           \/ /\ k \notin DOMAIN h /\ k > Len(h)
              /\ y[k] = <<b.transfer, b.number, k - Len(h)>>
  BY <1>1, Appended
<1> HIDE DEF b, p, y
<1>4. /\ Before(h, b.number) /\ RowsBefore(o, b.number) /\ b.number < n
      /\ Before(h, n) /\ RowsBefore(o, n)
  BY <1>1 DEF InOrderBefore, ItemsInOrder, BytesInOrder
<1>5. ASSUME NEW k \in DOMAIN y
      PROVE  \/ k \in DOMAIN h /\ y[k] = h[k] /\ y[k][2] < b.number
             \/ /\ k > Len(h) /\ k \notin DOMAIN h
                /\ y[k][2] = b.number /\ y[k][3] = k - Len(h)
  BY <1>2, <1>3, <1>4 DEF Before
<1>6. ASSUME NEW k \in DOMAIN y
      PROVE  y[k][2] \in Nat /\ y[k][2] <= b.number
  <2>1. y[k][2] \in Nat
    BY <1>3, ByteNumbers
  <2>2. y[k][2] < b.number \/ y[k][2] = b.number
    BY <1>5
  <2> QED
    BY <1>2, <2>1, <2>2
<1>7. ASSUME NEW m \in Nat, b.number < m
      PROVE  Before(y, m)
  BY <1>2, <1>6, <1>7 DEF Before
<1>8. ASSUME NEW k \in DOMAIN p
      PROVE  /\ Before(y, p[k].number) /\ RowsBefore(o, p[k].number)
             /\ p[k].number < n
  <2>1. /\ k + 1 \in DOMAIN q /\ p[k] = q[k + 1] /\ 1 < k + 1
    BY <1>1, <1>8
  <2>2. /\ RowsBefore(o, q[k + 1].number) /\ q[k + 1].number < n
        /\ q[1].number < q[k + 1].number
    BY <1>1, <2>1 DEF InOrderBefore, ItemsInOrder
  <2>3. q[k + 1].number \in Nat
    <3>1. q[k + 1] \in Blocks
      BY <2>1
    <3> QED
      BY <3>1, Numbers
  <2> QED
    BY <1>1, <1>7, <2>1, <2>2, <2>3
<1>9. ASSUME NEW k \in DOMAIN p, NEW l \in DOMAIN p, k < l
      PROVE  p[k].number < p[l].number
  <2>1. k + 1 < l + 1
    BY <1>1, <1>9
  <2> QED
    BY <1>1, <2>1 DEF InOrderBefore, ItemsInOrder
<1>10. ItemsInOrder(p, y, o, n)
  BY <1>8, <1>9 DEF ItemsInOrder
<1>11. ASSUME NEW k \in DOMAIN y, NEW l \in DOMAIN y, k < l
       PROVE  Earlier(y[k], y[l])
  <2>0. Len(h) \in Nat /\ DOMAIN h = 1..Len(h) /\ k \in Nat /\ l \in Nat
    BY <1>3, LenProperties
  <2>1. CASE l \in DOMAIN h /\ y[l] = h[l]
    <3>1. k \in DOMAIN h /\ y[k] = h[k]
      BY <1>5, <1>11, <2>0, <2>1
    <3> QED
      BY <1>11, <2>1, <3>1 DEF InOrderBefore, BytesInOrder, Ordered
  <2>2. CASE y[l][2] = b.number /\ y[l][3] = l - Len(h)
    <3>1. y[k][2] < b.number \/ (y[k][2] = b.number /\ y[k][3] = k - Len(h))
      BY <1>5
    <3>2. k - Len(h) < l - Len(h)
      BY <1>11, <2>0
    <3> QED
      BY <2>2, <3>1, <3>2 DEF Earlier
  <2> QED
    BY <1>5, <2>1, <2>2
<1>12. ASSUME NEW i \in DOMAIN o, NEW k \in DOMAIN o[i], NEW l \in DOMAIN y
       PROVE  Earlier(o[i][k], y[l])
  <2>1. CASE l \in DOMAIN h /\ y[l] = h[l]
    BY <2>1 DEF InOrderBefore, BytesInOrder, Precede
  <2>2. CASE y[l][2] = b.number
    <3>1. o[i][k][2] < b.number
      BY <1>4 DEF RowsBefore, Before
    <3> QED
      BY <2>2, <3>1 DEF Earlier
  <2> QED
    BY <1>5, <2>1, <2>2
<1>13. BytesInOrder(y, o, n)
  BY <1>4, <1>7, <1>11, <1>12 DEF BytesInOrder, Precede, Ordered
<1> QED
  BY <1>10, <1>13 DEF InOrderBefore, p, y, b

\* Bytes x are among bytes h.
Part(x, h) == \A i \in DOMAIN x : \E j \in DOMAIN h : x[i] = h[j]

LEMMA PartBefore ==
  ASSUME NEW x, NEW h, NEW n, Part(x, h), Before(h, n)
  PROVE  Before(x, n)
  BY DEF Part, Before

LEMMA PartPrecede ==
  ASSUME NEW x, NEW h, NEW w, Part(x, h), Precede(w, h)
  PROVE  Precede(w, x)
  BY DEF Part, Precede

\* The first m elements of a sequence, and the others.
LEMMA Cut ==
  ASSUME NEW S, NEW h \in Seq(S), NEW N \in Nat, N = Len(h),
         NEW m \in Nat, 1 <= m, m <= N
  PROVE  /\ SubSeq(h, 1, m) \in Seq(S) /\ DOMAIN SubSeq(h, 1, m) = 1..m
         /\ \A i \in 1..m : i \in DOMAIN h /\ SubSeq(h, 1, m)[i] = h[i]
         /\ SubSeq(h, m + 1, N) \in Seq(S)
         /\ DOMAIN SubSeq(h, m + 1, N) = 1..N - m
         /\ \A i \in 1..N - m : /\ i + m \in DOMAIN h
                                /\ SubSeq(h, m + 1, N)[i] = h[i + m]
<1> DEFINE x == SubSeq(h, 1, m)
           z == SubSeq(h, m + 1, N)
<1>1. /\ DOMAIN h = 1..N
      /\ \A i \in 1..N : h[i] \in S
  BY LenProperties, ElementOfSeq
<1>2. /\ \A i \in 1..m : i \in 1..N
      /\ \A i \in (m + 1)..N : i \in 1..N
      /\ \A i \in 1..N - m : i + m \in 1..N /\ m + 1 + i - 1 = i + m
      /\ \A i \in 1..m : 1 + i - 1 = i
      /\ 1 \in Int /\ m \in Int /\ m + 1 \in Int /\ N \in Int
      /\ m - 1 + 1 = m /\ N - (m + 1) + 1 = N - m
  OBVIOUS
<1>3. /\ x \in Seq(S) /\ Len(x) = IF 1 <= m THEN m - 1 + 1 ELSE 0
      /\ \A i \in 1..m - 1 + 1 : x[i] = h[1 + i - 1]
  <2>1. \A i \in 1..m : h[i] \in S
    BY <1>1, <1>2
  <2> QED
    BY ONLY <1>2, <2>1, SubSeqProperties
<1>4. /\ z \in Seq(S) /\ Len(z) = IF m + 1 <= N THEN N - (m + 1) + 1 ELSE 0
      /\ \A i \in 1..N - (m + 1) + 1 : z[i] = h[m + 1 + i - 1]
  <2>1. \A i \in (m + 1)..N : h[i] \in S
    BY <1>1, <1>2
  <2> QED
    BY ONLY <1>2, <2>1, SubSeqProperties
<1> HIDE DEF x, z
<1>5. Len(x) = m /\ Len(z) = N - m
  BY <1>3, <1>4
<1>6. DOMAIN x = 1..m /\ DOMAIN z = 1..N - m
  BY <1>3, <1>4, <1>5, LenProperties
<1>7. \A i \in 1..m : x[i] = h[i]
  BY <1>2, <1>3
<1>8. \A i \in 1..N - m : z[i] = h[i + m]
  BY <1>2, <1>4
<1> QED
  BY <1>1, <1>2, <1>3, <1>4, <1>6, <1>7, <1>8 DEF x, z

\* The reader pushes the first k bytes.
LEMMA OrderPushed ==
  ASSUME NEW q \in Seq(Blocks), NEW h \in Seq(Byte), NEW o \in Seq(Seq(Byte)),
         NEW n \in Nat, InOrderBefore(q, h, o, n),
         NEW m \in 1..Len(h)
  PROVE  InOrderBefore(q, SubSeq(h, m + 1, Len(h)), Append(o, SubSeq(h, 1, m)), n)
<1> DEFINE x == SubSeq(h, 1, m)
           z == SubSeq(h, m + 1, Len(h))
           p == Append(o, x)
<1>1. PICK N \in Nat : N = Len(h)
  BY LenProperties
<1>2. PICK M \in Nat : M = Len(o)
  BY LenProperties
<1>3. m \in Nat /\ 1 <= m /\ m <= N
  BY <1>1
<1>4. /\ x \in Seq(Byte) /\ DOMAIN x = 1..m
      /\ \A i \in 1..m : i \in DOMAIN h /\ x[i] = h[i]
      /\ z \in Seq(Byte) /\ DOMAIN z = 1..N - m
      /\ \A i \in 1..N - m : i + m \in DOMAIN h /\ z[i] = h[i + m]
  BY <1>1, <1>3, Cut
<1>5. /\ DOMAIN o = 1..M /\ DOMAIN p = (1..M) \cup {M + 1}
      /\ \A i \in 1..M : p[i] = o[i]
      /\ p[M + 1] = x
  <2>1. /\ p \in Seq(Seq(Byte)) /\ Len(p) = M + 1 /\ p[M + 1] = x
        /\ \A i \in 1..M : p[i] = o[i]
    BY <1>2, <1>4, AppendProperties
  <2>2. DOMAIN o = 1..M /\ DOMAIN p = 1..M + 1
    BY <1>2, <2>1, LenProperties
  <2>3. 1..M + 1 = (1..M) \cup {M + 1}
    OBVIOUS
  <2> QED
    BY <2>1, <2>2, <2>3
<1> HIDE DEF x, z, p
<1>7. Part(x, h) /\ Part(z, h)
  BY <1>4 DEF Part
<1>8. ASSUME NEW t, Before(h, t), RowsBefore(o, t)
      PROVE  Before(z, t) /\ RowsBefore(p, t)
  <2>1. Before(x, t) /\ Before(z, t)
    BY <1>7, <1>8, PartBefore
  <2> QED
    BY <1>5, <1>8, <2>1 DEF RowsBefore
<1>9. ItemsInOrder(q, z, p, n)
  BY <1>8 DEF InOrderBefore, ItemsInOrder
<1>10. Precede(x, z)
  <2>1. ASSUME NEW i \in 1..m, NEW j \in 1..N - m
        PROVE  Earlier(h[i], h[j + m])
    <3>1. i < j + m
      BY <1>3
    <3> QED
      BY <1>4, <3>1 DEF InOrderBefore, BytesInOrder, Ordered
  <2> QED
    BY <1>4, <2>1 DEF Precede
<1>11. ASSUME NEW i \in DOMAIN o
       PROVE  Precede(o[i], x) /\ Precede(o[i], z)
  BY <1>7, PartPrecede DEF InOrderBefore, BytesInOrder
<1>12. ASSUME NEW i \in DOMAIN p
       PROVE  Precede(p[i], z)
  BY <1>5, <1>10, <1>11
<1>13. ASSUME NEW k \in DOMAIN z, NEW l \in DOMAIN z, k < l
       PROVE  Earlier(z[k], z[l])
  <2>0. k \in 1..N - m /\ l \in 1..N - m
    BY <1>4
  <2>1. /\ k \in Int /\ l \in Int /\ k + m \in DOMAIN h /\ l + m \in DOMAIN h
        /\ z[k] = h[k + m] /\ z[l] = h[l + m]
    BY <1>4, <2>0
  <2>2. k + m < l + m
    BY <1>3, <1>13, <2>1
  <2>3. Ordered(h)
    BY DEF InOrderBefore, BytesInOrder
  <2> QED
    BY <2>1, <2>2, <2>3 DEF Ordered
<1>14. Before(z, n) /\ RowsBefore(p, n)
  BY <1>8 DEF InOrderBefore, BytesInOrder
<1>15. BytesInOrder(z, p, n)
  BY <1>12, <1>13, <1>14 DEF BytesInOrder, Ordered
<1>16. ASSUME NEW i \in DOMAIN p, NEW j \in DOMAIN p, i < j
       PROVE  Precede(p[i], p[j])
  <2>1. i \in DOMAIN o /\ p[i] = o[i]
    BY <1>5, <1>16
  <2>2. CASE j \in DOMAIN o
    BY <1>5, <1>16, <2>1, <2>2 DEF InOrderBefore, RowsInOrder
  <2>3. CASE j = M + 1
    BY <1>5, <1>11, <2>1, <2>3
  <2> QED
    BY <1>5, <2>2, <2>3
<1>17. Ordered(x)
  <2>1. ASSUME NEW k \in 1..m, NEW l \in 1..m, k < l
        PROVE  Earlier(h[k], h[l])
    BY <1>4, <2>1 DEF InOrderBefore, BytesInOrder, Ordered
  <2> QED
    BY <1>4, <2>1 DEF Ordered
<1>18. ASSUME NEW i \in DOMAIN p
       PROVE  Ordered(p[i])
  BY <1>5, <1>17 DEF InOrderBefore, RowsInOrder
<1>19. RowsInOrder(p)
  BY <1>16, <1>18 DEF RowsInOrder
<1> QED
  BY <1>9, <1>15, <1>19 DEF InOrderBefore, p, z, x

\* What a reader has, has the types that the lemmas on its order need.
LEMMA HasTypes ==
  ASSUME Types, NEW r \in Readers
  PROVE  /\ queue[r].items \in Seq(Blocks) /\ have[r] \in Seq(Byte)
         /\ out[r] \in Seq(Seq(Byte))
  BY DEF Types, QueueTypes, ReaderTypes, Queues

LEMMA OrderInit ==
  ASSUME Init
  PROVE  Order
<1>1. DOMAIN <<>> = {}
  OBVIOUS
<1>2. ASSUME NEW r \in Readers
      PROVE  queue[r].items = <<>> /\ have[r] = <<>> /\ out[r] = <<>>
  BY FreshQueue DEF Init
<1>3. \A n : InOrderBefore(<<>>, <<>>, <<>>, n)
  BY <1>1 DEF InOrderBefore, ItemsInOrder, BytesInOrder, RowsInOrder, Before,
     RowsBefore, Ordered
<1> QED
  BY <1>2, <1>3 DEF Order

LEMMA OrderStep ==
  ASSUME InterchainAssumption, Types, Order, [Next]_vars
  PROVE  Order'
<1> SUFFICES ASSUME NEW r \in Readers
             PROVE  InOrderBefore(queue'[r].items, have'[r], out'[r], Coming(r)')
  BY DEF Order
<1> DEFINE q == queue[r].items
<1>1. q \in Seq(Blocks) /\ have[r] \in Seq(Byte) /\ out[r] \in Seq(Seq(Byte))
  BY HasTypes
<1>2. PICK n \in Nat : n = Coming(r)
  BY ComingStep
<1>3. PICK m \in Nat : m = Coming(r)'
  BY ComingStep
<1>4. n <= m
  BY <1>2, <1>3, ComingStep
<1>5. InOrderBefore(q, have[r], out[r], n)
  BY <1>2 DEF Order
<1> DEFINE Good == InOrderBefore(queue'[r].items, have'[r], out'[r], m)
<1> HIDE DEF q
<1>7. InOrderBefore(q, have[r], out[r], m)
  BY <1>1, <1>4, <1>5, OrderLater
<1>8. ASSUME Same(r)
      PROVE  Good
  BY <1>7, <1>8 DEF Same, q
<1>9. ASSUME Emptied(r)
      PROVE  Good
  <2>1. InOrderBefore(<<>>, have[r], out[r], m)
    BY <1>7, OrderEmptied
  <2> QED
    BY <1>9, <2>1 DEF Emptied
<1>10. ASSUME Restarted(r)
       PROVE  Good
  <2>1. InOrderBefore(q, <<>>, out[r], m)
    BY <1>7, OrderRestarted
  <2> QED
    BY <1>10, <2>1 DEF Restarted, q
<1>11. ASSUME Received(r)
       PROVE  Good
  <2>1. block \in Blocks /\ block.number = n /\ n < m
    BY <1>2, <1>3, <1>11, ComingStep
  <2>2. InOrderBefore(Append(q, block), have[r], out[r], m)
    BY <1>1, <1>5, <2>1, OrderReceived
  <2> QED
    BY <1>11, <2>2 DEF Received, q
<1>12. ASSUME Took(r)
       PROVE  Good
  <2>1. q # <<>>
    BY <1>12 DEF Took, q
  <2>2. InOrderBefore(Tail(q), have[r] \o BytesOf(Head(q)), out[r], m)
    BY <1>1, <1>7, <2>1, OrderTook
  <2> QED
    BY <1>12, <2>2 DEF Took, q
<1>13. ASSUME NEW k \in Nat, PushedOut(r, k)
       PROVE  Good
  <2>1. k \in 1..Len(have[r])
    BY <1>13 DEF PushedOut
  <2>2. InOrderBefore(q, SubSeq(have[r], k + 1, Len(have[r])),
                      Append(out[r], SubSeq(have[r], 1, k)), m)
    BY <1>1, <1>7, <2>1, OrderPushed
  <2> QED
    BY <1>13, <2>2 DEF PushedOut, q
<1>14. Change(r)
  BY ChangeStep
<1>15. Good
  <2> HIDE DEF Good
  <2> QED
    BY <1>8, <1>9, <1>10, <1>11, <1>12, <1>13, <1>14 DEF Change
<1> QED
  BY <1>3, <1>15

LEMMA OrderImpliesInOrder ==
  ASSUME Order
  PROVE  InOrder
<1>1. ASSUME NEW r \in Readers, NEW i \in DOMAIN out[r], NEW j \in DOMAIN out[r],
             NEW k \in DOMAIN out[r][i], NEW l \in DOMAIN out[r][j],
             i < j \/ (i = j /\ k < l)
      PROVE  Earlier(out[r][i][k], out[r][j][l])
  <2>1. CASE i < j
    <3>1. Precede(out[r][i], out[r][j])
      BY <2>1 DEF Order, InOrderBefore, RowsInOrder
    <3> QED
      BY <3>1 DEF Precede
  <2>2. CASE i = j /\ k < l
    <3>1. Ordered(out[r][j])
      BY DEF Order, InOrderBefore, RowsInOrder
    <3> QED
      BY <2>2, <3>1 DEF Ordered
  <2> QED
    BY <1>1, <2>1, <2>2
<1> QED
  BY <1>1 DEF InOrder

-----------------------------------------------------------------------------
(* Transfers: the bytes that are put together are of one.                  *)

LEMMA TogetherInit ==
  ASSUME Init
  PROVE  Together
<1>1. DOMAIN <<>> = {}
  OBVIOUS
<1>2. ASSUME NEW r \in Readers
      PROVE  have[r] = <<>> /\ out[r] = <<>>
  BY DEF Init
<1>3. registered = {}
  BY DEF Init
<1> QED
  BY <1>1, <1>2, <1>3 DEF Together, OfTransfer, OneTransfer

\* Part of what is of one transfer is of one transfer.
LEMMA PartOneTransfer ==
  ASSUME NEW x, NEW h, Part(x, h), OneTransfer(h)
  PROVE  OneTransfer(x)
  BY DEF Part, OneTransfer

\* A row is added that is of one transfer.
LEMMA RowAdded ==
  ASSUME NEW o \in Seq(Seq(Byte)), NEW x \in Seq(Byte), OneTransfer(x),
         \A i \in DOMAIN o : OneTransfer(o[i])
  PROVE  \A i \in DOMAIN Append(o, x) : OneTransfer(Append(o, x)[i])
<1> DEFINE p == Append(o, x)
<1>1. PICK M \in Nat : M = Len(o)
  BY LenProperties
<1>2. /\ p \in Seq(Seq(Byte)) /\ Len(p) = M + 1 /\ p[M + 1] = x
      /\ \A i \in 1..M : p[i] = o[i]
  BY <1>1, AppendProperties
<1>3. DOMAIN o = 1..M /\ DOMAIN p = 1..M + 1
  BY <1>1, <1>2, LenProperties
<1>4. 1..M + 1 = (1..M) \cup {M + 1}
  OBVIOUS
<1> HIDE DEF p
<1>5. \A i \in DOMAIN p : OneTransfer(p[i])
  BY <1>2, <1>3, <1>4
<1> QED
  BY <1>5 DEF p

\* All bytes are of transfer t.
AllOf(bytes, t) == \A k \in DOMAIN bytes : bytes[k][1] = t

\* The bytes of a reader that takes a block of the same transfer.
LEMMA TookTransfer ==
  ASSUME InterchainAssumption, NEW h \in Seq(Byte), NEW b \in Blocks,
         AllOf(h, b.transfer)
  PROVE  AllOf(h \o BytesOf(b), b.transfer)
<1> DEFINE y == h \o BytesOf(b)
<1>1. \A k \in DOMAIN y : \/ k \in DOMAIN h /\ y[k] = h[k]
                          \/ y[k] = <<b.transfer, b.number, k - Len(h)>>
  BY Appended
<1>2. \A k : <<b.transfer, b.number, k>>[1] = b.transfer
  OBVIOUS
<1> HIDE DEF y
<1>3. AllOf(y, b.transfer)
  BY <1>1, <1>2 DEF AllOf
<1> QED
  BY <1>3 DEF y

\* Where the queue has just been emptied and its pop end disabled, or nothing
\* has come into it, there is nothing of another transfer.
LEMMA CalmTransfer ==
  ASSUME NEW r \in Readers, Calm(r)
  PROVE  OfTransfer(r)'
<1>1. DOMAIN <<>> = {}
  OBVIOUS
<1> QED
  BY <1>1 DEF Calm, OfTransfer

\* The bytes and the rows of a reader, by what happens to it.
LEMMA OneTransferStep ==
  ASSUME InterchainAssumption, Types, Together, [Next]_vars, NEW r \in Readers
  PROVE  /\ OneTransfer(have'[r])
         /\ \A i \in DOMAIN out'[r] : OneTransfer(out'[r][i])
<1> DEFINE Good == /\ OneTransfer(have'[r])
                   /\ \A i \in DOMAIN out'[r] : OneTransfer(out'[r][i])
<1>1. /\ OneTransfer(have[r]) /\ \A i \in DOMAIN out[r] : OneTransfer(out[r][i])
      /\ OfTransfer(r)
  BY DEF Together
<1>2. /\ queue[r].items \in Seq(Blocks) /\ have[r] \in Seq(Byte)
      /\ out[r] \in Seq(Seq(Byte))
  BY HasTypes
<1>3. ASSUME Same(r) \/ Emptied(r) \/ Received(r)
      PROVE  Good
  BY <1>1, <1>3 DEF Same, Emptied, Received
<1>4. ASSUME Restarted(r)
      PROVE  Good
  <2>1. DOMAIN <<>> = {}
    OBVIOUS
  <2>2. OneTransfer(<<>>)
    BY <2>1 DEF OneTransfer
  <2> QED
    BY <1>1, <1>4, <2>2 DEF Restarted
<1>5. ASSUME Took(r)
      PROVE  Good
  <2> DEFINE b == Head(queue[r].items)
  <2>1. /\ r \in registered /\ queue[r].enable_pop /\ queue[r].items # <<>>
        /\ have'[r] = have[r] \o BytesOf(b) /\ out'[r] = out[r]
    BY <1>5 DEF Took
  <2>2. b \in Blocks /\ b = queue[r].items[1] /\ 1 \in DOMAIN queue[r].items
    BY <1>2, <2>1, Rest
  <2>3. AllOf(have[r], b.transfer)
    BY <1>1, <2>1, <2>2 DEF OfTransfer, AllOf
  <2> HIDE DEF b
  <2>4. AllOf(have[r] \o BytesOf(b), b.transfer)
    BY <1>2, <2>2, <2>3, TookTransfer
  <2>5. OneTransfer(have[r] \o BytesOf(b))
    BY <2>4 DEF OneTransfer, AllOf
  <2> QED
    BY <1>1, <2>1, <2>5
<1>6. ASSUME NEW n \in Nat, PushedOut(r, n)
      PROVE  Good
  <2> DEFINE x == SubSeq(have[r], 1, n)
             z == SubSeq(have[r], n + 1, Len(have[r]))
  <2>1. PICK N \in Nat : N = Len(have[r])
    BY <1>2, LenProperties
  <2>2. n \in Nat /\ 1 <= n /\ n <= N
    BY <1>6, <2>1 DEF PushedOut
  <2>3. /\ x \in Seq(Byte) /\ DOMAIN x = 1..n
        /\ \A i \in 1..n : i \in DOMAIN have[r] /\ x[i] = have[r][i]
        /\ DOMAIN z = 1..N - n
        /\ \A i \in 1..N - n : i + n \in DOMAIN have[r] /\ z[i] = have[r][i + n]
    BY <1>2, <2>1, <2>2, Cut
  <2>4. have'[r] = z /\ out'[r] = Append(out[r], x)
    BY <1>6 DEF PushedOut
  <2> HIDE DEF x, z
  <2>5. Part(x, have[r]) /\ Part(z, have[r])
    BY <2>3 DEF Part
  <2>6. OneTransfer(x) /\ OneTransfer(z)
    BY <1>1, <2>5, PartOneTransfer
  <2> QED
    BY <1>1, <1>2, <2>3, <2>4, <2>6, RowAdded
<1>7. Change(r)
  BY ChangeStep
<1> HIDE DEF Good
<1>8. Good
  BY <1>3, <1>4, <1>5, <1>6, <1>7 DEF Change
<1> QED
  BY <1>8 DEF Good

\* The queue of a reader that was there, within a transfer.
LEMMA OfTransferStep ==
  ASSUME InterchainAssumption, Types, Together, [Next]_vars, NEW r \in Readers,
         r \in registered, Quiet(r)' => Quiet(r), transfers' = transfers
  PROVE  OfTransfer(r)'
<1> DEFINE q == queue[r].items
           p == queue'[r].items
           h == have'[r]
           on == queue'[r].enable_pop
           Good == /\ \A k \in DOMAIN p : p[k].transfer = transfers
                   /\ on => \A k \in DOMAIN h : h[k][1] = transfers
                   /\ Quiet(r) => p = <<>> /\ (on => h = <<>>)
<1>1. /\ \A k \in DOMAIN q : q[k].transfer = transfers
      /\ queue[r].enable_pop => \A k \in DOMAIN have[r] : have[r][k][1] = transfers
      /\ Quiet(r) => q = <<>> /\ (queue[r].enable_pop => have[r] = <<>>)
  BY DEF Together, OfTransfer
<1>2. q \in Seq(Blocks) /\ have[r] \in Seq(Byte)
  BY HasTypes
<1>3. DOMAIN <<>> = {}
  OBVIOUS
<1>4. ASSUME Same(r), NotReopened(r)
      PROVE  Good
  BY <1>1, <1>4 DEF Same, NotReopened
<1>5. ASSUME Emptied(r)
      PROVE  Good
  BY <1>1, <1>3, <1>5 DEF Emptied, NotReopened
<1>6. ASSUME Restarted(r)
      PROVE  Good
  BY <1>1, <1>3, <1>6 DEF Restarted
<1>7. ASSUME Received(r)
      PROVE  Good
  <2>1. ~Quiet(r) /\ p = Append(q, block) /\ h = have[r]
        /\ (on => queue[r].enable_pop)
    BY <1>7 DEF Received, NotReopened, Quiet
  <2>2. block \in Blocks /\ block.transfer = transfers
    BY <1>7, ComingStep
  <2>3. PICK M \in Nat : M = Len(q)
    BY <1>2, LenProperties
  <2>4. /\ p \in Seq(Blocks) /\ Len(p) = M + 1 /\ p[M + 1] = block
        /\ \A i \in 1..M : p[i] = q[i]
    BY <1>2, <2>1, <2>2, <2>3, AppendProperties
  <2>5. DOMAIN q = 1..M /\ DOMAIN p = 1..M + 1
    BY <1>2, <2>3, <2>4, LenProperties
  <2>6. 1..M + 1 = (1..M) \cup {M + 1}
    OBVIOUS
  <2> HIDE DEF p, q, h, on
  <2>7. \A k \in DOMAIN p : p[k].transfer = transfers
    BY <1>1, <2>2, <2>4, <2>5, <2>6
  <2> QED
    BY <1>1, <2>1, <2>7
<1>8. ASSUME Took(r)
      PROVE  Good
  <2> DEFINE b == Head(q)
  <2>1. /\ q # <<>> /\ queue[r].enable_pop /\ p = Tail(q)
        /\ h = have[r] \o BytesOf(b)
    BY <1>8 DEF Took
  <2>2. ~Quiet(r)
    BY <1>1, <2>1
  <2>3. /\ b \in Blocks /\ b = q[1] /\ 1 \in DOMAIN q
        /\ \A k \in DOMAIN Tail(q) : k + 1 \in DOMAIN q /\ Tail(q)[k] = q[k + 1]
    BY <1>2, <2>1, Rest
  <2> HIDE DEF b, p, q, h, on
  <2>4. \A k \in DOMAIN p : p[k].transfer = transfers
    BY <1>1, <2>1, <2>3
  <2>5. b.transfer = transfers /\ AllOf(have[r], b.transfer)
    BY <1>1, <2>1, <2>3 DEF AllOf
  <2>6. AllOf(h, b.transfer)
    BY <1>2, <2>1, <2>3, <2>5, TookTransfer
  <2>7. \A k \in DOMAIN h : h[k][1] = transfers
    BY <2>5, <2>6 DEF AllOf
  <2> QED
    BY <2>2, <2>4, <2>7
<1>9. ASSUME NEW n \in Nat, PushedOut(r, n)
      PROVE  Good
  <2>1. PICK N \in Nat : N = Len(have[r])
    BY <1>2, LenProperties
  <2>2. /\ n \in Nat /\ 1 <= n /\ n <= N /\ queue'[r] = queue[r]
        /\ h = SubSeq(have[r], n + 1, N)
    BY <1>9, <2>1 DEF PushedOut
  <2>3. /\ DOMAIN h = 1..N - n
        /\ \A i \in 1..N - n : i + n \in DOMAIN have[r] /\ h[i] = have[r][i + n]
    BY <1>2, <2>1, <2>2, Cut
  <2>4. have[r] # <<>>
    BY <2>1, <2>2
  <2>5. p = q /\ on = queue[r].enable_pop
    BY <2>2
  <2> HIDE DEF p, q, h, on
  <2> QED
    BY <1>1, <2>3, <2>4, <2>5
<1>10. Change(r)
  BY ChangeStep
<1> HIDE DEF Good
<1>11. Good
  BY <1>4, <1>5, <1>6, <1>7, <1>8, <1>9, <1>10 DEF Change
<1> QED
  BY <1>11 DEF OfTransfer, Good

LEMMA TogetherStep ==
  ASSUME InterchainAssumption, Types, Together, [Next]_vars
  PROVE  Together'
<1>1. ASSUME NEW r \in Readers
      PROVE  OfTransfer(r)'
  <2>1. CASE Calm(r)
    BY <2>1, CalmTransfer
  <2>2. CASE r \notin registered'
    BY <2>2 DEF OfTransfer
  <2>3. CASE ~Calm(r) /\ r \in registered'
    <3>1. r \in registered /\ (Quiet(r)' => Quiet(r))
      BY <2>3, QuietStep
    <3>2. CASE transfers' = transfers
      BY <3>1, <3>2, OfTransferStep
    <3>3. CASE transfers' # transfers
      <4>1. Quiet(r) /\ UNCHANGED <<queue, have>>
        BY <3>3, TransferStep
      <4>2. queue[r].items = <<>> /\ (queue[r].enable_pop => have[r] = <<>>)
        BY <3>1, <4>1 DEF Together, OfTransfer
      <4>3. DOMAIN <<>> = {}
        OBVIOUS
      <4> QED
        BY <4>1, <4>2, <4>3 DEF OfTransfer
    <3> QED
      BY <3>2, <3>3
  <2> QED
    BY <2>1, <2>2, <2>3
<1> QED
  BY <1>1, OneTransferStep DEF Together

LEMMA TogetherImpliesTogetherOnly ==
  ASSUME Together
  PROVE  TogetherOnly
  BY DEF Together, OneTransfer, TogetherOnly

-----------------------------------------------------------------------------
(* The theorems.                                                           *)

IInv == Types /\ Order /\ Together

LEMMA Invariance ==
  ASSUME InterchainAssumption
  PROVE  SafeSpec => []IInv
<1>1. Init => IInv
  BY TypesInit, OrderInit, TogetherInit DEF IInv
<1>2. IInv /\ [Next]_vars => IInv'
  BY TypesStep, OrderStep, TogetherStep DEF IInv
<1> QED
  BY <1>1, <1>2, PTL DEF SafeSpec

\* The variables of the source, of the readers and of the commands have their
\* types; a queue is never longer than its capacity.
THEOREM InterchainTypes ==
  ASSUME InterchainAssumption
  PROVE  SafeSpec => []TypeOK
<1>1. IInv => TypeOK
  BY TypesImplyTypeOK DEF IInv
<1> QED
  BY <1>1, Invariance, PTL

\* queue_reader() and stupid_queue_reader() pass every byte on in the order of
\* the source and none twice, within a block as from one to the next, whatever
\* is lost to full queues, through any number of transfers, cancellations and
\* restarts.
THEOREM ReadersKeepOrder ==
  ASSUME InterchainAssumption
  PROVE  SafeSpec => []InOrder
<1>1. IInv => InOrder
  BY OrderImpliesInOrder DEF IInv
<1> QED
  BY <1>1, Invariance, PTL

\* queue_reader() never puts the end of one transfer and the beginning of the
\* next into one block: resize_enable_push() leaves the pop end disabled, and
\* the reader empties its blocklist when it enables it.
THEOREM TransfersAreKeptApart ==
  ASSUME InterchainAssumption
  PROVE  SafeSpec => []TogetherOnly
<1>1. IInv => TogetherOnly
  BY TogetherImpliesTogetherOnly DEF IInv
<1> QED
  BY <1>1, Invariance, PTL

=============================================================================
