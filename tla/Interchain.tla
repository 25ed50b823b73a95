----------------------------- MODULE Interchain -----------------------------
(***************************************************************************)
(* Interchain queues (src/src/interchain.h, interchain.cc) and the steps   *)
(* that use them (interchainfns.cc): a queue_writer at the end of one      *)
(* chain, the source, copies its blocks to the queue of every reader; a    *)
(* queue_reader, first step of another chain, takes them out.  Readers     *)
(* come and go, and so do transfers of the source: a reader sees the end   *)
(* of one by a failing pop(), and then waits for the next.                 *)
(*                                                                         *)
(* There is at most one source at a time.  A reader r owns one queue, its  *)
(* sync_type<queue_reader_args>, and the rest of its chain of which only   *)
(* outq counts: a push there succeeds until the chain disables it.         *)
(*                                                                         *)
(* interchain_lock is implicit: requesting and removing a queue is one     *)
(* step, that is not possible while the source is walking the queues.      *)
(* The mutex of the first step is held through a whole                     *)
(* cancel_queue_reader(), StepHeld(r), and the mutex of the chain through  *)
(* communicate(), delayed_disable(), and stop() until it joins the         *)
(* threads, ChainHeld(r).                                                  *)
(***************************************************************************)
EXTENDS Naturals, Sequences, FiniteSets, QueueState

CONSTANTS
  Readers,
  OutSize,       \* out_blocksize of queue_reader()
  Sizes,         \* sizes of the blocks of the source
  Capacities,    \* what INTERCHAIN_QUEUE_SIZE / blocksize may come to
  DefaultCapacity,
  Commands,      \* Commands[r]: how the chain of r is ended: "flush" for
                 \* communicate() and delayed_disable(), "stop" for stop()
  Quitters,      \* readers whose chain may end at the other end
  MaxTransfers,  \* bound: number of transfers of the source
  MaxBlocks      \* bound: number of blocks of the source, over all transfers

ASSUME InterchainAssumption ==
  /\ Quitters \subseteq Readers
  /\ Commands \in [Readers -> Seq({"flush", "stop"})]
  /\ OutSize \in Nat \ {0} /\ Sizes \subseteq Nat \ {0}
  /\ Capacities \subseteq Nat \ {0} /\ DefaultCapacity \in Nat \ {0}
  /\ MaxTransfers \in Nat /\ MaxBlocks \in Nat

VARIABLES
  stupid,      \* those that run stupid_queue_reader(), the rest queue_reader()
  registered,  \* readers whose queue is in interchain.queues
  queue,       \* queue[r]: the queue of r; it means nothing unless registered
  capacity,    \* the capacity of queues that are requested
  \* the source
  spc, todo,   \* where it is, and the queues that it still has to visit
  transfers, blocks, \* number of transfers, of blocks so far
  block,       \* the block that is being copied
  \* the readers
  pc, have,    \* have[r]: blocklist, as the bytes that are in it
  run, cancelled, \* queue_reader_args::run, sync_type::cancelled
  source_queue,\* source_queue[r]: rteptr->interchain_source_queue is not 0
  out_open,    \* out_open[r]: outq takes blocks
  out,         \* out[r]: the blocks that r has pushed to outq, each a row of bytes
  cpc,         \* cpc[r]: where the thread that controls the chain of r is
  ncommand     \* ncommand[r]: the command that it executes

sourceVars == <<capacity, spc, todo, transfers, blocks, block>>
flagVars == <<stupid, run, cancelled, source_queue>>
readerVars == <<pc, have, out>>
controlVars == <<cpc, ncommand>>
vars == <<registered, queue, sourceVars, readerVars, flagVars, out_open, controlVars>>

\* A byte is known by the transfer and the block that it belongs to, and its
\* place in that block.
Byte == (1..MaxTransfers) \X (1..MaxBlocks) \X (Nat \ {0})
BytesOf(b) == [i \in 1..b.size |-> <<b.transfer, b.number, i>>]
Blocks == [transfer : 1..MaxTransfers, number : 1..MaxBlocks, size : Sizes]
NoBlock == [transfer |-> 0, number |-> 0, size |-> 0]

Init ==
  /\ stupid \in SUBSET Readers
  /\ registered = {}
  /\ queue = [r \in Readers |-> QueueOf(0, FALSE)]
  /\ capacity = DefaultCapacity
  /\ spc = "idle" /\ todo = {} /\ transfers = 0 /\ blocks = 0 /\ block = NoBlock
  /\ pc = [r \in Readers |-> "waiting"]
  /\ have = [r \in Readers |-> <<>>]
  /\ run = [r \in Readers |-> FALSE]
  /\ cancelled = [r \in Readers |-> FALSE]
  /\ source_queue = [r \in Readers |-> FALSE]
  /\ out_open = [r \in Readers |-> TRUE]
  /\ out = [r \in Readers |-> <<>>]
  /\ cpc = [r \in Readers |-> "idle"]
  /\ ncommand = [r \in Readers |-> 0]

Goto(r, where) == pc' = [pc EXCEPT ![r] = where]

-----------------------------------------------------------------------------
(* The source: queue_writer(), and the end of its userdata.                 *)

\* A walk over all queues, one after another, under the read lock.
Walking == spc \in {"enabling", "pushing", "disabling"}

BeginWalk(how) == spc' = how /\ todo' = registered

\* The walk does Op to one more queue.
Visit(how, Op(_)) ==
  /\ spc = how
  /\ \E r \in todo : /\ queue' = [queue EXCEPT ![r] = Op(@)]
                     /\ todo' = todo \ {r}
  /\ UNCHANGED <<registered, capacity, spc, transfers, blocks, block,
                 readerVars,
                 flagVars, out_open, controlVars>>

EndWalk(how, where) ==
  /\ spc = how /\ todo = {}
  /\ spc' = where
  /\ UNCHANGED <<registered, queue, capacity, todo, transfers, blocks, block,
                 readerVars, flagVars, out_open, controlVars>>

\* interchain_queues_resize_enable_push(): the capacity first, then the lock.
StartTransfer ==
  /\ spc = "idle" /\ transfers < MaxTransfers
  /\ transfers' = transfers + 1
  /\ capacity' \in Capacities
  /\ spc' = "starting"
  /\ UNCHANGED <<registered, queue, todo, blocks, block, readerVars, flagVars,
                 out_open, controlVars>>

BeginEnable ==
  /\ spc = "starting"
  /\ BeginWalk("enabling")
  /\ UNCHANGED <<registered, queue, capacity, transfers, blocks, block,
                 readerVars, flagVars, out_open, controlVars>>

\* TogetherOnly: resize_enable() where resize_enable_push() is meant.
Fault_EnableBothEnds == Visit("enabling", LAMBDA q : ResizeEnabled(q, capacity))

EnableQueue == Visit("enabling", LAMBDA q : ResizeEnabledPush(q, capacity))

\* interchain_queues_try_push()
BeginPush ==
  /\ spc = "running" /\ blocks < MaxBlocks
  /\ blocks' = blocks + 1
  /\ \E s \in Sizes :
       block' = [transfer |-> transfers, number |-> blocks + 1, size |-> s]
  /\ BeginWalk("pushing")
  /\ UNCHANGED <<registered, queue, capacity, transfers, readerVars, flagVars,
                 out_open, controlVars>>

\* bqueue::try_push(): a block for which there is no room is lost.
TryPushed(q, b) ==
  IF q.enable_push /\ Len(q.items) < q.capacity THEN Pushed(q, b) ELSE q

\* SourceIsNotHeldUp: interchain_queues_push(), which the code has as well.
Fault_PushBlocks ==
  /\ spc = "pushing"
  /\ \E r \in todo : /\ MayPush(queue[r])
                     /\ queue' = [queue EXCEPT ![r] = Pushed(@, block)]
                     /\ todo' = todo \ {r}
  /\ UNCHANGED <<registered, capacity, spc, transfers, blocks, block,
                 readerVars,
                 flagVars, out_open, controlVars>>

PushToQueue == Visit("pushing", LAMBDA q : TryPushed(q, block))

\* The transfer is over: ~queue_writer_args() calls interchain_queues_disable().
BeginDisable ==
  /\ spc = "running"
  /\ BeginWalk("disabling")
  /\ UNCHANGED <<registered, queue, capacity, transfers, blocks, block,
                 readerVars, flagVars, out_open, controlVars>>

DisableQueue == Visit("disabling", Disabled)

SourceStep ==
  \/ BeginEnable \/ EnableQueue \/ EndWalk("enabling", "running")
  \/ PushToQueue \/ EndWalk("pushing", "running")
  \/ DisableQueue \/ EndWalk("disabling", "idle")

-----------------------------------------------------------------------------
(* The readers: queue_reader() and stupid_queue_reader().                   *)

StepHeld(r) == cpc[r] \in {"look", "disable_pop"}

ChainHeld(r) ==
  StepHeld(r) \/ (cpc[r] \in {"flag", "close"} /\ Commands[r][ncommand[r]] = "stop")

\* Both wait, with the mutex of the step, until they may run or are cancelled.
StartReading(r) ==
  /\ pc[r] = "waiting" /\ ~StepHeld(r) /\ (run[r] \/ cancelled[r])
  /\ Goto(r, IF cancelled[r] THEN "ended" ELSE "request")
  /\ UNCHANGED <<registered, queue, sourceVars, have, out, flagVars, out_open,
                 controlVars>>

\* request_interchain_queue(): the reader can jump into a running transfer.
Request(r) ==
  /\ pc[r] = "request" /\ ~Walking
  /\ registered' = registered \cup {r}
  /\ queue' = [queue EXCEPT ![r] = ResizeEnabledPush(QueueOf(0, FALSE), capacity)]
  /\ source_queue' = [source_queue EXCEPT ![r] = TRUE]
  /\ Goto(r, IF r \in stupid THEN "enable" ELSE "check")
  /\ UNCHANGED <<sourceVars, have, out, stupid, run, cancelled, out_open,
                 controlVars>>

\* QueueIsEmptied: the pop end is enabled for the first transfer only.
Fault_EnableOnce(r) ==
  /\ pc[r] = "enable"
  /\ queue' = IF out[r] = <<>> THEN [queue EXCEPT ![r] = PopEnabled(@)] ELSE queue
  /\ have' = [have EXCEPT ![r] = <<>>]
  /\ Goto(r, IF r \in stupid THEN "check" ELSE "pop")
  /\ UNCHANGED <<registered, sourceVars, out, flagVars, out_open, controlVars>>

\* A (re)start, with an empty blocklist.
EnablePop(r) ==
  /\ pc[r] = "enable"
  /\ queue' = [queue EXCEPT ![r] = PopEnabled(@)]
  /\ have' = [have EXCEPT ![r] = <<>>]
  /\ Goto(r, IF r \in stupid THEN "check" ELSE "pop")
  /\ UNCHANGED <<registered, sourceVars, out, flagVars, out_open, controlVars>>

\* The stupid reader looks after it has enabled the queue, the other before.
Check(r) ==
  /\ pc[r] = "check"
  /\ Goto(r, IF ~run[r] \/ cancelled[r] THEN "ended"
             ELSE IF r \in stupid THEN "pop" ELSE "enable")
  /\ UNCHANGED <<registered, queue, sourceVars, have, out, flagVars, out_open,
                 controlVars>>

Enough(r, bytes) == IF r \in stupid THEN bytes # <<>> ELSE Len(bytes) >= OutSize

\* InOrder: push_front() for push_back() on the blocklist.
Fault_PopToFront(r) ==
  /\ pc[r] = "pop" /\ MayPop(queue[r])
  /\ queue' = [queue EXCEPT ![r] = Popped(@)]
  /\ IF Takes(queue[r])
     THEN /\ have' = [have EXCEPT ![r] = BytesOf(Head(queue[r].items)) \o @]
          /\ Goto(r, IF Enough(r, have'[r]) THEN "push" ELSE "pop")
     ELSE /\ Goto(r, IF r \in stupid THEN "enable" ELSE "check")
          /\ UNCHANGED have
  /\ UNCHANGED <<registered, sourceVars, out, flagVars, out_open, controlVars>>

\* A pop() that fails means that the source has stopped, or the reader has to.
Pop(r) ==
  /\ pc[r] = "pop" /\ MayPop(queue[r])
  /\ queue' = [queue EXCEPT ![r] = Popped(@)]
  /\ IF Takes(queue[r])
     THEN /\ have' = [have EXCEPT ![r] = @ \o BytesOf(Head(queue[r].items))]
          /\ Goto(r, IF Enough(r, have'[r]) THEN "push" ELSE "pop")
     ELSE /\ Goto(r, IF r \in stupid THEN "enable" ELSE "check")
          /\ UNCHANGED have
  /\ UNCHANGED <<registered, sourceVars, out, flagVars, out_open, controlVars>>

\* The first OutSize bytes of the blocklist, cut from or put together of
\* several blocks, or the block as it is.
PushOut(r) ==
  LET n == IF r \in stupid THEN Len(have[r]) ELSE OutSize
  IN  /\ pc[r] = "push"
      /\ IF out_open[r]
         THEN /\ out' = [out EXCEPT ![r] = Append(@, SubSeq(have[r], 1, n))]
              /\ have' = [have EXCEPT ![r] = SubSeq(@, n + 1, Len(@))]
              /\ Goto(r, IF Enough(r, have'[r]) THEN "push" ELSE "pop")
         ELSE Goto(r, "ended") /\ UNCHANGED <<out, have>>
  /\ UNCHANGED <<registered, queue, sourceVars, flagVars, out_open,
                 controlVars>>

\* The last thread of the chain leaves, run_step(): that takes the mutex.
Leave(r) ==
  /\ pc[r] = "ended" /\ ~ChainHeld(r)
  /\ Goto(r, "finals")
  /\ UNCHANGED <<registered, queue, sourceVars, have, out, flagVars, out_open,
                 controlVars>>

\* finalize_queue_reader(), without that mutex.
RemoveQueue(r) ==
  /\ pc[r] = "finals" /\ ~Walking
  /\ registered' = registered \ {r}
  /\ Goto(r, IF source_queue[r] THEN "removed" ELSE "done")
  /\ UNCHANGED <<queue, sourceVars, have, out, flagVars, out_open, controlVars>>

ForgetQueue(r) ==
  /\ pc[r] = "removed"
  /\ source_queue' = [source_queue EXCEPT ![r] = FALSE]
  /\ Goto(r, "done")
  /\ UNCHANGED <<registered, queue, sourceVars, have, out, stupid, run, cancelled,
                 out_open, controlVars>>

ReaderStep(r) ==
  \/ StartReading(r) \/ Request(r) \/ EnablePop(r) \/ Check(r) \/ Pop(r)
  \/ PushOut(r) \/ Leave(r) \/ RemoveQueue(r) \/ ForgetQueue(r)

-----------------------------------------------------------------------------
(* The commands that control the chain of a reader.                         *)

\* The chain is disabled from behind: a step after the reader has ended.
DownstreamEnds(r) ==
  /\ r \in Quitters /\ out_open[r]
  /\ out_open' = [out_open EXCEPT ![r] = FALSE]
  /\ UNCHANGED <<registered, queue, sourceVars, readerVars, flagVars,
                 controlVars>>

Control(r, from, to) == cpc[r] = from /\ cpc' = [cpc EXCEPT ![r] = to]

\* communicate(set_run, true)
SwitchOn(r) ==
  /\ ncommand[r] = 0 /\ Control(r, "idle", "on")
  /\ run' = [run EXCEPT ![r] = TRUE]
  /\ UNCHANGED <<registered, queue, sourceVars, readerVars, stupid, cancelled,
                 source_queue, out_open, ncommand>>

\* cancel_queue_reader(): the flag, then the pointer, then the queue.
CancelRun(r) ==
  /\ ncommand[r] < Len(Commands[r])
  /\ ncommand' = [ncommand EXCEPT ![r] = @ + 1]
  /\ \E from \in {"idle", "on"} : Control(r, from, "look")
  /\ run' = [run EXCEPT ![r] = FALSE]
  /\ UNCHANGED <<registered, queue, sourceVars, readerVars, stupid, cancelled,
                 source_queue, out_open>>

CancelLook(r) ==
  /\ Control(r, "look", IF source_queue[r] THEN "disable_pop" ELSE "flag")
  /\ UNCHANGED <<registered, queue, sourceVars, readerVars, flagVars, out_open,
                 ncommand>>

\* CancelEndsStupidReading: the queue is left as it is.
Fault_CancelFlagOnly(r) ==
  /\ Control(r, "disable_pop", "flag")
  /\ UNCHANGED <<registered, queue, sourceVars, readerVars, flagVars, out_open,
                 ncommand>>

\* (If the finals delete the queue just before this, anything may happen.)
CancelDisablePop(r) ==
  /\ Control(r, "disable_pop", "flag")
  /\ queue' = [queue EXCEPT ![r] = PopDisabled(@)]
  /\ UNCHANGED <<registered, sourceVars, readerVars, flagVars, out_open,
                 ncommand>>

\* cancel_synctype(), which is part of stop() only.
CancelFlag(r) ==
  /\ Control(r, "flag", "close")
  /\ cancelled' = [cancelled EXCEPT ![r] = @ \/ Commands[r][ncommand[r]] = "stop"]
  /\ UNCHANGED <<registered, queue, sourceVars, readerVars, stupid, run, source_queue,
                 out_open, ncommand>>

CloseOut(r) ==
  /\ Control(r, "close", "idle")
  /\ out_open' = [out_open EXCEPT ![r] = FALSE]
  /\ UNCHANGED <<registered, queue, sourceVars, readerVars, flagVars, ncommand>>

ControlStep(r) ==
  CancelLook(r) \/ CancelDisablePop(r) \/ CancelFlag(r) \/ CloseOut(r)

-----------------------------------------------------------------------------
Next ==
  \/ StartTransfer \/ BeginPush \/ BeginDisable \/ SourceStep
  \/ \E r \in Readers : \/ ReaderStep(r) \/ DownstreamEnds(r)
                       \/ SwitchOn(r) \/ CancelRun(r) \/ ControlStep(r)

SafeSpec == Init /\ [][Next]_vars

\* Threads go on with what they have begun.  Nothing makes the source start,
\* send a block or end, nor anybody give a command.
Fairness ==
  /\ WF_vars(SourceStep)
  /\ \A r \in Readers : WF_vars(ReaderStep(r)) /\ WF_vars(ControlStep(r))

Spec == SafeSpec /\ Fairness

-----------------------------------------------------------------------------
(* Properties.                                                              *)

TypeOK ==
  /\ stupid \subseteq Readers
  /\ registered \subseteq Readers /\ todo \subseteq registered
  /\ \A r \in registered :
       /\ queue[r] \in Queues(Blocks, Capacities \cup {DefaultCapacity})
       /\ Len(queue[r].items) <= queue[r].capacity
  /\ spc \in {"idle", "starting", "enabling", "running", "pushing", "disabling"}
  /\ transfers \in 0..MaxTransfers /\ blocks \in 0..MaxBlocks
  /\ pc \in [Readers -> {"waiting", "request", "check", "enable", "pop", "push",
                         "ended", "finals", "removed", "done"}]
  /\ \A r \in Readers : have[r] \in Seq(Byte) /\ out[r] \in Seq(Seq(Byte))
  /\ run \in [Readers -> BOOLEAN] /\ cancelled \in [Readers -> BOOLEAN]
  /\ source_queue \in [Readers -> BOOLEAN] /\ out_open \in [Readers -> BOOLEAN]
  /\ cpc \in [Readers -> {"idle", "on", "look", "disable_pop", "flag", "close"}]
  /\ \A r \in Readers : ncommand[r] \in 0..Len(Commands[r])

\* queue_reader() puts blocks together, but never the end of one transfer and
\* the beginning of the next, as long as it cannot miss that the source has
\* stopped: nobody but the reader enables the pop end of its queue.
TogetherOnly ==
  \A r \in Readers : \A i \in DOMAIN out[r] :
    \A j, k \in DOMAIN out[r][i] : out[r][i][j][1] = out[r][i][k][1]

\* The order in which the source has sent two bytes.
Earlier(x, y) == x[2] < y[2] \/ (x[2] = y[2] /\ x[3] < y[3])

\* A reader passes every byte on in the order of the source, and none twice,
\* however it cuts the blocks or puts them together; bytes may be missing, of
\* blocks for which the queue had no room or of which the end was thrown away.
InOrder ==
  \A r \in Readers : \A i, j \in DOMAIN out[r] :
    \A k \in DOMAIN out[r][i], l \in DOMAIN out[r][j] :
      i < j \/ (i = j /\ k < l) => Earlier(out[r][i][k], out[r][j][l])

Reading == {"request", "check", "enable", "pop", "push"}

\* "Outer loop only finishes if *our* transfer is cancelled", and then it does:
\* a reader that is told not to run any longer ends, whether the source sends
\* anything or not.
CancelEndsReading ==
  \A r \in Readers : (pc[r] \in Reading /\ ~run[r]) ~> pc[r] \notin Reading

\* The same for stupid_queue_reader().
CancelEndsStupidReading ==
  \A r \in Readers :
    (r \in stupid /\ pc[r] \in Reading /\ ~run[r]) ~> pc[r] \notin Reading

\* The source never waits for a reader, be it slow, stuck or gone: it gets round
\* the queues, and gives interchain_lock back to those that come and go.
SourceIsNotHeldUp == Walking ~> ~Walking

\* As long as it is not cancelled, a reader takes what it is sent, however the
\* end of one transfer and the beginning of the next fall together.
QueueIsEmptied ==
  \A r \in Readers :
    (r \in registered /\ queue[r].items # <<>>) ~>
      (r \notin registered \/ queue[r].items = <<>> \/ ~run[r])

=============================================================================
