# A TLA+ development of jive5ab

jive5ab records, plays and transfers VLBI data.  A transfer is a *chain*: a row
of steps, each executed by one or more threads, with a queue between one step
and the next.  The chains, the queues they are made of, the memory blocks that
travel through them, and the steps whose threads share state, are what this
development is about.  The rest of the program (some hundred commands, drivers
and file formats) configures chains or works on bytes.

All paths below are relative to `src/src/`.

## 1. Inventory

| component | state | operations | interacts with | what is hard | what makes it correct |
|---|---|---|---|---|---|
| `bqueue.h` queue between threads | elements, capacity, `enable_push`, `enable_pop`, `nPush`, `nPop`, two condition variables | `push`, `try_push`, `pop`, timed `pop`, `trypop`, `clear`, `disable`, `delayed_disable`, `disable_pop`, `enable`, `resize_enable`, `resize_enable_push`, `enable_pop_only` | every step of every chain; interchain | one signal per element, spurious wake-ups, two counters that decide who is signalled, disabling under sleepers | no lost wake-up; bounded; a disabled queue releases everybody; the last elements of a delayed disable are delivered |
| `chain.cc/.h` chain | `running`, `joining`, `cancelled`, `finalized`, `nthreads`; per step the number of threads, userdata, cancellation flag | `run`, `stop`, `gentle_stop`, `delayed_disable`, `wait`, `communicate`; `run_step` in each thread | makes the queues and the threads; the commands call it | end of the data, stop, failure to start, wait and the end of the last thread, all at once | userdata outlive threads; one thread joins; finals once and alone; a gentle stop loses nothing; stop returns |
| `interchain.cc`, `interchainfns.cc` data from one chain to others | set of queues, read/write lock, capacity; per reader `run`, `cancelled`, the pointer to its queue | `request_/remove_interchain_queue`, `interchain_queues_try_push`, `_disable`, `_resize_enable_push`; `queue_writer`, `queue_reader`, `stupid_queue_reader`, `cancel_queue_reader`, `finalize_queue_reader` | two or more chains | readers come and go, transfers of the source begin and end; a queue is switched on and off at each end by different threads | the source never waits; order; no mixing of transfers; a cancelled reader ends |
| `block.cc` block | pointer, length, reference count | construct, copy, `sub`, assign, destroy | everywhere | decrement and test are two steps | memory outlives its references and is freed |
| `blockpool.cc` pools of blocks | circular list of pools, use counts, garbage can and its mutex | `get`, destructors, `check_garbage`, `maybe_add_to_can` | readers of sockets and files | use counts are added up while others change them | memory outlives blocks; no block has two owners; grows only if full |
| `threadfns/multisend.cc` `parallelwriter` | list of mountpoints, `listlength`, open files | pop a chunk, take a mountpoint, write, put back or discard | last step of a recording to disks | any write may fail; waiting for a mountpoint that does not come back | no waiting in vain; no chunk lost unnoticed |
| `multisend.cc` `rsyncinitiator`, `parallelreader2`, `parallelsender`, `parallelnetreader` | list of files wanted, a connection per chunk, the files on the mountpoints of the receiver | request and answer, read, connect with retries, send, accept, take, store | two machines; `parallelwriter` on the receiving one | the end of a connection is the only acknowledgement; crashes leave parts of files; a chunk that is asked for again while it is on its way | nothing vanishes unnoticed; good mountpoints stay; a synchronisation ends |
| `runtime`, `transfermode`, `mk5command/vbs2net.cc`, `mem2net.cc`: the life of a transfer | transfer mode, flags, the chain of a runtime | connect, on, stop, disconnect; guard functions, called by the last thread of a chain | chain | the guard runs late and without knowing which chain the runtime has by then; `run()` comes before the mode is set | one transfer at a time; work is visible in the mode; guards touch their own transfer only; commands return |
| `udpsreader` | window of blocks, first/expected/highest sequence number, statistics, last 32 numbers | account, place, shift the window, read, flush | block pools, queue | reordering, loss, duplicates, restarts of the sender | each datagram gets to its place or is counted; what is reported as lost is what is missing |
| `circular_buffer.h` | array, two pointers, number of elements | `push`, `clear`, `size`, `[]` | `udpsreader` | pointers that reach the end, a writer that overtakes the reader | it holds the last elements, in order |
| `tthreadfns.h` `multiwriter` | a map of queues and threads made inside a step | | chain | threads that are made and joined by a step | *not modelled* |
| `errorqueue.cc`, `per_runtime.h`, `libvbs.cc` | small data structures | | | boundaries | *not modelled* |
| command parsers, `xlrdevice`, `userdir`, formats, decoders, `dotzooi`, `etransfer`, python tools | | | | I/O and formats | not planned |

The steps of a transfer share nothing but the queues between them and, where a
step has several threads, the userdata of that step.  So the system splits along
its locks: the queue, the chain that is made of queues, what joins two chains
(interchain), and the few steps with state of their own.

`PROJECT.json` has the complete list, and under "hazards" the places where this
code is hard to test, with the properties that watch over them.

## 2. The modules

| module | models | lines of the source |
|---|---|---|
| `QueueState` | what each operation does to the fields of a queue, as operators on a record | `bqueue.h` |
| `QueueContract` | what a queue promises: each call is one step, that happens when it can | `bqueue.h` |
| `BQueue` | the queue as it is written: mutex sections, counters, condition variables | `bqueue.h` |
| `BQueue_proofs` | theorems about `BQueue` | |
| `Chain` | `chainimpl` and `run_step`, any number of steps and threads | `chain.cc`, `chain.h` |
| `Interchain` | a source and its readers | `interchain.cc`, `interchainfns.cc` |
| `Interchain_proofs` | theorems about `Interchain` | |
| `BlockPool` | blocks, pools, blockpools and the garbage can | `block.cc`, `blockpool.cc` |
| `BlockPool_proofs` | theorems about `BlockPool` | |
| `ParallelWriter` | `parallelwriter()` | `threadfns/multisend.cc` |
| `ParallelWriter_proofs` | theorems about `ParallelWriter` | |
| `Chain_proofs` | theorems about `Chain` | |
| `Transfer` | two kinds of transfer of a runtime: commands, threads, guards | `mk5command/vbs2net.cc`, `mem2net.cc`, `chain.cc` |
| `Transfer_proofs` | theorems about `Transfer` | |
| `CircularBuffer` | the buffer, as operators on a record | `circular_buffer.h` |
| `UdpsReader` | `udpsreader_bh()`, the bottom half of the UDP reader | `threadfns/udpsreader.cc` |
| `UdpsReader_proofs` | theorems about `UdpsReader` | |
| `Rsync` | vbs2net on one machine, net2vbs on the other | `threadfns/multisend.cc` |
| `Rsync_proofs` | theorems about `Rsync` | |
| `MCChain`, `MCInterchain`, `MCBlockPool`, `MCRsync` | the instances that need definitions | |

How they compose: `BQueue` implements `QueueContract`, and both speak of the
queue with the operators of `QueueState`.  `Chain`, `Interchain` and
`ParallelWriter` use those operators for their queues and so rely on the
contract: a `push()` that has to wait is an action that is not enabled.  What
the contract says of fairness (some pending call completes when one can, it is
not promised which) is what `Chain` assumes of a team of threads at a queue.
`Transfer` in turn sees of a chain what `Chain` shows to its callers: that the
threads of a chain, if they can be cancelled, end once it is stopped
(`Chain!StopReturnsInTheEnd`) or once
its first queue takes nothing more (`Chain!EndTravelsDownstream`), that the last
of them and no other calls the guard (`Chain!FinalsRunOnceAlone`), and that who
joins waits for it.  `Rsync` keeps of `ParallelWriter` which mountpoints are
listed, in use or struck off, and leaves out how writers wait for one another.
`UdpsReader` extends `CircularBuffer`.

### BQueue

`queue`, `capacity`, `enable_push`, `enable_pop`, `nPush`, `nPop` are the
members of the class.  `wait_push` and `wait_pop` are the threads that sleep on
the two condition variables; `call[t]`, `elem[t]` the call thread `t` is in;
`result[t]` what its last call told.  An action is a section between taking the
mutex and releasing it or sleeping: `Push` runs to the return or to the first
wait, `PushResume` is the same code after a wake-up, and they share
`PushLocked`.  A signal takes any one sleeper off the condition, a broadcast all
of them, `SpuriousWakeup` any one for no reason.  `pop()` with a time ends its
wait by `TimeOut` as well.

### Chain

A thread goes through `ready` (in its function, empty handed), `full` (with an
item to push), `ending`, `disable_out`, `disable_in`, `leave`, `finals`, `gone`:
the last five are the tail of `run_step()`.  The lock of the chain is held by a
controller through its call, as in the code, except where `join_and_cleanup()`
gives it up: while joining and in its wait.  `run()` starts the threads from the
last step to the first, one action per step (`StartStep`), and may fail at any
of them (`MakeFails`: the maker of the userdata throws, `StartFails`: a thread
cannot be created).  The thread functions are those of any chain that keeps the
rules chain.h asks for; `Quitters` are the steps that may also end by
themselves.

A chain is run once.  The list of the threads of a step is never cleared, so
that a second run would join threads that no longer exist; the commands make a
new chain for each transfer.

### Interchain

`queue_writer` is the source (`spc`): it enables the queues of all readers,
copies each block to all of them with `try_push()`, and disables them when it
ends; it walks over the queues with the read lock of `interchain_lock` held,
one queue per action, so that a reader can be between two of them.  A reader is
either `queue_reader()` or `stupid_queue_reader()`: the variable `stupid` is the
set of the latter and never changes.  A byte is the triple of the transfer it
belongs to, the number of its block and its place in the block, so that no two
bytes are the same and the properties can say what came of each.  The
controller of a reader's chain executes a list of commands: "flush" is what
`communicate()` with `delayed_disable()` do, "stop" is `stop()`.

### BlockPool

`points[h]` is the memory that block object `h` refers to: a slot of a pool or a
piece of the heap.  `use_cnt` has the counters of both.  `Drop` is the first
half of the destructor; for heap memory the second half, which looks at the
counter again, is `FreeIfUnused`.  `get()` is a walk of one slot at a time
(`SkipUsed`, `TakeFree`) that may end in a new pool (`Make`).  A blockpool that
is deleted puts its pools in the can under the mutex of the can; `BeginTry`,
`AddUse`, `EndTry` are `try_delete()`, which adds the counters one by one.
Blockpools are each used by one thread, as in the program.

### ParallelWriter

`pc[w]` says where a writer is in the loop; an action is a section under the
lock of the step, together with what the writer did to its files before.
`MarkBad` is the macro `MARK_MOUNTPOINT_BAD` behind any failing call; `PutBack`
the end of the loop; `ChownThrows` the `ASSERT2_ZERO` on `fchown()`, which takes
the thread out of the loop with its mountpoint.  `mk6` says whether the
recording is in Mark6 format: it is chosen at the start.

The branch of `InspectMountpoint` for a mountpoint that this writer tried
before is never taken: a mountpoint that failed is not put back, and one that
did not fail ends the loop.  The model keeps it, as the code does, and
`NoMountpointIsTriedTwice` proves that it is dead.

### Transfer

`mode` and `submode` are the transfer mode and its flags, `current` the chain
that the counted pointer of the runtime refers to.  `tr[g]` is the transfer of
the `g`-th connect, from its chain to the socket in its userdata; `tr[g].phase`
is where its threads are: `none`, `busy`, the stations of the guard (`guard`,
`clr`, `write`, `close`, `reset`), `gone`.  `cpc` is where the one thread that
executes commands is.  Assigning a new chain to the runtime drops the last
reference to the old one, whose destructor stops and joins it: `Replace` and
`Destroyed`.

Two commands stand for the family.  `vbs2net` leaves the mode to its guard;
`mem2net` waits for `on`, has a guard that closes the socket, and a disconnect
that clears everything by itself.  The guard holds the lock of the runtime for
its first part and the commands do not, so that `CLR(submode)` is a read and a
write (`GuardReadsFlags`, `GuardWritesFlags`).

### UdpsReader and CircularBuffer

`workbuf`, `firstseqnr`, `expectseqnr`, `maxseq`, `minseq`, `shiftcount`,
`discard` are the variables of the function, `stat` the counters it shares with
the statistics, `psn` its circular buffer.  A datagram is its sequence number; a
place of a block holds one or `Missing`.  `Account` is what is done with the
number that was peeked at, `Place` and `Shift` the search for its place, `Read`
the datagram itself; `Flush` is the loop behind the `catch`, which pushes what
the window has left, and throws where it meets a block that was never made.

`arrived`, `total`, `again` and `epoch` are for the properties: what came since
the sender last started afresh, and how much came altogether.

### Rsync

A sender is `pop`, `connect`, `send`, `wait`, `gone`; a receiver `accept`,
`accepted`, `read`, `push`, `close`, `gone`; a writer `pop`, `mount`, `write`,
`gone`.  `conn[s]` is the connection of a sender, from its place in the backlog of
the receiver to the end that either side sees; `left` is one that the receiver
has abandoned and not closed.  `sent` is how much of the chunk is under way.  A
file is `no`, `part` or `whole`.

`net2vbs` says how far the chain of the receiver has been stopped, which takes
three steps: `mna_close()` closes the socket and the connections that are
registered, then the threads are told, then the first queue is disabled with a
delay (`StopReceiving`, `StopGoesOn`).  A receiver is between accept and
registration in `accepted`: it goes on (`Register`) or leaves (`Abandon`).  When
all threads are gone net2vbs can be opened again (`StartReceiving`).

`Failure` has all that may go wrong: a request without answer, a disconnect, at
any time, unreadable files, connections refused or cut, receivers that fail to
accept and leave, mountpoints that fail on open or in the middle of a file,
net2vbs closed, and `Crash`, which kills the receiving program and starts it again
with the files that it had.  The tries to connect are counted and only the last
one is a failure; where nobody listens it fails without any.

## 3. The runs

Deadlock is not checked where `CHECK_DEADLOCK FALSE` is set: chains, transfers
and recordings end, and then nothing happens any more.  `BQueue` is checked for
it, as its owner can always call something.

| run | instance | what it shows |
|---|---|---|
| `bq_chain` | two pushers, two poppers, two elements, capacities 1 and 2; `enable`, `disable`, `delayed_disable` | wake-ups, capacity, nothing left behind, release of everybody, and the contract with its fairness |
| `bq_calls` | a pusher, two timed poppers, one thread that tries and clears; all control calls | counters, wake-ups of timed poppers |
| `chain_stop` | steps of 1, 2, 1 threads, queues of one place, two items; the first and last step may end by themselves; failures to start, one thread that runs and stops, one that waits | use of userdata, one joiner, finals, gentle stop; that stop returns and that the end of one step ends the others |
| `ic` | one reader of either kind, blocks of 1 and 3 bytes to blocks of 2, two transfers, three blocks, flush then stop; its own chain may end first | order, no mixing, cancellation, nothing kept for later, the source is not held up |
| `blocks` | three block objects, two blockpools, two pools of two blocks, one piece of heap memory | lifetime, ownership, growth |
| `pw` | three writers, two mountpoints, three chunks, with and without Mark6 | mountpoints, waiting, giving up, finishing |
| `transfer` | three connects of either kind, with either reader, `run()` may fail | one transfer at a time, what the mode shows, late guards, commands return, a gentle stop brings threads, socket and mode back to idle |
| `udps` | five datagrams with numbers from 0 to 7, a window of two blocks of two, two numbers remembered | places, accounting, the number that is reported as lost, the circular buffer |
| `rsync` | two chunks, one mountpoint, two senders, two receivers, one writer, two tries, two synchronisations, one failure of any kind | nothing vanishes, good mountpoints stay, every synchronisation ends |

Three runs show where the program does not do what its comments say (the
"findings" of `PROJECT.json` quote them):

* `chain_short`: the loop in `run()` that starts the threads advances its
  iterator before it notices that a thread is missing, so that a failure in the
  first step goes unnoticed (`chain.cc:216`).
* `udps_gap`: the loop that pushes what is left of the window does not look
  whether a block is there; one of which no datagram came makes it throw, and the
  blocks behind it are lost (`threadfns/udpsreader.cc:517`, and 442).
* `rsync_refused`: the receiver sets `done` when its chunk is refused, and
  overwrites it before it looks at it; it goes on to take chunks and to drop them
  (`threadfns/multisend.cc:1114`).

More configurations are kept beside the runs.  Seven have counterexamples in the
code as it is, and the hazards refer to them:

* `ic_lost_cancel.cfg` (`MCInterchain`, `CancelEndsReading`): `queue_reader()`
  looks whether it is cancelled and then enables its queue, which undoes a
  cancellation in between (`interchainfns.cc:149`).  `stupid_queue_reader()` does
  it in the other order, and `CancelEndsStupidReading` holds.
* `blocks_race.cfg` (`MCBlockPool`, `FreedOnce`): `~block()` decrements the
  counter and reads it again, so that two threads may both free the memory
  (`block.cc:151`).
* `pw_mk6_header.cfg` (`ParallelWriter`, `Mk6WrittenIsStored`): a chunk whose
  Mark6 block header could not be written is taken for written
  (`threadfns/multisend.cc:1353`).
* `transfer_stuck.cfg` (`Transfer`, `DoneMeansCleared`): a chain that is done
  before the command has set the mode leaves the mode set; a disconnect clears
  only a flag, and no guard comes any more (`mk5command/vbs2net.cc:155`, 172).
* `bq_try_push.cfg` (`BQueue`, `TryPushTells`): `try_push()` is documented to
  return one of three enumerators (`bqueue.h:231`), and returns them through a
  `bool`: success is told as false, the two failures as true (`bqueue.h:257`).
  The only caller does not look (`interchain.cc:69`).
* `udps_loss.cfg` (`UdpsReader`, `LossIsPlausible`): the "amount of packets lost"
  is a difference of unsigned numbers.  Where more datagrams came twice than are
  missing it wraps, and about 2^64 are reported (`threadfns/udpsreader.cc:368`).
* `rsync_cancel.cfg` (`Rsync`, `CancelClosesConnections`): "register it such that
  we get informed (and fd closed) upon cancellation" (`multisend.cc:938`); but a
  receiver that is cancelled after accept and before it has registered leaves
  without closing the connection (944), and the sender waits for its end (850).

Three hold, on instances that add something to those of the runs:

* `ic_two.cfg` (`MCInterchain`, `TogetherOnly`): two readers of one source.
* `rsync_disks.cfg` (`MCRsync`, `NothingVanishes`, `GoodMountpointsStay`): as
  `rsync`, with two mountpoints and two failures.
* `rsync_ends.cfg` (`Rsync`, `RoundsEnd`): one synchronisation, two failures.

Others were met while modelling and have no run, because the program avoids
them or the model stops short of them; the hazards list them: a timed pop,
trypop or clear that completes a delayed disable tells nobody (`bqueue.h:361`);
a second `run()` of a chain (`chain.cc:416`); a second `stop()` during a first
(`chain.cc:339`); the pointer to an interchain queue that is used while the
finals delete the queue (`interchainfns.cc:373`); an `fchown()` that throws
leaves the other writers waiting (`threadfns/multisend.cc:1330`).

### Bounds, and why they are enough

* *Queue.*  Two threads on each side are the least with which a signal can go to
  the wrong one, be overtaken or be consumed for nothing; capacity 1 makes every
  push and pop an edge, 2 lets one of two wake-ups be missing.  What holds here is proved for all sizes (section 5).
* *Chain.*  Three steps are a first, a middle and a last; the middle has two
  threads, so that "the last thread of the step" is a choice.  Queues of one
  place are full and empty most of the time.  Two items: they can be in the two
  queues, in the hands of the two threads of the middle step, or one each.  The
  safety properties are proved for all sizes (section 5).
* *Interchain.*  Two transfers, as the question is what the second sees of the
  first.  Block sizes 1 and 3 on output blocks of 2 make blocks that are too
  short, too long and that straddle.  Capacity 2 lets the source overrun a
  reader.  Two readers (`ic_two.cfg`) where the walk over the queues matters.
* *Blocks.*  Two slots per pool so that `get()` goes round and the counters can
  be added up while one changes; two pools so that it skips to another; three
  handles, one more than the slots of a pool.  One piece of heap memory, as
  pieces do not meet.
* *Writers.*  Three writers on two mountpoints: two writers can wait for one
  mountpoint, and the other two mountpoints' fates are independent.

* *Transfers.*  Three connects: the guard of one, the chain that replaces it, and
  one more to come while either is unfinished.
* *Datagrams.*  Eight numbers over a window of four: a number can be in the
  window, beyond it by less or more than a window, late by at most a block, or so
  old that it is a new stream.  Five datagrams are one more than the window
  holds, and enough for a restart with numbers on both sides of it.
* *Synchronisation.*  The second synchronisation is what shows the effect of what
  the first one left; two senders and two receivers so that a chunk can be asked
  for while it is on its way, and one receiver may leave and the other stay.  One
  failure may be any, at any time.  `rsync_disks.cfg` has two mountpoints, so that
  one can be lost and the other not, and two failures; `rsync_ends.cfg` two
  failures, so that one can be an answer to the other.

The constants that only bound the exploration are marked `bound:` where they
are declared: `MaxItems`, `MaxBlocks`, `NChunks`, `MaxSeq`, `MaxPackets`,
`MaxRounds`, `MaxFaults`, and `MaxTransfers` of two modules; in `BlockPool` the
sets `Pool` and `Memory` bound what can be allocated.

Symmetry is used in `blocks`, `blocks_race` and `rsync_disks` only, whose
properties are about single steps and states.

### Fairness, and why the code justifies it

* `BQueue`: a thread that has been taken off a condition gets the mutex again
  (weak fairness of each `...Resume`): the mutex is never held across a wait.  A
  timed wait ends.  Nobody is obliged to call anything.
* `Chain`: of the threads of a step that are inside `push()`, or inside `pop()`,
  one goes on when the queue lets it, which is what `QueueContract` promises and
  `bq_chain` checks; every other step of a thread, and of a call that has begun,
  is just running code.  Nothing is assumed of the world the first step reads
  from: `Read` and `Quit` are not fair.
* `Interchain`: the source finishes a walk that it began, a reader and a command
  go on.  The source need not send anything, nor end.
* `ParallelWriter`: threads run, and a system call returns, with or without
  success.
* `Transfer`: a command that has begun and a guard go on; the threads of a chain
  end if it is cancelled or told to, as said above, unless they read by
  `queue_reader()`, which may undo its cancellation (`ic_lost_cancel.cfg`): of
  those nothing is assumed (`MayHang`).  Nobody has to give a command, and threads
  that are not told to end need not.
* `Rsync`: threads run.  Nothing has to fail, nobody has to ask again; nor open
  net2vbs again; an attempt to connect that succeeds is as much a step as one that
  does not, and where nobody listens the failure is a step of its own.
* `UdpsReader`: no fairness and no liveness; it waits for a network that may
  stay silent.

Every property of every passing run is paired with a slip (an operator
`Fault_...`, next to the definition it replaces) with which the run finds it
violated; `PROJECT.json` has the pairs under "mutants".

## 4. Reading the properties

Some that need a word:

* `PushersAreWoken`, `PoppersAreWoken` (BQueue): while somebody sleeps there are
  at least as many woken threads under way as there are places, or elements.
  That is why one signal per call is enough, and it is stronger than "no
  deadlock".
* `ContractSpec` is a refinement with the fairness of the contract: from outside,
  the condition variables cannot be seen.
* `GentleStopLosesNothing` follows every item that the first queue accepted.  It
  is about the order in `run_step()` (disable the queue behind with a delay,
  then the one in front) and about who is the last thread.
* `TogetherOnly` is the reason that `queue_reader()` starts afresh when `pop()`
  fails: the bytes it has gathered must not be completed by the next transfer.
* `FinalsRunOnceAlone` counts the finals of a run and asks, whenever they are
  under way, that no other thread of the chain is left and nobody has joined yet.
* `EndTravelsDownstream`, `EndTravelsUpstream`: whatever step ends first and for
  whatever reason, all others end.  The second rests on a push that fails.
* `OneTransferAtATime` is about the time between the moment a guard has set the
  mode to idle and its end: a connect may come in between and builds its chain,
  but the assignment joins the old one before the new one runs.
* `StopReturnsToIdle` says what `mem2net.cc:29` does: the threads and the socket
  go and the mode is back to `no_transfer`, for good, or until there is another
  transfer.  It speaks of a transfer that was on, as a `mem2net` that is stopped
  before its reader has seen `on` waits for one that does not come, and that is
  read by `stupid_queue_reader()`, as `queue_reader()` may hang.
* `CommandsReturn` has the same exception: a command that stops a chain joins its
  threads, and waits for ever if `queue_reader()` has undone its cancellation.
* `InOrder` compares each byte with all that come after it, in a row and in later
  rows, and with "before" in the strict sense: no byte comes twice.
* The contract of the queue has `try_push()` as its callers see it: a `bool` that
  is false when the element was taken.
* `LossIsLostLessRepeats`: the number that is reported is highest minus lowest
  plus one minus what came.  It is the number of missing ones only as long as
  nothing came twice; the property says so exactly, modulo `Wrap` (2^64 in the
  program), so that a number that has wrapped is the one the program reports.
* `EveryDatagramIsAccounted` is stated where the reader is about to look for the
  next datagram; the sum has a datagram once whether it was pushed, is in the
  window, was thrown away with a count, or replaced by its duplicate.
* `NothingVanishes` exempts a chunk of which a part was left by a crash or a
  failed removal: its name is on the list of what the receiver has, and it is not
  asked for again.
* `GoodMountpointsStay`: each mountpoint that was struck off is one where opening
  or writing a file failed; that something else failed, or another mountpoint,
  excuses nothing.  It exempts runs in which a chunk was asked for while it was on
  its way: its second copy finds the file of the first, and that counts as a
  failure of the mountpoint.
* `RoundsEnd` exempts two ways in which a sender waits for ever: every receiver
  has failed to accept and quit, while the socket, on which connections can still
  be made, stays open until net2vbs is closed (`multisend.cc:931`); or a receiver
  has left its connection open (`rsync_cancel.cfg`).
* `RefusedMeansStop` is about a receiver whose chunk was refused by the writers;
  that chunk itself is one for which something failed.
* `GrowsOnlyIfFull` exempts the case that a block is dropped while `get()` looks:
  it may have been looked at before.
* `ListIsAccounted` counts the mountpoints an exception took away as well; as
  long as there are none, it says what the comment on `listlength` says.

## 5. What is proved

`BQueue_proofs` proves, for every set of threads (finite), of elements, of
capacities and of control calls:

| theorem | states |
|---|---|
| `TypeCorrect` | `SafeSpec => []TypeOK` |
| `Counting` | `SafeSpec => []CountsOK` |
| `NoPusherIsLost` | `SafeSpec => []PushersAreWoken` |
| `NoPopperIsLost` | the same for `PoppersAreWoken`, on queues without timed pops, `trypop()` and `clear()` |
| `NoTimedPopperIsLost` | `SafeSpec => []TimedPoppersAreWoken`, whichever pop functions are in use |
| `NeverOverfull` | `SafeSpec => []WithinCapacity` |
| `ChainQueueIsDrained` | `NothingLeftBehind`, with the control calls of a chain |
| `QueueRefinesContract` | `SafeSpec => Contract!SafeSpec`: every step is a step of the contract or none, and tells the caller what the contract tells |

The assumptions are `BQueueAssumption` (the threads are finitely many, the
capacities are natural numbers), `CodesAreNotElements` and, for the
two theorems that say so, which calls are made.  The hypotheses are needed: the
note on `bqueue.h:361` among the hazards is a counterexample without them.

The argument.  `Basics == TypeOK /\ CountsOK` is inductive by itself: the
counters are incremented and decremented in the same sections in which a thread
enters or leaves a call (`NextBasics`).  The code decides whom to signal by the
counters, so everything else needs them to be the sizes of the sets of threads
in the calls.  Relative to `Basics`, each of `PushersAreWoken`,
`PoppersAreWoken`, `TimedPoppersAreWoken`, `WithinCapacity` and
`NothingLeftBehind` is inductive.  The
lemmas `PushersAfterPush`, `PushersAfterTake`, `PoppersAfterAdd`,
`PoppersAfterPop` are what a mutex section does to the two sides of the
inequality: taking an element makes a place and wakes a pusher for it *if there
is a sleeper*, which is where the count of those awake comes in.  The weaker
`TimedPoppersAreWoken` needs no hypothesis: a popper that leaves with popping
still enabled takes an element along if there is one, whatever woke it
(`TimedAfterTake`), and every function that switches popping on wakes all who
sleep.  The refinement
maps the four fields to the record of `QueueState` and forgets the rest, and
needs `Basics` for the type of what is in the queue.

`ParallelWriter_proofs` proves, for every finite set of writers and of
mountpoints, every number of chunks and depth of the queue
(`ParallelWriterAssumption`):

| theorem | states |
|---|---|
| `WriterTypes` | `SafeSpec => []TypeOK` |
| `OneWriterPerMountpoint` | `SafeSpec => []MountpointsAreExclusive` |
| `EveryMountpointIsCounted` | `SafeSpec => []ListIsAccounted` |
| `NoWriterWaitsForNothing` | `SafeSpec => []NobodyWaitsInVain` |
| `NothingLeftWhenGivingUp` | `SafeSpec => TriedBeforeGivingUp` |
| `NoMountpointIsTriedTwice` | a writer that inspects a mountpoint has not tried it for this chunk |

The argument.  None of these is inductive alone.  `IInv` adds three facts:
`Hands` (who has a mountpoint, and who a chunk, by where it is in the loop),
`Untried` (of the mountpoints that are listed or in use, a writer has tried none
for its chunk but the one it is at) and `WaitsForSome` (nobody waits when
`listlength` is zero).  A writer lowers `listlength` when it marks a mountpoint
bad; that it does not pass below zero follows from the accounting, as that
writer is one of those who are counted.  `NobodyWaitsInVain` holds when a writer
begins to wait, because the list is empty and the accounting then says that
somebody has a mountpoint; it holds when the last writer puts its mountpoint
back, because the signal wakes one of those that wait, and when it marks it bad,
because the broadcast wakes all.  When a writer gives up, `listlength` is zero,
so the accounting leaves no holder.  `Untried` needs `MountpointsAreExclusive`:
a mountpoint that is marked bad is out of everybody's reach only if no other
writer has it.

`Chain_proofs` proves, for chains of any number of steps, any finite number of
threads in each, queues of any depth, any callers and any number of items
(`ChainAssumption`):

| theorem | states |
|---|---|
| `ChainTypes` | `SafeSpec => []TypeOK` |
| `UserdataIsKept` | `SafeSpec => []UserdataOutlivesThreads` |
| `FinalsOnceAndAlone` | `SafeSpec => []FinalsRunOnceAlone` |
| `OnlyOneJoins` | `SafeSpec => []OneJoins` |
| `WaitersAreNotFooled` | for those who wait and do not stop the chain: when `wait()` has returned, it is not running |
| `StoppersAreNotFooled` | `SafeSpec => []ReturnMeansStopped`, if `Stoppers \subseteq {Runner}` |
| `NothingIsLost` | `SafeSpec => []GentleStopLosesNothing` |

The argument.  `IInv` has the types, then `Calls` (who holds the lock, who joins,
and that both mean that the chain runs), `Lives` (threads exist only while the
chain runs or is being started), `Finals` and `Counts` (`nthreads` and
`rsa_nthread` are the cardinalities of the sets of threads `Busy` and `Undone`:
the code decides by these numbers who is last, so everything about the last
thread rests on them), `UserdataOutlivesThreads`, and for the data `Ends`, `New`
and `Conserved`.  Userdata are deleted where all threads are joined, and made
where there are none, which is what `Lives` says.  `ReturnMeansStopped` rests on
`Returns`: `wait()` returns only when the chain does not run, and `stop()` returns
while it does only if somebody else is stopping it at the time.  With a second
thread that stops, it does return early (`chain.cc:339`), and the property is
false; the program runs and stops its chains in the one thread that carries out
the commands, which is the hypothesis.  `finals` is entered when
`Busy` becomes empty; nobody comes back, as the chain is not started again while
it runs.

`GentleStopLosesNothing` speaks of a set of items; the invariant follows them one
by one (`Safe(x)`).  An item can get lost where a queue refuses a push, where a
queue is disabled with something in it, and where a thread ends with its hands
full.  `Ends` closes the three: without a blunt stop a queue that is disabled for
pops is empty; a step stops working only when the queue before it has nothing any
more; and the queue behind it takes nothing only when every thread of the step
after it is done, which again needs the count of the step.

`Transfer_proofs` proves, for any number of connects, with `run()` failing or
not:

| theorem | states |
|---|---|
| `TransferTypes` | `Spec => []TypeOK` |
| `NeverTwoTransfers` | `Spec => []OneTransferAtATime` |
| `WorkIsNeverHidden` | `Spec => []WorkIsVisible` |
| `GuardsSpareOthers` | `Spec => GuardSparesOthers` |

The argument.  `Holder` is the only transfer that may have threads: the one that
the runtime refers to, and while the runtime drops an old one, that old one
(`OnlyHolderLives`).  It stays so because the new chain does not run before the
old one is joined (`NewOne`), and because whatever may be alive when a chain is
replaced can still be stopped (`LivesUntold`): a chain that was stopped once is
not joined a second time, so it must be gone by then.

`BlockPool_proofs` proves, for any finite number of block objects, any
blockpools, any number of pools of any size and any memory of blocks
(`BlockPoolAssumption`):

| theorem | states |
|---|---|
| `PoolTypes` | `Spec => []TypeOK` |
| `CountersAreExact` | `Spec => []CountsAreReferences` |
| `NoBlockWithoutMemory` | `Spec => []MemoryOutlivesBlocks` |
| `NoMemoryLeaks` | `Spec => []NothingLeaks` |
| `GrowsAtNeed` | `Spec => []GrowsOnlyIfFull` |
| `NobodySharesAFreshBlock` | `Spec => HandedOutOnce` |

The argument.  All rests on `CountsAreReferences`: the counter of a block is the
number of block objects that refer to it, so that a counter that is read as zero
says that there is nobody left to copy one.  `try_delete()` reads the counters of
a pool one by one, in no lock that those who copy blocks take; the invariant
`Unused` says that while the partial sum is zero the slots added so far are
unused *still*.  That is kept because a reference is made in two ways only: by
copying one, which an unused slot does not have, or by `get()` on a pool that its
blockpool still uses, and `Owned` says that a pool that is asked is not in use by
any blockpool, or is the one its blockpool is deleting in the same thread.  Then
a pool that is freed has no references, and keeps none.  `Heap` is the same for
memory of a block's own: what is freed has a counter of zero, and a block object
that gives up its reference and has yet to look at the counter does not refer to
anything else in between.  For `GrowsOnlyIfFull`, `Search` says that the pools
and slots that `get()` has passed since it began (`Passed`, round the end of the
array) are in use, unless a block was dropped meanwhile or the slot at hand is
free; when it has come round these are all there are.  `FreedOnce` is not true
(section 3), and none of these theorems needs it.

`UdpsReader_proofs` proves, for blocks of any number of datagrams, a window of any
number of blocks, any number of sequence numbers that are remembered and counters
of any width that holds the numbers (`UdpsAssumption`):

| theorem | states |
|---|---|
| `UdpsTypes` | `Spec => []TypeOK` |
| `UdpsInOrder` | `Spec => []InOrderAndInPlace` |
| `UdpsAccounted` | `Spec => []EveryDatagramIsAccounted` |
| `UdpsLoss` | `Spec => []LossIsLostLessRepeats` |
| `UdpsLastNumbers` | `Spec => []LastNumbersAreKept` |

The argument.  `Placing` is what the thread knows of the datagram that it has
peeked at: it is not before the window; the last `shiftcount` positions of the
window are empty; when all have been shifted the window starts at it, so that the
loop that makes room ends; and when it is read its place is there.  That there is
one place for a number, and only one, is division by `n_dg_p_block` (`Located`,
`Apart`).  `OutBefore` says that what is downstream is of an earlier stream or
before the first block that may still follow.  Datagrams are accounted for by
counting two sets, the places of the window and the places downstream that hold
one (`Flagged`, `Gone`): a shift moves the places of the first block from one to
the other (`ShiftCount`), a datagram that is read adds one place to the window,
or none when its duplicate is there (`ReadCount`), a restart empties the window
into the counter of the discarded.  `LossIsLostLessRepeats` follows from `Extremes`: the
lowest and the highest number are among those seen, and all those seen are
between them.  `Ring` relates the two pointers of the circular buffer and its
count, modulo its capacity; where the writer overtakes the reader, the index that
is written is that of the element that is dropped (`RingArithmetic`, `RingPush`).

`Rsync_proofs` proves, for recordings of any chunks, any number of threads on
either side, any mountpoints, any number of synchronisations and of
failures (`RsyncAssumption`):

| theorem | states |
|---|---|
| `RsyncTypes` | `Spec => []TypeOK` |
| `RsyncNothingVanishes` | `Spec => []NothingVanishes` |
| `RsyncMountpoints` | `Spec => []GoodMountpointsStay` |

The argument.  A chunk changes hands without a lock that anybody could hold all
the way: sender, connection, receiver, queue, writer.  `SenderHands`,
`ReceiverHands` and `WriterHands` say who has what by where it is in its loop,
that an open connection has exactly one receiver, whose chunk is that of the
sender, and that the last writer to leave leaves nothing in the queue.  `Round` ties the queue of the sender to where `rsyncinitiator` is.
`Traced` is the invariant: a chunk of this synchronisation is still to be handed
out, with a sender, or `Delivered`: stored, on its way on the other side, left in
part, or lost by a failure of its own.  `NothingVanishes` is what is left of it
when all senders are gone.  A sender lets go of its chunk when its connection has
ended, and is not told how it went; `Closings` says that the chunk is delivered
when the receiver closes, and lost when the connection was cut.  For `GoodMountpointsStay` the places where a chunk can be are
numbered (`Holds(c, kind, i)`): while no chunk was asked for twice each is in one
place at most (`Single`) and none that is stored is anywhere else (`Fresh`), so
that no writer finds the file there, and each mountpoint that was struck off is
one that failed (`MountInv`).  A step leaves a chunk where it is, moves it, moves
it along the queue, or brings it anew (`Stay`, `Move`, `Shift`, `Anew`).

`Interchain_proofs` proves, for any number of readers of either kind, blocks and
queues of any size, any commands, any number of transfers and of blocks
(`InterchainAssumption`):

| theorem | states |
|---|---|
| `InterchainTypes` | `SafeSpec => []TypeOK` |
| `ReadersKeepOrder` | `SafeSpec => []InOrder` |
| `TransfersAreKeptApart` | `SafeSpec => []TogetherOnly` |

The argument.  `ChangeStep` reduces the program to what a step does to one
reader: nothing, its queue is emptied, it receives the block of the source, it
restarts, takes a block, or pushes some bytes (`Change`).  For `InOrder` the
invariant `Order` has the queue, the bytes that the reader has and the rows it has
pushed in order, each before the next, and all of them before `Coming(r)`, the
number that the source can push to r next; `ComingStep` says that this number
does not go back and is used once, which it is because a walk of the source
visits each queue once (`WalkStep`).  What a change does to three sequences that
are in order is then a matter of sequences (`OrderReceived`, `OrderTook`,
`OrderPushed`).  A row of `stupid_queue_reader()` is the whole blocklist, so the
next has other blocks; one of `queue_reader()` may end in the middle of a block,
of which the next has the later places.
For `TogetherOnly` the invariant `OfTransfer` says of every registered queue that
what is in it is of the present transfer; that so is what the reader has, as long
as the pop end was not disabled since the reader enabled it; and that between the
disabling of the queue at the end of a transfer and its opening for the next the
queue is empty, and the blocklist too if the pop end is enabled (`Quiet`).  That
a new transfer starts changes the first two and is harmless for the third.  The
invariant would not hold if `interchain_queues_resize_enable_push()` enabled both
ends: that is the mutant of this property.

Only model-checked: all liveness (`ChunksAreFinished`, `StopReturnsInTheEnd`,
`EndTravelsDownstream`, `EndTravelsUpstream`, `CancelEndsStupidReading`,
`SourceIsNotHeldUp`, `QueueIsEmptied`, `CommandsReturn`, `StopReturnsToIdle`,
`RoundsEnd`), which is out of the reach of the prover, as is ENABLED.  Of
`ContractSpec` the safety is proved (`QueueRefinesContract`), the fairness is not.
Every other property of a run that passes is stated by a theorem.  No module uses
RECURSIVE, and nothing here needs induction over data, with which the prover
cannot help.

## 6. What is not modelled, and why

* Building a chain (`add()`, the templates that make thunks): typed glue, done by
  one thread before anything runs.
* `communicate()` is in `Interchain`, where a lock held across it matters, and
  not in `Chain`.
* `queue_reader_v2` and `queue_forker`: the same calls on the same queues.
* Two sources of interchain data at once: the commands are documented to be used
  with one.
* The fault of a cancellation function that throws.
* What the thread functions do to the bytes.
* `multiwriter()`: its queues are made and disabled by one thread, and its threads
  share nothing but them; what is hard in it (an exception in the middle of
  making them) is among the hazards.
* The top halves of the UDP readers, which fill gaps with a pattern, and the
  readers that do not reorder; of the bottom half, what a datagram that is cut
  short has written over the one in its place.
* Transfers other than the two kinds in `Transfer`: the others with a guard have
  the order of one of these two.
* UDT connections, the parts in which a file is read, and statistics.
* Commands as such: parsing of arguments and set up of a chain, one at a time.
* `errorqueue.cc`, `per_runtime.h`, `libvbs.cc`, the StreamStor layer, formats,
  decoders, `dotzooi`, `etransfer`, and code of third parties: small containers
  behind a mutex, I/O, or pure computation on bytes.

## 7. What could come next

1. `MultiWriter`, with the failure in the middle of making its threads.
2. `Interchain` with two sources, and `queue_forker`.
3. The error queue and the reading of recordings in chunks (`libvbs.cc`), each
   against a reference definition.
