--------------------------- MODULE ParallelWriter ---------------------------
(***************************************************************************)
(* parallelwriter() (src/src/threadfns/multisend.cc): the threads of the   *)
(* last step of a recording chain.  Each pops a chunk, takes a mountpoint  *)
(* from the list that they share, writes the chunk there, and puts the     *)
(* mountpoint back.  A mountpoint that fails is not put back: listlength   *)
(* counts how many there could be in the list, so that whoever finds it    *)
(* empty knows whether to wait or to give up.                              *)
(*                                                                         *)
(* The list and listlength are protected by the lock of the step, and the  *)
(* writers wait on its condition.  An action is a lock section, with what  *)
(* the writer did to its files before it: the files are its own as long as *)
(* it holds the mountpoint (MountpointsAreExclusive).  An open(), a        *)
(* write() and the like may fail at any time.  The queue is that of        *)
(* QueueState, filled and ended by the rest of the chain (Chain).          *)
(*                                                                         *)
(* An operator Fault_... is a slip that this code could have had, and that *)
(* the property named with it notices.  No other definition uses it.       *)
(***************************************************************************)
EXTENDS Naturals, Sequences, FiniteSets, QueueState

CONSTANTS
  Writer,       \* the threads
  Mountpoint,   \* the mountpoints to record on
  NoMountpoint, \* the empty string
  NChunks,      \* bound: number of chunks of the recording
  QueueDepth    \* capacity of the queue in front of the writers

ASSUME ParallelWriterAssumption ==
  /\ IsFiniteSet(Writer) /\ IsFiniteSet(Mountpoint)
  /\ NoMountpoint \notin Mountpoint
  /\ NChunks \in Nat /\ QueueDepth \in Nat \ {0}

Chunk == 1..NChunks

VARIABLES
  \* multifileargs
  mk6,          \* Mark6 emulation: one file per mountpoint, that stays open
  listlength, filelist,
  fdmap,        \* Mark6: the mountpoints whose file is open
  \* the queue
  inq, produced,
  \* the writers
  pc,
  chunk,        \* chunk[w]: what w is writing, or 0
  mountpoint,   \* mountpoint[w]: where
  mp_seen,      \* mp_seen[w]: the mountpoints it tried for that
  seenlength,   \* seenlength[w]: its copy of listlength
  \* what the properties speak of
  stored,       \* chunks that are on a disk
  written,      \* chunks that a writer takes for written
  unwritten     \* chunks that a writer gave up

listVars == <<mk6, listlength, filelist, fdmap>>
queueVars == <<inq, produced>>
localVars == <<chunk, mountpoint, mp_seen, seenlength>>
diskVars == <<stored, written, unwritten>>
vars == <<listVars, queueVars, pc, localVars, diskVars>>

PCs == {"pop", "take", "wait", "woken", "inspect", "write", "quit", "gone"}

\* get_mountpoints(): all of them, in a random order.
Init ==
  /\ filelist \in {f \in [1..Cardinality(Mountpoint) -> Mountpoint] :
                     \A i, j \in DOMAIN f : f[i] = f[j] => i = j}
  /\ listlength = Cardinality(Mountpoint)
  /\ mk6 \in BOOLEAN /\ fdmap = {}
  /\ inq = QueueOf(QueueDepth, TRUE) /\ produced = 0
  /\ pc = [w \in Writer |-> "pop"]
  /\ chunk = [w \in Writer |-> 0]
  /\ mountpoint = [w \in Writer |-> NoMountpoint]
  /\ mp_seen = [w \in Writer |-> {}]
  /\ seenlength = [w \in Writer |-> 0]
  /\ stored = {} /\ written = {} /\ unwritten = {}

-----------------------------------------------------------------------------
(* The condition variable.                                                  *)

Waiting == {w \in Writer : pc[w] = "wait"}
Goto(w, where) == pc' = [pc EXCEPT ![w] = where]

\* w goes on, and one of the writers that wait is woken, if there is one.
Signal(w, where) ==
  \/ Waiting = {} /\ Goto(w, where)
  \/ \E v \in Waiting : pc' = [pc EXCEPT ![w] = where, ![v] = "woken"]

Broadcast(w, where) ==
  pc' = [v \in Writer |-> IF v = w THEN where
                          ELSE IF pc[v] = "wait" THEN "woken" ELSE pc[v]]

SpuriousWakeup(w) ==
  /\ pc[w] = "wait" /\ Goto(w, "woken")
  /\ UNCHANGED <<listVars, queueVars, localVars, diskVars>>

-----------------------------------------------------------------------------
(* The queue, as the rest of the chain uses it.                             *)

Produce ==
  /\ inq.enable_push /\ MayPush(inq) /\ produced < NChunks
  /\ produced' = produced + 1
  /\ inq' = Pushed(inq, produced')
  /\ UNCHANGED <<listVars, pc, localVars, diskVars>>

\* The step before this one has ended.
EndOfInput ==
  /\ inq' = DelayedDisabled(inq)
  /\ UNCHANGED <<produced, listVars, pc, localVars, diskVars>>

\* The chain is stopped.
StopInput ==
  /\ inq' = Disabled(inq)
  /\ UNCHANGED <<produced, listVars, pc, localVars, diskVars>>

PopChunk(w) ==
  /\ pc[w] = "pop" /\ MayPop(inq)
  /\ inq' = Popped(inq)
  /\ IF Takes(inq)
     THEN /\ chunk' = [chunk EXCEPT ![w] = Head(inq.items)]
          /\ mp_seen' = [mp_seen EXCEPT ![w] = {}]
          /\ Goto(w, "take")
     ELSE Goto(w, "quit") /\ UNCHANGED <<chunk, mp_seen>>
  /\ UNCHANGED <<produced, listVars, mountpoint, seenlength, diskVars>>

\* The thread ends; the last of them disables the queue.
Quit(w) ==
  /\ pc[w] = "quit"
  /\ Goto(w, "gone")
  /\ inq' = IF \A v \in Writer \ {w} : pc[v] = "gone" THEN Disabled(inq) ELSE inq
  /\ UNCHANGED <<produced, listVars, localVars, diskVars>>

-----------------------------------------------------------------------------
(* The loop over the mountpoints.                                           *)

\* Nothing to take: it waits if somebody may bring a mountpoint back.
WaitForMountpoint(w) ==
  /\ pc[w] \in {"take", "woken"}
  /\ listlength > 0 /\ filelist = <<>>
  /\ Goto(w, "wait")
  /\ UNCHANGED <<listVars, queueVars, localVars, diskVars>>

\* TriedBeforeGivingUp: it does not wait for the mountpoints that are in use.
Fault_GiveUpIfEmpty(w) ==
  /\ pc[w] \in {"take", "woken"}
  /\ filelist = <<>>
  /\ unwritten' = unwritten \cup {chunk[w]}
  /\ chunk' = [chunk EXCEPT ![w] = 0]
  /\ Goto(w, "quit")
  /\ UNCHANGED <<listVars, queueVars, mountpoint, mp_seen, seenlength, stored,
                 written>>

\* There will never be one again.
GiveUp(w) ==
  /\ pc[w] \in {"take", "woken"}
  /\ listlength = 0 /\ filelist = <<>>
  /\ unwritten' = unwritten \cup {chunk[w]}
  /\ chunk' = [chunk EXCEPT ![w] = 0]
  /\ Goto(w, "quit")
  /\ UNCHANGED <<listVars, queueVars, mountpoint, mp_seen, seenlength, stored,
                 written>>

\* MountpointsAreExclusive, ListIsAccounted: it is copied, and stays in the list.
Fault_TakeWithoutRemoval(w) ==
  /\ pc[w] \in {"take", "woken"} /\ filelist # <<>>
  /\ mountpoint' = [mountpoint EXCEPT ![w] = Head(filelist)]
  /\ seenlength' = [seenlength EXCEPT ![w] = listlength]
  /\ Goto(w, "inspect")
  /\ UNCHANGED <<listVars, queueVars, chunk, mp_seen, diskVars>>

TakeMountpoint(w) ==
  /\ pc[w] \in {"take", "woken"} /\ filelist # <<>>
  /\ mountpoint' = [mountpoint EXCEPT ![w] = Head(filelist)]
  /\ filelist' = Tail(filelist)
  /\ seenlength' = [seenlength EXCEPT ![w] = listlength]
  /\ Goto(w, "inspect")
  /\ UNCHANGED <<mk6, listlength, fdmap, queueVars, chunk, mp_seen, diskVars>>

\* One that w has tried for this chunk is put back, and w gives up if it has
\* tried all there are.
InspectMountpoint(w) ==
  /\ pc[w] = "inspect"
  /\ IF mountpoint[w] \notin mp_seen[w]
     THEN /\ mp_seen' = [mp_seen EXCEPT ![w] = @ \cup {mountpoint[w]}]
          /\ Goto(w, "write")
          /\ UNCHANGED <<filelist, mountpoint, chunk, unwritten>>
     ELSE /\ filelist' = Append(filelist, mountpoint[w])
          /\ mountpoint' = [mountpoint EXCEPT ![w] = NoMountpoint]
          /\ IF Cardinality(mp_seen[w]) >= seenlength[w]
             THEN /\ unwritten' = unwritten \cup {chunk[w]}
                  /\ chunk' = [chunk EXCEPT ![w] = 0]
                  /\ Signal(w, "quit")
             ELSE Signal(w, "take") /\ UNCHANGED <<unwritten, chunk>>
          /\ UNCHANGED mp_seen
  /\ UNCHANGED <<mk6, listlength, fdmap, queueVars, seenlength, stored, written>>

\* Whether the file is to be made, with its directories, and opened.
NeedsFile(w) == ~(mk6 /\ mountpoint[w] \in fdmap)

\* fchown(), of a program that is suid root, throws when it fails: run_step()
\* catches it and the thread ends, with the mountpoint.
ChownThrows(w) ==
  /\ pc[w] = "write" /\ NeedsFile(w)
  /\ unwritten' = unwritten \cup {chunk[w]}
  /\ chunk' = [chunk EXCEPT ![w] = 0]
  /\ Goto(w, "quit")
  /\ UNCHANGED <<listVars, queueVars, mountpoint, mp_seen, seenlength, stored,
                 written>>

\* NobodyWaitsInVain: a signal is missing.
Fault_MarkBadWakesNobody(w) ==
  /\ pc[w] = "write"
  /\ listlength' = listlength - 1
  /\ mountpoint' = [mountpoint EXCEPT ![w] = NoMountpoint]
  /\ Goto(w, "take")
  /\ UNCHANGED <<mk6, filelist, fdmap, queueVars, chunk, mp_seen, seenlength, diskVars>>

\* MARK_MOUNTPOINT_BAD, as the file cannot be opened or not be written: it tries
\* the next.
MarkBad(w) ==
  /\ pc[w] = "write"
  /\ listlength' = listlength - 1
  /\ mountpoint' = [mountpoint EXCEPT ![w] = NoMountpoint]
  /\ Broadcast(w, "take")
  /\ UNCHANGED <<mk6, filelist, fdmap, queueVars, chunk, mp_seen, seenlength, diskVars>>

\* ChunksAreFinished: a signal is missing.
Fault_PutBackWakesNobody(w) ==
  /\ pc[w] = "write"
  /\ filelist' = Append(filelist, mountpoint[w])
  /\ mountpoint' = [mountpoint EXCEPT ![w] = NoMountpoint]
  /\ fdmap' = IF mk6 THEN fdmap \cup {mountpoint[w]} ELSE fdmap
  /\ written' = written \cup {chunk[w]}
  /\ chunk' = [chunk EXCEPT ![w] = 0]
  /\ stored' = stored \cup {chunk[w]}
  /\ Goto(w, "pop")
  /\ UNCHANGED <<mk6, listlength, queueVars, mp_seen, seenlength, unwritten>>

\* The chunk is taken for written; the mountpoint goes to the back of the list.
\* Either its data is on the disk, or the block header of Mark6 could not be
\* written: then the data is not tried, by way of a bytes_written that says that
\* all of it was.
PutBack(w) ==
  /\ pc[w] = "write"
  /\ filelist' = Append(filelist, mountpoint[w])
  /\ mountpoint' = [mountpoint EXCEPT ![w] = NoMountpoint]
  /\ fdmap' = IF mk6 THEN fdmap \cup {mountpoint[w]} ELSE fdmap
  /\ written' = written \cup {chunk[w]}
  /\ chunk' = [chunk EXCEPT ![w] = 0]
  /\ stored' = stored \cup {chunk[w]} \/ (mk6 /\ stored' = stored)
  /\ Signal(w, "pop")
  /\ UNCHANGED <<mk6, listlength, queueVars, mp_seen, seenlength, unwritten>>

-----------------------------------------------------------------------------
WriterStep(w) ==
  \/ PopChunk(w) \/ WaitForMountpoint(w) \/ GiveUp(w) \/ TakeMountpoint(w)
  \/ InspectMountpoint(w) \/ ChownThrows(w)
  \/ MarkBad(w) \/ PutBack(w) \/ Quit(w)

Next ==
  \/ Produce \/ EndOfInput \/ StopInput
  \/ \E w \in Writer : WriterStep(w) \/ SpuriousWakeup(w)

SafeSpec == Init /\ [][Next]_vars

\* Threads run, and a system call returns, with or without success.
Spec == SafeSpec /\ \A w \in Writer : WF_vars(WriterStep(w))

-----------------------------------------------------------------------------
(* Properties.                                                              *)

TypeOK ==
  /\ listlength \in Nat
  /\ filelist \in Seq(Mountpoint)
  /\ mk6 \in BOOLEAN /\ fdmap \subseteq Mountpoint
  /\ inq \in Queues(Chunk, {QueueDepth})
  /\ produced \in 0..NChunks
  /\ pc \in [Writer -> PCs]
  /\ chunk \in [Writer -> 0..NChunks]
  /\ mountpoint \in [Writer -> Mountpoint \cup {NoMountpoint}]
  /\ mp_seen \in [Writer -> SUBSET Mountpoint]
  /\ seenlength \in [Writer -> Nat]
  /\ stored \subseteq Chunk /\ written \subseteq Chunk /\ unwritten \subseteq Chunk

\* The writers that have taken a mountpoint from the list.
Holders == {w \in Writer : pc[w] \in {"inspect", "write"}}
\* Those that an exception ended, with a mountpoint in their hands.
Lost == {w \in Writer : pc[w] \in {"quit", "gone"} /\ mountpoint[w] # NoMountpoint}
Listed == {filelist[i] : i \in DOMAIN filelist}

\* No two writers write on the same mountpoint at the same time, and none on
\* one that the others find in the list: the block header and the data of a
\* Mark6 chunk stay together in the file that the writers share.
MountpointsAreExclusive ==
  /\ \A v, w \in Holders : mountpoint[v] = mountpoint[w] => v = w
  /\ \A w \in Holders : mountpoint[w] \notin Listed
  /\ \A i, j \in DOMAIN filelist : filelist[i] = filelist[j] => i = j

\* listlength is "how many items there could be in the list": those that are,
\* those that may come back, and those that an exception took with it.
ListIsAccounted ==
  listlength = Len(filelist) + Cardinality(Holders) + Cardinality(Lost)

\* A writer waits only as long as another can bring a mountpoint back, or has
\* been woken to fetch one: nobody waits for mountpoints that are all gone,
\* unless an exception took one.
NobodyWaitsInVain ==
  Waiting # {} /\ Lost = {} => \E w \in Writer : w \in Holders \/ pc[w] = "woken"

\* A chunk that a Mark6 recording takes for written is on a disk, it says
\* (parallelwriter() releases the chunk when bytes_written has reached its size).
Mk6WrittenIsStored == mk6 => written \subseteq stored

\* A writer that does not throw gives a chunk up only when no mountpoint is
\* left, in the list or in the hands of another, that could take it.
TriedBeforeGivingUp ==
  [][unwritten' # unwritten /\ Lost' = Lost => filelist = <<>> /\ Holders = {}]_vars

\* Whatever fails, a writer that works on a chunk gets it written or gives it
\* up, and a recording can be ended; unless an exception took a mountpoint.
ChunksAreFinished ==
  \A w \in Writer : chunk[w] # 0 ~> chunk[w] = 0 \/ Lost # {}

=============================================================================
