------------------------------ MODULE Transfer ------------------------------
(***************************************************************************)
(* The life of a transfer of a runtime: the commands that start and stop   *)
(* it, in one thread, and the last thread of its chain, which calls the    *)
(* guard function registered by chain::register_final().                   *)
(*                                                                         *)
(* Two transfers: "vbs2net" (mk5command/vbs2net.cc), whose end is left to  *)
(* the guard, the disconnect only stopping the chain; and "mem2net"        *)
(* (mem2net.cc), which waits for `on' before it reads, whose guard closes  *)
(* the socket, and whose disconnect clears everything by itself.  It reads *)
(* by queue_reader() or by stupid_queue_reader() (Interchain).  The other  *)
(* transfers with a guard are made like the first (net2vbs.cc,             *)
(* disk2net_vbs.cc, net2file.cc).                                          *)
(*                                                                         *)
(* Each connect makes a new chain.  A chain is what Chain shows it to be   *)
(* to those who call it: tr[g].phase is where its last thread is, run() and*)
(* the cancellations of stop() are steps under chainimpl::mutex, and who   *)
(* joins waits until that thread is gone.  The runtime refers to a chain   *)
(* through a countedpointer: to assign a new one drops the last reference  *)
(* to the old, and so stops and joins it.                                  *)
(*                                                                         *)
(* rte.transfermode and rte.transfersubmode are written by the guard under *)
(* the lock of the runtime and by the commands without: to clear a flag is *)
(* a read and a write.  Not modelled: cancellation functions that throw,   *)
(* queries, `nthread', a reader of mem2net that throws before it waits.    *)
(*                                                                         *)
(* An operator Fault_... is a slip that this code could have had, and that *)
(* the property named with it notices.  No other definition uses it.       *)
(***************************************************************************)
EXTENDS Naturals

CONSTANTS
  MaxTransfers,  \* bound: number of connects
  MayFail        \* whether run() may fail

G == 1..MaxTransfers
Kinds == {"vbs2net", "mem2net"}

\* The first step of mem2net depends on what it sends, and how.
Readers(k) == IF k = "mem2net" THEN {"queue_reader", "stupid_queue_reader"} ELSE {"none"}

ASSUME TransferAssumption == MaxTransfers \in Nat /\ MayFail \in BOOLEAN

VARIABLES
  mode,      \* rte.transfermode
  submode,   \* rte.transfersubmode: the flags that are set
  current,   \* rte.processingchain: the chain of a connect, or 0 for chain()
  last,      \* number of connects so far
  tr,        \* tr[g]: the transfer of connect number g
  cpc,       \* where the thread of the commands is
  victim     \* the chain that it stops, and joins

vars == <<mode, submode, current, last, tr, cpc, victim>>

Phases == {"none", "busy", "guard", "clr", "write", "close", "reset", "gone"}
Places == {"idle", "replace", "destroy", "run", "mode", "failed", "stop", "stopped"}

Transfers ==
  [kind : Kinds, reader : Readers("vbs2net") \cup Readers("mem2net"),
   running : BOOLEAN, cancelled : BOOLEAN,   \* chainimpl
   phase : Phases,
   run : BOOLEAN, reading : BOOLEAN,         \* queue_reader_args::run, and seen
   told : BOOLEAN,                           \* its first queue is delay disabled
   open : BOOLEAN,                           \* its socket
   saved : SUBSET {"run", "wait", "connected"}] \* the flags as its guard read them

Fresh(k, r) == [kind |-> k, reader |-> r, running |-> FALSE, cancelled |-> FALSE,
                phase |-> "none", run |-> FALSE, reading |-> FALSE, told |-> FALSE,
                open |-> FALSE, saved |-> {}]

Init ==
  /\ mode = "no_transfer" /\ submode = {} /\ current = 0 /\ last = 0
  /\ tr = [g \in G |-> Fresh("vbs2net", "none")]
  /\ cpc = "idle" /\ victim = 0

Joinable(g) == tr[g].phase \in {"none", "gone"}

\* do_cancellations() of stop(): the socket is closed, and all threads will go.
Cancelled(g) == [tr[g] EXCEPT !.cancelled = TRUE, !.open = FALSE]

NeedsStop(g) == g # 0 /\ tr[g].running /\ ~tr[g].cancelled

\* `op = connect' up to where the chain is built, which shows nobody anything.
Connect(k) ==
  /\ cpc = "idle" /\ mode = "no_transfer" /\ last < MaxTransfers
  /\ submode' = {"wait"}
  /\ last' = last + 1
  /\ \E r \in Readers(k) : tr' = [tr EXCEPT ![last + 1] = Fresh(k, r)]
  /\ cpc' = "replace"
  /\ UNCHANGED <<mode, current, victim>>

\* OneTransferAtATime: the old chain is left to itself.
Fault_ReplaceDoesNotStop ==
  /\ cpc = "replace"
  /\ current' = last /\ cpc' = "run"
  /\ UNCHANGED <<mode, submode, last, tr, victim>>

\* rte.processingchain = c: the pointer first, then the end of the old chain.
Replace ==
  /\ cpc = "replace"
  /\ current' = last
  /\ IF NeedsStop(current)
     THEN /\ tr' = [tr EXCEPT ![current] = Cancelled(current)]
          /\ victim' = current /\ cpc' = "destroy"
     ELSE cpc' = "run" /\ UNCHANGED <<tr, victim>>
  /\ UNCHANGED <<mode, submode, last>>

JoinedWhen(gone, from, to) ==
  /\ cpc = from /\ gone
  /\ tr' = [tr EXCEPT ![victim].running = FALSE]
  /\ cpc' = to
  /\ UNCHANGED <<mode, submode, current, last, victim>>

\* join_and_cleanup() has got all threads.
Joined(from, to) == JoinedWhen(Joinable(victim), from, to)

\* GuardSparesOthers: the last thread is joined before it calls the finals.
Fault_DestroyedBeforeFinals ==
  JoinedWhen(tr[victim].phase # "busy", "destroy", "run")

Destroyed == Joined("destroy", "run")

Run ==
  /\ cpc = "run"
  /\ tr' = [tr EXCEPT ![current] =
              [@ EXCEPT !.running = TRUE, !.phase = "busy", !.open = TRUE]]
  /\ cpc' = "mode"
  /\ UNCHANGED <<mode, submode, current, last, victim>>

\* Some threads cannot be made: run() stops the others, if any, and throws.
RunFails ==
  /\ MayFail /\ cpc = "run"
  /\ \E p \in {"none", "busy"} :
       tr' = [tr EXCEPT ![current] =
                [@ EXCEPT !.running = TRUE, !.cancelled = TRUE, !.phase = p]]
  /\ victim' = current /\ cpc' = "failed"
  /\ UNCHANGED <<mode, submode, current, last>>

ThrowsUp == Joined("failed", "idle")

\* "Update global transferstatus variables to indicate what we're doing."
SetMode ==
  /\ cpc = "mode"
  /\ mode' = tr[current].kind
  /\ cpc' = "idle"
  /\ UNCHANGED <<submode, current, last, tr, victim>>

\* WorkIsVisible: delayed_disable() for stop().
Fault_DisconnectDoesNotWait(k) ==
  /\ cpc = "idle" /\ mode = k
  /\ cpc' = "stopped"
  /\ UNCHANGED <<mode, submode, current, last, tr, victim>>

Disconnect(k) ==
  /\ cpc = "idle" /\ mode = k
  /\ IF NeedsStop(current)
     THEN /\ tr' = [tr EXCEPT ![current] = Cancelled(current)]
          /\ victim' = current /\ cpc' = "stop"
     ELSE cpc' = "stopped" /\ UNCHANGED <<tr, victim>>
  /\ UNCHANGED <<mode, submode, current, last>>

Stopped == Joined("stop", "stopped")

\* vbs2net leaves the mode to the guard, mem2net sees to it itself.
EndDisconnect ==
  /\ cpc = "stopped"
  /\ IF tr[current].kind = "vbs2net"
     THEN submode' = submode \ {"connected"} /\ UNCHANGED <<mode, current>>
     ELSE submode' = {} /\ mode' = "no_transfer" /\ current' = 0
  /\ cpc' = "idle"
  /\ UNCHANGED <<last, tr, victim>>

\* mem2net = on.  (The test of the wait flag looks at the mode: always true.)
On ==
  /\ cpc = "idle" /\ mode = "mem2net" /\ tr[current].running
  /\ tr' = [tr EXCEPT ![current].run = TRUE]
  /\ UNCHANGED <<mode, submode, current, last, cpc, victim>>

\* mem2net = stop: no more input, and nobody waits.
GentleStop ==
  /\ cpc = "idle" /\ mode = "mem2net" /\ tr[current].running
  /\ tr' = [tr EXCEPT ![current] =
              [@ EXCEPT !.run = FALSE,
                        !.told = tr[current].told \/ ~tr[current].cancelled]]
  /\ UNCHANGED <<mode, submode, current, last, cpc, victim>>

-----------------------------------------------------------------------------
(* The threads of a chain.                                                  *)

\* The writer is connected.
Connected(g) ==
  /\ tr[g].kind = "mem2net" /\ tr[g].phase = "busy"
  /\ submode' = submode \cup {"connected"}
  /\ UNCHANGED <<mode, current, last, tr, cpc, victim>>

\* The reader of mem2net sees that it is on.
StartReading(g) ==
  /\ tr[g].kind = "mem2net" /\ tr[g].phase = "busy"
  /\ tr[g].run /\ ~tr[g].cancelled /\ ~tr[g].reading
  /\ tr' = [tr EXCEPT ![g].reading = TRUE]
  /\ submode' = (submode \ {"wait"}) \cup {"run"}
  /\ UNCHANGED <<mode, current, last, cpc, victim>>

GotoPhase(g, from, to) ==
  tr[g].phase = from /\ tr' = [tr EXCEPT ![g].phase = to]

\* All threads but the last have left: the input is at its end, something
\* failed, or they were told.  The reader of mem2net does not leave unless it
\* is on, or cancelled.
ThreadsEnd(g) ==
  /\ tr[g].kind = "mem2net" => tr[g].reading \/ tr[g].cancelled
  /\ GotoPhase(g, "busy", "guard")
  /\ UNCHANGED <<mode, submode, current, last, cpc, victim>>

GuardMode(g) ==
  /\ GotoPhase(g, "guard", "clr")
  /\ mode' = "no_transfer"
  /\ UNCHANGED <<submode, current, last, cpc, victim>>

GuardReadsFlags(g) ==
  /\ tr[g].phase = "clr"
  /\ tr' = [tr EXCEPT ![g] = [@ EXCEPT !.phase = "write", !.saved = submode]]
  /\ UNCHANGED <<mode, submode, current, last, cpc, victim>>

GuardWritesFlags(g) ==
  /\ GotoPhase(g, "write", IF tr[g].kind = "mem2net" THEN "close" ELSE "reset")
  /\ submode' = tr[g].saved \ {"run"}
  /\ UNCHANGED <<mode, current, last, cpc, victim>>

\* StopReturnsToIdle: not at all.
Fault_GuardDoesNotClose(g) ==
  /\ GotoPhase(g, "close", "reset")
  /\ UNCHANGED <<mode, submode, current, last, cpc, victim>>

\* CommandsReturn: stop() keeps the lock of the chain while it joins.
Fault_GuardWantsLock(g) == cpc # "stop" /\ Fault_GuardDoesNotClose(g)

\* rteptr->processingchain.communicate(sid, &close_filedescriptor): with the
\* chain that is there now.  One without such a step, or without userdata,
\* does nothing or throws, and the guard catches.
GuardCloses(g) ==
  /\ tr[g].phase = "close"
  /\ tr' = [h \in G |->
              [tr[h] EXCEPT
                 !.phase = IF h = g THEN "reset" ELSE @,
                 !.open = IF h = current /\ tr[h].running THEN FALSE ELSE @]]
  /\ UNCHANGED <<mode, submode, current, last, cpc, victim>>

\* Once more, without the lock.
GuardResets(g) ==
  /\ GotoPhase(g, "reset", "gone")
  /\ mode' = "no_transfer"
  /\ UNCHANGED <<submode, current, last, cpc, victim>>

-----------------------------------------------------------------------------
Command ==
  \/ \E k \in Kinds : Connect(k) \/ Disconnect(k)
  \/ On \/ GentleStop

\* What a command does once it has begun.
CommandStep ==
  \/ Replace \/ Destroyed \/ Run \/ RunFails \/ ThrowsUp \/ SetMode
  \/ Stopped \/ EndDisconnect

Guard(g) ==
  \/ GuardMode(g) \/ GuardReadsFlags(g) \/ GuardWritesFlags(g)
  \/ GuardCloses(g) \/ GuardResets(g)

Next ==
  \/ Command \/ CommandStep
  \/ \E g \in G : Connected(g) \/ StartReading(g) \/ ThreadsEnd(g) \/ Guard(g)

\* queue_reader() may undo the cancellation of its wait and sleep on
\* (Interchain!CancelEndsReading), whether it is stopped gently or bluntly.
MayHang(g) == tr[g].reader = "queue_reader"

\* Threads run.  A chain that is cancelled ends (Chain!StopReturnsInTheEnd); so
\* does one that reads and whose first queue takes nothing any more
\* (Chain!EndTravelsDownstream); but for queue_reader().  At the other end of the
\* network somebody reads on, or closes.  Nobody has to give a command.
Fairness ==
  /\ WF_vars(CommandStep)
  /\ \A g \in G :
       /\ WF_vars(Guard(g))
       /\ WF_vars(ThreadsEnd(g) /\ (tr[g].cancelled \/ tr[g].told) /\ ~MayHang(g))

Spec == Init /\ [][Next]_vars /\ Fairness

-----------------------------------------------------------------------------
(* Properties.                                                              *)

TypeOK ==
  /\ mode \in Kinds \cup {"no_transfer"}
  /\ submode \subseteq {"run", "wait", "connected"}
  /\ {current, last, victim} \subseteq 0..MaxTransfers
  /\ tr \in [G -> Transfers]
  /\ cpc \in Places

Alive(g) == tr[g].phase \notin {"none", "gone"}

\* The mode is what keeps a second transfer off the runtime, its queues and its
\* device: as long as threads of a transfer work, no command finds the runtime
\* idle or busy with something else.
WorkIsVisible ==
  \A g \in G : tr[g].phase = "busy" /\ cpc = "idle" =>
    g = current /\ mode = tr[g].kind

\* The guard sets the mode before it is done, so that a connect may come in
\* between.  The chain it starts does not run before the old one is gone, guard
\* and all: at no time do two transfers use the runtime.
OneTransferAtATime ==
  \A g, h \in G : Alive(g) /\ Alive(h) => g = h

\* The guard communicates with whatever chain the runtime refers to and sets the
\* mode of whatever transfer it does: a late guard never closes the socket of
\* another transfer nor takes its mode away.
GuardSparesOthers ==
  [][\A g \in G : Guard(g) =>
       /\ \A h \in G \ {g} : tr'[h] = tr[h]
       /\ mode # mode' => g = current /\ cpc # "replace"]_vars

\* A thread of the chain that stop() joins runs the guard, which asks for the
\* lock of that same chain: every command comes to its end all the same, unless
\* it waits for a queue_reader().
CommandsReturn ==
  (cpc # "idle") ~>
    \/ cpc = "idle"
    \/ victim # 0 /\ MayHang(victim) /\ tr[victim].phase = "busy"

\* "This allows for mem2net=stop to trickle all buffered bytes out and then return
\* the transfer to 'idle'": if it was on, and reads by stupid_queue_reader(), then
\* without a disconnect its threads and its socket go, and until there is another
\* transfer the runtime is idle for good, whatever is done meanwhile.
Returned(g) ==
  tr[g].phase = "gone" /\ ~tr[g].open /\ (last = g => mode = "no_transfer")

StopReturnsToIdle ==
  \A g \in G :
    (tr[g].told /\ tr[g].reading /\ ~MayHang(g)) ~> []Returned(g)

\* "Register a finalizer which automatically clears the transfer when done."
DoneMeansCleared ==
  current # 0 /\ tr[current].phase = "gone" /\ cpc = "idle" => mode = "no_transfer"

=============================================================================
