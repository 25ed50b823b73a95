------------------------------- MODULE Chain -------------------------------
(***************************************************************************)
(* chain (src/src/chain.h, chain.cc): a row of steps, each run by one or   *)
(* more threads, with a bqueue between each step and the next.  The        *)
(* threads of the program drive it with run(), stop(), gentle_stop(),      *)
(* delayed_disable() and wait().                                           *)
(*                                                                         *)
(* chainimpl::mutex is `lock'.  It is held through a whole call, except    *)
(* while the threads are being joined and inside pthread_cond_wait(); the  *)
(* threads of the chain run all the while, so that a call is a step for    *)
(* everything it does that they can see.                                   *)
(*                                                                         *)
(* The queues are used through the operators of QueueState, which BQueue   *)
(* implements: a call that has to wait is an action that is not enabled.   *)
(*                                                                         *)
(* The thread functions are those of any chain that keeps the rules that   *)
(* chain.h sets: the first step reads from outside and pushes, the others  *)
(* pop and push, and all stop when a push or a pop fails.  Registered      *)
(* cancellation functions interrupt the first step's reading, as the step  *)
(* flag does.  Not modelled: building the chain, communicate() by others,  *)
(* cancellation functions that throw.  A chain is run once: the list of    *)
(* the threads of a step, internalstep::threads, is never cleared, so that *)
(* a second run would join the threads of the first.  The program makes a  *)
(* new chain for every transfer.                                           *)
(*                                                                         *)
(* An operator Fault_... is a slip that this code could have had, and that *)
(* the property named with it notices.  No other definition uses it.       *)
(***************************************************************************)
EXTENDS Naturals, Sequences, FiniteSets, QueueState

CONSTANTS
  NSteps,       \* number of steps
  Width,        \* Width[s]: number of threads of step s, set by nthread()
  QueueDepth,   \* capacity of every queue
  MaxItems,     \* bound: number of items the first step reads
  Quitters,     \* steps whose thread function may return on its own
  MayFail,      \* whether pthread_create() and the makers of userdata may fail
  Runner,       \* the thread that calls run()
  Stoppers,     \* threads that call stop() and gentle_stop()
  Waiters       \* threads that call wait()

Steps == 1..NSteps
Threads == UNION {{s} \X (1..Width[s]) : s \in Steps}
Controllers == {Runner} \cup Stoppers \cup Waiters
Items == 1..MaxItems

ASSUME ChainAssumption ==
  /\ NSteps \in Nat /\ NSteps >= 2
  /\ Width \in [Steps -> Nat \ {0}]
  /\ QueueDepth \in Nat \ {0}
  /\ MaxItems \in Nat
  /\ Quitters \subseteq Steps
  /\ MayFail \in BOOLEAN
  /\ Controllers \cap (Threads \cup {"none"}) = {}

VARIABLES
  \* chainimpl
  lock,          \* holder of chainimpl::mutex, or "none"
  running, joining, cancelled, finalized,
  nthreads,      \* number of threads of the chain that have not left
  queues,        \* queues[s]: the queue behind step s
  \* the steps
  rsa_nthread,   \* rsa_nthread[s]: runstepargs::nthread
  userdata,      \* userdata[s]: actualudptr is not 0
  sync_cancelled,\* sync_cancelled[s]: sync_type::cancelled
  \* the threads
  pc, held,      \* held[t]: the item thread t is working on, or 0
  \* the callers
  op, cpc, next, \* the call, where it is, and the loop variable of run(), stop()
  \* what the properties speak of
  runs,          \* number of calls of run()
  nfinals,       \* how often the finals were called since run()
  returned,      \* returned[c]: the run that c saw ended by its last call
  produced,      \* number of items read
  accepted, consumed, \* items that the first queue took, and that went all the way
  brutal         \* a blunt stop, or a step that gave up by itself

implVars == <<lock, running, joining, cancelled, finalized, nthreads>>
stepVars == <<rsa_nthread, userdata, sync_cancelled>>
threadVars == <<pc, held>>
callVars == <<op, cpc, next, returned>>
itemVars == <<produced, accepted, consumed, brutal>>
vars == <<implVars, queues, stepVars, threadVars, callVars, runs, nfinals, itemVars>>

ThreadPCs == {"none", "ready", "full", "ending", "disable_out", "disable_in",
              "leave", "finals", "gone"}
CallerPCs == {"idle", "spawn", "cancel", "disable", "join", "joining",
              "wait", "woken"}

Init ==
  /\ lock = "none"
  /\ running = FALSE /\ joining = FALSE /\ cancelled = FALSE /\ finalized = FALSE
  /\ nthreads = 0
  /\ queues = [s \in 1..(NSteps - 1) |-> QueueOf(QueueDepth, TRUE)]
  /\ rsa_nthread = [s \in Steps |-> 0]
  /\ userdata = [s \in Steps |-> FALSE]
  /\ sync_cancelled = [s \in Steps |-> FALSE]
  /\ pc = [t \in Threads |-> "none"]
  /\ held = [t \in Threads |-> 0]
  /\ op = [c \in Controllers |-> "none"]
  /\ cpc = [c \in Controllers |-> "idle"]
  /\ next = [c \in Controllers |-> 0]
  /\ runs = 0 /\ nfinals = 0
  /\ returned = [c \in Controllers |-> 0]
  /\ produced = 0 /\ accepted = {} /\ consumed = {} /\ brutal = FALSE

Goto(t, where) == pc' = [pc EXCEPT ![t] = where]

-----------------------------------------------------------------------------
(* The thread functions.                                                   *)

\* The first step reads an item (or several would do: it is one at a time).
Read(t) ==
  /\ t[1] = 1 /\ pc[t] = "ready" /\ produced < MaxItems
  /\ produced' = produced + 1
  /\ held' = [held EXCEPT ![t] = produced + 1]
  /\ Goto(t, "full")
  /\ UNCHANGED <<implVars, queues, stepVars, callVars, runs, nfinals,
                 accepted, consumed, brutal>>

\* It was told to stop, by the flag or by a cancellation function.
ReadCancelled(t) ==
  /\ t[1] = 1 /\ pc[t] = "ready" /\ sync_cancelled[1]
  /\ Goto(t, "ending")
  /\ UNCHANGED <<implVars, queues, stepVars, held, callVars, runs, nfinals,
                 itemVars>>

\* A thread function returns, or throws, for a reason of its own.
Quit(t) ==
  /\ t[1] \in Quitters /\ pc[t] = "ready"
  /\ Goto(t, "ending")
  /\ brutal' = (brutal \/ t[1] # 1)
  /\ UNCHANGED <<implVars, queues, stepVars, held, callVars, runs, nfinals,
                 produced, accepted, consumed>>

\* The last step has no queue behind it: there the item has gone all the way.
Consume(t) ==
  /\ t[1] = NSteps /\ pc[t] = "full"
  /\ consumed' = consumed \cup {held[t]}
  /\ held' = [held EXCEPT ![t] = 0]
  /\ Goto(t, "ready")
  /\ UNCHANGED <<implVars, queues, stepVars, callVars, runs, nfinals,
                 produced, accepted, brutal>>

PushItem(t) ==
  /\ t[1] < NSteps /\ pc[t] = "full"
  /\ LET q == queues[t[1]]
     IN  /\ MayPush(q)
         /\ queues' = [queues EXCEPT ![t[1]] = Pushed(q, held[t])]
         /\ accepted' = IF q.enable_push /\ t[1] = 1
                        THEN accepted \cup {held[t]} ELSE accepted
         /\ Goto(t, IF q.enable_push THEN "ready" ELSE "ending")
  /\ held' = [held EXCEPT ![t] = 0]
  /\ UNCHANGED <<implVars, stepVars, callVars, runs, nfinals, produced,
                 consumed, brutal>>

PopItem(t) ==
  /\ t[1] > 1 /\ pc[t] = "ready"
  /\ LET q == queues[t[1] - 1]
     IN  /\ MayPop(q)
         /\ queues' = [queues EXCEPT ![t[1] - 1] = Popped(q)]
         /\ held' = IF Takes(q) THEN [held EXCEPT ![t] = Head(q.items)] ELSE held
         /\ Goto(t, IF Takes(q) THEN "full" ELSE "ending")
  /\ UNCHANGED <<implVars, stepVars, callVars, runs, nfinals, itemVars>>

-----------------------------------------------------------------------------
(* The end of a thread: run_step() after the thread function.               *)

\* EndTravelsDownstream: nobody signals.
Fault_StepDoneSilently(t) ==
  /\ pc[t] = "ending"
  /\ rsa_nthread' = [rsa_nthread EXCEPT ![t[1]] = IF @ > 0 THEN @ - 1 ELSE 0]
  /\ Goto(t, "leave")
  /\ UNCHANGED <<implVars, queues, userdata, sync_cancelled, held,
                 callVars, runs, nfinals, itemVars>>

\* Under the mutex of the step: one thread less; the last one signals.
StepDone(t) ==
  /\ pc[t] = "ending"
  /\ rsa_nthread' = [rsa_nthread EXCEPT ![t[1]] = IF @ > 0 THEN @ - 1 ELSE 0]
  /\ Goto(t, IF rsa_nthread'[t[1]] = 0 THEN "disable_out" ELSE "leave")
  /\ UNCHANGED <<implVars, queues, userdata, sync_cancelled, held,
                 callVars, runs, nfinals, itemVars>>

\* GentleStopLosesNothing: disable() where delayed_disable() is meant.
Fault_DisableOutAtOnce(t) ==
  /\ pc[t] = "disable_out"
  /\ queues' = IF t[1] = NSteps THEN queues
               ELSE [queues EXCEPT ![t[1]] = Disabled(@)]
  /\ Goto(t, "disable_in")
  /\ UNCHANGED <<implVars, stepVars, held, callVars, runs, nfinals,
                 itemVars>>

\* Downstream may finish what there is, and then finds its queue disabled.
DisableOut(t) ==
  /\ pc[t] = "disable_out"
  /\ queues' = IF t[1] = NSteps THEN queues
               ELSE [queues EXCEPT ![t[1]] = DelayedDisabled(@)]
  /\ Goto(t, "disable_in")
  /\ UNCHANGED <<implVars, stepVars, held, callVars, runs, nfinals,
                 itemVars>>

\* EndTravelsUpstream: upstream is not told.
Fault_DisableInForgotten(t) ==
  /\ pc[t] = "disable_in"
  /\ Goto(t, "leave")
  /\ UNCHANGED <<implVars, queues, stepVars, held, callVars, runs, nfinals,
                 itemVars>>

\* Upstream learns that nobody pops any more.
DisableIn(t) ==
  /\ pc[t] = "disable_in"
  /\ queues' = IF t[1] = 1 THEN queues
               ELSE [queues EXCEPT ![t[1] - 1] = Disabled(@)]
  /\ Goto(t, "leave")
  /\ UNCHANGED <<implVars, stepVars, held, callVars, runs, nfinals,
                 itemVars>>

\* FinalsRunOnceAlone: the count is tested before it is updated.
Fault_LeaveCountsLate(t) ==
  /\ pc[t] = "leave" /\ lock = "none"
  /\ nthreads' = IF nthreads > 0 THEN nthreads - 1 ELSE 0
  /\ Goto(t, IF nthreads <= 2 THEN "finals" ELSE "gone")
  /\ UNCHANGED <<lock, running, joining, cancelled, finalized, queues, stepVars,
                 held, callVars, runs, nfinals, itemVars>>

\* Under chainimpl::mutex: the last thread of the chain calls the finals.
Leave(t) ==
  /\ pc[t] = "leave" /\ lock = "none"
  /\ nthreads' = IF nthreads > 0 THEN nthreads - 1 ELSE 0
  /\ Goto(t, IF nthreads' = 0 THEN "finals" ELSE "gone")
  /\ UNCHANGED <<lock, running, joining, cancelled, finalized, queues, stepVars,
                 held, callVars, runs, nfinals, itemVars>>

\* Without a lock, "on account of no threads being active anymore".
DoFinals(t) ==
  /\ pc[t] = "finals"
  /\ IF running /\ ~finalized
     THEN nfinals' = nfinals + 1 /\ finalized' = TRUE
     ELSE UNCHANGED <<nfinals, finalized>>
  /\ Goto(t, "gone")
  /\ UNCHANGED <<lock, running, joining, cancelled, nthreads, queues, stepVars,
                 held, callVars, runs, itemVars>>

-----------------------------------------------------------------------------
(* run().                                                                   *)

\* The steps are started from the last to the first; next[c] is the one whose
\* turn it is.
BeginRun(c) ==
  /\ c = Runner /\ cpc[c] = "idle" /\ lock = "none"
  /\ ~running /\ runs = 0
  /\ lock' = c
  /\ nthreads' = 0
  /\ queues' = [s \in DOMAIN queues |-> ResizeEnabled(queues[s], 0)]
  /\ pc' = [t \in Threads |-> "none"]
  /\ op' = [op EXCEPT ![c] = "run"]
  /\ cpc' = [cpc EXCEPT ![c] = "spawn"]
  /\ next' = [next EXCEPT ![c] = NSteps]
  /\ runs' = runs + 1
  /\ nfinals' = 0
  /\ UNCHANGED <<running, joining, cancelled, finalized, stepVars, held,
                 returned, itemVars>>

\* Userdata first, then n of the threads of the step.
StartThreads(c, n) ==
  LET s == next[c]
      new == {s} \X (1..n)
  IN  /\ cpc[c] = "spawn" /\ s > 0
      /\ userdata' = [userdata EXCEPT ![s] = TRUE]
      /\ sync_cancelled' = [sync_cancelled EXCEPT ![s] = FALSE]
      /\ rsa_nthread' = [rsa_nthread EXCEPT ![s] = Width[s]]
      /\ nthreads' = nthreads + n
      /\ pc' = [t \in Threads |-> IF t \in new THEN "ready" ELSE pc[t]]

StartStep(c) ==
  /\ StartThreads(c, Width[next[c]])
  /\ next' = [next EXCEPT ![c] = @ - 1]
  /\ UNCHANGED <<lock, running, joining, cancelled, finalized, queues, held, op,
                 cpc, returned, runs, nfinals, itemVars>>

SetRunning == running' = TRUE /\ cancelled' = FALSE /\ finalized' = FALSE

\* All steps run: only now is the chain running.
EndRun(c) ==
  /\ cpc[c] = "spawn" /\ next[c] = 0
  /\ SetRunning
  /\ lock' = "none"
  /\ op' = [op EXCEPT ![c] = "none"]
  /\ cpc' = [cpc EXCEPT ![c] = "idle"]
  /\ UNCHANGED <<joining, nthreads, queues, stepVars, threadVars, next,
                 returned,
                 runs, nfinals, itemVars>>

\* A thread of a step cannot be created.  The loop goes on to the next step
\* before it notices, and when there is none left, as for the first step of the
\* chain, run() takes it that all went well.
StartFails(c) ==
  /\ MayFail /\ next[c] > 0
  /\ \E n \in 0..(Width[next[c]] - 1) : StartThreads(c, n)
  /\ SetRunning
  /\ IF next[c] > 1
     THEN cpc' = [cpc EXCEPT ![c] = "cancel"] /\ UNCHANGED <<lock, op>>
     ELSE /\ cpc' = [cpc EXCEPT ![c] = "idle"]
          /\ lock' = "none" /\ op' = [op EXCEPT ![c] = "none"]
  /\ UNCHANGED <<joining, queues, held, next, returned, runs, nfinals,
                 itemVars>>

\* The userdata of a step cannot be made: the chain counts as running, and is
\* stopped.
MakeFails(c) ==
  /\ MayFail /\ cpc[c] = "spawn" /\ next[c] > 0
  /\ SetRunning
  /\ cpc' = [cpc EXCEPT ![c] = "cancel"]
  /\ UNCHANGED <<lock, joining, nthreads, queues, stepVars, threadVars, op,
                 next,
                 returned, runs, nfinals, itemVars>>

-----------------------------------------------------------------------------
(* stop(), gentle_stop(), delayed_disable(), wait().                        *)

\* The call is over: the caller believes that run number `runs' has ended.
Finish(c) ==
  /\ op' = [op EXCEPT ![c] = "none"]
  /\ cpc' = [cpc EXCEPT ![c] = "idle"]
  /\ returned' = [returned EXCEPT ![c] = runs]
  /\ UNCHANGED next

\* stop() does nothing if somebody else is stopping the chain already.
StopReturns(c) ==
  /\ c \in Stoppers /\ cpc[c] = "idle" /\ lock = "none"
  /\ ~running \/ cancelled
  /\ Finish(c)
  /\ UNCHANGED <<implVars, queues, stepVars, threadVars, runs, nfinals,
                 itemVars>>

BeginStop(c, how) ==
  /\ c \in Stoppers /\ cpc[c] = "idle" /\ lock = "none"
  /\ running /\ ~cancelled
  /\ lock' = c
  /\ op' = [op EXCEPT ![c] = how]
  /\ cpc' = [cpc EXCEPT ![c] = "cancel"]
  /\ UNCHANGED <<running, joining, cancelled, finalized, nthreads, queues,
                 stepVars, threadVars, next, returned, runs, nfinals,
                 itemVars>>

\* StopReturnsInTheEnd: the reader of the first step is not interrupted.
Fault_CancelForgotten(c) ==
  /\ cpc[c] = "cancel"
  /\ cpc' = [cpc EXCEPT ![c] = "disable"]
  /\ next' = [next EXCEPT ![c] = 1]
  /\ UNCHANGED <<implVars, queues, stepVars, threadVars, op, returned, runs,
                 nfinals, itemVars>>

\* do_cancellations(), cancel_synctype().  Only the first step looks at its
\* flag here, so that it does not matter that they are set one after another.
Cancel(c) ==
  /\ cpc[c] = "cancel"
  /\ sync_cancelled' = [s \in Steps |-> TRUE]
  /\ cpc' = [cpc EXCEPT ![c] = "disable"]
  /\ next' = [next EXCEPT ![c] = 1]
  /\ UNCHANGED <<implVars, queues, rsa_nthread, userdata, threadVars, op,
                 returned, runs, nfinals, itemVars>>

\* A gentle stop: no more input, and what is in the queues is finished.
DisableFirst(c) ==
  /\ cpc[c] = "disable" /\ op[c] = "gentle_stop"
  /\ queues' = [queues EXCEPT ![1] = DelayedDisabled(@)]
  /\ cancelled' = TRUE
  /\ cpc' = [cpc EXCEPT ![c] = "join"]
  /\ UNCHANGED <<lock, running, joining, finalized, nthreads, stepVars,
                 threadVars, op, next, returned, runs, nfinals, itemVars>>

\* A blunt one: the queues are disabled one after another.
DisableQueue(c) ==
  /\ cpc[c] = "disable" /\ op[c] # "gentle_stop"
  /\ queues' = [queues EXCEPT ![next[c]] = Disabled(@)]
  /\ IF next[c] = NSteps - 1
     THEN /\ cancelled' = TRUE
          /\ cpc' = [cpc EXCEPT ![c] = "join"]
          /\ UNCHANGED next
     ELSE /\ next' = [next EXCEPT ![c] = @ + 1]
          /\ UNCHANGED <<cancelled, cpc>>
  /\ brutal' = TRUE
  /\ UNCHANGED <<lock, running, joining, finalized, nthreads, stepVars,
                 threadVars, op, returned, runs, nfinals, produced,
                 accepted, consumed>>

\* chain::delayed_disable(): no more input, and nobody is waited for.
DelayedDisable(c) ==
  /\ c \in Stoppers /\ cpc[c] = "idle" /\ lock = "none"
  /\ running /\ ~cancelled
  /\ queues' = [queues EXCEPT ![1] = DelayedDisabled(@)]
  /\ UNCHANGED <<implVars, stepVars, threadVars, callVars, runs, nfinals,
                 itemVars>>

WaitReturns(c) ==
  /\ c \in Waiters /\ cpc[c] = "idle" /\ lock = "none"
  /\ ~running
  /\ Finish(c)
  /\ UNCHANGED <<implVars, queues, stepVars, threadVars, runs, nfinals,
                 itemVars>>

BeginWait(c) ==
  /\ c \in Waiters /\ cpc[c] = "idle" /\ lock = "none"
  /\ running
  /\ lock' = c
  /\ op' = [op EXCEPT ![c] = "wait"]
  /\ cpc' = [cpc EXCEPT ![c] = "join"]
  /\ UNCHANGED <<running, joining, cancelled, finalized, nthreads, queues,
                 stepVars, threadVars, next, returned, runs, nfinals,
                 itemVars>>

-----------------------------------------------------------------------------
(* join_and_cleanup(), entered with the lock by all of them.                *)

\* OneJoins: everybody joins.
Fault_EverybodyJoins(c) ==
  /\ cpc[c] = "join"
  /\ lock' = "none"
  /\ joining' = TRUE
  /\ cpc' = [cpc EXCEPT ![c] = "joining"]
  /\ UNCHANGED <<running, cancelled, finalized, nthreads, queues, stepVars,
                 threadVars, op, next, returned, runs, nfinals, itemVars>>

\* The first to come joins the threads, without the lock; the others wait.
JoinOrWait(c) ==
  /\ cpc[c] = "join"
  /\ lock' = "none"
  /\ joining' = TRUE
  /\ cpc' = [cpc EXCEPT ![c] = IF joining THEN "wait" ELSE "joining"]
  /\ UNCHANGED <<running, cancelled, finalized, nthreads, queues, stepVars,
                 threadVars, op, next, returned, runs, nfinals, itemVars>>

AllGone == \A t \in Threads : pc[t] \in {"none", "gone"}

\* UserdataOutlivesThreads: whoever joins does not wait for all threads.
Fault_CleanupEarly(c) ==
  /\ cpc[c] = "joining" /\ lock = "none"
  /\ \A t \in Threads : t[1] < NSteps => pc[t] \in {"none", "gone"}
  /\ running' = FALSE /\ joining' = FALSE
  /\ userdata' = [s \in Steps |-> FALSE]
  /\ op' = [op EXCEPT ![c] = "none"]
  /\ cpc' = [d \in Controllers |-> IF d = c THEN "idle"
                                   ELSE IF cpc[d] = "wait" THEN "woken" ELSE cpc[d]]
  /\ returned' = [returned EXCEPT ![c] = runs]
  /\ UNCHANGED <<lock, cancelled, finalized, nthreads, queues, rsa_nthread,
                 sync_cancelled, threadVars, next, runs, nfinals,
                 itemVars>>

\* All threads are joined and the lock is back: cleanup functions, userdata.
Cleanup(c) ==
  /\ cpc[c] = "joining" /\ AllGone /\ lock = "none"
  /\ running' = FALSE /\ joining' = FALSE
  /\ userdata' = [s \in Steps |-> FALSE]
  /\ op' = [op EXCEPT ![c] = "none"]
  /\ cpc' = [d \in Controllers |-> IF d = c THEN "idle"
                                   ELSE IF cpc[d] = "wait" THEN "woken" ELSE cpc[d]]
  /\ returned' = [returned EXCEPT ![c] = runs]
  /\ UNCHANGED <<lock, cancelled, finalized, nthreads, queues, rsa_nthread,
                 sync_cancelled, threadVars, next, runs, nfinals,
                 itemVars>>

SpuriousWakeup(c) ==
  /\ cpc[c] = "wait"
  /\ cpc' = [cpc EXCEPT ![c] = "woken"]
  /\ UNCHANGED <<implVars, queues, stepVars, threadVars, op, next, returned,
                 runs, nfinals, itemVars>>

WaitAgain(c) ==
  /\ cpc[c] = "woken" /\ lock = "none" /\ running
  /\ cpc' = [cpc EXCEPT ![c] = "wait"]
  /\ UNCHANGED <<implVars, queues, stepVars, threadVars, op, next, returned,
                 runs, nfinals, itemVars>>

\* ReturnMeansStopped: `if( running )' for `while( running )'.
Fault_WaitLooksOnce(c) ==
  /\ cpc[c] = "woken" /\ lock = "none"
  /\ Finish(c)
  /\ UNCHANGED <<implVars, queues, stepVars, threadVars, runs, nfinals,
                 itemVars>>

WaitEnds(c) ==
  /\ cpc[c] = "woken" /\ lock = "none" /\ ~running
  /\ Finish(c)
  /\ UNCHANGED <<implVars, queues, stepVars, threadVars, runs, nfinals,
                 itemVars>>

-----------------------------------------------------------------------------
ThreadStep(t) ==
  \/ Read(t) \/ ReadCancelled(t) \/ Quit(t) \/ PushItem(t) \/ PopItem(t)
  \/ Consume(t) \/ StepDone(t) \/ DisableOut(t) \/ DisableIn(t) \/ Leave(t)
  \/ DoFinals(t)

\* What a call does once it has begun.
CallStep(c) ==
  \/ StartStep(c) \/ EndRun(c) \/ StartFails(c) \/ MakeFails(c)
  \/ Cancel(c) \/ DisableFirst(c) \/ DisableQueue(c)
  \/ JoinOrWait(c) \/ Cleanup(c) \/ WaitAgain(c) \/ WaitEnds(c)

Next ==
  \/ \E t \in Threads : ThreadStep(t)
  \/ \E c \in Controllers :
       \/ CallStep(c) \/ SpuriousWakeup(c)
       \/ BeginRun(c) \/ BeginWait(c) \/ WaitReturns(c)
       \/ BeginStop(c, "stop") \/ BeginStop(c, "gentle_stop")
       \/ StopReturns(c) \/ DelayedDisable(c)

SafeSpec == Init /\ [][Next]_vars

\* Threads run.  A push() and a pop() complete for one of the threads of a
\* step when the queue allows it (QueueContract!Fairness); nothing is assumed
\* of the outside world (Read, Quit), nor does anybody have to make a call.
Fairness ==
  /\ \A s \in Steps :
       LET Team == {s} \X (1..Width[s])
       IN  /\ WF_vars(\E t \in Team : PushItem(t))
           /\ WF_vars(\E t \in Team : PopItem(t))
  /\ \A t \in Threads :
       WF_vars(\/ ReadCancelled(t) \/ Consume(t) \/ StepDone(t)
               \/ DisableOut(t) \/ DisableIn(t) \/ Leave(t) \/ DoFinals(t))
  /\ \A c \in Controllers : WF_vars(CallStep(c))

Spec == SafeSpec /\ Fairness

-----------------------------------------------------------------------------
(* Properties.                                                              *)

TypeOK ==
  /\ lock \in Controllers \cup {"none"}
  /\ {running, joining, cancelled, finalized, brutal} \subseteq BOOLEAN
  /\ nthreads \in 0..Cardinality(Threads)
  /\ queues \in [1..(NSteps - 1) -> Queues(Items, {QueueDepth})]
  /\ \A s \in DOMAIN queues : Len(queues[s].items) <= QueueDepth
  /\ rsa_nthread \in [Steps -> Nat]
  /\ userdata \in [Steps -> BOOLEAN] /\ sync_cancelled \in [Steps -> BOOLEAN]
  /\ pc \in [Threads -> ThreadPCs]
  /\ held \in [Threads -> 0..MaxItems]
  /\ op \in [Controllers -> {"none", "run", "stop", "gentle_stop", "wait"}]
  /\ cpc \in [Controllers -> CallerPCs]
  /\ next \in [Controllers -> 0..NSteps]
  /\ runs \in 0..1 /\ nfinals \in Nat
  /\ returned \in [Controllers -> 0..1]
  /\ produced \in 0..MaxItems
  /\ accepted \cup consumed \subseteq Items

Live == {t \in Threads : pc[t] \notin {"none", "gone"}}
InThreadFunction == {t \in Threads : pc[t] \in {"ready", "full"}}

\* The threads of a step use its userdata, which run() makes before it starts
\* them and join_and_cleanup() deletes: never too early, in whatever way the
\* run ends and whoever of stop() and wait() joins.
UserdataOutlivesThreads == \A t \in InThreadFunction : userdata[t[1]]

\* The finals run "on account of no threads being active anymore", while the
\* chain still counts as running, so that nobody starts or deletes it; each run
\* calls them once, and before stop() and wait() let anybody think that it is
\* over (if it had a thread at all).
FinalsRunOnceAlone ==
  /\ \A t \in Threads : pc[t] = "finals" => running /\ Live = {t} /\ nthreads = 0
  /\ nfinals <= 1
  /\ (~running /\ lock = "none" /\ \E t \in Threads : pc[t] = "gone") => nfinals = 1

\* A gentle stop (or an end of the input) loses nothing: as long as nobody
\* stops bluntly and no step gives up, whatever the first queue accepted has
\* come out at the end, or is in a queue, or in the hands of a thread.
GentleStopLosesNothing ==
  brutal \/ accepted \subseteq
    consumed \cup {held[t] : t \in Threads}
             \cup UNION {{queues[s].items[i] : i \in 1..Len(queues[s].items)}
                           : s \in DOMAIN queues}

\* stop(), gentle_stop() and wait() return when "everybody's finished": the
\* run that was going on when they were called is over.
ReturnMeansStopped ==
  \A c \in Controllers : returned[c] = runs /\ runs > 0 => ~running

\* A run() that does not end by stopping the chain has started all threads: "If
\* we didn't reach the end of the chain something went wrong and we stop the
\* chain".
RunMeansAllStarted ==
  running /\ op[Runner] # "run" => \A t \in Threads : pc[t] # "none"

\* stop(), gentle_stop() and wait() may all be waiting for the end of a chain, in
\* different threads: only one of them joins its threads, since no thread may be
\* joined twice, and it does so while the chain is still running for the others.
OneJoins ==
  \A c, d \in Controllers :
    cpc[c] = "joining" => running /\ (cpc[d] = "joining" => c = d)

\* A thread that joins the chain gets its threads: whatever the threads were
\* doing, a stop() or a gentle_stop() ends them all and returns.
StopReturnsInTheEnd ==
  \A c \in Stoppers : (op[c] # "none") ~> (op[c] = "none")

StepEnded(s) == \A k \in 1..Width[s] : pc[<<s, k>>] \in {"leave", "finals", "gone"}

\* The end of a step, for whatever reason, takes all that are behind it with it ...
EndTravelsDownstream ==
  (\E s \in Steps : StepEnded(s)) ~> StepEnded(NSteps)

\* A thread that is in push() to a queue that nobody empties any more.
PushesInVain ==
  \E s \in 2..NSteps : StepEnded(s) /\ \E k \in 1..Width[s - 1] : pc[<<s - 1, k>>] = "full"

\* ... and nobody before it keeps hanging in a push() to a full queue.
EndTravelsUpstream == PushesInVain ~> ~PushesInVain

=============================================================================
