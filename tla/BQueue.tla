------------------------------- MODULE BQueue -------------------------------
(***************************************************************************)
(* bqueue<Element> (src/src/bqueue.h): the bounded queue between threads.  *)
(* Every member function holds `mutex' from its entry to its return, and   *)
(* gives it up only inside pthread_cond_wait(), so that a call is one step *)
(* up to the wait and one step for every return from the wait.             *)
(*                                                                         *)
(* pthread_cond_signal() takes one thread out of the set of threads that   *)
(* wait on the condition variable, pthread_cond_broadcast() takes all of   *)
(* them; such a thread still has to get the mutex before it looks at the   *)
(* queue again, and any other thread may get it first.                     *)
(*                                                                         *)
(* Not modelled: a pthread_* call that fails (it throws), ~bqueue().       *)
(*                                                                         *)
(* An operator Fault_... is a slip that this code could have had, and that *)
(* the property named with it notices.  No other definition uses it.       *)
(***************************************************************************)
EXTENDS Integers, Sequences, FiniteSets, QueueState

CONSTANTS
  Element,       \* what is queued
  Pushers,       \* threads that call push() and try_push()
  Poppers,       \* threads that call pop(Element&)
  TimedPoppers,  \* threads that call pop(Element&, const timespec&)
  Drainers,      \* threads that call trypop() and clear()
  Capacities,    \* the capacities the owner of the queue passes
  Controls       \* the control functions that are called on this queue

\* The control functions of the class, by name.
AllControls == {"disable", "delayed_disable", "disable_pop", "resize_enable",
                "resize_enable_push", "enable_pop_only"}
\* A queue inside a chain: chain.h calls enable(), disable() and
\* delayed_disable() on it, through the thunks of chain::internalq.
ChainControls == {"resize_enable", "disable", "delayed_disable"}

Threads == Pushers \cup Poppers \cup TimedPoppers \cup Drainers

ASSUME BQueueAssumption ==
  /\ IsFiniteSet(Threads)
  /\ Capacities \subseteq Nat
  /\ Capacities # {}
  /\ Controls \subseteq AllControls

\* What a completed call reported: push() and try_push() return a bool, and a
\* successful pop() reports the element.
Codes == {"none", "true", "false", "pop_timeout", "pop_disabled"}
ASSUME CodesAreNotElements == Codes \cap Element = {}

VARIABLES
  queue,         \* the elements, the oldest first
  capacity,
  enable_push,
  enable_pop,
  nPush,         \* number of threads inside push()
  nPop,          \* number of threads inside a pop function
  call,          \* call[t]: the call thread t is waiting in
  elem,          \* elem[t]: the argument of the push() t is waiting in
  wait_push,     \* threads in pthread_cond_wait(&condition_push)
  wait_pop,      \* threads in pthread_cond_(timed)wait(&condition_pop)
  result         \* result[t]: what the last call of t reported

vars == <<queue, capacity, enable_push, enable_pop, nPush, nPop, call, elem,
          wait_push, wait_pop, result>>

Calls == {"none", "push", "pop", "timed_pop", "timed_out"}

TypeOK ==
  /\ queue \in Seq(Element)
  /\ capacity \in Nat
  /\ enable_push \in BOOLEAN
  /\ enable_pop \in BOOLEAN
  /\ nPush \in Nat
  /\ nPop \in Nat
  /\ call \in [Threads -> Calls]
  /\ elem \in [Threads -> Element \cup {"none"}]
  /\ wait_push \subseteq Threads
  /\ wait_pop \subseteq Threads
  /\ result \in [Threads -> Codes \cup Element]
  /\ \A t \in Threads : call[t] = "push" => elem[t] \in Element

\* bqueue(cap): enabled on both ends, unless it is built by the default
\* constructor (invalid_size), which leaves both ends disabled.
Init ==
  /\ queue = <<>>
  /\ capacity \in Capacities
  /\ enable_push \in BOOLEAN
  /\ enable_pop = enable_push
  /\ nPush = 0
  /\ nPop = 0
  /\ call = [t \in Threads |-> "none"]
  /\ elem = [t \in Threads |-> "none"]
  /\ wait_push = {}
  /\ wait_pop = {}
  /\ result = [t \in Threads |-> "none"]

-----------------------------------------------------------------------------
(* The condition variables.                                                *)

\* pthread_cond_signal: `after' is `waiting' without one of its members.
Signal(waiting, after) ==
  IF waiting = {} THEN after = {} ELSE \E t \in waiting : after = waiting \ {t}

SignalPoppersIf(wake) ==
  IF wake THEN Signal(wait_pop, wait_pop') ELSE wait_pop' = wait_pop

SignalPushersIf(wake) ==
  IF wake THEN Signal(wait_push, wait_push') ELSE wait_push' = wait_push

Return(t, what) ==
  /\ call' = [call EXCEPT ![t] = "none"]
  /\ elem' = [elem EXCEPT ![t] = "none"]
  /\ result' = [result EXCEPT ![t] = what]

-----------------------------------------------------------------------------
(* push() and try_push().                                                  *)

MustWaitToPush == enable_push /\ Len(queue) >= capacity

WaitToPush(t, e, n) ==
  /\ wait_push' = wait_push \cup {t}
  /\ nPush' = n
  /\ call' = [call EXCEPT ![t] = "push"]
  /\ elem' = [elem EXCEPT ![t] = e]
  /\ UNCHANGED <<queue, wait_pop, result>>

\* A push that signals only when the queue was empty.  PoppersAreWoken
Fault_AddSignalsWhenEmpty(t, e, n) ==
  /\ queue' = IF enable_push THEN Append(queue, e) ELSE queue
  /\ nPush' = n
  /\ SignalPoppersIf(nPop > 0 /\ enable_push /\ queue = <<>>)
  /\ Return(t, Told(enable_push))
  /\ UNCHANGED wait_push

\* A push that looks at the wrong counter.  TimedPoppersAreWoken
Fault_AddLooksAtPushers(t, e, n) ==
  /\ queue' = IF enable_push THEN Append(queue, e) ELSE queue
  /\ nPush' = n
  /\ SignalPoppersIf(n > 0 /\ enable_push)
  /\ Return(t, Told(enable_push))
  /\ UNCHANGED wait_push

\* The rest of push(), behind the wait; n pushers stay behind.
AddLocked(t, e, n) ==
  /\ queue' = IF enable_push THEN Append(queue, e) ELSE queue
  /\ nPush' = n
  /\ SignalPoppersIf(nPop > 0 /\ enable_push)
  /\ Return(t, Told(enable_push))
  /\ UNCHANGED wait_push

\* push() with the mutex held, n being nPush at that point: wait, or do it.
PushLocked(t, e, n) ==
  \/ MustWaitToPush /\ WaitToPush(t, e, n)
  \/ ~MustWaitToPush /\ AddLocked(t, e, n - 1)

\* A push() that does not count itself.  TypeOK, CountsOK
Fault_PushNotCounted(t, e) ==
  /\ call[t] = "none"
  /\ PushLocked(t, e, nPush)
  /\ UNCHANGED <<capacity, enable_push, enable_pop, nPop>>

Push(t, e) ==
  /\ call[t] = "none"
  /\ PushLocked(t, e, nPush + 1)
  /\ UNCHANGED <<capacity, enable_push, enable_pop, nPop>>

\* "if" for "while": a woken pusher that does not look again.
\* WithinCapacity, ContractSpec
Fault_PushLooksOnce(t) ==
  /\ call[t] = "push"
  /\ t \notin wait_push
  /\ AddLocked(t, elem[t], nPush - 1)
  /\ UNCHANGED <<capacity, enable_push, enable_pop, nPop>>

PushResume(t) ==
  /\ call[t] = "push"
  /\ t \notin wait_push
  /\ PushLocked(t, elem[t], nPush)
  /\ UNCHANGED <<capacity, enable_push, enable_pop, nPop>>

TryPush(t, e) ==
  /\ call[t] = "none"
  /\ \/ /\ enable_push
        /\ Len(queue) < capacity
        /\ queue' = Append(queue, e)
        /\ SignalPoppersIf(nPop > 0)
        /\ Return(t, AsBool(push_success))
     \/ /\ ~(enable_push /\ Len(queue) < capacity)
        /\ Return(t, AsBool(IF enable_push THEN push_overflow ELSE push_disabled))
        /\ UNCHANGED <<queue, wait_pop>>
  /\ UNCHANGED <<capacity, enable_push, enable_pop, nPush, nPop, wait_push>>

-----------------------------------------------------------------------------
(* The pop functions.                                                      *)

MustWaitToPop == enable_pop /\ queue = <<>>

\* The optimisation the comment in bqueue.h proposes, to signal only when the
\* queue was full.  PushersAreWoken
Fault_TakeSignalsWhenFull(t, timeout, n) ==
  LET did_pop == enable_pop /\ queue # <<>>
  IN  /\ queue' = IF did_pop THEN Tail(queue) ELSE queue
      /\ enable_pop' = (enable_pop /\ (enable_push \/ queue' # <<>>))
      /\ nPop' = n
      /\ SignalPushersIf(nPush > 0 /\ did_pop /\ Len(queue) = capacity)
      /\ Return(t, IF did_pop THEN Head(queue)
                   ELSE IF enable_pop THEN timeout ELSE "pop_disabled")

\* What every pop function does to the queue when it does not wait: take the
\* oldest element if popping is enabled, and complete a delayed disable when
\* nothing is left; n is nPop on entry of the call.
TakeLocked(t, timeout, n) ==
  LET did_pop == enable_pop /\ queue # <<>>
  IN  /\ queue' = IF did_pop THEN Tail(queue) ELSE queue
      /\ enable_pop' = (enable_pop /\ (enable_push \/ queue' # <<>>))
      /\ nPop' = n
      /\ SignalPushersIf(nPush > 0 /\ did_pop)
      /\ Return(t, IF did_pop THEN Head(queue)
                   ELSE IF enable_pop THEN timeout ELSE "pop_disabled")

WaitToPop(t, kind, n) ==
  /\ wait_pop' = wait_pop \cup {t}
  /\ nPop' = n
  /\ call' = [call EXCEPT ![t] = kind]
  /\ UNCHANGED <<queue, enable_pop, elem, wait_push, result>>

\* pop(Element&): the only one that wakes the other poppers when it leaves
\* the pop end disabled.
PopLocked(t, n) ==
  \/ MustWaitToPop /\ WaitToPop(t, "pop", n)
  \/ /\ ~MustWaitToPop
     /\ TakeLocked(t, "none", n - 1)
     /\ wait_pop' = IF n > 1 /\ ~enable_pop' THEN {} ELSE wait_pop

Pop(t) ==
  /\ call[t] = "none"
  /\ PopLocked(t, nPop + 1)
  /\ UNCHANGED <<capacity, enable_push, nPush>>

PopResume(t) ==
  /\ call[t] = "pop"
  /\ t \notin wait_pop
  /\ PopLocked(t, nPop)
  /\ UNCHANGED <<capacity, enable_push, nPush>>

\* pop(Element&, const timespec&).  A thread whose time is up leaves the
\* condition variable by itself, or is woken already; it does not wait again.
TimedPopLocked(t, n, expired) ==
  \/ ~expired /\ MustWaitToPop /\ WaitToPop(t, "timed_pop", n)
  \/ /\ expired \/ ~MustWaitToPop
     /\ TakeLocked(t, "pop_timeout", n - 1)
     /\ UNCHANGED wait_pop

TimedPop(t) ==
  /\ call[t] = "none"
  /\ TimedPopLocked(t, nPop + 1, FALSE)
  /\ UNCHANGED <<capacity, enable_push, nPush>>

TimedPopResume(t) ==
  /\ call[t] \in {"timed_pop", "timed_out"}
  /\ t \notin wait_pop
  /\ TimedPopLocked(t, nPop, call[t] = "timed_out")
  /\ UNCHANGED <<capacity, enable_push, nPush>>

TimeOut(t) ==
  /\ call[t] = "timed_pop"
  /\ call' = [call EXCEPT ![t] = "timed_out"]
  /\ wait_pop' = wait_pop \ {t}
  /\ UNCHANGED <<queue, capacity, enable_push, enable_pop, nPush, nPop, elem,
                 wait_push, result>>

TryPop(t) ==
  /\ call[t] = "none"
  /\ TakeLocked(t, "pop_timeout", nPop)
  /\ UNCHANGED <<capacity, enable_push, nPush, wait_pop>>

Clear ==
  /\ queue' = <<>>
  /\ enable_pop' = (enable_pop /\ enable_push)
  /\ wait_push' = IF nPush > 0 /\ queue # <<>> THEN {} ELSE wait_push
  /\ UNCHANGED <<capacity, enable_push, nPush, nPop, call, elem, wait_pop,
                 result>>

-----------------------------------------------------------------------------
(* The control functions.                                                  *)

\* A disable() that keeps the elements.  NothingLeftBehind
Fault_DisableKeepsElements ==
  /\ enable_push' = FALSE
  /\ enable_pop' = FALSE
  /\ wait_push' = {}
  /\ wait_pop' = {}
  /\ UNCHANGED <<queue, capacity, nPush, nPop, call, elem, result>>

Disable ==
  /\ enable_push' = FALSE
  /\ enable_pop' = FALSE
  /\ queue' = <<>>
  /\ wait_push' = {}
  /\ wait_pop' = {}
  /\ UNCHANGED <<capacity, nPush, nPop, call, elem, result>>

DelayedDisable ==
  /\ enable_push' = FALSE
  /\ enable_pop' = (enable_pop /\ queue # <<>>)
  /\ wait_push' = {}
  /\ wait_pop' = IF enable_pop' THEN wait_pop ELSE {}
  /\ UNCHANGED <<queue, capacity, nPush, nPop, call, elem, result>>

DisablePop ==
  /\ enable_pop' = FALSE
  /\ wait_pop' = {}
  /\ UNCHANGED <<queue, capacity, enable_push, nPush, nPop, call, elem,
                 wait_push, result>>

\* enable() is resize_enable(0), which keeps the capacity.
ResizeEnable(newcap) ==
  /\ enable_push' = TRUE
  /\ enable_pop' = TRUE
  /\ capacity' = IF newcap # 0 THEN newcap ELSE capacity
  /\ queue' = <<>>
  /\ wait_push' = {}
  /\ wait_pop' = {}
  /\ UNCHANGED <<nPush, nPop, call, elem, result>>

ResizeEnablePush(newcap) ==
  /\ enable_push' = TRUE
  /\ capacity' = IF newcap # 0 THEN newcap ELSE capacity
  /\ queue' = <<>>
  /\ wait_push' = {}
  /\ UNCHANGED <<enable_pop, nPush, nPop, call, elem, wait_pop, result>>

EnablePopOnly ==
  /\ enable_pop' = TRUE
  /\ wait_pop' = {}
  /\ UNCHANGED <<queue, capacity, enable_push, nPush, nPop, call, elem,
                 wait_push, result>>

Control ==
  \/ "disable" \in Controls /\ Disable
  \/ "delayed_disable" \in Controls /\ DelayedDisable
  \/ "disable_pop" \in Controls /\ DisablePop
  \/ "enable_pop_only" \in Controls /\ EnablePopOnly
  \/ \E cap \in Capacities \cup {0} :
       \/ "resize_enable" \in Controls /\ ResizeEnable(cap)
       \/ "resize_enable_push" \in Controls /\ ResizeEnablePush(cap)

\* POSIX: a thread may return from pthread_cond_wait() without a signal.
SpuriousWakeup(t) ==
  /\ t \in wait_push \cup wait_pop
  /\ wait_push' = wait_push \ {t}
  /\ wait_pop' = wait_pop \ {t}
  /\ UNCHANGED <<queue, capacity, enable_push, enable_pop, nPush, nPop, call,
                 elem, result>>

-----------------------------------------------------------------------------
Next ==
  \/ \E t \in Pushers : PushResume(t) \/ \E e \in Element : Push(t, e) \/ TryPush(t, e)
  \/ \E t \in Poppers : Pop(t) \/ PopResume(t)
  \/ \E t \in TimedPoppers : TimedPop(t) \/ TimedPopResume(t) \/ TimeOut(t)
  \/ \E t \in Drainers : TryPop(t)
  \/ Drainers # {} /\ Clear
  \/ Control
  \/ \E t \in Threads : SpuriousWakeup(t)

SafeSpec == Init /\ [][Next]_vars

\* A thread that was taken off the condition variable gets the mutex again
\* (nothing is held across a wait, so it is free again and again), and a
\* timed wait ends.  Nobody is obliged to call anything.
Fairness ==
  /\ \A t \in Pushers : WF_vars(PushResume(t))
  /\ \A t \in Poppers : WF_vars(PopResume(t))
  /\ \A t \in TimedPoppers : WF_vars(TimedPopResume(t)) /\ WF_vars(TimeOut(t))

Spec == SafeSpec /\ Fairness

-----------------------------------------------------------------------------
(* Properties.  The comments at the end of bqueue.h explain which thread a  *)
(* push() and a pop() must wake, and that one is enough.                    *)

InPush == {t \in Threads : call[t] = "push"}
InPop == {t \in Threads : call[t] \in {"pop", "timed_pop", "timed_out"}}

\* Threads that were woken and have not got the mutex back yet.
WokenPushers == InPush \ wait_push
WokenPoppers == InPop \ wait_pop

\* nPush and nPop count the threads inside the calls (they decide who is
\* signalled), and a thread waits on the condition of the call it is in.
CountsOK ==
  /\ wait_push \subseteq InPush
  /\ wait_pop \subseteq InPop
  /\ nPush = Cardinality(InPush)
  /\ nPop = Cardinality(InPop)

\* No lost wake-up of a pusher: while somebody sleeps in push(), the queue is
\* enabled and every free place has a woken pusher on its way to it, although
\* pop() signals only one and another push() may get there first.
PushersAreWoken ==
  wait_push # {} =>
    /\ enable_push
    /\ Len(queue) + Cardinality(WokenPushers) >= capacity

\* No lost wake-up of a popper: while somebody sleeps in a pop(), popping is
\* enabled and every element has a woken popper on its way to it, although
\* push() signals only one, and the last pop() of a queue in delayed disable
\* switches popping off under the others.
PoppersAreWoken ==
  wait_pop # {} =>
    /\ enable_pop
    /\ Len(queue) <= Cardinality(WokenPoppers)

\* The same for a queue with timed pops, while popping is enabled: they leave it
\* disabled without waking the other poppers, who find out when their own time
\* is up.
TimedPoppersAreWoken ==
  enable_pop /\ wait_pop # {} => Len(queue) <= Cardinality(WokenPoppers)

\* push() waits for room in a loop: however many pushers are woken for one
\* free place, the queue never holds more than its capacity.
WithinCapacity == Len(queue) <= capacity

\* A queue in a chain is never left half open: what cannot be popped is not
\* kept for the next run, and "only an enabled queue has enable_push set to
\* true" (the reason pop() may complete a delayed disable, whoever began it).
NothingLeftBehind == ~enable_pop => ~enable_push /\ queue = <<>>

\* "If the queue is disabled, return push_disabled.  If there is no room, will
\* return push_overflow.  Otherwise [...] push_success is returned" (bqueue.h, of
\* try_push()): what is returned equals that enumerator.  Of a bool, compared with
\* an enumerator, false is 0 and true is 1; neither is push_disabled.
AsInt(told) == IF told = "true" THEN 1 ELSE 0

TryPushTells ==
  [][\A t \in Pushers, e \in Element : TryPush(t, e) =>
       AsInt(result'[t]) = IF ~enable_push THEN push_disabled
                           ELSE IF Len(queue) >= capacity THEN push_overflow
                           ELSE push_success]_vars

\* The queue implements its contract: the record of QueueState is the four
\* fields of the class, and running out of time is nothing the caller sees.
AbsQueue == [items |-> queue, capacity |-> capacity,
             enable_push |-> enable_push, enable_pop |-> enable_pop]
AbsCall == [t \in Threads |-> IF call[t] = "timed_out" THEN "timed_pop" ELSE call[t]]

Contract == INSTANCE QueueContract WITH q <- AbsQueue, call <- AbsCall

\* Seen from outside, push() and pop() are single steps that happen when the
\* queue allows them, and some pending call completes whenever one can.
ContractSpec == Contract!Spec

=============================================================================
