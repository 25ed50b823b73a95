--------------------------- MODULE QueueContract ---------------------------
(***************************************************************************)
(* What bqueue<Element> promises to its users, with no condition variable  *)
(* and no counter: a call that finds nothing to do is pending, and as soon *)
(* as the queue allows it some pending call completes, in one step.        *)
(* BQueue implements this (BQueue!Contract).                               *)
(***************************************************************************)
EXTENDS Naturals, Sequences, FiniteSets, QueueState

CONSTANTS Element, Pushers, Poppers, TimedPoppers, Drainers, Capacities, Controls

VARIABLES
  q,        \* the queue, a record of QueueState
  call,     \* call[t]: the call of thread t that is pending
  elem,     \* elem[t]: the argument of the push() that is pending
  result    \* result[t]: what the last call of t reported

vars == <<q, call, elem, result>>

Threads == Pushers \cup Poppers \cup TimedPoppers \cup Drainers

Init ==
  /\ \E cap \in Capacities, enabled \in BOOLEAN : q = QueueOf(cap, enabled)
  /\ call = [t \in Threads |-> "none"]
  /\ elem = [t \in Threads |-> "none"]
  /\ result = [t \in Threads |-> "none"]

Return(t, what) ==
  /\ call' = [call EXCEPT ![t] = "none"]
  /\ elem' = [elem EXCEPT ![t] = "none"]
  /\ result' = [result EXCEPT ![t] = what]

Wait(t, kind, e) ==
  /\ call[t] = "none"
  /\ call' = [call EXCEPT ![t] = kind]
  /\ elem' = [elem EXCEPT ![t] = e]
  /\ UNCHANGED <<q, result>>

\* The element joins the queue or push() fails, whichever q.enable_push says, and
\* it is told so.
PushNow(t, e) ==
  /\ MayPush(q)
  /\ q' = Pushed(q, e)
  /\ Return(t, Told(q.enable_push))

BeginPush(t, e) == ~MayPush(q) /\ Wait(t, "push", e)
PushAtOnce(t, e) == call[t] = "none" /\ PushNow(t, e)
EndPush(t) == call[t] = "push" /\ PushNow(t, elem[t])

\* try_push() does what push() does, if that needs no waiting.  Its caller can
\* tell whether it did, but not from what push() reports, and cannot tell a
\* queue that is full from one that is disabled.
TryPush(t, e) ==
  /\ call[t] = "none"
  /\ q' = IF MayPush(q) THEN Pushed(q, e) ELSE q
  /\ Return(t, TryPushResult(q))

\* The oldest element leaves the queue and is reported, or a failure is.
PopNow(t, nothing) ==
  /\ q' = Popped(q)
  /\ Return(t, IF Takes(q) THEN Head(q.items)
               ELSE IF q.enable_pop THEN nothing ELSE "pop_disabled")

BeginPop(t, kind) == ~MayPop(q) /\ Wait(t, kind, elem[t])
PopAtOnce(t) == call[t] = "none" /\ MayPop(q) /\ PopNow(t, "pop_timeout")
EndPop(t) == call[t] = "pop" /\ MayPop(q) /\ PopNow(t, "pop_timeout")
\* A timed pop() may give up at any moment.
EndTimedPop(t) == call[t] = "timed_pop" /\ PopNow(t, "pop_timeout")
TryPop(t) == call[t] = "none" /\ PopNow(t, "pop_timeout")

Control ==
  /\ \/ "disable" \in Controls /\ q' = Disabled(q)
     \/ "delayed_disable" \in Controls /\ q' = DelayedDisabled(q)
     \/ "disable_pop" \in Controls /\ q' = PopDisabled(q)
     \/ "enable_pop_only" \in Controls /\ q' = PopEnabled(q)
     \/ \E cap \in Capacities \cup {0} :
          \/ "resize_enable" \in Controls /\ q' = ResizeEnabled(q, cap)
          \/ "resize_enable_push" \in Controls /\ q' = ResizeEnabledPush(q, cap)
     \/ Drainers # {} /\ q' = Cleared(q)
  /\ UNCHANGED <<call, elem, result>>

Next ==
  \/ \E t \in Pushers :
       EndPush(t) \/ \E e \in Element :
         BeginPush(t, e) \/ PushAtOnce(t, e) \/ TryPush(t, e)
  \/ \E t \in Poppers : BeginPop(t, "pop") \/ PopAtOnce(t) \/ EndPop(t)
  \/ \E t \in TimedPoppers :
       BeginPop(t, "timed_pop") \/ PopAtOnce(t) \/ EndTimedPop(t)
  \/ \E t \in Drainers : TryPop(t)
  \/ Control

SafeSpec == Init /\ [][Next]_vars

\* Nobody waits while the queue has something for somebody: if push() may
\* complete and calls of it are pending, one of them completes; likewise for
\* pop(); and a timed pop() always ends.  Which one, is not promised.
Fairness ==
  /\ WF_vars(\E t \in Pushers : EndPush(t))
  /\ WF_vars(\E t \in Poppers : EndPop(t))
  /\ \A t \in TimedPoppers : WF_vars(EndTimedPop(t))

Spec == SafeSpec /\ Fairness

=============================================================================
