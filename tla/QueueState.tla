----------------------------- MODULE QueueState -----------------------------
(***************************************************************************)
(* What the member functions of bqueue<Element> (src/src/bqueue.h) do to   *)
(* the contents and the switches of a queue, without the waiting: pure     *)
(* operators on a queue record, for the modules that use queues.  BQueue   *)
(* has the waiting, and shows that it comes down to this.                  *)
(***************************************************************************)
LOCAL INSTANCE Naturals
LOCAL INSTANCE Sequences

Queue(items, capacity, enable_push, enable_pop) ==
  [items |-> items, capacity |-> capacity,
   enable_push |-> enable_push, enable_pop |-> enable_pop]

Queues(Element, Capacities) ==
  [items : Seq(Element), capacity : Capacities,
   enable_push : BOOLEAN, enable_pop : BOOLEAN]

\* What a function returns that is declared bool: push() its did_push, and
\* try_push() a push_result_type, of which the conversion to bool leaves whether
\* it is zero: a push that was done is "false", either failure is "true".
push_success == 0
push_overflow == 1
push_disabled == 2

AsBool(value) == IF value # 0 THEN "true" ELSE "false"
Told(did) == IF did THEN "true" ELSE "false"

TryPushResult(q) ==
  AsBool(IF ~q.enable_push THEN push_disabled
         ELSE IF Len(q.items) >= q.capacity THEN push_overflow ELSE push_success)

\* A fresh queue, both of its ends enabled or disabled.
QueueOf(cap, enabled) == Queue(<<>>, cap, enabled, enabled)

\* push() and pop() do not wait (any longer): they complete, or fail.
MayPush(q) == q.enable_push => Len(q.items) < q.capacity
MayPop(q) == q.enable_pop => q.items # <<>>

\* A push() that does not wait succeeds iff the push end is enabled.
Pushed(q, e) ==
  Queue(IF q.enable_push THEN Append(q.items, e) ELSE q.items,
        q.capacity, q.enable_push, q.enable_pop)

\* A pop takes the oldest element, if there is one and the pop end is enabled.
Takes(q) == q.enable_pop /\ q.items # <<>>

\* What any pop function leaves: a queue that can no longer be pushed on
\* and is empty is disabled on its pop end as well.
Popped(q) ==
  LET rest == IF Takes(q) THEN Tail(q.items) ELSE q.items
  IN  Queue(rest, q.capacity, q.enable_push,
            q.enable_pop /\ (q.enable_push \/ rest # <<>>))

Cleared(q) ==
  Queue(<<>>, q.capacity, q.enable_push, q.enable_pop /\ q.enable_push)

Disabled(q) == Queue(<<>>, q.capacity, FALSE, FALSE)

DelayedDisabled(q) ==
  Queue(q.items, q.capacity, FALSE, q.enable_pop /\ q.items # <<>>)

PopDisabled(q) == Queue(q.items, q.capacity, q.enable_push, FALSE)
PopEnabled(q) == Queue(q.items, q.capacity, q.enable_push, TRUE)

Resized(cap, q) == IF cap # 0 THEN cap ELSE q.capacity

\* enable() is resize_enable(0).
ResizeEnabled(q, cap) == QueueOf(Resized(cap, q), TRUE)

ResizeEnabledPush(q, cap) == Queue(<<>>, Resized(cap, q), TRUE, q.enable_pop)

=============================================================================
