--------------------------- MODULE BQueue_proofs ---------------------------
(***************************************************************************)
(* Proofs about BQueue, for every number of threads, every set of elements *)
(* and every capacity.                                                     *)
(***************************************************************************)
EXTENDS BQueue, FiniteSetTheorems, TLAPS

\* What every proof below rests on: the types, and that the two counters and
\* the two sets of sleeping threads agree with the calls the threads are in.
Basics == TypeOK /\ CountsOK

-----------------------------------------------------------------------------
(* Sets and their sizes.                                                   *)

\* A subset of a finite set of threads is finite; a member more or less
\* changes its size by one.
LEMMA SizeAdd ==
  ASSUME NEW S, IsFiniteSet(S), NEW x, x \notin S
  PROVE  Cardinality(S \cup {x}) = Cardinality(S) + 1
BY FS_AddElement

LEMMA SizeRemove ==
  ASSUME NEW S, IsFiniteSet(S), NEW x \in S
  PROVE  /\ Cardinality(S \ {x}) = Cardinality(S) - 1
         /\ Cardinality(S) \in Nat \ {0}
<1>1. Cardinality(S) \in Nat /\ Cardinality(S \ {x}) \in Nat
  BY FS_RemoveElement, FS_CardinalityType
<1>2. Cardinality(S) # 0
  BY FS_EmptySet
<1> QED
  BY <1>1, <1>2, FS_RemoveElement

LEMMA InsideIsFinite ==
  /\ IsFiniteSet(InPush)
  /\ IsFiniteSet(InPop)
  /\ IsFiniteSet(WokenPushers)
  /\ IsFiniteSet(WokenPoppers)
<1>1. InPush \in SUBSET Threads /\ InPop \in SUBSET Threads
  BY DEF InPush, InPop
<1>2. WokenPushers \in SUBSET Threads /\ WokenPoppers \in SUBSET Threads
  BY <1>1 DEF WokenPushers, WokenPoppers
<1> QED
  BY <1>1, <1>2, FS_Subset, BQueueAssumption

\* What a change of the call of one thread does to the sets of callers.
LEMMA CallChanges ==
  ASSUME call \in [Threads -> Calls],
         NEW t \in Threads, NEW kind \in Calls,
         call' = [call EXCEPT ![t] = kind]
  PROVE  /\ call' \in [Threads -> Calls]
         /\ kind = "push" => InPush' = InPush \cup {t}
         /\ kind # "push" => InPush' = InPush \ {t}
         /\ kind \in {"pop", "timed_pop", "timed_out"} => InPop' = InPop \cup {t}
         /\ kind \in {"none", "push"} => InPop' = InPop \ {t}
BY DEF InPush, InPop, Calls

LEMMA ReturnChanges ==
  ASSUME TypeOK, NEW t \in Threads, NEW what, Return(t, what)
  PROVE  /\ call' \in [Threads -> Calls]
         /\ InPush' = InPush \ {t}
         /\ InPop' = InPop \ {t}
         /\ elem' \in [Threads -> Element \cup {"none"}]
         /\ \A u \in Threads : call'[u] = "push" => elem'[u] \in Element
         /\ what \in Codes \cup Element
              => result' \in [Threads -> Codes \cup Element]
<1>1. /\ call \in [Threads -> Calls] /\ call' = [call EXCEPT ![t] = "none"]
      /\ "none" \in Calls
  BY DEF Return, TypeOK, Calls
<1>2. /\ call' \in [Threads -> Calls]
      /\ InPush' = InPush \ {t}
      /\ InPop' = InPop \ {t}
  BY <1>1, CallChanges
<1>3. /\ elem' \in [Threads -> Element \cup {"none"}]
      /\ \A u \in Threads : call'[u] = "push" => elem'[u] \in Element
  BY <1>1 DEF Return, TypeOK
<1>4. what \in Codes \cup Element => result' \in [Threads -> Codes \cup Element]
  BY DEF Return, TypeOK
<1> QED BY <1>2, <1>3, <1>4

-----------------------------------------------------------------------------
(* The types and the counters.                                             *)

LEMMA InitBasics == Init => Basics
<1> SUFFICES ASSUME Init PROVE Basics
  OBVIOUS
<1>1. TypeOK
  BY BQueueAssumption DEF Init, TypeOK, Calls, Codes
<1>2. InPush = {} /\ InPop = {}
  BY DEF Init, InPush, InPop
<1> QED
  BY <1>1, <1>2, FS_EmptySet DEF Init, Basics, CountsOK

\* A signal takes at most one thread off a condition variable.
LEMMA SignalShrinks ==
  ASSUME NEW waiting, NEW after, Signal(waiting, after)
  PROVE  after \subseteq waiting
BY DEF Signal

LEMMA PushBasics ==
  ASSUME Basics,
         NEW t \in Threads, NEW e \in Element, NEW n \in Nat,
         PushLocked(t, e, n),
         UNCHANGED <<capacity, enable_push, enable_pop, nPop>>,
         call[t] \in {"none", "push"},
         t \notin wait_push,
         n = Cardinality(InPush \cup {t})
  PROVE  Basics'
<1> USE DEF Basics
<1>0. t \notin wait_pop /\ t \notin InPop
  BY DEF CountsOK, InPop
<1>1. CASE MustWaitToPush /\ WaitToPush(t, e, n)
  <2>1. /\ call' \in [Threads -> Calls]
        /\ InPush' = InPush \cup {t}
        /\ InPop' = InPop
    <3>1. call \in [Threads -> Calls] /\ call' = [call EXCEPT ![t] = "push"]
      BY <1>1 DEF WaitToPush, TypeOK
    <3>2. "push" \in Calls
      BY DEF Calls
    <3>3. /\ call' \in [Threads -> Calls]
          /\ InPush' = InPush \cup {t}
          /\ InPop' = InPop \ {t}
      BY <3>1, <3>2, CallChanges
    <3> QED BY <1>0, <3>3
  <2>2. TypeOK'
    BY <1>1, <2>1 DEF WaitToPush, TypeOK
  <2>3. CountsOK'
    BY <1>1, <2>1 DEF WaitToPush, CountsOK
  <2> QED BY <2>2, <2>3
<1>2. CASE ~MustWaitToPush /\ AddLocked(t, e, n - 1)
  <2>0. \E what \in Codes : Return(t, what)
    BY <1>2 DEF AddLocked, Codes, Told
  <2>1. /\ call' \in [Threads -> Calls]
        /\ InPush' = InPush \ {t}
        /\ InPop' = InPop
        /\ elem' \in [Threads -> Element \cup {"none"}]
        /\ \A u \in Threads : call'[u] = "push" => elem'[u] \in Element
        /\ result' \in [Threads -> Codes \cup Element]
    <3>1. PICK what \in Codes : Return(t, what)
      BY <2>0
    <3>2. TypeOK /\ what \in Codes \cup Element
      BY <3>1
    <3>3. /\ call' \in [Threads -> Calls]
          /\ InPush' = InPush \ {t} /\ InPop' = InPop \ {t}
          /\ elem' \in [Threads -> Element \cup {"none"}]
          /\ \A u \in Threads : call'[u] = "push" => elem'[u] \in Element
          /\ result' \in [Threads -> Codes \cup Element]
      BY ONLY <3>1, <3>2, ReturnChanges
    <3> QED BY ONLY <1>0, <3>3
  <2>2. n - 1 = Cardinality(InPush \ {t}) /\ n - 1 \in Nat
    <3>1. IsFiniteSet(InPush \cup {t})
      BY InsideIsFinite, FS_AddElement
    <3>2. InPush \ {t} = (InPush \cup {t}) \ {t} /\ t \in InPush \cup {t}
      OBVIOUS
    <3>3. n = Cardinality(InPush \cup {t})
      BY <1>0
    <3>4. Cardinality((InPush \cup {t}) \ {t}) = n - 1 /\ n \in Nat \ {0}
      BY ONLY <3>1, <3>2, <3>3, SizeRemove
    <3>5. n - 1 \in Nat
      BY ONLY <3>4
    <3> QED BY ONLY <3>2, <3>4, <3>5
  <2>3. wait_pop' \subseteq wait_pop
    BY <1>2, SignalShrinks DEF AddLocked, SignalPoppersIf
  <2>4. TypeOK'
    <3>1. queue' \in Seq(Element)
      BY <1>2 DEF AddLocked, TypeOK
    <3> QED
      BY <1>2, <2>1, <2>2, <2>3, <3>1 DEF AddLocked, TypeOK
  <2>5. CountsOK'
    BY <1>2, <2>1, <2>2, <2>3 DEF AddLocked, CountsOK
  <2> QED BY <2>4, <2>5
<1> QED BY <1>1, <1>2 DEF PushLocked

\* What every pop function leaves behind, whatever it reports.
LEMMA TakeChanges ==
  ASSUME TypeOK, NEW t \in Threads, NEW timeout \in Codes, NEW n,
         TakeLocked(t, timeout, n)
  PROVE  /\ queue' \in Seq(Element)
         /\ Len(queue') \in Nat
         /\ enable_pop' \in BOOLEAN
         /\ nPop' = n
         /\ wait_push' \subseteq wait_push
         /\ \E what \in Codes \cup Element : Return(t, what)
<1>1. queue # <<>> => Tail(queue) \in Seq(Element) /\ Head(queue) \in Element
  BY DEF TypeOK
<1>2. queue' \in Seq(Element) /\ nPop' = n
  BY <1>1 DEF TakeLocked, TypeOK
<1>3. enable_pop' \in BOOLEAN
  BY DEF TakeLocked, TypeOK
<1>4. wait_push' \subseteq wait_push
  BY SignalShrinks DEF TakeLocked, SignalPushersIf
<1>5. \E what \in Codes \cup Element : Return(t, what)
  BY <1>1 DEF TakeLocked, Codes
<1> QED BY <1>2, <1>3, <1>4, <1>5

LEMMA PopBasics ==
  ASSUME Basics,
         NEW t \in Threads, NEW n \in Nat, NEW kind \in {"pop", "timed_pop"},
         \/ WaitToPop(t, kind, n)
         \/ \E timeout \in Codes :
              TakeLocked(t, timeout, n - 1) /\ wait_pop' \subseteq wait_pop,
         UNCHANGED <<capacity, enable_push, nPush>>,
         call[t] \in {"none", "pop", "timed_pop", "timed_out"},
         t \notin wait_pop,
         n = Cardinality(InPop \cup {t})
  PROVE  Basics'
<1> USE DEF Basics
<1>0. t \notin wait_push /\ t \notin InPush
  BY DEF CountsOK, InPush
<1>1. CASE WaitToPop(t, kind, n)
  <2>1. /\ call \in [Threads -> Calls] /\ call' = [call EXCEPT ![t] = kind]
        /\ kind \in Calls
    BY <1>1 DEF WaitToPop, TypeOK, Calls
  <2>2. /\ call' \in [Threads -> Calls]
        /\ InPush' = InPush \ {t}
        /\ InPop' = InPop \cup {t}
    BY <2>1, CallChanges
  <2>3. TypeOK'
    BY <1>1, <2>1, <2>2 DEF WaitToPop, TypeOK
  <2>4. CountsOK'
    BY <1>0, <1>1, <2>2 DEF WaitToPop, CountsOK
  <2> QED BY <2>3, <2>4
<1>2. CASE \E timeout \in Codes :
             TakeLocked(t, timeout, n - 1) /\ wait_pop' \subseteq wait_pop
  <2>1. /\ queue' \in Seq(Element)
        /\ enable_pop' \in BOOLEAN
        /\ nPop' = n - 1
        /\ wait_push' \subseteq wait_push
        /\ wait_pop' \subseteq wait_pop
        /\ \E what \in Codes \cup Element : Return(t, what)
    BY <1>2, TakeChanges
  <2>2. /\ call' \in [Threads -> Calls]
        /\ InPush' = InPush \ {t}
        /\ InPop' = InPop \ {t}
        /\ elem' \in [Threads -> Element \cup {"none"}]
        /\ \A u \in Threads : call'[u] = "push" => elem'[u] \in Element
        /\ result' \in [Threads -> Codes \cup Element]
    BY <2>1, ReturnChanges
  <2>3. n - 1 = Cardinality(InPop \ {t}) /\ n - 1 \in Nat
    <3>1. IsFiniteSet(InPop \cup {t})
      BY InsideIsFinite, FS_AddElement
    <3>2. InPop \ {t} = (InPop \cup {t}) \ {t}
      OBVIOUS
    <3>3. t \in InPop \cup {t}
      OBVIOUS
    <3>4. /\ Cardinality((InPop \cup {t}) \ {t}) = Cardinality(InPop \cup {t}) - 1
          /\ Cardinality(InPop \cup {t}) \in Nat \ {0}
      BY <3>1, <3>3, SizeRemove
    <3>5. n \in Nat \ {0} /\ Cardinality(InPop \ {t}) = n - 1
      BY <3>2, <3>4
    <3> QED BY ONLY <3>5
  <2>4. TypeOK'
    BY <2>1, <2>2, <2>3 DEF TypeOK
  <2>5. CountsOK'
    BY <1>0, <2>1, <2>2, <2>3 DEF CountsOK
  <2> QED BY <2>4, <2>5
<1> QED BY <1>1, <1>2

\* Every step keeps the types and the counters right.
LEMMA NextBasics == Basics /\ [Next]_vars => Basics'
<1> SUFFICES ASSUME Basics, [Next]_vars PROVE Basics'
  OBVIOUS
<1> USE DEF Basics
<1>0. /\ nPush \in Nat /\ nPop \in Nat
      /\ nPush = Cardinality(InPush) /\ nPop = Cardinality(InPop)
      /\ wait_push \subseteq InPush /\ wait_pop \subseteq InPop
      /\ Threads = Pushers \cup Poppers \cup TimedPoppers \cup Drainers
  BY DEF TypeOK, CountsOK, Threads
<1>1. ASSUME NEW t \in Pushers, NEW e \in Element, Push(t, e)
      PROVE  Basics'
  <2>1. t \in Threads /\ t \notin InPush
    BY <1>0, <1>1 DEF Push, InPush
  <2>2. nPush + 1 = Cardinality(InPush \cup {t})
    BY <1>0, <2>1, InsideIsFinite, SizeAdd
  <2> QED BY <1>0, <1>1, <2>1, <2>2, PushBasics DEF Push
<1>2. ASSUME NEW t \in Pushers, PushResume(t)
      PROVE  Basics'
  <2>1. t \in Threads /\ t \in InPush /\ elem[t] \in Element
    BY <1>0, <1>2 DEF PushResume, InPush, TypeOK
  <2>2. InPush \cup {t} = InPush
    BY <2>1
  <2> QED BY <1>0, <1>2, <2>1, <2>2, PushBasics DEF PushResume
<1>3. ASSUME NEW t \in Pushers, NEW e \in Element, TryPush(t, e)
      PROVE  Basics'
  <2>1. t \in Threads /\ t \notin InPush /\ t \notin InPop
    BY <1>0, <1>3 DEF TryPush, InPush, InPop
  <2>2. \E what \in Codes : Return(t, what)
    BY <1>3 DEF TryPush, Codes, AsBool
  <2>3. /\ call' \in [Threads -> Calls]
        /\ InPush' = InPush /\ InPop' = InPop
        /\ elem' \in [Threads -> Element \cup {"none"}]
        /\ \A u \in Threads : call'[u] = "push" => elem'[u] \in Element
        /\ result' \in [Threads -> Codes \cup Element]
    BY <2>1, <2>2, ReturnChanges
  <2>4. wait_pop' \subseteq wait_pop /\ queue' \in Seq(Element)
    <3>1. CASE UNCHANGED <<queue, wait_pop>>
      BY <3>1 DEF TypeOK
    <3>2. CASE queue' = Append(queue, e) /\ SignalPoppersIf(nPop > 0)
      <4>1. wait_pop' \subseteq wait_pop
        BY <3>2, SignalShrinks DEF SignalPoppersIf
      <4> QED BY <3>2, <4>1 DEF TypeOK
    <3> QED BY <1>3, <3>1, <3>2 DEF TryPush
  <2>5. UNCHANGED <<capacity, enable_push, enable_pop, nPush, nPop, wait_push>>
    BY <1>3 DEF TryPush
  <2>6. TypeOK'
    BY <2>3, <2>4, <2>5 DEF TypeOK
  <2>7. CountsOK'
    BY <2>3, <2>4, <2>5 DEF CountsOK
  <2> QED BY <2>6, <2>7
<1>4. ASSUME NEW t \in Poppers, Pop(t)
      PROVE  Basics'
  <2>1. t \in Threads /\ t \notin InPop
    BY <1>0, <1>4 DEF Pop, InPop
  <2>2. nPop + 1 = Cardinality(InPop \cup {t})
    BY <1>0, <2>1, InsideIsFinite, SizeAdd
  <2>3. "none" \in Codes
    BY DEF Codes
  <2> QED BY <1>0, <1>4, <2>1, <2>2, <2>3, PopBasics DEF Pop, PopLocked
<1>5. ASSUME NEW t \in Poppers, PopResume(t)
      PROVE  Basics'
  <2>1. t \in Threads /\ t \in InPop
    BY <1>0, <1>5 DEF PopResume, InPop
  <2>2. InPop \cup {t} = InPop
    BY <2>1
  <2>3. "none" \in Codes
    BY DEF Codes
  <2> QED BY <1>0, <1>5, <2>1, <2>2, <2>3, PopBasics DEF PopResume, PopLocked
<1>6. ASSUME NEW t \in TimedPoppers, TimedPop(t)
      PROVE  Basics'
  <2>1. t \in Threads /\ t \notin InPop
    BY <1>0, <1>6 DEF TimedPop, InPop
  <2>2. nPop + 1 = Cardinality(InPop \cup {t})
    BY <1>0, <2>1, InsideIsFinite, SizeAdd
  <2>3. "pop_timeout" \in Codes
    BY DEF Codes
  <2>4. \/ WaitToPop(t, "timed_pop", nPop + 1)
        \/ \E timeout \in Codes : /\ TakeLocked(t, timeout, (nPop + 1) - 1)
                                 /\ wait_pop' \subseteq wait_pop
    BY <1>6, <2>3 DEF TimedPop, TimedPopLocked
  <2>5. /\ UNCHANGED <<capacity, enable_push, nPush>>
        /\ call[t] = "none" /\ t \notin wait_pop
    BY <1>0, <1>6, <2>1 DEF TimedPop
  <2>6. nPop + 1 \in Nat
    BY <1>0
  <2> QED BY <2>1, <2>2, <2>4, <2>5, <2>6, PopBasics
<1>7. ASSUME NEW t \in TimedPoppers, TimedPopResume(t)
      PROVE  Basics'
  <2>1. t \in Threads /\ t \in InPop
    BY <1>0, <1>7 DEF TimedPopResume, InPop
  <2>2. InPop \cup {t} = InPop
    BY <2>1
  <2>3. "pop_timeout" \in Codes
    BY DEF Codes
  <2> QED BY <1>0, <1>7, <2>1, <2>2, <2>3, PopBasics
          DEF TimedPopResume, TimedPopLocked
<1>8. ASSUME NEW t \in TimedPoppers, TimeOut(t)
      PROVE  Basics'
  <2>1. t \in Threads /\ t \in InPop /\ t \notin InPush
    BY <1>0, <1>8 DEF TimeOut, InPop, InPush
  <2>2. /\ call \in [Threads -> Calls] /\ call' = [call EXCEPT ![t] = "timed_out"]
        /\ "timed_out" \in Calls
    BY <1>8 DEF TimeOut, TypeOK, Calls
  <2>3. /\ call' \in [Threads -> Calls]
        /\ InPush' = InPush \ {t}
        /\ InPop' = InPop \cup {t}
    BY <2>1, <2>2, CallChanges
  <2>4. InPush' = InPush /\ InPop' = InPop
    BY <2>1, <2>3
  <2> QED BY <1>8, <2>2, <2>3, <2>4 DEF TimeOut, TypeOK, CountsOK
<1>9. ASSUME NEW t \in Drainers, TryPop(t)
      PROVE  Basics'
  <2>1. t \in Threads /\ t \notin InPush /\ t \notin InPop
    BY <1>0, <1>9 DEF TryPop, InPush, InPop
  <2>2. "pop_timeout" \in Codes
    BY DEF Codes
  <2>3. /\ queue' \in Seq(Element)
        /\ enable_pop' \in BOOLEAN
        /\ nPop' = nPop
        /\ wait_push' \subseteq wait_push
        /\ \E what \in Codes \cup Element : Return(t, what)
    BY <1>9, <2>1, <2>2, TakeChanges DEF TryPop
  <2>4. /\ call' \in [Threads -> Calls]
        /\ InPush' = InPush /\ InPop' = InPop
        /\ elem' \in [Threads -> Element \cup {"none"}]
        /\ \A u \in Threads : call'[u] = "push" => elem'[u] \in Element
        /\ result' \in [Threads -> Codes \cup Element]
    BY <2>1, <2>3, ReturnChanges
  <2> QED BY <1>9, <2>3, <2>4 DEF TryPop, TypeOK, CountsOK
<1>10. ASSUME Clear \/ Control \/ \E t \in Threads : SpuriousWakeup(t)
       PROVE  Basics'
  <2> DEFINE Fine == /\ queue' \in Seq(Element)
                     /\ capacity' \in Nat
                     /\ enable_push' \in BOOLEAN
                     /\ enable_pop' \in BOOLEAN
                     /\ wait_push' \subseteq wait_push
                     /\ wait_pop' \subseteq wait_pop
                     /\ UNCHANGED <<nPush, nPop, call, elem, result>>
  <2>1. Fine
    <3>0. /\ <<>> \in Seq(Element)
          /\ queue \in Seq(Element)
          /\ capacity \in Nat
          /\ enable_push \in BOOLEAN
          /\ enable_pop \in BOOLEAN
      BY DEF TypeOK
    <3>1. CASE Clear
      BY <3>0, <3>1 DEF Clear
    <3>2. CASE \E t \in Threads : SpuriousWakeup(t)
      BY <3>0, <3>2 DEF SpuriousWakeup
    <3>3. CASE Disable \/ DelayedDisable \/ DisablePop \/ EnablePopOnly
      BY <3>0, <3>3 DEF Disable, DelayedDisable, DisablePop, EnablePopOnly
    <3>4. ASSUME NEW cap \in Capacities \cup {0},
                 ResizeEnable(cap) \/ ResizeEnablePush(cap)
          PROVE  Fine
      <4>1. cap \in Nat
        BY BQueueAssumption
      <4> QED BY <3>0, <3>4, <4>1 DEF ResizeEnable, ResizeEnablePush
    <3> HIDE DEF Fine
    <3> QED BY <1>10, <3>1, <3>2, <3>3, <3>4 DEF Control
  <2>2. InPush' = InPush /\ InPop' = InPop
    BY <2>1 DEF InPush, InPop
  <2> QED BY <2>1, <2>2 DEF TypeOK, CountsOK
<1>11. ASSUME UNCHANGED vars PROVE Basics'
  BY <1>11 DEF vars, TypeOK, CountsOK, InPush, InPop
<1> QED
  BY <1>1, <1>2, <1>3, <1>4, <1>5, <1>6, <1>7, <1>8, <1>9, <1>10, <1>11 DEF Next

\* The types, for any number of threads: in particular the unsigned counters
\* nPush and nPop never run below zero, and a push() that waits still has its
\* element (bqueue.h, every member function).
THEOREM TypeCorrect == SafeSpec => []TypeOK
<1>1. Init => Basics
  BY InitBasics
<1>2. Basics /\ [Next]_vars => Basics'
  BY NextBasics
<1>3. Basics => TypeOK
  BY DEF Basics
<1> QED BY <1>1, <1>2, <1>3, PTL DEF SafeSpec

\* nPush and nPop are the numbers of threads inside push() and the pop
\* functions at all times, whichever way those calls end (bqueue.h).
THEOREM Counting == SafeSpec => []CountsOK
<1>1. Init => Basics
  BY InitBasics
<1>2. Basics /\ [Next]_vars => Basics'
  BY NextBasics
<1>3. Basics => CountsOK
  BY DEF Basics
<1> QED BY <1>1, <1>2, <1>3, PTL DEF SafeSpec

-----------------------------------------------------------------------------
(* No wake-up of a pusher is lost.                                         *)

LEMMA InsideStaysFinite ==
  /\ IsFiniteSet(WokenPushers')
  /\ IsFiniteSet(WokenPoppers')
<1>1. WokenPushers' \in SUBSET Threads /\ WokenPoppers' \in SUBSET Threads
  BY DEF WokenPushers, WokenPoppers, InPush, InPop
<1> QED BY <1>1, FS_Subset, BQueueAssumption

\* A step that leaves the room in the queue as it is, or makes it smaller,
\* and puts no pusher to sleep.
LEMMA PushersKept ==
  ASSUME PushersAreWoken, InPush' = InPush, wait_push' \subseteq wait_push,
         enable_push' = enable_push, capacity' = capacity,
         queue \in Seq(Element), queue' \in Seq(Element), capacity \in Nat,
         Len(queue') >= Len(queue)
  PROVE  PushersAreWoken'
<1> SUFFICES ASSUME wait_push' # {}
             PROVE  enable_push' /\ Len(queue') + Cardinality(WokenPushers') >= capacity'
  BY DEF PushersAreWoken
<1>1. WokenPushers \in SUBSET WokenPushers'
  BY DEF WokenPushers
<1>2. Cardinality(WokenPushers) <= Cardinality(WokenPushers')
  BY <1>1, InsideStaysFinite, FS_Subset
<1>3. Cardinality(WokenPushers) \in Nat /\ Cardinality(WokenPushers') \in Nat
  BY InsideIsFinite, InsideStaysFinite, FS_CardinalityType
<1>4. Len(queue) \in Nat /\ Len(queue') \in Nat
  OBVIOUS
<1>5. enable_push /\ Len(queue) + Cardinality(WokenPushers) >= capacity
  BY DEF PushersAreWoken
<1> QED BY <1>2, <1>3, <1>4, <1>5

\* push(): one more place is taken, by a pusher that was awake or was not
\* inside at all.
LEMMA PushersAfterPush ==
  ASSUME Basics, PushersAreWoken, NEW t \in Threads, NEW e \in Element,
         NEW n, PushLocked(t, e, n), UNCHANGED <<capacity, enable_push>>,
         t \notin wait_push
  PROVE  PushersAreWoken'
<1> SUFFICES ASSUME wait_push' # {}
             PROVE  enable_push' /\ Len(queue') + Cardinality(WokenPushers') >= capacity'
  BY DEF PushersAreWoken
<1>0. /\ queue \in Seq(Element) /\ Len(queue) \in Nat /\ capacity \in Nat
      /\ Cardinality(WokenPushers) \in Nat /\ Cardinality(WokenPushers') \in Nat
  BY InsideIsFinite, InsideStaysFinite, FS_CardinalityType DEF Basics, TypeOK
<1>1. CASE MustWaitToPush /\ WaitToPush(t, e, n)
  BY <1>0, <1>1 DEF MustWaitToPush, WaitToPush
<1>2. CASE ~MustWaitToPush /\ AddLocked(t, e, n - 1)
  <2>1. /\ wait_push' = wait_push
        /\ \E what \in Codes : Return(t, what)
    BY <1>2 DEF AddLocked, Codes, Told
  <2>2. enable_push /\ Len(queue) + Cardinality(WokenPushers) >= capacity
    BY <2>1 DEF PushersAreWoken
  <2>3. queue' = Append(queue, e)
    BY <1>2, <2>2 DEF AddLocked
  <2>4. Len(queue') = Len(queue) + 1
    BY <1>0, <2>3
  <2>5. InPush' = InPush \ {t}
    BY <2>1, ReturnChanges DEF Basics
  <2>6. WokenPushers' = WokenPushers \ {t}
    BY <2>1, <2>5 DEF WokenPushers
  <2>7. Cardinality(WokenPushers') >= Cardinality(WokenPushers) - 1
    <3>1. Cardinality(WokenPushers \ {t}) =
            IF t \in WokenPushers THEN Cardinality(WokenPushers) - 1
                                 ELSE Cardinality(WokenPushers)
      BY InsideIsFinite, FS_RemoveElement
    <3> QED BY <1>0, <2>6, <3>1
  <2> QED BY <1>0, <2>2, <2>4, <2>7
<1> QED BY <1>1, <1>2 DEF PushLocked

\* A pop function: if it makes room, it signals.
LEMMA PushersAfterTake ==
  ASSUME Basics, PushersAreWoken, NEW t \in Threads, NEW timeout \in Codes,
         NEW n, TakeLocked(t, timeout, n), UNCHANGED <<capacity, enable_push>>,
         t \notin InPush
  PROVE  PushersAreWoken'
<1>1. InPush' = InPush
  <2>1. \E what \in Codes \cup Element : Return(t, what)
    BY TakeChanges DEF Basics
  <2>2. InPush' = InPush \ {t}
    BY <2>1, ReturnChanges DEF Basics
  <2> QED BY <2>2
<1>2. queue \in Seq(Element) /\ queue' \in Seq(Element) /\ capacity \in Nat
  <2>1. queue' \in Seq(Element)
    BY TakeChanges DEF Basics
  <2> QED BY <2>1 DEF Basics, TypeOK
<1>3. CASE ~(enable_pop /\ queue # <<>>)
  <2>1. queue' = queue /\ wait_push' = wait_push
    BY <1>3 DEF TakeLocked, SignalPushersIf
  <2> QED BY <1>1, <1>2, <2>1, PushersKept
<1>4. CASE enable_pop /\ queue # <<>>
  <2> SUFFICES ASSUME wait_push' # {}
               PROVE  enable_push' /\ Len(queue') + Cardinality(WokenPushers') >= capacity'
    BY DEF PushersAreWoken
  <2>1. queue' = Tail(queue) /\ Len(queue') = Len(queue) - 1 /\ Len(queue) \in Nat
    BY <1>2, <1>4 DEF TakeLocked
  <2>2. wait_push' \subseteq wait_push
    BY TakeChanges DEF Basics
  <2>3. wait_push # {} /\ wait_push \subseteq InPush
    BY <2>2 DEF Basics, CountsOK
  <2>4. nPush > 0
    <3>1. Cardinality(InPush) \in Nat /\ Cardinality(InPush) # 0
      BY <2>3, InsideIsFinite, FS_CardinalityType, FS_EmptySet
    <3> QED BY <3>1 DEF Basics, CountsOK
  <2>5. PICK x \in wait_push : wait_push' = wait_push \ {x}
    BY <1>4, <2>3, <2>4 DEF TakeLocked, SignalPushersIf, Signal
  <2>6. WokenPushers' = WokenPushers \cup {x} /\ x \notin WokenPushers
    BY <1>1, <2>3, <2>5 DEF WokenPushers
  <2>7. Cardinality(WokenPushers') = Cardinality(WokenPushers) + 1
    BY <2>6, InsideIsFinite, SizeAdd
  <2>8. Cardinality(WokenPushers) \in Nat
    BY InsideIsFinite, FS_CardinalityType
  <2>9. enable_push /\ Len(queue) + Cardinality(WokenPushers) >= capacity
    BY <2>3 DEF PushersAreWoken
  <2> QED BY <1>2, <2>1, <2>7, <2>8, <2>9
<1> QED BY <1>3, <1>4

LEMMA NextPushers ==
  Basics /\ PushersAreWoken /\ [Next]_vars => PushersAreWoken'
<1> SUFFICES ASSUME Basics, PushersAreWoken, [Next]_vars PROVE PushersAreWoken'
  OBVIOUS
<1>0. /\ queue \in Seq(Element) /\ Len(queue) \in Nat /\ capacity \in Nat
      /\ wait_push \subseteq InPush
      /\ Pushers \subseteq Threads /\ Poppers \subseteq Threads
      /\ TimedPoppers \subseteq Threads /\ Drainers \subseteq Threads
  BY DEF Basics, TypeOK, CountsOK, Threads
<1>1. ASSUME NEW t \in Pushers, NEW e \in Element, Push(t, e)
      PROVE  PushersAreWoken'
  BY <1>0, <1>1, PushersAfterPush DEF Push, InPush
<1>2. ASSUME NEW t \in Pushers, PushResume(t)
      PROVE  PushersAreWoken'
  <2>1. elem[t] \in Element
    BY <1>0, <1>2 DEF PushResume, Basics, TypeOK
  <2> QED BY <1>0, <1>2, <2>1, PushersAfterPush DEF PushResume
<1>3. ASSUME NEW t \in Pushers, NEW e \in Element, TryPush(t, e)
      PROVE  PushersAreWoken'
  <2>1. /\ \E what \in Codes : Return(t, what)
        /\ UNCHANGED <<enable_push, capacity, wait_push>>
        /\ queue' = queue \/ queue' = Append(queue, e)
        /\ t \in Threads /\ t \notin InPush
    BY <1>0, <1>3 DEF TryPush, Codes, AsBool, InPush
  <2>2. InPush' = InPush \ {t}
    BY <2>1, ReturnChanges DEF Basics
  <2>3. InPush' = InPush
    BY <2>1, <2>2
  <2>4. queue' \in Seq(Element) /\ Len(queue') >= Len(queue)
    BY <1>0, <2>1
  <2> QED BY <1>0, <2>1, <2>3, <2>4, PushersKept
<1>4. ASSUME NEW t \in Threads, NEW kind \in {"pop", "timed_pop", "timed_out"},
             NEW n, \/ WaitToPop(t, kind, n)
                    \/ \E timeout \in Codes, m \in Nat \cup {n - 1, n} :
                         TakeLocked(t, timeout, m),
             t \notin InPush, UNCHANGED <<capacity, enable_push>>
      PROVE  PushersAreWoken'
  <2>1. CASE WaitToPop(t, kind, n)
    <3>1. /\ call \in [Threads -> Calls] /\ call' = [call EXCEPT ![t] = kind]
          /\ kind \in Calls
      BY <2>1 DEF WaitToPop, Basics, TypeOK, Calls
    <3>2. InPush' = InPush \ {t}
      BY <3>1, CallChanges
    <3>3. InPush' = InPush
      BY <1>4, <3>2
    <3>4. UNCHANGED <<queue, wait_push>> /\ Len(queue') >= Len(queue)
      BY <1>0, <2>1 DEF WaitToPop
    <3> QED BY <1>0, <1>4, <3>3, <3>4, PushersKept
  <2>2. CASE \E timeout \in Codes, m \in Nat \cup {n - 1, n} :
               TakeLocked(t, timeout, m)
    BY <1>4, <2>2, PushersAfterTake
  <2> QED BY <1>4, <2>1, <2>2
<1>5. ASSUME NEW t \in Poppers, Pop(t) \/ PopResume(t)
      PROVE  PushersAreWoken'
  <2>1. /\ t \in Threads /\ t \notin InPush
        /\ UNCHANGED <<capacity, enable_push>>
        /\ \E n \in {nPop, nPop + 1} : PopLocked(t, n)
    BY <1>0, <1>5 DEF Pop, PopResume, InPush
  <2>2. "none" \in Codes
    BY DEF Codes
  <2> QED BY <1>4, <2>1, <2>2 DEF PopLocked
<1>6. ASSUME NEW t \in TimedPoppers, TimedPop(t) \/ TimedPopResume(t)
      PROVE  PushersAreWoken'
  <2>1. /\ t \in Threads /\ t \notin InPush
        /\ UNCHANGED <<capacity, enable_push>>
        /\ \E n \in {nPop, nPop + 1}, expired \in BOOLEAN :
             TimedPopLocked(t, n, expired)
    BY <1>0, <1>6 DEF TimedPop, TimedPopResume, InPush
  <2>2. "pop_timeout" \in Codes
    BY DEF Codes
  <2> QED BY <1>4, <2>1, <2>2 DEF TimedPopLocked
<1>7. ASSUME NEW t \in Drainers, TryPop(t)
      PROVE  PushersAreWoken'
  <2>1. /\ t \in Threads /\ t \notin InPush
        /\ UNCHANGED <<capacity, enable_push>>
        /\ TakeLocked(t, "pop_timeout", nPop)
    BY <1>0, <1>7 DEF TryPop, InPush
  <2>2. "pop_timeout" \in Codes
    BY DEF Codes
  <2> QED BY <2>1, <2>2, PushersAfterTake
<1>8. ASSUME NEW t \in TimedPoppers, TimeOut(t)
      PROVE  PushersAreWoken'
  <2>1. /\ t \in Threads /\ t \notin InPush
        /\ call \in [Threads -> Calls] /\ call' = [call EXCEPT ![t] = "timed_out"]
        /\ "timed_out" \in Calls
    BY <1>0, <1>8 DEF TimeOut, Basics, TypeOK, Calls, InPush
  <2>2. InPush' = InPush \ {t}
    BY <2>1, CallChanges
  <2>3. InPush' = InPush
    BY <2>1, <2>2
  <2>4. UNCHANGED <<queue, capacity, enable_push, wait_push>> /\ Len(queue') >= Len(queue)
    BY <1>0, <1>8 DEF TimeOut
  <2> QED BY <1>0, <2>3, <2>4, PushersKept
<1>9. CASE Clear
  <2>1. UNCHANGED <<call, capacity, enable_push>> /\ queue' = <<>>
    BY <1>9 DEF Clear
  <2>2. InPush' = InPush
    BY <2>1 DEF InPush
  <2>3. CASE wait_push = {}
    BY <1>9, <2>3 DEF Clear, PushersAreWoken
  <2>4. CASE wait_push # {} /\ queue # <<>>
    <3>1. Cardinality(InPush) \in Nat /\ Cardinality(InPush) # 0
      BY <1>0, <2>4, InsideIsFinite, FS_CardinalityType, FS_EmptySet
    <3>2. nPush > 0
      BY <3>1 DEF Basics, CountsOK
    <3> QED BY <1>9, <2>4, <3>2 DEF Clear, PushersAreWoken
  <2>5. CASE queue = <<>>
    <3>1. queue' = queue /\ wait_push' = wait_push /\ Len(queue') >= Len(queue)
      BY <1>0, <1>9, <2>5 DEF Clear
    <3> QED BY <1>0, <2>1, <2>2, <3>1, PushersKept
  <2> QED BY <2>3, <2>4, <2>5
<1>10. CASE \/ DisablePop \/ EnablePopOnly \/ \E t \in Threads : SpuriousWakeup(t)
            \/ UNCHANGED vars
  <2>1. /\ UNCHANGED <<queue, call, capacity, enable_push>>
        /\ wait_push' \subseteq wait_push
    BY <1>10 DEF DisablePop, EnablePopOnly, SpuriousWakeup, vars
  <2>2. InPush' = InPush /\ Len(queue') >= Len(queue)
    BY <1>0, <2>1 DEF InPush
  <2> QED BY <1>0, <2>1, <2>2, PushersKept
<1>11. CASE \/ Disable \/ DelayedDisable
            \/ \E cap \in Capacities \cup {0} : ResizeEnable(cap) \/ ResizeEnablePush(cap)
  <2>1. wait_push' = {}
    BY <1>11 DEF Disable, DelayedDisable, ResizeEnable, ResizeEnablePush
  <2> QED BY <2>1 DEF PushersAreWoken
<1> QED
  BY <1>1, <1>2, <1>3, <1>5, <1>6, <1>7, <1>8, <1>9, <1>10, <1>11 DEF Next, Control

\* While a thread sleeps in push(), the queue is enabled, and for every free
\* place there is a pusher that was woken and has yet to run: one signal per
\* pop() is enough, for any number of pushers and poppers (bqueue.h, push()
\* and the pop functions, and the comment on the two condition variables).
THEOREM NoPusherIsLost == SafeSpec => []PushersAreWoken
<1>1. Init => Basics /\ PushersAreWoken
  BY InitBasics DEF Init, PushersAreWoken
<1>2. Basics /\ PushersAreWoken /\ [Next]_vars => (Basics /\ PushersAreWoken)'
  BY NextBasics, NextPushers
<1> QED BY <1>1, <1>2, PTL DEF SafeSpec

-----------------------------------------------------------------------------
(* No wake-up of a popper is lost, when all of them use pop(Element&).     *)

OnlyBlockingPops == TimedPoppers = {} /\ Drainers = {}

\* A step that leaves as many elements or fewer, and puts no popper to sleep.
LEMMA PoppersKept ==
  ASSUME PoppersAreWoken, InPop' = InPop, wait_pop' \subseteq wait_pop,
         enable_pop' = enable_pop,
         queue \in Seq(Element), queue' \in Seq(Element),
         Len(queue') <= Len(queue)
  PROVE  PoppersAreWoken'
<1> SUFFICES ASSUME wait_pop' # {}
             PROVE  enable_pop' /\ Len(queue') <= Cardinality(WokenPoppers')
  BY DEF PoppersAreWoken
<1>1. WokenPoppers \in SUBSET WokenPoppers'
  BY DEF WokenPoppers
<1>2. Cardinality(WokenPoppers) <= Cardinality(WokenPoppers')
  BY <1>1, InsideStaysFinite, FS_Subset
<1>3. Cardinality(WokenPoppers) \in Nat /\ Cardinality(WokenPoppers') \in Nat
  BY InsideIsFinite, InsideStaysFinite, FS_CardinalityType
<1>4. Len(queue) \in Nat /\ Len(queue') \in Nat
  OBVIOUS
<1>5. enable_pop /\ Len(queue) <= Cardinality(WokenPoppers)
  BY DEF PoppersAreWoken
<1> QED BY <1>2, <1>3, <1>4, <1>5

\* push() and try_push(): one element more, and one more popper woken.
LEMMA PoppersAfterAdd ==
  ASSUME Basics, PoppersAreWoken, NEW e \in Element, InPop' = InPop,
         queue' = Append(queue, e), SignalPoppersIf(nPop > 0), UNCHANGED enable_pop
  PROVE  PoppersAreWoken'
<1> SUFFICES ASSUME wait_pop' # {}
             PROVE  enable_pop' /\ Len(queue') <= Cardinality(WokenPoppers')
  BY DEF PoppersAreWoken
<1>1. wait_pop' \subseteq wait_pop
  BY SignalShrinks DEF SignalPoppersIf
<1>2. wait_pop # {} /\ wait_pop \subseteq InPop
  BY <1>1 DEF Basics, CountsOK
<1>3. nPop > 0
  <2>1. Cardinality(InPop) \in Nat /\ Cardinality(InPop) # 0
    BY <1>2, InsideIsFinite, FS_CardinalityType, FS_EmptySet
  <2> QED BY <2>1 DEF Basics, CountsOK
<1>4. PICK x \in wait_pop : wait_pop' = wait_pop \ {x}
  BY <1>2, <1>3 DEF SignalPoppersIf, Signal
<1>5. WokenPoppers' = WokenPoppers \cup {x} /\ x \notin WokenPoppers
  BY <1>2, <1>4 DEF WokenPoppers
<1>6. Cardinality(WokenPoppers') = Cardinality(WokenPoppers) + 1
  BY <1>5, InsideIsFinite, SizeAdd
<1>7. Cardinality(WokenPoppers) \in Nat
  BY InsideIsFinite, FS_CardinalityType
<1>8. queue \in Seq(Element)
  BY DEF Basics, TypeOK
<1>9. Len(queue') = Len(queue) + 1 /\ Len(queue) \in Nat
  BY <1>8
<1>10. enable_pop /\ Len(queue) <= Cardinality(WokenPoppers)
  BY <1>2 DEF PoppersAreWoken
<1> QED BY <1>6, <1>7, <1>9, <1>10

LEMMA PoppersAfterPush ==
  ASSUME Basics, PoppersAreWoken, NEW t \in Threads, NEW e \in Element,
         NEW n, PushLocked(t, e, n), UNCHANGED enable_pop, t \notin InPop
  PROVE  PoppersAreWoken'
<1>0. queue \in Seq(Element) /\ Len(queue) \in Nat
  BY DEF Basics, TypeOK
<1>1. CASE MustWaitToPush /\ WaitToPush(t, e, n)
  <2>1. /\ call \in [Threads -> Calls] /\ call' = [call EXCEPT ![t] = "push"]
        /\ "push" \in Calls
    BY <1>1 DEF WaitToPush, Basics, TypeOK, Calls
  <2>2. InPop' = InPop \ {t}
    BY <2>1, CallChanges
  <2>3. InPop' = InPop
    BY <2>2
  <2>4. UNCHANGED <<queue, wait_pop>> /\ Len(queue') <= Len(queue)
    BY <1>0, <1>1 DEF WaitToPush
  <2> QED BY <1>0, <2>3, <2>4, PoppersKept
<1>2. CASE ~MustWaitToPush /\ AddLocked(t, e, n - 1)
  <2>1. \E what \in Codes : Return(t, what)
    BY <1>2 DEF AddLocked, Codes, Told
  <2>2. InPop' = InPop \ {t}
    BY <2>1, ReturnChanges DEF Basics
  <2>3. InPop' = InPop
    BY <2>2
  <2>4. CASE enable_push
    <3>1. queue' = Append(queue, e) /\ SignalPoppersIf(nPop > 0)
      BY <1>2, <2>4 DEF AddLocked
    <3> QED BY <2>3, <3>1, PoppersAfterAdd
  <2>5. CASE ~enable_push
    <3>1. queue' = queue /\ wait_pop' = wait_pop /\ Len(queue') <= Len(queue)
      BY <1>0, <1>2, <2>5 DEF AddLocked, SignalPoppersIf
    <3> QED BY <1>0, <2>3, <3>1, PoppersKept
  <2> QED BY <2>4, <2>5
<1> QED BY <1>1, <1>2 DEF PushLocked

\* pop(Element&): if others still sleep when it is done, they were not alone
\* (nPop counts them), so that popping was not switched off; and then the
\* thread that leaves took an element with it.
LEMMA PoppersAfterPop ==
  ASSUME Basics, PoppersAreWoken, NEW t \in Threads, NEW n \in Nat,
         PopLocked(t, n), t \notin wait_pop, n = Cardinality(InPop \cup {t})
  PROVE  PoppersAreWoken'
<1> SUFFICES ASSUME wait_pop' # {}
             PROVE  enable_pop' /\ Len(queue') <= Cardinality(WokenPoppers')
  BY DEF PoppersAreWoken
<1>0. /\ queue \in Seq(Element) /\ Len(queue) \in Nat
      /\ Cardinality(WokenPoppers) \in Nat /\ Cardinality(WokenPoppers') \in Nat
  BY InsideIsFinite, InsideStaysFinite, FS_CardinalityType DEF Basics, TypeOK
<1>1. CASE MustWaitToPop /\ WaitToPop(t, "pop", n)
  BY <1>0, <1>1 DEF MustWaitToPop, WaitToPop
<1>2. CASE /\ ~MustWaitToPop
           /\ TakeLocked(t, "none", n - 1)
           /\ wait_pop' = IF n > 1 /\ ~enable_pop' THEN {} ELSE wait_pop
  <2>1. wait_pop' = wait_pop /\ ~(n > 1 /\ ~enable_pop')
    BY <1>2
  <2>2. PICK x \in wait_pop : TRUE
    BY <2>1
  <2>3. x \in InPop /\ x # t
    BY DEF Basics, CountsOK
  <2>4. n > 1
    <3>1. IsFiniteSet(InPop \cup {t})
      BY InsideIsFinite, FS_AddElement
    <3>2. {t, x} \in SUBSET (InPop \cup {t})
      BY <2>3
    <3>3. Cardinality({t, x}) <= Cardinality(InPop \cup {t})
      BY <3>1, <3>2, FS_Subset
    <3>4. IsFiniteSet({t}) /\ Cardinality({t}) = 1
      BY FS_Singleton
    <3>5. Cardinality({t} \cup {x}) = 2
      BY <2>3, <3>4, SizeAdd
    <3>6. {t, x} = {t} \cup {x}
      OBVIOUS
    <3> QED BY <3>3, <3>5, <3>6
  <2>5. enable_pop'
    <3>1. enable_pop' \in BOOLEAN
      <4>1. "none" \in Codes
        BY DEF Codes
      <4> QED BY <1>2, <4>1, TakeChanges DEF Basics
    <3> QED BY <2>1, <2>4, <3>1
  <2>6. enable_pop /\ queue # <<>>
    BY <1>2, <2>5 DEF TakeLocked, MustWaitToPop
  <2>7. queue' = Tail(queue) /\ Len(queue') = Len(queue) - 1
    BY <1>0, <1>2, <2>6 DEF TakeLocked
  <2>8. InPop' = InPop \ {t}
    <3>1. "none" \in Codes
      BY DEF Codes
    <3>2. \E what \in Codes \cup Element : Return(t, what)
      BY <1>2, <3>1, TakeChanges DEF Basics
    <3> QED BY <3>2, ReturnChanges DEF Basics
  <2>9. WokenPoppers' = WokenPoppers \ {t}
    BY <2>1, <2>8 DEF WokenPoppers
  <2>10. Cardinality(WokenPoppers') >= Cardinality(WokenPoppers) - 1
    <3>1. Cardinality(WokenPoppers \ {t}) =
            IF t \in WokenPoppers THEN Cardinality(WokenPoppers) - 1
                                 ELSE Cardinality(WokenPoppers)
      BY InsideIsFinite, FS_RemoveElement
    <3> QED BY <1>0, <2>9, <3>1
  <2>11. Len(queue) <= Cardinality(WokenPoppers)
    BY <2>1 DEF PoppersAreWoken
  <2> QED BY <1>0, <2>5, <2>7, <2>10, <2>11
<1> QED BY <1>1, <1>2 DEF PopLocked

LEMMA NextPoppers ==
  ASSUME OnlyBlockingPops
  PROVE  Basics /\ PoppersAreWoken /\ [Next]_vars => PoppersAreWoken'
<1> SUFFICES ASSUME Basics, PoppersAreWoken, [Next]_vars PROVE PoppersAreWoken'
  OBVIOUS
<1>0. /\ queue \in Seq(Element) /\ Len(queue) \in Nat
      /\ wait_pop \subseteq InPop
      /\ nPop \in Nat /\ nPop = Cardinality(InPop)
      /\ Pushers \subseteq Threads /\ Poppers \subseteq Threads
  BY DEF Basics, TypeOK, CountsOK, Threads
<1>1. ASSUME NEW t \in Pushers, NEW e \in Element, Push(t, e)
      PROVE  PoppersAreWoken'
  BY <1>0, <1>1, PoppersAfterPush DEF Push, InPop
<1>2. ASSUME NEW t \in Pushers, PushResume(t)
      PROVE  PoppersAreWoken'
  <2>1. elem[t] \in Element /\ t \notin InPop
    BY <1>0, <1>2 DEF PushResume, Basics, TypeOK, InPop
  <2> QED BY <1>0, <1>2, <2>1, PoppersAfterPush DEF PushResume
<1>3. ASSUME NEW t \in Pushers, NEW e \in Element, TryPush(t, e)
      PROVE  PoppersAreWoken'
  <2>1. /\ \E what \in Codes : Return(t, what)
        /\ UNCHANGED enable_pop
        /\ t \in Threads /\ t \notin InPop
        /\ \/ queue' = Append(queue, e) /\ SignalPoppersIf(nPop > 0)
           \/ UNCHANGED <<queue, wait_pop>>
    BY <1>0, <1>3 DEF TryPush, Codes, AsBool, InPop
  <2>2. InPop' = InPop \ {t}
    BY <2>1, ReturnChanges DEF Basics
  <2>3. InPop' = InPop
    BY <2>1, <2>2
  <2>4. CASE UNCHANGED <<queue, wait_pop>>
    <3>1. Len(queue') <= Len(queue)
      BY <1>0, <2>4
    <3> QED BY <1>0, <2>1, <2>3, <2>4, <3>1, PoppersKept
  <2> QED BY <2>1, <2>3, <2>4, PoppersAfterAdd
<1>4. ASSUME NEW t \in Poppers, Pop(t)
      PROVE  PoppersAreWoken'
  <2>1. t \in Threads /\ t \notin InPop /\ t \notin wait_pop
    BY <1>0, <1>4 DEF Pop, InPop
  <2>2. nPop + 1 = Cardinality(InPop \cup {t}) /\ nPop + 1 \in Nat
    BY <1>0, <2>1, InsideIsFinite, SizeAdd
  <2> QED BY <1>4, <2>1, <2>2, PoppersAfterPop DEF Pop
<1>5. ASSUME NEW t \in Poppers, PopResume(t)
      PROVE  PoppersAreWoken'
  <2>1. t \in Threads /\ t \in InPop /\ t \notin wait_pop
    BY <1>0, <1>5 DEF PopResume, InPop
  <2>2. InPop \cup {t} = InPop
    BY <2>1
  <2> QED BY <1>0, <1>5, <2>1, <2>2, PoppersAfterPop DEF PopResume
<1>6. CASE \/ Disable \/ DisablePop \/ EnablePopOnly
           \/ \E cap \in Capacities \cup {0} : ResizeEnable(cap)
  <2>1. wait_pop' = {}
    BY <1>6 DEF Disable, DisablePop, EnablePopOnly, ResizeEnable
  <2> QED BY <2>1 DEF PoppersAreWoken
<1>7. CASE \/ DelayedDisable \/ \E t \in Threads : SpuriousWakeup(t)
           \/ UNCHANGED vars
           \/ \E cap \in Capacities \cup {0} : ResizeEnablePush(cap)
  <2>1. CASE wait_pop' = {}
    BY <2>1 DEF PoppersAreWoken
  <2>2. CASE wait_pop' # {}
    <3>1. /\ UNCHANGED call
          /\ queue' = queue \/ queue' = <<>>
          /\ wait_pop' \subseteq wait_pop
          /\ enable_pop' = enable_pop
      <4>1. CASE DelayedDisable
        <5>1. enable_pop' = (enable_pop /\ queue # <<>>) /\ enable_pop'
          BY <2>2, <4>1 DEF DelayedDisable
        <5>2. enable_pop \in BOOLEAN
          BY DEF Basics, TypeOK
        <5> QED BY <4>1, <5>1, <5>2 DEF DelayedDisable
      <4>2. CASE \E t \in Threads : SpuriousWakeup(t)
        BY <4>2 DEF SpuriousWakeup
      <4>3. CASE \E cap \in Capacities \cup {0} : ResizeEnablePush(cap)
        BY <4>3 DEF ResizeEnablePush
      <4>4. CASE UNCHANGED vars
        BY <4>4 DEF vars
      <4> QED BY <1>7, <4>1, <4>2, <4>3, <4>4
    <3>2. /\ InPop' = InPop
          /\ queue' \in Seq(Element)
          /\ Len(queue') <= Len(queue)
      <4>1. InPop' = InPop
        BY <3>1 DEF InPop
      <4>2. CASE queue' = queue
        BY <1>0, <4>1, <4>2
      <4>3. CASE queue' = <<>>
        <5>1. queue' \in Seq(Element)
          BY <4>3
        <5>2. Len(queue') = 0
          BY <4>3
        <5> QED BY <1>0, <4>1, <5>1, <5>2
      <4> QED BY <3>1, <4>2, <4>3
    <3> QED BY <1>0, <3>1, <3>2, PoppersKept
  <2> QED BY <2>1, <2>2
<1> QED
  BY <1>1, <1>2, <1>3, <1>4, <1>5, <1>6, <1>7
     DEF Next, Control, OnlyBlockingPops

\* While a thread sleeps in pop(Element&), popping is enabled, and for every
\* element there is a popper that was woken and has yet to run; in particular
\* nobody sleeps through the end of a delayed disable, that some other pop()
\* completed.  It takes that nobody uses the other pop functions on the queue
\* (bqueue.h, pop(Element&), push(), delayed_disable()).
THEOREM NoPopperIsLost ==
  ASSUME OnlyBlockingPops
  PROVE  SafeSpec => []PoppersAreWoken
<1>1. Init => Basics /\ PoppersAreWoken
  BY InitBasics DEF Init, PoppersAreWoken
<1>2. Basics /\ PoppersAreWoken /\ [Next]_vars => (Basics /\ PoppersAreWoken)'
  BY NextBasics, NextPoppers
<1> QED BY <1>1, <1>2, PTL DEF SafeSpec

-----------------------------------------------------------------------------
(* No wake-up of a popper is lost while popping stays enabled, whichever   *)
(* pop functions are in use.                                               *)

\* A queue that is empty afterwards has nobody to wake.
LEMMA TimedWhenEmpty ==
  ASSUME queue' = <<>>
  PROVE  TimedPoppersAreWoken'
<1>1. Len(queue') = 0
  OBVIOUS
<1>2. Cardinality(WokenPoppers') \in Nat
  BY InsideStaysFinite, FS_CardinalityType
<1> QED BY <1>1, <1>2 DEF TimedPoppersAreWoken

\* A step that leaves as many elements or fewer, puts no popper to sleep and
\* does not switch popping on.
LEMMA TimedKept ==
  ASSUME TimedPoppersAreWoken, InPop' = InPop, wait_pop' \subseteq wait_pop,
         enable_pop' => enable_pop,
         queue \in Seq(Element), queue' \in Seq(Element),
         Len(queue') <= Len(queue)
  PROVE  TimedPoppersAreWoken'
<1> SUFFICES ASSUME enable_pop', wait_pop' # {}
             PROVE  Len(queue') <= Cardinality(WokenPoppers')
  BY DEF TimedPoppersAreWoken
<1>1. WokenPoppers \in SUBSET WokenPoppers'
  BY DEF WokenPoppers
<1>2. Cardinality(WokenPoppers) <= Cardinality(WokenPoppers')
  BY <1>1, InsideStaysFinite, FS_Subset
<1>3. Cardinality(WokenPoppers) \in Nat /\ Cardinality(WokenPoppers') \in Nat
  BY InsideIsFinite, InsideStaysFinite, FS_CardinalityType
<1>4. Len(queue) \in Nat /\ Len(queue') \in Nat
  OBVIOUS
<1>5. Len(queue) <= Cardinality(WokenPoppers)
  BY DEF TimedPoppersAreWoken
<1> QED BY <1>2, <1>3, <1>4, <1>5

\* push() and try_push(): one element more, and one more popper woken.
LEMMA TimedAfterAdd ==
  ASSUME Basics, TimedPoppersAreWoken, NEW e \in Element, InPop' = InPop,
         queue' = Append(queue, e), SignalPoppersIf(nPop > 0),
         UNCHANGED enable_pop
  PROVE  TimedPoppersAreWoken'
<1> SUFFICES ASSUME enable_pop', wait_pop' # {}
             PROVE  Len(queue') <= Cardinality(WokenPoppers')
  BY DEF TimedPoppersAreWoken
<1>1. wait_pop' \subseteq wait_pop
  BY SignalShrinks DEF SignalPoppersIf
<1>2. wait_pop # {} /\ wait_pop \subseteq InPop
  BY <1>1 DEF Basics, CountsOK
<1>3. nPop > 0
  <2>1. Cardinality(InPop) \in Nat /\ Cardinality(InPop) # 0
    BY <1>2, InsideIsFinite, FS_CardinalityType, FS_EmptySet
  <2> QED BY <2>1 DEF Basics, CountsOK
<1>4. PICK x \in wait_pop : wait_pop' = wait_pop \ {x}
  BY <1>2, <1>3 DEF SignalPoppersIf, Signal
<1>5. WokenPoppers' = WokenPoppers \cup {x} /\ x \notin WokenPoppers
  BY <1>2, <1>4 DEF WokenPoppers
<1>6. Cardinality(WokenPoppers') = Cardinality(WokenPoppers) + 1
  BY <1>5, InsideIsFinite, SizeAdd
<1>7. Cardinality(WokenPoppers) \in Nat
  BY InsideIsFinite, FS_CardinalityType
<1>8. queue \in Seq(Element)
  BY DEF Basics, TypeOK
<1>9. Len(queue') = Len(queue) + 1 /\ Len(queue) \in Nat
  BY <1>8
<1>10. Len(queue) <= Cardinality(WokenPoppers)
  BY <1>2 DEF TimedPoppersAreWoken
<1> QED BY <1>6, <1>7, <1>9, <1>10

LEMMA TimedAfterPush ==
  ASSUME Basics, TimedPoppersAreWoken, NEW t \in Threads, NEW e \in Element,
         NEW n, PushLocked(t, e, n), UNCHANGED enable_pop, t \notin InPop
  PROVE  TimedPoppersAreWoken'
<1>0. queue \in Seq(Element) /\ Len(queue) \in Nat
  BY DEF Basics, TypeOK
<1>1. CASE MustWaitToPush /\ WaitToPush(t, e, n)
  <2>1. /\ call \in [Threads -> Calls] /\ call' = [call EXCEPT ![t] = "push"]
        /\ "push" \in Calls
    BY <1>1 DEF WaitToPush, Basics, TypeOK, Calls
  <2>2. InPop' = InPop \ {t}
    BY <2>1, CallChanges
  <2>3. InPop' = InPop
    BY <2>2
  <2>4. UNCHANGED <<queue, wait_pop>> /\ Len(queue') <= Len(queue)
    BY <1>0, <1>1 DEF WaitToPush
  <2> QED BY <1>0, <2>3, <2>4, TimedKept
<1>2. CASE ~MustWaitToPush /\ AddLocked(t, e, n - 1)
  <2>1. \E what \in Codes : Return(t, what)
    BY <1>2 DEF AddLocked, Codes, Told
  <2>2. InPop' = InPop \ {t}
    BY <2>1, ReturnChanges DEF Basics
  <2>3. InPop' = InPop
    BY <2>2
  <2>4. CASE enable_push
    <3>1. queue' = Append(queue, e) /\ SignalPoppersIf(nPop > 0)
      BY <1>2, <2>4 DEF AddLocked
    <3> QED BY <2>3, <3>1, TimedAfterAdd
  <2>5. CASE ~enable_push
    <3>1. queue' = queue /\ wait_pop' = wait_pop /\ Len(queue') <= Len(queue)
      BY <1>0, <1>2, <2>5 DEF AddLocked, SignalPoppersIf
    <3> QED BY <1>0, <2>3, <3>1, TimedKept
  <2> QED BY <2>4, <2>5
<1> QED BY <1>1, <1>2 DEF PushLocked

\* A pop function that does not wait: if popping is enabled afterwards it was
\* enabled before, and the caller, who may be the popper that was woken for an
\* element, takes an element along if there is one.
LEMMA TimedAfterTake ==
  ASSUME Basics, TimedPoppersAreWoken, NEW t \in Threads,
         NEW timeout \in Codes, NEW n, TakeLocked(t, timeout, n),
         wait_pop' \subseteq wait_pop
  PROVE  TimedPoppersAreWoken'
<1> SUFFICES ASSUME enable_pop', wait_pop' # {}
             PROVE  Len(queue') <= Cardinality(WokenPoppers')
  BY DEF TimedPoppersAreWoken
<1>0. /\ queue \in Seq(Element) /\ Len(queue) \in Nat
      /\ Cardinality(WokenPoppers) \in Nat /\ Cardinality(WokenPoppers') \in Nat
  BY InsideIsFinite, InsideStaysFinite, FS_CardinalityType DEF Basics, TypeOK
<1>1. enable_pop
  BY DEF TakeLocked
<1>2. Len(queue) <= Cardinality(WokenPoppers)
  BY <1>1 DEF TimedPoppersAreWoken
<1>3. CASE queue = <<>>
  <2>1. queue' = <<>>
    BY <1>3 DEF TakeLocked
  <2>2. Len(queue') = 0
    BY <2>1
  <2> QED BY <1>0, <2>2
<1>4. CASE queue # <<>>
  <2>1. queue' = Tail(queue)
    BY <1>1, <1>4 DEF TakeLocked
  <2>2. Len(queue') = Len(queue) - 1
    BY <1>0, <1>4, <2>1
  <2>3. InPop' = InPop \ {t}
    <3>1. \E what \in Codes \cup Element : Return(t, what)
      BY TakeChanges DEF Basics
    <3> QED BY <3>1, ReturnChanges DEF Basics
  <2>4. WokenPoppers \ {t} \in SUBSET WokenPoppers'
    BY <2>3 DEF WokenPoppers
  <2>5. Cardinality(WokenPoppers \ {t}) <= Cardinality(WokenPoppers')
    BY <2>4, InsideStaysFinite, FS_Subset
  <2>6. Cardinality(WokenPoppers \ {t}) =
          IF t \in WokenPoppers THEN Cardinality(WokenPoppers) - 1
                                ELSE Cardinality(WokenPoppers)
    BY InsideIsFinite, FS_RemoveElement
  <2> QED BY <1>0, <1>2, <2>2, <2>5, <2>6
<1> QED BY <1>3, <1>4

LEMMA TimedAfterPop ==
  ASSUME Basics, TimedPoppersAreWoken, NEW t \in Threads, NEW n, PopLocked(t, n)
  PROVE  TimedPoppersAreWoken'
<1>1. CASE MustWaitToPop /\ WaitToPop(t, "pop", n)
  <2>1. queue' = <<>>
    BY <1>1 DEF MustWaitToPop, WaitToPop
  <2> QED BY <2>1, TimedWhenEmpty
<1>2. CASE /\ ~MustWaitToPop
           /\ TakeLocked(t, "none", n - 1)
           /\ wait_pop' = IF n > 1 /\ ~enable_pop' THEN {} ELSE wait_pop
  <2>1. "none" \in Codes
    BY DEF Codes
  <2>2. wait_pop' \subseteq wait_pop
    BY <1>2
  <2>3. TakeLocked(t, "none", n - 1)
    BY <1>2
  <2> QED BY <2>1, <2>2, <2>3, TimedAfterTake
<1> QED BY <1>1, <1>2 DEF PopLocked

LEMMA TimedAfterTimedPop ==
  ASSUME Basics, TimedPoppersAreWoken, NEW t \in Threads, NEW n,
         NEW expired, TimedPopLocked(t, n, expired)
  PROVE  TimedPoppersAreWoken'
<1>1. CASE MustWaitToPop /\ WaitToPop(t, "timed_pop", n)
  <2>1. queue' = <<>>
    BY <1>1 DEF MustWaitToPop, WaitToPop
  <2> QED BY <2>1, TimedWhenEmpty
<1>2. CASE TakeLocked(t, "pop_timeout", n - 1) /\ UNCHANGED wait_pop
  <2>1. "pop_timeout" \in Codes
    BY DEF Codes
  <2>2. wait_pop' \subseteq wait_pop
    BY <1>2
  <2>3. TakeLocked(t, "pop_timeout", n - 1)
    BY <1>2
  <2> QED BY <2>1, <2>2, <2>3, TimedAfterTake
<1> QED BY <1>1, <1>2 DEF TimedPopLocked

LEMMA NextTimed ==
  Basics /\ TimedPoppersAreWoken /\ [Next]_vars => TimedPoppersAreWoken'
<1> SUFFICES ASSUME Basics, TimedPoppersAreWoken, [Next]_vars
             PROVE  TimedPoppersAreWoken'
  OBVIOUS
<1>0. /\ queue \in Seq(Element) /\ Len(queue) \in Nat
      /\ Pushers \subseteq Threads /\ Poppers \subseteq Threads
      /\ TimedPoppers \subseteq Threads /\ Drainers \subseteq Threads
  BY DEF Basics, TypeOK, Threads
<1>1. ASSUME NEW t \in Pushers, NEW e \in Element, Push(t, e)
      PROVE  TimedPoppersAreWoken'
  BY <1>0, <1>1, TimedAfterPush DEF Push, InPop
<1>2. ASSUME NEW t \in Pushers, PushResume(t)
      PROVE  TimedPoppersAreWoken'
  <2>1. elem[t] \in Element /\ t \notin InPop
    BY <1>0, <1>2 DEF PushResume, Basics, TypeOK, InPop
  <2> QED BY <1>0, <1>2, <2>1, TimedAfterPush DEF PushResume
<1>3. ASSUME NEW t \in Pushers, NEW e \in Element, TryPush(t, e)
      PROVE  TimedPoppersAreWoken'
  <2>1. /\ \E what \in Codes : Return(t, what)
        /\ UNCHANGED enable_pop
        /\ t \in Threads /\ t \notin InPop
        /\ \/ queue' = Append(queue, e) /\ SignalPoppersIf(nPop > 0)
           \/ UNCHANGED <<queue, wait_pop>>
    BY <1>0, <1>3 DEF TryPush, Codes, AsBool, InPop
  <2>2. InPop' = InPop \ {t}
    BY <2>1, ReturnChanges DEF Basics
  <2>3. InPop' = InPop
    BY <2>1, <2>2
  <2>4. CASE UNCHANGED <<queue, wait_pop>>
    <3>1. Len(queue') <= Len(queue)
      BY <1>0, <2>4
    <3> QED BY <1>0, <2>1, <2>3, <2>4, <3>1, TimedKept
  <2>5. CASE queue' = Append(queue, e) /\ SignalPoppersIf(nPop > 0)
    BY <2>1, <2>3, <2>5, TimedAfterAdd
  <2> QED BY <2>1, <2>4, <2>5
<1>4. ASSUME NEW t \in Poppers, Pop(t) \/ PopResume(t)
      PROVE  TimedPoppersAreWoken'
  <2>1. PopLocked(t, nPop + 1) \/ PopLocked(t, nPop)
    BY <1>4 DEF Pop, PopResume
  <2>2. t \in Threads
    BY <1>0
  <2> QED BY <2>1, <2>2, TimedAfterPop
<1>5. ASSUME NEW t \in TimedPoppers, TimedPop(t) \/ TimedPopResume(t)
      PROVE  TimedPoppersAreWoken'
  <2>1. \/ TimedPopLocked(t, nPop + 1, FALSE)
        \/ TimedPopLocked(t, nPop, call[t] = "timed_out")
    BY <1>5 DEF TimedPop, TimedPopResume
  <2>2. t \in Threads
    BY <1>0
  <2> QED BY <2>1, <2>2, TimedAfterTimedPop
<1>6. ASSUME NEW t \in Drainers, TryPop(t)
      PROVE  TimedPoppersAreWoken'
  <2>1. TakeLocked(t, "pop_timeout", nPop) /\ wait_pop' \subseteq wait_pop
    BY <1>6 DEF TryPop
  <2>2. t \in Threads /\ "pop_timeout" \in Codes
    BY <1>0 DEF Codes
  <2> QED BY <2>1, <2>2, TimedAfterTake
<1>7. ASSUME NEW t \in TimedPoppers, TimeOut(t)
      PROVE  TimedPoppersAreWoken'
  <2>1. t \in Threads /\ t \in InPop
    BY <1>0, <1>7 DEF TimeOut, InPop
  <2>2. /\ call \in [Threads -> Calls] /\ call' = [call EXCEPT ![t] = "timed_out"]
        /\ "timed_out" \in Calls
    BY <1>7 DEF TimeOut, Basics, TypeOK, Calls
  <2>3. InPop' = InPop \cup {t}
    BY <2>1, <2>2, CallChanges
  <2>4. InPop' = InPop
    BY <2>1, <2>3
  <2>5. /\ wait_pop' \subseteq wait_pop /\ UNCHANGED <<queue, enable_pop>>
        /\ Len(queue') <= Len(queue)
    BY <1>0, <1>7 DEF TimeOut
  <2> QED BY <1>0, <2>4, <2>5, TimedKept
<1>8. CASE \/ Clear
           \/ \E cap \in Capacities \cup {0} : ResizeEnablePush(cap)
  <2>1. queue' = <<>>
    BY <1>8 DEF Clear, ResizeEnablePush
  <2> QED BY <2>1, TimedWhenEmpty
<1>9. CASE \/ Disable \/ DisablePop \/ EnablePopOnly
           \/ \E cap \in Capacities \cup {0} : ResizeEnable(cap)
  <2>1. wait_pop' = {}
    BY <1>9 DEF Disable, DisablePop, EnablePopOnly, ResizeEnable
  <2> QED BY <2>1 DEF TimedPoppersAreWoken
<1>10. CASE \/ DelayedDisable \/ \E t \in Threads : SpuriousWakeup(t)
            \/ UNCHANGED vars
  <2>1. /\ UNCHANGED <<call, queue>>
        /\ wait_pop' \subseteq wait_pop
        /\ enable_pop' => enable_pop
    <3>1. CASE DelayedDisable
      <4>1. enable_pop' = (enable_pop /\ queue # <<>>)
        BY <3>1 DEF DelayedDisable
      <4>2. enable_pop' => enable_pop
        BY ONLY <4>1, Zenon
      <4>3. UNCHANGED <<call, queue>>
            /\ wait_pop' = IF enable_pop' THEN wait_pop ELSE {}
        BY <3>1 DEF DelayedDisable
      <4>4. wait_pop' \subseteq wait_pop
        BY ONLY <4>3
      <4> QED BY ONLY <4>2, <4>3, <4>4
    <3>2. CASE \E t \in Threads : SpuriousWakeup(t)
      BY ONLY <3>2 DEF SpuriousWakeup
    <3>3. CASE UNCHANGED vars
      BY ONLY <3>3 DEF vars
    <3> QED BY <1>10, <3>1, <3>2, <3>3
  <2>2. InPop' = InPop /\ Len(queue') <= Len(queue)
    BY <1>0, <2>1 DEF InPop
  <2> QED BY <1>0, <2>1, <2>2, TimedKept
<1> QED
  BY <1>1, <1>2, <1>3, <1>4, <1>5, <1>6, <1>7, <1>8, <1>9, <1>10
     DEF Next, Control

\* While popping is enabled and a thread sleeps in a pop, there is for every
\* element a popper that was woken and has yet to run: a woken popper that
\* leaves takes an element along if there is one, also when its time was up,
\* and trypop(), clear() and all control functions keep that.  Nothing is
\* assumed about which pop functions are in use; what the timed ones lose,
\* the sleepers of a queue that was switched off under them, is outside it
\* (bqueue.h, pop(Element&, const timespec&), trypop(), clear()).
THEOREM NoTimedPopperIsLost == SafeSpec => []TimedPoppersAreWoken
<1>1. Init => Basics /\ TimedPoppersAreWoken
  BY InitBasics DEF Init, TimedPoppersAreWoken
<1>2. Basics /\ TimedPoppersAreWoken /\ [Next]_vars => (Basics /\ TimedPoppersAreWoken)'
  BY NextBasics, NextTimed
<1> QED BY <1>1, <1>2, PTL DEF SafeSpec

-----------------------------------------------------------------------------
(* The contents.                                                           *)

LEMMA NextCapacity == Basics /\ WithinCapacity /\ [Next]_vars => WithinCapacity'
<1> SUFFICES ASSUME Basics, WithinCapacity, [Next]_vars PROVE WithinCapacity'
  OBVIOUS
<1>0. /\ queue \in Seq(Element) /\ Len(queue) \in Nat /\ capacity \in Nat
      /\ queue # <<>> => Len(Tail(queue)) = Len(queue) - 1
      /\ Len(queue) <= capacity
      /\ Pushers \subseteq Threads
  BY DEF Basics, TypeOK, WithinCapacity, Threads
<1>1. ASSUME NEW t \in Pushers, NEW e \in Element, NEW n,
             PushLocked(t, e, n), UNCHANGED capacity
      PROVE  WithinCapacity'
  <2>1. CASE MustWaitToPush /\ WaitToPush(t, e, n)
    BY <1>0, <1>1, <2>1 DEF WaitToPush, WithinCapacity
  <2>2. CASE ~MustWaitToPush /\ AddLocked(t, e, n - 1)
    <3>1. \/ queue' = queue
          \/ queue' = Append(queue, e) /\ Len(queue) < capacity
      BY <1>0, <2>2 DEF MustWaitToPush, AddLocked
    <3> QED BY <1>0, <1>1, <3>1 DEF WithinCapacity
  <2> QED BY <1>1, <2>1, <2>2 DEF PushLocked
<1>2. ASSUME NEW t \in Pushers, NEW e \in Element, Push(t, e)
      PROVE  WithinCapacity'
  BY <1>1, <1>2 DEF Push
<1>3. ASSUME NEW t \in Pushers, PushResume(t)
      PROVE  WithinCapacity'
  <2>1. elem[t] \in Element
    BY <1>0, <1>3 DEF PushResume, Basics, TypeOK
  <2> QED BY <1>1, <1>3, <2>1 DEF PushResume
<1>4. ASSUME NEW t \in Pushers, NEW e \in Element, TryPush(t, e)
      PROVE  WithinCapacity'
  BY <1>0, <1>4 DEF TryPush, WithinCapacity
<1>5. CASE \/ \E t \in Poppers : Pop(t) \/ PopResume(t)
           \/ \E t \in TimedPoppers : TimedPop(t) \/ TimedPopResume(t) \/ TimeOut(t)
           \/ \E t \in Drainers : TryPop(t)
  <2>1. /\ capacity' = capacity
        /\ queue' = queue \/ (queue # <<>> /\ queue' = Tail(queue))
    BY <1>5 DEF Pop, PopResume, TimedPop, TimedPopResume, TimeOut, TryPop,
                PopLocked, TimedPopLocked, TakeLocked, WaitToPop
  <2> QED BY <1>0, <2>1 DEF WithinCapacity
<1>6. CASE \/ Clear \/ Control \/ \E t \in Threads : SpuriousWakeup(t)
           \/ UNCHANGED vars
  <2>1. CASE UNCHANGED <<queue, capacity>>
    BY <1>0, <2>1 DEF WithinCapacity
  <2>2. CASE queue' = <<>> /\ capacity' \in Nat
    BY <2>2 DEF WithinCapacity
  <2>3. CASE \E cap \in Capacities \cup {0} : ResizeEnable(cap) \/ ResizeEnablePush(cap)
    BY <1>0, <2>2, <2>3, BQueueAssumption DEF ResizeEnable, ResizeEnablePush
  <2>4. CASE Clear \/ Disable
    BY <1>0, <2>2, <2>4 DEF Clear, Disable
  <2>5. CASE \/ DelayedDisable \/ DisablePop \/ EnablePopOnly \/ UNCHANGED vars
             \/ \E t \in Threads : SpuriousWakeup(t)
    BY <2>1, <2>5 DEF DelayedDisable, DisablePop, EnablePopOnly, SpuriousWakeup, vars
  <2> QED BY <1>6, <2>3, <2>4, <2>5 DEF Control
<1> QED BY <1>2, <1>3, <1>4, <1>5, <1>6 DEF Next

\* The queue never holds more than its capacity, however many pushers wait
\* for room (bqueue.h, push(): the loop around pthread_cond_wait()).
THEOREM NeverOverfull == SafeSpec => []WithinCapacity
<1>1. Init => Basics /\ WithinCapacity
  <2>1. Init => Basics
    BY InitBasics
  <2>2. Init => WithinCapacity
    BY BQueueAssumption DEF Init, WithinCapacity
  <2> QED BY <2>1, <2>2
<1>2. Basics /\ WithinCapacity /\ [Next]_vars => (Basics /\ WithinCapacity)'
  BY NextBasics, NextCapacity
<1> QED BY <1>1, <1>2, PTL DEF SafeSpec

LEMMA NextNothingLeft ==
  ASSUME Controls \subseteq ChainControls
  PROVE  Basics /\ NothingLeftBehind /\ [Next]_vars => NothingLeftBehind'
<1> SUFFICES ASSUME Basics, NothingLeftBehind, [Next]_vars PROVE NothingLeftBehind'
  OBVIOUS
<1>0. enable_push \in BOOLEAN /\ enable_pop \in BOOLEAN
  BY DEF Basics, TypeOK
<1>1. CASE \E t \in Pushers : PushResume(t) \/ \E e \in Element : Push(t, e) \/ TryPush(t, e)
  <2>1. /\ UNCHANGED <<enable_push, enable_pop>>
        /\ ~enable_push => queue' = queue
    BY <1>1 DEF PushResume, Push, TryPush, PushLocked, WaitToPush, AddLocked
  <2> QED BY <2>1 DEF NothingLeftBehind
<1>2. CASE \/ \E t \in Poppers : Pop(t) \/ PopResume(t)
           \/ \E t \in TimedPoppers : TimedPop(t) \/ TimedPopResume(t) \/ TimeOut(t)
           \/ \E t \in Drainers : TryPop(t)
  <2>1. /\ enable_push' = enable_push
        /\ \/ UNCHANGED <<queue, enable_pop>>
           \/ /\ queue' = IF enable_pop /\ queue # <<>> THEN Tail(queue) ELSE queue
              /\ enable_pop' = (enable_pop /\ (enable_push \/ queue' # <<>>))
    BY <1>2 DEF Pop, PopResume, TimedPop, TimedPopResume, TimeOut, TryPop,
                PopLocked, TimedPopLocked, TakeLocked, WaitToPop
  <2> QED BY <1>0, <2>1 DEF NothingLeftBehind
<1>3. CASE Clear \/ (\E t \in Threads : SpuriousWakeup(t)) \/ UNCHANGED vars
  BY <1>0, <1>3 DEF Clear, SpuriousWakeup, vars, NothingLeftBehind
<1>4. CASE Control
  <2>1. \/ Disable \/ DelayedDisable
        \/ \E cap \in Capacities \cup {0} : ResizeEnable(cap)
    BY <1>4 DEF Control, ChainControls
  <2> QED BY <1>0, <2>1 DEF Disable, DelayedDisable, ResizeEnable, NothingLeftBehind
<1> QED BY <1>1, <1>2, <1>3, <1>4 DEF Next

\* A queue on which only enable(), disable() and delayed_disable() are called,
\* as a chain does (chain.h, chain::internalq), is never left with elements
\* nobody may pop, nor open on its push end only: nothing of one run is there
\* in the next (bqueue.h, "only an enabled queue has enable_push set to true").
THEOREM ChainQueueIsDrained ==
  ASSUME Controls \subseteq ChainControls
  PROVE  SafeSpec => []NothingLeftBehind
<1>1. Init => Basics /\ NothingLeftBehind
  BY InitBasics DEF Init, NothingLeftBehind
<1>2. Basics /\ NothingLeftBehind /\ [Next]_vars => (Basics /\ NothingLeftBehind)'
  BY NextBasics, NextNothingLeft
<1> QED BY <1>1, <1>2, PTL DEF SafeSpec

-----------------------------------------------------------------------------
(* The queue implements its contract.                                      *)

LEMMA InitRefines == Init => Contract!Init
BY DEF Init, Contract!Init, Contract!QueueOf, Contract!Queue, AbsQueue, AbsCall,
       Threads, Contract!Threads

\* A call that begins or ends in BQueue does so in the contract.
LEMMA AbsCallChanges ==
  ASSUME TypeOK, NEW t \in Threads, NEW kind,
         call' = [call EXCEPT ![t] = kind]
  PROVE  /\ AbsCall' = [AbsCall EXCEPT ![t] = IF kind = "timed_out"
                                               THEN "timed_pop" ELSE kind]
         /\ call[t] # "timed_out" => AbsCall[t] = call[t]
         /\ call[t] = "timed_out" => AbsCall[t] = "timed_pop"
         /\ AbsCall = [AbsCall EXCEPT ![t] = AbsCall[t]]
BY DEF AbsCall, TypeOK

LEMMA ReturnRefines ==
  ASSUME TypeOK, NEW t \in Threads, NEW what, Return(t, what)
  PROVE  /\ Contract!Return(t, what)
         /\ call[t] # "timed_out" => AbsCall[t] = call[t]
         /\ call[t] = "timed_out" => AbsCall[t] = "timed_pop"
<1>1. call' = [call EXCEPT ![t] = "none"]
  BY DEF Return
<1>2. /\ AbsCall' = [AbsCall EXCEPT ![t] = "none"]
      /\ call[t] # "timed_out" => AbsCall[t] = call[t]
      /\ call[t] = "timed_out" => AbsCall[t] = "timed_pop"
  BY <1>1, AbsCallChanges
<1> QED BY <1>2 DEF Return, Contract!Return

\* push() behind its wait is PushNow.
LEMMA AddRefines ==
  ASSUME TypeOK, NEW t \in Threads, NEW e, NEW n,
         ~MustWaitToPush, AddLocked(t, e, n),
         UNCHANGED <<capacity, enable_push, enable_pop>>
  PROVE  Contract!PushNow(t, e)
<1>1. Contract!MayPush(AbsQueue)
  BY DEF MustWaitToPush, Contract!MayPush, AbsQueue, TypeOK
<1>2. AbsQueue' = Contract!Pushed(AbsQueue, e)
  BY DEF AddLocked, AbsQueue, Contract!Pushed, Contract!Queue
<1>3. Contract!Return(t, Contract!Told(enable_push))
  BY ReturnRefines DEF AddLocked, Told, Contract!Told
<1>4. AbsQueue.enable_push = enable_push
  BY DEF AbsQueue
<1> QED BY <1>1, <1>2, <1>3, <1>4 DEF Contract!PushNow

\* What the pop functions do without waiting is PopNow.
LEMMA TakeRefines ==
  ASSUME TypeOK, NEW t \in Threads, NEW timeout, NEW n,
         TakeLocked(t, timeout, n), UNCHANGED <<capacity, enable_push>>,
         timeout = "pop_timeout" \/ ~MustWaitToPop
  PROVE  Contract!PopNow(t, "pop_timeout")
<1>1. AbsQueue' = Contract!Popped(AbsQueue)
  <2> DEFINE rest == IF enable_pop /\ queue # <<>> THEN Tail(queue) ELSE queue
             open == enable_pop /\ (enable_push \/ rest # <<>>)
  <2>1. queue' = rest
    BY DEF TakeLocked
  <2>2. enable_pop' = open
    BY <2>1 DEF TakeLocked
  <2>3. AbsQueue' = [items |-> rest, capacity |-> capacity,
                     enable_push |-> enable_push, enable_pop |-> open]
    BY <2>1, <2>2 DEF AbsQueue
  <2>4. Contract!Popped(AbsQueue) =
          [items |-> rest, capacity |-> capacity,
           enable_push |-> enable_push, enable_pop |-> open]
    <3>1. /\ AbsQueue.items = queue /\ AbsQueue.enable_pop = enable_pop
          /\ AbsQueue.enable_push = enable_push
          /\ Contract!Takes(AbsQueue) = (enable_pop /\ queue # <<>>)
      BY DEF AbsQueue, Contract!Takes
    <3> QED BY <3>1 DEF AbsQueue, Contract!Popped, Contract!Queue
  <2> QED BY <2>3, <2>4
<1>2. /\ AbsQueue.enable_pop = enable_pop /\ AbsQueue.items = queue
      /\ Contract!Takes(AbsQueue) = (enable_pop /\ queue # <<>>)
  BY DEF AbsQueue, Contract!Takes
<1>3. Return(t, IF enable_pop /\ queue # <<>> THEN Head(queue)
                ELSE IF enable_pop THEN "pop_timeout" ELSE "pop_disabled")
  BY DEF TakeLocked, MustWaitToPop
<1>4. Contract!Return(t, IF enable_pop /\ queue # <<>> THEN Head(queue)
                ELSE IF enable_pop THEN "pop_timeout" ELSE "pop_disabled")
  BY <1>3, ReturnRefines
<1> QED BY <1>1, <1>2, <1>4 DEF Contract!PopNow

LEMMA NextRefines == Basics /\ [Next]_vars => [Contract!Next]_(Contract!vars)
<1> SUFFICES ASSUME Basics, [Next]_vars
             PROVE  Contract!Next \/ UNCHANGED Contract!vars
  OBVIOUS
<1>0. /\ TypeOK
      /\ call \in [Threads -> Calls] /\ elem \in [Threads -> Element \cup {"none"}]
      /\ Pushers \subseteq Threads /\ Poppers \subseteq Threads
      /\ TimedPoppers \subseteq Threads /\ Drainers \subseteq Threads
  BY DEF Basics, TypeOK, Threads
<1>1. ASSUME NEW t \in Pushers, NEW e \in Element, Push(t, e)
      PROVE  Contract!BeginPush(t, e) \/ Contract!PushAtOnce(t, e)
  <2>1. call[t] = "none" /\ UNCHANGED <<capacity, enable_push, enable_pop>>
    BY <1>1 DEF Push
  <2>2. CASE MustWaitToPush /\ WaitToPush(t, e, nPush + 1)
    <3>1. call' = [call EXCEPT ![t] = "push"] /\ t \in Threads
      BY <1>0, <2>2 DEF WaitToPush
    <3>2. AbsCall' = [AbsCall EXCEPT ![t] = "push"] /\ AbsCall[t] = "none"
      BY <1>0, <2>1, <3>1, AbsCallChanges
    <3>3. ~Contract!MayPush(AbsQueue)
      BY <1>0, <2>2 DEF MustWaitToPush, Contract!MayPush, AbsQueue, TypeOK
    <3>4. AbsQueue' = AbsQueue
      BY <2>1, <2>2 DEF WaitToPush, AbsQueue
    <3> QED BY <2>2, <3>2, <3>3, <3>4
            DEF WaitToPush, Contract!BeginPush, Contract!Wait
  <2>3. CASE ~MustWaitToPush /\ AddLocked(t, e, (nPush + 1) - 1)
    <3>1. t \in Threads
      BY <1>0
    <3>2. Contract!PushNow(t, e)
      BY <1>0, <2>1, <2>3, <3>1, AddRefines
    <3>3. AbsCall[t] = "none"
      BY <2>1, <3>1 DEF AbsCall
    <3> QED BY <3>2, <3>3 DEF Contract!PushAtOnce
  <2> QED BY <1>1, <2>2, <2>3 DEF Push, PushLocked
<1>2. ASSUME NEW t \in Pushers, PushResume(t)
      PROVE  Contract!EndPush(t) \/ UNCHANGED Contract!vars
  <2>1. /\ call[t] = "push" /\ t \in Threads
        /\ UNCHANGED <<capacity, enable_push, enable_pop>>
    BY <1>0, <1>2 DEF PushResume
  <2>2. CASE MustWaitToPush /\ WaitToPush(t, elem[t], nPush)
    <3>1. UNCHANGED <<call, elem, queue, result>>
      BY <1>0, <2>1, <2>2 DEF WaitToPush
    <3> QED BY <2>1, <3>1 DEF Contract!vars, AbsQueue, AbsCall
  <2>3. CASE ~MustWaitToPush /\ AddLocked(t, elem[t], nPush - 1)
    <3>1. Contract!PushNow(t, elem[t])
      BY <1>0, <2>1, <2>3, AddRefines
    <3>2. AbsCall[t] = "push"
      BY <2>1 DEF AbsCall
    <3> QED BY <3>1, <3>2 DEF Contract!EndPush
  <2> QED BY <1>2, <2>2, <2>3 DEF PushResume, PushLocked
<1>3. ASSUME NEW t \in Pushers, NEW e \in Element, TryPush(t, e)
      PROVE  Contract!TryPush(t, e)
  <2>1. /\ call[t] = "none" /\ t \in Threads /\ AbsCall[t] = "none"
        /\ UNCHANGED <<capacity, enable_push, enable_pop>>
    BY <1>0, <1>3 DEF TryPush, AbsCall
  <2>2. /\ Len(queue) \in Nat /\ capacity \in Nat
        /\ AbsQueue.items = queue /\ AbsQueue.capacity = capacity
        /\ AbsQueue.enable_push = enable_push
    BY <1>0 DEF TypeOK, AbsQueue
  <2>3. CASE /\ enable_push /\ Len(queue) < capacity
             /\ queue' = Append(queue, e) /\ Return(t, AsBool(push_success))
    <3>1. Contract!MayPush(AbsQueue)
      BY <2>2, <2>3 DEF Contract!MayPush
    <3>2. AbsQueue' = Contract!Pushed(AbsQueue, e)
      BY <2>1, <2>3 DEF AbsQueue, Contract!Pushed, Contract!Queue
    <3>3. AsBool(push_success) = Contract!TryPushResult(AbsQueue)
      BY <2>2, <2>3 DEF AsBool, push_success, Contract!TryPushResult,
                        Contract!AsBool, Contract!push_success
    <3>4. Contract!Return(t, Contract!TryPushResult(AbsQueue))
      BY <1>0, <2>1, <2>3, <3>3, ReturnRefines
    <3> QED BY <2>1, <3>1, <3>2, <3>4 DEF Contract!TryPush
  <2>4. CASE /\ ~(enable_push /\ Len(queue) < capacity)
             /\ Return(t, AsBool(IF enable_push THEN push_overflow ELSE push_disabled))
             /\ queue' = queue
    <3>1. AbsQueue' = AbsQueue
      BY <2>1, <2>4 DEF AbsQueue
    <3>2. Contract!MayPush(AbsQueue) => AbsQueue = Contract!Pushed(AbsQueue, e)
      BY <2>2, <2>4 DEF Contract!MayPush, AbsQueue, Contract!Pushed, Contract!Queue
    <3>3. AsBool(IF enable_push THEN push_overflow ELSE push_disabled)
            = Contract!TryPushResult(AbsQueue)
      BY <2>2, <2>4 DEF AsBool, push_overflow, push_disabled,
                        Contract!TryPushResult, Contract!AsBool,
                        Contract!push_overflow, Contract!push_disabled
    <3>4. Contract!Return(t, Contract!TryPushResult(AbsQueue))
      BY <1>0, <2>1, <2>4, <3>3, ReturnRefines
    <3> QED BY <2>1, <3>1, <3>2, <3>4 DEF Contract!TryPush
  <2> QED BY <1>3, <2>3, <2>4 DEF TryPush
<1>4. ASSUME NEW t \in Threads, NEW kind \in {"pop", "timed_pop"}, NEW n,
             MustWaitToPop, WaitToPop(t, kind, n),
             call[t] = "none" \/ call[t] = kind,
             UNCHANGED <<capacity, enable_push>>
      PROVE  \/ call[t] = "none" /\ Contract!BeginPop(t, kind)
             \/ UNCHANGED Contract!vars
  <2>1. call' = [call EXCEPT ![t] = kind] /\ UNCHANGED <<queue, enable_pop, elem, result>>
    BY <1>4 DEF WaitToPop
  <2>2. /\ AbsCall' = [AbsCall EXCEPT ![t] = kind]
        /\ AbsCall = [AbsCall EXCEPT ![t] = AbsCall[t]]
        /\ AbsCall[t] = call[t]
    BY <1>0, <1>4, <2>1, AbsCallChanges
  <2>3. AbsQueue' = AbsQueue
    BY <1>4, <2>1 DEF AbsQueue
  <2>4. CASE call[t] = kind
    BY <2>1, <2>2, <2>3, <2>4 DEF Contract!vars
  <2>5. CASE call[t] = "none"
    <3>1. ~Contract!MayPop(AbsQueue)
      BY <1>4 DEF MustWaitToPop, Contract!MayPop, AbsQueue
    <3>2. elem' = [elem EXCEPT ![t] = elem[t]]
      BY <1>0, <2>1
    <3> QED BY <2>1, <2>2, <2>3, <2>5, <3>1, <3>2
            DEF Contract!BeginPop, Contract!Wait
  <2> QED BY <1>4, <2>4, <2>5
<1>5. ASSUME NEW t \in Poppers, Pop(t) \/ PopResume(t)
      PROVE  \/ Contract!BeginPop(t, "pop") \/ Contract!PopAtOnce(t)
             \/ Contract!EndPop(t) \/ UNCHANGED Contract!vars
  <2>1. /\ t \in Threads /\ call[t] \in {"none", "pop"} /\ AbsCall[t] = call[t]
        /\ UNCHANGED <<capacity, enable_push>>
        /\ \E n \in {nPop, nPop + 1} : PopLocked(t, n)
    BY <1>0, <1>5 DEF Pop, PopResume, AbsCall
  <2>2. CASE \E n \in {nPop, nPop + 1} : MustWaitToPop /\ WaitToPop(t, "pop", n)
    BY <1>4, <2>1, <2>2
  <2>3. CASE \E n \in {nPop, nPop + 1} : ~MustWaitToPop /\ TakeLocked(t, "none", n - 1)
    <3>1. Contract!PopNow(t, "pop_timeout")
      BY <1>0, <2>1, <2>3, TakeRefines
    <3>2. Contract!MayPop(AbsQueue)
      BY <2>3 DEF MustWaitToPop, Contract!MayPop, AbsQueue
    <3> QED BY <2>1, <3>1, <3>2 DEF Contract!PopAtOnce, Contract!EndPop
  <2> QED BY <2>1, <2>2, <2>3 DEF PopLocked
<1>6. ASSUME NEW t \in TimedPoppers, TimedPop(t)
      PROVE  \/ Contract!BeginPop(t, "timed_pop") \/ Contract!PopAtOnce(t)
             \/ UNCHANGED Contract!vars
  <2>1. /\ t \in Threads /\ call[t] = "none" /\ AbsCall[t] = "none"
        /\ UNCHANGED <<capacity, enable_push>>
        /\ TimedPopLocked(t, nPop + 1, FALSE)
    BY <1>0, <1>6 DEF TimedPop, AbsCall
  <2>2. CASE MustWaitToPop /\ WaitToPop(t, "timed_pop", nPop + 1)
    BY <1>4, <2>1, <2>2
  <2>3. CASE ~MustWaitToPop /\ TakeLocked(t, "pop_timeout", (nPop + 1) - 1)
    <3>1. Contract!PopNow(t, "pop_timeout")
      BY <1>0, <2>1, <2>3, TakeRefines
    <3>2. Contract!MayPop(AbsQueue)
      BY <2>3 DEF MustWaitToPop, Contract!MayPop, AbsQueue
    <3> QED BY <2>1, <3>1, <3>2 DEF Contract!PopAtOnce
  <2> QED BY <2>1, <2>2, <2>3 DEF TimedPopLocked
<1>7. ASSUME NEW t \in TimedPoppers, TimedPopResume(t)
      PROVE  Contract!EndTimedPop(t) \/ UNCHANGED Contract!vars
  <2>1. /\ t \in Threads /\ call[t] \in {"timed_pop", "timed_out"}
        /\ AbsCall[t] = "timed_pop"
        /\ UNCHANGED <<capacity, enable_push>>
        /\ TimedPopLocked(t, nPop, call[t] = "timed_out")
    BY <1>0, <1>7 DEF TimedPopResume, AbsCall
  <2>2. CASE /\ call[t] # "timed_out" /\ MustWaitToPop
             /\ WaitToPop(t, "timed_pop", nPop)
    BY <1>4, <2>1, <2>2
  <2>3. CASE TakeLocked(t, "pop_timeout", nPop - 1)
    BY <1>0, <2>1, <2>3, TakeRefines DEF Contract!EndTimedPop
  <2> QED BY <2>1, <2>2, <2>3 DEF TimedPopLocked
<1>8. ASSUME NEW t \in TimedPoppers, TimeOut(t)
      PROVE  UNCHANGED Contract!vars
  <2>1. /\ t \in Threads /\ call[t] = "timed_pop"
        /\ call' = [call EXCEPT ![t] = "timed_out"]
        /\ UNCHANGED <<queue, capacity, enable_push, enable_pop, elem, result>>
    BY <1>0, <1>8 DEF TimeOut
  <2>2. /\ AbsCall' = [AbsCall EXCEPT ![t] = "timed_pop"]
        /\ AbsCall = [AbsCall EXCEPT ![t] = AbsCall[t]]
        /\ AbsCall[t] = "timed_pop"
    BY <1>0, <2>1, AbsCallChanges
  <2>3. AbsCall' = AbsCall
    BY <2>2
  <2> QED BY <2>1, <2>3 DEF Contract!vars, AbsQueue
<1>9. ASSUME NEW t \in Drainers, TryPop(t)
      PROVE  Contract!TryPop(t)
  <2>1. /\ t \in Threads /\ AbsCall[t] = "none"
        /\ UNCHANGED <<capacity, enable_push>>
        /\ TakeLocked(t, "pop_timeout", nPop)
    BY <1>0, <1>9 DEF TryPop, AbsCall
  <2> QED BY <1>0, <2>1, TakeRefines DEF Contract!TryPop
<1>10. ASSUME Control \/ (Drainers # {} /\ Clear)
       PROVE  Contract!Control
  <2>1. AbsCall' = AbsCall /\ UNCHANGED <<elem, result>>
    BY <1>10 DEF Control, Clear, Disable, DelayedDisable, DisablePop,
                 EnablePopOnly, ResizeEnable, ResizeEnablePush, AbsCall
  <2>2. CASE "disable" \in Controls /\ Disable
    <3>1. AbsQueue' = Contract!Disabled(AbsQueue)
      BY <2>2 DEF Disable, AbsQueue, Contract!Disabled, Contract!Queue
    <3> QED BY <2>1, <2>2, <3>1 DEF Contract!Control
  <2>3. CASE "delayed_disable" \in Controls /\ DelayedDisable
    <3>1. AbsQueue' = Contract!DelayedDisabled(AbsQueue)
      BY <2>3 DEF DelayedDisable, AbsQueue, Contract!DelayedDisabled, Contract!Queue
    <3> QED BY <2>1, <2>3, <3>1 DEF Contract!Control
  <2>4. CASE "disable_pop" \in Controls /\ DisablePop
    <3>1. AbsQueue' = Contract!PopDisabled(AbsQueue)
      BY <2>4 DEF DisablePop, AbsQueue, Contract!PopDisabled, Contract!Queue
    <3> QED BY <2>1, <2>4, <3>1 DEF Contract!Control
  <2>5. CASE "enable_pop_only" \in Controls /\ EnablePopOnly
    <3>1. AbsQueue' = Contract!PopEnabled(AbsQueue)
      BY <2>5 DEF EnablePopOnly, AbsQueue, Contract!PopEnabled, Contract!Queue
    <3> QED BY <2>1, <2>5, <3>1 DEF Contract!Control
  <2>6. ASSUME NEW cap \in Capacities \cup {0},
               "resize_enable" \in Controls, ResizeEnable(cap)
        PROVE  Contract!Control
    <3>1. AbsQueue' = Contract!ResizeEnabled(AbsQueue, cap)
      BY <2>6 DEF ResizeEnable, AbsQueue, Contract!ResizeEnabled,
                  Contract!QueueOf, Contract!Queue, Contract!Resized
    <3> QED BY <2>1, <2>6, <3>1 DEF Contract!Control
  <2>7. ASSUME NEW cap \in Capacities \cup {0},
               "resize_enable_push" \in Controls, ResizeEnablePush(cap)
        PROVE  Contract!Control
    <3>1. AbsQueue' = Contract!ResizeEnabledPush(AbsQueue, cap)
      BY <2>7 DEF ResizeEnablePush, AbsQueue, Contract!ResizeEnabledPush,
                  Contract!Queue, Contract!Resized
    <3> QED BY <2>1, <2>7, <3>1 DEF Contract!Control
  <2>8. CASE Drainers # {} /\ Clear
    <3>1. AbsQueue' = Contract!Cleared(AbsQueue)
      BY <2>8 DEF Clear, AbsQueue, Contract!Cleared, Contract!Queue
    <3> QED BY <2>1, <2>8, <3>1 DEF Contract!Control
  <2> QED BY <1>10, <2>2, <2>3, <2>4, <2>5, <2>6, <2>7, <2>8 DEF Control
<1>11. ASSUME (\E t \in Threads : SpuriousWakeup(t)) \/ UNCHANGED vars
       PROVE  UNCHANGED Contract!vars
  BY <1>11 DEF SpuriousWakeup, vars, Contract!vars, AbsQueue, AbsCall
<1> QED
  BY <1>1, <1>2, <1>3, <1>5, <1>6, <1>7, <1>8, <1>9, <1>10, <1>11
     DEF Next, Contract!Next

\* Whatever threads use the queue and however they are woken, each call is one
\* step of QueueContract at the moment it completes: first in, first out, each
\* element to one popper, never more than fits, and each caller is told what the
\* program tells it, of a try_push() a bool (bqueue.h, every member function).  The fairness of the contract is left to the runs.
THEOREM QueueRefinesContract == SafeSpec => Contract!SafeSpec
<1>1. Init => Contract!Init
  BY InitRefines
<1>2. Init => Basics
  BY InitBasics
<1>3. Basics /\ [Next]_vars => Basics'
  BY NextBasics
<1>4. Basics /\ [Next]_vars => [Contract!Next]_(Contract!vars)
  BY NextRefines
<1> QED BY <1>1, <1>2, <1>3, <1>4, PTL DEF SafeSpec, Contract!SafeSpec

=============================================================================
