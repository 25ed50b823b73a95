---------------------------- MODULE Chain_proofs ----------------------------
(***************************************************************************)
(* Proofs about Chain, for any number of steps, of threads in each of them *)
(* and of callers, queues of any size, and any number of items.            *)
(***************************************************************************)
EXTENDS Chain, FiniteSetTheorems, SequenceTheorems, TLAPS

Team(s) == {t \in Threads : t[1] = s}
QueueNumbers == 1..(NSteps - 1)

-----------------------------------------------------------------------------
(* Threads and queues.                                                     *)

LEMMA TeamIsWidth ==
  ASSUME NEW s \in Steps, NEW n \in 0..Width[s]
  PROVE  /\ {s} \X (1..n) \subseteq Team(s)
         /\ IsFiniteSet({s} \X (1..n)) /\ Cardinality({s} \X (1..n)) = n
         /\ Team(s) = {s} \X (1..Width[s])
<1>1. Width[s] \in Nat /\ n \in Nat /\ 1..n \subseteq 1..Width[s]
  BY ChainAssumption
<1>2. \A u \in Steps : \A t \in {u} \X (1..Width[u]) : t[1] = u
  OBVIOUS
<1>3. Team(s) = {s} \X (1..Width[s])
  BY <1>2 DEF Team, Threads
<1>4. IsFiniteSet(1..n) /\ Cardinality(1..n) = n
  BY <1>1, FS_Interval
<1>5. IsFiniteSet({s}) /\ Cardinality({s}) = 1
  BY FS_Singleton
<1>6. IsFiniteSet({s} \X (1..n)) /\ Cardinality({s} \X (1..n)) = 1 * n
  BY <1>4, <1>5, FS_Product
<1>. QED  BY <1>1, <1>3, <1>6

LEMMA ThreadFacts ==
  /\ IsFiniteSet(Threads)
  /\ \A t \in Threads : t[1] \in Steps
  /\ \A s \in Steps : Team(s) # {} /\ IsFiniteSet(Team(s)) /\ Cardinality(Team(s)) = Width[s]
  /\ Steps = 1..NSteps /\ NSteps \in Nat /\ NSteps >= 2
<1>1. Steps = 1..NSteps /\ NSteps \in Nat /\ NSteps >= 2 /\ Width \in [Steps -> Nat \ {0}]
  BY ChainAssumption DEF Steps
<1>. DEFINE team == [s \in Steps |-> {s} \X (1..Width[s])]
            Teams == {{s} \X (1..Width[s]) : s \in Steps}
<1>2. ASSUME NEW s \in Steps
      PROVE  /\ IsFiniteSet(team[s]) /\ Team(s) = team[s] /\ Cardinality(team[s]) = Width[s]
             /\ <<s, 1>> \in team[s]
  <2>1. Width[s] \in 0..Width[s] /\ 1 \in 1..Width[s]
    BY <1>1
  <2>. QED  BY <2>1, TeamIsWidth
<1>3. IsFiniteSet(Teams)
  <2>1. IsFiniteSet(Steps)
    BY <1>1, FS_Interval
  <2>2. team \in Surjection(Steps, Teams)
    BY DEF Surjection
  <2>. QED  BY <2>1, <2>2, FS_Surjection
<1>4. \A T \in Teams : IsFiniteSet(T)
  BY <1>2
<1>5. IsFiniteSet(Threads)
  BY <1>3, <1>4, FS_UNION DEF Threads
<1>6. \A t \in Threads : t[1] \in Steps
  BY DEF Threads
<1>. QED  BY <1>1, <1>2, <1>5, <1>6

Q == Queues(Items, {QueueDepth})
InQueue(q) == {q.items[i] : i \in 1..Len(q.items)}

LEMMA QueueFields ==
  /\ \A q \in Q : /\ q.items \in Seq(Items) /\ q.capacity = QueueDepth
                  /\ q.enable_push \in BOOLEAN /\ q.enable_pop \in BOOLEAN
                  /\ q = Queue(q.items, QueueDepth, q.enable_push, q.enable_pop)
  /\ \A items, c, push, pop :
       /\ Queue(items, c, push, pop).items = items
       /\ Queue(items, c, push, pop).enable_push = push
       /\ Queue(items, c, push, pop).enable_pop = pop
       /\ items \in Seq(Items) /\ c = QueueDepth /\ push \in BOOLEAN /\ pop \in BOOLEAN
            => Queue(items, c, push, pop) \in Q
  BY DEF Queue, Q, Queues

\* What the operations of a queue do to what is in it.
LEMMA PushedFacts ==
  ASSUME NEW q \in Q, NEW e \in Items
  PROVE  /\ Pushed(q, e) \in Q
         /\ Pushed(q, e).enable_push = q.enable_push
         /\ Pushed(q, e).enable_pop = q.enable_pop
         /\ Pushed(q, e).items = IF q.enable_push THEN Append(q.items, e) ELSE q.items
         /\ q.enable_push => InQueue(Pushed(q, e)) = InQueue(q) \cup {e}
         /\ MayPush(q) /\ Len(q.items) <= QueueDepth => Len(Pushed(q, e).items) <= QueueDepth
<1>1. /\ q.items \in Seq(Items) /\ q.capacity = QueueDepth
      /\ q.enable_push \in BOOLEAN /\ q.enable_pop \in BOOLEAN
  BY QueueFields
<1>2. /\ Append(q.items, e) \in Seq(Items) /\ Len(Append(q.items, e)) = Len(q.items) + 1
      /\ Len(q.items) \in Nat
      /\ \A i \in 1..Len(q.items) : Append(q.items, e)[i] = q.items[i]
      /\ Append(q.items, e)[Len(q.items) + 1] = e
  BY <1>1, AppendProperties
<1>. DEFINE items == IF q.enable_push THEN Append(q.items, e) ELSE q.items
<1>3. items \in Seq(Items)
  BY <1>1, <1>2
<1>4. Pushed(q, e) = Queue(items, QueueDepth, q.enable_push, q.enable_pop)
  BY <1>1 DEF Pushed
<1>. HIDE DEF items
<1>5. /\ Pushed(q, e) \in Q /\ Pushed(q, e).enable_push = q.enable_push
      /\ Pushed(q, e).enable_pop = q.enable_pop /\ Pushed(q, e).items = items
  BY <1>1, <1>3, <1>4, QueueFields
<1>6. ASSUME q.enable_push
      PROVE  InQueue(Pushed(q, e)) = InQueue(q) \cup {e}
  <2>1. InQueue(Pushed(q, e)) = {Append(q.items, e)[i] : i \in 1..Len(q.items) + 1}
    BY <1>2, <1>5, <1>6 DEF InQueue, items
  <2>2. {Append(q.items, e)[i] : i \in 1..Len(q.items) + 1} = InQueue(q) \cup {e}
    BY <1>2 DEF InQueue
  <2>. QED  BY <2>1, <2>2
<1>7. MayPush(q) /\ Len(q.items) <= QueueDepth => Len(Pushed(q, e).items) <= QueueDepth
  BY <1>1, <1>2, <1>5, ChainAssumption DEF MayPush, items
<1>. QED  BY <1>5, <1>6, <1>7 DEF items

LEMMA PoppedFacts ==
  ASSUME NEW q \in Q
  PROVE  /\ Popped(q) \in Q
         /\ Popped(q).enable_push = q.enable_push
         /\ Popped(q).enable_pop <=> q.enable_pop /\ (q.enable_push \/ Popped(q).items # <<>>)
         /\ Popped(q).items = IF Takes(q) THEN Tail(q.items) ELSE q.items
         /\ Takes(q) => /\ Head(q.items) \in Items
                        /\ InQueue(q) = InQueue(Popped(q)) \cup {Head(q.items)}
         /\ Len(q.items) <= QueueDepth => Len(Popped(q).items) <= QueueDepth
<1>1. /\ q.items \in Seq(Items) /\ q.capacity = QueueDepth
      /\ q.enable_push \in BOOLEAN /\ q.enable_pop \in BOOLEAN
  BY QueueFields
<1>2. ASSUME Takes(q)
      PROVE  /\ Head(q.items) \in Items /\ Tail(q.items) \in Seq(Items)
             /\ Len(Tail(q.items)) = Len(q.items) - 1 /\ Len(q.items) \in Nat \ {0}
             /\ \A i \in 1..Len(q.items) - 1 : Tail(q.items)[i] = q.items[i + 1]
             /\ Head(q.items) = q.items[1]
  <2>1. q.items # <<>>
    BY <1>2 DEF Takes
  <2>. QED  BY <1>1, <2>1, HeadTailProperties, EmptySeq
<1>. DEFINE items == IF Takes(q) THEN Tail(q.items) ELSE q.items
            on == q.enable_pop /\ (q.enable_push \/ items # <<>>)
<1>3. items \in Seq(Items)
  BY <1>1, <1>2
<1>4. on \in BOOLEAN /\ (on <=> q.enable_pop /\ (q.enable_push \/ items # <<>>))
  OBVIOUS
<1>5. Popped(q) = Queue(items, QueueDepth, q.enable_push, on)
  BY <1>1 DEF Popped
<1>. HIDE DEF items, on
<1>6. /\ Popped(q) \in Q /\ Popped(q).enable_push = q.enable_push
      /\ Popped(q).enable_pop = on /\ Popped(q).items = items
  <2>1. on \in BOOLEAN
    BY <1>4
  <2>2. Queue(items, QueueDepth, q.enable_push, on) \in Q
    BY ONLY <1>1, <1>3, <2>1 DEF Q, Queue, Queues
  <2>3. /\ Queue(items, QueueDepth, q.enable_push, on).enable_push = q.enable_push
        /\ Queue(items, QueueDepth, q.enable_push, on).enable_pop = on
        /\ Queue(items, QueueDepth, q.enable_push, on).items = items
    BY ONLY DEF Queue
  <2>4. Popped(q) \in Q
    BY ONLY <1>5, <2>2
  <2>5. Popped(q).enable_push = q.enable_push /\ Popped(q).items = items
    BY ONLY <1>5, <2>3
  <2>6. Popped(q).enable_pop = on
    BY ONLY <1>5, <2>3
  <2>. QED  BY ONLY <2>4, <2>5, <2>6
<1>7. ASSUME Takes(q)
      PROVE  InQueue(q) = InQueue(Popped(q)) \cup {Head(q.items)}
  <2>1. InQueue(Popped(q)) = {q.items[i + 1] : i \in 1..Len(q.items) - 1}
    <3>1. Popped(q).items = Tail(q.items)
      BY <1>6, <1>7 DEF items
    <3>2. /\ Len(Tail(q.items)) = Len(q.items) - 1
          /\ \A i \in 1..Len(q.items) - 1 : Tail(q.items)[i] = q.items[i + 1]
      BY <1>2, <1>7
    <3>3. {Tail(q.items)[i] : i \in 1..Len(q.items) - 1} = {q.items[i + 1] : i \in 1..Len(q.items) - 1}
      BY ONLY <3>2
    <3>. QED  BY ONLY <3>1, <3>2, <3>3 DEF InQueue
  <2>2. /\ \A i \in 1..Len(q.items) : i = 1 \/ (i - 1 \in 1..Len(q.items) - 1 /\ i = (i - 1) + 1)
        /\ \A i \in 1..Len(q.items) - 1 : i + 1 \in 1..Len(q.items)
        /\ 1 \in 1..Len(q.items)
    BY <1>2, <1>7
  <2>3. InQueue(q) = {q.items[i + 1] : i \in 1..Len(q.items) - 1} \cup {q.items[1]}
    BY ONLY <2>2 DEF InQueue
  <2>4. Head(q.items) = q.items[1]
    BY <1>2, <1>7
  <2>. QED  BY ONLY <2>1, <2>3, <2>4
<1>8. Len(q.items) <= QueueDepth => Len(Popped(q).items) <= QueueDepth
  BY <1>2, <1>6, ChainAssumption DEF items
<1>. QED  BY <1>2, <1>4, <1>6, <1>7, <1>8 DEF items

LEMMA DisabledFacts ==
  ASSUME NEW q \in Q
  PROVE  /\ Disabled(q) \in Q /\ Disabled(q).items = <<>>
         /\ ~Disabled(q).enable_push /\ ~Disabled(q).enable_pop
         /\ DelayedDisabled(q) \in Q /\ DelayedDisabled(q).items = q.items
         /\ ~DelayedDisabled(q).enable_push
         /\ DelayedDisabled(q).enable_pop <=> q.enable_pop /\ q.items # <<>>
         /\ ResizeEnabled(q, 0) \in Q /\ ResizeEnabled(q, 0).items = <<>>
         /\ ResizeEnabled(q, 0).enable_push /\ ResizeEnabled(q, 0).enable_pop
<1>1. /\ q.items \in Seq(Items) /\ q.capacity = QueueDepth
      /\ q.enable_push \in BOOLEAN /\ q.enable_pop \in BOOLEAN /\ <<>> \in Seq(Items)
  BY QueueFields
<1>2. /\ Disabled(q) \in Q /\ Disabled(q).items = <<>>
      /\ ~Disabled(q).enable_push /\ ~Disabled(q).enable_pop
  BY <1>1 DEF Disabled, Queue, Q, Queues
<1>3. /\ ResizeEnabled(q, 0) \in Q /\ ResizeEnabled(q, 0).items = <<>>
      /\ ResizeEnabled(q, 0).enable_push /\ ResizeEnabled(q, 0).enable_pop
  BY <1>1 DEF ResizeEnabled, Resized, QueueOf, Queue, Q, Queues
<1>. DEFINE on == q.enable_pop /\ q.items # <<>>
<1>4. on \in BOOLEAN /\ (on <=> q.enable_pop /\ q.items # <<>>)
  OBVIOUS
<1>5. DelayedDisabled(q) = [items |-> q.items, capacity |-> QueueDepth,
                            enable_push |-> FALSE, enable_pop |-> on]
  BY <1>1 DEF DelayedDisabled, Queue
<1>. HIDE DEF on
<1>6. DelayedDisabled(q) \in Q
  BY <1>1, <1>4, <1>5 DEF Q, Queues
<1>7. DelayedDisabled(q).items = q.items /\ ~DelayedDisabled(q).enable_push
  BY <1>5
<1>8. DelayedDisabled(q).enable_pop = on
  BY <1>5
<1>. QED  BY <1>2, <1>3, <1>4, <1>6, <1>7, <1>8

-----------------------------------------------------------------------------
(* The invariant.                                                          *)

CallTypes ==
  /\ lock \in Controllers \cup {"none"}
  /\ running \in BOOLEAN /\ joining \in BOOLEAN /\ cancelled \in BOOLEAN
  /\ finalized \in BOOLEAN /\ brutal \in BOOLEAN
  /\ op \in [Controllers -> {"none", "run", "stop", "gentle_stop", "wait"}]
  /\ cpc \in [Controllers -> CallerPCs]
  /\ next \in [Controllers -> 0..NSteps]
  /\ \A c \in Controllers : cpc[c] = "disable" => next[c] \in QueueNumbers
  /\ returned \in [Controllers -> 0..1]
  /\ runs \in 0..1

WorkTypes ==
  /\ queues \in [QueueNumbers -> Q]
  /\ \A s \in QueueNumbers : Len(queues[s].items) <= QueueDepth
  /\ rsa_nthread \in [Steps -> Nat]
  /\ userdata \in [Steps -> BOOLEAN] /\ sync_cancelled \in [Steps -> BOOLEAN]
  /\ pc \in [Threads -> ThreadPCs]
  /\ held \in [Threads -> 0..MaxItems]
  /\ \A t \in Threads : pc[t] = "full" <=> held[t] # 0
  /\ nthreads \in Nat /\ nfinals \in Nat
  /\ produced \in 0..MaxItems
  /\ accepted \subseteq Items /\ consumed \subseteq Items

\* Who has the lock, who joins, and that both mean that the chain runs.
Calls ==
  /\ \A c \in Controllers :
       /\ cpc[c] \in {"spawn", "cancel", "disable", "join"} => lock = c
       /\ cpc[c] = "spawn" => c = Runner /\ ~running /\ runs = 1
       /\ cpc[c] \in {"cancel", "disable", "join"} => running
       /\ cpc[c] = "joining" => joining
  /\ OneJoins
  /\ running => runs = 1

\* A chain that has threads runs, or is about to; run() finds none.
Lives ==
  /\ runs = 0 => ~finalized /\ \A t \in Threads : pc[t] = "none"
  /\ \A t \in Threads : pc[t] \notin {"none", "gone"} => running \/ cpc[Runner] = "spawn"
  /\ cpc[Runner] = "spawn" =>
       /\ nfinals = 0
       /\ \A t \in Threads : /\ pc[t] \notin {"finals", "gone"}
                             /\ t[1] <= next[Runner] => pc[t] = "none"

\* The count of the chain, and what its last thread does.
Busy == {t \in Threads : pc[t] \notin {"none", "finals", "gone"}}
Finals ==
  /\ nthreads = Cardinality(Busy)
  /\ \A t \in Threads : pc[t] = "finals" => Busy = {}
  /\ \A t, u \in Threads : pc[t] = "finals" /\ pc[u] = "finals" => t = u
  /\ nfinals = IF finalized THEN 1 ELSE 0
  /\ (\E t \in Threads : pc[t] = "gone") =>
       Busy # {} \/ finalized \/ \E t \in Threads : pc[t] = "finals"

\* The count of a step, of which run_step() tells its last thread.
Undone(s) == {t \in Team(s) : pc[t] \in {"none", "ready", "full", "ending"}}
Counts ==
  /\ \A s \in Steps :
       (\E t \in Team(s) : pc[t] # "none") => rsa_nthread[s] = Cardinality(Undone(s))
  /\ \A t \in Threads : pc[t] \in {"disable_out", "disable_in"} => Undone(t[1]) = {}

\* Unless somebody stops bluntly, a step gives up only when there is nothing left
\* behind it, and its queue takes nothing only when it has given up.
AtWork(t) == pc[t] \in {"none", "ready", "full"}
Ends ==
  /\ \A s \in QueueNumbers :
       ~queues[s].enable_pop => queues[s].items = <<>> /\ ~queues[s].enable_push
  /\ brutal \/ \A t \in Threads :
       /\ t[1] \in QueueNumbers \ {1} /\ ~queues[t[1]].enable_push => ~AtWork(t)
       /\ t[1] # 1 /\ ~AtWork(t) => ~queues[t[1] - 1].enable_pop

\* What the first step holds is new, and has not been accepted before.
New ==
  /\ accepted \subseteq 1..produced
  /\ runs = 0 => accepted = {}
  /\ \A t \in Threads : t[1] = 1 /\ pc[t] = "full" =>
       /\ held[t] \notin accepted /\ held[t] \in 1..produced
       /\ \A u \in Threads : u[1] = 1 /\ held[u] = held[t] => u = t

\* GentleStopLosesNothing, item by item.
Safe(x) ==
  \/ x \in consumed
  \/ \E t \in Threads : held[t] = x
  \/ \E s \in QueueNumbers : x \in InQueue(queues[s])
Conserved == brutal \/ \A x \in accepted : Safe(x)

\* For whom the return of a call means that the chain has stopped: for all who do
\* not stop it themselves, and for everybody if one thread runs and stops it.
OneStops == Stoppers \subseteq {Runner}
Trusts(c) == c \notin Stoppers \/ OneStops

\* While the chain runs, nobody who may trust a return has had one: stop() returns
\* at once only while another stop is joining, which is then in its caller's way.
Returns ==
  /\ \A c \in Controllers : runs = 0 => returned[c] = 0
  /\ cpc[Runner] = "spawn" => \A c \in Controllers : returned[c] = 0
  /\ running => \A c \in Controllers : Trusts(c) => returned[c] = 0
  /\ \A c \in Controllers : cpc[c] \in {"cancel", "disable"} => c = Runner \/ c \in Stoppers
  /\ OneStops /\ running /\ cancelled =>
       cpc[Runner] \in {"join", "joining", "wait", "woken"}

IInv ==
  /\ CallTypes /\ WorkTypes
  /\ Calls /\ Returns /\ Lives /\ Finals /\ Counts
  /\ UserdataOutlivesThreads
  /\ Ends /\ New /\ Conserved

-----------------------------------------------------------------------------
(* The callers.                                                            *)

LEMMA CallerFacts == "none" \notin Controllers /\ Runner \in Controllers
BY ChainAssumption DEF Controllers

\* What the threads of the chain do is no concern of the callers.
LEMMA ThreadsLeaveCalls ==
  ASSUME CallTypes, NEW t \in Threads, ThreadStep(t)
  PROVE  /\ UNCHANGED <<lock, running, joining, cancelled, op, cpc, next, returned, runs>>
         /\ CallTypes'
<1>1. UNCHANGED <<lock, running, joining, cancelled, op, cpc, next, returned, runs>>
  BY DEF ThreadStep, Read, ReadCancelled, Quit, PushItem, PopItem, Consume, StepDone,
         DisableOut, DisableIn, Leave, DoFinals, implVars, callVars
<1>2. finalized' \in BOOLEAN /\ brutal' \in BOOLEAN
  BY DEF CallTypes, ThreadStep, Read, ReadCancelled, Quit, PushItem, PopItem, Consume,
         StepDone, DisableOut, DisableIn, Leave, DoFinals, implVars, itemVars
<1>. QED  BY <1>1, <1>2 DEF CallTypes

CallerStep(c) ==
  \/ CallStep(c) \/ SpuriousWakeup(c)
  \/ BeginRun(c) \/ BeginWait(c) \/ WaitReturns(c)
  \/ BeginStop(c, "stop") \/ BeginStop(c, "gentle_stop")
  \/ StopReturns(c) \/ DelayedDisable(c)

LEMMA CallTypesPreserved ==
  ASSUME CallTypes, NEW c \in Controllers, CallerStep(c)
  PROVE  CallTypes'
<1>. USE ThreadFacts DEF CallTypes, CallerPCs, QueueNumbers
<1>1. CASE BeginRun(c)
  BY <1>1 DEF BeginRun, itemVars
<1>2. CASE StartStep(c)
  BY <1>2 DEF StartStep, StartThreads, itemVars
<1>3. CASE EndRun(c)
  BY <1>3 DEF EndRun, SetRunning, itemVars
<1>4. CASE StartFails(c)
  BY <1>4 DEF StartFails, StartThreads, SetRunning, itemVars
<1>5. CASE MakeFails(c)
  BY <1>5 DEF MakeFails, SetRunning, itemVars
<1>6. CASE StopReturns(c) \/ WaitReturns(c) \/ WaitEnds(c)
  <2>1. /\ op' = [op EXCEPT ![c] = "none"] /\ cpc' = [cpc EXCEPT ![c] = "idle"]
        /\ returned' = [returned EXCEPT ![c] = runs] /\ next' = next
        /\ UNCHANGED <<implVars, runs, itemVars>>
    BY <1>6 DEF StopReturns, WaitReturns, WaitEnds, Finish
  <2>2. op' \in [Controllers -> {"none", "run", "stop", "gentle_stop", "wait"}]
    BY <2>1
  <2>3. /\ cpc' \in [Controllers -> CallerPCs]
        /\ \A d \in Controllers : cpc'[d] = "disable" => next[d] \in QueueNumbers
    BY <2>1
  <2>4. returned' \in [Controllers -> 0..1]
    BY <2>1
  <2>. QED  BY <2>1, <2>2, <2>3, <2>4 DEF implVars, itemVars
<1>7. CASE BeginStop(c, "stop") \/ BeginStop(c, "gentle_stop")
  BY <1>7 DEF BeginStop, itemVars
<1>8. CASE Cancel(c)
  BY <1>8 DEF Cancel, implVars, itemVars
<1>9. CASE DisableFirst(c)
  BY <1>9 DEF DisableFirst, itemVars
<1>10. CASE DisableQueue(c)
  <2>1. next[c] \in 1..(NSteps - 1)
    BY <1>10 DEF DisableQueue
  <2>2. UNCHANGED <<lock, running, joining, finalized, op, returned, runs>>
        /\ brutal' \in BOOLEAN /\ cancelled' \in BOOLEAN
    BY <1>10 DEF DisableQueue
  <2>3. CASE next[c] = NSteps - 1
    BY <1>10, <2>2, <2>3 DEF DisableQueue
  <2>4. CASE next[c] # NSteps - 1
    <3>1. next' = [next EXCEPT ![c] = next[c] + 1] /\ cpc' = cpc
      BY <1>10, <2>4 DEF DisableQueue
    <3>2. next[c] + 1 \in 1..(NSteps - 1)
      BY <2>1, <2>4
    <3>3. next' \in [Controllers -> 0..NSteps]
          /\ \A d \in Controllers : next'[d] = IF d = c THEN next[c] + 1 ELSE next[d]
      BY <3>1, <3>2
    <3>. QED  BY <2>2, <3>1, <3>2, <3>3
  <2>. QED  BY <2>3, <2>4
<1>11. CASE DelayedDisable(c)
  BY <1>11 DEF DelayedDisable, implVars, callVars, itemVars
<1>12. CASE BeginWait(c)
  BY <1>12 DEF BeginWait, itemVars
<1>13. CASE JoinOrWait(c)
  BY <1>13 DEF JoinOrWait, itemVars
<1>14. CASE Cleanup(c)
  BY <1>14 DEF Cleanup, itemVars
<1>15. CASE SpuriousWakeup(c) \/ WaitAgain(c)
  BY <1>15 DEF SpuriousWakeup, WaitAgain, implVars, itemVars
<1>. QED  BY <1>1, <1>2, <1>3, <1>4, <1>5, <1>6, <1>7, <1>8, <1>9, <1>10, <1>11, <1>12,
             <1>13, <1>14, <1>15 DEF CallerStep, CallStep

LEMMA CallsPreserved ==
  ASSUME CallTypes, Calls, NEW c \in Controllers, CallerStep(c)
  PROVE  Calls'
<1>. USE CallerFacts DEF CallTypes, Calls, OneJoins, CallerPCs
<1>1. CASE BeginRun(c)
  BY <1>1 DEF BeginRun
<1>2. CASE StartStep(c)
  BY <1>2 DEF StartStep, StartThreads
<1>3. CASE EndRun(c)
  BY <1>3 DEF EndRun, SetRunning
<1>4. CASE StartFails(c)
  BY <1>4 DEF StartFails, StartThreads, SetRunning
<1>5. CASE MakeFails(c)
  BY <1>5 DEF MakeFails, SetRunning
<1>6. CASE StopReturns(c) \/ WaitReturns(c) \/ WaitEnds(c)
  BY <1>6 DEF StopReturns, WaitReturns, WaitEnds, Finish, implVars
<1>7. CASE BeginStop(c, "stop") \/ BeginStop(c, "gentle_stop")
  BY <1>7 DEF BeginStop
<1>8. CASE Cancel(c)
  BY <1>8 DEF Cancel, implVars
<1>9. CASE DisableFirst(c)
  BY <1>9 DEF DisableFirst
<1>10. CASE DisableQueue(c)
  BY <1>10 DEF DisableQueue
<1>11. CASE DelayedDisable(c)
  BY <1>11 DEF DelayedDisable, implVars, callVars
<1>12. CASE BeginWait(c)
  BY <1>12 DEF BeginWait
<1>13. CASE JoinOrWait(c)
  BY <1>13 DEF JoinOrWait
<1>14. CASE Cleanup(c)
  BY <1>14 DEF Cleanup
<1>15. CASE SpuriousWakeup(c) \/ WaitAgain(c)
  BY <1>15 DEF SpuriousWakeup, WaitAgain, implVars
<1>. QED  BY <1>1, <1>2, <1>3, <1>4, <1>5, <1>6, <1>7, <1>8, <1>9, <1>10, <1>11, <1>12,
             <1>13, <1>14, <1>15 DEF CallerStep, CallStep

LEMMA ReturnsPreserved ==
  ASSUME CallTypes, Calls, Returns, NEW c \in Controllers, CallerStep(c)
  PROVE  Returns'
<1>. USE CallerFacts DEF CallTypes, Calls, Returns, CallerPCs, OneStops, Trusts
<1>1. CASE BeginRun(c)
  BY <1>1 DEF BeginRun
<1>2. CASE StartStep(c)
  BY <1>2 DEF StartStep, StartThreads
<1>3. CASE EndRun(c)
  BY <1>3 DEF EndRun, SetRunning
<1>4. CASE StartFails(c)
  BY <1>4 DEF StartFails, StartThreads, SetRunning
<1>5. CASE MakeFails(c)
  BY <1>5 DEF MakeFails, SetRunning
<1>6. CASE StopReturns(c)
  BY <1>6 DEF StopReturns, Finish, implVars
<1>7. CASE WaitReturns(c) \/ WaitEnds(c)
  BY <1>7 DEF WaitReturns, WaitEnds, Finish, implVars
<1>8. CASE BeginStop(c, "stop") \/ BeginStop(c, "gentle_stop")
  BY <1>8 DEF BeginStop
<1>9. CASE Cancel(c)
  BY <1>9 DEF Cancel, implVars
<1>10. CASE DisableFirst(c)
  BY <1>10 DEF DisableFirst
<1>11. CASE DisableQueue(c)
  BY <1>11 DEF DisableQueue
<1>12. CASE DelayedDisable(c)
  BY <1>12 DEF DelayedDisable, implVars, callVars
<1>13. CASE BeginWait(c)
  BY <1>13 DEF BeginWait
<1>14. CASE JoinOrWait(c)
  BY <1>14 DEF JoinOrWait
<1>15. CASE Cleanup(c)
  BY <1>15 DEF Cleanup
<1>16. CASE SpuriousWakeup(c) \/ WaitAgain(c)
  BY <1>16 DEF SpuriousWakeup, WaitAgain, implVars
<1>. QED  BY <1>1, <1>2, <1>3, <1>4, <1>5, <1>6, <1>7, <1>8, <1>9, <1>10, <1>11, <1>12,
             <1>13, <1>14, <1>15, <1>16 DEF CallerStep, CallStep

-----------------------------------------------------------------------------
(* The types of what the threads work on.                                  *)

QueueTypes ==
  /\ queues \in [QueueNumbers -> Q]
  /\ \A s \in QueueNumbers : Len(queues[s].items) <= QueueDepth

\* One queue changes.
LEMMA OneQueue ==
  ASSUME QueueTypes, NEW s \in QueueNumbers,
         \/ queues' = [queues EXCEPT ![s] = Disabled(queues[s])]
         \/ queues' = [queues EXCEPT ![s] = DelayedDisabled(queues[s])]
         \/ queues' = [queues EXCEPT ![s] = Popped(queues[s])]
         \/ /\ MayPush(queues[s])
            /\ \E e \in Items : queues' = [queues EXCEPT ![s] = Pushed(queues[s], e)]
  PROVE  QueueTypes'
<1>1. queues[s] \in Q /\ Len(queues[s].items) <= QueueDepth
  BY DEF QueueTypes
<1>2. PICK q : /\ queues' = [queues EXCEPT ![s] = q]
               /\ q \in Q /\ Len(q.items) <= QueueDepth
  <2>1. Len(<<>>) <= QueueDepth
    BY ChainAssumption
  <2>. QED  BY <1>1, <2>1, DisabledFacts, PoppedFacts, PushedFacts
<1>. QED  BY <1>2 DEF QueueTypes

LEMMA ThreadTypes ==
  ASSUME WorkTypes, NEW t \in Threads, ThreadStep(t)
  PROVE  WorkTypes'
<1>. USE ChainAssumption, ThreadFacts DEF WorkTypes, ThreadPCs, Items
<1>0. QueueTypes
  BY DEF QueueTypes
<1>1. CASE Read(t)
  <2>1. held' \in [Threads -> 0..MaxItems] /\ produced' \in 0..MaxItems /\ produced' # 0
    BY <1>1 DEF Read
  <2>2. pc' \in [Threads -> ThreadPCs] /\ \A u \in Threads : pc'[u] = "full" <=> held'[u] # 0
    BY <1>1, <2>1 DEF Read, Goto
  <2>. QED  BY <1>1, <2>1, <2>2 DEF Read, stepVars, implVars
<1>2. CASE ReadCancelled(t) \/ Quit(t)
  <2>1. pc' = [pc EXCEPT ![t] = "ending"] /\ pc[t] = "ready"
        /\ UNCHANGED <<queues, stepVars, held, nthreads, nfinals, produced, accepted, consumed>>
    BY <1>2 DEF ReadCancelled, Quit, Goto, implVars, itemVars
  <2>2. pc' \in [Threads -> ThreadPCs] /\ \A u \in Threads : pc'[u] = "full" <=> held[u] # 0
    BY <2>1
  <2>. QED  BY <2>1, <2>2 DEF stepVars
<1>3. CASE Consume(t)
  <2>1. /\ held' = [held EXCEPT ![t] = 0] /\ pc' = [pc EXCEPT ![t] = "ready"]
        /\ consumed' = consumed \cup {held[t]} /\ held[t] \in 1..MaxItems
        /\ UNCHANGED <<queues, stepVars, nthreads, nfinals, produced, accepted>>
    BY <1>3 DEF Consume, Goto, implVars
  <2>2. /\ held' \in [Threads -> 0..MaxItems] /\ pc' \in [Threads -> ThreadPCs]
        /\ \A u \in Threads : u # t => pc'[u] = pc[u] /\ held'[u] = held[u]
        /\ pc'[t] = "ready" /\ held'[t] = 0
    BY <2>1
  <2>. QED  BY <2>1, <2>2 DEF stepVars
<1>4. CASE PushItem(t)
  <2>1. t[1] \in QueueNumbers /\ held[t] \in Items
    BY <1>4 DEF PushItem, QueueNumbers
  <2>2. MayPush(queues[t[1]]) /\ queues' = [queues EXCEPT ![t[1]] = Pushed(queues[t[1]], held[t])]
        /\ accepted' \subseteq accepted \cup {held[t]}
        /\ UNCHANGED <<stepVars, nthreads, nfinals, produced, consumed>>
    BY <1>4 DEF PushItem, implVars
  <2>3. QueueTypes'
    BY <1>0, <2>1, <2>2, OneQueue
  <2>4. held' \in [Threads -> 0..MaxItems] /\ pc' \in [Threads -> ThreadPCs]
        /\ \A u \in Threads : pc'[u] = "full" <=> held'[u] # 0
    BY <1>4 DEF PushItem, Goto
  <2>. QED  BY <2>1, <2>2, <2>3, <2>4 DEF QueueTypes, stepVars
<1>5. CASE PopItem(t)
  <2>1. t[1] - 1 \in QueueNumbers
    <3>1. t[1] > 1 /\ t[1] \in 1..NSteps
      BY <1>5 DEF PopItem
    <3>. QED  BY ONLY <3>1, ChainAssumption DEF ChainAssumption, QueueNumbers
  <2>. DEFINE q == queues[t[1] - 1]
  <2>2. queues' = [queues EXCEPT ![t[1] - 1] = Popped(q)] /\ q \in Q
        /\ UNCHANGED <<stepVars, nthreads, nfinals, produced, accepted, consumed>>
    BY <1>5, <2>1 DEF PopItem, implVars, itemVars
  <2>3. QueueTypes'
    BY <1>0, <2>1, <2>2, OneQueue
  <2>4. Takes(q) => Head(q.items) \in 1..MaxItems
    BY <2>2, PoppedFacts
  <2>5. held' \in [Threads -> 0..MaxItems] /\ pc' \in [Threads -> ThreadPCs]
        /\ \A u \in Threads : pc'[u] = "full" <=> held'[u] # 0
    <3>1. CASE Takes(q)
      <4>1. /\ held' = [held EXCEPT ![t] = Head(q.items)]
            /\ pc' = [pc EXCEPT ![t] = "full"]
        BY <1>5, <3>1 DEF PopItem, Goto
      <4>2. /\ held' \in [Threads -> 0..MaxItems] /\ pc' \in [Threads -> ThreadPCs]
            /\ \A u \in Threads : u # t => pc'[u] = pc[u] /\ held'[u] = held[u]
            /\ pc'[t] = "full" /\ held'[t] # 0
        <5>1. PICK e \in 1..MaxItems : e = Head(q.items)
          BY <2>4, <3>1
        <5>2. held' = [held EXCEPT ![t] = e]
          BY <4>1, <5>1
        <5>. QED  BY ONLY <4>1, <5>1, <5>2, WorkTypes DEF WorkTypes, ThreadPCs
      <4>. QED  BY <4>2
    <3>2. CASE ~Takes(q)
      <4>1. held' = held /\ pc' = [pc EXCEPT ![t] = "ending"] /\ pc[t] = "ready"
        BY <1>5, <3>2 DEF PopItem, Goto
      <4>. QED  BY <4>1
    <3>. QED  BY <3>1, <3>2
  <2>. QED  BY <2>2, <2>3, <2>5 DEF QueueTypes, stepVars
<1>6. CASE StepDone(t)
  <2>1. rsa_nthread' \in [Steps -> Nat]
    BY <1>6 DEF StepDone
  <2>2. pc' \in [Threads -> ThreadPCs] /\ \A u \in Threads : pc'[u] = "full" <=> held[u] # 0
    BY <1>6 DEF StepDone, Goto
  <2>. QED  BY <1>6, <2>1, <2>2 DEF StepDone, implVars, itemVars
<1>7. CASE DisableOut(t) \/ DisableIn(t)
  <2>1. QueueTypes'
    <3>1. CASE queues' = queues
      BY <1>0, <3>1 DEF QueueTypes
    <3>2. CASE DisableOut(t) /\ t[1] # NSteps
      <4>1. t[1] \in QueueNumbers /\ queues' = [queues EXCEPT ![t[1]] = DelayedDisabled(queues[t[1]])]
        BY <3>2 DEF DisableOut, QueueNumbers
      <4>. QED  BY <1>0, <4>1, OneQueue
    <3>3. CASE DisableIn(t) /\ t[1] # 1
      <4>1. t[1] - 1 \in QueueNumbers
        <5>1. t[1] \in 1..NSteps
          OBVIOUS
        <5>. QED  BY ONLY <3>3, <5>1, ChainAssumption DEF ChainAssumption, QueueNumbers
      <4>2. queues' = [queues EXCEPT ![t[1] - 1] = Disabled(queues[t[1] - 1])]
        BY <3>3 DEF DisableIn
      <4>. QED  BY <1>0, <4>1, <4>2, OneQueue
    <3>. QED  BY <1>7, <3>1, <3>2, <3>3 DEF DisableOut, DisableIn
  <2>2. pc' \in [Threads -> ThreadPCs] /\ \A u \in Threads : pc'[u] = "full" <=> held[u] # 0
    BY <1>7 DEF DisableOut, DisableIn, Goto
  <2>. QED  BY <1>7, <2>1, <2>2 DEF DisableOut, DisableIn, QueueTypes, stepVars, implVars, itemVars
<1>8. CASE Leave(t)
  BY <1>8 DEF Leave, Goto, stepVars, itemVars
<1>9. CASE DoFinals(t)
  BY <1>9 DEF DoFinals, Goto, stepVars, itemVars
<1>. QED  BY <1>1, <1>2, <1>3, <1>4, <1>5, <1>6, <1>7, <1>8, <1>9 DEF ThreadStep

\* n threads of step s have been started: none of that step was there before.
Started(s, n) ==
  /\ userdata' = [userdata EXCEPT ![s] = TRUE]
  /\ sync_cancelled' = [sync_cancelled EXCEPT ![s] = FALSE]
  /\ rsa_nthread' = [rsa_nthread EXCEPT ![s] = Width[s]]
  /\ nthreads' = nthreads + n
  /\ pc' = [t \in Threads |-> IF t \in {s} \X (1..n) THEN "ready" ELSE pc[t]]
  /\ \A t \in Team(s) : pc[t] = "none"
  /\ \A t \in Threads : pc[t] \notin {"finals", "gone"}

LEMMA Starting ==
  ASSUME CallTypes, Calls, Lives, NEW c \in Controllers, StartStep(c) \/ StartFails(c)
  PROVE  /\ \E n \in 0..Width[next[c]] : Started(next[c], n)
         /\ next[c] \in Steps /\ c = Runner /\ cpc[c] = "spawn" /\ lock = c
         /\ UNCHANGED <<queues, held, nfinals, itemVars, joining, runs>>
<1>. USE ThreadFacts, ChainAssumption
<1>1. next[c] \in Steps /\ c = Runner /\ cpc[c] = "spawn" /\ lock = c
  BY DEF StartStep, StartFails, StartThreads, CallTypes, Calls
<1>2. Width[next[c]] \in Nat
  BY <1>1
<1>3. PICK n \in 0..Width[next[c]] : StartThreads(c, n)
  <2>1. CASE StartStep(c)
    BY <1>2, <2>1 DEF StartStep
  <2>2. CASE StartFails(c)
    <3>1. PICK n \in 0..(Width[next[c]] - 1) : StartThreads(c, n)
      BY <2>2 DEF StartFails
    <3>2. n \in 0..Width[next[c]]
      BY <1>2
    <3>. QED  BY <3>1, <3>2
  <2>. QED  BY <2>1, <2>2
<1>4. /\ \A t \in Team(next[c]) : pc[t] = "none"
      /\ \A t \in Threads : pc[t] \notin {"finals", "gone"}
  BY <1>1 DEF Lives, Team
<1>5. Started(next[c], n)
  BY <1>3, <1>4 DEF StartThreads, Started
<1>6. UNCHANGED <<queues, held, nfinals, itemVars, joining, runs>>
  BY DEF StartStep, StartFails
<1>. QED  BY <1>1, <1>5, <1>6

LEMMA CallerTypes ==
  ASSUME CallTypes, WorkTypes, Calls, Lives, NEW c \in Controllers, CallerStep(c)
  PROVE  WorkTypes'
<1>. USE ChainAssumption, ThreadFacts DEF WorkTypes
<1>0. QueueTypes
  BY DEF QueueTypes
<1>1. CASE BeginRun(c)
  <2>1. queues' = [s \in QueueNumbers |-> ResizeEnabled(queues[s], 0)]
    BY <1>1 DEF BeginRun
  <2>2. \A s \in QueueNumbers : ResizeEnabled(queues[s], 0) \in Q
                                /\ Len(ResizeEnabled(queues[s], 0).items) <= QueueDepth
    BY DisabledFacts
  <2>3. QueueTypes'
    BY <2>1, <2>2 DEF QueueTypes
  <2>. QED  BY <1>1, <2>3 DEF BeginRun, QueueTypes, stepVars, itemVars, ThreadPCs, Lives
<1>2. CASE StartStep(c) \/ StartFails(c)
  <2>1. /\ next[c] \in Steps
        /\ UNCHANGED <<queues, held, nfinals, itemVars>>
    BY <1>2, Starting
  <2>2. PICK n \in 0..Width[next[c]] : Started(next[c], n)
    BY <1>2, Starting
  <2>3. {next[c]} \X (1..n) \subseteq Team(next[c])
    BY <2>1, TeamIsWidth
  <2>4. /\ pc' \in [Threads -> ThreadPCs]
        /\ \A t \in Threads : pc'[t] = pc[t] \/ (pc'[t] = "ready" /\ pc[t] = "none")
    BY <2>2, <2>3 DEF Started, ThreadPCs
  <2>5. n \in Nat /\ nthreads' \in Nat
    BY <2>1, <2>2 DEF Started
  <2>. QED  BY <2>1, <2>2, <2>4, <2>5 DEF Started, itemVars
<1>3. ASSUME NEW s \in QueueNumbers,
             \/ queues' = [queues EXCEPT ![s] = Disabled(queues[s])]
             \/ queues' = [queues EXCEPT ![s] = DelayedDisabled(queues[s])],
             UNCHANGED <<nthreads, stepVars, threadVars, nfinals, produced, accepted, consumed>>
      PROVE  WorkTypes'
  <2>1. QueueTypes'
    BY <1>0, <1>3, OneQueue
  <2>. QED  BY <1>3, <2>1 DEF QueueTypes, stepVars, threadVars
<1>4. CASE DisableFirst(c) \/ DelayedDisable(c)
  <2>1. 1 \in QueueNumbers
    BY DEF QueueNumbers
  <2>. QED  BY <1>3, <1>4, <2>1 DEF DisableFirst, DelayedDisable, implVars, itemVars
<1>5. CASE DisableQueue(c)
  <2>1. next[c] \in QueueNumbers
    BY <1>5 DEF DisableQueue, CallTypes
  <2>. QED  BY <1>3, <1>5, <2>1 DEF DisableQueue
<1>6. CASE Cancel(c) \/ Cleanup(c)
  BY <1>6 DEF Cancel, Cleanup, implVars, threadVars, itemVars
<1>7. CASE \/ EndRun(c) \/ MakeFails(c) \/ StopReturns(c) \/ WaitReturns(c) \/ WaitEnds(c)
           \/ BeginStop(c, "stop") \/ BeginStop(c, "gentle_stop") \/ BeginWait(c)
           \/ JoinOrWait(c) \/ SpuriousWakeup(c) \/ WaitAgain(c)
  <2>1. UNCHANGED <<nthreads, queues, stepVars, threadVars, nfinals, itemVars>>
    BY <1>7 DEF EndRun, MakeFails, StopReturns, WaitReturns, WaitEnds, BeginStop, BeginWait,
                JoinOrWait, SpuriousWakeup, WaitAgain, implVars
  <2>. QED  BY <2>1 DEF stepVars, threadVars, itemVars
<1>. QED  BY <1>1, <1>2, <1>4, <1>5, <1>6, <1>7 DEF CallerStep, CallStep

-----------------------------------------------------------------------------
(* Which threads there are.                                                *)

\* A thread moves by itself, and only on.
Moves(t, w) ==
  /\ w \in ThreadPCs \ {"none"} /\ pc' = [pc EXCEPT ![t] = w]
  /\ pc[t] \notin {"none", "gone"}
  /\ w = "finals" => pc[t] = "leave"
  /\ w = "gone" => pc[t] \in {"leave", "finals"}
  /\ w \in {"ready", "full", "ending"} => pc[t] \in {"ready", "full"}
  /\ w \in {"disable_out", "disable_in", "leave"} =>
       pc[t] \in {"ending", "disable_out", "disable_in"}

LEMMA ThreadMoves ==
  ASSUME WorkTypes, NEW t \in Threads, ThreadStep(t)
  PROVE  /\ \E w \in ThreadPCs : Moves(t, w)
         /\ pc[t] = "leave" => lock = "none"
         /\ pc[t] # "finals" => UNCHANGED <<finalized, nfinals>>
         /\ pc[t] # "leave" => UNCHANGED nthreads
         /\ pc[t] # "ending" => UNCHANGED rsa_nthread
         /\ UNCHANGED userdata
<1>. USE DEF ThreadPCs, Goto, Moves
<1>1. CASE Read(t)
  <2>1. Moves(t, "full") /\ pc[t] = "ready"
    BY <1>1 DEF Read
  <2>. QED  BY <1>1, <2>1 DEF Read, implVars, stepVars
<1>2. CASE ReadCancelled(t) \/ Quit(t)
  <2>1. Moves(t, "ending") /\ pc[t] = "ready"
    BY <1>2 DEF ReadCancelled, Quit
  <2>. QED  BY <1>2, <2>1 DEF ReadCancelled, Quit, implVars, stepVars
<1>3. CASE Consume(t)
  <2>1. Moves(t, "ready") /\ pc[t] = "full"
    BY <1>3 DEF Consume
  <2>. QED  BY <1>3, <2>1 DEF Consume, implVars, stepVars
<1>4. CASE PushItem(t)
  <2>1. (Moves(t, "ready") \/ Moves(t, "ending")) /\ pc[t] = "full"
    BY <1>4 DEF PushItem
  <2>. QED  BY <1>4, <2>1 DEF PushItem, implVars, stepVars
<1>5. CASE PopItem(t)
  <2>1. (Moves(t, "full") \/ Moves(t, "ending")) /\ pc[t] = "ready"
    BY <1>5 DEF PopItem
  <2>. QED  BY <1>5, <2>1 DEF PopItem, implVars, stepVars
<1>6. CASE StepDone(t)
  <2>1. (Moves(t, "disable_out") \/ Moves(t, "leave")) /\ pc[t] = "ending"
    BY <1>6 DEF StepDone
  <2>. QED  BY <1>6, <2>1 DEF StepDone, implVars
<1>7. CASE DisableOut(t) \/ DisableIn(t)
  <2>1. (Moves(t, "disable_in") \/ Moves(t, "leave")) /\ pc[t] \in {"disable_out", "disable_in"}
    BY <1>7 DEF DisableOut, DisableIn
  <2>. QED  BY <1>7, <2>1 DEF DisableOut, DisableIn, implVars, stepVars
<1>8. CASE Leave(t)
  <2>1. (Moves(t, "finals") \/ Moves(t, "gone")) /\ pc[t] = "leave"
    BY <1>8 DEF Leave
  <2>. QED  BY <1>8, <2>1 DEF Leave, stepVars
<1>9. CASE DoFinals(t)
  <2>1. Moves(t, "gone") /\ pc[t] = "finals"
    BY <1>9 DEF DoFinals
  <2>. QED  BY <1>9, <2>1 DEF DoFinals, stepVars
<1>. QED  BY <1>1, <1>2, <1>3, <1>4, <1>5, <1>6, <1>7, <1>8, <1>9 DEF ThreadStep

\* What a call that is not run() does to the threads and the finals: nothing.
Aside ==
  /\ UNCHANGED <<pc, nthreads, nfinals, rsa_nthread, runs>>
  /\ \/ /\ UNCHANGED <<running, finalized, userdata>>
        /\ cpc'[Runner] = "spawn" <=> cpc[Runner] = "spawn"
        /\ cpc[Runner] = "spawn" => next'[Runner] = next[Runner]
     \/ /\ cpc[Runner] = "spawn" /\ cpc'[Runner] # "spawn"
        /\ running' = TRUE /\ finalized' = FALSE /\ UNCHANGED userdata
     \/ /\ AllGone /\ cpc'[Runner] # "spawn" /\ cpc[Runner] # "spawn"
        /\ running' = FALSE /\ UNCHANGED finalized

LEMMA CallerMoves ==
  ASSUME CallTypes, Calls, NEW c \in Controllers, CallerStep(c)
  PROVE  BeginRun(c) \/ StartStep(c) \/ StartFails(c) \/ Aside
<1>. USE CallerFacts DEF CallTypes, Calls, CallerPCs, Aside
<1>1. CASE EndRun(c) \/ MakeFails(c)
  BY <1>1 DEF EndRun, MakeFails, SetRunning, stepVars, threadVars
<1>2. CASE StopReturns(c) \/ WaitReturns(c) \/ WaitEnds(c)
  BY <1>2 DEF StopReturns, WaitReturns, WaitEnds, Finish, implVars, stepVars, threadVars
<1>3. CASE BeginStop(c, "stop") \/ BeginStop(c, "gentle_stop") \/ BeginWait(c)
  BY <1>3 DEF BeginStop, BeginWait, stepVars, threadVars
<1>4. CASE Cancel(c)
  BY <1>4 DEF Cancel, implVars, threadVars
<1>5. CASE DisableFirst(c)
  BY <1>5 DEF DisableFirst, stepVars, threadVars
<1>6. CASE DisableQueue(c)
  BY <1>6 DEF DisableQueue, stepVars, threadVars
<1>7. CASE DelayedDisable(c)
  BY <1>7 DEF DelayedDisable, implVars, stepVars, threadVars, callVars
<1>8. CASE JoinOrWait(c)
  BY <1>8 DEF JoinOrWait, stepVars, threadVars
<1>9. CASE Cleanup(c)
  BY <1>9 DEF Cleanup, threadVars
<1>10. CASE SpuriousWakeup(c) \/ WaitAgain(c)
  BY <1>10 DEF SpuriousWakeup, WaitAgain, implVars, stepVars, threadVars
<1>. QED  BY <1>1, <1>2, <1>3, <1>4, <1>5, <1>6, <1>7, <1>8, <1>9, <1>10 DEF CallerStep, CallStep

LEMMA ThreadLives ==
  ASSUME CallTypes, WorkTypes, Calls, Lives, NEW t \in Threads, ThreadStep(t)
  PROVE  Lives'
<1>1. UNCHANGED <<lock, running, cpc, next, runs>>
  BY ThreadsLeaveCalls
<1>2. PICK w \in ThreadPCs : Moves(t, w)
  BY ThreadMoves
<1>3. /\ pc[t] = "leave" => lock = "none"
      /\ pc[t] # "finals" => UNCHANGED <<finalized, nfinals>>
  BY ThreadMoves
<1>4. \A u \in Threads : pc'[u] = IF u = t THEN w ELSE pc[u]
  BY <1>2 DEF WorkTypes, Moves
<1>5. runs # 0
  BY <1>2 DEF Lives, Moves
<1>6. ASSUME cpc[Runner] = "spawn"
      PROVE  pc[t] \notin {"finals", "leave"} /\ w \notin {"finals", "gone"}
  BY <1>2, <1>3, <1>6, CallerFacts DEF Lives, Calls, Moves
<1>. QED  BY <1>1, <1>2, <1>3, <1>4, <1>5, <1>6 DEF Lives, Moves

LEMMA CallerLives ==
  ASSUME CallTypes, WorkTypes, Calls, Lives, NEW c \in Controllers, CallerStep(c)
  PROVE  Lives'
<1>. USE CallerFacts, ThreadFacts
<1>1. CASE BeginRun(c)
  <2>1. runs' = 1 /\ nfinals' = 0 /\ \A t \in Threads : pc'[t] = "none"
    BY <1>1 DEF BeginRun, CallTypes, Lives
  <2>. QED  BY <2>1 DEF Lives
<1>2. CASE StartStep(c) \/ StartFails(c)
  <2>1. /\ next[c] \in Steps /\ c = Runner /\ cpc[c] = "spawn" /\ runs' = runs /\ nfinals' = nfinals
    BY <1>2, Starting
  <2>2. PICK n \in 0..Width[next[c]] : Started(next[c], n)
    BY <1>2, Starting
  <2>3. runs' # 0 /\ nfinals' = 0
    BY <2>1 DEF Calls, Lives
  <2>4. \A t \in Threads : /\ pc'[t] \notin {"finals", "gone"}
                           /\ pc'[t] # "none" => pc[t] # "none" \/ t[1] = next[c]
    <3>1. {next[c]} \X (1..n) \subseteq Team(next[c])
      BY <2>1, TeamIsWidth
    <3>. QED  BY <2>2, <3>1 DEF Started, Team
  <2>5. CASE StartStep(c)
    <3>1. next'[c] = next[c] - 1 /\ cpc' = cpc
      BY <2>5 DEF StartStep, CallTypes
    <3>2. \A t \in Threads : t[1] <= next'[c] => pc'[t] = "none"
      <4>1. \A t \in Threads : t[1] <= next[c] => pc[t] = "none"
        BY <2>1 DEF Lives
      <4>2. \A t \in Threads : t[1] <= next'[c] => t[1] <= next[c] /\ t[1] # next[c]
        BY <2>1, <3>1
      <4>. QED  BY <2>4, <4>1, <4>2
    <3>. QED  BY <2>1, <2>3, <2>4, <3>1, <3>2 DEF Lives
  <2>6. CASE StartFails(c)
    <3>1. running' = TRUE /\ cpc'[Runner] # "spawn"
      BY <2>1, <2>6 DEF StartFails, SetRunning, CallTypes
    <3>. QED  BY <2>3, <3>1 DEF Lives
  <2>. QED  BY <1>2, <2>5, <2>6
<1>3. CASE Aside
  BY <1>3 DEF Aside, AllGone, Lives
<1>. QED  BY <1>1, <1>2, <1>3, CallerMoves

-----------------------------------------------------------------------------
(* The count of the threads of the chain, and the finals.                  *)

LEMMA BusyIsFinite == IsFiniteSet(Busy) /\ Cardinality(Busy) \in Nat
<1>1. Busy \in SUBSET Threads
  BY DEF Busy
<1>. QED  BY <1>1, ThreadFacts, FS_Subset, FS_CardinalityType

LEMMA ThreadFinals ==
  ASSUME CallTypes, WorkTypes, Calls, Lives, Finals, NEW t \in Threads, ThreadStep(t)
  PROVE  Finals'
<1>1. PICK w \in ThreadPCs : Moves(t, w)
  BY ThreadMoves
<1>2. \A u \in Threads : pc'[u] = IF u = t THEN w ELSE pc[u]
  BY <1>1 DEF WorkTypes, Moves
<1>3. CASE pc[t] \notin {"leave", "finals"}
  <2>1. UNCHANGED <<finalized, nfinals, nthreads>>
    BY <1>3, ThreadMoves
  <2>2. w \notin {"none", "finals", "gone"} /\ pc[t] \notin {"none", "finals", "gone"}
    BY <1>1, <1>3 DEF Moves
  <2>3. Busy' = Busy
    BY <1>2, <2>2 DEF Busy
  <2>. QED  BY <1>2, <2>1, <2>2, <2>3 DEF Finals
<1>4. CASE pc[t] = "leave"
  <2>1. /\ nthreads' = IF nthreads > 0 THEN nthreads - 1 ELSE 0
        /\ w = IF nthreads' = 0 THEN "finals" ELSE "gone"
        /\ UNCHANGED <<finalized, nfinals>>
    <3>1. Leave(t)
      BY <1>4 DEF ThreadStep, Read, ReadCancelled, Quit, PushItem, PopItem, Consume, StepDone,
                  DisableOut, DisableIn, DoFinals
    <3>2. pc'[t] = w
      BY <1>2
    <3>. QED  BY <3>1, <3>2 DEF Leave, Goto, WorkTypes
  <2>2. t \in Busy /\ Busy' = Busy \ {t}
    <3>1. w \in {"finals", "gone"}
      BY <2>1
    <3>. QED  BY <1>2, <1>4, <3>1 DEF Busy
  <2>3. /\ Cardinality(Busy') = Cardinality(Busy) - 1
        /\ IsFiniteSet(Busy') /\ Cardinality(Busy') \in Nat
    BY <2>2, BusyIsFinite, FS_RemoveElement, FS_CardinalityType
  <2>4. nthreads' = Cardinality(Busy')
    BY <2>1, <2>3, BusyIsFinite DEF Finals
  <2>5. nthreads' = 0 <=> Busy' = {}
    BY <2>3, <2>4, FS_EmptySet
  <2>6. \A u \in Threads : pc[u] # "finals"
    BY <2>2 DEF Finals
  <2>. QED  BY <1>2, <2>1, <2>4, <2>5, <2>6 DEF Finals
<1>5. CASE pc[t] = "finals"
  <2>1. DoFinals(t)
    BY <1>5 DEF ThreadStep, Read, ReadCancelled, Quit, PushItem, PopItem, Consume, StepDone,
                DisableOut, DisableIn, Leave
  <2>2. running
    BY <1>5 DEF Lives
  <2>3. /\ finalized' = TRUE /\ nfinals' = 1 /\ nthreads' = nthreads
    BY <2>1, <2>2 DEF DoFinals, CallTypes, Finals
  <2>4. Busy' = Busy /\ w = "gone"
    <3>1. pc'[t] = w /\ pc'[t] = "gone"
      BY <1>2, <2>1 DEF DoFinals, Goto, WorkTypes
    <3>. QED  BY <1>2, <1>5, <3>1 DEF Busy
  <2>5. \A u \in Threads : pc'[u] # "finals"
    BY <1>2, <1>5, <2>4 DEF Finals
  <2>. QED  BY <2>3, <2>4, <2>5 DEF Finals
<1>. QED  BY <1>3, <1>4, <1>5

LEMMA CallerFinals ==
  ASSUME CallTypes, WorkTypes, Calls, Lives, Finals, NEW c \in Controllers, CallerStep(c)
  PROVE  Finals'
<1>1. CASE BeginRun(c)
  <2>1. nthreads' = 0 /\ nfinals' = 0 /\ finalized' = FALSE /\ \A t \in Threads : pc'[t] = "none"
    BY <1>1 DEF BeginRun, CallTypes, Lives
  <2>2. Busy' = {}
    BY <2>1 DEF Busy
  <2>. QED  BY <2>1, <2>2, FS_EmptySet DEF Finals
<1>2. CASE StartStep(c) \/ StartFails(c)
  <2>1. next[c] \in Steps /\ c = Runner /\ cpc[c] = "spawn" /\ nfinals' = nfinals
    BY <1>2, Starting
  <2>2. PICK n \in 0..Width[next[c]] : Started(next[c], n)
    BY <1>2, Starting
  <2>. DEFINE new == {next[c]} \X (1..n)
  <2>3. /\ new \subseteq Threads /\ IsFiniteSet(new) /\ Cardinality(new) = n
        /\ \A t \in new : pc[t] = "none"
    <3>1. new \subseteq Team(next[c]) /\ IsFiniteSet(new) /\ Cardinality(new) = n
      BY <2>1, TeamIsWidth
    <3>2. \A t \in Team(next[c]) : t \in Threads /\ pc[t] = "none"
      BY <2>2 DEF Started, Team
    <3>. QED  BY <3>1, <3>2
  <2>4. \A t \in Threads : /\ pc'[t] = IF t \in new THEN "ready" ELSE pc[t]
                           /\ pc[t] \notin {"finals", "gone"} /\ pc'[t] \notin {"finals", "gone"}
    BY <2>2 DEF Started
  <2>. HIDE DEF new
  <2>5. Busy' = Busy \cup new /\ Busy \cap new = {}
    BY <2>3, <2>4 DEF Busy
  <2>6. Cardinality(Busy') = Cardinality(Busy) + n
    <3>1. n \in Nat /\ Cardinality({}) = 0
      BY <2>1, FS_EmptySet, ChainAssumption
    <3>2. Cardinality(Busy \cup new) =
            Cardinality(Busy) + Cardinality(new) - Cardinality(Busy \cap new)
      BY <2>3, BusyIsFinite, FS_Union
    <3>3. Cardinality(Busy') = Cardinality(Busy) + n - 0
      BY <2>3, <2>5, <3>1, <3>2
    <3>. QED  BY <3>1, <3>3, BusyIsFinite
  <2>7. nfinals' = 0 /\ finalized' = FALSE
    <3>1. nfinals = 0 /\ finalized = FALSE
      BY <2>1 DEF Lives, Finals, CallTypes
    <3>. QED  BY <1>2, <2>1, <3>1 DEF StartStep, StartFails, SetRunning
  <2>. QED  BY <2>2, <2>4, <2>6, <2>7 DEF Finals, Started
<1>3. CASE Aside
  <2>1. Busy' = Busy /\ nthreads' = nthreads /\ nfinals' = nfinals /\ pc' = pc
    BY <1>3 DEF Aside, Busy
  <2>2. finalized' = finalized
    <3>1. cpc[Runner] = "spawn" => finalized = FALSE
      BY DEF Finals, Lives, CallTypes
    <3>. QED  BY <1>3, <3>1 DEF Aside
  <2>. QED  BY <2>1, <2>2 DEF Finals
<1>. QED  BY <1>1, <1>2, <1>3, CallerMoves

-----------------------------------------------------------------------------
(* The count of the threads of a step.                                     *)

LEMMA UndoneIsFinite ==
  ASSUME NEW s \in Steps
  PROVE  IsFiniteSet(Undone(s)) /\ Cardinality(Undone(s)) \in Nat
<1>1. Undone(s) \in SUBSET Team(s)
  BY DEF Undone
<1>. QED  BY <1>1, ThreadFacts, FS_Subset, FS_CardinalityType

LEMMA ThreadCounts ==
  ASSUME WorkTypes, Counts, NEW t \in Threads, ThreadStep(t)
  PROVE  Counts'
<1>. USE ThreadFacts
<1>1. PICK w \in ThreadPCs : Moves(t, w)
  BY ThreadMoves
<1>2. /\ \A u \in Threads : pc'[u] = IF u = t THEN w ELSE pc[u]
      /\ pc[t] # "none" /\ w # "none"
  BY <1>1 DEF WorkTypes, Moves
<1>3. \A s \in Steps : Team(s) \subseteq Threads
  BY DEF Team
<1>4. CASE pc[t] # "ending"
  <2>1. pc[t] \in {"none", "ready", "full", "ending"} <=> w \in {"none", "ready", "full", "ending"}
    BY <1>1, <1>4 DEF Moves, ThreadPCs, WorkTypes
  <2>2. \A s \in Steps : Undone(s)' = Undone(s)
    BY <1>2, <1>3, <2>1 DEF Undone, Team
  <2>3. rsa_nthread' = rsa_nthread
    BY <1>4, ThreadMoves
  <2>4. w \in {"disable_out", "disable_in"} => pc[t] \in {"disable_out", "disable_in"}
    BY <1>1, <1>4 DEF Moves
  <2>. QED  BY <1>2, <1>3, <2>2, <2>3, <2>4 DEF Counts
<1>5. CASE pc[t] = "ending"
  <2>1. StepDone(t)
    BY <1>5 DEF ThreadStep, Read, ReadCancelled, Quit, PushItem, PopItem, Consume, Leave,
                DisableOut, DisableIn, DoFinals
  <2>. DEFINE s == t[1]
              n == IF rsa_nthread[s] > 0 THEN rsa_nthread[s] - 1 ELSE 0
  <2>2. /\ s \in Steps /\ rsa_nthread' = [rsa_nthread EXCEPT ![s] = n]
        /\ rsa_nthread'[s] = n /\ \A r \in Steps : r # s => rsa_nthread'[r] = rsa_nthread[r]
        /\ w = IF n = 0 THEN "disable_out" ELSE "leave"
    BY <1>2, <2>1 DEF StepDone, Goto, WorkTypes
  <2>3. /\ t \in Team(s) /\ t \in Undone(s) /\ Undone(s)' = Undone(s) \ {t}
        /\ \A r \in Steps : r # s => Undone(r)' = Undone(r) /\ t \notin Team(r)
    BY <1>2, <1>5, <2>2 DEF Undone, Team
  <2>4. /\ rsa_nthread[s] = Cardinality(Undone(s))
        /\ Cardinality(Undone(s)') = Cardinality(Undone(s)) - 1
        /\ Cardinality(Undone(s)') \in Nat /\ IsFiniteSet(Undone(s)')
    <3>1. rsa_nthread[s] = Cardinality(Undone(s))
      BY <1>5, <2>2, <2>3 DEF Counts
    <3>2. /\ Cardinality(Undone(s) \ {t}) = Cardinality(Undone(s)) - 1
          /\ IsFiniteSet(Undone(s) \ {t})
      BY <2>2, <2>3, UndoneIsFinite, FS_RemoveElement
    <3>. QED  BY <2>3, <3>1, <3>2, FS_CardinalityType
  <2>5. n = Cardinality(Undone(s)')
    BY <2>2, <2>4, UndoneIsFinite
  <2>6. w = "disable_out" => Undone(s)' = {}
    BY <2>2, <2>4, <2>5, FS_EmptySet
  <2>7. \A r \in Steps : (\E u \in Team(r) : pc[u] # "none")' /\ r # s
                            => \E u \in Team(r) : pc[u] # "none"
    BY <1>2, <1>3, <2>3 DEF Team
  <2>8. \A r \in Steps : (\E u \in Team(r) : pc[u] # "none")' => (rsa_nthread[r] = Cardinality(Undone(r)))'
    <3>1. SUFFICES ASSUME NEW r \in Steps, (\E u \in Team(r) : pc[u] # "none")'
                   PROVE  (rsa_nthread[r] = Cardinality(Undone(r)))'
      OBVIOUS
    <3>2. CASE r = s
      BY <2>2, <2>5, <3>2
    <3>3. CASE r # s
      <4>1. rsa_nthread[r] = Cardinality(Undone(r))
        BY <2>7, <3>1, <3>3 DEF Counts
      <4>. QED  BY <2>2, <2>3, <3>3, <4>1
    <3>. QED  BY <3>2, <3>3
  <2>9. ASSUME NEW u \in Threads, pc'[u] \in {"disable_out", "disable_in"}
        PROVE  Undone(u[1])' = {}
    <3>1. CASE u = t
      BY <1>2, <2>2, <2>6, <2>9, <3>1
    <3>2. CASE u # t
      BY <1>2, <2>3, <2>9, <3>2 DEF Counts
    <3>. QED  BY <3>1, <3>2
  <2>. QED  BY <2>8, <2>9 DEF Counts
<1>. QED  BY <1>4, <1>5

LEMMA CallerCounts ==
  ASSUME CallTypes, WorkTypes, Calls, Lives, Counts, NEW c \in Controllers, CallerStep(c)
  PROVE  Counts'
<1>. USE ThreadFacts
<1>0. \A s \in Steps : Team(s) \subseteq Threads
  BY DEF Team
<1>1. CASE BeginRun(c)
  <2>1. \A t \in Threads : pc'[t] = "none"
    BY <1>1 DEF BeginRun
  <2>. QED  BY <1>0, <2>1 DEF Counts, Team
<1>2. CASE StartStep(c) \/ StartFails(c)
  <2>1. PICK s \in Steps : s = next[c]
    BY <1>2, Starting
  <2>2. PICK n \in 0..Width[s] : Started(s, n)
    BY <1>2, <2>1, Starting
  <2>3. /\ {s} \X (1..n) \subseteq Team(s)
        /\ \A t \in Team(s) : pc'[t] \in {"none", "ready"}
        /\ \A t \in Threads : t[1] # s => pc'[t] = pc[t]
        /\ rsa_nthread'[s] = Width[s]
        /\ \A r \in Steps : r # s => rsa_nthread'[r] = rsa_nthread[r]
    <3>1. {s} \X (1..n) \subseteq Team(s)
      BY <2>1, <2>2, TeamIsWidth
    <3>2. \A t \in Threads : /\ t[1] = s => pc'[t] \in {"none", "ready"}
                             /\ t[1] # s => pc'[t] = pc[t]
      BY <2>2, <3>1 DEF Started, Team
    <3>. QED  BY <2>1, <2>2, <3>1, <3>2 DEF Started, Team, WorkTypes
  <2>4. Undone(s)' = Team(s) /\ \A r \in Steps : r # s => Undone(r)' = Undone(r)
    <3>1. Undone(s)' = Team(s)
      BY <2>3 DEF Undone
    <3>2. ASSUME NEW r \in Steps, r # s PROVE Undone(r)' = Undone(r)
      <4>1. \A t \in Team(r) : pc'[t] = pc[t]
        BY <2>3, <3>2 DEF Team
      <4>. QED  BY <4>1 DEF Undone
    <3>. QED  BY <3>1, <3>2
  <2>5. rsa_nthread'[s] = Cardinality(Undone(s)')
    BY <2>1, <2>3, <2>4
  <2>7. ASSUME NEW r \in Steps, (\E u \in Team(r) : pc[u] # "none")'
        PROVE  rsa_nthread'[r] = Cardinality(Undone(r)')
    <3>1. CASE r = s
      BY <2>5, <3>1 DEF Undone
    <3>2. CASE r # s
      <4>1. \E u \in Team(r) : pc[u] # "none"
        BY <2>3, <2>7, <3>2 DEF Team
      <4>. QED  BY <2>3, <2>4, <3>2, <4>1 DEF Counts
    <3>. QED  BY <3>1, <3>2
  <2>8. ASSUME NEW u \in Threads, pc'[u] \in {"disable_out", "disable_in"}
        PROVE  Undone(u[1])' = {}
    <3>1. u[1] # s /\ pc[u] = pc'[u]
      BY <2>3, <2>8 DEF Team
    <3>. QED  BY <2>4, <2>8, <3>1 DEF Counts
  <2>. QED  BY <2>7, <2>8 DEF Counts
<1>3. CASE Aside
  <2>1. \A s \in Steps : Undone(s)' = Undone(s)
    BY <1>3 DEF Aside, Undone
  <2>. QED  BY <1>3, <2>1 DEF Aside, Counts
<1>. QED  BY <1>1, <1>2, <1>3, CallerMoves

-----------------------------------------------------------------------------
(* The end of a step, and its queues.                                      *)

\* Steps that leave the queues alone, and with them who is at work, or that are
\* blunt.
LEMMA EndsUndisturbed ==
  ASSUME Ends, UNCHANGED queues, brutal => brutal',
         brutal' \/ \A t \in Threads : AtWork(t)' <=> AtWork(t)
  PROVE  Ends'
BY DEF Ends, AtWork

\* A thread that goes on, and a queue of which the pop end stays as it is.
LEMMA ThreadEnds ==
  ASSUME WorkTypes, Counts, Ends, NEW t \in Threads, ThreadStep(t)
  PROVE  Ends'
<1>. USE ThreadFacts
<1>0. PICK w \in ThreadPCs : Moves(t, w)
  BY ThreadMoves
<1>1. \A u \in Threads : pc'[u] = IF u = t THEN w ELSE pc[u]
  BY <1>0 DEF WorkTypes, Moves
<1>8. \A u \in Threads : /\ AtWork(u)' => AtWork(u)
                         /\ u # t => (AtWork(u) => AtWork(u)')
  BY <1>0, <1>1 DEF Moves, AtWork
<1>2. CASE Read(t) \/ Consume(t) \/ StepDone(t) \/ Leave(t) \/ DoFinals(t)
  <2>1. UNCHANGED <<queues, brutal>>
    BY <1>2 DEF Read, Consume, StepDone, Leave, DoFinals, itemVars
  <2>2. AtWork(t)' <=> AtWork(t)
    BY <1>2 DEF Read, Consume, StepDone, Leave, DoFinals, Goto, AtWork, WorkTypes
  <2>3. \A u \in Threads : AtWork(u)' <=> AtWork(u)
    BY <1>1, <2>2 DEF AtWork
  <2>. QED  BY <2>1, <2>3, EndsUndisturbed
<1>3. CASE ReadCancelled(t) \/ Quit(t)
  <2>1. UNCHANGED queues /\ (brutal => brutal') /\ (brutal' \/ t[1] = 1)
    <3>1. CASE ReadCancelled(t)
      BY <3>1 DEF ReadCancelled, itemVars
    <3>2. CASE Quit(t)
      <4>1. queues' = queues /\ brutal' = (brutal \/ t[1] # 1)
        BY <3>2 DEF Quit
      <4>. QED  BY <4>1
    <3>. QED  BY <1>3, <3>1, <3>2
  <2>2. \A u \in Threads : u # t => (AtWork(u)' <=> AtWork(u))
    BY <1>8
  <2>3. t[1] \notin QueueNumbers \ {1} \/ brutal'
    BY <2>1
  <2>. QED  BY <2>1, <2>2, <2>3 DEF Ends
<1>4. CASE PushItem(t)
  <2>1. PICK s \in QueueNumbers : s = t[1]
    BY <1>4 DEF PushItem, QueueNumbers
  <2>2. /\ queues[s] \in Q /\ held[t] \in Items /\ pc[t] = "full"
        /\ queues' = [queues EXCEPT ![s] = Pushed(queues[s], held[t])]
        /\ queues[s].enable_push => w = "ready"
        /\ brutal' = brutal
    BY <1>1, <1>4, <2>1 DEF PushItem, WorkTypes, Items, Goto
  <2>3. /\ queues'[s] = Pushed(queues[s], held[t])
        /\ \A r \in QueueNumbers : r # s => queues'[r] = queues[r]
    BY <2>2 DEF WorkTypes
  <2>4. /\ queues'[s].enable_push = queues[s].enable_push
        /\ queues'[s].enable_pop = queues[s].enable_pop
        /\ ~queues[s].enable_push => queues'[s].items = queues[s].items
    BY <2>2, <2>3, PushedFacts
  <2>5. \A r \in QueueNumbers :
          ~queues'[r].enable_pop => queues'[r].items = <<>> /\ ~queues'[r].enable_push
    BY <2>3, <2>4 DEF Ends
  <2>6. brutal \/ s = 1 \/ w = "ready"
    BY <2>1, <2>2 DEF Ends, AtWork
  <2>7. ASSUME ~brutal, NEW u \in Threads
        PROVE  /\ u[1] \in QueueNumbers \ {1} /\ ~queues'[u[1]].enable_push => ~AtWork(u)'
               /\ u[1] # 1 /\ ~AtWork(u)' => ~queues'[u[1] - 1].enable_pop
    <3>1. /\ u[1] \in QueueNumbers \ {1} /\ ~queues[u[1]].enable_push => ~AtWork(u)
          /\ u[1] # 1 /\ ~AtWork(u) => ~queues[u[1] - 1].enable_pop
      BY <2>7 DEF Ends
    <3>2. /\ u[1] \in QueueNumbers => queues'[u[1]].enable_push = queues[u[1]].enable_push
          /\ u[1] # 1 => queues'[u[1] - 1].enable_pop = queues[u[1] - 1].enable_pop
      <4>1. u[1] # 1 => u[1] - 1 \in QueueNumbers
        BY DEF QueueNumbers
      <4>. QED  BY <2>3, <2>4, <4>1
    <3>3. /\ AtWork(u)' => AtWork(u)
          /\ u[1] # 1 => (AtWork(u) => AtWork(u)')
      <4>1. u = t /\ u[1] # 1 => w = "ready"
        BY <2>1, <2>6, <2>7
      <4>2. u = t /\ u[1] # 1 => AtWork(u)'
        BY <1>1, <4>1 DEF AtWork
      <4>. QED  BY <1>8, <4>2
    <3>. QED  BY <3>1, <3>2, <3>3
  <2>. QED  BY <2>2, <2>5, <2>7 DEF Ends
<1>5. CASE PopItem(t)
  <2>1. PICK s \in QueueNumbers : s = t[1] - 1
    BY <1>5 DEF PopItem, QueueNumbers
  <2>2. /\ queues[s] \in Q /\ t[1] # 1 /\ pc[t] = "ready"
        /\ queues' = [queues EXCEPT ![s] = Popped(queues[s])]
        /\ w = IF Takes(queues[s]) THEN "full" ELSE "ending"
        /\ queues[s].enable_pop => queues[s].items # <<>>
        /\ brutal' = brutal
    BY <1>1, <1>5, <2>1 DEF PopItem, WorkTypes, Goto, MayPop, itemVars
  <2>3. /\ queues'[s] = Popped(queues[s])
        /\ \A r \in QueueNumbers : r # s => queues'[r] = queues[r]
    BY <2>2 DEF WorkTypes
  <2>4. /\ queues'[s].enable_push = queues[s].enable_push
        /\ queues'[s].enable_pop => queues[s].enable_pop
        /\ ~queues'[s].enable_pop =>
             ~queues[s].enable_pop \/ (~queues[s].enable_push /\ queues'[s].items = <<>>)
        /\ ~Takes(queues[s]) => queues'[s].items = queues[s].items
    BY <2>2, <2>3, PoppedFacts
  <2>5. \A r \in QueueNumbers :
          ~queues'[r].enable_pop => queues'[r].items = <<>> /\ ~queues'[r].enable_push
    BY <2>3, <2>4 DEF Ends, Takes
  <2>6. w = "full" \/ ~queues'[s].enable_pop
    BY <2>2, <2>4 DEF Takes
  <2>7. ASSUME ~brutal, NEW u \in Threads
        PROVE  /\ u[1] \in QueueNumbers \ {1} /\ ~queues'[u[1]].enable_push => ~AtWork(u)'
               /\ u[1] # 1 /\ ~AtWork(u)' => ~queues'[u[1] - 1].enable_pop
    <3>1. /\ u[1] \in QueueNumbers \ {1} /\ ~queues[u[1]].enable_push => ~AtWork(u)
          /\ u[1] # 1 /\ ~AtWork(u) => ~queues[u[1] - 1].enable_pop
      BY <2>7 DEF Ends
    <3>2. /\ u[1] \in QueueNumbers => queues'[u[1]].enable_push = queues[u[1]].enable_push
          /\ u[1] # 1 => (~queues[u[1] - 1].enable_pop => ~queues'[u[1] - 1].enable_pop)
      <4>1. u[1] # 1 => u[1] - 1 \in QueueNumbers
        BY DEF QueueNumbers
      <4>. QED  BY <2>3, <2>4, <4>1
    <3>3. /\ AtWork(u)' => AtWork(u)
          /\ AtWork(u) => AtWork(u)' \/ ~queues'[u[1] - 1].enable_pop
      <4>1. u = t /\ w = "full" => AtWork(u)'
        BY <1>1 DEF AtWork
      <4>. QED  BY <1>8, <2>1, <2>6, <4>1
    <3>. QED  BY <3>1, <3>2, <3>3
  <2>. QED  BY <2>2, <2>5, <2>7 DEF Ends
\* The last thread of a step: nobody of that step is at work.
<1>6. CASE DisableOut(t)
  <2>1. brutal' = brutal /\ \A u \in Threads : AtWork(u)' <=> AtWork(u)
    BY <1>1, <1>6 DEF DisableOut, Goto, AtWork, WorkTypes, itemVars
  <2>2. CASE t[1] = NSteps
    BY <1>6, <2>1, <2>2, EndsUndisturbed DEF DisableOut
  <2>3. CASE t[1] # NSteps
    <3>1. PICK s \in QueueNumbers : s = t[1]
      BY <2>3 DEF QueueNumbers
    <3>2. /\ queues[s] \in Q
          /\ queues' = [queues EXCEPT ![s] = DelayedDisabled(queues[s])]
      BY <1>6, <3>1, <2>3 DEF DisableOut, WorkTypes
    <3>3. /\ queues'[s] = DelayedDisabled(queues[s])
          /\ \A r \in QueueNumbers : r # s => queues'[r] = queues[r]
      BY <3>2 DEF WorkTypes
    <3>4. \A u \in Threads : u[1] = s => ~AtWork(u)
      <4>1. Undone(s) = {}
        BY <1>6, <3>1 DEF DisableOut, Counts
      <4>. QED  BY <4>1 DEF Undone, Team, AtWork
    <3>5. /\ ~queues'[s].enable_push /\ queues'[s].items = queues[s].items
          /\ queues'[s].enable_pop => queues[s].enable_pop
          /\ ~queues'[s].enable_pop => ~queues[s].enable_pop \/ queues'[s].items = <<>>
      BY <3>2, <3>3, DisabledFacts
    <3>6. \A r \in QueueNumbers :
            ~queues'[r].enable_pop => queues'[r].items = <<>> /\ ~queues'[r].enable_push
      BY <3>3, <3>5 DEF Ends
    <3>7. ASSUME ~brutal, NEW u \in Threads
          PROVE  /\ u[1] \in QueueNumbers \ {1} /\ ~queues'[u[1]].enable_push => ~AtWork(u)'
                 /\ u[1] # 1 /\ ~AtWork(u)' => ~queues'[u[1] - 1].enable_pop
      <4>1. /\ u[1] \in QueueNumbers \ {1} /\ ~queues[u[1]].enable_push => ~AtWork(u)
            /\ u[1] # 1 /\ ~AtWork(u) => ~queues[u[1] - 1].enable_pop
        BY <3>7 DEF Ends
      <4>2. u[1] # 1 => u[1] - 1 \in QueueNumbers
        BY DEF QueueNumbers
      <4>. QED  BY <2>1, <3>3, <3>4, <3>5, <4>1, <4>2
    <3>. QED  BY <2>1, <3>6, <3>7 DEF Ends
  <2>. QED  BY <2>2, <2>3
\* Its queue has been given up by the step before, unless somebody was blunt.
<1>7. CASE DisableIn(t)
  <2>1. brutal' = brutal /\ \A u \in Threads : AtWork(u)' <=> AtWork(u)
    BY <1>1, <1>7 DEF DisableIn, Goto, AtWork, WorkTypes, itemVars
  <2>2. CASE t[1] = 1
    BY <1>7, <2>1, <2>2, EndsUndisturbed DEF DisableIn
  <2>3. CASE t[1] # 1
    <3>1. PICK s \in QueueNumbers : s = t[1] - 1
      BY <2>3 DEF QueueNumbers
    <3>2. /\ queues[s] \in Q
          /\ queues' = [queues EXCEPT ![s] = Disabled(queues[s])]
      BY <1>7, <3>1, <2>3 DEF DisableIn, WorkTypes
    <3>3. /\ queues'[s] = Disabled(queues[s])
          /\ \A r \in QueueNumbers : r # s => queues'[r] = queues[r]
      BY <3>2 DEF WorkTypes
    <3>4. brutal \/ ~queues[s].enable_push
      BY <1>7, <2>3, <3>1 DEF Ends, AtWork, DisableIn
    <3>5. ~queues'[s].enable_push /\ queues'[s].items = <<>> /\ ~queues'[s].enable_pop
      BY <3>2, <3>3, DisabledFacts
    <3>6. \A r \in QueueNumbers :
            ~queues'[r].enable_pop => queues'[r].items = <<>> /\ ~queues'[r].enable_push
      BY <3>3, <3>5 DEF Ends
    <3>7. ASSUME ~brutal, NEW u \in Threads
          PROVE  /\ u[1] \in QueueNumbers \ {1} /\ ~queues'[u[1]].enable_push => ~AtWork(u)'
                 /\ u[1] # 1 /\ ~AtWork(u)' => ~queues'[u[1] - 1].enable_pop
      <4>1. /\ u[1] \in QueueNumbers \ {1} /\ ~queues[u[1]].enable_push => ~AtWork(u)
            /\ u[1] # 1 /\ ~AtWork(u) => ~queues[u[1] - 1].enable_pop
        BY <3>7 DEF Ends
      <4>2. u[1] # 1 => u[1] - 1 \in QueueNumbers
        BY DEF QueueNumbers
      <4>. QED  BY <2>1, <3>3, <3>4, <3>5, <3>7, <4>1, <4>2
    <3>. QED  BY <2>1, <3>6, <3>7 DEF Ends
  <2>. QED  BY <2>2, <2>3
<1>. QED  BY <1>2, <1>3, <1>4, <1>5, <1>6, <1>7 DEF ThreadStep

LEMMA CallerEnds ==
  ASSUME CallTypes, WorkTypes, Calls, Lives, Ends, NEW c \in Controllers, CallerStep(c)
  PROVE  Ends'
<1>. USE ThreadFacts
<1>1. CASE BeginRun(c)
  <2>1. /\ queues' = [s \in QueueNumbers |-> ResizeEnabled(queues[s], 0)]
        /\ \A t \in Threads : pc'[t] = "none"
    BY <1>1 DEF BeginRun, WorkTypes
  <2>2. \A s \in QueueNumbers : queues'[s].enable_push /\ queues'[s].enable_pop
    <3>1. \A s \in QueueNumbers : queues[s] \in Q
      BY DEF WorkTypes
    <3>. QED  BY <2>1, <3>1, DisabledFacts
  <2>. QED  BY <2>1, <2>2 DEF Ends, AtWork
<1>2. CASE StartStep(c) \/ StartFails(c)
  <2>1. UNCHANGED <<queues, brutal>>
    BY <1>2, Starting DEF itemVars
  <2>2. PICK s \in Steps : s = next[c]
    BY <1>2, Starting
  <2>3. PICK n \in 0..Width[s] : Started(s, n)
    BY <1>2, <2>2, Starting
  <2>4. \A t \in Threads : AtWork(t)' <=> AtWork(t)
    <3>1. {s} \X (1..n) \subseteq Team(s)
      BY TeamIsWidth
    <3>. QED  BY <2>3, <3>1 DEF Started, AtWork
  <2>. QED  BY <2>1, <2>4, EndsUndisturbed
\* A queue that is disabled or delay disabled, bluntly or as the first.
<1>3. ASSUME NEW s \in QueueNumbers, UNCHANGED pc,
             \/ /\ queues' = [queues EXCEPT ![s] = DelayedDisabled(queues[s])]
                /\ s = 1 /\ brutal' = brutal
             \/ /\ queues' = [queues EXCEPT ![s] = Disabled(queues[s])]
                /\ brutal' = TRUE
      PROVE  Ends'
  <2>1. /\ queues[s] \in Q /\ \A r \in QueueNumbers : r # s => queues'[r] = queues[r]
        /\ queues'[s] \in {Disabled(queues[s]), DelayedDisabled(queues[s])}
    BY <1>3 DEF WorkTypes
  <2>2. /\ ~queues'[s].enable_push /\ queues'[s].items \in {queues[s].items, <<>>}
        /\ queues'[s].enable_pop => queues[s].enable_pop
        /\ ~queues'[s].enable_pop => ~queues[s].enable_pop \/ queues'[s].items = <<>>
    BY <2>1, DisabledFacts
  <2>3. \A r \in QueueNumbers :
          ~queues'[r].enable_pop => queues'[r].items = <<>> /\ ~queues'[r].enable_push
    BY <2>1, <2>2 DEF Ends
  <2>4. ASSUME ~brutal', NEW u \in Threads
        PROVE  /\ u[1] \in QueueNumbers \ {1} /\ ~queues'[u[1]].enable_push => ~AtWork(u)'
               /\ u[1] # 1 /\ ~AtWork(u)' => ~queues'[u[1] - 1].enable_pop
    <3>1. /\ u[1] \in QueueNumbers \ {1} /\ ~queues[u[1]].enable_push => ~AtWork(u)
          /\ u[1] # 1 /\ ~AtWork(u) => ~queues[u[1] - 1].enable_pop
      BY <1>3, <2>4 DEF Ends
    <3>2. (u[1] # 1 => u[1] - 1 \in QueueNumbers) /\ s = 1 /\ (AtWork(u)' <=> AtWork(u))
      BY <1>3, <2>4 DEF QueueNumbers, AtWork
    <3>. QED  BY <2>1, <2>2, <3>1, <3>2
  <2>. QED  BY <2>3, <2>4 DEF Ends
<1>4. CASE DisableFirst(c) \/ DelayedDisable(c)
  <2>1. 1 \in QueueNumbers
    BY DEF QueueNumbers
  <2>. QED  BY <1>3, <1>4, <2>1 DEF DisableFirst, DelayedDisable, threadVars, itemVars
<1>5. CASE DisableQueue(c)
  <2>1. next[c] \in QueueNumbers
    BY <1>5 DEF DisableQueue, CallTypes
  <2>. QED  BY <1>3, <1>5, <2>1 DEF DisableQueue, threadVars
<1>6. CASE \/ EndRun(c) \/ MakeFails(c) \/ StopReturns(c) \/ WaitReturns(c) \/ WaitEnds(c)
           \/ BeginStop(c, "stop") \/ BeginStop(c, "gentle_stop") \/ BeginWait(c)
           \/ Cancel(c) \/ JoinOrWait(c) \/ Cleanup(c) \/ SpuriousWakeup(c) \/ WaitAgain(c)
  <2>1. UNCHANGED <<queues, pc, brutal>>
    BY <1>6 DEF EndRun, MakeFails, StopReturns, WaitReturns, WaitEnds, BeginStop, BeginWait,
                Cancel, JoinOrWait, Cleanup, SpuriousWakeup, WaitAgain, threadVars, itemVars
  <2>. QED  BY <2>1, EndsUndisturbed DEF AtWork
<1>. QED  BY <1>1, <1>2, <1>4, <1>5, <1>6 DEF CallerStep, CallStep

-----------------------------------------------------------------------------
(* What becomes of an item.                                                *)

LEMMA ThreadNew ==
  ASSUME CallTypes, WorkTypes, Lives, New, NEW t \in Threads, ThreadStep(t)
  PROVE  New'
<1>. USE ThreadFacts
<1>0. runs' = runs /\ runs # 0
  BY ThreadsLeaveCalls, ThreadMoves DEF Lives, Moves
<1>1. CASE Read(t)
  <2>1. /\ produced \in Nat /\ produced' = produced + 1 /\ accepted' = accepted
        /\ \A u \in Threads : held'[u] = IF u = t THEN produced + 1 ELSE held[u]
        /\ \A u \in Threads : u # t => pc'[u] = pc[u]
    BY <1>1 DEF Read, Goto, WorkTypes
  <2>2. produced + 1 \notin accepted /\ accepted \subseteq 1..(produced + 1)
    BY <2>1 DEF New
  <2>3. ASSUME NEW u \in Threads, u[1] = 1 PROVE held[u] # produced + 1
    <3>1. CASE pc[u] = "full"
      <4>1. held[u] \in 1..produced
        BY <2>3, <3>1 DEF New
      <4>. QED  BY <2>1, <4>1
    <3>2. CASE pc[u] # "full"
      <4>1. held[u] = 0
        BY <3>2 DEF WorkTypes
      <4>. QED  BY <2>1, <4>1
    <3>. QED  BY <3>1, <3>2
  <2>4. ASSUME NEW u \in Threads, u[1] = 1, pc'[u] = "full"
        PROVE  /\ held'[u] \notin accepted /\ held'[u] \in 1..(produced + 1)
               /\ \A v \in Threads : v[1] = 1 /\ held'[v] = held'[u] => v = u
    <3>1. CASE u = t
      BY <2>1, <2>2, <2>3, <3>1
    <3>2. CASE u # t
      <4>1. /\ held[u] \notin accepted /\ held[u] \in 1..produced
            /\ \A v \in Threads : v[1] = 1 /\ held[v] = held[u] => v = u
        BY <2>1, <2>4, <3>2 DEF New
      <4>. QED  BY <2>1, <3>2, <4>1
    <3>. QED  BY <3>1, <3>2
  <2>. QED  BY <1>0, <2>1, <2>2, <2>4 DEF New
<1>2. CASE PushItem(t)
  <2>1. /\ produced' = produced /\ pc[t] = "full"
        /\ \A u \in Threads : held'[u] = IF u = t THEN 0 ELSE held[u]
        /\ \A u \in Threads : pc'[u] = "full" => u # t /\ pc[u] = "full"
        /\ accepted' = accepted \/ (t[1] = 1 /\ accepted' = accepted \cup {held[t]})
    BY <1>2 DEF PushItem, Goto, WorkTypes
  <2>2. accepted' \subseteq 1..produced
    <3>1. accepted \subseteq 1..produced
      BY DEF New
    <3>2. t[1] = 1 => held[t] \in 1..produced
      BY <2>1 DEF New
    <3>. QED  BY <2>1, <3>1, <3>2
  <2>3. ASSUME NEW u \in Threads, u[1] = 1, pc'[u] = "full"
        PROVE  /\ held'[u] \notin accepted' /\ held'[u] \in 1..produced
               /\ \A v \in Threads : v[1] = 1 /\ held'[v] = held'[u] => v = u
    <3>1. /\ held[u] \notin accepted /\ held[u] \in 1..produced /\ u # t
          /\ \A v \in Threads : v[1] = 1 /\ held[v] = held[u] => v = u
      BY <2>1, <2>3 DEF New
    <3>. QED  BY <2>1, <3>1
  <2>. QED  BY <1>0, <2>1, <2>2, <2>3 DEF New
<1>3. CASE PopItem(t)
  <2>1. /\ t[1] # 1 /\ UNCHANGED <<produced, accepted>>
        /\ \A u \in Threads : u # t => held'[u] = held[u] /\ pc'[u] = pc[u]
    BY <1>3 DEF PopItem, Goto, WorkTypes, itemVars
  <2>. QED  BY <1>0, <2>1 DEF New
<1>4. CASE Consume(t)
  <2>1. /\ t[1] # 1 /\ UNCHANGED <<produced, accepted>>
        /\ \A u \in Threads : u # t => held'[u] = held[u] /\ pc'[u] = pc[u]
    BY <1>4 DEF Consume, Goto, WorkTypes
  <2>. QED  BY <1>0, <2>1 DEF New
<1>5. CASE ReadCancelled(t) \/ Quit(t) \/ StepDone(t) \/ DisableOut(t) \/ DisableIn(t)
           \/ Leave(t) \/ DoFinals(t)
  <2>1. /\ UNCHANGED <<held, produced, accepted>>
        /\ \A u \in Threads : pc'[u] = "full" => pc[u] = "full"
    BY <1>5 DEF ReadCancelled, Quit, StepDone, DisableOut, DisableIn, Leave, DoFinals, Goto,
                WorkTypes, itemVars
  <2>. QED  BY <1>0, <2>1 DEF New
<1>. QED  BY <1>1, <1>2, <1>3, <1>4, <1>5 DEF ThreadStep

LEMMA ThreadConserves ==
  ASSUME WorkTypes, Ends, New, Conserved, NEW t \in Threads, ThreadStep(t)
  PROVE  Conserved'
<1>. USE ThreadFacts
<1>0. \A x \in accepted : x # 0
  BY DEF WorkTypes, Items
\* Steps that move no item.
<1>1. CASE Read(t) \/ ReadCancelled(t) \/ Quit(t) \/ StepDone(t) \/ Leave(t) \/ DoFinals(t)
  <2>1. UNCHANGED <<queues, accepted, consumed>> /\ (brutal => brutal')
    <3>1. CASE Quit(t)
      <4>1. queues' = queues /\ brutal' = (brutal \/ t[1] # 1)
            /\ accepted' = accepted /\ consumed' = consumed
        BY <3>1 DEF Quit
      <4>. QED  BY <4>1
    <3>2. CASE ~Quit(t)
      BY <1>1, <3>2 DEF Read, ReadCancelled, StepDone, Leave, DoFinals, itemVars
    <3>. QED  BY <3>1, <3>2
  <2>2. \A u \in Threads : held[u] # 0 => held'[u] = held[u]
    BY <1>1 DEF Read, ReadCancelled, Quit, StepDone, Leave, DoFinals, WorkTypes
  <2>3. \A x \in accepted : Safe(x) => Safe(x)'
    BY <1>0, <2>1, <2>2 DEF Safe
  <2>. QED  BY <2>1, <2>3 DEF Conserved
<1>2. CASE Consume(t)
  <2>1. /\ UNCHANGED <<queues, accepted, brutal>> /\ consumed' = consumed \cup {held[t]}
        /\ \A u \in Threads : u # t => held'[u] = held[u]
    BY <1>2 DEF Consume, WorkTypes
  <2>2. \A x \in accepted : Safe(x) => Safe(x)'
    BY <2>1 DEF Safe
  <2>. QED  BY <2>1, <2>2 DEF Conserved
\* What a push does not get rid of was never accepted, or the stop is blunt.
<1>3. CASE PushItem(t)
  <2>1. PICK s \in QueueNumbers : s = t[1]
    BY <1>3 DEF PushItem, QueueNumbers
  <2>2. /\ queues[s] \in Q /\ held[t] \in Items /\ pc[t] = "full"
        /\ queues' = [queues EXCEPT ![s] = Pushed(queues[s], held[t])]
        /\ brutal' = brutal /\ consumed' = consumed
        /\ accepted' = IF queues[s].enable_push /\ s = 1 THEN accepted \cup {held[t]} ELSE accepted
        /\ \A u \in Threads : u # t => held'[u] = held[u]
    BY <1>3, <2>1 DEF PushItem, WorkTypes, Items
  <2>3. /\ queues'[s] = Pushed(queues[s], held[t])
        /\ \A r \in QueueNumbers : r # s => queues'[r] = queues[r]
    BY <2>2 DEF WorkTypes
  <2>4. /\ queues[s].enable_push => held[t] \in InQueue(queues'[s])
        /\ InQueue(queues[s]) \subseteq InQueue(queues'[s])
    <3>1. CASE queues[s].enable_push
      BY <2>2, <2>3, <3>1, PushedFacts
    <3>2. CASE ~queues[s].enable_push
      <4>1. queues'[s].items = queues[s].items
        BY <2>2, <2>3, <3>2, PushedFacts
      <4>. QED  BY <3>2, <4>1 DEF InQueue
    <3>. QED  BY <3>1, <3>2
  <2>5. brutal \/ queues[s].enable_push \/ held[t] \notin accepted
    BY <2>1, <2>2 DEF Ends, New, AtWork
  <2>6. ASSUME ~brutal, NEW x \in accepted' PROVE Safe(x)'
    <3>1. CASE x = held[t]
      <4>1. queues[s].enable_push
        BY <2>2, <2>5, <2>6, <3>1
      <4>. QED  BY <2>4, <3>1, <4>1 DEF Safe
    <3>2. CASE x # held[t]
      <4>1. Safe(x)
        BY <2>2, <2>6, <3>2 DEF Conserved
      <4>. QED  BY <2>2, <2>3, <2>4, <3>2, <4>1 DEF Safe
    <3>. QED  BY <3>1, <3>2
  <2>. QED  BY <2>2, <2>6 DEF Conserved
<1>4. CASE PopItem(t)
  <2>1. PICK s \in QueueNumbers : s = t[1] - 1
    BY <1>4 DEF PopItem, QueueNumbers
  <2>2. /\ queues[s] \in Q /\ held[t] = 0
        /\ queues' = [queues EXCEPT ![s] = Popped(queues[s])]
        /\ UNCHANGED <<brutal, consumed, accepted>>
        /\ \A u \in Threads : u # t => held'[u] = held[u]
    BY <1>4, <2>1 DEF PopItem, WorkTypes, itemVars
  <2>3. /\ queues'[s] = Popped(queues[s])
        /\ \A r \in QueueNumbers : r # s => queues'[r] = queues[r]
    BY <2>2 DEF WorkTypes
  <2>4. InQueue(queues[s]) \subseteq InQueue(queues'[s]) \cup {held'[t]}
    <3>1. CASE Takes(queues[s])
      <4>1. held'[t] = Head(queues[s].items)
        BY <1>4, <2>1, <3>1 DEF PopItem, WorkTypes
      <4>. QED  BY <2>2, <2>3, <3>1, <4>1, PoppedFacts
    <3>2. CASE ~Takes(queues[s])
      <4>1. queues'[s].items = queues[s].items
        BY <2>2, <2>3, <3>2, PoppedFacts
      <4>. QED  BY <4>1 DEF InQueue
    <3>. QED  BY <3>1, <3>2
  <2>5. ASSUME NEW x \in accepted, Safe(x) PROVE Safe(x)'
    BY <1>0, <2>2, <2>3, <2>4, <2>5 DEF Safe
  <2>. QED  BY <2>2, <2>5 DEF Conserved
<1>5. CASE DisableOut(t) \/ DisableIn(t)
  <2>1. UNCHANGED <<held, accepted, consumed, brutal>>
    BY <1>5 DEF DisableOut, DisableIn, itemVars
  <2>2. \A s \in QueueNumbers : brutal \/ queues'[s].items = queues[s].items
    <3>1. CASE queues' = queues
      BY <3>1
    <3>2. CASE DisableOut(t) /\ t[1] # NSteps
      <4>1. PICK s \in QueueNumbers : s = t[1]
        BY <3>2 DEF QueueNumbers
      <4>2. queues[s] \in Q /\ queues' = [queues EXCEPT ![s] = DelayedDisabled(queues[s])]
        BY <3>2, <4>1 DEF DisableOut, WorkTypes
      <4>3. \A r \in QueueNumbers : queues'[r] = IF r = s THEN DelayedDisabled(queues[s]) ELSE queues[r]
        BY <4>2 DEF WorkTypes
      <4>. QED  BY <4>2, <4>3, DisabledFacts
    <3>3. CASE DisableIn(t) /\ t[1] # 1
      <4>1. PICK s \in QueueNumbers : s = t[1] - 1
        BY <3>3 DEF QueueNumbers
      <4>2. queues[s] \in Q /\ queues' = [queues EXCEPT ![s] = Disabled(queues[s])]
        BY <3>3, <4>1 DEF DisableIn, WorkTypes
      <4>3. \A r \in QueueNumbers : queues'[r] = IF r = s THEN Disabled(queues[s]) ELSE queues[r]
        BY <4>2 DEF WorkTypes
      <4>4. brutal \/ queues[s].items = <<>>
        BY <3>3, <4>1 DEF Ends, AtWork, DisableIn
      <4>. QED  BY <4>2, <4>3, <4>4, DisabledFacts
    <3>. QED  BY <1>5, <3>1, <3>2, <3>3 DEF DisableOut, DisableIn
  <2>3. ASSUME ~brutal, NEW x \in accepted, Safe(x) PROVE Safe(x)'
    BY <2>1, <2>2, <2>3 DEF Safe, InQueue
  <2>. QED  BY <2>1, <2>3 DEF Conserved
<1>. QED  BY <1>1, <1>2, <1>3, <1>4, <1>5 DEF ThreadStep

\* What a call does to the items: nothing, but for the queues.
LEMMA CallerItems ==
  ASSUME NEW c \in Controllers, CallerStep(c)
  PROVE  /\ UNCHANGED <<held, produced, accepted, consumed>>
         /\ brutal => brutal'
         /\ BeginRun(c) \/ runs' = runs
         /\ \/ BeginRun(c) \/ UNCHANGED queues \/ brutal'
            \/ queues' = [queues EXCEPT ![1] = DelayedDisabled(queues[1])]
<1>1. CASE BeginRun(c)
  BY <1>1 DEF BeginRun, itemVars
<1>2. CASE StartStep(c) \/ StartFails(c)
  BY <1>2 DEF StartStep, StartFails, itemVars
<1>3. CASE DisableFirst(c) \/ DelayedDisable(c)
  BY <1>3 DEF DisableFirst, DelayedDisable, threadVars, itemVars
<1>4. CASE DisableQueue(c)
  BY <1>4 DEF DisableQueue, threadVars
<1>5. CASE \/ EndRun(c) \/ MakeFails(c) \/ StopReturns(c) \/ WaitReturns(c) \/ WaitEnds(c)
           \/ BeginStop(c, "stop") \/ BeginStop(c, "gentle_stop") \/ BeginWait(c)
           \/ Cancel(c) \/ JoinOrWait(c) \/ Cleanup(c) \/ SpuriousWakeup(c) \/ WaitAgain(c)
  BY <1>5 DEF EndRun, MakeFails, StopReturns, WaitReturns, WaitEnds, BeginStop, BeginWait,
              Cancel, JoinOrWait, Cleanup, SpuriousWakeup, WaitAgain, threadVars, itemVars
<1>. QED  BY <1>1, <1>2, <1>3, <1>4, <1>5 DEF CallerStep, CallStep

\* Which threads hold something is not changed by a call either.
LEMMA CallerNew ==
  ASSUME CallTypes, WorkTypes, Calls, Lives, New, NEW c \in Controllers, CallerStep(c)
  PROVE  New'
<1>1. UNCHANGED <<held, produced, accepted>> /\ (BeginRun(c) \/ runs' = runs)
  BY CallerItems
<1>2. \A t \in Threads : pc'[t] = "full" => pc[t] = "full"
  <2>1. CASE BeginRun(c)
    BY <2>1 DEF BeginRun
  <2>2. CASE StartStep(c) \/ StartFails(c)
    <3>1. PICK n : Started(next[c], n)
      BY <2>2, Starting
    <3>. QED  BY <3>1 DEF Started
  <2>3. CASE Aside
    BY <2>3 DEF Aside
  <2>. QED  BY <2>1, <2>2, <2>3, CallerMoves
<1>3. BeginRun(c) => accepted = {}
  BY DEF BeginRun, New
<1>4. runs' = 0 => accepted' = {}
  BY <1>1, <1>3 DEF New
<1>. QED  BY <1>1, <1>2, <1>4 DEF New

LEMMA CallerConserves ==
  ASSUME CallTypes, WorkTypes, New, Conserved, NEW c \in Controllers, CallerStep(c)
  PROVE  Conserved'
<1>1. UNCHANGED <<held, accepted, consumed>> /\ (brutal => brutal')
  BY CallerItems
<1>2. CASE BeginRun(c)
  <2>1. accepted' = {}
    BY <1>1, <1>2 DEF BeginRun, New
  <2>. QED  BY <2>1 DEF Conserved
<1>3. CASE UNCHANGED queues
  BY <1>1, <1>3 DEF Conserved, Safe
<1>4. CASE brutal'
  BY <1>4 DEF Conserved
<1>5. CASE queues' = [queues EXCEPT ![1] = DelayedDisabled(queues[1])]
  <2>1. 1 \in QueueNumbers
    BY ThreadFacts DEF QueueNumbers
  <2>2. \A s \in QueueNumbers : queues'[s] = IF s = 1 THEN DelayedDisabled(queues[1]) ELSE queues[s]
    BY <1>5 DEF WorkTypes
  <2>3. queues[1] \in Q
    BY <2>1 DEF WorkTypes
  <2>5. \A s \in QueueNumbers : queues'[s].items = queues[s].items
    BY <2>2, <2>3, DisabledFacts
  <2>4. ASSUME NEW x \in accepted, Safe(x) PROVE Safe(x)'
    BY <1>1, <2>4, <2>5 DEF Safe, InQueue
  <2>. QED  BY <1>1, <2>4 DEF Conserved
<1>. QED  BY <1>2, <1>3, <1>4, <1>5, CallerItems

-----------------------------------------------------------------------------
(* Userdata.                                                               *)

LEMMA ThreadUserdata ==
  ASSUME WorkTypes, UserdataOutlivesThreads, NEW t \in Threads, ThreadStep(t)
  PROVE  UserdataOutlivesThreads'
<1>1. PICK w \in ThreadPCs : Moves(t, w)
  BY ThreadMoves
<1>2. userdata' = userdata
  BY ThreadMoves
<1>3. \A u \in Threads : pc'[u] \in {"ready", "full"} => pc[u] \in {"ready", "full"}
  BY <1>1 DEF WorkTypes, Moves
<1>. QED  BY <1>2, <1>3 DEF UserdataOutlivesThreads, InThreadFunction

LEMMA CallerUserdata ==
  ASSUME CallTypes, WorkTypes, Calls, Lives, UserdataOutlivesThreads,
         NEW c \in Controllers, CallerStep(c)
  PROVE  UserdataOutlivesThreads'
<1>. USE DEF UserdataOutlivesThreads, InThreadFunction
<1>1. CASE BeginRun(c)
  BY <1>1 DEF BeginRun
<1>2. CASE StartStep(c) \/ StartFails(c)
  <2>1. PICK s \in Steps : s = next[c]
    BY <1>2, Starting
  <2>2. PICK n \in 0..Width[s] : Started(s, n)
    BY <1>2, <2>1, Starting
  <2>3. {s} \X (1..n) \subseteq Team(s)
    BY TeamIsWidth
  <2>4. \A t \in Threads : t[1] # s => pc'[t] = pc[t]
    BY <2>2, <2>3 DEF Started, Team
  <2>5. \A r \in Steps : userdata'[r] = IF r = s THEN TRUE ELSE userdata[r]
    BY <2>2 DEF Started, WorkTypes
  <2>. QED  BY <2>4, <2>5, ThreadFacts
<1>3. CASE Aside
  BY <1>3 DEF Aside, AllGone
<1>. QED  BY <1>1, <1>2, <1>3, CallerMoves

-----------------------------------------------------------------------------
(* The invariant holds.                                                    *)

LEMMA InitHolds ==
  ASSUME Init PROVE IInv
<1>. USE ChainAssumption, ThreadFacts DEF Init
<1>1. CallTypes
  <2>1. /\ lock \in Controllers \cup {"none"}
        /\ running \in BOOLEAN /\ joining \in BOOLEAN /\ cancelled \in BOOLEAN
        /\ finalized \in BOOLEAN /\ brutal \in BOOLEAN /\ runs \in 0..1
    <3>1. lock = "none" /\ runs = 0
      OBVIOUS
    <3>2. ~running /\ ~joining /\ ~cancelled /\ ~finalized /\ ~brutal
      OBVIOUS
    <3>3. /\ running \in BOOLEAN /\ joining \in BOOLEAN /\ cancelled \in BOOLEAN
          /\ finalized \in BOOLEAN /\ brutal \in BOOLEAN
      BY ONLY Init DEF Init
    <3>. QED  BY ONLY <3>1, <3>3
  <2>2. /\ op \in [Controllers -> {"none", "run", "stop", "gentle_stop", "wait"}]
        /\ cpc \in [Controllers -> CallerPCs]
        /\ \A c \in Controllers : cpc[c] = "idle"
    BY DEF CallerPCs
  <2>3. next \in [Controllers -> 0..NSteps] /\ returned \in [Controllers -> 0..1]
    OBVIOUS
  <2>. QED  BY <2>1, <2>2, <2>3 DEF CallTypes
<1>9. Calls /\ Lives
  <2>1. /\ \A c \in Controllers : cpc[c] = "idle"
        /\ \A t \in Threads : pc[t] = "none"
        /\ runs = 0 /\ ~running /\ ~finalized
    OBVIOUS
  <2>. QED  BY ONLY <2>1, CallerFacts DEF Calls, OneJoins, Lives
<1>10. Returns
  BY CallerFacts DEF Returns
<1>2. queues \in [QueueNumbers -> Q]
      /\ \A s \in QueueNumbers : queues[s].items = <<>> /\ queues[s].enable_push
                                /\ queues[s].enable_pop
  BY DEF QueueNumbers, QueueOf, Queue, Q, Queues
<1>3. WorkTypes
  <2>1. Len(<<>>) <= QueueDepth
    OBVIOUS
  <2>2. \A s \in QueueNumbers : Len(queues[s].items) <= QueueDepth
    BY <1>2, <2>1
  <2>3. /\ rsa_nthread \in [Steps -> Nat]
        /\ userdata \in [Steps -> BOOLEAN] /\ sync_cancelled \in [Steps -> BOOLEAN]
    OBVIOUS
  <2>4. /\ pc \in [Threads -> ThreadPCs] /\ held \in [Threads -> 0..MaxItems]
        /\ \A t \in Threads : pc[t] = "full" <=> held[t] # 0
    BY DEF ThreadPCs
  <2>5. /\ nthreads \in Nat /\ nfinals \in Nat /\ produced \in 0..MaxItems
        /\ accepted \subseteq Items /\ consumed \subseteq Items
    OBVIOUS
  <2>. QED  BY <1>2, <2>2, <2>3, <2>4, <2>5 DEF WorkTypes
<1>4. Finals
  <2>1. Busy = {}
    BY DEF Busy
  <2>. QED  BY <2>1, FS_EmptySet DEF Finals
<1>5. Counts
  BY DEF Counts, Team
<1>6. UserdataOutlivesThreads
  BY DEF UserdataOutlivesThreads, InThreadFunction
<1>7. Ends
  BY <1>2 DEF Ends, AtWork
<1>8. New /\ Conserved
  BY DEF New, Conserved
<1>. QED  BY <1>1, <1>3, <1>4, <1>5, <1>6, <1>7, <1>8, <1>9, <1>10 DEF IInv

LEMMA NextPreserves ==
  ASSUME IInv, [Next]_vars
  PROVE  IInv'
<1>. USE DEF IInv
<1>1. ASSUME NEW t \in Threads, ThreadStep(t) PROVE IInv'
  <2>1. CallTypes' /\ Calls' /\ Returns'
    BY <1>1, ThreadsLeaveCalls DEF Calls, OneJoins, Returns
  <2>. QED  BY <1>1, <2>1, ThreadTypes, ThreadLives, ThreadFinals, ThreadCounts,
               ThreadUserdata, ThreadEnds, ThreadNew, ThreadConserves
<1>2. ASSUME NEW c \in Controllers, CallerStep(c) PROVE IInv'
  <2>1. CallTypes' /\ Calls' /\ Returns' /\ WorkTypes' /\ Lives'
    BY <1>2, CallTypesPreserved, CallsPreserved, ReturnsPreserved, CallerTypes, CallerLives
  <2>. QED  BY <1>2, <2>1, CallerFinals, CallerCounts, CallerUserdata, CallerEnds,
               CallerNew, CallerConserves
<1>3. CASE UNCHANGED vars
  <2>1. CallTypes' /\ WorkTypes' /\ Calls' /\ Returns' /\ Lives'
    BY <1>3 DEF vars, implVars, stepVars, threadVars, callVars, itemVars,
                CallTypes, WorkTypes, Calls, OneJoins, Returns, Lives
  <2>2. Finals' /\ Counts' /\ UserdataOutlivesThreads'
    BY <1>3 DEF vars, implVars, stepVars, threadVars, Finals, Busy, Counts, Undone,
                UserdataOutlivesThreads, InThreadFunction
  <2>3. Ends' /\ New' /\ Conserved'
    BY <1>3 DEF vars, threadVars, itemVars, Ends, AtWork, New, Conserved, Safe
  <2>. QED  BY <2>1, <2>2, <2>3
<1>. QED  BY <1>1, <1>2, <1>3 DEF Next, CallerStep

LEMMA Invariance == SafeSpec => []IInv
<1>1. Init => IInv
  BY InitHolds
<1>2. IInv /\ [Next]_vars => IInv'
  BY NextPreserves
<1>. QED  BY <1>1, <1>2, PTL DEF SafeSpec

-----------------------------------------------------------------------------
(* The theorems.                                                           *)

\* Every variable of a chain keeps its type: no queue holds more than it may, and
\* chainimpl::nthreads never counts more threads than the steps have.
THEOREM ChainTypes == SafeSpec => []TypeOK
<1>1. ASSUME IInv PROVE TypeOK
  <2>1. nthreads \in 0..Cardinality(Threads)
    <3>1. Busy \subseteq Threads
      BY DEF Busy
    <3>2. Cardinality(Busy) <= Cardinality(Threads) /\ Cardinality(Busy) \in Nat
          /\ Cardinality(Threads) \in Nat
      BY <3>1, ThreadFacts, BusyIsFinite, FS_Subset, FS_CardinalityType
    <3>. QED  BY <1>1, <3>2 DEF IInv, Finals
  <2>2. /\ queues \in [1..(NSteps - 1) -> Queues(Items, {QueueDepth})]
        /\ \A s \in DOMAIN queues : Len(queues[s].items) <= QueueDepth
    BY <1>1 DEF IInv, WorkTypes, QueueNumbers, Q
  <2>. QED  BY <1>1, <2>1, <2>2 DEF IInv, CallTypes, WorkTypes, TypeOK
<1>. QED  BY <1>1, Invariance, PTL

\* The userdata of a step is there as long as a thread of the step may use it,
\* however the run ends and whoever of stop() and wait() joins the threads.
THEOREM UserdataIsKept == SafeSpec => []UserdataOutlivesThreads
<1>1. IInv => UserdataOutlivesThreads
  BY DEF IInv
<1>. QED  BY <1>1, Invariance, PTL

\* The last thread to leave, and no other, calls the finals, with the chain still
\* counted as running and no other thread alive, once in a run.
THEOREM FinalsOnceAndAlone == SafeSpec => []FinalsRunOnceAlone
<1>1. ASSUME IInv PROVE FinalsRunOnceAlone
  <2>1. ASSUME NEW t \in Threads, pc[t] = "finals"
        PROVE  running /\ Live = {t} /\ nthreads = 0
    <3>1. running
      BY <1>1, <2>1 DEF IInv, Lives
    <3>2. Busy = {} /\ \A u \in Threads : pc[u] = "finals" => u = t
      BY <1>1, <2>1 DEF IInv, Finals
    <3>3. Live = {t}
      BY <2>1, <3>2 DEF Live, Busy
    <3>4. nthreads = 0
      BY <1>1, <3>2, FS_EmptySet DEF IInv, Finals
    <3>. QED  BY <3>1, <3>3, <3>4
  <2>2. nfinals <= 1
    BY <1>1 DEF IInv, Finals
  <2>3. ASSUME ~running, lock = "none", NEW t \in Threads, pc[t] = "gone"
        PROVE  nfinals = 1
    <3>1. cpc[Runner] # "spawn"
      BY <1>1, <2>3, CallerFacts DEF IInv, Calls
    <3>2. \A u \in Threads : pc[u] \in {"none", "gone"}
      BY <1>1, <2>3, <3>1 DEF IInv, Lives
    <3>3. Busy = {} /\ \A u \in Threads : pc[u] # "finals"
      BY <3>2 DEF Busy
    <3>. QED  BY <1>1, <2>3, <3>3 DEF IInv, Finals
  <2>. QED  BY <2>1, <2>2, <2>3 DEF FinalsRunOnceAlone
<1>. QED  BY <1>1, Invariance, PTL

\* Of all who wait for the end of a chain only one joins its threads, and the chain
\* runs until it has.
THEOREM OnlyOneJoins == SafeSpec => []OneJoins
<1>1. IInv => OneJoins
  BY DEF IInv, Calls
<1>. QED  BY <1>1, Invariance, PTL

\* Whoever calls wait(), and does not stop the chain as well, finds it stopped when
\* the call returns, whatever others do and however often pthread_cond_wait()
\* returns for nothing; so does the thread that calls run(), when it fails.
WaitMeansStopped ==
  \A c \in Controllers \ Stoppers : returned[c] = runs /\ runs > 0 => ~running

THEOREM WaitersAreNotFooled == SafeSpec => []WaitMeansStopped
<1>1. ASSUME IInv PROVE WaitMeansStopped
  BY <1>1 DEF IInv, Returns, Trusts, CallTypes, WaitMeansStopped
<1>. QED  BY <1>1, Invariance, PTL

\* The same for stop() and gentle_stop(), if the thread that runs the chain is the
\* one that stops it, as the thread is that carries out the commands.  A second
\* thread that stops the chain gets an answer at once (chain.cc:339).
THEOREM StoppersAreNotFooled ==
  ASSUME Stoppers \subseteq {Runner}
  PROVE  SafeSpec => []ReturnMeansStopped
<1>1. ASSUME IInv PROVE ReturnMeansStopped
  BY <1>1 DEF IInv, Returns, Trusts, OneStops, CallTypes, ReturnMeansStopped
<1>. QED  BY <1>1, Invariance, PTL

\* As long as nobody stops bluntly and no step gives up, an item that the first
\* queue accepted is never lost: not by the delayed disable of a gentle stop, nor
\* by the way the end of a step is passed on to its neighbours.
THEOREM NothingIsLost == SafeSpec => []GentleStopLosesNothing
<1>1. ASSUME IInv PROVE GentleStopLosesNothing
  <2>1. DOMAIN queues = QueueNumbers
    BY <1>1 DEF IInv, WorkTypes
  <2>2. ASSUME ~brutal, NEW x \in accepted
        PROVE  x \in consumed \cup {held[t] : t \in Threads}
                      \cup UNION {{queues[s].items[i] : i \in 1..Len(queues[s].items)}
                                    : s \in DOMAIN queues}
    <3>1. Safe(x)
      BY <1>1, <2>2 DEF IInv, Conserved
    <3>. QED  BY <2>1, <3>1 DEF Safe, InQueue
  <2>. QED  BY <2>2 DEF GentleStopLosesNothing
<1>. QED  BY <1>1, Invariance, PTL
=============================================================================
