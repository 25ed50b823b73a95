-------------------------- MODULE Transfer_proofs --------------------------
(***************************************************************************)
(* Proofs about Transfer, for any number of transfers.                     *)
(***************************************************************************)
EXTENDS Transfer, TLAPS

-----------------------------------------------------------------------------
(* The invariant.                                                          *)

\* The only chain whose threads may be there: the one that the runtime refers to,
\* but while it drops an old one, that old one.
Holder == IF cpc = "destroy" THEN victim ELSE current

OnlyHolderLives ==
  /\ \A g \in G : Alive(g) => g = Holder
  /\ cpc \in {"run", "stopped"} => \A g \in G : ~Alive(g)

\* Which of the numbers is which.
Numbers ==
  /\ current <= last
  /\ \A g \in G : g > last => tr[g].phase = "none"
  /\ mode # "no_transfer" \/ cpc \in {"mode", "stop", "failed"} => current # 0
  /\ cpc \in {"stop", "failed"} => victim = current

\* A chain that has threads, and that nobody is stopping, can be stopped.
LivesUntold ==
  cpc \in {"idle", "replace", "mode"} =>
    \A g \in G : Alive(g) => tr[g].running /\ ~tr[g].cancelled

\* Until it runs, the new chain has no thread, and the runtime is idle.
NewOne ==
  cpc \in {"replace", "destroy", "run"} =>
    /\ mode = "no_transfer" /\ last # 0
    /\ tr[last].phase = "none" /\ ~tr[last].running /\ ~tr[last].cancelled
    /\ (cpc = "replace") <=> (current # last)
    /\ cpc = "destroy" => victim \in G \ {last}

IInv ==
  /\ TypeOK
  /\ Numbers
  /\ OnlyHolderLives
  /\ LivesUntold
  /\ NewOne
  /\ WorkIsVisible

\* At the start there is no transfer.
LEMMA InitHolds == Init => IInv
<1>. USE TransferAssumption
<1>1. Init => TypeOK
  BY DEF Init, TypeOK, Transfers, Fresh, Readers, Phases, Places, Kinds, G
<1>2. Init => Numbers /\ OnlyHolderLives /\ LivesUntold /\ NewOne /\ WorkIsVisible
  BY DEF Init, Numbers, OnlyHolderLives, LivesUntold, NewOne, WorkIsVisible, Alive,
         Fresh, G
<1>. QED  BY <1>1, <1>2 DEF IInv

-----------------------------------------------------------------------------
(* Steps that leave the commands where they are.                           *)

\* What no thread of a chain and neither `on' nor `stop' does to a chain: make
\* threads, or touch what decides whether it can be stopped.
NoNewWork ==
  \A h \in G :
    /\ tr'[h].running = tr[h].running /\ tr'[h].cancelled = tr[h].cancelled
    /\ tr'[h].kind = tr[h].kind
    /\ tr'[h].phase = "none" <=> tr[h].phase = "none"
    /\ tr[h].phase = "gone" => tr'[h].phase = "gone"
    /\ tr'[h].phase = "busy" => tr[h].phase = "busy"

\* The mode may be taken away only when no thread but the last works.
LEMMA QuietStep ==
  ASSUME IInv, TypeOK', NoNewWork, UNCHANGED <<current, last, cpc, victim>>,
         mode' # mode => mode' = "no_transfer" /\ \A h \in G : tr[h].phase # "busy"
  PROVE  IInv'
<1>. USE TransferAssumption
<1>1. \A h \in G : Alive(h)' => Alive(h)
  BY DEF NoNewWork, Alive
<1>2. Numbers'
  BY DEF IInv, Numbers, NoNewWork
<1>3. OnlyHolderLives'
  BY <1>1 DEF IInv, OnlyHolderLives, Holder
<1>4. LivesUntold'
  BY <1>1 DEF IInv, LivesUntold, NoNewWork
<1>5. NewOne'
  BY DEF IInv, NewOne, NoNewWork, TypeOK, G
<1>6. WorkIsVisible'
  BY DEF IInv, WorkIsVisible, NoNewWork
<1>. QED  BY <1>2, <1>3, <1>4, <1>5, <1>6 DEF IInv

\* A step that moves only the last thread of one chain.
LEMMA PhaseStep ==
  ASSUME TypeOK, NEW g \in G, NEW from, NEW to \in Phases \ {"none", "busy"},
         from \notin {"none", "gone"}, GotoPhase(g, from, to)
  PROVE  tr' \in [G -> Transfers] /\ NoNewWork
<1>1. /\ tr \in [G -> Transfers] /\ tr[g].phase = from
      /\ tr' = [tr EXCEPT ![g] = [tr[g] EXCEPT !.phase = to]]
  BY DEF TypeOK, GotoPhase
<1>2. [tr[g] EXCEPT !.phase = to] \in Transfers
  BY <1>1 DEF Transfers
<1>3. tr' \in [G -> Transfers]
  BY <1>1, <1>2
<1>4. NoNewWork
  BY <1>1 DEF NoNewWork, Transfers
<1>. QED  BY <1>3, <1>4

\* Where the reader and the writer of mem2net change the flags, and where the
\* commands only tell the reader.
LEMMA ReadersPreserve ==
  ASSUME IInv, NEW g \in G, Connected(g) \/ StartReading(g) \/ On \/ GentleStop
  PROVE  IInv'
<1>. USE TransferAssumption
<1>1. CASE Connected(g)
  <2>1. TypeOK' /\ NoNewWork
    BY <1>1 DEF IInv, TypeOK, Connected, NoNewWork
  <2>. QED  BY <2>1, <1>1, QuietStep DEF Connected
<1>2. CASE StartReading(g)
  <2>1. tr' = [tr EXCEPT ![g] = [tr[g] EXCEPT !.reading = TRUE]] /\ tr[g] \in Transfers
        /\ tr \in [G -> Transfers]
    BY <1>2 DEF StartReading, IInv, TypeOK
  <2>2. [tr[g] EXCEPT !.reading = TRUE] \in Transfers
    BY <2>1 DEF Transfers
  <2>3. TypeOK'
    BY <1>2, <2>1, <2>2 DEF IInv, TypeOK, StartReading
  <2>4. NoNewWork
    BY <2>1 DEF NoNewWork, Transfers
  <2>. QED  BY <2>3, <2>4, <1>2, QuietStep DEF StartReading
<1>3. CASE On
  <2>1. tr' = [tr EXCEPT ![current] = [tr[current] EXCEPT !.run = TRUE]]
        /\ current \in G /\ tr[current] \in Transfers /\ tr \in [G -> Transfers]
    BY <1>3 DEF On, IInv, TypeOK, Numbers, G
  <2>2. [tr[current] EXCEPT !.run = TRUE] \in Transfers
    BY <2>1 DEF Transfers
  <2>3. TypeOK'
    BY <1>3, <2>1, <2>2 DEF IInv, TypeOK, On
  <2>4. NoNewWork
    BY <2>1 DEF NoNewWork, Transfers
  <2>. QED  BY <2>3, <2>4, <1>3, QuietStep DEF On
<1>4. CASE GentleStop
  <2>. DEFINE t == tr[current].told \/ ~tr[current].cancelled
  <2>1. tr' = [tr EXCEPT ![current] =
                 [tr[current] EXCEPT !.run = FALSE, !.told = t]]
        /\ current \in G /\ tr[current] \in Transfers /\ tr \in [G -> Transfers]
    BY <1>4 DEF GentleStop, IInv, TypeOK, Numbers, G
  <2>2. t \in BOOLEAN
    BY <2>1 DEF Transfers
  <2>. HIDE DEF t
  <2>3. [tr[current] EXCEPT !.run = FALSE, !.told = t] \in Transfers
    BY <2>1, <2>2 DEF Transfers
  <2>4. TypeOK'
    BY <1>4, <2>1, <2>3 DEF IInv, TypeOK, GentleStop
  <2>5. NoNewWork
    BY <2>1 DEF NoNewWork, Transfers
  <2>. QED  BY <2>4, <2>5, <1>4, QuietStep DEF GentleStop
<1>. QED  BY <1>1, <1>2, <1>3, <1>4

\* The last thread of a chain on its way out.
LEMMA LastThreadPreserves ==
  ASSUME IInv, NEW g \in G, ThreadsEnd(g) \/ Guard(g)
  PROVE  IInv'
<1>. USE TransferAssumption
<1>0. TypeOK
  BY DEF IInv
<1>1. CASE ThreadsEnd(g)
  <2>1. tr' \in [G -> Transfers] /\ NoNewWork
    BY <1>0, <1>1, PhaseStep DEF ThreadsEnd, Phases
  <2>2. TypeOK'
    BY <1>0, <1>1, <2>1 DEF ThreadsEnd, TypeOK
  <2>. QED  BY <1>1, <2>1, <2>2, QuietStep DEF ThreadsEnd
\* The mode is taken away by the only chain that lives, which is at its guard.
<1>2. ASSUME tr[g].phase \in {"guard", "reset"}
      PROVE  \A h \in G : tr[h].phase # "busy"
  BY <1>2 DEF IInv, OnlyHolderLives, Alive
<1>3. CASE GuardMode(g)
  <2>1. tr' \in [G -> Transfers] /\ NoNewWork /\ tr[g].phase = "guard"
    BY <1>0, <1>3, PhaseStep DEF GuardMode, GotoPhase, Phases
  <2>2. TypeOK'
    BY <1>0, <1>3, <2>1 DEF GuardMode, TypeOK
  <2>. QED  BY <1>2, <1>3, <2>1, <2>2, QuietStep DEF GuardMode
<1>4. CASE GuardReadsFlags(g)
  <2>1. tr' = [tr EXCEPT ![g] = [tr[g] EXCEPT !.phase = "write", !.saved = submode]]
        /\ tr[g] \in Transfers /\ tr \in [G -> Transfers] /\ tr[g].phase = "clr"
        /\ submode \subseteq {"run", "wait", "connected"}
    BY <1>0, <1>4 DEF GuardReadsFlags, TypeOK
  <2>2. [tr[g] EXCEPT !.phase = "write", !.saved = submode] \in Transfers
    BY <2>1 DEF Transfers, Phases
  <2>3. TypeOK'
    BY <1>0, <1>4, <2>1, <2>2 DEF TypeOK, GuardReadsFlags
  <2>4. NoNewWork
    BY <2>1 DEF NoNewWork, Transfers
  <2>. QED  BY <1>4, <2>3, <2>4, QuietStep DEF GuardReadsFlags
<1>5. CASE GuardWritesFlags(g)
  <2>1. tr' \in [G -> Transfers] /\ NoNewWork
    BY <1>0, <1>5, PhaseStep DEF GuardWritesFlags, Phases
  <2>2. tr[g].saved \subseteq {"run", "wait", "connected"}
    BY <1>0 DEF TypeOK, Transfers
  <2>3. TypeOK'
    BY <1>0, <1>5, <2>1, <2>2 DEF GuardWritesFlags, TypeOK
  <2>. QED  BY <1>5, <2>1, <2>3, QuietStep DEF GuardWritesFlags
<1>6. CASE GuardCloses(g)
  <2>. DEFINE P(h) == IF h = g THEN "reset" ELSE tr[h].phase
              O(h) == IF h = current /\ tr[h].running THEN FALSE ELSE tr[h].open
  <2>1. tr' = [h \in G |-> [tr[h] EXCEPT !.phase = P(h), !.open = O(h)]]
        /\ tr[g].phase = "close" /\ tr \in [G -> Transfers]
    BY <1>0, <1>6 DEF GuardCloses, TypeOK
  <2>2. ASSUME NEW h \in G
        PROVE  P(h) \in Phases /\ O(h) \in BOOLEAN /\ tr[h] \in Transfers
    BY <2>1, <2>2 DEF Transfers, Phases
  <2>3. ASSUME NEW h \in G, NEW p \in Phases, NEW o \in BOOLEAN, tr[h] \in Transfers
        PROVE  [tr[h] EXCEPT !.phase = p, !.open = o] \in Transfers
    BY <2>3 DEF Transfers
  <2>4. tr' \in [G -> Transfers]
    <3>1. ASSUME NEW h \in G PROVE [tr[h] EXCEPT !.phase = P(h), !.open = O(h)] \in Transfers
      BY ONLY <2>2, <2>3, <3>1
    <3>. QED  BY ONLY <2>1, <3>1
  <2>5. TypeOK'
    BY <1>0, <1>6, <2>4 DEF TypeOK, GuardCloses
  <2>6. NoNewWork
    <3>1. ASSUME NEW h \in G
          PROVE  /\ tr'[h].running = tr[h].running /\ tr'[h].cancelled = tr[h].cancelled
                 /\ tr'[h].kind = tr[h].kind /\ tr'[h].phase = P(h)
      <4>1. tr'[h] = [tr[h] EXCEPT !.phase = P(h), !.open = O(h)]
        BY ONLY <2>1, <3>1
      <4>2. tr[h] \in Transfers
        BY <2>2, <3>1
      <4>. QED  BY ONLY <4>1, <4>2 DEF Transfers
    <3>2. ASSUME NEW h \in G
          PROVE  /\ P(h) = "none" <=> tr[h].phase = "none"
                 /\ tr[h].phase = "gone" => P(h) = "gone"
                 /\ P(h) = "busy" => tr[h].phase = "busy"
      BY ONLY <2>1, <3>2
    <3>. QED  BY ONLY <3>1, <3>2 DEF NoNewWork
  <2>. QED  BY <1>6, <2>5, <2>6, QuietStep DEF GuardCloses
<1>7. CASE GuardResets(g)
  <2>1. tr' \in [G -> Transfers] /\ NoNewWork /\ tr[g].phase = "reset"
    BY <1>0, <1>7, PhaseStep DEF GuardResets, GotoPhase, Phases
  <2>2. TypeOK'
    BY <1>0, <1>7, <2>1 DEF GuardResets, TypeOK
  <2>. QED  BY <1>2, <1>7, <2>1, <2>2, QuietStep DEF GuardResets
<1>. QED  BY <1>1, <1>3, <1>4, <1>5, <1>6, <1>7 DEF Guard

-----------------------------------------------------------------------------
(* The commands.                                                           *)

\* `op = connect' makes a chain that nobody knows yet.
LEMMA ConnectPreserves ==
  ASSUME IInv, NEW k \in Kinds, Connect(k)
  PROVE  IInv'
<1>. USE TransferAssumption
<1>0. PICK r \in Readers(k) :
        tr' = [tr EXCEPT ![last + 1] = Fresh(k, r)] /\ last < MaxTransfers
  BY DEF Connect
<1>1. /\ last + 1 \in G /\ last \in Nat /\ last + 1 \in 1..MaxTransfers
      /\ tr \in [G -> Transfers] /\ tr' = [tr EXCEPT ![last + 1] = Fresh(k, r)]
      /\ current \in Nat /\ current <= last
  BY <1>0 DEF IInv, TypeOK, Numbers, G
<1>2. Fresh(k, r) \in Transfers /\ Fresh(k, r).phase = "none"
      /\ ~Fresh(k, r).running /\ ~Fresh(k, r).cancelled
  <2>1. r \in Readers("vbs2net") \cup Readers("mem2net")
    BY DEF Kinds
  <2>. QED  BY <2>1 DEF Fresh, Transfers, Phases
<1>3. tr' \in [G -> Transfers] /\ tr'[last + 1] = Fresh(k, r)
      /\ \A h \in G : h # last + 1 => tr'[h] = tr[h]
  BY <1>1, <1>2
<1>4. TypeOK'
  BY <1>1, <1>3 DEF IInv, TypeOK, Connect, Places
<1>5. \A h \in G : Alive(h)' => Alive(h) /\ tr'[h] = tr[h]
  BY <1>2, <1>3 DEF Alive
<1>6. Numbers'
  BY <1>1, <1>2, <1>3 DEF IInv, Numbers, Connect, G
<1>7. OnlyHolderLives'
  BY <1>5 DEF IInv, OnlyHolderLives, Holder, Connect
<1>8. LivesUntold'
  BY <1>5 DEF IInv, LivesUntold, Connect
<1>9. NewOne'
  BY <1>1, <1>2, <1>3 DEF NewOne, Connect
<1>10. WorkIsVisible'
  BY DEF WorkIsVisible, Connect
<1>. QED  BY <1>4, <1>6, <1>7, <1>8, <1>9, <1>10 DEF IInv

\* What do_cancellations() does to a chain that runs.
LEMMA CancelStep ==
  ASSUME TypeOK, NEW g \in G, tr' = [tr EXCEPT ![g] = Cancelled(g)]
  PROVE  /\ tr' \in [G -> Transfers]
         /\ \A h \in G : h # g => tr'[h] = tr[h]
         /\ tr'[g].phase = tr[g].phase
<1>1. tr \in [G -> Transfers] /\ tr[g] \in Transfers
  BY DEF TypeOK
<1>2. Cancelled(g) \in Transfers /\ Cancelled(g).phase = tr[g].phase
  BY <1>1 DEF Cancelled, Transfers
<1>. QED  BY <1>1, <1>2

\* The runtime takes the new chain, and the old one is stopped if need be.
LEMMA ReplacePreserves ==
  ASSUME IInv, Replace
  PROVE  IInv'
<1>. USE TransferAssumption
<1>1. /\ TypeOK /\ cpc = "replace" /\ current' = last /\ last \in G /\ current # last
      /\ UNCHANGED <<mode, submode, last>> /\ mode = "no_transfer"
      /\ current \in 0..MaxTransfers /\ last \in 0..MaxTransfers
      /\ \A g \in G : Alive(g) => g = current /\ NeedsStop(g)
  BY DEF IInv, TypeOK, Replace, NewOne, OnlyHolderLives, Holder, LivesUntold,
         NeedsStop, G
<1>2. CASE NeedsStop(current)
  <2>1. /\ current \in G /\ tr' = [tr EXCEPT ![current] = Cancelled(current)]
        /\ victim' = current /\ cpc' = "destroy"
    BY <1>1, <1>2 DEF Replace, NeedsStop, G
  <2>2. /\ tr' \in [G -> Transfers]
        /\ \A h \in G : h # current => tr'[h] = tr[h]
        /\ tr'[current].phase = tr[current].phase
    BY <1>1, <2>1, CancelStep
  <2>3. TypeOK'
    BY <1>1, <2>1, <2>2 DEF TypeOK, Places
  <2>4. \A h \in G : Alive(h)' => Alive(h)
    BY <2>2 DEF Alive
  <2>5. Numbers'
    BY <1>1, <2>1, <2>2 DEF IInv, Numbers
  <2>6. OnlyHolderLives'
    BY <1>1, <2>1, <2>4 DEF OnlyHolderLives, Holder
  <2>7. NewOne'
    BY <1>1, <2>1, <2>2 DEF IInv, NewOne
  <2>8. LivesUntold' /\ WorkIsVisible'
    BY <2>1 DEF LivesUntold, WorkIsVisible
  <2>. QED  BY <2>3, <2>5, <2>6, <2>7, <2>8 DEF IInv
\* If there is no need, the old chain has no thread left.
<1>3. CASE ~NeedsStop(current)
  <2>1. cpc' = "run" /\ UNCHANGED <<tr, victim>> /\ \A g \in G : ~Alive(g)
    BY <1>1, <1>3 DEF Replace
  <2>2. TypeOK'
    BY <1>1, <2>1 DEF TypeOK, Places
  <2>3. Numbers' /\ NewOne'
    BY <1>1, <2>1 DEF IInv, Numbers, NewOne, G
  <2>4. OnlyHolderLives' /\ LivesUntold' /\ WorkIsVisible'
    BY <2>1 DEF OnlyHolderLives, LivesUntold, WorkIsVisible, Alive
  <2>. QED  BY <2>2, <2>3, <2>4 DEF IInv
<1>. QED  BY <1>2, <1>3

\* A chain that has been joined has no thread, and all others had none before.
LEMMA JoinedPreserves ==
  ASSUME IInv, Destroyed \/ ThrowsUp \/ Stopped
  PROVE  IInv'
<1>. USE TransferAssumption
<1>1. /\ TypeOK /\ UNCHANGED <<mode, submode, current, last, victim>>
      /\ tr' = [tr EXCEPT ![victim] = [tr[victim] EXCEPT !.running = FALSE]]
      /\ tr \in [G -> Transfers]
      /\ cpc \in {"destroy", "failed", "stop"}
      /\ cpc' = IF cpc = "destroy" THEN "run" ELSE IF cpc = "stop" THEN "stopped" ELSE "idle"
      /\ Joinable(victim) /\ victim = Holder
  BY DEF IInv, TypeOK, Destroyed, ThrowsUp, Stopped, Joined, JoinedWhen, Numbers, Holder
<1>2. victim \in G
  BY <1>1 DEF IInv, TypeOK, Numbers, NewOne, G
<1>3. \A g \in G : ~Alive(g)
  BY <1>1 DEF IInv, OnlyHolderLives, Joinable, Alive
<1>4. tr[victim] \in Transfers /\ [tr[victim] EXCEPT !.running = FALSE] \in Transfers
      /\ [tr[victim] EXCEPT !.running = FALSE].phase = tr[victim].phase
  BY <1>1, <1>2 DEF Transfers
<1>5. /\ tr' \in [G -> Transfers]
      /\ \A h \in G : tr'[h].phase = tr[h].phase /\ (h # victim => tr'[h] = tr[h])
  BY <1>1, <1>2, <1>4
<1>6. TypeOK'
  BY <1>1, <1>5 DEF TypeOK, Places
<1>7. \A g \in G : ~Alive(g)'
  BY <1>3, <1>5 DEF Alive
<1>8. Numbers'
  BY <1>1, <1>5 DEF IInv, Numbers
<1>9. OnlyHolderLives' /\ LivesUntold'
  BY <1>7 DEF OnlyHolderLives, LivesUntold
<1>10. WorkIsVisible'
  BY <1>7 DEF WorkIsVisible, Alive
<1>11. NewOne'
  BY <1>1, <1>2, <1>5 DEF IInv, NewOne, TypeOK, G
<1>. QED  BY <1>6, <1>8, <1>9, <1>10, <1>11 DEF IInv

\* run(), of a chain that is the only one.
LEMMA RunPreserves ==
  ASSUME IInv, Run \/ RunFails
  PROVE  IInv'
<1>. USE TransferAssumption
<1>1. /\ TypeOK /\ cpc = "run" /\ current = last /\ current \in G
      /\ tr \in [G -> Transfers] /\ tr[current] \in Transfers
      /\ ~tr[current].cancelled /\ \A g \in G : ~Alive(g)
      /\ UNCHANGED <<mode, submode, current, last>>
  BY DEF IInv, TypeOK, Run, RunFails, NewOne, OnlyHolderLives, G
<1>2. CASE Run
  <2>. DEFINE r == [tr[current] EXCEPT !.running = TRUE, !.phase = "busy", !.open = TRUE]
  <2>1. tr' = [tr EXCEPT ![current] = r] /\ cpc' = "mode" /\ victim' = victim
    BY <1>2 DEF Run
  <2>2. r \in Transfers /\ r.running /\ ~r.cancelled
    BY <1>1 DEF Transfers, Phases
  <2>. HIDE DEF r
  <2>3. /\ tr' \in [G -> Transfers] /\ tr'[current] = r
        /\ \A h \in G : h # current => tr'[h] = tr[h]
    BY <1>1, <2>1, <2>2
  <2>4. \A h \in G : Alive(h)' => h = current
    BY <1>1, <2>3 DEF Alive
  <2>5. TypeOK'
    BY <1>1, <2>1, <2>3 DEF TypeOK, Places
  <2>6. Numbers'
    BY <1>1, <2>1, <2>3 DEF IInv, Numbers, G
  <2>7. OnlyHolderLives'
    BY <1>1, <2>1, <2>4 DEF OnlyHolderLives, Holder
  <2>8. LivesUntold' /\ NewOne' /\ WorkIsVisible'
    BY <1>1, <2>1, <2>2, <2>3, <2>4 DEF LivesUntold, NewOne, WorkIsVisible
  <2>. QED  BY <2>5, <2>6, <2>7, <2>8 DEF IInv
<1>3. CASE RunFails
  <2>1. PICK p \in {"none", "busy"} :
          tr' = [tr EXCEPT ![current] =
                   [tr[current] EXCEPT !.running = TRUE, !.cancelled = TRUE, !.phase = p]]
    BY <1>3 DEF RunFails
  <2>2. [tr[current] EXCEPT !.running = TRUE, !.cancelled = TRUE, !.phase = p] \in Transfers
    BY <1>1 DEF Transfers, Phases
  <2>3. tr' \in [G -> Transfers] /\ \A h \in G : h # current => tr'[h] = tr[h]
    BY <1>1, <2>1, <2>2
  <2>4. \A h \in G : Alive(h)' => h = current
    BY <1>1, <2>3 DEF Alive
  <2>5. cpc' = "failed" /\ victim' = current
    BY <1>3 DEF RunFails
  <2>6. TypeOK'
    BY <1>1, <2>3, <2>5 DEF TypeOK, Places
  <2>7. Numbers'
    BY <1>1, <2>3, <2>5 DEF IInv, Numbers, G
  <2>8. OnlyHolderLives'
    BY <1>1, <2>4, <2>5 DEF OnlyHolderLives, Holder
  <2>9. LivesUntold' /\ NewOne' /\ WorkIsVisible'
    BY <2>5 DEF LivesUntold, NewOne, WorkIsVisible
  <2>. QED  BY <2>6, <2>7, <2>8, <2>9 DEF IInv
<1>. QED  BY <1>2, <1>3

\* run() has returned: now the mode says so.
LEMMA SetModePreserves ==
  ASSUME IInv, SetMode
  PROVE  IInv'
<1>. USE TransferAssumption
<1>1. /\ TypeOK /\ cpc = "mode" /\ cpc' = "idle" /\ current \in G
      /\ UNCHANGED <<submode, current, last, tr, victim>>
      /\ mode' = tr[current].kind /\ tr[current].kind \in Kinds
      /\ \A g \in G : Alive(g) => g = current
  BY DEF IInv, TypeOK, SetMode, Numbers, OnlyHolderLives, Holder, Transfers, G
<1>2. TypeOK'
  BY <1>1 DEF TypeOK, Places
<1>3. Numbers' /\ LivesUntold' /\ NewOne'
  BY <1>1 DEF IInv, Numbers, LivesUntold, NewOne, Alive, G
<1>4. OnlyHolderLives' /\ WorkIsVisible'
  BY <1>1 DEF OnlyHolderLives, WorkIsVisible, Holder, Alive
<1>. QED  BY <1>2, <1>3, <1>4 DEF IInv

\* `op = disconnect' stops a chain that can be stopped, and one that cannot has
\* no thread.
LEMMA DisconnectPreserves ==
  ASSUME IInv, NEW k \in Kinds, Disconnect(k)
  PROVE  IInv'
<1>. USE TransferAssumption
<1>1. /\ TypeOK /\ cpc = "idle" /\ current \in G /\ current # 0
      /\ UNCHANGED <<mode, submode, current, last>>
      /\ \A g \in G : Alive(g) => g = current /\ NeedsStop(g)
  BY DEF IInv, TypeOK, Disconnect, Numbers, OnlyHolderLives, Holder, LivesUntold,
         NeedsStop, Kinds, G
<1>2. CASE NeedsStop(current)
  <2>1. /\ tr' = [tr EXCEPT ![current] = Cancelled(current)]
        /\ victim' = current /\ cpc' = "stop"
    BY <1>2 DEF Disconnect
  <2>2. /\ tr' \in [G -> Transfers]
        /\ \A h \in G : tr'[h].phase = tr[h].phase
    BY <1>1, <2>1, CancelStep
  <2>3. TypeOK'
    BY <1>1, <2>1, <2>2 DEF TypeOK, Places, G
  <2>4. Numbers'
    BY <1>1, <2>1, <2>2 DEF IInv, Numbers
  <2>5. OnlyHolderLives'
    BY <1>1, <2>1, <2>2 DEF OnlyHolderLives, Holder, Alive
  <2>6. LivesUntold' /\ NewOne' /\ WorkIsVisible'
    BY <2>1 DEF LivesUntold, NewOne, WorkIsVisible
  <2>. QED  BY <2>3, <2>4, <2>5, <2>6 DEF IInv
<1>3. CASE ~NeedsStop(current)
  <2>1. cpc' = "stopped" /\ UNCHANGED <<tr, victim>> /\ \A g \in G : ~Alive(g)
    BY <1>1, <1>3 DEF Disconnect
  <2>2. TypeOK' /\ Numbers'
    BY <1>1, <2>1 DEF IInv, TypeOK, Numbers, Places
  <2>3. OnlyHolderLives' /\ LivesUntold' /\ NewOne' /\ WorkIsVisible'
    BY <2>1 DEF OnlyHolderLives, LivesUntold, NewOne, WorkIsVisible, Alive
  <2>. QED  BY <2>2, <2>3 DEF IInv
<1>. QED  BY <1>2, <1>3

\* What is left of a transfer may be cleared, as it has no thread.
LEMMA EndDisconnectPreserves ==
  ASSUME IInv, EndDisconnect
  PROVE  IInv'
<1>. USE TransferAssumption
<1>1. /\ TypeOK /\ cpc = "stopped" /\ cpc' = "idle" /\ UNCHANGED <<last, tr, victim>>
      /\ \/ mode' = mode /\ current' = current /\ submode' = submode \ {"connected"}
         \/ mode' = "no_transfer" /\ current' = 0 /\ submode' = {}
      /\ \A g \in G : ~Alive(g)
  BY DEF IInv, EndDisconnect, OnlyHolderLives
<1>2. TypeOK'
  <2>1. submode' \subseteq submode /\ mode' \in {mode, "no_transfer"}
        /\ current' \in {current, 0} /\ 0 \in 0..MaxTransfers
    BY <1>1
  <2>. QED  BY <1>1, <2>1 DEF TypeOK, Places
<1>3. Numbers'
  BY <1>1 DEF IInv, TypeOK, Numbers
<1>4. OnlyHolderLives' /\ LivesUntold' /\ NewOne' /\ WorkIsVisible'
  BY <1>1 DEF OnlyHolderLives, LivesUntold, NewOne, WorkIsVisible, Alive
<1>. QED  BY <1>2, <1>3, <1>4 DEF IInv

-----------------------------------------------------------------------------
(* The theorems.                                                           *)

LEMMA NextPreserves == IInv /\ [Next]_vars => IInv'
<1>. SUFFICES ASSUME IInv, [Next]_vars PROVE IInv'
  OBVIOUS
<1>1. CASE Command
  <2>1. ASSUME On \/ GentleStop PROVE IInv'
    <3>1. 1 \in G
      BY <2>1, TransferAssumption DEF On, GentleStop, IInv, TypeOK, Numbers, G
    <3>. QED  BY <2>1, <3>1, ReadersPreserve
  <2>. QED  BY <1>1, <2>1, ConnectPreserves, DisconnectPreserves DEF Command
<1>2. CASE CommandStep
  BY <1>2, ReplacePreserves, JoinedPreserves, RunPreserves, SetModePreserves,
     EndDisconnectPreserves DEF CommandStep
<1>3. CASE \E g \in G : Connected(g) \/ StartReading(g) \/ ThreadsEnd(g) \/ Guard(g)
  BY <1>3, ReadersPreserve, LastThreadPreserves
<1>4. CASE UNCHANGED vars
  <2>1. UNCHANGED <<mode, submode, current, last, tr, cpc, victim>>
    BY <1>4 DEF vars
  <2>2. TypeOK' /\ NoNewWork
    BY <2>1 DEF IInv, TypeOK, NoNewWork
  <2>. QED  BY <2>1, <2>2, QuietStep
<1>. QED  BY <1>1, <1>2, <1>3, <1>4 DEF Next

LEMMA Invariance == Spec => []IInv
  BY InitHolds, NextPreserves, PTL DEF Spec

\* The variables have their types: among others, no command refers to a chain
\* that was never made.
THEOREM TransferTypes == Spec => []TypeOK
<1>1. IInv => TypeOK
  BY DEF IInv
<1>. QED  BY <1>1, Invariance, PTL

\* However often a runtime is connected, and wherever the guards of its earlier
\* transfers are: the threads of one chain are gone before another chain runs.
THEOREM NeverTwoTransfers == Spec => []OneTransferAtATime
<1>1. IInv => OneTransferAtATime
  BY DEF IInv, OnlyHolderLives, OneTransferAtATime
<1>. QED  BY <1>1, Invariance, PTL

\* A command that finds the runtime idle, or in a transfer, is told the truth, as
\* far as threads that work are concerned.
THEOREM WorkIsNeverHidden == Spec => []WorkIsVisible
<1>1. IInv => WorkIsVisible
  BY DEF IInv
<1>. QED  BY <1>1, Invariance, PTL

\* The guard closes and clears what belongs to its own transfer, although it asks
\* the runtime which one that is.
THEOREM GuardsSpareOthers == Spec => GuardSparesOthers
<1>. DEFINE Spares(g) ==
       /\ \A h \in G \ {g} : tr'[h] = tr[h]
       /\ mode # mode' => g = current /\ cpc # "replace"
<1>1. ASSUME IInv, NEW g \in G, Guard(g)
      PROVE  Spares(g)
  <2>1. /\ tr \in [G -> Transfers] /\ g = Holder
        /\ cpc = "destroy" => current # g /\ ~tr[current].running
        /\ cpc \in {"replace", "destroy"} => mode = "no_transfer"
    <3>1. Alive(g)
      BY <1>1 DEF Guard, GuardMode, GuardReadsFlags, GuardWritesFlags, GuardCloses,
                  GuardResets, GotoPhase, Alive
    <3>. QED  BY <1>1, <3>1 DEF IInv, TypeOK, OnlyHolderLives, NewOne, Holder
  <2>2. CASE GuardMode(g) \/ GuardResets(g)
    BY <2>1, <2>2 DEF GuardMode, GuardResets, GotoPhase, Holder
  <2>3. CASE GuardReadsFlags(g) \/ GuardWritesFlags(g)
    BY <2>1, <2>3 DEF GuardReadsFlags, GuardWritesFlags, GotoPhase
  \* If the runtime refers to another chain, that one has not run.
  <2>4. CASE GuardCloses(g)
    <3>1. ASSUME NEW h \in G \ {g} PROVE tr'[h] = tr[h]
      <4>1. ~(h = current /\ tr[h].running)
        BY <2>1, <3>1 DEF Holder
      <4>2. tr'[h] = [tr[h] EXCEPT !.phase = tr[h].phase, !.open = tr[h].open]
        BY <2>4, <3>1, <4>1 DEF GuardCloses
      <4>. QED  BY <2>1, <3>1, <4>2 DEF Transfers
    <3>. QED  BY <2>4, <3>1 DEF GuardCloses
  <2>. QED  BY <1>1, <2>2, <2>3, <2>4 DEF Guard
<1>. HIDE DEF Spares
<1>2. IInv /\ [Next]_vars => [\A g \in G : Guard(g) => Spares(g)]_vars
  BY <1>1
<1>. QED  BY <1>2, Invariance, PTL DEF Spec, GuardSparesOthers, Spares
=============================================================================
