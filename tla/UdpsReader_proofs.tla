-------------------------- MODULE UdpsReader_proofs --------------------------
(***************************************************************************)
(* Proofs about UdpsReader, for blocks of any size, a window of any length *)
(* and any number of sequence numbers that are remembered.                 *)
(***************************************************************************)
EXTENDS UdpsReader, FiniteSetTheorems, SequenceTheorems, TLAPS

-----------------------------------------------------------------------------
(* The invariant.                                                          *)

PCs == {"start", "account", "place", "read", "peek", "flush", "flushed", "threw", "ended"}

Flags == Seqs \cup {Missing}
Messages == [first : Nat, epoch : Nat, cells : UNION {[0..n - 1 -> Flags] : n \in 1..N}]

Types ==
  /\ pc \in PCs
  /\ seqnr \in Seqs /\ maxseq \in Seqs /\ minseq \in Seqs
  /\ firstseqnr \in Nat /\ expectseqnr \in Nat /\ shiftcount \in 0..Readahead
  /\ discard \in BOOLEAN
  /\ workbuf \in [Window -> Blocks \cup {Empty}]
  /\ flushing \in 0..Readahead
  /\ total \in Nat /\ again \in Nat /\ epoch \in Nat
  /\ out \in Seq(Messages)
  /\ arrived \in Seq(Seqs)
  /\ stat.pktcnt \in Nat /\ stat.disccnt \in Nat

\* A datagram is where it belongs, in the window ...
InPlace == \A x \in Flagged : workbuf[x[1]][x[2]] = Position(x)

\* ... and downstream.
OutInPlace ==
  \A k \in DOMAIN out : \A p \in DOMAIN out[k].cells :
    out[k].cells[p] \in {Missing, out[k].first + p}

\* What is downstream is of an earlier stream, or before what may still follow.
OutBefore ==
  /\ \A k \in DOMAIN out :
       /\ out[k].epoch <= epoch
       /\ out[k].epoch = epoch => out[k].first + N <= Start(flushing)
  /\ \A k, l \in DOMAIN out :
       k < l => /\ out[k].epoch <= out[l].epoch
                /\ out[k].epoch = out[l].epoch => out[k].first + N <= out[l].first

\* Where the thread is, and what it knows of the datagram that it has peeked at.
Placing ==
  /\ pc = "start" => out = <<>> /\ \A i \in Window : workbuf[i] = Empty
  /\ flushing > 0 => pc \in {"flush", "flushed", "threw", "ended"}
  /\ pc = "place" =>
       /\ ~discard /\ seqnr >= firstseqnr
       /\ \A i \in Window : i + shiftcount >= Readahead => workbuf[i] = Empty
       /\ shiftcount = Readahead => seqnr = firstseqnr
  /\ pc = "read" /\ ~discard =>
       \E i \in Window, p \in Places : IsAt(i, p) /\ workbuf[i] # Empty

\* The datagrams that are downstream.
Gone == {x \in (DOMAIN out) \X Places : out[x[1]].cells[x[2]] # Missing}

Accounted ==
  pc \in {"start", "account", "place", "read", "peek"} =>
    /\ \A k \in DOMAIN out : DOMAIN out[k].cells = Places
    /\ total + (IF pc = "read" /\ discard THEN 1 ELSE 0)
         = again + stat.disccnt + Cardinality(Flagged) + Cardinality(Gone)

\* The extremes of the numbers that have arrived.
Extremes ==
  /\ pc = "start" => arrived = <<>>
  /\ arrived = <<>> => /\ pc \in {"start", "account", "ended"} /\ stat.pktcnt = 0 /\ epoch = 0
                       /\ minseq = maxseq /\ (pc = "account" => minseq = seqnr)
  /\ arrived # <<>> => /\ minseq \in Seen /\ maxseq \in Seen /\ Seen \subseteq minseq..maxseq
                       /\ stat.pktcnt = Len(arrived)
                       /\ stat.loscnt = (maxseq - minseq + 1 - stat.pktcnt) % Wrap

\* The ring of the last numbers.
Ring ==
  /\ psn.elements \in [0..Kept - 1 -> Seqs]
  /\ psn.nelements \in 0..Kept /\ psn.read_ptr \in 0..Kept /\ psn.write_ptr \in 0..Kept
  /\ psn.read_ptr + psn.nelements - psn.write_ptr \in {0, Kept}

IInv ==
  /\ Types /\ InPlace /\ OutInPlace /\ OutBefore /\ Placing
  /\ Accounted /\ Extremes /\ Ring /\ LastNumbersAreKept
-----------------------------------------------------------------------------
(* Facts.                                                                  *)

LEMMA Constants ==
  /\ N \in Nat /\ N >= 1 /\ Readahead \in Nat /\ Readahead >= 1 /\ Kept \in Nat /\ Kept >= 1
  /\ Window = 0..Readahead - 1 /\ Places = 0..N - 1 /\ 0 \in Window /\ 0 \in Places
  /\ Seqs \subseteq Nat /\ Missing \notin Seqs /\ Missing \notin Nat
BY UdpsAssumption DEF Window, Places, Seqs, Missing

\* Products, which the rest of the proofs are not to look into.
LEMMA Products ==
  /\ \A i \in Nat : i * N \in Nat /\ (i + 1) * N = i * N + N
  /\ 0 * N = 0
  /\ \A i, j \in Nat : i < j => i * N + N <= j * N
<1>1. N \in Nat
  BY Constants
<1>2. ASSUME NEW i \in Nat PROVE i * N \in Nat /\ (i + 1) * N = i * N + N
  BY <1>1
<1>3. ASSUME NEW i \in Nat, NEW j \in Nat, i < j PROVE i * N + N <= j * N
  <2>1. PICK d \in Nat : j = (i + 1) + d
    <3>1. j - (i + 1) \in Nat /\ j = (i + 1) + (j - (i + 1))
      BY <1>3
    <3>. QED  BY <3>1
  <2>2. j * N = (i + 1) * N + d * N
    BY <1>1, <2>1
  <2>3. d * N \in Nat
    BY <1>1
  <2>. QED  BY <1>1, <1>2, <2>2, <2>3
<1>. QED  BY <1>1, <1>2, <1>3

\* No two places of the window are for the same number.
LEMMA Apart ==
  ASSUME NEW i \in Nat, NEW j \in Nat, NEW p \in Places, NEW q \in Places,
         i * N + p = j * N + q
  PROVE  i = j /\ p = q
<1>1. /\ p \in Nat /\ q \in Nat /\ p < N /\ q < N /\ N \in Nat
      /\ i * N \in Nat /\ j * N \in Nat
  BY Constants, Products
<1>2. ~(i < j)
  BY <1>1, Products
<1>3. ~(j < i)
  BY <1>1, Products
<1>4. i = j
  BY <1>2, <1>3
<1>. QED  BY <1>1, <1>4

\* And there is one for each number from the first to the end of the window.
LEMMA Located ==
  ASSUME NEW d \in Nat, d < Readahead * N
  PROVE  \E i \in Window, p \in Places : d = i * N + p
<1>1. N \in Nat /\ N >= 1 /\ Readahead \in Nat
  BY Constants
<1>. DEFINE i == d \div N
            p == d % N
<1>2. i \in Nat /\ p \in Places /\ d = i * N + p
  BY <1>1, Constants
<1>3. i < Readahead
  <2>1. SUFFICES ASSUME Readahead <= i PROVE FALSE
    BY <1>1, <1>2
  <2>2. Readahead * N <= i * N
    <3>1. CASE Readahead = i
      BY <1>1, <3>1
    <3>2. CASE Readahead < i
      BY <1>1, <1>2, <3>2, Products
    <3>. QED  BY <1>1, <1>2, <2>1, <3>1, <3>2
  <2>3. p \in Nat /\ i * N \in Nat /\ Readahead * N \in Nat
    BY <1>1, <1>2, Constants
  <2>. DEFINE a == Readahead * N
              b == i * N
  <2>4. a \in Nat /\ b \in Nat /\ p \in Nat /\ a <= b /\ d = b + p /\ d < a
    BY <1>2, <2>2, <2>3
  <2>. HIDE DEF i, p, a, b
  <2>. QED  BY ONLY <2>4
<1>4. i \in Window
  BY <1>1, <1>2, <1>3, Constants
<1>. HIDE DEF i, p
<1>. QED  BY <1>2, <1>4

LEMMA FlaggedFacts ==
  ASSUME Types
  PROVE  /\ Flagged \subseteq Pairs /\ IsFiniteSet(Flagged)
         /\ \A i \in Window, p \in Places :
              <<i, p>> \in Flagged <=> workbuf[i] # Empty /\ workbuf[i][p] # Missing
         /\ \A i \in Window, p \in Places :
              workbuf[i] # Empty => workbuf[i] \in Blocks /\ workbuf[i][p] \in Flags
         /\ Empty \notin Blocks
<1>1. Flagged \subseteq Pairs
  BY DEF Flagged
<1>2. IsFiniteSet(Window) /\ IsFiniteSet(Places)
  BY Constants, FS_Interval
<1>3. IsFiniteSet(Pairs)
  BY <1>2, FS_Product DEF Pairs
<1>4. IsFiniteSet(Flagged)
  BY <1>1, <1>3, FS_Subset
<1>5. \A i \in Window, p \in Places :
        <<i, p>> \in Flagged <=> workbuf[i] # Empty /\ workbuf[i][p] # Missing
  BY DEF Flagged, Pairs
<1>6. \A i \in Window, p \in Places :
        workbuf[i] # Empty => workbuf[i] \in Blocks /\ workbuf[i][p] \in Flags
  BY DEF Types, Blocks, Flags
<1>7. Empty \notin Blocks
  BY Constants DEF Empty, Blocks
<1>. QED  BY <1>1, <1>4, <1>5, <1>6, <1>7

LEMMA NewBlockFacts ==
  NewBlock \in Blocks /\ NewBlock # Empty /\ \A p \in Places : NewBlock[p] = Missing
BY Constants DEF NewBlock, Blocks, Empty

LEMMA OutFacts ==
  ASSUME Types
  PROVE  /\ Len(out) \in Nat /\ DOMAIN out = 1..Len(out)
         /\ \A k \in DOMAIN out : /\ out[k] \in Messages /\ out[k].first \in Nat
                                  /\ out[k].epoch \in Nat
         /\ \A m \in Messages : /\ Len(Append(out, m)) = Len(out) + 1
                   /\ DOMAIN Append(out, m) = 1..Len(out) + 1
                   /\ \A k \in DOMAIN out : Append(out, m)[k] = out[k]
                   /\ Append(out, m)[Len(out) + 1] = m
<1>1. out \in Seq(Messages)
  BY DEF Types
<1>2. Len(out) \in Nat /\ DOMAIN out = 1..Len(out)
  BY <1>1, LenProperties
<1>3. \A k \in DOMAIN out : out[k] \in Messages
  BY <1>1, <1>2, ElementOfSeq
<1>4. \A k \in DOMAIN out : out[k].first \in Nat /\ out[k].epoch \in Nat
  BY <1>3 DEF Messages
<1>5. ASSUME NEW m \in Messages
      PROVE  /\ Len(Append(out, m)) = Len(out) + 1
             /\ DOMAIN Append(out, m) = 1..Len(out) + 1
             /\ \A k \in DOMAIN out : Append(out, m)[k] = out[k]
             /\ Append(out, m)[Len(out) + 1] = m
  <2>1. /\ Append(out, m) \in Seq(Messages) /\ Len(Append(out, m)) = Len(out) + 1
        /\ \A k \in 1..Len(out) : Append(out, m)[k] = out[k]
        /\ Append(out, m)[Len(out) + 1] = m
    BY <1>1, AppendProperties
  <2>2. DOMAIN Append(out, m) = 1..Len(Append(out, m))
    BY <2>1, LenProperties
  <2>. QED  BY <1>2, <2>1, <2>2
<1>. QED  BY <1>2, <1>3, <1>4, <1>5

\* What is pushed of a block: n of its datagrams.
LEMMA PushedFacts ==
  ASSUME Types, NEW i \in Window, workbuf[i] # Empty, NEW n \in 1..N,
         out' = Pushed(i, n)
  PROVE  /\ out' \in Seq(Messages) /\ Len(out) \in Nat
         /\ DOMAIN out = 1..Len(out) /\ DOMAIN out' = 1..Len(out) + 1
         /\ \A k \in DOMAIN out : out'[k] = out[k]
         /\ out'[Len(out) + 1].first = Start(i) /\ out'[Len(out) + 1].epoch = epoch
         /\ DOMAIN out'[Len(out) + 1].cells = 0..n - 1 /\ 0..n - 1 \subseteq Places
         /\ \A p \in 0..n - 1 : out'[Len(out) + 1].cells[p] = workbuf[i][p]
<1>. DEFINE cells == [p \in 0..n - 1 |-> workbuf[i][p]]
            m == [first |-> firstseqnr + i * N, epoch |-> epoch, cells |-> cells]
<1>1. out' = Append(out, m)
  BY DEF Pushed
<1>2. 0..n - 1 \subseteq Places
  BY Constants
<1>3. cells \in [0..n - 1 -> Flags]
  BY <1>2, FlaggedFacts
<1>4. firstseqnr + i * N \in Nat /\ epoch \in Nat
  <2>1. i \in Nat
    BY Constants
  <2>2. i * N \in Nat
    BY ONLY <2>1, Products
  <2>. DEFINE a == i * N
  <2>3. a \in Nat /\ firstseqnr \in Nat /\ epoch \in Nat
    BY <2>2 DEF Types
  <2>. HIDE DEF a
  <2>4. firstseqnr + a \in Nat
    BY ONLY <2>3
  <2>. QED  BY <2>3, <2>4 DEF a
<1>5. m \in Messages
  BY ONLY <1>3, <1>4 DEF Messages
<1>6. out' \in Seq(Messages)
  BY <1>1, <1>5, AppendProperties DEF Types
<1>7. /\ m.first = Start(i) /\ m.epoch = epoch /\ m.cells = cells
  BY DEF Start
<1>8. DOMAIN cells = 0..n - 1 /\ \A p \in 0..n - 1 : cells[p] = workbuf[i][p]
  OBVIOUS
<1>. HIDE DEF m, cells
<1>. QED  BY <1>1, <1>2, <1>6, <1>7, <1>8, OutFacts

-----------------------------------------------------------------------------
(* Types.                                                                  *)

LEMMA ShiftWindow ==
  ASSUME Types
  PROVE  /\ Shifted \in [Window -> Blocks \cup {Empty}]
         /\ \A i \in Window : i # Readahead - 1 => i + 1 \in Window /\ Shifted[i] = workbuf[i + 1]
         /\ Shifted[Readahead - 1] = Empty
<1>1. \A i \in Window : i # Readahead - 1 => i + 1 \in Window
  BY Constants
<1>2. \A i \in Window : i # Readahead - 1 => workbuf[i + 1] \in Blocks \cup {Empty}
  BY <1>1 DEF Types
<1>3. Readahead - 1 \in Window
  BY Constants
<1>. QED  BY <1>1, <1>2, <1>3 DEF Shifted

LEMMA RestartWindow ==
  ASSUME Types
  PROVE  /\ Restarted \in [Window -> Blocks \cup {Empty}]
         /\ \A i \in Window, p \in Places : Restarted[i] # Empty => Restarted[i][p] = Missing
BY NewBlockFacts DEF Restarted

LEMMA PlaceWindow ==
  ASSUME Types, Place
  PROVE  /\ workbuf' \in [Window -> Blocks \cup {Empty}]
         /\ \A i \in Window : workbuf[i] # Empty => workbuf'[i] = workbuf[i]
         /\ \A i \in Window : workbuf[i] = Empty => workbuf'[i] \in {NewBlock, Empty}
         /\ \A i \in Window : (\E p \in Places : IsAt(i, p)) => workbuf'[i] # Empty
<1>1. workbuf' = [i \in Window |-> IF Wanted(i) THEN NewBlock ELSE workbuf[i]]
  BY DEF Place
<1>2. \A i \in Window : workbuf[i] \in Blocks \cup {Empty}
  BY DEF Types
<1>. QED  BY <1>1, <1>2, NewBlockFacts DEF Wanted

\* At most the place of the datagram gets a new value, and that is its number.
LEMMA ReadWindow ==
  ASSUME Types, Read
  PROVE  /\ workbuf' \in [Window -> Blocks \cup {Empty}]
         /\ \A i \in Window : workbuf'[i] = Empty <=> workbuf[i] = Empty
         /\ discard => workbuf' = workbuf
         /\ \A i \in Window, p \in Places : workbuf[i] # Empty =>
              workbuf'[i][p] = IF ~discard /\ IsAt(i, p) THEN seqnr ELSE workbuf[i][p]
<1>. DEFINE B(i) == [p \in Places |-> IF IsAt(i, p) THEN seqnr ELSE workbuf[i][p]]
<1>1. workbuf' = [i \in Window |-> IF workbuf[i] = Empty \/ discard THEN workbuf[i] ELSE B(i)]
  BY DEF Read
<1>2. \A i \in Window : workbuf[i] \in Blocks \cup {Empty}
  BY DEF Types
<1>3. ASSUME NEW i \in Window, workbuf[i] # Empty
      PROVE  B(i) \in Blocks /\ B(i) # Empty
  <2>1. \A p \in Places : workbuf[i][p] \in Flags /\ seqnr \in Flags
    BY <1>3, FlaggedFacts DEF Types, Flags
  <2>2. B(i) \in Blocks
    BY <2>1 DEF Blocks, Flags
  <2>. QED  BY <2>2, FlaggedFacts
<1>4. \A i \in Window, p \in Places : B(i)[p] = IF IsAt(i, p) THEN seqnr ELSE workbuf[i][p]
  OBVIOUS
<1>5. discard => workbuf' = workbuf
  BY <1>1 DEF Types
<1>. HIDE DEF B
<1>. QED  BY <1>1, <1>2, <1>3, <1>4, <1>5

LEMMA ArrivedTypes ==
  ASSUME Types
  PROVE  /\ Append(arrived, seqnr) \in Seq(Seqs) /\ <<seqnr>> \in Seq(Seqs)
         /\ Len(arrived) \in Nat /\ DOMAIN arrived = 1..Len(arrived)
         /\ Len(Append(arrived, seqnr)) = Len(arrived) + 1
         /\ DOMAIN Append(arrived, seqnr) = 1..Len(arrived) + 1
         /\ \A k \in 1..Len(arrived) : Append(arrived, seqnr)[k] = arrived[k]
         /\ Append(arrived, seqnr)[Len(arrived) + 1] = seqnr
         /\ Len(<<seqnr>>) = 1 /\ DOMAIN <<seqnr>> = 1..1 /\ <<seqnr>>[1] = seqnr
<1>1. arrived \in Seq(Seqs) /\ seqnr \in Seqs
  BY DEF Types
<1>2. <<seqnr>> \in Seq(Seqs) /\ Len(<<seqnr>>) = 1 /\ <<seqnr>>[1] = seqnr
  BY <1>1
<1>3. /\ Append(arrived, seqnr) \in Seq(Seqs) /\ Len(Append(arrived, seqnr)) = Len(arrived) + 1
      /\ \A k \in 1..Len(arrived) : Append(arrived, seqnr)[k] = arrived[k]
      /\ Append(arrived, seqnr)[Len(arrived) + 1] = seqnr
  BY <1>1, AppendProperties
<1>4. DOMAIN <<seqnr>> = 1..1 /\ DOMAIN Append(arrived, seqnr) = 1..Len(Append(arrived, seqnr))
      /\ Len(arrived) \in Nat /\ DOMAIN arrived = 1..Len(arrived)
  BY <1>1, <1>2, <1>3, LenProperties
<1>. QED  BY <1>2, <1>3, <1>4

LEMMA AccountTypes ==
  ASSUME Types, Account
  PROVE  /\ maxseq' \in Seqs /\ minseq' \in Seqs /\ expectseqnr' \in Nat
         /\ stat'.pktcnt = (IF Resync THEN 1 ELSE stat.pktcnt + 1)
         /\ stat'.pktcnt \in Nat
         /\ stat'.loscnt = (maxseq' - minseq' + 1 - stat'.pktcnt) % Wrap
         /\ stat'.disccnt = stat.disccnt + (IF Resync THEN Cardinality(Flagged)
                                            ELSE IF Late THEN 1 ELSE 0)
         /\ stat'.disccnt \in Nat
         /\ psn' = (IF Resync THEN clear(push(psn, Kept, seqnr)) ELSE push(psn, Kept, seqnr))
<1>1. seqnr \in Seqs /\ seqnr \in Nat /\ maxseq \in Seqs /\ minseq \in Seqs /\ expectseqnr \in Nat
      /\ stat.pktcnt \in Nat /\ stat.disccnt \in Nat
  BY Constants DEF Types
<1>2. Cardinality(Flagged) \in Nat
  BY FlaggedFacts, FS_CardinalityType
<1>3. maxseq' = HighestNumber /\ minseq' = LowestNumber /\ Statistics
  BY DEF Account, Statistics
<1>4. maxseq' \in Seqs /\ minseq' \in Seqs
  BY <1>1, <1>3 DEF HighestNumber, LowestNumber
<1>5. expectseqnr' = (IF Resync THEN seqnr
                      ELSE IF seqnr < expectseqnr THEN expectseqnr ELSE seqnr + 1)
      /\ psn' = (IF Resync THEN clear(push(psn, Kept, seqnr)) ELSE push(psn, Kept, seqnr))
  BY <1>3 DEF Statistics
<1>6. expectseqnr' \in Nat
  BY <1>1, <1>5
<1>7. /\ stat'.pktcnt = (IF Resync THEN 1 ELSE stat.pktcnt + 1)
      /\ stat'.loscnt = (maxseq' - minseq' + 1 - (IF Resync THEN 1 ELSE stat.pktcnt + 1)) % Wrap
      /\ stat'.disccnt = stat.disccnt + (IF Resync THEN Cardinality(Flagged)
                                         ELSE IF Late THEN 1 ELSE 0)
  BY <1>3 DEF Statistics
<1>8. stat'.pktcnt \in Nat /\ stat'.disccnt \in Nat
  BY <1>1, <1>2, <1>7
<1>. QED  BY <1>4, <1>5, <1>6, <1>7, <1>8

LEMMA WindowHoldsOneBlock == Readahead * N \in Nat /\ N <= Readahead * N
<1>1. 0 \in Nat /\ Readahead \in Nat /\ 0 < Readahead /\ N \in Nat
  BY Constants
<1>2. 0 * N = 0 /\ 0 * N + N <= Readahead * N /\ Readahead * N \in Nat
  BY ONLY <1>1, Products
<1>. DEFINE a == Readahead * N
            z == 0 * N
<1>3. z = 0 /\ z + N <= a /\ a \in Nat
  BY <1>2
<1>. HIDE DEF a, z
<1>4. N <= a
  BY ONLY <1>1, <1>3
<1>. QED  BY <1>3, <1>4 DEF a

LEMMA StartFacts ==
  ASSUME Types
  PROVE  /\ Start(0) = firstseqnr /\ firstseqnr \in Nat
         /\ \A i \in Nat : Start(i) \in Nat /\ Start(i + 1) = Start(i) + N
<1>1. firstseqnr \in Nat /\ N \in Nat
  BY Constants DEF Types
<1>2. Start(0) = firstseqnr
  <2>. DEFINE z == 0 * N
  <2>1. z = 0 /\ Start(0) = firstseqnr + z
    BY Products DEF Start
  <2>. HIDE DEF z
  <2>. QED  BY ONLY <1>1, <2>1
<1>3. ASSUME NEW i \in Nat PROVE Start(i) \in Nat /\ Start(i + 1) = Start(i) + N
  <2>. DEFINE a == i * N
              b == (i + 1) * N
  <2>1. a \in Nat /\ b = a + N
    BY ONLY <1>3, Products
  <2>2. Start(i) = firstseqnr + a /\ Start(i + 1) = firstseqnr + b
    BY DEF Start
  <2>. HIDE DEF a, b
  <2>. QED  BY ONLY <1>1, <2>1, <2>2
<1>. QED  BY <1>1, <1>2, <1>3

\* When the window has been shifted past all its blocks, the datagram fits in it.
LEMMA ShiftFacts ==
  ASSUME Types, Placing, Shift
  PROVE  /\ shiftcount' = shiftcount + 1 /\ shiftcount < Readahead /\ flushing = 0
         /\ firstseqnr' = (IF shiftcount + 1 = Readahead THEN seqnr ELSE firstseqnr + N)
         /\ firstseqnr' \in Nat /\ seqnr \in Nat /\ seqnr >= firstseqnr'
         /\ firstseqnr' >= firstseqnr + N
         /\ ~discard
         /\ \A i \in Window : i + shiftcount >= Readahead => workbuf[i] = Empty
         /\ workbuf' = Shifted
         /\ workbuf[0] = Empty => out' = out
         /\ workbuf[0] # Empty => out' = Pushed(0, N)
<1>. DEFINE a == Readahead * N
<1>1. a \in Nat /\ N <= a /\ N \in Nat /\ N >= 1 /\ Readahead \in Nat
  BY WindowHoldsOneBlock, Constants
<1>2. /\ seqnr \in Nat /\ firstseqnr \in Nat /\ shiftcount \in 0..Readahead /\ flushing \in 0..Readahead
  BY Constants DEF Types
<1>3. ~(seqnr < firstseqnr + a) /\ pc = "place"
  BY DEF Shift, InWindow
<1>4. /\ shiftcount' = shiftcount + 1
      /\ firstseqnr' = (IF shiftcount' = Readahead THEN seqnr ELSE firstseqnr + N)
      /\ workbuf' = Shifted
      /\ workbuf[0] = Empty => out' = out
      /\ workbuf[0] # Empty => out' = Pushed(0, N)
  BY DEF Shift
<1>5. /\ ~discard /\ ~(flushing > 0)
      /\ \A i \in Window : i + shiftcount >= Readahead => workbuf[i] = Empty
      /\ shiftcount = Readahead => seqnr = firstseqnr
  BY <1>3 DEF Placing
<1>. HIDE DEF a
<1>6. shiftcount # Readahead /\ flushing = 0
  BY ONLY <1>1, <1>2, <1>3, <1>5
<1>7. /\ shiftcount < Readahead
      /\ firstseqnr' = (IF shiftcount + 1 = Readahead THEN seqnr ELSE firstseqnr + N)
      /\ firstseqnr' \in Nat /\ seqnr >= firstseqnr' /\ firstseqnr' >= firstseqnr + N
  BY ONLY <1>1, <1>2, <1>3, <1>4, <1>6
<1>. QED  BY <1>2, <1>4, <1>5, <1>6, <1>7

\* What is pushed at the end is at most a block, and begins at its start.
LEMMA FlushFacts ==
  ASSUME Types, Left
  PROVE  /\ flushing \in Window /\ flushing \in Nat /\ Size \in 1..N
         /\ Start(flushing) \in Nat /\ Start(flushing + 1) = Start(flushing) + N
<1>1. flushing \in Nat /\ flushing < Readahead /\ Start(flushing) <= maxseq
      /\ maxseq \in Nat /\ N \in Nat /\ N >= 1
  BY Constants DEF Types, Left
<1>2. Start(flushing) \in Nat /\ Start(flushing + 1) = Start(flushing) + N
  BY <1>1, StartFacts
<1>3. Size \in 1..N
  BY <1>1, <1>2 DEF Size
<1>4. flushing \in Window
  BY <1>1, Constants
<1>. QED  BY <1>1, <1>2, <1>3, <1>4

LEMMA TypesNext ==
  ASSUME Types, Placing, Next
  PROVE  Types'
<1>1. ASSUME NEW s \in Seqs, First(s) PROVE Types'
  BY <1>1, Constants DEF First, Types, history, PCs
<1>2. ASSUME NEW s \in Seqs, Peek(s) PROVE Types'
  BY <1>2 DEF Peek, Types, history, PCs
<1>3. CASE NoFirst \/ ShiftRefused \/ ReadFails \/ PeekFails \/ FlushThrows \/ Ends
  <2>1. pc' \in PCs
    BY <1>3 DEF NoFirst, ShiftRefused, ReadFails, PeekFails, Stop, FlushThrows, Ends, PCs
  <2>2. UNCHANGED <<numbers, shiftcount, workbuf, stat, psn, flushing, out, history>>
    BY <1>3 DEF NoFirst, ShiftRefused, ReadFails, PeekFails, Stop, FlushThrows, Ends
  <2>. QED  BY <2>1, <2>2 DEF Types, numbers, history
<1>4. CASE Account
  <2>1. /\ maxseq' \in Seqs /\ minseq' \in Seqs /\ expectseqnr' \in Nat
        /\ stat'.pktcnt \in Nat /\ stat'.disccnt \in Nat
    BY <1>4, AccountTypes
  <2>2. pc' \in PCs /\ discard' \in BOOLEAN /\ shiftcount' = 0
        /\ UNCHANGED <<seqnr, flushing, out, total, again>>
    BY <1>4 DEF Account, PCs, Late, Older
  <2>3. shiftcount' \in 0..Readahead
    BY <2>2, Constants
  <2>4. firstseqnr' \in Nat
    BY <1>4, Constants DEF Account, Types
  <2>5. workbuf' \in [Window -> Blocks \cup {Empty}]
    BY <1>4, RestartWindow DEF Account, Types
  <2>6. arrived' \in Seq(Seqs)
    BY <1>4, ArrivedTypes DEF Account
  <2>7. epoch' \in Nat
    BY <1>4 DEF Account, Types
  <2>. QED  BY <2>1, <2>2, <2>3, <2>4, <2>5, <2>6, <2>7 DEF Types
<1>5. CASE Place
  BY <1>5, PlaceWindow DEF Place, Types, numbers, history, PCs
<1>6. CASE Shift
  <2>1. /\ shiftcount' \in 0..Readahead /\ firstseqnr' \in Nat
    BY <1>6, ShiftFacts, Constants DEF Types
  <2>2. out' \in Seq(Messages)
    <3>1. N \in 1..N /\ 0 \in Window
      BY Constants
    <3>2. CASE workbuf[0] = Empty
      BY <1>6, <3>2, ShiftFacts DEF Types
    <3>3. CASE workbuf[0] # Empty
      <4>1. out' = Pushed(0, N)
        BY <1>6, <3>3, ShiftFacts
      <4>. QED  BY <3>1, <3>3, <4>1, PushedFacts
    <3>. QED  BY <3>2, <3>3
  <2>3. workbuf' \in [Window -> Blocks \cup {Empty}]
    BY <1>6, ShiftFacts, ShiftWindow
  <2>4. UNCHANGED <<pc, seqnr, expectseqnr, maxseq, minseq, discard, stat, psn, flushing, history>>
    BY <1>6 DEF Shift
  <2>. QED  BY <2>1, <2>2, <2>3, <2>4 DEF Types, history
<1>7. CASE Read
  <2>1. again' \in Nat /\ total' \in Nat /\ pc' \in PCs
    BY <1>7 DEF Read, Types, PCs
  <2>2. UNCHANGED <<numbers, shiftcount, stat, psn, flushing, out, arrived, epoch>>
    BY <1>7 DEF Read
  <2>. QED  BY <1>7, <2>1, <2>2, ReadWindow DEF Types, numbers
<1>8. CASE Flush
  <2>1. Left
    BY <1>8 DEF Flush
  <2>2. flushing' \in 0..Readahead
    BY <1>8, <2>1, FlushFacts, Constants DEF Flush
  <2>3. out' \in Seq(Messages)
    <3>1. CASE Pushes
      <4>1. workbuf[flushing] # Empty /\ out' = Pushed(flushing, Size)
        BY <1>8, <3>1 DEF Flush
      <4>2. flushing \in Window /\ Size \in 1..N
        BY <2>1, FlushFacts
      <4>. QED  BY <4>1, <4>2, PushedFacts
    <3>2. CASE ~Pushes
      BY <1>8, <3>2 DEF Flush, Types
    <3>. QED  BY <3>1, <3>2
  <2>4. UNCHANGED <<pc, numbers, shiftcount, workbuf, stat, psn, history>>
    BY <1>8 DEF Flush
  <2>. QED  BY <2>2, <2>3, <2>4 DEF Types, numbers, history
<1>. QED  BY <1>1, <1>2, <1>3, <1>4, <1>5, <1>6, <1>7, <1>8 DEF Next

-----------------------------------------------------------------------------
(* Where the datagrams are.                                                *)

Quiet == NoFirst \/ ShiftRefused \/ ReadFails \/ PeekFails \/ FlushThrows \/ Ends

LEMMA QuietFacts ==
  ASSUME Quiet
  PROVE  /\ UNCHANGED <<numbers, shiftcount, workbuf, stat, psn, flushing, out, history>>
         /\ pc' \in {"flush", "flushed", "threw", "ended"}
BY DEF Quiet, NoFirst, ShiftRefused, ReadFails, PeekFails, Stop, FlushThrows, Ends

LEMMA PlacingNext ==
  ASSUME Types, Placing, Next
  PROVE  Placing'
<1>1. ASSUME NEW s \in Seqs, First(s) PROVE Placing'
  BY <1>1 DEF First, Placing
<1>2. ASSUME NEW s \in Seqs, Peek(s) PROVE Placing'
  BY <1>2 DEF Peek, Placing
<1>3. CASE Quiet
  <2>1. pc' \notin {"start", "place", "read"}
    BY <1>3, QuietFacts
  <2>2. pc' \in {"flush", "flushed", "threw", "ended"}
    BY <1>3, QuietFacts
  <2>. QED  BY <2>1, <2>2 DEF Placing
<1>4. CASE Account
  <2>1. /\ flushing' = flushing /\ shiftcount' = 0 /\ pc = "account"
        /\ discard' = Late /\ pc' = (IF Late THEN "read" ELSE "place")
        /\ seqnr' = seqnr /\ firstseqnr' = (IF Resync THEN seqnr ELSE firstseqnr)
    BY <1>4 DEF Account
  <2>2. ~(flushing > 0)
    BY <2>1 DEF Placing
  <2>3. pc' = "place" => ~discard'
    BY <2>1
  <2>4. pc' = "read" => discard'
    BY <2>1
  <2>5. pc' = "place" => seqnr' >= firstseqnr'
    <3>1. seqnr \in Nat /\ firstseqnr \in Nat
      BY Constants DEF Types
    <3>2. CASE Resync
      BY <2>1, <3>1, <3>2
    <3>3. CASE ~Resync /\ ~Late
      <4>1. ~(seqnr < firstseqnr)
        BY <3>3 DEF Resync, Older
      <4>. QED  BY <2>1, <3>1, <3>3, <4>1
    <3>4. CASE Late
      BY <2>1, <3>4
    <3>. QED  BY <3>2, <3>3, <3>4
  <2>6. /\ \A i \in Window : ~(i + shiftcount' >= Readahead)
        /\ shiftcount' # Readahead
    BY <2>1, Constants
  <2>7. pc' # "start"
    BY <2>1
  <2>. QED  BY <2>1, <2>2, <2>3, <2>4, <2>5, <2>6, <2>7 DEF Placing
<1>5. CASE Place
  <2>1. /\ pc = "place" /\ pc' = "read" /\ InWindow
        /\ UNCHANGED <<seqnr, firstseqnr, discard, flushing>>
    BY <1>5 DEF Place, numbers
  <2>2. ~(flushing > 0) /\ seqnr >= firstseqnr
    BY <2>1 DEF Placing
  <2>3. PICK i \in Window, p \in Places : seqnr - firstseqnr = i * N + p
    <3>. DEFINE a == Readahead * N
    <3>1. seqnr \in Nat /\ firstseqnr \in Nat /\ a \in Nat /\ seqnr < firstseqnr + a
      BY <2>1, Constants, WindowHoldsOneBlock DEF Types, InWindow
    <3>. HIDE DEF a
    <3>2. seqnr - firstseqnr \in Nat /\ seqnr - firstseqnr < a
      BY ONLY <2>2, <3>1
    <3>. QED  BY <3>2, Located DEF a
  <2>4. IsAt(i, p)
    <3>. DEFINE b == i * N
    <3>1. i \in Nat /\ p \in Nat
      BY Constants
    <3>2. b \in Nat
      BY ONLY <3>1, Products
    <3>3. seqnr \in Nat /\ firstseqnr \in Nat /\ seqnr - firstseqnr = b + p
      BY <2>3, Constants DEF Types
    <3>. HIDE DEF b
    <3>4. seqnr = firstseqnr + b + p
      BY ONLY <3>1, <3>2, <3>3
    <3>. QED  BY <3>4 DEF b, IsAt
  <2>5. workbuf'[i] # Empty
    BY <1>5, <2>4, PlaceWindow
  <2>6. IsAt(i, p)'
    BY <2>1, <2>4 DEF IsAt
  <2>. QED  BY <2>1, <2>2, <2>5, <2>6 DEF Placing
<1>6. CASE Shift
  <2>1. pc' = "place" /\ UNCHANGED <<seqnr, discard, flushing>>
    BY <1>6 DEF Shift
  <2>2. /\ shiftcount' = shiftcount + 1 /\ shiftcount < Readahead /\ flushing = 0
        /\ firstseqnr' = (IF shiftcount + 1 = Readahead THEN seqnr ELSE firstseqnr + N)
        /\ seqnr >= firstseqnr' /\ ~discard /\ workbuf' = Shifted
        /\ \A i \in Window : i + shiftcount >= Readahead => workbuf[i] = Empty
    BY <1>6, ShiftFacts
  <2>3. ASSUME NEW i \in Window, i + shiftcount' >= Readahead
        PROVE  workbuf'[i] = Empty
    <3>1. i \in Nat /\ shiftcount \in Nat /\ Readahead \in Nat
      BY Constants DEF Types
    <3>2. CASE i = Readahead - 1
      BY <2>2, <3>2, ShiftWindow
    <3>3. CASE i # Readahead - 1
      <4>1. i + 1 \in Window /\ Shifted[i] = workbuf[i + 1]
        BY <3>3, ShiftWindow
      <4>2. i + 1 + shiftcount >= Readahead
        BY ONLY <2>2, <2>3, <3>1
      <4>. QED  BY <2>2, <4>1, <4>2
    <3>. QED  BY <3>2, <3>3
  <2>4. shiftcount' = Readahead => seqnr' = firstseqnr'
    BY <2>1, <2>2
  <2>. QED  BY <2>1, <2>2, <2>3, <2>4 DEF Placing
<1>7. CASE Read
  <2>1. pc = "read" /\ pc' = "peek" /\ flushing' = flushing
    BY <1>7 DEF Read
  <2>. QED  BY <2>1 DEF Placing
<1>8. CASE Flush
  BY <1>8 DEF Flush, Placing
<1>. QED  BY <1>1, <1>2, <1>3, <1>4, <1>5, <1>6, <1>7, <1>8 DEF Next, Quiet

\* An unchanged window.
LEMMA InPlaceStable ==
  ASSUME InPlace, UNCHANGED <<workbuf, firstseqnr>>
  PROVE  InPlace'
BY DEF InPlace, Flagged, Position, Start

LEMMA InPlaceAt ==
  ASSUME Types, InPlace, NEW i \in Window, NEW p \in Places,
         workbuf[i] # Empty, workbuf[i][p] # Missing
  PROVE  workbuf[i][p] = Start(i) + p
<1>1. <<i, p>> \in Flagged
  BY FlaggedFacts
<1>2. workbuf[i][p] = Position(<<i, p>>)
  BY <1>1 DEF InPlace
<1>. QED  BY <1>2 DEF Position

LEMMA InPlaceNext ==
  ASSUME Types, Types', InPlace, Placing, Next
  PROVE  InPlace'
<1>0. SUFFICES ASSUME UNCHANGED <<workbuf, firstseqnr>> => FALSE,
                      NEW i \in Window, NEW p \in Places,
                      workbuf'[i] # Empty, workbuf'[i][p] # Missing
               PROVE  workbuf'[i][p] = Start(i)' + p
  <2>1. CASE UNCHANGED <<workbuf, firstseqnr>>
    BY <2>1, InPlaceStable
  <2>2. ASSUME NEW x \in Flagged' PROVE x[1] \in Window /\ x[2] \in Places
                /\ workbuf'[x[1]] # Empty /\ workbuf'[x[1]][x[2]] # Missing
    BY DEF Flagged, Pairs
  <2>. QED  BY <2>1, <2>2 DEF InPlace, Position
<1>. DEFINE NowAt == workbuf'[i][p] = Start(i)' + p
<1>1. ASSUME NEW s \in Seqs, First(s) PROVE NowAt
  <2>1. workbuf' = workbuf /\ pc = "start"
    BY <1>1 DEF First
  <2>2. workbuf[i] = Empty
    BY <2>1 DEF Placing
  <2>. QED  BY <1>0, <2>1, <2>2
<1>2. ASSUME NEW s \in Seqs, Peek(s) PROVE NowAt
  BY <1>0, <1>2 DEF Peek
<1>3. CASE Quiet
  BY <1>0, <1>3, QuietFacts DEF numbers
<1>4. CASE Account
  <2>1. CASE Resync
    BY <1>0, <1>4, <2>1, RestartWindow DEF Account
  <2>2. CASE ~Resync
    BY <1>0, <1>4, <2>2 DEF Account
  <2>. QED  BY <2>1, <2>2
<1>5. CASE Place
  <2>1. firstseqnr' = firstseqnr
    BY <1>5 DEF Place, numbers
  <2>2. workbuf[i] # Empty
    BY <1>0, <1>5, PlaceWindow, NewBlockFacts
  <2>3. workbuf'[i] = workbuf[i]
    BY <1>5, <2>2, PlaceWindow
  <2>4. workbuf[i][p] = Start(i) + p
    BY <1>0, <2>2, <2>3, InPlaceAt
  <2>. QED  BY <2>1, <2>3, <2>4 DEF Start
<1>6. CASE Shift
  <2>1. /\ firstseqnr' = (IF shiftcount + 1 = Readahead THEN seqnr ELSE firstseqnr + N)
        /\ shiftcount < Readahead /\ workbuf' = Shifted
        /\ \A j \in Window : j + shiftcount >= Readahead => workbuf[j] = Empty
    BY <1>6, ShiftFacts
  <2>2. i # Readahead - 1
    BY <1>0, <2>1, ShiftWindow
  <2>3. i + 1 \in Window /\ workbuf'[i] = workbuf[i + 1]
    BY <2>1, <2>2, ShiftWindow
  <2>4. workbuf[i + 1][p] = Start(i + 1) + p
    BY <1>0, <2>3, InPlaceAt
  <2>5. i \in Nat /\ p \in Nat /\ shiftcount \in Nat /\ Readahead \in Nat /\ N \in Nat
    BY Constants DEF Types
  <2>6. firstseqnr' = firstseqnr + N
    <3>1. ~(i + 1 + shiftcount >= Readahead)
      BY <1>0, <2>1, <2>3
    <3>. QED  BY <2>1, <2>5, <3>1
  <2>7. Start(i)' = Start(i + 1)
    <3>1. Start(i) \in Nat /\ Start(i + 1) = Start(i) + N /\ firstseqnr \in Nat
      BY <2>5, StartFacts
    <3>. DEFINE a == i * N
    <3>2. a \in Nat
      BY ONLY <2>5, Products
    <3>3. Start(i) = firstseqnr + a /\ Start(i)' = firstseqnr' + a
      BY DEF Start
    <3>. HIDE DEF a
    <3>. QED  BY ONLY <2>5, <2>6, <3>1, <3>2, <3>3
  <2>. QED  BY <2>3, <2>4, <2>7
<1>7. CASE Read
  <2>1. firstseqnr' = firstseqnr
    BY <1>7 DEF Read, numbers
  <2>2. Start(i)' = Start(i)
    BY <2>1 DEF Start
  <2>3. workbuf[i] # Empty
    BY <1>0, <1>7, ReadWindow
  <2>4. workbuf'[i][p] = IF ~discard /\ IsAt(i, p) THEN seqnr ELSE workbuf[i][p]
    BY <1>7, <2>3, ReadWindow
  <2>5. CASE ~discard /\ IsAt(i, p)
    BY <2>2, <2>4, <2>5 DEF IsAt, Start
  <2>6. CASE ~(~discard /\ IsAt(i, p))
    <3>1. workbuf'[i][p] = workbuf[i][p]
      BY ONLY <2>4, <2>6
    <3>. QED  BY <1>0, <2>2, <2>3, <3>1, InPlaceAt
  <2>. QED  BY <2>5, <2>6
<1>8. CASE Flush
  BY <1>0, <1>8 DEF Flush, numbers
<1>. QED  BY <1>1, <1>2, <1>3, <1>4, <1>5, <1>6, <1>7, <1>8 DEF Next, Quiet

\* One message more, of a block of the window.
LEMMA OutInPlacePush ==
  ASSUME Types, InPlace, OutInPlace, NEW i \in Window, workbuf[i] # Empty, NEW n \in 1..N,
         out' = Pushed(i, n)
  PROVE  OutInPlace'
<1>1. /\ DOMAIN out = 1..Len(out) /\ DOMAIN out' = 1..Len(out) + 1 /\ Len(out) \in Nat
      /\ \A k \in DOMAIN out : out'[k] = out[k]
      /\ out'[Len(out) + 1].first = Start(i)
      /\ DOMAIN out'[Len(out) + 1].cells = 0..n - 1 /\ 0..n - 1 \subseteq Places
      /\ \A p \in 0..n - 1 : out'[Len(out) + 1].cells[p] = workbuf[i][p]
  BY PushedFacts
<1>2. ASSUME NEW k \in DOMAIN out', NEW p \in DOMAIN out'[k].cells
      PROVE  out'[k].cells[p] \in {Missing, out'[k].first + p}
  <2>1. CASE k \in DOMAIN out
    BY <1>1, <2>1 DEF OutInPlace
  <2>2. CASE k = Len(out) + 1
    <3>1. p \in Places /\ out'[k].cells[p] = workbuf[i][p] /\ out'[k].first = Start(i)
      BY <1>1, <2>2
    <3>2. workbuf[i][p] # Missing => workbuf[i][p] = Start(i) + p
      BY <3>1, InPlaceAt
    <3>. QED  BY <3>1, <3>2
  <2>. QED  BY <1>1, <2>1, <2>2
<1>. QED  BY <1>2 DEF OutInPlace

LEMMA OutInPlaceNext ==
  ASSUME Types, InPlace, OutInPlace, Next
  PROVE  OutInPlace'
<1>1. CASE out' = out
  BY <1>1 DEF OutInPlace
<1>2. CASE Shift
  BY <1>1, <1>2, Constants, OutInPlacePush DEF Shift
<1>3. CASE Flush
  <2>1. CASE Pushes
    BY <1>3, <2>1, FlushFacts, OutInPlacePush DEF Flush
  <2>2. CASE ~Pushes
    BY <1>1, <1>3, <2>2 DEF Flush
  <2>. QED  BY <2>1, <2>2
<1>4. ASSUME NEW s \in Seqs, First(s) \/ Peek(s) PROVE out' = out
  BY <1>4 DEF First, Peek
<1>5. CASE Account \/ Place \/ Read
  BY <1>1, <1>5 DEF Account, Place, Read
<1>6. CASE Quiet
  BY <1>1, <1>6, QuietFacts
<1>. QED  BY <1>1, <1>2, <1>3, <1>4, <1>5, <1>6 DEF Next, Quiet

LEMMA OutBeforePush ==
  ASSUME Types, Types', OutBefore, NEW i \in Window, workbuf[i] # Empty, NEW n \in 1..N,
         out' = Pushed(i, n), i = flushing, epoch' = epoch,
         Start(i) + N <= Start(flushing)'
  PROVE  OutBefore'
<1>1. /\ DOMAIN out = 1..Len(out) /\ DOMAIN out' = 1..Len(out) + 1 /\ Len(out) \in Nat
      /\ \A k \in DOMAIN out : out'[k] = out[k]
      /\ out'[Len(out) + 1].first = Start(i) /\ out'[Len(out) + 1].epoch = epoch
  BY PushedFacts
<1>2. N \in Nat /\ epoch \in Nat /\ Start(i) \in Nat /\ Start(flushing)' \in Nat
      /\ \A k \in DOMAIN out : out[k].first \in Nat /\ out[k].epoch \in Nat
  <2>1. i \in Nat
    BY Constants
  <2>2. Start(i) \in Nat
    BY <2>1, StartFacts
  <2>3. Start(flushing)' \in Nat
    <3>1. flushing' \in Nat /\ firstseqnr' \in Nat
      BY Constants DEF Types
    <3>2. flushing' * N \in Nat
      BY ONLY <3>1, Products
    <3>3. PICK y : y = flushing' * N
      OBVIOUS
    <3>4. y \in Nat /\ Start(flushing)' = firstseqnr' + y
      BY <3>2, <3>3 DEF Start
    <3>5. firstseqnr' + y \in Nat
      BY ONLY <3>1, <3>3, <3>4
    <3>. QED  BY <3>4, <3>5
  <2>4. N \in Nat /\ epoch \in Nat
    BY Constants DEF Types
  <2>. QED  BY <2>2, <2>3, <2>4, OutFacts
<1>3. \A k \in DOMAIN out : /\ out[k].epoch <= epoch
                            /\ out[k].epoch = epoch => out[k].first + N <= Start(i)
  BY DEF OutBefore
<1>4. \A k, l \in DOMAIN out :
       k < l => /\ out[k].epoch <= out[l].epoch
                /\ out[k].epoch = out[l].epoch => out[k].first + N <= out[l].first
  BY DEF OutBefore
<1>5. ASSUME NEW k \in DOMAIN out'
      PROVE  /\ out'[k].epoch <= epoch'
             /\ out'[k].epoch = epoch' => out'[k].first + N <= Start(flushing)'
  <2>1. CASE k \in DOMAIN out
    <3>1. out'[k] = out[k] /\ out[k].epoch <= epoch /\ out[k].first \in Nat
          /\ (out[k].epoch = epoch => out[k].first + N <= Start(i))
      BY <1>1, <1>2, <1>3, <2>1
    <3>. QED  BY <1>2, <3>1
  <2>2. CASE k = Len(out) + 1
    BY <1>1, <1>2, <2>2
  <2>. QED  BY <1>1, <2>1, <2>2
<1>6. ASSUME NEW k \in DOMAIN out', NEW l \in DOMAIN out', k < l
      PROVE  /\ out'[k].epoch <= out'[l].epoch
             /\ out'[k].epoch = out'[l].epoch => out'[k].first + N <= out'[l].first
  <2>1. k \in DOMAIN out
    BY <1>1, <1>6
  <2>2. CASE l \in DOMAIN out
    BY <1>1, <1>4, <1>6, <2>1, <2>2
  <2>3. CASE l = Len(out) + 1
    BY <1>1, <1>3, <2>1, <2>3
  <2>. QED  BY <1>1, <2>2, <2>3
<1>. QED  BY <1>5, <1>6 DEF OutBefore

LEMMA OutBeforeNext ==
  ASSUME Types, Types', Placing, OutBefore, Next
  PROVE  OutBefore'
<1>1. ASSUME UNCHANGED <<out, epoch, flushing, firstseqnr>> PROVE OutBefore'
  BY <1>1 DEF OutBefore, Start
<1>2. ASSUME NEW s \in Seqs, First(s) PROVE OutBefore'
  <2>1. out' = <<>>
    BY <1>2 DEF First, Placing
  <2>. QED  BY <2>1 DEF OutBefore
<1>3. ASSUME NEW s \in Seqs, Peek(s) PROVE OutBefore'
  BY <1>1, <1>3 DEF Peek, history
<1>4. CASE Quiet
  BY <1>1, <1>4, QuietFacts DEF numbers, history
<1>5. CASE Place \/ Read
  BY <1>1, <1>5 DEF Place, Read, numbers, history
<1>6. CASE Account
  <2>1. CASE Resync
    <3>1. out' = out /\ epoch' = epoch + 1 /\ epoch \in Nat
      BY <1>6, <2>1 DEF Account, Types
    <3>2. ASSUME NEW k \in DOMAIN out PROVE out[k].epoch < epoch'
      <4>1. out[k].epoch \in Nat /\ out[k].epoch <= epoch
        BY <3>2, OutFacts DEF OutBefore
      <4>. QED  BY <3>1, <4>1
    <3>3. \A k \in DOMAIN out : /\ out[k].epoch <= epoch' /\ out[k].epoch # epoch'
      <4>1. \A k \in DOMAIN out : out[k].epoch \in Nat
        BY OutFacts
      <4>. QED  BY <3>1, <3>2, <4>1
    <3>. QED  BY <3>1, <3>3 DEF OutBefore
  <2>2. CASE ~Resync
    <3>1. UNCHANGED <<out, flushing, firstseqnr>> /\ epoch' = epoch
      BY <1>6, <2>2 DEF Account, Types
    <3>. QED  BY <1>1, <3>1
  <2>. QED  BY <2>1, <2>2
<1>7. CASE Shift
  <2>1. /\ flushing = 0 /\ flushing' = 0 /\ epoch' = epoch
        /\ firstseqnr' \in Nat /\ firstseqnr' >= firstseqnr + N
    BY <1>7, ShiftFacts DEF Shift, history
  <2>2. Start(flushing) = firstseqnr /\ firstseqnr \in Nat /\ N \in Nat
    BY <2>1, StartFacts, Constants
  <2>3. Start(flushing)' = firstseqnr'
    <3>. DEFINE z == 0 * N
    <3>1. z = 0 /\ Start(flushing)' = firstseqnr' + z
      BY <2>1, Products DEF Start
    <3>. HIDE DEF z
    <3>. QED  BY ONLY <2>1, <3>1
  <2>4. CASE workbuf[0] = Empty
    <3>1. out' = out
      BY <1>7, <2>4, ShiftFacts
    <3>2. ASSUME NEW k \in DOMAIN out, out[k].epoch = epoch
          PROVE  out[k].first + N <= Start(flushing)'
      <4>1. out[k].first \in Nat /\ out[k].first + N <= Start(flushing)
        BY <3>2, OutFacts DEF OutBefore
      <4>. QED  BY <2>1, <2>2, <2>3, <4>1
    <3>. QED  BY <2>1, <3>1, <3>2 DEF OutBefore
  <2>5. CASE workbuf[0] # Empty
    <3>1. out' = Pushed(0, N) /\ N \in 1..N /\ 0 \in Window
      BY <1>7, <2>5, ShiftFacts, Constants
    <3>2. Start(0) + N <= Start(flushing)'
      BY <2>1, <2>2, <2>3
    <3>. QED  BY <2>1, <2>5, <3>1, <3>2, OutBeforePush
  <2>. QED  BY <2>4, <2>5
<1>8. CASE Flush
  <2>1. /\ flushing' = flushing + 1 /\ epoch' = epoch /\ firstseqnr' = firstseqnr /\ Left
    BY <1>8 DEF Flush, numbers, history
  <2>2. /\ flushing \in Window /\ Size \in 1..N
        /\ Start(flushing) \in Nat /\ Start(flushing + 1) = Start(flushing) + N
    BY <2>1, FlushFacts
  <2>3. Start(flushing)' = Start(flushing) + N
    BY <2>1, <2>2 DEF Start
  <2>4. CASE Pushes
    <3>1. workbuf[flushing] # Empty /\ out' = Pushed(flushing, Size)
      BY <1>8, <2>4 DEF Flush
    <3>2. Start(flushing) + N <= Start(flushing)'
      BY <2>2, <2>3, Constants
    <3>. QED  BY <2>1, <2>2, <3>1, <3>2, OutBeforePush
  <2>5. CASE ~Pushes
    <3>1. out' = out
      BY <1>8, <2>5 DEF Flush
    <3>2. ASSUME NEW k \in DOMAIN out, out[k].epoch = epoch
          PROVE  out[k].first + N <= Start(flushing)'
      <4>1. out[k].first \in Nat /\ out[k].first + N <= Start(flushing) /\ N \in Nat
        BY <3>2, OutFacts, Constants DEF OutBefore
      <4>. QED  BY <2>2, <2>3, <4>1
    <3>. QED  BY <2>1, <3>1, <3>2 DEF OutBefore
  <2>. QED  BY <2>4, <2>5
<1>. QED  BY <1>2, <1>3, <1>4, <1>5, <1>6, <1>7, <1>8 DEF Next, Quiet

-----------------------------------------------------------------------------
(* How many there are.                                                     *)

LEMMA GoneFacts ==
  ASSUME Types
  PROVE  /\ Gone \subseteq (DOMAIN out) \X Places /\ IsFiniteSet(Gone)
         /\ Cardinality(Gone) \in Nat /\ Cardinality(Flagged) \in Nat
<1>1. Gone \subseteq (DOMAIN out) \X Places
  BY DEF Gone
<1>2. IsFiniteSet(DOMAIN out) /\ IsFiniteSet(Places)
  <2>1. DOMAIN out = 1..Len(out) /\ Len(out) \in Nat
    BY OutFacts
  <2>2. Places = 0..N - 1 /\ N \in Nat
    BY Constants
  <2>3. IsFiniteSet(1..Len(out))
    BY <2>1, FS_Interval
  <2>4. IsFiniteSet(0..N - 1)
    BY <2>2, FS_Interval
  <2>. QED  BY <2>1, <2>2, <2>3, <2>4
<1>3. IsFiniteSet((DOMAIN out) \X Places)
  BY <1>2, FS_Product
<1>4. IsFiniteSet(Gone)
  BY <1>1, <1>3, FS_Subset
<1>. QED  BY <1>1, <1>4, FlaggedFacts, FS_CardinalityType

\* What has left the window is downstream.
LEMMA ShiftCount ==
  ASSUME Types, Types', Placing, Shift, \A k \in DOMAIN out : DOMAIN out[k].cells = Places
  PROVE  /\ Cardinality(Flagged') + Cardinality(Gone') = Cardinality(Flagged) + Cardinality(Gone)
         /\ \A k \in DOMAIN out' : DOMAIN out'[k].cells = Places
<1>. DEFINE F0 == {x \in Flagged : x[1] = 0}
            F1 == {x \in Flagged : x[1] # 0}
            G == {Len(out) + 1} \X {p \in Places : workbuf[0] # Empty /\ workbuf[0][p] # Missing}
<1>1. /\ workbuf' = Shifted
      /\ workbuf[0] = Empty => out' = out
      /\ workbuf[0] # Empty => out' = Pushed(0, N)
  BY ShiftFacts
<1>2. IsFiniteSet(Flagged) /\ IsFiniteSet(Gone) /\ IsFiniteSet(F0) /\ IsFiniteSet(F1)
  <2>1. IsFiniteSet(Flagged) /\ IsFiniteSet(Gone)
    BY FlaggedFacts, GoneFacts
  <2>2. F0 \subseteq Flagged /\ F1 \subseteq Flagged
    OBVIOUS
  <2>. QED  BY <2>1, <2>2, FS_Subset
<1>3. Cardinality(Flagged) = Cardinality(F0) + Cardinality(F1)
      /\ Cardinality(F0) \in Nat /\ Cardinality(F1) \in Nat
  <2>1. F0 \cup F1 = Flagged /\ F0 \cap F1 = {}
    OBVIOUS
  <2>2. Cardinality(F0 \cup F1) = Cardinality(F0) + Cardinality(F1) - Cardinality(F0 \cap F1)
    BY <1>2, FS_Union
  <2>3. Cardinality(F0 \cap F1) = 0
    BY <2>1, FS_EmptySet
  <2>4. Cardinality(F0) \in Nat /\ Cardinality(F1) \in Nat
    BY <1>2, FS_CardinalityType
  <2>. HIDE DEF F0, F1
  <2>5. Cardinality(F0 \cup F1) = Cardinality(Flagged)
    BY <2>1, Zenon
  <2>. QED  BY <2>2, <2>3, <2>4, <2>5
<1>4. Cardinality(Flagged') = Cardinality(F1)
  <2>. DEFINE f == [x \in F1 |-> <<x[1] - 1, x[2]>>]
  <2>1. ASSUME NEW x \in F1
        PROVE  /\ x[1] \in Window /\ x[1] - 1 \in Window /\ x[1] - 1 + 1 = x[1] /\ x[2] \in Places
               /\ x = <<x[1], x[2]>> /\ f[x] \in Flagged'
    <3>1. x \in Flagged /\ x[1] # 0
      OBVIOUS
    <3>2. x[1] \in Window /\ x[2] \in Places /\ x = <<x[1], x[2]>>
          /\ workbuf[x[1]] # Empty /\ workbuf[x[1]][x[2]] # Missing
      BY <3>1 DEF Flagged, Pairs
    <3>3. x[1] - 1 \in Window /\ x[1] - 1 # Readahead - 1 /\ x[1] - 1 + 1 = x[1]
      BY <3>1, <3>2, Constants
    <3>4. workbuf'[x[1] - 1] = workbuf[x[1]]
      BY <1>1, <3>3, ShiftWindow
    <3>5. <<x[1] - 1, x[2]>> \in Flagged'
      BY <3>2, <3>3, <3>4 DEF Flagged, Pairs
    <3>. QED  BY <3>2, <3>3, <3>5
  <2>2. ASSUME NEW y \in Flagged' PROVE \E x \in F1 : f[x] = y
    <3>1. y[1] \in Window /\ y[2] \in Places /\ y = <<y[1], y[2]>>
          /\ workbuf'[y[1]] # Empty /\ workbuf'[y[1]][y[2]] # Missing
      BY DEF Flagged, Pairs
    <3>2. y[1] # Readahead - 1
      BY <1>1, <3>1, ShiftWindow
    <3>3. y[1] + 1 \in Window /\ workbuf'[y[1]] = workbuf[y[1] + 1]
      BY <1>1, <3>1, <3>2, ShiftWindow
    <3>4. y[1] + 1 # 0 /\ y[1] + 1 - 1 = y[1]
      BY <3>1, Constants
    <3>. DEFINE x == <<y[1] + 1, y[2]>>
    <3>5. x \in F1
      BY <3>1, <3>3, <3>4, FlaggedFacts
    <3>6. f[x] = y
      <4>1. x[1] = y[1] + 1 /\ x[2] = y[2]
        OBVIOUS
      <4>2. f[x] = <<x[1] - 1, x[2]>>
        BY <3>5
      <4>. HIDE DEF f, x
      <4>3. x[1] - 1 = y[1]
        BY <3>1, <4>1, Constants
      <4>4. f[x] = <<y[1], y[2]>>
        BY <4>1, <4>2, <4>3
      <4>. QED  BY <3>1, <4>4
    <3>. QED  BY <3>5, <3>6
  <2>3. \A x, y \in F1 : f[x] = f[y] => x = y
    <3>1. SUFFICES ASSUME NEW x \in F1, NEW y \in F1, f[x] = f[y] PROVE x = y
      OBVIOUS
    <3>2. x[1] - 1 = y[1] - 1 /\ x[2] = y[2]
      BY <3>1
    <3>3. x[1] = y[1]
      BY <2>1, <3>2
    <3>. QED  BY <2>1, <3>2, <3>3
  <2>4. f \in [F1 -> Flagged']
    BY <2>1
  <2>. HIDE DEF f, F1
  <2>5. f \in Bijection(F1, Flagged')
    BY <2>2, <2>3, <2>4 DEF Bijection, Injection, IsInjective, Surjection
  <2>. QED  BY <1>2, <2>5, FS_Bijection DEF ExistsBijection
<1>5. IsFiniteSet(G) /\ Cardinality(G) = Cardinality(F0)
  <2>. DEFINE g == [x \in F0 |-> <<Len(out) + 1, x[2]>>]
  <2>1. ASSUME NEW x \in F0
        PROVE  x = <<0, x[2]>> /\ g[x] = <<Len(out) + 1, x[2]>> /\ g[x] \in G
    BY DEF Flagged, Pairs
  <2>2. ASSUME NEW y \in G PROVE \E x \in F0 : g[x] = y
    <3>1. y = <<Len(out) + 1, y[2]>> /\ y[2] \in Places /\ workbuf[0] # Empty /\ workbuf[0][y[2]] # Missing
      OBVIOUS
    <3>2. <<0, y[2]>> \in F0
      BY <3>1, Constants, FlaggedFacts
    <3>3. g[<<0, y[2]>>] = y
      BY <3>1, <3>2
    <3>. QED  BY <3>2, <3>3
  <2>3. \A x, y \in F0 : g[x] = g[y] => x = y
    BY <2>1
  <2>4. g \in [F0 -> G]
    BY <2>1
  <2>. HIDE DEF g, F0, G
  <2>5. g \in Bijection(F0, G)
    BY <2>2, <2>3, <2>4 DEF Bijection, Injection, IsInjective, Surjection
  <2>. QED  BY <1>2, <2>5, FS_Bijection DEF ExistsBijection
<1>6. Gone' = Gone \cup G /\ Gone \cap G = {}
      /\ \A k \in DOMAIN out' : DOMAIN out'[k].cells = Places
  <2>1. DOMAIN out = 1..Len(out) /\ Len(out) \in Nat
    BY OutFacts
  <2>2. Gone \cap G = {}
    BY <2>1, GoneFacts
  <2>3. CASE workbuf[0] = Empty
    <3>1. out' = out /\ G = {}
      BY <1>1, <2>3
    <3>. HIDE DEF G
    <3>2. Gone' = Gone
      BY <3>1 DEF Gone
    <3>. QED  BY <2>2, <3>1, <3>2
  <2>4. CASE workbuf[0] # Empty
    <3>1. N \in 1..N /\ 0 \in Window /\ out' = Pushed(0, N) /\ 0..N - 1 = Places
      BY <1>1, <2>4, Constants
    <3>2. /\ DOMAIN out' = 1..Len(out) + 1
          /\ \A k \in DOMAIN out : out'[k] = out[k]
          /\ DOMAIN out'[Len(out) + 1].cells = Places
          /\ \A p \in Places : out'[Len(out) + 1].cells[p] = workbuf[0][p]
      BY <2>4, <3>1, PushedFacts
    <3>3. \A k \in DOMAIN out' : k = Len(out) + 1 \/ k \in DOMAIN out
      BY <2>1, <3>2
    <3>4. \A k \in DOMAIN out' : DOMAIN out'[k].cells = Places
      BY <3>2, <3>3
    <3>5. ASSUME NEW k \in DOMAIN out', NEW p \in Places
          PROVE  out'[k].cells[p] # Missing <=> <<k, p>> \in Gone \/ <<k, p>> \in G
      <4>1. CASE k = Len(out) + 1
        <5>1. <<k, p>> \in G <=> workbuf[0][p] # Missing
          BY <2>4, <4>1
        <5>2. <<k, p>> \notin Gone
          BY <2>1, <4>1, GoneFacts
        <5>. QED  BY <3>2, <4>1, <5>1, <5>2
      <4>2. CASE k \in DOMAIN out
        <5>1. <<k, p>> \in Gone <=> out[k].cells[p] # Missing
          BY <4>2 DEF Gone
        <5>2. <<k, p>> \notin G
          BY <2>1, <4>2
        <5>. QED  BY <3>2, <4>2, <5>1, <5>2
      <4>. QED  BY <3>3, <4>1, <4>2
    <3>6. \A x \in Gone' : x = <<x[1], x[2]>> /\ x[1] \in DOMAIN out' /\ x[2] \in Places
                           /\ out'[x[1]].cells[x[2]] # Missing
      BY DEF Gone
    <3>7. Gone \cup G \subseteq (DOMAIN out') \X Places
      BY <2>1, <3>2, GoneFacts
    <3>. HIDE DEF G
    <3>8. Gone' \subseteq Gone \cup G
      BY <3>5, <3>6
    <3>9. Gone \cup G \subseteq Gone'
      <4>1. SUFFICES ASSUME NEW x \in Gone \cup G PROVE x \in Gone'
        OBVIOUS
      <4>2. x = <<x[1], x[2]>> /\ x[1] \in DOMAIN out' /\ x[2] \in Places
        BY <3>7
      <4>3. out'[x[1]].cells[x[2]] # Missing
        BY <3>5, <4>2
      <4>. QED  BY <3>7, <4>3 DEF Gone
    <3>. QED  BY <2>2, <3>4, <3>8, <3>9
  <2>. QED  BY <2>3, <2>4
<1>7. Cardinality(Gone') = Cardinality(Gone) + Cardinality(F0) /\ Cardinality(Gone) \in Nat
  <2>. HIDE DEF G, F0
  <2>1. Cardinality(Gone \cup G) = Cardinality(Gone) + Cardinality(G) - Cardinality(Gone \cap G)
    BY <1>2, <1>5, FS_Union
  <2>2. Cardinality(Gone \cap G) = 0
    BY <1>6, FS_EmptySet
  <2>. QED  BY <1>3, <1>5, <1>6, <2>1, <2>2, GoneFacts
<1>. HIDE DEF F0, F1, G
<1>. QED  BY <1>3, <1>4, <1>6, <1>7

\* The datagram that is read to its place is one more, or replaces its duplicate.
LEMMA ReadCount ==
  ASSUME Types, Types', InPlace, Placing, Read
  PROVE  /\ total' = total + 1
         /\ again' + Cardinality(Flagged') =
              again + Cardinality(Flagged) + (IF discard THEN 0 ELSE 1)
<1>1. /\ total' = total + 1 /\ again' = again + (IF workbuf' = workbuf /\ ~discard THEN 1 ELSE 0)
      /\ pc = "read" /\ UNCHANGED <<firstseqnr, seqnr>>
      /\ total \in Nat /\ again \in Nat
  BY DEF Read, numbers, Types
<1>2. Cardinality(Flagged) \in Nat
  BY GoneFacts
<1>3. CASE workbuf' = workbuf
  <2>1. Flagged' = Flagged
    BY <1>3 DEF Flagged
  <2>2. Cardinality(Flagged') = Cardinality(Flagged)
    BY <2>1, Zenon
  <2>. QED  BY <1>1, <1>2, <1>3, <2>2
<1>4. CASE workbuf' # workbuf
  <2>1. ~discard
    BY <1>4, ReadWindow
  <2>2. PICK i \in Window, p \in Places : IsAt(i, p) /\ workbuf[i] # Empty
    BY <1>1, <2>1 DEF Placing
  <2>3. ASSUME NEW j \in Window, NEW q \in Places, IsAt(j, q)
        PROVE  j = i /\ q = p
    <3>1. i \in Nat /\ j \in Nat /\ p \in Nat /\ q \in Nat
      BY Constants
    <3>. DEFINE a == i * N
                b == j * N
    <3>2. a \in Nat /\ b \in Nat
      BY ONLY <2>3, <2>2, <3>1, Products
    <3>3. seqnr = firstseqnr + a + p /\ seqnr = firstseqnr + b + q /\ firstseqnr \in Nat
      BY <2>2, <2>3 DEF IsAt, Types
    <3>. HIDE DEF a, b
    <3>4. a + p = b + q
      BY <3>1, <3>2, <3>3
    <3>. QED  BY <3>1, <3>4, Apart DEF a, b
  <2>4. \A j \in Window, q \in Places : workbuf[j] # Empty =>
          workbuf'[j][q] = IF j = i /\ q = p THEN seqnr ELSE workbuf[j][q]
    BY <2>1, <2>2, <2>3, ReadWindow
  <2>5. \A j \in Window : workbuf'[j] = Empty <=> workbuf[j] = Empty
    BY ReadWindow
  <2>6. seqnr # Missing
    BY Constants DEF Types
  <2>7. workbuf[i][p] = Missing
    <3>1. SUFFICES ASSUME workbuf[i][p] # Missing PROVE workbuf' = workbuf
      BY <1>4
    <3>2. workbuf[i][p] = Start(i) + p
      BY <2>2, <3>1, InPlaceAt
    <3>3. workbuf[i][p] = seqnr
      BY <2>2, <3>2 DEF IsAt, Start
    <3>4. ASSUME NEW j \in Window PROVE workbuf'[j] = workbuf[j]
      <4>1. CASE workbuf[j] = Empty
        BY <2>5, <4>1
      <4>2. CASE workbuf[j] # Empty
        <5>1. workbuf[j] \in Blocks /\ workbuf'[j] \in Blocks
          BY <2>5, <4>2 DEF Types
        <5>2. \A q \in Places : workbuf'[j][q] = workbuf[j][q]
          BY <2>4, <3>3, <4>2
        <5>. QED  BY <5>1, <5>2 DEF Blocks
      <4>. QED  BY <4>1, <4>2
    <3>. QED  BY <3>4 DEF Types
  <2>8. ASSUME NEW j \in Window, NEW q \in Places
        PROVE  <<j, q>> \in Flagged' <=> <<j, q>> \in Flagged \/ <<j, q>> = <<i, p>>
    <3>1. <<j, q>> \in Flagged' <=> workbuf'[j] # Empty /\ workbuf'[j][q] # Missing
      BY DEF Flagged, Pairs
    <3>2. <<j, q>> \in Flagged <=> workbuf[j] # Empty /\ workbuf[j][q] # Missing
      BY FlaggedFacts
    <3>3. CASE j = i /\ q = p
      BY <2>2, <2>4, <2>5, <2>6, <3>1, <3>2, <3>3
    <3>4. CASE ~(j = i /\ q = p)
      BY <2>4, <2>5, <3>1, <3>2, <3>4
    <3>. QED  BY <3>3, <3>4
  <2>9. Flagged' = Flagged \cup {<<i, p>>}
    <3>1. Flagged' \subseteq Window \X Places /\ Flagged \cup {<<i, p>>} \subseteq Window \X Places
      BY DEF Flagged, Pairs
    <3>2. \A x \in Window \X Places : x \in Flagged' <=> x \in Flagged \cup {<<i, p>>}
      <4>1. SUFFICES ASSUME NEW x \in Window \X Places
                     PROVE  x \in Flagged' <=> x \in Flagged \cup {<<i, p>>}
        OBVIOUS
      <4>2. PICK j \in Window, q \in Places : x = <<j, q>>
        OBVIOUS
      <4>3. <<j, q>> \in Flagged' <=> <<j, q>> \in Flagged \/ <<j, q>> = <<i, p>>
        BY <2>8
      <4>. QED  BY <4>2, <4>3, Zenon
    <3>. QED  BY <3>1, <3>2
  <2>10. <<i, p>> \notin Flagged
    BY <2>7, FlaggedFacts
  <2>11. Cardinality(Flagged \cup {<<i, p>>}) = Cardinality(Flagged) + 1
    <3>1. IsFiniteSet(Flagged)
      BY FlaggedFacts
    <3>. QED  BY <2>10, <3>1, FS_AddElement
  <2>12. Cardinality(Flagged') = Cardinality(Flagged) + 1
    BY <2>9, <2>11, Zenon
  <2>. QED  BY <1>1, <1>2, <1>4, <2>1, <2>12
<1>. QED  BY <1>3, <1>4

LEMMA Sums ==
  \A a, d, f, g \in Nat : /\ a + d + f + g = (a + d) + (f + g)
                          /\ a + d + f + g = (a + f) + (d + g)
OBVIOUS

LEMMA AccountedNext ==
  ASSUME Types, Types', InPlace, Placing, Accounted, Next
  PROVE  Accounted'
<1>. DEFINE F == Cardinality(Flagged)
            G == Cardinality(Gone)
<1>0. /\ F \in Nat /\ G \in Nat /\ total \in Nat /\ again \in Nat /\ stat.disccnt \in Nat
      /\ F' \in Nat /\ G' \in Nat /\ total' \in Nat /\ again' \in Nat /\ stat'.disccnt \in Nat
  <2>1. F \in Nat /\ G \in Nat
    BY GoneFacts
  <2>2. IsFiniteSet(Flagged') /\ IsFiniteSet(Gone')
    <3>1. /\ IsFiniteSet(Window) /\ IsFiniteSet(Places)
      BY Constants, FS_Interval
    <3>2. DOMAIN out' = 1..Len(out') /\ Len(out') \in Nat
      BY LenProperties DEF Types
    <3>3. IsFiniteSet(DOMAIN out')
      BY <3>2, FS_Interval
    <3>4. IsFiniteSet(Window \X Places) /\ IsFiniteSet((DOMAIN out') \X Places)
      BY <3>1, <3>3, FS_Product
    <3>5. Flagged' \subseteq Window \X Places /\ Gone' \subseteq (DOMAIN out') \X Places
      BY DEF Flagged, Gone, Pairs
    <3>. QED  BY <3>4, <3>5, FS_Subset
  <2>3. F' \in Nat /\ G' \in Nat
    BY <2>2, FS_CardinalityType
  <2>. QED  BY <2>1, <2>3 DEF Types
<1>1. ASSUME pc' \notin {"start", "account", "place", "read", "peek"} PROVE Accounted'
  BY <1>1 DEF Accounted
<1>2. out' = out => G' = G /\ \A k \in DOMAIN out' : out'[k] = out[k]
  BY DEF Gone
<1>3. workbuf' = workbuf => F' = F
  BY DEF Flagged
<1>. HIDE DEF F, G
<1>4. Accounted <=>
        (pc \in {"start", "account", "place", "read", "peek"} =>
           /\ \A k \in DOMAIN out : DOMAIN out[k].cells = Places
           /\ total + (IF pc = "read" /\ discard THEN 1 ELSE 0) = again + stat.disccnt + F + G)
  BY DEF Accounted, F, G
<1>5. Accounted' <=>
        (pc' \in {"start", "account", "place", "read", "peek"} =>
           /\ \A k \in DOMAIN out' : DOMAIN out'[k].cells = Places
           /\ total' + (IF pc' = "read" /\ discard' THEN 1 ELSE 0)
                = again' + stat'.disccnt + F' + G')
  BY DEF Accounted, F, G
<1>6. ASSUME NEW s \in Seqs, First(s) PROVE Accounted'
  <2>1. pc = "start" /\ pc' = "account" /\ UNCHANGED <<workbuf, stat, out, total, again>>
    BY <1>6 DEF First, history
  <2>. QED  BY <1>2, <1>3, <1>4, <1>5, <2>1
<1>7. ASSUME NEW s \in Seqs, Peek(s) PROVE Accounted'
  <2>1. pc = "peek" /\ pc' = "account" /\ UNCHANGED <<workbuf, stat, out, total, again>>
    BY <1>7 DEF Peek, history
  <2>. QED  BY <1>2, <1>3, <1>4, <1>5, <2>1
<1>8. CASE Quiet \/ Flush
  <2>1. pc' \notin {"start", "account", "place", "read", "peek"}
    BY <1>8, QuietFacts DEF Flush
  <2>. QED  BY <1>1, <2>1
<1>9. CASE Account
  <2>1. /\ pc = "account" /\ pc' = (IF Late THEN "read" ELSE "place") /\ discard' = Late
        /\ UNCHANGED <<out, total, again>>
        /\ workbuf' = (IF Resync THEN Restarted ELSE workbuf)
    BY <1>9 DEF Account
  <2>2. stat'.disccnt = stat.disccnt + (IF Resync THEN F ELSE IF Late THEN 1 ELSE 0)
    BY <1>9, AccountTypes DEF F
  <2>3. (\A k \in DOMAIN out : DOMAIN out[k].cells = Places)
        /\ total = again + stat.disccnt + F + G
    BY <1>0, <1>4, <2>1
  <2>4. CASE Resync
    <3>1. Flagged' = {}
      BY <2>1, <2>4, RestartWindow DEF Flagged, Pairs
    <3>2. F' = 0
      BY <3>1, FS_EmptySet DEF F
    <3>3. ~Late
      BY <2>4 DEF Resync
    <3>. QED  BY <1>0, <1>2, <1>5, <2>1, <2>2, <2>3, <2>4, <3>2, <3>3
  <2>5. CASE ~Resync
    <3>1. F' = F
      BY <1>3, <2>1, <2>5
    <3>2. CASE Late
      BY <1>0, <1>2, <1>5, <2>1, <2>2, <2>3, <2>5, <3>1, <3>2
    <3>3. CASE ~Late
      BY <1>0, <1>2, <1>5, <2>1, <2>2, <2>3, <2>5, <3>1, <3>3
    <3>. QED  BY <3>2, <3>3
  <2>. QED  BY <2>4, <2>5
<1>10. CASE Place
  <2>1. /\ pc = "place" /\ pc' = "read" /\ UNCHANGED <<discard, stat, out, total, again>>
    BY <1>10 DEF Place, numbers, history
  <2>2. ~discard
    BY <2>1 DEF Placing
  <2>3. Flagged' = Flagged
    <3>1. \A i \in Window, p \in Places :
            (workbuf'[i] # Empty /\ workbuf'[i][p] # Missing)
              <=> (workbuf[i] # Empty /\ workbuf[i][p] # Missing)
      BY <1>10, PlaceWindow, NewBlockFacts
    <3>. QED  BY <3>1 DEF Flagged, Pairs
  <2>4. F' = F
    BY <2>3 DEF F
  <2>. QED  BY <1>2, <1>4, <1>5, <2>1, <2>2, <2>4
<1>11. CASE Shift
  <2>1. /\ pc = "place" /\ pc' = "place" /\ UNCHANGED <<discard, stat, total, again>>
    BY <1>11 DEF Shift, history
  <2>2. \A k \in DOMAIN out : DOMAIN out[k].cells = Places
    BY <1>4, <2>1
  <2>3. /\ F' + G' = F + G
        /\ \A k \in DOMAIN out' : DOMAIN out'[k].cells = Places
    BY <1>11, <2>2, ShiftCount DEF F, G
  <2>4. total + 0 = again + stat.disccnt + F + G
    BY <1>4, <2>1
  <2>5. total' = again' + stat'.disccnt + F' + G'
    <3>1. total' = total /\ again' = again /\ stat'.disccnt = stat.disccnt
      BY <2>1
    <3>2. again + stat.disccnt + F' + G' = (again + stat.disccnt) + (F' + G')
      BY <1>0, Sums
    <3>3. again + stat.disccnt + F + G = (again + stat.disccnt) + (F + G)
      BY <1>0, Sums
    <3>4. again + stat.disccnt + F' + G' = again + stat.disccnt + F + G
      BY <2>3, <3>2, <3>3
    <3>5. total + 0 = total
      BY <1>0
    <3>6. total = again + stat.disccnt + F' + G'
      BY <2>4, <3>4, <3>5
    <3>. QED  BY <3>1, <3>6
  <2>. QED  BY <1>0, <1>5, <2>1, <2>3, <2>5
<1>12. CASE Read
  <2>1. /\ pc = "read" /\ pc' = "peek" /\ UNCHANGED <<discard, stat, out>>
    BY <1>12 DEF Read, numbers
  <2>2. total' = total + 1 /\ again' + F' = again + F + (IF discard THEN 0 ELSE 1)
    BY <1>12, ReadCount DEF F
  <2>3. /\ \A k \in DOMAIN out : DOMAIN out[k].cells = Places
        /\ total + (IF discard THEN 1 ELSE 0) = again + stat.disccnt + F + G
    BY <1>4, <2>1
  <2>4. G' = G /\ stat'.disccnt = stat.disccnt
    BY <1>2, <2>1
  <2>5. total' = again' + stat'.disccnt + F' + G'
    <3>. DEFINE d == IF discard THEN 0 ELSE 1
    <3>1. d \in Nat /\ again' + F' = again + F + d
      BY <2>2
    <3>2. again' + stat.disccnt + F' + G = (again' + F') + (stat.disccnt + G)
      BY <1>0, Sums
    <3>3. again + stat.disccnt + F + G = (again + F) + (stat.disccnt + G)
      BY <1>0, Sums
    <3>. DEFINE u == again + F
                v == stat.disccnt + G
                w == again' + F'
    <3>4. u \in Nat /\ v \in Nat /\ total \in Nat
      BY <1>0
    <3>5. w = u + d
      BY <3>1
    <3>6. total + (IF discard THEN 1 ELSE 0) = u + v
      BY <2>3, <3>3
    <3>7. total' = total + 1 /\ again' + stat.disccnt + F' + G = w + v
      BY <2>2, <3>2
    <3>. HIDE DEF u, v, w
    <3>8. total + 1 = w + v
      BY <3>4, <3>5, <3>6
    <3>. QED  BY <2>4, <3>7, <3>8
  <2>. QED  BY <1>0, <1>5, <2>1, <2>3, <2>5
<1>. QED  BY <1>6, <1>7, <1>8, <1>9, <1>10, <1>11, <1>12 DEF Next, Quiet

-----------------------------------------------------------------------------
(* What has arrived.                                                       *)

LEMMA ArrivedFacts ==
  ASSUME Types, Extremes, Account
  PROVE  /\ arrived' # <<>> /\ arrived' \in Seq(Seqs)
         /\ Resync => Len(arrived') = 1 /\ Seen' = {seqnr} /\ arrived'[1] = seqnr
         /\ ~Resync => /\ Len(arrived') = Len(arrived) + 1 /\ Seen' = Seen \cup {seqnr}
                       /\ \A k \in 1..Len(arrived) : arrived'[k] = arrived[k]
                       /\ arrived'[Len(arrived) + 1] = seqnr
<1>1. arrived' = IF Resync THEN <<seqnr>> ELSE Append(arrived, seqnr)
  BY DEF Account
<1>2. CASE Resync
  <2>1. arrived' = <<seqnr>> /\ Len(arrived') = 1 /\ DOMAIN arrived' = 1..1 /\ arrived'[1] = seqnr
        /\ arrived' \in Seq(Seqs)
    BY <1>1, <1>2, ArrivedTypes
  <2>2. Seen' = {seqnr}
    BY <2>1 DEF Seen
  <2>3. arrived' # <<>>
    BY <2>1
  <2>. QED  BY <1>2, <2>1, <2>2, <2>3
<1>3. CASE ~Resync
  <2>1. /\ arrived' = Append(arrived, seqnr) /\ Len(arrived) \in Nat
        /\ DOMAIN arrived = 1..Len(arrived) /\ DOMAIN arrived' = 1..Len(arrived) + 1
        /\ Len(arrived') = Len(arrived) + 1 /\ arrived' \in Seq(Seqs)
        /\ \A k \in 1..Len(arrived) : arrived'[k] = arrived[k]
        /\ arrived'[Len(arrived) + 1] = seqnr
    BY <1>1, <1>3, ArrivedTypes
  <2>2. \A k \in DOMAIN arrived' : k \in DOMAIN arrived \/ k = Len(arrived) + 1
    BY <2>1
  <2>3. Seen' = Seen \cup {seqnr}
    <3>1. Seen' \subseteq Seen \cup {seqnr}
      BY <2>1, <2>2 DEF Seen
    <3>2. Seen \cup {seqnr} \subseteq Seen'
      <4>1. Len(arrived) + 1 \in DOMAIN arrived' /\ \A k \in DOMAIN arrived : k \in DOMAIN arrived'
        BY <2>1
      <4>. QED  BY <2>1, <4>1 DEF Seen
    <3>. QED  BY <3>1, <3>2
  <2>4. arrived' # <<>>
    BY <2>1
  <2>. QED  BY <1>3, <2>1, <2>3, <2>4
<1>. QED  BY <1>2, <1>3

LEMMA ExtremesNext ==
  ASSUME Types, Types', Extremes, Next
  PROVE  Extremes'
<1>1. ASSUME UNCHANGED <<arrived, minseq, maxseq, stat, epoch>>, pc' # "start",
             \/ pc \notin {"start", "account", "ended"}
             \/ pc = "start" /\ pc' = "ended"
      PROVE  Extremes'
  <2>1. pc \notin {"start", "account", "ended"} => arrived # <<>>
    BY DEF Extremes
  <2>2. Seen' = Seen
    BY <1>1 DEF Seen
  <2>3. CASE arrived = <<>>
    BY <1>1, <2>1, <2>3 DEF Extremes
  <2>4. CASE arrived # <<>>
    BY <1>1, <2>2, <2>4 DEF Extremes
  <2>. QED  BY <2>3, <2>4
<1>2. ASSUME NEW s \in Seqs, First(s) PROVE Extremes'
  <2>1. /\ pc = "start" /\ pc' = "account" /\ UNCHANGED <<arrived, stat, epoch>>
        /\ minseq' = s /\ maxseq' = s /\ seqnr' = s
    BY <1>2 DEF First, history
  <2>2. arrived = <<>> /\ stat.pktcnt = 0 /\ epoch = 0
    BY <2>1 DEF Extremes
  <2>. QED  BY <2>1, <2>2 DEF Extremes
<1>3. ASSUME NEW s \in Seqs, Peek(s) PROVE Extremes'
  BY <1>1, <1>3 DEF Peek, history
<1>4. CASE Quiet
  <2>1. UNCHANGED <<arrived, minseq, maxseq, stat, epoch>> /\ pc' # "start"
    BY <1>4, QuietFacts DEF numbers, history
  <2>2. \/ pc \notin {"start", "account", "ended"}
        \/ pc = "start" /\ pc' = "ended"
    BY <1>4 DEF Quiet, NoFirst, ShiftRefused, ReadFails, PeekFails, Stop, FlushThrows, Ends
  <2>. QED  BY <1>1, <2>1, <2>2
<1>5. CASE Place \/ Shift \/ Read \/ Flush
  <2>1. UNCHANGED <<arrived, minseq, maxseq, stat, epoch>> /\ pc' # "start"
    BY <1>5 DEF Place, Shift, Read, Flush, numbers, history
  <2>2. pc \notin {"start", "account", "ended"}
    BY <1>5 DEF Place, Shift, Read, Flush
  <2>. QED  BY <1>1, <2>1, <2>2
<1>6. CASE Account
  <2>1. /\ pc = "account" /\ pc' # "start" /\ maxseq' = HighestNumber /\ minseq' = LowestNumber
    BY <1>6 DEF Account, Statistics
  <2>2. /\ stat'.pktcnt = (IF Resync THEN 1 ELSE stat.pktcnt + 1)
        /\ stat'.loscnt = (maxseq' - minseq' + 1 - stat'.pktcnt) % Wrap
    BY <1>6, AccountTypes
  <2>3. arrived' # <<>>
    BY <1>6, ArrivedFacts
  <2>4. seqnr \in Nat /\ minseq \in Nat /\ maxseq \in Nat /\ Len(arrived) \in Nat
        /\ stat.pktcnt \in Nat
    BY Constants, ArrivedTypes DEF Types
  <2>5. minseq' \in Seen' /\ maxseq' \in Seen' /\ Seen' \subseteq minseq'..maxseq'
        /\ stat'.pktcnt = Len(arrived')
    <3>1. CASE Resync
      <4>1. minseq' = seqnr /\ maxseq' = seqnr /\ Seen' = {seqnr} /\ Len(arrived') = 1
        BY <1>6, <2>1, <3>1, ArrivedFacts DEF HighestNumber, LowestNumber
      <4>. QED  BY <2>2, <2>4, <3>1, <4>1
    <3>2. CASE ~Resync
      <4>1. /\ minseq' = (IF seqnr < minseq THEN seqnr ELSE minseq)
            /\ maxseq' = (IF seqnr > maxseq THEN seqnr ELSE maxseq)
        BY <2>1, <3>2 DEF HighestNumber, LowestNumber
      <4>2. Seen' = Seen \cup {seqnr} /\ Len(arrived') = Len(arrived) + 1
        BY <1>6, <3>2, ArrivedFacts
      <4>3. CASE arrived = <<>>
        <5>1. Seen = {} /\ Len(arrived) = 0
          BY <4>3 DEF Seen
        <5>2. minseq = maxseq /\ minseq = seqnr /\ stat.pktcnt = 0
          BY <2>1, <4>3 DEF Extremes
        <5>3. minseq' = seqnr /\ maxseq' = seqnr
          BY <2>4, <4>1, <5>2
        <5>. QED  BY <2>2, <2>4, <3>2, <4>2, <5>1, <5>2, <5>3
      <4>4. CASE arrived # <<>>
        <5>1. minseq \in Seen /\ maxseq \in Seen /\ Seen \subseteq minseq..maxseq
              /\ stat.pktcnt = Len(arrived)
          BY <4>4 DEF Extremes
        <5>2. minseq' \in Seen' /\ maxseq' \in Seen'
          BY <4>1, <4>2, <5>1
        <5>3. minseq <= maxseq
          BY <2>4, <5>1
        <5>4. minseq' <= minseq /\ maxseq <= maxseq' /\ minseq' <= seqnr /\ seqnr <= maxseq'
              /\ minseq' \in Nat /\ maxseq' \in Nat
          BY <2>4, <4>1
        <5>5. ASSUME NEW n \in Seen' PROVE n \in minseq'..maxseq'
          <6>1. CASE n \in Seen
            <7>1. n \in minseq..maxseq
              BY <5>1, <6>1
            <7>. QED  BY <2>4, <5>4, <7>1
          <6>2. CASE n = seqnr
            BY <2>4, <5>4, <6>2
          <6>. QED  BY <4>2, <6>1, <6>2
        <5>6. stat'.pktcnt = Len(arrived')
          BY <2>2, <3>2, <4>2, <5>1
        <5>. QED  BY <5>2, <5>5, <5>6
      <4>. QED  BY <4>3, <4>4
    <3>. QED  BY <3>1, <3>2
  <2>. QED  BY <2>1, <2>2, <2>3, <2>5 DEF Extremes
<1>. QED  BY <1>2, <1>3, <1>4, <1>5, <1>6 DEF Next, Quiet

\* The numbers between the extremes that have not been seen.
LEMMA LossFollows ==
  ASSUME Types, Extremes
  PROVE  LossIsLostLessRepeats
<1>. DEFINE I == minseq..maxseq
            L == Lost
<1>1. SUFFICES ASSUME arrived # <<>>
               PROVE  stat.loscnt = (Cardinality(L) - Repeats) % Wrap
  BY DEF LossIsLostLessRepeats, Extremes
<1>2. /\ minseq \in Seen /\ maxseq \in Seen /\ Seen \subseteq I
      /\ stat.pktcnt = Len(arrived)
      /\ stat.loscnt = (maxseq - minseq + 1 - stat.pktcnt) % Wrap
  BY <1>1 DEF Extremes
<1>3. minseq \in Seqs /\ maxseq \in Seqs /\ minseq \in Nat /\ maxseq \in Nat /\ MaxSeq \in Nat
  BY Constants, UdpsAssumption DEF Types
<1>4. minseq <= maxseq
  BY <1>2, <1>3
<1>5. IsFiniteSet(I) /\ Cardinality(I) = maxseq - minseq + 1
  BY <1>3, <1>4, FS_Interval
<1>6. L = I \ Seen
  <2>1. ASSUME NEW n \in L PROVE n \in I \ Seen
    <3>1. PICK a \in Seen, b \in Seen : a < n /\ n < b
      BY DEF Lost
    <3>2. a \in I /\ b \in I /\ n \in Nat /\ n \notin Seen
      BY <1>2, Constants DEF Lost
    <3>. QED  BY <1>3, <3>1, <3>2
  <2>2. ASSUME NEW n \in I \ Seen PROVE n \in L
    <3>1. n # minseq /\ n # maxseq
      BY <1>2
    <3>2. minseq < n /\ n < maxseq
      BY <1>3, <3>1
    <3>3. n \in Seqs
      BY <1>3, <3>2 DEF Seqs
    <3>. QED  BY <1>2, <3>2, <3>3 DEF Lost
  <2>. QED  BY <2>1, <2>2
<1>7. Seen = I \cap Seen
  BY <1>2
<1>8. Cardinality(I \ Seen) = Cardinality(I) - Cardinality(I \cap Seen)
  BY <1>5, FS_Difference
<1>9. IsFiniteSet(Seen)
  BY <1>2, <1>5, FS_Subset
<1>10. Cardinality(Seen) \in Nat /\ Len(arrived) \in Nat
  BY <1>9, FS_CardinalityType, ArrivedTypes
<1>. HIDE DEF I, L
<1>11. Cardinality(L) = Cardinality(I) - Cardinality(Seen)
  <2>1. Cardinality(L) = Cardinality(I \ Seen) /\ Cardinality(Seen) = Cardinality(I \cap Seen)
    BY <1>6, <1>7, Zenon
  <2>. QED  BY <1>8, <2>1
<1>12. maxseq - minseq + 1 - stat.pktcnt = Cardinality(L) - Repeats
  BY <1>2, <1>3, <1>5, <1>10, <1>11 DEF Repeats
<1>. QED  BY ONLY <1>2, <1>12, Zenon

-----------------------------------------------------------------------------
(* The ring.                                                               *)

\* The index of an element, and where the writer is.
IndexOf(C, r, j) == IF j + r >= C THEN j + r - C ELSE j + r
At(C, w) == IF w = C THEN 0 ELSE w

LEMMA RingArithmetic ==
  ASSUME NEW C \in Nat, C >= 1, NEW r \in 0..C, NEW w \in 0..C, NEW n \in 0..C,
         r + n - w \in {0, C}
  PROVE  /\ At(C, w) \in 0..C - 1
         /\ n = C => /\ IndexOf(C, At(C, w) + 1, C - 1) = At(C, w)
                     /\ \A j \in 0..C - 2 :
                          /\ IndexOf(C, At(C, w) + 1, j) = IndexOf(C, r, j + 1)
                          /\ IndexOf(C, r, j + 1) # At(C, w)
         /\ n < C => /\ IndexOf(C, r, n) = At(C, w)
                     /\ r + (n + 1) - (At(C, w) + 1) \in {0, C}
                     /\ \A j \in 0..n - 1 : IndexOf(C, r, j) # At(C, w)
         /\ \A j \in 0..n - 1 : IndexOf(C, r, j) \in 0..C - 1
BY DEF IndexOf, At

LEMMA ElementIndex ==
  ASSUME NEW b, b.read_ptr \in Nat, NEW C \in Nat, NEW j \in Nat
  PROVE  element(b, C, j) = b.elements[IndexOf(C, b.read_ptr, j)]
<1>1. CASE j + b.read_ptr >= C
  BY <1>1 DEF element, IndexOf
<1>2. CASE ~(j + b.read_ptr >= C)
  BY <1>2 DEF element, IndexOf
<1>. QED  BY <1>1, <1>2

LEMMA RingPush ==
  ASSUME Types, Ring
  PROVE  LET b == push(psn, Kept, seqnr)
             n == size(psn)
         IN  /\ b.elements \in [0..Kept - 1 -> Seqs]
             /\ b.nelements \in 0..Kept /\ b.read_ptr \in 0..Kept /\ b.write_ptr \in 0..Kept
             /\ b.read_ptr + b.nelements - b.write_ptr \in {0, Kept}
             /\ n \in 0..Kept /\ size(b) = (IF n = Kept THEN Kept ELSE n + 1)
             /\ element(b, Kept, size(b) - 1) = seqnr
             /\ \A j \in 0..size(b) - 2 :
                  element(b, Kept, j) = element(psn, Kept, IF n = Kept THEN j + 1 ELSE j)
<1>. DEFINE C == Kept
            r == psn.read_ptr
            w == psn.write_ptr
            n == psn.nelements
            e == psn.elements
            at == At(C, w)
            b == push(psn, Kept, seqnr)
<1>1. /\ C \in Nat /\ C >= 1 /\ r \in 0..C /\ w \in 0..C /\ n \in 0..C
      /\ r + n - w \in {0, C} /\ e \in [0..C - 1 -> Seqs] /\ seqnr \in Seqs
  BY Constants DEF Ring, Types
<1>2. /\ b.elements = [e EXCEPT ![at] = seqnr] /\ b.write_ptr = at + 1
      /\ b.read_ptr = (IF n + 1 > C THEN at + 1 ELSE r)
      /\ b.nelements = (IF n + 1 > C THEN C ELSE n + 1)
  BY DEF push, At
<1>4. size(b) = b.nelements /\ size(psn) = n
  BY DEF size
<1>5. /\ at \in 0..C - 1
      /\ n = C => /\ IndexOf(C, at + 1, C - 1) = at
                  /\ \A j \in 0..C - 2 : /\ IndexOf(C, at + 1, j) = IndexOf(C, r, j + 1)
                                         /\ IndexOf(C, r, j + 1) # at
      /\ n < C => /\ IndexOf(C, r, n) = at
                  /\ r + (n + 1) - (at + 1) \in {0, C}
                  /\ \A j \in 0..n - 1 : IndexOf(C, r, j) # at
      /\ \A j \in 0..n - 1 : IndexOf(C, r, j) \in 0..C - 1
  BY <1>1, RingArithmetic
<1>. HIDE DEF C, r, w, n, e, at, b
<1>3. ASSUME NEW j \in Nat
      PROVE  /\ element(b, Kept, j) = b.elements[IndexOf(C, b.read_ptr, j)]
             /\ element(psn, Kept, j) = e[IndexOf(C, r, j)]
  <2>0. b.read_ptr \in Nat /\ r \in Nat
    BY <1>1, <1>2, <1>5
  <2>1. b.read_ptr \in Nat /\ r \in Nat /\ Kept \in Nat
    BY <2>0, Constants
  <2>2. element(b, Kept, j) = b.elements[IndexOf(Kept, b.read_ptr, j)]
    BY <2>1, ElementIndex
  <2>3. element(psn, Kept, j) = psn.elements[IndexOf(Kept, psn.read_ptr, j)]
    BY <2>1, ElementIndex DEF r
  <2>. QED  BY <2>2, <2>3 DEF C, e, r
<1>6. /\ b.elements \in [0..C - 1 -> Seqs] /\ b.elements[at] = seqnr
      /\ \A k \in 0..C - 1 : k # at => b.elements[k] = e[k]
  BY <1>1, <1>2, <1>5
<1>7. CASE n = C
  <2>1. b.nelements = C /\ b.read_ptr = at + 1 /\ b.write_ptr = at + 1
    BY <1>1, <1>2, <1>7
  <2>2. /\ b.nelements \in 0..C /\ b.read_ptr \in 0..C /\ b.write_ptr \in 0..C
        /\ b.read_ptr + b.nelements - b.write_ptr \in {0, C}
    BY <1>1, <1>5, <2>1
  <2>3. element(b, Kept, size(b) - 1) = seqnr
    <3>1. size(b) - 1 = C - 1 /\ C - 1 \in Nat
      BY <1>1, <1>4, <2>1
    <3>2. element(b, Kept, C - 1) = b.elements[IndexOf(C, at + 1, C - 1)]
      BY <1>3, <2>1, <3>1
    <3>3. IndexOf(C, at + 1, C - 1) = at
      BY <1>5, <1>7
    <3>. QED  BY <1>6, <3>1, <3>2, <3>3
  <2>4. ASSUME NEW j \in 0..size(b) - 2
        PROVE  element(b, Kept, j) = element(psn, Kept, j + 1)
    <3>1. j \in 0..C - 2 /\ j + 1 \in 0..n - 1
      BY <1>1, <1>4, <1>7, <2>1
    <3>2. IndexOf(C, b.read_ptr, j) = IndexOf(C, r, j + 1) /\ IndexOf(C, r, j + 1) # at
          /\ IndexOf(C, r, j + 1) \in 0..C - 1
      BY <1>5, <1>7, <2>1, <3>1
    <3>. QED  BY <1>3, <1>6, <3>2
  <2>5. b.elements \in [0..Kept - 1 -> Seqs] /\ b.nelements \in 0..Kept
        /\ b.read_ptr \in 0..Kept /\ b.write_ptr \in 0..Kept
        /\ b.read_ptr + b.nelements - b.write_ptr \in {0, Kept}
        /\ size(psn) \in 0..Kept /\ size(psn) = Kept /\ size(b) = Kept
    BY <1>1, <1>4, <1>6, <1>7, <2>1, <2>2 DEF C
  <2>. QED  BY <2>3, <2>4, <2>5 DEF b
<1>8. CASE n # C
  <2>1. n < C /\ b.nelements = n + 1 /\ b.read_ptr = r /\ b.write_ptr = at + 1
    BY <1>1, <1>2, <1>8
  <2>2. /\ b.nelements \in 0..C /\ b.read_ptr \in 0..C /\ b.write_ptr \in 0..C
        /\ b.read_ptr + b.nelements - b.write_ptr \in {0, C}
    BY <1>1, <1>5, <2>1
  <2>3. element(b, Kept, size(b) - 1) = seqnr
    <3>1. size(b) - 1 = n
      BY <1>1, <1>4, <2>1
    <3>2. element(b, Kept, n) = b.elements[IndexOf(C, r, n)]
      BY <1>1, <1>3, <2>1
    <3>3. IndexOf(C, r, n) = at
      BY <1>5, <2>1
    <3>. QED  BY <1>6, <3>1, <3>2, <3>3
  <2>4. ASSUME NEW j \in 0..size(b) - 2
        PROVE  element(b, Kept, j) = element(psn, Kept, j)
    <3>1. j \in 0..n - 1
      BY <1>1, <1>4, <2>1
    <3>2. IndexOf(C, r, j) # at /\ IndexOf(C, r, j) \in 0..C - 1
      BY <1>5, <2>1, <3>1
    <3>. QED  BY <1>3, <1>6, <2>1, <3>2
  <2>5. b.elements \in [0..Kept - 1 -> Seqs] /\ b.nelements \in 0..Kept
        /\ b.read_ptr \in 0..Kept /\ b.write_ptr \in 0..Kept
        /\ b.read_ptr + b.nelements - b.write_ptr \in {0, Kept}
        /\ size(psn) \in 0..Kept /\ size(psn) # Kept /\ size(b) = size(psn) + 1
    BY <1>1, <1>4, <1>6, <1>8, <2>1, <2>2 DEF C
  <2>. QED  BY <2>3, <2>4, <2>5 DEF b
<1>. QED  BY <1>7, <1>8

LEMMA KeptNext ==
  ASSUME Types, Types', Extremes, Ring, LastNumbersAreKept, Next
  PROVE  Ring' /\ LastNumbersAreKept'
<1>1. ASSUME UNCHANGED <<psn, arrived, epoch>> PROVE Ring' /\ LastNumbersAreKept'
  BY <1>1 DEF Ring, LastNumbersAreKept, size, element
<1>2. ASSUME NEW s \in Seqs, First(s) \/ Peek(s) PROVE UNCHANGED <<psn, arrived, epoch>>
  BY <1>2 DEF First, Peek, history
<1>3. CASE Quiet
  BY <1>1, <1>3, QuietFacts DEF history
<1>4. CASE Place \/ Shift \/ Read \/ Flush
  BY <1>1, <1>4 DEF Place, Shift, Read, Flush, history
<1>5. CASE Account
  <2>. DEFINE b == push(psn, Kept, seqnr)
              n == size(psn)
              L == Len(arrived)
  <2>1. /\ b.elements \in [0..Kept - 1 -> Seqs]
        /\ b.nelements \in 0..Kept /\ b.read_ptr \in 0..Kept /\ b.write_ptr \in 0..Kept
        /\ b.read_ptr + b.nelements - b.write_ptr \in {0, Kept}
        /\ n \in 0..Kept /\ size(b) = (IF n = Kept THEN Kept ELSE n + 1)
        /\ element(b, Kept, size(b) - 1) = seqnr
        /\ \A j \in 0..size(b) - 2 :
             element(b, Kept, j) = element(psn, Kept, IF n = Kept THEN j + 1 ELSE j)
    BY RingPush
  <2>2. psn' = (IF Resync THEN clear(b) ELSE b)
    BY <1>5, AccountTypes
  <2>3. epoch' = epoch + (IF Resync THEN 1 ELSE 0) /\ epoch \in Nat
    BY <1>5 DEF Account, Types
  <2>4. L \in Nat /\ Kept \in Nat /\ Kept >= 1
    BY Constants, ArrivedTypes
  <2>5. CASE Resync
    <3>1. clear(b).elements = b.elements /\ clear(b).nelements = 0
          /\ clear(b).read_ptr = 0 /\ clear(b).write_ptr = 0
      BY DEF clear, push
    <3>2. Len(arrived') = 1 /\ epoch' # 0
      BY <1>5, <2>3, <2>5, ArrivedFacts
    <3>. HIDE DEF b
    <3>3. Ring'
      <4>1. psn' = clear(b)
        BY <2>2, <2>5
      <4>2. psn'.elements = b.elements /\ psn'.nelements = 0 /\ psn'.read_ptr = 0 /\ psn'.write_ptr = 0
        BY <3>1, <4>1
      <4>3. /\ psn'.elements \in [0..Kept - 1 -> Seqs] /\ psn'.nelements \in 0..Kept
            /\ psn'.read_ptr \in 0..Kept /\ psn'.write_ptr \in 0..Kept
        BY <2>1, <2>4, <4>2
      <4>4. psn'.read_ptr + psn'.nelements - psn'.write_ptr = 0
        BY <4>2
      <4>. QED  BY <4>3, <4>4 DEF Ring
    <3>4. size(psn') = 0 /\ 0..size(psn') - 1 = {}
      BY <2>2, <2>5, <3>1 DEF size
    <3>5. size(psn') = (IF Len(arrived') - 1 < Kept THEN Len(arrived') - 1 ELSE Kept)
      BY <2>4, <3>2, <3>4
    <3>. QED  BY <3>2, <3>3, <3>4, <3>5 DEF LastNumbersAreKept
  <2>6. CASE ~Resync
    <3>1. psn' = b /\ epoch' = epoch
      BY <2>2, <2>3, <2>6
    <3>2. /\ Len(arrived') = L + 1 /\ arrived'[L + 1] = seqnr
          /\ \A k \in 1..L : arrived'[k] = arrived[k]
      BY <1>5, <2>6, ArrivedFacts
    <3>. DEFINE d == IF epoch = 0 THEN 0 ELSE 1
    <3>3. /\ n = (IF L - d < Kept THEN L - d ELSE Kept)
          /\ \A j \in 0..n - 1 : element(psn, Kept, j) = arrived[L - n + 1 + j]
      BY DEF LastNumbersAreKept
    <3>4. d \in {0, 1} /\ (IF epoch' = 0 THEN 0 ELSE 1) = d
      BY <3>1
    <3>. DEFINE m == size(b)
    <3>. HIDE DEF b, n, L, d, m
    <3>5. m = (IF n = Kept THEN Kept ELSE n + 1) /\ n \in 0..Kept /\ n <= L
      <4>1. m = (IF n = Kept THEN Kept ELSE n + 1) /\ n \in 0..Kept
        BY <2>1 DEF m
      <4>2. n <= L
        BY <2>4, <3>3, <3>4
      <4>. QED  BY <4>1, <4>2
    <3>6. m = (IF L + 1 - d < Kept THEN L + 1 - d ELSE Kept)
      BY <2>4, <3>3, <3>4, <3>5
    <3>7. ASSUME NEW j \in 0..m - 1
          PROVE  element(b, Kept, j) = arrived'[L + 1 - m + 1 + j]
      <4>1. CASE j = m - 1
        <5>1. L + 1 - m + 1 + j = L + 1
          BY <2>4, <3>5, <4>1
        <5>. QED  BY <2>1, <3>2, <4>1, <5>1 DEF m
      <4>2. CASE j # m - 1 /\ n = Kept
        <5>1. j \in 0..m - 2 /\ j + 1 \in 0..n - 1 /\ m = n
          BY <2>4, <3>5, <4>2
        <5>2. L + 1 - m + 1 + j = L - n + 1 + (j + 1) /\ L - n + 1 + (j + 1) \in 1..L
          BY <2>4, <3>5, <5>1
        <5>3. element(b, Kept, j) = element(psn, Kept, j + 1)
          BY <2>1, <4>2, <5>1 DEF m
        <5>4. element(psn, Kept, j + 1) = arrived[L - n + 1 + (j + 1)]
          BY <3>3, <5>1
        <5>. QED  BY <3>2, <5>2, <5>3, <5>4
      <4>3. CASE j # m - 1 /\ n # Kept
        <5>1. j \in 0..m - 2 /\ j \in 0..n - 1 /\ m = n + 1
          BY <2>4, <3>5, <4>3
        <5>2. L + 1 - m + 1 + j = L - n + 1 + j /\ L - n + 1 + j \in 1..L
          BY <2>4, <3>5, <5>1
        <5>3. element(b, Kept, j) = element(psn, Kept, j)
          BY <2>1, <4>3, <5>1 DEF m
        <5>4. element(psn, Kept, j) = arrived[L - n + 1 + j]
          BY <3>3, <5>1
        <5>. QED  BY <3>2, <5>2, <5>3, <5>4
      <4>. QED  BY <4>1, <4>2, <4>3
    <3>8. Ring'
      BY <2>1, <3>1 DEF Ring
    <3>9. size(psn') = m /\ Len(arrived') = L + 1 /\ psn' = b
      BY <3>1, <3>2 DEF m
    <3>10. LastNumbersAreKept'
      <4>. DEFINE q == Len(arrived')
                  y == size(psn')
                  z == IF epoch' = 0 THEN 0 ELSE 1
      <4>1. q = L + 1 /\ y = m /\ z = d
        BY <3>4, <3>9
      <4>. HIDE DEF q, y, z
      <4>2. y = (IF q - z < Kept THEN q - z ELSE Kept)
        BY <2>4, <3>4, <3>6, <4>1
      <4>3. ASSUME NEW j \in 0..y - 1
            PROVE  element(psn', Kept, j) = arrived'[q - y + 1 + j]
        <5>1. j \in 0..m - 1
          BY <4>1
        <5>2. q - y = L + 1 - m
          BY <2>4, <3>5, <4>1
        <5>3. q - y + 1 + j = L + 1 - m + 1 + j
          BY <5>2
        <5>. QED  BY <3>7, <3>9, <5>1, <5>3
      <4>. QED  BY <4>2, <4>3 DEF LastNumbersAreKept, q, y, z
    <3>. QED  BY <3>8, <3>10
  <2>. QED  BY <2>5, <2>6
<1>. QED  BY <1>1, <1>2, <1>3, <1>4, <1>5 DEF Next, Quiet

-----------------------------------------------------------------------------
(* The theorems.                                                           *)

LEMMA InitHolds ==
  ASSUME Init
  PROVE  IInv
<1>1. /\ pc = "start" /\ total = 0 /\ again = 0 /\ epoch = 0 /\ flushing = 0 /\ shiftcount = 0
      /\ seqnr = 0 /\ firstseqnr = 0 /\ expectseqnr = 0 /\ maxseq = 0 /\ minseq = 0
      /\ discard = FALSE /\ out = <<>> /\ arrived = <<>>
      /\ stat = [pktcnt |-> 0, loscnt |-> 0, ooocnt |-> 0, ooosum |-> 0, disccnt |-> 0]
      /\ psn = Buffer(Kept, 0) /\ workbuf = [i \in Window |-> Empty]
  BY DEF Init
<1>2. 0 \in Seqs /\ 0 \in 0..Readahead /\ stat.pktcnt = 0 /\ stat.disccnt = 0
      /\ Kept \in Nat /\ Kept >= 1
  BY <1>1, Constants, UdpsAssumption DEF Seqs
<1>3. Types
  <2>1. workbuf \in [Window -> Blocks \cup {Empty}]
    BY <1>1
  <2>2. out \in Seq(Messages) /\ arrived \in Seq(Seqs)
    BY <1>1
  <2>3. pc \in PCs /\ discard \in BOOLEAN /\ seqnr \in Seqs /\ maxseq \in Seqs /\ minseq \in Seqs
        /\ shiftcount \in 0..Readahead /\ flushing \in 0..Readahead
        /\ stat.pktcnt \in Nat /\ stat.disccnt \in Nat
    BY <1>1, <1>2 DEF PCs
  <2>4. firstseqnr \in Nat /\ expectseqnr \in Nat /\ total \in Nat /\ again \in Nat /\ epoch \in Nat
    BY <1>1
  <2>. QED  BY <2>1, <2>2, <2>3, <2>4 DEF Types
<1>4. Flagged = {} /\ Gone = {} /\ DOMAIN out = {} /\ DOMAIN arrived = {}
  <2>1. Flagged = {}
    BY <1>1 DEF Flagged, Pairs
  <2>2. DOMAIN out = {} /\ DOMAIN arrived = {}
    BY <1>1
  <2>3. Gone = {}
    BY <2>2 DEF Gone
  <2>. QED  BY <2>1, <2>2, <2>3
<1>5. InPlace /\ OutInPlace /\ OutBefore
  BY <1>4 DEF InPlace, OutInPlace, OutBefore
<1>6. Placing
  BY <1>1 DEF Placing
<1>7. Accounted
  <2>1. Cardinality(Flagged) = 0 /\ Cardinality(Gone) = 0
    BY <1>4, FS_EmptySet
  <2>. QED  BY <1>1, <1>2, <1>4, <2>1 DEF Accounted
<1>8. Extremes
  BY <1>1, <1>2 DEF Extremes
<1>9. psn.elements = [k \in 0..Kept - 1 |-> 0] /\ psn.nelements = 0
      /\ psn.read_ptr = 0 /\ psn.write_ptr = 0
  BY <1>1 DEF Buffer
<1>10. Ring
  BY <1>2, <1>9 DEF Ring
<1>11. LastNumbersAreKept
  <2>1. size(psn) = 0 /\ Len(arrived) = 0 /\ 0..size(psn) - 1 = {}
    BY <1>1, <1>9 DEF size
  <2>. QED  BY <1>1, <1>2, <2>1 DEF LastNumbersAreKept
<1>. QED  BY <1>3, <1>5, <1>6, <1>7, <1>8, <1>10, <1>11 DEF IInv

LEMMA Invariance ==
  ASSUME IInv, [Next]_vars
  PROVE  IInv'
<1>1. /\ Types /\ InPlace /\ OutInPlace /\ OutBefore /\ Placing
      /\ Accounted /\ Extremes /\ Ring /\ LastNumbersAreKept
  BY DEF IInv
<1>2. CASE Next
  <2>1. Types' /\ Placing'
    BY <1>1, <1>2, TypesNext, PlacingNext
  <2>2. InPlace' /\ OutInPlace' /\ OutBefore'
    BY <1>1, <1>2, <2>1, InPlaceNext, OutInPlaceNext, OutBeforeNext
  <2>3. Accounted' /\ Extremes'
    BY <1>1, <1>2, <2>1, AccountedNext, ExtremesNext
  <2>4. Ring' /\ LastNumbersAreKept'
    BY <1>1, <1>2, <2>1, KeptNext
  <2>. QED  BY <2>1, <2>2, <2>3, <2>4 DEF IInv
<1>3. CASE UNCHANGED vars
  <2>1. Types'
    BY <1>1, <1>3 DEF Types, vars
  <2>2. InPlace' /\ OutInPlace' /\ OutBefore'
    BY <1>1, <1>3 DEF InPlace, OutInPlace, OutBefore, Flagged, Position, Start, vars
  <2>3. Placing'
    BY <1>1, <1>3 DEF Placing, IsAt, vars
  <2>4. Accounted'
    BY <1>1, <1>3 DEF Accounted, Flagged, Gone, vars
  <2>5. Extremes'
    BY <1>1, <1>3 DEF Extremes, Seen, vars
  <2>6. Ring' /\ LastNumbersAreKept'
    BY <1>1, <1>3 DEF Ring, LastNumbersAreKept, size, element, vars
  <2>. QED  BY <2>1, <2>2, <2>3, <2>4, <2>5, <2>6 DEF IInv
<1>. QED  BY <1>2, <1>3

LEMMA Always == Spec => []IInv
<1>1. Init => IInv
  BY InitHolds
<1>2. IInv /\ [Next]_vars => IInv'
  BY Invariance
<1>. QED  BY <1>1, <1>2, PTL DEF Spec

\* Every variable of the reader has its type: the window of udpsreader_bh() never
\* starts before zero, and the flush at the end stays within the work buffer,
\* whatever the sizes.
THEOREM UdpsTypes == Spec => []TypeOK
<1>1. Types => TypeOK
  BY DEF Types, TypeOK, PCs
<1>2. IInv => TypeOK
  BY <1>1 DEF IInv
<1>. QED  BY <1>2, Always, PTL

\* Whatever the order, the losses, the repetitions and the restarts: a datagram is
\* at the place of its number, in the window and in every block that goes downstream,
\* and the blocks of a stream go downstream in order, without overlap.
THEOREM UdpsInOrder == Spec => []InOrderAndInPlace
<1>1. InPlace /\ OutInPlace /\ OutBefore => InOrderAndInPlace
  BY DEF InPlace, OutInPlace, OutBefore, InOrderAndInPlace
<1>2. IInv => InOrderAndInPlace
  BY <1>1 DEF IInv
<1>. QED  BY <1>2, Always, PTL

\* The window never lets go of a datagram unnoticed: each one that was read has gone
\* downstream, is in the window, has been counted as discarded (late, or thrown away
\* with its stream) or was replaced by its own duplicate.
THEOREM UdpsAccounted == Spec => []EveryDatagramIsAccounted
<1>1. Types /\ Accounted => EveryDatagramIsAccounted
  <2>1. SUFFICES ASSUME Types, Accounted, pc = "peek"
                 PROVE  total = again + stat.disccnt + Cardinality(Flagged) + Cardinality(Gone)
    BY DEF EveryDatagramIsAccounted, Gone
  <2>2. total + 0 = again + stat.disccnt + Cardinality(Flagged) + Cardinality(Gone)
    BY <2>1 DEF Accounted
  <2>3. total + 0 = total
    BY <2>1 DEF Types
  <2>. QED  BY <2>2, <2>3
<1>2. IInv => EveryDatagramIsAccounted
  BY <1>1 DEF IInv
<1>. QED  BY <1>2, Always, PTL

\* pkt_lost, which the program computes from the lowest and the highest number and a
\* count, is the number of those that are missing, less those that came again, as an
\* unsigned integer: it is no number of datagrams when more came again.
THEOREM UdpsLoss == Spec => []LossIsLostLessRepeats
<1>1. IInv => LossIsLostLessRepeats
  BY LossFollows DEF IInv
<1>. QED  BY <1>1, Always, PTL

\* The circular buffer from which the reordering extent is computed has the last
\* numbers of the stream in the order in which they came, also when its writer has
\* overtaken its reader and when its pointers have wrapped.
THEOREM UdpsLastNumbers == Spec => []LastNumbersAreKept
<1>1. IInv => LastNumbersAreKept
  BY DEF IInv
<1>. QED  BY <1>1, Always, PTL

=============================================================================
