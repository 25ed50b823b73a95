----------------------------- MODULE UdpsReader -----------------------------
(***************************************************************************)
(* udpsreader_bh() of threadfns/udpsreader.cc: datagrams with a sequence   *)
(* number come in, some late, some twice, some not at all, from a sender   *)
(* that may start afresh; blocks of datagrams in order go out.             *)
(*                                                                         *)
(* The reader keeps a window of `readahead' blocks, of which the first     *)
(* starts at firstseqnr.  It peeks at the sequence number of the next      *)
(* datagram, makes room for it by releasing blocks, and then reads it to   *)
(* its place.  A datagram is its sequence number; the flag of a place is   *)
(* whether a datagram is there.  The only counter that is a difference,    *)
(* loscnt, wraps as the program's uint64_t does; those that only grow are  *)
(* bounded by the bounds below.                                            *)
(*                                                                         *)
(* What is outside: the network, which may deliver anything at any time,   *)
(* and may be closed or interrupted at every wait; the queue, which may be *)
(* disabled at every push.  Not modelled: acknowledgements, the blockpool  *)
(* (BlockPool), the preallocation, and what of a datagram that is cut      *)
(* short is written over one that is in its place already.                 *)
(***************************************************************************)
EXTENDS Integers, Sequences, FiniteSets, CircularBuffer

CONSTANTS
  N,          \* n_dg_p_block: datagrams per block
  Readahead,  \* readahead: blocks in the window
  Kept,       \* capacity of psn: 32 in the program
  Variable,   \* allow_variable_block_size
  Wrap,       \* values of a uint64_t: 2^64 in the program
  MaxSeq,     \* bound: sequence numbers are 0..MaxSeq
  MaxPackets  \* bound: number of datagrams

ASSUME UdpsAssumption ==
  /\ N \in Nat \ {0} /\ Readahead \in Nat \ {0} /\ Kept \in Nat \ {0}
  /\ Variable \in BOOLEAN /\ MaxSeq \in Nat /\ MaxPackets \in Nat
  /\ Wrap \in Nat /\ Wrap > MaxSeq + MaxPackets

VARIABLES
  pc,          \* where the thread is
  seqnr, firstseqnr, expectseqnr, maxseq, minseq, shiftcount, discard,
  workbuf,     \* workbuf[i]: a block, or Empty
  stat,        \* pktcnt, loscnt (pkt_lost), ooocnt, ooosum, disccnt
  psn,         \* circular_buffer of the last sequence numbers
  flushing,    \* `i' of the loop that pushes what is left
  out,         \* what was pushed: first sequence number, epoch and datagrams
  \* For the properties only:
  arrived,     \* the sequence numbers since the last resync, in order
  total,       \* number of datagrams read
  again,       \* of these, those that replaced one with the same number
  epoch        \* number of resyncs

vars == <<pc, seqnr, firstseqnr, expectseqnr, maxseq, minseq, shiftcount, discard,
          workbuf, stat, psn, flushing, out, arrived, total, again, epoch>>

numbers == <<seqnr, firstseqnr, expectseqnr, maxseq, minseq, discard>>
history == <<arrived, total, again, epoch>>

Seqs == 0..MaxSeq
Missing == -1                      \* the flag of that place is 0
Places == 0..N - 1
Window == 0..Readahead - 1
Empty == <<>>                      \* block()
NewBlock == [p \in Places |-> Missing]

Blocks == [Places -> Seqs \cup {Missing}]
Pairs == Window \X Places

\* The places of the window that have a datagram.
Flagged == {x \in Pairs : workbuf[x[1]] # Empty /\ workbuf[x[1]][x[2]] # Missing}

Init ==
  /\ pc = "start"
  /\ seqnr = 0 /\ firstseqnr = 0 /\ expectseqnr = 0 /\ maxseq = 0 /\ minseq = 0
  /\ shiftcount = 0 /\ discard = FALSE
  /\ workbuf = [i \in Window |-> Empty]
  /\ stat = [pktcnt |-> 0, loscnt |-> 0, ooocnt |-> 0, ooosum |-> 0, disccnt |-> 0]
  /\ psn = Buffer(Kept, 0)
  /\ flushing = 0 /\ out = <<>>
  /\ arrived = <<>> /\ total = 0 /\ again = 0 /\ epoch = 0

\* The first sequence number.
First(s) ==
  /\ pc = "start" /\ MaxPackets > 0
  /\ seqnr' = s /\ firstseqnr' = s /\ expectseqnr' = s /\ maxseq' = s /\ minseq' = s
  /\ pc' = "account"
  /\ UNCHANGED <<shiftcount, discard, workbuf, stat, psn, flushing, out, history>>

\* Cancelled before it starts, or while it waits for the first datagram.
NoFirst ==
  /\ pc = "start"
  /\ pc' = "ended"
  /\ UNCHANGED <<numbers, shiftcount, workbuf, stat, psn, flushing, out, history>>

-----------------------------------------------------------------------------
(* What is known of a sequence number when it has been peeked at.           *)

Older == seqnr < firstseqnr
Late == Older /\ firstseqnr - seqnr <= N
Resync == Older /\ ~Late

\* The reordering extent, of the numbers that are remembered.
Extent(b) ==
  size(b) - (CHOOSE j \in 0..size(b) - 1 :
               /\ element(b, Kept, j) >= seqnr
               /\ \A k \in 0..j - 1 : element(b, Kept, k) < seqnr)

\* LossIsLostLessRepeats: the restart keeps the lowest number of the old stream.
Fault_LowestNumber == IF seqnr < minseq THEN seqnr ELSE minseq

LowestNumber == IF Resync \/ seqnr < minseq THEN seqnr ELSE minseq
HighestNumber == IF Resync \/ seqnr > maxseq THEN seqnr ELSE maxseq

\* "Statistics as per RFC4737", and a sender that starts afresh.
Statistics ==
  LET remembered == push(psn, Kept, seqnr)
      reordered == seqnr < expectseqnr
      packets == IF Resync THEN 1 ELSE stat.pktcnt + 1
  IN  /\ psn' = IF Resync THEN clear(remembered) ELSE remembered
      /\ expectseqnr' = IF Resync THEN seqnr
                        ELSE IF reordered THEN expectseqnr ELSE seqnr + 1
      /\ maxseq' = HighestNumber /\ minseq' = LowestNumber
      /\ stat' = [pktcnt |-> packets,
                  loscnt |-> (maxseq' - minseq' + 1 - packets) % Wrap,
                  ooocnt |-> stat.ooocnt + (IF reordered THEN 1 ELSE 0),
                  ooosum |-> stat.ooosum + (IF reordered THEN Extent(remembered) ELSE 0),
                  disccnt |-> stat.disccnt + (IF Resync THEN Cardinality(Flagged)
                                              ELSE IF Late THEN 1 ELSE 0)]

Restarted == [i \in Window |-> IF workbuf[i] = Empty THEN Empty ELSE NewBlock]

\* A number before the window is late, or a new stream if it is far before: then
\* the window starts at it, and all that it holds is thrown away.
Account ==
  /\ pc = "account"
  /\ Statistics
  /\ firstseqnr' = IF Resync THEN seqnr ELSE firstseqnr
  /\ workbuf' = IF Resync THEN Restarted ELSE workbuf
  /\ discard' = Late /\ shiftcount' = 0
  /\ pc' = IF Late THEN "read" ELSE "place"
  /\ arrived' = IF Resync THEN <<seqnr>> ELSE Append(arrived, seqnr)
  /\ epoch' = epoch + (IF Resync THEN 1 ELSE 0)
  /\ UNCHANGED <<seqnr, flushing, out, total, again>>

IsAt(i, p) == seqnr = firstseqnr + i * N + p
InWindow == seqnr < firstseqnr + Readahead * N

\* EveryDatagramIsAccounted: a new block for each datagram.
Fault_Wanted(i) == \E p \in Places : IsAt(i, p)

Wanted(i) == workbuf[i] = Empty /\ \E p \in Places : IsAt(i, p)

\* The block that it goes to is there, or made, with no flag set.
Place ==
  /\ pc = "place" /\ InWindow
  /\ workbuf' = [i \in Window |-> IF Wanted(i) THEN NewBlock ELSE workbuf[i]]
  /\ pc' = "read"
  /\ UNCHANGED <<numbers, shiftcount, stat, psn, flushing, out, history>>

Pushed(i, n) == Append(out, [first |-> firstseqnr + i * N, epoch |-> epoch,
                             cells |-> [p \in 0..n - 1 |-> workbuf[i][p]]])

\* InOrderAndInPlace: the last position of the window is not cleared.
Fault_Shifted == [i \in Window |-> IF i = Readahead - 1 THEN workbuf[i] ELSE workbuf[i + 1]]

Shifted == [i \in Window |-> IF i = Readahead - 1 THEN Empty ELSE workbuf[i + 1]]

\* "sequence number would fall outside workbuf": the first block goes.  When all
\* have gone, the window starts at the number.
Shift ==
  /\ pc = "place" /\ ~InWindow
  /\ out' = IF workbuf[0] = Empty THEN out ELSE Pushed(0, N)
  /\ workbuf' = Shifted
  /\ shiftcount' = shiftcount + 1
  /\ firstseqnr' = IF shiftcount' = Readahead THEN seqnr ELSE firstseqnr + N
  /\ UNCHANGED <<pc, seqnr, expectseqnr, maxseq, minseq, discard, stat, psn, flushing, history>>

\* Nobody takes the block.
ShiftRefused ==
  /\ pc = "place" /\ ~InWindow /\ workbuf[0] # Empty
  /\ pc' = "ended"
  /\ UNCHANGED <<numbers, shiftcount, workbuf, stat, psn, flushing, out, history>>

\* The datagram is read, to its place or to the dummy buffer.
Read ==
  /\ pc = "read"
  /\ workbuf' = [i \in Window |->
                   IF workbuf[i] = Empty \/ discard THEN workbuf[i]
                   ELSE [p \in Places |-> IF IsAt(i, p) THEN seqnr ELSE workbuf[i][p]]]
  /\ total' = total + 1
  /\ again' = again + (IF workbuf' = workbuf /\ ~discard THEN 1 ELSE 0)
  /\ pc' = "peek"
  /\ UNCHANGED <<numbers, shiftcount, stat, psn, flushing, out, arrived, epoch>>

Peek(s) ==
  /\ pc = "peek" /\ total < MaxPackets
  /\ seqnr' = s
  /\ pc' = "account"
  /\ UNCHANGED <<firstseqnr, expectseqnr, maxseq, minseq, shiftcount, discard,
                 workbuf, stat, psn, flushing, out, history>>

\* The socket is closed or the thread is signalled, before a datagram is read or
\* while it waits for one; or the datagram is too short.
Stop ==
  /\ pc' = "flush"
  /\ UNCHANGED <<numbers, shiftcount, workbuf, stat, psn, flushing, out, history>>

ReadFails == pc = "read" /\ Stop
PeekFails == pc = "peek" /\ Stop

-----------------------------------------------------------------------------
(* "push all blocks from our workbuff that contain data"                    *)

Start(i) == firstseqnr + i * N
Left == flushing < Readahead /\ Start(flushing) <= maxseq
Size == IF maxseq + 1 - Start(flushing) < N THEN maxseq + 1 - Start(flushing) ELSE N
Pushes == Size = N \/ Variable

Flush ==
  /\ pc = "flush" /\ Left
  /\ IF Pushes
     THEN workbuf[flushing] # Empty /\ out' = Pushed(flushing, Size)
     ELSE UNCHANGED out
  /\ flushing' = flushing + 1
  /\ UNCHANGED <<pc, numbers, shiftcount, workbuf, stat, psn, history>>

\* block::sub() of a block that has no memory throws up.
FlushThrows ==
  /\ pc = "flush" /\ Left /\ Pushes /\ workbuf[flushing] = Empty
  /\ pc' = "threw"
  /\ UNCHANGED <<numbers, shiftcount, workbuf, stat, psn, flushing, out, history>>

\* Nothing is left, or nobody takes it.
Ends ==
  /\ pc = "flush" /\ (Left => Pushes /\ workbuf[flushing] # Empty)
  /\ pc' = IF Left THEN "ended" ELSE "flushed"
  /\ UNCHANGED <<numbers, shiftcount, workbuf, stat, psn, flushing, out, history>>

Next ==
  \/ \E s \in Seqs : First(s) \/ Peek(s)
  \/ NoFirst \/ Account \/ Place \/ Shift \/ ShiftRefused \/ Read \/ ReadFails
  \/ PeekFails \/ Flush \/ FlushThrows \/ Ends

Spec == Init /\ [][Next]_vars

-----------------------------------------------------------------------------
(* Properties.                                                              *)

TypeOK ==
  /\ pc \in {"start", "account", "place", "read", "peek", "flush", "flushed",
             "threw", "ended"}
  /\ {seqnr, maxseq, minseq} \subseteq Seqs
  /\ {firstseqnr, expectseqnr, shiftcount, total, again, epoch} \subseteq Nat
  /\ discard \in BOOLEAN
  /\ workbuf \in [Window -> Blocks \cup {Empty}]
  /\ flushing \in 0..Readahead

Position(x) == Start(x[1]) + x[2]

\* However the datagrams were reordered, repeated, lost or restarted: the one at
\* place p of a block is the p-th of that block, in the window and in what goes
\* downstream, and downstream the blocks of one stream never go back or overlap.
InOrderAndInPlace ==
  /\ \A x \in Flagged : workbuf[x[1]][x[2]] = Position(x)
  /\ \A k \in DOMAIN out : \A p \in DOMAIN out[k].cells :
       out[k].cells[p] \in {Missing, out[k].first + p}
  /\ \A k, l \in DOMAIN out :
       k < l /\ out[k].epoch = out[l].epoch => out[k].first + N <= out[l].first

\* A datagram that was read is downstream, in the window, counted as discarded, or
\* was replaced by its own duplicate: the window never lets go of one unnoticed.
EveryDatagramIsAccounted ==
  pc = "peek" =>
    total = again + stat.disccnt + Cardinality(Flagged) +
            Cardinality({x \in (DOMAIN out) \X Places : out[x[1]].cells[x[2]] # Missing})

Seen == {arrived[k] : k \in DOMAIN arrived}

\* Of the numbers from the lowest to the highest since the stream began, those that
\* did not come; and how often one came that had come before.
Lost == {n \in Seqs \ Seen : \E a, b \in Seen : a < n /\ n < b}
Repeats == Len(arrived) - Cardinality(Seen)

\* What pkt_lost is: those that did not come less those that came again, and where
\* these are the more, a number just below 2^64.
LossIsLostLessRepeats ==
  pc \notin {"start", "account", "ended"} =>
    stat.loscnt = (Cardinality(Lost) - Repeats) % Wrap

\* pkt_lost as it is documented, the "amount of packets lost": no more are lost than
\* there are numbers between the lowest and the highest.
LossIsPlausible == stat.loscnt <= maxseq - minseq

\* "keep the last 32 sequence numbers": since the last resync, whose own number is
\* cleared with the others.
LastNumbersAreKept ==
  LET all == Len(arrived) - (IF epoch = 0 THEN 0 ELSE 1)
  IN  /\ size(psn) = IF all < Kept THEN all ELSE Kept
      /\ \A j \in 0..size(psn) - 1 :
           element(psn, Kept, j) = arrived[Len(arrived) - size(psn) + 1 + j]

\* "push all blocks from our workbuff that contain data [...] partial blocks only
\* if the 'allow_variable_block_size' is set": unless somebody downstream refuses.
FlushIsComplete ==
  Variable /\ pc \in {"flushed", "threw"} =>
    \A x \in Flagged : \E k \in DOMAIN out :
      out[k].epoch = epoch /\ out[k].first = Start(x[1]) /\ x[2] \in DOMAIN out[k].cells

=============================================================================
