------------------------------- MODULE Rsync -------------------------------
(***************************************************************************)
(* The synchronisation of a recording (a set of files, `chunks') from one  *)
(* machine to another: vbs2net on the one, net2vbs on the other.           *)
(*                                                                         *)
(* The sender (rsyncinitiator, parallelreader2 and parallelsender of       *)
(* threadfns/multisend.cc) asks the receiver which of its files are wanted,*)
(* reads these and sends each over a connection of its own.  The receiver  *)
(* (parallelnetreader, and parallelwriter) answers, takes the chunks from  *)
(* their connections and puts them on its mountpoints.                     *)
(*                                                                         *)
(* Connections may break, refuse to be made, files be unreadable and       *)
(* mountpoints fail, a receiver fail to accept and leave, the sending or   *)
(* the receiving be broken off by a command and the receiving program be   *)
(* killed and started again; MaxFaults of these together.                  *)
(*                                                                         *)
(* A chunk is its name; a file of it is a part or whole.  The list of files*)
(* is made in one step.  Left out: the order in which chunks are sent (they*)
(* are striped over the mountpoints of the sender), and what ParallelWriter*)
(* has of the writers: how they wait for each other.  Here a writer that   *)
(* finds no mountpoint waits as long as another has one.                   *)
(***************************************************************************)
EXTENDS Naturals, Sequences, FiniteSets

CONSTANTS
  Chunks, Mountpoints,
  Senders, Receivers, Writers,  \* the threads of the steps; all sets
  NReaders,                     \* threads of parallelreader2
  None,
  Depth,      \* capacity of the queues to the senders, and to the writers
  MaxTries,   \* attempts to connect: 5 in the program
  MaxRounds,  \* bound: number of vbs2net's
  MaxFaults   \* bound: number of failures

ASSUME RsyncAssumption ==
  /\ None \notin Chunks \cup Mountpoints \cup Senders
  /\ {NReaders, Depth, MaxTries} \subseteq Nat \ {0}
  /\ {MaxRounds, MaxFaults} \subseteq Nat

VARIABLES
  \* The sender.
  asked,     \* where rsyncinitiator is
  todo,      \* the chunks it has yet to hand out
  readers,   \* how many readers are left
  q,         \* chunks that were read
  spc, hand, tries,      \* per sender: where it is, its chunk, failed attempts
  conn,      \* its connection
  sent,      \* what of the chunk has been written to it
  \* The receiver.
  net2vbs,   \* how far its chain has been stopped
  rpc, from, got,        \* per receiver: where it is, its connection, its chunk
  rq,        \* the queue to the writers
  wpc, item, at,         \* per writer: where it is, its chunk, its mountpoint
  free,      \* mountpoints on the list
  file,      \* file[m][c]
  failed,    \* mountpoints where a file could not be opened, or written
  \* For the properties.
  round, faults,         \* how many there were
  lost,      \* chunks of this round for which something failed
  twice,     \* a chunk was wanted while it was on its way already
  refused    \* receivers of which a chunk was not taken by the writers

sender == <<asked, todo, readers, q, spc, hand, tries, sent>>
receiver == <<net2vbs, rpc, from, got, rq, refused>>
disks == <<wpc, item, at, free, file, failed>>
history == <<round, faults, lost, twice>>
vars == <<sender, conn, receiver, disks, history>>

Init ==
  /\ asked = "done" /\ todo = {} /\ readers = 0 /\ q = {}
  /\ spc = [s \in Senders |-> "gone"] /\ hand = [s \in Senders |-> None]
  /\ tries = [s \in Senders |-> 0] /\ sent = [s \in Senders |-> "no"]
  /\ conn = [s \in Senders |-> "none"]
  /\ net2vbs = "open" /\ rpc = [r \in Receivers |-> "accept"]
  /\ from = [r \in Receivers |-> None] /\ got = [r \in Receivers |-> None]
  /\ rq = <<>> /\ refused = {}
  /\ wpc = [w \in Writers |-> "pop"]
  /\ item = [w \in Writers |-> None] /\ at = [w \in Writers |-> None]
  /\ free = Mountpoints /\ failed = {}
  /\ file = [m \in Mountpoints |-> [c \in Chunks |-> "no"]]
  /\ round = 0 /\ faults = 0 /\ lost = {} /\ twice = FALSE

Fault == faults < MaxFaults /\ faults' = faults + 1

\* What the receiver has of the chunk beside its files.
OnItsWay(c) ==
  \/ \E r \in Receivers : got[r] = c
  \/ \E i \in DOMAIN rq : rq[i] = c
  \/ \E w \in Writers : item[w] = c

Present == {c \in Chunks : \E m \in Mountpoints : file[m][c] # "no"}

Over == \A s \in Senders : spc[s] = "gone"

\* Nobody listens: a connection is refused at once.
Refused == net2vbs # "open"

FaultUnlessRefused == IF Refused THEN UNCHANGED faults ELSE Fault

-----------------------------------------------------------------------------
(* rsyncinitiator: a new vbs2net, when the last is over.                    *)

Begin ==
  /\ round < MaxRounds /\ Over /\ asked = "done"
  /\ asked' = "ask" /\ readers' = NReaders
  /\ spc' = [s \in Senders |-> "pop"]
  /\ round' = round + 1 /\ lost' = {}
  /\ UNCHANGED <<todo, q, hand, tries, sent, conn, receiver, disks, faults, twice>>

\* The request cannot be made, or not be answered: it throws.
RequestFails ==
  /\ asked = "ask" /\ FaultUnlessRefused
  /\ asked' = "done" /\ lost' = Chunks
  /\ UNCHANGED <<todo, readers, q, spc, hand, tries, sent, conn, receiver, disks, round, twice>>

\* NothingVanishes: the shorter list, under the name of the other.
Fault_Reply ==
  LET have == Chunks \cap Present
      need == Chunks \ Present
  IN  IF Cardinality(have) < Cardinality(need)
      THEN [listType |-> "need", list |-> have]
      ELSE [listType |-> "have", list |-> need]

\* The receiver answers with the shorter of two lists.
Reply ==
  LET have == Chunks \cap Present
      need == Chunks \ Present
  IN  IF Cardinality(have) < Cardinality(need)
      THEN [listType |-> "have", list |-> have]
      ELSE [listType |-> "need", list |-> need]

Needed(reply) ==
  IF reply.listType = "have" THEN Chunks \ reply.list ELSE Chunks \cap reply.list

Request(r) ==
  /\ asked = "ask" /\ rpc[r] = "accept" /\ ~Refused
  /\ todo' = Needed(Reply)
  /\ asked' = "push"
  /\ twice' = (twice \/ \E c \in todo' : OnItsWay(c))
  /\ UNCHANGED <<readers, q, spc, hand, tries, sent, conn, receiver, disks,
                 round, faults, lost>>

\* vbs2net = disconnect.  A chunk that a sender has, it sends.
Disconnect ==
  /\ (asked # "done" \/ ~Over) /\ Fault
  /\ asked' = "done" /\ todo' = {} /\ q' = {} /\ readers' = 0
  /\ lost' = IF asked = "ask" THEN Chunks ELSE lost \cup todo \cup q
  /\ UNCHANGED <<spc, hand, tries, sent, conn, receiver, disks, round, twice>>

\* All is handed out.
Handed ==
  /\ asked = "push" /\ todo = {}
  /\ asked' = "done"
  /\ UNCHANGED <<todo, readers, q, spc, hand, tries, sent, conn, receiver, disks, history>>

\* Nobody takes a chunk any more: no reader is left, or no sender.
Dropped ==
  /\ asked = "push" /\ (readers = 0 \/ Over)
  /\ asked' = "done" /\ todo' = {}
  /\ lost' = lost \cup todo
  /\ UNCHANGED <<readers, q, spc, hand, tries, sent, conn, receiver, disks,
                 round, faults, twice>>

\* parallelreader2.
ReadFile(c) ==
  /\ c \in todo /\ readers > 0 /\ Cardinality(q) < Depth /\ ~Over
  /\ todo' = todo \ {c} /\ q' = q \cup {c}
  /\ UNCHANGED <<asked, readers, spc, hand, tries, sent, conn, receiver, disks, history>>

\* It throws, and that thread is gone.
ReadFails(c) ==
  /\ c \in todo /\ readers > 0 /\ Fault
  /\ todo' = todo \ {c} /\ readers' = readers - 1
  /\ lost' = lost \cup {c}
  /\ UNCHANGED <<asked, q, spc, hand, tries, sent, conn, receiver, disks, round, twice>>

-----------------------------------------------------------------------------
(* parallelsender.                                                          *)

PopChunk(s, c) ==
  /\ spc[s] = "pop" /\ c \in q
  /\ q' = q \ {c}
  /\ hand' = [hand EXCEPT ![s] = c]
  /\ spc' = [spc EXCEPT ![s] = "connect"]
  /\ UNCHANGED <<asked, todo, readers, tries, sent, conn, receiver, disks, history>>

\* The queue is at its end.
SenderLeaves(s) ==
  /\ spc[s] = "pop" /\ q = {} /\ asked = "done"
  /\ spc' = [spc EXCEPT ![s] = "gone"]
  /\ UNCHANGED <<asked, todo, readers, q, hand, tries, sent, conn, receiver, disks, history>>

Connect(s) ==
  /\ spc[s] = "connect" /\ ~Refused
  /\ conn' = [conn EXCEPT ![s] = "backlog"]
  /\ tries' = [tries EXCEPT ![s] = 0]
  /\ spc' = [spc EXCEPT ![s] = "send"]
  /\ UNCHANGED <<asked, todo, readers, q, hand, sent, receiver, disks, history>>

\* It sleeps, and tries again.
ConnectFails(s) ==
  /\ spc[s] = "connect" /\ tries[s] + 1 < MaxTries
  /\ tries' = [tries EXCEPT ![s] = @ + 1]
  /\ UNCHANGED <<asked, todo, readers, q, spc, hand, sent, conn, receiver, disks, history>>

\* The thread is gone with its chunk.  The last one closes the queue, with what
\* is in it.
Dies(s) ==
  /\ spc' = [spc EXCEPT ![s] = "gone"]
  /\ hand' = [hand EXCEPT ![s] = None]
  /\ IF \A t \in Senders \ {s} : spc[t] = "gone"
     THEN q' = {} /\ lost' = lost \cup {hand[s]} \cup q
     ELSE lost' = lost \cup {hand[s]} /\ UNCHANGED q
  /\ conn' = [conn EXCEPT ![s] = "none"] /\ tries' = [tries EXCEPT ![s] = 0]
  /\ UNCHANGED <<asked, todo, readers, sent, receiver, disks, round, twice>>

GivesUp(s) ==
  /\ spc[s] = "connect" /\ tries[s] + 1 = MaxTries /\ FaultUnlessRefused
  /\ Dies(s)

\* The header, and a part of the chunk, or all of it: writing need not wait for
\* the other side to read.
Send(s) ==
  /\ spc[s] = "send" /\ conn[s] \in {"backlog", "open", "left"}
  /\ sent' = [sent EXCEPT ![s] = IF @ = "no" THEN "part" ELSE "whole"]
  /\ spc' = [spc EXCEPT ![s] = IF sent[s] = "no" THEN "send" ELSE "wait"]
  /\ UNCHANGED <<asked, todo, readers, q, hand, tries, conn, receiver, disks, history>>

\* Not even the header: it throws.
NoHeader(s) ==
  /\ spc[s] = "send" /\ conn[s] = "cut" /\ sent[s] = "no"
  /\ Dies(s) /\ UNCHANGED faults

\* The chunk is sent as far as it goes, and the other side has closed or is gone.
\* There is nothing in that to tell the two apart.
Sent(s) ==
  /\ \/ spc[s] = "send" /\ conn[s] = "cut" /\ sent[s] # "no"
     \/ spc[s] = "wait" /\ conn[s] \in {"cut", "closed"}
  /\ spc' = [spc EXCEPT ![s] = "pop"]
  /\ hand' = [hand EXCEPT ![s] = None]
  /\ conn' = [conn EXCEPT ![s] = "none"] /\ sent' = [sent EXCEPT ![s] = "no"]
  /\ UNCHANGED <<asked, todo, readers, q, tries, receiver, disks, history>>

\* Connections break, and what was under way with them.
Broken(S) ==
  /\ conn' = [s \in Senders |-> IF s \in S THEN "cut" ELSE conn[s]]
  /\ lost' = lost \cup {hand[s] : s \in S}
  /\ from' = [r \in Receivers |-> IF from[r] \in S THEN None ELSE from[r]]

Cut(s) ==
  /\ conn[s] \in {"backlog", "open", "left"} /\ Fault
  /\ Broken({s})
  /\ UNCHANGED <<sender, net2vbs, rpc, got, rq, refused, disks, round, twice>>

-----------------------------------------------------------------------------
(* parallelnetreader: the threads wait for connections on the same socket.  *)

Accept(r, s) ==
  /\ rpc[r] = "accept" /\ conn[s] = "backlog"
  /\ rpc' = [rpc EXCEPT ![r] = "accepted"] /\ from' = [from EXCEPT ![r] = s]
  /\ conn' = [conn EXCEPT ![s] = "open"]
  /\ UNCHANGED <<sender, net2vbs, got, rq, refused, disks, history>>

\* "If this one fails, we better quit!"  It does, when the socket is closed.
AcceptFails(r) ==
  /\ rpc[r] = "accept" /\ FaultUnlessRefused
  /\ rpc' = [rpc EXCEPT ![r] = "gone"]
  /\ UNCHANGED <<sender, conn, net2vbs, from, got, rq, refused, disks,
                 round, lost, twice>>

Cancelled == net2vbs \in {"cancelled", "disabled"}

\* From here on mna_close() closes the connection when it is called.
Register(r) ==
  /\ rpc[r] = "accepted" /\ ~Cancelled
  /\ rpc' = [rpc EXCEPT ![r] = "read"]
  /\ UNCHANGED <<sender, conn, net2vbs, from, got, rq, refused, disks, history>>

\* Too late: the thread leaves, and nobody closes the connection.
Abandon(r) ==
  /\ rpc[r] = "accepted" /\ Cancelled
  /\ rpc' = [rpc EXCEPT ![r] = "gone"]
  /\ from' = [from EXCEPT ![r] = None]
  /\ conn' = [s \in Senders |-> IF s = from[r] THEN "left" ELSE conn[s]]
  /\ lost' = lost \cup {hand[s] : s \in {from[r]} \ {None}}
  /\ UNCHANGED <<sender, net2vbs, got, rq, refused, disks, round, faults, twice>>

ReadChunk(r) ==
  /\ rpc[r] = "read" /\ from[r] # None /\ sent[from[r]] = "whole"
  /\ got' = [got EXCEPT ![r] = hand[from[r]]]
  /\ rpc' = [rpc EXCEPT ![r] = "push"]
  /\ UNCHANGED <<sender, conn, net2vbs, from, rq, refused, disks, history>>

\* Back to monitoring the socket, or not.
Again(r) == rpc' = [rpc EXCEPT ![r] = IF Cancelled THEN "gone" ELSE "accept"]

\* The connection ends before the chunk does, or the header.
ReadShort(r) ==
  /\ rpc[r] = "read" /\ from[r] = None
  /\ Again(r)
  /\ UNCHANGED <<sender, conn, net2vbs, from, got, rq, refused, disks, history>>

Enabled == net2vbs # "disabled" /\ \E w \in Writers : wpc[w] # "gone"

Push(r) ==
  /\ rpc[r] = "push" /\ Enabled /\ Len(rq) < Depth
  /\ rq' = Append(rq, got[r])
  /\ got' = [got EXCEPT ![r] = None]
  /\ rpc' = [rpc EXCEPT ![r] = "close"]
  /\ UNCHANGED <<sender, conn, net2vbs, from, refused, disks, history>>

\* The writers are gone, or the queue is disabled.  `done' is set, and set again
\* from args->cancelled when the thread goes back to monitoring its socket.
PushRefused(r) ==
  /\ rpc[r] = "push" /\ ~Enabled
  /\ lost' = lost \cup {got[r]}
  /\ got' = [got EXCEPT ![r] = None]
  /\ rpc' = [rpc EXCEPT ![r] = "close"]
  /\ refused' = refused \cup {r}
  /\ UNCHANGED <<sender, conn, net2vbs, from, rq, disks, round, faults, twice>>

\* RoundsEnd: the connection is left open.
Fault_Close(r) ==
  /\ rpc[r] = "close"
  /\ Again(r) /\ from' = [from EXCEPT ![r] = None]
  /\ UNCHANGED <<sender, conn, net2vbs, got, rq, refused, disks, history>>

Close(r) ==
  /\ rpc[r] = "close"
  /\ conn' = [s \in Senders |-> IF s = from[r] THEN "closed" ELSE conn[s]]
  /\ Again(r) /\ from' = [from EXCEPT ![r] = None]
  /\ UNCHANGED <<sender, net2vbs, got, rq, refused, disks, history>>

-----------------------------------------------------------------------------
(* parallelwriter.                                                          *)

PopItem(w) ==
  /\ wpc[w] = "pop" /\ rq # <<>>
  /\ item' = [item EXCEPT ![w] = Head(rq)] /\ rq' = Tail(rq)
  /\ wpc' = [wpc EXCEPT ![w] = "mount"]
  /\ UNCHANGED <<sender, conn, net2vbs, rpc, from, got, refused, at, free, file,
                 failed, history>>

\* The queue is at its end.
WriterLeaves(w) ==
  /\ wpc[w] = "pop" /\ rq = <<>>
  /\ net2vbs = "disabled" \/ \A r \in Receivers : rpc[r] = "gone"
  /\ wpc' = [wpc EXCEPT ![w] = "gone"]
  /\ UNCHANGED <<sender, conn, receiver, item, at, free, file, failed, history>>

\* A file of that name must not be there.
Open(w, m) ==
  /\ wpc[w] = "mount" /\ m \in free /\ file[m][item[w]] = "no"
  /\ free' = free \ {m}
  /\ at' = [at EXCEPT ![w] = m]
  /\ file' = [file EXCEPT ![m][item[w]] = "part"]
  /\ wpc' = [wpc EXCEPT ![w] = "write"]
  /\ UNCHANGED <<sender, conn, receiver, item, failed, history>>

\* It cannot be opened: the mountpoint is taken for bad,
Struck(m) ==
  /\ free' = free \ {m}
  /\ UNCHANGED <<sender, conn, receiver, wpc, item, at, file, round, lost, twice>>

OpenFails(w, m) ==
  /\ wpc[w] = "mount" /\ m \in free /\ Fault
  /\ Struck(m) /\ failed' = failed \cup {m}

\* also if the reason is that the file is there.
Exists(w, m) ==
  /\ wpc[w] = "mount" /\ m \in free /\ file[m][item[w]] # "no"
  /\ Struck(m) /\ UNCHANGED <<faults, failed>>

\* GoodMountpointsStay: the mountpoint is not put back.
Fault_PutBack(w) == free

PutBack(w) == free \cup {at[w]}

Written(w) ==
  /\ wpc[w] = "write"
  /\ file' = [file EXCEPT ![at[w]][item[w]] = "whole"]
  /\ free' = PutBack(w)
  /\ at' = [at EXCEPT ![w] = None] /\ item' = [item EXCEPT ![w] = None]
  /\ wpc' = [wpc EXCEPT ![w] = "pop"]
  /\ UNCHANGED <<sender, conn, receiver, failed, history>>

\* The file is removed, if that can be done, the mountpoint not put back, and the
\* next one tried.
WriteFails(w) ==
  /\ wpc[w] = "write" /\ Fault
  /\ \E left \in {"no", "part"} : file' = [file EXCEPT ![at[w]][item[w]] = left]
  /\ failed' = failed \cup {at[w]}
  /\ at' = [at EXCEPT ![w] = None]
  /\ wpc' = [wpc EXCEPT ![w] = "mount"]
  /\ UNCHANGED <<sender, conn, receiver, item, free, round, lost, twice>>

\* No mountpoint is left.  The last writer closes the queue, with what is in it.
NoMountpoint(w) ==
  /\ wpc[w] = "mount" /\ free = {} /\ \A v \in Writers : at[v] = None
  /\ wpc' = [wpc EXCEPT ![w] = "gone"]
  /\ item' = [item EXCEPT ![w] = None]
  /\ IF \A v \in Writers \ {w} : wpc[v] = "gone"
     THEN rq' = <<>> /\ lost' = lost \cup {item[w]} \cup {rq[i] : i \in DOMAIN rq}
     ELSE lost' = lost \cup {item[w]} /\ UNCHANGED rq
  /\ UNCHANGED <<sender, conn, net2vbs, rpc, from, got, refused, at, free, file,
                 failed, round, faults, twice>>

-----------------------------------------------------------------------------
(* net2vbs, the command, and the program.                                   *)

Ended == /\ \A r \in Receivers : rpc[r] = "gone"
         /\ \A w \in Writers : wpc[w] = "gone"

\* net2vbs = close.  First mna_close(): it closes the socket, and what has been
\* registered.
StopReceiving ==
  /\ net2vbs = "open" /\ ~Ended /\ Fault
  /\ net2vbs' = "closed"
  /\ Broken({s \in Senders : \/ conn[s] = "backlog"
                             \/ \E r \in Receivers : from[r] = s /\ rpc[r] # "accepted"})
  /\ UNCHANGED <<sender, rpc, got, rq, refused, disks, round, twice>>

\* Then the threads are told, then the queue is disabled; what is in it stays.
StopGoesOn ==
  /\ \/ net2vbs = "closed" /\ net2vbs' = "cancelled"
     \/ net2vbs = "cancelled" /\ net2vbs' = "disabled"
  /\ UNCHANGED <<sender, conn, rpc, from, got, rq, refused, disks, history>>

\* A new chain, with new threads and all mountpoints on the list.
NewChain ==
  /\ net2vbs' = "open"
  /\ rpc' = [r \in Receivers |-> "accept"] /\ got' = [r \in Receivers |-> None]
  /\ rq' = <<>> /\ refused' = {}
  /\ wpc' = [w \in Writers |-> "pop"]
  /\ item' = [w \in Writers |-> None] /\ at' = [w \in Writers |-> None]
  /\ free' = Mountpoints /\ failed' = {}

\* net2vbs = open, when the last chain has ended or was stopped.
StartReceiving ==
  /\ net2vbs \in {"open", "disabled"} /\ Ended
  /\ NewChain
  /\ Broken({s \in Senders : conn[s] = "backlog"})
  /\ UNCHANGED <<sender, file, round, faults, twice>>

\* The receiving program is killed, and net2vbs is opened again.
Crash ==
  /\ Fault
  /\ NewChain
  /\ LET S == {s \in Senders : conn[s] \in {"backlog", "open", "left"}}
     IN  /\ conn' = [s \in Senders |-> IF s \in S THEN "cut" ELSE conn[s]]
         /\ lost' = lost \cup {hand[s] : s \in S} \cup {c \in Chunks : OnItsWay(c)}
  /\ from' = [r \in Receivers |-> None]
  /\ UNCHANGED <<sender, file, round, twice>>

-----------------------------------------------------------------------------
Sending ==
  \/ Handed \/ Dropped \/ (Refused /\ RequestFails)
  \/ \E r \in Receivers : Request(r)
  \/ \E c \in Chunks : ReadFile(c)

SenderStep(s) ==
  \/ \E c \in Chunks : PopChunk(s, c)
  \/ SenderLeaves(s) \/ Connect(s) \/ Send(s) \/ NoHeader(s) \/ Sent(s)
  \/ Refused /\ (ConnectFails(s) \/ GivesUp(s))

ReceiverStep(r) ==
  \/ \E s \in Senders : Accept(r, s)
  \/ Refused /\ AcceptFails(r)
  \/ Register(r) \/ Abandon(r)
  \/ ReadChunk(r) \/ ReadShort(r) \/ Push(r) \/ PushRefused(r) \/ Close(r)

WriterStep(w) ==
  \/ PopItem(w) \/ WriterLeaves(w) \/ Written(w) \/ NoMountpoint(w)
  \/ \E m \in Mountpoints : Open(w, m) \/ Exists(w, m)

Failure ==
  \/ RequestFails \/ Disconnect \/ Crash \/ StopReceiving
  \/ \E c \in Chunks : ReadFails(c)
  \/ \E s \in Senders : ConnectFails(s) \/ GivesUp(s) \/ Cut(s)
  \/ \E r \in Receivers : AcceptFails(r)
  \/ \E w \in Writers : WriteFails(w) \/ \E m \in Mountpoints : OpenFails(w, m)

Next ==
  \/ Begin \/ Sending \/ StopGoesOn \/ StartReceiving \/ Failure
  \/ \E s \in Senders : SenderStep(s)
  \/ \E r \in Receivers : ReceiverStep(r)
  \/ \E w \in Writers : WriterStep(w)

\* Threads run; nothing needs to fail, and nobody needs to ask again, nor to open
\* net2vbs again.
Fairness ==
  /\ WF_vars(Sending) /\ WF_vars(StopGoesOn)
  /\ \A s \in Senders : WF_vars(SenderStep(s))
  /\ \A r \in Receivers : WF_vars(ReceiverStep(r))
  /\ \A w \in Writers : WF_vars(WriterStep(w))

Spec == Init /\ [][Next]_vars /\ Fairness

-----------------------------------------------------------------------------
(* Properties.                                                              *)

TypeOK ==
  /\ asked \in {"ask", "push", "done"}
  /\ {todo, q, lost} \subseteq SUBSET Chunks /\ readers \in 0..NReaders
  /\ spc \in [Senders -> {"pop", "connect", "send", "wait", "gone"}]
  /\ hand \in [Senders -> Chunks \cup {None}]
  /\ conn \in [Senders -> {"none", "backlog", "open", "cut", "closed", "left"}]
  /\ net2vbs \in {"open", "closed", "cancelled", "disabled"}
  /\ rpc \in [Receivers -> {"accept", "accepted", "read", "push", "close", "gone"}]
  /\ got \in [Receivers -> Chunks \cup {None}]
  /\ wpc \in [Writers -> {"pop", "mount", "write", "gone"}]
  /\ file \in [Mountpoints -> [Chunks -> {"no", "part", "whole"}]]

Stored(c) == \E m \in Mountpoints : file[m][c] = "whole"

\* A part of it was left by a program that was killed, or could not be removed.
Leftover(c) == \E m \in Mountpoints : file[m][c] = "part"

\* When a synchronisation is over, each chunk of the recording is whole on a disk
\* of the receiver, or in the hands of its writers, or something failed for it in
\* this synchronisation: none is skipped, overtaken or taken for done unnoticed,
\* whatever an earlier one has left.  (Not so a chunk of which a part was left:
\* its name is on the list.)
NothingVanishes ==
  Over /\ asked = "done" /\ round > 0 =>
    \A c \in Chunks \ lost : Stored(c) \/ OnItsWay(c) \/ Leftover(c)

\* Among all that goes wrong, a mountpoint is struck off the list for no other
\* reason than a failure of its own: neither connections that break, nor writers
\* or receivers that leave, nor a failure of another mountpoint cost the recording
\* a disk.  (There is one exception: when a chunk is asked for again before its
\* first copy has got to a file, the second copy finds the name taken.)
GoodMountpointsStay ==
  twice \/ Mountpoints \ (free \cup {at[w] : w \in Writers}) \subseteq failed

\* All have failed to accept, and net2vbs has not been closed: connections are
\* still made, but nobody will ever answer them.
NobodyAccepts == net2vbs = "open" /\ \A r \in Receivers : rpc[r] = "gone"

\* However connections break, the receiver's disks fill up, its writers leave or
\* it is closed: who started a synchronisation gets its end; unless all receivers
\* have failed to accept, or left a connection open when they were cancelled.
RoundsEnd ==
  (asked # "done" \/ ~Over) ~>
    \/ asked = "done" /\ Over
    \/ NobodyAccepts \/ \E s \in Senders : conn[s] = "left"

\* "First thing we do after acquiring a new fd is to register it such that we get
\* informed (and fd closed) upon cancellation"
CancelClosesConnections == \A s \in Senders : conn[s] # "left"

\* "Failure to push implies we should stop!"
RefusedMeansStop == \A r \in refused : rpc[r] # "read"

=============================================================================
