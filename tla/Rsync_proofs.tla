---------------------------- MODULE Rsync_proofs ----------------------------
(***************************************************************************)
(* Proofs about Rsync, for recordings of any chunks, any number of threads *)
(* on either side, any mountpoints, any number of rounds and of failures.  *)
(* All from the actions alone: no fairness is used.                        *)
(***************************************************************************)
EXTENDS Rsync, TLAPS

-----------------------------------------------------------------------------
(* The invariant.                                                          *)

Types ==
  /\ asked \in {"ask", "push", "done"}
  /\ todo \subseteq Chunks /\ q \subseteq Chunks /\ lost \subseteq Chunks
  /\ readers \in 0..NReaders
  /\ spc \in [Senders -> {"pop", "connect", "send", "wait", "gone"}]
  /\ hand \in [Senders -> Chunks \cup {None}]
  /\ conn \in [Senders -> {"none", "backlog", "open", "cut", "closed", "left"}]
  /\ rpc \in [Receivers -> {"accept", "accepted", "read", "push", "close", "gone"}]
  /\ from \in [Receivers -> Senders \cup {None}]
  /\ got \in [Receivers -> Chunks \cup {None}]
  /\ rq \in Seq(Chunks)
  /\ wpc \in [Writers -> {"pop", "mount", "write", "gone"}]
  /\ item \in [Writers -> Chunks \cup {None}]
  /\ at \in [Writers -> Mountpoints \cup {None}]
  /\ free \subseteq Mountpoints /\ failed \subseteq Mountpoints
  /\ file \in [Mountpoints -> [Chunks -> {"no", "part", "whole"}]]
  /\ net2vbs \in {"open", "closed", "cancelled", "disabled"}
  /\ round \in Nat /\ faults \in Nat /\ twice \in BOOLEAN

\* What a sender has in hand, and whether it is connected.
SenderHands ==
  \A s \in Senders :
    /\ spc[s] \in {"pop", "gone"} <=> hand[s] = None
    /\ spc[s] \in {"pop", "connect", "gone"} <=> conn[s] = "none"

\* An open connection has one receiver, which has nothing else in hand.
ReceiverHands ==
  /\ \A r \in Receivers :
       /\ rpc[r] = "push" <=> got[r] # None
       /\ rpc[r] \in {"accept", "gone"} => from[r] = None
       /\ from[r] # None => /\ conn[from[r]] = "open"
                            /\ rpc[r] = "push" => got[r] = hand[from[r]]
  /\ \A r, t \in Receivers : from[r] = from[t] /\ from[r] # None => r = t
  /\ \A s \in Senders : conn[s] = "open" => \E r \in Receivers : from[r] = s

\* A writer has a mountpoint for itself, and there a part of its chunk.  The last one
\* leaves nothing in the queue.
WriterHands ==
  /\ \A w \in Writers :
       /\ wpc[w] \in {"mount", "write"} <=> item[w] # None
       /\ wpc[w] = "write" <=> at[w] # None
       /\ at[w] # None => at[w] \notin free /\ file[at[w]][item[w]] = "part"
  /\ \A v, w \in Writers : at[v] = at[w] /\ at[v] # None => v = w
  /\ (\A w \in Writers : wpc[w] = "gone") => rq = <<>>

\* Which chunks are still to be handed out, by where rsyncinitiator is.
Round ==
  /\ asked # "push" => todo = {}
  /\ asked = "ask" => q = {} /\ \A s \in Senders : spc[s] = "pop"
  /\ Over => q = {}

Delivered(c) == Stored(c) \/ OnItsWay(c) \/ Leftover(c) \/ c \in lost

\* A sender is told nothing when its connection ends: but what it has in hand is
\* then at the receiver, or something failed for it.
Closings ==
  \A c \in Chunks, s \in Senders :
    hand[s] = c =>
      /\ conn[s] \in {"cut", "left"} => c \in lost
      /\ conn[s] = "closed" => Delivered(c)
      /\ \A r \in Receivers : rpc[r] = "close" /\ from[r] = s => Delivered(c)

\* A chunk is with the sending machine, or delivered.
Traced ==
  round > 0 /\ asked # "ask" =>
    \A c \in Chunks : \/ c \in todo \/ c \in q \/ Delivered(c)
                      \/ \E s \in Senders : hand[s] = c

IInv ==
  /\ Types /\ SenderHands /\ ReceiverHands /\ WriterHands /\ Round
  /\ Closings /\ Traced
-----------------------------------------------------------------------------
(* The steps, by whose they are.                                           *)

MainStep ==
  \/ Begin \/ Handed \/ Dropped \/ RequestFails \/ Disconnect
  \/ \E r \in Receivers : Request(r)
  \/ \E c \in Chunks : ReadFile(c) \/ ReadFails(c)
SendStep(s) == SenderStep(s) \/ ConnectFails(s) \/ GivesUp(s)
TakeStep(r) == ReceiverStep(r) \/ AcceptFails(r)
DiskStep(w) ==
  WriterStep(w) \/ WriteFails(w) \/ \E m \in Mountpoints : OpenFails(w, m)
BreakStep == StopReceiving \/ \E s \in Senders : Cut(s)
NewStep == StartReceiving \/ Crash

LEMMA Steps ==
  ASSUME Next
  PROVE  \/ MainStep \/ StopGoesOn \/ BreakStep \/ NewStep
         \/ \E s \in Senders : SendStep(s)
         \/ \E r \in Receivers : TakeStep(r)
         \/ \E w \in Writers : DiskStep(w)
BY DEF Next, Sending, Failure, MainStep, SendStep, TakeStep, DiskStep, BreakStep, NewStep

LEMMA MainFrame ==
  ASSUME MainStep
  PROVE  UNCHANGED <<hand, conn, net2vbs, rpc, from, got, rq, wpc, item, at, free, file,
                     failed>>
BY DEF MainStep, Begin, Handed, Dropped, RequestFails, Disconnect, Request, ReadFile,
       ReadFails, receiver, disks

LEMMA SendFrame ==
  ASSUME NEW s \in Senders, SendStep(s)
  PROVE  UNCHANGED <<asked, todo, readers, net2vbs, rpc, from, got, rq, wpc, item, at,
                     free, file, failed, round, twice>>
BY DEF SendStep, SenderStep, PopChunk, SenderLeaves, Connect, ConnectFails, GivesUp, Send,
       NoHeader, Dies, Sent, receiver, disks, history

LEMMA ReceiveFrame ==
  ASSUME NEW r \in Receivers, TakeStep(r)
  PROVE  UNCHANGED <<asked, todo, readers, q, spc, hand, net2vbs, wpc, item, at, free,
                     file, failed, round, twice>>
BY DEF TakeStep, ReceiverStep, Accept, AcceptFails, Register, Abandon, ReadChunk,
       ReadShort, Push, PushRefused, Close, sender, disks,
       history

LEMMA DiskFrame ==
  ASSUME NEW w \in Writers, DiskStep(w)
  PROVE  UNCHANGED <<asked, todo, readers, q, spc, hand, conn, net2vbs, rpc, from, got, round,
                     twice>>
BY DEF DiskStep, WriterStep, PopItem, WriterLeaves, Written, NoMountpoint, Open, Exists,
       Struck, WriteFails,
       OpenFails, sender, receiver, history

LEMMA GoesOnFrame ==
  ASSUME StopGoesOn
  PROVE  /\ UNCHANGED <<asked, todo, readers, q, spc, hand, conn, rpc, from, got, rq, wpc, item,
                        at, free, file, failed, round, faults, lost, twice>>
         /\ net2vbs' \in {"cancelled", "disabled"}
BY DEF StopGoesOn, sender, disks, history

\* What a sender does: it takes a chunk, leaves, connects, goes on, dies, or is done.
Takes(s) ==
  \E c \in q : /\ spc[s] = "pop" /\ spc'[s] = "connect" /\ hand'[s] = c /\ conn'[s] = conn[s]
               /\ q' = q \ {c} /\ lost' = lost
Leaves(s) ==
  /\ spc[s] = "pop" /\ q = {} /\ asked = "done"
  /\ spc'[s] = "gone" /\ hand'[s] = hand[s] /\ conn'[s] = conn[s] /\ q' = q /\ lost' = lost
Connects(s) ==
  /\ spc[s] = "connect"
  /\ spc'[s] = "send" /\ hand'[s] = hand[s] /\ conn'[s] = "backlog" /\ q' = q /\ lost' = lost
GoesOn(s) ==
  /\ \/ spc[s] = "connect" /\ spc'[s] = "connect"
     \/ spc[s] = "send" /\ spc'[s] \in {"send", "wait"}
  /\ hand'[s] = hand[s] /\ conn'[s] = conn[s] /\ q' = q /\ lost' = lost
Ends(s) ==
  /\ spc[s] = "connect" \/ (conn[s] = "cut" /\ spc[s] = "send")
  /\ spc'[s] = "gone" /\ hand'[s] = None /\ conn'[s] = "none"
  /\ lost \cup {hand[s]} \subseteq lost' /\ lost' \subseteq lost \cup {hand[s]} \cup q
  /\ \/ q' = {} /\ q \subseteq lost'
     \/ q' = q /\ \E t \in Senders \ {s} : spc[t] # "gone"
IsDone(s) ==
  /\ spc[s] \in {"send", "wait"} /\ conn[s] \in {"cut", "closed"}
  /\ spc'[s] = "pop" /\ hand'[s] = None /\ conn'[s] = "none" /\ q' = q /\ lost' = lost

LEMMA SendFacts ==
  ASSUME Types, NEW s \in Senders, SendStep(s)
  PROVE  /\ Takes(s) \/ Leaves(s) \/ Connects(s) \/ GoesOn(s) \/ Ends(s) \/ IsDone(s)
         /\ \A t \in Senders \ {s} : spc'[t] = spc[t] /\ hand'[t] = hand[t] /\ conn'[t] = conn[t]
<1>1. /\ spc \in [Senders -> {"pop", "connect", "send", "wait", "gone"}]
      /\ hand \in [Senders -> Chunks \cup {None}]
      /\ conn \in [Senders -> {"none", "backlog", "open", "cut", "closed", "left"}]
  BY DEF Types
<1>2. ASSUME NEW c \in Chunks, PopChunk(s, c) PROVE Takes(s)
        /\ \A t \in Senders \ {s} : spc'[t] = spc[t] /\ hand'[t] = hand[t] /\ conn'[t] = conn[t]
  BY <1>1, <1>2 DEF PopChunk, Takes, history
<1>3. ASSUME SenderLeaves(s) PROVE Leaves(s)
        /\ \A t \in Senders \ {s} : spc'[t] = spc[t] /\ hand'[t] = hand[t] /\ conn'[t] = conn[t]
  BY <1>1, <1>3 DEF SenderLeaves, Leaves, history
<1>4. ASSUME Connect(s) PROVE Connects(s)
        /\ \A t \in Senders \ {s} : spc'[t] = spc[t] /\ hand'[t] = hand[t] /\ conn'[t] = conn[t]
  BY <1>1, <1>4 DEF Connect, Connects, history
<1>5. ASSUME ConnectFails(s) \/ Send(s) PROVE GoesOn(s)
        /\ \A t \in Senders \ {s} : spc'[t] = spc[t] /\ hand'[t] = hand[t] /\ conn'[t] = conn[t]
  BY <1>1, <1>5 DEF ConnectFails, Send, GoesOn, history
<1>6. ASSUME GivesUp(s) \/ NoHeader(s) PROVE Ends(s)
        /\ \A t \in Senders \ {s} : spc'[t] = spc[t] /\ hand'[t] = hand[t] /\ conn'[t] = conn[t]
  <2>1. Dies(s) /\ (spc[s] = "connect" \/ (conn[s] = "cut" /\ spc[s] = "send"))
    BY <1>6 DEF GivesUp, NoHeader
  <2>2. /\ spc'[s] = "gone" /\ hand'[s] = None /\ conn'[s] = "none"
        /\ \A t \in Senders \ {s} : spc'[t] = spc[t] /\ hand'[t] = hand[t] /\ conn'[t] = conn[t]
    BY <1>1, <2>1 DEF Dies
  <2>3. CASE \A t \in Senders \ {s} : spc[t] = "gone"
    BY <2>1, <2>2, <2>3 DEF Dies, Ends
  <2>4. CASE ~(\A t \in Senders \ {s} : spc[t] = "gone")
    BY <2>1, <2>2, <2>4 DEF Dies, Ends
  <2>. QED  BY <2>3, <2>4, <2>2
<1>7. ASSUME Sent(s) PROVE IsDone(s)
        /\ \A t \in Senders \ {s} : spc'[t] = spc[t] /\ hand'[t] = hand[t] /\ conn'[t] = conn[t]
  BY <1>1, <1>7 DEF Sent, IsDone, history
<1>. QED  BY <1>2, <1>3, <1>4, <1>5, <1>6, <1>7 DEF SendStep, SenderStep

\* What a receiver does.
Accepts(r) ==
  \E s \in Senders : /\ rpc[r] = "accept" /\ conn[s] = "backlog"
                     /\ rpc'[r] = "accepted" /\ from'[r] = s /\ got'[r] = got[r]
                     /\ conn'[s] = "open" /\ \A t \in Senders \ {s} : conn'[t] = conn[t]
                     /\ rq' = rq /\ lost' = lost
Declines(r) ==
  /\ rpc[r] = "accept" /\ got'[r] = got[r] /\ rpc'[r] = "gone" /\ from'[r] = from[r]
  /\ conn' = conn /\ rq' = rq /\ lost' = lost
Registers(r) ==
  /\ rpc[r] = "accepted" /\ got'[r] = got[r] /\ rpc'[r] = "read" /\ from'[r] = from[r]
  /\ conn' = conn /\ rq' = rq /\ lost' = lost
Abandons(r) ==
  /\ rpc[r] = "accepted" /\ got'[r] = got[r] /\ rpc'[r] = "gone" /\ from'[r] = None
  /\ \A s \in Senders : conn'[s] = IF s = from[r] THEN "left" ELSE conn[s]
  /\ lost \subseteq lost' /\ \A s \in Senders : s = from[r] => hand[s] \in lost'
  /\ rq' = rq
Reads(r) ==
  /\ rpc[r] = "read" /\ from[r] # None /\ got'[r] = hand[from[r]]
  /\ rpc'[r] = "push" /\ from'[r] = from[r] /\ conn' = conn /\ rq' = rq /\ lost' = lost
ReadsNothing(r) ==
  /\ rpc[r] = "read" /\ from[r] = None /\ got'[r] = got[r]
  /\ rpc'[r] \in {"accept", "gone"} /\ from'[r] = None
  /\ conn' = conn /\ rq' = rq /\ lost' = lost
Pushes(r) ==
  /\ rpc[r] = "push" /\ got'[r] = None /\ rpc'[r] = "close" /\ from'[r] = from[r]
  /\ conn' = conn /\ rq' = Append(rq, got[r]) /\ lost' = lost
  /\ \E w \in Writers : wpc[w] # "gone"
IsRefused(r) ==
  /\ rpc[r] = "push" /\ got'[r] = None /\ rpc'[r] = "close" /\ from'[r] = from[r]
  /\ conn' = conn /\ rq' = rq /\ lost' = lost \cup {got[r]}
Closes(r) ==
  /\ rpc[r] = "close" /\ got'[r] = got[r] /\ rpc'[r] \in {"accept", "gone"} /\ from'[r] = None
  /\ \A s \in Senders : conn'[s] = IF s = from[r] THEN "closed" ELSE conn[s]
  /\ rq' = rq /\ lost' = lost

LEMMA ReceiveFacts ==
  ASSUME RsyncAssumption, Types, NEW r \in Receivers, TakeStep(r)
  PROVE  /\ \/ Accepts(r) \/ Declines(r) \/ Registers(r) \/ Abandons(r) \/ Reads(r)
            \/ ReadsNothing(r) \/ Pushes(r) \/ IsRefused(r) \/ Closes(r)
         /\ \A t \in Receivers \ {r} : rpc'[t] = rpc[t] /\ from'[t] = from[t] /\ got'[t] = got[t]
<1>1. /\ rpc \in [Receivers -> {"accept", "accepted", "read", "push", "close", "gone"}]
      /\ from \in [Receivers -> Senders \cup {None}]
      /\ got \in [Receivers -> Chunks \cup {None}]
      /\ conn \in [Senders -> {"none", "backlog", "open", "cut", "closed", "left"}]
  BY DEF Types
<1>. DEFINE Others == \A t \in Receivers \ {r} :
                        rpc'[t] = rpc[t] /\ from'[t] = from[t] /\ got'[t] = got[t]
<1>2. ASSUME NEW s \in Senders, Accept(r, s) PROVE Accepts(r) /\ Others
  BY <1>1, <1>2 DEF Accept, Accepts, history
<1>3. ASSUME ReadChunk(r) PROVE Reads(r) /\ Others
  BY <1>1, <1>3 DEF ReadChunk, Reads, history
<1>4. ASSUME ReadShort(r) PROVE ReadsNothing(r) /\ Others
  BY <1>1, <1>4 DEF ReadShort, Again, ReadsNothing, history
<1>5. ASSUME Push(r) PROVE Pushes(r) /\ Others
  BY <1>1, <1>5 DEF Push, Enabled, Pushes, history
<1>6. ASSUME PushRefused(r) PROVE IsRefused(r) /\ Others
  BY <1>1, <1>6 DEF PushRefused, IsRefused, history
<1>7. ASSUME Close(r) PROVE Closes(r) /\ Others
  BY <1>1, <1>7 DEF Close, Again, Closes, history
<1>8. ASSUME AcceptFails(r) PROVE Declines(r) /\ Others
  BY <1>1, <1>8 DEF AcceptFails, Declines
<1>9. ASSUME Register(r) PROVE Registers(r) /\ Others
  BY <1>1, <1>9 DEF Register, Registers, history
<1>10. ASSUME Abandon(r) PROVE Abandons(r) /\ Others
  <2>1. None \notin Senders /\ lost' = lost \cup {hand[s] : s \in {from[r]} \ {None}}
    BY <1>10 DEF Abandon, RsyncAssumption
  <2>2. \A s \in Senders : s = from[r] => hand[s] \in lost'
    BY <2>1
  <2>. QED  BY <1>1, <1>10, <2>1, <2>2 DEF Abandon, Abandons
<1>. QED  BY <1>2, <1>3, <1>4, <1>5, <1>6, <1>7, <1>8, <1>9, <1>10 DEF TakeStep, ReceiverStep

\* What a writer does.
Becomes(m, c, x) == file' = [file EXCEPT ![m][c] = x]
Pops(w) ==
  /\ wpc[w] = "pop" /\ rq # <<>> /\ item'[w] = Head(rq) /\ rq' = Tail(rq)
  /\ wpc'[w] = "mount" /\ at'[w] = at[w] /\ free' = free /\ file' = file
  /\ lost' = lost /\ faults' = faults /\ failed' = failed
Opens(w) ==
  \E m \in free : /\ wpc[w] = "mount" /\ file[m][item[w]] = "no"
                  /\ item'[w] = item[w] /\ rq' = rq /\ wpc'[w] = "write" /\ at'[w] = m
                  /\ free' = free \ {m} /\ Becomes(m, item[w], "part")
                  /\ lost' = lost /\ faults' = faults /\ failed' = failed
Strikes(w) ==
  \E m \in free : /\ wpc[w] = "mount" /\ item'[w] = item[w] /\ rq' = rq /\ wpc'[w] = wpc[w]
                  /\ at'[w] = at[w] /\ free' = free \ {m} /\ file' = file /\ lost' = lost
                  /\ \/ faults' = faults + 1 /\ failed' = failed \cup {m}
                     \/ faults' = faults /\ failed' = failed /\ file[m][item[w]] # "no"
Writes(w) ==
  /\ wpc[w] = "write" /\ item'[w] = None /\ rq' = rq /\ wpc'[w] = "pop" /\ at'[w] = None
  /\ free' = free \cup {at[w]} /\ Becomes(at[w], item[w], "whole")
  /\ lost' = lost /\ faults' = faults /\ failed' = failed
Fails(w) ==
  \E left \in {"no", "part"} :
    /\ wpc[w] = "write" /\ item'[w] = item[w] /\ rq' = rq /\ wpc'[w] = "mount" /\ at'[w] = None
    /\ free' = free /\ Becomes(at[w], item[w], left)
    /\ lost' = lost /\ faults' = faults + 1 /\ failed' = failed \cup {at[w]}
Quits(w) ==
  /\ wpc[w] = "mount" /\ item'[w] = None /\ wpc'[w] = "gone" /\ at'[w] = at[w]
  /\ free' = free /\ file' = file /\ faults' = faults /\ failed' = failed
  /\ \/ rq' = <<>> /\ lost' = lost \cup {item[w]} \cup {rq[i] : i \in DOMAIN rq}
     \/ /\ rq' = rq /\ lost' = lost \cup {item[w]}
        /\ \E v \in Writers \ {w} : wpc[v] # "gone"
Retires(w) ==
  /\ wpc[w] = "pop" /\ rq = <<>> /\ item'[w] = item[w] /\ wpc'[w] = "gone" /\ at'[w] = at[w]
  /\ free' = free /\ file' = file /\ faults' = faults /\ failed' = failed
  /\ rq' = rq /\ lost' = lost

LEMMA DiskFacts ==
  ASSUME Types, NEW w \in Writers, DiskStep(w)
  PROVE  /\ Pops(w) \/ Opens(w) \/ Strikes(w) \/ Writes(w) \/ Fails(w) \/ Quits(w) \/ Retires(w)
         /\ \A v \in Writers \ {w} : wpc'[v] = wpc[v] /\ item'[v] = item[v] /\ at'[v] = at[v]
<1>1. /\ wpc \in [Writers -> {"pop", "mount", "write", "gone"}]
      /\ item \in [Writers -> Chunks \cup {None}]
      /\ at \in [Writers -> Mountpoints \cup {None}]
  BY DEF Types
<1>. DEFINE Others == \A v \in Writers \ {w} :
                        wpc'[v] = wpc[v] /\ item'[v] = item[v] /\ at'[v] = at[v]
<1>2. ASSUME PopItem(w) PROVE Pops(w) /\ Others
  BY <1>1, <1>2 DEF PopItem, Pops, history
<1>3. ASSUME NEW m \in Mountpoints, Open(w, m) PROVE Opens(w) /\ Others
  BY <1>1, <1>3 DEF Open, Opens, Becomes, history, receiver
<1>4. ASSUME NEW m \in Mountpoints, Exists(w, m) \/ OpenFails(w, m) PROVE Strikes(w) /\ Others
  <2>1. CASE Exists(w, m)
    BY <1>1, <2>1 DEF Exists, Struck, Strikes, receiver
  <2>2. CASE OpenFails(w, m)
    BY <1>1, <2>2 DEF OpenFails, Struck, Fault, Strikes, receiver
  <2>. QED  BY <1>4, <2>1, <2>2
<1>5. ASSUME Written(w) PROVE Writes(w) /\ Others
  BY <1>1, <1>5 DEF Written, PutBack, Writes, Becomes, history, receiver
<1>6. ASSUME WriteFails(w) PROVE Fails(w) /\ Others
  <2>1. PICK left \in {"no", "part"} : Becomes(at[w], item[w], left)
    BY <1>6 DEF WriteFails, Becomes
  <2>2. /\ wpc[w] = "write" /\ item' = item /\ rq' = rq /\ free' = free /\ lost' = lost
        /\ at' = [at EXCEPT ![w] = None] /\ wpc' = [wpc EXCEPT ![w] = "mount"]
        /\ faults' = faults + 1 /\ failed' = failed \cup {at[w]}
    BY <1>6 DEF WriteFails, Fault, receiver
  <2>3. Others /\ wpc'[w] = "mount" /\ at'[w] = None
    BY <1>1, <2>2
  <2>4. Fails(w)
    BY <2>1, <2>2, <2>3 DEF Fails
  <2>. QED  BY <2>3, <2>4
<1>7. ASSUME NoMountpoint(w) PROVE Quits(w) /\ Others
  <2>1. CASE \A v \in Writers \ {w} : wpc[v] = "gone"
    BY <1>1, <1>7, <2>1 DEF NoMountpoint, Quits
  <2>2. CASE ~(\A v \in Writers \ {w} : wpc[v] = "gone")
    BY <1>1, <1>7, <2>2 DEF NoMountpoint, Quits
  <2>. QED  BY <2>1, <2>2
<1>8. ASSUME WriterLeaves(w) PROVE Retires(w) /\ Others
  BY <1>1, <1>8 DEF WriterLeaves, Retires, history, receiver
<1>. QED  BY <1>2, <1>3, <1>4, <1>5, <1>6, <1>7, <1>8 DEF DiskStep, WriterStep

-----------------------------------------------------------------------------
(* Types.                                                                  *)

LEMMA MainTypes ==
  ASSUME RsyncAssumption, Types, MainStep
  PROVE  Types'
<1>1. UNCHANGED <<hand, conn, net2vbs, rpc, from, got, rq, wpc, item, at, free, file, failed>>
  BY MainFrame
<1>. DEFINE Good ==
       /\ asked' \in {"ask", "push", "done"} /\ todo' \subseteq Chunks /\ q' \subseteq Chunks
       /\ lost' \subseteq Chunks /\ readers' \in 0..NReaders
       /\ spc' \in [Senders -> {"pop", "connect", "send", "wait", "gone"}]
       /\ round' \in Nat /\ faults' \in Nat /\ twice' \in BOOLEAN
<1>2. Good
  <2>0. NReaders \in Nat \ {0}
    BY DEF RsyncAssumption
  <2>1. CASE Begin
    BY <2>0, <2>1 DEF Begin, Types
  <2>2. CASE Handed \/ Dropped
    BY <2>2 DEF Handed, Dropped, Types, history
  <2>3. CASE RequestFails
    BY <2>3 DEF RequestFails, FaultUnlessRefused, Fault, Types
  <2>4. CASE Disconnect
    <3>1. asked' = "done" /\ todo' = {} /\ q' = {} /\ readers' = 0 /\ spc' = spc
          /\ round' = round /\ twice' = twice /\ faults' = faults + 1
          /\ (lost' = Chunks \/ lost' = lost \cup todo \cup q)
      BY <2>4 DEF Disconnect, Fault
    <3>. QED  BY <2>0, <3>1 DEF Types
  <2>5. ASSUME NEW r \in Receivers, Request(r) PROVE Good
    <3>1. todo' = Needed(Reply) /\ asked' = "push"
          /\ twice' = (twice \/ \E c \in todo' : OnItsWay(c))
          /\ UNCHANGED <<readers, q, spc, round, faults, lost>>
      BY <2>5 DEF Request
    <3>2. Needed(Reply) \subseteq Chunks
      BY DEF Needed
    <3>3. twice' \in BOOLEAN
      BY <3>1 DEF Types
    <3>. QED  BY <3>1, <3>2, <3>3 DEF Types
  <2>6. ASSUME NEW c \in Chunks, ReadFile(c) PROVE Good
    BY <2>6 DEF ReadFile, Types, history
  <2>7. ASSUME NEW c \in Chunks, ReadFails(c) PROVE Good
    <3>1. readers' \in 0..NReaders
      BY <2>0, <2>7 DEF ReadFails, Types
    <3>. QED  BY <2>7, <3>1 DEF ReadFails, Fault, Types
  <2>. HIDE DEF Good
  <2>. QED  BY <2>1, <2>2, <2>3, <2>4, <2>5, <2>6, <2>7 DEF MainStep
<1>. QED  BY <1>1, <1>2 DEF Types

LEMMA SendTypes ==
  ASSUME Types, SenderHands, NEW s \in Senders, SendStep(s)
  PROVE  Types'
<1>1. UNCHANGED <<asked, todo, readers, net2vbs, rpc, from, got, rq, wpc, item, at, free,
                   file, failed, round, twice>>
  BY SendFrame
<1>0. /\ spc \in [Senders -> {"pop", "connect", "send", "wait", "gone"}]
      /\ hand \in [Senders -> Chunks \cup {None}]
      /\ conn \in [Senders -> {"none", "backlog", "open", "cut", "closed", "left"}]
      /\ q \subseteq Chunks /\ lost \subseteq Chunks /\ faults \in Nat
  BY DEF Types
<1>2. ASSUME Dies(s), hand[s] # None
      PROVE  /\ spc' \in [Senders -> {"pop", "connect", "send", "wait", "gone"}]
             /\ hand' \in [Senders -> Chunks \cup {None}]
             /\ conn' \in [Senders -> {"none", "backlog", "open", "cut", "closed", "left"}]
             /\ q' \subseteq Chunks /\ lost' \subseteq Chunks
  <2>1. hand[s] \in Chunks
    BY <1>0, <1>2
  <2>. QED  BY <1>0, <1>2, <2>1 DEF Dies
<1>. DEFINE Good ==
       /\ spc' \in [Senders -> {"pop", "connect", "send", "wait", "gone"}]
       /\ hand' \in [Senders -> Chunks \cup {None}]
       /\ conn' \in [Senders -> {"none", "backlog", "open", "cut", "closed", "left"}]
       /\ q' \subseteq Chunks /\ lost' \subseteq Chunks /\ faults' \in Nat
<1>3. Good
  <2>1. ASSUME NEW c \in Chunks, PopChunk(s, c) PROVE Good
    BY <1>0, <2>1 DEF PopChunk, history
  <2>2. CASE SenderLeaves(s)
    BY <1>0, <2>2 DEF SenderLeaves, history
  <2>3. CASE Connect(s)
    BY <1>0, <2>3 DEF Connect, history
  <2>4. CASE ConnectFails(s)
    BY <1>0, <2>4 DEF ConnectFails, history
  <2>5. CASE GivesUp(s)
    <3>1. Dies(s) /\ hand[s] # None /\ faults' \in Nat
      BY <1>0, <2>5 DEF GivesUp, SenderHands, FaultUnlessRefused, Fault
    <3>. QED  BY <3>1, <1>2
  <2>6. CASE Send(s)
    BY <1>0, <2>6 DEF Send, history
  <2>7. CASE NoHeader(s)
    <3>1. Dies(s) /\ hand[s] # None /\ faults' \in Nat
      BY <1>0, <2>7 DEF NoHeader, SenderHands
    <3>. QED  BY <3>1, <1>2
  <2>8. CASE Sent(s)
    BY <1>0, <2>8 DEF Sent, history
  <2>. HIDE DEF Good
  <2>. QED  BY <2>1, <2>2, <2>3, <2>4, <2>5, <2>6, <2>7, <2>8 DEF SendStep, SenderStep
<1>. QED  BY <1>1, <1>3 DEF Types

LEMMA ReceiveTypes ==
  ASSUME RsyncAssumption, Types, SenderHands, ReceiverHands, NEW r \in Receivers, TakeStep(r)
  PROVE  Types'
<1>1. UNCHANGED <<asked, todo, readers, q, spc, hand, net2vbs, wpc, item, at, free, file,
                   failed, round, twice>>
  BY ReceiveFrame
<1>0. /\ rpc \in [Receivers -> {"accept", "accepted", "read", "push", "close", "gone"}]
      /\ from \in [Receivers -> Senders \cup {None}]
      /\ got \in [Receivers -> Chunks \cup {None}]
      /\ hand \in [Senders -> Chunks \cup {None}]
      /\ conn \in [Senders -> {"none", "backlog", "open", "cut", "closed", "left"}]
      /\ rq \in Seq(Chunks) /\ lost \subseteq Chunks /\ faults \in Nat
  BY DEF Types
<1>. DEFINE Good ==
       /\ rpc' \in [Receivers -> {"accept", "accepted", "read", "push", "close", "gone"}]
       /\ from' \in [Receivers -> Senders \cup {None}]
       /\ got' \in [Receivers -> Chunks \cup {None}]
       /\ conn' \in [Senders -> {"none", "backlog", "open", "cut", "closed", "left"}]
       /\ rq' \in Seq(Chunks) /\ lost' \subseteq Chunks /\ faults' \in Nat
<1>2. Good
  <2>0. ASSUME rpc[r] = "push" PROVE got[r] \in Chunks
    BY <1>0, <2>0 DEF ReceiverHands
  <2>1. ASSUME NEW s \in Senders, Accept(r, s) PROVE Good
    BY <1>0, <2>1 DEF Accept, history
  <2>2. CASE ReadChunk(r)
    BY <1>0, <2>2 DEF ReadChunk, history
  <2>3. CASE ReadShort(r)
    BY <1>0, <2>3 DEF ReadShort, Again, history
  <2>4. CASE Push(r)
    <3>1. got[r] \in Chunks
      BY <2>0, <2>4 DEF Push
    <3>2. rq' \in Seq(Chunks)
      BY <1>0, <2>4, <3>1 DEF Push
    <3>. QED  BY <1>0, <2>4, <3>2 DEF Push, history
  <2>5. CASE PushRefused(r)
    <3>1. got[r] \in Chunks
      BY <2>0, <2>5 DEF PushRefused
    <3>. QED  BY <1>0, <2>5, <3>1 DEF PushRefused
  <2>6. CASE Close(r)
    BY <1>0, <2>6 DEF Close, Again, history
  <2>7. CASE AcceptFails(r)
    BY <1>0, <2>7 DEF AcceptFails, FaultUnlessRefused, Fault
  <2>8. CASE Register(r)
    BY <1>0, <2>8 DEF Register, history
  <2>9. CASE Abandon(r)
    <3>1. \A s \in {from[r]} \ {None} : hand[s] \in Chunks
      <4>. SUFFICES ASSUME NEW s \in {from[r]} \ {None} PROVE hand[s] \in Chunks
        OBVIOUS
      <4>1. s \in Senders /\ conn[s] = "open"
        BY <1>0 DEF ReceiverHands
      <4>. QED  BY <1>0, <4>1 DEF SenderHands
    <3>2. lost' \subseteq Chunks
      BY <1>0, <2>9, <3>1 DEF Abandon
    <3>3. conn' \in [Senders -> {"none", "backlog", "open", "cut", "closed", "left"}]
      BY <1>0, <2>9 DEF Abandon
    <3>. QED  BY <1>0, <2>9, <3>2, <3>3 DEF Abandon
  <2>. HIDE DEF Good
  <2>. QED  BY <2>1, <2>2, <2>3, <2>4, <2>5, <2>6, <2>7, <2>8, <2>9 DEF TakeStep, ReceiverStep
<1>. QED  BY <1>1, <1>2 DEF Types

\* A file of one chunk on one mountpoint is changed.
LEMMA FileTypes ==
  ASSUME Types, NEW m \in Mountpoints, NEW c \in Chunks, NEW x \in {"no", "part", "whole"},
         Becomes(m, c, x)
  PROVE  file' \in [Mountpoints -> [Chunks -> {"no", "part", "whole"}]]
<1>1. file' = [file EXCEPT ![m] = [file[m] EXCEPT ![c] = x]]
  BY DEF Becomes
<1>2. file \in [Mountpoints -> [Chunks -> {"no", "part", "whole"}]]
  BY DEF Types
<1>3. [file[m] EXCEPT ![c] = x] \in [Chunks -> {"no", "part", "whole"}]
  BY <1>2
<1>. QED  BY <1>1, <1>2, <1>3

LEMMA FileChanges ==
  ASSUME Types, NEW m \in Mountpoints, NEW c \in Chunks, NEW x,
         Becomes(m, c, x)
  PROVE  /\ file'[m][c] = x
         /\ \A n \in Mountpoints, d \in Chunks : n # m \/ d # c => file'[n][d] = file[n][d]
<1>1. file' = [file EXCEPT ![m] = [file[m] EXCEPT ![c] = x]]
  BY DEF Becomes
<1>2. file \in [Mountpoints -> [Chunks -> {"no", "part", "whole"}]]
  BY DEF Types
<1>3. file[m] \in [Chunks -> {"no", "part", "whole"}]
  BY <1>2
<1>4. \A n \in Mountpoints, d \in Chunks : n # m => file'[n][d] = file[n][d]
  BY <1>1, <1>2
<1>5. file'[m] = [file[m] EXCEPT ![c] = x]
  BY <1>1, <1>2
<1>6. file'[m][c] = x
  BY <1>3, <1>5
<1>7. \A d \in Chunks : d # c => file'[m][d] = file[m][d]
  BY <1>3, <1>5
<1>. QED  BY <1>4, <1>6, <1>7

LEMMA DiskTypes ==
  ASSUME Types, WriterHands, NEW w \in Writers, DiskStep(w)
  PROVE  Types'
<1>1. UNCHANGED <<asked, todo, readers, q, spc, hand, conn, net2vbs, rpc, from, got, round,
                   twice>>
  BY DiskFrame
<1>2. /\ wpc \in [Writers -> {"pop", "mount", "write", "gone"}]
      /\ item \in [Writers -> Chunks \cup {None}]
      /\ at \in [Writers -> Mountpoints \cup {None}]
      /\ rq \in Seq(Chunks) /\ lost \subseteq Chunks /\ faults \in Nat
      /\ free \subseteq Mountpoints /\ failed \subseteq Mountpoints
      /\ file \in [Mountpoints -> [Chunks -> {"no", "part", "whole"}]]
  BY DEF Types
<1>3. /\ wpc[w] \in {"mount", "write"} => item[w] \in Chunks
      /\ wpc[w] = "write" => at[w] \in Mountpoints
  BY <1>2 DEF WriterHands
<1>. DEFINE Good ==
       /\ wpc' \in [Writers -> {"pop", "mount", "write", "gone"}]
       /\ item' \in [Writers -> Chunks \cup {None}]
       /\ at' \in [Writers -> Mountpoints \cup {None}]
       /\ rq' \in Seq(Chunks) /\ lost' \subseteq Chunks /\ faults' \in Nat
       /\ free' \subseteq Mountpoints /\ failed' \subseteq Mountpoints
       /\ file' \in [Mountpoints -> [Chunks -> {"no", "part", "whole"}]]
<1>4. Good
  <2>1. CASE PopItem(w)
    <3>1. Head(rq) \in Chunks /\ Tail(rq) \in Seq(Chunks)
      BY <1>2, <2>1 DEF PopItem
    <3>. QED  BY <1>2, <2>1, <3>1 DEF PopItem, history
  <2>2. ASSUME NEW m \in Mountpoints, Open(w, m) PROVE Good
    <3>1. Becomes(m, item[w], "part") /\ item[w] \in Chunks
      BY <1>3, <2>2 DEF Open, Becomes
    <3>2. file' \in [Mountpoints -> [Chunks -> {"no", "part", "whole"}]]
      BY <3>1, FileTypes
    <3>. QED  BY <1>2, <2>2, <3>2 DEF Open, history, receiver
  <2>3. ASSUME NEW m \in Mountpoints, Exists(w, m) \/ OpenFails(w, m) PROVE Good
    <3>1. Struck(m) /\ faults' \in Nat /\ failed' \subseteq Mountpoints
      BY <1>2, <2>3 DEF Exists, OpenFails, Fault
    <3>. QED  BY <1>2, <3>1 DEF Struck, receiver
  <2>4. CASE Written(w)
    <3>1. Becomes(at[w], item[w], "whole") /\ item[w] \in Chunks
          /\ at[w] \in Mountpoints
      BY <1>3, <2>4 DEF Written, Becomes
    <3>2. file' \in [Mountpoints -> [Chunks -> {"no", "part", "whole"}]]
      BY <3>1, FileTypes
    <3>. QED  BY <1>2, <2>4, <3>1, <3>2 DEF Written, PutBack, history, receiver
  <2>5. CASE WriteFails(w)
    <3>1. PICK left \in {"no", "part"} : Becomes(at[w], item[w], left)
      BY <2>5 DEF WriteFails, Becomes
    <3>2. item[w] \in Chunks /\ at[w] \in Mountpoints
      BY <1>3, <2>5 DEF WriteFails
    <3>3. file' \in [Mountpoints -> [Chunks -> {"no", "part", "whole"}]]
      BY <3>1, <3>2, FileTypes
    <3>. QED  BY <1>2, <2>5, <3>2, <3>3 DEF WriteFails, Fault, receiver
  <2>6. CASE NoMountpoint(w)
    <3>1. item[w] \in Chunks
      BY <1>3, <2>6 DEF NoMountpoint
    <3>2. {rq[i] : i \in DOMAIN rq} \subseteq Chunks
      BY <1>2
    <3>3. rq' \in Seq(Chunks) /\ lost' \subseteq Chunks
      <4>1. CASE \A v \in Writers \ {w} : wpc[v] = "gone"
        <5>1. rq' = <<>> /\ lost' = lost \cup {item[w]} \cup {rq[i] : i \in DOMAIN rq}
          BY <2>6, <4>1 DEF NoMountpoint
        <5>. QED  BY <1>2, <3>1, <3>2, <5>1
      <4>2. CASE ~(\A v \in Writers \ {w} : wpc[v] = "gone")
        <5>1. rq' = rq /\ lost' = lost \cup {item[w]}
          BY <2>6, <4>2 DEF NoMountpoint
        <5>. QED  BY <1>2, <3>1, <5>1
      <4>. QED  BY <4>1, <4>2
    <3>. QED  BY <1>2, <2>6, <3>3 DEF NoMountpoint
  <2>7. CASE WriterLeaves(w)
    BY <1>2, <2>7 DEF WriterLeaves, history, receiver
  <2>. HIDE DEF Good
  <2>. QED  BY <2>1, <2>2, <2>3, <2>4, <2>5, <2>6, <2>7 DEF DiskStep, WriterStep
<1>. QED  BY <1>1, <1>4 DEF Types

\* Connections that break: S, of which each was made.
Breaks(S) ==
  /\ \A s \in S : conn[s] \in {"backlog", "open", "left"} /\ hand[s] \in lost'
  /\ \A s \in Senders : conn'[s] = IF s \in S THEN "cut" ELSE conn[s]
  /\ lost \subseteq lost'
  /\ \A r \in Receivers : from'[r] = IF from[r] \in S THEN None ELSE from[r]

LEMMA BrokenTypes ==
  ASSUME Types, SenderHands, NEW S \in SUBSET Senders, Broken(S),
         \A s \in S : conn[s] \in {"backlog", "open", "left"}
  PROVE  /\ Breaks(S)
         /\ conn' \in [Senders -> {"none", "backlog", "open", "cut", "closed", "left"}]
         /\ from' \in [Receivers -> Senders \cup {None}]
         /\ lost' \subseteq Chunks
<1>1. /\ conn' = [s \in Senders |-> IF s \in S THEN "cut" ELSE conn[s]]
      /\ lost' = lost \cup {hand[s] : s \in S}
      /\ from' = [r \in Receivers |-> IF from[r] \in S THEN None ELSE from[r]]
  BY DEF Broken
<1>2. /\ conn \in [Senders -> {"none", "backlog", "open", "cut", "closed", "left"}]
      /\ from \in [Receivers -> Senders \cup {None}]
      /\ hand \in [Senders -> Chunks \cup {None}] /\ lost \subseteq Chunks
  BY DEF Types
<1>3. \A s \in S : hand[s] \in Chunks
  BY <1>2 DEF SenderHands
<1>4. lost' \subseteq Chunks
  BY <1>1, <1>2, <1>3
<1>5. conn' \in [Senders -> {"none", "backlog", "open", "cut", "closed", "left"}]
  BY <1>1, <1>2
<1>6. from' \in [Receivers -> Senders \cup {None}]
  BY <1>1, <1>2
<1>7. Breaks(S)
  BY <1>1 DEF Breaks
<1>. QED  BY <1>4, <1>5, <1>6, <1>7

LEMMA BreakFacts ==
  ASSUME RsyncAssumption, Types, SenderHands, ReceiverHands, BreakStep
  PROVE  /\ Types'
         /\ \E S \in SUBSET Senders : Breaks(S)
         /\ UNCHANGED <<asked, todo, q, spc, hand, rpc, got, rq, wpc, item, at, free, file,
                        failed, round, twice>>
<1>1. /\ UNCHANGED <<asked, todo, readers, q, spc, hand, rpc, got, rq, wpc, item, at, free,
                     file, failed, round, twice>>
      /\ faults' = faults + 1 /\ (net2vbs' = net2vbs \/ net2vbs' = "closed")
  BY DEF BreakStep, Cut, StopReceiving, Fault, sender, disks
<1>2. PICK S \in SUBSET Senders :
        Broken(S) /\ \A s \in S : conn[s] \in {"backlog", "open", "left"}
  <2>1. ASSUME NEW s \in Senders, Cut(s)
        PROVE  Broken({s}) /\ conn[s] \in {"backlog", "open", "left"}
    BY <2>1 DEF Cut
  <2>3. ASSUME NEW s \in Senders, Cut(s)
        PROVE  \E S \in SUBSET Senders :
                 Broken(S) /\ \A t \in S : conn[t] \in {"backlog", "open", "left"}
    <3>1. {s} \in SUBSET Senders /\ \A t \in {s} : conn[t] \in {"backlog", "open", "left"}
      BY <2>1, <2>3
    <3>. QED  BY <2>1, <2>3, <3>1
  <2>2. CASE StopReceiving
    <3>. DEFINE T == {s \in Senders : \/ conn[s] = "backlog"
                                      \/ \E r \in Receivers : from[r] = s /\ rpc[r] # "accepted"}
    <3>1. Broken(T)
      BY <2>2 DEF StopReceiving
    <3>2. \A s \in T : conn[s] \in {"backlog", "open"}
      BY DEF ReceiverHands, RsyncAssumption
    <3>3. T \in SUBSET Senders
      OBVIOUS
    <3>4. \A s \in T : conn[s] \in {"backlog", "open", "left"}
      BY <3>2
    <3>. HIDE DEF T
    <3>. QED  BY <3>1, <3>3, <3>4
  <2>. QED  BY <2>2, <2>3 DEF BreakStep
<1>3. /\ Breaks(S)
      /\ conn' \in [Senders -> {"none", "backlog", "open", "cut", "closed", "left"}]
      /\ from' \in [Receivers -> Senders \cup {None}] /\ lost' \subseteq Chunks
  BY <1>2, BrokenTypes
<1>4. Types'
  BY <1>1, <1>3 DEF Types
<1>. QED  BY <1>1, <1>3, <1>4

\* A new chain: the program was killed, or the last chain has nothing left.
LEMMA NewFacts ==
  ASSUME RsyncAssumption, Types, SenderHands, ReceiverHands, WriterHands, NewStep
  PROVE  /\ Types'
         /\ \A s \in Senders :
              \/ conn[s] \notin {"backlog", "open"} /\ conn'[s] = conn[s]
              \/ conn[s] # "none" /\ conn'[s] = "cut" /\ hand[s] \in lost'
         /\ lost \subseteq lost' /\ \A c \in Chunks : OnItsWay(c) => c \in lost'
         /\ \A r \in Receivers : rpc'[r] = "accept" /\ from'[r] = None /\ got'[r] = None
         /\ \A w \in Writers : wpc'[w] = "pop" /\ item'[w] = None /\ at'[w] = None
         /\ rq' = <<>> /\ free' = Mountpoints /\ failed' = {}
         /\ UNCHANGED <<asked, todo, q, spc, hand, file, round, twice>>
<1>0. /\ conn \in [Senders -> {"none", "backlog", "open", "cut", "closed", "left"}]
      /\ from \in [Receivers -> Senders \cup {None}]
      /\ faults \in Nat /\ None \notin Senders /\ None \notin Chunks
      /\ hand \in [Senders -> Chunks \cup {None}] /\ lost \subseteq Chunks
  BY DEF Types, RsyncAssumption
<1>1. /\ UNCHANGED <<asked, todo, readers, q, spc, hand, file, round, twice>>
      /\ faults' \in Nat /\ NewChain
  BY <1>0 DEF NewStep, StartReceiving, Crash, Fault, sender
<1>2. /\ net2vbs' = "open"
      /\ rpc' = [r \in Receivers |-> "accept"] /\ got' = [r \in Receivers |-> None]
      /\ rq' = <<>> /\ wpc' = [w \in Writers |-> "pop"]
      /\ item' = [w \in Writers |-> None] /\ at' = [w \in Writers |-> None]
      /\ free' = Mountpoints /\ failed' = {}
  BY <1>1 DEF NewChain
<1>. DEFINE Rest ==
       /\ conn' \in [Senders -> {"none", "backlog", "open", "cut", "closed", "left"}]
       /\ from' = [r \in Receivers |-> None] /\ lost' \subseteq Chunks
       /\ \A s \in Senders :
            \/ conn[s] \notin {"backlog", "open"} /\ conn'[s] = conn[s]
            \/ conn[s] # "none" /\ conn'[s] = "cut" /\ hand[s] \in lost'
       /\ lost \subseteq lost' /\ \A c \in Chunks : OnItsWay(c) => c \in lost'
<1>3. ASSUME Crash PROVE Rest
  <2>. DEFINE S == {s \in Senders : conn[s] \in {"backlog", "open", "left"}}
  <2>1. /\ conn' = [s \in Senders |-> IF s \in S THEN "cut" ELSE conn[s]]
        /\ lost' = lost \cup {hand[s] : s \in S} \cup {c \in Chunks : OnItsWay(c)}
        /\ from' = [r \in Receivers |-> None]
    BY <1>3 DEF Crash
  <2>2. \A s \in S : hand[s] \in Chunks
    BY <1>0 DEF SenderHands
  <2>3. lost' \subseteq Chunks
    BY <1>0, <2>1, <2>2
  <2>4. conn' \in [Senders -> {"none", "backlog", "open", "cut", "closed", "left"}]
    BY <1>0, <2>1
  <2>5. \A s \in Senders :
          \/ conn[s] \notin {"backlog", "open"} /\ conn'[s] = conn[s]
          \/ conn[s] # "none" /\ conn'[s] = "cut" /\ hand[s] \in lost'
    BY <2>1
  <2>6. lost \subseteq lost' /\ \A c \in Chunks : OnItsWay(c) => c \in lost'
    BY <2>1
  <2>. QED  BY <2>1, <2>3, <2>4, <2>5, <2>6
<1>4. ASSUME StartReceiving PROVE Rest
  <2>. DEFINE S == {s \in Senders : conn[s] = "backlog"}
  <2>1. Broken(S) /\ Ended
    BY <1>4 DEF StartReceiving
  <2>2. S \in SUBSET Senders /\ \A s \in S : conn[s] \in {"backlog", "open", "left"}
    OBVIOUS
  <2>3. /\ Breaks(S) /\ lost' \subseteq Chunks
        /\ conn' \in [Senders -> {"none", "backlog", "open", "cut", "closed", "left"}]
    BY <2>1, <2>2, BrokenTypes
  <2>4. \A r \in Receivers : from[r] = None /\ got[r] = None
    BY <2>1 DEF Ended, ReceiverHands
  <2>5. rq = <<>> /\ \A w \in Writers : item[w] = None
    BY <2>1 DEF Ended, WriterHands
  <2>6. \A c \in Chunks : ~OnItsWay(c)
    BY <1>0, <2>4, <2>5 DEF OnItsWay
  <2>7. \A s \in Senders : conn[s] # "open"
    BY <1>0, <2>4 DEF ReceiverHands
  <2>8. from' = [r \in Receivers |-> None]
    BY <2>1, <2>4 DEF Broken
  <2>9. \A s \in Senders :
          \/ conn[s] \notin {"backlog", "open"} /\ conn'[s] = conn[s]
          \/ conn[s] # "none" /\ conn'[s] = "cut" /\ hand[s] \in lost'
    BY <2>3, <2>7 DEF Breaks
  <2>10. lost \subseteq lost'
    BY <2>3 DEF Breaks
  <2>. QED  BY <2>3, <2>6, <2>8, <2>9, <2>10
<1>5. Rest
  BY <1>3, <1>4 DEF NewStep
<1>6. /\ rpc' \in [Receivers -> {"accept", "accepted", "read", "push", "close", "gone"}]
      /\ from' \in [Receivers -> Senders \cup {None}]
      /\ got' \in [Receivers -> Chunks \cup {None}] /\ rq' \in Seq(Chunks)
  BY <1>2, <1>5
<1>7. /\ wpc' \in [Writers -> {"pop", "mount", "write", "gone"}]
      /\ item' \in [Writers -> Chunks \cup {None}]
      /\ at' \in [Writers -> Mountpoints \cup {None}]
      /\ free' \subseteq Mountpoints /\ failed' \subseteq Mountpoints
  BY <1>2
<1>8. Types'
  BY <1>1, <1>2, <1>5, <1>6, <1>7 DEF Types
<1>9. /\ \A r \in Receivers : rpc'[r] = "accept" /\ from'[r] = None /\ got'[r] = None
      /\ \A w \in Writers : wpc'[w] = "pop" /\ item'[w] = None /\ at'[w] = None
  BY <1>2, <1>5
<1>. QED  BY <1>1, <1>2, <1>5, <1>8, <1>9

LEMMA GoesOnTypes == ASSUME Types, StopGoesOn PROVE Types'
BY GoesOnFrame DEF Types

LEMMA TypesNext ==
  ASSUME RsyncAssumption, Types, SenderHands, ReceiverHands, WriterHands, Next
  PROVE  Types'
BY Steps, MainTypes, SendTypes, BreakFacts, ReceiveTypes, DiskTypes, NewFacts, GoesOnTypes

-----------------------------------------------------------------------------
(* Who has what in hand.                                                   *)

LEMMA SenderHandsNext ==
  ASSUME RsyncAssumption, Types, SenderHands, ReceiverHands, WriterHands, Round, Next
  PROVE  SenderHands'
<1>0. None \notin Chunks /\ q \subseteq Chunks
  BY DEF RsyncAssumption, Types
<1>1. CASE MainStep
  <2>1. UNCHANGED <<hand, conn>>
    BY <1>1, MainFrame
  <2>2. CASE spc' = spc
    BY <2>1, <2>2 DEF SenderHands
  <2>3. CASE Begin
    BY <2>1, <2>3 DEF Begin, Over, SenderHands
  <2>4. spc' = spc \/ Begin
    BY <1>1 DEF MainStep, Handed, Dropped, RequestFails, Disconnect, Request, ReadFile,
                ReadFails
  <2>. QED  BY <2>2, <2>3, <2>4
<1>2. ASSUME NEW s \in Senders, SendStep(s) PROVE SenderHands'
  <2>1. /\ Takes(s) \/ Leaves(s) \/ Connects(s) \/ GoesOn(s) \/ Ends(s) \/ IsDone(s)
        /\ \A t \in Senders \ {s} : spc'[t] = spc[t] /\ hand'[t] = hand[t] /\ conn'[t] = conn[t]
    BY <1>2, SendFacts
  <2>2. spc[s] \in {"pop", "gone"} <=> hand[s] = None
    BY DEF SenderHands
  <2>3. spc[s] \in {"pop", "connect", "gone"} <=> conn[s] = "none"
    BY DEF SenderHands
  <2>4. /\ spc'[s] \in {"pop", "gone"} <=> hand'[s] = None
        /\ spc'[s] \in {"pop", "connect", "gone"} <=> conn'[s] = "none"
    <3>1. CASE Takes(s)
      BY <1>0, <2>2, <2>3, <3>1 DEF Takes
    <3>2. CASE Leaves(s) \/ Connects(s) \/ GoesOn(s)
      BY <2>2, <2>3, <3>2 DEF Leaves, Connects, GoesOn
    <3>3. CASE Ends(s) \/ IsDone(s)
      BY <3>3 DEF Ends, IsDone
    <3>. QED  BY <2>1, <3>1, <3>2, <3>3
  <2>. QED  BY <2>1, <2>4 DEF SenderHands
<1>3. CASE BreakStep
  <2>1. PICK S \in SUBSET Senders : Breaks(S) /\ UNCHANGED <<spc, hand>>
    BY <1>3, BreakFacts
  <2>. QED  BY <2>1 DEF Breaks, SenderHands
<1>4. ASSUME NEW r \in Receivers, TakeStep(r) PROVE SenderHands'
  <2>1. UNCHANGED <<spc, hand>>
    BY <1>4, ReceiveFrame
  <2>2. \A s \in Senders : conn'[s] = "none" <=> conn[s] = "none"
    <3>1. \/ Accepts(r) \/ Declines(r) \/ Registers(r) \/ Abandons(r) \/ Reads(r)
          \/ ReadsNothing(r) \/ Pushes(r) \/ IsRefused(r) \/ Closes(r)
      BY <1>4, ReceiveFacts
    <3>2. CASE Accepts(r)
      BY <3>2 DEF Accepts
    <3>3. CASE Closes(r) \/ Abandons(r)
      BY <3>3 DEF Closes, Abandons, ReceiverHands
    <3>4. CASE conn' = conn
      BY <3>4
    <3>. QED  BY <3>1, <3>2, <3>3, <3>4 DEF Declines, Registers, Reads, ReadsNothing, Pushes,
                                            IsRefused
  <2>. QED  BY <2>1, <2>2 DEF SenderHands
<1>5. ASSUME NEW w \in Writers, DiskStep(w) PROVE SenderHands'
  BY <1>5, DiskFrame DEF SenderHands
<1>6. CASE NewStep
  <2>1. /\ UNCHANGED <<spc, hand>>
        /\ \A s \in Senders : conn'[s] = "none" <=> conn[s] = "none"
    BY <1>6, NewFacts
  <2>. QED  BY <2>1 DEF SenderHands
<1>7. CASE StopGoesOn
  BY <1>7, GoesOnFrame DEF SenderHands
<1>. QED  BY <1>1, <1>2, <1>3, <1>4, <1>5, <1>6, <1>7, Steps

\* A sender that acts is not connected to a receiver that waits for it, but it is for
\* what it sends.
LEMMA ReceiverHandsNext ==
  ASSUME RsyncAssumption, Types, SenderHands, ReceiverHands, WriterHands, Next
  PROVE  ReceiverHands'
<1>0. /\ None \notin Chunks /\ None \notin Senders
      /\ from \in [Receivers -> Senders \cup {None}]
      /\ got \in [Receivers -> Chunks \cup {None}]
  BY DEF RsyncAssumption, Types
<1>1. ASSUME UNCHANGED <<rpc, from, got>>,
             \A s \in Senders : conn'[s] = "open" <=> conn[s] = "open",
             \A s \in Senders : conn[s] = "open" => hand'[s] = hand[s]
      PROVE  ReceiverHands'
  BY <1>0, <1>1 DEF ReceiverHands
<1>2. CASE MainStep
  BY <1>1, <1>2, MainFrame
<1>3. ASSUME NEW s \in Senders, SendStep(s) PROVE ReceiverHands'
  <2>1. UNCHANGED <<rpc, from, got>>
    BY <1>3, SendFrame
  <2>2. /\ Takes(s) \/ Leaves(s) \/ Connects(s) \/ GoesOn(s) \/ Ends(s) \/ IsDone(s)
        /\ \A t \in Senders \ {s} : spc'[t] = spc[t] /\ hand'[t] = hand[t] /\ conn'[t] = conn[t]
    BY <1>3, SendFacts
  <2>3. conn'[s] = "open" <=> conn[s] = "open"
    BY <2>2 DEF Takes, Leaves, Connects, GoesOn, Ends, IsDone, SenderHands
  <2>4. conn[s] = "open" => hand'[s] = hand[s]
    BY <2>2 DEF Takes, Leaves, Connects, GoesOn, Ends, IsDone, SenderHands
  <2>. QED  BY <1>1, <2>1, <2>2, <2>3, <2>4
<1>4. CASE BreakStep
  <2>1. PICK S \in SUBSET Senders : Breaks(S) /\ UNCHANGED <<rpc, got, hand>>
    BY <1>4, BreakFacts
  <2>2. /\ \A s \in Senders : conn'[s] = IF s \in S THEN "cut" ELSE conn[s]
        /\ \A r \in Receivers : from'[r] = IF from[r] \in S THEN None ELSE from[r]
    BY <2>1 DEF Breaks
  <2>3. \A r \in Receivers :
          /\ rpc'[r] = "push" <=> got'[r] # None
          /\ rpc'[r] \in {"accept", "gone"} => from'[r] = None
          /\ from'[r] # None => /\ conn'[from'[r]] = "open"
                                /\ rpc'[r] = "push" => got'[r] = hand'[from'[r]]
    BY <1>0, <2>1, <2>2 DEF ReceiverHands
  <2>4. \A r, t \in Receivers : from'[r] = from'[t] /\ from'[r] # None => r = t
    BY <1>0, <2>1, <2>2 DEF ReceiverHands
  <2>5. \A s \in Senders : conn'[s] = "open" => \E r \in Receivers : from'[r] = s
    BY <1>0, <2>1, <2>2 DEF ReceiverHands
  <2>. QED  BY <2>3, <2>4, <2>5 DEF ReceiverHands
<1>5. ASSUME NEW r \in Receivers, TakeStep(r) PROVE ReceiverHands'
  <2>0. hand' = hand
    BY <1>5, ReceiveFrame
  <2>1. \/ Accepts(r) \/ Declines(r) \/ Registers(r) \/ Abandons(r) \/ Reads(r)
        \/ ReadsNothing(r) \/ Pushes(r) \/ IsRefused(r) \/ Closes(r)
    BY <1>5, ReceiveFacts
  <2>2. \A t \in Receivers \ {r} : rpc'[t] = rpc[t] /\ from'[t] = from[t] /\ got'[t] = got[t]
    BY <1>5, ReceiveFacts
  <2>3. CASE Accepts(r)
    <3>1. PICK s \in Senders :
            /\ rpc[r] = "accept" /\ conn[s] = "backlog"
            /\ rpc'[r] = "accepted" /\ from'[r] = s /\ got'[r] = got[r]
            /\ conn'[s] = "open" /\ \A t \in Senders \ {s} : conn'[t] = conn[t]
      BY <2>3 DEF Accepts
    <3>. QED  BY <1>0, <2>0, <2>2, <3>1 DEF ReceiverHands
  <2>4. CASE Reads(r)
    <3>1. hand[from[r]] # None
      BY <1>0, <2>4 DEF Reads, ReceiverHands, SenderHands
    <3>. QED  BY <1>0, <2>0, <2>2, <2>4, <3>1 DEF ReceiverHands, Reads
  <2>5. CASE ReadsNothing(r)
    BY <1>0, <2>0, <2>2, <2>5 DEF ReceiverHands, ReadsNothing
  <2>6. CASE Pushes(r) \/ IsRefused(r)
    BY <1>0, <2>0, <2>2, <2>6 DEF ReceiverHands, Pushes, IsRefused
  <2>7. CASE Closes(r)
    BY <1>0, <2>0, <2>2, <2>7 DEF ReceiverHands, Closes
  <2>8. CASE Declines(r) \/ Registers(r)
    BY <1>0, <2>0, <2>2, <2>8 DEF ReceiverHands, Declines, Registers
  <2>9. CASE Abandons(r)
    BY <1>0, <2>0, <2>2, <2>9 DEF ReceiverHands, Abandons
  <2>. QED  BY <2>1, <2>3, <2>4, <2>5, <2>6, <2>7, <2>8, <2>9
<1>6. ASSUME NEW w \in Writers, DiskStep(w) PROVE ReceiverHands'
  BY <1>1, <1>6, DiskFrame
<1>7. CASE NewStep
  <2>1. /\ \A r \in Receivers : rpc'[r] = "accept" /\ from'[r] = None /\ got'[r] = None
        /\ \A s \in Senders : conn'[s] # "open"
    BY <1>7, NewFacts
  <2>. QED  BY <2>1 DEF ReceiverHands
<1>8. CASE StopGoesOn
  BY <1>1, <1>8, GoesOnFrame
<1>. QED  BY <1>2, <1>3, <1>4, <1>5, <1>6, <1>7, <1>8, Steps

LEMMA WriterHandsNext ==
  ASSUME RsyncAssumption, Types, SenderHands, ReceiverHands, WriterHands, Next
  PROVE  WriterHands'
<1>0. /\ None \notin Chunks /\ None \notin Mountpoints
      /\ item \in [Writers -> Chunks \cup {None}]
      /\ at \in [Writers -> Mountpoints \cup {None}]
      /\ rq \in Seq(Chunks) /\ free \subseteq Mountpoints
      /\ file \in [Mountpoints -> [Chunks -> {"no", "part", "whole"}]]
  BY DEF RsyncAssumption, Types
<1>1. ASSUME UNCHANGED <<wpc, item, at, free, file>>,
             rq' = rq \/ \E w \in Writers : wpc[w] # "gone"
      PROVE  WriterHands'
  BY <1>1 DEF WriterHands
<1>2. CASE MainStep
  BY <1>1, <1>2, MainFrame
<1>3. ASSUME BreakStep \/ StopGoesOn \/ \E s \in Senders : SendStep(s) PROVE WriterHands'
  BY <1>1, <1>3, SendFrame, BreakFacts, GoesOnFrame
<1>4. ASSUME NEW r \in Receivers, TakeStep(r) PROVE WriterHands'
  <2>1. rq' = rq \/ \E w \in Writers : wpc[w] # "gone"
    BY <1>4, ReceiveFacts DEF Accepts, Declines, Registers, Abandons, Reads, ReadsNothing,
                              Pushes, IsRefused, Closes
  <2>. QED  BY <1>1, <1>4, <2>1, ReceiveFrame
<1>5. CASE NewStep
  BY <1>5, NewFacts DEF WriterHands
<1>6. ASSUME NEW w \in Writers, DiskStep(w) PROVE WriterHands'
  <2>1. Pops(w) \/ Opens(w) \/ Strikes(w) \/ Writes(w) \/ Fails(w) \/ Quits(w) \/ Retires(w)
    BY <1>6, DiskFacts
  <2>2. \A v \in Writers \ {w} : wpc'[v] = wpc[v] /\ item'[v] = item[v] /\ at'[v] = at[v]
    BY <1>6, DiskFacts
  <2>3. /\ wpc[w] \in {"mount", "write"} => item[w] \in Chunks
        /\ wpc[w] = "write" => at[w] \in Mountpoints
    BY <1>0 DEF WriterHands
  <2>4. \A v \in Writers : at[v] # None => at[v] \in Mountpoints /\ item[v] \in Chunks
    BY <1>0 DEF WriterHands
  <2>12. (\A v \in Writers : wpc'[v] = "gone") => rq' = <<>>
    BY <2>1, <2>2 DEF Pops, Opens, Strikes, Writes, Fails, Quits, Retires
  <2>5. CASE Pops(w)
    <3>1. item'[w] # None
      BY <1>0, <2>5 DEF Pops
    <3>2. \A v \in Writers :
            /\ wpc'[v] \in {"mount", "write"} <=> item'[v] # None
            /\ wpc'[v] = "write" <=> at'[v] # None
            /\ at'[v] # None => at'[v] \notin free' /\ file'[at'[v]][item'[v]] = "part"
      BY <2>2, <2>5, <3>1 DEF WriterHands, Pops
    <3>3. \A v \in Writers : at'[v] = at[v]
      BY <2>2, <2>5 DEF Pops
    <3>4. \A u, v \in Writers : at'[u] = at'[v] /\ at'[u] # None => u = v
      BY <3>3 DEF WriterHands
    <3>. QED  BY <2>12, <3>2, <3>4 DEF WriterHands
  <2>6. CASE Opens(w)
    <3>1. PICK m \in free :
            /\ wpc[w] = "mount" /\ item'[w] = item[w] /\ wpc'[w] = "write" /\ at'[w] = m
            /\ free' = free \ {m} /\ Becomes(m, item[w], "part")
      BY <2>6 DEF Opens
    <3>2. m \in Mountpoints /\ item[w] \in Chunks /\ m # None
      BY <1>0, <2>3, <3>1
    <3>3. /\ file'[m][item[w]] = "part"
          /\ \A n \in Mountpoints, d \in Chunks : n # m => file'[n][d] = file[n][d]
      BY <3>1, <3>2, FileChanges
    <3>4. \A v \in Writers \ {w} : at[v] # m
      BY <1>0 DEF WriterHands
    <3>5. \A v \in Writers \ {w} : at[v] # None => file'[at[v]][item[v]] = "part"
      BY <2>4, <3>3, <3>4 DEF WriterHands
    <3>. QED  BY <2>2, <2>12, <3>1, <3>2, <3>3, <3>4, <3>5 DEF WriterHands
  <2>7. CASE Strikes(w)
    <3>1. /\ wpc'[w] = wpc[w] /\ item'[w] = item[w] /\ at'[w] = at[w] /\ file' = file
          /\ free' \subseteq free
      BY <2>7 DEF Strikes
    <3>. QED  BY <2>2, <2>12, <3>1 DEF WriterHands
  <2>8. ASSUME NEW left \in {"no", "part", "whole"}, at[w] # None, at'[w] = None,
               Becomes(at[w], item[w], left),
               wpc'[w] \in {"mount", "write"} <=> item'[w] # None, wpc'[w] # "write",
               free' \subseteq free \cup {at[w]}
        PROVE  WriterHands'
    <3>1. at[w] \in Mountpoints /\ item[w] \in Chunks
      BY <2>4, <2>8
    <3>2. \A n \in Mountpoints, d \in Chunks : n # at[w] => file'[n][d] = file[n][d]
      BY <2>8, <3>1, FileChanges
    <3>3. \A v \in Writers \ {w} : at[v] # None => at[v] # at[w]
      BY DEF WriterHands
    <3>4. \A v \in Writers \ {w} :
            at[v] # None => at[v] \notin free' /\ file'[at[v]][item[v]] = "part"
      BY <2>4, <2>8, <3>2, <3>3 DEF WriterHands
    <3>. QED  BY <2>2, <2>8, <2>12, <3>4 DEF WriterHands
  <2>9. CASE Writes(w)
    <3>1. at[w] # None
      BY <2>9 DEF Writes, WriterHands
    <3>. QED  BY <2>8, <2>9, <3>1 DEF Writes
  <2>10. CASE Fails(w)
    <3>1. at[w] # None /\ item[w] # None
      BY <2>10 DEF Fails, WriterHands
    <3>. QED  BY <2>8, <2>10, <3>1 DEF Fails
  <2>11. CASE Quits(w) \/ Retires(w)
    BY <2>2, <2>11, <2>12 DEF WriterHands, Quits, Retires
  <2>. QED  BY <2>1, <2>5, <2>6, <2>7, <2>9, <2>10, <2>11
<1>. QED  BY <1>2, <1>3, <1>4, <1>5, <1>6, Steps

LEMMA RoundNext ==
  ASSUME RsyncAssumption, Types, SenderHands, ReceiverHands, WriterHands, Round, Next
  PROVE  Round'
<1>0. /\ asked \in {"ask", "push", "done"}
      /\ spc \in [Senders -> {"pop", "connect", "send", "wait", "gone"}]
  BY DEF Types
<1>1. ASSUME UNCHANGED <<asked, todo, q, spc>> PROVE Round'
  BY <1>1 DEF Round, Over
<1>2. CASE MainStep
  <2>1. CASE Begin
    BY <2>1 DEF Begin, Round, Over
  <2>2. CASE Handed \/ Dropped \/ RequestFails \/ Disconnect
    BY <2>2 DEF Handed, Dropped, RequestFails, Disconnect, Round, Over
  <2>3. ASSUME NEW r \in Receivers, Request(r) PROVE Round'
    BY <2>3 DEF Request, Round, Over
  <2>4. ASSUME NEW c \in Chunks, ReadFile(c) \/ ReadFails(c) PROVE Round'
    BY <2>4 DEF ReadFile, ReadFails, Round, Over
  <2>. QED  BY <1>2, <2>1, <2>2, <2>3, <2>4 DEF MainStep
<1>3. ASSUME NEW s \in Senders, SendStep(s) PROVE Round'
  <2>1. UNCHANGED <<asked, todo>>
    BY <1>3, SendFrame
  <2>2. /\ Takes(s) \/ Leaves(s) \/ Connects(s) \/ GoesOn(s) \/ Ends(s) \/ IsDone(s)
        /\ \A t \in Senders \ {s} : spc'[t] = spc[t]
    BY <1>3, SendFacts
  <2>3. asked # "ask"
    <3>1. CASE Takes(s)
      BY <3>1 DEF Takes, Round
    <3>2. CASE Leaves(s) \/ Connects(s) \/ GoesOn(s) \/ IsDone(s)
      BY <3>2 DEF Leaves, Connects, GoesOn, IsDone, Round
    <3>3. CASE Ends(s)
      BY <3>3 DEF Ends, Round
    <3>. QED  BY <2>2, <3>1, <3>2, <3>3
  <2>4. ASSUME Over' PROVE q' = {}
    <3>1. \A t \in Senders : spc'[t] = "gone"
      BY <2>4 DEF Over
    <3>2. Leaves(s) \/ Ends(s)
      BY <2>2, <3>1 DEF Takes, Connects, GoesOn, IsDone
    <3>3. CASE Leaves(s)
      BY <3>3 DEF Leaves
    <3>4. CASE Ends(s)
      BY <2>2, <3>1, <3>4 DEF Ends
    <3>. QED  BY <3>2, <3>3, <3>4
  <2>. QED  BY <2>1, <2>3, <2>4 DEF Round
<1>4. CASE BreakStep
  BY <1>1, <1>4, BreakFacts
<1>5. ASSUME NEW r \in Receivers, TakeStep(r) PROVE Round'
  BY <1>1, <1>5, ReceiveFrame
<1>6. ASSUME NEW w \in Writers, DiskStep(w) PROVE Round'
  BY <1>1, <1>6, DiskFrame
<1>7. CASE NewStep \/ StopGoesOn
  BY <1>1, <1>7, NewFacts, GoesOnFrame
<1>. QED  BY <1>2, <1>3, <1>4, <1>5, <1>6, <1>7, Steps

-----------------------------------------------------------------------------
(* What is delivered stays so in its round.                                *)

LEMMA LostStays ==
  ASSUME RsyncAssumption, Types, SenderHands, ReceiverHands, WriterHands, Next, ~Begin
  PROVE  lost \subseteq lost'
<1>0. lost \subseteq Chunks
  BY DEF Types
<1>1. CASE MainStep
  BY <1>0, <1>1 DEF MainStep, Handed, Dropped, RequestFails, Disconnect, Request, ReadFile,
                    ReadFails, history
<1>2. ASSUME NEW s \in Senders, SendStep(s) PROVE lost \subseteq lost'
  BY <1>2, SendFacts DEF Takes, Leaves, Connects, GoesOn, Ends, IsDone
<1>3. CASE BreakStep
  BY <1>3, BreakFacts DEF Breaks
<1>4. ASSUME NEW r \in Receivers, TakeStep(r) PROVE lost \subseteq lost'
  BY <1>4, ReceiveFacts DEF Accepts, Declines, Registers, Abandons, Reads, ReadsNothing,
                            Pushes, IsRefused, Closes
<1>5. ASSUME NEW w \in Writers, DiskStep(w) PROVE lost \subseteq lost'
  BY <1>5, DiskFacts DEF Pops, Opens, Strikes, Writes, Fails, Quits, Retires
<1>6. CASE NewStep \/ StopGoesOn
  BY <1>6, NewFacts, GoesOnFrame
<1>. QED  BY <1>1, <1>2, <1>3, <1>4, <1>5, <1>6, Steps

\* A writer takes the first of the queue; the others move up.
LEMMA HeadOrTail ==
  ASSUME NEW S, NEW s \in Seq(S), s # <<>>, NEW i \in DOMAIN s
  PROVE  s[i] = Head(s) \/ \E j \in DOMAIN Tail(s) : Tail(s)[j] = s[i]
<1>1. Len(s) \in Nat /\ Len(s) # 0 /\ DOMAIN s = 1..Len(s) /\ i \in 1..Len(s)
  OBVIOUS
<1>2. Tail(s) \in Seq(S) /\ Len(Tail(s)) = Len(s) - 1
  OBVIOUS
<1>3. CASE i = 1
  BY <1>3
<1>4. CASE i # 1
  <2>1. i - 1 \in 1..(Len(s) - 1)
    BY <1>1, <1>4
  <2>2. i - 1 \in DOMAIN Tail(s)
    BY <1>2, <2>1
  <2>3. Tail(s)[i - 1] = s[(i - 1) + 1]
    BY <1>2, <2>1, <2>2
  <2>. QED  BY <1>1, <2>2, <2>3
<1>. QED  BY <1>3, <1>4

\* What a writer does to the files of its mountpoint, it does to its own chunk.
LEMMA FilesStay ==
  ASSUME RsyncAssumption, Types, WriterHands, NEW w \in Writers, DiskStep(w),
         NEW c \in Chunks, Stored(c) \/ Leftover(c)
  PROVE  Stored(c)' \/ Leftover(c)' \/ item'[w] = c
<1>1. Pops(w) \/ Opens(w) \/ Strikes(w) \/ Writes(w) \/ Fails(w) \/ Quits(w) \/ Retires(w)
  BY DiskFacts
<1>2. PICK n \in Mountpoints : file[n][c] \in {"part", "whole"}
  BY DEF Stored, Leftover
<1>3. ASSUME file'[n][c] \in {"part", "whole"} PROVE Stored(c)' \/ Leftover(c)'
  BY <1>3 DEF Stored, Leftover
<1>4. CASE file' = file
  BY <1>2, <1>3, <1>4
<1>5. /\ wpc[w] \in {"mount", "write"} => item[w] \in Chunks
      /\ wpc[w] = "write" => at[w] \in Mountpoints
  BY DEF Types, WriterHands
<1>6. CASE Opens(w)
  <2>1. PICK m \in free : /\ Becomes(m, item[w], "part")
                          /\ wpc[w] = "mount" /\ file[m][item[w]] = "no"
    BY <1>6 DEF Opens
  <2>2. m \in Mountpoints /\ item[w] \in Chunks
    BY <1>5, <2>1 DEF Types
  <2>3. n # m \/ c # item[w]
    BY <1>2, <2>1
  <2>4. file'[n][c] = file[n][c]
    BY <2>1, <2>2, <2>3, FileChanges
  <2>. QED  BY <1>2, <1>3, <2>4
<1>7. ASSUME NEW x \in {"no", "part", "whole"}, wpc[w] = "write",
             Becomes(at[w], item[w], x), x = "whole" \/ item'[w] = item[w]
      PROVE  Stored(c)' \/ Leftover(c)' \/ item'[w] = c
  <2>1. at[w] \in Mountpoints /\ item[w] \in Chunks
    BY <1>5, <1>7
  <2>2. /\ file'[at[w]][item[w]] = x
        /\ \A k \in Mountpoints, d \in Chunks :
             k # at[w] \/ d # item[w] => file'[k][d] = file[k][d]
    BY <1>7, <2>1, FileChanges
  <2>3. CASE n # at[w] \/ c # item[w]
    BY <1>2, <1>3, <2>2, <2>3
  <2>4. CASE n = at[w] /\ c = item[w]
    BY <1>3, <1>7, <2>2, <2>4
  <2>. QED  BY <2>3, <2>4
<1>8. CASE Writes(w)
  BY <1>7, <1>8 DEF Writes
<1>9. CASE Fails(w)
  BY <1>7, <1>9 DEF Fails
<1>. QED  BY <1>1, <1>4, <1>6, <1>8, <1>9 DEF Pops, Strikes, Quits, Retires

LEMMA DeliveredStays ==
  ASSUME RsyncAssumption, Types, SenderHands, ReceiverHands, WriterHands, Next, ~Begin,
         NEW c \in Chunks, Delivered(c)
  PROVE  Delivered(c)'
<1>0. /\ None \notin Chunks /\ lost \subseteq lost' /\ rq \in Seq(Chunks)
      /\ got \in [Receivers -> Chunks \cup {None}]
  BY LostStays DEF RsyncAssumption, Types
<1>1. ASSUME UNCHANGED <<got, rq, item, file>> PROVE Delivered(c)'
  BY <1>0, <1>1 DEF Delivered, OnItsWay, Stored, Leftover
<1>2. CASE MainStep
  BY <1>1, <1>2, MainFrame
<1>3. ASSUME BreakStep \/ StopGoesOn \/ \E s \in Senders : SendStep(s) PROVE Delivered(c)'
  BY <1>1, <1>3, SendFrame, BreakFacts, GoesOnFrame
<1>4. ASSUME NEW r \in Receivers, TakeStep(r) PROVE Delivered(c)'
  <2>1. UNCHANGED <<item, file>>
    BY <1>4, ReceiveFrame
  <2>2. /\ \/ Accepts(r) \/ Declines(r) \/ Registers(r) \/ Abandons(r) \/ Reads(r)
           \/ ReadsNothing(r) \/ Pushes(r) \/ IsRefused(r) \/ Closes(r)
        /\ \A t \in Receivers \ {r} : got'[t] = got[t]
    BY <1>4, ReceiveFacts
  <2>3. CASE (Stored(c) \/ Leftover(c)) \/ (c \in lost \/ \E w \in Writers : item[w] = c)
    BY <1>0, <2>1, <2>3 DEF Delivered, OnItsWay, Stored, Leftover
  <2>4. ASSUME NEW i \in DOMAIN rq, rq[i] = c PROVE \E j \in DOMAIN rq' : rq'[j] = c
    <3>1. CASE rq' = rq
      BY <2>4, <3>1
    <3>2. CASE rq' = Append(rq, got[r])
      <4>1. DOMAIN rq = 1..Len(rq) /\ DOMAIN Append(rq, got[r]) = 1..Len(rq)+1 /\ Len(rq) \in Nat
        BY <1>0
      <4>2. i \in 1..Len(rq) /\ Append(rq, got[r])[i] = rq[i]
        BY <1>0, <4>1
      <4>3. i \in 1..Len(rq)+1
        BY <4>1, <4>2
      <4>. QED  BY <2>4, <3>2, <4>1, <4>2, <4>3
    <3>. QED  BY <2>2, <3>1, <3>2 DEF Accepts, Declines, Registers, Abandons, Reads,
                                      ReadsNothing, Pushes, IsRefused, Closes
  <2>5. ASSUME NEW t \in Receivers, got[t] = c PROVE Delivered(c)'
    <3>1. CASE got'[t] = c
      BY <3>1 DEF Delivered, OnItsWay
    <3>2. CASE got'[t] # c
      <4>1. t = r /\ got[r] = c
        BY <2>2, <2>5, <3>2
      <4>2. Pushes(r) \/ IsRefused(r)
        BY <1>0, <2>2, <3>2, <4>1 DEF Accepts, Declines, Registers, Abandons, Reads,
                                      ReadsNothing, Closes, ReceiverHands
      <4>3. CASE Pushes(r)
        <5>1. rq' = Append(rq, c)
          BY <4>1, <4>3 DEF Pushes
        <5>2. Len(rq)+1 \in DOMAIN rq' /\ rq'[Len(rq)+1] = c
          BY <1>0, <5>1
        <5>. QED  BY <5>2 DEF Delivered, OnItsWay
      <4>4. CASE IsRefused(r)
        BY <4>1, <4>4 DEF IsRefused, Delivered
      <4>. QED  BY <4>2, <4>3, <4>4
    <3>. QED  BY <3>1, <3>2
  <2>. QED  BY <2>3, <2>4, <2>5 DEF Delivered, OnItsWay
<1>5. ASSUME NEW w \in Writers, DiskStep(w) PROVE Delivered(c)'
  <2>1. got' = got
    BY <1>5, DiskFrame
  <2>2. /\ Pops(w) \/ Opens(w) \/ Strikes(w) \/ Writes(w) \/ Fails(w) \/ Quits(w) \/ Retires(w)
        /\ \A v \in Writers \ {w} : item'[v] = item[v]
    BY <1>5, DiskFacts
  <2>3. CASE c \in lost \/ \E r \in Receivers : got[r] = c
    BY <1>0, <2>1, <2>3 DEF Delivered, OnItsWay
  <2>4. CASE Stored(c) \/ Leftover(c)
    BY <1>5, <2>4, FilesStay DEF Delivered, OnItsWay
  <2>5. ASSUME NEW i \in DOMAIN rq, rq[i] = c PROVE Delivered(c)'
    <3>1. CASE rq' = rq
      BY <2>5, <3>1 DEF Delivered, OnItsWay
    <3>2. CASE Pops(w)
      <4>1. c = Head(rq) \/ \E j \in DOMAIN Tail(rq) : Tail(rq)[j] = c
        BY <1>0, <2>5, <3>2, HeadOrTail DEF Pops
      <4>. QED  BY <3>2, <4>1 DEF Pops, Delivered, OnItsWay
    <3>3. CASE lost' = lost \cup {item[w]} \cup {rq[j] : j \in DOMAIN rq}
      BY <2>5, <3>3 DEF Delivered
    <3>. QED  BY <2>2, <3>1, <3>2, <3>3 DEF Opens, Strikes, Writes, Fails, Quits, Retires
  <2>6. ASSUME NEW v \in Writers, item[v] = c PROVE Delivered(c)'
    <3>1. CASE item'[v] = c
      BY <3>1 DEF Delivered, OnItsWay
    <3>2. CASE item'[v] # c
      <4>1. v = w /\ item[w] = c
        BY <2>2, <2>6, <3>2
      <4>2. Writes(w) \/ Quits(w)
        BY <1>0, <2>2, <3>2, <4>1 DEF Pops, Opens, Strikes, Fails, Retires, WriterHands
      <4>3. CASE Writes(w)
        <5>1. at[w] \in Mountpoints /\ Becomes(at[w], item[w], "whole")
          BY <4>3 DEF Writes, WriterHands, Types
        <5>2. file'[at[w]][item[w]] = "whole"
          BY <4>1, <5>1, FileChanges
        <5>. QED  BY <4>1, <5>1, <5>2 DEF Delivered, Stored
      <4>4. CASE Quits(w)
        BY <4>1, <4>4 DEF Quits, Delivered
      <4>. QED  BY <4>2, <4>3, <4>4
    <3>. QED  BY <3>1, <3>2
  <2>. QED  BY <2>3, <2>4, <2>5, <2>6 DEF Delivered, OnItsWay
<1>6. CASE NewStep
  <2>1. file' = file /\ (OnItsWay(c) => c \in lost')
    BY <1>6, NewFacts
  <2>. QED  BY <1>0, <2>1 DEF Delivered, Stored, Leftover
<1>. QED  BY <1>2, <1>3, <1>4, <1>5, <1>6, Steps

LEMMA ClosingsNext ==
  ASSUME RsyncAssumption, Types, SenderHands, ReceiverHands, WriterHands, Closings, Next
  PROVE  Closings'
<1>0. None \notin Chunks /\ None \notin Senders
  BY DEF RsyncAssumption
<1>1. CASE Begin
  <2>1. /\ \A s \in Senders : spc[s] = "gone" /\ conn'[s] = conn[s]
        /\ from' = from
    BY <1>1, MainFrame DEF Begin, Over, MainStep, receiver
  <2>2. \A s \in Senders : conn[s] = "none" /\ conn'[s] = "none"
    BY <2>1 DEF SenderHands
  <2>3. \A r \in Receivers, s \in Senders : from'[r] # s
    BY <1>0, <2>1, <2>2 DEF ReceiverHands
  <2>. QED  BY <2>2, <2>3 DEF Closings
<1>2. CASE ~Begin
  <2>. SUFFICES ASSUME NEW c \in Chunks, NEW s \in Senders, hand'[s] = c
                PROVE  /\ conn'[s] \in {"cut", "left"} => c \in lost'
                       /\ conn'[s] = "closed" => Delivered(c)'
                       /\ \A r \in Receivers :
                            rpc'[r] = "close" /\ from'[r] = s => Delivered(c)'
    BY DEF Closings
  <2>1. /\ Delivered(c) => Delivered(c)'
        /\ c \in lost => c \in lost'
    BY <1>2, DeliveredStays, LostStays
  <2>2. hand[s] = c => /\ conn[s] \in {"cut", "left"} => c \in lost
                       /\ conn[s] = "closed" => Delivered(c)
                       /\ \A r \in Receivers : rpc[r] = "close" /\ from[r] = s => Delivered(c)
    BY DEF Closings
  <2>. DEFINE Good == /\ conn'[s] \in {"cut", "left"} => c \in lost'
                      /\ conn'[s] = "closed" => Delivered(c)'
                      /\ \A r \in Receivers :
                           rpc'[r] = "close" /\ from'[r] = s => Delivered(c)'
  <2>3. ASSUME hand'[s] = hand[s], conn'[s] = conn[s], UNCHANGED <<rpc, from>> PROVE Good
    BY <2>1, <2>2, <2>3
  <2>4. ASSUME MainStep PROVE Good
    <3>1. UNCHANGED <<hand, conn, rpc, from>>
      BY <2>4, MainFrame
    <3>. HIDE DEF Good
    <3>. QED  BY <2>3, <3>1
  <2>5. ASSUME NEW t \in Senders, SendStep(t) PROVE Good
    <3>1. UNCHANGED <<rpc, from>>
      BY <2>5, SendFrame
    <3>2. Takes(t) \/ Leaves(t) \/ Connects(t) \/ GoesOn(t) \/ Ends(t) \/ IsDone(t)
      BY <2>5, SendFacts
    <3>3. CASE s # t
      <4>1. hand'[s] = hand[s] /\ conn'[s] = conn[s]
        BY <2>5, <3>3, SendFacts
      <4>. QED  BY <2>3, <3>1, <4>1
    <3>4. CASE s = t /\ GoesOn(t)
      <4>1. hand'[s] = hand[s] /\ conn'[s] = conn[s]
        BY <3>4 DEF GoesOn
      <4>. QED  BY <2>3, <3>1, <4>1
    <3>5. CASE s = t /\ ~GoesOn(t)
      <4>1. conn'[s] \notin {"cut", "left", "closed"} /\ conn[s] # "open"
        BY <3>2, <3>5 DEF Takes, Leaves, Connects, Ends, IsDone, SenderHands
      <4>2. \A r \in Receivers : from[r] # s
        BY <1>0, <4>1 DEF ReceiverHands
      <4>. QED  BY <3>1, <4>1, <4>2
    <3>. QED  BY <3>3, <3>4, <3>5
  <2>6. ASSUME BreakStep PROVE Good
    <3>0. PICK S \in SUBSET Senders : Breaks(S) /\ UNCHANGED <<hand, rpc>>
      BY <2>6, BreakFacts
    <3>1. /\ hand'[s] = hand[s] /\ rpc' = rpc
          /\ s \notin S => conn'[s] = conn[s]
          /\ s \in S => conn'[s] = "cut" /\ hand[s] \in lost'
          /\ \A r \in Receivers : from'[r] = IF from[r] \in S THEN None ELSE from[r]
      BY <3>0 DEF Breaks
    <3>2. \A r \in Receivers : from'[r] = s => from[r] = s
      BY <1>0, <3>1
    <3>. QED  BY <2>1, <2>2, <3>1, <3>2
  <2>7. ASSUME NEW r \in Receivers, TakeStep(r) PROVE Good
    <3>1. hand'[s] = hand[s]
      BY <2>7, ReceiveFrame
    <3>2. /\ \/ Accepts(r) \/ Declines(r) \/ Registers(r) \/ Abandons(r) \/ Reads(r)
             \/ ReadsNothing(r) \/ Pushes(r) \/ IsRefused(r) \/ Closes(r)
          /\ \A t \in Receivers \ {r} : rpc'[t] = rpc[t] /\ from'[t] = from[t]
      BY <2>7, ReceiveFacts
    <3>3. ASSUME NEW t \in Receivers, rpc'[t] = "close", from'[t] = s PROVE Delivered(c)'
      <4>1. CASE rpc[t] = "close" /\ from[t] = s
        BY <2>1, <2>2, <3>1, <4>1
      <4>2. CASE t = r /\ (Pushes(r) \/ IsRefused(r))
        <5>1. got[r] = c
          BY <1>0, <3>1, <3>3, <4>2 DEF Pushes, IsRefused, ReceiverHands
        <5>2. Delivered(c)
          BY <5>1 DEF Delivered, OnItsWay
        <5>. QED  BY <2>1, <5>2
      <4>. QED  BY <3>2, <3>3, <4>1, <4>2 DEF Accepts, Declines, Registers, Abandons,
                                              Reads, ReadsNothing, Closes
    <3>4. conn'[s] \in {"cut", "left", "closed"} =>
            \/ conn'[s] = conn[s] \/ (Closes(r) /\ from[r] = s)
            \/ conn'[s] = "left" /\ c \in lost'
      BY <3>1, <3>2 DEF Accepts, Declines, Registers, Abandons, Reads, ReadsNothing,
                        Pushes, IsRefused, Closes
    <3>5. Closes(r) /\ from[r] = s => Delivered(c) /\ conn'[s] = "closed"
      BY <2>2, <3>1 DEF Closes
    <3>. QED  BY <2>1, <2>2, <3>1, <3>3, <3>4, <3>5
  <2>8. ASSUME NEW w \in Writers, DiskStep(w) PROVE Good
    <3>1. UNCHANGED <<hand, conn, rpc, from>>
      BY <2>8, DiskFrame
    <3>. HIDE DEF Good
    <3>. QED  BY <2>3, <3>1
  <2>9. ASSUME NewStep PROVE Good
    <3>1. /\ hand'[s] = hand[s] /\ \A r \in Receivers : rpc'[r] = "accept"
          /\ conn'[s] = conn[s] \/ (conn'[s] = "cut" /\ hand[s] \in lost')
      BY <2>9, NewFacts
    <3>. QED  BY <2>1, <2>2, <3>1
  <2>11. ASSUME StopGoesOn PROVE Good
    <3>1. UNCHANGED <<hand, conn, rpc, from>>
      BY <2>11, GoesOnFrame
    <3>. HIDE DEF Good
    <3>. QED  BY <2>3, <3>1
  <2>. HIDE DEF Good
  <2>10. Good
    BY <2>4, <2>5, <2>6, <2>7, <2>8, <2>9, <2>11, Steps
  <2>. QED  BY <2>10 DEF Good
<1>. QED  BY <1>1, <1>2

LEMMA TracedNext ==
  ASSUME RsyncAssumption, Types, SenderHands, ReceiverHands, WriterHands, Round, Closings,
         Traced, Next
  PROVE  Traced'
<1>1. CASE Begin
  BY <1>1 DEF Begin, Traced
<1>2. CASE ~Begin
  <2>. SUFFICES ASSUME round' > 0, asked' # "ask", NEW c \in Chunks
                PROVE  (\/ c \in todo \/ c \in q \/ Delivered(c)
                        \/ \E s \in Senders : hand[s] = c)'
    BY DEF Traced
  <2>. DEFINE Good == (\/ c \in todo \/ c \in q \/ Delivered(c)
                       \/ \E s \in Senders : hand[s] = c)'
  <2>1. Delivered(c) \/ c \in lost' => Delivered(c)'
    BY <1>2, DeliveredStays DEF Delivered
  <2>2. asked # "ask" /\ round' = round =>
          \/ c \in todo \/ c \in q \/ Delivered(c) \/ \E s \in Senders : hand[s] = c
    BY DEF Traced
  <2>3. ASSUME asked # "ask", UNCHANGED <<todo, q, hand, round>> PROVE Good
    BY <2>1, <2>2, <2>3
  <2>4. ASSUME MainStep PROVE Good
    <3>0. hand' = hand
      BY <2>4, MainFrame
    <3>1. ASSUME Handed \/ Dropped PROVE Good
      BY <2>1, <2>2, <3>0, <3>1 DEF Handed, Dropped, history
    <3>2. ASSUME RequestFails PROVE Good
      BY <2>1, <3>2 DEF RequestFails
    <3>3. ASSUME Disconnect PROVE Good
      BY <2>1, <2>2, <3>0, <3>3 DEF Disconnect
    <3>4. ASSUME NEW r \in Receivers, Request(r) PROVE Good
      <4>1. todo' = Needed(Reply)
        BY <3>4 DEF Request
      <4>2. Needed(Reply) = Chunks \ Present
        BY DEF Needed, Reply, Present
      <4>3. CASE c \in Present
        <5>1. PICK m \in Mountpoints : file[m][c] # "no"
          BY <4>3 DEF Present
        <5>2. file[m][c] \in {"part", "whole"}
          BY <5>1 DEF Types
        <5>3. Delivered(c)
          BY <5>2 DEF Delivered, Stored, Leftover
        <5>. QED  BY <2>1, <5>3
      <4>. QED  BY <4>1, <4>2, <4>3
    <3>5. ASSUME NEW d \in Chunks, ReadFile(d) \/ ReadFails(d) PROVE Good
      <4>1. d \in todo
        BY <3>5 DEF ReadFile, ReadFails
      <4>2. asked # "ask"
        BY <4>1 DEF Round
      <4>. QED  BY <2>1, <2>2, <3>0, <3>5, <4>2 DEF ReadFile, ReadFails, history
    <3>. HIDE DEF Good
    <3>. QED  BY <1>2, <2>4, <3>1, <3>2, <3>3, <3>4, <3>5 DEF MainStep
  <2>5. ASSUME NEW s \in Senders, SendStep(s) PROVE Good
    <3>1. UNCHANGED <<asked, todo, round>>
      BY <2>5, SendFrame
    <3>2. /\ Takes(s) \/ Leaves(s) \/ Connects(s) \/ GoesOn(s) \/ Ends(s) \/ IsDone(s)
          /\ \A t \in Senders \ {s} : hand'[t] = hand[t]
      BY <2>5, SendFacts
    <3>3. CASE c \in todo \/ Delivered(c)
      BY <2>1, <3>1, <3>3
    <3>4. CASE c \in q
      <4>1. CASE Takes(s)
        BY <3>4, <4>1 DEF Takes
      <4>2. CASE Ends(s)
        BY <2>1, <3>4, <4>2 DEF Ends
      <4>. QED  BY <3>2, <3>4, <4>1, <4>2 DEF Leaves, Connects, GoesOn, IsDone
    <3>5. ASSUME NEW t \in Senders, hand[t] = c PROVE Good
      <4>1. CASE hand'[t] = c
        BY <4>1
      <4>2. CASE hand'[t] # c
        <5>1. t = s
          BY <3>2, <3>5, <4>2
        <5>2. Ends(s) \/ IsDone(s)
          <6>1. ~Takes(s)
            BY <3>5, <5>1 DEF Takes, SenderHands, RsyncAssumption
          <6>. QED  BY <3>2, <3>5, <4>2, <5>1, <6>1 DEF Leaves, Connects, GoesOn
        <5>3. CASE Ends(s)
          BY <2>1, <3>5, <5>1, <5>3 DEF Ends
        <5>4. CASE IsDone(s)
          <6>1. c \in lost \/ Delivered(c)
            BY <3>5, <5>1, <5>4 DEF IsDone, Closings
          <6>2. Delivered(c)
            BY <6>1 DEF Delivered
          <6>. QED  BY <2>1, <6>2
        <5>. QED  BY <5>2, <5>3, <5>4
      <4>. QED  BY <4>1, <4>2
    <3>. HIDE DEF Good
    <3>. QED  BY <2>2, <3>1, <3>3, <3>4, <3>5
  <2>6. ASSUME UNCHANGED <<asked, todo, q, hand, round>> PROVE Good
    BY <2>3, <2>6
  <2>. HIDE DEF Good
  <2>7. ASSUME BreakStep PROVE Good
    BY <2>6, <2>7, BreakFacts
  <2>8. ASSUME NEW r \in Receivers, TakeStep(r) PROVE Good
    BY <2>6, <2>8, ReceiveFrame
  <2>9. ASSUME NEW w \in Writers, DiskStep(w) PROVE Good
    BY <2>6, <2>9, DiskFrame
  <2>10. ASSUME NewStep \/ StopGoesOn PROVE Good
    BY <2>6, <2>10, NewFacts, GoesOnFrame
  <2>11. Good
    BY <2>4, <2>5, <2>7, <2>8, <2>9, <2>10, Steps
  <2>. QED  BY <2>11 DEF Good
<1>. QED  BY <1>1, <1>2

-----------------------------------------------------------------------------
(* The theorems.                                                           *)

LEMMA InitHolds ==
  ASSUME RsyncAssumption, Init
  PROVE  IInv
<1>1. Types
  <2>1. readers \in 0..NReaders
    BY DEF RsyncAssumption, Init
  <2>2. /\ spc \in [Senders -> {"pop", "connect", "send", "wait", "gone"}]
        /\ hand \in [Senders -> Chunks \cup {None}]
        /\ conn \in [Senders -> {"none", "backlog", "open", "cut", "closed", "left"}]
    BY DEF Init
  <2>3. /\ rpc \in [Receivers -> {"accept", "accepted", "read", "push", "close", "gone"}]
        /\ from \in [Receivers -> Senders \cup {None}]
        /\ got \in [Receivers -> Chunks \cup {None}]
        /\ rq \in Seq(Chunks)
    BY DEF Init
  <2>4. /\ wpc \in [Writers -> {"pop", "mount", "write", "gone"}]
        /\ item \in [Writers -> Chunks \cup {None}]
        /\ at \in [Writers -> Mountpoints \cup {None}]
        /\ free \subseteq Mountpoints /\ failed \subseteq Mountpoints
        /\ file \in [Mountpoints -> [Chunks -> {"no", "part", "whole"}]]
        /\ net2vbs \in {"open", "closed", "cancelled", "disabled"}
    BY DEF Init
  <2>5. /\ asked \in {"ask", "push", "done"}
        /\ todo \subseteq Chunks /\ q \subseteq Chunks /\ lost \subseteq Chunks
        /\ round \in Nat /\ faults \in Nat /\ twice \in BOOLEAN
    BY DEF Init
  <2>. QED  BY <2>1, <2>2, <2>3, <2>4, <2>5 DEF Types
<1>2. SenderHands /\ ReceiverHands /\ WriterHands
  BY DEF Init, SenderHands, ReceiverHands, WriterHands
<1>3. Round /\ Closings /\ Traced
  BY DEF Init, Round, Closings, Traced
<1>. QED  BY <1>1, <1>2, <1>3 DEF IInv

LEMMA Invariance ==
  ASSUME RsyncAssumption, IInv, [Next]_vars
  PROVE  IInv'
<1>1. CASE Next
  BY <1>1, TypesNext, SenderHandsNext, ReceiverHandsNext, WriterHandsNext, RoundNext,
     ClosingsNext, TracedNext DEF IInv
<1>2. CASE UNCHANGED vars
  BY <1>2 DEF vars, sender, receiver, disks, history, IInv, Types, SenderHands, ReceiverHands,
              WriterHands, Round, Over, Closings, Traced, Delivered, Stored, OnItsWay, Leftover
<1>. QED  BY <1>1, <1>2

LEMMA Always == ASSUME RsyncAssumption PROVE Init /\ [][Next]_vars => []IInv
<1>1. Init => IInv
  BY InitHolds
<1>2. IInv /\ [Next]_vars => IInv'
  BY Invariance
<1>. QED  BY <1>1, <1>2, PTL

\* The queues, connections, hands and files of both machines hold what they may: of
\* rsyncinitiator, parallelreader2, parallelsender, parallelnetreader and parallelwriter,
\* whatever fails.
THEOREM RsyncTypes == ASSUME RsyncAssumption PROVE Spec => []TypeOK
<1>1. IInv => TypeOK
  BY DEF IInv, Types, TypeOK
<1>. QED  BY <1>1, Always, PTL DEF Spec

\* However many files, connections, threads and failures there are, and whatever earlier
\* synchronisations have left: when one is over, each chunk is whole on a disk of the
\* receiver, with its writers, or something failed for it.  parallelsender is told nothing
\* by the end of a connection, and need not be.
THEOREM RsyncNothingVanishes == ASSUME RsyncAssumption PROVE Spec => []NothingVanishes
<1>1. IInv => NothingVanishes
  <2>. SUFFICES ASSUME IInv, Over, asked = "done", round > 0, NEW c \in Chunks \ lost
                PROVE  Stored(c) \/ OnItsWay(c) \/ Leftover(c)
    BY DEF NothingVanishes
  <2>1. todo = {} /\ q = {}
    BY DEF IInv, Round
  <2>2. \A s \in Senders : hand[s] # c
    BY DEF IInv, SenderHands, Over, RsyncAssumption
  <2>3. Delivered(c)
    BY <2>1, <2>2 DEF IInv, Traced
  <2>. QED  BY <2>3 DEF Delivered
<1>. QED  BY <1>1, Always, PTL DEF Spec

-----------------------------------------------------------------------------
(* Mountpoints that are struck off the list.  As long as no chunk is sent  *)
(* again before its first copy has got to a file, there is one copy of it  *)
(* on its way, and no file of its name where its writer may try one.       *)

\* What is in the hand of a sender has yet to come to the receiver.
Live(s) == \/ conn[s] = "backlog" \/ spc[s] = "connect"
           \/ \E r \in Receivers : from[r] = s /\ rpc[r] \in {"accepted", "read"}

\* A copy of the chunk is at that place, by its kind and which of the kind.
Holds(c, kind, i) ==
  \/ kind = "todo" /\ i = None /\ c \in todo
  \/ kind = "q" /\ i = None /\ c \in q
  \/ kind = "hand" /\ i \in Senders /\ hand[i] = c /\ Live(i)
  \/ kind = "got" /\ i \in Receivers /\ got[i] = c
  \/ kind = "rq" /\ i \in DOMAIN rq /\ rq[i] = c
  \/ kind = "item" /\ i \in Writers /\ item[i] = c

Single(c) ==
  \A kind, other, i, j : Holds(c, kind, i) /\ Holds(c, other, j) => kind = other /\ i = j

NoFile(c) == \A m \in Mountpoints : file[m][c] = "no"

\* Where its writer may try, or may come to.
Free(w) == free \cup {at[v] : v \in Writers \ {w}}

Fresh(c) ==
  /\ \A kind, i : Holds(c, kind, i) /\ kind # "item" => NoFile(c)
  /\ \A w \in Writers : item[w] = c => \A m \in Mountpoints \cap Free(w) : file[m][c] = "no"

Bad == Mountpoints \ (free \cup {at[w] : w \in Writers})

MountInv ==
  ~twice => /\ \A c \in Chunks : Single(c) /\ Fresh(c)
            /\ Bad \subseteq failed

LEMMA TwiceStays ==
  ASSUME RsyncAssumption, Types, SenderHands, ReceiverHands, WriterHands, Next, ~twice'
  PROVE  ~twice
<1>1. CASE MainStep
  BY <1>1 DEF MainStep, Begin, Handed, Dropped, RequestFails, Disconnect, Request, ReadFile,
              ReadFails, history
<1>. QED  BY <1>1, Steps, SendFrame, BreakFacts, ReceiveFrame, DiskFrame, NewFacts, GoesOnFrame

\* What a step does to the copies of a chunk: none is added; one is moved; those in the
\* queue to the writers move up; or the chunk is asked for, and there is no other.
Stay(c) == \A kind, i : Holds(c, kind, i)' => Holds(c, kind, i)
Move(c) ==
  \E old, i0, new, i1 :
    /\ old # "item" /\ Holds(c, old, i0) /\ ~Holds(c, old, i0)'
    /\ \A kind, i : Holds(c, kind, i)' => Holds(c, kind, i) \/ (kind = new /\ i = i1)
Shift(c) ==
  \A kind, i : Holds(c, kind, i)' => IF kind = "rq" THEN i \in Nat /\ Holds(c, kind, i + 1)
                                                    ELSE Holds(c, kind, i)
Anew(c) == NoFile(c) /\ \A kind, i : Holds(c, kind, i)' => kind = "todo" /\ i = None

LEMMA SingleStays ==
  ASSUME NEW c, Single(c), Stay(c) \/ Move(c) \/ Shift(c) \/ Anew(c)
  PROVE  Single(c)'
<1>1. CASE Stay(c)
  BY <1>1 DEF Stay, Single
<1>2. CASE Move(c)
  BY <1>2 DEF Move, Single
<1>3. CASE Shift(c)
  <2>. SUFFICES ASSUME NEW kind, NEW other, NEW i, NEW j,
                       Holds(c, kind, i)', Holds(c, other, j)'
                PROVE  kind = other /\ i = j
    BY DEF Single
  <2>1. kind = "rq" <=> other = "rq"
    BY <1>3 DEF Shift, Single
  <2>2. CASE kind = "rq"
    <3>1. i \in Nat /\ j \in Nat /\ Holds(c, kind, i + 1) /\ Holds(c, other, j + 1)
      BY <1>3, <2>1, <2>2 DEF Shift
    <3>2. i + 1 = j + 1
      BY <3>1 DEF Single
    <3>. QED  BY <2>1, <2>2, <3>1, <3>2
  <2>3. CASE kind # "rq"
    BY <1>3, <2>1, <2>3 DEF Shift, Single
  <2>. QED  BY <2>2, <2>3
<1>4. CASE Anew(c)
  BY <1>4 DEF Anew, Single
<1>. QED  BY <1>1, <1>2, <1>3, <1>4

\* All that is on its way was so before, or has no file.
LEMMA OldOrNew ==
  ASSUME NEW c, Stay(c) \/ Move(c) \/ Shift(c) \/ Anew(c),
         NEW kind, NEW i, kind # "item", Holds(c, kind, i)'
  PROVE  NoFile(c) \/ \E old, j : old # "item" /\ Holds(c, old, j)
BY DEF Stay, Move, Shift, Anew

LEMMA MoveIs ==
  ASSUME NEW c, NEW old, NEW i0, NEW new, NEW i1,
         old # "item", Holds(c, old, i0), ~Holds(c, old, i0)',
         \A kind, i : kind # new /\ Holds(c, kind, i)' => Holds(c, kind, i),
         \A i : Holds(c, new, i)' => Holds(c, new, i) \/ i = i1
  PROVE  Move(c)
<1>1. ASSUME NEW kind, NEW i, Holds(c, kind, i)'
      PROVE  Holds(c, kind, i) \/ (kind = new /\ i = i1)
  <2>1. CASE kind # new
    BY <1>1, <2>1
  <2>2. CASE kind = new
    BY <1>1, <2>2
  <2>. QED  BY <2>1, <2>2
<1>. QED  BY <1>1 DEF Move

LEMMA MainHolds ==
  ASSUME RsyncAssumption, Types, SenderHands, Round, MainStep, ~twice', NEW c \in Chunks
  PROVE  Stay(c) \/ Move(c) \/ Anew(c)
<1>0. UNCHANGED <<hand, conn, rpc, from, got, rq, item>>
  BY MainFrame
<1>1. ASSUME todo' \subseteq todo, q' \subseteq q, spc' = spc PROVE Stay(c)
  BY <1>0, <1>1 DEF Stay, Holds, Live
<1>2. CASE Begin
  <2>1. todo' = todo /\ q' = q /\ \A s \in Senders : hand[s] = None
    BY <1>2 DEF Begin, Over, SenderHands
  <2>2. c # None
    BY DEF RsyncAssumption
  <2>. QED  BY <1>0, <2>1, <2>2 DEF Stay, Holds
<1>3. ASSUME Handed \/ Dropped \/ RequestFails \/ Disconnect PROVE Stay(c)
  BY <1>1, <1>3 DEF Handed, Dropped, RequestFails, Disconnect
<1>4. ASSUME NEW d \in Chunks, ReadFails(d) PROVE Stay(c)
  BY <1>1, <1>4 DEF ReadFails
<1>5. ASSUME NEW d \in Chunks, ReadFile(d) PROVE Stay(c) \/ Move(c)
  <2>1. d \in todo /\ todo' = todo \ {d} /\ q' = q \cup {d} /\ spc' = spc
    BY <1>5 DEF ReadFile
  <2>2. CASE c # d
    BY <1>0, <2>1, <2>2 DEF Stay, Holds, Live
  <2>3. CASE c = d
    <3>1. Holds(c, "todo", None) /\ ~Holds(c, "todo", None)'
      BY <2>1, <2>3 DEF Holds
    <3>2. \A t \in Senders : Live(t)' => Live(t)
      BY <1>0, <2>1 DEF Live
    <3>3. \A kind, i : kind # "q" /\ Holds(c, kind, i)' => Holds(c, kind, i)
      BY <1>0, <2>1, <3>2 DEF Holds
    <3>4. \A i : Holds(c, "q", i)' => i = None
      BY DEF Holds
    <3>. QED  BY <3>1, <3>3, <3>4, MoveIs
  <2>. QED  BY <2>2, <2>3
<1>6. ASSUME NEW r \in Receivers, Request(r) PROVE Stay(c) \/ Anew(c)
  <2>1. /\ asked = "ask" /\ todo' = Needed(Reply) /\ q' = q /\ spc' = spc
        /\ twice' = (twice \/ \E d \in todo' : OnItsWay(d))
    BY <1>6 DEF Request
  <2>2. Needed(Reply) = Chunks \ Present
    BY DEF Needed, Reply, Present
  <2>3. CASE c \notin todo'
    BY <1>0, <2>1, <2>3 DEF Stay, Holds, Live
  <2>4. CASE c \in todo'
    <3>1. ~OnItsWay(c)
      BY <2>1, <2>4
    <3>2. NoFile(c)
      BY <2>1, <2>2, <2>4 DEF Present, NoFile
    <3>3. q' = {} /\ \A s \in Senders : hand'[s] # c
      BY <1>0, <2>1 DEF Round, SenderHands, RsyncAssumption
    <3>4. \A kind, i : Holds(c, kind, i)' => kind = "todo" /\ i = None
      BY <1>0, <3>1, <3>3 DEF Holds, OnItsWay
    <3>. QED  BY <3>2, <3>4 DEF Anew
  <2>. QED  BY <2>3, <2>4
<1>. QED  BY <1>2, <1>3, <1>4, <1>5, <1>6 DEF MainStep

LEMMA SendHolds ==
  ASSUME RsyncAssumption, Types, SenderHands, NEW s \in Senders, SendStep(s), NEW c \in Chunks
  PROVE  Stay(c) \/ Move(c)
<1>0. UNCHANGED <<todo, rpc, from, got, rq, item>> /\ c # None
  BY SendFrame DEF RsyncAssumption
<1>1. /\ Takes(s) \/ Leaves(s) \/ Connects(s) \/ GoesOn(s) \/ Ends(s) \/ IsDone(s)
      /\ \A t \in Senders \ {s} : spc'[t] = spc[t] /\ hand'[t] = hand[t] /\ conn'[t] = conn[t]
  BY SendFacts
<1>2. CASE ~Takes(s)
  <2>1. q' \subseteq q
    BY <1>1, <1>2 DEF Leaves, Connects, GoesOn, Ends, IsDone
  <2>2. hand'[s] = c => hand[s] = c
    BY <1>0, <1>1, <1>2 DEF Leaves, Connects, GoesOn, Ends, IsDone
  <2>3. ASSUME hand'[s] = c PROVE Live(s)' => Live(s)
    BY <1>0, <1>1, <1>2, <2>3 DEF Leaves, Connects, GoesOn, Ends, IsDone, Live
  <2>4. \A t \in Senders : hand'[t] = c /\ Live(t)' => hand[t] = c /\ Live(t)
    BY <1>0, <1>1, <2>2, <2>3 DEF Live
  <2>5. Stay(c)
    BY <1>0, <2>1, <2>4 DEF Stay, Holds
  <2>. QED  BY <2>5
<1>3. CASE Takes(s)
  <2>1. PICK d \in q : /\ spc'[s] = "connect" /\ hand'[s] = d /\ conn'[s] = conn[s]
                       /\ q' = q \ {d}
    BY <1>3 DEF Takes
  <2>2. \A t \in Senders \ {s} : hand'[t] = c /\ Live(t)' => hand[t] = c /\ Live(t)
    BY <1>0, <1>1 DEF Live
  <2>3. CASE c # d
    BY <1>0, <2>1, <2>2, <2>3 DEF Stay, Holds
  <2>4. CASE c = d
    <3>1. Holds(c, "q", None) /\ ~Holds(c, "q", None)'
      BY <2>1, <2>4 DEF Holds
    <3>2. \A kind, i : kind # "hand" /\ Holds(c, kind, i)' => Holds(c, kind, i)
      BY <1>0, <2>1 DEF Holds
    <3>3. \A i : Holds(c, "hand", i)' => Holds(c, "hand", i) \/ i = s
      BY <2>2 DEF Holds
    <3>. QED  BY <3>1, <3>2, <3>3, MoveIs
  <2>. QED  BY <2>3, <2>4
<1>. QED  BY <1>2, <1>3

LEMMA BreakHolds ==
  ASSUME RsyncAssumption, Types, SenderHands, ReceiverHands, BreakStep, NEW c \in Chunks
  PROVE  Stay(c)
<1>1. PICK S \in SUBSET Senders :
        Breaks(S) /\ UNCHANGED <<todo, q, spc, hand, rpc, got, rq, item>>
  BY BreakFacts
<1>2. /\ \A s \in Senders : conn'[s] = "backlog" => conn[s] = "backlog"
      /\ \A s \in Senders, r \in Receivers : from'[r] = s => from[r] = s
  BY <1>1 DEF Breaks, RsyncAssumption
<1>3. \A t \in Senders : Live(t)' => Live(t)
  BY <1>1, <1>2 DEF Live
<1>. QED  BY <1>1, <1>3 DEF Stay, Holds

LEMMA ReceiveHolds ==
  ASSUME RsyncAssumption, Types, SenderHands, ReceiverHands, NEW r \in Receivers,
         TakeStep(r), NEW c \in Chunks
  PROVE  Stay(c) \/ Move(c)
<1>0. UNCHANGED <<todo, q, spc, hand, item>> /\ c # None /\ None \notin Senders
  BY ReceiveFrame DEF RsyncAssumption
<1>1. /\ \/ Accepts(r) \/ Declines(r) \/ Registers(r) \/ Abandons(r) \/ Reads(r)
         \/ ReadsNothing(r) \/ Pushes(r) \/ IsRefused(r) \/ Closes(r)
      /\ \A t \in Receivers \ {r} : rpc'[t] = rpc[t] /\ from'[t] = from[t] /\ got'[t] = got[t]
  BY ReceiveFacts
<1>2. ASSUME rq' = rq, got'[r] = c => got[r] = c, \A s \in Senders : Live(s)' => Live(s)
      PROVE  Stay(c)
  BY <1>0, <1>1, <1>2 DEF Stay, Holds
<1>3. CASE Accepts(r)
  <2>1. PICK s \in Senders :
          /\ rpc[r] = "accept" /\ conn[s] = "backlog"
          /\ rpc'[r] = "accepted" /\ from'[r] = s /\ got'[r] = got[r]
          /\ conn'[s] = "open" /\ \A t \in Senders \ {s} : conn'[t] = conn[t]
          /\ rq' = rq
    BY <1>3 DEF Accepts
  <2>2. \A t \in Senders : Live(t)' => Live(t)
    BY <1>0, <1>1, <2>1 DEF Live
  <2>. QED  BY <1>2, <2>1, <2>2
<1>4. CASE ReadsNothing(r) \/ IsRefused(r) \/ Closes(r)
  <2>1. \A t \in Senders : Live(t)' => Live(t)
    BY <1>0, <1>1, <1>4 DEF ReadsNothing, IsRefused, Closes, Live
  <2>. QED  BY <1>0, <1>2, <1>4, <2>1 DEF ReadsNothing, IsRefused, Closes
<1>7. CASE Declines(r) \/ Registers(r) \/ Abandons(r)
  <2>1. \A t \in Senders : Live(t)' => Live(t)
    BY <1>0, <1>1, <1>7 DEF Declines, Registers, Abandons, Live
  <2>. QED  BY <1>0, <1>2, <1>7, <2>1 DEF Declines, Registers, Abandons
<1>5. CASE Reads(r)
  <2>1. PICK s \in Senders :
          /\ rpc[r] = "read" /\ from[r] = s /\ got'[r] = hand[s]
          /\ rpc'[r] = "push" /\ from'[r] = s /\ conn' = conn /\ rq' = rq
    BY <1>5 DEF Reads, Types
  <2>2. \A t \in Senders : Live(t)' => Live(t)
    BY <1>0, <1>1, <2>1 DEF Live
  <2>3. CASE hand[s] # c
    BY <1>2, <2>1, <2>2, <2>3
  <2>4. CASE hand[s] = c
    <3>1. Holds(c, "hand", s)
      BY <2>1, <2>4 DEF Holds, Live
    <3>2. conn[s] = "open" /\ spc[s] # "connect"
      BY <1>0, <2>1 DEF ReceiverHands, SenderHands
    <3>3. \A t \in Receivers \ {r} : from[t] # s
      BY <1>0, <2>1 DEF ReceiverHands
    <3>4. ~Live(s)'
      BY <1>0, <1>1, <2>1, <3>2, <3>3 DEF Live
    <3>5. ~Holds(c, "hand", s)'
      BY <3>4 DEF Holds
    <3>6. \A kind, i : kind # "got" /\ Holds(c, kind, i)' => Holds(c, kind, i)
      BY <1>0, <2>1, <2>2 DEF Holds
    <3>7. \A i : Holds(c, "got", i)' => Holds(c, "got", i) \/ i = r
      BY <1>1 DEF Holds
    <3>. QED  BY <3>1, <3>5, <3>6, <3>7, MoveIs
  <2>. QED  BY <2>3, <2>4
<1>6. CASE Pushes(r)
  <2>1. /\ rpc[r] = "push" /\ got'[r] = None /\ rpc'[r] = "close" /\ from'[r] = from[r]
        /\ conn' = conn /\ rq' = Append(rq, got[r]) /\ rq \in Seq(Chunks)
    BY <1>6 DEF Pushes, Types
  <2>2. got[r] \in Chunks
    BY <2>1 DEF ReceiverHands, Types
  <2>3. \A t \in Senders : Live(t)' => Live(t)
    BY <1>0, <1>1, <2>1 DEF Live
  <2>4. \A i \in DOMAIN rq' : (i \in DOMAIN rq /\ rq'[i] = rq[i])
                              \/ (i = Len(rq) + 1 /\ rq'[i] = got[r])
    BY <2>1, <2>2
  <2>5. CASE got[r] # c
    BY <1>0, <1>1, <2>1, <2>3, <2>4, <2>5 DEF Stay, Holds
  <2>6. CASE got[r] = c
    <3>1. Holds(c, "got", r) /\ ~Holds(c, "got", r)'
      BY <1>0, <2>1, <2>6 DEF Holds
    <3>2. \A t \in Receivers : got'[t] = c => got[t] = c
      BY <1>0, <1>1, <2>1
    <3>3. \A kind, i : kind # "rq" /\ Holds(c, kind, i)' => Holds(c, kind, i)
      BY <1>0, <2>3, <3>2 DEF Holds
    <3>4. \A i : Holds(c, "rq", i)' => Holds(c, "rq", i) \/ i = Len(rq) + 1
      BY <2>4 DEF Holds
    <3>. QED  BY <3>1, <3>3, <3>4, MoveIs
  <2>. QED  BY <2>5, <2>6
<1>. QED  BY <1>1, <1>3, <1>4, <1>5, <1>6, <1>7

LEMMA DiskHolds ==
  ASSUME RsyncAssumption, Types, WriterHands, NEW w \in Writers, DiskStep(w), NEW c \in Chunks,
         Single(c)
  PROVE  Stay(c) \/ Move(c) \/ Shift(c)
<1>0. UNCHANGED <<todo, q, spc, hand, conn, rpc, from, got>> /\ c # None
  BY DiskFrame DEF RsyncAssumption
<1>1. /\ Pops(w) \/ Opens(w) \/ Strikes(w) \/ Writes(w) \/ Fails(w) \/ Quits(w) \/ Retires(w)
      /\ \A v \in Writers \ {w} : item'[v] = item[v]
  BY DiskFacts
<1>2. \A s \in Senders : Live(s)' = Live(s)
  BY <1>0 DEF Live
<1>3. CASE ~Pops(w)
  <2>1. (rq' = rq \/ rq' = <<>>) /\ (item'[w] = c => item[w] = c)
    BY <1>0, <1>1, <1>3 DEF Opens, Strikes, Writes, Fails, Quits, Retires
  <2>2. Stay(c)
    BY <1>0, <1>1, <1>2, <2>1 DEF Stay, Holds
  <2>. QED  BY <2>2
<1>4. CASE Pops(w)
  <2>1. /\ rq # <<>> /\ item'[w] = Head(rq) /\ rq' = Tail(rq) /\ rq \in Seq(Chunks)
    BY <1>4 DEF Pops, Types
  <2>2. 1 \in DOMAIN rq /\ rq[1] = Head(rq) /\ Len(rq) \in Nat
    BY <2>1
  <2>3. \A i \in DOMAIN rq' : i \in Nat /\ i # 0 /\ i + 1 \in DOMAIN rq /\ rq'[i] = rq[i + 1]
    BY <2>1, <2>2
  <2>4. CASE Head(rq) # c
    <3>1. \A kind, i : kind \notin {"rq", "item"} /\ Holds(c, kind, i)' => Holds(c, kind, i)
      BY <1>0, <1>2 DEF Holds
    <3>2. \A i : Holds(c, "item", i)' => Holds(c, "item", i)
      BY <1>1, <2>1, <2>4 DEF Holds
    <3>3. ASSUME NEW i, Holds(c, "rq", i)' PROVE i \in Nat /\ Holds(c, "rq", i + 1)
      <4>1. i \in DOMAIN rq' /\ rq'[i] = c
        BY <3>3 DEF Holds
      <4>. QED  BY <2>3, <4>1 DEF Holds
    <3>4. \A kind, i : kind # "rq" /\ Holds(c, kind, i)' => Holds(c, kind, i)
      BY <3>1, <3>2
    <3>5. Shift(c)
      BY <3>3, <3>4 DEF Shift
    <3>. QED  BY <3>5
  <2>5. CASE Head(rq) = c
    <3>1. Holds(c, "rq", 1)
      BY <2>2, <2>5 DEF Holds
    <3>2. ASSUME NEW i, Holds(c, "rq", i)' PROVE FALSE
      <4>1. i \in DOMAIN rq' /\ rq'[i] = c
        BY <3>2 DEF Holds
      <4>2. Holds(c, "rq", i + 1)
        BY <2>3, <4>1 DEF Holds
      <4>3. i + 1 = 1
        BY <3>1, <4>2 DEF Single
      <4>. QED  BY <2>3, <4>1, <4>3
    <3>3. \A kind, i : kind \notin {"rq", "item"} /\ Holds(c, kind, i)' => Holds(c, kind, i)
      BY <1>0, <1>2 DEF Holds
    <3>4. \A i : Holds(c, "item", i)' => Holds(c, "item", i) \/ i = w
      BY <1>1 DEF Holds
    <3>5. \A kind, i : kind # "item" /\ Holds(c, kind, i)' => Holds(c, kind, i)
      BY <3>2, <3>3
    <3>. QED  BY <3>1, <3>2, <3>4, <3>5, MoveIs
  <2>. QED  BY <2>4, <2>5
<1>. QED  BY <1>3, <1>4

LEMMA NewHolds ==
  ASSUME RsyncAssumption, Types, SenderHands, ReceiverHands, WriterHands, NewStep,
         NEW c \in Chunks
  PROVE  Stay(c)
<1>1. /\ UNCHANGED <<todo, q, spc, hand>> /\ rq' = <<>> /\ c # None
      /\ \A s \in Senders : conn'[s] = conn[s] \/ conn'[s] = "cut"
      /\ \A r \in Receivers : rpc'[r] = "accept" /\ got'[r] = None
      /\ \A w \in Writers : item'[w] = None
  BY NewFacts DEF RsyncAssumption
<1>2. \A t \in Senders : Live(t)' => Live(t)
  BY <1>1 DEF Live
<1>. QED  BY <1>1, <1>2 DEF Stay, Holds

LEMMA GoesOnHolds == ASSUME StopGoesOn, NEW c \in Chunks PROVE Stay(c)
BY GoesOnFrame DEF Stay, Holds, Live

LEMMA HoldsNext ==
  ASSUME RsyncAssumption, Types, SenderHands, ReceiverHands, WriterHands, Round, Next, ~twice',
         NEW c \in Chunks, Single(c)
  PROVE  Stay(c) \/ Move(c) \/ Shift(c) \/ Anew(c)
BY Steps, MainHolds, SendHolds, BreakHolds, ReceiveHolds, DiskHolds, NewHolds, GoesOnHolds

\* A writer changes no file but of its chunk, and is nowhere but where it was or tries.
LEMMA OtherFiles ==
  ASSUME RsyncAssumption, Types, WriterHands, NEW w \in Writers, DiskStep(w),
         NEW c \in Chunks, item[w] # c
  PROVE  \A m \in Mountpoints : file'[m][c] = file[m][c]
<1>0. /\ wpc[w] \in {"mount", "write"} => item[w] \in Chunks
      /\ wpc[w] = "write" => at[w] \in Mountpoints
      /\ free \subseteq Mountpoints
  BY DEF Types, WriterHands
<1>1. Pops(w) \/ Opens(w) \/ Strikes(w) \/ Writes(w) \/ Fails(w) \/ Quits(w) \/ Retires(w)
  BY DiskFacts
<1>2. CASE file' = file
  BY <1>2
<1>3. CASE Opens(w)
  <2>1. PICK m \in free : Becomes(m, item[w], "part") /\ wpc[w] = "mount"
    BY <1>3 DEF Opens
  <2>. QED  BY <1>0, <2>1, FileChanges
<1>4. CASE Writes(w) \/ Fails(w)
  <2>1. PICK x : Becomes(at[w], item[w], x) /\ wpc[w] = "write"
    BY <1>4 DEF Writes, Fails
  <2>. QED  BY <1>0, <2>1, FileChanges
<1>. QED  BY <1>1, <1>2, <1>3, <1>4 DEF Pops, Strikes, Quits, Retires

LEMMA OtherFree ==
  ASSUME RsyncAssumption, Types, WriterHands, NEW w \in Writers, DiskStep(w),
         NEW v \in Writers, v # w, NEW m \in Mountpoints, m \in Free(v)'
  PROVE  m \in Free(v)
<1>1. /\ Pops(w) \/ Opens(w) \/ Strikes(w) \/ Writes(w) \/ Fails(w) \/ Quits(w) \/ Retires(w)
      /\ \A u \in Writers \ {w} : at'[u] = at[u]
  BY DiskFacts
<1>2. free' \subseteq Free(v)
  BY <1>1 DEF Pops, Opens, Strikes, Writes, Fails, Quits, Retires, Free
<1>3. at'[w] \in Free(v) \/ at'[w] = None
  BY <1>1 DEF Pops, Opens, Strikes, Writes, Fails, Quits, Retires, Free
<1>4. CASE m \in free'
  BY <1>2, <1>4
<1>5. ASSUME NEW u \in Writers \ {v}, m = at'[u] PROVE m \in Free(v)
  <2>1. CASE u = w
    BY <1>3, <1>5, <2>1 DEF RsyncAssumption
  <2>2. CASE u # w
    BY <1>1, <1>5, <2>2 DEF Free
  <2>. QED  BY <2>1, <2>2
<1>. QED  BY <1>4, <1>5 DEF Free

LEMMA FreshNext ==
  ASSUME RsyncAssumption, Types, SenderHands, ReceiverHands, WriterHands, Round, Next, ~twice',
         NEW c \in Chunks, Single(c), Fresh(c)
  PROVE  Fresh(c)'
<1>0. None \notin Chunks
  BY DEF RsyncAssumption
<1>1. ASSUME NEW kind, NEW i, kind # "item", Holds(c, kind, i)' PROVE NoFile(c)'
  <2>1. NoFile(c)
    BY <1>1, HoldsNext, OldOrNew DEF Fresh
  <2>2. CASE file' = file
    BY <2>1, <2>2 DEF NoFile
  <2>3. ASSUME NEW w \in Writers, DiskStep(w) PROVE NoFile(c)'
    <3>1. PICK old, j : old # "item" /\ Holds(c, old, j)
      BY <1>1, <2>3, DiskHolds DEF Stay, Move, Shift
    <3>2. item[w] # c
      BY <3>1 DEF Single, Holds
    <3>. QED  BY <2>1, <2>3, <3>2, OtherFiles DEF NoFile
  <2>. QED  BY <2>2, <2>3, Steps, MainFrame, SendFrame, BreakFacts, ReceiveFrame, NewFacts,
               GoesOnFrame
<1>2. ASSUME NEW v \in Writers, item'[v] = c, NEW m \in Mountpoints, m \in Free(v)'
      PROVE  file'[m][c] = "no"
  <2>1. item[v] = c /\ m \in Free(v) => file[m][c] = "no"
    BY DEF Fresh
  <2>2. ASSUME UNCHANGED <<item, at, free, file>> PROVE file'[m][c] = "no"
    BY <1>2, <2>1, <2>2 DEF Free
  <2>3. ASSUME NewStep PROVE FALSE
    BY <1>0, <1>2, <2>3, NewFacts
  <2>4. ASSUME NEW w \in Writers, DiskStep(w) PROVE file'[m][c] = "no"
    <3>1. /\ Pops(w) \/ Opens(w) \/ Strikes(w) \/ Writes(w) \/ Fails(w) \/ Quits(w) \/ Retires(w)
          /\ \A u \in Writers \ {w} : item'[u] = item[u] /\ at'[u] = at[u]
      BY <2>4, DiskFacts
    <3>2. CASE v # w
      <4>1. item[v] = c /\ item[w] # c
        BY <1>2, <3>1, <3>2 DEF Single, Holds
      <4>2. m \in Free(v)
        BY <1>2, <2>4, <3>2, OtherFree
      <4>. QED  BY <2>1, <2>4, <4>1, <4>2, OtherFiles
    <3>3. CASE v = w /\ Pops(w)
      <4>1. rq # <<>> /\ Head(rq) = c /\ file' = file /\ rq \in Seq(Chunks)
        BY <1>2, <3>3 DEF Pops, Types
      <4>2. 1 \in DOMAIN rq /\ rq[1] = c
        BY <4>1
      <4>3. Holds(c, "rq", 1)
        BY <4>2 DEF Holds
      <4>4. NoFile(c)
        BY <4>3 DEF Fresh
      <4>. QED  BY <4>1, <4>4 DEF NoFile
    <3>4. CASE v = w /\ Strikes(w)
      <4>1. item[v] = c /\ file' = file /\ free' \subseteq free
        BY <1>2, <3>4 DEF Strikes
      <4>2. m \in Free(v)
        BY <1>2, <3>1, <3>4, <4>1 DEF Free
      <4>. QED  BY <2>1, <4>1, <4>2
    <3>5. CASE v = w /\ Opens(w)
      <4>1. PICK n \in free : /\ Becomes(n, item[w], "part") /\ item'[w] = item[w]
                              /\ free' = free \ {n}
        BY <3>5 DEF Opens
      <4>2. \A u \in Writers : at[u] # n
        BY <4>1 DEF WriterHands, Types, RsyncAssumption
      <4>3. m # n /\ m \in Free(v)
        BY <1>2, <3>1, <3>5, <4>1, <4>2 DEF Free
      <4>4. item[w] = c /\ n \in Mountpoints
        BY <1>2, <3>5, <4>1 DEF Types
      <4>5. file'[m][c] = file[m][c]
        BY <4>1, <4>3, <4>4, FileChanges
      <4>. QED  BY <2>1, <3>5, <4>3, <4>4, <4>5
    <3>6. CASE v = w /\ Fails(w)
      <4>1. PICK left \in {"no", "part"} :
              /\ Becomes(at[w], item[w], left) /\ item'[w] = item[w] /\ wpc[w] = "write"
              /\ free' = free
        BY <3>6 DEF Fails
      <4>2. at[w] \in Mountpoints /\ at[w] # None /\ item[w] = c
        BY <1>2, <3>6, <4>1 DEF WriterHands, Types
      <4>3. \A u \in Writers \ {w} : at[u] # at[w]
        BY <4>2 DEF WriterHands
      <4>4. m # at[w] /\ m \in Free(v)
        BY <1>2, <3>1, <3>6, <4>1, <4>2, <4>3 DEF WriterHands, Free
      <4>5. file'[m][c] = file[m][c]
        BY <4>1, <4>2, <4>4, FileChanges
      <4>. QED  BY <2>1, <3>6, <4>2, <4>4, <4>5
    <3>7. CASE v = w /\ (Writes(w) \/ Quits(w))
      BY <1>0, <1>2, <3>7 DEF Writes, Quits
    <3>8. CASE v = w /\ Retires(w)
      BY <1>0, <1>2, <3>8 DEF Retires, WriterHands
    <3>. QED  BY <3>1, <3>2, <3>3, <3>4, <3>5, <3>6, <3>7, <3>8
  <2>. QED  BY <2>2, <2>3, <2>4, Steps, MainFrame, SendFrame, BreakFacts, ReceiveFrame,
               GoesOnFrame
<1>. QED  BY <1>1, <1>2 DEF Fresh

\* A mountpoint that fails is taken off the list, and nothing else is.
LEMMA BadNext ==
  ASSUME RsyncAssumption, Types, SenderHands, ReceiverHands, WriterHands, Next, ~twice',
         \A c \in Chunks : Fresh(c), Bad \subseteq failed
  PROVE  Bad' \subseteq failed'
<1>0. None \notin Mountpoints /\ free \subseteq Mountpoints
  BY DEF Types, RsyncAssumption
<1>1. ASSUME UNCHANGED <<at, free, failed>> PROVE Bad' \subseteq failed'
  BY <1>1 DEF Bad
<1>2. ASSUME MainStep \/ BreakStep \/ StopGoesOn PROVE Bad' \subseteq failed'
  BY <1>1, <1>2, MainFrame, BreakFacts, GoesOnFrame
<1>3. ASSUME NEW s \in Senders, SendStep(s) PROVE Bad' \subseteq failed'
  BY <1>1, <1>3, SendFrame
<1>4. ASSUME NEW r \in Receivers, TakeStep(r) PROVE Bad' \subseteq failed'
  BY <1>1, <1>4, ReceiveFrame
<1>5. CASE NewStep
  <2>1. free' = Mountpoints
    BY <1>5, NewFacts
  <2>. QED  BY <2>1 DEF Bad
<1>6. ASSUME NEW w \in Writers, DiskStep(w) PROVE Bad' \subseteq failed'
  <2>0. \A v \in Writers \ {w} : at'[v] = at[v]
    BY <1>6, DiskFacts
  <2>1. Pops(w) \/ Opens(w) \/ Strikes(w) \/ Writes(w) \/ Fails(w) \/ Quits(w) \/ Retires(w)
    BY <1>6, DiskFacts
  <2>2. CASE Pops(w) \/ Quits(w) \/ Retires(w)
    BY <2>0, <2>2 DEF Pops, Quits, Retires, Bad
  <2>3. CASE Opens(w)
    <3>1. PICK m \in free : wpc[w] = "mount" /\ at'[w] = m /\ free' = free \ {m}
                            /\ failed' = failed
      BY <2>3 DEF Opens
    <3>2. at[w] = None
      BY <3>1 DEF WriterHands
    <3>3. Bad' \subseteq Bad
      BY <1>0, <2>0, <3>1, <3>2 DEF Bad
    <3>. QED  BY <3>1, <3>3
  <2>4. CASE Strikes(w)
    <3>1. PICK m \in free : /\ wpc[w] = "mount" /\ at'[w] = at[w] /\ free' = free \ {m}
                            /\ \/ failed' = failed \cup {m}
                               \/ failed' = failed /\ file[m][item[w]] # "no"
      BY <2>4 DEF Strikes
    <3>2. item[w] \in Chunks
      BY <3>1 DEF WriterHands, Types
    <3>3. file[m][item[w]] = "no"
      <4>1. m \in Mountpoints \cap Free(w)
        BY <1>0 DEF Free
      <4>. QED  BY <3>2, <4>1 DEF Fresh
    <3>4. failed' = failed \cup {m}
      BY <3>1, <3>3
    <3>5. Bad' \subseteq Bad \cup {m}
      BY <2>0, <3>1 DEF Bad
    <3>. QED  BY <3>4, <3>5
  <2>5. CASE Writes(w)
    <3>1. Bad' \subseteq Bad /\ failed' = failed
      BY <2>0, <2>5 DEF Writes, Bad
    <3>. QED  BY <3>1
  <2>6. CASE Fails(w)
    <3>1. free' = free /\ failed' = failed \cup {at[w]}
      BY <2>6 DEF Fails
    <3>2. ASSUME NEW m \in Bad', m # at[w] PROVE m \in Bad
      BY <2>0, <3>1, <3>2 DEF Bad
    <3>. QED  BY <3>1, <3>2
  <2>. QED  BY <2>1, <2>2, <2>3, <2>4, <2>5, <2>6
<1>. QED  BY <1>2, <1>3, <1>4, <1>5, <1>6, Steps

LEMMA MountNext ==
  ASSUME RsyncAssumption, IInv, MountInv, [Next]_vars
  PROVE  MountInv'
<1>1. CASE Next
  <2>. SUFFICES ASSUME ~twice'
                PROVE  (\A c \in Chunks : Single(c) /\ Fresh(c))' /\ Bad' \subseteq failed'
    BY DEF MountInv
  <2>1. /\ ~twice /\ Types /\ SenderHands /\ ReceiverHands /\ WriterHands /\ Round
        /\ \A c \in Chunks : Single(c) /\ Fresh(c)
        /\ Bad \subseteq failed
    BY <1>1, TwiceStays DEF IInv, MountInv
  <2>2. ASSUME NEW c \in Chunks PROVE Single(c)' /\ Fresh(c)'
    BY <1>1, <2>1, HoldsNext, SingleStays, FreshNext
  <2>3. Bad' \subseteq failed'
    BY <1>1, <2>1, BadNext
  <2>. QED  BY <2>2, <2>3
<1>2. CASE UNCHANGED vars
  <2>1. UNCHANGED <<todo, q, spc, hand, conn, rpc, from, got, rq, item, at, free, file, failed,
                    twice>>
    BY <1>2 DEF vars, sender, receiver, disks, history
  <2>2. \A s : Live(s)' = Live(s)
    BY <2>1 DEF Live
  <2>3. \A c, kind, i : Holds(c, kind, i)' = Holds(c, kind, i)
    BY <2>1, <2>2 DEF Holds
  <2>4. \A c \in Chunks : (Single(c) => Single(c)') /\ (Fresh(c) => Fresh(c)')
    BY <2>1, <2>3 DEF Single, Fresh, NoFile, Free
  <2>5. Bad' = Bad
    BY <2>1 DEF Bad
  <2>. QED  BY <2>1, <2>4, <2>5 DEF MountInv
<1>. QED  BY <1>1, <1>2

\* However many threads, mountpoints and failures of any kind there are: as long as no chunk
\* is sent again while a copy of it is on its way, parallelwriter takes a mountpoint for bad
\* only when that mountpoint failed, never because the file it opens is there.
THEOREM RsyncMountpoints == ASSUME RsyncAssumption PROVE Spec => []GoodMountpointsStay
<1>1. Init => MountInv
  <2>. SUFFICES ASSUME Init PROVE MountInv
    OBVIOUS
  <2>1. ASSUME NEW c \in Chunks, NEW kind, NEW i PROVE ~Holds(c, kind, i)
    BY DEF Init, Holds, RsyncAssumption
  <2>2. ASSUME NEW c \in Chunks PROVE Single(c) /\ Fresh(c)
    BY <2>1 DEF Single, Fresh, Init, RsyncAssumption
  <2>3. Bad = {}
    BY DEF Init, Bad
  <2>. QED  BY <2>2, <2>3 DEF MountInv
<1>2. IInv /\ MountInv /\ [Next]_vars => MountInv'
  BY MountNext
<1>3. MountInv => GoodMountpointsStay
  BY DEF MountInv, GoodMountpointsStay, Bad
<1>. QED  BY <1>1, <1>2, <1>3, Always, PTL DEF Spec

=============================================================================
