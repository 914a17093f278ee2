---------------------------- MODULE ChannelBean ----------------------------
(***************************************************************************)
(* NtripChannelBean of ntrip/ntrip_map.go: the bounded send queue in front *)
(* of one subscriber's connection, the goroutines that fill it (Send,      *)
(* SendLoss, the caster's broadcast), the writer goroutine that drains it, *)
(* and Close.                                                              *)
(*                                                                         *)
(* The queue is a Go channel: every select on it is one step, and other    *)
(* goroutines run between two selects of the same call.  An atomic counter *)
(* that is bumped right after a select belongs to that step.  A packet is  *)
(* an identity, the goroutine it came from and a size in bytes; its        *)
(* contents are abstracted away.  The variables offered, since, skipped    *)
(* and wire are histories.                                                 *)
(***************************************************************************)
EXTENDS Integers, Sequences, FiniteSets

CONSTANTS
  Senders,     \* goroutines that call Send or SendLoss
  QueueSize,   \* defaultNtripSendQueueSize
  MaxRetries,  \* write timeouts tolerated in a row (3 in the code)
  MaxSize,     \* bound: largest packet, in bytes
  MaxPackets,  \* bound: packets offered in a behaviour
  NoPacket     \* nothing in hand

Packets == [id : 1..MaxPackets, from : Senders, size : 0..MaxSize]

ASSUME BeanAssumption ==
  /\ IsFiniteSet(Senders)
  /\ QueueSize \in Nat \ {0}
  /\ MaxRetries \in Nat
  /\ MaxSize \in Nat
  /\ MaxPackets \in Nat
  /\ NoPacket \notin Packets

VARIABLES
  send,       \* the channel c.send
  once,       \* progress of Close: "new", "flag", "quit", "done"
  connOpen,   \* the connection has not been closed by this side
  wpc,        \* the writer: "select", "write", "exit", "done"
  msg,        \* the packet the writer took and has not counted
  written,    \* bytes of msg written so far
  attempt,    \* consecutive timeouts on msg
  spc,        \* sender: "idle"; SendLoss "try", "evict", "retry";
              \*         Send "offer", "block"
  pkt,        \* sender -> the packet it carries
  packets,    \* c.packets
  bytesSent,  \* c.bytesSent
  dropped,    \* c.dropped
  offered,    \* packets that got past the closed check of a call
  since,      \* sender in a SendLoss -> packets queued since it made room
  skipped,    \* empty packets the writer passed over
  wire        \* every byte handed to the connection, in order

senderVars == <<spc, pkt, offered, since>>
writerVars == <<wpc, msg, written, attempt, packets, bytesSent, skipped, wire>>
closeVars == <<once, connOpen>>
vars == <<send, dropped, senderVars, writerVars, closeVars>>

\* One byte on the connection: the packet it is part of and its position.
Bytes == [p : Packets, at : 1..MaxSize]

\* c.closed is stored by the first step of Close, c.quit closed by the second.
Closed == once # "new"
QuitClosed == once \in {"quit", "done"}

TypeOK ==
  /\ send \in Seq(Packets)
  /\ Len(send) <= QueueSize
  /\ once \in {"new", "flag", "quit", "done"}
  /\ connOpen \in BOOLEAN
  /\ wpc \in {"select", "write", "exit", "done"}
  /\ msg \in Packets \cup {NoPacket}
  /\ written \in 0..MaxSize
  /\ attempt \in 0..MaxRetries
  /\ spc \in [Senders -> {"idle", "try", "evict", "retry", "offer", "block"}]
  /\ pkt \in [Senders -> Packets \cup {NoPacket}]
  /\ packets \in Nat /\ bytesSent \in Nat /\ dropped \in Nat
  /\ offered \in 0..MaxPackets
  /\ since \in [Senders -> SUBSET Packets]
  /\ skipped \in Nat
  /\ wire \in Seq(Bytes)

Init ==
  /\ send = <<>>
  /\ once = "new"
  /\ connOpen = TRUE
  /\ wpc = "select"
  /\ msg = NoPacket
  /\ written = 0
  /\ attempt = 0
  /\ spc = [s \in Senders |-> "idle"]
  /\ pkt = [s \in Senders |-> NoPacket]
  /\ packets = 0 /\ bytesSent = 0 /\ dropped = 0
  /\ offered = 0
  /\ since = [s \in Senders |-> {}]
  /\ skipped = 0
  /\ wire = <<>>

---------------------------------------------------------------------------
(* Senders.                                                                *)

Room == Len(send) < QueueSize

\* A call gets past its checks with a new packet; it carries on at pc.
\* A call on a closed bean returns without any effect.
Carry(s, size, pc) ==
  /\ spc[s] = "idle"
  /\ ~Closed
  /\ offered < MaxPackets
  /\ spc' = [spc EXCEPT ![s] = pc]
  /\ pkt' = [pkt EXCEPT ![s] = [id |-> offered + 1, from |-> s, size |-> size]]
  /\ offered' = offered + 1
  /\ UNCHANGED <<since, send, dropped, writerVars, closeVars>>

\* The call of sender s ends.
Return(s) ==
  /\ spc' = [spc EXCEPT ![s] = "idle"]
  /\ pkt' = [pkt EXCEPT ![s] = NoPacket]
  /\ UNCHANGED <<offered, writerVars, closeVars>>

Goto(s, pc) ==
  /\ spc' = [spc EXCEPT ![s] = pc]
  /\ since' = [since EXCEPT ![s] = {}]
  /\ UNCHANGED <<pkt, offered, writerVars, closeVars>>

\* case c.send <- data
Enqueue(s) ==
  /\ Room
  /\ send' = Append(send, pkt[s])
  /\ since' = [t \in Senders |-> IF t # s /\ spc[t] = "retry"
                               THEN since[t] \cup {pkt[s]} ELSE {}]
  /\ UNCHANGED dropped
  /\ Return(s)

\* The packet of sender s is thrown away and counted.
Discard(s) ==
  /\ dropped' = dropped + 1
  /\ since' = [since EXCEPT ![s] = {}]
  /\ UNCHANGED send
  /\ Return(s)

\* sendLossOwned ignores empty data; Send does not.
SendLoss(s, size) == size > 0 /\ Carry(s, size, "try")

LossTry(s) ==
  /\ spc[s] = "try"
  /\ \/ Enqueue(s)
     \/ ~Room /\ Goto(s, "evict") /\ UNCHANGED <<send, dropped>>

\* Making room without counting the packet that is thrown away.
LossEvictUncounted(s) ==
  /\ spc[s] = "evict"
  /\ \/ send # <<>> /\ send' = Tail(send) /\ UNCHANGED dropped
     \/ send = <<>> /\ UNCHANGED <<send, dropped>>
  /\ Goto(s, "retry")

\* Not making room at all before the second attempt.
LossEvictNothing(s) ==
  /\ spc[s] = "evict"
  /\ UNCHANGED <<send, dropped>>
  /\ Goto(s, "retry")

LossEvict(s) ==
  /\ spc[s] = "evict"
  /\ \/ send # <<>> /\ send' = Tail(send) /\ dropped' = dropped + 1
     \/ send = <<>> /\ UNCHANGED <<send, dropped>>
  /\ Goto(s, "retry")

LossRetry(s) ==
  /\ spc[s] = "retry"
  /\ Enqueue(s) \/ (~Room /\ Discard(s))

Send(s, size) == Carry(s, size, "offer")

SendTry(s) ==
  /\ spc[s] = "offer"
  /\ \/ Enqueue(s)
     \/ ~Room /\ Goto(s, "block") /\ UNCHANGED <<send, dropped>>

\* A second select without the timer.
SendBlockedForever(s) == spc[s] = "block" /\ Enqueue(s)

\* The second select of Send: room turns up, or 200 ms pass.
SendBlocked(s) == spc[s] = "block" /\ (Enqueue(s) \/ Discard(s))

Sender(s) ==
  LossTry(s) \/ LossEvict(s) \/ LossRetry(s) \/ SendTry(s) \/ SendBlocked(s)

---------------------------------------------------------------------------
(* The writer goroutine.                                                   *)

writerRest == <<senderVars, closeVars, dropped>>

\* case msg := <-c.send; an empty packet is passed over.
WriterTake ==
  /\ wpc = "select"
  /\ send # <<>>
  /\ send' = Tail(send)
  /\ \/ /\ Head(send).size = 0
        /\ skipped' = skipped + 1
        /\ UNCHANGED <<wpc, msg>>
     \/ /\ Head(send).size > 0
        /\ msg' = Head(send)
        /\ wpc' = "write"
        /\ UNCHANGED skipped
  /\ written' = 0 /\ attempt' = 0
  /\ UNCHANGED <<packets, bytesSent, wire, writerRest>>

\* The bytes of p after the first k, up to k + n.
Slice(p, k, n) == [i \in 1..n |-> [p |-> p, at |-> k + i]]

\* A write that starts the packet over when the connection took only a part.
WroteRestarts(n) ==
  /\ written' = IF written + n = msg.size THEN written + n ELSE 0
  /\ wire' = wire \o Slice(msg, written, n)

\* n, err := c.conn.Write(msg[written:]); written += n
Wrote(n) ==
  /\ written' = written + n
  /\ wire' = wire \o Slice(msg, written, n)

\* The writer is in its inner loop and the connection takes n bytes.
Writing(n) ==
  /\ wpc = "write"
  /\ written < msg.size
  /\ n <= msg.size - written
  /\ Wrote(n)

WriterWrite(n) ==
  /\ connOpen /\ n > 0
  /\ Writing(n)
  /\ attempt' = 0
  /\ UNCHANGED <<send, wpc, msg, packets, bytesSent, skipped, writerRest>>

\* Retrying a timed-out packet by queueing it again.
WriterTimeoutRequeues(n) ==
  /\ connOpen
  /\ Writing(n)
  /\ attempt < MaxRetries /\ attempt' = attempt + 1
  /\ send' = Append(send, msg) /\ wpc' = "select" /\ msg' = NoPacket
  /\ UNCHANGED <<packets, bytesSent, skipped, writerRest>>

\* The write deadline passes, possibly after some bytes went out.
WriterTimeout(n) ==
  /\ connOpen
  /\ Writing(n)
  /\ \/ attempt < MaxRetries /\ attempt' = attempt + 1 /\ UNCHANGED wpc
     \/ attempt >= MaxRetries /\ wpc' = "exit" /\ UNCHANGED attempt
  /\ UNCHANGED <<send, msg, packets, bytesSent, skipped, writerRest>>

\* Any other error, or a write that reports no progress, ends the writer.
WriterFail(n) ==
  /\ connOpen \/ n = 0
  /\ Writing(n)
  /\ wpc' = "exit"
  /\ UNCHANGED <<send, msg, attempt, packets, bytesSent, skipped, writerRest>>

WriterCount ==
  /\ wpc = "write"
  /\ written = msg.size
  /\ packets' = packets + 1
  /\ bytesSent' = bytesSent + msg.size
  /\ msg' = NoPacket /\ written' = 0
  /\ wpc' = "select"
  /\ UNCHANGED <<send, attempt, skipped, wire, writerRest>>

\* case <-c.quit
WriterQuit ==
  /\ wpc = "select"
  /\ QuitClosed
  /\ wpc' = "exit"
  /\ UNCHANGED <<send, msg, written, attempt, packets, bytesSent, skipped,
                 wire, writerRest>>

\* The deferred c.Close() returns once some goroutine has finished it.
WriterDone ==
  /\ wpc = "exit" /\ once = "done"
  /\ wpc' = "done"
  /\ UNCHANGED <<send, msg, written, attempt, packets, bytesSent, skipped,
                 wire, writerRest>>

---------------------------------------------------------------------------
(* Close, run once by whichever goroutine gets there first.                *)

CloseStep(from, to) ==
  /\ once = from
  /\ once' = to
  /\ UNCHANGED <<send, dropped, senderVars, writerVars>>

\* The connection handler, CloseAll or any other holder of the bean.
CloseByHolder == CloseStep("new", "flag") /\ UNCHANGED connOpen

\* The writer's own deferred Close, left out.
CloseByWriterForgotten == FALSE /\ UNCHANGED vars

\* The writer's own deferred Close.
CloseByWriter == wpc = "exit" /\ CloseStep("new", "flag") /\ UNCHANGED connOpen

CloseQuit == CloseStep("flag", "quit") /\ UNCHANGED connOpen

CloseConn == CloseStep("quit", "done") /\ connOpen' = FALSE

\* The caster also closes accepted connections directly (Stop).
ConnClosedElsewhere ==
  /\ connOpen
  /\ connOpen' = FALSE
  /\ UNCHANGED <<send, dropped, once, senderVars, writerVars>>

WriterIO ==
  \E n \in 0..MaxSize : WriterWrite(n) \/ WriterTimeout(n) \/ WriterFail(n)

Writer ==
  WriterTake \/ WriterIO \/ WriterCount \/ WriterQuit \/ WriterDone
    \/ CloseByWriter

Next ==
  \/ \E s \in Senders, size \in 0..MaxSize : SendLoss(s, size) \/ Send(s, size)
  \/ \E s \in Senders : Sender(s)
  \/ Writer
  \/ CloseByHolder \/ CloseQuit \/ CloseConn
  \/ ConnClosedElsewhere

Spec == Init /\ [][Next]_vars

\* Started goroutines keep running: every select of a sender has a default
\* or a timer, every write a deadline, and Close never blocks.
FairSpec ==
  /\ Spec
  /\ \A s \in Senders : WF_vars(Sender(s))
  /\ WF_vars(Writer)
  /\ WF_vars(CloseQuit) /\ WF_vars(CloseConn)

---------------------------------------------------------------------------
(* Properties.                                                             *)

InFlight == {s \in Senders : spc[s] # "idle"}
InHand == IF msg = NoPacket THEN 0 ELSE 1

\* No packet disappears without being counted: each one that was accepted is
\* written (packets), discarded (dropped), passed over as empty, or still in
\* the queue, in the writer's hand or with its sender -- although the sender
\* and the writer take from the same queue (ntrip_map.go:89-91, 132-146).
Accounting ==
  offered = packets + dropped + skipped + Len(send) + InHand
              + Cardinality(InFlight)

\* The subscriber's byte stream is never torn: partial writes, timeouts and
\* retries (ntrip_map.go:66-88) leave whole packets one after the other, each
\* with its bytes in order; only a writer that has given up may end the
\* stream inside a packet.  BytesSent accounts for all of it but the part of
\* the packet being written.
StreamIntact ==
  /\ \A i \in 1..Len(wire) :
       \/ /\ wire[i].at = 1
          /\ i > 1 => wire[i-1].at = wire[i-1].p.size
       \/ /\ i > 1
          /\ wire[i-1].p = wire[i].p
          /\ wire[i-1].at = wire[i].at - 1
  /\ Len(wire) = bytesSent + written

\* What the subscriber reads first: the bytes on the wire, then the packet
\* in the writer's hand, then the queue.
Ahead(p, q) == p.from = q.from => p.id < q.id

\* Packets of one sender are never reordered, neither on the wire nor on the
\* way there: evicting and writing both take from the front.
InOrder ==
  /\ \A i, j \in 1..Len(wire) :
       i < j => wire[i].p = wire[j].p \/ Ahead(wire[i].p, wire[j].p)
  /\ \A j \in 1..Len(send) :
       /\ \A i \in 1..Len(wire) : Ahead(wire[i].p, send[j])
       /\ msg # NoPacket => Ahead(msg, send[j])
       /\ \A i \in 1..(j-1) : Ahead(send[i], send[j])

\* SendLoss makes room by giving up the front of the queue, and gives up its
\* own packet only where that room is gone again: the last packet of the full
\* queue was put there by another sender after this one had made room
\* (ntrip_map.go:132-146).
DropOldest ==
  [][\A s \in Senders :
       LossRetry(s) /\ dropped' > dropped => send[Len(send)] \in since[s]]_vars

\* "when the queue is full drop the old data and keep the newest real-time
\* data" (ntrip_map.go:121): the packet that SendLoss gives up is older than
\* every packet that stays queued, packets counted in the order of the calls
\* that brought them.
NewestKept ==
  [][\A s \in Senders :
       LossRetry(s) /\ dropped' > dropped
         => \A i \in 1..Len(send) : pkt[s].id < send[i].id]_vars

\* A bean that somebody has begun to close, or whose writer has given up,
\* ends as a whole: later sends are refused, the writer is gone, and the
\* handler blocked in a read is woken by the closed connection
\* (ntrip_map.go:51-55, 92-94, 157-168).
BeanEnds ==
  (Closed \/ wpc = "exit") ~> (Closed /\ wpc = "done" /\ ~connOpen)

\* No sender is held up for good by a subscriber that does not read, or by a
\* bean that was closed under it (ntrip_map.go:111-118).
SendReturns == \A s \in Senders : spc[s] # "idle" ~> spc[s] = "idle"
============================================================================
