------------------------- MODULE ChannelBeanProofs -------------------------
(***************************************************************************)
(* The send queue of a subscriber, for every queue size, number of senders *)
(* and packet size: no packet is lost without being counted, the byte      *)
(* stream is never torn, the oldest packet goes first, and the packets of  *)
(* one sender stay in order.                                               *)
(***************************************************************************)
EXTENDS ChannelBean, FiniteSetTheorems, SequenceTheorems, TLAPS

(***************************************************************************)
(* What is in whose hand.  Accounting needs that a sender past its checks  *)
(* has a packet and that the writer waits at its select empty-handed; the  *)
(* types of written and wire need that the writer never runs past msg.     *)
(***************************************************************************)
Hands ==
  /\ \A s \in Senders :
       spc[s] # "idle" => pkt[s] \in Packets /\ pkt[s].from = s
  /\ wpc = "write" => msg \in Packets /\ written <= msg.size
  /\ wpc = "select" => msg = NoPacket /\ written = 0

\* The end of the stream is where the writer stands: inside msg after
\* written bytes, or at the end of a packet.
Position ==
  /\ written > 0 => /\ msg \in Packets
                    /\ wire # <<>>
                    /\ wire[Len(wire)] = [p |-> msg, at |-> written]
  /\ written = 0 /\ wire # <<>> => wire[Len(wire)].at = wire[Len(wire)].p.size

\* A packet is not NoPacket, and its fields are in range.
LEMMA PacketFacts ==
  /\ NoPacket \notin Packets
  /\ \A p \in Packets : p.size \in 0..MaxSize /\ p.id \in 1..MaxPackets
  BY BeanAssumption DEF Packets

\* The types and hands hold initially.
LEMMA InitTypes == Init => TypeOK /\ Hands
  BY BeanAssumption DEF Init, TypeOK, Hands

\* Taking the oldest packet out of a queue that is not empty.
LEMMA TakeFirst ==
  ASSUME send \in Seq(Packets), send # <<>>
  PROVE  /\ Head(send) \in Packets
         /\ Tail(send) \in Seq(Packets)
         /\ Len(Tail(send)) = Len(send) - 1
         /\ Len(send) \in Nat \ {0}
  BY HeadTailProperties, EmptySeq, LenProperties

\* The bytes of a packet that one write puts on the wire.
LEMMA SliceType ==
  ASSUME NEW p \in Packets, NEW k \in Nat, NEW n \in Nat, k + n <= p.size
  PROVE  /\ Slice(p, k, n) \in Seq(Bytes)
         /\ Len(Slice(p, k, n)) = n
         /\ \A i \in 1..n : Slice(p, k, n)[i] = [p |-> p, at |-> k + i]
<1>1. p.size \in 0..MaxSize /\ MaxSize \in Nat
  BY PacketFacts, BeanAssumption
<1>2. \A i \in 1..n : [p |-> p, at |-> k + i] \in Bytes
  BY <1>1 DEF Bytes
<1>3. Slice(p, k, n) \in [1..n -> Bytes]
  BY <1>2 DEF Slice
<1> QED BY <1>3 DEF Slice

\* Every step keeps the types and what is in whose hand.
LEMMA StepTypes == TypeOK /\ Hands /\ [Next]_vars => TypeOK' /\ Hands'
<1> SUFFICES ASSUME TypeOK, Hands, [Next]_vars
             PROVE  TypeOK' /\ Hands'
  OBVIOUS
<1> USE BeanAssumption, PacketFacts
<1>1. ASSUME NEW s \in Senders, NEW size \in 0..MaxSize,
             NEW at \in {"try", "offer"}, Carry(s, size, at)
      PROVE  TypeOK' /\ Hands'
  <2>1. [id |-> offered + 1, from |-> s, size |-> size] \in Packets
    BY <1>1 DEF Carry, Packets, TypeOK
  <2> QED
    BY <1>1, <2>1
    DEF Carry, TypeOK, Hands, writerVars, closeVars
<1>2. ASSUME NEW s \in Senders, spc[s] # "idle", Enqueue(s)
      PROVE  TypeOK' /\ Hands'
  <2>1. pkt[s] \in Packets
    BY <1>2 DEF Hands
  <2>2. send' \in Seq(Packets) /\ Len(send') <= QueueSize
    BY <1>2, <2>1 DEF Enqueue, Room, TypeOK
  <2>3. since' \in [Senders -> SUBSET Packets]
    BY <1>2, <2>1 DEF Enqueue, TypeOK
  <2> QED
    BY <1>2, <2>2, <2>3
    DEF Enqueue, Return, TypeOK, Hands, writerVars, closeVars
<1>3. ASSUME NEW s \in Senders, Discard(s)
      PROVE  TypeOK' /\ Hands'
  BY <1>3 DEF Discard, Return, TypeOK, Hands, writerVars, closeVars
<1>4. ASSUME NEW s \in Senders, spc[s] # "idle",
             NEW at \in {"evict", "retry", "block"},
             Goto(s, at), UNCHANGED <<send, dropped>>
      PROVE  TypeOK' /\ Hands'
  BY <1>4 DEF Goto, TypeOK, Hands, writerVars, closeVars
<1>5. ASSUME NEW s \in Senders, LossEvict(s)
      PROVE  TypeOK' /\ Hands'
  <2>1. /\ spc[s] # "idle" /\ Goto(s, "retry")
        /\ dropped' \in Nat
        /\ (send # <<>> /\ send' = Tail(send)) \/ send' = send
    BY <1>5 DEF LossEvict, TypeOK
  <2>2. send' \in Seq(Packets) /\ Len(send') <= QueueSize
    <3>1. CASE send' = send
      BY <3>1 DEF TypeOK
    <3>2. CASE send # <<>> /\ send' = Tail(send)
      <4>1. /\ send \in Seq(Packets)
            /\ Len(send) \in Nat /\ Len(send) <= QueueSize
        BY DEF TypeOK
      <4>2. Tail(send) \in Seq(Packets) /\ Len(Tail(send)) = Len(send) - 1
        BY <3>2, <4>1, TakeFirst
      <4> QED BY <3>2, <4>1, <4>2
    <3> QED BY <2>1, <3>1, <3>2
  <2>3. TypeOK'
    <3>1. spc' \in [Senders -> {"idle", "try", "evict", "retry", "offer", "block"}]
      BY <2>1 DEF Goto, TypeOK
    <3> QED BY <2>1, <2>2, <3>1 DEF Goto, TypeOK, writerVars, closeVars
  <2>4. Hands'
    BY <2>1 DEF Goto, TypeOK, Hands, writerVars, closeVars
  <2> QED BY <2>3, <2>4
<1>6. CASE WriterTake
  <2>0. send # <<>> /\ send' = Tail(send)
    BY <1>6 DEF WriterTake
  <2>1. /\ Head(send) \in Packets
        /\ send' \in Seq(Packets) /\ Len(send') <= QueueSize
    BY <2>0, TakeFirst DEF TypeOK
  <2> QED
    BY <1>6, <2>1
    DEF WriterTake, TypeOK, Hands, writerRest, senderVars, closeVars
<1>7. ASSUME NEW n \in 0..MaxSize, Writing(n)
      PROVE  /\ written' \in 0..MaxSize /\ wire' \in Seq(Bytes)
             /\ msg \in Packets /\ written' <= msg.size
  <2>1. /\ msg \in Packets /\ written \in Nat /\ n \in Nat
        /\ written + n <= msg.size
    BY <1>7 DEF Writing, Hands, TypeOK
  <2>2. Slice(msg, written, n) \in Seq(Bytes)
    BY <2>1, SliceType
  <2>3. wire \o Slice(msg, written, n) \in Seq(Bytes)
    BY <2>2 DEF TypeOK
  <2> QED BY <1>7, <2>1, <2>3 DEF Writing, Wrote, TypeOK
<1>8. ASSUME NEW n \in 0..MaxSize, WriterWrite(n)
      PROVE  TypeOK' /\ Hands'
  <2>1. Writing(n) /\ wpc = "write" BY <1>8 DEF WriterWrite, Writing
  <2> QED
    BY <1>7, <1>8, <2>1
    DEF WriterWrite, TypeOK, Hands, writerRest, senderVars, closeVars
<1>9. ASSUME NEW n \in 0..MaxSize, WriterTimeout(n)
      PROVE  TypeOK' /\ Hands'
  <2>1. Writing(n) /\ wpc = "write" BY <1>9 DEF WriterTimeout, Writing
  <2> QED
    BY <1>7, <1>9, <2>1
    DEF WriterTimeout, TypeOK, Hands, writerRest, senderVars, closeVars
<1>10. ASSUME NEW n \in 0..MaxSize, WriterFail(n)
       PROVE  TypeOK' /\ Hands'
  <2>1. Writing(n) /\ wpc = "write" BY <1>10 DEF WriterFail, Writing
  <2> QED
    BY <1>7, <1>10, <2>1
    DEF WriterFail, TypeOK, Hands, writerRest, senderVars, closeVars
<1>11. CASE WriterCount
  BY <1>11 DEF WriterCount, TypeOK, Hands, writerRest, senderVars, closeVars
<1>12. CASE WriterQuit \/ WriterDone
  BY <1>12
  DEF WriterQuit, WriterDone, TypeOK, Hands, writerRest, senderVars, closeVars
<1>13. CASE CloseByHolder \/ CloseByWriter \/ CloseQuit \/ CloseConn
              \/ ConnClosedElsewhere
  BY <1>13
  DEF CloseByHolder, CloseByWriter, CloseQuit, CloseConn, CloseStep,
      ConnClosedElsewhere, TypeOK, Hands, senderVars, writerVars
<1>14. CASE UNCHANGED vars
  BY <1>14 DEF vars, senderVars, writerVars, closeVars, TypeOK, Hands
<1>15. ASSUME NEW s \in Senders, Sender(s)
       PROVE  TypeOK' /\ Hands'
  BY <1>2, <1>3, <1>4, <1>5, <1>15
  DEF Sender, LossTry, LossRetry, SendTry, SendBlocked
<1> QED
  BY <1>1, <1>6, <1>8, <1>9, <1>10, <1>11, <1>12, <1>13, <1>14, <1>15
  DEF Next, Writer, WriterIO, SendLoss, Send

\* The variables keep their types; in particular the queue never holds more
\* than its capacity and the writer never writes past its packet
\* (ntrip_map.go:44, 66-88, 132-146).
THEOREM BeanTypeCorrect == Spec => []TypeOK
<1>1. Spec => [](TypeOK /\ Hands)
  BY InitTypes, StepTypes, PTL DEF Spec
<1> QED BY <1>1, PTL

---------------------------------------------------------------------------
(* Accounting.                                                             *)

\* A call that begins adds its sender to those in flight, a call that ends
\* removes it.
LEMMA InFlightCount ==
  ASSUME TypeOK, NEW s \in Senders, NEW at, spc' = [spc EXCEPT ![s] = at]
  PROVE  /\ Cardinality(InFlight) \in Nat
         /\ spc[s] = "idle" /\ at # "idle"
              => Cardinality(InFlight') = Cardinality(InFlight) + 1
         /\ spc[s] # "idle" /\ at = "idle"
              => Cardinality(InFlight') = Cardinality(InFlight) - 1
         /\ spc[s] # "idle" /\ at # "idle" => InFlight' = InFlight
<1>1. IsFiniteSet(InFlight)
  BY BeanAssumption, FS_Subset DEF InFlight
<1>2. Cardinality(InFlight) \in Nat
  BY <1>1, FS_CardinalityType
<1>3. CASE spc[s] = "idle" /\ at # "idle"
  <2>1. InFlight' = InFlight \cup {s} /\ s \notin InFlight
    BY <1>3 DEF InFlight, TypeOK
  <2> QED BY <1>1, <1>2, <1>3, <2>1, FS_AddElement
<1>4. CASE spc[s] # "idle" /\ at = "idle"
  <2>1. InFlight' = InFlight \ {s} /\ s \in InFlight
    BY <1>4 DEF InFlight, TypeOK
  <2> QED BY <1>1, <1>2, <1>4, <2>1, FS_RemoveElement
<1>5. CASE spc[s] # "idle" /\ at # "idle"
  BY <1>2, <1>5 DEF InFlight, TypeOK
<1> QED BY <1>2, <1>3, <1>4, <1>5

\* Every step moves a packet from one term of the sum to another, or adds a
\* new packet to both sides.
LEMMA StepAccounts ==
  TypeOK /\ Hands /\ Accounting /\ [Next]_vars => Accounting'
<1> SUFFICES ASSUME TypeOK, Hands, Accounting, [Next]_vars
             PROVE  Accounting'
  OBVIOUS
<1> USE BeanAssumption, PacketFacts DEF TypeOK, Accounting, InHand
<1>0. Cardinality(InFlight) \in Nat /\ Len(send) \in Nat
  BY FS_Subset, FS_CardinalityType DEF InFlight
<1>1. ASSUME NEW s \in Senders, NEW size \in 0..MaxSize,
             NEW at \in {"try", "offer"}, Carry(s, size, at)
      PROVE  Accounting'
  <2>1. Cardinality(InFlight') = Cardinality(InFlight) + 1
    BY <1>1, InFlightCount DEF Carry
  <2>2. /\ offered' = offered + 1 /\ packets' = packets /\ skipped' = skipped
        /\ msg' = msg /\ dropped' = dropped /\ send' = send
    BY <1>1 DEF Carry, writerVars
  <2> QED BY <1>0, <2>1, <2>2
<1>2. ASSUME NEW s \in Senders, spc[s] # "idle", Enqueue(s)
      PROVE  Accounting'
  <2>1. Cardinality(InFlight') = Cardinality(InFlight) - 1
    BY <1>2, InFlightCount DEF Enqueue, Return
  <2>2. Len(send') = Len(send) + 1
    BY <1>2 DEF Enqueue, Hands
  <2> QED BY <1>0, <1>2, <2>1, <2>2 DEF Enqueue, Return, writerVars
<1>3. ASSUME NEW s \in Senders, spc[s] # "idle", Discard(s)
      PROVE  Accounting'
  <2>1. Cardinality(InFlight') = Cardinality(InFlight) - 1
    BY <1>3, InFlightCount DEF Discard, Return
  <2> QED BY <1>0, <1>3, <2>1 DEF Discard, Return, writerVars
<1>4. ASSUME NEW s \in Senders, spc[s] # "idle",
             NEW at \in {"evict", "retry", "block"},
             Goto(s, at), UNCHANGED <<send, dropped>>
      PROVE  Accounting'
  <2>1. InFlight' = InFlight
    BY <1>4, InFlightCount DEF Goto
  <2> QED BY <1>0, <1>4, <2>1 DEF Goto, writerVars
<1>5. ASSUME NEW s \in Senders, LossEvict(s)
      PROVE  Accounting'
  <2>1. InFlight' = InFlight
    BY <1>5 DEF LossEvict, Goto, InFlight
  <2>2. send # <<>> => Len(Tail(send)) = Len(send) - 1
    BY TakeFirst DEF TypeOK
  <2>3. /\ offered' = offered /\ packets' = packets /\ skipped' = skipped
        /\ msg' = msg
        /\ \/ send # <<>> /\ send' = Tail(send) /\ dropped' = dropped + 1
           \/ send' = send /\ dropped' = dropped
    BY <1>5 DEF LossEvict, Goto, writerVars
  <2>4. /\ dropped' + Len(send') = dropped + Len(send)
        /\ Len(send') \in Nat /\ dropped' \in Nat
    <3>1. CASE send # <<>> /\ send' = Tail(send) /\ dropped' = dropped + 1
      <4>1. Len(send') = Len(send) - 1 /\ Len(send) \in Nat \ {0}
        BY <3>1, TakeFirst
      <4> QED BY <3>1, <4>1
    <3>2. CASE send' = send /\ dropped' = dropped
      BY <1>0, <3>2
    <3> QED BY <2>3, <3>1, <3>2
  <2>5. InHand' = InHand /\ InHand \in Nat
    BY <2>3
  <2> HIDE DEF InHand, TypeOK
  <2>6. offered \in Nat /\ packets \in Nat /\ dropped \in Nat /\ skipped \in Nat
    BY DEF TypeOK
  <2>7. Cardinality(InFlight)' = Cardinality(InFlight)
    BY <2>1
  <2>8. offered = packets + dropped' + skipped + Len(send') + InHand
                    + Cardinality(InFlight)
    <3> DEFINE flying == Cardinality(InFlight)
               queued == Len(send)
               left == Len(send')
               lost == dropped'
    <3>1. flying \in Nat /\ queued \in Nat /\ left \in Nat /\ lost \in Nat
      BY <1>0, <2>4
    <3>2. offered = packets + dropped + skipped + queued + InHand + flying
      BY DEF Accounting
    <3>3. lost + left = dropped + queued
      BY <2>4
    <3> HIDE BeanAssumption, PacketFacts DEF flying, queued, left, lost
    <3>4. offered = packets + lost + skipped + left + InHand + flying
      BY <2>5, <2>6, <3>1, <3>2, <3>3
    <3> QED BY <3>4 DEF flying, left, lost
  <2> QED BY <2>3, <2>5, <2>7, <2>8
<1>6. CASE WriterTake
  <2>1. Len(send') = Len(send) - 1 /\ Head(send) \in Packets
    BY <1>6, TakeFirst DEF WriterTake
  <2>2. InFlight' = InFlight
    BY <1>6 DEF WriterTake, writerRest, senderVars, InFlight
  <2>3. msg = NoPacket
    BY <1>6 DEF WriterTake, Hands
  <2>4. /\ offered' = offered /\ packets' = packets /\ dropped' = dropped
        /\ \/ skipped' = skipped + 1 /\ msg' = NoPacket
           \/ skipped' = skipped /\ msg' = Head(send)
    BY <1>6, <2>3 DEF WriterTake, writerRest, senderVars
  <2>5. InHand = 0 /\ InHand' = 1 - (skipped' - skipped)
    BY <2>1, <2>3, <2>4, PacketFacts DEF InHand
  <2> QED BY <1>0, <2>1, <2>2, <2>4, <2>5
<1>7. CASE WriterIO
  BY <1>7
  DEF WriterIO, WriterWrite, WriterTimeout, WriterFail, writerRest, senderVars,
      InFlight
<1>8. CASE WriterCount
  <2>1. msg # NoPacket
    BY <1>8 DEF WriterCount, Hands
  <2>2. InFlight' = InFlight
    BY <1>8 DEF WriterCount, writerRest, senderVars, InFlight
  <2> QED BY <1>0, <1>8, <2>1, <2>2 DEF WriterCount, writerRest, senderVars
<1>9. CASE WriterQuit \/ WriterDone
  BY <1>9 DEF WriterQuit, WriterDone, writerRest, senderVars, InFlight
<1>10. CASE CloseByHolder \/ CloseByWriter \/ CloseQuit \/ CloseConn
              \/ ConnClosedElsewhere
  BY <1>10
  DEF CloseByHolder, CloseByWriter, CloseQuit, CloseConn, CloseStep,
      ConnClosedElsewhere, senderVars, writerVars, InFlight
<1>11. CASE UNCHANGED vars
  BY <1>11 DEF vars, senderVars, writerVars, InFlight
<1>12. ASSUME NEW s \in Senders, Sender(s)
       PROVE  Accounting'
  BY <1>2, <1>3, <1>4, <1>5, <1>12
  DEF Sender, LossTry, LossRetry, SendTry, SendBlocked
<1> QED
  BY <1>1, <1>6, <1>7, <1>8, <1>9, <1>10, <1>11, <1>12
  DEF Next, Writer, SendLoss, Send

\* No packet disappears without being counted, whatever the interleaving of
\* senders, writer and Close, for every queue size and number of senders
\* (ntrip_map.go:51-147).
THEOREM BeanAccounts == Spec => []Accounting
<1>1. Init => Accounting
  <2> SUFFICES ASSUME Init PROVE Accounting
    OBVIOUS
  <2>1. InFlight = {}
    BY DEF Init, InFlight
  <2> QED BY <2>1, FS_EmptySet DEF Init, Accounting, InHand
<1>2. Spec => [](TypeOK /\ Hands)
  BY InitTypes, StepTypes, PTL DEF Spec
<1> QED BY <1>1, <1>2, StepAccounts, PTL DEF Spec

---------------------------------------------------------------------------
(* The byte stream.                                                        *)

\* A write, whatever part of the packet the connection takes, continues the
\* stream where it stands.
LEMMA WriteKeepsStream ==
  ASSUME TypeOK, Hands, Position, StreamIntact,
         NEW n \in 0..MaxSize, Writing(n), UNCHANGED <<msg, bytesSent>>
  PROVE  Position' /\ StreamIntact'
<1> DEFINE w == wire
           k == Len(wire)
           slice == Slice(msg, written, n)
<1>1. /\ msg \in Packets /\ written \in Nat /\ n \in Nat
      /\ written + n <= msg.size
  BY PacketFacts DEF Writing, Hands, TypeOK
<1>2. /\ slice \in Seq(Bytes) /\ Len(slice) = n
      /\ \A i \in 1..n : slice[i] = [p |-> msg, at |-> written + i]
  BY <1>1, SliceType
<1>3. wire \in Seq(Bytes) /\ k \in Nat
  BY LenProperties DEF TypeOK
<1>4. wire' = wire \o slice /\ written' = written + n
  BY DEF Writing, Wrote
<1> HIDE DEF slice
<1>5. /\ wire' \in Seq(Bytes) /\ Len(wire') = k + n
      /\ \A i \in 1..(k + n) :
           wire'[i] = IF i <= k THEN wire[i] ELSE slice[i - k]
  BY <1>2, <1>3, <1>4, ConcatProperties
<1>6. /\ \A i \in 1..k : wire'[i] = wire[i]
      /\ \A i \in (k+1)..(k+n) : wire'[i] = [p |-> msg, at |-> written + (i - k)]
  <2>1. ASSUME NEW i \in 1..k PROVE wire'[i] = wire[i]
    BY <1>1, <1>3, <1>5
  <2>2. ASSUME NEW i \in (k+1)..(k+n)
        PROVE  wire'[i] = [p |-> msg, at |-> written + (i - k)]
    <3>1. i - k \in 1..n /\ i \in 1..(k + n) /\ ~(i <= k)
      BY <1>1, <1>3
    <3> QED BY <1>2, <1>5, <3>1
  <2> QED BY <2>1, <2>2
<1>7. k # 0 <=> wire # <<>>
  BY <1>3, EmptySeq
<1>8. Len(wire') # 0 <=> wire' # <<>>
  BY <1>5, EmptySeq
<1>9. Position'
  <2>1. CASE n = 0
    <3>1. Len(wire') = k /\ written' = written
      BY <1>1, <1>3, <1>4, <1>5, <2>1
    <3>2. wire # <<>> => wire'[Len(wire')] = wire[k]
      BY <1>3, <1>6, <1>7, <3>1
    <3> QED BY <1>1, <1>3, <1>7, <1>8, <3>1, <3>2 DEF Position
  <2>2. CASE n > 0
    <3>1. k + n \in (k+1)..(k+n)
      BY <1>1, <1>3, <2>2
    <3>2. wire'[Len(wire')] = [p |-> msg, at |-> written']
      BY <1>1, <1>3, <1>4, <1>5, <1>6, <3>1
    <3>3. written' > 0 /\ Len(wire') # 0
      BY <1>1, <1>3, <1>4, <1>5, <2>2
    <3> QED BY <1>1, <1>4, <1>8, <3>2, <3>3 DEF Position
  <2> QED BY <1>1, <2>1, <2>2
<1>10. Len(wire') = bytesSent' + written'
  BY <1>1, <1>3, <1>4, <1>5 DEF StreamIntact, TypeOK
<1>11. ASSUME NEW i \in 1..(k + n)
       PROVE  \/ /\ wire'[i].at = 1
                 /\ i > 1 => wire'[i-1].at = wire'[i-1].p.size
              \/ /\ i > 1
                 /\ wire'[i-1].p = wire'[i].p
                 /\ wire'[i-1].at = wire'[i].at - 1
  <2>1. CASE i <= k
    <3>1. i \in 1..k /\ (i > 1 => i - 1 \in 1..k)
      BY <1>1, <1>3, <2>1
    <3>2. wire'[i] = wire[i] /\ (i > 1 => wire'[i-1] = wire[i-1])
      BY <1>6, <3>1
    <3> QED BY <3>1, <3>2 DEF StreamIntact
  <2>2. CASE i = k + 1
    <3>1. i \in (k+1)..(k+n) /\ i - k = 1
      BY <1>1, <1>3, <2>2
    <3>2. wire'[i] = [p |-> msg, at |-> written + 1]
      BY <1>6, <3>1
    <3>3. i > 1 => /\ wire # <<>> /\ wire'[i-1] = wire[k]
      BY <1>3, <1>6, <1>7, <2>2
    <3>4. CASE written = 0
      BY <3>2, <3>3, <3>4 DEF Position
    <3>5. CASE written > 0
      <4>1. wire # <<>> /\ wire[k] = [p |-> msg, at |-> written]
        BY <3>5 DEF Position
      <4>2. i > 1
        BY <1>3, <1>7, <2>2, <4>1
      <4> QED BY <1>1, <3>2, <3>3, <4>1, <4>2
    <3> QED BY <1>1, <3>4, <3>5
  <2>3. CASE i > k + 1
    <3>1. /\ i \in (k+1)..(k+n) /\ i - 1 \in (k+1)..(k+n) /\ i > 1
          /\ (i - 1) - k = (i - k) - 1
      BY <1>1, <1>3, <2>3
    <3>2. /\ wire'[i] = [p |-> msg, at |-> written + (i - k)]
          /\ wire'[i-1] = [p |-> msg, at |-> written + ((i - 1) - k)]
      BY <1>6, <3>1
    <3> QED BY <1>1, <1>3, <3>1, <3>2
  <2> QED BY <1>1, <1>3, <2>1, <2>2, <2>3
<1> QED BY <1>5, <1>9, <1>10, <1>11 DEF StreamIntact

\* Every step keeps the stream whole.
LEMMA StepKeepsStream ==
  TypeOK /\ Hands /\ Position /\ StreamIntact /\ [Next]_vars
    => Position' /\ StreamIntact'
<1> SUFFICES ASSUME TypeOK, Hands, Position, StreamIntact, [Next]_vars
             PROVE  Position' /\ StreamIntact'
  OBVIOUS
<1>1. CASE UNCHANGED <<msg, written, wire, bytesSent>>
  BY <1>1 DEF Position, StreamIntact
<1>2. CASE WriterTake
  <2>1. written = 0 /\ written' = 0 /\ wire' = wire /\ bytesSent' = bytesSent
    BY <1>2 DEF WriterTake, Hands
  <2> QED BY <2>1 DEF Position, StreamIntact
<1>3. CASE WriterIO
  BY <1>3, WriteKeepsStream
  DEF WriterIO, WriterWrite, WriterTimeout, WriterFail
<1>4. CASE WriterCount
  <2>1. /\ msg \in Packets /\ written = msg.size /\ written' = 0
        /\ wire' = wire /\ bytesSent' = bytesSent + written
    BY <1>4 DEF WriterCount, Hands
  <2>2. wire # <<>> => wire[Len(wire)].at = wire[Len(wire)].p.size
    <3>1. CASE written > 0
      BY <2>1, <3>1 DEF Position
    <3>2. CASE written = 0
      BY <3>2 DEF Position
    <3> QED BY <3>1, <3>2 DEF TypeOK
  <2> QED BY <2>1, <2>2 DEF Position, StreamIntact, TypeOK
<1>5. ASSUME NEW s \in Senders, Sender(s)
      PROVE  UNCHANGED <<msg, written, wire, bytesSent>>
  BY <1>5
  DEF Sender, LossTry, LossEvict, LossRetry, SendTry, SendBlocked, Enqueue,
      Discard, Goto, Return, writerVars
<1> QED
  BY <1>1, <1>2, <1>3, <1>4, <1>5
  DEF Next, Writer, SendLoss, Send, Carry, WriterQuit, WriterDone,
      CloseByHolder, CloseByWriter, CloseQuit, CloseConn, CloseStep,
      ConnClosedElsewhere, vars, writerVars

\* The subscriber's byte stream is never torn, whatever the connection does to
\* a write, for every packet size and number of retries (ntrip_map.go:66-91).
THEOREM BeanStreamIntact == Spec => []StreamIntact
<1>1. Init => Position /\ StreamIntact
  BY DEF Init, Position, StreamIntact
<1>2. Spec => [](TypeOK /\ Hands)
  BY InitTypes, StepTypes, PTL DEF Spec
<1>3. Spec => [](Position /\ StreamIntact)
  BY <1>1, <1>2, StepKeepsStream, PTL DEF Spec
<1> QED BY <1>3, PTL

---------------------------------------------------------------------------
(* Drop-oldest.                                                            *)

\* Between making room and trying again, the room is still there or another
\* sender has put a packet in since.
RoomKept ==
  \A s \in Senders :
    spc[s] = "retry" => Room \/ send[Len(send)] \in since[s]

\* Whoever retries after dropping a packet finds room, or somebody else took it.
LEMMA StepKeepsRoom ==
  TypeOK /\ Hands /\ RoomKept /\ [Next]_vars => RoomKept'
<1> SUFFICES ASSUME TypeOK, Hands, RoomKept, [Next]_vars
             PROVE  RoomKept'
  OBVIOUS
<1> USE BeanAssumption
<1>0. Len(send) \in Nat /\ Len(send) <= QueueSize
  BY LenProperties DEF TypeOK
<1>1. CASE UNCHANGED <<send, spc, since>>
  BY <1>1 DEF RoomKept, Room
<1>2. ASSUME NEW s \in Senders, NEW at, at # "retry",
             spc' = [spc EXCEPT ![s] = at], send' = send,
             since' = since \/ since' = [since EXCEPT ![s] = {}]
      PROVE  RoomKept'
  <2>1. ASSUME NEW t \in Senders, spc'[t] = "retry"
        PROVE  t # s /\ spc[t] = "retry" /\ since'[t] = since[t]
    BY <1>2, <2>1 DEF TypeOK
  <2> QED BY <1>2, <2>1 DEF RoomKept, Room
<1>3. ASSUME NEW s \in Senders, LossEvict(s)
      PROVE  RoomKept'
  <2>1. CASE send # <<>> /\ send' = Tail(send)
    <3>1. Len(send') = Len(send) - 1
      BY <2>1, TakeFirst DEF TypeOK
    <3> QED BY <1>0, <3>1 DEF RoomKept, Room
  <2>2. CASE send = <<>> /\ send' = send
    <3>1. Len(send) = 0
      BY <2>2, EmptySeq DEF TypeOK
    <3> QED BY <2>2, <3>1 DEF RoomKept, Room
  <2> QED BY <1>3, <2>1, <2>2 DEF LossEvict
<1>4. CASE WriterTake
  <2>1. Len(send') = Len(send) - 1
    BY <1>4, TakeFirst DEF WriterTake, TypeOK
  <2> QED BY <1>0, <2>1 DEF RoomKept, Room
<1>5. CASE Writer
  BY <1>1, <1>4, <1>5
  DEF Writer, WriterIO, WriterWrite, WriterTimeout, WriterFail, WriterCount,
      WriterQuit, WriterDone, CloseByWriter, CloseStep, writerRest, senderVars
<1>6. ASSUME NEW s \in Senders, spc[s] # "idle", Enqueue(s)
      PROVE  RoomKept'
  <2>1. pkt[s] \in Packets /\ spc' = [spc EXCEPT ![s] = "idle"]
    BY <1>6 DEF Enqueue, Return, Hands
  <2>2. send'[Len(send')] = pkt[s]
    BY <1>6, <2>1 DEF Enqueue, TypeOK
  <2>3. ASSUME NEW t \in Senders, spc'[t] = "retry"
        PROVE  pkt[s] \in since'[t]
    <3>1. t # s /\ spc[t] = "retry"
      BY <2>1, <2>3 DEF TypeOK
    <3> QED BY <1>6, <3>1 DEF Enqueue
  <2> QED BY <2>2, <2>3 DEF RoomKept
<1>7. ASSUME NEW s \in Senders, Sender(s)
      PROVE  RoomKept'
  BY <1>2, <1>3, <1>6, <1>7
  DEF Sender, LossTry, LossRetry, SendTry, SendBlocked, Discard, Goto,
      Return
<1>8. ASSUME NEW s \in Senders, NEW size, NEW at \in {"try", "offer"},
             Carry(s, size, at)
      PROVE  RoomKept'
  BY <1>2, <1>8 DEF Carry
<1> QED
  BY <1>1, <1>5, <1>7, <1>8
  DEF Next, SendLoss, Send, CloseByHolder, CloseQuit, CloseConn, CloseStep,
      ConnClosedElsewhere, vars, senderVars

\* A SendLoss that has made room loses its own packet only to a sender that
\* has taken that room since, for every number of senders and size of the
\* queue (ntrip_map.go:132-146).
THEOREM BeanDropsOldest == Spec => DropOldest
<1>1. Init => RoomKept
  BY DEF Init, RoomKept
<1>2. Spec => [](TypeOK /\ Hands)
  BY InitTypes, StepTypes, PTL DEF Spec
<1>3. TypeOK /\ Hands /\ RoomKept /\ [Next]_vars => RoomKept'
  BY StepKeepsRoom
<1>4. TypeOK /\ RoomKept /\ [Next]_vars
        => [\A s \in Senders :
              LossRetry(s) /\ dropped' > dropped
                => send[Len(send)] \in since[s]]_vars
  <2> SUFFICES ASSUME TypeOK, RoomKept, NEW s \in Senders, LossRetry(s),
                      dropped' > dropped
               PROVE  send[Len(send)] \in since[s]
    OBVIOUS
  <2> QED BY DEF LossRetry, Enqueue, Discard, RoomKept, TypeOK
<1> QED BY <1>1, <1>2, <1>3, <1>4, PTL DEF Spec, DropOldest
---------------------------------------------------------------------------
(* Order.                                                                  *)

\* A packet is numbered when it is offered.
Numbered ==
  /\ \A i \in 1..Len(wire) : wire[i].p.id <= offered
  /\ \A i \in 1..Len(send) : send[i].id <= offered
  /\ msg # NoPacket => msg.id <= offered
  /\ \A s \in Senders : spc[s] # "idle" => pkt[s].id <= offered

\* A packet in the writer's hand is behind what has been written, and one in
\* a sender's hand behind everything of that sender that is further on.
Behind ==
  /\ msg # NoPacket =>
       \A i \in 1..Len(wire) : wire[i].p = msg \/ Ahead(wire[i].p, msg)
  /\ \A s \in Senders : spc[s] # "idle" =>
       /\ \A i \in 1..Len(wire) : Ahead(wire[i].p, pkt[s])
       /\ msg # NoPacket => Ahead(msg, pkt[s])
       /\ \A j \in 1..Len(send) : Ahead(send[j], pkt[s])

\* InOrder with what makes it inductive.
Ordered == InOrder /\ Numbered /\ Behind

\* The entries of the wire and of the queue have the fields that order them.
LEMMA EntryTypes ==
  ASSUME TypeOK
  PROVE  /\ offered \in Nat
         /\ \A i \in 1..Len(wire) : wire[i].p \in Packets /\ wire[i].p.id \in Nat
         /\ \A i \in 1..Len(send) : send[i] \in Packets /\ send[i].id \in Nat
         /\ msg # NoPacket => msg \in Packets /\ msg.id \in Nat
         /\ Len(send) \in Nat /\ Len(wire) \in Nat
<1>1. \A p \in Packets : p.id \in Nat
  BY BeanAssumption DEF Packets
<1>2. \A i \in 1..Len(wire) : wire[i] \in Bytes
  BY DEF TypeOK
<1>3. \A i \in 1..Len(send) : send[i] \in Packets
  BY DEF TypeOK
<1>4. \A b \in Bytes : b.p \in Packets
  BY DEF Bytes
<1>5. Len(send) \in Nat /\ Len(wire) \in Nat /\ offered \in Nat
  BY BeanAssumption, LenProperties DEF TypeOK
<1> QED BY <1>1, <1>2, <1>3, <1>4, <1>5 DEF TypeOK

\* Taking the first packet out of the queue shifts the others.
LEMMA TailEntries ==
  ASSUME TypeOK, send # <<>>
  PROVE  /\ Len(Tail(send)) = Len(send) - 1
         /\ \A j \in 1..Len(Tail(send)) :
              Tail(send)[j] = send[j+1] /\ j + 1 \in 1..Len(send)
         /\ 1 \in 1..Len(send) /\ Head(send) = send[1]
  BY HeadTailProperties, EmptySeq, LenProperties DEF TypeOK

\* A new packet is behind all others of its sender.
LEMMA CarryOrdered ==
  ASSUME TypeOK, Hands, Ordered, NEW s \in Senders, NEW size \in 0..MaxSize,
         NEW at \in {"try", "offer"}, Carry(s, size, at)
  PROVE  Ordered'
<1> DEFINE new == [id |-> offered + 1, from |-> s, size |-> size]
<1>1. /\ send' = send /\ wire' = wire /\ msg' = msg /\ offered' = offered + 1
      /\ \A t \in Senders : t # s => pkt'[t] = pkt[t] /\ spc'[t] = spc[t]
      /\ pkt'[s] = new
  BY DEF Carry, writerVars, TypeOK
<1>2. InOrder'
  BY <1>1 DEF Ordered, InOrder
<1>3. Numbered'
  <2>1. /\ \A i \in 1..Len(wire) : wire[i].p.id <= offered + 1
        /\ \A i \in 1..Len(send) : send[i].id <= offered + 1
        /\ msg # NoPacket => msg.id <= offered + 1
    <3>1. \A i \in Nat, k \in Nat : i <= k => i <= k + 1
      OBVIOUS
    <3> QED BY <3>1, EntryTypes DEF Ordered, Numbered
  <2>2. ASSUME NEW t \in Senders, spc'[t] # "idle"
        PROVE  pkt'[t].id <= offered + 1
    <3>1. CASE t = s
      BY <1>1, <3>1, EntryTypes
    <3>2. CASE t # s
      <4>1. pkt[t] \in Packets /\ pkt[t].id <= offered /\ pkt'[t] = pkt[t]
        BY <1>1, <2>2, <3>2 DEF Ordered, Numbered, Hands
      <4>2. pkt[t].id \in Nat
        BY <4>1, BeanAssumption DEF Packets
      <4> QED BY <4>1, <4>2, EntryTypes
    <3> QED BY <3>1, <3>2
  <2> QED BY <1>1, <2>1, <2>2 DEF Numbered
<1>4. Behind'
  <2>1. /\ \A i \in 1..Len(wire) : Ahead(wire[i].p, new)
        /\ msg # NoPacket => Ahead(msg, new)
        /\ \A j \in 1..Len(send) : Ahead(send[j], new)
    BY EntryTypes DEF Ordered, Numbered, Ahead
  <2> HIDE DEF new
  <2> QED BY <1>1, <2>1 DEF Ordered, Behind
<1> QED BY <1>2, <1>3, <1>4 DEF Ordered

\* A packet that enters the queue was behind everything in it.
LEMMA EnqueueOrdered ==
  ASSUME TypeOK, Hands, Ordered, NEW s \in Senders, spc[s] # "idle", Enqueue(s)
  PROVE  Ordered'
<1> DEFINE n == Len(send)
<1>1. /\ wire' = wire /\ msg' = msg /\ offered' = offered
      /\ \A t \in Senders : spc'[t] # "idle" => t # s /\ spc[t] # "idle" /\ pkt'[t] = pkt[t]
      /\ send' = Append(send, pkt[s]) /\ pkt[s] \in Packets /\ pkt[s].from = s
  BY DEF Enqueue, Return, writerVars, TypeOK, Hands
<1>2. n \in Nat /\ send \in Seq(Packets)
  BY EntryTypes DEF TypeOK
<1>3. /\ Len(send') = n + 1 /\ send'[n+1] = pkt[s]
      /\ \A j \in 1..n : send'[j] = send[j]
  BY <1>1, <1>2, AppendProperties
<1>4. \A j \in 1..Len(send') : j \in 1..n \/ j = n + 1
  BY <1>2, <1>3
<1>5. \A t \in Senders : spc'[t] # "idle" => Ahead(pkt[s], pkt[t])
  BY <1>1 DEF Ahead, Hands
<1> HIDE DEF n
<1>6. InOrder'
  <2>1. \A i, j \in 1..Len(wire) :
          i < j => wire[i].p = wire[j].p \/ Ahead(wire[i].p, wire[j].p)
    BY DEF Ordered, InOrder
  <2>2. ASSUME NEW j \in 1..Len(send')
        PROVE  /\ \A i \in 1..Len(wire) : Ahead(wire[i].p, send'[j])
               /\ msg # NoPacket => Ahead(msg, send'[j])
               /\ \A i \in 1..(j-1) : Ahead(send'[i], send'[j])
    <3>1. CASE j \in 1..n
      <4>1. \A i \in 1..(j-1) : i \in 1..n
        BY <1>2, <3>1
      <4> QED BY <1>3, <3>1, <4>1 DEF Ordered, InOrder, n
    <3>2. CASE j = n + 1
      <4>1. j - 1 = n
        BY <1>2, <3>2
      <4> QED BY <1>3, <3>2, <4>1 DEF Ordered, Behind, n
    <3> QED BY <1>4, <3>1, <3>2
  <2> QED BY <1>1, <2>1, <2>2 DEF InOrder, Ahead
<1>7. Numbered'
  BY <1>1, <1>3, <1>4 DEF Ordered, Numbered, n
<1>8. Behind'
  BY <1>1, <1>3, <1>4, <1>5 DEF Ordered, Behind, n
<1> QED BY <1>6, <1>7, <1>8 DEF Ordered

\* Giving up the front of the queue, or a packet in a sender's hand, leaves
\* the order of the others.
LEMMA EvictOrdered ==
  ASSUME TypeOK, Hands, Ordered, UNCHANGED <<wire, msg, offered>>,
         \A t \in Senders : spc'[t] # "idle" => spc[t] # "idle" /\ pkt'[t] = pkt[t],
         send' = send \/ (send # <<>> /\ send' = Tail(send))
  PROVE  Ordered'
<1>1. CASE send' = send
  BY <1>1 DEF Ordered, InOrder, Numbered, Behind
<1>2. CASE send # <<>> /\ send' = Tail(send)
  <2>1. /\ Len(send) \in Nat /\ Len(send') = Len(send) - 1
        /\ \A j \in 1..Len(send') : send'[j] = send[j+1] /\ j + 1 \in 1..Len(send)
    BY <1>2, TailEntries, EntryTypes
  <2>2. ASSUME NEW j \in 1..Len(send'), NEW i \in 1..(j-1)
        PROVE  Ahead(send'[i], send'[j])
    <3>1. /\ i \in 1..Len(send') /\ i + 1 \in 1..((j + 1) - 1)
          /\ j + 1 \in 1..Len(send)
      BY <2>1
    <3> QED BY <2>1, <3>1 DEF Ordered, InOrder
  <2>3. InOrder'
    <3>1. \A i, j \in 1..Len(wire) :
            i < j => wire[i].p = wire[j].p \/ Ahead(wire[i].p, wire[j].p)
      BY DEF Ordered, InOrder
    <3>2. ASSUME NEW j \in 1..Len(send')
          PROVE  /\ \A i \in 1..Len(wire) : Ahead(wire[i].p, send'[j])
                 /\ msg # NoPacket => Ahead(msg, send'[j])
      BY <2>1 DEF Ordered, InOrder
    <3> QED BY <2>2, <3>1, <3>2 DEF InOrder, Ahead
  <2>4. Numbered'
    BY <2>1 DEF Ordered, Numbered
  <2>5. Behind'
    BY <2>1 DEF Ordered, Behind
  <2> QED BY <2>3, <2>4, <2>5 DEF Ordered
<1> QED BY <1>1, <1>2

\* The writer takes the front of the queue, which is behind what is written
\* and ahead of the rest.
LEMMA TakeOrdered ==
  ASSUME TypeOK, Hands, Ordered, WriterTake
  PROVE  Ordered'
<1>1. /\ send # <<>> /\ send' = Tail(send) /\ msg = NoPacket
      /\ msg' = NoPacket \/ msg' = Head(send)
      /\ UNCHANGED <<wire, offered, spc, pkt>>
  BY DEF WriterTake, Hands, writerRest, senderVars
<1>2. /\ Len(send) \in Nat /\ Len(send') = Len(send) - 1
      /\ \A j \in 1..Len(send') : send'[j] = send[j+1] /\ j + 1 \in 1..Len(send)
      /\ 1 \in 1..Len(send) /\ Head(send) = send[1]
  BY <1>1, TailEntries, EntryTypes
<1>3. \A j \in 1..Len(send') : Ahead(send[1], send'[j])
  <2>1. ASSUME NEW j \in 1..Len(send') PROVE Ahead(send[1], send[j+1])
    <3>1. 1 \in 1..((j + 1) - 1) /\ j + 1 \in 1..Len(send)
      BY <1>2
    <3> QED BY <3>1 DEF Ordered, InOrder
  <2> QED BY <1>2, <2>1
<1>4. ASSUME NEW j \in 1..Len(send'), NEW i \in 1..(j-1)
      PROVE  Ahead(send'[i], send'[j])
  <2>1. /\ i \in 1..Len(send') /\ i + 1 \in 1..((j + 1) - 1)
        /\ j + 1 \in 1..Len(send)
    BY <1>2
  <2> QED BY <1>2, <2>1 DEF Ordered, InOrder
<1>5. InOrder'
  BY <1>1, <1>2, <1>3, <1>4 DEF Ordered, InOrder, Ahead
<1>6. Numbered'
  BY <1>1, <1>2 DEF Ordered, Numbered
<1>7. Behind'
  BY <1>1, <1>2 DEF Ordered, InOrder, Behind
<1> QED BY <1>5, <1>6, <1>7 DEF Ordered

\* The bytes of a write belong to the packet in hand.
LEMMA WriteOrdered ==
  ASSUME TypeOK, Hands, Ordered, NEW n \in 0..MaxSize, Writing(n),
         UNCHANGED <<send, msg, offered, spc, pkt>>
  PROVE  Ordered'
<1> DEFINE k == Len(wire)
           slice == Slice(msg, written, n)
<1>1. msg \in Packets /\ msg # NoPacket /\ written \in Nat /\ n \in Nat /\ written + n <= msg.size
  <2>1. msg # NoPacket /\ msg \in Packets
    BY PacketFacts DEF Writing, Hands
  <2>2. msg.size \in Nat /\ written \in Nat /\ n \in Nat
    <3>1. msg.size \in 0..MaxSize /\ written \in 0..MaxSize /\ MaxSize \in Nat
      BY <2>1, PacketFacts, BeanAssumption DEF TypeOK
    <3> QED BY <3>1
  <2>3. n <= msg.size - written
    BY DEF Writing
  <2> QED BY <2>1, <2>2, <2>3
<1>2. /\ slice \in Seq(Bytes) /\ Len(slice) = n
      /\ \A i \in 1..n : slice[i].p = msg
  <2>1. /\ slice \in Seq(Bytes) /\ Len(slice) = n
        /\ \A i \in 1..n : slice[i] = [p |-> msg, at |-> written + i]
    <3> HIDE DEF slice
    <3> QED BY <1>1, SliceType DEF slice
  <2> HIDE DEF slice
  <2> QED BY <2>1
<1>3. wire \in Seq(Bytes) /\ k \in Nat
  BY EntryTypes DEF TypeOK
<1>4. wire' = wire \o slice
  BY DEF Writing, Wrote
<1> HIDE DEF slice
<1>5. /\ Len(wire') = k + n
      /\ \A i \in 1..(k + n) :
           wire'[i] = IF i <= k THEN wire[i] ELSE slice[i - k]
  BY <1>2, <1>3, <1>4, ConcatProperties
<1>6. ASSUME NEW i \in 1..(k + n)
      PROVE  (i \in 1..k /\ wire'[i] = wire[i]) \/ (~(i <= k) /\ wire'[i].p = msg)
  <2>1. CASE i <= k
    BY <1>1, <1>3, <1>5, <2>1
  <2>2. CASE ~(i <= k)
    <3>1. i - k \in 1..n
      BY <1>1, <1>3, <2>2
    <3> QED BY <1>2, <1>5, <2>2, <3>1
  <2> QED BY <2>1, <2>2
<1>7. ASSUME NEW i \in 1..(k + n), NEW j \in 1..(k + n), i < j
      PROVE  wire'[i].p = wire'[j].p \/ Ahead(wire'[i].p, wire'[j].p)
  <2>1. CASE i \in 1..k /\ wire'[i] = wire[i] /\ j \in 1..k /\ wire'[j] = wire[j]
    BY <1>7, <2>1 DEF Ordered, InOrder
  <2>2. CASE i \in 1..k /\ wire'[i] = wire[i] /\ wire'[j].p = msg
    BY <1>1, <2>2 DEF Ordered, Behind
  <2>3. CASE wire'[i].p = msg /\ wire'[j].p = msg
    BY <2>3
  <2>4. ~(~(i <= k) /\ j \in 1..k)
    BY <1>1, <1>3, <1>7
  <2> QED BY <1>6, <2>1, <2>2, <2>3, <2>4
<1>8. InOrder'
  BY <1>1, <1>5, <1>6, <1>7 DEF Ordered, InOrder, Ahead
<1>9. Numbered'
  BY <1>1, <1>5, <1>6 DEF Ordered, Numbered
<1>10. Behind'
  BY <1>1, <1>5, <1>6 DEF Ordered, Behind
<1> QED BY <1>8, <1>9, <1>10 DEF Ordered

\* Every step keeps the order.
LEMMA StepOrdered == TypeOK /\ Hands /\ Ordered /\ [Next]_vars => Ordered'
<1> SUFFICES ASSUME TypeOK, Hands, Ordered, [Next]_vars
             PROVE  Ordered'
  OBVIOUS
<1>1. CASE UNCHANGED <<send, wire, msg, offered, spc, pkt>>
  BY <1>1 DEF Ordered, InOrder, Numbered, Behind
<1>2. ASSUME NEW s \in Senders, Sender(s)
      PROVE  Ordered'
  <2>1. spc[s] # "idle"
    BY <1>2 DEF Sender, LossTry, LossEvict, LossRetry, SendTry, SendBlocked
  <2>2. CASE Enqueue(s)
    BY <2>1, <2>2, EnqueueOrdered
  <2>3. CASE ~Enqueue(s)
    <3>1. \/ Discard(s)
          \/ \E at \in {"evict", "retry", "block"} :
               Goto(s, at) /\ (send' = send \/ (send # <<>> /\ send' = Tail(send)))
      BY <1>2, <2>3
      DEF Sender, LossTry, LossEvict, LossRetry, SendTry, SendBlocked
    <3>2. /\ UNCHANGED <<wire, msg, offered>>
          /\ \A t \in Senders :
               spc'[t] # "idle" => spc[t] # "idle" /\ pkt'[t] = pkt[t]
          /\ send' = send \/ (send # <<>> /\ send' = Tail(send))
      BY <2>1, <3>1 DEF Discard, Return, Goto, writerVars, TypeOK
    <3> QED BY <3>2, EvictOrdered
  <2> QED BY <2>2, <2>3
<1>3. CASE WriterTake
  BY <1>3, TakeOrdered
<1>4. CASE WriterIO
  BY <1>4, WriteOrdered
  DEF WriterIO, WriterWrite, WriterTimeout, WriterFail, writerRest, senderVars
<1>5. CASE WriterCount
  <2>1. msg' = NoPacket /\ UNCHANGED <<send, wire, offered, spc, pkt>>
    BY <1>5 DEF WriterCount, writerRest, senderVars
  <2> QED BY <2>1 DEF Ordered, InOrder, Numbered, Behind
<1>6. ASSUME NEW s \in Senders, NEW size \in 0..MaxSize,
             SendLoss(s, size) \/ Send(s, size)
      PROVE  Ordered'
  BY <1>6, CarryOrdered DEF SendLoss, Send
<1>7. CASE UNCHANGED vars
  BY <1>1, <1>7 DEF vars, senderVars, writerVars
<1>8. CASE \/ WriterQuit \/ WriterDone \/ CloseByWriter
           \/ CloseByHolder \/ CloseQuit \/ CloseConn \/ ConnClosedElsewhere
  BY <1>1, <1>8
  DEF WriterQuit, WriterDone, CloseByWriter, CloseByHolder, CloseQuit,
      CloseConn, CloseStep, ConnClosedElsewhere, writerRest, senderVars, writerVars
<1> QED
  BY <1>2, <1>3, <1>4, <1>5, <1>6, <1>7, <1>8 DEF Next, Writer

\* Packets of one sender are never reordered, whatever is evicted, retried or
\* given up, for every queue size and number of senders (ntrip_map.go:51-147).
THEOREM BeanInOrder == Spec => []InOrder
<1>1. Init => Ordered
  BY DEF Init, Ordered, InOrder, Numbered, Behind
<1>2. Spec => [](TypeOK /\ Hands)
  BY InitTypes, StepTypes, PTL DEF Spec
<1>3. Ordered => InOrder
  BY DEF Ordered
<1> QED BY <1>1, <1>2, <1>3, StepOrdered, PTL DEF Spec
============================================================================
