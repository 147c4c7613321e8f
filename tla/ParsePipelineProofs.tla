------------------------- MODULE ParsePipelineProofs -------------------------
(***************************************************************************)
(* What holds of one ParseXml call for every chunk bound, queue size, byte *)
(* cap, document and client.  The induction goes in three layers: types,   *)
(* cursors and the byte ledger of the event channel; who has queued an     *)
(* ending; and in which order the kinds of event are queued.               *)
(***************************************************************************)
EXTENDS ParsePipeline, Integers, TLAPS

(* The stream's cursors stay in the log and stop at the first ending.      *)
Cursors ==
  /\ taken <= drained /\ drained <= Len(log)
  /\ \A i \in 1..(drained - 1) : ~Terminal(log[i])
  /\ finished <=> taken = drained /\ Final(log, drained)

(* The running total of queue bytes never falls along the log.             *)
TotalsGrow ==
  \A i, j \in 1..Len(log) : i <= j => log[i].upto <= log[j].upto

CoreInv == TypeOK /\ Cursors /\ TotalsGrow /\ LedgerBalances

-----------------------------------------------------------------------------
(* Facts about the log.                                                    *)

LEMMA LogItems ==
  ASSUME ChannelType, NEW i \in 1..Len(log)
  PROVE  log[i] \in Item
  BY DEF ChannelType

LEMMA UptoType ==
  ASSUME ChannelType, NEW i \in 0..Len(log)
  PROVE  Upto(log, i) \in Nat
<1>1. CASE i = 0
  BY <1>1 DEF Upto
<1>2. CASE i # 0
  <2>1. Len(log) \in Nat
    BY DEF ChannelType
  <2>2. log[i] \in Item
    BY <1>2, <2>1, LogItems
  <2> QED
    BY <1>2, <2>2 DEF Upto, Item
<1> QED
  BY <1>1, <1>2

(* Totals along any log in order: a stretch of it never holds less than 0. *)
LEMMA UptoMonotone ==
  ASSUME NEW l \in Seq(Item),
         \A i, j \in 1..Len(l) : i <= j => l[i].upto <= l[j].upto,
         NEW i \in 0..Len(l), NEW j \in 0..Len(l), i <= j
  PROVE  /\ Upto(l, i) \in Nat /\ Upto(l, j) \in Nat
         /\ Upto(l, i) <= Upto(l, j)
<1>1. \A k \in 1..Len(l) : l[k] \in Item /\ l[k].upto \in Nat
  <2>1. \A k \in 1..Len(l) : l[k] \in Item
    OBVIOUS
  <2> QED
    BY <2>1 DEF Item
<1>2. Len(l) \in Nat
  OBVIOUS
<1>3. ASSUME NEW k \in 0..Len(l) PROVE Upto(l, k) \in Nat
  BY <1>1, <1>2, <1>3 DEF Upto
<1>4. CASE i = 0
  BY <1>3, <1>4 DEF Upto
<1>5. CASE i # 0
  <2>1. i \in 1..Len(l) /\ j \in 1..Len(l)
    BY <1>2, <1>5
  <2> QED
    BY <1>3, <1>5, <2>1 DEF Upto
<1> QED
  BY <1>4, <1>5

LEMMA ChargedType ==
  ASSUME ChannelType PROVE Charged \in Nat
<1>1. Len(log) \in 0..Len(log)
  BY DEF ChannelType
<1> QED
  BY <1>1, UptoType DEF Charged

LEMMA FailureType ==
  ASSUME ChannelType, NEW cause \in Causes
  PROVE  /\ Failure(cause) \in Item
         /\ Failure(cause).upto = Charged
         /\ Terminal(Failure(cause))
  BY ChargedType DEF Failure, Item, Terminal

LEMMA CostType ==
  ASSUME NEW size \in Nat PROVE QueueCost(size) \in 1..QueueBytes
  BY ParsePipelineAssumption DEF QueueCost

(* The log grows by one item, charged on top of what was charged.          *)
Grows(item) ==
  /\ item \in Item /\ item.upto >= Charged
  /\ log' = Append(log, item)

LEMMA GrowsFacts ==
  ASSUME ChannelType, NEW item, Grows(item)
  PROVE  /\ log' \in Seq(Item)
         /\ Len(log') = Len(log) + 1
         /\ log'[Len(log) + 1] = item
         /\ \A i \in 1..Len(log) : log'[i] = log[i]
  BY DEF ChannelType, Grows

(* Growing at its end keeps the log's totals in order.                     *)
LEMMA GrowthKeepsTotals ==
  ASSUME CoreInv, NEW item, Grows(item)
  PROVE  log' \in Seq(Item) /\ TotalsGrow' /\ Charged' = item.upto
<1>1. /\ log' \in Seq(Item) /\ Len(log') = Len(log) + 1
      /\ log'[Len(log) + 1] = item
      /\ \A i \in 1..Len(log) : log'[i] = log[i]
  BY GrowsFacts DEF CoreInv, TypeOK
<1>2. Len(log) \in Nat
  BY DEF CoreInv, TypeOK, ChannelType
<1>3. TotalsGrow'
  <2> SUFFICES ASSUME NEW i \in 1..(Len(log) + 1), NEW j \in 1..(Len(log) + 1),
                      i <= j
               PROVE  log'[i].upto <= log'[j].upto
    BY <1>1 DEF TotalsGrow
  <2>1. CASE j <= Len(log)
    BY <1>1, <1>2, <2>1 DEF CoreInv, TotalsGrow
  <2>2. CASE j = Len(log) + 1 /\ i <= Len(log)
    <3>1. i \in 1..Len(log) /\ Len(log) \in 1..Len(log)
      BY <1>2, <2>2
    <3>2. log[i].upto <= log[Len(log)].upto
      BY <1>2, <3>1, <2>2 DEF CoreInv, TotalsGrow
    <3>3. Charged = log[Len(log)].upto
      BY <3>1 DEF Charged, Upto
    <3>4. log[i] \in Item /\ log[Len(log)] \in Item /\ item \in Item
      BY <3>1, LogItems DEF CoreInv, TypeOK, Grows
    <3> QED
      BY <1>1, <2>2, <3>1, <3>2, <3>3, <3>4 DEF Grows, Item
  <2>3. CASE i = Len(log) + 1 /\ j = Len(log) + 1
    BY <1>1, <2>3 DEF Grows, Item
  <2> QED
    BY <1>2, <2>1, <2>2, <2>3
<1>4. Charged' = item.upto
  BY <1>1, <1>2 DEF Charged, Upto
<1> QED
  BY <1>1, <1>3, <1>4

(* It keeps the cursors in place, and charges what the new item added.     *)
LEMMA GrowthKeepsCursors ==
  ASSUME CoreInv, NEW item, Grows(item), UNCHANGED <<drained, taken, finished>>
  PROVE  /\ log' \in Seq(Item)
         /\ Cursors' /\ TotalsGrow'
         /\ Charged' = item.upto
         /\ Upto(log', taken') = Upto(log, taken)
         /\ Upto(log', drained') = Upto(log, drained)
<1>1. /\ log' \in Seq(Item) /\ Len(log') = Len(log) + 1
      /\ log'[Len(log) + 1] = item
      /\ \A i \in 1..Len(log) : log'[i] = log[i]
  BY GrowsFacts DEF CoreInv, TypeOK
<1>2. /\ drained \in Nat /\ taken \in Nat /\ Len(log) \in Nat
      /\ taken <= drained /\ drained <= Len(log)
  BY DEF CoreInv, TypeOK, ChannelType, StreamType, Cursors
<1>3. Cursors'
  BY <1>1, <1>2 DEF CoreInv, Cursors, Final, Terminal
<1>4. /\ Upto(log', taken') = Upto(log, taken)
      /\ Upto(log', drained') = Upto(log, drained)
  BY <1>1, <1>2 DEF Upto
<1> QED
  BY <1>3, <1>4, GrowthKeepsTotals

LEMMA EmptySeq == <<>> \in Seq(Nat) /\ Len(<<>>) = 0
  OBVIOUS

-----------------------------------------------------------------------------
(* Layer one: types, cursors and the ledger.                               *)

(* The core without the types of the forwarder and of the parser's state,  *)
(* which the steps change in their own ways.                               *)
Channel == ChannelType /\ Cursors /\ TotalsGrow /\ LedgerBalances

LEMMA CoreInit == Init => CoreInv
<1> SUFFICES ASSUME Init PROVE CoreInv
  OBVIOUS
<1> USE ParsePipelineAssumption DEF Init
<1>1. log \in Seq(Item) /\ Len(log) = 0 /\ chunks \in Seq(Nat) /\ Len(chunks) = 0
  OBVIOUS
<1>2. ForwarderType /\ InputType /\ StreamType /\ CallType
  BY DEF ForwarderType, InputType, StreamType, CallType
<1>3. ChunksType /\ ParserType /\ DeliveryType /\ ChannelType
  <2>1. ChunksType /\ ChannelType
    BY <1>1 DEF ChunksType, ChannelType
  <2>2. ParserType
    BY DEF ParserType
  <2>3. "event" \in EventKinds /\ 0 \in 0..QueueBytes
    BY DEF EventKinds
  <2>4. DeliveryType
    BY <2>3 DEF DeliveryType
  <2> QED
    BY <2>1, <2>2, <2>4
<1>4. Cursors /\ TotalsGrow /\ LedgerBalances
  BY <1>1 DEF Cursors, TotalsGrow, LedgerBalances, Charged, Upto, Final
<1> QED
  BY <1>2, <1>3, <1>4 DEF CoreInv, TypeOK

(* Steps that send nothing and leave the stream and the permits alone. *)
LEMMA QuietKeepsChannel ==
  ASSUME CoreInv, UNCHANGED <<log, drained, taken, batchBytes, finished, avail>>
  PROVE  Channel'
  BY DEF CoreInv, Channel, TypeOK, ChannelType, Cursors, TotalsGrow,
         LedgerBalances, Charged, Upto, Final, Terminal

(* A failure queued, or not queued because nobody is there to receive it.  *)
LEMMA QueueKeepsChannel ==
  ASSUME CoreInv, NEW cause \in Causes, Queue(cause),
         UNCHANGED <<drained, taken, batchBytes, finished, avail>>
  PROVE  Channel'
<1>1. CASE dropped
  BY <1>1, QuietKeepsChannel DEF Queue
<1>2. CASE ~dropped
  <2>1. ChannelType /\ LedgerBalances
    BY DEF CoreInv, TypeOK
  <2>2. /\ Failure(cause) \in Item /\ Failure(cause).upto = Charged
        /\ log' = Append(log, Failure(cause))
    BY <1>2, <2>1, FailureType DEF Queue
  <2>3. Charged \in Nat
    BY <2>1, ChargedType
  <2>4. Grows(Failure(cause))
    BY <2>2, <2>3 DEF Grows
  <2>5. /\ log' \in Seq(Item) /\ Cursors' /\ TotalsGrow' /\ Charged' = Charged
        /\ Upto(log', taken') = Upto(log, taken)
        /\ Upto(log', drained') = Upto(log, drained)
    BY <2>2, <2>4, GrowthKeepsCursors
  <2> QED
    BY <2>1, <2>5 DEF Channel, ChannelType, LedgerBalances
<1> QED
  BY <1>1, <1>2

(* Each part of the type invariant is kept by a step that leaves the       *)
(* variables it is about alone.                                            *)
LEMMA TypeFrames ==
  ASSUME TypeOK
  PROVE  /\ UNCHANGED <<upload, messages, forwarder, held, discarded>> => ForwarderType'
         /\ UNCHANGED chunks => ChunksType'
         /\ UNCHANGED <<parser, result>> => ParserType'
         /\ UNCHANGED <<eof, received, produced>> => InputType'
         /\ UNCHANGED <<pending, served>> => DeliveryType'
         /\ UNCHANGED <<drained, taken, batchBytes, releasing, wait, finished>>
              => StreamType'
         /\ UNCHANGED <<dropped, cancelled, late, slot, tally>> => CallType'
  BY DEF TypeOK, ForwarderType, ChunksType, ParserType, InputType,
         DeliveryType, StreamType, CallType

LEMMA ForwarderKeepsCore ==
  ASSUME CoreInv, Forwarder PROVE CoreInv'
<1> USE ParsePipelineAssumption
<1>1. TypeOK /\ ForwarderType /\ ChunksType
  BY DEF CoreInv, TypeOK
<1>2. UNCHANGED <<parseVars, streamVars, lifeVars, late, slotVars, avail>>
  BY DEF Forwarder, ReceiveChunk, DiscardMessage, ReceiveBreach,
         ReceiveTransportError, ReceiveEnd, InputIdle, DeadlineDuringUpload,
         DropChunkSender, SendChunk, BeginDiscard, DiscardEnd, DiscardIdle,
         GiveUp
<1>3. ParserType' /\ InputType' /\ DeliveryType' /\ StreamType' /\ CallType'
  BY <1>1, <1>2, TypeFrames
     DEF parseVars, streamVars, lifeVars, slotVars
<1>4. UNCHANGED <<drained, taken, batchBytes, finished, avail>>
  BY <1>2 DEF streamVars
<1>5. ForwarderType' /\ ChunksType' /\ Channel'
  <2>1. ASSUME UNCHANGED <<chunks, log>> PROVE ChunksType' /\ Channel'
    BY <1>1, <1>4, <2>1, TypeFrames, QuietKeepsChannel
  <2>2. ASSUME NEW size \in ChunkSizes, ReceiveChunk(size) \/ DiscardMessage(size)
        PROVE  ForwarderType' /\ ChunksType' /\ Channel'
    <3>1. ForwarderType'
      BY <1>1, <2>2 DEF ForwarderType, ReceiveChunk, DiscardMessage, Receive
    <3> QED
      BY <2>1, <2>2, <3>1 DEF ReceiveChunk, DiscardMessage
  <2>3. CASE DropChunkSender \/ ReceiveEnd \/ BeginDiscard \/ DiscardEnd \/ DiscardIdle
    <3>1. ForwarderType'
      BY <1>1, <2>3 DEF ForwarderType, DropChunkSender, ReceiveEnd,
                        BeginDiscard, DiscardEnd, DiscardIdle, uploadVars
    <3> QED
      BY <2>1, <2>3, <3>1
         DEF DropChunkSender, ReceiveEnd, BeginDiscard, DiscardEnd, DiscardIdle
  <2>4. CASE SendChunk
    <3>1. ForwarderType'
      BY <1>1, <2>4 DEF ForwarderType, SendChunk, uploadVars
    <3>2. ChunksType'
      BY <1>1, <2>4 DEF ForwarderType, ChunksType, SendChunk
    <3> QED
      BY <1>4, <2>4, <3>1, <3>2, QuietKeepsChannel DEF SendChunk
  <2>5. ASSUME NEW cause \in ForwarderCauses, GiveUp(cause),
               upload' \in {"open", "ended", "broken"}, messages' \in Nat
        PROVE  ForwarderType' /\ ChunksType' /\ Channel'
    <3>1. ForwarderType' /\ ChunksType'
      BY <1>1, <2>5, TypeFrames DEF ForwarderType, GiveUp
    <3> QED
      BY <1>4, <2>5, <3>1, QueueKeepsChannel DEF GiveUp, Causes
  <2>6. CASE ReceiveBreach
    BY <1>1, <2>5, <2>6 DEF ReceiveBreach, Receive, ForwarderCauses, ForwarderType
  <2>7. CASE ReceiveTransportError
    BY <1>1, <2>5, <2>7 DEF ReceiveTransportError, ForwarderCauses, ForwarderType
  <2>8. CASE InputIdle
    BY <1>1, <2>5, <2>8 DEF InputIdle, uploadVars, ForwarderCauses, ForwarderType
  <2>9. CASE DeadlineDuringUpload
    BY <1>1, <2>5, <2>9
       DEF DeadlineDuringUpload, uploadVars, ForwarderCauses, ForwarderType
  <2> QED
    BY <2>2, <2>3, <2>4, <2>6, <2>7, <2>8, <2>9 DEF Forwarder
<1> QED
  BY <1>3, <1>5 DEF CoreInv, TypeOK, Channel

LEMMA ParserKeepsCore ==
  ASSUME CoreInv, Parser PROVE CoreInv'
<1> USE ParsePipelineAssumption
<1>1. /\ TypeOK /\ ChunksType /\ ParserType /\ InputType /\ DeliveryType
      /\ ChannelType /\ CallType
  BY DEF CoreInv, TypeOK
<1>2. UNCHANGED <<uploadVars, forwardVars, streamVars, lifeVars, late>>
  BY DEF Parser, ReadChunk, ReadEof, WantMore, ParseStops, ParserPanics,
         ParseFails, BeginDeliver, Delivered, DeliveryStalls, DeliveryGone,
         Account, ReleaseSlot, Join
<1>3. ForwarderType' /\ StreamType'
  BY <1>1, <1>2, TypeFrames DEF uploadVars, forwardVars, streamVars
<1>4. UNCHANGED <<drained, taken, batchBytes, finished>>
  BY <1>2 DEF streamVars
<1>5. UNCHANGED <<dropped, cancelled, late>>
  BY <1>2 DEF lifeVars
<1> DEFINE Rest == /\ ChunksType' /\ ParserType' /\ InputType' /\ DeliveryType'
                   /\ CallType' /\ Channel'
<1> SUFFICES Rest
  BY <1>3 DEF CoreInv, TypeOK, Channel
<1>6. ASSUME NEW how \in ParserCauses, Return(how),
             UNCHANGED <<eof, received, produced, pending, served, avail, log,
                         slot, tally>>
      PROVE  Rest
  <2>1. ChunksType' /\ ParserType'
    <3>1. how # "none"
      BY DEF ParserCauses
    <3> QED
      BY <1>6, <3>1, EmptySeq DEF Return, ChunksType, ParserType
  <2>2. InputType' /\ DeliveryType' /\ CallType'
    BY <1>1, <1>5, <1>6, TypeFrames
  <2> QED
    BY <1>4, <1>6, <2>1, <2>2, QuietKeepsChannel
<1>7. CASE ReadChunk
  <2>1. UNCHANGED <<eof, produced, pending, served, avail, log, slot, tally>>
    BY <1>7 DEF ReadChunk, slotVars
  <2>2. chunks \in Seq(Nat) /\ chunks # <<>> /\ Len(chunks) <= ChunkBound
    BY <1>1, <1>7 DEF ReadChunk, ChunksType
  <2>3. /\ Head(chunks) \in Nat /\ Tail(chunks) \in Seq(Nat)
        /\ Len(Tail(chunks)) = Len(chunks) - 1
    BY <2>2
  <2>4. ChunksType'
    <3>1. chunks' = Tail(chunks) \/ chunks' = <<>>
      BY <1>7 DEF ReadChunk, Return
    <3>2. Len(chunks) - 1 <= ChunkBound /\ 0 <= ChunkBound
      BY <2>2
    <3> QED
      BY <2>3, <3>1, <3>2, EmptySeq DEF ChunksType
  <2>5. ParserType'
    BY <1>1, <1>7 DEF ReadChunk, Return, ParserType, StopCause, ParserCauses
  <2>6. InputType'
    BY <1>1, <1>7, <2>1, <2>3 DEF InputType, ReadChunk
  <2>7. DeliveryType' /\ CallType'
    BY <1>1, <1>5, <2>1, TypeFrames
  <2> QED
    BY <1>4, <2>1, <2>4, <2>5, <2>6, <2>7, QuietKeepsChannel
<1>8. CASE ReadEof \/ WantMore \/ ReleaseSlot
  <2>1. UNCHANGED <<chunks, received, produced, pending, served, result, avail, log, tally>>
    BY <1>8 DEF ReadEof, WantMore, ReleaseSlot, slotVars
  <2>2. ParserType' /\ InputType' /\ CallType'
    BY <1>1, <1>5, <1>8, <2>1
       DEF ReadEof, WantMore, ReleaseSlot, ParserType, InputType, CallType,
           slotVars
  <2>3. ChunksType' /\ DeliveryType'
    BY <1>1, <2>1, TypeFrames
  <2> QED
    BY <1>4, <2>1, <2>2, <2>3, QuietKeepsChannel
<1>9. CASE ParseStops
  BY <1>6, <1>9 DEF ParseStops, StopCause, ParserCauses, slotVars
<1>10. CASE \E cause \in {"malformed", "truncated", "unsupported"} : ParseFails(cause)
  BY <1>6, <1>10 DEF ParseFails, ParserCauses, slotVars
<1>11. CASE DeliveryStalls \/ DeliveryGone
  BY <1>6, <1>11 DEF DeliveryStalls, DeliveryGone, ParserCauses, slotVars
<1>12. CASE ParserPanics
  <2>1. UNCHANGED <<eof, received, produced, pending, served, result, avail, log, tally>>
    BY <1>12 DEF ParserPanics
  <2>2. ChunksType'
    BY <1>12, EmptySeq DEF ParserPanics, ChunksType
  <2>4. ParserType' /\ CallType'
    BY <1>1, <1>5, <1>12, <2>1 DEF ParserPanics, ParserType, CallType
  <2>3. InputType' /\ DeliveryType'
    BY <1>1, <2>1, TypeFrames
  <2> QED
    BY <1>4, <2>1, <2>2, <2>3, <2>4, QuietKeepsChannel
<1>13. ASSUME NEW kind \in EventKinds, NEW size \in EventSizes,
              BeginDeliver(kind, size)
       PROVE  Rest
  <2>1. UNCHANGED <<chunks, eof, received, result, avail, log, slot, tally>>
    BY <1>13 DEF BeginDeliver, slotVars
  <2>2. QueueCost(size) \in 0..QueueBytes
    BY CostType
  <2>3. DeliveryType'
    BY <1>13, <2>2 DEF BeginDeliver, DeliveryType
  <2>4. ParserType' /\ InputType'
    BY <1>1, <1>13, <2>1 DEF BeginDeliver, ParserType, InputType
  <2>5. ChunksType' /\ CallType'
    BY <1>1, <1>5, <2>1, TypeFrames
  <2> QED
    BY <1>4, <2>1, <2>3, <2>4, <2>5, QuietKeepsChannel
<1>14. ASSUME NEW size \in EventSizes, Delivered(size) PROVE Rest
  <2> DEFINE item == Event(pending.kind, pending.cost)
  <2>1. UNCHANGED <<eof, received, produced, slot, tally>>
    BY <1>14 DEF Delivered, slotVars
  <2>2. /\ pending.kind \in EventKinds /\ pending.cost \in Nat
        /\ avail \in Nat /\ avail >= pending.cost /\ Charged \in Nat
    BY <1>1, <1>14, ChargedType DEF Delivered, DeliveryType, ChannelType
  <2>3. item \in Item /\ item.upto = Charged + pending.cost
    BY <2>2 DEF Event, Item
  <2>4. Grows(item)
    BY <1>14, <2>2, <2>3 DEF Grows, Delivered
  <2> HIDE DEF item
  <2>5. /\ log' \in Seq(Item)
        /\ Cursors' /\ TotalsGrow' /\ Charged' = Charged + pending.cost
        /\ Upto(log', taken') = Upto(log, taken)
        /\ Upto(log', drained') = Upto(log, drained)
    BY <1>4, <2>3, <2>4, GrowthKeepsCursors
  <2>6. avail' = avail - pending.cost /\ avail' \in Nat
    BY <1>14, <2>2 DEF Delivered
  <2>7. Upto(log, taken) \in Nat
    BY <1>1, UptoType DEF CoreInv, Cursors, TypeOK, StreamType, ChannelType
  <2>8. Channel'
    <3>1. avail + (Charged - Upto(log, taken)) = QueueBytes
      BY DEF CoreInv, LedgerBalances
    <3>2. (avail - pending.cost) + ((Charged + pending.cost) - Upto(log, taken))
            = QueueBytes
      BY <2>2, <2>7, <3>1
    <3>3. avail' + (Charged' - Upto(log', taken')) = QueueBytes
      BY <2>5, <2>6, <3>2
    <3>4. LedgerBalances'
      BY <1>4, <2>5, <3>3 DEF CoreInv, LedgerBalances
    <3> QED
      BY <2>5, <2>6, <3>4 DEF Channel, ChannelType
  <2>9. QueueCost(size) \in 0..QueueBytes
    BY CostType
  <2>10. DeliveryType'
    <3>1. \/ UNCHANGED <<pending, served>>
          \/ /\ pending' = [kind |-> "status", cost |-> QueueCost(size)]
             /\ served' = FALSE
      BY <1>14 DEF Delivered
    <3>2. "status" \in EventKinds
      BY DEF EventKinds
    <3>3. ASSUME pending' = [kind |-> "status", cost |-> QueueCost(size)],
                 served' = FALSE
          PROVE  DeliveryType'
      BY <2>9, <3>2, <3>3 DEF DeliveryType
    <3> QED
      BY <1>1, <3>1, <3>3, TypeFrames
  <2>11. ChunksType' /\ ParserType'
    <3>1. CASE parser' = "parsing" /\ UNCHANGED <<chunks, result>>
      BY <1>1, <3>1 DEF ChunksType, ParserType
    <3>2. CASE UNCHANGED <<parser, chunks, result>>
      BY <1>1, <3>2, TypeFrames
    <3>3. CASE Return("ok")
      BY <3>3, EmptySeq DEF Return, ChunksType, ParserType
    <3> QED
      BY <1>14, <3>1, <3>2, <3>3 DEF Delivered
  <2>12. InputType' /\ CallType'
    BY <1>1, <1>5, <2>1, TypeFrames
  <2> QED
    BY <2>8, <2>10, <2>11, <2>12
<1>15. ASSUME parser' \in {"accounted", "done"},
              tally' \in {"none", "ok", "failed", "capped"},
              (\E cause \in Causes : Queue(cause)) \/ UNCHANGED log,
              UNCHANGED <<chunks, eof, received, produced, pending, served,
                          result, avail, slot>>
       PROVE  Rest
  <2>1. Channel'
    BY <1>4, <1>15, QueueKeepsChannel, QuietKeepsChannel
  <2>2. ParserType' /\ CallType'
    BY <1>1, <1>5, <1>15 DEF ParserType, CallType
  <2>3. ChunksType' /\ InputType' /\ DeliveryType'
    BY <1>1, <1>15, TypeFrames
  <2> QED
    BY <2>1, <2>2, <2>3
<1>16. CASE Account
  <2>1. (\E cause \in Causes : Queue(cause)) \/ UNCHANGED log
    <3>1. result \in ParserCauses \/ ~Reported(result)
      BY <1>1, <1>16 DEF ParserType, Reported, Account
    <3> QED
      BY <1>16, <3>1 DEF Account, Causes, Reported
  <2>2. tally' \in {"none", "ok", "failed", "capped"}
    BY <1>16 DEF Account
  <2> QED
    BY <1>15, <1>16, <2>1, <2>2 DEF Account
<1>17. CASE Join
  <2>1. "panic" \in Causes /\ tally' \in {"none", "ok", "failed", "capped"}
    BY <1>1, <1>17 DEF Join, Causes, CallType, slotVars
  <2> QED
    BY <1>15, <1>17, <2>1 DEF Join, slotVars
<1> QED
  BY <1>7, <1>8, <1>9, <1>10, <1>11, <1>12, <1>13, <1>14, <1>16, <1>17 DEF Parser

(* Bytes moved from what is charged to what is free.                       *)
LEMMA Rebalance ==
  ASSUME NEW a \in Nat, NEW c \in Nat, NEW u \in Nat, NEW v \in Nat, NEW q,
         a + (c - u) = q
  PROVE  (a + (v - u)) + (c - v) = q
  OBVIOUS

(* What poll_next can see is the log, or the log and one ending.           *)
LEMMA IncomingFacts ==
  ASSUME CoreInv, log' = Incoming
  PROVE  /\ log' \in Seq(Item) /\ TotalsGrow' /\ Charged' = Charged
         /\ Len(log') >= Len(log)
         /\ \A i \in 0..Len(log) : Upto(log', i) = Upto(log, i)
<1>1. ChannelType /\ Len(log) \in Nat
  BY DEF CoreInv, TypeOK, ChannelType
<1>2. CASE log' = log
  BY <1>1, <1>2 DEF CoreInv, ChannelType, TotalsGrow, Charged
<1>3. CASE log' = Append(log, Failure("notrailer"))
  <2>1. Failure("notrailer") \in Item /\ Failure("notrailer").upto = Charged
    BY <1>1, FailureType DEF Causes
  <2>2. Grows(Failure("notrailer"))
    BY <1>1, <1>3, <2>1, ChargedType DEF Grows
  <2>3. /\ log' \in Seq(Item) /\ TotalsGrow' /\ Charged' = Charged
    BY <2>1, <2>2, GrowthKeepsTotals
  <2>4. /\ Len(log') = Len(log) + 1
        /\ \A i \in 1..Len(log) : log'[i] = log[i]
    BY <1>1, <2>2, GrowsFacts
  <2>5. \A i \in 0..Len(log) : Upto(log', i) = Upto(log, i)
    BY <1>1, <2>4 DEF Upto
  <2> QED
    BY <1>1, <2>3, <2>4, <2>5
<1> QED
  BY <1>2, <1>3 DEF Incoming

LEMMA StreamKeepsCore ==
  ASSUME CoreInv, Stream PROVE CoreInv'
<1> USE ParsePipelineAssumption
<1>1. /\ TypeOK /\ ChannelType /\ StreamType /\ Cursors /\ DeliveryType
      /\ LedgerBalances
  BY DEF CoreInv, TypeOK
<1>2. UNCHANGED <<uploadVars, forwardVars, chunks, parser, eof, received,
                  produced, pending, result, late, slotVars>>
  BY DEF Stream, Gather, HandOver, BatchWaitElapses, TransportEnds,
         ClientLeaves, DropStream, parseVars
<1>3. ForwarderType' /\ ChunksType' /\ ParserType' /\ InputType'
  BY <1>1, <1>2, TypeFrames DEF uploadVars, forwardVars
<1> DEFINE Rest == DeliveryType' /\ CallType' /\ StreamType' /\ Channel'
<1> SUFFICES Rest
  BY <1>3 DEF CoreInv, TypeOK, Channel
(* Either way of polling: the batch gathers up to "end", and the transport *)
(* takes the items up to "got" of it.                                      *)
<1>4. ASSUME NEW end \in (taken + 1)..Len(Incoming),
             NEW got \in {taken, taken + 1},
             Drains(Incoming, end), log' = Incoming,
             drained' = end, taken' = got,
             batchBytes' = Batched(Incoming, end)
                             - (Upto(Incoming, got) - Upto(Incoming, taken)),
             avail' = avail + (Upto(Incoming, got) - Upto(Incoming, taken)),
             finished' <=> (got = end /\ Final(Incoming, end))
      PROVE  /\ Channel'
             /\ drained' \in Nat /\ taken' \in Nat /\ batchBytes' \in Nat
  <2>1. /\ log' \in Seq(Item) /\ TotalsGrow' /\ Charged' = Charged
        /\ Len(log') >= Len(log)
        /\ \A i \in 0..Len(log) : Upto(log', i) = Upto(log, i)
    BY <1>4, IncomingFacts
  <2>2. /\ taken \in 0..Len(log) /\ drained \in 0..Len(log) /\ taken \in Nat
        /\ Len(log') \in Nat /\ Len(log) \in Nat
    BY <1>1, <2>1 DEF Cursors, StreamType, ChannelType
  <2>3. /\ end \in 0..Len(log') /\ got \in 0..Len(log') /\ got <= end
        /\ taken \in 0..Len(log') /\ taken <= got /\ got \in Nat /\ end \in Nat
    BY <1>4, <2>1, <2>2
  <2>4. /\ Upto(log', got) \in Nat /\ Upto(log', end) \in Nat
        /\ Upto(log', got) <= Upto(log', end)
        /\ Upto(log', taken) \in Nat /\ Upto(log', taken) <= Upto(log', got)
    <3>1. \A i, j \in 1..Len(log') : i <= j => log'[i].upto <= log'[j].upto
      BY <2>1 DEF TotalsGrow
    <3> QED
      BY <2>1, <2>3, <3>1, UptoMonotone
  <2>5. /\ batchBytes = Upto(log', drained) - Upto(log', taken)
        /\ avail + (Charged' - Upto(log', taken)) = QueueBytes
    BY <1>1, <2>1, <2>2 DEF LedgerBalances
  <2>6. /\ Upto(log', drained) \in Nat /\ Charged' \in Nat /\ avail \in Nat
    BY <1>1, <2>1, <2>2, UptoType, ChargedType DEF ChannelType
  <2>7. batchBytes' = Upto(log', end) - Upto(log', got)
    <3>1. batchBytes' = (batchBytes + Upto(log', end) - Upto(log', drained))
                          - (Upto(log', got) - Upto(log', taken))
      BY <1>4 DEF Batched
    <3>2. batchBytes = Upto(log', drained) - Upto(log', taken)
      BY <2>5
    <3> QED
      BY ONLY <2>4, <2>6, <3>1, <3>2
  <2>8. /\ avail' + (Charged' - Upto(log', got)) = QueueBytes
        /\ avail' \in Nat /\ batchBytes' \in Nat
    <3>1. avail' = avail + (Upto(log', got) - Upto(log', taken))
      BY <1>4
    <3>2. Upto(log', got) - Upto(log', taken) \in Nat
      BY <2>4
    <3>3. avail' \in Nat
      BY <2>6, <3>1, <3>2
    <3>4. avail' + (Charged' - Upto(log', got)) = QueueBytes
      <4>1. /\ avail \in Nat /\ Charged' \in Nat
            /\ Upto(log', taken) \in Nat /\ Upto(log', got) \in Nat
            /\ avail + (Charged' - Upto(log', taken)) = QueueBytes
        BY <2>4, <2>5, <2>6
      <4>2. (avail + (Upto(log', got) - Upto(log', taken))) + (Charged' - Upto(log', got))
              = QueueBytes
        BY ONLY <4>1, Rebalance
      <4> QED
        BY ONLY <3>1, <4>2
    <3>5. batchBytes' \in Nat
      BY <2>4, <2>7
    <3> QED
      BY <3>3, <3>4, <3>5
  <2>9. LedgerBalances'
    BY <1>4, <2>7, <2>8 DEF LedgerBalances
  <2>10. Cursors'
    BY <1>4, <2>3 DEF Cursors, Drains
  <2> QED
    BY <1>4, <2>1, <2>3, <2>8, <2>9, <2>10 DEF Channel, ChannelType
<1>5. CASE Gather
  <2>1. PICK end \in (taken + 1)..Len(Incoming) :
             /\ Drains(Incoming, end)
             /\ drained' = end /\ batchBytes' = Batched(Incoming, end)
    BY <1>5 DEF Gather
  <2>2. /\ log' = Incoming /\ taken' = taken /\ avail' = avail
        /\ finished = FALSE /\ finished' = FALSE
        /\ wait' = "armed" /\ releasing' = releasing
        /\ UNCHANGED <<pending, served, dropped, cancelled, late, slot, tally>>
    BY <1>1, <1>5 DEF Gather, Polled, StreamType, lifeVars, slotVars, parseVars
  <2>3. /\ Upto(Incoming, taken) - Upto(Incoming, taken) = 0
        /\ Batched(Incoming, end) \in Int /\ avail \in Nat /\ taken # end
    <3>1. /\ taken \in 0..Len(log) /\ drained \in 0..Len(log)
          /\ taken \in Nat /\ Len(log) \in Nat /\ batchBytes \in Nat
      BY <1>1 DEF Cursors, StreamType, ChannelType
    <3>2. Upto(log', taken) \in Nat /\ Upto(log', drained) \in Nat
      BY <1>1, <2>2, <3>1, IncomingFacts, UptoType
    <3>3. Upto(log', end) \in Nat
      <4>1. /\ log' \in Seq(Item) /\ end \in 0..Len(log')
            /\ \A i, j \in 1..Len(log') : i <= j => log'[i].upto <= log'[j].upto
        BY <2>2, <3>1, IncomingFacts DEF TotalsGrow
      <4> QED
        BY <4>1, UptoMonotone
    <3> QED
      BY <1>1, <2>2, <3>1, <3>2, <3>3 DEF Batched, ChannelType
  <2>4. /\ Channel' /\ drained' \in Nat /\ taken' \in Nat /\ batchBytes' \in Nat
    BY <1>4, <2>1, <2>2, <2>3
  <2>5. StreamType' /\ DeliveryType' /\ CallType'
    BY <1>1, <2>2, <2>4, TypeFrames DEF StreamType
  <2> QED
    BY <2>4, <2>5
<1>6. CASE HandOver
  <2>1. PICK end \in (taken + 1)..Len(Incoming) :
          /\ Drains(Incoming, end) /\ drained' = end
          /\ batchBytes' = Batched(Incoming, end)
                             - (Upto(Incoming, taken + 1) - Upto(Incoming, taken))
          /\ avail' = avail + (Upto(Incoming, taken + 1) - Upto(Incoming, taken))
          /\ releasing' = (taken + 1 < end)
          /\ finished' = (taken + 1 = end /\ Final(Incoming, end))
    BY <1>6 DEF HandOver
  <2>2. /\ log' = Incoming /\ taken' = taken + 1 /\ wait' = "off"
        /\ served' = (served \/ parser = "delivering")
        /\ UNCHANGED <<pending, dropped, cancelled, late, slot, tally>>
    BY <1>6 DEF HandOver, lifeVars, slotVars
  <2>3. /\ Channel' /\ drained' \in Nat /\ taken' \in Nat /\ batchBytes' \in Nat
    BY <1>4, <2>1, <2>2
  <2>4. releasing' \in BOOLEAN /\ finished' \in BOOLEAN /\ served' \in BOOLEAN
    BY <2>1, <2>2
  <2>5. StreamType' /\ DeliveryType' /\ CallType'
    BY <1>1, <2>2, <2>3, <2>4, TypeFrames DEF StreamType, DeliveryType
  <2> QED
    BY <2>3, <2>5
<1>7. CASE BatchWaitElapses
  <2>1. UNCHANGED <<pending, served, avail, log, drained, taken, batchBytes,
                    releasing, finished, dropped, cancelled, late, slot, tally>>
    BY <1>7 DEF BatchWaitElapses, parseVars, lifeVars, slotVars
  <2>2. StreamType' /\ DeliveryType' /\ CallType'
    BY <1>1, <1>7, <2>1, TypeFrames DEF StreamType, BatchWaitElapses
  <2> QED
    BY <2>1, <2>2, QuietKeepsChannel
<1>8. CASE DropStream
  <2>1. UNCHANGED <<pending, served, avail, log, drained, taken, batchBytes,
                    releasing, wait, finished, late, slot, tally>>
    BY <1>8 DEF DropStream, parseVars, streamVars, slotVars
  <2>2. dropped' = TRUE /\ cancelled' \in BOOLEAN
    BY <1>8 DEF DropStream
  <2>3. StreamType' /\ DeliveryType' /\ CallType'
    BY <1>1, <2>1, <2>2, TypeFrames DEF TypeOK, CallType
  <2> QED
    BY <2>1, <2>3, QuietKeepsChannel
<1> QED
  BY <1>5, <1>6, <1>7, <1>8 DEF Stream, TransportEnds, ClientLeaves

LEMMA CoreStep ==
  ASSUME CoreInv, [Next]_vars PROVE CoreInv'
<1>1. CASE Forwarder
  BY <1>1, ForwarderKeepsCore
<1>2. CASE Parser
  BY <1>2, ParserKeepsCore
<1>3. CASE Stream
  BY <1>3, StreamKeepsCore
<1>4. CASE DeadlinePasses
  <2>1. TypeOK /\ CallType
    BY DEF CoreInv, TypeOK
  <2>2. UNCHANGED <<uploadVars, forwardVars, chunks, parseVars, avail, log,
                    streamVars, lifeVars, slotVars>> /\ late' = TRUE
    BY <1>4 DEF DeadlinePasses
  <2>3. CallType'
    BY <2>1, <2>2 DEF CallType, lifeVars, slotVars
  <2>4. /\ ForwarderType' /\ ChunksType' /\ ParserType' /\ InputType'
        /\ DeliveryType' /\ StreamType'
    BY <2>1, <2>2, TypeFrames DEF uploadVars, forwardVars, parseVars, streamVars
  <2>5. Channel'
    BY <2>2, QuietKeepsChannel DEF streamVars
  <2> QED
    BY <2>3, <2>4, <2>5 DEF CoreInv, TypeOK, Channel
<1>5. CASE UNCHANGED vars
  <2>1. UNCHANGED <<uploadVars, forwardVars, chunks, parseVars, avail, log,
                    streamVars, lifeVars, late, slotVars>>
    BY <1>5 DEF vars
  <2>2. /\ ForwarderType' /\ ChunksType' /\ ParserType' /\ InputType'
        /\ DeliveryType' /\ StreamType' /\ CallType'
    BY <2>1, TypeFrames
       DEF CoreInv, uploadVars, forwardVars, parseVars, streamVars, lifeVars,
           slotVars
  <2>3. Channel'
    BY <2>1, QuietKeepsChannel DEF streamVars
  <2> QED
    BY <2>2, <2>3 DEF CoreInv, TypeOK, Channel
<1> QED
  BY <1>1, <1>2, <1>3, <1>4, <1>5 DEF Next, Stutter

THEOREM CoreCorrect == Spec => []CoreInv
<1>1. Init => CoreInv
  BY CoreInit
<1>2. CoreInv /\ [Next]_vars => CoreInv'
  BY CoreStep
<1> QED
  BY <1>1, <1>2, PTL DEF Spec

(* Every variable of a call keeps to its range: the chunk channel never    *)
(* exceeds its bound and an event never waits for more permits than the    *)
(* queue has, however long the document and whatever its events measure.   *)
THEOREM TypeCorrect == Spec => []TypeOK
<1>1. CoreInv => TypeOK
  BY DEF CoreInv
<1> QED
  BY <1>1, CoreCorrect, PTL

(* Permits and charged bytes make up the queue in every state, so neither  *)
(* the release in poll_next nor its subtraction from batch_bytes can wrap. *)
THEOREM LedgerCorrect == Spec => []LedgerBalances
<1>1. CoreInv => LedgerBalances
  BY DEF CoreInv
<1> QED
  BY <1>1, CoreCorrect, PTL

-----------------------------------------------------------------------------
(* Layer two: who has queued an ending, and why an input ended.            *)

HasEnding == \E i \in DOMAIN log : Terminal(log[i])

(* A parse that is over has queued an ending, or nobody is left to get it. *)
EndingInv ==
  /\ cancelled => dropped
  /\ parser = "returned" /\ result = "gone" => dropped
  /\ parser = "returned" /\ result = "ok" => HasEnding
  /\ parser \in {"accounted", "exited", "done"} => dropped \/ HasEnding
  /\ NeverRunsOut

(* The client ended its upload, or an ending is queued ahead of whatever   *)
(* the parser makes of the end of its input.                               *)
Excused == upload = "ended" \/ dropped \/ HasEnding

FirstTruncated ==
  \A i \in DOMAIN log :
    log[i].cause = "truncated" /\ (\A j \in 1..(i - 1) : ~Terminal(log[j]))
      => upload = "ended"

UploadInv ==
  /\ forwarder = "failing" => Excused
  /\ forwarder = "discarding" => ~ParserRunning
  /\ forwarder = "done" /\ ParserRunning => Excused
  /\ eof => Excused
  /\ parser = "returned" /\ result = "truncated" => eof
  /\ FirstTruncated

(* What becomes of these facts when an item is queued, and when none is.   *)
LEMMA AppendFacts ==
  ASSUME ChannelType, NEW item \in Item, log' = Append(log, item)
  PROVE  /\ HasEnding' <=> HasEnding \/ Terminal(item)
         /\ NeverRunsOut' <=> NeverRunsOut /\ item.cause # "notrailer"
         /\ FirstTruncated /\ (item.cause = "truncated" => HasEnding \/ upload = "ended")
              /\ (upload = "ended" => upload' = "ended") => FirstTruncated'
<1>1. /\ Len(log) \in Nat /\ Len(log') = Len(log) + 1
      /\ log'[Len(log) + 1] = item
      /\ \A i \in 1..Len(log) : log'[i] = log[i]
      /\ DOMAIN log = 1..Len(log) /\ DOMAIN log' = 1..Len(log')
  BY DEF ChannelType
<1>2. \A i \in DOMAIN log' : i \in DOMAIN log \/ i = Len(log) + 1
  BY <1>1
<1>3. Len(log) + 1 \in DOMAIN log' /\ DOMAIN log \subseteq DOMAIN log'
  BY <1>1
<1>4. HasEnding' <=> HasEnding \/ Terminal(item)
  BY <1>1, <1>2, <1>3 DEF HasEnding
<1>5. NeverRunsOut' <=> NeverRunsOut /\ item.cause # "notrailer"
  BY <1>1, <1>2, <1>3 DEF NeverRunsOut
<1>6. ASSUME FirstTruncated, item.cause = "truncated" => HasEnding \/ upload = "ended",
             upload = "ended" => upload' = "ended"
      PROVE  FirstTruncated'
  <2> SUFFICES ASSUME NEW i \in DOMAIN log', log'[i].cause = "truncated",
                      \A j \in 1..(i - 1) : ~Terminal(log'[j])
               PROVE  upload = "ended"
    BY <1>6 DEF FirstTruncated
  <2>1. CASE i \in DOMAIN log
    <3>1. \A j \in 1..(i - 1) : ~Terminal(log[j])
      BY <1>1, <2>1
    <3> QED
      BY <1>1, <1>6, <2>1, <3>1 DEF FirstTruncated
  <2>2. CASE i = Len(log) + 1
    <3>1. ~HasEnding
      BY <1>1, <2>2 DEF HasEnding
    <3> QED
      BY <1>1, <1>6, <2>2, <3>1
  <2> QED
    BY <1>2, <2>1, <2>2
<1> QED
  BY <1>4, <1>5, <1>6

LEMMA SameLogFacts ==
  ASSUME log' = log
  PROVE  /\ HasEnding' <=> HasEnding
         /\ NeverRunsOut' <=> NeverRunsOut
         /\ FirstTruncated /\ (upload = "ended" => upload' = "ended")
              => FirstTruncated'
  BY DEF HasEnding, NeverRunsOut, FirstTruncated

LEMMA QueueFacts ==
  ASSUME ChannelType, NEW cause \in Causes \ {"notrailer"}, Queue(cause)
  PROVE  /\ dropped \/ HasEnding'
         /\ HasEnding => HasEnding'
         /\ NeverRunsOut => NeverRunsOut'
         /\ FirstTruncated /\ (cause = "truncated" => HasEnding \/ upload = "ended")
              /\ (upload = "ended" => upload' = "ended") => FirstTruncated'
<1>1. CASE dropped
  BY <1>1, SameLogFacts DEF Queue
<1>2. CASE ~dropped
  <2>1. log' = Append(log, Failure(cause)) /\ Failure(cause) \in Item
    BY <1>2, FailureType DEF Queue
  <2>2. Failure(cause).cause = cause /\ Terminal(Failure(cause))
    BY DEF Failure, Terminal
  <2> QED
    BY <2>1, <2>2, AppendFacts
<1> QED
  BY <1>1, <1>2

(* Behind a parse that is over, poll_next finds an ending already there.   *)
LEMMA IncomingIsLog ==
  ASSUME EndingInv, ~dropped PROVE Incoming = log
  BY DEF EndingInv, Incoming, EventSendersGone, HasEnding

(* What each party may do to the log and to its own part of the state, as  *)
(* far as layer two can tell.                                              *)
LEMMA ForwarderSends ==
  ASSUME Forwarder
  PROVE  /\ UNCHANGED <<parseVars, streamVars, lifeVars, late, slotVars, avail>>
         /\ log' = log \/ \E cause \in ForwarderCauses : Queue(cause)
  BY DEF Forwarder, ReceiveChunk, DiscardMessage, ReceiveBreach,
         ReceiveTransportError, ReceiveEnd, InputIdle, DeadlineDuringUpload,
         DropChunkSender, SendChunk, BeginDiscard, DiscardEnd, DiscardIdle,
         GiveUp, ForwarderCauses

LEMMA StreamSends ==
  ASSUME EndingInv, Stream
  PROVE  /\ UNCHANGED <<uploadVars, forwardVars, chunks, parser, eof, received,
                        produced, pending, result, late, slotVars>>
         /\ log' = log
         /\ dropped => dropped' /\ cancelled' = cancelled
         /\ cancelled' => cancelled \/ dropped'
<1>1. CASE Gather \/ HandOver
  BY <1>1, IncomingIsLog DEF Gather, HandOver, Polled, parseVars, lifeVars
<1>2. CASE BatchWaitElapses
  BY <1>2 DEF BatchWaitElapses, parseVars, lifeVars
<1>3. CASE DropStream
  BY <1>3 DEF DropStream, parseVars, lifeVars
<1> QED
  BY <1>1, <1>2, <1>3 DEF Stream, TransportEnds, ClientLeaves

LEMMA EndingInit == Init => EndingInv
<1> SUFFICES ASSUME Init PROVE EndingInv
  OBVIOUS
<1>1. DOMAIN log = {}
  BY DEF Init
<1> QED
  BY <1>1 DEF Init, EndingInv, NeverRunsOut

LEMMA EndingStep ==
  ASSUME CoreInv, EndingInv, [Next]_vars PROVE EndingInv'
<1>1. ChannelType /\ ParserType /\ DeliveryType
  BY DEF CoreInv, TypeOK
<1>2. CASE Forwarder
  <2>1. UNCHANGED <<parser, result, dropped, cancelled>>
    BY <1>2, ForwarderSends DEF parseVars, lifeVars
  <2>2. CASE log' = log
    BY <2>1, <2>2, SameLogFacts DEF EndingInv
  <2>3. ASSUME NEW cause \in ForwarderCauses, Queue(cause) PROVE EndingInv'
    <3>1. cause \in Causes \ {"notrailer"}
      BY DEF Causes, ForwarderCauses
    <3> QED
      BY <1>1, <2>1, <2>3, <3>1, QueueFacts DEF EndingInv
  <2> QED
    BY <1>2, <2>2, <2>3, ForwarderSends
<1>3. ASSUME UNCHANGED <<log, dropped, cancelled>>,
             parser' \in {"reading", "parsing", "delivering", "panicked"}
      PROVE  EndingInv'
  BY <1>3, SameLogFacts DEF EndingInv
<1>4. ASSUME UNCHANGED <<log, dropped, cancelled>>, NEW how, Return(how),
             how = "gone" => dropped, how # "ok"
      PROVE  EndingInv'
  BY <1>4, SameLogFacts DEF EndingInv, Return
<1>5. StopCause = "gone" => dropped
  BY DEF StopCause, EndingInv
<1>6. CASE ReadChunk
  BY <1>3, <1>4, <1>5, <1>6 DEF ReadChunk, StopCause, lifeVars
<1>7. CASE ReadEof \/ WantMore \/ ParserPanics
  BY <1>3, <1>7 DEF ReadEof, WantMore, ParserPanics, lifeVars
<1>8. CASE ParseStops
  BY <1>4, <1>5, <1>8 DEF ParseStops, StopCause, lifeVars
<1>9. CASE \E cause \in {"malformed", "truncated", "unsupported"} : ParseFails(cause)
  BY <1>4, <1>9 DEF ParseFails, lifeVars
<1>10. CASE \E kind \in EventKinds, size \in EventSizes : BeginDeliver(kind, size)
  BY <1>3, <1>10 DEF BeginDeliver, lifeVars
<1>11. ASSUME NEW size \in EventSizes, Delivered(size) PROVE EndingInv'
  <2> DEFINE item == Event(pending.kind, pending.cost)
  <2>1. item \in Item /\ item.cause # "notrailer" /\ item.kind = pending.kind
    <3>1. Charged \in Nat /\ pending.cost \in Nat /\ pending.kind \in EventKinds
      BY <1>1, ChargedType DEF DeliveryType
    <3> QED
      BY <3>1 DEF Event, Item
  <2>2. log' = Append(log, item) /\ UNCHANGED <<dropped, cancelled>>
    BY <1>11 DEF Delivered, lifeVars
  <2> HIDE DEF item
  <2>3. NeverRunsOut' /\ (HasEnding' <=> HasEnding \/ Terminal(item))
    BY <1>1, <2>1, <2>2, AppendFacts DEF EndingInv
  <2>4. \/ parser' \in {"parsing", "delivering"}
        \/ Return("ok") /\ Terminal(item)
    BY <1>11, <2>1 DEF Delivered, Terminal
  <2> QED
    BY <2>2, <2>3, <2>4 DEF EndingInv, Return
<1>12. CASE DeliveryStalls
  BY <1>4, <1>12 DEF DeliveryStalls, lifeVars
<1>13. CASE DeliveryGone
  BY <1>4, <1>13 DEF DeliveryGone, lifeVars
<1>14. CASE Account
  <2>1. parser = "returned" /\ parser' = "accounted" /\ UNCHANGED <<dropped, cancelled>>
    BY <1>14 DEF Account, lifeVars
  <2>2. CASE Reported(result)
    <3>1. result \in Causes \ {"notrailer"}
      BY <1>1, <2>1, <2>2 DEF ParserType, Reported, Causes, ParserCauses
    <3> QED
      BY <1>1, <1>14, <2>1, <2>2, <3>1, QueueFacts DEF EndingInv, Account
  <2>3. CASE ~Reported(result)
    <3>1. log' = log /\ (dropped \/ HasEnding)
      BY <1>14, <2>1, <2>3 DEF EndingInv, Account, Reported
    <3> QED
      BY <2>1, <3>1, SameLogFacts DEF EndingInv
  <2> QED
    BY <2>2, <2>3
<1>15. CASE ReleaseSlot
  BY <1>15, SameLogFacts DEF EndingInv, ReleaseSlot, lifeVars
<1>16. CASE Join
  <2>1. parser' = "done" /\ UNCHANGED <<dropped, cancelled>>
    BY <1>16 DEF Join, lifeVars
  <2>2. CASE parser = "panicked"
    <3>1. Queue("panic") /\ "panic" \in Causes \ {"notrailer"}
      BY <1>16, <2>2 DEF Join, Causes
    <3> QED
      BY <1>1, <2>1, <3>1, QueueFacts DEF EndingInv
  <2>3. CASE parser = "exited"
    BY <1>16, <2>1, <2>3, SameLogFacts DEF Join, EndingInv
  <2> QED
    BY <1>16, <2>2, <2>3 DEF Join
<1>17. CASE Stream
  BY <1>17, StreamSends, SameLogFacts DEF EndingInv
<1>18. CASE DeadlinePasses \/ UNCHANGED vars
  BY <1>18, SameLogFacts
     DEF DeadlinePasses, vars, parseVars, lifeVars, EndingInv
<1> QED
  BY <1>2, <1>6, <1>7, <1>8, <1>9, <1>10, <1>11, <1>12, <1>13, <1>14, <1>15,
     <1>16, <1>17, <1>18 DEF Next, Parser, Stutter

(* Some party always queues an ending before the last sender goes, so the  *)
(* stream's own "no status trailer" failure is unreachable.                *)
THEOREM NeverRunsOutCorrect == Spec => []NeverRunsOut
<1>1. Init => EndingInv
  BY EndingInit
<1>2. CoreInv /\ EndingInv /\ [Next]_vars => EndingInv'
  BY EndingStep
<1>3. EndingInv => NeverRunsOut
  BY DEF EndingInv
<1> QED
  BY <1>1, <1>2, <1>3, CoreCorrect, PTL DEF Spec

LEMMA UploadInit == Init => UploadInv
<1> SUFFICES ASSUME Init PROVE UploadInv
  OBVIOUS
<1>1. DOMAIN log = {}
  BY DEF Init
<1> QED
  BY <1>1 DEF Init, UploadInv, FirstTruncated

LEMMA ForwarderKeepsUpload ==
  ASSUME CoreInv, UploadInv, Forwarder PROVE UploadInv'
<1>1. ChannelType
  BY DEF CoreInv, TypeOK
<1>2. UNCHANGED <<parser, eof, result, dropped>>
  BY ForwarderSends DEF parseVars, lifeVars
<1>3. ParserRunning' <=> ParserRunning
  BY <1>2 DEF ParserRunning
<1>4. ASSUME log' = log, upload = "ended" => upload' = "ended",
             forwarder' = "failing" => Excused,
             forwarder' = "discarding" => ~ParserRunning,
             forwarder' = "done" /\ ParserRunning => Excused'
      PROVE  UploadInv'
  BY <1>2, <1>3, <1>4, SameLogFacts DEF UploadInv, Excused
<1>5. ASSUME NEW cause \in ForwarderCauses, GiveUp(cause), upload # "ended" \/ UNCHANGED upload
      PROVE  UploadInv'
  <2>1. cause \in Causes \ {"notrailer"} /\ cause # "truncated"
    BY DEF Causes, ForwarderCauses
  <2>2. Queue(cause) /\ forwarder' = "failing"
    BY <1>5 DEF GiveUp
  <2>3. /\ dropped \/ HasEnding'
        /\ FirstTruncated'
    BY <1>1, <1>5, <2>1, <2>2, QueueFacts DEF UploadInv
  <2>4. Excused'
    BY <1>2, <2>3 DEF Excused
  <2> QED
    BY <1>2, <1>3, <2>2, <2>3, <2>4 DEF UploadInv
<1>6. ASSUME NEW size \in ChunkSizes, ReceiveChunk(size) \/ DiscardMessage(size)
      PROVE  UploadInv'
  BY <1>4, <1>6 DEF ReceiveChunk, DiscardMessage, UploadInv, Excused, HasEnding
<1>7. CASE ReceiveBreach
  BY <1>5, <1>7 DEF ReceiveBreach, Receive, ForwarderCauses
<1>8. CASE ReceiveTransportError
  BY <1>5, <1>8 DEF ReceiveTransportError, ForwarderCauses
<1>9. CASE InputIdle
  BY <1>5, <1>9 DEF InputIdle, uploadVars, ForwarderCauses
<1>10. CASE DeadlineDuringUpload
  BY <1>5, <1>10 DEF DeadlineDuringUpload, uploadVars, ForwarderCauses
<1>11. CASE DropChunkSender
  BY <1>2, <1>4, <1>11, SameLogFacts
     DEF DropChunkSender, UploadInv, Excused, uploadVars
<1>12. CASE ReceiveEnd
  BY <1>4, <1>12 DEF ReceiveEnd, Excused
<1>13. CASE SendChunk
  BY <1>4, <1>13 DEF SendChunk, uploadVars
<1>14. CASE BeginDiscard
  BY <1>4, <1>14 DEF BeginDiscard, uploadVars
<1>15. CASE DiscardEnd
  BY <1>4, <1>15 DEF DiscardEnd, UploadInv
<1>16. CASE DiscardIdle
  BY <1>4, <1>16 DEF DiscardIdle, uploadVars, UploadInv
<1> QED
  BY <1>6, <1>7, <1>8, <1>9, <1>10, <1>11, <1>12, <1>13, <1>14, <1>15, <1>16
     DEF Forwarder

LEMMA ParserKeepsUpload ==
  ASSUME CoreInv, UploadInv, Parser PROVE UploadInv'
<1>1. ChannelType /\ ParserType /\ DeliveryType
  BY DEF CoreInv, TypeOK
<1>2. UNCHANGED <<upload, forwarder, dropped>>
  BY DEF Parser, ReadChunk, ReadEof, WantMore, ParseStops, ParserPanics,
         ParseFails, BeginDeliver, Delivered, DeliveryStalls, DeliveryGone,
         Account, ReleaseSlot, Join, uploadVars, forwardVars, lifeVars
<1>3. ASSUME log' = log, ParserRunning' => ParserRunning, UNCHANGED eof,
             parser' # "returned" \/ result' # "truncated" \/ eof
      PROVE  UploadInv'
  BY <1>2, <1>3, SameLogFacts DEF UploadInv, Excused
<1>4. ASSUME log' = log, ParserRunning, NEW how, Return(how), UNCHANGED eof,
             how = "truncated" => eof
      PROVE  UploadInv'
  BY <1>3, <1>4 DEF Return
<1>5. CASE ReadChunk
  BY <1>3, <1>5 DEF ReadChunk, ParserRunning, Return, StopCause
<1>6. CASE ReadEof
  <2>1. Excused /\ log' = log /\ parser' = "parsing" /\ eof' = TRUE
    BY <1>6 DEF ReadEof, UploadInv, ChunkSenderGone, ParserRunning
  <2>2. Excused'
    BY <1>2, <2>1, SameLogFacts DEF Excused
  <2>3. ParserRunning
    BY <1>6 DEF ReadEof, ParserRunning
  <2> QED
    BY <1>2, <2>1, <2>2, <2>3, SameLogFacts DEF UploadInv
<1>7. CASE WantMore
  BY <1>3, <1>7 DEF WantMore, ParserRunning
<1>8. CASE ParseStops
  BY <1>3, <1>8 DEF ParseStops, Return, ParserRunning, StopCause
<1>9. CASE \E cause \in {"malformed", "truncated", "unsupported"} : ParseFails(cause)
  BY <1>4, <1>9 DEF ParseFails, ParserRunning
<1>10. CASE ParserPanics
  BY <1>3, <1>10 DEF ParserPanics, ParserRunning
<1>11. CASE \E kind \in EventKinds, size \in EventSizes : BeginDeliver(kind, size)
  BY <1>3, <1>11 DEF BeginDeliver, ParserRunning
<1>12. ASSUME NEW size \in EventSizes, Delivered(size) PROVE UploadInv'
  <2> DEFINE item == Event(pending.kind, pending.cost)
  <2>1. item \in Item /\ item.cause # "truncated"
    <3>1. Charged \in Nat /\ pending.cost \in Nat /\ pending.kind \in EventKinds
      BY <1>1, ChargedType DEF DeliveryType
    <3> QED
      BY <3>1 DEF Event, Item
  <2>2. log' = Append(log, item) /\ UNCHANGED eof
    BY <1>12 DEF Delivered
  <2> HIDE DEF item
  <2>3. (HasEnding => HasEnding') /\ FirstTruncated'
    BY <1>1, <1>2, <2>1, <2>2, AppendFacts DEF UploadInv
  <2>4. ParserRunning /\ (parser' # "returned" \/ result' = "ok")
    BY <1>12 DEF Delivered, Return, ParserRunning
  <2>5. Excused => Excused'
    BY <1>2, <2>3 DEF Excused
  <2> QED
    BY <1>2, <2>2, <2>3, <2>4, <2>5 DEF UploadInv
<1>13. CASE DeliveryStalls
  BY <1>3, <1>13 DEF DeliveryStalls, Return, ParserRunning
<1>14. CASE DeliveryGone
  BY <1>3, <1>14 DEF DeliveryGone, Return, ParserRunning
<1>15. ASSUME NEW cause \in Causes \ {"notrailer"}, Queue(cause), UNCHANGED eof,
              cause = "truncated" => Excused,
              parser' \in {"accounted", "done"}
       PROVE  UploadInv'
  <2>1. ~ParserRunning' /\ parser' # "returned"
    BY <1>15 DEF ParserRunning
  <2>2. FirstTruncated'
    <3>1. CASE dropped
      BY <1>2, <1>15, <3>1, SameLogFacts DEF Queue, UploadInv
    <3>2. CASE ~dropped
      BY <1>1, <1>2, <1>15, <3>2, QueueFacts DEF Excused, UploadInv
    <3> QED
      BY <3>1, <3>2
  <2>3. Excused => Excused'
    BY <1>1, <1>2, <1>15, QueueFacts DEF Excused
  <2> QED
    BY <1>2, <1>15, <2>1, <2>2, <2>3 DEF UploadInv
<1>16. CASE Account
  <2>1. parser = "returned" /\ parser' = "accounted" /\ UNCHANGED eof
    BY <1>16 DEF Account
  <2>2. CASE Reported(result)
    <3>1. result \in Causes \ {"notrailer"}
      BY <1>1, <2>1, <2>2 DEF ParserType, Reported, Causes, ParserCauses
    <3> QED
      BY <1>15, <1>16, <2>1, <2>2, <3>1 DEF UploadInv, Account
  <2>3. CASE ~Reported(result)
    BY <1>3, <1>16, <2>1, <2>3 DEF Account, ParserRunning
  <2> QED
    BY <2>2, <2>3
<1>17. CASE ReleaseSlot
  BY <1>3, <1>17 DEF ReleaseSlot, ParserRunning
<1>18. CASE Join
  <2>1. parser' = "done" /\ UNCHANGED eof
    BY <1>18 DEF Join
  <2>2. CASE parser = "panicked"
    BY <1>15, <1>18, <2>1, <2>2 DEF Join, Causes
  <2>3. CASE parser = "exited"
    BY <1>3, <1>18, <2>1, <2>3 DEF Join, ParserRunning
  <2> QED
    BY <1>18, <2>2, <2>3 DEF Join
<1> QED
  BY <1>5, <1>6, <1>7, <1>8, <1>9, <1>10, <1>11, <1>12, <1>13, <1>14, <1>16,
     <1>17, <1>18 DEF Parser

LEMMA UploadStep ==
  ASSUME CoreInv, EndingInv, UploadInv, [Next]_vars PROVE UploadInv'
<1>1. CASE Forwarder
  BY <1>1, ForwarderKeepsUpload
<1>2. CASE Parser
  BY <1>2, ParserKeepsUpload
<1>3. ASSUME UNCHANGED <<upload, forwarder, parser, eof, result, log>>,
             dropped => dropped'
      PROVE  UploadInv'
  BY <1>3, SameLogFacts DEF UploadInv, Excused, ParserRunning
<1>4. CASE Stream
  BY <1>3, <1>4, StreamSends DEF uploadVars, forwardVars
<1>5. CASE DeadlinePasses \/ UNCHANGED vars
  BY <1>3, <1>5
     DEF DeadlinePasses, vars, uploadVars, forwardVars, parseVars, lifeVars
<1> QED
  BY <1>1, <1>2, <1>4, <1>5 DEF Next, Stutter

(* A client told "truncated" did end its upload: whenever the forwarder is *)
(* what ended the parser's input, its reason was queued first.             *)
THEOREM TruncatedCorrect == Spec => []TruncatedMeansEnded
<1>1. Init => EndingInv /\ UploadInv
  BY EndingInit, UploadInit
<1>2. CoreInv /\ EndingInv /\ UploadInv /\ [Next]_vars => (EndingInv /\ UploadInv)'
  BY EndingStep, UploadStep
<1>3. CoreInv /\ UploadInv => TruncatedMeansEnded
  <2> SUFFICES ASSUME CoreInv, UploadInv, taken > 0, log[taken].cause = "truncated"
               PROVE  upload = "ended"
    BY DEF TruncatedMeansEnded
  <2>1. /\ taken \in DOMAIN log /\ drained \in Nat /\ taken \in Nat
        /\ taken <= drained
    BY DEF CoreInv, Cursors, TypeOK, StreamType, ChannelType
  <2>2. \A j \in 1..(taken - 1) : ~Terminal(log[j])
    BY <2>1 DEF CoreInv, Cursors
  <2> QED
    BY <2>1, <2>2 DEF UploadInv, FirstTruncated
<1> QED
  BY <1>1, <1>2, <1>3, CoreCorrect, PTL DEF Spec

-----------------------------------------------------------------------------
(* Layer three: the order in which the kinds of item are queued.           *)

NoDocument == \A i \in DOMAIN log : log[i].kind # "document"

(* What the parser may still deliver, given what is queued. *)
PhaseInv ==
  /\ parser \in {"reading", "parsing"} => NoDocument
  /\ parser = "delivering" =>
       /\ pending.kind = "event" => NoDocument
       /\ pending.kind = "document" => EmitDocument /\ NoDocument
       /\ pending.kind = "status" => (EmitDocument <=> ~NoDocument)

Ordered(l) ==
  \A i \in DOMAIN l :
    LET before == \E j \in 1..(i - 1) : l[j].kind = "document"
    IN /\ l[i].kind = "event" => ~before
       /\ l[i].kind = "document" => EmitDocument /\ ~before
       /\ l[i].kind = "status" => (EmitDocument <=> before)

OrderInv == PhaseInv /\ Ordered(log)

(* What an item may follow: what Ordered asks of it at the end of the log. *)
Follows(item) ==
  /\ item.kind = "event" => NoDocument
  /\ item.kind = "document" => EmitDocument /\ NoDocument
  /\ item.kind = "status" => (EmitDocument <=> ~NoDocument)

LEMMA OrderAppend ==
  ASSUME ChannelType, NEW item \in Item, log' = Append(log, item)
  PROVE  /\ NoDocument' <=> NoDocument /\ item.kind # "document"
         /\ Ordered(log) /\ Follows(item) => Ordered(log')
<1>1. /\ Len(log) \in Nat /\ Len(log') = Len(log) + 1
      /\ log'[Len(log) + 1] = item
      /\ \A i \in 1..Len(log) : log'[i] = log[i]
      /\ DOMAIN log = 1..Len(log) /\ DOMAIN log' = 1..Len(log')
  BY DEF ChannelType
<1>2. /\ \A i \in DOMAIN log' : i \in DOMAIN log \/ i = Len(log) + 1
      /\ Len(log) + 1 \in DOMAIN log' /\ DOMAIN log \subseteq DOMAIN log'
  BY <1>1
<1>3. NoDocument' <=> NoDocument /\ item.kind # "document"
  BY <1>1, <1>2 DEF NoDocument
<1>4. ASSUME Ordered(log), Follows(item) PROVE Ordered(log')
  <2> DEFINE before(l, i) == \E j \in 1..(i - 1) : l[j].kind = "document"
  <2> SUFFICES ASSUME NEW i \in DOMAIN log'
               PROVE  /\ log'[i].kind = "event" => ~before(log', i)
                      /\ log'[i].kind = "document" => EmitDocument /\ ~before(log', i)
                      /\ log'[i].kind = "status" => (EmitDocument <=> before(log', i))
    BY DEF Ordered
  <2>1. CASE i \in DOMAIN log
    <3>1. log'[i] = log[i] /\ (before(log', i) <=> before(log, i))
      BY <1>1, <2>1
    <3>2. /\ log[i].kind = "event" => ~before(log, i)
          /\ log[i].kind = "document" => EmitDocument /\ ~before(log, i)
          /\ log[i].kind = "status" => (EmitDocument <=> before(log, i))
      BY <1>4, <2>1 DEF Ordered
    <3> QED
      BY <3>1, <3>2
  <2>2. CASE i = Len(log) + 1
    <3>1. before(log', i) <=> ~NoDocument
      BY <1>1, <2>2 DEF NoDocument
    <3> QED
      BY <1>1, <1>4, <2>2, <3>1 DEF Follows
  <2> QED
    BY <1>2, <2>1, <2>2
<1> QED
  BY <1>3, <1>4

LEMMA OrderQueue ==
  ASSUME ChannelType, NEW cause \in Causes, Queue(cause)
  PROVE  /\ NoDocument' <=> NoDocument
         /\ Ordered(log) => Ordered(log')
<1>1. CASE dropped
  BY <1>1 DEF Queue, NoDocument
<1>2. CASE ~dropped
  <2>1. log' = Append(log, Failure(cause)) /\ Failure(cause) \in Item
    BY <1>2, FailureType DEF Queue
  <2>2. Failure(cause).kind = "failure"
    BY DEF Failure
  <2> QED
    BY <2>1, <2>2, OrderAppend DEF Follows
<1> QED
  BY <1>1, <1>2

LEMMA OrderInit == Init => OrderInv
<1> SUFFICES ASSUME Init PROVE OrderInv
  OBVIOUS
<1>1. DOMAIN log = {}
  BY DEF Init
<1> QED
  BY <1>1 DEF Init, OrderInv, PhaseInv, Ordered, NoDocument

LEMMA ParserKeepsOrder ==
  ASSUME CoreInv, OrderInv, Parser PROVE OrderInv'
<1>1. ChannelType /\ ParserType /\ DeliveryType
  BY DEF CoreInv, TypeOK
<1>2. ASSUME log' = log,
             \/ parser' \in {"returned", "accounted", "panicked", "exited", "done"}
             \/ parser' \in {"reading", "parsing"} /\ parser \in {"reading", "parsing"}
      PROVE  OrderInv'
  BY <1>2 DEF OrderInv, PhaseInv, NoDocument
<1>3. CASE ReadChunk
  BY <1>2, <1>3 DEF ReadChunk, Return
<1>4. CASE ReadEof \/ WantMore
  BY <1>2, <1>4 DEF ReadEof, WantMore
<1>5. CASE ParseStops \/ DeliveryStalls \/ DeliveryGone \/ ParserPanics \/ ReleaseSlot
  BY <1>2, <1>5
     DEF ParseStops, DeliveryStalls, DeliveryGone, ParserPanics, ReleaseSlot, Return
<1>6. CASE \E cause \in {"malformed", "truncated", "unsupported"} : ParseFails(cause)
  BY <1>2, <1>6 DEF ParseFails, Return
<1>7. ASSUME NEW kind \in EventKinds, NEW size \in EventSizes, BeginDeliver(kind, size)
      PROVE  OrderInv'
  <2>1. /\ log' = log /\ parser = "parsing" /\ parser' = "delivering"
        /\ pending'.kind = kind
        /\ kind = "event" \/ kind = IF EmitDocument THEN "document" ELSE "status"
    BY <1>7 DEF BeginDeliver
  <2>2. NoDocument /\ NoDocument'
    BY <2>1 DEF OrderInv, PhaseInv, NoDocument
  <2> QED
    BY <2>1, <2>2, ParsePipelineAssumption DEF OrderInv, PhaseInv
<1>8. ASSUME NEW size \in EventSizes, Delivered(size) PROVE OrderInv'
  <2> DEFINE item == Event(pending.kind, pending.cost)
  <2>1. item \in Item /\ item.kind = pending.kind
    <3>1. Charged \in Nat /\ pending.cost \in Nat /\ pending.kind \in EventKinds
      BY <1>1, ChargedType DEF DeliveryType
    <3> QED
      BY <3>1 DEF Event, Item
  <2>2. log' = Append(log, item) /\ parser = "delivering"
    BY <1>8 DEF Delivered
  <2> HIDE DEF item
  <2>3. Follows(item)
    BY <2>1, <2>2 DEF Follows, OrderInv, PhaseInv
  <2>4. Ordered(log') /\ (NoDocument' <=> NoDocument /\ item.kind # "document")
    BY <1>1, <2>1, <2>2, <2>3, OrderAppend DEF OrderInv
  <2>5. CASE pending.kind = "event" /\ parser' = "parsing"
    BY <2>1, <2>3, <2>4, <2>5 DEF Follows, OrderInv, PhaseInv
  <2>6. CASE /\ pending.kind = "document" /\ parser' = "delivering"
             /\ pending'.kind = "status"
    BY <2>1, <2>3, <2>4, <2>6 DEF Follows, OrderInv, PhaseInv
  <2>7. CASE parser' = "returned"
    BY <2>4, <2>7 DEF OrderInv, PhaseInv
  <2> QED
    BY <1>8, <2>2, <2>5, <2>6, <2>7 DEF Delivered, Return
<1>9. ASSUME NEW cause \in Causes, Queue(cause), parser' \in {"accounted", "done"}
      PROVE  OrderInv'
  BY <1>1, <1>9, OrderQueue DEF OrderInv, PhaseInv
<1>10. CASE Account
  <2>1. parser = "returned" /\ parser' = "accounted"
    BY <1>10 DEF Account
  <2>2. CASE Reported(result)
    <3>1. result \in Causes
      BY <1>1, <2>1, <2>2 DEF ParserType, Reported, Causes
    <3> QED
      BY <1>9, <1>10, <2>1, <2>2, <3>1 DEF Account
  <2>3. CASE ~Reported(result)
    BY <1>2, <1>10, <2>1, <2>3 DEF Account
  <2> QED
    BY <2>2, <2>3
<1>11. CASE Join
  <2>1. parser' = "done" /\ "panic" \in Causes
    BY <1>11 DEF Join, Causes
  <2> QED
    BY <1>2, <1>9, <1>11, <2>1 DEF Join
<1> QED
  BY <1>3, <1>4, <1>5, <1>6, <1>7, <1>8, <1>10, <1>11 DEF Parser

LEMMA OrderStep ==
  ASSUME CoreInv, EndingInv, OrderInv, [Next]_vars PROVE OrderInv'
<1>1. ASSUME UNCHANGED <<parser, pending, log>> PROVE OrderInv'
  BY <1>1 DEF OrderInv, PhaseInv, NoDocument
<1>2. CASE Forwarder
  <2>1. UNCHANGED <<parser, pending>> /\ ChannelType
    BY <1>2, ForwarderSends DEF parseVars, CoreInv, TypeOK
  <2>2. ASSUME NEW cause \in ForwarderCauses, Queue(cause) PROVE OrderInv'
    <3>1. cause \in Causes
      BY DEF Causes
    <3> QED
      BY <2>1, <2>2, <3>1, OrderQueue DEF OrderInv, PhaseInv
  <2> QED
    BY <1>1, <1>2, <2>1, <2>2, ForwarderSends
<1>3. CASE Parser
  BY <1>3, ParserKeepsOrder
<1>4. CASE Stream
  BY <1>1, <1>4, StreamSends
<1>5. CASE DeadlinePasses \/ UNCHANGED vars
  BY <1>1, <1>5 DEF DeadlinePasses, vars, parseVars
<1> QED
  BY <1>2, <1>3, <1>4, <1>5 DEF Next, Stutter

-----------------------------------------------------------------------------
(* The call implements its contract.                                       *)

LEMMA StatusCodes ==
  /\ \A cause : StatusFor(cause) \in Codes
  /\ "open" \notin Codes /\ "trailer" \notin Codes
  BY DEF StatusFor, Codes

LEMMA ContractInit == Init => Contract!Init
  BY DEF Init, Contract!Init, Given, HasDocument, Outcome, Codes

(* Nothing the client can see changes unless the transport takes an item.  *)
LEMMA UntakenIsUnseen ==
  ASSUME CoreInv, taken' = taken,
         \A i \in 1..Len(log) : log'[i] = log[i]
  PROVE  UNCHANGED <<Given, HasDocument, Outcome>>
<1>1. taken \in Nat /\ Len(log) \in Nat /\ taken <= Len(log)
  BY DEF CoreInv, TypeOK, StreamType, Cursors, ChannelType
<1>2. \A i \in 1..taken : log'[i] = log[i]
  BY <1>1
<1>3. HasDocument' <=> HasDocument
  BY <1>2 DEF HasDocument
<1>4. Outcome' = Outcome
  BY <1>1, <1>2 DEF Outcome, Terminal
<1> QED
  BY <1>3, <1>4 DEF Given, HasDocument

LEMMA LogOnlyGrows ==
  ASSUME CoreInv, Forwarder \/ Parser
  PROVE  \A i \in 1..Len(log) : log'[i] = log[i]
<1>1. ChannelType /\ DeliveryType /\ ParserType
  BY DEF CoreInv, TypeOK
<1>2. ASSUME NEW item \in Item, log' = Append(log, item)
      PROVE  \A i \in 1..Len(log) : log'[i] = log[i]
  BY <1>1, <1>2 DEF ChannelType
<1>3. ASSUME NEW cause \in Causes, Queue(cause)
      PROVE  \A i \in 1..Len(log) : log'[i] = log[i]
  <2>1. Failure(cause) \in Item
    BY <1>1, FailureType
  <2> QED
    BY <1>2, <1>3, <2>1 DEF Queue
<1>4. CASE Forwarder
  BY <1>3, <1>4, ForwarderSends DEF Causes
<1>5. ASSUME NEW size \in EventSizes, Delivered(size)
      PROVE  \A i \in 1..Len(log) : log'[i] = log[i]
  <2>1. Charged \in Nat /\ pending.cost \in Nat /\ pending.kind \in EventKinds
    BY <1>1, ChargedType, ParsePipelineAssumption DEF DeliveryType
  <2>2. Event(pending.kind, pending.cost) \in Item
    BY <2>1 DEF Event, Item
  <2> QED
    BY <1>2, <1>5, <2>2 DEF Delivered
<1>6. CASE Account
  <2>1. result \in Causes \/ ~Reported(result)
    BY <1>1, <1>6 DEF ParserType, Reported, Causes, Account
  <2> QED
    BY <1>3, <1>6, <2>1 DEF Account
<1>7. CASE Join
  BY <1>3, <1>7 DEF Join, Causes
<1> QED
  BY <1>4, <1>5, <1>6, <1>7
     DEF Parser, ReadChunk, ReadEof, WantMore, ParseStops, ParserPanics,
         ParseFails, BeginDeliver, DeliveryStalls, DeliveryGone, ReleaseSlot

LEMMA HandOverGives ==
  ASSUME CoreInv, EndingInv, OrderInv, HandOver
  PROVE  Contract!Next
<1>1. /\ ~dropped /\ ~dropped' /\ cancelled' = cancelled /\ log' = log
      /\ taken' = taken + 1 /\ dropped' = dropped
  BY IncomingIsLog DEF HandOver, Polled, lifeVars
<1>2. /\ taken \in Nat /\ Len(log) \in Nat /\ taken + 1 \in DOMAIN log
      /\ log[taken + 1] \in Item
      /\ \A i \in 1..taken : ~Terminal(log[i])
  <2>1. taken \in Nat /\ log \in Seq(Item) /\ Len(log) \in Nat
    BY DEF CoreInv, TypeOK, StreamType, ChannelType
  <2>2. PICK end \in (taken + 1)..Len(log) : Drains(log, end)
    BY IncomingIsLog DEF HandOver, Polled
  <2> QED
    BY <2>1, <2>2 DEF Drains
<1> DEFINE item == log[taken + 1]
<1>3. Outcome = "open" /\ Given = taken
  BY <1>2, StatusCodes DEF Outcome, Given
<1>4. HasDocument' <=> HasDocument \/ item.kind = "document"
  BY <1>1, <1>2 DEF HasDocument
<1> HasDocument \in BOOLEAN /\ HasDocument' \in BOOLEAN
  BY DEF HasDocument
<1>5. /\ item.kind = "event" => ~HasDocument
      /\ item.kind = "document" => EmitDocument /\ ~HasDocument
      /\ item.kind = "status" => (EmitDocument <=> HasDocument)
  <2>1. (taken + 1) - 1 = taken
    BY <1>2
  <2> QED
    BY <1>2, <2>1 DEF OrderInv, Ordered, HasDocument
<1>6. Outcome' = IF ~Terminal(item) THEN "open"
                 ELSE IF item.kind = "status" THEN "trailer"
                 ELSE StatusFor(item.cause)
  BY <1>1, <1>2 DEF Outcome, Terminal
<1>7. item.kind \in {"event", "document", "status", "failure"}
  BY <1>2 DEF Item, EventKinds
<1> HIDE DEF item
<1>8. Contract!Running
  BY <1>1, <1>3 DEF Contract!Running
<1>9. CASE item.kind = "event"
  <2>1. /\ Outcome' = "open" /\ Given' = taken + 1 /\ ~HasDocument
        /\ HasDocument' = HasDocument
    BY <1>1, <1>4, <1>5, <1>6, <1>9, StatusCodes DEF Terminal, Given
  <2>2. Contract!GiveEvent
    BY <1>1, <1>3, <1>8, <2>1 DEF Contract!GiveEvent
  <2> QED
    BY <2>2 DEF Contract!Next
<1>10. CASE item.kind = "document"
  <2>1. Outcome' = "open" /\ Given' = taken + 1 /\ ~HasDocument /\ HasDocument' = TRUE
    BY <1>1, <1>4, <1>5, <1>6, <1>10, StatusCodes DEF Terminal, Given
  <2>2. Contract!GiveDocument
    BY <1>1, <1>3, <1>5, <1>8, <1>10, <2>1
       DEF Contract!GiveDocument
  <2> QED
    BY <2>2 DEF Contract!Next
<1>11. CASE item.kind = "status"
  <2>1. /\ Outcome' = "trailer" /\ Given' = taken + 1
        /\ HasDocument' = HasDocument /\ (HasDocument <=> EmitDocument)
    BY <1>1, <1>4, <1>5, <1>6, <1>11, StatusCodes DEF Terminal, Given
  <2>2. Contract!GiveTrailer
    BY <1>1, <1>3, <1>8, <2>1, ParsePipelineAssumption
       DEF Contract!GiveTrailer
  <2> QED
    BY <2>2 DEF Contract!Next
<1>12. CASE item.kind = "failure"
  <2>1. /\ Outcome' \in Codes /\ HasDocument' = HasDocument
    BY <1>4, <1>6, <1>12, StatusCodes DEF Terminal
  <2>2. Given' = Given
    BY <1>1, <1>2, <1>3, <2>1 DEF Given
  <2>3. Contract!GiveError
    BY <1>1, <1>8, <2>1, <2>2 DEF Contract!GiveError
  <2> QED
    BY <2>3 DEF Contract!Next
<1> QED
  BY <1>7, <1>9, <1>10, <1>11, <1>12

LEMMA ContractStep ==
  ASSUME CoreInv, EndingInv, OrderInv, [Next]_vars
  PROVE  [Contract!Next]_(Contract!contractVars)
<1>1. ASSUME UNCHANGED <<taken, dropped, cancelled>>,
             \A i \in 1..Len(log) : log'[i] = log[i]
      PROVE  UNCHANGED Contract!contractVars
  BY <1>1, UntakenIsUnseen DEF Contract!contractVars
<1>2. CASE Forwarder
  BY <1>1, <1>2, ForwarderSends, LogOnlyGrows DEF streamVars, lifeVars
<1>3. CASE Parser
  <2>1. UNCHANGED <<taken, dropped, cancelled>>
    BY <1>3 DEF Parser, ReadChunk, ReadEof, WantMore, ParseStops, ParserPanics,
         ParseFails, BeginDeliver, Delivered, DeliveryStalls, DeliveryGone,
         Account, ReleaseSlot, Join, streamVars, lifeVars
  <2> QED
    BY <1>1, <1>3, <2>1, LogOnlyGrows
<1>4. CASE Gather
  BY <1>1, <1>4, IncomingIsLog DEF Gather, Polled, lifeVars
<1>5. CASE HandOver
  BY <1>5, HandOverGives
<1>6. CASE BatchWaitElapses
  BY <1>1, <1>6 DEF BatchWaitElapses, lifeVars
<1>7. CASE DropStream
  <2>1. /\ taken' = taken /\ log' = log /\ ~dropped /\ dropped' = TRUE
        /\ cancelled' = ~finished
    BY <1>7 DEF DropStream, streamVars
  <2>2. UNCHANGED <<Given, HasDocument, Outcome>>
    BY <2>1, UntakenIsUnseen
  <2>3. ~cancelled
    BY <2>1 DEF EndingInv
  <2>4. CASE finished
    <3>1. taken > 0 /\ Terminal(log[taken])
      <4>1. taken = drained /\ Final(log, drained)
        BY <2>4 DEF CoreInv, Cursors
      <4> QED
        BY <4>1 DEF Final
    <3>2. Outcome # "open"
      BY <3>1, StatusCodes DEF Outcome, CoreInv, TypeOK, StreamType
    <3>3. cancelled' = cancelled
      BY <2>1, <2>3, <2>4 DEF CoreInv, TypeOK, CallType
    <3>4. Contract!EndStream
      BY <2>1, <2>2, <3>2, <3>3 DEF Contract!EndStream
    <3> QED
      BY <3>4 DEF Contract!Next
  <2>5. CASE ~finished
    <3>1. Contract!Leave
      BY <2>1, <2>2, <2>5 DEF Contract!Leave
    <3> QED
      BY <3>1 DEF Contract!Next
  <2> QED
    BY <2>4, <2>5
<1>8. CASE DeadlinePasses \/ UNCHANGED vars
  BY <1>1, <1>8 DEF DeadlinePasses, vars, streamVars, lifeVars
<1> QED
  BY <1>2, <1>3, <1>4, <1>5, <1>6, <1>7, <1>8
     DEF Next, Stream, TransportEnds, ClientLeaves, Stutter

(* Whatever its parties do, a call is a call as its contract describes it: *)
(* events, the Document if asked for, exactly one ending, and no bare OK.  *)
THEOREM ContractKept == Spec => KeepsContract
<1>1. Init => EndingInv /\ OrderInv
  BY EndingInit, OrderInit
<1>2. CoreInv /\ EndingInv /\ OrderInv /\ [Next]_vars => (EndingInv /\ OrderInv)'
  BY EndingStep, OrderStep
<1>3. CoreInv /\ EndingInv /\ OrderInv /\ [Next]_vars
        => [Contract!Next]_(Contract!contractVars)
  BY ContractStep
<1> QED
  BY <1>1, <1>2, <1>3, ContractInit, CoreCorrect, PTL
     DEF Spec, KeepsContract, Contract!Spec

-----------------------------------------------------------------------------
(* The call uses its slot as ParseSlots has its parses do.                 *)

SlotInv ==
  /\ slot <=> parser \notin {"exited", "panicked", "done"}
  /\ parser \in {"reading", "parsing", "delivering", "returned", "panicked"}
       => tally = "none"
  /\ parser \in {"accounted", "exited"} => tally # "none"

LEMMA SlotInit == Init => SlotInv
  BY DEF Init, SlotInv

(* Everything but counting, releasing and panicking is out of sight.       *)
LEMMA SlotUnseen ==
  ASSUME TypeOK, SlotInv, [Next]_vars,
         ~(Account \/ ReleaseSlot \/ ParserPanics)
  PROVE  /\ UNCHANGED <<slot, tally>>
         /\ SlotInv' /\ SlotPhase' = SlotPhase
<1>1. UNCHANGED <<slot, tally>>
  <2>1. CASE Forwarder
    BY <2>1, ForwarderSends DEF slotVars
  <2>2. CASE Parser
    BY <2>2 DEF Parser, ReadChunk, ReadEof, WantMore, ParseStops, ParseFails,
                BeginDeliver, Delivered, DeliveryStalls, DeliveryGone, Join,
                slotVars
  <2>3. CASE Stream \/ DeadlinePasses \/ UNCHANGED vars
    BY <2>3 DEF Stream, Gather, HandOver, BatchWaitElapses, TransportEnds,
                ClientLeaves, DropStream, DeadlinePasses, vars, slotVars
  <2> QED
    BY <2>1, <2>2, <2>3 DEF Next, Stutter
<1> DEFINE OnThread == {"reading", "parsing", "delivering", "returned"}
<1>2. \/ parser' = parser
      \/ parser \in OnThread /\ parser' \in OnThread
      \/ parser \in {"exited", "panicked"} /\ parser' = "done"
  <2>1. CASE Forwarder
    BY <2>1, ForwarderSends DEF parseVars
  <2>2. CASE Join
    BY <2>2 DEF Join
  <2>3. CASE Parser /\ ~Join
    BY <2>3 DEF Parser, ReadChunk, ReadEof, WantMore, ParseStops, ParseFails,
                BeginDeliver, Delivered, DeliveryStalls, DeliveryGone, Return
  <2>4. CASE Stream \/ DeadlinePasses \/ UNCHANGED vars
    BY <2>4 DEF Stream, Gather, HandOver, BatchWaitElapses, TransportEnds,
                ClientLeaves, DropStream, DeadlinePasses, vars, parseVars
  <2> QED
    BY <2>1, <2>2, <2>3, <2>4 DEF Next, Stutter
<1>3. SlotInv'
  BY <1>1, <1>2 DEF SlotInv
<1>4. SlotPhase' = SlotPhase
  BY <1>1, <1>2 DEF SlotPhase
<1> QED
  BY <1>1, <1>3, <1>4

LEMMA SlotMoves ==
  ASSUME NEW from, NEW to, SlotPhase = from, SlotPhase' = to
  PROVE  Admission!Move("call", from, to)
  BY DEF Admission!Move

LEMMA SlotStep ==
  ASSUME TypeOK, SlotInv, [Next]_vars
  PROVE  SlotInv' /\ [Admission!Next]_(Admission!slotsVars)
<1>1. CASE Account
  <2>1. /\ parser = "returned" /\ parser' = "accounted" /\ slot' = slot
        /\ tally = "none" /\ slot
        /\ tally' = IF result = "ok" THEN "ok"
                    ELSE IF result = "toolarge" THEN "capped" ELSE "failed"
    BY <1>1 DEF Account, SlotInv
  <2>2. SlotInv'
    BY <2>1 DEF SlotInv
  <2>3. Admission!Move("call", "running", "counted")
    BY <2>1, SlotMoves DEF SlotPhase
  <2>4. OneIf(~slot)' = OneIf(~slot)
    BY <2>1 DEF OneIf
  <2>5. CASE tally' = "ok"
    <3>1. Admission!CountOk("call")
      BY <2>1, <2>3, <2>4, <2>5 DEF Admission!CountOk, OneIf
    <3> QED
      BY <2>2, <3>1 DEF Admission!Next, Admission!Call, Admission!Parse
  <2>6. CASE tally' = "capped"
    <3>1. Admission!CountFailed("call", TRUE)
      BY <2>1, <2>3, <2>4, <2>6 DEF Admission!CountFailed, OneIf
    <3> QED
      BY <2>2, <3>1 DEF Admission!Next, Admission!Call, Admission!Parse
  <2>7. CASE tally' = "failed"
    <3>1. Admission!CountFailed("call", FALSE)
      BY <2>1, <2>3, <2>4, <2>7 DEF Admission!CountFailed, OneIf
    <3> QED
      BY <2>2, <3>1 DEF Admission!Next, Admission!Call, Admission!Parse
  <2> QED
    BY <2>1, <2>5, <2>6, <2>7
<1>2. CASE ReleaseSlot
  <2>1. /\ parser = "accounted" /\ parser' = "exited" /\ slot' = FALSE
        /\ tally' = tally /\ tally # "none" /\ slot
    BY <1>2 DEF ReleaseSlot, SlotInv
  <2>2. SlotInv'
    BY <2>1 DEF SlotInv
  <2>3. Admission!Move("call", "counted", "released")
    BY <2>1, SlotMoves DEF SlotPhase
  <2>4. Admission!Release("call")
    BY <2>1, <2>3 DEF Admission!Release, Admission!counters, OneIf
  <2> QED
    BY <2>2, <2>4 DEF Admission!Next, Admission!Call, Admission!Parse
<1>3. CASE ParserPanics
  <2>1. /\ parser = "parsing" /\ parser' = "panicked" /\ slot' = FALSE
        /\ tally' = tally /\ tally = "none" /\ slot
    BY <1>3 DEF ParserPanics, SlotInv
  <2>2. SlotInv'
    BY <2>1 DEF SlotInv
  <2>3. Admission!Move("call", "running", "panicked")
    BY <2>1, SlotMoves DEF SlotPhase
  <2>4. Admission!Panic("call")
    BY <2>1, <2>3 DEF Admission!Panic, Admission!counters, OneIf
  <2> QED
    BY <2>2, <2>4 DEF Admission!Next, Admission!Call, Admission!Parse
<1>4. CASE ~(Account \/ ReleaseSlot \/ ParserPanics)
  BY <1>4, SlotUnseen
     DEF Admission!slotsVars, Admission!counters, OneIf
<1> QED
  BY <1>1, <1>2, <1>3, <1>4

(* Every call does with its slot what admission counts on: whatever path   *)
(* it ends by, it is counted at most once, and before the slot goes back.  *)
THEOREM SlotHeldAsAdmitted == Spec => HoldsSlotAsAdmitted
<1>1. Init => SlotInv
  BY SlotInit
<1>2. CoreInv => TypeOK
  BY DEF CoreInv
<1>3. TypeOK /\ SlotInv /\ [Next]_vars
        => SlotInv' /\ [Admission!Next]_(Admission!slotsVars)
  BY SlotStep
<1> QED
  BY <1>1, <1>2, <1>3, CoreCorrect, PTL DEF Spec, HoldsSlotAsAdmitted

=============================================================================
