---------------------------- MODULE ParsePipeline ----------------------------
(***************************************************************************)
(* One admitted ParseXml call of src/service.rs, from the moment its slot  *)
(* is taken.  Four parties share it:                                       *)
(*                                                                         *)
(*   forwarder  the async task moving request messages into the bounded    *)
(*              chunk channel (forward_chunks, discard_upload);            *)
(*   parser     the blocking thread (run_parse over parse::parse), which   *)
(*              reads chunks and delivers events, each against its size    *)
(*              in queue bytes (EventQueue::deliver);                      *)
(*   stream     ParseStream, which batches queued events for the           *)
(*              transport and gives their bytes back;                      *)
(*   client     which uploads, reads, stops doing either, or leaves.       *)
(*                                                                         *)
(* The event channel is a FIFO with one receiver, so it is kept as the log *)
(* of everything ever sent on it and two cursors into the log: what the    *)
(* stream has drained into its batch, and what the transport has taken.    *)
(* Time is not measured: a timer is an action enabled while its wait       *)
(* lasts, so every order of timers and answers is a behaviour.             *)
(***************************************************************************)
EXTENDS Naturals, Sequences

CONSTANTS
  ChunkBound,    \* CHUNK_CHANNEL_BOUND
  QueueBytes,    \* event_queue_bytes, the permits of the queue's semaphore
  BatchBytes,    \* BATCH_BYTES
  Limit,         \* the byte cap in force for this call
  ChunkSizes,    \* sizes of request chunks; 0 is the empty chunk
  EventSizes,    \* encoded sizes of response events
  MaxEvents,     \* bound: content events one document yields
  MaxMessages,   \* bound: request messages the client sends after options
  EmitDocument,  \* the emit_document option
  HasDeadline,   \* the client sent a grpc-timeout header
  ReadsLate      \* the client reads nothing until its upload has ended

ASSUME ParsePipelineAssumption ==
  /\ ChunkBound \in Nat \ {0} /\ QueueBytes \in Nat \ {0}
  /\ BatchBytes \in Nat /\ Limit \in Nat
  /\ ChunkSizes \subseteq Nat /\ EventSizes \subseteq Nat
  /\ MaxEvents \in Nat /\ MaxMessages \in Nat
  /\ EmitDocument \in BOOLEAN /\ HasDeadline \in BOOLEAN
  /\ ReadsLate \in BOOLEAN

VARIABLES
  upload,      \* "open", or how it ended: "ended" by the client, "broken"
  messages,    \* request messages received after the options
  forwarder,   \* what forward_chunks is doing
  held,        \* size of the chunk it is waiting to pass on
  discarded,   \* bytes discard_upload has thrown away
  chunks,      \* the chunk channel: sizes in flight
  parser,      \* what the blocking task is doing
  eof,         \* the parser has read the end of its input
  received,    \* bytes the ChannelReader has taken off the channel
  produced,    \* content events the parser has begun to deliver
  pending,     \* the event being delivered: its kind and queue bytes
  served,      \* the transport has taken an item during that delivery
  result,      \* how parse::parse returned
  avail,       \* permits left in the queue's semaphore
  log,         \* everything sent on the event channel
  drained,     \* log items the stream has moved into its batch
  taken,       \* log items handed to the transport
  batchBytes,  \* queue bytes held by the batch
  releasing,   \* the batch is going out
  wait,        \* the batch timer: "off", "armed" or "elapsed"
  finished,    \* the stream has handed over its last item
  dropped,     \* the stream is gone: the semaphore and channel are closed
  cancelled,   \* it went before finishing, so the parse was told to stop
  late,        \* the caller's deadline has passed
  slot,        \* this call holds its parse slot
  tally        \* what the process counters say became of the parse

uploadVars  == <<upload, messages>>
forwardVars == <<forwarder, held, discarded>>
parseVars   == <<parser, eof, received, produced, pending, served, result>>
streamVars  == <<drained, taken, batchBytes, releasing, wait, finished>>
lifeVars    == <<dropped, cancelled>>
slotVars    == <<slot, tally>>

vars == <<uploadVars, forwardVars, chunks, parseVars, avail, log, streamVars,
          lifeVars, late, slotVars>>

-----------------------------------------------------------------------------
(* Failures, by cause, and the code each one reaches the client with. A
   broken transport's own status is passed on; a reset is its usual one. *)

ParserCauses    == {"malformed", "truncated", "unsupported", "toolarge",
                    "deadline", "stalled", "gone"}
ForwarderCauses == {"contract", "idle", "overdue", "transport"}
Causes == ParserCauses \cup ForwarderCauses \cup {"panic", "notrailer"}

StatusFor(cause) ==
  CASE cause \in {"malformed", "truncated", "contract"} -> "INVALID_ARGUMENT"
    [] cause = "unsupported" -> "UNIMPLEMENTED"
    [] cause = "toolarge" -> "RESOURCE_EXHAUSTED"
    [] cause \in {"deadline", "overdue", "stalled", "idle"} -> "DEADLINE_EXCEEDED"
    [] cause \in {"gone", "transport"} -> "CANCELLED"
    [] OTHER -> "INTERNAL"

Codes == {"INVALID_ARGUMENT", "UNIMPLEMENTED", "RESOURCE_EXHAUSTED",
          "DEADLINE_EXCEEDED", "CANCELLED", "INTERNAL"}

-----------------------------------------------------------------------------
(* The event channel.  An item records the queue bytes charged up to and   *)
(* including it, so the bytes held by any stretch of the log are the       *)
(* difference of two entries.                                              *)

EventKinds == {"event", "document", "status"}

Upto(l, i) == IF i = 0 THEN 0 ELSE l[i].upto

Charged == Upto(log, Len(log))

Event(kind, cost) == [kind |-> kind, cause |-> "none", upto |-> Charged + cost]

(* Fault: a failure is charged a byte it never acquired. *)
ChargedFailure(cause) ==
  [kind |-> "failure", cause |-> cause, upto |-> Charged + 1]

Failure(cause) == [kind |-> "failure", cause |-> cause, upto |-> Charged]

Terminal(item) == item.kind \in {"status", "failure"}

(* Sending a failure never waits; with the receiver gone it goes nowhere. *)
Queue(cause) ==
  log' = IF dropped THEN log ELSE Append(log, Failure(cause))

(* Fault: an event larger than the queue asks for its whole size. *)
UnclampedCost(size) == IF size = 0 THEN 1 ELSE size

(* EventQueue::deliver: the encoded size, at least 1, at most the queue. *)
QueueCost(size) ==
  IF size = 0 THEN 1 ELSE IF size > QueueBytes THEN QueueBytes ELSE size

ParserRunning == parser \in {"reading", "parsing", "delivering"}
ChunkSenderGone == forwarder = "done"
EventSendersGone == forwarder = "done" /\ parser = "done"

-----------------------------------------------------------------------------
Init ==
  /\ upload = "open" /\ messages = 0
  /\ forwarder = "waiting" /\ held = 0 /\ discarded = 0
  /\ chunks = <<>>
  /\ parser = "reading" /\ eof = FALSE /\ received = 0 /\ produced = 0
  /\ pending = [kind |-> "event", cost |-> 0] /\ served = FALSE /\ result = "none"
  /\ avail = QueueBytes /\ log = <<>>
  /\ drained = 0 /\ taken = 0 /\ batchBytes = 0
  /\ releasing = FALSE /\ wait = "off" /\ finished = FALSE
  /\ dropped = FALSE /\ cancelled = FALSE /\ late = FALSE
  /\ slot = TRUE /\ tally = "none"

-----------------------------------------------------------------------------
(* The forwarder.  Receiving is the client's move as much as the           *)
(* forwarder's: an action takes the message the client chose to send.      *)

Receive ==
  /\ upload = "open" /\ messages < MaxMessages
  /\ messages' = messages + 1

ReceiveChunk(size) ==
  /\ forwarder = "waiting" /\ Receive
  /\ IF size = 0
     THEN UNCHANGED <<forwarder, held>>
     ELSE forwarder' = "sending" /\ held' = size
  /\ UNCHANGED <<upload, discarded, chunks, parseVars, avail, log, streamVars,
                 lifeVars, late, slotVars>>

(* Fault: the reason is not queued, and the parser reports its EOF instead. *)
GiveUpSilently(cause) ==
  /\ forwarder = "waiting"
  /\ forwarder' = "failing"
  /\ UNCHANGED <<held, discarded, chunks, parseVars, avail, log, streamVars,
                 lifeVars, late, slotVars>>

(* Give up on the upload with a reason: the reason is queued first, and    *)
(* the chunk sender dropped after it, which is what the parser sees as EOF.*)
GiveUp(cause) ==
  /\ forwarder = "waiting"
  /\ Queue(cause)
  /\ forwarder' = "failing"
  /\ UNCHANGED <<held, discarded, chunks, parseVars, avail, streamVars,
                 lifeVars, late, slotVars>>

(* A second options message, or one with neither field set. *)
ReceiveBreach ==
  GiveUp("contract") /\ Receive /\ upload' = "broken"

ReceiveTransportError ==
  GiveUp("transport") /\ upload = "open" /\ upload' = "broken"
                      /\ UNCHANGED messages

(* Fault: only the wait for the first chunk is bounded. *)
FirstInputIdle == messages = 0 /\ GiveUp("idle") /\ UNCHANGED uploadVars

(* No message for the idle window. *)
InputIdle == GiveUp("idle") /\ UNCHANGED uploadVars

DeadlineDuringUpload == late /\ GiveUp("overdue") /\ UNCHANGED uploadVars

DropChunkSender ==
  /\ forwarder = "failing"
  /\ forwarder' = "done"
  /\ UNCHANGED <<uploadVars, held, discarded, chunks, parseVars, avail, log,
                 streamVars, lifeVars, late, slotVars>>

ReceiveEnd ==
  /\ forwarder = "waiting" /\ upload = "open"
  /\ upload' = "ended" /\ forwarder' = "done"
  /\ UNCHANGED <<messages, held, discarded, chunks, parseVars, avail, log,
                 streamVars, lifeVars, late, slotVars>>

(* chunk_tx.send waits for room and for nothing else. *)
SendChunk ==
  /\ forwarder = "sending" /\ ParserRunning /\ Len(chunks) < ChunkBound
  /\ chunks' = Append(chunks, held)
  /\ forwarder' = "waiting" /\ held' = 0
  /\ UNCHANGED <<uploadVars, discarded, parseVars, avail, log, streamVars,
                 lifeVars, late, slotVars>>

(* Fault: the rest of the upload is left unread. *)
AbandonUpload ==
  /\ forwarder \in {"waiting", "sending"} /\ ~ParserRunning
  /\ forwarder' = "done" /\ held' = 0
  /\ UNCHANGED <<uploadVars, discarded, chunks, parseVars, avail, log,
                 streamVars, lifeVars, late, slotVars>>

(* The parse is over: seen in the wait for a message, or by a failed send. *)
BeginDiscard ==
  /\ forwarder \in {"waiting", "sending"} /\ ~ParserRunning
  /\ forwarder' = "discarding" /\ held' = 0
  /\ UNCHANGED <<uploadVars, discarded, chunks, parseVars, avail, log,
                 streamVars, lifeVars, late, slotVars>>

(* Whatever the message is, only its bytes count, and only up to the cap. *)
DiscardMessage(size) ==
  /\ forwarder = "discarding" /\ Receive
  /\ discarded' = discarded + size
  /\ forwarder' = IF discarded' > Limit THEN "done" ELSE "discarding"
  /\ UNCHANGED <<upload, held, chunks, parseVars, avail, log, streamVars,
                 lifeVars, late, slotVars>>

DiscardEnd ==
  /\ forwarder = "discarding" /\ upload = "open"
  /\ upload' \in {"ended", "broken"}
  /\ forwarder' = "done"
  /\ UNCHANGED <<messages, held, discarded, chunks, parseVars, avail, log,
                 streamVars, lifeVars, late, slotVars>>

DiscardIdle ==
  /\ forwarder = "discarding"
  /\ forwarder' = "done"
  /\ UNCHANGED <<uploadVars, held, discarded, chunks, parseVars, avail, log,
                 streamVars, lifeVars, late, slotVars>>

Forwarder ==
  \/ \E size \in ChunkSizes : ReceiveChunk(size) \/ DiscardMessage(size)
  \/ ReceiveBreach \/ ReceiveTransportError \/ ReceiveEnd
  \/ InputIdle \/ DeadlineDuringUpload \/ DropChunkSender
  \/ SendChunk \/ BeginDiscard \/ DiscardEnd \/ DiscardIdle

-----------------------------------------------------------------------------
(* The parser.  parse::parse takes the reader by value, so the chunk       *)
(* receiver is gone, with what was in it, the moment it returns.           *)

Return(how) ==
  /\ parser' = "returned"
  /\ result' = how
  /\ chunks' = <<>>

(* InputStats::check, asked before every XML event and on a failed read.   *)
Stopped == cancelled \/ late
StopCause == IF cancelled THEN "gone" ELSE "deadline"

ReadChunk ==
  /\ parser = "reading" /\ chunks # <<>>
  /\ received' = received + Head(chunks)
  /\ IF received' <= Limit
     THEN /\ parser' = "parsing" /\ chunks' = Tail(chunks)
          /\ UNCHANGED result
     ELSE Return(IF Stopped THEN StopCause ELSE "toolarge")
  /\ UNCHANGED <<uploadVars, forwardVars, eof, produced, pending, served,
                 avail, log, streamVars, lifeVars, late, slotVars>>

ReadEof ==
  /\ parser = "reading" /\ chunks = <<>> /\ ChunkSenderGone
  /\ parser' = "parsing" /\ eof' = TRUE
  /\ UNCHANGED <<uploadVars, forwardVars, chunks, received, produced, pending,
                 served, result, avail, log, streamVars, lifeVars, late,
                 slotVars>>

(* The input in hand holds no further item: go back for more. *)
WantMore ==
  /\ parser = "parsing" /\ ~eof
  /\ parser' = "reading"
  /\ UNCHANGED <<uploadVars, forwardVars, chunks, eof, received, produced,
                 pending, served, result, avail, log, streamVars, lifeVars,
                 late, slotVars>>

ParseStops ==
  /\ parser = "parsing" /\ Stopped
  /\ Return(StopCause)
  /\ UNCHANGED <<uploadVars, forwardVars, eof, received, produced, pending,
                 served, avail, log, streamVars, lifeVars, late, slotVars>>

(* A refusal of the bytes; "truncated" only where the input has ended.     *)
ParseFails(cause) ==
  /\ parser = "parsing"
  /\ cause = "truncated" => eof
  /\ Return(cause)
  /\ UNCHANGED <<uploadVars, forwardVars, eof, received, produced, pending,
                 served, avail, log, streamVars, lifeVars, late, slotVars>>

(* A panic unwinds through run_parse: the reader, the queue and the permit *)
(* are dropped, and nothing is counted.                                    *)
ParserPanics ==
  /\ parser = "parsing"
  /\ parser' = "panicked" /\ chunks' = <<>> /\ slot' = FALSE
  /\ UNCHANGED <<uploadVars, forwardVars, eof, received, produced, pending,
                 served, result, avail, log, streamVars, lifeVars, late, tally>>

(* One content event, or the first message of the ending: emit folds every *)
(* event, and on the trailer sends the folded Document ahead of it.        *)
BeginDeliver(kind, size) ==
  /\ parser = "parsing" /\ received > 0
  /\ IF kind = "event"
     THEN produced < MaxEvents /\ produced' = produced + 1
     ELSE /\ kind = IF EmitDocument THEN "document" ELSE "status"
          /\ UNCHANGED produced
  /\ parser' = "delivering"
  /\ pending' = [kind |-> kind, cost |-> QueueCost(size)]
  /\ served' = FALSE
  /\ UNCHANGED <<uploadVars, forwardVars, chunks, eof, received, result, avail,
                 log, streamVars, lifeVars, late, slotVars>>

(* The permits are there: the event is queued, and the parser goes on, to  *)
(* the trailer behind a Document, or to its return behind a trailer.       *)
Delivered(size) ==
  /\ parser = "delivering" /\ ~dropped /\ avail >= pending.cost
  /\ avail' = avail - pending.cost
  /\ log' = Append(log, Event(pending.kind, pending.cost))
  /\ \/ /\ pending.kind = "event" /\ parser' = "parsing"
        /\ UNCHANGED <<chunks, pending, served, result>>
     \/ /\ pending.kind = "document"
        /\ pending' = [kind |-> "status", cost |-> QueueCost(size)]
        /\ served' = FALSE
        /\ UNCHANGED <<parser, chunks, result>>
     \/ /\ pending.kind = "status" /\ Return("ok")
        /\ UNCHANGED <<pending, served>>
  /\ UNCHANGED <<uploadVars, forwardVars, eof, received, produced, streamVars,
                 lifeVars, late, slotVars>>

(* The stall window closes on an event still waiting for its bytes. *)
DeliveryStalls ==
  /\ parser = "delivering" /\ ~dropped /\ avail < pending.cost
  /\ Return("stalled")
  /\ UNCHANGED <<uploadVars, forwardVars, eof, received, produced, pending,
                 served, avail, log, streamVars, lifeVars, late, slotVars>>

(* The stream went away and closed the semaphore. *)
DeliveryGone ==
  /\ parser = "delivering" /\ dropped
  /\ Return("gone")
  /\ UNCHANGED <<uploadVars, forwardVars, eof, received, produced, pending,
                 served, avail, log, streamVars, lifeVars, late, slotVars>>

(* Fault: every ConsumerGone is taken for a client that left. *)
ReportedUnlessGone(how) == how \notin {"ok", "gone", "stalled"}

(* A result the client still has to be told: the trailer has gone out, or  *)
(* nobody is left to read.                                                 *)
Reported(how) == how \notin {"ok", "gone"}

(* run_parse's match on the result: count it, and queue what is reported.  *)
Account ==
  /\ parser = "returned"
  /\ parser' = "accounted"
  /\ tally' = IF result = "ok" THEN "ok"
              ELSE IF result = "toolarge" THEN "capped" ELSE "failed"
  /\ IF Reported(result) THEN Queue(result) ELSE UNCHANGED log
  /\ UNCHANGED <<uploadVars, forwardVars, chunks, eof, received, produced,
                 pending, served, result, avail, streamVars, lifeVars, late,
                 slot>>

(* Fault: the slot goes back before the parse is counted. *)
ReleaseFirst ==
  /\ parser \in {"returned", "accounted"}
  /\ parser' = (IF parser = "accounted" THEN "exited" ELSE parser)
  /\ slot' = FALSE
  /\ UNCHANGED <<uploadVars, forwardVars, chunks, eof, received, produced,
                 pending, served, result, avail, log, streamVars, lifeVars,
                 late, tally>>

(* The blocking closure ends and its permit goes back. *)
ReleaseSlot ==
  /\ parser = "accounted"
  /\ parser' = "exited" /\ slot' = FALSE
  /\ UNCHANGED <<uploadVars, forwardVars, chunks, eof, received, produced,
                 pending, served, result, avail, log, streamVars, lifeVars,
                 late, tally>>

(* The task that joined it reports a panic, and drops the last sender of   *)
(* the parse's side.                                                       *)
Join ==
  /\ parser \in {"exited", "panicked"}
  /\ parser' = "done"
  /\ IF parser = "panicked" THEN Queue("panic") ELSE UNCHANGED log
  /\ UNCHANGED <<uploadVars, forwardVars, chunks, eof, received, produced,
                 pending, served, result, avail, streamVars, lifeVars, late,
                 slotVars>>

Parser ==
  \/ ReadChunk \/ ReadEof \/ WantMore \/ ParseStops \/ ParserPanics
  \/ \E cause \in {"malformed", "truncated", "unsupported"} : ParseFails(cause)
  \/ \E kind \in EventKinds, size \in EventSizes : BeginDeliver(kind, size)
  \/ \E size \in EventSizes : Delivered(size)
  \/ DeliveryStalls \/ DeliveryGone \/ Account \/ ReleaseSlot \/ Join

-----------------------------------------------------------------------------
(* The response stream.                                                    *)

(* What poll_recv can see: once every sender is gone and no ending was     *)
(* sent, poll_next supplies one itself.                                    *)
Incoming ==
  IF EventSendersGone /\ ~\E i \in DOMAIN log : Terminal(log[i])
  THEN Append(log, Failure("notrailer"))
  ELSE log

Final(l, i) == i > 0 /\ Terminal(l[i])

(* Fault: draining does not stop at the first terminal item. *)
DrainsAll(l, end) == end = Len(l)

(* poll_next drains what has arrived, up to the first terminal item. *)
Drains(l, end) ==
  /\ drained <= end
  /\ \A i \in 1..(end - 1) : ~Terminal(l[i])
  /\ end = Len(l) \/ Final(l, end)

(* The transport polls only while the client takes messages. *)
Polled == ~dropped /\ ~finished /\ (ReadsLate => upload # "open")

(* Fault: a batch goes out only at its size. *)
WaitForBytes(l, end, bytes) == ~releasing /\ bytes < BatchBytes

(* Fault: no timer bounds the wait for a batch. *)
WaitUntimed(l, end, bytes) ==
  ~releasing /\ ~Final(l, end) /\ bytes < BatchBytes

(* A batch that is small, has no ending in it and is not already going out *)
(* waits for BATCH_WAIT.                                                   *)
MustWait(l, end, bytes) ==
  ~releasing /\ ~Final(l, end) /\ bytes < BatchBytes /\ wait # "elapsed"

Batched(l, end) == batchBytes + Upto(l, end) - Upto(l, drained)

(* Pending: the batch has what arrived, and its timer runs. *)
Gather ==
  /\ Polled
  /\ \E end \in (taken + 1)..Len(Incoming) :
       /\ Drains(Incoming, end)
       /\ MustWait(Incoming, end, Batched(Incoming, end))
       /\ drained' = end
       /\ batchBytes' = Batched(Incoming, end)
  /\ log' = Incoming
  /\ wait' = "armed"
  /\ UNCHANGED <<uploadVars, forwardVars, chunks, parseVars, avail, taken,
                 releasing, finished, lifeVars, late, slotVars>>

(* Ready: the item at the front of the batch goes to the transport and its *)
(* bytes go back to the queue; the last one of a batch ends the release.   *)
HandOver ==
  /\ Polled
  /\ \E end \in (taken + 1)..Len(Incoming) :
       LET cost == Upto(Incoming, taken + 1) - Upto(Incoming, taken)
       IN /\ Drains(Incoming, end)
          /\ ~MustWait(Incoming, end, Batched(Incoming, end))
          /\ drained' = end
          /\ batchBytes' = Batched(Incoming, end) - cost
          /\ avail' = avail + cost
          /\ releasing' = (taken + 1 < end)
          /\ finished' = (taken + 1 = end /\ Final(Incoming, end))
  /\ log' = Incoming
  /\ taken' = taken + 1
  /\ wait' = "off"
  /\ served' = (served \/ parser = "delivering")
  /\ UNCHANGED <<uploadVars, forwardVars, chunks, parser, eof, received,
                 produced, pending, result, lifeVars, late, slotVars>>

BatchWaitElapses ==
  /\ wait = "armed" /\ ~dropped
  /\ wait' = "elapsed"
  /\ UNCHANGED <<uploadVars, forwardVars, chunks, parseVars, avail, log,
                 drained, taken, batchBytes, releasing, finished, lifeVars,
                 late, slotVars>>

(* Dropping the stream closes the semaphore and, if it has not handed over *)
(* its last item, tells the parse to stop.                                 *)
DropStream ==
  /\ ~dropped
  /\ dropped' = TRUE /\ cancelled' = ~finished
  /\ UNCHANGED <<uploadVars, forwardVars, chunks, parseVars, avail, log,
                 streamVars, late, slotVars>>

(* The transport drops a stream that has returned None... *)
TransportEnds == finished /\ DropStream

(* ...and one whose client has cancelled or disconnected, at any time.     *)
ClientLeaves == DropStream

Stream == Gather \/ HandOver \/ BatchWaitElapses \/ TransportEnds \/ ClientLeaves

DeadlinePasses ==
  /\ HasDeadline /\ ~late
  /\ late' = TRUE
  /\ UNCHANGED <<uploadVars, forwardVars, chunks, parseVars, avail, log,
                 streamVars, lifeVars, slotVars>>

(* The call is over for every party. *)
CallOver == EventSendersGone /\ dropped

Stutter == CallOver /\ UNCHANGED vars

Next == Forwarder \/ Parser \/ Stream \/ DeadlinePasses \/ Stutter

Spec == Init /\ [][Next]_vars

-----------------------------------------------------------------------------
(* Fairness.  The runtime schedules the server's tasks and its timers fire *)
(* if their wait lasts; nothing is asked of the client.                    *)
ServerFair ==
  /\ WF_vars(Parser)
  /\ WF_vars(DropChunkSender) /\ WF_vars(SendChunk) /\ WF_vars(BeginDiscard)
  /\ WF_vars(InputIdle) /\ WF_vars(DiscardIdle)
  /\ WF_vars(BatchWaitElapses) /\ WF_vars(TransportEnds)

(* A client that goes on reading: the transport polls whenever it can.     *)
ReaderFair == WF_vars(Gather \/ HandOver)

(* No task but the batch timer is certain to move: the upload may stay     *)
(* open, and the parser may wait, for as long as they like.                *)
TimerFair == WF_vars(BatchWaitElapses)

(* A client that uploads everything, promptly and by the rules, before it  *)
(* reads anything (ReadsLate), and then reads.                             *)
PromptForwarder ==
  \/ \E size \in ChunkSizes : ReceiveChunk(size) \/ DiscardMessage(size)
  \/ ReceiveEnd \/ SendChunk \/ BeginDiscard \/ DiscardEnd

PromptSpec ==
  /\ Init
  /\ [][PromptForwarder \/ Parser \/ Stream \/ Stutter]_vars
  /\ WF_vars(Parser) /\ WF_vars(SendChunk) /\ WF_vars(BeginDiscard)
  /\ WF_vars(ReceiveEnd) /\ WF_vars(DiscardEnd)
  /\ WF_vars(BatchWaitElapses) /\ WF_vars(TransportEnds) /\ ReaderFair

-----------------------------------------------------------------------------
(* Properties.                                                             *)

Item == [kind : EventKinds \cup {"failure"}, cause : Causes \cup {"none"},
         upto : Nat]

(* Every variable keeps to its range; the channel never exceeds its bound, *)
(* and what waits for queue bytes never waits for more than there are.     *)
ForwarderType ==
  /\ upload \in {"open", "ended", "broken"} /\ messages \in Nat
  /\ forwarder \in {"waiting", "sending", "failing", "discarding", "done"}
  /\ held \in Nat /\ discarded \in Nat

ChunksType == chunks \in Seq(Nat) /\ Len(chunks) <= ChunkBound

ParserType ==
  /\ parser \in {"reading", "parsing", "delivering", "returned", "accounted",
                 "panicked", "exited", "done"}
  /\ result \in ParserCauses \cup {"none", "ok"}
  /\ parser = "returned" => result # "none"

InputType == eof \in BOOLEAN /\ received \in Nat /\ produced \in Nat

DeliveryType ==
  pending \in [kind : EventKinds, cost : 0..QueueBytes] /\ served \in BOOLEAN

ChannelType == avail \in Nat /\ log \in Seq(Item)

StreamType ==
  /\ drained \in Nat /\ taken \in Nat /\ batchBytes \in Nat
  /\ releasing \in BOOLEAN /\ wait \in {"off", "armed", "elapsed"}
  /\ finished \in BOOLEAN

CallType ==
  /\ dropped \in BOOLEAN /\ cancelled \in BOOLEAN /\ late \in BOOLEAN
  /\ slot \in BOOLEAN /\ tally \in {"none", "ok", "failed", "capped"}

TypeOK ==
  /\ ForwarderType /\ ChunksType /\ ParserType /\ InputType /\ DeliveryType
  /\ ChannelType /\ StreamType /\ CallType

(* What the client has been told. *)
Outcome ==
  IF taken = 0 \/ ~Terminal(log[taken]) THEN "open"
  ELSE IF log[taken].kind = "status" THEN "trailer"
  ELSE StatusFor(log[taken].cause)

Given == IF Outcome \in Codes THEN taken - 1 ELSE taken

HasDocument == \E i \in 1..taken : log[i].kind = "document"

Contract == INSTANCE ParseContract WITH
  given <- Given, document <- HasDocument, outcome <- Outcome,
  left <- cancelled, over <- dropped

(* The call keeps its contract whatever the parser, the forwarder and the  *)
(* timers do to each other: one ending, nothing after it, no bare OK, the  *)
(* Document right before the trailer (service.rs:663-664, README.md:123).  *)
KeepsContract == Contract!Spec

(* This call among the calls of ParseSlots, from its first step on a       *)
(* thread.                                                                 *)
SlotPhase ==
  IF parser \in {"reading", "parsing", "delivering", "returned"} THEN "running"
  ELSE IF parser = "accounted" THEN "counted"
  ELSE IF tally = "none" THEN "panicked" ELSE "released"

OneIf(condition) == IF condition THEN 1 ELSE 0

Admission == INSTANCE ParseSlots WITH
  Calls <- {"call"}, Slots <- 1, Threads <- 1,
  DefaultCap <- Limit, Ceiling <- Limit, Requests <- {0},
  phase <- [c \in {"call"} |-> SlotPhase], permits <- OneIf(~slot),
  limit <- [c \in {"call"} |-> Limit], started <- 1, ok <- OneIf(tally = "ok"),
  failed <- OneIf(tally \in {"failed", "capped"}),
  capped <- OneIf(tally = "capped"), refused <- 0

(* Seen from the slots, a call is one of ParseSlots' parses: counted once  *)
(* before its slot goes back, or panicked; never after, never twice        *)
(* (service.rs:293-307, 405-433).                                          *)
HoldsSlotAsAdmitted == [][Admission!Next]_(Admission!slotsVars)

(* Queue bytes are neither lost nor made: the semaphore's permits and the  *)
(* bytes of every event sent and not yet taken make up the queue, and      *)
(* batch_bytes is what the batch holds, so poll_next's subtraction cannot  *)
(* wrap (service.rs:629-640, 739-743).                                     *)
LedgerBalances ==
  /\ avail + (Charged - Upto(log, taken)) = QueueBytes
  /\ batchBytes = Upto(log, drained) - Upto(log, taken)

(* The stream never has to invent the ending: however a parse ends, some   *)
(* party queues one before the last sender goes (service.rs:721-726).      *)
NeverRunsOut == \A i \in DOMAIN log : log[i].cause # "notrailer"

(* A client told its document was truncated did end its upload: when the   *)
(* forwarder gave up, its reason reaches the client first, although the    *)
(* parser sees the same end of input (service.rs:450-452).                 *)
TruncatedMeansEnded ==
  taken > 0 /\ log[taken].cause = "truncated" => upload = "ended"

(* Whatever the client does or stops doing, the slot comes back. *)
SlotComesBack == ServerFair => <>~slot

(* A client that goes on reading reaches the end of its call. *)
ReaderIsAnswered == ServerFair /\ ReaderFair => <>(finished \/ dropped)

(* Events are the live product: each one sent reaches a reading client,    *)
(* small batches included, while the upload is still open and whatever the *)
(* parser does next (service.rs:650-652, tests/live_stream.rs).            *)
EventsFlow ==
  TimerFair /\ ReaderFair =>
    \A i \in 1..(MaxEvents + 2) :
      Len(log) >= i ~> (taken >= i \/ finished \/ dropped)

(* A client that uploads everything before it reads reaches its status,    *)
(* unless what is left to upload once the parse is over exceeds the cap    *)
(* discard_upload gives it (service.rs:454-457, README.md:144-146).        *)
LateReaderIsAnswered == <>(finished \/ dropped \/ discarded > Limit)

(* service.rs:74-76, 604: a stalled client is one that took nothing for    *)
(* the stall window.                                                       *)
StalledTookNothing == result = "stalled" => ~served

(* metrics.rs:23-26: a parse counts as ok or as failed by how it ended for *)
(* the client.                                                             *)
CountedAsTold == tally = "ok" /\ finished => Outcome = "trailer"

=============================================================================
