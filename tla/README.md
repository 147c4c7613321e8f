# grpc-xml in TLA+

A verification project for `grpc-xml`, a gRPC server that parses declarative
XML (JATS, USPTO, XBRL, DocLang, two archive formats and generic XML) while it
is being uploaded and streams what it finds back. Paths below are the
repository's own (`src/service.rs` is the server's implementation).

## Inventory: the system

| Component | State it keeps | Operations | Talks to |
|---|---|---|---|
| Admission (`service.rs`: `XmlGrpc`, `admit`, `resolve_cap`, the head of `parse_xml`) | semaphore of parse slots, byte caps, `Metrics` counters | wait for the options, take a slot or refuse, check the dialect, start the parse | every call; the blocking pool of `main.rs` |
| Forwarder (`forward_chunks`, `discard_upload`) | where it is in its loop, bytes discarded | receive a message, pass a chunk on, give up with a reason, discard what is left | request stream, chunk channel, event channel |
| Parser's frame (`run_parse`, `ChannelReader`, `InputStats`) | bytes received, cancelled and capped flags, deadline | read, stop, deliver an event, return, count, release the slot | chunk channel, event queue, counters |
| Event queue (`EventQueue`, `Queued`) | semaphore of queue bytes, unbounded channel | deliver with backpressure and a stall window, queue a failure for nothing | parser, forwarder, joining task, stream |
| Response stream (`ParseStream`) | batch, its bytes, its timer, `finished` | gather, hand over, end; cancel on drop | event queue, transport |
| XML driver (`parse/mod.rs`, `parse/driver.rs`, `table.rs`, `island.rs`) | open-element stack, at most one capture, table, island or fact, pending caption, warnings | one handler per XML event | reader below, `emit` above |
| XBRL and metadata records (`xbrl.rs`, `meta.rs`) | contexts, units, one open fact; a bounded subtree | read a context, a unit, a note, a metadata tree | driver |
| Repair and encoding (`repair.rs`, `encoding.rs`) | a small automaton over bytes | escape what a generator forgot to | reader |
| Archives (`archive/`) | inflate budget, members kept, the walk over the METS manifest, the line captured from an hOCR page | inflate a ZIP member or a tar, walk the manifest, read each page it orders | driver, `emit` |
| Document fold (`document_fold/`) | the Document's arenas, stacks of open sections and lists, the table being assembled, anchors, span budget | consume an event, hand the Document over | `run_parse` |
| Dialects and sniffing (`dialect.rs`, `sniff.rs`) | none | map an element to an action; resolve the dialect | driver |
| Hardening (`security.rs`) | none | refuse a DOCTYPE that declares entities | driver |
| Metrics, process (`metrics.rs`, `main.rs`, `lib.rs`) | counters, configuration | count, print, serve, shut down | admission |

What is hard in it:

* one call is four concurrent parties (forwarder task, blocking thread, stream
  polled by the transport, client) joined by two channels, two semaphores, one
  flag and four timers, and any of them may go first;
* a call must end with exactly one ending although three parties can queue one
  and each drops its sender when it likes;
* a client may stop uploading, stop reading, read only when it is done, or
  leave, and must not keep a slot or a thread by doing so;
* bytes of the event queue are acquired in one task and given back in another;
* the driver is a state machine over a document nobody has seen whole, with
  shapes that nest, bounds on what they may hold, and events that refer to
  each other (captions to tables, rows to tables, facts to contexts);
* the fold builds a graph of references from that stream in one pass, with
  parents that are closed by what comes after them and names that are answered
  by what comes later;
* an archive costs what it inflates to, read by libraries that do not say what
  they read, and its manifest and pages are walked by counting: the METS walk
  keeps depths and one stack, the hOCR capture keeps a number, because in HTML
  end tags need not match.

What makes each component correct is listed, line by line, as the hazards of
`PROJECT.json`, each with the properties that cover it.

## Modules

| Module | Models |
|---|---|
| `ParseContract` | What one call promises its client, and nothing about how. |
| `ParsePipeline` | One admitted call: forwarder, chunk channel, parser, event queue, stream, client. Implements `ParseContract`, and seen from outside makes the steps `ParseSlots` gives a parse. |
| `MCParsePipeline` | `ParsePipeline` for TLC. |
| `ParsePipelineProofs` | Its theorems. |
| `ParseSlots` | Admission: many calls, slots, blocking threads, counters, caps. |
| `MCParseSlots` | The same for TLC. |
| `ParseSlotsProofs` | Its theorems. |
| `EventStream` | What the event stream of one document looks like to whoever reads it. |
| `XmlDriver` | The forward pass over one document: stack, shapes, captions, subtree readers, what is sent. Implements `EventStream`. |
| `MCXmlDriver` | `XmlDriver` for TLC. |
| `XmlDriverProofs` | Its theorems. |
| `ReadingOrder` | What a reader of the folded Document may count on: content in the order of its events. |
| `TableGrid` | How one row of wire cells is laid into a grid, and what a grid should be. |
| `DocumentFold` | The fold of events into one Document. Implements `ReadingOrder`; extends `TableGrid`. |
| `MCDocumentFold` | Its vocabularies of events for TLC. |
| `DocumentFoldProofs` | Its theorems: the merge contract. |
| `DocumentOrderProofs` | Its theorems about sections, lists, names and reading order. |
| `TableGridProofs` | Its theorems about grids, the span budget and types. |
| `MetsManifest` | The walk over a METS manifest: uses, files, pages, outline, records. |
| `HocrPage` | The capture of lines and words from one hOCR page. |
| `MetsArchive` | The parse of one archive payload, ZIP or tar, with the budget, the manifest and the pages. Extends the two above and implements `EventStream`. |
| `MCMetsArchive` | Its payloads for TLC. |
| `MetsArchiveProofs` | Its theorems. |
| `DataInduction` | For the proofs: least elements and induction over sets of numbers, sequences joined end to end, walks of trees that grow at their end. |

`ParsePipeline` and `XmlDriver` meet at `emit`: the pipeline's parser emits some
sequence of content events and then a status, the driver (or, for an archive,
`MetsArchive`) says which sequences of events those are: `EventStream` is the
promise of both. `DocumentFold` reads such a stream in `run_parse`'s `emit`.

### ParsePipeline and the code

The model starts where `parse_xml` has a permit and has made the channels
(service.rs:267-293). `forwarder` is the program counter of `forward_chunks`:
*waiting* in the `select!`, *sending* a chunk, *failing* between queueing its
reason and dropping `chunk_tx`, *discarding*, *done*. The two steps of giving up
are separate because the parser can run between them. `parser` is the program
counter of the blocking thread: *reading* (blocked in `blocking_recv`),
*parsing*, *delivering* (blocked in `acquire_many`), *returned*, *accounted*,
*exited*, or *panicked*, then *done* when the task that joined it has dropped the
last sender. What the XML driver does with the bytes is left open: in *parsing*
it may emit a content event, end, refuse the bytes, find them truncated (only
after the end of input), or need more. Every emission that follows the checks of
`InputStats` in the code does here too.

The event channel is FIFO with one receiver, so it is kept as the `log` of all
that was ever sent, and two cursors: `drained` (moved into `ParseStream::batch`)
and `taken` (handed to the transport). An item carries the running total of
queue bytes up to it, so the bytes of any stretch are a difference. This keeps
every order the real channel can have, and lets the properties speak of all that
was sent. The semaphore is `avail`; `forget` and `add_permits` are the
subtraction in `Delivered` and the addition in `HandOver`.

`HandOver` is one `poll_next` that returns `Ready(Some)`, `Gather` one that
returns `Pending` with something in the batch. Both drain the channel first, up
to the first ending, as the loop does; a drain may see any prefix of what other
tasks are sending only in the sense that those sends are actions of their own.
`Incoming` adds the status `poll_next` invents when every sender has gone.

Timers are actions enabled while the wait they bound lasts, and so may fire
before or after anything else: the stall window (`DeliveryStalls`), the input
idle window (`InputIdle`, `DiscardIdle`), the batch timer (`BatchWaitElapses`),
and the caller's deadline (`DeadlinePasses`, which sets `late`).

Left out: the wait for the options (`ParseSlots`), cancellation of the blocking
task by a runtime that is shutting down (service.rs:317-321), HTTP/2 flow control
other than by the transport not polling, and the I/O failure of a reader, which
`ChannelReader` cannot produce.

### ParseSlots and the code

`phase[c]` is where call `c` is in `parse_xml`: *opening* until the options come,
*ready* before `admit`, *admitted* between `admit` and `spawn_blocking`, *queued*
until the blocking pool has a thread, *running*, *counted*, and one of four ends.
`admit` is atomic in the code (`try_acquire_owned`). `limit[c]` is what
`resolve_cap` gave. `bytes_in`, `events_out` and `by_dialect` are left out.

`HoldsSlotAsAdmitted` ties the two modules: under the mapping `SlotPhase` every
step of `ParsePipeline` is a step of `ParseSlots` for one call or leaves it alone.
So `ParseSlots` may treat a parse as *run, count, release* or *run, panic*.

### XmlDriver and the code

The document is not a constant: at every point the reader may bring any start tag,
any end tag that closes something, text, a truncation or an error, and what an
element *is* (a capture, a table, a row, a context, a link) is chosen with its start
tag, at the place where the code asks `dialect.rs`. So the runs and the theorems are
about every document, up to the bounds, and about every answer the vocabulary
tables could give.

`mode` names the loop that calls `next_step`, or the sends still to come from one
handler: *prolog* and *trailer* are `read_prolog` and what follows the root,
*content* is the main loop, *subtree* is `consume_subtree`, `read_context` and
`read_unit`, *meta* is `read_meta_tree`, *link* is `read_note_link_body`, *notes* and
*picture* are the rest of a handler that sends more than one event (each `emit` may
fail, so the points between two of them are states). `open` is `open_elements`;
`stack` is the vector of frames, of which the model keeps what a table makes of the
name, and the element's own text where the dialect collects it. `island`, `capture`
and `fact` are the three `Option`s; `table` is the builder, with its counters of
rows and of open header sections, its open row and its open cell; `caption` is the
wrapper depth of the pending caption. `last`, `index` and `tables` are what the
collector sees: the last event, the next index, the tables begun.

One action per arm of the handlers. Start tags: `RootStart`; `FlattenedStart` (below
a shape that takes in everything), `TableStart` (`table_start`), `XbrlStart`, and one
for each `Action` of `dialect.rs` (`Descend`, `Skip`, `Meta`, `BeginTable`,
`BeginCapture`, `PictureStart`), with `IslandStart` before them. End tags: the arms of
`on_end` in the code's order. `Fail` is every `?` of the pass.

Left out: names, namespaces, paths, byte offsets, attributes, the text itself beyond
*blank or not*, inline runs, heading levels and list depth, warnings and their
counts, column numbers, spans and column specs, what a context, unit or metadata
record holds, the DOCTYPE check, and the limits on sizes other than depth.

### DocumentFold and the code

`doc` is the Document's arenas, each a sequence of items; a reference
`<<arena, position>>` is the code's `#/texts/3`, counted from one. Body and
furniture are arenas of one group. An item keeps its own reference, its parent, its
children, what its captions and cells point at, the names its spans cite and where
they point after `take`; `from`, the number of the event that gave it, is there for
the properties only. `headings` and `lists` are the two stacks, `table` and `laying`
the `PendingTable`, `data` the grids of tables already appended, `factsTable`
`facts_table`, `anchors` and `spanSlots` the fields of those names, `attachments` the
`item_ref`s. `taken` is the Document just handed over.

One action per arm of `consume`, and `Take`. `push_text` is four disjuncts by what it
branches on (header, chrome, list item, anything else). The loops of `close_headings`
and `list_parent` are one step: `PoppedTo` says to which length they pop. Links are
made as in the code, in two halves (`AddItem`, `LinkChild`), and `CanHold` is what
`link_child` finds: to any other parent the link is lost. `LayRow` is the loop over a
row's cells, a fold over them.

Events come in any order a stream may have them (`Expected`: nothing but rows within a
table), plus what the code provides for and no stream has: a start over an open table,
and rows and ends of another table. The fold is used again after each `take`, which the
code allows and `run_parse` does not do.

Left out: text, `custom_fields`, metadata, pages, provenance and sources, inline spans
other than the names they cite, the values of fact cells, the cells of the fact table
(they never span), saturation of `i32` columns (the span budget keeps widths far from
it), and the two item kinds (`Title`, `Code`) that differ only in shape.

### Archives and the code

`phase` in `MetsArchive` is how far `archive::parse` is: *upload*, *inflate* and
*handed* for a ZIP, whose document goes on to the XML driver; *tar*, *manifest*,
*info*, *outline*, *records*, *pages*, *hocr*, *lines* for a tar. Bytes come in blocks.
`budget` is what `Metered` or `read_inflated` holds; `fed` is all the decompressor ever
gave, whoever read it and why. A payload is a constant of the behaviour: its limit,
whether its dialect was requested, and either the size of its document or its tar
entries and the start tags of its manifest. Where the manifest's end tags come, what
spans a page has and when bytes turn out to be wrong is free.

`MetsManifest` is `ManifestWalk`: `walk` its fields, one action per arm of `on_start`,
`on_text` and `on_end`; `open` is the reader's own stack, which the code does not have
and the properties compare with. `HocrPage` is `open_hocr_span` and `close_hocr_span`
with the capture; `spans` is, again for the properties, what is really open.
`index`, `last` and `told` are what the collector sees. `MemberByHref` keeps the suffix
match, which may answer with any of several members: the code takes the first by name,
and only whether there is one matters here.

Left out: titles, boxes' numbers, confidences, word offsets, attributes, warnings, page
extents, `Interrupted` reads, and everything inside the tar, gzip and ZIP readers.

## Runs

`expect: violation` runs state what a comment says and show the code do otherwise.

| Run | Question | Bounds and why they suffice |
|---|---|---|
| `pipe_safety` | Does any interleaving break the ledger, lose the ending, report a truncation that the server caused, break the contract, or count a parse after its slot is free? | One event, Document and trailer; three messages against a cap of one byte, so the cap, the chunk channel's bound (1) and the discard bound are all crossed; two queue bytes and events of cost 1 (size 0) and 2 (size 5, clamped), so an event can fill the queue and another wait for it. |
| `pipe_served` | Can a client keep its slot? Does a reading client reach the end of its call? Does each event reach it, whatever the rest does? | One property for each fairness (below), over one specification. Two messages, an event and the Document, a deadline; `BatchBytes` above what the queue can hold, so that only the timer or the ending sends a batch. |
| `pipe_late` | Does a client that uploads before it reads get its status? | Four chunks against a cap of one. |
| `pipe_stall` | Did a stalled client take nothing? No. | Three events. |
| `pipe_counted` | Is a parse counted by how the call ended? No. | As `pipe_safety`. |
| `slots_safety` | Are slots conserved, counters consistent, refusals deserved, and does every started parse end? | Three calls, two slots, one thread: two calls hold slots, one of them waiting for the thread, while the third is refused. No symmetry. |
| `slots_ceiling` | Is a cap ever above the ceiling? Yes. | A default above the ceiling. |
| `driver_safety` | Do the shapes close with their elements, does the stack stay in step with the reader, do captions and own text all go out, and is what is sent an `EventStream`? | Every document of at most seven elements, six deep, in each of the four families of dialects, every option on. Seven elements hold a table with a header section, a row and two cells, or two captions, a picture and a table in one wrapper; six levels put a section in a cell in a row in a section in a table, and the seventh element meets `MAX_DEPTH`. |
| `driver_order` | Is a caption sent where it stands in the document? No. | Five elements suffice. |
| `fold_safety` | Is every fragment a sound tree that reads in order, do sections and lists nest as stated, do names find their items, are grids packed within the budget? | Streams of five events from one of five vocabularies (sections; lists of two depths and kinds; tables with spans both ways; names carried twice and cited before and after; an XBRL instance), the Document taken at any point. Five events hold a heading, a list and a nested one and a return to it, or two tables, or three rows of which the first spans to the third; five span slots are used up and refused. |
| `mets_safety` | Is the budget charged whole and once, do walk and capture agree with the document, do the pages come by `ORDER` in an `EventStream`? | Tars of four entries against limits below, at and above what they hold and a bound of three members; manifests of four tags under the root from three alphabets, with every placing of end tags; volumes of two pages in either order, one perhaps missing; one page of six span tags with words bound by one. Lines and words nest three deep in six tags. |
| `mets_truncated` | Is a manifest cut short refused? No. | The manifests of `mets_safety`. |

Deadlock is checked in every run but those of `MetsArchive`, where a parse that is
over has nothing to do. A call that is over for every party stutters (`Stutter`,
`Served`): only a state where some party still waits can deadlock.

### Fairness

`ServerFair` asks nothing of the client: tasks that can run do (`Parser`,
`SendChunk`, `DropChunkSender`, `BeginDiscard`), and a timer whose wait lasts
fires (`InputIdle`, `DiscardIdle`, `BatchWaitElapses`). `WF(Parser)` covers the stall
window too, since a delivery that waits for ever is `DeliveryStalls` for ever. It
also says that a parse makes progress on a finite document, which the bounds on
messages and events stand for. `WF(InputIdle)` with a bounded number of messages
means that the window is not renewed for ever; a client that sends empty chunks
for ever does renew it, and is outside the model. `ReaderFair` adds that the
transport polls (the client reads). `TimerFair /\ ReaderFair` keeps only that and the
batch timer: nothing obliges the upload or the parser to go on, which is what it means for an
event to be delivered *live*. `PromptSpec` has a client that sends all its messages
by the rules and reads only afterwards; there the timers that end a quiet upload
never fire, because the upload is not quiet. `ParseSlots` needs strong fairness:
a queued parse competes for threads, and the pool serves its queue in order.
`XmlDriver`, `DocumentFold` and `MetsArchive` have no liveness: they do nothing but
answer the reader or the stream, and whether those go on is the pipeline's question.

## What is proved

For every value of the constants the assumptions allow
(`ParsePipelineAssumption`, `ParseSlotsAssumption`, `XmlDriverAssumption`,
`DocumentFoldAssumption`, `MetsManifestAssumption`, `HocrPageAssumption`,
`MetsArchiveAssumption`: positive bounds, natural sizes, a finite set of calls,
vocabularies made of events), not for the bounds above.

`ParsePipelineProofs` goes in layers, each inductive with the ones before it:

1. `CoreInv`: types, `LedgerBalances`, and what makes it inductive: running
   totals never decrease along the log (`UptoMonotone`), the cursors are ordered
   (`taken <= drained <= Len(log)`), nothing follows the first ending in the
   batch, and the event being delivered costs between 1 and the whole queue. Gives
   `TypeCorrect` and `LedgerCorrect`.
2. `EndingInv`: once the parse's side has dropped its senders an ending is in the
   log, unless the stream was dropped first. Gives `NeverRunsOutCorrect`: the
   status `poll_next` invents is never needed.
3. `UploadInv`: if the parser can see the end of input, either the upload ended
   or a reason is already ahead of it in the log (`Excused`). Gives
   `TruncatedCorrect`. It needs the order of the two steps of giving up.
4. `OrderInv`: the kinds in the log follow the parser's progress (events, then
   at most one Document, then a trailer). With the first layer it gives
   `ContractKept`, the refinement of `ParseContract`: each step maps to one step
   of the contract or to none.
5. `SlotInv`: slot, program counter and tally agree. Gives `SlotHeldAsAdmitted`.

`ParseSlotsProofs` proves conservation of slots, the counters' balance
(`SlotsCorrect`, stated part by part in `SlotTypesCorrect` and
`CountersCorrect`) and `RefusalMeansFull`; the lemma both rest on is how the size of
a set of calls changes when one call moves (`MoveCounts`).

`XmlDriverProofs` proves, for any depth bound and documents of any length:

1. `DriverCorrect`: the inductive invariant `DriverInv /\ TableRoot`. The properties
   are not inductive alone. That the stack matches the reader needs `Placed`: how
   much is on the stack in each mode (a metadata element or a link is popped by
   whoever pushed it, however its subtree ends). That a shape's element is on
   the stack needs `ShapesHeld`: a caption that waits belongs to an element further
   out than any open shape, so that closing inside a shape cannot strand it; the
   shapes exclude each other; a shape that is not open is empty; an open fact holds
   the index before the next. `TableRoot` says that the element of an open table is no
   row or section to itself, without which its end tag could be taken for
   theirs and the table would stay open for ever. Gives `DriverTypeCorrect`,
   `StackCorrect`, `ShapesCorrect`, `CaptionCorrect`.
2. `StreamGiven`: the refinement of `EventStream`. An XBRL fact takes its index at its
   start tag and is sent at its end tag, so the stream's next index is the open
   fact's; nothing can be sent in between, because the fact flattens what is in it.
3. `TextInv`: only a generic document collects own text, and there no other shape
   opens; only the innermost element has any, and none while an island is open. Gives
   `TextOnTopCorrect` and `OwnTextCorrect`.
4. `CaptureHeld`: a capture that is not open is empty. Gives `CaptionAnsweredCorrect`.
5. `TableMatchesStack` is inductive together with `DriverInv` and `TableRoot`: a push
   or a pop adds or removes at most the last index of the set of header frames that is
   counted, and one inside a cell is not in the set. Gives `TableMatchesCorrect`.

`DocumentFoldProofs` proves the merge contract. `Sound` is not inductive: `link_child`
silently drops a link to a parent it does not find, so that every item is listed by
its parent rests on every reference the fold still holds. `FoldInv` adds that: body
and furniture, every open heading and every open list can hold children (`StacksInv`),
and so can the parent of the open table, whose caption is already there (`TableInv`);
the attachments resolve (`AttachedInv`); the Document taken is sound (`TakenInv`). One
lemma carries the tree through any event (`AddKeeps`: an item added at the end of an
arena under a parent that can hold it keeps a sound tree sound, and nothing that
resolved stops resolving); the rest is which items each event adds. Gives
`InvCorrect`, `TreeTypeCorrect` and `SoundCorrect`.

`DocumentOrderProofs` adds `OrderInv` to `FoldInv`. It speaks of the *shapes* of the
tree (what of an item stays as it was made), so that the two halves of a link and a
cell's pointer change nothing:

1. `SectionsOpen`: every entry of the heading stack is a heading in the tree, levels
   and ages rise along the stack, and for every heading of the tree one that is open
   came no earlier and has no higher level (`HeadingsReach`), so that the last
   heading that matters is always still on the stack. Gives `ParentByLevelCorrect`.
2. The open lists: depths rise, each group is inside the one before it, each has an
   item, the items of an open group are those whose run is unbroken (`ItemsGoOn`,
   `RunsOpen`); and of past items, that two that share a group agree and are in one
   run. A fact ends the run and may leave no item, which is why the converse asks that
   no fact came. Gives `ListsContiguousCorrect`.
3. `Answered`: a name in `anchors` stands for the first item that carries it, and a
   name not in it for none; the open table's own name is older than anything still to
   come, and nothing that has a name, is a heading or is a list item comes while it
   is open. Gives `NamesCorrect`.
4. `ReadInv`: the tree is *tidy* (no item is listed twice, no root is listed, and from
   body and furniture each is met once), the body, the open headings and the open
   lists make a *spine*, each listed last by the one before it, and nothing in the tree
   is dated after the events given, or after the open table, whose items come later
   under the parent it was opened with. So whatever is added goes to the end of a
   spine, and the walk of that root gets it at its end while the other walk stays
   (`GroveGrows`). Gives `EveryItemOnceCorrect`. Sound links alone are not enough:
   what no root leads to can be linked soundly.
5. `ReadsInOrderCorrect`: the refinement of `ReadingOrder`. A step lengthens one walk
   by numbers of events in order, the new one's at the end; an attachment, a filled-in
   target or a stored table changes no child; a take empties both.

`TableGridProofs` goes from one cell to all documents:

1. What `FoldLeft` computes is the last of a path of states, one for each cell
   (`LayRowPath`), and what `SumFunction` computes grows by what is appended
   (`SumAppend`). Both are inductions over data, made with `DataInduction`.
2. `FirstFreeIs`: the search for a free column finds one, because it looks at more
   columns than there are occupied slots.
3. `RowInv`, inductive over the cells of a row. `Packed` alone is not: it needs that
   of the slots from this row on exactly those that a cell covers are kept as
   occupied (`Met`), which is what makes the pruning of `occupied` harmless, and that
   every column before the current one is taken.
4. `TablesInv`, inductive over the fold with `FoldInv`: every grid is laid
   (`LaidInv`), each table has its data, and what spans claimed plus what is left
   is within the budget. Gives `GridsPackedCorrect`, `SpansWithinBudgetCorrect` and,
   with `TreeTypeCorrect`, `FoldTypes`.

`MetsArchiveProofs` proves, for any payload:

1. `BudgetCorrect`: `BudgetKept` with the fact that a parse with a result reads nothing
   more.
2. `CaptureCorrect`: `CaptureMatchesSpans` is inductive with the types of the capture.
3. `StreamCorrect`: the refinement of `EventStream`, with the fact that nothing was sent
   before *info*, and something was after it.
4. `WalkInv`: `WalkMatchesReader`, `LevelsCount` and what both need, that outside nested
   structMaps the one structMap open is at the walk's depth and the walk's count of
   divisions is their number (`MapCounts`). Gives `WalkCorrect` and `LevelsCorrect`.
5. `ArchiveInv` adds the bounds of the tar and of the manifest's lists, which give
   `ArchiveTypes`, and `PagesInv`: what was told is a run of pages in rising order, each
   from its announcement on without gap, every page still to come is above them, and the
   pages with text that are no longer to come are exactly those told. Gives
   `PagesCorrect`.

Every layer was model-checked as an invariant of its run's instance, `Met` over the slots
within reach instead of all of them.

The library's induction theorems take an operator, which the provers cannot
instantiate; `DataInduction` states them of a set instead, which they can, and that
was enough for folds, sums and least elements. A recursive definition over the tree
itself (`Walk`) is a function over all references, of which nothing is known until
one is shown to exist. That is made part of the invariant (`Walkable`): there is one
for the empty tree, and one for the grown tree is made from the one there was. That
there is no other follows because a walk is longer than those it is made of.

Every invariant and every safety property of a passing run is proved. Only
model-checked: everything about liveness (`SlotComesBack`, `ReaderIsAnswered`, `EventsFlow`,
`LateReaderIsAnswered`, `StartedEnds`), which is beyond the prover; and the five
violations.

## Where the code and its text disagree

* `pipe_stall`: the stall window is over one event's wait for its bytes, not over
  the client's silence. A client that keeps taking small events while a large one
  waits is ended as stalled.
* `pipe_counted`: `parses_ok` counts parses whose trailer was queued. If the
  forwarder queued a failure first, the client got that and never the trailer.
* `slots_ceiling`: the ceiling does not bound the default cap.
* `driver_order`: a caption waits for a table until its wrapper closes. In JATS and
  USPTO nothing but a table ends the wait, so a picture (or a paragraph, or a
  metadata record) after the caption of a figure is sent, and numbered, before it;
  README.md:105 and xml.proto:576 promise document order.
* `mets_truncated`: a manifest that ends with elements still open is taken as far as
  it goes, and the call ends with its trailer; README.md:132 and
  docs/guidelines.md:73 promise `INVALID_ARGUMENT` for truncated input, which the XML
  driver gives.

Seen while modelling, and not stated as runs:

* `take` says the fold is empty afterwards (document_fold/mod.rs:255);
  `span_slots_left` and `fallback_source` are kept. `SpansWithinBudget` is what holds.
* An island's `element_id` is kept as a field and never claimed as an anchor, unlike
  every other item's: a reference to it stays unresolved (`NamesAnswered` says so).
* A column span may run over slots that a row span from above already takes; only the
  slot a cell starts in is free (`Packed` says no more than that).
* A page division inside another, or a `structMap` inside another, makes the METS walk
  lose the outer page or the level (`WalkMatchesReader` and `LevelsCount` are worded so).
* `read_manifest` passes over general references, so that `A &amp; B` in a descriptive
  record loses its `&`; the hOCR reader resolves them.

## Plan

In this order; each module with its theorems where the state is not recursive data.

1. *(done)* `ParseContract`, `ParsePipeline`, `ParseSlots` and their proofs.
2. *(done)* `EventStream`, `XmlDriver` and its proofs.
3. *(done)* `ReadingOrder`, `TableGrid`, `DocumentFold`: theorems for the merge
   contract, sections, lists, names, reading order, grids and the budget.
4. *(done)* `MetsManifest`, `HocrPage`, `MetsArchive`: theorems for all their properties.
5. `MetaTree` and `XbrlRecords`: the bounded readers of `meta.rs` and `xbrl.rs`
   against a reference over the same tree. To settle: what an element past the
   bound on metadata elements does to the names of those around it (its start tag is
   not pushed, its end tag pops), and what a typed dimension with a child
   element gives.
6. `InlineText`: whitespace collapsing with position maps, spans.
7. `RepairFilter`, `Sniff`: the automaton over bytes, the order of evidence.
8. `ParseService`: the pipeline's parser giving only what an `EventStream` may hold,
   so that its contract speaks of tables and indexes too.

New modules share runs where they can: a set of families, options or sizes as a
constant, chosen by Init, in place of a run for each.

Not planned: `security.rs` and the vocabulary tables of `dialect.rs` (pure data,
tested case by case), `encoding.rs` (a decoder's wrapper), `main.rs` and `lib.rs`
beyond the sizes they configure, the demos and the protos.
