----------------------------- MODULE MetsArchive -----------------------------
(***************************************************************************)
(* The parse of one archive payload (archive/mod.rs, dclx.rs, mets.rs).  A *)
(* ZIP is a DocLang archive: its document is inflated under the budget and *)
(* given to the XML driver.  A gzip is a Google Books export: its tar is   *)
(* inflated under the budget, its manifest walked (MetsManifest), and each *)
(* page the manifest orders is read (HocrPage) and its lines emitted.      *)
(*                                                                         *)
(* Bytes come in blocks: a header is one, a body has its size in them.     *)
(***************************************************************************)
EXTENDS MetsManifest, HocrPage

CONSTANTS
  Payloads,            \* the payloads a call may bring, with its limit
  MaxMembers,          \* MAX_ARCHIVE_MEMBERS
  NoCap,               \* u64::MAX
  EmitSourceMetadata   \* ParseConfig.emit_source_metadata

ASSUME MetsArchiveAssumption ==
  /\ \A p \in Payloads :
       /\ p.kind \in {"zip", "gzip"} /\ p.requested \in BOOLEAN
       /\ p.limit \in Nat /\ p.limit < NoCap /\ p.spans <= MaxSpans
       /\ p.manifest \in Seq(Elements) /\ p.manifest # <<>> /\ Head(p.manifest).tag = "mets"
       /\ Len(p.tar) \in Nat /\ \A i \in 1..Len(p.tar) : p.tar[i].size \in Nat
       /\ p.document \in Int
  /\ MaxMembers \in Nat /\ NoCap \in Nat /\ EmitSourceMetadata \in BOOLEAN

VARIABLES
  given,     \* the payload: its limit and whether its dialect was requested
  phase,     \* where parse is
  result,    \* what it returned: "none" while it runs
  fed,       \* blocks the decompressor has given
  budget,    \* blocks it may still give
  capped,    \* the payload itself passed the byte cap on the way in
  count,     \* entries of the tar met
  left,      \* blocks left of the body being read, or -1 between entries
  members,   \* the members kept: name -> what it holds
  truncated, \* the manifest ended inside its root element
  sent,      \* events sent of the group being sent
  todo,      \* pages of the manifest not come to yet, by ORDER
  page,      \* the page being read or sent
  index,     \* MetsDriver.index
  last,      \* the last event emitted
  told       \* the pages and lines emitted: <<ORDER, 0>>, <<ORDER, line>>

archiveVars == <<given, phase, result, fed, budget, capped, count, left, members,
                 truncated, sent, todo, page, index, last, told>>
vars == <<archiveVars, manifestVars, hocrVars>>

(* How far the stream of events is. *)
Stage ==
  CASE phase = "done" -> "done"
    [] phase = "failed" -> "cut"
    [] phase \notin {"done", "failed"} /\ last.kind = "none" -> "start"
    [] OTHER -> "open"

Stream == INSTANCE EventStream WITH
  stage <- Stage, next <- index, tables <- 0, table <- 0, rows <- 0

(* The decompressed-byte budget; no limit is no cap. *)
BudgetFor(limit) == IF limit = 0 THEN NoCap ELSE limit

Init ==
  /\ given \in Payloads
  /\ phase = (IF given.kind = "zip" THEN "upload" ELSE "tar")
  /\ result = "none" /\ fed = 0 /\ budget = BudgetFor(given.limit) /\ capped = FALSE
  /\ count = 0 /\ left = -1 /\ members = <<>>
  /\ truncated = FALSE /\ sent = 0 /\ todo = {} /\ page = 0
  /\ index = 0 /\ last = [kind |-> "none"] /\ told = <<>>
  /\ ManifestInit /\ HocrInit

Running == phase \notin {"done", "handed", "failed"}
Unread == UNCHANGED <<manifestVars, hocrVars>>
Unsent == UNCHANGED <<truncated, sent, todo, page, index, last, told>>

Fail(error) == phase' = "failed" /\ result' = error

(* Content that contradicts a stated dialect is the caller's error; what   *)
(* was only sniffed is merely not supported.                               *)
NotThatKind == IF given.requested THEN "malformed" ELSE "unsupported"

(* Fault: only what is read of a member is charged. *)
ChargedMembers(n) == IF left >= 0 THEN n ELSE 0

Charged(n) == n

(* The decompressor gives n blocks: over the budget, the parse ends before *)
(* anything is made of them.                                               *)
Metered(n) ==
  /\ fed' = fed + n
  /\ budget' = IF Charged(n) > budget THEN budget ELSE budget - Charged(n)

Over(n) == Charged(n) > budget

-----------------------------------------------------------------------------
(* The tar: headers and bodies, kept or not, are charged alike.            *)

Entry == given.tar[count]

(* A header.  Directories and links count toward the bound as files do. *)
NextEntry ==
  /\ phase = "tar" /\ left = -1 /\ count < Len(given.tar)
  /\ Metered(1) /\ count' = count + 1
  /\ IF Over(1) THEN Fail("too_large") /\ UNCHANGED left
     ELSE IF count + 1 > MaxMembers THEN Fail("malformed") /\ UNCHANGED left
     ELSE left' = given.tar[count + 1].size /\ UNCHANGED <<phase, result>>
  /\ UNCHANGED <<given, capped, members>> /\ Unread /\ Unsent

(* A block of a body: read_inflated's for a file, the tar reader's own for *)
(* what is no file and is skipped by reading it.                           *)
ReadBody ==
  /\ phase = "tar" /\ left > 0
  /\ Metered(1) /\ left' = left - 1
  /\ IF Over(1) THEN Fail("too_large") ELSE UNCHANGED <<phase, result>>
  /\ UNCHANGED <<given, capped, count, members>> /\ Unread /\ Unsent

WantsMember(e) == e.file /\ e.holds \in {"mets", "xml", "hocr"}

(* The body is read: a wanted member is kept, over one of the same name. *)
EndBody ==
  /\ phase = "tar" /\ left = 0
  /\ left' = -1
  /\ members' = IF WantsMember(Entry) THEN With(members, Entry.name, Entry.holds)
                ELSE members
  /\ UNCHANGED <<given, phase, result, fed, budget, capped, count>> /\ Unread /\ Unsent

(* The end of the tar, with or without its closing blocks, and the search  *)
(* for a manifest among the members.                                       *)
EndTar(n) ==
  /\ phase = "tar" /\ left = -1 /\ count = Len(given.tar)
  /\ Metered(n)
  /\ IF Over(n) THEN Fail("too_large")
     ELSE IF \E name \in DOMAIN members : members[name] = "mets"
     THEN phase' = "manifest" /\ UNCHANGED result
     ELSE Fail(NotThatKind)
  /\ UNCHANGED <<given, capped, count, left, members>> /\ Unread /\ Unsent

(* The compressed bytes are wrong.  Inside a file that is its error; else  *)
(* what came may be no tar at all.                                         *)
TarBroken ==
  /\ phase = "tar"
  /\ Fail(IF left >= 0 /\ Entry.file THEN "malformed" ELSE NotThatKind)
  /\ UNCHANGED <<given, fed, budget, capped, count, left, members>> /\ Unread /\ Unsent

(* The payload passes the cap on uploaded bytes, which stays that error    *)
(* through the decompressor.                                               *)
UploadCapped ==
  /\ phase \in {"tar", "upload"} /\ given.limit > 0
  /\ capped' = TRUE /\ Fail("too_large")
  /\ UNCHANGED <<given, fed, budget, count, left, members>> /\ Unread /\ Unsent

-----------------------------------------------------------------------------
(* The ZIP: buffered whole, then one member inflated.                      *)

Uploaded ==
  /\ phase = "upload"
  /\ \/ Fail("malformed") /\ UNCHANGED left   \* the bytes, or the directory
     \/ given.document < 0 /\ Fail(NotThatKind) /\ UNCHANGED left
     \/ /\ given.document >= 0
        /\ phase' = "inflate" /\ left' = given.document /\ UNCHANGED result
  /\ UNCHANGED <<given, fed, budget, capped, count, members>> /\ Unread /\ Unsent

Inflate ==
  /\ phase = "inflate"
  /\ \/ /\ left > 0 /\ Metered(1) /\ left' = left - 1
        /\ IF Over(1) THEN Fail("too_large") ELSE UNCHANGED <<phase, result>>
     \/ left = 0 /\ phase' = "handed" /\ UNCHANGED <<result, fed, budget, left>>
     \/ Fail("malformed") /\ UNCHANGED <<fed, budget, left>>
  /\ UNCHANGED <<given, capped, count, members>> /\ Unread /\ Unsent

-----------------------------------------------------------------------------
(* The manifest, then the pages: MetsDriver.run.                           *)

Reading == UNCHANGED <<given, result, fed, budget, capped, count, left, members>>
Quiet == UNCHANGED <<index, last, told>>

ReadManifest ==
  /\ phase = "manifest"
  /\ \/ starts < Len(given.manifest) /\ StartElement(given.manifest[starts + 1])
     \/ ManifestText \/ EndElement
  /\ Reading /\ Unsent /\ UNCHANGED <<phase, hocrVars>>

(* The reader comes to the end of the member, wherever the document is; of *)
(* the walk only the manifest is left.                                     *)
EndManifest ==
  /\ phase = "manifest" /\ starts > 0
  /\ phase' = "info" /\ truncated' = (open # <<>>)
  /\ walk' = NewWalk /\ open' = <<>> /\ starts' = 0
  /\ UNCHANGED <<tangled, pages, outline, records>>
  /\ Reading /\ UNCHANGED <<hocrVars, sent, todo, page, index, last, told>>

(* A member that cannot be read, or a DOCTYPE that is refused. *)
MemberFails ==
  /\ phase \in {"manifest", "hocr"}
  /\ \E error \in {"malformed", "refused"} : Fail(error)
  /\ UNCHANGED <<given, fed, budget, capped, count, left, members>> /\ Unread /\ Unsent

(* An event that is taken, without an index of its own. *)
Emit(kind) == last' = [kind |-> kind] /\ UNCHANGED index

SendInfo ==
  /\ phase = "info"
  /\ Emit("info") /\ phase' = "outline" /\ sent' = 0
  /\ Reading /\ Unread /\ UNCHANGED <<truncated, todo, page, told>>

SendOutline ==
  /\ phase = "outline"
  /\ IF sent < Len(outline)
     THEN Emit("record") /\ sent' = sent + 1 /\ UNCHANGED phase
     ELSE phase' = "records" /\ sent' = 0 /\ UNCHANGED <<index, last>>
  /\ Reading /\ Unread /\ UNCHANGED <<truncated, todo, page, told>>

SendRecords ==
  /\ phase = "records"
  /\ IF EmitSourceMetadata /\ sent < records
     THEN Emit("record") /\ sent' = sent + 1 /\ UNCHANGED <<phase, todo>>
     ELSE phase' = "pages" /\ sent' = 0 /\ todo' = DOMAIN pages /\ UNCHANGED <<index, last>>
  /\ Reading /\ Unread /\ UNCHANGED <<truncated, page, told>>

(* A manifest path among the members: as it is, without the "./" before    *)
(* it, or under directories the manifest does not repeat.                  *)
Bare(href) == IF href # NoRef /\ Head(href) = "." THEN Tail(href) ELSE href

MemberByHref(href) ==
  IF href \in DOMAIN members THEN {href}
  ELSE IF Bare(href) \in DOMAIN members THEN {Bare(href)}
  ELSE {name \in DOMAIN members : IsSuffix(Bare(href), name)}

HasText(order) ==
  LET coord == pages[order]["coordOCR"] IN coord # NoRef /\ MemberByHref(coord) # {}

(* Fault: a page that cannot be read ends the volume. *)
AfterSkipNone(orders) == {}

AfterSkip(orders) == orders

(* The next page by ORDER: one without a text member is passed over. *)
NextPage ==
  /\ phase = "pages" /\ todo # {}
  /\ LET order == Min(todo)
     IN IF HasText(order)
        THEN phase' = "hocr" /\ page' = order /\ todo' = todo \ {order}
        ELSE todo' = AfterSkip(todo \ {order}) /\ UNCHANGED <<phase, page>>
  /\ spans' = <<>> /\ tags' = 0 /\ capture' = NoCapture /\ lines' = <<>>
  /\ Reading /\ Quiet /\ UNCHANGED <<truncated, sent, manifestVars>>

ReadHocr ==
  /\ phase = "hocr"
  /\ \/ tags < given.spans /\ \E class \in Classes, boxed \in BOOLEAN : OpenSpan(class, boxed)
     \/ tags < given.spans /\ CloseSpan
     \/ HocrText
  /\ Reading /\ Unsent /\ UNCHANGED <<phase, manifestVars>>

(* The page is read to its end; only then is it announced. *)
SendPage ==
  /\ phase = "hocr"
  /\ Emit("record") /\ told' = Append(told, <<page, 0>>)
  /\ phase' = "lines" /\ sent' = 0
  /\ Reading /\ Unread /\ UNCHANGED <<truncated, todo, page>>

(* Fault: the index starts again with each page. *)
IndexOnPage == sent

Index == index

SendLine ==
  /\ phase = "lines"
  /\ IF sent < Len(lines)
     THEN /\ last' = [kind |-> "item", index |-> Index] /\ index' = Index + 1
          /\ told' = Append(told, <<page, sent + 1>>)
          /\ sent' = sent + 1 /\ UNCHANGED phase
     ELSE phase' = "pages" /\ sent' = 0 /\ UNCHANGED <<index, last, told>>
  /\ Reading /\ Unread /\ UNCHANGED <<truncated, todo, page>>

SendStatus ==
  /\ phase = "pages" /\ todo = {}
  /\ Emit("status") /\ phase' = "done" /\ result' = "ok"
  /\ UNCHANGED <<given, fed, budget, capped, count, left, members, truncated, sent, todo, page,
                 told>>
  /\ Unread

(* Every read first asks whether the parse is to stop; every event may     *)
(* find its reader gone.                                                   *)
Stopped ==
  /\ Running
  /\ Fail("stopped")
  /\ UNCHANGED <<given, fed, budget, capped, count, left, members>> /\ Unread /\ Unsent

Next ==
  \/ NextEntry \/ ReadBody \/ EndBody \/ (\E n \in {0, 1} : EndTar(n)) \/ TarBroken
  \/ UploadCapped \/ Uploaded \/ Inflate
  \/ ReadManifest \/ EndManifest \/ MemberFails
  \/ SendInfo \/ SendOutline \/ SendRecords \/ NextPage \/ ReadHocr \/ SendPage
  \/ SendLine \/ SendStatus \/ Stopped

Spec == Init /\ [][Next]_vars

-----------------------------------------------------------------------------
(* Properties.                                                             *)

(* Types of what the parse keeps; the lines told are pairs of numbers.     *)
TypeOK ==
  /\ phase \in {"upload", "inflate", "handed", "tar", "manifest", "info", "outline",
                "records", "pages", "hocr", "lines", "done", "failed"}
  /\ result \in {"none", "ok", "malformed", "unsupported", "refused", "too_large",
                 "stopped"}
  /\ fed \in Nat /\ budget \in Nat /\ capped \in BOOLEAN
  /\ count \in 0..(MaxMembers + 1) /\ left \in Int /\ left >= -1
  /\ sent \in Nat /\ todo \subseteq DOMAIN pages /\ index \in Nat
  /\ \A i \in DOMAIN told : told[i][1] \in DOMAIN pages /\ told[i][2] \in Nat
  /\ records <= MaxRecords /\ Len(outline) <= MaxRecords

(* The whole budget and nothing but it: whatever the blocks were read for, *)
(* the parse is refused for size exactly when the decompressor gave more   *)
(* than the limit (or the upload did), and never without a limit.          *)
BudgetKept ==
  /\ result = "too_large" <=> capped \/ fed > BudgetFor(given.limit)
  /\ given.limit > 0 /\ result # "too_large" => fed + budget = given.limit

(* The pages come in the manifest's order whatever order it lists them in, *)
(* each announced before its lines and the lines numbered as they stand,   *)
(* and at the trailer every page with a text member there has been told.   *)
PagesInOrder ==
  /\ told # <<>> => told[1][2] = 0
  /\ \A i \in 1..(Len(told) - 1) :
       \/ told[i + 1][1] = told[i][1] /\ told[i + 1][2] = told[i][2] + 1
       \/ told[i + 1][1] > told[i][1] /\ told[i + 1][2] = 0
  /\ phase = "done" =>
       {told[i][1] : i \in DOMAIN told} = {order \in DOMAIN pages : HasText(order)}

(* A volume is a stream of events like any document's: XmlInfo first, its  *)
(* items numbered from zero across the pages, the trailer last.            *)
GivesStream == Stream!Spec

(* What README.md says of a document that is cut short: it is refused.     *)
TruncatedRefused == phase = "done" => ~truncated

=============================================================================
