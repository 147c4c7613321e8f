---------------------------- MODULE MCMetsArchive ----------------------------
(* Small payloads for TLC, one set of them per part of the archive parse.  *)
EXTENDS MetsArchive

CONSTANT Part   \* the payloads of a run: all of them, or the manifests alone

Element(tag) == [tag |-> tag, use |-> Nothing, ref |-> NoRef, order |-> -1,
                 labelled |-> FALSE]

root == Element("mets")
group == Element("fileGrp")
coords == [group EXCEPT !.use = "coordOCR"]
images == [group EXCEPT !.use = "image"]
file(n) == [Element("file") EXCEPT !.ref = <<n>>]
at(path) == [Element("FLocat") EXCEPT !.ref = path]
map == Element("structMap")
div == Element("div")
part == [div EXCEPT !.labelled = TRUE]
leaf(n) == [div EXCEPT !.order = n]
pointer(n) == [Element("fptr") EXCEPT !.ref = <<n>>]
dmd == Element("dmdSec")
title == [Element("field") EXCEPT !.labelled = TRUE]
wrapper == Element("field")

MCElements ==
  {root, group, coords, images, map, div, part, dmd, title, wrapper,
   at(<<"1">>), at(<<".", "2">>)}
  \cup {file(n) : n \in {"a", "b"}} \cup {leaf(n) : n \in 1..2}
  \cup {pointer(n) : n \in {"a", "b"}}

Member(name, holds) == [name |-> name, holds |-> holds, file |-> TRUE, size |-> 1]
manifest == Member(<<"x", "m">>, "mets")
other == Member(<<"x", "m">>, "xml")
scan == Member(<<"s">>, "image")
page1 == Member(<<"x", "1">>, "hocr")
page2 == Member(<<"2">>, "hocr")
folder == [Member(<<"x">>, "none") EXCEPT !.file = FALSE]

Payload ==
  [kind |-> "gzip", requested |-> TRUE, limit |-> 0, document |-> -1, spans |-> 0,
   tar |-> <<manifest>>, manifest |-> <<root>>]

Words(letters, n) == UNION {[1..k -> letters] : k \in 0..n}

Zips ==
  {[Payload EXCEPT !.kind = "zip", !.requested = r, !.limit = l, !.document = d] :
     r \in BOOLEAN, l \in 0..2, d \in -1..2}

Tars ==
  {[Payload EXCEPT !.requested = r, !.limit = l, !.tar = t] :
     r \in BOOLEAN, l \in {0, 2, 4, 6, 8}, t \in Words({manifest, other, scan, folder}, 4)}

Manifests ==
  {[Payload EXCEPT !.manifest = <<root>> \o m] :
     m \in Words({group, coords, map, part, div}, 4)
           \cup Words({dmd, title, wrapper, map, part}, 4)
           \cup {<<coords, file("a"), at(<<"1">>)>> \o w :
                   w \in Words({images, leaf(1), div, pointer("a")}, 3)}}

TwoPages(o1, o2) ==
  <<root, coords, file("a"), at(<<"1">>), file("b"), at(<<".", "2">>), leaf(o1),
    pointer("a"), leaf(o2), pointer("b")>>

Volumes ==
  {[Payload EXCEPT !.manifest = TwoPages(o, 3 - o), !.tar = <<manifest>> \o t, !.spans = 2] :
     o \in 1..2, t \in {<<page1, page2>>, <<page2>>}}

Pages ==
  {[Payload EXCEPT !.manifest = <<root, coords, file("a"), at(<<"1">>), leaf(1), pointer("a")>>,
                   !.tar = <<page1, manifest>>, !.spans = 6]}

MCPayloads ==
  IF Part = "manifests" THEN Manifests
  ELSE Zips \cup Tars \cup Manifests \cup Volumes \cup Pages

=============================================================================
