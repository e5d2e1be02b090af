---------------------------- MODULE TtmlDocument ----------------------------
(* What the two TTML parsers make of a document: TtmlDecodeFrame of the text  *)
(* of its first paragraph, SmpteTtmlDecodeFrame and decodePng of its images.  *)
(* A document is what tinyxml2 makes of it: lists of elements, of which those *)
(* of the metadata, the layout and the body are walked side by side.          *)
EXTENDS Integers, Sequences, SequencesExt, FiniteSetsExt, Functions

CONSTANTS
    Paragraphs,   \* sequences of "span" and "br"
    Prefixed,     \* whether names are written tt:span, tt:br
    Images,       \* [id, width, height, png]: png is FALSE for another type
    Regions,      \* [id, x, y]
    MaxElements,  \* bound: images, regions and divs of a document
    DisplayWidth, DisplayHeight   \* tts:extent of the root

ASSUME TtmlAssumption ==
    /\ MaxElements \in Nat /\ DisplayWidth \in Nat /\ DisplayHeight \in Nat
    /\ \A r \in Regions : r.x \in 0 .. DisplayWidth /\ r.y \in 0 .. DisplayHeight

VARIABLES
    document,  \* [kind, body, prefixed] or [kind, images, regions, divs, lacks]
    added      \* the items of the last document

ttmlVars == <<document, added>>

-----------------------------------------------------------------------------
(* TtmlDecodeFrame: the spans of the first paragraph of the first div; after  *)
(* the first only those called tt:span are found. A line break is added for   *)
(* span number n when the child number n is a tt:br.                          *)
TtmlDecodeFrame(doc) ==
    LET children == doc.body[1]
        spans == SelectSeq([i \in DOMAIN children |-> i], LAMBDA i : children[i] = "span")
        found == IF doc.prefixed THEN spans ELSE SubSeq(spans, 1, 1)
        text(n) == IF doc.prefixed /\ children[n] = "br" THEN <<"break", found[n]>> ELSE <<found[n]>>
    IN IF spans = <<>> THEN <<>> ELSE <<FlattenSeq([n \in DOMAIN found |-> text(n)])>>

(* decodePng: what of an image is copied                                      *)
decodePng(image, region) ==
    LET fits(size, at, display) == IF size + at <= display THEN size ELSE display - at
    IN [width |-> fits(image.width, region.x, DisplayWidth),
        height |-> fits(image.height, region.y, DisplayHeight)]

(* SmpteTtmlDecodeFrame: the loop goes on while all three lists do, and ends  *)
(* at the first image that is not a PNG. That a div names its image and its   *)
(* region is of no account.                                                   *)
SmpteTtmlDecodeFrame(doc) ==
    LET steps == Min({Len(doc.images), Len(doc.regions), Len(doc.divs)})
        bad == {i \in 1 .. steps : ~doc.images[i].png}
        last == IF bad = {} THEN steps ELSE Min(bad) - 1
        item(i) == [image |-> doc.images[i].id, x |-> doc.regions[i].x, y |-> doc.regions[i].y,
                    begin |-> doc.divs[i].begin, end |-> doc.divs[i].end,
                    box |-> decodePng(doc.images[i], doc.regions[i])]
    IN IF doc.lacks THEN <<>> ELSE [i \in 1 .. last |-> item(i)]

-----------------------------------------------------------------------------
Lists(S) == BoundedSeq(S, MaxElements)

TtmlInit == document = [kind |-> "none"] /\ added = <<>>

TextFrame ==
    \E p \in Paragraphs, q \in Paragraphs \cup {<<>>}, prefixed \in Prefixed :
       LET doc == [kind |-> "text", body |-> <<p, q>>, prefixed |-> prefixed] IN
       document' = doc /\ added' = TtmlDecodeFrame(doc)

\* The k-th div is shown from time k on; lacks: no head, metadata, layout or body
ImageFrame ==
    \E images \in Lists(Images), regions \in Lists(Regions), n \in 0 .. MaxElements, lacks \in BOOLEAN :
       LET div(k) == [begin |-> k, end |-> k + 1]
           doc == [kind |-> "image", images |-> images, regions |-> regions,
                   divs |-> [k \in 1 .. n |-> div(k)], lacks |-> lacks] IN
       document' = doc /\ added' = SmpteTtmlDecodeFrame(doc)

TtmlNext == document.kind = "none" /\ (TextFrame \/ ImageFrame)
TtmlSpec == TtmlInit /\ [][TtmlNext]_ttmlVars

-----------------------------------------------------------------------------
\* The lines of a paragraph as it is written
TextLines(children) == [i \in DOMAIN children |-> IF children[i] = "br" THEN "break" ELSE i]

(* A paragraph of one or two lines keeps its break (TtmlParser.cpp:323; the   *)
(* break before a third line is lost, as its child is span number two).       *)
(* An image is shown for each div whose image could be decoded, for the time  *)
(* of that div, and no part of it beyond the display, however long the three  *)
(* lists are (SmpteTtmlParser.cpp:537-689, 271-284).                          *)
DocumentShown ==
    /\ document.kind = "text" =>
         \A shown \in Range(added) :
            (document.prefixed /\ document.body[1] \in {<<"span">>, <<"span", "br", "span">>}) =>
                shown = TextLines(document.body[1])
    /\ document.kind = "image" =>
         \A i \in DOMAIN added :
            /\ added[i].begin = i /\ added[i].image = document.images[i].id
            /\ added[i].x + added[i].box.width <= DisplayWidth
            /\ added[i].y + added[i].box.height <= DisplayHeight
=============================================================================
