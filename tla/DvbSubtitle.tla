---------------------------- MODULE DvbSubtitle ----------------------------
(***************************************************************************)
(* The DVB subtitle decoder of parser/DvbParser.cpp: the regions, objects, *)
(* colour tables and page composition that live from packet to packet, the *)
(* run lengths of an object drawn into the buffers of the regions that     *)
(* show it, and the picture composed from the page.                        *)
(*                                                                         *)
(* An entry of a region's display list is named by the region and its      *)
(* place: <<r, k>> is the k-th object that the region lists.  The list of  *)
(* an object is the set of these names, its order left open.  Pixels are   *)
(* counted, not kept; a unit of input is one code.  Allocation succeeds.   *)
(***************************************************************************)
EXTENDS Integers, FiniteSets, SequencesExt

CONSTANTS
    RegionIds, ObjectIds, ClutIds, \* the numbers of a stream's page
    PageIds,      \* page numbers of segments and parameters
    Heights, Depths, \* of regions
    DvbWidth,     \* the width of all regions; they start in column 0
    MaxHeight,    \* the largest region composed (1080 in the code)
    Rows,         \* vertical positions in page segments
    DdsVersions,  \* versions of the display definition
    Listings,     \* the object lists of region segments: an object and its place
    Pictures,     \* pixel data of object segments: top and bottom field, each a
                  \* sequence of sub-blocks, coding method 0 or not, nonMod
    NoSpu

\* An object that a region shows at a place, a code of a string, and a sub-block of
\* pixel data
Displays == [object : ObjectIds, x : Nat, y : Nat]
Codes == [kind : {"pixel", "run", "pair", "end"}, run : Nat, colour : Nat]
SubBlocks == [type : STRING, codes : Seq(Codes)]

ASSUME DvbAssumption ==
    /\ Heights \subseteq Nat /\ Rows \subseteq Nat
    /\ {DvbWidth, MaxHeight} \subseteq Nat /\ PageIds \subseteq Nat
    /\ Listings \subseteq Seq(Displays)
    /\ \A pic \in Pictures : pic.top \in Seq(SubBlocks) /\ pic.bottom \in Seq(SubBlocks)

VARIABLES
    regions,    \* regionList: number -> height, depth, clut and the objects listed
    objects,    \* objectList: number -> its displayList
    cluts,      \* numbers in clutList
    page,       \* displayList: regions and their positions, last one first
    dds,        \* version of displayDefinition, -1 when there is none
    chosen,     \* compositionId and ancillaryId
    spu,        \* the box and parts of the item, while the last segment composed it
    draws,      \* where the pixels of the last segment went: buffer size and ends
    phase,      \* "idle", "decode", "failed" or "gone"
    dvbStop     \* mState is SUB_STOP

dvbVars == <<regions, objects, cluts, page, dds, chosen, spu, draws, phase, dvbStop>>

NoEntries == [x \in {} |-> x]
Item0 == [y |-> 0, h |-> 0, parts |-> {}, saved |-> FALSE]

DvbInit ==
    /\ regions = NoEntries /\ objects = NoEntries /\ cluts = {} /\ page = <<>> /\ dds = -1
    /\ chosen = [comp |-> -1, anc |-> -1]
    /\ spu = NoSpu /\ draws = {} /\ phase = "idle" /\ dvbStop = FALSE

-----------------------------------------------------------------------------
(* Run lengths.  A code is a pixel, a run, a pair of pixels of colour 0 or  *)
(* the end of the string; colour 1 is skipped when nonMod says so.  read    *)
(* counts pixels passed, put pixels written, used codes consumed.           *)

Skipped(c, nonMod) == nonMod /\ c.colour = 1

\* A loop iteration of the 2 and 4 bit strings.
ReadCode24(st, c, room, limit, nonMod) ==
    LET n == Min({c.run, room - st.read})
    IN  IF st.done \/ st.used >= limit \/ st.read >= room THEN st
        ELSE CASE c.kind = "pixel" -> [st EXCEPT !.used = @ + 1, !.read = @ + 1,
                                          !.put = IF Skipped(c, nonMod) THEN @ ELSE @ + 1]
               [] c.kind = "run" /\ Skipped(c, nonMod) ->
                                    [st EXCEPT !.used = @ + 1, !.read = @ + c.run]
               [] c.kind = "run" /\ ~Skipped(c, nonMod) ->
                                    [st EXCEPT !.used = @ + 1, !.read = @ + n, !.put = @ + n]
               [] c.kind = "pair" -> [st EXCEPT !.used = @ + 1, !.read = @ + 2,
                                          !.put = IF st.read + 2 <= room THEN @ + 2 ELSE @]
               [] c.kind = "end" -> [st EXCEPT !.used = @ + 1, !.done = TRUE]

NoPixels == [read |-> 0, put |-> 0, used |-> 0, done |-> FALSE]

\* An iteration of the 8 bit string, which has no pairs: a run that is skipped is
\* written all the same as far as there is room, for the caller passes no map table.
ReadCode8(st, c, room, limit, nonMod) ==
    LET start == IF Skipped(c, nonMod) THEN st.read + c.run ELSE st.read
        n == IF start < room THEN Min({c.run, room - start}) ELSE 0
    IN  IF st.done \/ st.used >= limit \/ st.read >= room THEN st
        ELSE CASE c.kind = "pixel" -> [st EXCEPT !.used = @ + 1, !.read = @ + 1,
                                          !.put = IF Skipped(c, nonMod) THEN @ ELSE @ + 1]
               [] c.kind \in {"run", "pair"} ->
                                    [st EXCEPT !.used = @ + 1, !.read = start + n, !.put = @ + n]
               [] c.kind = "end" -> [st EXCEPT !.used = @ + 1, !.done = TRUE]

\* The codes of a string, one after the other
ReadString(bits, codes, room, limit, nonMod) ==
    LET after[i \in 0..Len(codes)] ==
          IF i = 0 THEN NoPixels
          ELSE IF bits = 8 THEN ReadCode8(after[i - 1], codes[i], room, limit, nonMod)
          ELSE ReadCode24(after[i - 1], codes[i], room, limit, nonMod)
    IN  after[Len(codes)]

Read2BitString(codes, room, limit, nonMod) == ReadString(2, codes, room, limit, nonMod)
\* The same codes, with longer runs and no limit of its own.
Read4BitString(codes, room, limit, nonMod) == ReadString(4, codes, room, limit, nonMod)
Read8BitString(codes, room, limit, nonMod) == ReadString(8, codes, room, limit, nonMod)

\* Units of input that are left from the i-th sub-block on: its type and its codes.
UnitsFrom(block, i) ==
    LET last[n \in 0..Len(block)] ==
          IF n = 0 THEN 0 ELSE last[n - 1] + 1 + Len(block[Len(block) + 1 - n].codes)
    IN  last[Len(block) + 1 - i]

\* One sub-block: reads of a string are limited to what the buffer holds behind
\* the position, and a position outside the region ends the object. A line ends
\* with a return to the column of the object.
ParseSubBlock(st, block, i, region, column, nonMod) ==
    LET b == block[i]
        at == st.y * DvbWidth + st.x
        caps == DvbWidth * region.h - at
        needReads == Min({UnitsFrom(block, i), caps})
        room == DvbWidth - st.x
        got == CASE b.type = "2bp" -> Read2BitString(b.codes, room, needReads, nonMod)
                 [] b.type = "4bp" -> Read4BitString(b.codes, room, needReads, nonMod)
                 [] b.type = "8bp" -> Read8BitString(b.codes, room, needReads, nonMod)
                 [] OTHER -> NoPixels
    IN  IF st.ret # "go" THEN st
        ELSE IF st.x > DvbWidth \/ st.y > region.h \/ needReads < 0
             THEN [st EXCEPT !.ret = "bad"]
        ELSE IF b.type = "eol" THEN [st EXCEPT !.x = column, !.y = @ + 2]
        ELSE IF (b.type = "4bp" /\ region.depth < 4) \/ (b.type = "8bp" /\ region.depth < 8)
             THEN [st EXCEPT !.ret = "done"]
        ELSE [st EXCEPT !.x = @ + got.read,
                        !.top = IF got.put > 0 /\ at + got.put > @ THEN at + got.put ELSE @]

\* The result ("bad" is -1) and the end of what was written, for an object at its
\* place in the region, which no one has compared with the size of the region.
ParsePixelDataBlock(region, display, block, bottom, nonMod) ==
    LET start == [x |-> display.x, y |-> IF bottom THEN display.y + 1 ELSE display.y,
                  ret |-> "go", top |-> 0]
        after[i \in 0..Len(block)] ==
          IF i = 0 THEN start
          ELSE ParseSubBlock(after[i - 1], block, i, region, display.x, nonMod)
    IN  after[Len(block)]

-----------------------------------------------------------------------------
(* The lists. *)

\* Mutant of DeleteRegionDisplayList: objects that are listed no more stay.
DeleteRegionDisplayList_KeepsAll(objs, r) == objs

\* deleteRegionDisplayList: the entries leave the lists of their objects, and an
\* object whose list is empty then is freed.
DeleteRegionDisplayList(objs, r) ==
    LET mine == {<<r, k>> : k \in IF r \in DOMAIN regions THEN DOMAIN regions[r].shows ELSE {}}
        touched == {o \in DOMAIN objs : objs[o] \cap mine # {}}
        freed == {o \in touched : objs[o] \subseteq mine}
    IN  [o \in DOMAIN objs \ freed |-> objs[o] \ mine]

\* deleteRegions, deleteObjects, deleteCluts
DeleteAll == regions' = NoEntries /\ objects' = NoEntries /\ cluts' = {}

\* parseRegionSegment.  The buffer always has the size of the region afterwards.
ParseRegionSegment(r, h, depth, clut, list) ==
    LET kept == DeleteRegionDisplayList(objects, r)
        mine(o) == {<<r, k>> : k \in {i \in DOMAIN list : list[i].object = o}}
    IN  /\ regions' = [q \in DOMAIN regions \cup {r} |->
              IF q = r THEN [h |-> h, depth |-> depth, clut |-> clut, shows |-> list]
                       ELSE regions[q]]
        /\ objects' = [o \in DOMAIN kept \cup {list[i].object : i \in DOMAIN list} |->
              (IF o \in DOMAIN kept THEN kept[o] ELSE {}) \cup mine(o)]
        /\ spu' = Item0 /\ draws' = {}
        /\ UNCHANGED <<cluts, page, dds, phase>>

\* parseClutSegment
ParseClutSegment(c) ==
    /\ cluts' = cluts \cup {c}
    /\ spu' = Item0 /\ draws' = {}
    /\ UNCHANGED <<regions, objects, page, dds, phase>>

\* parseDisplayDefinitionSegment
ParseDisplayDefinitionSegment(version) ==
    /\ dds' = version
    /\ draws' = {}
    /\ UNCHANGED <<regions, objects, cluts, page, spu, phase>>

\* parseObjectSegment: both fields of the object are drawn for each of its
\* entries.  Without a bottom field the first entry takes the top field for it;
\* the others take what follows the top field, which can be anything.
ParseObjectSegment(o, pic) ==
    LET drawn(n, first, beyond) ==
          LET region == regions[n[1]]
              display == region.shows[n[2]]
              up == ParsePixelDataBlock(region, display, pic.top, FALSE, pic.nonMod)
              low == IF pic.bottom # <<>> THEN pic.bottom ELSE IF first THEN pic.top ELSE beyond
              down == ParsePixelDataBlock(region, display, low, TRUE, pic.nonMod)
          IN  [size |-> DvbWidth * region.h, ends |-> {up.top, down.top},
               bad |-> "bad" \in {up.ret, down.ret}]
    IN  /\ IF o \notin DOMAIN objects THEN draws' = {} /\ UNCHANGED phase
           ELSE IF ~pic.coding0 THEN draws' = {} /\ phase' = "failed"
           ELSE \E first \in objects[o], beyond \in {p.top : p \in Pictures} :
                  /\ draws' = {drawn(n, n = first, beyond) : n \in objects[o]}
                  /\ phase' = IF \E d \in draws' : d.bad THEN "failed" ELSE phase
        /\ spu' = Item0
        /\ UNCHANGED <<regions, objects, cluts, page, dds>>

-----------------------------------------------------------------------------
(* The page and its picture. *)

\* The box of the regions: one that starts above it by less than its own height
\* is put on top of it.
Extend(box, i, list, known) ==
    LET d == list[i]
        h == known[d.region].h
        lift == d.y < box.y /\ box.y - d.y < h
        y == IF lift THEN box.y - h ELSE d.y
        top == IF y < box.y THEN y ELSE box.y
        low == box.y + box.h
    IN  IF i = 1 THEN [y |-> d.y, h |-> h, list |-> list]
        ELSE [y |-> top,
              h |-> (IF y + h > low THEN y + h ELSE low) - top,
              list |-> [box.list EXCEPT ![i].y = y]]

Box(list, known) ==
    LET after[i \in 0..Len(list)] ==
          IF i = 0 THEN [y |-> 0, h |-> 0, list |-> list]
          ELSE Extend(after[i - 1], i, list, known)
    IN  after[Len(list)]

\* saveResult2Spu: nothing without the regions (those before the first that is
\* missing may have been lifted); no more regions after one that has no colour
\* table or is too large.
SaveResult2Spu(known, tables, list) ==
    LET missing == {i \in DOMAIN list : list[i].region \notin DOMAIN known}
        firsts == IF missing = {} THEN Len(list)
                  ELSE (CHOOSE i \in missing : \A j \in missing : i <= j) - 1
        box == Box(SubSeq(list, 1, firsts), known)
        bad == {i \in DOMAIN list : LET r == known[list[i].region]
                                    IN  r.clut \notin tables \/ r.h > MaxHeight}
        copied == {i \in DOMAIN list : \A j \in bad : i < j}
    IN  /\ page' = box.list \o SubSeq(list, firsts + 1, Len(list))
        /\ spu' = IF missing # {} \/ list = <<>> THEN Item0
                  ELSE [y |-> box.y, h |-> box.h, saved |-> TRUE,
                        parts |-> {[y |-> box.list[i].y - box.y,
                                    h |-> known[list[i].region].h] : i \in copied}]

\* parsePageSegment, and displayEndSegment right after it
ParsePageSegment(state, list) ==
    /\ IF state = "normal" THEN UNCHANGED <<regions, objects, cluts>> ELSE DeleteAll
    /\ SaveResult2Spu(regions', cluts', Reverse(list))
    /\ draws' = {}
    /\ UNCHANGED <<dds, phase>>

\* displayEndSegment
DisplayEndSegment ==
    /\ SaveResult2Spu(regions, cluts, page)
    /\ draws' = {}
    /\ UNCHANGED <<regions, objects, cluts, dds, phase>>

-----------------------------------------------------------------------------
(* Packets. *)

\* updateParameter
UpdateParameter(c, a) ==
    /\ phase # "gone"
    /\ chosen' = IF c <= 0 /\ a <= 0 THEN [comp |-> -1, anc |-> -1]
                 ELSE [comp |-> c, anc |-> a]
    /\ UNCHANGED <<regions, objects, cluts, page, dds, spu, draws, phase, dvbStop>>

\* getDvbSpu has found a packet: a new item is filled.
GetDvbSpu ==
    /\ phase = "idle" /\ ~dvbStop
    /\ phase' = "decode" /\ spu' = Item0
    /\ UNCHANGED <<regions, objects, cluts, page, dds, chosen, draws, dvbStop>>

\* Up to two regions of a page, with their positions
PageLists == BoundedSeq([region : RegionIds, y : Rows], 2)

\* decodeSubtitle: one segment of a page that was chosen; the others are passed over.
DecodeSubtitle ==
    /\ phase = "decode" /\ ~dvbStop
    /\ \E p \in PageIds : p \in {chosen.comp, chosen.anc} \/ -1 \in {chosen.comp, chosen.anc}
    /\ \/ \E state \in {"normal", "acquisition", "change"}, list \in PageLists :
             ParsePageSegment(state, list)
       \/ \E r \in RegionIds, h \in Heights, depth \in Depths, c \in ClutIds, list \in Listings :
             ParseRegionSegment(r, h, depth, c, list)
       \/ \E c \in ClutIds : ParseClutSegment(c)
       \/ \E o \in ObjectIds, pic \in Pictures : ParseObjectSegment(o, pic)
       \/ \E v \in DdsVersions : ParseDisplayDefinitionSegment(v)
       \/ DisplayEndSegment
    /\ UNCHANGED <<chosen, dvbStop>>

\* The end of the packet, its failure, or a parser stopped between segments; an
\* item is added when there is a picture.
EndOfPacket ==
    /\ phase \in {"decode", "failed"}
    /\ phase' = "idle" /\ spu' = NoSpu /\ draws' = {}
    /\ UNCHANGED <<regions, objects, cluts, page, dds, chosen, dvbStop>>

\* stopParser, then the destructor once the parser's thread has ended
StopDvbParser ==
    /\ phase # "gone" /\ ~dvbStop /\ dvbStop' = TRUE
    /\ UNCHANGED <<regions, objects, cluts, page, dds, chosen, spu, draws, phase>>

DestroyDvbParser ==
    /\ dvbStop /\ phase = "idle"
    /\ DeleteAll /\ page' = <<>> /\ dds' = -1 /\ phase' = "gone"
    /\ UNCHANGED <<chosen, spu, draws, dvbStop>>

DvbNext ==
    \/ \E c \in PageIds, a \in PageIds : UpdateParameter(c, a)
    \/ GetDvbSpu \/ DecodeSubtitle \/ EndOfPacket
    \/ StopDvbParser \/ DestroyDvbParser

DvbSpec == DvbInit /\ [][DvbNext]_dvbVars

-----------------------------------------------------------------------------
(* An entry is in the list of its region exactly when it is in the list of its
   object, no object is kept without an entry, and no entry is left of a region
   that is gone: what deleteRegionDisplayList and deleteObjects free is nowhere
   referred to (DvbParser.cpp:353-435, 1179-1219). *)
DisplaysLinked ==
    /\ \A r \in DOMAIN regions : \A k \in DOMAIN regions[r].shows :
          LET o == regions[r].shows[k].object IN o \in DOMAIN objects /\ <<r, k>> \in objects[o]
    /\ \A o \in DOMAIN objects : \A n \in objects[o] :
          /\ n[1] \in DOMAIN regions /\ n[2] \in DOMAIN regions[n[1]].shows
          /\ regions[n[1]].shows[n[2]].object = o
    /\ \A o \in DOMAIN objects : objects[o] # {}

(* No field of an object, of whatever run lengths and wherever the region places
   it, its edges and the space outside included, is written past the buffer of the
   region, although the strings only check the width and the block only its first
   row (DvbParser.cpp:733-744). *)
PixelsInsideRegion == \A d \in draws : \A e \in d.ends : e <= d.size

(* Every region of a composed page lies inside the picture, and composing the
   page again, as the end of the display set does after the page segment,
   gives the same box although the first time moved regions
   (DvbParser.cpp:1303-1339, 1409). *)
RegionsInsideBox ==
    spu # NoSpu /\ spu.saved =>
        /\ \A p \in spu.parts : p.y >= 0 /\ p.y + p.h <= spu.h
        /\ LET again == Box(page, regions) IN again.y = spu.y /\ again.h = spu.h
=============================================================================
