------------------------------- MODULE PeImage -------------------------------
(***************************************************************************)
(* From a linked object to a UEFI program: nt_object_materialize patches   *)
(* the relocations into copies of the sections, nt_make_pe lays them out   *)
(* as a PE image with a table of base relocations (object_materialize.c,   *)
(* pe_layout.h, ntasm.c), nt_pe_inspect reads such an image back (pe.c).   *)
(* Header fields that are the same in every image are left out.  A byte is *)
(* <<b>>, the n-th byte of a patched field <<"field", value, n>>.          *)
(***************************************************************************)
EXTENDS Relocation, FiniteSetsExt

CONSTANTS
    Inputs,         \* the objects materialized
    PAGE,           \* 4096
    RAW,            \* file alignment (512)
    HEADERS,        \* bytes before the first section (1024)
    SECTION_LIMIT   \* 16 MiB

PeAssumption ==
    /\ {PAGE, RAW, HEADERS} \subseteq Nat \ {0}
    /\ PAGE % RAW = 0 /\ HEADERS % RAW = 0
    /\ SECTION_LIMIT \in Nat
    /\ W64 <= PAGE
    /\ Inputs \subseteq Objects

VARIABLES
    object,    \* the object, never changed
    artifact,  \* NtArtifact: sections, entry, base relocations
    image,     \* artifact.pe
    pc,
    site,      \* the relocation the patching loop is at
    held,      \* heap blocks the calls hold
    error

vars == <<object, artifact, image, pc, site, held, error>>

None == [sections |-> [k \in Sections |-> <<>>], entry |-> 0, base |-> <<>>]
NoImage == [table |-> <<>>, content |-> <<>>, entry |-> 0, size |-> 0, blocks |-> <<>>,
            reloc |-> [rva |-> 0, size |-> 0], length |-> 0]

UpTo(n, a) == ((n + a - 1) \div a) * a

(* nt_pe_layout: where each section goes; the eight bytes before the       *)
(* read-only data, and data that is never empty, are the writer's.         *)
Layout(o) ==
    LET rdata == UpTo(PAGE + Size(o, TEXT), PAGE)
        data == UpTo(rdata + W64 + Size(o, RDATA), PAGE)
        used == IF Size(o, DATA) > 0 THEN Size(o, DATA) ELSE W64
    IN  [text |-> PAGE, rdata |-> rdata, data |-> data, reloc |-> UpTo(data + used, PAGE)]

LayoutOK(o) == Size(o, TEXT) > 0 /\ \A k \in Sections : Size(o, k) <= SECTION_LIMIT

(* Mutant: the writer's bytes before the read-only data are forgotten.     *)
LogicalRva_NoAnchor(l, section) ==
    CASE section = TEXT -> l.text
      [] section = RDATA -> l.rdata
      [] section = DATA -> l.data

(* nt_pe_logical_rva.                                                      *)
LogicalRva(l, section) ==
    CASE section = TEXT -> l.text
      [] section = RDATA -> l.rdata + W64
      [] section = DATA -> l.data

Init ==
    /\ object \in Inputs
    /\ artifact = None
    /\ image = NoImage
    /\ pc = "materialize"
    /\ site = 1
    /\ held = {}
    /\ error = "none"

-----------------------------------------------------------------------------

Fail(message) == error' = message /\ pc' = "failed"

Absolute(o) == {j \in DOMAIN o.relocs : o.relocs[j].kind = "DIR64"}

Materializable(o) ==
    /\ Valid(o) /\ o.target = 1 /\ o.entry # 0 /\ LayoutOK(o)
    /\ \A j \in DOMAIN o.symbols : ~ o.symbols[j].import

(* The checks of nt_object_materialize, the copies of the sections and the *)
(* room for the base relocations; each allocation may fail, after which    *)
(* nt_artifact_free takes back the ones before.                            *)
Materialize ==
    /\ pc = "materialize"
    /\ \/ ~ Materializable(object) /\ Fail("object") /\ UNCHANGED <<artifact, held>>
       \/ /\ Materializable(object)
          /\ \/ Fail("allocation") /\ UNCHANGED <<artifact, held>>
             \/ /\ artifact' =
                      [sections |-> [k \in Sections |->
                                        [x \in 1 .. Size(object, k) |-> <<object.sections[k][x]>>]],
                       entry |-> object.symbols[object.entry].offset,
                       base |-> <<>>]
                /\ held' = {<<"section", k>> : k \in {m \in Sections : Size(object, m) > 0}}
                           \cup (IF Absolute(object) = {} THEN {} ELSE {<<"base">>})
                /\ pc' = "patch"
                /\ UNCHANGED error
    /\ UNCHANGED <<object, image, site>>

(* nt_relocation_store.                                                    *)
Stored(bytes, at, width, value) ==
    [x \in DOMAIN bytes |->
        IF x \in at + 1 .. at + width THEN <<"field", value, x - at>> ELSE bytes[x]]

(* One relocation.  A value out of range frees the artifact.               *)
Patch ==
    /\ pc = "patch"
    /\ site <= Len(object.relocs)
    /\ LET r == object.relocs[site]
           s == object.symbols[r.target]
           l == Layout(object)
           value == FieldValue(r.kind, LogicalRva(l, r.section) + r.offset,
                               LogicalRva(l, s.section) + s.offset, r.addend)
       IN  IF ~ FieldFits(r.kind, value)
           THEN /\ Fail("relocation arithmetic or displacement out of range")
                /\ artifact' = None
                /\ held' = {}
                /\ UNCHANGED site
           ELSE /\ artifact' =
                     [artifact EXCEPT
                        !.sections[r.section] = Stored(@, r.offset, Width(r.kind), value),
                        !.base = IF r.kind = "DIR64"
                                 THEN Append(@, [section |-> r.section, offset |-> r.offset])
                                 ELSE @]
                /\ site' = site + 1
                /\ UNCHANGED <<pc, held, error>>
    /\ UNCHANGED <<object, image>>

Patched ==
    /\ pc = "patch"
    /\ site > Len(object.relocs)
    /\ pc' = "make_pe"
    /\ UNCHANGED <<object, artifact, image, site, held, error>>

-----------------------------------------------------------------------------

(* The places the loader adjusts: the writer's anchor, which holds the     *)
(* entry, and every DIR64 in the order of the artifact.                    *)
Rvas ==
    LET l == Layout(object) IN
    <<l.rdata>> \o [n \in DOMAIN artifact.base |->
                        LogicalRva(l, artifact.base[n].section) + artifact.base[n].offset]

(* Mutant: the places stay as they come.                                   *)
InOrder_AsTheyCome(rvas) == rvas

(* The same, the least first.                                              *)
InOrder(rvas) ==
    LET order == Sorted([i \in DOMAIN rvas |->
                            {j \in DOMAIN rvas : rvas[j] < rvas[i] \/ (rvas[j] = rvas[i] /\ j < i)}])
    IN  [n \in DOMAIN order |-> rvas[order[n]]]

(* A block for each run of neighbours on one page.                         *)
PageOf(rva) == (rva \div PAGE) * PAGE
Starts(rvas) == {n \in DOMAIN rvas : n = 1 \/ PageOf(rvas[n]) # PageOf(rvas[n - 1])}
Ascending(S) == Sorted([x \in S |-> {y \in S : y < x}])
Blocks(rvas) ==
    LET starts == Ascending(Starts(rvas))
        end(n) == IF n < Len(starts) THEN starts[n + 1] - 1 ELSE Len(rvas)
    IN  [n \in DOMAIN starts |->
            LET first == starts[n]
                page == PageOf(rvas[first])
            IN  [page |-> page, offsets |-> [m \in 1 .. end(n) - first + 1 |-> rvas[first + m - 1] - page]]]
BlockSize(b) == UpTo(8 + 2 * Len(b.offsets), 4)
TableSize(blocks) == MapThenSumSet(LAMBDA n : BlockSize(blocks[n]), DOMAIN blocks)

Section(va, vs, raw, flags) == [va |-> va, vs |-> vs, raw |-> raw, rs |-> UpTo(vs, RAW), flags |-> flags]

(* The bytes of the image, and its headers.                                *)
Written(a, blocks) ==
    LET l == Layout(object)
        size(k) == Len(a.sections[k])
        rdataSize == W64 + size(RDATA)
        dataSize == IF size(DATA) > 0 THEN size(DATA) ELSE W64
        text == Section(PAGE, size(TEXT), HEADERS, {"read", "execute"})
        rdata == Section(l.rdata, rdataSize, HEADERS + text.rs, {"read"})
        data == Section(l.data, dataSize, rdata.raw + rdata.rs, {"read", "write"})
        reloc == Section(l.reloc, TableSize(blocks), data.raw + data.rs, {"read"})
        anchor == [n \in 1 .. W64 |-> <<"field", IMAGE_BASE + PAGE + a.entry, n>>]
    IN  [table |-> <<text, rdata, data, reloc>>,
         content |-> <<a.sections[TEXT], anchor \o a.sections[RDATA], a.sections[DATA]>>,
         entry |-> PAGE + a.entry,
         size |-> UpTo(l.reloc + reloc.vs, PAGE),
         blocks |-> blocks,
         reloc |-> [rva |-> l.reloc, size |-> reloc.vs],
         length |-> reloc.raw + reloc.rs]

(* What nt_make_pe asks of the artifact before it writes.  The difference  *)
(* of two neighbours is unsigned: a lesser one after a greater is far.     *)
Writable ==
    /\ artifact.entry < Len(artifact.sections[TEXT])
    /\ \A k \in Sections : Len(artifact.sections[k]) <= SECTION_LIMIT
    /\ \A n \in DOMAIN artifact.base :
          Span(artifact.base[n].offset, W64, Len(artifact.sections[artifact.base[n].section]))
    /\ Len(artifact.base) <= MAX_RELOCS
    /\ LET rvas == InOrder(Rvas) IN \A n \in 2 .. Len(rvas) : rvas[n] - rvas[n - 1] \notin 0 .. W64 - 1

(* nt_make_pe: the table of places and the image.  Two allocations may     *)
(* fail; the artifact stays as it is on every path.                        *)
MakePe ==
    /\ pc = "make_pe"
    /\ \/ ~ Writable /\ Fail("artifact") /\ UNCHANGED <<image, held>>
       \/ Writable /\ Fail("allocation") /\ UNCHANGED <<image, held>>
       \/ /\ Writable
          /\ image' = Written(artifact, Blocks(InOrder(Rvas)))
          /\ held' = held \cup {<<"pe">>}
          /\ pc' = "made"
          /\ UNCHANGED error
    /\ UNCHANGED <<object, artifact, site>>

(* nt_cli frees the artifact on every path.                                *)
Release ==
    /\ pc \in {"failed", "made"}
    /\ held' = {}
    /\ artifact' = None
    /\ pc' = "done"
    /\ UNCHANGED <<object, image, site, error>>

Next == Materialize \/ Patch \/ Patched \/ MakePe \/ Release
        \/ (pc = "done" /\ UNCHANGED vars)

Spec == Init /\ [][Next]_vars
-----------------------------------------------------------------------------
(* nt_pe_inspect.                                                          *)

(* The sections follow each other in memory and in the file without a gap, *)
(* and none is both writable and executable.                               *)
CanonicalTable(img) ==
    \A j \in DOMAIN img.table :
        LET s == img.table[j]
            p == img.table[j - 1]
        IN  /\ s.va = IF j = 1 THEN PAGE ELSE UpTo(p.va + p.vs, PAGE)
            /\ s.raw = IF j = 1 THEN HEADERS ELSE p.raw + p.rs
            /\ s.rs % RAW = 0 /\ s.vs <= s.rs
            /\ Span(s.raw, s.rs, img.length) /\ s.va + s.vs <= img.size
            /\ ~ {"write", "execute"} \subseteq s.flags

(* map: whether a place of the image lies in the file part of one section. *)
Maps(img, rva, size) ==
    \E j \in DOMAIN img.table :
        LET s == img.table[j] IN
        rva >= s.va /\ Span(rva - s.va, size, s.vs) /\ Span(rva - s.va, size, s.rs)

CanonicalBlocks(img) ==
    /\ TableSize(img.blocks) = img.reloc.size
    /\ \A n \in DOMAIN img.blocks :
          LET b == img.blocks[n] IN
          /\ b.page % PAGE = 0
          /\ n > 1 => b.page > img.blocks[n - 1].page
          /\ \A m \in DOMAIN b.offsets :
                /\ b.offsets[m] < PAGE
                /\ Maps(img, b.page + b.offsets[m], W64)
                /\ m > 1 => b.offsets[m] > b.offsets[m - 1]

Relocations(img) == MapThenSumSet(LAMBDA n : Len(img.blocks[n].offsets), DOMAIN img.blocks)

Accepted(img) ==
    LET last == img.table[Len(img.table)] IN
    /\ img.size > 0 /\ img.size % PAGE = 0
    /\ CanonicalTable(img)
    /\ last.raw + last.rs = img.length /\ UpTo(last.va + last.vs, PAGE) = img.size
    /\ \E j \in DOMAIN img.table :
          LET s == img.table[j] IN
          /\ img.entry >= s.va /\ img.entry < s.va + s.vs
          /\ s.flags \cap {"read", "write", "execute"} = {"read", "execute"}
    /\ img.reloc.size > 0 /\ Maps(img, img.reloc.rva, img.reloc.size)
    /\ CanonicalBlocks(img)
    /\ Relocations(img) > 0

-----------------------------------------------------------------------------

(* A patched field holds a value its width has room for.                   *)
CellOK(c) == Len(c) = 1 \/ (c[1] = "field" /\ (\E kind \in {"REL32", "DIR64"} :
                               FieldFits(kind, c[2]) /\ c[3] \in 1 .. Width(kind)))

(* The byte the loader puts at an address of the image.                    *)
Memory(rva) ==
    LET j == CHOOSE j \in 1 .. 3 :
                 rva >= image.table[j].va /\ rva < image.table[j].va + image.table[j].rs
        x == rva - image.table[j].va + 1
    IN  IF x \in DOMAIN image.content[j] THEN image.content[j][x] ELSE <<0>>

Field(rva, width, value) == \A n \in 1 .. width : Memory(rva + n - 1) = <<"field", value, n>>

(* The places the loader adds to when it moves the image.                  *)
Adjusted ==
    UNION {{image.blocks[n].page + image.blocks[n].offsets[m] :
               m \in DOMAIN image.blocks[n].offsets} : n \in DOMAIN image.blocks}

(* Where byte x of a section of the object comes to lie, read off the      *)
(* image alone: the second section starts with the anchor.                 *)
Address(k, x) == image.table[k].va + x + (IF k = RDATA THEN W64 ELSE 0)

(* Loaded anywhere, the program means what the object meant: an absolute   *)
(* field moves with the image and holds the address of its symbol, a       *)
(* relative one does not move and holds the distance to it, the anchor     *)
(* holds the entry, and every other byte is the object's.                  *)
LoadsAsLinked ==
    pc = "made" =>
        /\ Field(image.table[RDATA].va, W64, IMAGE_BASE + image.entry)
        /\ image.entry = Address(TEXT, object.symbols[object.entry].offset)
        /\ Adjusted = {image.table[RDATA].va}
                      \cup {Address(object.relocs[j].section, object.relocs[j].offset) : j \in Absolute(object)}
        /\ \A j \in DOMAIN object.relocs :
              LET r == object.relocs[j]
                  s == object.symbols[r.target]
                  place == Address(r.section, r.offset)
                  symbol == Address(s.section, s.offset)
              IN  Field(place, Width(r.kind),
                        IF r.kind = "DIR64" THEN IMAGE_BASE + symbol + r.addend
                        ELSE symbol + r.addend - (place + W32))
        /\ \A k \in Sections : \A x \in 0 .. Size(object, k) - 1 :
              \/ Memory(Address(k, x)) = <<object.sections[k][x + 1]>>
              \/ \E j \in DOMAIN object.relocs :
                    LET r == object.relocs[j] IN
                    r.section = k /\ x \in r.offset .. r.offset + Width(r.kind) - 1

(* The writer never refuses what the materialization made (no two absolute *)
(* fields of a valid object overlap, nor one and the anchor), and the      *)
(* reader accepts every image the writer makes, counting the anchor and    *)
(* each absolute relocation once.                                          *)
WrittenAndRead ==
    /\ pc = "make_pe" => Writable
    /\ pc = "made" => Accepted(image) /\ Relocations(image) = 1 + Cardinality(Absolute(object))
=============================================================================
