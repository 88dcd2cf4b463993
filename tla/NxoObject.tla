------------------------------ MODULE NxoObject ------------------------------
(***************************************************************************)
(* Relocatable objects of the C bootstrap (object.h, object.c): their      *)
(* parts, and the structural validity every operation starts from.         *)
(* Symbol names are numbers in the order strcmp gives the names, contracts *)
(* are opaque, a section is the sequence of its bytes.  The sizes of the   *)
(* format are parameters so that small objects can reach them.             *)
(***************************************************************************)
EXTENDS Integers, Sequences, FiniteSets

CONSTANTS
    ALIGN,       \* alignment of sections and tables (16)
    W32, W64,    \* bytes of a REL32 and of a DIR64 field (4, 8)
    MAX_FILE,    \* bytes of a section (64 MiB)
    MAX_SYMBOLS, \* 65536
    MAX_RELOCS   \* 1048576

ASSUME NxoAssumption ==
    /\ {ALIGN, W32, W64} \subseteq Nat \ {0}
    /\ {MAX_FILE, MAX_SYMBOLS, MAX_RELOCS} \subseteq Nat

Sections == 1 .. 3
TEXT == 1
RDATA == 2
DATA == 3

EmptyObject ==
    [target |-> 0, entry |-> 0, sections |-> [k \in Sections |-> <<>>],
     symbols |-> <<>>, relocs |-> <<>>]

SymbolRecords ==
    [name : Nat, contract : STRING, section : Nat, kind : STRING, import : BOOLEAN,
     export : BOOLEAN, offset : Nat, size : Nat]
RelocRecords ==
    [section : Nat, kind : STRING, target : Nat, offset : Nat, addend : Int]
Objects ==
    [target : Nat, entry : Nat, sections : [Sections -> Seq(Nat)],
     symbols : Seq(SymbolRecords), relocs : Seq(RelocRecords)]

(* What is to be sorted, as qsort leaves it, when below gives for each     *)
(* element the set of those before it.                                     *)
Sorted(below) ==
    [n \in 1 .. Cardinality(DOMAIN below) |->
        CHOOSE d \in DOMAIN below : Cardinality(below[d]) = n - 1]

Width(kind) == IF kind = "REL32" THEN W32 ELSE W64

Aligned(n) == ((n + ALIGN - 1) \div ALIGN) * ALIGN

Span(at, size, bound) == at <= bound /\ size <= bound - at

Size(o, k) == Len(o.sections[k])

-----------------------------------------------------------------------------

(* One symbol of the table: sorted by name, an import without a place, a   *)
(* definition within its section.                                          *)
ValidSymbol(o, j) ==
    LET s == o.symbols[j] IN
    /\ j > 1 => o.symbols[j - 1].name < s.name
    /\ IF s.import
       THEN s.section = 0 /\ s.offset = 0 /\ s.size = 0 /\ ~ s.export
       ELSE /\ s.section \in Sections
            /\ Span(s.offset, s.size, Size(o, s.section))
            /\ s.kind = "function" => s.section = TEXT /\ s.size > 0

(* The entry, if there is one, is a defined function.                      *)
ValidEntry(o) ==
    o.entry # 0 =>
        /\ o.entry <= Len(o.symbols)
        /\ o.symbols[o.entry].section = TEXT
        /\ o.symbols[o.entry].kind = "function"

(* One relocation: within its section, naming a symbol, and behind the     *)
(* previous one without overlapping it.                                    *)
ValidReloc(o, j) ==
    LET r == o.relocs[j]
        p == o.relocs[j - 1]
    IN
    /\ r.kind \in {"REL32", "DIR64"}
    /\ r.section \in Sections
    /\ r.target \in 1 .. Len(o.symbols)
    /\ Span(r.offset, Width(r.kind), Size(o, r.section))
    /\ j > 1 => \/ r.section > p.section
                \/ r.section = p.section /\ r.offset >= p.offset + Width(p.kind)

(* nt_object_validate.                                                     *)
Valid(o) ==
    /\ o.target \in {1, 2}
    /\ Len(o.symbols) <= MAX_SYMBOLS
    /\ Len(o.relocs) <= MAX_RELOCS
    /\ \A k \in Sections : Size(o, k) <= MAX_FILE
    /\ \A j \in DOMAIN o.symbols : ValidSymbol(o, j)
    /\ ValidEntry(o)
    /\ \A j \in DOMAIN o.relocs : ValidReloc(o, j)
=============================================================================
