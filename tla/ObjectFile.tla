------------------------------ MODULE ObjectFile ----------------------------
(***************************************************************************)
(* NXOV0001, the object file: nt_object_write lays a valid object out,     *)
(* nt_object_read checks every field of a file and builds the object, any  *)
(* allocation failing (object.c).  Numbers are their values, not their     *)
(* bytes; the texts and the sections are bytes at their places.            *)
(***************************************************************************)
EXTENDS NxoObject, SequencesExt

CONSTANTS
    Inputs,             \* the objects written
    Names, Contracts,   \* name -> its bytes, contract -> its bytes, one to one
    Damaged(_),         \* what may have become of a file that was written
    ASCII,              \* the bytes of a text are below it (128)
    HEADER,             \* bytes of the header and the section records (240)
    SYMBOL, RELOC,      \* bytes of a record (64, 40)
    NAME_LIMIT, CONTRACT_LIMIT  \* 512, 65536

VARIABLES
    object,   \* the object written, never changed
    file,     \* the bytes written, or what became of them
    whole,    \* nothing happened to the file
    read,     \* the output of nt_object_read
    at,       \* symbol records read
    blocks,   \* heap blocks of the output
    verdict,  \* the diagnostic
    pc

vars == <<object, file, whole, read, at, blocks, verdict, pc>>

NoFile == [length |-> 0]
Unread == [owned |-> FALSE, target |-> 0, entry |-> 0, symbols |-> <<>>, relocs |-> <<>>,
           sections |-> [k \in Sections |-> <<>>]]
NoText == <<>>

-----------------------------------------------------------------------------
(* nt_object_write.                                                        *)

Plain(text) == \A n \in DOMAIN text : text[n] < ASCII

ValidTexts(o) ==
    \A j \in DOMAIN o.symbols :
        LET name == Names[o.symbols[j].name]
            contract == Contracts[o.symbols[j].contract]
        IN  /\ Plain(name) /\ Len(name) \in 1 .. NAME_LIMIT
            /\ Plain(contract) /\ Len(contract) \in 1 .. CONTRACT_LIMIT

(* The string table: name and contract of each symbol in turn.             *)
TextsOf(s) == Names[s.name] \o Contracts[s.contract]
Strings(symbols) == FlattenSeq([j \in DOMAIN symbols |-> TextsOf(symbols[j])])

SymbolsAt == HEADER
RelocsAt(o) == SymbolsAt + Len(o.symbols) * SYMBOL
StringsAt(o) == RelocsAt(o) + Len(o.relocs) * RELOC
StringsEnd(o) == StringsAt(o) + Len(Strings(o.symbols))
Payload(o) == Aligned(StringsEnd(o))

(* Mutant: sections follow each other without alignment.                   *)
SectionAt_Packed(o, k) ==
    LET place[j \in Sections] == IF j = TEXT THEN Payload(o) ELSE place[j - 1] + Size(o, j - 1)
    IN  place[k]

(* offsets[k].                                                             *)
SectionAt(o, k) ==
    LET place[j \in Sections] == IF j = TEXT THEN Payload(o) ELSE Aligned(place[j - 1] + Size(o, j - 1))
    IN  place[k]

Total(o) == SectionAt(o, DATA) + Size(o, DATA)

FitsFile(o) == StringsEnd(o) <= MAX_FILE /\ \A k \in Sections : SectionAt(o, k) + Size(o, k) <= MAX_FILE

Storable(o) == Valid(o) /\ ValidTexts(o) /\ FitsFile(o)

(* The fields that are the same in every file.                             *)
Fixed == [magic |-> "NXOV0001", version |-> 1, kind |-> 1, sections |-> 3, records |-> 96, reserved |-> 0]
SectionFixed(k) ==
    [number |-> k, permissions |-> CASE k = TEXT -> 5 [] k = RDATA -> 1 [] k = DATA -> 3,
     alignment |-> IF k = TEXT THEN 16 ELSE 8, reserved |-> 0]

Flags(s) == {s.kind} \cup (IF s.import THEN {"import"} ELSE {}) \cup (IF s.export THEN {"export"} ELSE {})

SymbolRecord(o, j) ==
    LET s == o.symbols[j]
        begin == Len(Strings(SubSeq(o.symbols, 1, j - 1)))
    IN  [name |-> begin, nameLength |-> Len(Names[s.name]), section |-> s.section, flags |-> Flags(s),
         offset |-> s.offset, size |-> s.size, contract |-> begin + Len(Names[s.name]),
         contractLength |-> Len(Contracts[s.contract]), version |-> 1, reserved |-> 0]

RelocRecord(r) ==
    [section |-> r.section, kind |-> r.kind, offset |-> r.offset, target |-> r.target,
     addend |-> r.addend, reserved |-> 0]

(* What lies at x: a text, a section or the zeros of calloc.               *)
ByteAt(o, x) ==
    IF x < StringsEnd(o) THEN Strings(o.symbols)[x - StringsAt(o) + 1]
    ELSE LET ks == {k \in Sections : x >= SectionAt(o, k) /\ x < SectionAt(o, k) + Size(o, k)}
         IN  IF ks = {} THEN 0 ELSE LET k == CHOOSE k \in ks : TRUE IN o.sections[k][x - SectionAt(o, k) + 1]

FileOf(o) ==
    [fixed |-> Fixed, target |-> o.target, entry |-> o.entry,
     symbolCount |-> Len(o.symbols), relocCount |-> Len(o.relocs),
     symbolsAt |-> SymbolsAt, relocsAt |-> RelocsAt(o), stringsAt |-> StringsAt(o),
     strings |-> Len(Strings(o.symbols)), payload |-> Payload(o), size |-> Total(o),
     table |-> [k \in Sections |-> [fixed |-> SectionFixed(k), size |-> Size(o, k), at |-> SectionAt(o, k)]],
     symbols |-> [j \in DOMAIN o.symbols |-> SymbolRecord(o, j)],
     relocs |-> [j \in DOMAIN o.relocs |-> RelocRecord(o.relocs[j])],
     bytes |-> [x \in StringsAt(o) .. Total(o) - 1 |-> ByteAt(o, x)],
     length |-> Total(o)]

Init ==
    /\ file \in {NoFile, [NoFile EXCEPT !.length = 1]}
    /\ read \in {Unread, [Unread EXCEPT !.owned = TRUE]}
    /\ whole = TRUE
    /\ at = 0
    /\ blocks = {}
    /\ verdict = "none"
    /\ pc = "write"

(* The output argument must be empty, the object valid and small enough;   *)
(* the one allocation may fail.                                            *)
Write ==
    /\ pc = "write"
    /\ IF file.length = 0 /\ Storable(object)
       THEN \/ file' = FileOf(object) /\ pc' = "written" /\ UNCHANGED verdict
            \/ verdict' = "allocation" /\ pc' = "refused" /\ UNCHANGED file
       ELSE verdict' = "format" /\ pc' = "refused" /\ UNCHANGED file
    /\ UNCHANGED <<object, whole, read, at, blocks>>

(* The file is kept, and not always well.                                  *)
Damage ==
    /\ pc = "written" /\ whole
    /\ file' \in Damaged(file)
    /\ whole' = FALSE
    /\ UNCHANGED <<object, read, at, blocks, verdict, pc>>

-----------------------------------------------------------------------------
(* nt_object_read.                                                         *)

(* Mutant: what lies between the parts of a file is not looked at.         *)
Zero_Unchecked(f, from, to) == TRUE

(* zero_bytes.                                                             *)
Zero(f, from, to) == \A x \in from .. to - 1 : f.bytes[x] = 0

GoodTables(f) ==
    /\ f.length \in HEADER .. MAX_FILE
    /\ f.fixed = Fixed
    /\ f.symbolCount <= MAX_SYMBOLS /\ f.relocCount <= MAX_RELOCS
    /\ f.symbolsAt = SymbolsAt
    /\ f.relocsAt = f.symbolsAt + f.symbolCount * SYMBOL
    /\ f.stringsAt = f.relocsAt + f.relocCount * RELOC
    /\ Span(f.stringsAt, f.strings, f.length)
    /\ f.payload = Aligned(f.stringsAt + f.strings) /\ f.payload <= f.length
    /\ f.size = f.length
    /\ Zero(f, f.stringsAt + f.strings, f.payload)

(* raw, before section k.                                                  *)
Begin(f, k) == IF k = TEXT THEN f.payload ELSE f.table[k - 1].at + f.table[k - 1].size

GoodSection(f, k) ==
    /\ f.table[k].fixed = SectionFixed(k)
    /\ f.table[k].at = Aligned(Begin(f, k))
    /\ Span(f.table[k].at, f.table[k].size, f.length)
    /\ Zero(f, Begin(f, k), f.table[k].at)

GoodLayout(f) ==
    /\ GoodTables(f)
    /\ \A k \in Sections : GoodSection(f, k)
    /\ f.table[DATA].at + f.table[DATA].size = f.length

Reject(message) == verdict' = message /\ pc' = "release"

(* The whole layout is checked before anything is allocated.               *)
ReadTables ==
    /\ pc = "written"
    /\ IF read.owned THEN verdict' = "output" /\ pc' = "failed" /\ UNCHANGED <<read, blocks>>
       ELSE IF ~ GoodLayout(file) THEN verdict' = "format" /\ pc' = "failed" /\ UNCHANGED <<read, blocks>>
       ELSE \E n \in {"symbols", "relocs", "both"} :
              LET null == [j \in 1 .. file.symbolCount |->
                              [name |-> NoText, contract |-> NoText, section |-> 0, flags |-> {}, offset |-> 0, size |-> 0]]
                  new == [Unread EXCEPT !.owned = TRUE, !.target = file.target, !.entry = file.entry]
              IN  \/ n = "symbols" /\ file.symbolCount > 0 /\ read' = new /\ blocks' = {} /\ Reject("allocation")
                  \/ /\ n = "relocs" /\ file.relocCount > 0 /\ Reject("allocation")
                     /\ read' = [new EXCEPT !.symbols = null]
                     /\ blocks' = {<<"symbols">> : j \in DOMAIN null}
                  \/ /\ n = "both"
                     /\ read' = [new EXCEPT !.symbols = null, !.relocs = [j \in 1 .. file.relocCount |-> {}]]
                     /\ blocks' = {<<"symbols">> : j \in DOMAIN null} \cup {<<"relocs">> : j \in 1 .. file.relocCount}
                     /\ pc' = "symbols"
                     /\ UNCHANGED verdict
    /\ UNCHANGED <<object, file, whole, at>>

Slice(f, begin, length) == [n \in 1 .. length |-> f.bytes[f.stringsAt + begin + n - 1]]

(* Where the texts of the next symbol have to begin.                       *)
Cursor(f, j) == IF j = 1 THEN 0 ELSE f.symbols[j - 1].contract + f.symbols[j - 1].contractLength

(* Mutant: texts may lie anywhere in the table.                            *)
GoodSymbol_Anywhere(f, j) ==
    LET r == f.symbols[j] IN
    /\ r.nameLength \in 1 .. NAME_LIMIT /\ r.contractLength \in 1 .. CONTRACT_LIMIT
    /\ Span(r.name, r.nameLength, f.strings) /\ Span(r.contract, r.contractLength, f.strings)
    /\ 0 \notin Range(Slice(f, r.name, r.nameLength) \o Slice(f, r.contract, r.contractLength))
    /\ r.version = 1 /\ r.reserved = 0

GoodSymbol(f, j) ==
    LET r == f.symbols[j] IN
    /\ r.name = Cursor(f, j)
    /\ r.nameLength \in 1 .. NAME_LIMIT /\ r.contractLength \in 1 .. CONTRACT_LIMIT
    /\ r.contract = r.name + r.nameLength
    /\ Span(r.name, r.nameLength, f.strings) /\ Span(r.contract, r.contractLength, f.strings)
    /\ 0 \notin Range(Slice(f, r.name, r.nameLength) \o Slice(f, r.contract, r.contractLength))
    /\ r.version = 1 /\ r.reserved = 0

(* One symbol: both texts are copied before either is looked at.           *)
ReadSymbol ==
    /\ pc = "symbols" /\ at < file.symbolCount
    /\ LET j == at + 1
           r == file.symbols[j]
       IN  IF ~ GoodSymbol(file, j) THEN Reject("format") /\ UNCHANGED <<read, at, blocks>>
           ELSE \E name, contract \in BOOLEAN :
                  LET texts == [read.symbols[j] EXCEPT
                                   !.name = IF name THEN Slice(file, r.name, r.nameLength) ELSE @,
                                   !.contract = IF contract THEN Slice(file, r.contract, r.contractLength) ELSE @]
                  IN  /\ blocks' = blocks \cup (IF name THEN {<<"name", j>>} ELSE {})
                                          \cup (IF contract THEN {<<"contract", j>>} ELSE {})
                      /\ IF ~ (name /\ contract)
                         THEN Reject("allocation") /\ read' = [read EXCEPT !.symbols[j] = texts] /\ UNCHANGED at
                         ELSE /\ read' = [read EXCEPT !.symbols[j] =
                                             [texts EXCEPT !.section = r.section, !.flags = r.flags,
                                                           !.offset = r.offset, !.size = r.size]]
                              /\ at' = j
                              /\ UNCHANGED <<verdict, pc>>
    /\ UNCHANGED <<object, file, whole>>

(* No byte of the string table is left over, no reserved field is used.    *)
ReadRelocs ==
    /\ pc = "symbols" /\ at = file.symbolCount
    /\ IF Cursor(file, at + 1) # file.strings \/ \E j \in DOMAIN read.relocs : file.relocs[j].reserved # 0
       THEN Reject("format") /\ UNCHANGED read
       ELSE /\ read' = [read EXCEPT !.relocs =
                  [j \in DOMAIN @ |-> LET r == file.relocs[j] IN
                      [section |-> r.section, kind |-> r.kind, offset |-> r.offset,
                       target |-> r.target, addend |-> r.addend]]]
            /\ pc' = "sections"
            /\ UNCHANGED verdict
    /\ UNCHANGED <<object, file, whole, at, blocks>>

(* The sections that are not empty are copied; before the n-th there is no *)
(* memory left, or there is for all.                                       *)
ReadSections ==
    /\ pc = "sections"
    /\ \E n \in 1 .. 4 :
          LET copied == {k \in 1 .. n - 1 : file.table[k].size > 0} IN
          /\ n \in Sections => file.table[n].size > 0
          /\ read' = [read EXCEPT !.sections =
                [k \in Sections |->
                    IF k \in copied THEN [x \in 1 .. file.table[k].size |-> file.bytes[file.table[k].at + x - 1]] ELSE @[k]]]
          /\ blocks' = blocks \cup {<<"section", k>> : k \in copied}
          /\ IF n = 4 THEN pc' = "validate" /\ UNCHANGED verdict ELSE Reject("allocation")
    /\ UNCHANGED <<object, file, whole, at>>

(* The object of what was read; its texts are ASCII, its flags one role    *)
(* and known ones.                                                         *)
GoodFields(s) ==
    /\ Plain(s.name) /\ Plain(s.contract)
    /\ s.flags \subseteq {"function", "variable", "import", "export"}
    /\ Cardinality(s.flags \cap {"function", "variable"}) = 1

AsObject(o) ==
    [target |-> o.target, entry |-> o.entry, sections |-> o.sections,
     symbols |-> [j \in DOMAIN o.symbols |-> LET s == o.symbols[j] IN
                     [name |-> CHOOSE n \in DOMAIN Names : Names[n] = s.name,
                      contract |-> CHOOSE c \in DOMAIN Contracts : Contracts[c] = s.contract,
                      section |-> s.section,
                      kind |-> IF "function" \in s.flags THEN "function" ELSE "variable",
                      import |-> "import" \in s.flags, export |-> "export" \in s.flags,
                      offset |-> s.offset, size |-> s.size]],
     relocs |-> o.relocs]

Validate ==
    /\ pc = "validate"
    /\ IF (\A j \in DOMAIN read.symbols : GoodFields(read.symbols[j])) /\ Valid(AsObject(read))
       THEN pc' = "read" /\ UNCHANGED verdict
       ELSE Reject("format")
    /\ UNCHANGED <<object, file, whole, read, at, blocks>>

(* Mutant: the texts of a symbol are taken back when it has both.          *)
Reachable_BothTexts(o) ==
    {<<"section", k>> : k \in {i \in Sections : o.sections[i] # <<>>}}
    \cup {<<"symbols">> : j \in DOMAIN o.symbols} \cup {<<"relocs">> : j \in DOMAIN o.relocs}
    \cup UNION {{<<"name", j>>, <<"contract", j>>} :
                   j \in {i \in DOMAIN o.symbols : o.symbols[i].name # NoText /\ o.symbols[i].contract # NoText}}

(* The blocks nt_object_free finds in an object.                           *)
Reachable(o) ==
    {<<"section", k>> : k \in {i \in Sections : o.sections[i] # <<>>}}
    \cup {<<"symbols">> : j \in DOMAIN o.symbols} \cup {<<"relocs">> : j \in DOMAIN o.relocs}
    \cup {<<"name", j>> : j \in {i \in DOMAIN o.symbols : o.symbols[i].name # NoText}}
    \cup {<<"contract", j>> : j \in {i \in DOMAIN o.symbols : o.symbols[i].contract # NoText}}

Release ==
    /\ pc = "release"
    /\ blocks' = blocks \ Reachable(read)
    /\ read' = Unread
    /\ pc' = "failed"
    /\ UNCHANGED <<object, file, whole, at, verdict>>

Stopped == pc \in {"refused", "failed", "read"} /\ UNCHANGED vars

Next ==
    \/ Write \/ Damage
    \/ ReadTables \/ ReadSymbol \/ ReadRelocs \/ ReadSections \/ Validate \/ Release
    \/ Stopped

Spec == Init /\ object \in Inputs /\ [][Next]_vars

-----------------------------------------------------------------------------

(* The objects written have names and contracts that are known.            *)
Named(o) ==
    /\ o \in Objects
    /\ \A j \in DOMAIN o.symbols :
          /\ o.symbols[j].name \in DOMAIN Names /\ o.symbols[j].contract \in DOMAIN Contracts
          /\ o.symbols[j].kind \in {"function", "variable"}

(* What may have become of a file: its fields are numbers, its tables are  *)
(* records where the header says so, there are bytes behind them, and      *)
(* every ASCII text read from these is the bytes of a name or a contract.  *)
FileShaped(f) ==
    /\ f \in [fixed : {f.fixed}, target : Nat, entry : Nat, symbolCount : Nat, relocCount : Nat, symbolsAt : Nat,
              relocsAt : Nat, stringsAt : Nat, strings : Nat, payload : Nat, size : Nat, length : Nat,
              table : [Sections -> [fixed : {f.table[k].fixed : k \in Sections}, size : Nat, at : Nat]],
              symbols : Seq([name : Nat, nameLength : Nat, section : Nat, flags : SUBSET STRING, offset : Nat, size : Nat,
                             contract : Nat, contractLength : Nat, version : Nat, reserved : Nat]),
              relocs : Seq([section : Nat, kind : STRING, offset : Nat, target : Nat, addend : Int, reserved : Nat]),
              bytes : {f.bytes}]
    /\ GoodTables(f) =>
          /\ Len(f.symbols) = f.symbolCount /\ Len(f.relocs) = f.relocCount
          /\ f.bytes \in [f.stringsAt .. f.length - 1 -> Nat]
          /\ \A j \in DOMAIN f.symbols :
                LET name == Slice(f, f.symbols[j].name, f.symbols[j].nameLength)
                    contract == Slice(f, f.symbols[j].contract, f.symbols[j].contractLength)
                IN  GoodSymbol(f, j) /\ Plain(name) /\ Plain(contract) =>
                        name \in Range(Names) /\ contract \in Range(Contracts)

FileAssumption ==
    /\ {HEADER, SYMBOL, RELOC} \subseteq Nat \ {0}
    /\ {NAME_LIMIT, CONTRACT_LIMIT, ASCII} \subseteq Nat
    /\ \A t \in Range(Names) \cup Range(Contracts) : t \in Seq(Nat \ {0})
    /\ \A m, n \in DOMAIN Names : Names[m] = Names[n] => m = n
    /\ \A m, n \in DOMAIN Contracts : Contracts[m] = Contracts[n] => m = n
    /\ \A o \in Inputs : Named(o)
    /\ \A o \in Inputs : Storable(o) => \A f \in Damaged(FileOf(o)) : FileShaped(f)

-----------------------------------------------------------------------------

(* A file that was kept well is read back as the object that was written.  *)
(* Of one that was not, an object is made only if it is the file of that   *)
(* object: no two files are read as the same.  A read that fails leaves    *)
(* its output empty and holds nothing, one that succeeds holds what        *)
(* nt_object_free will find.                                               *)
KeptOrRefused ==
    /\ pc = "read" => FileOf(AsObject(read)) = file
    /\ pc = "read" /\ whole => AsObject(read) = object
    /\ whole /\ pc \in {"release", "failed"} => verdict \in {"output", "allocation"}
    /\ pc = "failed" => blocks = {} /\ (verdict = "output" \/ read = Unread)
    /\ pc = "read" => blocks = Reachable(read)
=============================================================================
