------------------------------ MODULE MCObjects -----------------------------
(***************************************************************************)
(* From units to a program: the units below are linked, and what was       *)
(* linked into a program goes on to be materialized and written as a PE    *)
(* image, or is kept in an object file and read back.  Images are also     *)
(* made of objects of one function and up to two variables, in sections    *)
(* from empty to more than a page, with sites at the ends of sections and  *)
(* across pages, and addends that bring values to both ends of their       *)
(* range; files also of the units; fields are computed from every source,  *)
(* target and addend of a small word; and programs fault on the stubs that *)
(* tables of one or two entries, right or wrong in one field, become.      *)
(***************************************************************************)
EXTENDS ObjectLink, SequencesExt

CONSTANTS
    Images, PAGE, RAW, HEADERS, SECTION_LIMIT,        \* of the images (Images are Inputs)
    IMAGE_FILE, IMAGE_BASE, REACH, WORD,              \* MAX_FILE and the fields of images and programs
    Files, Names, Contracts, Damaged(_), FILE_LIMIT,  \* of the files (Files are Inputs, FILE_LIMIT is MAX_FILE)
    HEADER, SYMBOL, RELOC, NAME_LIMIT, CONTRACT_LIMIT, ASCII,
    FIELD_BASE, FIELD_REACH, FIELD_WORD, FIELD_LIMIT, \* IMAGE_BASE, REACH, WORD and RVA_LIMIT of the fields
    StubTables, STACK, FAULTS                         \* Tables, TOP and MAX_FAULTS of the stubs

(* Units small enough that alignment, both kinds of site and every limit   *)
(* matter: a program, libraries that meet its import or fail to, libraries *)
(* that need each other, private and public clashes, units that are not    *)
(* valid or are for the other target.                                      *)
Fn(name, at, size, flag) ==
    [name |-> name, contract |-> "c", section |-> TEXT, kind |-> "function",
     import |-> FALSE, export |-> flag, offset |-> at, size |-> size]
Var(name, section, at, size) ==
    [name |-> name, contract |-> "c", section |-> section, kind |-> "variable",
     import |-> FALSE, export |-> TRUE, offset |-> at, size |-> size]
Need(name) ==
    [name |-> name, contract |-> "c", section |-> 0, kind |-> "function",
     import |-> TRUE, export |-> FALSE, offset |-> 0, size |-> 0]
Rel(section, kind, target, at) ==
    [section |-> section, kind |-> kind, target |-> target, offset |-> at, addend |-> 0]
Obj(entry, text, rdata, data, symbols, relocs) ==
    [target |-> 1, entry |-> entry,
     sections |-> <<[x \in 1 .. text |-> 1], [x \in 1 .. rdata |-> 2], [x \in 1 .. data |-> 3]>>,
     symbols |-> symbols, relocs |-> relocs]

(* main calls 2 and keeps its address in data.                             *)
Main == Obj(1, 3, 0, 2, <<Fn(1, 0, 3, TRUE), Need(2)>>,
            <<Rel(TEXT, "REL32", 2, 1), Rel(DATA, "DIR64", 2, 0)>>)
Answer == Obj(0, 1, 0, 0, <<Fn(2, 0, 1, TRUE)>>, <<>>)
Hidden == Obj(0, 1, 0, 0, <<Fn(2, 0, 1, FALSE)>>, <<>>)
OtherContract == [Answer EXCEPT !.symbols[1].contract = "d"]
AsVariable == Obj(0, 0, 1, 3, <<Var(2, DATA, 1, 2)>>, <<Rel(DATA, "DIR64", 1, 1)>>)
(* 2 calls 3; 3 calls 2 and points to itself from read-only data.          *)
Half == Obj(0, 3, 1, 0, <<Fn(2, 1, 2, TRUE), Need(3)>>, <<Rel(TEXT, "REL32", 2, 2)>>)
OtherHalf == Obj(0, 2, 2, 0, <<Need(2), Fn(3, 0, 2, TRUE)>>,
                 <<Rel(TEXT, "REL32", 1, 0), Rel(TEXT, "REL32", 2, 1), Rel(RDATA, "DIR64", 2, 0)>>)
(* A private helper with the name of the program's entry.                  *)
Clash == Obj(0, 1, 0, 0, <<Fn(1, 0, 1, FALSE)>>, <<>>)
Private == Obj(0, 1, 0, 1, <<Fn(3, 0, 1, FALSE), Var(4, DATA, 0, 1)>>, <<Rel(TEXT, "REL32", 2, 0)>>)
SecondEntry == Obj(1, 1, 0, 0, <<Fn(3, 0, 1, TRUE)>>, <<>>)
OtherTarget == [Answer EXCEPT !.target = 2]
Overlapping == [Main EXCEPT !.relocs = <<Rel(TEXT, "DIR64", 2, 0), Rel(TEXT, "REL32", 2, 1)>>]
Unsorted == [Private EXCEPT !.symbols = <<Var(4, DATA, 0, 1), Fn(3, 0, 1, FALSE)>>]
Bare == Obj(0, 0, 5, 0, <<>>, <<>>)

Library == {Main, Answer, Hidden, OtherContract, AsVariable, Half, OtherHalf, Clash,
            Private, SecondEntry, OtherTarget, Overlapping, Unsorted, Bare}

MCArguments == SeqOf(Library, 3) \cup {<<Bare, Bare, Bare, Bare>>}
MCPrevious == {EmptyObject, Answer}

-----------------------------------------------------------------------------
(* Tables of interrupt stubs.                                              *)

(* The entries the two vectors want, as a test would write them.           *)
Right(v, symbol) ==
    [vector |-> v, hardware_error_code |-> IF v = 13 THEN "true" ELSE "false",
     visibility |-> "local", symbol |-> symbol, handler |-> "advance_saved_rip_2",
     entry_abi |-> IF v = 13 THEN "nx64-interrupt-same-cpl-error-v0" ELSE "nx64-interrupt-same-cpl-v0",
     exit_abi |-> IF v = 13 THEN "nx64-iretq-same-cpl-error-v0" ELSE "nx64-iretq-same-cpl-v0",
     exit |-> "iretq",
     frame |-> IF v = 13 THEN "x86_64.frame.error.same_cpl" ELSE "x86_64.frame.no_error.same_cpl",
     bindings |-> {}, save |-> {"rax"}, clobbers |-> {}, stack_align |-> 0,
     swapgs |-> "never", interrupts |-> "preserve", section |-> ".text"]

(* Each field as the other vector wants it, or not at all.                 *)
Wrong(e) ==
    {[e EXCEPT !.vector = v] : v \in {6, 13, 14}}
    \cup {[e EXCEPT ![x] = Right(IF e.vector = 13 THEN 6 ELSE 13, e.symbol)[x]] : x \in {"entry_abi", "exit_abi", "frame"}}
    \cup {[e EXCEPT !.hardware_error_code = x] : x \in {"true", "false", "maybe"}}
    \cup {[e EXCEPT !.save = {}], [e EXCEPT !.save = {"rax", "rcx"}], [e EXCEPT !.clobbers = {"rax"}],
          [e EXCEPT !.stack_align = 16], [e EXCEPT !.visibility = "weak"], [e EXCEPT !.exit = "return"]}

Entries == UNION {Wrong(Right(v, "ud")) : v \in {6, 13}}
MCTables == {<<>>} \cup {<<e>> : e \in Entries} \cup {<<e, Right(v, s)>> : e \in Entries, v \in {6, 13}, s \in {"ud", "gp"}}

-----------------------------------------------------------------------------
(* The machines.                                                           *)

VARIABLES
    machine,
    object, artifact, image, step, site, held, failure,  \* the image
    file, whole, read, taken, blocks, verdict, turn,     \* the file, of the same object
    program, direct, compiled, code, named, heap, outcome, phase, \* the program the object is made of
    fieldKind, source, goal, constant, total, stage,     \* the field
    table, entries, stubs, processor, stack, vector, next, before, faults, mode  \* the stubs

imageVars == <<object, artifact, image, step, site, held, failure>>
fileVars == <<file, whole, read, taken, blocks, verdict, turn>>
programVars == <<program, direct, compiled, code, named, heap, outcome, phase>>
fieldVars == <<fieldKind, source, goal, constant, total, stage>>
stubVars == <<table, entries, stubs, processor, stack, vector, next, before, faults, mode>>

Bytes(n) == [x \in 1 .. n |-> x]
Whole(size) ==
    [name |-> 1, contract |-> "c", section |-> TEXT, kind |-> "function",
     import |-> FALSE, export |-> TRUE, offset |-> 1, size |-> size - 1]
Variable(name, section, size) ==
    [name |-> name, contract |-> "c", section |-> section, kind |-> "variable",
     import |-> FALSE, export |-> TRUE, offset |-> 0, size |-> size]
SymbolTable(text, rdata, data) ==
    <<Whole(text), Variable(2, RDATA, rdata), Variable(3, DATA, data)>>

(* Where a field may be: the start, the middle or the end of a section.    *)
Sites(sizes) ==
    {[section |-> k, kind |-> kind, target |-> n, offset |-> at, addend |-> a] :
        k \in Sections, kind \in {"REL32", "DIR64"}, n \in 1 .. 3,
        at \in {0, 2, 3, 7}, a \in {-60, -40, 0, 45}}

RelocTables(sizes) ==
    LET sites == {r \in Sites(sizes) : r.offset + Width(r.kind) <= sizes[r.section]}
        later(r, s) == \/ s.section > r.section
                       \/ s.section = r.section /\ s.offset >= r.offset + Width(r.kind)
    IN  {<<>>} \cup {<<r>> : r \in sites}
        \cup {<<rs[1], rs[2]>> : rs \in
                 {p \in {r \in sites : r.addend = 0} \X {r \in sites : r.addend = 0} : later(p[1], p[2])}}

ImageInputs ==
    UNION {{[target |-> 1, entry |-> 1, sections |-> <<Bytes(z[1]), Bytes(z[2]), Bytes(z[3])>>,
             symbols |-> SymbolTable(z[1], z[2], z[3]), relocs |-> t] : t \in RelocTables(z)} :
           z \in {<<4, 0, 0>>, <<8, 4, 9>>, <<9, 9, 4>>, <<17, 1, 0>>}}
    \cup {[target |-> t, entry |-> e, sections |-> <<Bytes(n), <<>>, <<>>>>,
           symbols |-> IF n > 1 THEN <<Whole(n)>> ELSE <<>>, relocs |-> <<>>] :
             t \in {1, 2}, e \in {0, 1}, n \in {0, 2, 21}}

MCImages == ImageInputs \cup Library

(* Units with a text too long or not ASCII, or a target unknown.           *)
Misfits == {[Answer EXCEPT !.symbols[1].name = 7], [Answer EXCEPT !.symbols[1].name = 8], [Answer EXCEPT !.symbols[1].contract = "long"],
            [Answer EXCEPT !.target = 3]}
MCFiles == Library \cup Misfits

(* Every text of one or two bytes 1 and 2, one of three, and one that is   *)
(* not ASCII, in the order of strcmp.                                      *)
MCNames == <<<<1>>, <<1, 1>>, <<1, 2>>, <<2>>, <<2, 1>>, <<2, 2>>, <<2, 2, 2>>, <<3>>>>
MCContracts ==
    [c |-> <<1>>, d |-> <<2>>, cc |-> <<1, 1>>, cd |-> <<1, 2>>, dc |-> <<2, 1>>, dd |-> <<2, 2>>, long |-> <<1, 1, 1>>]

(* A number a little or much too small or large.                           *)
Other(n) == {n - 1, n + 1, n + 2, n + 1000} \cap Nat

(* One field or one byte of a file is another, or its end is missing or    *)
(* has grown, and its size says so or not.                                 *)
MCDamaged(f) ==
    {[f EXCEPT !.fixed.version = 2]}
    \cup UNION {{[f EXCEPT ![x] = n] : n \in Other(f[x])} :
                  x \in {"target", "entry", "symbolCount", "relocCount", "symbolsAt", "relocsAt",
                         "stringsAt", "strings", "payload", "size"}}
    \cup UNION {{[f EXCEPT !.table[k].size = n] : n \in Other(f.table[k].size)}
                \cup {[f EXCEPT !.table[k].at = n] : n \in Other(f.table[k].at)}
                \cup {[f EXCEPT !.table[k].fixed.permissions = 7]} : k \in Sections}
    \cup UNION {UNION {{[f EXCEPT !.symbols[j][x] = n] : n \in Other(f.symbols[j][x])} :
                         x \in {"name", "nameLength", "section", "offset", "size", "contract",
                                "contractLength", "version", "reserved"}}
                \cup {[f EXCEPT !.symbols[j].flags = SymDiff(@, {x})] :
                         x \in {"function", "variable", "import", "export", "16"}} : j \in DOMAIN f.symbols}
    \cup UNION {UNION {{[f EXCEPT !.relocs[j][x] = n] : n \in Other(f.relocs[j][x])} :
                         x \in {"section", "offset", "target", "addend", "reserved"}}
                \cup {[f EXCEPT !.relocs[j].kind = x] : x \in {"REL32", "DIR64", "3"}} : j \in DOMAIN f.relocs}
    \cup {[f EXCEPT !.bytes[x] = b] : x \in DOMAIN f.bytes, b \in 0 .. 3}
    \cup {[f EXCEPT !.length = n, !.size = IF told THEN n ELSE @,
                    !.bytes = [x \in f.stringsAt .. n - 1 |-> IF x \in DOMAIN f.bytes THEN f.bytes[x] ELSE 0]] :
             n \in {f.length - 1, f.length + 1}, told \in BOOLEAN}
-----------------------------------------------------------------------------

Image ==
    INSTANCE PeImage WITH Inputs <- Images, MAX_FILE <- IMAGE_FILE, pc <- step, error <- failure

File ==
    INSTANCE ObjectFile WITH
        Inputs <- Files, MAX_FILE <- FILE_LIMIT, at <- taken, pc <- turn

P == INSTANCE MCPrograms

Program ==
    INSTANCE ProgramImage WITH
        Programs <- P!Programs, Qualified <- P!Qualified, TooLong <- {24}, Oversized <- {"long"}, MAIN <- 2,
        MAX_FILE <- IMAGE_FILE,
        object <- compiled, blocks <- heap, verdict <- outcome, pc <- phase

Field ==
    INSTANCE RelocationValue WITH
        IMAGE_BASE <- FIELD_BASE, REACH <- FIELD_REACH, WORD <- FIELD_WORD, RVA_LIMIT <- FIELD_LIMIT,
        kind <- fieldKind, target <- goal, addend <- constant, t <- total, pc <- stage

Stub ==
    INSTANCE InterruptStub WITH
        Tables <- StubTables, TOP <- STACK, MAX_FAULTS <- FAULTS,
        read <- entries, regs <- processor, mem <- stack, at <- next, status <- mode

ASSUME ImageAssumption == Image!PeAssumption /\ Image!RelocationAssumption
ASSUME FileAssumption == File!FileAssumption /\ FILE_LIMIT \in Nat
ASSUME ProgramAssumption == Program!ProgramAssumption /\ Program!RelocationAssumption
ASSUME FieldAssumption == Field!LimitAssumption /\ Field!RelocationAssumption
ASSUME StubAssumption == Stub!StubAssumption

AnUnit == objects = <<Bare>> /\ output = EmptyObject
SomeImage == CHOOSE o \in Images : TRUE
AnImage == object = SomeImage
AFile == File!Init /\ file = File!NoFile /\ read = File!Unread
Idle == artifact = Image!None /\ image = Image!NoImage /\ step = "materialize" /\ site = 1 /\ held = {} /\ failure = "none"
AProgram ==
    /\ program = P!Alone /\ direct = Program!NoArtifact /\ compiled = Program!Vacant /\ code = Program!NoCode
    /\ named = 0 /\ heap = {} /\ outcome = "none" /\ phase = "assemble"
AField == fieldKind = "REL32" /\ source = 0 /\ goal = 0 /\ constant = 0

SomeTable == CHOOSE t \in StubTables : TRUE
AStub == table = SomeTable /\ Stub!Init /\ processor.rsp = STACK - 2

MCInit ==
    \/ /\ \/ machine = "link" /\ AnImage /\ AField /\ AStub
          \/ machine = "image" /\ AnUnit /\ AField /\ AStub
          \/ machine = "field" /\ AnUnit /\ AnImage /\ AStub
          \/ machine = "stubs" /\ AnUnit /\ AnImage /\ AField
       /\ Init /\ Image!Init /\ AFile /\ AProgram /\ Field!Init /\ Stub!Init
    \/ /\ machine = "file" /\ AnUnit /\ AField /\ object \in Files
       /\ Init /\ Idle /\ File!Init /\ AProgram /\ Field!Init /\ AStub
    \/ /\ machine = "program" /\ AnUnit /\ AnImage /\ AField
       /\ Init /\ Idle /\ AFile /\ Program!Init /\ Field!Init /\ AStub

(* The linked program is what nt_object_materialize is called with, and    *)
(* what was linked of the units may be kept in a file.                     *)
HandOver ==
    /\ machine = "link" /\ pc = "done" /\ Linked
    /\ \/ machine' = "image" /\ output.entry # 0
       \/ machine' = "file" /\ phase # "done"
    /\ object' = output
    /\ UNCHANGED <<vars, artifact, image, step, site, held, failure, fileVars, programVars, fieldVars, stubVars>>

(* An object made of a program is written, read and linked, alone; the     *)
(* writer refuses one that is not valid.  The repository's test            *)
(* materializes it at once.                                                *)
Compiled ==
    /\ machine = "program" /\ phase = "done" /\ Valid(compiled)
    /\ \/ machine' = "link" /\ objects' = <<compiled>> /\ UNCHANGED object
       \/ machine' = "image" /\ object' = compiled /\ UNCHANGED objects
    /\ UNCHANGED <<output, pc, unit, bases, totals, order, map, result, live, error>>
    /\ UNCHANGED <<artifact, image, step, site, held, failure, fileVars, programVars, fieldVars, stubVars>>

MCNext ==
    \/ machine = "link" /\ Next /\ UNCHANGED <<machine, imageVars, fileVars, programVars, fieldVars, stubVars>>
    \/ HandOver
    \/ machine = "image" /\ Image!Next /\ UNCHANGED <<machine, vars, fileVars, programVars, fieldVars, stubVars>>
    \/ machine = "file" /\ File!Next
       /\ UNCHANGED <<machine, vars, artifact, image, step, site, held, failure, programVars, fieldVars, stubVars>>
    \/ machine = "program" /\ Program!Next /\ UNCHANGED <<machine, vars, imageVars, fileVars, fieldVars, stubVars>>
    \/ Compiled
    \/ machine = "field" /\ Field!Next /\ UNCHANGED <<machine, vars, imageVars, fileVars, programVars, stubVars>>
    \/ machine = "stubs" /\ Stub!Next /\ UNCHANGED <<machine, vars, imageVars, fileVars, programVars, fieldVars>>

MCSpec == MCInit /\ [][MCNext]_<<machine, vars, imageVars, fileVars, programVars, fieldVars, stubVars>>

-----------------------------------------------------------------------------

(* LoadsAsLinked of PeImage: loaded anywhere, the program means what the   *)
(* linked object meant.                                                    *)
LoadsAsLinked == machine = "image" => Image!LoadsAsLinked

(* What is written is read back.  WrittenAndRead of PeImage: the writer    *)
(* refuses nothing that was materialized, and the reader nothing that was  *)
(* written.  KeptOrRefused of ObjectFile: an object file is read as the    *)
(* object it was made of, a damaged one only if it is the file of some     *)
(* object, and a read that fails holds nothing.                            *)
WrittenAndRead ==
    /\ machine = "image" => Image!WrittenAndRead
    /\ machine = "file" => File!KeptOrRefused

(* A program becomes the same artifact by way of an object, materialized   *)
(* at once or linked alone, as when it is assembled; what assembles is     *)
(* refused on that way only when memory runs out or the target has no PE   *)
(* images.  And Made of ProgramImage: the object is valid unless qualified *)
(* names clash, and nothing is left on the heap but what it owns.          *)
AssembledAlike ==
    /\ machine = "program" => Program!Made
    /\ machine = "image" /\ phase = "done" =>
          /\ step = "make_pe" => Program!SameArtifact(artifact)
          /\ step = "failed" /\ failure # "allocation" =>
                ~ direct.ok \/ program.targets[1] = 2

(* Exact of RelocationValue: the field computed in words of limited width  *)
(* is the integer without bound, or does not fit.                          *)
Exact == machine = "field" => Field!Exact

(* Resumes of InterruptStub: a program that faults goes on two bytes       *)
(* further with registers, flags and stack unchanged.                      *)
StubsResume == machine = "stubs" => Stub!Resumes
=============================================================================
