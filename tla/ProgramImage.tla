---------------------------- MODULE ProgramImage ----------------------------
(***************************************************************************)
(* What becomes of the parts of a verified NTASM program: the generator    *)
(* gives data and functions their places, with a symbol for each and a     *)
(* relocation for each reference (codegen.c, generate, emit_static_data);  *)
(* nt_object_compile makes an object of that (object_build.c), any         *)
(* allocation failing; nt_compile_many makes an artifact of it at once     *)
(* (ntasm.c).  An instruction is an opcode, a field and what follows the   *)
(* field; a datum has a byte at least.  Bytes are as in PeImage: <<b>>, or *)
(* <<"field", value, n>>.                                                  *)
(***************************************************************************)
EXTENDS Relocation, SequencesExt

CONSTANTS
    Programs,
    Qualified(_, _),  \* "module.name", as the number of a name
    TooLong,          \* qualified names of more than 512 bytes
    Oversized,        \* contracts of more than 64 KiB
    MAIN,             \* the name "main"
    PAGE              \* 4096

ProgramAssumption == PAGE \in Nat \ {0}

VARIABLES
    program,  \* never changed
    direct,   \* the output of nt_compile_many
    object,   \* the output of nt_object_compile
    code,     \* NtCodeImage
    named,    \* symbols that have their texts
    blocks,   \* heap blocks
    verdict,
    pc

vars == <<program, direct, object, code, named, blocks, verdict, pc>>

Vacant == [target |-> 0, entry |-> 0, sections |-> [k \in Sections |-> <<>>], symbols |-> <<>>, relocs |-> <<>>]
NoCode == [ok |-> FALSE]
NoEntry == -1

UpTo(n, a) == ((n + a - 1) \div a) * a
Least(a, b) == IF a < b THEN a ELSE b

-----------------------------------------------------------------------------
(* The front end: an import names an exported function of a module of the  *)
(* unit, of the same target and with the same contract; only an object may *)
(* leave it open.                                                          *)

Fn(p, f) == p.functions[f]
Imports(p) == {f \in DOMAIN p.functions : Fn(p, f).from # <<>>}

(* The function an import stands for, 0 when it is not in the unit.        *)
Resolved(p, f) ==
    LET exports == {g \in (DOMAIN p.functions \ Imports(p)) :
                       Fn(p, g).exported /\ <<Fn(p, g).module, Fn(p, g).name>> = Fn(p, f).from}
    IN  IF exports = {} THEN 0 ELSE CHOOSE g \in exports : \A h \in exports : g <= h

Open(p) == {f \in Imports(p) : Resolved(p, f) = 0}

Verified(p, objectMode) ==
    \A f \in Imports(p) :
        LET g == Resolved(p, f) IN
        IF g = 0 THEN objectMode
        ELSE /\ p.targets[Fn(p, f).module] = p.targets[Fn(p, g).module]
             /\ Fn(p, f).contract = Fn(p, g).contract

-----------------------------------------------------------------------------
(* The generator.                                                          *)

New(p) ==
    [ok |-> TRUE, sections |-> [k \in Sections |-> <<>>], symbols |-> <<>>, relocs |-> <<>>, jumps |-> <<>>,
     function |-> [f \in DOMAIN p.functions |-> 0], data |-> [v \in DOMAIN p.variables |-> 0], entry |-> NoEntry]

Cells(bytes) == [x \in DOMAIN bytes |-> <<bytes[x]>>]
Zeros(n) == [x \in 1 .. n |-> <<0>>]

Put(g, k, cells) == [g EXCEPT !.sections[k] = @ \o cells]
AddSymbol(g, id, kind, module, name, section, offset, size) ==
    [g EXCEPT !.symbols = Append(@, [id |-> id, kind |-> kind, module |-> module, name |-> name,
                                     section |-> section, offset |-> offset, size |-> size])]
AddReloc(g, section, kind, to, id, addend) ==
    [g EXCEPT !.relocs = Append(@, [section |-> section, kind |-> kind, offset |-> Len(g.sections[section]),
                                    to |-> to, id |-> id, addend |-> addend])]

(* function_before, data_before: module, name, number.                     *)
Before(a, b, i, j) ==
    \/ a.module < b.module
    \/ a.module = b.module /\ (a.name < b.name \/ (a.name = b.name /\ i < j))

Functions(p) ==
    SetToSortSeq(DOMAIN p.functions \ Imports(p), LAMBDA i, j : Before(Fn(p, i), Fn(p, j), i, j))
Variables(p) ==
    SetToSortSeq(DOMAIN p.variables, LAMBDA i, j : Before(p.variables[i], p.variables[j], i, j))

(* An import that stays open: a symbol without a place, of the module and  *)
(* the name it imports.                                                    *)
EmitImport(p, g, f) == AddSymbol(g, f, "function", Fn(p, f).from[1], Fn(p, f).from[2], 0, 0, 0)

DataWidth(v) == IF v.to # 0 THEN W64 ELSE Len(v.bytes)

(* emit_static_data, one datum: padding, a relocation for an address, the  *)
(* bytes, a symbol.                                                        *)
EmitData(p, g, n) ==
    LET v == p.variables[n]
        size == Len(g.sections[v.section])
        at == UpTo(size, Least(DataWidth(v), W64))
        placed == [Put(g, v.section, Zeros(at - size)) EXCEPT !.data[n] = at]
        pointing == IF v.to # 0 THEN AddReloc(placed, v.section, "DIR64", "variable", v.to, v.addend) ELSE placed
        filled == Put(pointing, v.section, IF v.to # 0 THEN Zeros(W64) ELSE Cells(v.bytes))
    IN  AddSymbol(filled, n, "variable", v.module, v.name, v.section, at, DataWidth(v))

(* The function a call of f goes to.                                       *)
Target(p, f) == IF f \in Imports(p) /\ Resolved(p, f) # 0 THEN Resolved(p, f) ELSE f

(* One instruction: a call, an address or operand in static data, a jump   *)
(* to the n-th instruction of the function, or any other.                  *)
EmitItem(p, f, g, i) ==
    LET opened == Put(g, TEXT, <<<<i.code>>>>)
        field(h) == Put(h, TEXT, Zeros(W32))
    IN  CASE i.op = "call" -> field(AddReloc(opened, TEXT, "REL32", "function", Target(p, i.to), 0))
          [] i.op = "data" -> Put(field(AddReloc(opened, TEXT, "REL32", "variable", i.to, i.addend - Len(i.tail))),
                                  TEXT, Cells(i.tail))
          [] i.op = "jump" -> field([opened EXCEPT !.jumps = Append(@, [at |-> Len(opened.sections[TEXT]), f |-> f, to |-> i.to])])
          [] i.op = "other" -> opened

EmitFunction(p, g, f) ==
    LET start == Len(g.sections[TEXT])
        body == FoldLeft(LAMBDA h, i : EmitItem(p, f, h, i), [g EXCEPT !.function[f] = start], Fn(p, f).code)
    IN  AddSymbol(body, f, "function", Fn(p, f).module, Fn(p, f).name, TEXT, start, Len(body.sections[TEXT]) - start)

Emitted(p) ==
    LET imports == FoldLeft(LAMBDA g, f : EmitImport(p, g, f), New(p), SetToSortSeq(Open(p), LAMBDA i, j : i < j))
        data == FoldLeft(LAMBDA g, v : EmitData(p, g, v), imports, Variables(p))
    IN  FoldLeft(LAMBDA g, f : EmitFunction(p, g, f), data, Functions(p))

(* Offset of the n-th instruction of f (statement_offsets).                *)
Length(i) == 1 + (IF i.op = "other" THEN 0 ELSE W32) + (IF i.op = "data" THEN Len(i.tail) ELSE 0)
LabelAt(p, g, f, n) == FoldLeft(LAMBDA at, i : at + Length(i), g.function[f], SubSeq(Fn(p, f).code, 1, n - 1))

(* rdata_base + 8 and data_base.                                           *)
Base(g, k) ==
    LET rdata == UpTo(Len(g.sections[TEXT]), PAGE)
    IN  IF k = RDATA THEN rdata + W64 ELSE UpTo(rdata + W64 + Len(g.sections[RDATA]), PAGE)

(* The displacements known at once: calls of the unit's functions, jumps,  *)
(* and data, whose place in a program made of this unit alone is known.    *)
Displacements(p, g) ==
    LET calls == {j \in DOMAIN g.relocs : g.relocs[j].to = "function" /\ g.relocs[j].id \notin Open(p)}
        data == {j \in DOMAIN g.relocs : g.relocs[j].to = "variable" /\ g.relocs[j].kind = "REL32"}
        at(j) == g.relocs[j].offset
    IN  {[at |-> at(j), value |-> g.function[g.relocs[j].id] - (at(j) + W32)] : j \in calls}
        \cup {[at |-> g.jumps[j].at, value |-> LabelAt(p, g, g.jumps[j].f, g.jumps[j].to) - (g.jumps[j].at + W32)] :
                j \in DOMAIN g.jumps}
        \cup {[at |-> at(j), value |-> Base(g, p.variables[g.relocs[j].id].section) + g.data[g.relocs[j].id]
                                       + g.relocs[j].addend - (at(j) + W32)] : j \in data}

(* put32, put64.                                                           *)
Patched(cells, fields, width) ==
    [x \in DOMAIN cells |->
        LET hit == {d \in fields : x \in d.at + 1 .. d.at + width}
        IN  IF hit = {} THEN cells[x] ELSE LET d == CHOOSE d \in hit : TRUE IN <<"field", d.value, x - d.at>>]

Mains(p) == {f \in DOMAIN p.functions \ Imports(p) : Fn(p, f).exported /\ Fn(p, f).name = MAIN}

(* generate: with one exported main, or none in an object, and every       *)
(* displacement in reach.                                                  *)
Completed(p, g, fields, objectMode) ==
    IF \/ Cardinality(Mains(p)) > 1
       \/ ~ objectMode /\ Mains(p) = {}
       \/ \E d \in fields : ~ FieldFits("REL32", d.value)
    THEN NoCode
    ELSE [g EXCEPT !.sections[TEXT] = Patched(@, fields, W32),
                   !.entry = IF Mains(p) = {} THEN NoEntry ELSE g.function[CHOOSE f \in Mains(p) : TRUE]]

Generated(p, g, objectMode) == Completed(p, g, Displacements(p, g), objectMode)
Generate(p, objectMode) == Generated(p, Emitted(p), objectMode)

-----------------------------------------------------------------------------
(* nt_compile_many: the addresses in data are resolved where the PE image  *)
(* will have them.                                                         *)

NoArtifact == [ok |-> FALSE]

Rva(g, k) == PAGE + (IF k = TEXT THEN 0 ELSE Base(g, k))

(* absolute_relocations.                                                   *)
Absolute(p, g) ==
    LET sites == SelectSeq(g.relocs, LAMBDA r : r.kind = "DIR64")
        value(r) == IMAGE_BASE + Rva(g, p.variables[r.id].section) + g.data[r.id] + r.addend
        fields(k) == {[at |-> r.offset, value |-> value(r)] : r \in {s \in Range(sites) : s.section = k}}
    IN  IF \E r \in Range(sites) : ~ FieldFits("DIR64", value(r)) THEN NoArtifact
        ELSE [ok |-> TRUE,
              sections |-> [k \in Sections |-> Patched(g.sections[k], fields(k), W64)],
              entry |-> g.entry,
              base |-> [j \in DOMAIN sites |-> [section |-> sites[j].section, offset |-> sites[j].offset]]]

ArtifactOf(p, g) == IF g.ok THEN Absolute(p, g) ELSE NoArtifact

Init ==
    /\ program \in Programs
    /\ object \in {Vacant, [Vacant EXCEPT !.target = 2]}
    /\ direct = NoArtifact
    /\ code = NoCode
    /\ named = 0
    /\ blocks = {}
    /\ verdict = "none"
    /\ pc = "assemble"

(* The program is assembled; memory does not run out this time.            *)
Assemble ==
    /\ pc = "assemble"
    /\ direct' = IF Verified(program, FALSE) THEN ArtifactOf(program, Generate(program, FALSE)) ELSE NoArtifact
    /\ pc' = "compile"
    /\ UNCHANGED <<program, object, code, named, blocks, verdict>>

-----------------------------------------------------------------------------
(* nt_object_compile.                                                      *)

(* The end of every path that fails: all is given back.                    *)
Give(message) == verdict' = message /\ pc' = "failed" /\ blocks' = {} /\ object' = Vacant

(* What the generator leaves on the heap.                                  *)
CodeBlocks(g) ==
    {<<"section", k>> : k \in {m \in Sections : g.sections[m] # <<>>}}
    \cup {<<"code symbols">> : j \in DOMAIN g.symbols} \cup {<<"code relocations">> : j \in DOMAIN g.relocs}

Alike(p) == \A m, n \in DOMAIN p.targets : p.targets[m] = p.targets[n]

(* Front end and generator, either of which may run out of memory.         *)
Compile ==
    /\ pc = "compile"
    /\ IF object # Vacant
       THEN verdict' = "output" /\ pc' = "failed" /\ UNCHANGED <<object, code, blocks>>
       ELSE \/ Give("allocation") /\ UNCHANGED code
            \/ ~ Verified(program, TRUE) /\ Give("front end") /\ UNCHANGED code
            \/ Verified(program, TRUE) /\ ~ Alike(program) /\ Give("targets") /\ UNCHANGED code
            \/ /\ Verified(program, TRUE) /\ Alike(program)
               /\ code' = Generate(program, TRUE)
               /\ pc' = "describe"
               /\ UNCHANGED <<object, blocks, verdict>>
    /\ UNCHANGED <<program, direct, named>>

(* The generator's answer, and three arrays about it.                      *)
Describe ==
    /\ pc = "describe"
    /\ \/ ~ code.ok /\ Give("code")
       \/ code.ok /\ (Len(code.symbols) > MAX_SYMBOLS \/ Len(code.relocs) > MAX_RELOCS) /\ Give("limits")
       \/ code.ok /\ Give("allocation")
       \/ /\ code.ok /\ Len(code.symbols) <= MAX_SYMBOLS /\ Len(code.relocs) <= MAX_RELOCS
          /\ blocks' = {<<"program">>, <<"order">>, <<"functions">>, <<"variables">>} \cup CodeBlocks(code)
          /\ pc' = "name"
          /\ UNCHANGED <<object, verdict>>
    /\ UNCHANGED <<program, direct, code, named>>

QualifiedName(s) == Qualified(s.module, s.name)
Contract(s) == IF s.kind = "function" THEN Fn(program, s.id).contract ELSE program.variables[s.id].contract

(* One symbol: its name, then its contract.                                *)
Name ==
    /\ pc = "name" /\ named < Len(code.symbols)
    /\ LET s == code.symbols[named + 1] IN
       \/ QualifiedName(s) \in TooLong /\ Give("name") /\ UNCHANGED named
       \/ QualifiedName(s) \notin TooLong /\ Give("allocation") /\ UNCHANGED named
       \/ QualifiedName(s) \notin TooLong /\ Contract(s) \in Oversized /\ Give("contract") /\ UNCHANGED named
       \/ /\ QualifiedName(s) \notin TooLong /\ Contract(s) \notin Oversized
          /\ named' = named + 1
          /\ blocks' = blocks \cup {<<"name", named'>>, <<"contract", named'>>}
          /\ UNCHANGED <<object, verdict, pc>>
    /\ UNCHANGED <<program, direct, code>>

ObjectSymbol(s) ==
    [name |-> QualifiedName(s), contract |-> Contract(s), section |-> s.section, kind |-> s.kind,
     import |-> s.kind = "function" /\ s.id \in Open(program),
     export |-> IF s.kind = "function" THEN Fn(program, s.id).exported ELSE program.variables[s.id].exported,
     offset |-> s.offset, size |-> s.size]

(* qsort leaves equal names in any order.                                  *)
Orders ==
    {q \in SetToSeqs(DOMAIN code.symbols) :
        \A i, j \in DOMAIN q : i < j => QualifiedName(code.symbols[q[i]]) <= QualifiedName(code.symbols[q[j]])}

(* A byte of a field the generator filled in: a digit of its value.        *)
Byte(cell) == IF Len(cell) = 1 THEN cell[1] ELSE (cell[2] \div 256 ^ (cell[3] - 1)) % 256

(* Mutant: relocations keep the numbers of the generator's table.          *)
Position_Unsorted(q, to, id) ==
    CHOOSE n \in DOMAIN q : code.symbols[n].kind = to /\ code.symbols[n].id = id

(* functions[], variables[]: the place of a symbol in the sorted table.    *)
Position(q, to, id) ==
    CHOOSE n \in DOMAIN q : code.symbols[q[n]].kind = to /\ code.symbols[q[n]].id = id

(* Sorted symbols, the entry, sorted relocations with the new numbers, the *)
(* sections; what the object does not own is freed.                        *)
Finish ==
    /\ pc = "name" /\ named = Len(code.symbols)
    /\ \/ Give("allocation")
       \/ \E q \in Orders :
            /\ object' =
                 [target |-> program.targets[1],
                  entry |-> IF code.entry = NoEntry THEN 0
                            ELSE Position(q, "function", CHOOSE f \in Mains(program) : TRUE),
                  sections |-> [k \in Sections |-> [x \in DOMAIN code.sections[k] |-> Byte(code.sections[k][x])]],
                  symbols |-> [n \in DOMAIN q |-> ObjectSymbol(code.symbols[q[n]])],
                  relocs |-> SortSeq([j \in DOMAIN code.relocs |->
                                 LET r == code.relocs[j] IN
                                 [section |-> r.section, kind |-> r.kind, target |-> Position(q, r.to, r.id),
                                  offset |-> r.offset, addend |-> r.addend]],
                                 LAMBDA r, s : r.section < s.section \/ (r.section = s.section /\ r.offset < s.offset))]
            /\ blocks' = {b \in blocks : b[1] \in {"section", "name", "contract"}} \cup {<<"symbols">>, <<"relocations">>}
            /\ pc' = "done"
            /\ UNCHANGED verdict
    /\ UNCHANGED <<program, direct, code, named>>

Stopped == pc \in {"failed", "done"} /\ UNCHANGED vars

Next == Assemble \/ Compile \/ Describe \/ Name \/ Finish \/ Stopped

-----------------------------------------------------------------------------

Distinct(o) == \A i, j \in DOMAIN o.symbols : o.symbols[i].name = o.symbols[j].name => i = j

(* An object that is made is valid unless two of its symbols have one      *)
(* qualified name, and owns what is left of the heap; one that is not made *)
(* leaves nothing.  What assembles at once can be made an object of,       *)
(* unless a name or a contract is too long for one.                        *)
Made ==
    /\ pc = "done" => /\ Valid(object) <=> Distinct(object)
                      /\ blocks = {<<"section", k>> : k \in {m \in Sections : object.sections[m] # <<>>}}
                                  \cup {<<"symbols">>, <<"relocations">>}
                                  \cup {"name", "contract"} \X DOMAIN object.symbols
    /\ pc = "failed" => blocks = {} /\ (verdict = "output" \/ object = Vacant)
    /\ pc = "failed" /\ direct.ok => verdict \in {"output", "allocation", "limits", "targets", "name", "contract"}

(* The artifact an object was patched into has the bytes, the entry and    *)
(* the places to adjust of the one made at once.                           *)
SameArtifact(artifact) ==
    LET bytes(a) == [k \in Sections |-> [x \in DOMAIN a.sections[k] |-> Byte(a.sections[k][x])]]
    IN
    /\ direct.ok
    /\ bytes(direct) = bytes(artifact)
    /\ direct.entry = artifact.entry
    /\ Range(direct.base) = Range(artifact.base) /\ Len(direct.base) = Len(artifact.base)
=============================================================================
