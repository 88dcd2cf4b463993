----------------------------- MODULE ObjectLink ------------------------------
(***************************************************************************)
(* nt_object_link (bootstrap/quarantine/c/object_link.c): placing the      *)
(* sections of several objects, resolving their imports against each       *)
(* other's exports and rewriting their relocations.  Any allocation may    *)
(* fail.  Heap blocks are followed by name, as what each path releases is  *)
(* half of what the function has to get right.                             *)
(***************************************************************************)
EXTENDS NxoObject

CONSTANTS
    Arguments,  \* the sequences of objects nt_object_link is called with
    Previous,   \* what the output argument may hold
    MAX_UNITS,  \* objects in one link (64)
    LINK_BYTES  \* bytes of a linked object (64 MiB, as MAX_FILE)

ASSUME LinkAssumption == MAX_UNITS \in Nat /\ LINK_BYTES \in 0 .. MAX_FILE

ASSUME ArgumentsAssumption == Arguments \subseteq Seq(Objects)

VARIABLES
    objects,  \* the argument
    output,   \* *output
    pc,
    unit,     \* i, the object a loop is at
    bases,    \* bases[i][k]
    totals,   \* totals[k]
    order,    \* the definitions, as <<unit, index>>, sorted by name
    map,      \* from each unit's symbols to the linked ones, 0 when unset
    result,   \* the object being built
    live,     \* heap blocks allocated and not freed
    error     \* the diagnostic, "none" while there is none

vars == <<objects, output, pc, unit, bases, totals, order, map, result, live, error>>

SymbolsOf(i) == objects[i].symbols
RelocsOf(i) == objects[i].relocs

AllSymbols == UNION {{i} \X DOMAIN SymbolsOf(i) : i \in DOMAIN objects}
AllRelocs == UNION {{i} \X DOMAIN RelocsOf(i) : i \in DOMAIN objects}
Symbol(d) == SymbolsOf(d[1])[d[2]]
Definitions == {d \in AllSymbols : ~ Symbol(d).import}

(* Blocks of the heap: two scratch arrays, and what a linked object owns.  *)
Scratch == {<<"order">>, <<"map">>}
Tables == {<<"symbols">>, <<"relocations">>}
SectionBlocks(ks) == {<<"section", k>> : k \in {m \in ks : totals[m] > 0}}
Texts(js) == {"name", "contract"} \X js

Init ==
    /\ objects \in Arguments
    /\ output \in Previous
    /\ pc = "start"
    /\ unit = 1
    /\ bases = <<>>
    /\ totals = [k \in Sections |-> 0]
    /\ order = <<>>
    /\ map = <<>>
    /\ result = EmptyObject
    /\ live = {}
    /\ error = "none"

Fail(message, label) == error' = message /\ pc' = label

-----------------------------------------------------------------------------

(* The arguments: 1 to MAX_UNITS objects, an empty output.                 *)
Start ==
    /\ pc = "start"
    /\ IF objects = <<>> \/ Len(objects) > MAX_UNITS
       THEN Fail("invalid link unit count", "done")
       ELSE IF output # EmptyObject
       THEN Fail("link output must be empty", "done")
       ELSE pc' = "place" /\ UNCHANGED error
    /\ UNCHANGED <<objects, output, unit, bases, totals, order, map, result, live>>

(* What the first loop demands of a unit, given those before it.           *)
Admissible(i) ==
    /\ Valid(objects[i])
    /\ objects[i].target = objects[1].target
    /\ Cardinality({n \in 1 .. i : objects[n].entry # 0}) <= 1
    /\ Cardinality({d \in AllSymbols : d[1] <= i}) <= MAX_SYMBOLS
    /\ Cardinality({d \in AllRelocs : d[1] <= i}) <= MAX_RELOCS
    /\ \A k \in Sections : Span(Aligned(totals[k]), Size(objects[i], k), LINK_BYTES)

(* The first loop: check a unit and place its sections behind the others'. *)
Place ==
    /\ pc = "place"
    /\ unit <= Len(objects)
    /\ IF ~ Admissible(unit)
       THEN Fail("unit", "done") /\ UNCHANGED <<bases, totals, unit>>
       ELSE /\ bases' = Append(bases, [k \in Sections |-> Aligned(totals[k])])
            /\ totals' = [k \in Sections |-> Aligned(totals[k]) + Size(objects[unit], k)]
            /\ unit' = unit + 1
            /\ UNCHANGED <<pc, error>>
    /\ UNCHANGED <<objects, output, order, map, result, live>>

Placed ==
    /\ pc = "place"
    /\ unit > Len(objects)
    /\ IF totals[TEXT] + totals[RDATA] + totals[DATA] > LINK_BYTES
       THEN Fail("linked payload limit", "done")
       ELSE pc' = "allocate" /\ UNCHANGED error
    /\ UNCHANGED <<objects, output, unit, bases, totals, order, map, result, live>>

(* The arrays, then the sections.  Of the first two pairs both are         *)
(* requested before either is looked at.                                   *)
Allocate ==
    /\ pc = "allocate"
    /\ \/ \E got \in (SUBSET Scratch) \ {Scratch} :
             live' = got /\ Fail("link allocation failed", "discard")
       \/ \E got \in (SUBSET Tables) \ {Tables} :
             live' = Scratch \cup got /\ Fail("link allocation failed", "discard")
       \/ \E m \in {k \in Sections : totals[k] > 0} :
             /\ live' = Scratch \cup Tables \cup SectionBlocks(1 .. m - 1)
             /\ Fail("link allocation failed", "discard")
       \/ /\ live' = Scratch \cup Tables \cup SectionBlocks(Sections)
          /\ pc' = "copy" /\ UNCHANGED error
    /\ UNCHANGED <<objects, output, unit, bases, totals, order, map, result>>

(* The byte at place x of the linked section k: a unit's, or zero padding. *)
ByteAt(k, x) ==
    LET from == {i \in DOMAIN objects :
                     x > bases[i][k] /\ x <= bases[i][k] + Size(objects[i], k)}
    IN  IF from = {} THEN 0
        ELSE LET i == CHOOSE i \in from : TRUE
             IN  objects[i].sections[k][x - bases[i][k]]

(* By name; those of one name, which are refused, in the order of units.   *)
DefinedBefore(e, d) ==
    \/ Symbol(e).name < Symbol(d).name
    \/ Symbol(e).name = Symbol(d).name /\ e[1] < d[1]

(* The sections are copied, the definitions collected and sorted.          *)
Copy ==
    /\ pc = "copy"
    /\ result' = [result EXCEPT
                     !.target = objects[1].target,
                     !.sections = [k \in Sections |->
                                      [x \in 1 .. totals[k] |-> ByteAt(k, x)]]]
    /\ order' = Sorted([d \in Definitions |-> {e \in Definitions : DefinedBefore(e, d)}])
    /\ map' = [d \in AllSymbols |-> 0]
    /\ pc' = "define"
    /\ UNCHANGED <<objects, output, unit, bases, totals, live, error>>

Moved(d) ==
    LET s == Symbol(d) IN [s EXCEPT !.offset = @ + bases[d[1]][s.section]]

(* One definition becomes a symbol of the result.  Its name and contract   *)
(* are both copied before either copy is looked at.                        *)
Define ==
    LET n == Len(result.symbols) + 1 IN
    /\ pc = "define"
    /\ n <= Len(order)
    /\ IF n > 1 /\ Symbol(order[n - 1]).name = Symbol(order[n]).name
       THEN Fail("duplicate symbol definition", "discard") /\ UNCHANGED <<live, result, map>>
       ELSE \/ \E got \in (SUBSET Texts({n})) \ {Texts({n})} :
                  /\ live' = live \cup got
                  /\ Fail("link allocation failed", "discard")
                  /\ UNCHANGED <<result, map>>
            \/ /\ live' = live \cup Texts({n})
               /\ result' = [result EXCEPT !.symbols = Append(@, Moved(order[n]))]
               /\ map' = [map EXCEPT ![order[n]] = n]
               /\ UNCHANGED <<pc, error>>
    /\ UNCHANGED <<objects, output, unit, bases, totals, order>>

Defined ==
    /\ pc = "define"
    /\ Len(result.symbols) = Len(order)
    /\ pc' = "resolve"
    /\ unit' = 1
    /\ UNCHANGED <<objects, output, bases, totals, order, map, result, live, error>>

(* find: the place of a name among the linked symbols, 0 when not there.   *)
Find(name) ==
    LET at == {n \in DOMAIN result.symbols : result.symbols[n].name = name}
    IN  IF at = {} THEN 0 ELSE CHOOSE n \in at : TRUE

(* Whether an import of a unit is met by the linked symbol of its name.    *)
Exported(s) == Find(s.name) # 0 /\ result.symbols[Find(s.name)].export
Matches(s) ==
    LET d == result.symbols[Find(s.name)] IN s.kind = d.kind /\ s.contract = d.contract

ImportsOf(i) == {j \in DOMAIN SymbolsOf(i) : SymbolsOf(i)[j].import}

(* The unit's imports are mapped, and its entry becomes the result's.      *)
Mapped(i) ==
    /\ map' = [d \in AllSymbols |->
                  IF d[1] = i /\ d[2] \in ImportsOf(i) THEN Find(Symbol(d).name) ELSE map[d]]
    /\ result' = [result EXCEPT
                     !.entry = IF objects[i].entry # 0 THEN map'[<<i, objects[i].entry>>] ELSE @]
    /\ unit' = i + 1

(* The imports of one unit.                                                *)
Resolve ==
    /\ pc = "resolve"
    /\ unit <= Len(objects)
    /\ IF \E j \in ImportsOf(unit) : ~ Exported(SymbolsOf(unit)[j])
       THEN Fail("unresolved import or definition not exported", "discard")
            /\ UNCHANGED <<map, result, unit>>
       ELSE IF \E j \in ImportsOf(unit) : ~ Matches(SymbolsOf(unit)[j])
       THEN Fail("import kind or canonical contract mismatch", "discard")
            /\ UNCHANGED <<map, result, unit>>
       ELSE Mapped(unit) /\ UNCHANGED <<pc, error>>
    /\ UNCHANGED <<objects, output, bases, totals, order, live>>

(* Where a relocation goes when its section of the unit begins at base.    *)
MovedReloc(d, base) ==
    LET r == RelocsOf(d[1])[d[2]] IN
    [r EXCEPT !.offset = @ + base, !.target = map[<<d[1], @>>]]

SiteBefore(r, s) == r.section < s.section \/ (r.section = s.section /\ r.offset < s.offset)
SameSite(r, s) == r.section = s.section /\ r.offset = s.offset

(* Mutant: the relocations stay as they were moved, unit by unit.          *)
InSiteOrder_Units(moved) ==
    LET sites == Sorted([d \in AllRelocs |->
                    {e \in AllRelocs : e[1] < d[1] \/ (e[1] = d[1] /\ e[2] < d[2])}])
    IN  [n \in DOMAIN sites |-> moved[sites[n]]]

(* The relocations as moved, in the order of their sites, then of units.   *)
InSiteOrder(moved) ==
    LET sites ==
            Sorted([d \in AllRelocs |->
                       {e \in AllRelocs : \/ SiteBefore(moved[e], moved[d])
                                          \/ SameSite(moved[e], moved[d]) /\ e[1] < d[1]}])
    IN  [n \in DOMAIN sites |-> moved[sites[n]]]

(* Mutant: every site moves with its unit's code.                          *)
Relocate_ByText ==
    /\ pc = "resolve"
    /\ unit > Len(objects)
    /\ result' = [result EXCEPT !.relocs =
                      InSiteOrder([d \in AllRelocs |-> MovedReloc(d, bases[d[1]][TEXT])])]
    /\ pc' = "validate"
    /\ UNCHANGED <<objects, output, unit, bases, totals, order, map, live, error>>

(* All relocations move with their section and name the linked symbol.     *)
Relocate ==
    /\ pc = "resolve"
    /\ unit > Len(objects)
    /\ result' = [result EXCEPT !.relocs =
                      InSiteOrder([d \in AllRelocs |->
                          MovedReloc(d, bases[d[1]][RelocsOf(d[1])[d[2]].section])])]
    /\ pc' = "validate"
    /\ UNCHANGED <<objects, output, unit, bases, totals, order, map, live, error>>

(* The last check, and the result is handed over.                          *)
Finish ==
    /\ pc = "validate"
    /\ IF ~ Valid(result)
       THEN Fail("result", "discard") /\ UNCHANGED <<output, live>>
       ELSE /\ live' = live \ Scratch
            /\ output' = result
            /\ pc' = "done"
            /\ UNCHANGED error
    /\ UNCHANGED <<objects, unit, bases, totals, order, map, result>>

(* Mutant: the result is released before its symbols are counted.          *)
Discard_FinishedTextsOnly ==
    /\ pc = "discard"
    /\ live' = live \ (Scratch \cup Tables \cup SectionBlocks(Sections)
                       \cup Texts(DOMAIN result.symbols))
    /\ pc' = "done"
    /\ result' = EmptyObject
    /\ UNCHANGED <<objects, output, unit, bases, totals, order, map, error>>

(* The labels oom and invalid: the scratch arrays and, by nt_object_free,  *)
(* all of the result are freed.                                            *)
Discard ==
    /\ pc = "discard"
    /\ live' = live \ (Scratch \cup Tables \cup SectionBlocks(Sections)
                       \cup Texts(DOMAIN order))
    /\ pc' = "done"
    /\ result' = EmptyObject
    /\ UNCHANGED <<objects, output, unit, bases, totals, order, map, error>>

Next == \/ Start \/ Place \/ Placed \/ Allocate \/ Copy \/ Define \/ Defined
        \/ Resolve \/ Relocate \/ Finish \/ Discard
        \/ (pc = "done" /\ UNCHANGED vars)

(* A call runs to its end.                                                 *)
Spec == Init /\ [][Next]_vars /\ WF_vars(Next)

-----------------------------------------------------------------------------

Linked == pc = "done" /\ error = "none"

(* The scratch arrays never outlive the call, a failed call leaves no      *)
(* block, and the caller owns what a linked object is made of.             *)
NothingLeaks ==
    pc = "done" =>
        live = IF Linked
               THEN Tables \cup SectionBlocks(Sections) \cup Texts(DOMAIN output.symbols)
               ELSE {}

(* What makes a link possible, whatever the order of the units: nobody     *)
(* defines a name twice, privately or not, and each import finds one       *)
(* exported definition of its kind and contract.                           *)
Linkable(objs) ==
    LET symbols == UNION {{<<i, j>> : j \in DOMAIN objs[i].symbols} : i \in DOMAIN objs}
        Sym(d) == objs[d[1]].symbols[d[2]]
        defined == {d \in symbols : ~ Sym(d).import}
    IN  /\ \A i \in DOMAIN objs : Valid(objs[i])
        /\ Cardinality({objs[i].target : i \in DOMAIN objs}) = 1
        /\ Cardinality({i \in DOMAIN objs : objs[i].entry # 0}) <= 1
        /\ \A d, e \in defined : Sym(d).name = Sym(e).name => d = e
        /\ \A d \in symbols \ defined : \E e \in defined :
               /\ Sym(e).export
               /\ <<Sym(e).name, Sym(e).kind, Sym(e).contract>>
                    = <<Sym(d).name, Sym(d).kind, Sym(d).contract>>

OverLimit ==
    \/ Cardinality(AllSymbols) > MAX_SYMBOLS
    \/ Cardinality(AllRelocs) > MAX_RELOCS
    \/ \E k \in Sections : Aligned(totals[k]) + Size(objects[unit], k) > LINK_BYTES

(* The only things that stop units that can be linked: the arguments, a    *)
(* limit, an allocation.                                                   *)
Excused ==
    \/ Len(objects) \notin 1 .. MAX_UNITS \/ output # EmptyObject
    \/ error = "unit" /\ OverLimit
    \/ totals[TEXT] + totals[RDATA] + totals[DATA] > LINK_BYTES
    \/ error = "link allocation failed"

(* Whatever is linked could be, and what can be linked is, unless excused. *)
(* So the check of the result at the end never refuses: what was merged,   *)
(* moved and sorted of valid units is a valid object.                      *)
SucceedsExactly ==
    pc = "done" =>
        /\ Linked => Linkable(objects)
        /\ Linkable(objects) => Linked \/ Excused

(* Every unit's bytes are where its sites say they are, and every site of  *)
(* every unit is in the output, naming the definition its own symbol       *)
(* names: the unit's, or the exported one with the import's contract; and  *)
(* the program starts at the function its one executable unit names.       *)
SitesReachNames ==
    Linked =>
        /\ IF \A i \in DOMAIN objects : objects[i].entry = 0 THEN output.entry = 0
           ELSE \E i \in DOMAIN objects :
                  /\ objects[i].entry # 0
                  /\ output.symbols[output.entry].name = SymbolsOf(i)[objects[i].entry].name
        /\ Len(output.relocs) = Cardinality(AllRelocs)
        /\ \A i \in DOMAIN objects :
              /\ \A k \in Sections :
                    SubSeq(output.sections[k], bases[i][k] + 1, bases[i][k] + Size(objects[i], k))
                        = objects[i].sections[k]
              /\ \A j \in DOMAIN RelocsOf(i) :
                    LET r == RelocsOf(i)[j]
                        s == SymbolsOf(i)[r.target]
                    IN  \E q \in {output.relocs[n] : n \in DOMAIN output.relocs} :
                          LET d == output.symbols[q.target] IN
                          /\ q.section = r.section /\ q.offset = r.offset + bases[i][r.section]
                          /\ q.kind = r.kind /\ q.addend = r.addend
                          /\ d.name = s.name /\ d.contract = s.contract /\ d.kind = s.kind
                          /\ IF s.import THEN d.export
                             ELSE d.offset = s.offset + bases[i][s.section]

=============================================================================
