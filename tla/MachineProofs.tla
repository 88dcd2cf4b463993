--------------------------- MODULE MachineProofs ----------------------------
(***************************************************************************)
(* The small machines of MCObjects, for every value of their constants:    *)
(* the fields nt_relocation_value computes, in words, images and reaches   *)
(* of every size; interrupt stubs, for any tables, any stack deep enough   *)
(* and any number of faults; and PE images, of any objects and pages.      *)
(*                                                                         *)
(* Fields: the invariant says, one kind of field after the other, what     *)
(* each place of the function knows of its variable; the assumptions say   *)
(* that signed words hold the addresses of an image and the reach of a     *)
(* field, which the sizes of the code do (3 sections of 16 MiB, 2^31 and   *)
(* 2^63).                                                                  *)
(*                                                                         *)
(* Stubs: the invariant says what the stub built for a vector is and, for  *)
(* each of its instructions, where the stack pointer is in the frame of    *)
(* the fault and what of the program is where.                             *)
(*                                                                         *)
(* Images: the invariant says, of the sites the patching loop has passed,  *)
(* what they hold and that the absolute ones are in the table of base      *)
(* relocations, and that every other byte is the object's.  It needs that  *)
(* no two sites overlap though only neighbours are compared (FieldsApart), *)
(* that sections stay apart in memory (LaidOut), and that the blocks of    *)
(* the table hold the places given and no other (BlocksCover).             *)
(* PlacesApart: the base relocations are in the order of their places, so  *)
(* what is distinct and apart in the object is so for the writer.  What    *)
(* qsort leaves of the places is a list from the least (SortedLists), and  *)
(* runs of neighbours in it are the places of a page (RunsArePages).  The  *)
(* reader's checks hold of what was written: the pages of the table ascend *)
(* (BlocksOrdered), its sections are in order and mapped (TableInOrder,    *)
(* PlacesMapped), and it counts each place once (PlacesCounted).           *)
(***************************************************************************)
EXTENDS MCObjects, FiniteSetTheorems, FunctionTheorems, SequenceTheorems, WellFoundedInduction,
        NaturalsInduction, TLAPS

-----------------------------------------------------------------------------
(* Fields.                                                                 *)

FieldTyped ==
    /\ fieldKind \in {"REL32", "DIR64"}
    /\ source \in Field!UInt /\ goal \in Field!UInt /\ constant \in Field!SInt
    /\ total \in Int
    /\ stage \in {"start", "subtract", "range", "value", "fails"}
InImage == source <= FIELD_LIMIT /\ goal <= FIELD_LIMIT
Relative == goal + constant - (source + W32)
Absolutely == FIELD_BASE + goal + constant
Rel32 ==
    fieldKind = "REL32" =>
        /\ total \in Field!SInt
        /\ stage = "start" => total = 0
        /\ stage = "subtract" => total = goal + constant /\ Field!Convertible
        /\ stage = "range" => total = Relative
        /\ stage = "value" => total = Relative /\ -FIELD_REACH <= total /\ total < FIELD_REACH
        /\ stage = "fails" /\ InImage => ~ (-FIELD_REACH <= Relative /\ Relative < FIELD_REACH)
Dir64 ==
    fieldKind = "DIR64" =>
        /\ total \in Field!UInt
        /\ stage \in {"start", "value", "fails"}
        /\ stage = "start" => total = 0
        /\ stage = "value" => total = Absolutely
        /\ stage = "fails" /\ InImage => ~ (0 <= Absolutely /\ Absolutely < FIELD_WORD)
FieldIInv == FieldTyped /\ Rel32 /\ Dir64

(* What the assumptions say of the numbers, without the exponents.         *)
LEMMA WordRange ==
    ASSUME Field!RelocationAssumption, Field!LimitAssumption
    PROVE  /\ FIELD_WORD \in Nat /\ Field!INT_MAX \in Nat /\ 2 * Field!INT_MAX + 2 <= FIELD_WORD
           /\ FIELD_WORD <= 2 * Field!INT_MAX + 3
           /\ W32 \in Nat /\ FIELD_REACH \in Nat \ {0} /\ FIELD_BASE \in Nat
           /\ FIELD_LIMIT \in Nat /\ FIELD_LIMIT + W32 + FIELD_REACH <= Field!INT_MAX
           /\ FIELD_BASE + FIELD_LIMIT < FIELD_WORD /\ FIELD_BASE < FIELD_WORD
<1>1. W32 \in Nat
  BY NxoAssumption
<1>2. FIELD_WORD \in Nat /\ FIELD_REACH \in Nat \ {0} /\ FIELD_BASE \in 0 .. FIELD_WORD - 1
  BY DEF Field!RelocationAssumption
<1>3. FIELD_LIMIT \in Nat /\ FIELD_LIMIT + W32 + FIELD_REACH <= Field!INT_MAX
      /\ FIELD_BASE + FIELD_LIMIT < FIELD_WORD
  BY DEF Field!LimitAssumption
<1>4. Field!INT_MAX \in Int /\ 2 * Field!INT_MAX + 2 <= FIELD_WORD /\ FIELD_WORD <= 2 * Field!INT_MAX + 3
  BY <1>2 DEF Field!INT_MAX
<1> QED
  BY <1>1, <1>2, <1>3, <1>4

(* The ranges of the three operands.                                       *)
LEMMA Numbers ==
    ASSUME Field!RelocationAssumption, Field!LimitAssumption, FieldTyped
    PROVE  /\ source \in Nat /\ source < FIELD_WORD /\ goal \in Nat /\ goal < FIELD_WORD
           /\ constant \in Int /\ -Field!INT_MAX - 1 <= constant /\ constant <= Field!INT_MAX
BY WordRange DEF FieldTyped, Field!UInt, Field!SInt, Field!INT_MIN

(* A value about to be computed is as the invariant says.                  *)
LEMMA FieldInit ==
    ASSUME Field!RelocationAssumption, Field!LimitAssumption, Field!Init
    PROVE  FieldIInv
<1>1. 0 \in Field!SInt /\ 0 \in Field!UInt
  BY WordRange DEF Field!SInt, Field!UInt, Field!INT_MIN
<1> QED
  BY <1>1 DEF Field!Init, FieldIInv, FieldTyped, Rel32, Dir64

(* Every step of the computation keeps the invariant.                      *)
LEMMA FieldStep ==
    ASSUME Field!RelocationAssumption, Field!LimitAssumption, FieldIInv, [Field!Next]_(Field!vars)
    PROVE  FieldIInv'
<1>1. CASE Field!TooFar
  <2>1. ~ InImage
    BY <1>1, WordRange, Numbers DEF Field!TooFar, Field!Convertible, InImage, FieldIInv
  <2> QED
    BY <1>1, <2>1 DEF Field!TooFar, Field!Return, Field!Args, FieldIInv, FieldTyped, Rel32, Dir64, InImage
<1>2. CASE Field!Add
  <2>1. CASE Field!Return("fails")
    <3>1. InImage => ~ (-FIELD_REACH <= Relative /\ Relative < FIELD_REACH)
      BY <1>2, <2>1, WordRange, Numbers DEF Field!Add, Field!Return, Field!INT_MIN, InImage, Relative, FieldIInv,
         Field!Args
    <3> QED
      BY <1>2, <2>1, <3>1 DEF Field!Add, Field!Return, Field!Args, FieldIInv, FieldTyped, Rel32, Dir64, InImage, Relative
  <2>2. CASE total' = goal + constant /\ stage' = "subtract" /\ UNCHANGED Field!Args
             /\ ~ (\/ constant > 0 /\ goal > Field!INT_MAX - constant
                   \/ constant < 0 /\ goal < Field!INT_MIN - constant)
    <3>1. goal + constant \in Field!SInt /\ goal + constant \in Int
      BY <1>2, <2>2, WordRange, Numbers DEF Field!Add, Field!Convertible, Field!SInt, Field!INT_MIN, FieldIInv
    <3> QED
      BY <1>2, <2>2, <3>1 DEF Field!Add, Field!Args, Field!Convertible, FieldIInv, FieldTyped, Rel32, Dir64
  <2> QED
    BY <1>2, <2>1, <2>2 DEF Field!Add
<1>3. CASE Field!Subtract
  <2>0. fieldKind = "REL32" /\ total = goal + constant /\ total \in Field!SInt /\ Field!Convertible
    BY <1>3 DEF Field!Subtract, FieldIInv, Rel32, Dir64, FieldTyped
  <2>1. CASE Field!Return("fails") /\ total < Field!INT_MIN + (source + W32)
    <3>1. ~ (-FIELD_REACH <= Relative /\ Relative < FIELD_REACH)
      BY <2>0, <2>1, WordRange, Numbers DEF Field!INT_MIN, Relative, FieldIInv
    <3> QED
      BY <2>0, <2>1, <3>1 DEF Field!Return, Field!Args, FieldIInv, FieldTyped, Rel32, Dir64, InImage, Relative
  <2>2. CASE /\ ~ (total < Field!INT_MIN + (source + W32))
             /\ total' = total - (source + W32) /\ stage' = "range" /\ UNCHANGED Field!Args
    <3>1. total - (source + W32) = Relative /\ Relative \in Field!SInt /\ Relative \in Int
      BY <2>0, <2>2, WordRange, Numbers DEF Field!INT_MIN, Relative, FieldIInv, Field!SInt
    <3> QED
      BY <2>0, <2>2, <3>1 DEF Field!Args, FieldIInv, FieldTyped, Rel32, Dir64, Relative
  <2> QED
    BY <1>3, <2>1, <2>2 DEF Field!Subtract
<1>4. CASE Field!Range32
  <2>0. fieldKind = "REL32" /\ total = Relative /\ total \in Int /\ total \in Field!SInt
    BY <1>4 DEF Field!Range32, FieldIInv, Rel32, Dir64, FieldTyped
  <2>1. total \in -FIELD_REACH .. FIELD_REACH - 1 <=> -FIELD_REACH <= total /\ total < FIELD_REACH
    BY <2>0, WordRange
  <2> QED
    BY <1>4, <2>0, <2>1
       DEF Field!Range32, Field!Return, Field!Args, FieldIInv, FieldTyped, Rel32, Dir64, InImage, Relative
<1>5. CASE Field!Absolute
  <2>0. fieldKind = "DIR64" /\ stage = "start"
    BY <1>5 DEF Field!Absolute
  <2> DEFINE Over == \/ goal > FIELD_WORD - 1 - FIELD_BASE
                     \/ constant < 0 /\ -(constant + 1) + 1 > FIELD_BASE + goal
                     \/ constant >= 0 /\ constant > FIELD_WORD - 1 - (FIELD_BASE + goal)
  <2>1. CASE Over /\ Field!Return("fails")
    <3>1. InImage => ~ (0 <= Absolutely /\ Absolutely < FIELD_WORD)
      BY <2>1, WordRange, Numbers DEF InImage, Absolutely, FieldIInv
    <3> QED
      BY <2>0, <2>1, <3>1 DEF Field!Return, Field!Args, FieldIInv, FieldTyped, Rel32, Dir64, InImage, Absolutely
  <2>2. CASE ~ Over /\ total' = Absolutely /\ stage' = "value" /\ UNCHANGED Field!Args
    <3>1. Absolutely \in Field!UInt /\ Absolutely \in Int
      BY <2>2, WordRange, Numbers DEF Absolutely, FieldIInv, Field!UInt
    <3> QED
      BY <2>0, <2>2, <3>1 DEF Field!Args, FieldIInv, FieldTyped, Rel32, Dir64, Absolutely
  <2> QED
    BY <1>5, <2>1, <2>2 DEF Field!Absolute, Absolutely
<1>6. CASE UNCHANGED Field!vars
  BY <1>6 DEF Field!vars, FieldIInv, FieldTyped, Rel32, Dir64, Field!Convertible, InImage, Relative, Absolutely
<1> QED
  BY <1>1, <1>2, <1>3, <1>4, <1>5, <1>6 DEF Field!Next

(* The invariant gives the property.                                       *)
LEMMA FieldInvariantExact ==
    ASSUME Field!RelocationAssumption, Field!LimitAssumption, FieldIInv
    PROVE  Field!Exact
<1>1. CASE fieldKind = "REL32"
  <2>1. Relative \in Int /\ Field!FieldValue(fieldKind, source, goal, constant) = Relative
    BY <1>1, WordRange, Numbers DEF FieldIInv, Relative, Field!FieldValue
  <2>2. Field!FieldFits(fieldKind, Relative) <=> -FIELD_REACH <= Relative /\ Relative < FIELD_REACH
    BY <1>1, <2>1, WordRange DEF Field!FieldFits
  <2>3. /\ total \in Field!SInt
        /\ stage = "value" => total = Relative /\ Field!FieldFits(fieldKind, Relative)
        /\ stage = "fails" /\ InImage => ~ Field!FieldFits(fieldKind, Relative)
    BY <1>1, <2>2 DEF FieldIInv, Rel32
  <2> QED
    BY <1>1, <2>1, <2>3 DEF Field!Exact, InImage
<1>2. CASE fieldKind = "DIR64"
  <2>1. Absolutely \in Int /\ Field!FieldValue(fieldKind, source, goal, constant) = Absolutely
    BY <1>2, WordRange, Numbers DEF FieldIInv, Absolutely, Field!FieldValue
  <2>2. Field!FieldFits(fieldKind, Absolutely) <=> 0 <= Absolutely /\ Absolutely < FIELD_WORD
    BY <1>2, <2>1, WordRange DEF Field!FieldFits
  <2>3. total \in Field!UInt => 0 <= total /\ total < FIELD_WORD
    BY WordRange DEF Field!UInt
  <2> QED
    BY <1>2, <2>1, <2>2, <2>3 DEF Field!Exact, FieldIInv, Dir64, InImage
<1> QED
  BY <1>1, <1>2 DEF FieldIInv, FieldTyped

(* On every machine whose words hold an image and the reach of a field,    *)
(* the field is the integer the format demands, and refused, for addresses *)
(* of an image, only when it does not fit.                                 *)
THEOREM FieldExact == MCSpec => []Exact
  <1>0. Field!RelocationAssumption /\ Field!LimitAssumption
    BY FieldAssumption
  <1>1. MCInit => FieldIInv
    BY <1>0, FieldInit DEF MCInit
  <1>2. [MCNext]_<<machine, vars, imageVars, fileVars, programVars, fieldVars, stubVars>>
            => [Field!Next]_(Field!vars)
    BY DEF MCNext, HandOver, Compiled, fieldVars, Field!vars
  <1>3. FieldIInv /\ [Field!Next]_(Field!vars) => FieldIInv'
    BY <1>0, FieldStep
  <1>4. FieldIInv => Exact
    BY <1>0, FieldInvariantExact DEF Exact
  <1>. QED
    BY <1>1, <1>2, <1>3, <1>4, PTL DEF MCSpec

-----------------------------------------------------------------------------
(* Interrupt stubs.                                                        *)

(* What has been read is built as its vector has it, and a table is given  *)
(* up for an entry only before it has been read.                           *)
BuiltRight ==
    /\ table \in StubTables /\ entries \in Nat
    /\ DOMAIN stubs \subseteq {6, 13}
    /\ \A v \in DOMAIN stubs : stubs[v].error = (v = 13) /\ stubs[v].body = Stub!Build(v = 13)
    /\ mode \in {"read", "rejected", "run"}
    /\ mode = "rejected" => entries < Len(table) \/ entries = 0
    /\ mode # "run" => vector = 0 /\ before = <<>>

Registers(r) == r = [rax |-> r.rax, rsp |-> r.rsp, rip |-> r.rip, flags |-> r.flags]
StackWhole(m) == m = [a \in 0 .. STACK - 1 |-> m[a]]

ProcessorWhole == Registers(processor) /\ StackWhole(stack)

(* Where the program is, with room for a frame below it.                   *)
InProgram ==
    vector = 0 =>
        /\ processor.rsp \in {STACK - 2, STACK - 3}
        /\ before # <<>> =>
              /\ processor = [before.regs EXCEPT !.rip = @ + 2]
              /\ \A a \in processor.rsp .. STACK - 1 : stack[a] = before.mem[a]

(* The frame of the last fault: its end, its saved rip, its lowest word.   *)
Base == before.regs.rsp - (before.regs.rsp % 2)
Back == Base - 5
Low == IF vector = 13 THEN Base - 6 ELSE Base - 5

InStub ==
    vector # 0 =>
        /\ vector \in DOMAIN stubs
        /\ Registers(before.regs) /\ before.regs.rsp \in {STACK - 2, STACK - 3}
        /\ next \in 1 .. (IF vector = 13 THEN 7 ELSE 6)
        /\ \A a \in before.regs.rsp .. STACK - 1 : stack[a] = before.mem[a]
        /\ stack[Back + 3] = before.regs.rsp /\ stack[Back + 2] = before.regs.flags
        /\ next < 5 => stack[Back] = before.regs.rip
        /\ next >= 5 => stack[Back] = before.regs.rip + 2
        /\ next = 1 => processor.rsp = Low
        /\ next \in 2 .. 5 => processor.rsp = Low - 1 /\ stack[Low - 1] = before.regs.rax
        /\ next = 6 => processor.rsp = Low
        /\ next = 7 => processor.rsp = Back
        /\ next \in {1, 2, 6, 7} => processor.rax = before.regs.rax
        /\ next = 3 => processor.rax = before.regs.rip
        /\ next = 4 => processor.rax = before.regs.rip + 2

StubIInv == BuiltRight /\ ProcessorWhole /\ InProgram /\ InStub

-----------------------------------------------------------------------------

(* Six items in two parts.                                                 *)
LEMMA SixItems ==
    ASSUME NEW a, NEW b, NEW c, NEW d, NEW e, NEW f
    PROVE  <<a, b, c, d, e>> \o <<f>> = <<a, b, c, d, e, f>>
  <1>. DEFINE S == {a, b, c, d, e, f}
              s == <<a, b, c, d, e>>
              t == <<f>>
              r == <<a, b, c, d, e, f>>
  <1>1. s \in Seq(S) /\ t \in Seq(S) /\ r \in Seq(S) /\ Len(s) = 5 /\ Len(t) = 1 /\ Len(r) = 6
    OBVIOUS
  <1>2. Len(s \o t) = 6 /\ s \o t \in Seq(S)
    BY <1>1
  <1>3. \A i \in 1 .. 6 : (s \o t)[i] = r[i]
    <2>. TAKE i \in 1 .. 6
    <2>1. (s \o t)[i] = IF i <= 5 THEN s[i] ELSE t[i - 5]
      BY <1>1, ConcatProperties
    <2>2. CASE i <= 5
      BY <2>1, <2>2
    <2>3. CASE i = 6
      <3>1. i - 5 = 1 /\ ~ i <= 5 /\ t[1] = f /\ r[6] = f
        BY <2>3
      <3>. QED
        BY <2>1, <2>3, <3>1
    <2>. QED
      BY <2>2, <2>3
  <1>. HIDE DEF S, s, t, r
  <1>4. s \o t = r
    BY <1>1, <1>2, <1>3, SeqEqual
  <1>. QED
    BY <1>4 DEF s, t, r

(* Seven items in two parts.                                               *)
LEMMA SevenItems ==
    ASSUME NEW a, NEW b, NEW c, NEW d, NEW e, NEW f, NEW g
    PROVE  <<a, b, c, d, e, f>> \o <<g>> = <<a, b, c, d, e, f, g>>
  <1>. DEFINE S == {a, b, c, d, e, f, g}
              s == <<a, b, c, d, e, f>>
              t == <<g>>
              r == <<a, b, c, d, e, f, g>>
  <1>1. s \in Seq(S) /\ t \in Seq(S) /\ r \in Seq(S) /\ Len(s) = 6 /\ Len(t) = 1 /\ Len(r) = 7
    OBVIOUS
  <1>2. Len(s \o t) = 7 /\ s \o t \in Seq(S)
    BY <1>1
  <1>3. \A i \in 1 .. 7 : (s \o t)[i] = r[i]
    <2>. TAKE i \in 1 .. 7
    <2>1. (s \o t)[i] = IF i <= 6 THEN s[i] ELSE t[i - 6]
      BY <1>1, ConcatProperties
    <2>2. CASE i <= 6
      BY <2>1, <2>2
    <2>3. CASE i = 7
      <3>1. i - 6 = 1 /\ ~ i <= 6 /\ t[1] = g /\ r[7] = g
        BY <2>3
      <3>. QED
        BY <2>1, <2>3, <3>1
    <2>. QED
      BY <2>2, <2>3
  <1>. HIDE DEF S, s, t, r
  <1>4. s \o t = r
    BY <1>1, <1>2, <1>3, SeqEqual
  <1>. QED
    BY <1>4 DEF s, t, r

(* Five items and none.                                                    *)
LEMMA FiveItems ==
    ASSUME NEW a, NEW b, NEW c, NEW d, NEW e
    PROVE  <<a, b, c, d, e>> \o <<>> = <<a, b, c, d, e>>
  <1>. DEFINE S == {a, b, c, d, e}
  <1>1. <<a, b, c, d, e>> \in Seq(S)
    OBVIOUS
  <1>. QED
    BY <1>1, ConcatEmptySeq

(* The body of a stub, instruction by instruction.                         *)
LEMMA Bodies ==
    /\ Stub!Build(TRUE) =
          <<Stub!Ins("push", Stub!Rax, Stub!Rax), Stub!Ins("load", Stub!Rax, Stub!Saved(2)), Stub!Ins("add", Stub!Rax, Stub!Literal(2)),
            Stub!Ins("store", Stub!Saved(2), Stub!Rax), Stub!Ins("pop", Stub!Rax, Stub!Rax), Stub!Ins("add", Stub!Rsp, Stub!Literal(8)),
            Stub!Ins("iretq", Stub!Rax, Stub!Rax)>>
    /\ Stub!Build(FALSE) =
          <<Stub!Ins("push", Stub!Rax, Stub!Rax), Stub!Ins("load", Stub!Rax, Stub!Saved(1)), Stub!Ins("add", Stub!Rax, Stub!Literal(2)),
            Stub!Ins("store", Stub!Saved(1), Stub!Rax), Stub!Ins("pop", Stub!Rax, Stub!Rax), Stub!Ins("iretq", Stub!Rax, Stub!Rax)>>
  <1>. DEFINE push == Stub!Ins("push", Stub!Rax, Stub!Rax)
              load(n) == Stub!Ins("load", Stub!Rax, Stub!Saved(n))
              add == Stub!Ins("add", Stub!Rax, Stub!Literal(2))
              store(n) == Stub!Ins("store", Stub!Saved(n), Stub!Rax)
              pop == Stub!Ins("pop", Stub!Rax, Stub!Rax)
              drop == Stub!Ins("add", Stub!Rsp, Stub!Literal(8))
              iretq == Stub!Ins("iretq", Stub!Rax, Stub!Rax)
  <1>1. Stub!Build(TRUE) = <<push, load(2), add, store(2), pop>> \o <<drop>> \o <<iretq>>
    BY DEF Stub!Build, Stub!SavedRip
  <1>2. Stub!Build(FALSE) = <<push, load(1), add, store(1), pop>> \o <<>> \o <<iretq>>
    BY DEF Stub!Build, Stub!SavedRip
  <1>. HIDE DEF push, load, add, store, pop, drop, iretq
  <1>3. <<push, load(2), add, store(2), pop>> \o <<drop>> \o <<iretq>>
          = <<push, load(2), add, store(2), pop, drop, iretq>>
    <2>1. <<push, load(2), add, store(2), pop>> \o <<drop>> = <<push, load(2), add, store(2), pop, drop>>
      BY SixItems
    <2>2. <<push, load(2), add, store(2), pop, drop>> \o <<iretq>>
            = <<push, load(2), add, store(2), pop, drop, iretq>>
      BY SevenItems
    <2>. QED
      BY <2>1, <2>2
  <1>4. <<push, load(1), add, store(1), pop>> \o <<>> \o <<iretq>>
          = <<push, load(1), add, store(1), pop, iretq>>
    BY FiveItems, SixItems
  <1>. QED
    BY <1>1, <1>2, <1>3, <1>4 DEF push, load, add, store, pop, drop, iretq
(* Each instruction of a body has its profile.                             *)
LEMMA Profiles ==
    \A e \in BOOLEAN :
        /\ Stub!Profile(Stub!Ins("push", Stub!Rax, Stub!Rax), e) /\ Stub!Profile(Stub!Ins("pop", Stub!Rax, Stub!Rax), e)
        /\ Stub!Profile(Stub!Ins("load", Stub!Rax, Stub!Saved(IF e THEN 2 ELSE 1)), e)
        /\ Stub!Profile(Stub!Ins("store", Stub!Saved(IF e THEN 2 ELSE 1), Stub!Rax), e)
        /\ Stub!Profile(Stub!Ins("add", Stub!Rax, Stub!Literal(2)), e) /\ Stub!Profile(Stub!Ins("add", Stub!Rsp, Stub!Literal(8)), e)
        /\ Stub!Profile(Stub!Ins("iretq", Stub!Rax, Stub!Rax), e)
  <1>. TAKE e \in BOOLEAN
  <1>1. Stub!Profile(Stub!Ins("push", Stub!Rax, Stub!Rax), e) /\ Stub!Profile(Stub!Ins("pop", Stub!Rax, Stub!Rax), e)
    BY DEF Stub!Profile, Stub!Ins
  <1>2. Stub!Profile(Stub!Ins("load", Stub!Rax, Stub!Saved(IF e THEN 2 ELSE 1)), e)
    BY DEF Stub!Profile, Stub!Ins, Stub!SavedRip
  <1>3. Stub!Profile(Stub!Ins("store", Stub!Saved(IF e THEN 2 ELSE 1), Stub!Rax), e)
    BY DEF Stub!Profile, Stub!Ins, Stub!SavedRip
  <1>4. Stub!Profile(Stub!Ins("add", Stub!Rax, Stub!Literal(2)), e) /\ Stub!Profile(Stub!Ins("add", Stub!Rsp, Stub!Literal(8)), e)
    BY DEF Stub!Profile, Stub!Ins
  <1>5. Stub!Profile(Stub!Ins("iretq", Stub!Rax, Stub!Rax), e)
    BY DEF Stub!Profile, Stub!Ins
  <1>. QED
    BY <1>1, <1>2, <1>3, <1>4, <1>5

(* A stub that was built is let through.                                   *)
LEMMA BuiltEmittable ==
    ASSUME BuiltRight, NEW v \in DOMAIN stubs PROVE Stub!Emittable(v, stubs[v])
  <1>. DEFINE stub == stubs[v]
              ops == [i \in DOMAIN stub.body |-> stub.body[i].op]
  <1>1. v \in {6, 13} /\ stub.error = (v = 13) /\ stub.body = Stub!Build(v = 13)
    BY DEF BuiltRight
  <1>2. CASE v = 13
    <2>1. /\ stub.error = TRUE
          /\ stub.body =
                <<Stub!Ins("push", Stub!Rax, Stub!Rax), Stub!Ins("load", Stub!Rax, Stub!Saved(2)), Stub!Ins("add", Stub!Rax, Stub!Literal(2)),
                  Stub!Ins("store", Stub!Saved(2), Stub!Rax), Stub!Ins("pop", Stub!Rax, Stub!Rax), Stub!Ins("add", Stub!Rsp, Stub!Literal(8)),
                  Stub!Ins("iretq", Stub!Rax, Stub!Rax)>>
      BY <1>1, <1>2, Bodies
    <2>2. ops = <<"push", "load", "add", "store", "pop", "add", "iretq">>
      BY <2>1 DEF Stub!Ins
    <2>3. ops = <<"push", "load", "add", "store", "pop">> \o <<"add", "iretq">>
      BY <2>2
    <2>4. \A i \in DOMAIN stub.body : Stub!Profile(stub.body[i], TRUE)
      <3>1. /\ Stub!Profile(Stub!Ins("push", Stub!Rax, Stub!Rax), TRUE) /\ Stub!Profile(Stub!Ins("pop", Stub!Rax, Stub!Rax), TRUE)
            /\ Stub!Profile(Stub!Ins("load", Stub!Rax, Stub!Saved(2)), TRUE) /\ Stub!Profile(Stub!Ins("store", Stub!Saved(2), Stub!Rax), TRUE)
            /\ Stub!Profile(Stub!Ins("add", Stub!Rax, Stub!Literal(2)), TRUE) /\ Stub!Profile(Stub!Ins("add", Stub!Rsp, Stub!Literal(8)), TRUE)
            /\ Stub!Profile(Stub!Ins("iretq", Stub!Rax, Stub!Rax), TRUE)
        BY Profiles
      <3>2. DOMAIN stub.body = 1 .. 7
        BY <2>1
      <3>3. /\ stub.body[1] = Stub!Ins("push", Stub!Rax, Stub!Rax)
            /\ stub.body[2] = Stub!Ins("load", Stub!Rax, Stub!Saved(2))
            /\ stub.body[3] = Stub!Ins("add", Stub!Rax, Stub!Literal(2))
            /\ stub.body[4] = Stub!Ins("store", Stub!Saved(2), Stub!Rax)
            /\ stub.body[5] = Stub!Ins("pop", Stub!Rax, Stub!Rax)
            /\ stub.body[6] = Stub!Ins("add", Stub!Rsp, Stub!Literal(8))
            /\ stub.body[7] = Stub!Ins("iretq", Stub!Rax, Stub!Rax)
        BY <2>1
      <3>. HIDE DEF stub
      <3>. SUFFICES ASSUME NEW i \in 1 .. 7 PROVE Stub!Profile(stub.body[i], TRUE)
        BY <3>2
      <3>4. i = 1 \/ i = 2 \/ i = 3 \/ i = 4 \/ i = 5 \/ i = 6 \/ i = 7
        OBVIOUS
      <3>. QED
        BY <3>1, <3>3, <3>4, Zenon
    <2>5. stub.body[6] = Stub!Ins("add", Stub!Rsp, Stub!Literal(8)) /\ stub.body[3] = Stub!Ins("add", Stub!Rax, Stub!Literal(2))
      BY <2>1
    <2>. QED
      BY <1>2, <2>1, <2>3, <2>4, <2>5 DEF Stub!Emittable
  <1>3. CASE v = 6
    <2>1. /\ stub.error = FALSE
          /\ stub.body =
                <<Stub!Ins("push", Stub!Rax, Stub!Rax), Stub!Ins("load", Stub!Rax, Stub!Saved(1)), Stub!Ins("add", Stub!Rax, Stub!Literal(2)),
                  Stub!Ins("store", Stub!Saved(1), Stub!Rax), Stub!Ins("pop", Stub!Rax, Stub!Rax), Stub!Ins("iretq", Stub!Rax, Stub!Rax)>>
      <3>1. (v = 13) = FALSE
        BY <1>3
      <3>. QED
        BY <1>1, <3>1, Bodies
    <2>2. ops = <<"push", "load", "add", "store", "pop", "iretq">>
      BY <2>1 DEF Stub!Ins
    <2>3. ops = <<"push", "load", "add", "store", "pop">> \o <<"iretq">>
      BY <2>2
    <2>4. \A i \in DOMAIN stub.body : Stub!Profile(stub.body[i], FALSE)
      <3>1. /\ Stub!Profile(Stub!Ins("push", Stub!Rax, Stub!Rax), FALSE) /\ Stub!Profile(Stub!Ins("pop", Stub!Rax, Stub!Rax), FALSE)
            /\ Stub!Profile(Stub!Ins("load", Stub!Rax, Stub!Saved(1)), FALSE) /\ Stub!Profile(Stub!Ins("store", Stub!Saved(1), Stub!Rax), FALSE)
            /\ Stub!Profile(Stub!Ins("add", Stub!Rax, Stub!Literal(2)), FALSE) /\ Stub!Profile(Stub!Ins("add", Stub!Rsp, Stub!Literal(8)), FALSE)
            /\ Stub!Profile(Stub!Ins("iretq", Stub!Rax, Stub!Rax), FALSE)
        BY Profiles
      <3>2. DOMAIN stub.body = 1 .. 6
        BY <2>1
      <3>3. /\ stub.body[1] = Stub!Ins("push", Stub!Rax, Stub!Rax)
            /\ stub.body[2] = Stub!Ins("load", Stub!Rax, Stub!Saved(1))
            /\ stub.body[3] = Stub!Ins("add", Stub!Rax, Stub!Literal(2))
            /\ stub.body[4] = Stub!Ins("store", Stub!Saved(1), Stub!Rax)
            /\ stub.body[5] = Stub!Ins("pop", Stub!Rax, Stub!Rax)
            /\ stub.body[6] = Stub!Ins("iretq", Stub!Rax, Stub!Rax)
        BY <2>1
      <3>. HIDE DEF stub
      <3>. SUFFICES ASSUME NEW i \in 1 .. 6 PROVE Stub!Profile(stub.body[i], FALSE)
        BY <3>2
      <3>4. i = 1 \/ i = 2 \/ i = 3 \/ i = 4 \/ i = 5 \/ i = 6
        OBVIOUS
      <3>. QED
        BY <3>1, <3>3, <3>4, Zenon
    <2>5. stub.body[3] = Stub!Ins("add", Stub!Rax, Stub!Literal(2))
      BY <2>1
    <2>. QED
      BY <1>1, <1>3, <2>1, <2>3, <2>4, <2>5 DEF Stub!Emittable
  <1>. QED
    BY <1>1, <1>2, <1>3

-----------------------------------------------------------------------------

(* Nothing is read, nothing has faulted.                                   *)
LEMMA StubsInit == ASSUME Stub!StubAssumption, Stub!Init PROVE StubIInv
  <1>1. BuiltRight
    BY DEF BuiltRight, Stub!Init
  <1>2. ProcessorWhole
    BY DEF ProcessorWhole, Stub!Init, Registers, StackWhole, Stub!Memory
  <1>3. InProgram /\ InStub
    BY DEF InProgram, InStub, Stub!Init
  <1>. QED
    BY <1>1, <1>2, <1>3 DEF StubIInv

(* An entry that is accepted is for a vector of its own and is built as    *)
(* this vector has it.                                                     *)
LEMMA ReadEntryStep == ASSUME Stub!StubAssumption, StubIInv, Stub!ReadEntry PROVE StubIInv'
  <1>. DEFINE e == table[entries + 1]
              stub == Stub!Built(e)
  <1>1. Len(table) \in Nat
    BY DEF Stub!StubAssumption, StubIInv, BuiltRight
  <1>2. BuiltRight'
    <2>1. CASE Stub!Accepted(e)
      <3>1. stubs' = [v \in DOMAIN stubs \cup {e.vector} |-> IF v = e.vector THEN stub ELSE stubs[v]]
             /\ entries' = entries + 1 /\ UNCHANGED <<mode, table, vector, before>>
        BY <2>1 DEF Stub!ReadEntry
      <3>2. e.vector \in {6, 13} /\ Stub!HardwareError(e) = (e.vector = 13)
        BY <2>1 DEF Stub!Accepted
      <3>3. stub.error = (e.vector = 13) /\ stub.body = Stub!Build(e.vector = 13)
        BY <3>2 DEF Stub!Built
      <3>. HIDE DEF e, stub
      <3>4. DOMAIN stubs' = {e.vector} \cup DOMAIN stubs /\ stubs'[e.vector] = stub
            /\ \A v \in DOMAIN stubs : v # e.vector => stubs'[v] = stubs[v]
        BY <3>1
      <3>5. \A v \in DOMAIN stubs' : stubs'[v].error = (v = 13) /\ stubs'[v].body = Stub!Build(v = 13)
        BY <3>3, <3>4 DEF StubIInv, BuiltRight
      <3>6. mode = "read" /\ entries' \in Nat /\ table' \in StubTables /\ DOMAIN stubs' \subseteq {6, 13}
        BY <3>1, <3>2, <3>4 DEF StubIInv, BuiltRight, Stub!ReadEntry
      <3>. QED
        BY <3>1, <3>5, <3>6 DEF StubIInv, BuiltRight
    <2>2. CASE ~ Stub!Accepted(e)
      BY <1>1, <2>2 DEF StubIInv, BuiltRight, Stub!ReadEntry
    <2>. QED
      BY <2>1, <2>2
  <1>3. ProcessorWhole' /\ InProgram'
    BY DEF StubIInv, Stub!ReadEntry, ProcessorWhole, Registers, StackWhole, InProgram
  <1>4. InStub'
    BY DEF StubIInv, Stub!ReadEntry, BuiltRight, InStub
  <1>. QED
    BY <1>2, <1>3, <1>4 DEF StubIInv

(* What was built is generated, so a table is refused only when it is      *)
(* empty.                                                                  *)
LEMMA GenerateStep == ASSUME Stub!StubAssumption, StubIInv, Stub!Generate PROVE StubIInv'
  <1>1. BuiltRight'
    <2>1. \A v \in DOMAIN stubs : Stub!Emittable(v, stubs[v])
      BY BuiltEmittable DEF StubIInv
    <2>. QED
      BY <2>1 DEF StubIInv, BuiltRight, Stub!Generate
  <1>2. ProcessorWhole' /\ InProgram'
    BY DEF StubIInv, Stub!Generate, ProcessorWhole, Registers, StackWhole, InProgram
  <1>3. InStub'
    BY DEF StubIInv, Stub!Generate, BuiltRight, InStub
  <1>. QED
    BY <1>1, <1>2, <1>3 DEF StubIInv

-----------------------------------------------------------------------------

(* Rounding the stack pointer down leaves room for a frame and for rax.    *)
LEMMA Rounded ==
    ASSUME Stub!StubAssumption, NEW sp \in {STACK - 2, STACK - 3}
    PROVE  /\ sp \in Nat /\ sp < STACK /\ STACK \in Nat
           /\ sp - (sp % 2) \in {sp, sp - 1} /\ sp - (sp % 2) - 7 \in Nat
  BY DEF Stub!StubAssumption

(* A sixth item.                                                           *)
LEMMA OneMore ==
    ASSUME NEW S, NEW s \in Seq(S), NEW x \in S, Len(s) = 5
    PROVE  Len(Append(s, x)) = 6 /\ \A i \in 1 .. 5 : Append(s, x)[i] = s[i]
  <1>1. Len(Append(s, x)) = Len(s) + 1
    BY AppendProperties, ZenonT(40)
  <1>2. ASSUME NEW i \in 1 .. 5 PROVE Append(s, x)[i] = s[i]
    <2>1. Append(s, x) = s \o <<x>>
      BY AppendIsConcat
    <2>2. <<x>> \in Seq(S) /\ Len(<<x>>) = 1
      OBVIOUS
    <2>3. i \in 1 .. Len(s) + Len(<<x>>) /\ i <= Len(s)
      BY <2>2
    <2>4. (s \o <<x>>)[i] = s[i]
      BY <2>2, <2>3, ConcatProperties
    <2>. QED
      BY <2>1, <2>4
  <1>. QED
    BY <1>1, <1>2

(* What the processor pushes, and what it leaves alone.                    *)
LEMMA FramePushed ==
    ASSUME Stub!StubAssumption, ProcessorWhole, processor.rsp \in {STACK - 2, STACK - 3}, NEW v \in {6, 13},
           NEW base, base = processor.rsp - (processor.rsp % 2)
    PROVE  /\ Stub!Frame(v).rsp = IF v = 13 THEN base - 6 ELSE base - 5
           /\ StackWhole(Stub!Frame(v).mem)
           /\ Stub!Frame(v).mem[base - 2] = processor.rsp /\ Stub!Frame(v).mem[base - 3] = processor.flags
           /\ Stub!Frame(v).mem[base - 5] = processor.rip
           /\ \A a \in processor.rsp .. STACK - 1 : Stub!Frame(v).mem[a] = stack[a]
  <1>. DEFINE frame == [i \in 1 .. 5 |-> CASE i = 1 -> "ss" [] i = 2 -> processor.rsp [] i = 3 -> processor.flags
                                            [] i = 4 -> "cs" [] i = 5 -> processor.rip]
              words == IF v = 13 THEN Append(frame, 77) ELSE frame
              n == IF v = 13 THEN 6 ELSE 5
  <1>1. frame[2] = processor.rsp /\ frame[3] = processor.flags /\ frame[5] = processor.rip
    OBVIOUS
  <1>2. Len(frame) = 5 /\ \A S : (\A i \in 1 .. 5 : frame[i] \in S) => frame \in Seq(S)
    OBVIOUS
  <1>3. Len(words) = n /\ words[2] = processor.rsp /\ words[3] = processor.flags /\ words[5] = processor.rip
    <2>. DEFINE S == {frame[1], frame[2], frame[3], frame[4], frame[5], 77}
    <2>1. frame \in Seq(S)
      BY <1>2
    <2>. HIDE DEF frame
    <2>2. 77 \in S
      OBVIOUS
    <2>. HIDE DEF S
    <2>3. /\ Len(Append(frame, 77)) = 6
          /\ \A i \in 1 .. 5 : Append(frame, 77)[i] = frame[i]
      BY <1>2, <2>1, <2>2, OneMore
    <2>. QED
      BY <1>1, <1>2, <2>3
  <1>4. Stub!Frame(v) = [rsp |-> base - Len(words),
                    mem |-> [a \in DOMAIN stack |-> IF a \in base - Len(words) .. base - 1 THEN words[base - a] ELSE stack[a]]]
    BY DEF Stub!Frame
  <1>. HIDE DEF words
  <1>5. /\ processor.rsp \in Nat /\ processor.rsp < STACK /\ STACK \in Nat
        /\ base \in {processor.rsp, processor.rsp - 1} /\ base - 7 \in Nat
    BY Rounded
  <1>6. DOMAIN stack = 0 .. STACK - 1
    BY DEF ProcessorWhole, StackWhole
  <1>7. \A a \in 0 .. STACK - 1 :
            Stub!Frame(v).mem[a] = IF a \in base - n .. base - 1 THEN words[base - a] ELSE stack[a]
    BY <1>3, <1>4, <1>6
  <1>8. Stub!Frame(v).rsp = base - n /\ StackWhole(Stub!Frame(v).mem)
    BY <1>3, <1>4, <1>6 DEF StackWhole
  <1>9. \A a \in processor.rsp .. STACK - 1 : Stub!Frame(v).mem[a] = stack[a]
    BY <1>5, <1>7
  <1>10. Stub!Frame(v).mem[base - 2] = words[2] /\ Stub!Frame(v).mem[base - 3] = words[3] /\ Stub!Frame(v).mem[base - 5] = words[5]
    <2>1. \A k \in 2 .. 5 : base - k \in 0 .. STACK - 1 /\ base - k \in base - n .. base - 1 /\ base - (base - k) = k
      <3>1. base \in Nat /\ STACK \in Nat /\ 7 <= base /\ base < STACK /\ n \in {5, 6}
        BY <1>5
      <3>. HIDE DEF n
      <3>. QED
        BY <3>1
    <2>. QED
      BY <1>7, <2>1
  <1>. QED
    BY <1>3, <1>8, <1>9, <1>10

(* Where the words of the last fault are, and that they are on the stack.  *)
LEMMA Places ==
    ASSUME Stub!StubAssumption, StubIInv, vector # 0
    PROVE  /\ vector \in {6, 13} /\ STACK \in Nat
           /\ before.regs.rsp \in Nat /\ before.regs.rsp < STACK
           /\ Base \in {before.regs.rsp, before.regs.rsp - 1} /\ Base - 7 \in Nat
           /\ Low = IF vector = 13 THEN Back - 1 ELSE Back
           /\ Low - 1 \in 0 .. STACK - 1 /\ Low \in 0 .. STACK - 1
           /\ \A k \in 0 .. 3 : Back + k \in 0 .. STACK - 1 /\ Back + k < before.regs.rsp
  <1>1. before.regs.rsp \in {STACK - 2, STACK - 3} /\ vector \in {6, 13}
    BY DEF StubIInv, InStub, BuiltRight
  <1>2. /\ before.regs.rsp \in Nat /\ before.regs.rsp < STACK /\ STACK \in Nat
        /\ Base \in {before.regs.rsp, before.regs.rsp - 1} /\ Base - 7 \in Nat
    BY <1>1, Rounded DEF Base
  <1>3. Back = Base - 5 /\ Low = IF vector = 13 THEN Base - 6 ELSE Base - 5
    BY DEF Back, Low
  <1>. QED
    BY <1>1, <1>2, <1>3

(* The instruction at each place of a stub.                                *)
LEMMA Instructions ==
    ASSUME StubIInv, vector # 0
    PROVE  /\ next = 1 => Stub!Here = Stub!Ins("push", Stub!Rax, Stub!Rax)
           /\ next = 2 => Stub!Here = Stub!Ins("load", Stub!Rax, Stub!Saved(IF vector = 13 THEN 2 ELSE 1))
           /\ next = 3 => Stub!Here = Stub!Ins("add", Stub!Rax, Stub!Literal(2))
           /\ next = 4 => Stub!Here = Stub!Ins("store", Stub!Saved(IF vector = 13 THEN 2 ELSE 1), Stub!Rax)
           /\ next = 5 => Stub!Here = Stub!Ins("pop", Stub!Rax, Stub!Rax)
           /\ next = 6 => Stub!Here = IF vector = 13 THEN Stub!Ins("add", Stub!Rsp, Stub!Literal(8)) ELSE Stub!Ins("iretq", Stub!Rax, Stub!Rax)
           /\ next = 7 => Stub!Here = Stub!Ins("iretq", Stub!Rax, Stub!Rax)
           /\ next \in 1 .. 7
           /\ next = 7 => vector = 13
  <1>1. vector \in {6, 13} /\ Stub!Here = Stub!Build(vector = 13)[next] /\ next \in 1 .. (IF vector = 13 THEN 7 ELSE 6)
    BY DEF StubIInv, InStub, BuiltRight, Stub!Here
  <1>2. CASE vector = 13
    <2>. DEFINE body == Stub!Build(TRUE)
    <2>1. Stub!Here = body[next]
      <3>1. (vector = 13) = TRUE
        BY <1>2
      <3>. QED
        BY <1>1, <3>1
    <2>2. body =
            <<Stub!Ins("push", Stub!Rax, Stub!Rax), Stub!Ins("load", Stub!Rax, Stub!Saved(2)), Stub!Ins("add", Stub!Rax, Stub!Literal(2)), Stub!Ins("store", Stub!Saved(2), Stub!Rax), Stub!Ins("pop", Stub!Rax, Stub!Rax), Stub!Ins("add", Stub!Rsp, Stub!Literal(8)), Stub!Ins("iretq", Stub!Rax, Stub!Rax)>>
      BY Bodies
    <2>. HIDE DEF body
    <2>3. /\ body[1] = Stub!Ins("push", Stub!Rax, Stub!Rax)
          /\ body[2] = Stub!Ins("load", Stub!Rax, Stub!Saved(2))
          /\ body[3] = Stub!Ins("add", Stub!Rax, Stub!Literal(2))
          /\ body[4] = Stub!Ins("store", Stub!Saved(2), Stub!Rax)
          /\ body[5] = Stub!Ins("pop", Stub!Rax, Stub!Rax)
          /\ body[6] = Stub!Ins("add", Stub!Rsp, Stub!Literal(8))
          /\ body[7] = Stub!Ins("iretq", Stub!Rax, Stub!Rax)
      BY <2>2
    <2>. QED
      BY <1>1, <1>2, <2>1, <2>3
  <1>3. CASE vector = 6
    <2>. DEFINE body == Stub!Build(FALSE)
    <2>1. Stub!Here = body[next]
      <3>1. (vector = 13) = FALSE
        BY <1>3
      <3>. QED
        BY <1>1, <3>1
    <2>2. body =
            <<Stub!Ins("push", Stub!Rax, Stub!Rax), Stub!Ins("load", Stub!Rax, Stub!Saved(1)), Stub!Ins("add", Stub!Rax, Stub!Literal(2)), Stub!Ins("store", Stub!Saved(1), Stub!Rax), Stub!Ins("pop", Stub!Rax, Stub!Rax), Stub!Ins("iretq", Stub!Rax, Stub!Rax)>>
      BY Bodies
    <2>. HIDE DEF body
    <2>3. /\ body[1] = Stub!Ins("push", Stub!Rax, Stub!Rax)
          /\ body[2] = Stub!Ins("load", Stub!Rax, Stub!Saved(1))
          /\ body[3] = Stub!Ins("add", Stub!Rax, Stub!Literal(2))
          /\ body[4] = Stub!Ins("store", Stub!Saved(1), Stub!Rax)
          /\ body[5] = Stub!Ins("pop", Stub!Rax, Stub!Rax)
          /\ body[6] = Stub!Ins("iretq", Stub!Rax, Stub!Rax)
      BY <2>2
    <2>. QED
      BY <1>1, <1>3, <2>1, <2>3
  <1>. QED
    BY <1>1, <1>2, <1>3

-----------------------------------------------------------------------------

(* A fault puts the frame below what the program uses.                     *)
LEMMA FaultStep == ASSUME Stub!StubAssumption, StubIInv, NEW v \in {6, 13}, Stub!Fault(v) PROVE StubIInv'
  <1>. DEFINE base == processor.rsp - (processor.rsp % 2)
  <1>1. /\ vector = 0 /\ v \in DOMAIN stubs /\ mode = "run"
        /\ before' = [regs |-> processor, mem |-> stack]
        /\ stack' = Stub!Frame(v).mem /\ processor' = [processor EXCEPT !.rsp = Stub!Frame(v).rsp]
        /\ vector' = v /\ next' = 1
        /\ UNCHANGED <<table, entries, stubs, mode>>
    BY DEF Stub!Fault, Stub!Program
  <1>2. ProcessorWhole /\ BuiltRight /\ Registers(processor) /\ processor.rsp \in {STACK - 2, STACK - 3}
    BY <1>1 DEF StubIInv, InProgram, ProcessorWhole
  <1>3. /\ Stub!Frame(v).rsp = IF v = 13 THEN base - 6 ELSE base - 5
        /\ StackWhole(Stub!Frame(v).mem)
        /\ Stub!Frame(v).mem[base - 2] = processor.rsp /\ Stub!Frame(v).mem[base - 3] = processor.flags
        /\ Stub!Frame(v).mem[base - 5] = processor.rip
        /\ \A a \in processor.rsp .. STACK - 1 : Stub!Frame(v).mem[a] = stack[a]
    BY <1>2, FramePushed
  <1>4. /\ processor.rsp \in Nat /\ base \in Int
        /\ Base' = base /\ Back' = base - 5 /\ Low' = IF v = 13 THEN base - 6 ELSE base - 5
    <2>1. before'.regs = processor
      BY <1>1
    <2>2. Base' = base
      BY <2>1 DEF Base
    <2>3. Back' = base - 5 /\ Low' = IF v = 13 THEN base - 6 ELSE base - 5
      BY <1>1, <2>2 DEF Back, Low
    <2>4. processor.rsp \in Nat /\ base \in {processor.rsp, processor.rsp - 1}
      BY <1>2, Rounded
    <2>. QED
      BY <2>2, <2>3, <2>4
  <1>. HIDE DEF base
  <1>5. BuiltRight'
    BY <1>1, <1>2 DEF BuiltRight
  <1>6. processor' = [rax |-> processor.rax, rsp |-> Stub!Frame(v).rsp, rip |-> processor.rip, flags |-> processor.flags]
    BY <1>1, <1>2 DEF Registers
  <1>7. ProcessorWhole'
    BY <1>1, <1>3, <1>6 DEF ProcessorWhole, Registers
  <1>8. InProgram'
    BY <1>1 DEF InProgram
  <1>9. InStub'
    <2>1. base - 5 + 3 = base - 2 /\ base - 5 + 2 = base - 3
      BY <1>4
    <2>. QED
      BY <1>1, <1>2, <1>3, <1>4, <1>6, <2>1 DEF InStub
  <1>. QED
    BY <1>5, <1>7, <1>8, <1>9 DEF StubIInv

(* What the program does between two faults needs no stub.                 *)
LEMMA ComputeStep == ASSUME Stub!StubAssumption, StubIInv, Stub!Compute PROVE StubIInv'
  <1>1. /\ vector = 0 /\ mode = "run" /\ before' = <<>> /\ stack' = stack
        /\ UNCHANGED <<table, entries, stubs, vector, mode>>
    BY DEF Stub!Compute, Stub!Program
  <1>2. PICK sp \in {STACK - 2, STACK - 3} : processor' = [processor EXCEPT !.rsp = sp, !.rax = faults, !.flags = 43]
    BY DEF Stub!Compute
  <1>3. processor' = [rax |-> faults, rsp |-> sp, rip |-> processor.rip, flags |-> 43]
    BY <1>2 DEF StubIInv, ProcessorWhole, Registers
  <1>4. BuiltRight'
    BY <1>1 DEF StubIInv, BuiltRight
  <1>5. ProcessorWhole'
    BY <1>1, <1>3 DEF StubIInv, ProcessorWhole, Registers, StackWhole
  <1>6. InProgram' /\ InStub'
    BY <1>1, <1>3 DEF InProgram, InStub
  <1>. QED
    BY <1>4, <1>5, <1>6 DEF StubIInv

(* An interrupt writes only where nothing is kept.                         *)
LEMMA StrikeStep == ASSUME Stub!StubAssumption, StubIInv, Stub!Strike PROVE StubIInv'
  <1>1. /\ mode = "run" /\ stack' = [a \in DOMAIN stack |-> IF a < processor.rsp THEN 99 ELSE stack[a]]
        /\ UNCHANGED <<table, entries, stubs, processor, vector, next, before, mode>>
    BY DEF Stub!Strike
  <1>2. DOMAIN stack = 0 .. STACK - 1
    BY DEF StubIInv, ProcessorWhole, StackWhole
  <1>3. \A a \in 0 .. STACK - 1 : ~ a < processor.rsp => stack'[a] = stack[a]
    BY <1>1, <1>2
  <1>4. BuiltRight'
    BY <1>1 DEF StubIInv, BuiltRight
  <1>5. ProcessorWhole'
    BY <1>1, <1>2 DEF StubIInv, ProcessorWhole, StackWhole
  <1>6. InProgram'
    <2>. SUFFICES ASSUME vector = 0 PROVE InProgram'
      BY <1>1 DEF InProgram
    <2>1. processor.rsp \in Nat /\ STACK \in Nat
      BY Rounded DEF StubIInv, InProgram
    <2>2. \A a \in processor.rsp .. STACK - 1 : stack'[a] = stack[a]
      BY <1>3, <2>1
    <2>. QED
      BY <1>1, <2>2 DEF StubIInv, InProgram
  <1>7. InStub'
    <2>. SUFFICES ASSUME vector # 0 PROVE InStub'
      BY <1>1 DEF InStub
    <2>1. Base' = Base /\ Back' = Back /\ Low' = Low
      BY <1>1 DEF Base, Back, Low
    <2>2. next \in 1 .. 7 /\ (next = 7 => vector = 13)
      BY Instructions
    <2>3. processor.rsp \in Int /\ processor.rsp <= Back /\ Back \in Int
      <3>1. Base \in Nat /\ Back = Base - 5 /\ Low \in {Back, Back - 1}
        BY Places DEF Back
      <3>2. processor.rsp = Low \/ processor.rsp = Low - 1 \/ processor.rsp = Back
        BY <2>2 DEF StubIInv, InStub
      <3>. QED
        BY <3>1, <3>2
    <2>4. \A k \in 0 .. 3 : stack'[Back + k] = stack[Back + k]
      BY <1>3, <2>3, Places
    <2>5. next \in 2 .. 5 => stack'[Low - 1] = stack[Low - 1]
      <3>. SUFFICES ASSUME next \in 2 .. 5 PROVE stack'[Low - 1] = stack[Low - 1]
        OBVIOUS
      <3>1. processor.rsp = Low - 1
        BY DEF StubIInv, InStub
      <3>. QED
        BY <1>3, <3>1, Places
    <2>6. \A a \in before.regs.rsp .. STACK - 1 : stack'[a] = stack[a]
      BY <1>3, <2>3, Places
    <2>7. stack'[Back] = stack[Back] /\ stack'[Back + 2] = stack[Back + 2] /\ stack'[Back + 3] = stack[Back + 3]
      BY <2>3, <2>4
    <2>. QED
      BY <1>1, <2>1, <2>5, <2>6, <2>7 DEF StubIInv, InStub
  <1>. QED
    BY <1>4, <1>5, <1>6, <1>7 DEF StubIInv

-----------------------------------------------------------------------------

(* An operation tells the place.                                           *)
LEMMA Operations ==
    ASSUME StubIInv, vector # 0
    PROVE  /\ Stub!Here.op = "push" => next = 1
           /\ Stub!Here.op = "load" => next = 2
           /\ Stub!Here.op = "add" => next = 3 \/ (next = 6 /\ vector = 13)
           /\ Stub!Here.op = "store" => next = 4
           /\ Stub!Here.op = "pop" => next = 5
           /\ Stub!Here.op = "iretq" => (next = 6 /\ vector # 13) \/ (next = 7 /\ vector = 13)
  <1>1. /\ next = 1 => Stub!Here.op = "push"
        /\ next = 2 => Stub!Here.op = "load"
        /\ next = 3 => Stub!Here.op = "add"
        /\ next = 4 => Stub!Here.op = "store"
        /\ next = 5 => Stub!Here.op = "pop"
        /\ next = 6 => Stub!Here.op = IF vector = 13 THEN "add" ELSE "iretq"
        /\ next = 7 => Stub!Here.op = "iretq" /\ vector = 13
        /\ next \in 1 .. 7
    BY Instructions DEF Stub!Ins
  <1>2. next = 1 \/ next = 2 \/ next = 3 \/ next = 4 \/ next = 5 \/ next = 6 \/ next = 7
    BY <1>1
  <1>. QED
    BY <1>1, <1>2

(* What a step inside a stub leaves as it was.                             *)
LEMMA InsideStep ==
    ASSUME StubIInv, vector # 0, mode = "run", Stub!Advance
    PROVE  /\ BuiltRight' /\ InProgram'
           /\ Base' = Base /\ Back' = Back /\ Low' = Low
           /\ vector' = vector /\ before' = before /\ next' = next + 1 /\ stubs' = stubs
  <1>1. vector' = vector /\ before' = before /\ next' = next + 1 /\ stubs' = stubs /\ UNCHANGED <<table, entries, mode>>
    BY DEF Stub!Advance
  <1>2. BuiltRight'
    BY <1>1 DEF StubIInv, BuiltRight
  <1>3. InProgram'
    BY <1>1 DEF InProgram
  <1>4. Base' = Base /\ Back' = Back /\ Low' = Low
    BY <1>1 DEF Base, Back, Low
  <1>. QED
    BY <1>1, <1>2, <1>3, <1>4

(* The rax of the program is saved below the frame.                        *)
LEMMA PushStep == ASSUME Stub!StubAssumption, StubIInv, Stub!Push PROVE StubIInv'
  <1>1. mode = "run" /\ vector # 0 /\ Stub!Here.op = "push" /\ Stub!Advance
    BY DEF Stub!Push, Stub!Stub
  <1>2. next = 1 /\ Stub!Here = Stub!Ins("push", Stub!Rax, Stub!Rax)
    BY <1>1, Operations, Instructions
  <1>3. Stub!Here.a.v = "rax"
    BY <1>2 DEF Stub!Ins, Stub!Rax
  <1>4. stack' = [stack EXCEPT ![processor.rsp - 1] = processor.rax] /\ processor' = [processor EXCEPT !.rsp = processor.rsp - 1]
    BY <1>3 DEF Stub!Push
  <1>5. processor.rsp = Low /\ processor.rax = before.regs.rax
    BY <1>1, <1>2 DEF StubIInv, InStub
  <1>6. Registers(processor) /\ DOMAIN stack = 0 .. STACK - 1 /\ StackWhole(stack)
    BY DEF StubIInv, ProcessorWhole, StackWhole
  <1>7. processor' = [rax |-> processor.rax, rsp |-> Low - 1, rip |-> processor.rip, flags |-> processor.flags]
    BY <1>4, <1>5, <1>6 DEF Registers
  <1>8. ProcessorWhole'
    BY <1>4, <1>6, <1>7 DEF ProcessorWhole, Registers, StackWhole
  <1>9. /\ stack'[Low - 1] = before.regs.rax
        /\ \A a \in 0 .. STACK - 1 : a # Low - 1 => stack'[a] = stack[a]
    BY <1>1, <1>4, <1>5, <1>6, Places
  <1>10. InStub'
    <2>1. Base \in Nat /\ Back = Base - 5 /\ Low \in {Back, Back - 1}
      BY <1>1, Places DEF Back
    <2>2. \A k \in 0 .. 3 : stack'[Back + k] = stack[Back + k]
      BY <1>1, <1>9, <2>1, Places
    <2>3. stack'[Back] = stack[Back] /\ stack'[Back + 2] = stack[Back + 2] /\ stack'[Back + 3] = stack[Back + 3]
      BY <2>1, <2>2
    <2>4. \A a \in before.regs.rsp .. STACK - 1 : stack'[a] = stack[a]
      BY <1>1, <1>9, <2>1, Places
    <2>. QED
      BY <1>1, <1>2, <1>5, <1>7, <1>9, <2>3, <2>4, InsideStep DEF StubIInv, InStub
  <1>. QED
    BY <1>1, <1>8, <1>10, InsideStep DEF StubIInv

(* The program's rax comes back.                                           *)
LEMMA PopStep == ASSUME Stub!StubAssumption, StubIInv, Stub!Pop PROVE StubIInv'
  <1>1. mode = "run" /\ vector # 0 /\ Stub!Here.op = "pop" /\ Stub!Advance
    BY DEF Stub!Pop, Stub!Stub
  <1>2. next = 5 /\ Stub!Here = Stub!Ins("pop", Stub!Rax, Stub!Rax)
    BY <1>1, Operations, Instructions
  <1>3. Stub!Here.a.v = "rax"
    BY <1>2 DEF Stub!Ins, Stub!Rax
  <1>4. processor' = [processor EXCEPT !.rax = stack[processor.rsp], !.rsp = processor.rsp + 1] /\ stack' = stack
    BY <1>3 DEF Stub!Pop
  <1>5. processor.rsp = Low - 1 /\ stack[Low - 1] = before.regs.rax
    BY <1>1, <1>2 DEF StubIInv, InStub
  <1>6. Low - 1 + 1 = Low
    BY <1>1, Places DEF Back
  <1>7. processor' = [rax |-> before.regs.rax, rsp |-> Low, rip |-> processor.rip, flags |-> processor.flags]
    BY <1>4, <1>5, <1>6 DEF StubIInv, ProcessorWhole, Registers
  <1>8. ProcessorWhole'
    BY <1>4, <1>7 DEF StubIInv, ProcessorWhole, Registers, StackWhole
  <1>9. InStub'
    <2>1. /\ next' = 6 /\ vector' = vector /\ before' = before /\ stubs' = stubs
          /\ Base' = Base /\ Back' = Back /\ Low' = Low
      BY <1>1, <1>2, InsideStep
    <2>2. /\ vector \in DOMAIN stubs
          /\ Registers(before.regs) /\ before.regs.rsp \in {STACK - 2, STACK - 3}
          /\ \A a \in before.regs.rsp .. STACK - 1 : stack[a] = before.mem[a]
          /\ stack[Back + 3] = before.regs.rsp /\ stack[Back + 2] = before.regs.flags
          /\ stack[Back] = before.regs.rip + 2
      BY <1>1, <1>2 DEF StubIInv, InStub
    <2>3. processor'.rsp = Low /\ processor'.rax = before.regs.rax
      BY <1>7
    <2>. QED
      BY <1>4, <2>1, <2>2, <2>3 DEF InStub
  <1>. QED
    BY <1>1, <1>8, <1>9, InsideStep DEF StubIInv

(* The saved rip is loaded and, two bytes further, stored.                 *)
LEMMA MoveStep == ASSUME Stub!StubAssumption, StubIInv, Stub!Move PROVE StubIInv'
  <1>. DEFINE offset == IF vector = 13 THEN 2 ELSE 1
  <1>1. mode = "run" /\ vector # 0 /\ Stub!Here.op \in {"load", "store"} /\ Stub!Advance
    BY DEF Stub!Move, Stub!Stub
  <1>2. /\ Base \in Nat /\ Back = Base - 5 /\ Low \in {Back, Back - 1} /\ STACK \in Nat
        /\ Low - 1 + offset = Back /\ Low - 1 # Back /\ Back \in 0 .. STACK - 1
    <2>1. Base \in Nat /\ Back = Base - 5 /\ Low = IF vector = 13 THEN Back - 1 ELSE Back
      BY <1>1, Places DEF Back
    <2>2. Back + 0 \in 0 .. STACK - 1 /\ STACK \in Nat
      BY <1>1, Places
    <2>. QED
      BY <2>1, <2>2
  <1>3. CASE Stub!Here.op = "load"
    <2>1. next = 2 /\ Stub!Here = Stub!Ins("load", Stub!Rax, Stub!Saved(offset))
      BY <1>1, <1>3, Operations, Instructions
    <2>2. Stub!Here.b.v = offset
      BY <2>1 DEF Stub!Ins, Stub!Saved
    <2>3. processor.rsp = Low - 1 /\ stack[Back] = before.regs.rip
      BY <1>1, <2>1 DEF StubIInv, InStub
    <2>4. processor' = [processor EXCEPT !.rax = stack[processor.rsp + offset]] /\ stack' = stack
      BY <1>3, <2>2 DEF Stub!Move
    <2>5. processor' = [rax |-> before.regs.rip, rsp |-> Low - 1, rip |-> processor.rip, flags |-> processor.flags]
      BY <1>2, <2>3, <2>4 DEF StubIInv, ProcessorWhole, Registers
    <2>6. ProcessorWhole'
      BY <2>4, <2>5 DEF StubIInv, ProcessorWhole, Registers, StackWhole
    <2>7. InStub'
      BY <1>1, <2>1, <2>4, <2>5, InsideStep DEF StubIInv, InStub
    <2>. QED
      BY <1>1, <2>6, <2>7, InsideStep DEF StubIInv
  <1>4. CASE Stub!Here.op = "store"
    <2>1. next = 4 /\ Stub!Here = Stub!Ins("store", Stub!Saved(offset), Stub!Rax)
      BY <1>1, <1>4, Operations, Instructions
    <2>2. Stub!Here.a.v = offset
      BY <2>1 DEF Stub!Ins, Stub!Saved
    <2>3. processor.rsp = Low - 1 /\ processor.rax = before.regs.rip + 2
      BY <1>1, <2>1 DEF StubIInv, InStub
    <2>4. stack' = [stack EXCEPT ![processor.rsp + offset] = processor.rax] /\ processor' = processor
      BY <1>4, <2>2 DEF Stub!Move
    <2>5. stack' = [stack EXCEPT ![Back] = before.regs.rip + 2]
      BY <1>2, <2>3, <2>4
    <2>6. DOMAIN stack = 0 .. STACK - 1 /\ StackWhole(stack)
      BY DEF StubIInv, ProcessorWhole, StackWhole
    <2>7. ProcessorWhole'
      BY <2>4, <2>5, <2>6 DEF StubIInv, ProcessorWhole, Registers, StackWhole
    <2>8. /\ stack'[Back] = before.regs.rip + 2
          /\ \A a \in 0 .. STACK - 1 : a # Back => stack'[a] = stack[a]
      BY <1>2, <2>5, <2>6
    <2>9. stack'[Low - 1] = stack[Low - 1]
      BY <1>1, <1>2, <2>8, Places
    <2>10. stack'[Back + 2] = stack[Back + 2] /\ stack'[Back + 3] = stack[Back + 3]
      <3>1. \A k \in 2 .. 3 : Back + k \in 0 .. STACK - 1 /\ Back + k # Back
        BY <1>1, <1>2, Places
      <3>. QED
        BY <2>8, <3>1
    <2>11. \A a \in before.regs.rsp .. STACK - 1 : stack'[a] = stack[a]
      <3>1. Back < before.regs.rsp /\ before.regs.rsp \in Nat
        BY <1>1, <1>2, Places
      <3>. QED
        BY <1>2, <2>8, <3>1
    <2>12. InStub'
      BY <1>1, <2>1, <2>3, <2>4, <2>8, <2>9, <2>10, <2>11, InsideStep DEF StubIInv, InStub
    <2>. QED
      BY <1>1, <2>7, <2>12, InsideStep DEF StubIInv
  <1>. QED
    BY <1>1, <1>3, <1>4

(* Two bytes further, or past the error code.                              *)
LEMMA AddStep == ASSUME Stub!StubAssumption, StubIInv, Stub!Add PROVE StubIInv'
  <1>1. mode = "run" /\ vector # 0 /\ Stub!Here.op = "add" /\ Stub!Advance /\ stack' = stack
    BY DEF Stub!Add, Stub!Stub
  <1>2. Base \in Nat /\ Back = Base - 5 /\ Low = IF vector = 13 THEN Back - 1 ELSE Back
    BY <1>1, Places DEF Back
  <1>3. CASE next = 3
    <2>1. Stub!Here = Stub!Ins("add", Stub!Rax, Stub!Literal(2))
      BY <1>1, <1>3, Instructions
    <2>2. Stub!Here.a.v = "rax" /\ Stub!Here.b.v = 2
      BY <2>1 DEF Stub!Ins, Stub!Rax, Stub!Literal
    <2>3. processor' = [processor EXCEPT !.rax = processor.rax + 2, !.flags = 0]
      BY <2>2 DEF Stub!Add
    <2>4. processor.rax = before.regs.rip /\ processor.rsp = Low - 1 /\ stack[Low - 1] = before.regs.rax
      BY <1>1, <1>3 DEF StubIInv, InStub
    <2>5. processor' = [rax |-> before.regs.rip + 2, rsp |-> Low - 1, rip |-> processor.rip, flags |-> 0]
      BY <2>3, <2>4 DEF StubIInv, ProcessorWhole, Registers
    <2>6. ProcessorWhole'
      BY <1>1, <2>5 DEF StubIInv, ProcessorWhole, Registers, StackWhole
    <2>7. InStub'
      BY <1>1, <1>3, <2>4, <2>5, InsideStep DEF StubIInv, InStub
    <2>. QED
      BY <1>1, <2>6, <2>7, InsideStep DEF StubIInv
  <1>4. CASE next = 6 /\ vector = 13
    <2>1. Stub!Here = Stub!Ins("add", Stub!Rsp, Stub!Literal(8))
      BY <1>1, <1>4, Instructions
    <2>2. Stub!Here.a.v = "rsp" /\ Stub!Here.b.v = 8
      BY <2>1 DEF Stub!Ins, Stub!Rsp, Stub!Literal
    <2>3. processor' = [processor EXCEPT !.rsp = processor.rsp + 1, !.flags = 0]
      <3>1. 8 \div 8 = 1
        OBVIOUS
      <3>. QED
        BY <2>2, <3>1 DEF Stub!Add
    <2>4. processor.rsp = Low /\ processor.rax = before.regs.rax /\ Low + 1 = Back
      BY <1>1, <1>2, <1>4 DEF StubIInv, InStub
    <2>5. processor' = [rax |-> before.regs.rax, rsp |-> Back, rip |-> processor.rip, flags |-> 0]
      BY <2>3, <2>4 DEF StubIInv, ProcessorWhole, Registers
    <2>6. ProcessorWhole'
      BY <1>1, <2>5 DEF StubIInv, ProcessorWhole, Registers, StackWhole
    <2>7. InStub'
      BY <1>1, <1>4, <2>5, InsideStep DEF StubIInv, InStub
    <2>. QED
      BY <1>1, <2>6, <2>7, InsideStep DEF StubIInv
  <1>. QED
    BY <1>1, <1>3, <1>4, Operations

(* The program gets back what the fault took, and goes on.                 *)
LEMMA IretqStep == ASSUME Stub!StubAssumption, StubIInv, Stub!Iretq PROVE StubIInv'
  <1>1. /\ mode = "run" /\ vector # 0 /\ Stub!Here.op = "iretq"
        /\ processor' = [processor EXCEPT !.rip = stack[processor.rsp], !.flags = stack[processor.rsp + 2], !.rsp = stack[processor.rsp + 3]]
        /\ vector' = 0 /\ stack' = stack /\ UNCHANGED <<table, entries, stubs, before, mode>>
    <2>1. processor' = [processor EXCEPT !.rip = stack[processor.rsp + 0], !.flags = stack[processor.rsp + 2], !.rsp = stack[processor.rsp + 3]]
      BY DEF Stub!Iretq
    <2>2. mode = "run" /\ vector # 0 /\ Stub!Here.op = "iretq"
      BY DEF Stub!Iretq, Stub!Stub
    <2>3. Base \in Nat /\ Back = Base - 5 /\ Low \in {Back, Back - 1}
      BY <2>2, Places DEF Back
    <2>4. processor.rsp = Low \/ processor.rsp = Back
      BY <2>2, Operations DEF StubIInv, InStub
    <2>5. processor.rsp + 0 = processor.rsp
      BY <2>3, <2>4
    <2>. QED
      BY <2>1, <2>2, <2>5 DEF Stub!Iretq
  <1>2. processor.rsp = Back /\ processor.rax = before.regs.rax
    <2>1. Low = IF vector = 13 THEN Back - 1 ELSE Back
      BY <1>1, Places
    <2>. QED
      BY <1>1, <2>1, Operations DEF StubIInv, InStub
  <1>3. /\ stack[Back] = before.regs.rip + 2 /\ stack[Back + 2] = before.regs.flags
        /\ stack[Back + 3] = before.regs.rsp
        /\ Registers(before.regs) /\ before.regs.rsp \in {STACK - 2, STACK - 3}
        /\ \A a \in before.regs.rsp .. STACK - 1 : stack[a] = before.mem[a]
    BY <1>1, Operations DEF StubIInv, InStub
  <1>4. processor' = [rax |-> before.regs.rax, rsp |-> before.regs.rsp, rip |-> before.regs.rip + 2,
                 flags |-> before.regs.flags]
    BY <1>1, <1>2, <1>3 DEF StubIInv, ProcessorWhole, Registers
  <1>5. processor' = [before.regs EXCEPT !.rip = before.regs.rip + 2]
    BY <1>3, <1>4 DEF Registers
  <1>6. BuiltRight'
    BY <1>1 DEF StubIInv, BuiltRight
  <1>7. ProcessorWhole'
    BY <1>1, <1>4 DEF StubIInv, ProcessorWhole, Registers, StackWhole
  <1>8. InProgram'
    BY <1>1, <1>3, <1>4, <1>5 DEF InProgram
  <1>9. InStub'
    BY <1>1 DEF InStub
  <1>. QED
    BY <1>6, <1>7, <1>8, <1>9 DEF StubIInv

-----------------------------------------------------------------------------

(* Every step keeps the invariant.                                         *)
LEMMA StubsStep == ASSUME Stub!StubAssumption, StubIInv, [Stub!Next]_(Stub!vars) PROVE StubIInv'
  <1>1. CASE UNCHANGED Stub!vars
    <2>1. BuiltRight'
      BY <1>1 DEF Stub!vars, StubIInv, BuiltRight
    <2>2. ProcessorWhole'
      BY <1>1 DEF Stub!vars, StubIInv, ProcessorWhole, Registers, StackWhole
    <2>3. InProgram'
      BY <1>1 DEF Stub!vars, StubIInv, InProgram
    <2>4. Base' = Base /\ Back' = Back /\ Low' = Low
      BY <1>1 DEF Stub!vars, Base, Back, Low
    <2>5. InStub'
      BY <1>1, <2>4 DEF Stub!vars, StubIInv, InStub, Registers
    <2>. QED
      BY <2>1, <2>2, <2>3, <2>5 DEF StubIInv
  <1>. QED
    BY <1>1, ReadEntryStep, GenerateStep, FaultStep, ComputeStep, StrikeStep, PushStep, PopStep,
       MoveStep, AddStep, IretqStep DEF Stub!Next

(* What the invariant says of a program that is back from its stub.        *)
LEMMA StubsInvariantResumes == ASSUME Stub!StubAssumption, StubIInv PROVE Stub!Resumes
  <1>1. entries = Len(table) /\ entries > 0 => mode # "rejected"
    <2>1. Len(table) \in Nat
      BY DEF Stub!StubAssumption, StubIInv, BuiltRight
    <2>. QED
      BY <2>1 DEF StubIInv, BuiltRight
  <1>2. Stub!Program /\ before # <<>> =>
          /\ processor = [before.regs EXCEPT !.rip = @ + 2]
          /\ \A a \in processor.rsp .. STACK - 1 : stack[a] = before.mem[a]
    BY DEF StubIInv, InProgram, Stub!Program
  <1>. QED
    BY <1>1, <1>2 DEF Stub!Resumes

(* Whatever else interrupts it and however often it faults, a program goes *)
(* on two bytes further with its registers, flags and stack, for every     *)
(* table the front end reads; and the generator takes what was read.       *)
THEOREM StubsReturn == MCSpec => []StubsResume
  <1>1. MCInit => StubIInv
    BY StubAssumption, StubsInit DEF MCInit, AStub
  <1>2. [MCNext]_<<machine, vars, imageVars, fileVars, programVars, fieldVars, stubVars>>
            => [Stub!Next]_(Stub!vars)
    <2>1. [MCNext]_<<machine, vars, imageVars, fileVars, programVars, fieldVars, stubVars>>
              => Stub!Next \/ UNCHANGED stubVars
      BY DEF MCNext, HandOver, Compiled
    <2>2. UNCHANGED stubVars => UNCHANGED (Stub!vars)
      BY DEF stubVars, Stub!vars
    <2>. QED
      BY <2>1, <2>2
  <1>3. StubIInv /\ [Stub!Next]_(Stub!vars) => StubIInv'
    BY StubAssumption, StubsStep
  <1>4. StubIInv => StubsResume
    BY StubAssumption, StubsInvariantResumes DEF StubsResume
  <1>. QED
    BY <1>1, <1>2, <1>3, <1>4, PTL DEF MCSpec

-----------------------------------------------------------------------------
(* Images.                                                                 *)

ImageAssumed == Image!PeAssumption /\ Image!RelocationAssumption

(* Rounding up: the least multiple that is no less.                        *)
LEMMA RoundedUp ==
    ASSUME NEW n \in Nat, NEW a \in Nat \ {0}
    PROVE  /\ Image!UpTo(n, a) \in Nat /\ n <= Image!UpTo(n, a)
           /\ \E q \in Nat : Image!UpTo(n, a) = q * a
           /\ \A q \in Nat : n <= q * a => Image!UpTo(n, a) <= q * a
  <1>. DEFINE m == n + a - 1
              c == m \div a
  <1>1. c \in Nat /\ c * a <= m /\ m < (c + 1) * a /\ c * a \in Nat
    OBVIOUS
  <1>2. (c + 1) * a = c * a + a
    BY <1>1
  <1>3. Image!UpTo(n, a) = c * a
    BY DEF Image!UpTo
  <1>4. ASSUME NEW q \in Nat, n <= q * a PROVE c * a <= q * a
    <2>. SUFFICES ASSUME q < c PROVE FALSE
      <3>1. q >= c => q * a >= c * a
        BY <1>1
      <3>. QED
        BY <1>1, <3>1
    <2>1. (q + 1) * a <= c * a
      BY <1>1
    <2>2. (q + 1) * a = q * a + a /\ q * a \in Nat
      OBVIOUS
    <2>. HIDE DEF c
    <2>. QED
      BY <1>1, <1>4, <2>1, <2>2
  <1>. HIDE DEF c
  <1>. QED
    BY <1>1, <1>2, <1>3, <1>4

(* What a section takes of the file fits before the next page.             *)
LEMMA RawFits ==
    ASSUME ImageAssumed, NEW b \in Nat, NEW i \in Nat, b = i * PAGE, NEW n \in Nat
    PROVE  b + Image!UpTo(n, RAW) <= Image!UpTo(b + n, PAGE)
  <1>1. PAGE \in Nat \ {0} /\ RAW \in Nat \ {0} /\ PAGE % RAW = 0
    BY DEF ImageAssumed, Image!PeAssumption
  <1>. DEFINE h == PAGE \div RAW
  <1>2. h \in Nat /\ PAGE = h * RAW
    BY <1>1
  <1>0. b + n \in Nat
    BY <1>1
  <1>3. PICK q \in Nat : Image!UpTo(b + n, PAGE) = q * PAGE
    BY <1>0, <1>1, RoundedUp
  <1>4. b + n <= q * PAGE /\ q * PAGE \in Nat
    BY <1>0, <1>1, <1>3, RoundedUp
  <1>5. q * PAGE - b = (q - i) * PAGE
    BY <1>1
  <1>6. q - i \in Nat
    <2>. SUFFICES ASSUME q < i PROVE FALSE
      OBVIOUS
    <2>1. i * PAGE = q * PAGE + (i - q) * PAGE
      BY <1>1
    <2>2. (i - q) * PAGE > 0
      BY <1>1
    <2>. QED
      BY <1>1, <1>4, <2>1, <2>2
  <1>7. (q - i) * PAGE = ((q - i) * h) * RAW /\ (q - i) * h \in Nat
    <2>. DEFINE c == q - i
    <2>1. c \in Nat /\ h \in Nat /\ RAW \in Nat /\ PAGE = h * RAW
      BY <1>1, <1>2, <1>6
    <2>. HIDE DEF c, h
    <2>2. c * h \in Nat /\ c * (h * RAW) = (c * h) * RAW
      BY <2>1, SMTT(30)
    <2>. QED
      BY <2>1, <2>2 DEF c
  <1>8. Image!UpTo(n, RAW) \in Nat /\ Image!UpTo(n, RAW) <= ((q - i) * h) * RAW
    <2>1. n <= ((q - i) * h) * RAW
      BY <1>1, <1>4, <1>5, <1>7
    <2>. QED
      BY <1>1, <1>7, <2>1, RoundedUp
  <1>. QED
    BY <1>1, <1>3, <1>4, <1>5, <1>7, <1>8

(* The places the loader adjusts, and a block for each of their pages.     *)
Adjustable ==
    LET l == Image!Layout(object) IN
    {l.rdata} \cup {Image!LogicalRva(l, artifact.base[n].section) + artifact.base[n].offset :
                        n \in DOMAIN artifact.base}
PageBlocks(R) ==
    LET pages == Image!Ascending({Image!PageOf(r) : r \in R})
    IN  [n \in DOMAIN pages |->
            [page |-> pages[n],
             offsets |-> Image!Ascending({q - pages[n] : q \in {r \in R : Image!PageOf(r) = pages[n]}})]]

(* What qsort leaves.  When below describes a strict total order, ranks    *)
(* are distinct and all taken.                                             *)

StrictOrder(below) ==
    /\ \A d \in DOMAIN below : below[d] \subseteq DOMAIN below /\ d \notin below[d]
    /\ \A d, e \in DOMAIN below : e \in below[d] => below[e] \subseteq below[d]
    /\ \A d, e \in DOMAIN below : d = e \/ d \in below[e] \/ e \in below[d]

(* list has every element of S, once.                                      *)
ListsOnce(list, S) ==
    /\ Cardinality(S) \in Nat /\ DOMAIN list = 1 .. Cardinality(S)
    /\ list \in Seq(S) /\ Len(list) = Cardinality(S)
    /\ \A n \in DOMAIN list : list[n] \in S
    /\ \A d \in S : \E n \in DOMAIN list : list[n] = d
    /\ \A m, n \in DOMAIN list : list[m] = list[n] => m = n

(* qsort: the list has every element once, and those before another before *)
(* it.                                                                     *)
LEMMA SortedLists ==
    ASSUME NEW below, IsFiniteSet(DOMAIN below), StrictOrder(below)
    PROVE  /\ ListsOnce(Sorted(below), DOMAIN below)
           /\ \A m, n \in DOMAIN Sorted(below) :
                  m < n => Sorted(below)[m] \in below[Sorted(below)[n]]
  <1>. DEFINE S == DOMAIN below
              n == Cardinality(S)
              rank == [d \in S |-> Cardinality(below[d]) + 1]
              list == Sorted(below)
  <1>1. n \in Nat
    BY FS_CardinalityType
  <1>2. ASSUME NEW d \in S
        PROVE  /\ IsFiniteSet(below[d])
               /\ Cardinality(below[d]) \in Nat /\ Cardinality(below[d]) + 1 \in 1 .. n
    <2>1. below[d] \in SUBSET (S \ {d})
      BY DEF StrictOrder
    <2>2. IsFiniteSet(S \ {d}) /\ Cardinality(S \ {d}) = n - 1
      BY FS_RemoveElement
    <2>3. IsFiniteSet(below[d]) /\ Cardinality(below[d]) <= n - 1
      BY <2>1, <2>2, FS_Subset
    <2>4. Cardinality(below[d]) \in Nat
      BY <2>3, FS_CardinalityType
    <2>. QED
      BY <1>1, <2>3, <2>4
  <1>3. ASSUME NEW d \in S, NEW e \in S, e \in below[d]
        PROVE  rank[e] < rank[d]
    <2>1. below[e] \in SUBSET (below[d] \ {e})
      BY <1>3 DEF StrictOrder
    <2>2. IsFiniteSet(below[d] \ {e}) /\ Cardinality(below[d] \ {e}) = Cardinality(below[d]) - 1
      BY <1>2, <1>3, FS_RemoveElement
    <2>3. Cardinality(below[e]) <= Cardinality(below[d]) - 1
      BY <2>1, <2>2, FS_Subset
    <2>. QED
      BY <1>2, <2>3
  <1>4. rank \in [S -> 1 .. n]
    BY <1>2
  <1>5. \A d, e \in S : rank[d] = rank[e] => d = e
    <2>. SUFFICES ASSUME NEW d \in S, NEW e \in S, d # e PROVE rank[d] # rank[e]
      OBVIOUS
    <2>1. d \in below[e] \/ e \in below[d]
      BY DEF StrictOrder
    <2>2. rank[d] < rank[e] \/ rank[e] < rank[d]
      BY <1>3, <2>1
    <2>3. rank[d] \in Int /\ rank[e] \in Int
      BY <1>2
    <2>. QED
      BY <2>2, <2>3
  <1>6. \A k \in 1 .. n : \E d \in S : rank[d] = k
    <2>1. rank \in Injection(S, 1 .. n)
      BY <1>4, <1>5 DEF Injection, IsInjective
    <2>2. IsFiniteSet(1 .. n) /\ Cardinality(1 .. n) = n
      BY <1>1, FS_Interval
    <2>. HIDE DEF rank
    <2>3. rank \in Surjection(S, 1 .. n)
      BY <2>1, <2>2, FS_Injection
    <2>. QED
      BY <2>3 DEF Surjection
  <1>7. DOMAIN list = 1 .. n
    BY DEF Sorted
  <1>8. ASSUME NEW k \in 1 .. n
        PROVE  list[k] \in S /\ rank[list[k]] = k
    <2>1. list[k] = CHOOSE d \in S : Cardinality(below[d]) = k - 1
      BY DEF Sorted
    <2>2. PICK d \in S : rank[d] = k
      BY <1>6
    <2>3. Cardinality(below[d]) = k - 1
      BY <1>2, <2>2
    <2>4. list[k] \in S /\ Cardinality(below[list[k]]) = k - 1
      BY <2>1, <2>3
    <2>. QED
      BY <2>4
  <1>. HIDE DEF rank, list
  <1>12. list \in Seq(S) /\ Len(list) = n
    <2>1. list = [k \in 1 .. n |-> list[k]]
      BY DEF list, Sorted
    <2>. QED
      BY <1>1, <1>8, <2>1
  <1>9. \A d \in S : \E k \in 1 .. n : list[k] = d
    <2>. SUFFICES ASSUME NEW d \in S PROVE list[rank[d]] = d
      BY <1>4
    <2>1. rank[d] \in 1 .. n
      BY <1>4
    <2>. QED
      BY <1>5, <1>8, <2>1
  <1>10. \A j, k \in 1 .. n : list[j] = list[k] => j = k
    BY <1>8
  <1>11. ASSUME NEW j \in 1 .. n, NEW k \in 1 .. n, j < k
         PROVE  list[j] \in below[list[k]]
    <2>1. list[j] \in S /\ list[k] \in S /\ rank[list[j]] = j /\ rank[list[k]] = k
      BY <1>8
    <2>2. list[j] # list[k]
      BY <1>11, <2>1
    <2>3. list[k] \notin below[list[j]]
      BY <1>1, <1>3, <1>11, <2>1
    <2>. QED
      BY <2>1, <2>2, <2>3 DEF StrictOrder
  <1>. QED
    BY <1>1, <1>7, <1>8, <1>9, <1>10, <1>11, <1>12 DEF list, ListsOnce

(* Ascending lists every element of a finite set, the least first.         *)
LEMMA AscendingLists ==
    ASSUME NEW S \in SUBSET Int, IsFiniteSet(S)
    PROVE  /\ Cardinality(S) \in Nat
           /\ Image!Ascending(S) \in Seq(S) /\ Len(Image!Ascending(S)) = Cardinality(S)
           /\ DOMAIN Image!Ascending(S) = 1 .. Cardinality(S)
           /\ \A n \in 1 .. Cardinality(S) : Image!Ascending(S)[n] \in S
           /\ \A x \in S : \E n \in 1 .. Cardinality(S) : Image!Ascending(S)[n] = x
           /\ \A m, n \in 1 .. Cardinality(S) : m < n => Image!Ascending(S)[m] < Image!Ascending(S)[n]
  <1>. DEFINE below == [x \in S |-> {y \in S : y < x}]
              list == Sorted(below)
  <1>1. \A x \in S : x \in Int
    OBVIOUS
  <1>2. DOMAIN below = S /\ Image!Ascending(S) = list
    BY DEF Image!Ascending, Image!Sorted, Sorted, Image!Cardinality, Cardinality
  <1>3. StrictOrder(below)
    <2>1. \A x, y \in S : x = y \/ x < y \/ y < x
      BY <1>1
    <2>2. \A x, y, z \in S : x < y /\ y < z => x < z
      BY <1>1
    <2>3. \A x \in S : ~ (x < x)
      BY <1>1
    <2>. QED
      BY <2>1, <2>2, <2>3, Zenon DEF StrictOrder
  <1>4. ListsOnce(list, S) /\ \A m, n \in DOMAIN list : m < n => list[m] \in below[list[n]]
    <2>. HIDE DEF below
    <2>. QED
      BY <1>2, <1>3, SortedLists
  <1>. HIDE DEF list
  <1>. QED
    BY <1>2, <1>4 DEF ListsOnce

(* A list in strict order is the only one of its elements.                 *)
LEMMA OneOrder ==
    ASSUME NEW S \in SUBSET Int, NEW N \in Nat, NEW f \in [1 .. N -> S],
           \A x \in S : \E n \in 1 .. N : f[n] = x,
           \A m, n \in 1 .. N : m < n => f[m] < f[n]
    PROVE  Cardinality(S) = N /\ Image!Ascending(S) = f
  <1>1. \A m, n \in 1 .. N : f[m] \in S /\ f[m] \in Int /\ f[n] \in Int /\ (f[m] < f[n] <=> m < n)
    <2>. TAKE m, n \in 1 .. N
    <2>1. f[m] \in S /\ f[m] \in Int /\ f[n] \in Int
      OBVIOUS
    <2>2. (m < n => f[m] < f[n]) /\ (n < m => f[n] < f[m]) /\ (m = n => f[m] = f[n])
      OBVIOUS
    <2>3. m < n \/ n < m \/ m = n
      OBVIOUS
    <2>. QED
      BY <2>1, <2>2, <2>3
  <1>2. \A k \in 0 .. N : Cardinality({f[m] : m \in 1 .. k}) = k
    <2>. TAKE k \in 0 .. N
    <2>. DEFINE h == [m \in 1 .. k |-> f[m]]
                T == {f[m] : m \in 1 .. k}
    <2>1. \A m, n \in 1 .. k : f[m] = f[n] => m = n
      <3>. SUFFICES ASSUME NEW m \in 1 .. k, NEW n \in 1 .. k, m # n PROVE f[m] # f[n]
        OBVIOUS
      <3>1. m \in 1 .. N /\ n \in 1 .. N /\ (m < n \/ n < m)
        OBVIOUS
      <3>2. f[m] \in Int /\ f[n] \in Int /\ (f[m] < f[n] \/ f[n] < f[m])
        BY <1>1, <3>1
      <3>. QED
        BY <3>2
    <2>2. h \in Bijection(1 .. k, T)
      BY <2>1 DEF Bijection, Injection, Surjection, IsInjective
    <2>3. IsFiniteSet(1 .. k) /\ Cardinality(1 .. k) = k
      BY FS_Interval
    <2>. HIDE DEF h, T
    <2>4. Cardinality(1 .. k) = Cardinality(T)
      BY <2>2, <2>3, FS_Bijection DEF ExistsBijection
    <2>. QED
      BY <2>3, <2>4 DEF T
  <1>3. S = {f[m] : m \in 1 .. N}
    BY <1>1
  <1>4. Cardinality(S) = N
    <2>1. Cardinality({f[m] : m \in 1 .. N}) = N
      BY <1>2
    <2>. QED
      BY <1>3, <2>1
  <1>5. \A n \in 1 .. N : Cardinality({y \in S : y < f[n]}) = n - 1
    <2>. TAKE n \in 1 .. N
    <2>. DEFINE A == {y \in S : y < f[n]}
                B == {f[m] : m \in 1 .. n - 1}
    <2>1. \A x : x \in B => x \in A
      BY <1>1
    <2>2. \A x : x \in A => x \in B
      <3>. SUFFICES ASSUME NEW m \in 1 .. N, f[m] < f[n] PROVE m \in 1 .. n - 1
        BY <1>1
      <3>. QED
        BY <1>1
    <2>3. PICK k \in 0 .. N : k = n - 1
      OBVIOUS
    <2>4. B = {f[m] : m \in 1 .. k}
      BY <2>3
    <2>5. Cardinality(B) = k
      BY <1>2, <2>4
    <2>. HIDE DEF A, B
    <2>6. A = B
      BY <2>1, <2>2
    <2>7. Cardinality(A) = n - 1
      BY <2>3, <2>5, <2>6
    <2>. QED
      BY <2>7 DEF A
  <1>. DEFINE below == [x \in S |-> {y \in S : y < x}]
  <1>6. Image!Ascending(S) = [n \in 1 .. N |-> CHOOSE d \in S : Cardinality(below[d]) = n - 1]
    <2>1. Image!Ascending(S) = Sorted(below) /\ DOMAIN below = S
      BY DEF Image!Ascending, Image!Sorted, Sorted, Image!Cardinality, Cardinality
    <2>. HIDE DEF below
    <2>. QED
      BY <1>4, <2>1 DEF Sorted
  <1>7. \A n \in 1 .. N : (CHOOSE d \in S : Cardinality(below[d]) = n - 1) = f[n]
    <2>. TAKE n \in 1 .. N
    <2>1. f[n] \in S /\ Cardinality(below[f[n]]) = n - 1
      BY <1>1, <1>5
    <2>2. \A d \in S : Cardinality(below[d]) = n - 1 => d = f[n]
      <3>. SUFFICES ASSUME NEW m \in 1 .. N, Cardinality(below[f[m]]) = n - 1 PROVE m = n
        BY <1>1
      <3>1. Cardinality(below[f[m]]) = m - 1
        BY <1>1, <1>5
      <3>. QED
        BY <3>1
    <2>. HIDE DEF below
    <2>. QED
      BY <2>1, <2>2
  <1>. HIDE DEF below
  <1>. QED
    BY <1>4, <1>6, <1>7

(* A list holds the L places of another, each at an index of its own.      *)
Reorders(s, rvas, L) ==
    /\ s \in [1 .. L -> Int]
    /\ \E ranked : /\ \A n \in 1 .. L : ranked[n] \in 1 .. L /\ s[n] = rvas[ranked[n]]
                  /\ \A m, n \in 1 .. L : ranked[m] = ranked[n] => m = n
    /\ \A i \in 1 .. L : \E n \in 1 .. L : s[n] = rvas[i]

(* The places as qsort leaves them.                                        *)
LEMMA InOrderAscends ==
    ASSUME NEW L \in Nat, NEW rvas \in [1 .. L -> Int]
    PROVE  /\ Reorders(Image!InOrder(rvas), rvas, L)
           /\ \A m, n \in 1 .. L : m < n => Image!InOrder(rvas)[m] <= Image!InOrder(rvas)[n]
  <1>. DEFINE D == 1 .. L
              below == [i \in D |-> {j \in D : rvas[j] < rvas[i] \/ (rvas[j] = rvas[i] /\ j < i)}]
              ranked == Sorted(below)
  <1>1. \A i \in D : i \in Int /\ rvas[i] \in Int
    OBVIOUS
  <1>2. DOMAIN rvas = D /\ DOMAIN below = D /\ IsFiniteSet(D) /\ Cardinality(D) = L
    BY FS_Interval
  <1>3. Image!InOrder(rvas) = [n \in DOMAIN ranked |-> rvas[ranked[n]]]
    BY <1>2 DEF Image!InOrder, Image!Sorted, Sorted, Image!Cardinality, Cardinality
  <1>4. StrictOrder(below)
    <2>. DEFINE ahead(j, i) == rvas[j] < rvas[i] \/ (rvas[j] = rvas[i] /\ j < i)
    <2>1. \A i, j \in D : i = j \/ ahead(i, j) \/ ahead(j, i)
      BY <1>1
    <2>2. \A i, j, k \in D : ahead(i, j) /\ ahead(j, k) => ahead(i, k)
      <3>. SUFFICES ASSUME NEW i \in D, NEW j \in D, NEW k \in D, ahead(i, j), ahead(j, k) PROVE ahead(i, k)
        OBVIOUS
      <3>1. PICK x, y, z \in Int : x = rvas[i] /\ y = rvas[j] /\ z = rvas[k]
        BY <1>1
      <3>. QED
        BY <1>1, <3>1
    <2>3. \A i \in D : ~ ahead(i, i)
      BY <1>1
    <2>4. \A i \in D : below[i] = {j \in D : ahead(j, i)}
      OBVIOUS
    <2>. HIDE DEF ahead, below, D
    <2>5. \A i \in D : below[i] \subseteq D /\ i \notin below[i]
      BY <2>3, <2>4
    <2>6. \A i, j \in D : j \in below[i] => below[j] \subseteq below[i]
      BY <2>2, <2>4
    <2>7. \A i, j \in D : i = j \/ i \in below[j] \/ j \in below[i]
      BY <2>1, <2>4
    <2>. QED
      BY <1>2, <2>5, <2>6, <2>7, Zenon DEF StrictOrder
  <1>5. /\ DOMAIN ranked = D
        /\ \A n \in D : ranked[n] \in D
        /\ \A i \in D : \E n \in D : ranked[n] = i
        /\ \A m, n \in D : ranked[m] = ranked[n] => m = n
        /\ \A m, n \in D : m < n => ranked[m] \in below[ranked[n]]
    <2>. HIDE DEF below, D
    <2>1. ListsOnce(ranked, D) /\ \A m, n \in DOMAIN ranked : m < n => ranked[m] \in below[ranked[n]]
      BY <1>2, <1>4, SortedLists
    <2>2. DOMAIN ranked = 1 .. L
      BY <1>2, <2>1 DEF ListsOnce
    <2>. QED
      BY <2>1, <2>2 DEF ListsOnce, D
  <1>. HIDE DEF ranked
  <1>6. \A m, n \in D : m < n => rvas[ranked[m]] <= rvas[ranked[n]]
    <2>. SUFFICES ASSUME NEW m \in D, NEW n \in D, m < n PROVE rvas[ranked[m]] <= rvas[ranked[n]]
      OBVIOUS
    <2>1. ranked[m] \in D /\ ranked[n] \in D /\ ranked[m] \in below[ranked[n]]
      BY <1>5
    <2>. QED
      BY <1>1, <2>1
  <1>. DEFINE s == Image!InOrder(rvas)
  <1>7. s = [n \in D |-> rvas[ranked[n]]] /\ \A n \in D : ranked[n] \in D /\ rvas[ranked[n]] \in Int
    BY <1>1, <1>3, <1>5
  <1>. HIDE DEF s
  <1>8. s \in [D -> Int] /\ \A n \in D : s[n] = rvas[ranked[n]]
    BY <1>7
  <1>9. \E o : /\ \A n \in D : o[n] \in D /\ s[n] = rvas[o[n]]
               /\ \A m, n \in D : o[m] = o[n] => m = n
    BY <1>5, <1>7, <1>8
  <1>10. \A i \in D : \E n \in D : s[n] = rvas[i]
    <2>. HIDE DEF D
    <2>. QED
      BY <1>5, <1>8
  <1>11. \A m, n \in D : m < n => s[m] <= s[n]
    <2>. HIDE DEF D
    <2>. QED
      BY <1>6, <1>8
  <1>. QED
    BY <1>8, <1>9, <1>10, <1>11 DEF s, Reorders

(* Pages do not descend when places do not.                                *)
LEMMA PageUp ==
    ASSUME PAGE \in Nat \ {0}, NEW x \in Int, NEW y \in Int, x <= y
    PROVE  Image!PageOf(x) \in Int /\ Image!PageOf(x) <= Image!PageOf(y)
  <1>. DEFINE p == x \div PAGE
              q == y \div PAGE
  <1>1. p \in Int /\ q \in Int /\ p * PAGE <= x /\ y < q * PAGE + PAGE
    OBVIOUS
  <1>2. Image!PageOf(x) = p * PAGE /\ Image!PageOf(y) = q * PAGE
    BY DEF Image!PageOf
  <1>. HIDE DEF p, q
  <1>3. p * PAGE \in Int /\ q * PAGE \in Int
    BY <1>1
  <1>4. p <= q
    <2>. SUFFICES ASSUME q + 1 <= p PROVE FALSE
      BY <1>1
    <2>1. (q + 1) * PAGE <= p * PAGE
      BY <1>1
    <2>2. (q + 1) * PAGE = q * PAGE + PAGE
      BY <1>1
    <2>. QED
      BY <1>1, <1>3, <2>1, <2>2
  <1>5. p * PAGE <= q * PAGE
    BY <1>1, <1>4
  <1>. QED
    BY <1>2, <1>3, <1>5

(* Runs of neighbours on one page, in a list in strict order, are all the  *)
(* places of that page: the writer's walk makes a block for each page.     *)
LEMMA RunsArePages ==
    ASSUME PAGE \in Nat \ {0}, NEW L \in Nat, NEW s \in [1 .. L -> Int], Len(s) = L,
           \A m, n \in 1 .. L : m < n => s[m] < s[n]
    PROVE  Image!Blocks(s) = PageBlocks({s[i] : i \in 1 .. L})
  <1>. DEFINE D == 1 .. L
              R == {s[i] : i \in D}
              pg == [i \in D |-> Image!PageOf(s[i])]
              T == Image!Starts(s)
              K == Cardinality(T)
              st == Image!Ascending(T)
              q == [n \in 1 .. K |-> pg[st[n]]]
              ed == [n \in 1 .. K |-> IF n < K THEN st[n + 1] - 1 ELSE L]
              places == {Image!PageOf(r) : r \in R}
              Q(p) == {x - p : x \in {r \in R : Image!PageOf(r) = p}}
  <1>1. \A i, j \in D : /\ i \in Int /\ s[i] \in Int /\ pg[i] \in Int
                        /\ i < j => s[i] < s[j]
                        /\ i <= j => pg[i] <= pg[j]
    <2>. TAKE i, j \in D
    <2>1. i \in Int /\ j \in Int /\ s[i] \in Int /\ s[j] \in Int /\ (i < j => s[i] < s[j])
      OBVIOUS
    <2>2. i <= j => s[i] <= s[j]
      <3>1. i = j \/ i < j \/ j < i
        BY <2>1
      <3>. QED
        BY <2>1, <3>1
    <2>3. Image!PageOf(s[i]) \in Int /\ (s[i] <= s[j] => Image!PageOf(s[i]) <= Image!PageOf(s[j]))
      BY <2>1, PageUp
    <2>. QED
      BY <2>1, <2>2, <2>3
  <1>2. /\ T = {n \in D : n = 1 \/ pg[n] # pg[n - 1]}
        /\ T \in SUBSET D /\ T \in SUBSET Int /\ IsFiniteSet(T)
    <2>1. T = {n \in D : n = 1 \/ pg[n] # pg[n - 1]}
      <3>1. DOMAIN s = D
        OBVIOUS
      <3>2. \A n \in D : n # 1 => n - 1 \in D
        OBVIOUS
      <3>. QED
        BY <3>1, <3>2 DEF Image!Starts
    <2>2. IsFiniteSet(D)
      BY FS_Interval
    <2>. HIDE DEF T
    <2>3. T \in SUBSET D
      BY <2>1
    <2>4. T \in SUBSET Int
      BY <1>1, <2>3
    <2>5. IsFiniteSet(T)
      BY <2>2, <2>3, FS_Subset
    <2>. QED
      BY <2>1, <2>3, <2>4, <2>5
  <1>. HIDE DEF T, pg
  <1>3. /\ K \in Nat /\ DOMAIN st = 1 .. K /\ st \in Seq(T) /\ Len(st) = K
        /\ \A n \in 1 .. K : st[n] \in T
        /\ \A x \in T : \E n \in 1 .. K : st[n] = x
        /\ \A m, n \in 1 .. K : m < n => st[m] < st[n]
    BY <1>2, AscendingLists
  <1>. HIDE DEF K, st
  <1>4. \A i \in D : \E j \in T : j <= i /\ pg[j] = pg[i]
    <2>. TAKE i \in D
    <2>. DEFINE W == {j \in D : pg[j] = pg[i]}
                least == Image!Ascending(W)[1]
    <2>1. W \in SUBSET Int /\ IsFiniteSet(W) /\ i \in W
      BY FS_Interval, FS_Subset
    <2>. HIDE DEF W
    <2>2. /\ Cardinality(W) \in Nat
          /\ \A n \in 1 .. Cardinality(W) : Image!Ascending(W)[n] \in W
          /\ \A x \in W : \E n \in 1 .. Cardinality(W) : Image!Ascending(W)[n] = x
          /\ \A m, n \in 1 .. Cardinality(W) : m < n => Image!Ascending(W)[m] < Image!Ascending(W)[n]
      BY <2>1, AscendingLists
    <2>3. 1 \in 1 .. Cardinality(W)
      BY <2>1, <2>2
    <2>4. least \in W
      BY <2>2, <2>3
    <2>5. \A x \in W : least <= x
      <3>. TAKE x \in W
      <3>1. PICK n \in 1 .. Cardinality(W) : Image!Ascending(W)[n] = x
        BY <2>2
      <3>2. n = 1 \/ 1 < n
        BY <2>2
      <3>3. least = x \/ least < x
        BY <2>2, <2>3, <3>1, <3>2
      <3>4. least \in Int /\ x \in Int
        BY <2>1, <2>4
      <3>. HIDE DEF least
      <3>. QED
        BY <3>3, <3>4
    <2>. HIDE DEF least
    <2>6. least \in D /\ pg[least] = pg[i] /\ least <= i
      BY <2>1, <2>4, <2>5 DEF W
    <2>7. least # 1 => pg[least] # pg[least - 1]
      <3>. SUFFICES ASSUME least # 1, pg[least - 1] = pg[i] PROVE FALSE
        BY <2>6
      <3>1. least - 1 \in D /\ ~ (least <= least - 1)
        BY <2>6
      <3>2. least - 1 \in W
        BY <3>1 DEF W
      <3>. QED
        BY <2>5, <3>1, <3>2
    <2>. QED
      BY <1>2, <2>6, <2>7
  <1>5. \A j \in T : \A i \in D : i < j => pg[i] < pg[j]
    <2>. SUFFICES ASSUME NEW j \in T, NEW i \in D, i < j PROVE pg[i] < pg[j]
      OBVIOUS
    <2>1. j \in D /\ j # 1 /\ pg[j] # pg[j - 1]
      BY <1>2
    <2>2. j - 1 \in D /\ i <= j - 1 /\ j - 1 <= j
      BY <2>1
    <2>3. pg[i] <= pg[j - 1] /\ pg[j - 1] <= pg[j]
      BY <1>1, <2>1, <2>2
    <2>4. pg[i] \in Int /\ pg[j - 1] \in Int /\ pg[j] \in Int
      BY <1>1, <2>1, <2>2
    <2>. QED
      BY <2>1, <2>3, <2>4
  <1>6. q = Image!Ascending(places) /\ Cardinality(places) = K
    <2>1. \A n \in 1 .. K : q[n] = pg[st[n]] /\ st[n] \in D /\ q[n] \in places
      BY <1>2, <1>3 DEF pg
    <2>2. places \in SUBSET Int
      BY <1>1 DEF pg
    <2>3. \A x \in places : \E n \in 1 .. K : q[n] = x
      <3>. SUFFICES ASSUME NEW x \in places PROVE \E n \in 1 .. K : q[n] = x
        OBVIOUS
      <3>0. PICK i \in D : x = pg[i]
        BY DEF pg
      <3>1. PICK j \in T : pg[j] = pg[i]
        BY <1>4
      <3>2. PICK n \in 1 .. K : st[n] = j
        BY <1>3
      <3>. QED
        BY <2>1, <3>0, <3>1, <3>2
    <2>4. \A m, n \in 1 .. K : m < n => q[m] < q[n]
      BY <1>3, <1>5, <2>1
    <2>5. q \in [1 .. K -> places]
      BY <2>1
    <2>. HIDE DEF q, places
    <2>. QED
      BY <1>3, <2>2, <2>3, <2>4, <2>5, OneOrder
  <1>7. ASSUME NEW n \in 1 .. K
        PROVE  /\ st[n] \in D /\ ed[n] \in Int /\ st[n] <= ed[n] /\ ed[n] <= L
               /\ \A i \in D : pg[i] = q[n] <=> st[n] <= i /\ i <= ed[n]
    <2>1. st[n] \in T /\ st[n] \in D /\ q[n] = pg[st[n]] /\ ed[n] = IF n < K THEN st[n + 1] - 1 ELSE L
      BY <1>2, <1>3
    <2>2. n < K => n + 1 \in 1 .. K /\ st[n + 1] \in T /\ st[n + 1] \in D /\ st[n] < st[n + 1]
      BY <1>2, <1>3
    <2>. HIDE DEF q, ed
    <2>3. ed[n] \in Int /\ st[n] <= ed[n] /\ ed[n] <= L
      BY <2>1, <2>2
    <2>4. ASSUME NEW i \in D, pg[i] = q[n] PROVE st[n] <= i /\ i <= ed[n]
      <3>1. ~ (i < st[n])
        BY <1>1, <1>5, <2>1, <2>4
      <3>2. n < K => ~ (st[n + 1] <= i)
        <4>. SUFFICES ASSUME n < K, st[n + 1] <= i PROVE FALSE
          OBVIOUS
        <4>1. pg[st[n]] < pg[st[n + 1]] /\ pg[st[n + 1]] <= pg[i]
          BY <1>1, <1>5, <2>1, <2>2
        <4>2. pg[st[n]] \in Int /\ pg[st[n + 1]] \in Int /\ pg[i] \in Int
          BY <1>1, <2>1, <2>2
        <4>. QED
          BY <2>1, <2>4, <4>1, <4>2
      <3>3. CASE n < K
        <4>1. ed[n] = st[n + 1] - 1 /\ st[n + 1] \in Int /\ st[n] \in Int /\ i \in Int
          BY <1>1, <2>1, <2>2, <3>3
        <4>2. ~ (st[n + 1] <= i) /\ ~ (i < st[n])
          BY <3>1, <3>2, <3>3
        <4>. QED
          BY <4>1, <4>2
      <3>4. CASE ~ (n < K)
        BY <2>1, <3>1, <3>4
      <3>. QED
        BY <3>3, <3>4
    <2>5. ASSUME NEW i \in D, st[n] <= i, i <= ed[n] PROVE pg[i] = q[n]
      <3>a. PICK j \in T : j <= i /\ pg[j] = pg[i]
        BY <1>4
      <3>b. PICK k \in 1 .. K : st[k] = j
        BY <1>3
      <3>1. st[k] \in D /\ st[k] \in T /\ st[k] <= i /\ pg[st[k]] = pg[i]
        BY <1>2, <3>a, <3>b
      <3>2. ~ (n < k)
        <4>. SUFFICES ASSUME n < k PROVE FALSE
          OBVIOUS
        <4>0. K \in Nat
          BY <1>3
        <4>1. n < K /\ n + 1 \in 1 .. K /\ (n + 1 = k \/ n + 1 < k)
          BY <4>0
        <4>2. st[n + 1] <= st[k]
          BY <1>3, <2>2, <3>1, <4>1
        <4>. QED
          BY <2>1, <2>2, <2>5, <3>1, <4>1, <4>2
      <3>3. ~ (k < n)
        <4>. SUFFICES ASSUME k < n PROVE FALSE
          OBVIOUS
        <4>1. st[k] < st[n]
          BY <1>3
        <4>2. pg[st[k]] < pg[st[n]] /\ pg[st[n]] <= pg[i]
          BY <1>1, <1>5, <2>1, <2>5, <3>1, <4>1
        <4>3. pg[st[k]] \in Int /\ pg[st[n]] \in Int
          BY <1>1, <2>1, <3>1
        <4>. QED
          BY <3>1, <4>2, <4>3
      <3>4. k = n
        BY <3>2, <3>3
      <3>. QED
        BY <2>1, <3>1, <3>4
    <2>. QED
      BY <2>1, <2>3, <2>4, <2>5
  <1>8. ASSUME NEW n \in 1 .. K
        PROVE  [m \in 1 .. ed[n] - st[n] + 1 |-> s[st[n] + m - 1] - q[n]] = Image!Ascending(Q(q[n]))
    <2>. DEFINE N == ed[n] - st[n] + 1
                f == [m \in 1 .. N |-> s[st[n] + m - 1] - q[n]]
                p == q[n]
    <2>1. /\ st[n] \in D /\ ed[n] \in Int /\ st[n] <= ed[n] /\ ed[n] <= L
          /\ \A i \in D : pg[i] = p <=> st[n] <= i /\ i <= ed[n]
      BY <1>7
    <2>2. p \in Int
      BY <1>1, <2>1
    <2>. HIDE DEF p, q, ed
    <2>3. N \in Nat /\ \A m \in 1 .. N : /\ st[n] + m - 1 \in D /\ st[n] <= st[n] + m - 1 /\ st[n] + m - 1 <= ed[n]
                                         /\ m \in Int
      BY <2>1
    <2>4. \A m \in 1 .. N : f[m] = s[st[n] + m - 1] - p /\ f[m] \in Q(p)
      <3>. TAKE m \in 1 .. N
      <3>1. st[n] + m - 1 \in D /\ pg[st[n] + m - 1] = p
        BY <2>1, <2>3
      <3>. QED
        BY <3>1 DEF pg, p
    <2>5. \A x \in Q(p) : \E m \in 1 .. N : f[m] = x
      <3>. SUFFICES ASSUME NEW i \in D, Image!PageOf(s[i]) = p PROVE \E m \in 1 .. N : f[m] = s[i] - p
        OBVIOUS
      <3>1. st[n] <= i /\ i <= ed[n] /\ i \in Int
        BY <2>1 DEF pg
      <3>2. i - st[n] + 1 \in 1 .. N /\ st[n] + (i - st[n] + 1) - 1 = i
        BY <2>1, <3>1
      <3>. QED
        BY <2>4, <3>2
    <2>6. \A k, m \in 1 .. N : k < m => f[k] < f[m]
      <3>. SUFFICES ASSUME NEW k \in 1 .. N, NEW m \in 1 .. N, k < m PROVE f[k] < f[m]
        OBVIOUS
      <3>1. PICK i, j \in D : i = st[n] + k - 1 /\ j = st[n] + m - 1
        BY <2>3
      <3>2. i < j
        BY <2>1, <2>3, <3>1
      <3>3. f[k] = s[i] - p /\ f[m] = s[j] - p /\ s[i] < s[j] /\ s[i] \in Int /\ s[j] \in Int
        BY <1>1, <2>4, <3>1, <3>2
      <3>. HIDE DEF f
      <3>. QED
        BY <2>2, <3>3
    <2>7. Q(p) \in SUBSET Int /\ f \in [1 .. N -> Q(p)]
      BY <1>1, <2>2, <2>4
    <2>. HIDE DEF f, N, Q
    <2>8. Image!Ascending(Q(p)) = f
      BY <2>3, <2>5, <2>6, <2>7, OneOrder
    <2>. QED
      BY <2>8 DEF f, N, p
  <1>9. PageBlocks(R) = [n \in 1 .. K |-> [page |-> q[n], offsets |-> Image!Ascending(Q(q[n]))]]
    <2>1. PageBlocks(R) = [n \in DOMAIN Image!Ascending(places) |->
                             [page |-> Image!Ascending(places)[n], offsets |-> Image!Ascending(Q(Image!Ascending(places)[n]))]]
      BY DEF PageBlocks
    <2>2. DOMAIN q = 1 .. K
      OBVIOUS
    <2>. HIDE DEF q, Q, places, R
    <2>. QED
      BY <1>6, <2>1, <2>2
  <1>10. Image!Blocks(s) = [n \in 1 .. K |-> [page |-> q[n], offsets |->
                               [m \in 1 .. ed[n] - st[n] + 1 |-> s[st[n] + m - 1] - q[n]]]]
    <2>. DEFINE end(n) == IF n < Len(st) THEN st[n + 1] - 1 ELSE Len(s)
                B(n) == [page |-> Image!PageOf(s[st[n]]),
                         offsets |-> [m \in 1 .. end(n) - st[n] + 1 |-> s[st[n] + m - 1] - Image!PageOf(s[st[n]])]]
                C(n) == [page |-> q[n], offsets |-> [m \in 1 .. ed[n] - st[n] + 1 |-> s[st[n] + m - 1] - q[n]]]
    <2>1. Image!Blocks(s) = [n \in DOMAIN st |-> B(n)]
      BY DEF Image!Blocks, st, T
    <2>2. \A n \in 1 .. K : B(n) = C(n)
      <3>. TAKE n \in 1 .. K
      <3>1. q[n] = Image!PageOf(s[st[n]]) /\ ed[n] = end(n)
        BY <1>3, <1>7 DEF pg
      <3>. HIDE DEF q, ed, end
      <3>. QED
        BY <3>1
    <2>3. DOMAIN st = 1 .. K
      BY <1>3
    <2>. HIDE DEF B, C
    <2>4. [n \in DOMAIN st |-> B(n)] = [n \in 1 .. K |-> C(n)]
      BY <2>2, <2>3
    <2>. QED
      BY <2>1, <2>4 DEF C
  <1>. DEFINE F(n) == [m \in 1 .. ed[n] - st[n] + 1 |-> s[st[n] + m - 1] - q[n]]
              G(n) == Image!Ascending(Q(q[n]))
  <1>11. \A n \in 1 .. K : F(n) = G(n)
    BY <1>8
  <1>. HIDE DEF F, G, q
  <1>12. [n \in 1 .. K |-> [page |-> q[n], offsets |-> F(n)]] = [n \in 1 .. K |-> [page |-> q[n], offsets |-> G(n)]]
    BY <1>11
  <1>. QED
    BY <1>9, <1>10, <1>12 DEF F, G



(* The types of an object's parts.                                         *)
LEMMA ObjectParts ==
    ASSUME NEW o \in Image!Objects
    PROVE  /\ o.target \in Nat /\ o.entry \in Nat
           /\ o.sections \in [Image!Sections -> Seq(Nat)]
           /\ o.symbols \in Seq(Image!SymbolRecords) /\ o.relocs \in Seq(Image!RelocRecords)
           /\ \A k \in Image!Sections : Image!Size(o, k) \in Nat
           /\ Len(o.symbols) \in Nat /\ DOMAIN o.symbols = 1 .. Len(o.symbols)
           /\ Len(o.relocs) \in Nat /\ DOMAIN o.relocs = 1 .. Len(o.relocs)
           /\ \A n \in DOMAIN o.symbols : o.symbols[n] \in Image!SymbolRecords
           /\ \A n \in DOMAIN o.relocs : o.relocs[n] \in Image!RelocRecords
  BY DEF Image!Objects, Image!Size

(* The bytes the data section takes.                                       *)
DataUsed(o) == IF Image!Size(o, Image!DATA) > 0 THEN Image!Size(o, Image!DATA) ELSE W64

(* Sections start at pages, each after what the one before takes.          *)
LEMMA LaidOut ==
    ASSUME ImageAssumed, NEW o \in Image!Objects, Image!LayoutOK(o)
    PROVE  /\ \A k \in Image!Sections : Image!Size(o, k) \in Nat
           /\ Image!Size(o, Image!TEXT) > 0 /\ DataUsed(o) \in Nat \ {0} /\ Image!Size(o, Image!DATA) <= DataUsed(o)
           /\ Image!Layout(o).text = PAGE
           /\ \E i \in Nat : Image!Layout(o).rdata = i * PAGE
           /\ \E i \in Nat : Image!Layout(o).data = i * PAGE
           /\ \E i \in Nat : Image!Layout(o).reloc = i * PAGE
           /\ {Image!Layout(o).rdata, Image!Layout(o).data, Image!Layout(o).reloc} \subseteq Nat
           /\ PAGE + Image!UpTo(Image!Size(o, Image!TEXT), RAW) <= Image!Layout(o).rdata
           /\ Image!Layout(o).rdata + Image!UpTo(W64 + Image!Size(o, Image!RDATA), RAW) <= Image!Layout(o).data
           /\ Image!Layout(o).data + Image!UpTo(DataUsed(o), RAW) <= Image!Layout(o).reloc
           /\ Image!Layout(o).rdata = Image!UpTo(PAGE + Image!Size(o, Image!TEXT), PAGE)
           /\ Image!Layout(o).data = Image!UpTo(Image!Layout(o).rdata + (W64 + Image!Size(o, Image!RDATA)), PAGE)
           /\ Image!Layout(o).reloc = Image!UpTo(Image!Layout(o).data + DataUsed(o), PAGE)
  <1>1. PAGE \in Nat \ {0} /\ W64 \in Nat \ {0}
    BY NxoAssumption DEF ImageAssumed, Image!PeAssumption
  <1>2. \A k \in Image!Sections : Image!Size(o, k) \in Nat
    BY ObjectParts
  <1>3. Image!TEXT \in Image!Sections /\ Image!RDATA \in Image!Sections /\ Image!DATA \in Image!Sections
    BY DEF Image!TEXT, Image!RDATA, Image!DATA, Image!Sections
  <1>4. /\ Image!Layout(o).text = PAGE
        /\ Image!Layout(o).rdata = Image!UpTo(PAGE + Image!Size(o, Image!TEXT), PAGE)
        /\ Image!Layout(o).data = Image!UpTo(Image!Layout(o).rdata + W64 + Image!Size(o, Image!RDATA), PAGE)
        /\ Image!Layout(o).reloc = Image!UpTo(Image!Layout(o).data + DataUsed(o), PAGE)
    BY DEF Image!Layout, DataUsed
  <1>5. DataUsed(o) \in Nat \ {0} /\ Image!Size(o, Image!DATA) <= DataUsed(o)
    BY <1>1, <1>2, <1>3 DEF DataUsed
  <1>6. PAGE = 1 * PAGE /\ PAGE + Image!Size(o, Image!TEXT) \in Nat
    BY <1>1, <1>2, <1>3
  <1>7. /\ Image!Layout(o).rdata \in Nat /\ \E i \in Nat : Image!Layout(o).rdata = i * PAGE
        /\ PAGE + Image!UpTo(Image!Size(o, Image!TEXT), RAW) <= Image!Layout(o).rdata
    <2>1. /\ Image!UpTo(PAGE + Image!Size(o, Image!TEXT), PAGE) \in Nat
          /\ \E i \in Nat : Image!UpTo(PAGE + Image!Size(o, Image!TEXT), PAGE) = i * PAGE
      BY <1>1, <1>6, RoundedUp
    <2>2. PAGE + Image!UpTo(Image!Size(o, Image!TEXT), RAW) <= Image!UpTo(PAGE + Image!Size(o, Image!TEXT), PAGE)
      BY <1>1, <1>2, <1>3, <1>6, RawFits
    <2>. QED
      BY <1>4, <2>1, <2>2
  <1>8. W64 + Image!Size(o, Image!RDATA) \in Nat /\ Image!Layout(o).rdata + (W64 + Image!Size(o, Image!RDATA)) \in Nat
        /\ Image!Layout(o).rdata + (W64 + Image!Size(o, Image!RDATA)) = Image!Layout(o).rdata + W64 + Image!Size(o, Image!RDATA)
    BY <1>1, <1>2, <1>3, <1>7
  <1>9. /\ Image!Layout(o).data \in Nat /\ \E i \in Nat : Image!Layout(o).data = i * PAGE
        /\ Image!Layout(o).rdata + Image!UpTo(W64 + Image!Size(o, Image!RDATA), RAW) <= Image!Layout(o).data
    <2>. DEFINE s == Image!Layout(o).rdata + (W64 + Image!Size(o, Image!RDATA))
    <2>1. Image!UpTo(s, PAGE) \in Nat /\ \E i \in Nat : Image!UpTo(s, PAGE) = i * PAGE
      BY <1>1, <1>8, RoundedUp
    <2>2. Image!Layout(o).rdata + Image!UpTo(W64 + Image!Size(o, Image!RDATA), RAW) <= Image!UpTo(s, PAGE)
      BY <1>7, <1>8, RawFits
    <2>. QED
      BY <1>4, <1>8, <2>1, <2>2
  <1>10. Image!Layout(o).data + DataUsed(o) \in Nat
    BY <1>5, <1>9
  <1>11. /\ Image!Layout(o).reloc \in Nat /\ \E i \in Nat : Image!Layout(o).reloc = i * PAGE
         /\ Image!Layout(o).data + Image!UpTo(DataUsed(o), RAW) <= Image!Layout(o).reloc
    <2>1. Image!UpTo(Image!Layout(o).data + DataUsed(o), PAGE) \in Nat
          /\ \E i \in Nat : Image!UpTo(Image!Layout(o).data + DataUsed(o), PAGE) = i * PAGE
      BY <1>1, <1>10, RoundedUp
    <2>2. Image!Layout(o).data + Image!UpTo(DataUsed(o), RAW) <= Image!UpTo(Image!Layout(o).data + DataUsed(o), PAGE)
      BY <1>5, <1>9, RawFits
    <2>. QED
      BY <1>4, <2>1, <2>2
  <1>12. Image!Size(o, Image!TEXT) > 0
    BY DEF Image!LayoutOK
  <1>. QED
    BY <1>2, <1>4, <1>5, <1>7, <1>8, <1>9, <1>11, <1>12

(* A relocation lies behind all before it, though only neighbours are      *)
(* compared.                                                               *)
Behind(p, r) == p.section < r.section \/ (p.section = r.section /\ p.offset + Image!Width(p.kind) <= r.offset)

LEMMA FieldsApart ==
    ASSUME NEW o \in Image!Objects, Image!Valid(o),
           NEW j \in DOMAIN o.relocs, NEW k \in DOMAIN o.relocs, j < k
    PROVE  Behind(o.relocs[j], o.relocs[k])
  <1>. DEFINE Bad == {n \in DOMAIN o.relocs : j < n /\ ~ Behind(o.relocs[j], o.relocs[n])}
  <1>. SUFFICES ASSUME Bad # {} PROVE FALSE
    OBVIOUS
  <1>1. /\ DOMAIN o.relocs = 1 .. Len(o.relocs) /\ Len(o.relocs) \in Nat
        /\ \A n \in DOMAIN o.relocs : o.relocs[n].section \in Nat /\ o.relocs[n].offset \in Nat
    BY ObjectParts DEF Image!RelocRecords
  <1>. Bad \in SUBSET Nat
    BY <1>1
  <1>2. PICK n \in Bad : \A m \in Bad : n <= m
    <2>1. IsWellFoundedOn(OpToRel(<, Nat), Nat)
      BY NatLessThanWellFounded
    <2>2. PICK n \in Bad : \A m \in Bad : ~ (<<m, n>> \in OpToRel(<, Nat))
      BY <2>1, WFMin
    <2>3. \A m \in Bad : ~ (m < n)
      BY <2>2 DEF OpToRel
    <2>. QED
      BY <2>3
  <1>3. n \in DOMAIN o.relocs /\ n > 1 /\ n - 1 \in DOMAIN o.relocs
    BY <1>1
  <1>. DEFINE r == o.relocs[n]
              p == o.relocs[n - 1]
              q == o.relocs[j]
  <1>a. /\ r.section \in Nat /\ r.offset \in Nat /\ p.section \in Nat /\ p.offset \in Nat
        /\ q.section \in Nat /\ q.offset \in Nat
        /\ Image!Width(p.kind) \in Nat /\ Image!Width(q.kind) \in Nat
    BY <1>1, <1>3, NxoAssumption DEF Image!Width
  <1>b. Image!ValidReloc(o, n)
    BY <1>3 DEF Image!Valid
  <1>4. Behind(p, r)
    BY <1>a, <1>3, <1>b DEF Image!ValidReloc, Behind
  <1>5. n - 1 \notin Bad
    BY <1>1, <1>2, <1>3
  <1>6. n - 1 = j \/ Behind(q, p)
    BY <1>1, <1>2, <1>3, <1>5
  <1>7. ~ Behind(q, r)
    OBVIOUS
  <1>8. Behind(q, p) => Behind(q, r)
    <2>. HIDE DEF p, q, r
    <2>. QED
      BY <1>a, <1>4 DEF Behind
  <1>. QED
    BY <1>4, <1>6, <1>7, <1>8

-----------------------------------------------------------------------------

(* A site, whether it holds a byte, and the value it is patched with.      *)
Reloc(j) == object.relocs[j]
Hit(j, k, x) == Reloc(j).section = k /\ x \in Reloc(j).offset + 1 .. Reloc(j).offset + Image!Width(Reloc(j).kind)
ValueOf(j) ==
    LET r == Reloc(j)
        s == object.symbols[r.target]
        l == Image!Layout(object)
    IN  Image!FieldValue(r.kind, Image!LogicalRva(l, r.section) + r.offset,
                         Image!LogicalRva(l, s.section) + s.offset, r.addend)
(* What a byte of the artifact may be.                                     *)
ImageCells == {<<b>> : b \in Nat} \cup ({"field"} \X Int \X Nat)
PlaceOf(j) == [section |-> Reloc(j).section, offset |-> Reloc(j).offset]
(* The sites before the n-th.                                              *)
Passed(n) == {j \in DOMAIN object.relocs : j < n}

(* What has been checked when, and what was written.                       *)
ImageStage ==
    /\ object \in Image!Objects
    /\ site \in Nat \ {0}
    /\ step \in {"materialize", "patch", "make_pe", "made", "failed", "done"}
    /\ step \in {"patch", "make_pe", "made"} => Image!Materializable(object) /\ site <= Len(object.relocs) + 1
    /\ step = "materialize" => site = 1
    /\ step \in {"make_pe", "made"} => site = Len(object.relocs) + 1
    /\ step = "made" => image = Image!Written(artifact, PageBlocks(Adjustable))

(* The artifact has sections of the object's sizes, and its entry.         *)
Copied ==
    step \in {"patch", "make_pe", "made"} =>
        /\ artifact = [sections |-> artifact.sections, entry |-> artifact.entry, base |-> artifact.base]
        /\ artifact.entry = object.symbols[object.entry].offset
        /\ artifact.sections \in [Image!Sections -> Seq(ImageCells)]
        /\ \A k \in Image!Sections : Len(artifact.sections[k]) = Image!Size(object, k)

(* The sites passed hold their values; where none is, the object's bytes   *)
(* are.                                                                    *)
PatchedSoFar ==
    step \in {"patch", "make_pe", "made"} =>
        /\ \A j \in Passed(site) : \A n \in 1 .. Image!Width(Reloc(j).kind) :
              artifact.sections[Reloc(j).section][Reloc(j).offset + n] = <<"field", ValueOf(j), n>>
        /\ \A k \in Image!Sections : \A x \in 1 .. Image!Size(object, k) :
              (\A j \in Passed(site) : ~ Hit(j, k, x)) => artifact.sections[k][x] = <<object.sections[k][x]>>

(* The absolute sites passed are those of the base relocations.            *)
PlacesSoFar ==
    step \in {"patch", "make_pe", "made"} =>
        /\ artifact.base \in Seq([section : Image!Sections, offset : Nat])
        /\ {artifact.base[n] : n \in DOMAIN artifact.base} = {PlaceOf(j) : j \in Image!Absolute(object) \cap Passed(site)}

ImageIInv == ImageStage /\ Copied /\ PatchedSoFar /\ PlacesSoFar

(* A function on the first numbers is a sequence.                          *)
LEMMA ListsOf ==
    ASSUME NEW C, NEW n \in Nat, NEW f \in [1 .. n -> C]
    PROVE  f \in Seq(C) /\ Len(f) = n
  <1>1. f \in Seq(C)
    BY SeqDef
  <1>2. Len(f) \in Nat /\ 1 .. Len(f) = 1 .. n
    BY <1>1, LenProperties
  <1>. QED
    BY <1>1, <1>2

LEMMA ImageInit == ASSUME ImageAssumed, Image!Init PROVE ImageIInv
  <1>1. object \in Image!Objects
    BY DEF Image!Init, ImageAssumed, Image!PeAssumption
  <1>. QED
    BY <1>1 DEF Image!Init, ImageIInv, ImageStage, Copied, PatchedSoFar, PlacesSoFar

(* The parts of one relocation of a valid object.                          *)
LEMMA RelocParts ==
    ASSUME object \in Image!Objects, Image!Materializable(object), NEW j \in DOMAIN object.relocs
    PROVE  /\ j \in Nat /\ j >= 1
           /\ Reloc(j).kind \in {"REL32", "DIR64"} /\ Reloc(j).section \in Image!Sections
           /\ Reloc(j).offset \in Nat /\ Reloc(j).addend \in Int
           /\ Image!Width(Reloc(j).kind) \in Nat \ {0}
           /\ Reloc(j).offset + Image!Width(Reloc(j).kind) <= Image!Size(object, Reloc(j).section)
           /\ Reloc(j).target \in DOMAIN object.symbols
           /\ object.symbols[Reloc(j).target].section \in Image!Sections
           /\ object.symbols[Reloc(j).target].offset \in Nat
  <1>. DEFINE r == Reloc(j)
              s == object.symbols[r.target]
  <1>1. Image!ValidReloc(object, j) /\ Image!Valid(object) /\ \A i \in DOMAIN object.symbols : ~ object.symbols[i].import
    BY DEF Image!Materializable, Image!Valid
  <1>2. r \in Image!RelocRecords /\ j \in 1 .. Len(object.relocs)
    BY ObjectParts DEF Reloc
  <1>3. r.section \in Nat /\ r.offset \in Nat /\ r.addend \in Int
    BY <1>2 DEF Image!RelocRecords
  <1>4. /\ r.kind \in {"REL32", "DIR64"} /\ r.section \in Image!Sections
        /\ r.target \in 1 .. Len(object.symbols)
        /\ Image!Span(r.offset, Image!Width(r.kind), Image!Size(object, r.section))
    BY <1>1 DEF Image!ValidReloc, Reloc
  <1>5. Image!Width(r.kind) \in Nat \ {0} /\ Image!Size(object, r.section) \in Nat
    BY <1>4, ObjectParts, NxoAssumption DEF Image!Width
  <1>6. r.offset + Image!Width(r.kind) <= Image!Size(object, r.section)
    BY <1>3, <1>4, <1>5 DEF Image!Span
  <1>7. r.target \in DOMAIN object.symbols /\ s \in Image!SymbolRecords
    BY <1>4, ObjectParts
  <1>8. s.offset \in Nat /\ ~ s.import /\ Image!ValidSymbol(object, r.target)
    BY <1>1, <1>7 DEF Image!SymbolRecords, Image!Valid
  <1>9. s.section \in Image!Sections
    BY <1>8 DEF Image!ValidSymbol
  <1>. QED
    BY <1>2, <1>3, <1>4, <1>5, <1>6, <1>7, <1>8, <1>9

LEMMA MaterializeStep == ASSUME ImageAssumed, ImageIInv, Image!Materialize PROVE ImageIInv'
  <1>. USE DEF ImageIInv
  <1>1. object' = object /\ site' = site /\ object \in Image!Objects /\ site = 1
    BY DEF Image!Materialize, ImageStage
  <1>2. CASE step' = "failed"
    BY <1>1, <1>2 DEF ImageStage, Copied, PatchedSoFar, PlacesSoFar
  <1>3. CASE step' = "patch"
    <2>1. /\ Image!Materializable(object)
          /\ artifact' = [sections |-> [k \in Image!Sections |-> [x \in 1 .. Image!Size(object, k) |-> <<object.sections[k][x]>>]],
                          entry |-> object.symbols[object.entry].offset, base |-> <<>>]
      BY <1>3 DEF Image!Materialize, Image!Fail
    <2>. DEFINE copy(k) == [x \in 1 .. Image!Size(object, k) |-> <<object.sections[k][x]>>]
    <2>2. ASSUME NEW k \in Image!Sections PROVE copy(k) \in Seq(ImageCells) /\ Len(copy(k)) = Image!Size(object, k)
      <3>1. Image!Size(object, k) \in Nat /\ object.sections[k] \in Seq(Nat) /\ Image!Size(object, k) = Len(object.sections[k])
        BY <1>1, ObjectParts DEF Image!Size
      <3>2. copy(k) \in [1 .. Image!Size(object, k) -> ImageCells]
        BY <3>1 DEF ImageCells
      <3>. HIDE DEF copy
      <3>. QED
        BY <3>1, <3>2, ListsOf
    <2>3. Passed(site)' = {}
      BY <1>1, ObjectParts DEF Passed
    <2>4. ImageStage'
      BY <1>1, <1>3, <2>1, ObjectParts DEF ImageStage, Image!Materializable
    <2>5. Copied'
      BY <1>1, <2>1, <2>2 DEF Copied, Image!Size
    <2>6. PatchedSoFar'
      BY <1>1, <2>1, <2>3 DEF PatchedSoFar, Image!Size
    <2>7. PlacesSoFar'
      BY <1>1, <2>1, <2>3 DEF PlacesSoFar
    <2>. QED
      BY <2>4, <2>5, <2>6, <2>7
  <1>. QED
    BY <1>2, <1>3 DEF Image!Materialize, Image!Fail

(* One field is stored in a copy.                                          *)
LEMMA Storing ==
    ASSUME NEW bytes \in Seq(ImageCells), NEW at \in Nat, NEW width \in Nat, NEW value \in Int
    PROVE  /\ Image!Stored(bytes, at, width, value) \in Seq(ImageCells)
           /\ Len(Image!Stored(bytes, at, width, value)) = Len(bytes)
           /\ \A n \in 1 .. width : at + n <= Len(bytes) =>
                 Image!Stored(bytes, at, width, value)[at + n] = <<"field", value, n>>
           /\ \A x \in 1 .. Len(bytes) : x \notin at + 1 .. at + width =>
                 Image!Stored(bytes, at, width, value)[x] = bytes[x]
  <1>. DEFINE t == Image!Stored(bytes, at, width, value)
  <1>1. Len(bytes) \in Nat /\ DOMAIN bytes = 1 .. Len(bytes) /\ \A x \in 1 .. Len(bytes) : bytes[x] \in ImageCells
    BY LenProperties, ElementOfSeq
  <1>2. \A x \in at + 1 .. at + width : <<"field", value, x - at>> \in ImageCells
    BY DEF ImageCells
  <1>3. t \in [1 .. Len(bytes) -> ImageCells]
    BY <1>1, <1>2 DEF Image!Stored
  <1>4. t \in Seq(ImageCells) /\ Len(t) = Len(bytes)
    BY <1>1, <1>3, ListsOf
  <1>5. ASSUME NEW n \in 1 .. width, at + n <= Len(bytes) PROVE t[at + n] = <<"field", value, n>>
    <2>1. at + n \in 1 .. Len(bytes) /\ at + n \in at + 1 .. at + width /\ (at + n) - at = n
      BY <1>1, <1>5
    <2>. QED
      BY <1>1, <2>1 DEF Image!Stored
  <1>6. ASSUME NEW x \in 1 .. Len(bytes), x \notin at + 1 .. at + width PROVE t[x] = bytes[x]
    BY <1>1, <1>6 DEF Image!Stored
  <1>. QED
    BY <1>4, <1>5, <1>6

LEMMA ValueTyped ==
    ASSUME ImageAssumed, object \in Image!Objects, Image!Materializable(object), NEW j \in DOMAIN object.relocs
    PROVE  ValueOf(j) \in Int /\ \A k \in Image!Sections : Image!LogicalRva(Image!Layout(object), k) \in Nat
  <1>1. \A k \in Image!Sections : Image!LogicalRva(Image!Layout(object), k) \in Nat
    <2>1. Image!LayoutOK(object) /\ PAGE \in Nat /\ W64 \in Nat
      BY NxoAssumption DEF Image!Materializable, ImageAssumed, Image!PeAssumption
    <2>2. Image!Layout(object).text \in Nat /\ Image!Layout(object).rdata \in Nat /\ Image!Layout(object).data \in Nat
      BY <2>1, LaidOut
    <2>. QED
      BY <2>1, <2>2 DEF Image!LogicalRva, Image!Sections, Image!TEXT, Image!RDATA, Image!DATA
  <1>2. /\ Reloc(j).section \in Image!Sections /\ Reloc(j).offset \in Nat /\ Reloc(j).addend \in Int
        /\ object.symbols[Reloc(j).target].section \in Image!Sections
        /\ object.symbols[Reloc(j).target].offset \in Nat
    BY RelocParts
  <1>3. W32 \in Nat /\ IMAGE_BASE \in Int
    BY NxoAssumption DEF ImageAssumed, Image!RelocationAssumption
  <1>. QED
    BY <1>1, <1>2, <1>3 DEF ValueOf, Image!FieldValue

LEMMA PatchStep == ASSUME ImageAssumed, ImageIInv, Image!Patch PROVE ImageIInv'
  <1>. USE DEF ImageIInv
  <1>. DEFINE r == Reloc(site)
              w == Image!Width(r.kind)
              v == ValueOf(site)
              old == artifact.sections[r.section]
              new == Image!Stored(old, r.offset, w, v)
  <1>1. /\ object' = object /\ object \in Image!Objects /\ step = "patch" /\ Image!Materializable(object)
        /\ site <= Len(object.relocs) /\ site \in Nat \ {0}
    BY DEF Image!Patch, ImageStage
  <1>2. CASE step' = "failed"
    <2>1. site' = site
      BY <1>1, <1>2 DEF Image!Patch, Image!Fail
    <2>. QED
      BY <1>1, <1>2, <2>1 DEF ImageStage, Copied, PatchedSoFar, PlacesSoFar
  <1>3. CASE step' = step
    <2>1. /\ artifact' = [artifact EXCEPT
                        !.sections[r.section] = Image!Stored(@, r.offset, w, v),
                        !.base = IF r.kind = "DIR64"
                                 THEN Append(@, [section |-> r.section, offset |-> r.offset])
                                 ELSE @]
          /\ site' = site + 1
      BY <1>1, <1>3 DEF Image!Patch, Image!Fail, ValueOf, Reloc
    <2>2. /\ artifact'.entry = artifact.entry
          /\ artifact'.sections = [artifact.sections EXCEPT ![r.section] = new]
          /\ artifact'.base = IF r.kind = "DIR64" THEN Append(artifact.base, PlaceOf(site)) ELSE artifact.base
          /\ artifact' = [sections |-> artifact'.sections, entry |-> artifact'.entry, base |-> artifact'.base]
      BY <1>1, <2>1 DEF Copied, PlaceOf
    <2>3. site \in DOMAIN object.relocs
      BY <1>1, ObjectParts
    <2>4. /\ r.section \in Image!Sections /\ r.offset \in Nat /\ w \in Nat \ {0} /\ v \in Int
          /\ r.offset + w <= Image!Size(object, r.section) /\ r.kind \in {"REL32", "DIR64"}
      BY <1>1, <2>3, RelocParts, ValueTyped
    <2>5. /\ artifact.sections \in [Image!Sections -> Seq(ImageCells)]
          /\ \A k \in Image!Sections : Len(artifact.sections[k]) = Image!Size(object, k) /\ Image!Size(object, k) \in Nat
      BY <1>1, ObjectParts DEF Copied
    <2>6. /\ new \in Seq(ImageCells) /\ Len(new) = Image!Size(object, r.section)
          /\ \A n \in 1 .. w : new[r.offset + n] = <<"field", v, n>>
          /\ \A x \in 1 .. Image!Size(object, r.section) : x \notin r.offset + 1 .. r.offset + w => new[x] = old[x]
      <3>1. old \in Seq(ImageCells) /\ Len(old) = Image!Size(object, r.section)
        BY <2>4, <2>5
      <3>2. \A n \in 1 .. w : r.offset + n <= Image!Size(object, r.section)
        BY <2>4, <2>5
      <3>. HIDE DEF r, w, v, old
      <3>. QED
        BY <2>4, <3>1, <3>2, Storing, SMTT(30)
    <2>7. \A k \in Image!Sections : artifact'.sections[k] = IF k = r.section THEN new ELSE artifact.sections[k]
      BY <2>2, <2>5
    <2>. HIDE DEF new, old, v, w, r
    <2>8. ImageStage'
      BY <1>1, <1>3, <2>1, ObjectParts DEF ImageStage
    <2>9. Copied'
      <3>1. artifact'.entry = object.symbols[object.entry].offset
        BY <1>1, <2>2 DEF Copied
      <3>2. artifact'.sections \in [Image!Sections -> Seq(ImageCells)]
        BY <2>2, <2>4, <2>5, <2>6
      <3>3. \A k \in Image!Sections : Len(artifact'.sections[k]) = Image!Size(object, k)
        BY <2>5, <2>6, <2>7
      <3>. QED
        BY <1>1, <2>2, <3>1, <3>2, <3>3 DEF Copied, Image!Size
    <2>10. Passed(site') = Passed(site) \cup {site}
      <3>1. \A j \in DOMAIN object.relocs : j \in Nat
        BY <1>1, ObjectParts
      <3>. QED
        BY <1>1, <2>1, <2>3, <3>1 DEF Passed
    <2>11. ASSUME NEW j \in Passed(site)
           PROVE  /\ j \in DOMAIN object.relocs /\ Behind(Reloc(j), r)
                  /\ Reloc(j).section \in Image!Sections /\ Reloc(j).offset \in Nat /\ Image!Width(Reloc(j).kind) \in Nat
                  /\ Reloc(j).offset + Image!Width(Reloc(j).kind) <= Image!Size(object, Reloc(j).section)
      <3>1. j \in DOMAIN object.relocs /\ j < site
        BY DEF Passed
      <3>2. Image!Valid(object)
        BY <1>1 DEF Image!Materializable
      <3>. QED
        BY <1>1, <2>3, <3>1, <3>2, FieldsApart, RelocParts DEF Reloc, r
    <2>12. PatchedSoFar'
      <3>1. ASSUME NEW j \in Passed(site'), NEW n \in 1 .. Image!Width(Reloc(j).kind)
            PROVE  artifact'.sections[Reloc(j).section][Reloc(j).offset + n] = <<"field", ValueOf(j), n>>
        <4>1. CASE j = site
          BY <2>4, <2>6, <2>7, <3>1, <4>1 DEF r, v, w
        <4>2. CASE j # site /\ Reloc(j).section # r.section
          <5>1. j \in Passed(site)
            BY <2>10, <4>2
          <5>. QED
            BY <1>1, <2>7, <2>11, <3>1, <4>2, <5>1 DEF PatchedSoFar
        <4>3. CASE j # site /\ Reloc(j).section = r.section
          <5>1. j \in Passed(site)
            BY <2>10, <4>3
          <5>2. artifact.sections[Reloc(j).section][Reloc(j).offset + n] = <<"field", ValueOf(j), n>>
            BY <1>1, <3>1, <5>1 DEF PatchedSoFar
          <5>3. Reloc(j).offset + Image!Width(Reloc(j).kind) <= r.offset
            <6>1. Behind(Reloc(j), r) /\ r.section \in Nat
              BY <2>4, <2>11, <5>1 DEF Image!Sections
            <6>. QED
              BY <4>3, <6>1 DEF Behind
          <5>4. /\ Reloc(j).offset + n \in 1 .. Image!Size(object, r.section)
                /\ Reloc(j).offset + n \notin r.offset + 1 .. r.offset + w
            <6>1. /\ Reloc(j).offset \in Nat /\ Image!Width(Reloc(j).kind) \in Nat
                  /\ Reloc(j).offset + Image!Width(Reloc(j).kind) <= Image!Size(object, r.section)
              BY <2>11, <4>3, <5>1
            <6>2. Image!Size(object, r.section) \in Nat
              BY <2>4, <2>5
            <6>. QED
              BY <2>4, <5>3, <6>1, <6>2
          <5>. QED
            BY <2>4, <2>6, <2>7, <4>3, <5>2, <5>4 DEF old
        <4>. QED
          BY <4>1, <4>2, <4>3
      <3>2. ASSUME NEW k \in Image!Sections, NEW x \in 1 .. Image!Size(object, k),
                   \A j \in Passed(site') : ~ Hit(j, k, x)
            PROVE  artifact'.sections[k][x] = <<object.sections[k][x]>>
        <4>1. artifact.sections[k][x] = <<object.sections[k][x]>>
          BY <1>1, <2>10, <3>2 DEF PatchedSoFar
        <4>2. ~ (k = r.section /\ x \in r.offset + 1 .. r.offset + w)
          BY <2>10, <3>2 DEF Hit, r, w
        <4>. QED
          BY <2>6, <2>7, <4>1, <4>2 DEF old
      <3>3. /\ Passed(site)' = Passed(site') /\ \A k : Image!Size(object, k)' = Image!Size(object, k)
            /\ \A j : Reloc(j)' = Reloc(j) /\ ValueOf(j)' = ValueOf(j)
            /\ \A j, k, x : Hit(j, k, x)' <=> Hit(j, k, x)
        BY <1>1 DEF Passed, Reloc, ValueOf, Hit
      <3>. QED
        BY <1>1, <3>1, <3>2, <3>3 DEF PatchedSoFar
    <2>13. PlacesSoFar'
      <3>. DEFINE places == [section : Image!Sections, offset : Nat]
      <3>1. artifact.base \in Seq(places)
        BY <1>1 DEF PlacesSoFar
      <3>2. PlaceOf(site) \in places
        BY <2>4 DEF PlaceOf, r
      <3>5. /\ Passed(site)' = Passed(site') /\ Image!Absolute(object)' = Image!Absolute(object)
            /\ \A j : PlaceOf(j)' = PlaceOf(j)
        BY <1>1 DEF Passed, PlaceOf, Reloc
      <3>3. CASE r.kind = "DIR64"
        <4>1. artifact'.base = Append(artifact.base, PlaceOf(site))
          BY <2>2, <3>3
        <4>2. artifact'.base \in Seq(places)
          BY <3>1, <3>2, <4>1, AppendProperties
        <4>3. {artifact'.base[n] : n \in DOMAIN artifact'.base}
                = {artifact.base[n] : n \in DOMAIN artifact.base} \cup {PlaceOf(site)}
          <5>1. /\ DOMAIN artifact.base = 1 .. Len(artifact.base) /\ Len(artifact.base) \in Nat
                /\ DOMAIN artifact'.base = 1 .. Len(artifact.base) + 1
            BY <3>1, <3>2, <4>1, <4>2, LenProperties, AppendProperties
          <5>2. /\ \A n \in 1 .. Len(artifact.base) : artifact'.base[n] = artifact.base[n]
                /\ artifact'.base[Len(artifact.base) + 1] = PlaceOf(site)
            BY <3>1, <3>2, <4>1, AppendProperties
          <5>3. 1 .. Len(artifact.base) + 1 = 1 .. Len(artifact.base) \cup {Len(artifact.base) + 1}
            BY <5>1
          <5>. DEFINE b == artifact.base
                      c == artifact'.base
                      p == PlaceOf(site)
                      N == Len(artifact.base)
          <5>4. /\ DOMAIN b = 1 .. N /\ DOMAIN c = (1 .. N) \cup {N + 1}
                /\ \A n \in 1 .. N : c[n] = b[n]
                /\ c[N + 1] = p
            BY <5>1, <5>2, <5>3
          <5>. HIDE DEF b, c, p, N
          <5>5. {c[n] : n \in DOMAIN c} = {b[n] : n \in DOMAIN b} \cup {p}
            BY <5>4, SMTT(30)
          <5>. QED
            BY <5>5 DEF b, c, p
        <4>4. Image!Absolute(object) \cap Passed(site') = (Image!Absolute(object) \cap Passed(site)) \cup {site}
          BY <2>3, <2>10, <3>3 DEF Image!Absolute, r, Reloc
        <4>. QED
          BY <1>1, <2>1, <3>5, <4>2, <4>3, <4>4 DEF PlacesSoFar
      <3>4. CASE r.kind = "REL32"
        <4>1. artifact'.base = artifact.base
          BY <2>2, <3>4
        <4>2. Image!Absolute(object) \cap Passed(site') = Image!Absolute(object) \cap Passed(site)
          BY <2>3, <2>10, <3>4 DEF Image!Absolute, r, Reloc
        <4>. QED
          BY <1>1, <2>1, <3>5, <4>1, <4>2 DEF PlacesSoFar
      <3>. QED
        BY <2>4, <3>3, <3>4
    <2>. QED
      BY <2>8, <2>9, <2>12, <2>13
  <1>. QED
    BY <1>2, <1>3 DEF Image!Patch, Image!Fail

(* What a step knows of the copies stays while they do.                    *)
LEMMA CopiesKept ==
    ASSUME UNCHANGED <<object, artifact, site>>, step \in {"patch", "make_pe", "made"},
           Copied, PatchedSoFar, PlacesSoFar
    PROVE  Copied' /\ PatchedSoFar' /\ PlacesSoFar'
  <1>1. /\ Passed(site)' = Passed(site) /\ \A k : Image!Size(object, k)' = Image!Size(object, k)
        /\ \A j : Reloc(j)' = Reloc(j) /\ ValueOf(j)' = ValueOf(j) /\ PlaceOf(j)' = PlaceOf(j)
        /\ \A j, k, x : Hit(j, k, x)' <=> Hit(j, k, x)
        /\ Image!Absolute(object)' = Image!Absolute(object)
    BY DEF Passed, Reloc, ValueOf, Hit, PlaceOf
  <1>2. Copied'
    BY <1>1 DEF Copied
  <1>3. PatchedSoFar'
    BY <1>1 DEF PatchedSoFar
  <1>4. PlacesSoFar'
    BY <1>1 DEF PlacesSoFar
  <1>. QED
    BY <1>2, <1>3, <1>4

(* The place of a base relocation, and all places as the writer lists and  *)
(* as it sorts them.                                                       *)
PlaceAt(i) == Image!LogicalRva(Image!Layout(object), artifact.base[i].section) + artifact.base[i].offset
LEMMA PlacesListed ==
    ASSUME ImageAssumed, ImageIInv, step \in {"make_pe", "made"}
    PROVE  /\ Len(artifact.base) \in Nat /\ DOMAIN artifact.base = 1 .. Len(artifact.base)
           /\ Image!Layout(object).rdata \in Nat /\ \A i \in DOMAIN artifact.base : PlaceAt(i) \in Nat
           /\ Image!Rvas \in [1 .. Len(artifact.base) + 1 -> Int]
           /\ Image!Rvas[1] = Image!Layout(object).rdata
           /\ \A i \in DOMAIN artifact.base : i + 1 \in 1 .. Len(artifact.base) + 1 /\ Image!Rvas[i + 1] = PlaceAt(i)
           /\ Adjustable = {Image!Rvas[n] : n \in 1 .. Len(artifact.base) + 1}
  <1>1. /\ object \in Image!Objects /\ Image!Materializable(object)
        /\ artifact.base \in Seq([section : Image!Sections, offset : Nat])
    BY DEF ImageIInv, ImageStage, PlacesSoFar
  <1>2. PICK k \in Nat : /\ Len(artifact.base) = k /\ DOMAIN artifact.base = 1 .. k
                         /\ \A i \in 1 .. k : artifact.base[i].section \in Image!Sections /\ artifact.base[i].offset \in Nat
    <2>. DEFINE b == artifact.base
                places == [section : Image!Sections, offset : Nat]
    <2>1. Len(b) \in Nat /\ DOMAIN b = 1 .. Len(b) /\ \A i \in 1 .. Len(b) : b[i] \in places
      <3>. HIDE DEF b, places
      <3>. QED
        BY <1>1, LenProperties, ElementOfSeq DEF b, places
    <2>. QED
      BY <2>1
  <1>3. /\ PAGE \in Nat /\ W64 \in Nat /\ Image!Layout(object).text = PAGE
        /\ Image!Layout(object).rdata \in Nat /\ Image!Layout(object).data \in Nat
    BY <1>1, LaidOut, NxoAssumption DEF ImageAssumed, Image!PeAssumption, Image!Materializable
  <1>4. \A i \in 1 .. k : PlaceAt(i) \in Nat
    <2>. TAKE i \in 1 .. k
    <2>1. PICK m, o : m = artifact.base[i].section /\ o = artifact.base[i].offset /\ m \in Image!Sections /\ o \in Nat
      BY <1>2
    <2>2. Image!LogicalRva(Image!Layout(object), m) \in Nat
      BY <1>3, <2>1 DEF Image!LogicalRva, Image!Sections, Image!TEXT, Image!RDATA, Image!DATA
    <2>. QED
      BY <2>1, <2>2 DEF PlaceAt
  <1>. DEFINE head == <<Image!Layout(object).rdata>>
              tail == [i \in 1 .. k |-> PlaceAt(i)]
              rvas == Image!Rvas
  <1>5. rvas = head \o tail
    BY <1>2 DEF Image!Rvas, PlaceAt
  <1>6. head \in Seq(Int) /\ Len(head) = 1 /\ head[1] = Image!Layout(object).rdata
    BY <1>3
  <1>7. tail \in Seq(Int) /\ Len(tail) = k /\ \A i \in 1 .. k : tail[i] = PlaceAt(i)
    <2>1. \A i \in 1 .. k : PlaceAt(i) \in Int
      BY <1>4
    <2>2. tail \in [1 .. k -> Int]
      BY <2>1
    <2>. QED
      BY <2>2
  <1>. HIDE DEF head, tail, rvas
  <1>8. /\ rvas \in Seq(Int) /\ Len(rvas) = 1 + k
        /\ \A n \in 1 .. 1 + k : rvas[n] = IF n <= 1 THEN head[n] ELSE tail[n - 1]
    BY <1>5, <1>6, <1>7, ConcatProperties
  <1>9. rvas \in [1 .. k + 1 -> Int]
    <2>1. rvas \in [1 .. Len(rvas) -> Int]
      BY <1>8, LenProperties
    <2>2. Len(rvas) = k + 1
      BY <1>8
    <2>. QED
      BY <2>1, <2>2
  <1>10. rvas[1] = Image!Layout(object).rdata
    BY <1>6, <1>8
  <1>11. \A i \in 1 .. k : i + 1 \in 1 .. k + 1 /\ rvas[i + 1] = PlaceAt(i)
    BY <1>7, <1>8
  <1>12. Adjustable = {rvas[n] : n \in 1 .. k + 1}
    <2>1. Adjustable = {Image!Layout(object).rdata} \cup {PlaceAt(i) : i \in 1 .. k}
      BY <1>2 DEF Adjustable, PlaceAt
    <2>2. \A n \in 1 .. k + 1 : n = 1 \/ (n - 1 \in 1 .. k /\ rvas[n] = PlaceAt(n - 1))
      <3>. TAKE n \in 1 .. k + 1
      <3>1. n = 1 \/ (n - 1 \in 1 .. k /\ (n - 1) + 1 = n)
        OBVIOUS
      <3>. QED
        BY <1>11, <3>1
    <2>3. 1 \in 1 .. k + 1
      OBVIOUS
    <2>4. \A x : x \in Adjustable <=> \E n \in 1 .. k + 1 : x = rvas[n]
      BY <1>10, <1>11, <2>1, <2>2, <2>3
    <2>. HIDE DEF Adjustable
    <2>. QED
      BY <2>4
  <1>. QED
    BY <1>2, <1>3, <1>4, <1>9, <1>10, <1>11, <1>12 DEF rvas

(* Where the writer finds neighbours apart, it walks the pages.            *)
LEMMA BlocksWritten ==
    ASSUME ImageAssumed, ImageIInv, step \in {"make_pe", "made"}, Image!Writable
    PROVE  Image!Blocks(Image!InOrder(Image!Rvas)) = PageBlocks(Adjustable)
  <1>1. PICK L \in Nat : Image!Rvas \in [1 .. L -> Int] /\ Adjustable = {Image!Rvas[n] : n \in 1 .. L}
    BY PlacesListed
  <1>. DEFINE rvas == Image!Rvas
              s == Image!InOrder(rvas)
  <1>2. W64 \in Nat \ {0} /\ PAGE \in Nat \ {0}
    BY NxoAssumption DEF ImageAssumed, Image!PeAssumption
  <1>3. \A n \in 2 .. Len(s) : s[n] - s[n - 1] \notin 0 .. W64 - 1
    BY DEF Image!Writable
  <1>. HIDE DEF rvas
  <1>a. rvas \in [1 .. L -> Int] /\ Adjustable = {rvas[n] : n \in 1 .. L}
    BY <1>1 DEF rvas
  <1>b. Reorders(s, rvas, L) /\ \A m, n \in 1 .. L : m < n => s[m] <= s[n]
    BY <1>a, InOrderAscends
  <1>. HIDE DEF s
  <1>4. /\ s \in [1 .. L -> Int]
        /\ \A n \in 1 .. L : \E i \in 1 .. L : s[n] = rvas[i]
        /\ \A i \in 1 .. L : \E n \in 1 .. L : s[n] = rvas[i]
        /\ \A m, n \in 1 .. L : m < n => s[m] <= s[n]
    BY <1>b, Zenon DEF Reorders
  <1>5. Len(s) = L
    BY <1>4
  <1>6. \A m, n \in 1 .. L : m < n => s[m] < s[n]
    <2>. SUFFICES ASSUME NEW m \in 1 .. L, NEW n \in 1 .. L, m < n PROVE s[m] < s[n]
      OBVIOUS
    <2>1. n \in 2 .. L /\ n - 1 \in 1 .. L /\ (m = n - 1 \/ m < n - 1) /\ n - 1 < n
      OBVIOUS
    <2>2. PICK x, y, z \in Int : x = s[m] /\ y = s[n - 1] /\ z = s[n]
      BY <1>4, <2>1
    <2>a. z - y \notin 0 .. W64 - 1
      BY <1>3, <1>5, <2>1, <2>2
    <2>b. y <= z /\ (m = n - 1 \/ x <= y)
      BY <1>4, <2>1, <2>2
    <2>3. x <= y /\ y <= z /\ z - y \notin 0 .. W64 - 1
      BY <2>a, <2>b, <2>2
    <2>4. x < z
      BY <1>2, <2>3
    <2>. QED
      BY <2>2, <2>4
  <1>7. Image!Blocks(s) = PageBlocks({s[i] : i \in 1 .. L})
    BY <1>2, <1>4, <1>5, <1>6, RunsArePages
  <1>8. Adjustable = {s[i] : i \in 1 .. L}
    <2>. DEFINE D == 1 .. L
    <2>0. /\ \A n \in D : \E i \in D : s[n] = rvas[i]
          /\ \A i \in D : \E n \in D : s[n] = rvas[i]
      BY <1>4
    <2>. HIDE DEF D
    <2>1. {rvas[n] : n \in D} = {s[i] : i \in D}
      BY <2>0
    <2>. QED
      BY <1>a, <2>1 DEF D
  <1>. QED
    BY <1>7, <1>8 DEF s, rvas

LEMMA OtherImageSteps ==
    ASSUME ImageAssumed, ImageIInv, Image!Patched \/ Image!MakePe \/ Image!Release \/ UNCHANGED (Image!vars)
    PROVE  ImageIInv'
  <1>1. ImageStage /\ Copied /\ PatchedSoFar /\ PlacesSoFar
    BY DEF ImageIInv
  <1>2. CASE step' \in {"failed", "done"} /\ UNCHANGED object /\ UNCHANGED site
    <2>1. ImageStage'
      BY <1>1, <1>2 DEF ImageStage
    <2>2. Copied' /\ PatchedSoFar' /\ PlacesSoFar'
      BY <1>2 DEF Copied, PatchedSoFar, PlacesSoFar
    <2>. QED
      BY <2>1, <2>2 DEF ImageIInv
  <1>3. CASE Image!Patched
    <2>1. /\ UNCHANGED <<object, artifact, site>>
          /\ step = "patch" /\ step' = "make_pe" /\ site > Len(object.relocs)
      BY <1>3 DEF Image!Patched
    <2>2. site = Len(object.relocs) + 1
      BY <1>1, <2>1, ObjectParts DEF ImageStage
    <2>3. ImageStage'
      BY <1>1, <2>1, <2>2 DEF ImageStage
    <2>. QED
      BY <1>1, <2>1, <2>3, CopiesKept DEF ImageIInv
  <1>4. CASE Image!MakePe /\ step' = "made"
    <2>0. /\ UNCHANGED <<object, artifact, site>> /\ step = "make_pe" /\ Image!Writable
          /\ image' = Image!Written(artifact, Image!Blocks(Image!InOrder(Image!Rvas)))
      BY <1>4 DEF Image!MakePe, Image!Fail
    <2>1. /\ UNCHANGED <<object, artifact, site>> /\ step = "make_pe" /\ image' = Image!Written(artifact, PageBlocks(Adjustable))
      BY <2>0, BlocksWritten
    <2>a. object' = object /\ artifact' = artifact
      BY <2>1
    <2>b. Adjustable' = Adjustable
      BY <2>a, SMTT(30) DEF Adjustable
    <2>2. Image!Written(artifact, PageBlocks(Adjustable))' = Image!Written(artifact, PageBlocks(Adjustable))
      BY <2>a, <2>b, SMTT(60) DEF Image!Written
    <2>3. ImageStage'
      BY <1>1, <1>4, <2>1, <2>2 DEF ImageStage
    <2>. QED
      BY <1>1, <2>1, <2>3, CopiesKept DEF ImageIInv
  <1>5. CASE UNCHANGED (Image!vars)
    <2>1. UNCHANGED <<object, artifact, site>> /\ image' = image /\ step' = step
      BY <1>5 DEF Image!vars
    <2>a. object' = object /\ artifact' = artifact
      BY <2>1
    <2>b. Adjustable' = Adjustable
      BY <2>a, SMTT(30) DEF Adjustable
    <2>2. Image!Written(artifact, PageBlocks(Adjustable))' = Image!Written(artifact, PageBlocks(Adjustable))
      BY <2>a, <2>b, SMTT(60) DEF Image!Written
    <2>3. ImageStage'
      BY <1>1, <2>1, <2>2 DEF ImageStage
    <2>4. CASE step \in {"patch", "make_pe", "made"}
      BY <1>1, <2>1, <2>3, <2>4, CopiesKept DEF ImageIInv
    <2>5. CASE step \notin {"patch", "make_pe", "made"}
      BY <2>1, <2>3, <2>5 DEF ImageIInv, Copied, PatchedSoFar, PlacesSoFar
    <2>. QED
      BY <2>4, <2>5
  <1>6. Image!MakePe => step' = "made" \/ (step' = "failed" /\ UNCHANGED object /\ UNCHANGED site)
    BY DEF Image!MakePe, Image!Fail
  <1>7. Image!Release => step' = "done" /\ UNCHANGED object /\ UNCHANGED site
    BY DEF Image!Release
  <1>8. CASE Image!MakePe
    BY <1>2, <1>4, <1>6, <1>8
  <1>9. CASE Image!Release
    BY <1>2, <1>7, <1>9
  <1>. QED
    BY <1>3, <1>5, <1>8, <1>9

LEMMA ImageNext == ASSUME ImageAssumed, ImageIInv, [Image!Next]_(Image!vars) PROVE ImageIInv'
  BY MaterializeStep, PatchStep, OtherImageSteps DEF Image!Next

-----------------------------------------------------------------------------

(* The blocks of places hold every place, and nothing else.                *)
LEMMA BlocksCover ==
    ASSUME ImageAssumed, NEW R \in SUBSET Nat, IsFiniteSet(R)
    PROVE  UNION {{PageBlocks(R)[n].page + PageBlocks(R)[n].offsets[m] : m \in DOMAIN PageBlocks(R)[n].offsets} :
                      n \in DOMAIN PageBlocks(R)} = R
  <1>. DEFINE places == {Image!PageOf(r) : r \in R}
              pages == Image!Ascending(places)
              in(p) == {r \in R : Image!PageOf(r) = p}
              Q(p) == {q - p : q \in in(p)}
              B == PageBlocks(R)
  <1>1. PAGE \in Nat \ {0}
    BY DEF ImageAssumed, Image!PeAssumption
  <1>2. \A r \in R : Image!PageOf(r) \in Int /\ r \in Int
    BY <1>1 DEF Image!PageOf
  <1>3. places \in SUBSET Int /\ IsFiniteSet(places)
    <2>. DEFINE f == [r \in R |-> Image!PageOf(r)]
    <2>1. f \in Surjection(R, places)
      BY DEF Surjection
    <2>. HIDE DEF f
    <2>. QED
      BY <1>2, <2>1, FS_Surjection
  <1>4. ASSUME NEW p \in places PROVE Q(p) \in SUBSET Int /\ IsFiniteSet(Q(p))
    <2>. DEFINE f == [q \in in(p) |-> q - p]
    <2>1. f \in Surjection(in(p), Q(p))
      BY DEF Surjection
    <2>2. IsFiniteSet(in(p))
      BY FS_Subset
    <2>3. p \in Int
      BY <1>3
    <2>. HIDE DEF f
    <2>. QED
      BY <1>2, <2>1, <2>2, <2>3, FS_Surjection
  <1>5. /\ B = [n \in DOMAIN pages |-> [page |-> pages[n], offsets |-> Image!Ascending(Q(pages[n]))]]
        /\ DOMAIN B = DOMAIN pages
    BY DEF PageBlocks
  <1>6. /\ \A n \in DOMAIN pages : pages[n] \in places
        /\ \A p \in places : \E n \in DOMAIN pages : pages[n] = p
    <2>. HIDE DEF places
    <2>. QED
      BY <1>3, AscendingLists
  <1>7. ASSUME NEW p \in places
        PROVE  {p + Image!Ascending(Q(p))[m] : m \in DOMAIN Image!Ascending(Q(p))} = in(p)
    <2>1. /\ \A m \in DOMAIN Image!Ascending(Q(p)) : Image!Ascending(Q(p))[m] \in Q(p)
          /\ \A x \in Q(p) : \E m \in DOMAIN Image!Ascending(Q(p)) : Image!Ascending(Q(p))[m] = x
      <3>. HIDE DEF Q
      <3>. QED
        BY <1>4, AscendingLists
    <2>2. p \in Int /\ \A q \in in(p) : q \in Int /\ p + (q - p) = q
      BY <1>2, <1>3
    <2>. DEFINE A == Image!Ascending(Q(p))
    <2>3. \A m \in DOMAIN A : p + A[m] \in in(p)
      <3>. TAKE m \in DOMAIN A
      <3>1. PICK q \in in(p) : A[m] = q - p
        BY <2>1
      <3>2. p + A[m] = q
        BY <2>2, <3>1
      <3>. QED
        BY <3>1, <3>2
    <2>4. \A q \in in(p) : \E m \in DOMAIN A : p + A[m] = q
      <3>. TAKE q \in in(p)
      <3>1. PICK m \in DOMAIN A : A[m] = q - p
        BY <2>1
      <3>2. p + A[m] = q
        BY <2>2, <3>1
      <3>. QED
        BY <3>1, <3>2
    <2>. HIDE DEF A, in
    <2>5. {p + A[m] : m \in DOMAIN A} = in(p)
      BY <2>3, <2>4
    <2>. QED
      BY <2>5 DEF A
  <1>8. \A n \in DOMAIN B : {B[n].page + B[n].offsets[m] : m \in DOMAIN B[n].offsets} = in(pages[n])
    <2>. SUFFICES ASSUME NEW n \in DOMAIN pages
                  PROVE  {B[n].page + B[n].offsets[m] : m \in DOMAIN B[n].offsets} = in(pages[n])
      BY <1>5
    <2>1. B[n].page = pages[n] /\ B[n].offsets = Image!Ascending(Q(pages[n])) /\ pages[n] \in places
      <3>. HIDE DEF B, pages, places, Q
      <3>. QED
        BY <1>5, <1>6
    <2>. HIDE DEF B, pages, places, Q, in
    <2>. QED
      BY <1>7, <2>1
  <1>9. \A r \in R : \E n \in DOMAIN B : r \in in(pages[n])
    <2>. TAKE r \in R
    <2>1. PICK n \in DOMAIN pages : pages[n] = Image!PageOf(r)
      BY <1>6
    <2>. QED
      BY <1>5, <2>1
  <1>10. \A n \in DOMAIN B : in(pages[n]) \subseteq R
    OBVIOUS
  <1>11. UNION {{B[n].page + B[n].offsets[m] : m \in DOMAIN B[n].offsets} : n \in DOMAIN B}
           = UNION {in(pages[n]) : n \in DOMAIN B}
    <2>. HIDE DEF B, pages, in
    <2>. QED
      BY <1>8
  <1>12. UNION {in(pages[n]) : n \in DOMAIN B} = R
    <2>. HIDE DEF B, pages, in
    <2>. QED
      BY <1>9, <1>10
  <1>. QED
    BY <1>11, <1>12

-----------------------------------------------------------------------------
(* The image.                                                              *)

(* Where a section starts, and what the writer puts before its bytes.      *)
Va(k) ==
    IF k = Image!TEXT THEN PAGE
    ELSE IF k = Image!RDATA THEN Image!Layout(object).rdata ELSE Image!Layout(object).data
Ahead(k) == IF k = Image!RDATA THEN W64 ELSE 0
Anchor == [n \in 1 .. W64 |-> <<"field", IMAGE_BASE + PAGE + artifact.entry, n>>]
ImageMade == ImageAssumed /\ ImageIInv /\ step = "made"

LEMMA ImageParts ==
    ASSUME ImageMade
    PROVE  /\ object \in Image!Objects /\ Image!Materializable(object) /\ Image!LayoutOK(object)
           /\ \A k \in Image!Sections : Image!Size(object, k) \in Nat /\ Va(k) \in Nat
           /\ W64 \in Nat /\ PAGE \in Nat /\ RAW \in Nat \ {0}
           /\ \A k \in Image!Sections : image.table[k].va = Va(k)
           /\ image.table[Image!TEXT].rs = Image!UpTo(Image!Size(object, Image!TEXT), RAW)
           /\ image.table[Image!RDATA].rs = Image!UpTo(W64 + Image!Size(object, Image!RDATA), RAW)
           /\ image.table[Image!DATA].rs = Image!UpTo(DataUsed(object), RAW)
           /\ image.content = <<artifact.sections[Image!TEXT], Anchor \o artifact.sections[Image!RDATA],
                               artifact.sections[Image!DATA]>>
           /\ image.blocks = PageBlocks(Adjustable)
           /\ image.entry = PAGE + artifact.entry
  <1>1. ImageStage /\ Copied
    BY DEF ImageMade, ImageIInv
  <1>2. object \in Image!Objects /\ Image!Materializable(object) /\ Image!LayoutOK(object)
    BY <1>1 DEF ImageStage, ImageMade, Image!Materializable
  <1>3. /\ W64 \in Nat /\ PAGE \in Nat /\ RAW \in Nat \ {0}
    BY NxoAssumption DEF ImageMade, ImageAssumed, Image!PeAssumption
  <1>4. \A k \in Image!Sections : Image!Size(object, k) \in Nat /\ Va(k) \in Nat
    BY <1>2, <1>3, LaidOut DEF ImageMade, Va
  <1>5. image = Image!Written(artifact, PageBlocks(Adjustable))
    BY <1>1 DEF ImageStage, ImageMade
  <1>6. \A k \in Image!Sections : Len(artifact.sections[k]) = Image!Size(object, k)
    BY <1>1 DEF Copied, ImageMade
  <1>7. Image!TEXT \in Image!Sections /\ Image!RDATA \in Image!Sections /\ Image!DATA \in Image!Sections
    BY DEF Image!TEXT, Image!RDATA, Image!DATA, Image!Sections
  <1>. DEFINE tables == PageBlocks(Adjustable)
              s1 == Image!Section(PAGE, Len(artifact.sections[Image!TEXT]), HEADERS, {"read", "execute"})
              s2 == Image!Section(Image!Layout(object).rdata, W64 + Len(artifact.sections[Image!RDATA]), HEADERS + s1.rs, {"read"})
              s3 == Image!Section(Image!Layout(object).data,
                            IF Len(artifact.sections[Image!DATA]) > 0 THEN Len(artifact.sections[Image!DATA]) ELSE W64,
                            s2.raw + s2.rs, {"read", "write"})
              s4 == Image!Section(Image!Layout(object).reloc, Image!TableSize(tables), s3.raw + s3.rs, {"read"})
  <1>8. /\ image.table = <<s1, s2, s3, s4>>
        /\ image.content = <<artifact.sections[Image!TEXT], Anchor \o artifact.sections[Image!RDATA],
                            artifact.sections[Image!DATA]>>
        /\ image.blocks = PageBlocks(Adjustable)
        /\ image.entry = PAGE + artifact.entry
    BY <1>5 DEF Image!Written, Anchor
  <1>9. /\ s1.va = PAGE /\ s1.rs = Image!UpTo(Len(artifact.sections[Image!TEXT]), RAW)
        /\ s2.va = Image!Layout(object).rdata /\ s2.rs = Image!UpTo(W64 + Len(artifact.sections[Image!RDATA]), RAW)
        /\ s3.va = Image!Layout(object).data
        /\ s3.rs = Image!UpTo(IF Len(artifact.sections[Image!DATA]) > 0 THEN Len(artifact.sections[Image!DATA]) ELSE W64, RAW)
    BY DEF Image!Section
  <1>. HIDE DEF s1, s2, s3, s4
  <1>10. /\ image.table[Image!TEXT] = s1 /\ image.table[Image!RDATA] = s2 /\ image.table[Image!DATA] = s3
    BY <1>8 DEF Image!TEXT, Image!RDATA, Image!DATA
  <1>11. \A k \in Image!Sections : image.table[k].va = Va(k)
    BY <1>9, <1>10 DEF Va, Image!Sections, Image!TEXT, Image!RDATA, Image!DATA
  <1>12. s3.rs = Image!UpTo(DataUsed(object), RAW)
    BY <1>6, <1>7, <1>9 DEF DataUsed
  <1>. QED
    BY <1>2, <1>3, <1>4, <1>6, <1>7, <1>8, <1>9, <1>10, <1>11, <1>12

(* The content of a section is in the image where the section is.          *)
LEMMA ContentThere ==
    ASSUME ImageMade, NEW k \in Image!Sections, NEW y \in Nat, y < Len(image.content[k]), y + 1 \in DOMAIN image.content[k],
           y < image.table[k].rs
    PROVE  Image!Memory(Va(k) + y) = image.content[k][y + 1]
  <1>. DEFINE rs(j) == image.table[j].rs
  <1>1. /\ object \in Image!Objects /\ Image!LayoutOK(object) /\ ImageAssumed
        /\ \A j \in Image!Sections : Va(j) \in Nat /\ image.table[j].va = Va(j)
        /\ Image!Size(object, Image!TEXT) \in Nat /\ W64 + Image!Size(object, Image!RDATA) \in Nat /\ RAW \in Nat \ {0}
    <2>1. Image!TEXT \in Image!Sections /\ Image!RDATA \in Image!Sections
      BY DEF Image!TEXT, Image!RDATA, Image!Sections
    <2>2. \A j \in Image!Sections : Image!Size(object, j) \in Nat
      BY ImageParts
    <2>3. W64 \in Nat /\ RAW \in Nat \ {0}
      BY ImageParts
    <2>4. Image!Size(object, Image!TEXT) \in Nat /\ Image!Size(object, Image!RDATA) \in Nat
      BY <2>1, <2>2
    <2>5. W64 + Image!Size(object, Image!RDATA) \in Nat
      BY <2>3, <2>4
    <2>6. /\ object \in Image!Objects /\ Image!LayoutOK(object) /\ ImageAssumed
          /\ \A j \in Image!Sections : Va(j) \in Nat /\ image.table[j].va = Va(j)
      BY ImageParts DEF ImageMade
    <2>. QED
      BY <2>3, <2>4, <2>5, <2>6
  <1>2. rs(Image!TEXT) \in Nat /\ rs(Image!RDATA) \in Nat /\ rs(Image!DATA) \in Nat
    <2>1. DataUsed(object) \in Nat
      BY <1>1, LaidOut
    <2>2. \A n \in Nat : Image!UpTo(n, RAW) \in Nat
      BY <1>1, RoundedUp
    <2>3. /\ rs(Image!TEXT) = Image!UpTo(Image!Size(object, Image!TEXT), RAW)
          /\ rs(Image!RDATA) = Image!UpTo(W64 + Image!Size(object, Image!RDATA), RAW)
          /\ rs(Image!DATA) = Image!UpTo(DataUsed(object), RAW)
      BY ImageParts
    <2>. HIDE DEF rs
    <2>. QED
      BY <1>1, <2>1, <2>2, <2>3
  <1>3. Va(Image!TEXT) + rs(Image!TEXT) <= Va(Image!RDATA) /\ Va(Image!RDATA) + rs(Image!RDATA) <= Va(Image!DATA)
    <2>1. /\ PAGE + Image!UpTo(Image!Size(object, Image!TEXT), RAW) <= Image!Layout(object).rdata
          /\ Image!Layout(object).rdata + Image!UpTo(W64 + Image!Size(object, Image!RDATA), RAW) <= Image!Layout(object).data
      BY <1>1, LaidOut
    <2>2. /\ rs(Image!TEXT) = Image!UpTo(Image!Size(object, Image!TEXT), RAW)
          /\ rs(Image!RDATA) = Image!UpTo(W64 + Image!Size(object, Image!RDATA), RAW)
      BY ImageParts
    <2>3. /\ Va(Image!TEXT) = PAGE /\ Va(Image!RDATA) = Image!Layout(object).rdata
          /\ Va(Image!DATA) = Image!Layout(object).data
      BY DEF Va, Image!TEXT, Image!RDATA, Image!DATA
    <2>. HIDE DEF rs
    <2>. QED
      BY <2>1, <2>2, <2>3
  <1>4. \A j \in Image!Sections : rs(j) \in Nat /\ Va(j) \in Nat
    <2>1. \A j \in Image!Sections : j = Image!TEXT \/ j = Image!RDATA \/ j = Image!DATA
      BY DEF Image!Sections, Image!TEXT, Image!RDATA, Image!DATA
    <2>. HIDE DEF rs
    <2>. QED
      BY <1>1, <1>2, <2>1
  <1>. DEFINE rva == Va(k) + y
              In(j) == rva >= image.table[j].va /\ rva < image.table[j].va + image.table[j].rs
  <1>5. In(k)
    BY <1>1, <1>4
  <1>6. \A j \in 1 .. 3 : In(j) => j = k
    <2>1. \A j \in 1 .. 3 : In(j) <=> Va(k) + y >= Va(j) /\ Va(k) + y < Va(j) + rs(j)
      BY <1>1 DEF Image!Sections
    <2>2. /\ Va(1) \in Nat /\ Va(2) \in Nat /\ Va(3) \in Nat /\ rs(1) \in Nat /\ rs(2) \in Nat /\ rs(3) \in Nat
          /\ Va(1) + rs(1) <= Va(2) /\ Va(2) + rs(2) <= Va(3)
      BY <1>3, <1>4 DEF Image!Sections, Image!TEXT, Image!RDATA, Image!DATA
    <2>3. k \in 1 .. 3 /\ y < rs(k)
      BY DEF Image!Sections
    <2>. HIDE DEF rs, rva, In
    <2>4. CASE k = 1
      BY <2>1, <2>2, <2>3, <2>4, SMTT(30)
    <2>5. CASE k = 2
      BY <2>1, <2>2, <2>3, <2>5, SMTT(30)
    <2>6. CASE k = 3
      BY <2>1, <2>2, <2>3, <2>6, SMTT(30)
    <2>. QED
      BY <2>3, <2>4, <2>5, <2>6
  <1>7. (CHOOSE j \in 1 .. 3 : In(j)) = k
    <2>1. k \in 1 .. 3
      BY DEF Image!Sections
    <2>. HIDE DEF In
    <2>. QED
      BY <1>5, <1>6, <2>1
  <1>8. rva - image.table[k].va + 1 = y + 1
    BY <1>1
  <1>. QED
    BY <1>7, <1>8 DEF Image!Memory

(* The writer's bytes and those of the sections.                           *)
LEMMA SectionThere ==
    ASSUME ImageMade
    PROVE  /\ \A n \in 1 .. W64 : Image!Memory(Va(Image!RDATA) + n - 1) = Anchor[n]
           /\ \A k \in Image!Sections : \A x \in 0 .. Image!Size(object, k) - 1 :
                 Image!Memory(Va(k) + Ahead(k) + x) = artifact.sections[k][x + 1]
  <1>. DEFINE a == artifact.sections
  <1>1. /\ object \in Image!Objects /\ Image!LayoutOK(object) /\ ImageAssumed
        /\ \A k \in Image!Sections : Image!Size(object, k) \in Nat /\ Va(k) \in Nat
        /\ W64 \in Nat /\ RAW \in Nat \ {0}
    BY ImageParts DEF ImageMade
  <1>2. Image!TEXT \in Image!Sections /\ Image!RDATA \in Image!Sections /\ Image!DATA \in Image!Sections
        /\ \A k \in Image!Sections : k = Image!TEXT \/ k = Image!RDATA \/ k = Image!DATA
    BY DEF Image!TEXT, Image!RDATA, Image!DATA, Image!Sections
  <1>3. \A k \in Image!Sections : a[k] \in Seq(ImageCells) /\ Len(a[k]) = Image!Size(object, k)
    BY DEF ImageMade, ImageIInv, Copied
  <1>4. artifact.entry \in Nat /\ IMAGE_BASE \in Nat /\ PAGE \in Nat
    <2>1. artifact.entry = object.symbols[object.entry].offset /\ object.entry # 0 /\ Image!ValidEntry(object)
      BY ImageParts DEF ImageMade, ImageIInv, Copied, Image!Materializable, Image!Valid
    <2>2. object.entry \in DOMAIN object.symbols
      BY <1>1, <2>1, ObjectParts DEF Image!ValidEntry
    <2>3. object.symbols[object.entry] \in Image!SymbolRecords
      BY <1>1, <2>2, ObjectParts
    <2>. QED
      BY <1>1, <2>1, <2>3 DEF Image!SymbolRecords, ImageAssumed, Image!PeAssumption, Image!RelocationAssumption
  <1>5. Anchor \in Seq(ImageCells) /\ Len(Anchor) = W64
    <2>1. Anchor \in [1 .. W64 -> ImageCells]
      BY <1>1, <1>4 DEF Anchor, ImageCells
    <2>. QED
      BY <1>1, <2>1, ListsOf
  <1>. DEFINE c == Anchor \o a[Image!RDATA]
  <1>6. /\ c \in Seq(ImageCells) /\ Len(c) = W64 + Image!Size(object, Image!RDATA)
        /\ \A i \in 1 .. W64 + Image!Size(object, Image!RDATA) : c[i] = IF i <= W64 THEN Anchor[i] ELSE a[Image!RDATA][i - W64]
    <2>. DEFINE t == a[Image!RDATA]
    <2>1. t \in Seq(ImageCells) /\ Len(t) = Image!Size(object, Image!RDATA)
      BY <1>2, <1>3
    <2>2. c = Anchor \o t
      OBVIOUS
    <2>. HIDE DEF a, t
    <2>3. /\ c \in Seq(ImageCells) /\ Len(c) = Len(Anchor) + Len(t)
          /\ \A i \in 1 .. Len(Anchor) + Len(t) : c[i] = IF i <= Len(Anchor) THEN Anchor[i] ELSE t[i - Len(Anchor)]
      <3>. HIDE DEF c
      <3>. QED
        BY <1>5, <2>1, <2>2, ConcatProperties
    <2>4. Len(t) = Image!Size(object, Image!RDATA)
      BY <2>1
    <2>. QED
      BY <1>5, <2>3, <2>4, SMTT(30) DEF t
  <1>7. /\ image.content[Image!TEXT] = a[Image!TEXT]
        /\ image.content[Image!RDATA] = c
        /\ image.content[Image!DATA] = a[Image!DATA]
    <2>1. image.content = <<a[Image!TEXT], c, a[Image!DATA]>>
      BY ImageParts
    <2>. HIDE DEF a, c
    <2>. QED
      BY <2>1 DEF Image!TEXT, Image!RDATA, Image!DATA
  <1>8. /\ Image!Size(object, Image!TEXT) <= image.table[Image!TEXT].rs
        /\ W64 + Image!Size(object, Image!RDATA) <= image.table[Image!RDATA].rs
        /\ Image!Size(object, Image!DATA) <= image.table[Image!DATA].rs
        /\ image.table[Image!TEXT].rs \in Nat /\ image.table[Image!RDATA].rs \in Nat /\ image.table[Image!DATA].rs \in Nat
    <2>1. DataUsed(object) \in Nat /\ Image!Size(object, Image!DATA) <= DataUsed(object)
      BY <1>1, LaidOut
    <2>2. /\ Image!Size(object, Image!TEXT) <= Image!UpTo(Image!Size(object, Image!TEXT), RAW)
          /\ Image!UpTo(Image!Size(object, Image!TEXT), RAW) \in Nat
          /\ W64 + Image!Size(object, Image!RDATA) <= Image!UpTo(W64 + Image!Size(object, Image!RDATA), RAW)
          /\ Image!UpTo(W64 + Image!Size(object, Image!RDATA), RAW) \in Nat
          /\ DataUsed(object) <= Image!UpTo(DataUsed(object), RAW) /\ Image!UpTo(DataUsed(object), RAW) \in Nat
      <3>1. Image!Size(object, Image!TEXT) \in Nat /\ W64 + Image!Size(object, Image!RDATA) \in Nat
        BY <1>1, <1>2
      <3>. QED
        BY <1>1, <2>1, <3>1, RoundedUp
    <2>3. Image!Size(object, Image!DATA) \in Nat
      BY <1>1, <1>2
    <2>. QED
      BY <2>1, <2>2, <2>3, ImageParts
  <1>. HIDE DEF a, c
  <1>9. ASSUME NEW n \in 1 .. W64 PROVE Image!Memory(Va(Image!RDATA) + n - 1) = Anchor[n]
    <2>. DEFINE y == n - 1
    <2>1. y \in Nat /\ y + 1 = n /\ y < W64 /\ Image!Size(object, Image!RDATA) \in Nat
      BY <1>1, <1>2
    <2>2. y < Len(image.content[Image!RDATA]) /\ y + 1 \in DOMAIN image.content[Image!RDATA]
      BY <1>1, <1>6, <1>7, <2>1, LenProperties
    <2>3. y < image.table[Image!RDATA].rs
      BY <1>1, <1>8, <2>1
    <2>4. Image!Memory(Va(Image!RDATA) + y) = image.content[Image!RDATA][y + 1]
      <3>. HIDE DEF y
      <3>. QED
        BY <1>2, <2>1, <2>2, <2>3, ContentThere
    <2>5. image.content[Image!RDATA][n] = Anchor[n]
      BY <1>1, <1>6, <1>7, <2>1
    <2>6. Va(Image!RDATA) + y = Va(Image!RDATA) + n - 1
      BY <1>1, <1>2
    <2>. QED
      BY <2>1, <2>4, <2>5, <2>6
  <1>10. ASSUME NEW k \in Image!Sections, NEW x \in 0 .. Image!Size(object, k) - 1
         PROVE  Image!Memory(Va(k) + Ahead(k) + x) = a[k][x + 1]
    <2>1. x \in Nat /\ x < Image!Size(object, k) /\ Image!Size(object, k) \in Nat /\ Va(k) \in Nat
      BY <1>1
    <2>2. CASE k = Image!RDATA
      <3>. DEFINE y == W64 + x
      <3>1. y \in Nat /\ y < W64 + Image!Size(object, Image!RDATA) /\ y + 1 \in 1 .. W64 + Image!Size(object, Image!RDATA)
            /\ ~ (y + 1 <= W64) /\ (y + 1) - W64 = x + 1
        BY <1>1, <2>1, <2>2
      <3>2. y < Len(image.content[k]) /\ y + 1 \in DOMAIN image.content[k]
        BY <1>6, <1>7, <2>2, <3>1, LenProperties
      <3>3. y < image.table[k].rs
        BY <1>1, <1>8, <2>1, <2>2, <3>1
      <3>4. Image!Memory(Va(k) + y) = image.content[k][y + 1]
        <4>. HIDE DEF y
        <4>. QED
          BY <3>1, <3>2, <3>3, ContentThere
      <3>5. image.content[k][y + 1] = a[k][x + 1]
        <4>. HIDE DEF y
        <4>. QED
          BY <1>6, <1>7, <2>2, <3>1
      <3>6. Va(k) + Ahead(k) + x = Va(k) + y
        BY <1>1, <2>1, <2>2 DEF Ahead
      <3>. QED
        BY <3>4, <3>5, <3>6
    <2>3. CASE k = Image!TEXT \/ k = Image!DATA
      <3>1. image.content[k] = a[k] /\ Image!Size(object, k) <= image.table[k].rs /\ image.table[k].rs \in Nat
        BY <1>7, <1>8, <2>3
      <3>2. x < Len(image.content[k]) /\ x + 1 \in DOMAIN image.content[k]
        BY <1>3, <2>1, <3>1, LenProperties DEF a
      <3>3. x < image.table[k].rs
        BY <2>1, <3>1
      <3>4. Image!Memory(Va(k) + x) = image.content[k][x + 1]
        BY <2>1, <3>2, <3>3, ContentThere
      <3>5. Va(k) + Ahead(k) + x = Va(k) + x
        BY <2>1, <2>3 DEF Ahead, Image!TEXT, Image!RDATA, Image!DATA
      <3>. QED
        BY <3>1, <3>4, <3>5
    <2>. QED
      BY <1>2, <2>2, <2>3
  <1>. QED
    BY <1>9, <1>10 DEF a

(* Where the image says a byte is is where the layout puts it.             *)
LEMMA Addresses ==
    ASSUME ImageMade, NEW k \in Image!Sections, NEW x \in Int
    PROVE  /\ Image!Address(k, x) = Va(k) + Ahead(k) + x
           /\ Image!LogicalRva(Image!Layout(object), k) + x = Image!Address(k, x)
           /\ Va(k) \in Nat /\ Ahead(k) \in Nat
  <1>1. image.table[k].va = Va(k) /\ Va(k) \in Nat /\ W64 \in Nat
    BY ImageParts
  <1>2. Ahead(k) \in Nat
    BY <1>1 DEF Ahead
  <1>3. Image!Address(k, x) = Va(k) + Ahead(k) + x
    BY <1>1 DEF Image!Address, Ahead
  <1>4. Image!Layout(object).text = PAGE
    BY ImageParts, LaidOut DEF ImageMade
  <1>5. Image!LogicalRva(Image!Layout(object), k) = Va(k) + Ahead(k)
    BY <1>1, <1>4 DEF Image!LogicalRva, Va, Ahead, Image!Sections, Image!TEXT, Image!RDATA, Image!DATA
  <1>. QED
    BY <1>1, <1>2, <1>3, <1>5


(* What each site is adjusted at, and what its field holds.                *)
LEMMA PlacesAll ==
    ASSUME ImageMade
    PROVE  /\ Adjustable = {Va(Image!RDATA)}
                           \cup {Image!Address(Reloc(j).section, Reloc(j).offset) : j \in Image!Absolute(object)}
           /\ Adjustable \in SUBSET Nat /\ IsFiniteSet(Adjustable)
           /\ \A j \in DOMAIN object.relocs : j \in Passed(site)
  <1>1. /\ object \in Image!Objects /\ Image!Materializable(object) /\ site = Len(object.relocs) + 1
        /\ artifact.base \in Seq([section : Image!Sections, offset : Nat])
        /\ {artifact.base[n] : n \in DOMAIN artifact.base} = {PlaceOf(j) : j \in Image!Absolute(object) \cap Passed(site)}
    BY ImageParts DEF ImageMade, ImageIInv, ImageStage, PlacesSoFar
  <1>2. Passed(site) = DOMAIN object.relocs
    BY <1>1, ObjectParts DEF Passed
  <1>3. Image!Absolute(object) \cap Passed(site) = Image!Absolute(object)
    BY <1>2 DEF Image!Absolute
  <1>. DEFINE b == artifact.base
              at(n) == Image!LogicalRva(Image!Layout(object), b[n].section) + b[n].offset
              R == {at(n) : n \in DOMAIN b}
              A == {Image!Address(Reloc(j).section, Reloc(j).offset) : j \in Image!Absolute(object)}
  <1>4. Adjustable = {Va(Image!RDATA)} \cup R
    BY DEF Adjustable, Va, Image!RDATA, Image!TEXT
  <1>5. /\ \A n \in DOMAIN b : b[n].section \in Image!Sections /\ b[n].offset \in Nat
        /\ DOMAIN b = 1 .. Len(b) /\ Len(b) \in Nat
    <2>. DEFINE places == [section : Image!Sections, offset : Nat]
    <2>1. b \in Seq(places)
      BY <1>1
    <2>2. DOMAIN b = 1 .. Len(b) /\ Len(b) \in Nat /\ \A n \in 1 .. Len(b) : b[n] \in places
      <3>. HIDE DEF b, places
      <3>. QED
        BY <2>1, LenProperties, ElementOfSeq
    <2>. QED
      BY <2>2
  <1>6. \A n \in DOMAIN b : at(n) = Image!Address(b[n].section, b[n].offset) /\ at(n) \in Nat
    <2>. TAKE n \in DOMAIN b
    <2>1. b[n].section \in Image!Sections /\ b[n].offset \in Nat
      BY <1>5
    <2>. HIDE DEF b
    <2>. QED
      BY <2>1, Addresses
  <1>7. R = A
    <2>1. ASSUME NEW n \in DOMAIN b PROVE at(n) \in A
      <3>1. PICK j \in Image!Absolute(object) : b[n] = PlaceOf(j)
        BY <1>1, <1>3
      <3>2. b[n].section = Reloc(j).section /\ b[n].offset = Reloc(j).offset
        BY <3>1 DEF PlaceOf
      <3>. HIDE DEF b, at
      <3>. QED
        BY <1>6, <3>1, <3>2
    <2>2. ASSUME NEW j \in Image!Absolute(object) PROVE Image!Address(Reloc(j).section, Reloc(j).offset) \in R
      <3>1. PICK n \in DOMAIN b : b[n] = PlaceOf(j)
        BY <1>1, <1>3
      <3>2. b[n].section = Reloc(j).section /\ b[n].offset = Reloc(j).offset
        BY <3>1 DEF PlaceOf
      <3>. HIDE DEF b, at
      <3>. QED
        BY <1>6, <3>1, <3>2
    <2>. HIDE DEF b, at
    <2>. QED
      BY <2>1, <2>2
  <1>8. IsFiniteSet(R)
    <2>. DEFINE f == [n \in DOMAIN b |-> at(n)]
    <2>1. f \in Surjection(DOMAIN b, R)
      BY DEF Surjection
    <2>2. IsFiniteSet(DOMAIN b)
      <3>1. DOMAIN b = 1 .. Len(b) /\ Len(b) \in Int /\ 1 \in Int
        BY <1>5
      <3>. HIDE DEF b
      <3>2. IsFiniteSet(1 .. Len(b))
        BY <3>1, FS_Interval
      <3>. QED
        BY <3>1, <3>2
    <2>. HIDE DEF f, R, b
    <2>. QED
      BY <2>1, <2>2, FS_Surjection
  <1>9. Va(Image!RDATA) \in Nat
    BY ImageParts DEF Image!RDATA, Image!Sections
  <1>10. R \in SUBSET Nat
    BY <1>6
  <1>11. IsFiniteSet({Va(Image!RDATA)} \cup R)
    <2>1. IsFiniteSet({Va(Image!RDATA)})
      BY FS_Singleton
    <2>. HIDE DEF R
    <2>. QED
      BY <1>8, <2>1, FS_Union
  <1>. HIDE DEF R, A
  <1>12. \A j \in DOMAIN object.relocs : j \in Passed(site)
    BY <1>2
  <1>13. Adjustable = {Va(Image!RDATA)} \cup A
    BY <1>4, <1>7
  <1>14. Adjustable \in SUBSET Nat /\ IsFiniteSet(Adjustable)
    BY <1>4, <1>9, <1>10, <1>11
  <1>. QED
    BY <1>12, <1>13, <1>14 DEF A

LEMMA MadeLoads == ASSUME ImageMade PROVE Image!LoadsAsLinked
  <1>1. /\ object \in Image!Objects /\ Image!Materializable(object) /\ ImageAssumed /\ step = "made"
        /\ \A k \in Image!Sections : Image!Size(object, k) \in Nat
        /\ image.entry = PAGE + artifact.entry /\ image.table[Image!RDATA].va = Va(Image!RDATA)
        /\ artifact.entry = object.symbols[object.entry].offset
    <2>1. Image!RDATA \in Image!Sections
      BY DEF Image!RDATA, Image!Sections
    <2>. QED
      BY <2>1, ImageParts DEF ImageMade, ImageIInv, Copied
  <1>2. artifact.entry \in Nat /\ IMAGE_BASE \in Nat /\ PAGE \in Nat
    <2>1. object.entry # 0 /\ Image!ValidEntry(object)
      BY <1>1 DEF Image!Materializable, Image!Valid
    <2>2. object.entry \in DOMAIN object.symbols
      BY <1>1, <2>1, ObjectParts DEF Image!ValidEntry
    <2>3. object.symbols[object.entry] \in Image!SymbolRecords
      BY <1>1, <2>2, ObjectParts
    <2>. QED
      BY <1>1, <2>3 DEF Image!SymbolRecords, ImageAssumed, Image!PeAssumption, Image!RelocationAssumption
  <1>3. Image!Field(image.table[Image!RDATA].va, W64, IMAGE_BASE + image.entry)
    <2>1. \A n \in 1 .. W64 : Anchor[n] = <<"field", IMAGE_BASE + image.entry, n>>
      BY <1>1, <1>2 DEF Anchor
    <2>. QED
      BY <1>1, <2>1, SectionThere DEF Image!Field
  <1>4. image.entry = Image!Address(Image!TEXT, object.symbols[object.entry].offset)
    <2>1. Image!TEXT \in Image!Sections
      BY DEF Image!TEXT, Image!Sections
    <2>2. Image!Address(Image!TEXT, artifact.entry) = Va(Image!TEXT) + Ahead(Image!TEXT) + artifact.entry
      BY <1>2, <2>1, Addresses
    <2>. QED
      BY <1>1, <1>2, <2>2 DEF Va, Ahead, Image!TEXT, Image!RDATA
  <1>5. Image!Adjusted = {image.table[Image!RDATA].va}
                      \cup {Image!Address(object.relocs[j].section, object.relocs[j].offset) : j \in Image!Absolute(object)}
    <2>1. Adjustable \in SUBSET Nat /\ IsFiniteSet(Adjustable) /\ image.blocks = PageBlocks(Adjustable)
      BY PlacesAll, ImageParts
    <2>2. Image!Adjusted = Adjustable
      BY <1>1, <2>1, BlocksCover DEF Image!Adjusted
    <2>. QED
      BY <1>1, <2>2, PlacesAll DEF Reloc
  <1>6. ASSUME NEW j \in DOMAIN object.relocs
        PROVE  LET r == object.relocs[j]
                   s == object.symbols[r.target]
                   place == Image!Address(r.section, r.offset)
                   symbol == Image!Address(s.section, s.offset)
               IN  Image!Field(place, Image!Width(r.kind),
                         IF r.kind = "DIR64" THEN IMAGE_BASE + symbol + r.addend
                         ELSE symbol + r.addend - (place + W32))
    <2>. DEFINE r == object.relocs[j]
                s == object.symbols[r.target]
                place == Image!Address(r.section, r.offset)
                symbol == Image!Address(s.section, s.offset)
                value == IF r.kind = "DIR64" THEN IMAGE_BASE + symbol + r.addend
                         ELSE symbol + r.addend - (place + W32)
    <2>1. /\ r.kind \in {"REL32", "DIR64"} /\ r.section \in Image!Sections /\ r.offset \in Nat
          /\ Image!Width(r.kind) \in Nat \ {0}
          /\ r.offset + Image!Width(r.kind) <= Image!Size(object, r.section)
          /\ s.section \in Image!Sections /\ s.offset \in Nat
      BY <1>1, RelocParts DEF Reloc
    <2>2. /\ Image!LogicalRva(Image!Layout(object), r.section) + r.offset = place
          /\ Image!LogicalRva(Image!Layout(object), s.section) + s.offset = symbol
          /\ place = Va(r.section) + Ahead(r.section) + r.offset
          /\ Va(r.section) \in Nat /\ Ahead(r.section) \in Nat
      BY <2>1, Addresses
    <2>3. value = ValueOf(j)
      BY <2>1, <2>2 DEF ValueOf, Image!FieldValue, Reloc
    <2>. HIDE DEF s, place, symbol, value
    <2>4. ASSUME NEW n \in 1 .. Image!Width(r.kind) PROVE Image!Memory(place + n - 1) = <<"field", value, n>>
      <3>. DEFINE x == r.offset + n - 1
      <3>1. /\ x \in 0 .. Image!Size(object, r.section) - 1 /\ x + 1 = r.offset + n
            /\ Va(r.section) + Ahead(r.section) + x = place + n - 1
        BY <1>1, <2>1, <2>2
      <3>. HIDE DEF x
      <3>2. Image!Memory(Va(r.section) + Ahead(r.section) + x) = artifact.sections[r.section][x + 1]
        BY <2>1, <3>1, SectionThere
      <3>3. artifact.sections[r.section][r.offset + n] = <<"field", ValueOf(j), n>>
        BY PlacesAll DEF ImageMade, ImageIInv, PatchedSoFar, Reloc
      <3>. QED
        BY <2>3, <3>1, <3>2, <3>3
    <2>5. Image!Field(place, Image!Width(r.kind), value)
      BY <2>4 DEF Image!Field
    <2>. QED
      BY <2>5 DEF place, symbol, s, value
  <1>7. ASSUME NEW k \in Image!Sections, NEW x \in 0 .. Image!Size(object, k) - 1,
               ~ \E j \in DOMAIN object.relocs :
                    LET r == object.relocs[j] IN
                    r.section = k /\ x \in r.offset .. r.offset + Image!Width(r.kind) - 1
        PROVE  Image!Memory(Image!Address(k, x)) = <<object.sections[k][x + 1]>>
    <2>1. x \in Int /\ x + 1 \in 1 .. Image!Size(object, k)
      BY <1>1
    <2>2. \A j \in Passed(site) : ~ Hit(j, k, x + 1)
      <3>. SUFFICES ASSUME NEW j \in DOMAIN object.relocs, Hit(j, k, x + 1) PROVE FALSE
        BY DEF Passed
      <3>1. Reloc(j).offset \in Nat /\ Image!Width(Reloc(j).kind) \in Nat
        BY <1>1, RelocParts
      <3>2. x \in Reloc(j).offset .. Reloc(j).offset + Image!Width(Reloc(j).kind) - 1
        BY <2>1, <3>1 DEF Hit
      <3>. QED
        BY <1>7, <3>2 DEF Hit, Reloc
    <2>3. artifact.sections[k][x + 1] = <<object.sections[k][x + 1]>>
      BY <2>1, <2>2 DEF ImageMade, ImageIInv, PatchedSoFar
    <2>. QED
      BY <2>1, <2>3, SectionThere, Addresses
  <1>. QED
    BY <1>3, <1>4, <1>5, <1>6, <1>7 DEF Image!LoadsAsLinked

(* Whatever object is materialized and wherever the image is loaded, an    *)
(* absolute field moves with it and holds the address of its symbol, a     *)
(* relative one holds the distance to it, the anchor holds the entry, and  *)
(* every other byte is the object's.                                       *)
THEOREM ImageLoads == Image!Spec => []LoadsAsLinked
  <1>0. ImageAssumed
    BY ImageAssumption DEF ImageAssumed
  <1>1. Image!Init => ImageIInv
    BY <1>0, ImageInit
  <1>2. ImageIInv /\ [Image!Next]_(Image!vars) => ImageIInv'
    BY <1>0, ImageNext
  <1>3. ImageIInv => LoadsAsLinked
    <2>1. ImageIInv => Image!LoadsAsLinked
      <3>1. CASE step # "made"
        BY <3>1 DEF Image!LoadsAsLinked
      <3>2. CASE step = "made"
        BY <1>0, <3>2, MadeLoads DEF ImageMade
      <3>. QED
        BY <3>1, <3>2
    <2>. QED
      BY <2>1 DEF LoadsAsLinked
  <1>. QED
    BY <1>1, <1>2, <1>3, PTL DEF Image!Spec

-----------------------------------------------------------------------------
(* What the writer asks of the artifact.                                   *)

(* The base relocations are in the order of their places, and apart.       *)
Aside(p, q) == p.section < q.section \/ (p.section = q.section /\ p.offset + W64 <= q.offset)
PlacesApart ==
    step \in {"patch", "make_pe", "made"} =>
        \A m, n \in DOMAIN artifact.base : m < n => Aside(artifact.base[m], artifact.base[n])

LEMMA ApartPatch == ASSUME ImageAssumed, ImageIInv, PlacesApart, Image!Patch, step' = step PROVE PlacesApart'
  <1>. DEFINE b == artifact.base
              r == Reloc(site)
              places == [section : Image!Sections, offset : Nat]
  <1>1. /\ object \in Image!Objects /\ Image!Materializable(object) /\ Image!Valid(object)
        /\ step = "patch" /\ site \in DOMAIN object.relocs
    <2>1. /\ object \in Image!Objects /\ Image!Materializable(object) /\ step = "patch"
          /\ site \in Nat \ {0} /\ site <= Len(object.relocs)
      BY DEF ImageIInv, ImageStage, Image!Patch
    <2>2. DOMAIN object.relocs = 1 .. Len(object.relocs) /\ Len(object.relocs) \in Nat
      BY <2>1, ObjectParts
    <2>3. Image!Valid(object)
      BY <2>1 DEF Image!Materializable
    <2>. QED
      BY <2>1, <2>2, <2>3
  <1>2. /\ b \in Seq(places)
        /\ \A n \in DOMAIN b : \E j \in Image!Absolute(object) \cap Passed(site) : b[n] = PlaceOf(j)
    BY <1>1 DEF ImageIInv, PlacesSoFar
  <1>3. artifact'.base = IF r.kind = "DIR64" THEN Append(b, PlaceOf(site)) ELSE b
    <2>1. artifact' = [artifact EXCEPT
              !.sections[r.section] = Image!Stored(@, r.offset, Image!Width(r.kind), ValueOf(site)),
              !.base = IF r.kind = "DIR64" THEN Append(@, [section |-> r.section, offset |-> r.offset]) ELSE @]
      BY <1>1 DEF Image!Patch, Image!Fail, ValueOf, Reloc
    <2>2. artifact = [sections |-> artifact.sections, entry |-> artifact.entry, base |-> artifact.base]
      BY <1>1 DEF ImageIInv, Copied
    <2>. QED
      BY <2>1, <2>2 DEF PlaceOf
  <1>4. \A m, n \in DOMAIN b : m < n => Aside(b[m], b[n])
    BY <1>1 DEF PlacesApart
  <1>5. CASE r.kind # "DIR64"
    BY <1>1, <1>3, <1>4, <1>5 DEF PlacesApart, Aside
  <1>6. CASE r.kind = "DIR64"
    <2>1. r.section \in Image!Sections /\ r.offset \in Nat
      BY <1>1, RelocParts
    <2>2. PlaceOf(site) \in places
      BY <2>1 DEF PlaceOf
    <2>. DEFINE c == Append(b, PlaceOf(site))
    <2>3. /\ Len(b) \in Nat /\ DOMAIN b = 1 .. Len(b) /\ DOMAIN c = 1 .. Len(b) + 1
          /\ \A n \in 1 .. Len(b) : c[n] = b[n]
          /\ c[Len(b) + 1] = PlaceOf(site)
      <3>. HIDE DEF b, places
      <3>. QED
        BY <1>2, <2>2, LenProperties, AppendProperties
    <2>4. ASSUME NEW m \in 1 .. Len(b) PROVE Aside(b[m], PlaceOf(site))
      <3>1. PICK j \in Image!Absolute(object) \cap Passed(site) : b[m] = PlaceOf(j)
        BY <1>2, <2>3
      <3>2. j \in DOMAIN object.relocs /\ j < site /\ Reloc(j).kind = "DIR64"
        BY DEF Image!Absolute, Passed, Reloc
      <3>3. Behind(Reloc(j), r)
        BY <1>1, <3>2, FieldsApart DEF Reloc
      <3>4. Image!Width(Reloc(j).kind) = W64
        BY <3>2 DEF Image!Width
      <3>5. PlaceOf(j).section = Reloc(j).section /\ PlaceOf(j).offset = Reloc(j).offset
            /\ PlaceOf(site).section = r.section /\ PlaceOf(site).offset = r.offset
        BY DEF PlaceOf
      <3>. HIDE DEF b, r
      <3>. QED
        BY <3>1, <3>3, <3>4, <3>5 DEF Behind, Aside
    <2>5. ASSUME NEW m \in DOMAIN c, NEW n \in DOMAIN c, m < n PROVE Aside(c[m], c[n])
      <3>1. m \in 1 .. Len(b) /\ (n \in 1 .. Len(b) \/ n = Len(b) + 1)
        BY <2>3, <2>5
      <3>. HIDE DEF b, c
      <3>2. CASE n \in 1 .. Len(b)
        BY <1>4, <2>3, <2>5, <3>1, <3>2
      <3>3. CASE n = Len(b) + 1
        BY <2>3, <2>4, <3>1, <3>3
      <3>. QED
        BY <3>1, <3>2, <3>3
    <2>6. artifact'.base = c
      BY <1>3, <1>6
    <2>. HIDE DEF c
    <2>. QED
      BY <2>5, <2>6 DEF PlacesApart, Aside
  <1>. QED
    BY <1>5, <1>6

LEMMA ApartNext == ASSUME ImageAssumed, ImageIInv, PlacesApart, [Image!Next]_(Image!vars) PROVE PlacesApart'
  <1>1. CASE step' \in {"failed", "done"}
    BY <1>1 DEF PlacesApart
  <1>2. CASE step' = step /\ artifact' = artifact
    BY <1>2 DEF PlacesApart, Aside
  <1>3. CASE Image!Materialize
    <2>1. CASE step' = "patch"
      <3>1. artifact'.base = <<>>
        BY <1>3, <2>1 DEF Image!Materialize, Image!Fail
      <3>. QED
        BY <3>1 DEF PlacesApart
    <2>. QED
      BY <1>1, <1>3, <2>1 DEF Image!Materialize, Image!Fail
  <1>4. CASE Image!Patch
    <2>1. step' = step \/ step' = "failed"
      BY <1>4, ZenonT(40) DEF Image!Patch, Image!Fail
    <2>. QED
      BY <1>1, <1>4, <2>1, ApartPatch
  <1>5. CASE Image!Patched
    BY <1>5 DEF Image!Patched, PlacesApart, Aside
  <1>6. CASE Image!MakePe
    <2>1. step' = "failed" \/ (step = "make_pe" /\ artifact' = artifact)
      BY <1>6 DEF Image!MakePe, Image!Fail
    <2>. QED
      BY <1>1, <2>1 DEF PlacesApart, Aside
  <1>7. CASE Image!Release
    BY <1>1, <1>7 DEF Image!Release
  <1>8. CASE UNCHANGED (Image!vars)
    BY <1>2, <1>8 DEF Image!vars
  <1>. QED
    BY <1>3, <1>4, <1>5, <1>6, <1>7, <1>8 DEF Image!Next

(* The places, in the order of the table, and the anchor are apart.        *)
LEMMA Spaced ==
    ASSUME ImageAssumed, ImageIInv, PlacesApart, step \in {"make_pe", "made"}
    PROVE  /\ Len(artifact.base) \in Nat /\ DOMAIN artifact.base = 1 .. Len(artifact.base)
           /\ \A n \in DOMAIN artifact.base :
                 /\ artifact.base[n].section \in Image!Sections /\ artifact.base[n].offset \in Nat
                 /\ artifact.base[n].offset + W64 <= Image!Size(object, artifact.base[n].section)
           /\ Va(Image!RDATA) \in Nat
           /\ \A n \in DOMAIN artifact.base :
                 LET at(i) == Image!LogicalRva(Image!Layout(object), artifact.base[i].section) + artifact.base[i].offset
                 IN  /\ at(n) \in Nat
                     /\ at(n) + W64 <= Va(Image!RDATA) \/ Va(Image!RDATA) + W64 <= at(n)
                     /\ \A m \in DOMAIN artifact.base : m < n => at(m) + W64 <= at(n)
  <1>. DEFINE b == artifact.base
              l == Image!Layout(object)
              start(k) == Image!LogicalRva(l, k)
              at(i) == start(b[i].section) + b[i].offset
              places == [section : Image!Sections, offset : Nat]
  <1>1. /\ object \in Image!Objects /\ Image!Materializable(object) /\ Image!LayoutOK(object)
        /\ b \in Seq(places)
        /\ \A n \in DOMAIN b : \E j \in Image!Absolute(object) : b[n] = PlaceOf(j)
        /\ \A m, n \in DOMAIN b : m < n => Aside(b[m], b[n])
    <2>1. object \in Image!Objects /\ Image!Materializable(object)
      BY DEF ImageIInv, ImageStage
    <2>2. b \in Seq(places) /\ \A n \in DOMAIN b : \E j \in Image!Absolute(object) : b[n] = PlaceOf(j)
      BY DEF ImageIInv, PlacesSoFar
    <2>. QED
      BY <2>1, <2>2 DEF Image!Materializable, PlacesApart
  <1>2. Len(b) \in Nat /\ DOMAIN b = 1 .. Len(b)
    <2>. HIDE DEF b
    <2>. QED
      BY <1>1, LenProperties
  <1>3. ASSUME NEW n \in DOMAIN b
        PROVE  b[n].section \in Image!Sections /\ b[n].offset \in Nat
               /\ b[n].offset + W64 <= Image!Size(object, b[n].section)
    <2>1. PICK j \in Image!Absolute(object) : b[n] = PlaceOf(j)
      BY <1>1
    <2>2. j \in DOMAIN object.relocs /\ Image!Width(Reloc(j).kind) = W64
      BY DEF Image!Absolute, Reloc, Image!Width
    <2>3. b[n].section = Reloc(j).section /\ b[n].offset = Reloc(j).offset
      BY <2>1 DEF PlaceOf
    <2>4. /\ Reloc(j).section \in Image!Sections /\ Reloc(j).offset \in Nat
          /\ Reloc(j).offset + Image!Width(Reloc(j).kind) <= Image!Size(object, Reloc(j).section)
      BY <1>1, <2>2, RelocParts
    <2>. HIDE DEF b
    <2>. QED
      BY <2>2, <2>3, <2>4
  <1>4. PAGE \in Nat /\ W64 \in Nat \ {0} /\ RAW \in Nat \ {0} /\ \A k \in Image!Sections : Image!Size(object, k) \in Nat
    BY <1>1, ObjectParts, NxoAssumption DEF ImageAssumed, Image!PeAssumption
  <1>5. /\ l.text = PAGE /\ l.rdata \in Nat /\ l.data \in Nat
        /\ PAGE + Image!Size(object, 1) <= l.rdata
        /\ l.rdata + W64 + Image!Size(object, 2) <= l.data
    <2>1. /\ l.text = PAGE /\ l.rdata \in Nat /\ l.data \in Nat
          /\ PAGE + Image!UpTo(Image!Size(object, 1), RAW) <= l.rdata
          /\ l.rdata + Image!UpTo(W64 + Image!Size(object, 2), RAW) <= l.data
      BY <1>1, LaidOut DEF Image!TEXT, Image!RDATA
    <2>2. Image!Size(object, 1) \in Nat /\ W64 + Image!Size(object, 2) \in Nat
      BY <1>4 DEF Image!Sections
    <2>3. /\ Image!Size(object, 1) <= Image!UpTo(Image!Size(object, 1), RAW)
          /\ W64 + Image!Size(object, 2) <= Image!UpTo(W64 + Image!Size(object, 2), RAW)
          /\ Image!UpTo(Image!Size(object, 1), RAW) \in Nat /\ Image!UpTo(W64 + Image!Size(object, 2), RAW) \in Nat
      BY <1>4, <2>2, RoundedUp
    <2>4. Image!Size(object, 2) \in Nat
      BY <1>4 DEF Image!Sections
    <2>. HIDE DEF l
    <2>. QED
      BY <1>4, <2>1, <2>2, <2>3, <2>4
  <1>6. start(1) = l.text /\ start(2) = l.rdata + W64 /\ start(3) = l.data
    BY DEF Image!LogicalRva, Image!TEXT, Image!RDATA, Image!DATA
  <1>7. Va(Image!RDATA) = l.rdata
    BY DEF Va, Image!TEXT, Image!RDATA
  <1>8. \A k \in Image!Sections : k = 1 \/ k = 2 \/ k = 3
    BY DEF Image!Sections
  <1>. HIDE DEF l, start, b
  <1>9. ASSUME NEW n \in DOMAIN b
        PROVE  at(n) \in Nat /\ (at(n) + W64 <= l.rdata \/ l.rdata + W64 <= at(n))
    <2>1. b[n].section \in Image!Sections /\ b[n].offset \in Nat
          /\ b[n].offset + W64 <= Image!Size(object, b[n].section)
      BY <1>3
    <2>2. Image!Size(object, b[n].section) \in Nat
      BY <1>4, <2>1
    <2>3. CASE b[n].section = 1
      BY <1>4, <1>5, <1>6, <2>1, <2>2, <2>3
    <2>4. CASE b[n].section = 2
      BY <1>4, <1>5, <1>6, <2>1, <2>4
    <2>5. CASE b[n].section = 3
      <3>1. Image!Size(object, 2) \in Nat
        BY <1>4 DEF Image!Sections
      <3>. QED
        BY <1>4, <1>5, <1>6, <2>1, <2>5, <3>1
    <2>. QED
      BY <1>8, <2>1, <2>3, <2>4, <2>5
  <1>10. ASSUME NEW m \in DOMAIN b, NEW n \in DOMAIN b, m < n PROVE at(m) + W64 <= at(n)
    <2>1. /\ b[n].section \in Image!Sections /\ b[n].offset \in Nat
          /\ b[m].section \in Image!Sections /\ b[m].offset \in Nat
          /\ b[m].offset + W64 <= Image!Size(object, b[m].section)
      BY <1>3
    <2>2. Aside(b[m], b[n])
      BY <1>1, <1>10
    <2>3. start(b[m].section) \in Nat
      BY <1>4, <1>5, <1>6, <1>8, <2>1
    <2>4. CASE b[m].section = b[n].section
      <3>1. b[m].offset + W64 <= b[n].offset
        <4>1. b[m].section \in Int
          BY <1>8, <2>1
        <4>. QED
          BY <2>2, <2>4, <4>1 DEF Aside
      <3>. QED
        BY <1>4, <2>1, <2>3, <2>4, <3>1
    <2>5. CASE b[m].section # b[n].section
      <3>1. b[m].section < b[n].section
        BY <2>2, <2>5 DEF Aside
      <3>2. \/ (b[m].section = 1 /\ (b[n].section = 2 \/ b[n].section = 3))
            \/ (b[m].section = 2 /\ b[n].section = 3)
        BY <1>8, <2>1, <3>1
      <3>3. Image!Size(object, 1) \in Nat /\ Image!Size(object, 2) \in Nat
        BY <1>4 DEF Image!Sections
      <3>4. CASE b[m].section = 1
        BY <1>4, <1>5, <1>6, <2>1, <3>2, <3>3, <3>4, SMTT(30)
      <3>5. CASE b[m].section = 2
        BY <1>4, <1>5, <1>6, <2>1, <3>2, <3>3, <3>5, SMTT(30)
      <3>. QED
        BY <3>2, <3>4, <3>5
    <2>. QED
      BY <2>4, <2>5
  <1>. QED
    BY <1>2, <1>3, <1>5, <1>7, <1>9, <1>10 DEF b, l, start

(* The list of base relocations is as long as there are absolute ones.     *)
LEMMA ListedOnce ==
    ASSUME ImageAssumed, ImageIInv, PlacesApart, step \in {"make_pe", "made"}
    PROVE  Len(artifact.base) = Cardinality(Image!Absolute(object))
  <1>. DEFINE b == artifact.base
              A == Image!Absolute(object)
              T == {PlaceOf(j) : j \in A}
  <1>1. /\ object \in Image!Objects /\ Image!Materializable(object) /\ Image!Valid(object) /\ W64 \in Nat \ {0}
        /\ {b[n] : n \in DOMAIN b} = T
        /\ \A m, n \in DOMAIN b : m < n => Aside(b[m], b[n])
        /\ Len(b) \in Nat /\ DOMAIN b = 1 .. Len(b)
        /\ \A n \in DOMAIN b : b[n].section \in Image!Sections /\ b[n].offset \in Nat
    <2>1. object \in Image!Objects /\ Image!Materializable(object) /\ W64 \in Nat \ {0}
      BY NxoAssumption DEF ImageIInv, ImageStage
    <2>2. {b[n] : n \in DOMAIN b} = {PlaceOf(j) : j \in A \cap Passed(site)} /\ \A j \in A : j \in Passed(site)
      <3>1. site = Len(object.relocs) + 1 /\ DOMAIN object.relocs = 1 .. Len(object.relocs) /\ Len(object.relocs) \in Nat
        BY <2>1, ObjectParts DEF ImageIInv, ImageStage
      <3>2. \A j \in A : j \in Passed(site)
        BY <3>1 DEF Passed, Image!Absolute
      <3>. QED
        BY <3>2 DEF ImageIInv, PlacesSoFar
    <2>3. A \cap Passed(site) = A
      BY <2>2
    <2>4. {b[n] : n \in DOMAIN b} = T
      <3>. HIDE DEF A, b
      <3>. QED
        BY <2>2, <2>3
    <2>5. /\ Len(b) \in Nat /\ DOMAIN b = 1 .. Len(b)
          /\ \A n \in DOMAIN b : b[n].section \in Image!Sections /\ b[n].offset \in Nat
      BY Spaced
    <2>6. \A m, n \in DOMAIN b : m < n => Aside(b[m], b[n])
      BY DEF PlacesApart
    <2>7. Image!Valid(object)
      BY <2>1 DEF Image!Materializable
    <2>. HIDE DEF b, T
    <2>. QED
      BY <2>1, <2>4, <2>5, <2>6, <2>7
  <1>2. IsFiniteSet(A) /\ \A j \in A : j \in DOMAIN object.relocs /\ j \in Nat /\ Image!Width(Reloc(j).kind) = W64
                                     /\ Reloc(j).section \in Image!Sections /\ Reloc(j).offset \in Nat
    <2>1. PICK N \in Nat : N = Len(object.relocs) /\ DOMAIN object.relocs = 1 .. N
      BY <1>1, ObjectParts
    <2>2. A \subseteq 1 .. N /\ IsFiniteSet(1 .. N)
      BY <2>1, FS_Interval DEF Image!Absolute
    <2>3. IsFiniteSet(A)
      BY <2>2, FS_Subset
    <2>4. \A j \in A : j \in DOMAIN object.relocs /\ Image!Width(Reloc(j).kind) = W64
      BY DEF Image!Absolute, Reloc, Image!Width
    <2>5. \A j \in A : Reloc(j).section \in Image!Sections /\ Reloc(j).offset \in Nat
      BY <1>1, <2>4, RelocParts
    <2>. HIDE DEF A
    <2>. QED
      BY <2>1, <2>3, <2>4, <2>5
  <1>. HIDE DEF b
  <1>3. Cardinality(T) = Cardinality(A) /\ IsFiniteSet(T)
    <2>. DEFINE g == [j \in A |-> PlaceOf(j)]
    <2>1. g \in Surjection(A, T)
      BY DEF Surjection
    <2>2. \A i, j \in A : i < j => PlaceOf(i) # PlaceOf(j)
      <3>. SUFFICES ASSUME NEW i \in A, NEW j \in A, i < j PROVE PlaceOf(i) # PlaceOf(j)
        OBVIOUS
      <3>1. Behind(Reloc(i), Reloc(j))
        BY <1>1, <1>2, FieldsApart DEF Reloc
      <3>2. /\ PlaceOf(i).section = Reloc(i).section /\ PlaceOf(i).offset = Reloc(i).offset
            /\ PlaceOf(j).section = Reloc(j).section /\ PlaceOf(j).offset = Reloc(j).offset
        BY DEF PlaceOf
      <3>3. /\ Image!Width(Reloc(i).kind) = W64 /\ Reloc(i).section \in Int /\ Reloc(i).offset \in Nat
            /\ Reloc(j).section \in Int /\ Reloc(j).offset \in Nat
        BY <1>2 DEF Image!Sections
      <3>. QED
        BY <1>1, <3>1, <3>2, <3>3 DEF Behind
    <2>3. g \in Injection(A, T)
      <3>1. \A i, j \in A : PlaceOf(i) = PlaceOf(j) => i = j
        <4>. SUFFICES ASSUME NEW i \in A, NEW j \in A, i # j PROVE PlaceOf(i) # PlaceOf(j)
          OBVIOUS
        <4>1. i < j \/ j < i
          BY <1>2
        <4>. QED
          BY <2>2, <4>1
      <3>2. g \in [A -> T]
        OBVIOUS
      <3>. HIDE DEF A, T
      <3>. QED
        BY <3>1, <3>2 DEF Injection, IsInjective
    <2>. HIDE DEF g, T, A
    <2>4. IsFiniteSet(T) /\ Cardinality(T) <= Cardinality(A)
      BY <1>2, <2>1, FS_Surjection
    <2>5. Cardinality(A) <= Cardinality(T)
      BY <2>3, <2>4, FS_Injection
    <2>6. Cardinality(A) \in Nat /\ Cardinality(T) \in Nat
      BY <1>2, <2>4, FS_CardinalityType
    <2>. QED
      BY <2>4, <2>5, <2>6
  <1>4. Cardinality(T) = Len(b)
    <2>. DEFINE f == [n \in 1 .. Len(b) |-> b[n]]
    <2>1. f \in Surjection(1 .. Len(b), T)
      <3>1. \A n \in 1 .. Len(b) : b[n] \in T
        BY <1>1
      <3>2. \A p \in T : \E n \in 1 .. Len(b) : b[n] = p
        BY <1>1
      <3>. HIDE DEF T
      <3>. QED
        BY <3>1, <3>2 DEF Surjection
    <2>2. \A m, n \in 1 .. Len(b) : b[m] = b[n] => m = n
      <3>. SUFFICES ASSUME NEW m \in 1 .. Len(b), NEW n \in 1 .. Len(b), m # n PROVE b[m] # b[n]
        OBVIOUS
      <3>1. m < n \/ n < m
        BY <1>1
      <3>2. (m < n => Aside(b[m], b[n])) /\ (n < m => Aside(b[n], b[m]))
        BY <1>1
      <3>3. b[m].section \in Int /\ b[m].offset \in Nat /\ b[n].section \in Int /\ b[n].offset \in Nat
        BY <1>1 DEF Image!Sections
      <3>. QED
        BY <1>1, <3>1, <3>2, <3>3 DEF Aside
    <2>3. f \in Injection(1 .. Len(b), T)
      BY <2>1, <2>2 DEF Injection, IsInjective, Surjection
    <2>. HIDE DEF f, T
    <2>4. IsFiniteSet(1 .. Len(b)) /\ Cardinality(1 .. Len(b)) = Len(b)
      <3>1. PICK N \in Nat : N = Len(b)
        BY <1>1
      <3>2. IsFiniteSet(1 .. N) /\ Cardinality(1 .. N) = N
        BY FS_Interval
      <3>. QED
        BY <3>1, <3>2
    <2>5. Cardinality(T) <= Len(b)
      BY <2>1, <2>4, FS_Surjection
    <2>6. Len(b) <= Cardinality(T)
      BY <1>3, <2>3, <2>4, FS_Injection
    <2>7. Cardinality(T) \in Nat
      BY <1>3, FS_CardinalityType
    <2>. QED
      BY <1>1, <2>5, <2>6, <2>7
  <1>. QED
    BY <1>3, <1>4 DEF b

LEMMA MaterializedWritable ==
    ASSUME ImageAssumed, ImageIInv, PlacesApart, step \in {"make_pe", "made"}
    PROVE  Image!Writable /\ Image!Cardinality(Adjustable) = Len(artifact.base) + 1
  <1>. DEFINE b == artifact.base
              at(i) == Image!LogicalRva(Image!Layout(object), b[i].section) + b[i].offset
              R == {at(n) : n \in DOMAIN b}
              a == Va(Image!RDATA)
  <1>1. /\ object \in Image!Objects /\ Image!Materializable(object)
        /\ artifact.entry = object.symbols[object.entry].offset
        /\ \A k \in Image!Sections : Len(artifact.sections[k]) = Image!Size(object, k)
    BY DEF ImageIInv, ImageStage, Copied
  <1>2. W64 \in Nat \ {0} /\ \A k \in Image!Sections : Image!Size(object, k) \in Nat
    BY <1>1, ObjectParts, NxoAssumption
  <1>3. artifact.entry < Len(artifact.sections[Image!TEXT])
    <2>. DEFINE s == object.symbols[object.entry]
    <2>1. Image!ValidEntry(object) /\ object.entry # 0
      BY <1>1 DEF Image!Materializable, Image!Valid
    <2>2. object.entry \in DOMAIN object.symbols /\ s.section = Image!TEXT /\ s.kind = "function"
      BY <1>1, <2>1, ObjectParts DEF Image!ValidEntry
    <2>3. s \in Image!SymbolRecords /\ ~ s.import /\ Image!ValidSymbol(object, object.entry)
      BY <1>1, <2>2, ObjectParts DEF Image!Materializable, Image!Valid
    <2>4. s.size > 0 /\ Image!Span(s.offset, s.size, Image!Size(object, Image!TEXT))
      BY <2>2, <2>3 DEF Image!ValidSymbol
    <2>5. s.offset \in Nat /\ s.size \in Nat
      BY <2>3 DEF Image!SymbolRecords
    <2>6. Image!TEXT \in Image!Sections
      BY DEF Image!TEXT, Image!Sections
    <2>. HIDE DEF s
    <2>7. s.offset < Image!Size(object, Image!TEXT)
      BY <1>2, <2>4, <2>5, <2>6 DEF Image!Span
    <2>. QED
      BY <1>1, <2>6, <2>7 DEF s
  <1>4. \A k \in Image!Sections : Len(artifact.sections[k]) <= SECTION_LIMIT
    BY <1>1 DEF Image!Materializable, Image!LayoutOK
  <1>5. /\ Len(b) \in Nat /\ DOMAIN b = 1 .. Len(b) /\ a \in Nat
        /\ \A n \in DOMAIN b :
              /\ b[n].section \in Image!Sections /\ b[n].offset \in Nat
              /\ b[n].offset + W64 <= Image!Size(object, b[n].section)
        /\ \A n \in DOMAIN b :
              /\ at(n) \in Nat
              /\ at(n) + W64 <= a \/ a + W64 <= at(n)
              /\ \A m \in DOMAIN b : m < n => at(m) + W64 <= at(n)
    BY Spaced
  <1>6. \A n \in DOMAIN b : Image!Span(b[n].offset, W64, Len(artifact.sections[b[n].section]))
    <2>. TAKE n \in DOMAIN b
    <2>1. /\ b[n].section \in Image!Sections /\ b[n].offset \in Nat
          /\ b[n].offset + W64 <= Image!Size(object, b[n].section)
      BY <1>5
    <2>2. Len(artifact.sections[b[n].section]) = Image!Size(object, b[n].section)
          /\ Image!Size(object, b[n].section) \in Nat
      BY <1>1, <1>2, <2>1
    <2>. HIDE DEF b
    <2>. QED
      BY <1>2, <2>1, <2>2 DEF Image!Span
  <1>7. Adjustable = {a} \cup R
    BY DEF Adjustable, Va, Image!RDATA, Image!TEXT
  <1>. HIDE DEF at, a
  <1>8. PICK L \in Nat : /\ L = Len(b) + 1 /\ Image!Rvas \in [1 .. L -> Int] /\ Image!Rvas[1] = a
                         /\ \A n \in 2 .. L : n - 1 \in DOMAIN b /\ Image!Rvas[n] = at(n - 1)
    <2>1. /\ Len(b) \in Nat /\ DOMAIN b = 1 .. Len(b) /\ Image!Rvas \in [1 .. Len(b) + 1 -> Int]
          /\ Image!Rvas[1] = a /\ \A n \in DOMAIN b : Image!Rvas[n + 1] = at(n)
      BY PlacesListed DEF at, a, Va, PlaceAt, Image!RDATA, Image!TEXT
    <2>2. PICK k \in Nat : k = Len(b) /\ DOMAIN b = 1 .. k
      BY <2>1
    <2>. HIDE DEF b
    <2>3. \A n \in 2 .. k + 1 : n - 1 \in 1 .. k /\ (n - 1) + 1 = n
      OBVIOUS
    <2>. QED
      BY <2>1, <2>2, <2>3
  <1>. DEFINE rvas == Image!Rvas
              s == Image!InOrder(rvas)
              Far(x, y) == x + W64 <= y \/ y + W64 <= x
  <1>9. \A i, j \in 1 .. L : i < j => Far(rvas[i], rvas[j])
    <2>. SUFFICES ASSUME NEW i \in 1 .. L, NEW j \in 1 .. L, i < j PROVE Far(rvas[i], rvas[j])
      OBVIOUS
    <2>1. j \in 2 .. L /\ (i = 1 \/ i \in 2 .. L) /\ i - 1 < j - 1
      OBVIOUS
    <2>2. CASE i = 1
      BY <1>5, <1>8, <2>1, <2>2
    <2>3. CASE i \in 2 .. L
      <3>1. at(i - 1) + W64 <= at(j - 1)
        BY <1>5, <1>8, <2>1, <2>3
      <3>. QED
        BY <1>8, <2>1, <2>3, <3>1
    <2>. QED
      BY <2>1, <2>2, <2>3
  <1>. HIDE DEF rvas
  <1>a. rvas \in [1 .. L -> Int]
    BY <1>8 DEF rvas
  <1>b. Reorders(s, rvas, L)
    BY <1>a, InOrderAscends
  <1>. HIDE DEF s
  <1>c. PICK ranked : /\ \A n \in 1 .. L : ranked[n] \in 1 .. L /\ s[n] = rvas[ranked[n]]
                     /\ \A m, n \in 1 .. L : ranked[m] = ranked[n] => m = n
    BY <1>b, Zenon DEF Reorders
  <1>d. Len(s) = L
    BY <1>b DEF Reorders
  <1>e. \A n \in 2 .. Len(s) : s[n] - s[n - 1] \notin 0 .. W64 - 1
    <2>. SUFFICES ASSUME NEW n \in 2 .. L PROVE s[n] - s[n - 1] \notin 0 .. W64 - 1
      BY <1>d
    <2>1. n \in 1 .. L /\ n - 1 \in 1 .. L /\ n - 1 # n
      OBVIOUS
    <2>2. PICK i, j \in 1 .. L : i = ranked[n - 1] /\ j = ranked[n] /\ s[n - 1] = rvas[i] /\ s[n] = rvas[j] /\ i # j
      BY <1>c, <2>1
    <2>3. PICK x, y \in Int : x = rvas[i] /\ y = rvas[j]
      BY <1>a
    <2>4. i < j \/ j < i
      BY <2>2
    <2>5. x + W64 <= y \/ y + W64 <= x
      BY <1>9, <2>3, <2>4
    <2>6. y - x \notin 0 .. W64 - 1
      BY <1>2, <2>5
    <2>. QED
      BY <2>2, <2>3, <2>6
  <1>f. Len(b) <= MAX_RELOCS
    <2>1. PICK N \in Nat : N = Len(object.relocs) /\ DOMAIN object.relocs = 1 .. N /\ N <= MAX_RELOCS /\ MAX_RELOCS \in Nat
      BY <1>1, ObjectParts, NxoAssumption DEF Image!Materializable, Image!Valid
    <2>2. IsFiniteSet(1 .. N) /\ Cardinality(1 .. N) = N
      BY FS_Interval
    <2>3. Image!Absolute(object) \subseteq 1 .. N
      BY <2>1 DEF Image!Absolute
    <2>4. Cardinality(Image!Absolute(object)) <= N /\ Cardinality(Image!Absolute(object)) \in Nat
      BY <2>2, <2>3, FS_Subset, FS_CardinalityType
    <2>5. Len(b) = Cardinality(Image!Absolute(object))
      BY ListedOnce
    <2>. HIDE DEF b
    <2>. QED
      BY <2>1, <2>4, <2>5
  <1>10. Cardinality(Adjustable) = Len(b) + 1
    <2>. DEFINE f == [n \in 1 .. Len(b) |-> at(n)]
    <2>1. f \in Surjection(1 .. Len(b), R)
      BY <1>5 DEF Surjection
    <2>2. \A m, n \in 1 .. Len(b) : f[m] = f[n] => m = n
      <3>. SUFFICES ASSUME NEW m \in 1 .. Len(b), NEW n \in 1 .. Len(b), m # n PROVE at(m) # at(n)
        OBVIOUS
      <3>1. at(m) \in Nat /\ at(n) \in Nat /\ (m < n \/ n < m)
        BY <1>5
      <3>2. (m < n => at(m) + W64 <= at(n)) /\ (n < m => at(n) + W64 <= at(m))
        BY <1>5
      <3>. HIDE DEF b
      <3>. QED
        BY <1>2, <3>1, <3>2
    <2>3. f \in Injection(1 .. Len(b), R)
      BY <2>1, <2>2 DEF Injection, IsInjective, Surjection
    <2>. HIDE DEF f, R
    <2>4. IsFiniteSet(1 .. Len(b)) /\ Cardinality(1 .. Len(b)) = Len(b)
      <3>1. PICK N \in Nat : N = Len(b)
        BY <1>5
      <3>2. IsFiniteSet(1 .. N) /\ Cardinality(1 .. N) = N
        BY FS_Interval
      <3>. QED
        BY <3>1, <3>2
    <2>5. IsFiniteSet(R) /\ Cardinality(R) = Len(b)
      <3>1. IsFiniteSet(R) /\ Cardinality(R) <= Len(b)
        BY <2>1, <2>4, FS_Surjection
      <3>2. Len(b) <= Cardinality(R)
        BY <2>3, <2>4, <3>1, FS_Injection
      <3>3. Cardinality(R) \in Nat
        BY <3>1, FS_CardinalityType
      <3>. QED
        BY <1>5, <3>1, <3>2, <3>3
    <2>6. a \notin R
      <3>. SUFFICES ASSUME NEW n \in DOMAIN b, a = at(n) PROVE FALSE
        BY DEF R
      <3>1. at(n) \in Nat /\ (at(n) + W64 <= a \/ a + W64 <= at(n))
        BY <1>5
      <3>. QED
        BY <1>2, <3>1
    <2>7. Cardinality(R \cup {a}) = Cardinality(R) + 1
      BY <2>5, <2>6, FS_AddElement
    <2>8. Adjustable = R \cup {a}
      BY <1>7
    <2>. QED
      BY <2>5, <2>7, <2>8
  <1>11. Image!Cardinality(Adjustable) = Len(b) + 1
    BY <1>10 DEF Image!Cardinality, Cardinality
  <1>12. Image!Writable
    BY <1>3, <1>4, <1>6, <1>e, <1>f DEF Image!Writable, s, rvas
  <1>. QED
    BY <1>11, <1>12

-----------------------------------------------------------------------------
(* Sums over the numbers of a list, as MapThenSumSet makes them: AddsUp is *)
(* its recursion, for the values v.                                        *)

First(s) == CHOOSE x \in s : TRUE
AddsUp(sum, v, S) == sum = [s \in SUBSET S |-> IF s = {} THEN 0 ELSE v[First(s)] + sum[s \ {First(s)}]]
Upto(S, n) == {s \in SUBSET S : Cardinality(s) <= n}

(* What holds of 0 and of each number after one it holds of, as a set of   *)
(* numbers it does not hold of would have a least.                         *)
LEMMA NoLeast ==
    ASSUME NEW Bad \in SUBSET Nat, 0 \notin Bad, \A n \in Nat : n \notin Bad => n + 1 \notin Bad
    PROVE  Bad = {}
  <1>. SUFFICES ASSUME Bad # {} PROVE FALSE
    OBVIOUS
  <1>1. PICK n \in Bad : \A m \in Bad : ~ (m < n)
    <2>1. IsWellFoundedOn(OpToRel(<, Nat), Nat)
      BY NatLessThanWellFounded
    <2>2. PICK n \in Bad : \A m \in Bad : ~ (<<m, n>> \in OpToRel(<, Nat))
      BY <2>1, WFMin
    <2>. QED
      BY <2>2 DEF OpToRel
  <1>2. n - 1 \in Nat /\ n - 1 < n /\ (n - 1) + 1 = n
    BY <1>1
  <1>. QED
    BY <1>1, <1>2

(* The sets of one element more lead back to those of one less.            *)
LEMMA OneLess ==
    ASSUME NEW S, IsFiniteSet(S), NEW n \in Nat, NEW s \in Upto(S, n + 1), s # {}
    PROVE  First(s) \in s /\ s \ {First(s)} \in Upto(S, n)
  <1>1. First(s) \in s
    BY DEF First
  <1>2. IsFiniteSet(s) /\ Cardinality(s) \in Nat /\ Cardinality(s) <= n + 1
    BY FS_Subset, FS_CardinalityType DEF Upto
  <1>3. Cardinality(s \ {First(s)}) = Cardinality(s) - 1
    BY <1>1, <1>2, FS_RemoveElement
  <1>. QED
    BY <1>1, <1>2, <1>3 DEF Upto

LEMMA WholeUpto ==
    ASSUME NEW S, IsFiniteSet(S)
    PROVE  /\ Cardinality(S) \in Nat /\ Upto(S, Cardinality(S)) = SUBSET S
           /\ Upto(S, 0) = {{}} /\ \A n \in Nat : Upto(S, n) \subseteq Upto(S, n + 1)
  <1>1. \A s \in SUBSET S : IsFiniteSet(s) /\ Cardinality(s) \in Nat /\ Cardinality(s) <= Cardinality(S)
    BY FS_Subset, FS_CardinalityType
  <1>2. \A s \in SUBSET S : Cardinality(s) <= 0 <=> s = {}
    BY <1>1, FS_EmptySet
  <1>. QED
    BY <1>1, <1>2, FS_CardinalityType DEF Upto

LEMMA SumExists ==
    ASSUME NEW S, IsFiniteSet(S), NEW v
    PROVE  \E sum : AddsUp(sum, v, S)
  <1>. DEFINE term(f, s) == IF s = {} THEN 0 ELSE v[First(s)] + f[s \ {First(s)}]
              Solved(n) == \E f : f = [s \in Upto(S, n) |-> term(f, s)]
              Bad == {n \in Nat : ~ Solved(n)}
  <1>1. Solved(0)
    <2>. DEFINE f == [s \in {{}} |-> 0]
    <2>1. f = [s \in Upto(S, 0) |-> term(f, s)]
      BY WholeUpto
    <2>. QED
      BY <2>1
  <1>2. ASSUME NEW n \in Nat, Solved(n) PROVE Solved(n + 1)
    <2>1. PICK g : g = [s \in Upto(S, n) |-> term(g, s)]
      BY <1>2
    <2>. DEFINE f == [s \in Upto(S, n + 1) |-> term(g, s)]
    <2>2. \A s \in Upto(S, n) : f[s] = g[s]
      <3>1. Upto(S, n) \subseteq Upto(S, n + 1)
        BY WholeUpto
      <3>. HIDE DEF term
      <3>. QED
        BY <2>1, <3>1
    <2>3. ASSUME NEW s \in Upto(S, n + 1) PROVE term(f, s) = term(g, s)
      <3>1. CASE s = {}
        BY <3>1
      <3>2. CASE s # {}
        <4>1. f[s \ {First(s)}] = g[s \ {First(s)}]
          BY <2>2, <3>2, OneLess
        <4>. HIDE DEF f
        <4>. QED
          BY <4>1
      <3>. QED
        BY <3>1, <3>2
    <2>4. f = [s \in Upto(S, n + 1) |-> term(f, s)]
      BY <2>3
    <2>. QED
      BY <2>4
  <1>3. Bad = {}
    <2>. HIDE DEF Solved
    <2>. QED
      BY <1>1, <1>2, NoLeast
  <1>4. PICK f : f = [s \in Upto(S, Cardinality(S)) |-> term(f, s)]
    <2>1. Solved(Cardinality(S))
      <3>. HIDE DEF Solved
      <3>. QED
        BY <1>3, WholeUpto
    <2>. QED
      BY <2>1
  <1>5. f = [s \in SUBSET S |-> term(f, s)]
    <2>. HIDE DEF term
    <2>. QED
      BY <1>4, WholeUpto
  <1>. QED
    BY <1>5 DEF AddsUp

(* Sums of numbers are numbers, of something positive if there is any.     *)
LEMMA SumPositive ==
    ASSUME NEW S, IsFiniteSet(S), NEW v, \A i \in S : v[i] \in Nat \ {0},
           NEW sum, AddsUp(sum, v, S)
    PROVE  sum[S] \in Nat /\ (S # {} => sum[S] > 0)
  <1>. DEFINE Good(s) == sum[s] \in Nat /\ (s # {} => sum[s] > 0)
              Bad == {n \in Nat : \E s \in Upto(S, n) : ~ Good(s)}
  <1>0. \A s \in SUBSET S : sum[s] = IF s = {} THEN 0 ELSE v[First(s)] + sum[s \ {First(s)}]
    BY DEF AddsUp
  <1>1. 0 \notin Bad
    <2>1. Good({})
      <3>1. sum[{}] = 0
        BY <1>0
      <3>. QED
        BY <3>1
    <2>. HIDE DEF Good
    <2>. QED
      BY <2>1, WholeUpto
  <1>2. ASSUME NEW n \in Nat, n \notin Bad PROVE n + 1 \notin Bad
    <2>. SUFFICES ASSUME NEW s \in Upto(S, n + 1) PROVE Good(s)
      OBVIOUS
    <2>1. s \in SUBSET S
      BY DEF Upto
    <2>2. CASE s = {}
      <3>1. sum[{}] = 0
        BY <1>0
      <3>. QED
        BY <2>2, <3>1
    <2>3. CASE s # {}
      <3>1. First(s) \in S /\ Good(s \ {First(s)})
        <4>1. First(s) \in s /\ s \ {First(s)} \in Upto(S, n)
          BY <2>3, OneLess
        <4>. HIDE DEF Good
        <4>. QED
          BY <1>2, <2>1, <4>1
      <3>2. v[First(s)] \in Nat \ {0} /\ sum[s \ {First(s)}] \in Nat
        BY <3>1
      <3>3. sum[s] = v[First(s)] + sum[s \ {First(s)}]
        BY <1>0, <2>1, <2>3
      <3>. QED
        BY <3>2, <3>3
    <2>. QED
      BY <2>2, <2>3
  <1>3. Bad = {}
    <2>. HIDE DEF Good
    <2>. QED
      BY <1>1, <1>2, NoLeast
  <1>4. Good(S)
    <2>. HIDE DEF Good
    <2>. QED
      BY <1>3, WholeUpto
  <1>. QED
    BY <1>4

(* The sizes of sets that have nothing in common add up to the size of all *)
(* of them.                                                                *)
LEMMA SumCounts ==
    ASSUME NEW S, IsFiniteSet(S), NEW X, NEW v, NEW sum, AddsUp(sum, v, S),
           \A i \in S : IsFiniteSet(X[i]) /\ v[i] = Cardinality(X[i]),
           \A i, j \in S : i # j => X[i] \cap X[j] = {}
    PROVE  sum[S] = Cardinality(UNION {X[i] : i \in S})
  <1>. DEFINE all(s) == UNION {X[i] : i \in s}
              Good(s) == IsFiniteSet(all(s)) /\ sum[s] = Cardinality(all(s))
              Bad == {n \in Nat : \E s \in Upto(S, n) : ~ Good(s)}
  <1>0. \A s \in SUBSET S : sum[s] = IF s = {} THEN 0 ELSE v[First(s)] + sum[s \ {First(s)}]
    BY DEF AddsUp
  <1>1. 0 \notin Bad
    <2>1. Good({})
      <3>1. all({}) = {}
        OBVIOUS
      <3>2. sum[{}] = 0
        BY <1>0
      <3>. HIDE DEF all
      <3>. QED
        BY <3>1, <3>2, FS_EmptySet
    <2>. HIDE DEF Good
    <2>. QED
      BY <2>1, WholeUpto
  <1>2. ASSUME NEW n \in Nat, n \notin Bad PROVE n + 1 \notin Bad
    <2>. SUFFICES ASSUME NEW s \in Upto(S, n + 1) PROVE Good(s)
      OBVIOUS
    <2>1. s \in SUBSET S
      BY DEF Upto
    <2>2. CASE s = {}
      <3>1. {} \in Upto(S, n)
        BY WholeUpto, FS_EmptySet DEF Upto
      <3>. HIDE DEF Good
      <3>. QED
        BY <1>2, <2>2, <3>1
    <2>3. CASE s # {}
      <3>. DEFINE i == First(s)
                  t == s \ {i}
      <3>1. i \in s /\ i \in S /\ Good(t)
        <4>1. First(s) \in s /\ s \ {First(s)} \in Upto(S, n)
          BY <2>3, OneLess
        <4>. HIDE DEF Good
        <4>. QED
          BY <1>2, <2>1, <4>1
      <3>2. sum[s] = v[i] + sum[t]
        BY <1>0, <2>1, <2>3
      <3>. HIDE DEF i
      <3>3. all(s) = X[i] \cup all(t)
        BY <3>1
      <3>4. X[i] \cap all(t) = {}
        BY <2>1, <3>1
      <3>5. IsFiniteSet(all(t)) /\ sum[t] = Cardinality(all(t)) /\ IsFiniteSet(X[i]) /\ v[i] = Cardinality(X[i])
        BY <3>1
      <3>. HIDE DEF all
      <3>6. IsFiniteSet(X[i] \cup all(t))
            /\ Cardinality(X[i] \cup all(t)) = Cardinality(X[i]) + Cardinality(all(t)) - Cardinality(X[i] \cap all(t))
        BY <3>5, FS_Union
      <3>7. Cardinality(X[i] \cap all(t)) = 0 /\ Cardinality(X[i]) \in Nat /\ Cardinality(all(t)) \in Nat
        BY <3>4, <3>5, FS_EmptySet, FS_CardinalityType
      <3>. QED
        BY <3>2, <3>3, <3>5, <3>6, <3>7
    <2>. QED
      BY <2>2, <2>3
  <1>3. Bad = {}
    <2>. HIDE DEF Good
    <2>. QED
      BY <1>1, <1>2, NoLeast
  <1>4. Good(S)
    <2>. HIDE DEF Good
    <2>. QED
      BY <1>3, WholeUpto
  <1>. QED
    BY <1>4

-----------------------------------------------------------------------------
(* What the reader finds in the image.                                     *)

(* Relocations is the sum of what the blocks list, TableSize of what they  *)
(* take.                                                                   *)
CountSum(sum, img) ==
    sum = [s \in SUBSET (DOMAIN img.blocks) |->
              IF s = {} THEN 0 ELSE Len(img.blocks[First(s)].offsets) + sum[s \ {First(s)}]]
SizeSum(sum, list) ==
    sum = [s \in SUBSET (DOMAIN list) |->
              IF s = {} THEN 0 ELSE Image!BlockSize(list[First(s)]) + sum[s \ {First(s)}]]

LEMMA RelocationsSum == \A img : Image!Relocations(img) = (CHOOSE sum : CountSum(sum, img))[DOMAIN img.blocks]
  BY DEF Image!Relocations, Image!MapThenSumSet, Image!MapThenFoldSet, CountSum, First

LEMMA TableSizeSum == \A list : Image!TableSize(list) = (CHOOSE sum : SizeSum(sum, list))[DOMAIN list]
  BY DEF Image!TableSize, Image!MapThenSumSet, Image!MapThenFoldSet, SizeSum, First

LEMMA Counted ==
    ASSUME NEW img, IsFiniteSet(DOMAIN img.blocks)
    PROVE  \E sum : /\ AddsUp(sum, [n \in DOMAIN img.blocks |-> Len(img.blocks[n].offsets)], DOMAIN img.blocks)
                    /\ Image!Relocations(img) = sum[DOMAIN img.blocks]
  <1>. DEFINE S == DOMAIN img.blocks
              v == [n \in S |-> Len(img.blocks[n].offsets)]
  <1>1. ASSUME NEW sum PROVE AddsUp(sum, v, S) <=> CountSum(sum, img)
    <2>1. \A s \in SUBSET S : s # {} => v[First(s)] = Len(img.blocks[First(s)].offsets)
      BY DEF First
    <2>. HIDE DEF v
    <2>2. [s \in SUBSET S |-> IF s = {} THEN 0 ELSE v[First(s)] + sum[s \ {First(s)}]]
            = [s \in SUBSET S |-> IF s = {} THEN 0 ELSE Len(img.blocks[First(s)].offsets) + sum[s \ {First(s)}]]
      BY <2>1
    <2>. QED
      BY <2>2 DEF AddsUp, CountSum
  <1>. DEFINE added == CHOOSE sum : CountSum(sum, img)
  <1>2. CountSum(added, img)
    <2>1. \E sum : CountSum(sum, img)
      <3>1. PICK sum : AddsUp(sum, v, S)
        BY SumExists
      <3>. QED
        BY <1>1, <3>1
    <2>. QED
      BY <2>1
  <1>3. AddsUp(added, v, S)
    BY <1>1, <1>2
  <1>4. Image!Relocations(img) = added[S]
    BY RelocationsSum
  <1>. QED
    BY <1>3, <1>4

LEMMA Sized ==
    ASSUME NEW list, IsFiniteSet(DOMAIN list)
    PROVE  \E sum : /\ AddsUp(sum, [n \in DOMAIN list |-> Image!BlockSize(list[n])], DOMAIN list)
                    /\ Image!TableSize(list) = sum[DOMAIN list]
  <1>. DEFINE S == DOMAIN list
              v == [n \in S |-> Image!BlockSize(list[n])]
  <1>1. ASSUME NEW sum PROVE AddsUp(sum, v, S) <=> SizeSum(sum, list)
    <2>1. \A s \in SUBSET S : s # {} => v[First(s)] = Image!BlockSize(list[First(s)])
      BY DEF First
    <2>. HIDE DEF v
    <2>2. [s \in SUBSET S |-> IF s = {} THEN 0 ELSE v[First(s)] + sum[s \ {First(s)}]]
            = [s \in SUBSET S |-> IF s = {} THEN 0 ELSE Image!BlockSize(list[First(s)]) + sum[s \ {First(s)}]]
      BY <2>1
    <2>. QED
      BY <2>2 DEF AddsUp, SizeSum
  <1>. DEFINE added == CHOOSE sum : SizeSum(sum, list)
  <1>2. SizeSum(added, list)
    <2>1. \E sum : SizeSum(sum, list)
      <3>1. PICK sum : AddsUp(sum, v, S)
        BY SumExists
      <3>. QED
        BY <1>1, <3>1
    <2>. QED
      BY <2>1
  <1>3. AddsUp(added, v, S)
    BY <1>1, <1>2
  <1>4. Image!TableSize(list) = added[S]
    BY TableSizeSum
  <1>. QED
    BY <1>3, <1>4

(* The places of one page.                                                 *)
OnPage(R, p) == {r \in R : Image!PageOf(r) = p}

(* A page starts at a multiple of its size and has what it has within it.  *)
LEMMA PageStart ==
    ASSUME ImageAssumed, NEW r \in Nat
    PROVE  /\ Image!PageOf(r) \in Nat /\ Image!PageOf(r) % PAGE = 0
           /\ r - Image!PageOf(r) \in Nat /\ r - Image!PageOf(r) < PAGE
  <1>1. PAGE \in Nat \ {0}
    BY DEF ImageAssumed, Image!PeAssumption
  <1>. DEFINE q == r \div PAGE
  <1>2. q \in Nat /\ q * PAGE <= r /\ r < q * PAGE + PAGE /\ q * PAGE \in Nat
    BY <1>1
  <1>. HIDE DEF q
  <1>3. (q * PAGE) % PAGE = 0
    BY <1>1, <1>2
  <1>4. Image!PageOf(r) = q * PAGE
    BY DEF Image!PageOf, q
  <1>. QED
    BY <1>1, <1>2, <1>3, <1>4

(* The table of places: its pages ascend, and so do the places of each,    *)
(* of which there are as many as the page has.                             *)
LEMMA BlocksOrdered ==
    ASSUME ImageAssumed, NEW R \in SUBSET Nat, IsFiniteSet(R)
    PROVE  /\ IsFiniteSet(DOMAIN PageBlocks(R)) /\ DOMAIN PageBlocks(R) \in SUBSET Nat
           /\ R = UNION {OnPage(R, PageBlocks(R)[n].page) : n \in DOMAIN PageBlocks(R)}
           /\ \A n \in DOMAIN PageBlocks(R) :
                 /\ PageBlocks(R)[n].page \in Nat /\ PageBlocks(R)[n].page % PAGE = 0
                 /\ n > 1 => PageBlocks(R)[n].page > PageBlocks(R)[n - 1].page
                 /\ \A m \in DOMAIN PageBlocks(R) : m # n => PageBlocks(R)[m].page # PageBlocks(R)[n].page
                 /\ IsFiniteSet(OnPage(R, PageBlocks(R)[n].page))
                 /\ Len(PageBlocks(R)[n].offsets) \in Nat
                 /\ Len(PageBlocks(R)[n].offsets) = Cardinality(OnPage(R, PageBlocks(R)[n].page))
                 /\ \A m \in DOMAIN PageBlocks(R)[n].offsets :
                       /\ PageBlocks(R)[n].offsets[m] < PAGE
                       /\ PageBlocks(R)[n].page + PageBlocks(R)[n].offsets[m] \in R
                       /\ m > 1 => PageBlocks(R)[n].offsets[m] > PageBlocks(R)[n].offsets[m - 1]
  <1>. DEFINE places == {Image!PageOf(r) : r \in R}
              pages == Image!Ascending(places)
              Q(p) == {q - p : q \in OnPage(R, p)}
              B == PageBlocks(R)
  <1>1. \A r \in R : Image!PageOf(r) \in Nat /\ Image!PageOf(r) % PAGE = 0 /\ r - Image!PageOf(r) \in Nat
                     /\ r - Image!PageOf(r) < PAGE
    BY PageStart
  <1>2. places \in SUBSET Int /\ IsFiniteSet(places)
    <2>. DEFINE f == [r \in R |-> Image!PageOf(r)]
    <2>1. f \in Surjection(R, places)
      BY DEF Surjection
    <2>. HIDE DEF f
    <2>. QED
      BY <1>1, <2>1, FS_Surjection
  <1>3. \A p \in places : p \in Nat /\ p % PAGE = 0
    BY <1>1
  <1>4. ASSUME NEW p \in places
        PROVE  Q(p) \in SUBSET Int /\ IsFiniteSet(Q(p)) /\ IsFiniteSet(OnPage(R, p))
               /\ Cardinality(Q(p)) = Cardinality(OnPage(R, p))
    <2>. DEFINE f == [q \in OnPage(R, p) |-> q - p]
    <2>1. f \in Surjection(OnPage(R, p), Q(p))
      BY DEF Surjection
    <2>2. IsFiniteSet(OnPage(R, p)) /\ p \in Nat /\ \A q \in OnPage(R, p) : q \in Nat
      BY <1>3, FS_Subset DEF OnPage
    <2>3. f \in Injection(OnPage(R, p), Q(p))
      <3>1. \A x, y \in OnPage(R, p) : x - p = y - p => x = y
        BY <2>2
      <3>2. f \in [OnPage(R, p) -> Q(p)]
        OBVIOUS
      <3>. HIDE DEF Q
      <3>. QED
        BY <3>1, <3>2 DEF Injection, IsInjective
    <2>4. Q(p) \in SUBSET Int
      BY <2>2
    <2>. HIDE DEF f, Q
    <2>5. IsFiniteSet(Q(p)) /\ Cardinality(Q(p)) <= Cardinality(OnPage(R, p))
      BY <2>1, <2>2, FS_Surjection
    <2>6. Cardinality(OnPage(R, p)) <= Cardinality(Q(p))
      BY <2>3, <2>5, FS_Injection
    <2>7. Cardinality(OnPage(R, p)) \in Nat /\ Cardinality(Q(p)) \in Nat
      BY <2>2, <2>5, FS_CardinalityType
    <2>. QED
      BY <2>2, <2>4, <2>5, <2>6, <2>7
  <1>5. /\ B = [n \in DOMAIN pages |-> [page |-> pages[n], offsets |-> Image!Ascending(Q(pages[n]))]]
        /\ DOMAIN B = DOMAIN pages
    BY DEF PageBlocks, OnPage
  <1>6. /\ DOMAIN pages = 1 .. Cardinality(places) /\ Cardinality(places) \in Nat
        /\ \A n \in DOMAIN pages : pages[n] \in places
        /\ \A p \in places : \E n \in DOMAIN pages : pages[n] = p
        /\ \A m, n \in DOMAIN pages : m < n => pages[m] < pages[n]
    <2>. HIDE DEF places
    <2>. QED
      BY <1>2, AscendingLists
  <1>7. ASSUME NEW p \in places
        PROVE  LET A == Image!Ascending(Q(p)) IN
               /\ Len(A) = Cardinality(OnPage(R, p)) /\ Len(A) \in Nat
               /\ \A m \in DOMAIN A : A[m] < PAGE /\ p + A[m] \in R
               /\ \A m \in DOMAIN A : m > 1 => A[m] > A[m - 1]
    <2>. DEFINE A == Image!Ascending(Q(p))
    <2>1. /\ Cardinality(Q(p)) \in Nat
          /\ DOMAIN A = 1 .. Cardinality(Q(p))
          /\ \A m \in DOMAIN A : A[m] \in Q(p)
          /\ \A m, n \in DOMAIN A : m < n => A[m] < A[n]
      <3>. HIDE DEF Q
      <3>. QED
        BY <1>4, AscendingLists
    <2>2. \A q \in Q(p) : q \in Nat /\ q < PAGE /\ p + q \in R
      <3>. SUFFICES ASSUME NEW q \in OnPage(R, p) PROVE q - p \in Nat /\ q - p < PAGE /\ p + (q - p) \in R
        OBVIOUS
      <3>1. q \in R /\ p = Image!PageOf(q) /\ p \in Nat /\ q \in Nat
        BY <1>3 DEF OnPage
      <3>2. p + (q - p) = q
        BY <3>1
      <3>. QED
        BY <1>1, <3>1, <3>2
    <2>3. Len(A) = Cardinality(Q(p))
      <3>. HIDE DEF Q
      <3>. QED
        BY <1>4, AscendingLists
    <2>4. ASSUME NEW m \in DOMAIN A, m > 1 PROVE A[m] > A[m - 1]
      <3>1. m \in Nat /\ m - 1 \in DOMAIN A /\ m - 1 < m
        BY <2>1, <2>4
      <3>. HIDE DEF A, Q
      <3>2. A[m - 1] < A[m] /\ A[m - 1] \in Nat /\ A[m] \in Nat
        BY <2>1, <2>2, <3>1
      <3>. QED
        BY <3>2
    <2>. HIDE DEF A, Q
    <2>5. Len(A) = Cardinality(OnPage(R, p)) /\ Len(A) \in Nat
      BY <1>4, <2>1, <2>3
    <2>6. \A m \in DOMAIN A : A[m] < PAGE /\ p + A[m] \in R
      BY <2>1, <2>2
    <2>. QED
      BY <2>4, <2>5, <2>6 DEF A
  <1>8. \A n \in DOMAIN B : B[n].page = pages[n] /\ B[n].offsets = Image!Ascending(Q(pages[n])) /\ pages[n] \in places
    <2>. HIDE DEF B, pages, places, Q
    <2>. QED
      BY <1>5, <1>6
  <1>9. R = UNION {OnPage(R, B[n].page) : n \in DOMAIN B}
    <2>1. \A r \in R : \E n \in DOMAIN B : B[n].page = Image!PageOf(r)
      BY <1>5, <1>6, <1>8
    <2>. HIDE DEF B
    <2>2. ASSUME NEW r \in R PROVE r \in UNION {OnPage(R, B[n].page) : n \in DOMAIN B}
      <3>1. PICK n \in DOMAIN B : B[n].page = Image!PageOf(r)
        BY <2>1
      <3>2. r \in OnPage(R, B[n].page)
        BY <3>1 DEF OnPage
      <3>. QED
        BY <3>2
    <2>3. \A n \in DOMAIN B : OnPage(R, B[n].page) \subseteq R
      BY DEF OnPage
    <2>. QED
      BY <2>2, <2>3
  <1>10. IsFiniteSet(DOMAIN B) /\ DOMAIN B \in SUBSET Nat
    <2>1. PICK N \in Nat : N = Cardinality(places)
      BY <1>6
    <2>2. DOMAIN B = 1 .. N
      BY <1>5, <1>6, <2>1
    <2>. QED
      BY <2>2, FS_Interval
  <1>11. ASSUME NEW n \in DOMAIN B
         PROVE  /\ B[n].page \in Nat /\ B[n].page % PAGE = 0
                /\ n > 1 => B[n].page > B[n - 1].page
                /\ \A m \in DOMAIN B : m # n => B[m].page # B[n].page
                /\ IsFiniteSet(OnPage(R, B[n].page))
    <2>1. B[n].page \in Nat /\ B[n].page % PAGE = 0 /\ IsFiniteSet(OnPage(R, B[n].page))
      <3>. HIDE DEF B, pages, places
      <3>. QED
        BY <1>3, <1>4, <1>8
    <2>2. DOMAIN B = 1 .. Cardinality(places) /\ \A m \in DOMAIN B : pages[m] \in Nat /\ B[m].page = pages[m]
      <3>. HIDE DEF B, pages, places
      <3>. QED
        BY <1>3, <1>5, <1>6, <1>8
    <2>. HIDE DEF B, pages, places
    <2>3. n > 1 => B[n].page > B[n - 1].page
      <3>. SUFFICES ASSUME n > 1 PROVE B[n].page > B[n - 1].page
        OBVIOUS
      <3>1. n - 1 \in DOMAIN B /\ n \in DOMAIN B /\ n - 1 < n
        BY <1>6, <2>2
      <3>. QED
        BY <1>5, <1>6, <2>2, <3>1
    <2>4. ASSUME NEW m \in DOMAIN B, m # n PROVE B[m].page # B[n].page
      <3>1. m < n \/ n < m
        BY <1>6, <2>2, <2>4
      <3>. QED
        BY <1>5, <1>6, <2>2, <3>1
    <2>. QED
      BY <2>1, <2>3, <2>4
  <1>12. ASSUME NEW n \in DOMAIN B
         PROVE  /\ Len(B[n].offsets) \in Nat
                /\ Len(B[n].offsets) = Cardinality(OnPage(R, B[n].page))
                /\ \A m \in DOMAIN B[n].offsets :
                      /\ B[n].offsets[m] < PAGE
                      /\ B[n].page + B[n].offsets[m] \in R
                      /\ m > 1 => B[n].offsets[m] > B[n].offsets[m - 1]
    <2>1. B[n].page = pages[n] /\ B[n].offsets = Image!Ascending(Q(pages[n])) /\ pages[n] \in places
      BY <1>8
    <2>. HIDE DEF B, pages, places, Q
    <2>. QED
      BY <1>7, <2>1
  <1>. QED
    BY <1>9, <1>10, <1>11, <1>12

(* The sections of the image: where each starts, and what it takes.        *)
Begins(j) == <<PAGE, Image!Layout(object).rdata, Image!Layout(object).data, Image!Layout(object).reloc>>[j]
Taken(j) ==
    <<Image!Size(object, Image!TEXT), W64 + Image!Size(object, Image!RDATA), DataUsed(object),
      Image!TableSize(image.blocks)>>[j]

LEMMA TableParts ==
    ASSUME ImageMade
    PROVE  /\ DOMAIN image.table = 1 .. 4 /\ Len(image.table) = 4
           /\ \A j \in 1 .. 4 : /\ image.table[j].va = Begins(j) /\ image.table[j].vs = Taken(j)
                               /\ image.table[j].rs = Image!UpTo(Taken(j), RAW)
           /\ image.table[1].raw = HEADERS
           /\ \A j \in 2 .. 4 : image.table[j].raw = image.table[j - 1].raw + image.table[j - 1].rs
           /\ image.table[1].flags = {"read", "execute"}
           /\ \A j \in 2 .. 4 : image.table[j].flags \in {{"read"}, {"read", "write"}}
           /\ image.size = Image!UpTo(Begins(4) + Taken(4), PAGE)
           /\ image.length = image.table[4].raw + image.table[4].rs
           /\ image.reloc.rva = Begins(4) /\ image.reloc.size = Taken(4)
           /\ image.entry = PAGE + artifact.entry
           /\ image.blocks = PageBlocks(Adjustable)
  <1>1. ImageStage /\ Copied
    BY DEF ImageMade, ImageIInv
  <1>2. image = Image!Written(artifact, PageBlocks(Adjustable))
    BY <1>1 DEF ImageStage, ImageMade
  <1>3. \A k \in Image!Sections : Len(artifact.sections[k]) = Image!Size(object, k)
    BY <1>1 DEF Copied, ImageMade
  <1>4. Image!TEXT \in Image!Sections /\ Image!RDATA \in Image!Sections /\ Image!DATA \in Image!Sections
    BY DEF Image!TEXT, Image!RDATA, Image!DATA, Image!Sections
  <1>. DEFINE l == Image!Layout(object)
              places == PageBlocks(Adjustable)
              s1 == Image!Section(PAGE, Len(artifact.sections[Image!TEXT]), HEADERS, {"read", "execute"})
              s2 == Image!Section(l.rdata, W64 + Len(artifact.sections[Image!RDATA]), HEADERS + s1.rs, {"read"})
              s3 == Image!Section(l.data,
                            IF Len(artifact.sections[Image!DATA]) > 0 THEN Len(artifact.sections[Image!DATA]) ELSE W64,
                            s2.raw + s2.rs, {"read", "write"})
              s4 == Image!Section(l.reloc, Image!TableSize(places), s3.raw + s3.rs, {"read"})
  <1>5. /\ image.table = <<s1, s2, s3, s4>>
        /\ image.entry = PAGE + artifact.entry
        /\ image.size = Image!UpTo(l.reloc + s4.vs, PAGE)
        /\ image.blocks = places
        /\ image.reloc = [rva |-> l.reloc, size |-> s4.vs]
        /\ image.length = s4.raw + s4.rs
    BY <1>2 DEF Image!Written
  <1>6. s1 = [va |-> Begins(1), vs |-> Taken(1), raw |-> HEADERS, rs |-> Image!UpTo(Taken(1), RAW), flags |-> {"read", "execute"}]
    BY <1>3, <1>4 DEF Image!Section, Begins, Taken
  <1>7. s2 = [va |-> Begins(2), vs |-> Taken(2), raw |-> HEADERS + s1.rs, rs |-> Image!UpTo(Taken(2), RAW), flags |-> {"read"}]
    BY <1>3, <1>4 DEF Image!Section, Begins, Taken
  <1>8. s3 = [va |-> Begins(3), vs |-> Taken(3), raw |-> s2.raw + s2.rs, rs |-> Image!UpTo(Taken(3), RAW), flags |-> {"read", "write"}]
    BY <1>3, <1>4 DEF Image!Section, Begins, Taken, DataUsed
  <1>9. s4 = [va |-> Begins(4), vs |-> Taken(4), raw |-> s3.raw + s3.rs, rs |-> Image!UpTo(Taken(4), RAW), flags |-> {"read"}]
    BY <1>5 DEF Image!Section, Begins, Taken
  <1>10. Begins(4) = l.reloc /\ s4.vs = Taken(4)
    BY <1>9 DEF Begins
  <1>. HIDE DEF s1, s2, s3, s4, l, places
  <1>11. DOMAIN image.table = 1 .. 4 /\ Len(image.table) = 4
         /\ image.table[1] = s1 /\ image.table[2] = s2 /\ image.table[3] = s3 /\ image.table[4] = s4
    BY <1>5
  <1>12. \A j \in 1 .. 4 : /\ image.table[j].va = Begins(j) /\ image.table[j].vs = Taken(j)
                           /\ image.table[j].rs = Image!UpTo(Taken(j), RAW)
    BY <1>6, <1>7, <1>8, <1>9, <1>11
  <1>13. /\ image.table[1].raw = HEADERS /\ image.table[2].raw = image.table[1].raw + image.table[1].rs
         /\ image.table[3].raw = image.table[2].raw + image.table[2].rs
         /\ image.table[4].raw = image.table[3].raw + image.table[3].rs
    BY <1>6, <1>7, <1>8, <1>9, <1>11
  <1>14. \A j \in 2 .. 4 : image.table[j].raw = image.table[j - 1].raw + image.table[j - 1].rs
    <2>. SUFFICES ASSUME NEW j \in 2 .. 4 PROVE image.table[j].raw = image.table[j - 1].raw + image.table[j - 1].rs
      OBVIOUS
    <2>1. CASE j = 2
      BY <1>13, <2>1
    <2>2. CASE j = 3
      BY <1>13, <2>2
    <2>3. CASE j = 4
      BY <1>13, <2>3
    <2>. QED
      BY <2>1, <2>2, <2>3
  <1>15. image.table[1].flags = {"read", "execute"} /\ \A j \in 2 .. 4 : image.table[j].flags \in {{"read"}, {"read", "write"}}
    BY <1>6, <1>7, <1>8, <1>9, <1>11
  <1>16. image.reloc.rva = Begins(4) /\ image.reloc.size = Taken(4)
    BY <1>5, <1>10
  <1>. QED
    BY <1>5, <1>10, <1>11, <1>12, <1>13, <1>14, <1>15, <1>16 DEF places

(* The table of places takes room: there is always the anchor.             *)
LEMMA TableTakes ==
    ASSUME ImageMade
    PROVE  Taken(4) \in Nat \ {0} /\ image.blocks = PageBlocks(Adjustable)
  <1>1. image.blocks = PageBlocks(Adjustable) /\ ImageAssumed
    BY TableParts DEF ImageMade
  <1>2. Adjustable \in SUBSET Nat /\ IsFiniteSet(Adjustable) /\ Adjustable # {}
    BY PlacesAll
  <1>. DEFINE B == PageBlocks(Adjustable)
              v == [n \in DOMAIN B |-> Image!BlockSize(B[n])]
  <1>3. /\ IsFiniteSet(DOMAIN B) /\ DOMAIN B # {}
        /\ \A n \in DOMAIN B : Len(B[n].offsets) \in Nat
    <2>1. /\ IsFiniteSet(DOMAIN B) /\ Adjustable = UNION {OnPage(Adjustable, B[n].page) : n \in DOMAIN B}
          /\ \A n \in DOMAIN B : Len(B[n].offsets) \in Nat
      BY <1>1, <1>2, BlocksOrdered
    <2>. HIDE DEF B
    <2>2. DOMAIN B # {}
      BY <1>2, <2>1
    <2>. QED
      BY <2>1, <2>2
  <1>4. \A n \in DOMAIN B : v[n] \in Nat \ {0}
    <2>. SUFFICES ASSUME NEW n \in DOMAIN B PROVE Image!BlockSize(B[n]) \in Nat \ {0}
      OBVIOUS
    <2>. DEFINE w == 8 + 2 * Len(B[n].offsets)
    <2>1. w \in Nat /\ w > 0
      BY <1>3
    <2>3. Image!BlockSize(B[n]) = Image!UpTo(w, 4)
      BY DEF Image!BlockSize
    <2>. HIDE DEF B, w
    <2>2. Image!UpTo(w, 4) \in Nat /\ w <= Image!UpTo(w, 4)
      BY <2>1, RoundedUp
    <2>. QED
      BY <2>1, <2>2, <2>3
  <1>5. PICK sum : AddsUp(sum, v, DOMAIN B) /\ Image!TableSize(B) = sum[DOMAIN B]
    <2>. HIDE DEF B
    <2>. QED
      BY <1>3, Sized
  <1>. HIDE DEF v, B
  <1>6. sum[DOMAIN B] \in Nat /\ sum[DOMAIN B] > 0
    BY <1>3, <1>4, <1>5, SumPositive
  <1>7. Taken(4) = Image!TableSize(B)
    BY <1>1 DEF Taken, B
  <1>. QED
    BY <1>1, <1>5, <1>6, <1>7

(* Sections follow each other, in memory and in the file.                  *)
LEMMA TableInOrder ==
    ASSUME ImageMade
    PROVE  /\ \A j \in 1 .. 4 : /\ Begins(j) \in Nat /\ Taken(j) \in Nat \ {0}
                               /\ Begins(j) + Taken(j) <= image.size
                               /\ image.table[j].raw \in Nat /\ image.table[j].rs \in Nat
                               /\ Taken(j) <= image.table[j].rs /\ image.table[j].rs % RAW = 0
                               /\ image.table[j].raw + image.table[j].rs <= image.length
           /\ Begins(1) = PAGE
           /\ \A j \in 2 .. 4 : Begins(j) = Image!UpTo(Begins(j - 1) + Taken(j - 1), PAGE)
           /\ image.size \in Nat /\ image.size > 0 /\ image.size % PAGE = 0
           /\ image.length \in Nat
  <1>1. /\ object \in Image!Objects /\ Image!LayoutOK(object) /\ ImageAssumed
        /\ PAGE \in Nat \ {0} /\ RAW \in Nat \ {0} /\ HEADERS \in Nat /\ W64 \in Nat \ {0}
    BY ImageParts, NxoAssumption DEF ImageMade, ImageAssumed, Image!PeAssumption
  <1>2. Image!TEXT \in Image!Sections /\ Image!RDATA \in Image!Sections /\ Image!DATA \in Image!Sections
    BY DEF Image!TEXT, Image!RDATA, Image!DATA, Image!Sections
  <1>3. /\ Taken(1) = Image!Size(object, Image!TEXT) /\ Taken(2) = W64 + Image!Size(object, Image!RDATA)
        /\ Taken(3) = DataUsed(object)
        /\ Begins(1) = PAGE /\ Begins(2) = Image!Layout(object).rdata /\ Begins(3) = Image!Layout(object).data
        /\ Begins(4) = Image!Layout(object).reloc
    BY DEF Taken, Begins
  <1>4. /\ Taken(1) \in Nat \ {0} /\ Taken(2) \in Nat \ {0} /\ Taken(3) \in Nat \ {0} /\ Taken(4) \in Nat \ {0}
        /\ Begins(1) \in Nat /\ Begins(2) \in Nat /\ Begins(3) \in Nat /\ Begins(4) \in Nat
        /\ Begins(2) = Image!UpTo(Begins(1) + Taken(1), PAGE)
        /\ Begins(3) = Image!UpTo(Begins(2) + Taken(2), PAGE)
        /\ Begins(4) = Image!UpTo(Begins(3) + Taken(3), PAGE)
    <2>1. /\ \A k \in Image!Sections : Image!Size(object, k) \in Nat
          /\ Image!Size(object, Image!TEXT) > 0 /\ DataUsed(object) \in Nat \ {0}
          /\ {Image!Layout(object).rdata, Image!Layout(object).data, Image!Layout(object).reloc} \subseteq Nat
          /\ Image!Layout(object).rdata = Image!UpTo(PAGE + Image!Size(object, Image!TEXT), PAGE)
          /\ Image!Layout(object).data = Image!UpTo(Image!Layout(object).rdata + (W64 + Image!Size(object, Image!RDATA)), PAGE)
          /\ Image!Layout(object).reloc = Image!UpTo(Image!Layout(object).data + DataUsed(object), PAGE)
      BY <1>1, LaidOut
    <2>2. Image!Size(object, Image!TEXT) \in Nat /\ Image!Size(object, Image!RDATA) \in Nat
      BY <1>2, <2>1
    <2>3. Taken(4) \in Nat \ {0}
      BY TableTakes
    <2>. QED
      BY <1>1, <1>3, <2>1, <2>2, <2>3
  <1>5. ASSUME NEW b \in Nat, NEW n \in Nat PROVE b + n \in Nat /\ Image!UpTo(b + n, PAGE) \in Nat /\ b + n <= Image!UpTo(b + n, PAGE)
    <2>1. b + n \in Nat
      OBVIOUS
    <2>. QED
      BY <1>1, <2>1, RoundedUp
  <1>6. /\ Begins(1) + Taken(1) <= Begins(2) /\ Begins(2) + Taken(2) <= Begins(3) /\ Begins(3) + Taken(3) <= Begins(4)
        /\ image.size \in Nat /\ Begins(4) + Taken(4) <= image.size
    BY <1>4, <1>5, TableParts
  <1>7. \A j \in 1 .. 4 : Begins(j) \in Nat /\ Taken(j) \in Nat \ {0} /\ Begins(j) + Taken(j) <= image.size
    <2>. SUFFICES ASSUME NEW j \in 1 .. 4
                  PROVE  Begins(j) \in Nat /\ Taken(j) \in Nat \ {0} /\ Begins(j) + Taken(j) <= image.size
      OBVIOUS
    <2>1. CASE j = 1
      BY <1>4, <1>6, <2>1
    <2>2. CASE j = 2
      BY <1>4, <1>6, <2>2
    <2>3. CASE j = 3
      BY <1>4, <1>6, <2>3
    <2>4. CASE j = 4
      BY <1>4, <1>6, <2>4
    <2>. QED
      BY <2>1, <2>2, <2>3, <2>4
  <1>8. ASSUME NEW n \in Nat, NEW a \in Nat \ {0} PROVE Image!UpTo(n, a) % a = 0
    <2>1. PICK q \in Nat : Image!UpTo(n, a) = q * a
      BY RoundedUp
    <2>2. (q * a) % a = 0
      OBVIOUS
    <2>. QED
      BY <2>1, <2>2
  <1>9. \A j \in 1 .. 4 : image.table[j].rs \in Nat /\ Taken(j) <= image.table[j].rs /\ image.table[j].rs % RAW = 0
    <2>. SUFFICES ASSUME NEW j \in 1 .. 4
                  PROVE  image.table[j].rs \in Nat /\ Taken(j) <= image.table[j].rs /\ image.table[j].rs % RAW = 0
      OBVIOUS
    <2>1. image.table[j].rs = Image!UpTo(Taken(j), RAW) /\ Taken(j) \in Nat
      BY <1>7, TableParts
    <2>2. Image!UpTo(Taken(j), RAW) \in Nat /\ Taken(j) <= Image!UpTo(Taken(j), RAW)
      BY <1>1, <2>1, RoundedUp
    <2>. QED
      BY <1>1, <1>8, <2>1, <2>2
  <1>10. /\ image.table[1].raw = HEADERS /\ image.table[2].raw = image.table[1].raw + image.table[1].rs
         /\ image.table[3].raw = image.table[2].raw + image.table[2].rs
         /\ image.table[4].raw = image.table[3].raw + image.table[3].rs
         /\ image.length = image.table[4].raw + image.table[4].rs
    BY TableParts
  <1>11. /\ image.table[1].rs \in Nat /\ image.table[2].rs \in Nat /\ image.table[3].rs \in Nat /\ image.table[4].rs \in Nat
    BY <1>9
  <1>12. /\ image.length \in Nat
         /\ \A j \in 1 .. 4 : image.table[j].raw \in Nat /\ image.table[j].raw + image.table[j].rs <= image.length
    <2>1. /\ image.table[1].raw \in Nat /\ image.table[2].raw \in Nat /\ image.table[3].raw \in Nat /\ image.table[4].raw \in Nat
          /\ image.length \in Nat
          /\ image.table[1].raw + image.table[1].rs <= image.length
          /\ image.table[2].raw + image.table[2].rs <= image.length
          /\ image.table[3].raw + image.table[3].rs <= image.length
          /\ image.table[4].raw + image.table[4].rs <= image.length
      BY <1>1, <1>10, <1>11
    <2>2. \A j \in 1 .. 4 : j = 1 \/ j = 2 \/ j = 3 \/ j = 4
      OBVIOUS
    <2>. QED
      BY <2>1, <2>2
  <1>13. image.size > 0 /\ image.size % PAGE = 0
    <2>1. image.size = Image!UpTo(Begins(4) + Taken(4), PAGE) /\ Begins(4) + Taken(4) \in Nat
      BY <1>4, TableParts
    <2>2. image.size % PAGE = 0
      BY <1>1, <1>8, <2>1
    <2>. QED
      BY <1>4, <1>6, <2>2
  <1>14. \A j \in 2 .. 4 : Begins(j) = Image!UpTo(Begins(j - 1) + Taken(j - 1), PAGE)
    <2>. SUFFICES ASSUME NEW j \in 2 .. 4 PROVE Begins(j) = Image!UpTo(Begins(j - 1) + Taken(j - 1), PAGE)
      OBVIOUS
    <2>1. CASE j = 2
      BY <1>4, <2>1
    <2>2. CASE j = 3
      BY <1>4, <2>2
    <2>3. CASE j = 4
      BY <1>4, <2>3
    <2>. QED
      BY <2>1, <2>2, <2>3
  <1>. QED
    BY <1>3, <1>6, <1>7, <1>9, <1>12, <1>13, <1>14

(* Every place of the table lies in a section, with room for its field.    *)
LEMMA PlacesMapped ==
    ASSUME ImageMade, NEW r \in Adjustable PROVE Image!Maps(image, r, W64)
  <1>1. /\ object \in Image!Objects /\ Image!Materializable(object) /\ W64 \in Nat \ {0}
        /\ \A k \in Image!Sections : Image!Size(object, k) \in Nat
    BY ImageParts, NxoAssumption DEF ImageMade
  <1>2. ASSUME NEW k \in Image!Sections, NEW x \in Nat, r = Va(k) + x, x + W64 <= Ahead(k) + Image!Size(object, k)
        PROVE  Image!Maps(image, r, W64)
    <2>1. k \in 1 .. 4 /\ k \in DOMAIN image.table
      BY TableParts DEF Image!Sections
    <2>2. Va(k) = Begins(k) /\ Ahead(k) + Image!Size(object, k) <= Taken(k) /\ Ahead(k) \in Nat
      <3>1. k = 1 \/ k = 2 \/ k = 3
        BY DEF Image!Sections
      <3>2. Image!Size(object, Image!DATA) <= DataUsed(object) /\ Image!Size(object, k) \in Nat
        BY <1>1, LaidOut DEF Image!Materializable, ImageMade
      <3>3. CASE k = 1
        BY <1>1, <3>2, <3>3 DEF Va, Begins, Ahead, Taken, Image!TEXT, Image!RDATA, Image!DATA
      <3>4. CASE k = 2
        BY <1>1, <3>2, <3>4 DEF Va, Begins, Ahead, Taken, Image!TEXT, Image!RDATA, Image!DATA
      <3>5. CASE k = 3
        BY <1>1, <3>2, <3>5 DEF Va, Begins, Ahead, Taken, Image!TEXT, Image!RDATA, Image!DATA
      <3>. QED
        BY <3>1, <3>3, <3>4, <3>5
    <2>3. /\ image.table[k].va = Begins(k) /\ image.table[k].vs = Taken(k)
          /\ Begins(k) \in Nat /\ Taken(k) \in Nat /\ image.table[k].rs \in Nat /\ Taken(k) <= image.table[k].rs
      BY <2>1, TableParts, TableInOrder
    <2>4. x + W64 <= Taken(k)
      BY <1>1, <1>2, <2>2, <2>3
    <2>5. /\ r >= image.table[k].va
          /\ Image!Span(r - image.table[k].va, W64, image.table[k].vs)
          /\ Image!Span(r - image.table[k].va, W64, image.table[k].rs)
      <3>1. r - image.table[k].va = x /\ r >= image.table[k].va
        BY <1>2, <2>2, <2>3
      <3>2. x <= Taken(k) /\ W64 <= Taken(k) - x /\ x <= image.table[k].rs /\ W64 <= image.table[k].rs - x
        BY <1>1, <2>3, <2>4
      <3>. QED
        BY <2>3, <3>1, <3>2 DEF Image!Span
    <2>. QED
      BY <2>1, <2>5 DEF Image!Maps
  <1>3. CASE r = Va(Image!RDATA)
    <2>1. Image!RDATA \in Image!Sections /\ Ahead(Image!RDATA) = W64 /\ Va(Image!RDATA) \in Nat
      BY ImageParts DEF Ahead, Image!Sections, Image!RDATA
    <2>2. r = Va(Image!RDATA) + 0 /\ 0 + W64 <= Ahead(Image!RDATA) + Image!Size(object, Image!RDATA)
      BY <1>1, <1>3, <2>1
    <2>. QED
      BY <1>2, <2>1, <2>2
  <1>4. CASE \E j \in Image!Absolute(object) : r = Image!Address(Reloc(j).section, Reloc(j).offset)
    <2>1. PICK j \in Image!Absolute(object) : r = Image!Address(Reloc(j).section, Reloc(j).offset)
      BY <1>4
    <2>2. j \in DOMAIN object.relocs /\ Image!Width(Reloc(j).kind) = W64
      BY DEF Image!Absolute, Reloc, Image!Width
    <2>. DEFINE k == Reloc(j).section
                x == Reloc(j).offset
    <2>3. k \in Image!Sections /\ x \in Nat /\ x + W64 <= Image!Size(object, k)
      BY <1>1, <2>2, RelocParts
    <2>. HIDE DEF k, x
    <2>4. Image!Address(k, x) = Va(k) + Ahead(k) + x /\ Va(k) \in Nat /\ Ahead(k) \in Nat
      BY <2>3, Addresses
    <2>5. r = Va(k) + (Ahead(k) + x) /\ (Ahead(k) + x) + W64 <= Ahead(k) + Image!Size(object, k) /\ Ahead(k) + x \in Nat
      BY <1>1, <2>1, <2>3, <2>4 DEF k, x
    <2>. QED
      BY <1>2, <2>3, <2>5
  <1>. QED
    BY <1>3, <1>4, PlacesAll

(* The table of places has as many as there are places.                    *)
LEMMA PlacesCounted ==
    ASSUME ImageMade, PlacesApart
    PROVE  /\ Image!Relocations(image) = 1 + Cardinality(Image!Absolute(object))
           /\ Cardinality(Image!Absolute(object)) \in Nat
  <1>. DEFINE R == Adjustable
              B == PageBlocks(R)
              v == [n \in DOMAIN B |-> Len(B[n].offsets)]
              X == [n \in DOMAIN B |-> OnPage(R, B[n].page)]
  <1>1. image.blocks = B /\ R \in SUBSET Nat /\ IsFiniteSet(R) /\ ImageAssumed
    BY TableParts, PlacesAll DEF ImageMade
  <1>2. /\ IsFiniteSet(DOMAIN B)
        /\ R = UNION {OnPage(R, B[n].page) : n \in DOMAIN B}
        /\ \A n \in DOMAIN B :
              /\ \A m \in DOMAIN B : m # n => B[m].page # B[n].page
              /\ IsFiniteSet(OnPage(R, B[n].page))
              /\ Len(B[n].offsets) = Cardinality(OnPage(R, B[n].page))
    <2>. HIDE DEF R
    <2>. QED
      BY <1>1, BlocksOrdered
  <1>. HIDE DEF B, R
  <1>3. PICK sum : AddsUp(sum, v, DOMAIN B) /\ Image!Relocations(image) = sum[DOMAIN B]
    BY <1>1, <1>2, Counted
  <1>4. \A n \in DOMAIN B : IsFiniteSet(X[n]) /\ v[n] = Cardinality(X[n])
    BY <1>2
  <1>5. \A m, n \in DOMAIN B : m # n => X[m] \cap X[n] = {}
    BY <1>2 DEF OnPage
  <1>6. UNION {X[n] : n \in DOMAIN B} = R
    BY <1>2
  <1>. HIDE DEF v, X
  <1>7. sum[DOMAIN B] = Cardinality(UNION {X[n] : n \in DOMAIN B})
    BY <1>2, <1>3, <1>4, <1>5, SumCounts
  <1>8. Image!Cardinality(R) = Len(artifact.base) + 1 /\ Len(artifact.base) \in Nat
    BY <1>1, MaterializedWritable, Spaced DEF ImageMade, R
  <1>9. Cardinality(R) = Image!Cardinality(R)
    BY DEF Cardinality, Image!Cardinality
  <1>10. Len(artifact.base) = Cardinality(Image!Absolute(object))
    BY ListedOnce DEF ImageMade
  <1>11. sum[DOMAIN B] = Cardinality(R)
    BY <1>6, <1>7
  <1>. QED
    BY <1>3, <1>8, <1>9, <1>10, <1>11

(* The reader accepts what the writer made.                                *)
LEMMA MadeAccepted ==
    ASSUME ImageMade, PlacesApart PROVE Image!Accepted(image)
  <1>. DEFINE t == image.table
  <1>0. ImageAssumed /\ PAGE \in Nat \ {0} /\ W64 \in Nat
    BY NxoAssumption DEF ImageMade, ImageAssumed, Image!PeAssumption
  <1>1. /\ DOMAIN t = 1 .. 4 /\ Len(t) = 4
        /\ \A j \in 1 .. 4 : t[j].va = Begins(j) /\ t[j].vs = Taken(j)
        /\ t[1].raw = HEADERS /\ \A j \in 2 .. 4 : t[j].raw = t[j - 1].raw + t[j - 1].rs
        /\ t[1].flags = {"read", "execute"} /\ \A j \in 2 .. 4 : t[j].flags \in {{"read"}, {"read", "write"}}
        /\ image.size = Image!UpTo(Begins(4) + Taken(4), PAGE)
        /\ image.length = t[4].raw + t[4].rs
        /\ image.reloc.rva = Begins(4) /\ image.reloc.size = Taken(4)
        /\ image.entry = PAGE + artifact.entry
        /\ image.blocks = PageBlocks(Adjustable)
    BY TableParts
  <1>2. /\ \A j \in 1 .. 4 : /\ Begins(j) \in Nat /\ Taken(j) \in Nat \ {0} /\ Begins(j) + Taken(j) <= image.size
                            /\ t[j].raw \in Nat /\ t[j].rs \in Nat /\ Taken(j) <= t[j].rs /\ t[j].rs % RAW = 0
                            /\ t[j].raw + t[j].rs <= image.length
        /\ Begins(1) = PAGE
        /\ \A j \in 2 .. 4 : Begins(j) = Image!UpTo(Begins(j - 1) + Taken(j - 1), PAGE)
        /\ image.size \in Nat /\ image.size > 0 /\ image.size % PAGE = 0
        /\ image.length \in Nat
    BY TableInOrder
  <1>. HIDE DEF t
  <1>3. ASSUME NEW j \in DOMAIN t
        PROVE  /\ t[j].va = IF j = 1 THEN PAGE ELSE Image!UpTo(t[j - 1].va + t[j - 1].vs, PAGE)
               /\ t[j].raw = IF j = 1 THEN HEADERS ELSE t[j - 1].raw + t[j - 1].rs
               /\ t[j].rs % RAW = 0 /\ t[j].vs <= t[j].rs
               /\ Image!Span(t[j].raw, t[j].rs, image.length) /\ t[j].va + t[j].vs <= image.size
               /\ ~ {"write", "execute"} \subseteq t[j].flags
    <2>1. j \in 1 .. 4 /\ (j # 1 => j \in 2 .. 4 /\ j - 1 \in 1 .. 4)
      BY <1>1
    <2>2. t[j].va = IF j = 1 THEN PAGE ELSE Image!UpTo(t[j - 1].va + t[j - 1].vs, PAGE)
      BY <1>1, <1>2, <2>1
    <2>3. t[j].raw = IF j = 1 THEN HEADERS ELSE t[j - 1].raw + t[j - 1].rs
      BY <1>1, <2>1
    <2>4. Image!Span(t[j].raw, t[j].rs, image.length)
      BY <1>2, <2>1 DEF Image!Span
    <2>5. ~ {"write", "execute"} \subseteq t[j].flags
      <3>1. t[j].flags \in {{"read", "execute"}, {"read"}, {"read", "write"}}
        BY <1>1, <2>1
      <3>. QED
        BY <3>1
    <2>. QED
      BY <1>1, <1>2, <2>1, <2>2, <2>3, <2>4, <2>5
  <1>4. Image!CanonicalTable(image)
    BY <1>3 DEF Image!CanonicalTable, t
  <1>5. \E j \in DOMAIN t : /\ image.entry >= t[j].va /\ image.entry < t[j].va + t[j].vs
                           /\ t[j].flags \cap {"read", "write", "execute"} = {"read", "execute"}
    <2>1. artifact.entry < Image!Size(object, Image!TEXT) /\ Image!Size(object, Image!TEXT) \in Nat /\ artifact.entry \in Nat
      <3>1. artifact.entry < Len(artifact.sections[Image!TEXT])
        BY MaterializedWritable DEF ImageMade, Image!Writable
      <3>2. Image!TEXT \in Image!Sections
        BY DEF Image!TEXT, Image!Sections
      <3>3. Len(artifact.sections[Image!TEXT]) = Image!Size(object, Image!TEXT) /\ Image!Size(object, Image!TEXT) \in Nat
        BY <3>2, ImageParts DEF ImageMade, ImageIInv, Copied
      <3>4. artifact.entry \in Nat
        <4>1. /\ object \in Image!Objects /\ Image!Materializable(object)
              /\ artifact.entry = object.symbols[object.entry].offset
          BY ImageParts DEF ImageMade, ImageIInv, Copied
        <4>2. object.entry \in DOMAIN object.symbols
          BY <4>1, ObjectParts DEF Image!Materializable, Image!Valid, Image!ValidEntry
        <4>3. object.symbols[object.entry] \in Image!SymbolRecords
          BY <4>1, <4>2, ObjectParts
        <4>. QED
          BY <4>1, <4>3 DEF Image!SymbolRecords
      <3>. QED
        BY <3>1, <3>3, <3>4
    <2>2. Taken(1) = Image!Size(object, Image!TEXT)
      BY DEF Taken
    <2>3. image.entry >= t[1].va /\ image.entry < t[1].va + t[1].vs
      BY <1>0, <1>1, <1>2, <2>1, <2>2
    <2>4. t[1].flags \cap {"read", "write", "execute"} = {"read", "execute"}
      BY <1>1
    <2>. QED
      BY <1>1, <2>3, <2>4
  <1>6. Image!Maps(image, image.reloc.rva, image.reloc.size)
    <2>1. image.reloc.rva >= t[4].va /\ image.reloc.rva - t[4].va = 0
      BY <1>1, <1>2
    <2>2. Image!Span(0, image.reloc.size, t[4].vs) /\ Image!Span(0, image.reloc.size, t[4].rs)
      BY <1>1, <1>2 DEF Image!Span
    <2>. QED
      BY <1>1, <2>1, <2>2 DEF Image!Maps, t
  <1>. DEFINE B == PageBlocks(Adjustable)
  <1>7. Image!CanonicalBlocks(image)
    <2>1. Adjustable \in SUBSET Nat /\ IsFiniteSet(Adjustable)
      BY PlacesAll
    <2>2. \A n \in DOMAIN B :
             /\ B[n].page % PAGE = 0
             /\ n > 1 => B[n].page > B[n - 1].page
             /\ \A m \in DOMAIN B[n].offsets :
                   /\ B[n].offsets[m] < PAGE
                   /\ B[n].page + B[n].offsets[m] \in Adjustable
                   /\ m > 1 => B[n].offsets[m] > B[n].offsets[m - 1]
      BY <1>0, <2>1, BlocksOrdered
    <2>. HIDE DEF B
    <2>3. \A n \in DOMAIN B : \A m \in DOMAIN B[n].offsets : Image!Maps(image, B[n].page + B[n].offsets[m], W64)
      BY <2>2, PlacesMapped
    <2>4. Image!TableSize(image.blocks) = image.reloc.size
      BY <1>1 DEF Taken
    <2>5. image.blocks = B
      BY <1>1 DEF B
    <2>. QED
      BY <2>2, <2>3, <2>4, <2>5 DEF Image!CanonicalBlocks
  <1>8. Image!Relocations(image) > 0
    BY PlacesCounted
  <1>9. image.reloc.size > 0 /\ t[Len(t)].raw + t[Len(t)].rs = image.length
        /\ Image!UpTo(t[Len(t)].va + t[Len(t)].vs, PAGE) = image.size
    BY <1>1, <1>2
  <1>. QED
    BY <1>2, <1>4, <1>5, <1>6, <1>7, <1>8, <1>9 DEF Image!Accepted, t

(* The writer refuses nothing that was materialized: no two absolute       *)
(* fields of a valid object overlap, nor one and the anchor.  The reader   *)
(* refuses no image that was written, and counts the anchor and every      *)
(* absolute relocation once.                                               *)
THEOREM ImageRead == Image!Spec => []Image!WrittenAndRead
  <1>0. ImageAssumed
    BY ImageAssumption DEF ImageAssumed
  <1>1. Image!Init => ImageIInv /\ PlacesApart
    BY <1>0, ImageInit DEF Image!Init, PlacesApart
  <1>2. ImageIInv /\ PlacesApart /\ [Image!Next]_(Image!vars) => (ImageIInv /\ PlacesApart)'
    BY <1>0, ImageNext, ApartNext
  <1>3. ImageIInv /\ PlacesApart => Image!WrittenAndRead
    <2>1. ASSUME ImageIInv, PlacesApart PROVE step = "make_pe" => Image!Writable
      BY <1>0, <2>1, MaterializedWritable
    <2>2. ASSUME ImageIInv, PlacesApart, step = "made"
          PROVE  Image!Accepted(image) /\ Image!Relocations(image) = 1 + Image!Cardinality(Image!Absolute(object))
      <3>1. ImageMade
        BY <1>0, <2>2 DEF ImageMade
      <3>2. Image!Cardinality(Image!Absolute(object)) = Cardinality(Image!Absolute(object))
        BY DEF Cardinality, Image!Cardinality
      <3>. QED
        BY <2>2, <3>1, <3>2, MadeAccepted, PlacesCounted
    <2>. QED
      BY <2>1, <2>2 DEF Image!WrittenAndRead
  <1>. QED
    BY <1>1, <1>2, <1>3, PTL DEF Image!Spec

(* WrittenAndRead of MCObjects, all of it that is not about object files:  *)
(* writer and reader of images agree whatever was materialized.            *)
THEOREM ImagesReadBack == Image!Spec => [](machine # "file" => WrittenAndRead)
  <1>1. Image!WrittenAndRead => (machine # "file" => WrittenAndRead)
    BY DEF WrittenAndRead
  <1>. QED
    BY <1>1, ImageRead, PTL
=============================================================================
