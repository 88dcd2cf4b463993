----------------------------- MODULE X64Effects ----------------------------
(***************************************************************************)
(* The footprint of an encoded instruction (nt_x64_effects): registers     *)
(* read and written, flags read, written and left undefined, memory and    *)
(* stack, and what the verifier of functions must know besides.  The       *)
(* registers are 0 to 15, 17 for the flags, 18 and 19 for the GS and FS    *)
(* bases.  What the processor's manual says of the same instructions is at *)
(* the end.                                                                *)
(***************************************************************************)
EXTENDS X64, FiniteSets

RFLAGS == 17
GSBASE == 18
FSBASE == 19
ARITH == {"cf", "pf", "af", "zf", "sf", "of"}

(* The operands, by number, that an instruction reads and writes.          *)
Reads(op, n) ==
    CASE op \in {"mov", "load", "store", "movzx", "movsx", "movsxd", "bsf", "bsr", "write_cr", "in"} -> {2}
      [] op = "imul" -> IF n = 2 THEN {1, 2} ELSE {2}
      [] op \in DOMAIN Group \cup DOMAIN Shifts \cup DOMAIN BitOps \cup {"test", "cmov", "xchg", "out"} -> {1, 2}
      [] op \in DOMAIN Unary \cup {"push", "call", "j", "jmp", "bswap", "lgdt", "lidt", "ltr"} -> {1}
      [] OTHER -> {}

Writes(op) ==
    CASE op = "xchg" -> {1, 2}
      [] op \in {"mov", "load", "store", "lea", "movzx", "movsx", "movsxd", "inc", "dec", "not", "neg", "imul",
                 "pop", "set", "cmov", "bswap", "bts", "btr", "btc", "bsf", "bsr", "read_cr", "sgdt", "sidt", "in"}
              \cup DOMAIN Shifts \cup (DOMAIN Group \ {"cmp"}) -> {1}
      [] OTHER -> {}

Stack == {"push", "pushfq", "pop", "popfq", "ret", "return", "call"}
ByteOrBoth(o) == IF o[1].width = 8 THEN {0} ELSE {0, 2}

(* The registers no operand names.                                         *)
ImpliedReads(op, o) ==
    CASE op = "mul" -> {0}
      [] op \in {"div", "idiv"} -> ByteOrBoth(o)
      [] op \in {"cbw", "cwde", "cdqe", "cwd", "cdq", "cqo"} -> {0}
      [] op = "cpuid" -> {0, 1}
      [] op = "pushfq" -> {4, RFLAGS}
      [] op \in (Stack \ {"pushfq"}) \cup {"iretq"} -> {4}
      [] op = "swapgs" -> {GSBASE}
      [] op = "rdmsr" -> {1}
      [] op = "wrmsr" -> {0, 1, 2}
      [] op = "syscall" -> {RFLAGS}
      [] op = "sysretq" -> {1, 11}
      [] OTHER -> {}

ImpliedWrites(op, o) ==
    CASE op \in {"mul", "div", "idiv"} -> ByteOrBoth(o)
      [] op \in {"cwd", "cdq", "cqo"} -> {2}
      [] op \in {"cbw", "cwde", "cdqe"} -> {0}
      [] op = "cpuid" -> {0, 1, 2, 3}
      [] op \in {"rdtsc", "rdmsr"} -> {0, 2}
      [] op \in Stack \cup {"iretq"} -> {4}
      [] op = "swapgs" -> {GSBASE}
      [] op = "syscall" -> {1, 11}
      [] OTHER -> {}

OnFlags ==
    "o" :> {"of"} @@ "no" :> {"of"} @@ "b" :> {"cf"} @@ "ae" :> {"cf"} @@ "e" :> {"zf"} @@ "ne" :> {"zf"}
    @@ "be" :> {"cf", "zf"} @@ "a" :> {"cf", "zf"} @@ "s" :> {"sf"} @@ "ns" :> {"sf"} @@ "p" :> {"pf"} @@ "np" :> {"pf"}
    @@ "l" :> {"sf", "of"} @@ "ge" :> {"sf", "of"} @@ "le" :> {"zf", "sf", "of"} @@ "g" :> {"zf", "sf", "of"}

FlagsRead(op, cc) ==
    CASE op \in {"adc", "sbb"} -> {"cf"} [] op \in {"j", "set", "cmov"} -> OnFlags[cc] [] OTHER -> {}

Flags(written, undefined) == [written |-> written, undefined |-> undefined]

(* A shift by cl may be one by nothing and proves no flag; one by a number *)
(* is one by its low bits, a rotation also modulo the width.               *)
ShiftFlags_Mask32(op, o) ==
    LET amount == o[2].imm % 32
    IN  IF ~IsImm(o[2]) THEN Flags({}, IF op \in {"rol", "ror"} THEN {"cf", "of"} ELSE ARITH)
        ELSE IF amount = 0 THEN Flags({}, {})
        ELSE IF op \in {"rol", "ror"} THEN Flags({"cf"}, {"of"})
        ELSE Flags({"pf", "zf", "sf"}, {"af", "cf", "of"})
ShiftFlags(op, o) ==
    LET w == o[1].width
        masked == o[2].imm % (IF w = 64 THEN 64 ELSE 32)
        amount == IF op \in {"rol", "ror"} THEN masked % w ELSE masked
        overflow == IF amount = 1 THEN Flags({"of"}, {}) ELSE Flags({}, {"of"})
    IN  IF ~IsImm(o[2]) THEN Flags({}, IF op \in {"rol", "ror"} THEN {"cf", "of"} ELSE ARITH)
        ELSE IF amount = 0 THEN Flags({}, {})
        ELSE IF op \in {"rol", "ror"} THEN Flags({"cf"} \cup overflow.written, overflow.undefined)
        ELSE Flags({"pf", "zf", "sf"} \cup overflow.written \cup (IF amount > w THEN {} ELSE {"cf"}),
                   {"af"} \cup overflow.undefined \cup (IF amount > w THEN {"cf"} ELSE {}))

FlagsOf(op, o) ==
    CASE op \in {"and", "or", "xor", "test"} -> Flags(ARITH \ {"af"}, {"af"})
      [] op \in {"add", "adc", "sub", "sbb", "cmp", "neg", "popfq", "syscall", "sysretq", "iretq"} -> Flags(ARITH, {})
      [] op \in {"inc", "dec"} -> Flags(ARITH \ {"cf"}, {})
      [] op \in DOMAIN Shifts -> ShiftFlags(op, o)
      [] op \in {"mul", "imul"} -> Flags({"cf", "of"}, ARITH \ {"cf", "of"})
      [] op \in {"div", "idiv"} -> Flags({}, ARITH)
      [] op \in DOMAIN BitOps -> Flags({"cf"}, {"of", "sf", "af", "pf"})
      [] op \in {"bsf", "bsr"} -> Flags({"zf"}, ARITH \ {"zf"})
      [] OTHER -> Flags({}, {})

EffectsOf(op, memoryWrite) ==
    CASE op \in {"lfence", "sfence", "mfence"} -> {"memory_ordering"}
      [] op = "xchg" /\ memoryWrite -> {"memory_ordering"}
      [] op = "rdtsc" -> {"reads_clock"}
      [] op = "ud2" -> {"no_return"}
      [] op \in {"cli", "sti"} -> {"interrupt_state"}
      [] op = "hlt" -> {"suspends"}
      [] op \in {"swapgs", "syscall", "read_cr", "write_cr", "ltr", "invlpg"} \cup DOMAIN Tables -> {"control"}
      [] op \in {"sysretq", "iretq"} -> {"control", "no_return"}
      [] op \in {"rdmsr", "wrmsr"} -> {"msr"}
      [] op \in {"in", "out"} -> {"io_port"}
      [] OTHER -> {}

RegistersOf(operands) == {x.reg : x \in {y \in operands : IsReg(y)}}
AddressOf(m) ==
    ({m.base, m.index} \ {NONE, RIP})
    \cup (CASE m.segment = "fs" -> {FSBASE} [] m.segment = "gs" -> {GSBASE} [] OTHER -> {})

Footprint(i) ==
    LET op == i.op
        reads == {i.o[n] : n \in Reads(op, Len(i.o))}
        writes == {i.o[n] : n \in Writes(op)}
        narrow == {x \in writes : IsReg(x) /\ x.width < 32}
        addresses == UNION {AddressOf(x) : x \in {i.o[n] : n \in {k \in DOMAIN i.o : IsMem(i.o[k])}}}
        flags == FlagsOf(op, i.o)
        needs == FlagsRead(op, i.cc)
        touched == flags.written \cup flags.undefined
        memoryWrite == \E x \in writes : IsMem(x)
        ring == IF op \in DOMAIN Fixed THEN Fixed[op].cpl
                ELSE IF op \in RingZero \cup DOMAIN Tables THEN 0 ELSE 3
    IN  [registers_read |-> RegistersOf(reads) \cup RegistersOf(narrow) \cup addresses \cup ImpliedReads(op, i.o)
                            \cup (IF needs = {} THEN {} ELSE {RFLAGS}),
         registers_written |-> RegistersOf(writes) \cup ImpliedWrites(op, i.o)
                               \cup (IF touched = {} THEN {} ELSE {RFLAGS}),
         flags_read |-> needs, flags_written |-> flags.written, flags_undefined |-> flags.undefined,
         memory_read |-> \E x \in reads : IsMem(x), memory_write |-> memoryWrite,
         stack_read |-> op \in {"pop", "popfq", "ret", "return", "iretq"},
         stack_write |-> op \in {"push", "pushfq", "call"},
         terminal |-> op \in {"ret", "return", "jmp", "ud2", "sysretq", "iretq"},
         conditional |-> op \in {"j", "cmov"},
         may_trap |-> op \in {"div", "idiv", "ud2"},
         destination_requires_nonzero |-> op \in {"bsf", "bsr"},
         max_cpl |-> ring,
         effects |-> EffectsOf(op, memoryWrite)
                     \cup (IF touched = {} THEN {} ELSE {"changes_flags"})
                     \cup (IF ring = 0 THEN {"privileged"} ELSE {})]

-----------------------------------------------------------------------------
(***************************************************************************)
(* What instructions do to flags, registers and memory by the processor's  *)
(* manual, and when a footprint may be believed.  The processor is outside *)
(* the repository.                                                         *)
(***************************************************************************)

Count(i) == i.o[2].imm % (IF i.o[1].width = 64 THEN 64 ELSE 32)
ByCl(i) == ~IsImm(i.o[2])

(* The flags an instruction may change.                                    *)
Changes(i) ==
    CASE i.op \in {"add", "or", "adc", "sbb", "and", "sub", "xor", "cmp", "test", "neg", "mul", "imul", "div", "idiv",
                   "bsf", "bsr", "popfq", "iretq", "sysretq", "syscall"} -> ARITH
      [] i.op \in {"inc", "dec"} -> ARITH \ {"cf"}
      [] i.op \in {"bt", "bts", "btr", "btc"} -> ARITH \ {"zf"}
      [] i.op \in {"shl", "shr", "sar"} -> IF ~ByCl(i) /\ Count(i) = 0 THEN {} ELSE ARITH
      [] i.op \in {"rol", "ror"} -> IF ~ByCl(i) /\ Count(i) = 0 THEN {} ELSE {"cf", "of"}
      [] OTHER -> {}

(* Those that certainly have a value of the instruction afterwards.        *)
Defines(i) ==
    CASE i.op \in {"add", "adc", "sbb", "sub", "cmp", "neg", "popfq", "iretq", "sysretq", "syscall"} -> ARITH
      [] i.op \in {"or", "and", "xor", "test"} -> ARITH \ {"af"}
      [] i.op \in {"mul", "imul"} -> {"cf", "of"}
      [] i.op \in {"bsf", "bsr"} -> {"zf"}
      [] i.op \in {"inc", "dec"} -> ARITH \ {"cf"}
      [] i.op \in {"bt", "bts", "btr", "btc"} -> {"cf"}
      [] i.op \in {"shl", "shr", "sar", "rol", "ror"} /\ ~ByCl(i) ->
            IF Count(i) = 0 THEN {}
            ELSE (IF Count(i) = 1 THEN {"of"} ELSE {})
                 \cup (IF i.op \in {"shl", "shr"} /\ Count(i) >= i.o[1].width THEN {} ELSE {"cf"})
                 \cup (IF i.op \in {"rol", "ror"} THEN {} ELSE {"pf", "zf", "sf"})
      [] OTHER -> {}

Needs(i) ==
    CASE i.op \in {"adc", "sbb"} -> {"cf"}
      [] i.op \in {"j", "set", "cmov"} ->
           (CASE i.cc \in {"o", "no"} -> {"of"} [] i.cc \in {"b", "ae"} -> {"cf"} [] i.cc \in {"e", "ne"} -> {"zf"}
              [] i.cc \in {"be", "a"} -> {"cf", "zf"} [] i.cc \in {"s", "ns"} -> {"sf"} [] i.cc \in {"p", "np"} -> {"pf"}
              [] i.cc \in {"l", "ge"} -> {"sf", "of"} [] i.cc \in {"le", "g"} -> {"zf", "sf", "of"})
      [] OTHER -> {}

(* The general registers an instruction changes.                           *)
Named(i, n) == IF n \in DOMAIN i.o /\ IsReg(i.o[n]) THEN {i.o[n].reg} ELSE {}
Clobbers(i) ==
    CASE i.op \in {"cmp", "test", "bt", "write_cr", "out", "lgdt", "lidt", "ltr", "invlpg", "jmp", "j"} -> {}
      [] i.op \in {"mul", "div", "idiv"} -> IF i.o[1].width = 8 THEN {0} ELSE {0, 2}
      [] i.op \in {"push", "call"} -> {4}
      [] i.op = "pop" -> {4} \cup Named(i, 1)
      [] i.op = "xchg" -> Named(i, 1) \cup Named(i, 2)
      [] i.op \in {"cbw", "cwde", "cdqe"} -> {0}
      [] i.op \in {"cwd", "cdq", "cqo"} -> {2}
      [] i.op = "cpuid" -> {0, 1, 2, 3}
      [] i.op \in {"rdtsc", "rdmsr"} -> {0, 2}
      [] i.op \in {"pushfq", "popfq", "ret", "return", "iretq"} -> {4}
      [] i.op = "syscall" -> {1, 11}
      [] OTHER -> Named(i, 1)

(* Memory other than the stack it writes.                                  *)
Stores(i) ==
    /\ \E n \in DOMAIN i.o : IsMem(i.o[n]) /\ (n = 1 \/ i.op = "xchg")
    /\ i.op \notin {"cmp", "test", "bt", "mul", "div", "idiv", "push", "call", "jmp", "lgdt", "lidt", "ltr", "invlpg"}

Privileged == {"cli", "sti", "hlt", "swapgs", "rdmsr", "wrmsr", "sysretq", "read_cr", "write_cr", "lgdt", "lidt",
               "ltr", "invlpg", "in", "out"}

(* Every change is declared, no flag is promised that has no value, every  *)
(* flag needed is asked for, privileged instructions are known.            *)
Sound(f, i) ==
    /\ Changes(i) \subseteq f.flags_written \cup f.flags_undefined
    /\ f.flags_written \subseteq Defines(i)
    /\ Needs(i) \subseteq f.flags_read
    /\ Clobbers(i) \subseteq f.registers_written
    /\ Stores(i) => f.memory_write
    /\ i.op \in Privileged => f.max_cpl = 0
=============================================================================
