-------------------------------- MODULE X64 --------------------------------
(***************************************************************************)
(* The machine instruction encoder of the C tool chain (x64.c): an         *)
(* instruction and its operands become bytes, or are refused.              *)
(*                                                                         *)
(* Prefixes, opcodes, ModRM and SIB bytes are the real ones.  The bytes of *)
(* displacements and immediates are digits to the base BYTE (256 in the    *)
(* program, small in a run), and every limit of the code that is a power   *)
(* of 256 is that power of BYTE.  The error numbers are one refusal.       *)
(*                                                                         *)
(* An instruction is [op, cc, ctx, o]: mnemonic, condition suffix or "",   *)
(* [features, cpl], sequence of operands.                                  *)
(***************************************************************************)
EXTENDS Integers, Sequences, TLC

CONSTANT BYTE
X64Assumption == BYTE \in Nat /\ BYTE > 1 /\ BYTE % 2 = 0

Reg(r, w, high8) == [kind |-> "reg", reg |-> r, width |-> w, high8 |-> high8]
Imm(v, signed) == [kind |-> "imm", imm |-> v, signed |-> signed, width |-> 0]
Rel(v) == [kind |-> "rel", imm |-> v, signed |-> TRUE, width |-> 0]
Cr(r) == [kind |-> "cr", reg |-> r, width |-> 64]
Mem(base, index, scale, disp, segment, w) ==
    [kind |-> "mem", base |-> base, index |-> index, scale |-> scale, disp |-> disp,
     segment |-> segment, width |-> w]

RIP == -2
NONE == -1
Scalar == {8, 16, 32, 64}

(* The number of values of a word, and of a signed word's half of it.      *)
Whole(w) == BYTE^(w \div 8)
Half(w) == Whole(w) \div 2

Fits(o, w, extended) ==
    \/ w = 64
    \/ o.signed /\ (o.imm < Half(w) \/ o.imm >= Whole(64) - Half(w))
    \/ ~o.signed /\ o.imm < (IF extended THEN Half(w) ELSE Whole(w))

OperandValid(o) ==
    CASE o.kind = "reg" -> /\ o.width \in Scalar
                           /\ o.reg \in 0..15
                           /\ o.high8 => o.width = 8 /\ o.reg <= 3
      [] o.kind \in {"imm", "rel"} -> o.width # 0 => o.width \in Scalar /\ Fits(o, o.width, FALSE)
      [] o.kind = "mem" -> /\ o.width \in Scalar \cup {0, 80}
                           /\ o.base \in RIP..15
                           /\ o.index \in (NONE..15) \ {4}
                           /\ o.scale \in {1, 2, 4, 8}
                           /\ o.index = NONE => o.scale = 1
                           /\ o.base = RIP => o.index = NONE
                           /\ o.disp \in -Half(32)..(Half(32) - 1)
                           /\ o.segment \in {"none", "fs", "gs"}
      [] o.kind = "cr" -> o.width = 64 /\ o.reg \in {0, 2, 3, 4, 8}

-----------------------------------------------------------------------------

(* What the encoder returns; at and size tell where the displacement is.   *)
Refused == [bytes |-> <<>>, at |-> 0, size |-> 0]
Plain(bytes) == [bytes |-> bytes, at |-> 0, size |-> 0]
When(guard, x) == IF guard THEN x ELSE Refused

Little(v, n) ==
    LET rest[k \in 1..n] == IF k = 1 THEN v ELSE rest[k - 1] \div BYTE
    IN  [k \in 1..n |-> rest[k] % BYTE]

RegCode(r) == r.reg + (IF r.high8 THEN 4 ELSE 0)
NeedsRex(r) == r.width = 8 /\ ~r.high8 /\ r.reg >= 4

(* The register field of ModRM: a register, or digits of the opcode.       *)
Field(r) == [code |-> RegCode(r), ext |-> r.reg >= 8, low8 |-> NeedsRex(r), high8 |-> r.high8]
Digit(d) == [code |-> d, ext |-> FALSE, low8 |-> FALSE, high8 |-> FALSE]

Bit(b, v) == IF b THEN v ELSE 0
Rex(w, ext, index, base) == Bit(w = 64, 8) + Bit(ext, 4) + Bit(index, 2) + Bit(base, 1)

Prefix(w, rex, low8, segment) ==
       (IF segment = "none" THEN <<>> ELSE <<IF segment = "fs" THEN 100 ELSE 101>>)
    \o (IF w = 16 THEN <<102>> ELSE <<>>)
    \o (IF rex # 0 \/ low8 THEN <<64 + rex>> ELSE <<>>)

(* A base whose low bits are 5 has no form without a displacement.         *)
DispBytes_OnlyRbp(m) ==
    CASE m.base \in {RIP, NONE} -> 4
      [] m.base >= 0 /\ m.disp = 0 /\ m.base # 5 -> 0
      [] m.base >= 0 /\ (m.disp # 0 \/ m.base = 5) ->
            IF m.disp \in -Half(8)..(Half(8) - 1) THEN 1 ELSE 4
DispBytes(m) ==
    CASE m.base \in {RIP, NONE} -> 4
      [] m.base >= 0 /\ m.disp = 0 /\ m.base % 8 # 5 -> 0
      [] m.base >= 0 /\ (m.disp # 0 \/ m.base % 8 = 5) ->
            IF m.disp \in -Half(8)..(Half(8) - 1) THEN 1 ELSE 4

Mode(m) == IF m.base = NONE THEN 0 ELSE (DispBytes(m) + 1) \div 2

Log(scale) == CASE scale = 1 -> 0 [] scale = 2 -> 1 [] scale = 4 -> 2 [] scale = 8 -> 3

Address(code, m) ==
    IF m.base = RIP THEN <<8 * code + 5>>
    ELSE IF m.index # NONE \/ m.base = NONE \/ m.base % 8 = 4
         THEN <<64 * Mode(m) + 8 * code + 4,
                64 * Log(m.scale) + 8 * (IF m.index = NONE THEN 4 ELSE m.index % 8)
                                  + (IF m.base = NONE THEN 5 ELSE m.base % 8)>>
         ELSE <<64 * Mode(m) + 8 * code + (m.base % 8)>>

(* An instruction with a ModRM byte; tail is an immediate behind it.       *)
ModRM(opcode, w, field, rm, tail) ==
    LET isreg == rm.kind = "reg"
        rex == IF isreg THEN Rex(w, field.ext, FALSE, rm.reg >= 8)
                        ELSE Rex(w, field.ext, rm.index >= 8, rm.base >= 8)
        low8 == field.low8 \/ (isreg /\ NeedsRex(rm))
        high8 == field.high8 \/ (isreg /\ rm.high8)
        head == Prefix(w, rex, low8, IF isreg THEN "none" ELSE rm.segment) \o opcode
        code == field.code % 8
    IN  IF (rex # 0 \/ low8) /\ high8 THEN Refused
        ELSE IF isreg THEN Plain(head \o <<192 + 8 * code + (RegCode(rm) % 8)>> \o tail)
        ELSE LET long == head \o Address(code, rm)
                 size == DispBytes(rm)
             IN  [bytes |-> long \o Little(rm.disp, size) \o tail,
                  at |-> Bit(size # 0, Len(long)), size |-> size]

(* Most opcodes come in pairs, the even one for bytes.                     *)
Sized(base, w) == IF w = 8 THEN base ELSE base + 1
ImmBytes(w) == CASE w = 8 -> 1 [] w = 16 -> 2 [] OTHER -> 4

IsReg(o) == o.kind = "reg"
IsMem(o) == o.kind = "mem"
IsImm(o) == o.kind = "imm"
IsRM(o) == o.kind \in {"reg", "mem"}
IsAcc(o) == IsReg(o) /\ o.reg = 0 /\ ~o.high8

(* A form without ModRM byte on the accumulator or a register's low bits.  *)
Short(w, r, opcode, tail) ==
    LET rex == Rex(w, FALSE, FALSE, r.reg >= 8)
    IN  IF (rex # 0 \/ NeedsRex(r)) /\ r.high8 THEN Refused
        ELSE Plain(Prefix(w, rex, NeedsRex(r), "none") \o opcode \o tail)

-----------------------------------------------------------------------------

Move(op, d, s) ==
    LET w == d.width IN
    CASE op = "lea" -> When(IsReg(d) /\ IsMem(s) /\ w = 64, ModRM(<<141>>, 64, Field(d), s, <<>>))
      [] op = "load" /\ ~(IsReg(d) /\ IsMem(s)) -> Refused
      [] op = "store" /\ ~IsMem(d) -> Refused
      [] op # "lea" /\ op # "load" /\ IsMem(d) /\ IsReg(s) ->
            When(w \in Scalar /\ s.width = w, ModRM(<<Sized(136, w)>>, w, Field(s), d, <<>>))
      [] op # "lea" /\ op # "load" /\ IsMem(d) /\ IsImm(s) ->
            When(w \in Scalar /\ Fits(s, IF w = 64 THEN 32 ELSE w, w = 64),
                 ModRM(<<Sized(198, w)>>, w, Digit(0), d, Little(s.imm, ImmBytes(w))))
      [] op # "lea" /\ op # "store" /\ IsReg(d) /\ IsMem(s) ->
            When(s.width = w, ModRM(<<Sized(138, w)>>, w, Field(d), s, <<>>))
      [] op = "mov" /\ IsReg(d) /\ IsReg(s) ->
            When(s.width = w, ModRM(<<Sized(136, w)>>, w, Field(s), d, <<>>))
      [] op = "mov" /\ IsReg(d) /\ IsImm(s) ->
            When(Fits(s, w, FALSE),
                 Short(w, d, <<(IF w = 8 THEN 176 ELSE 184) + (RegCode(d) % 8)>>, Little(s.imm, w \div 8)))
      [] OTHER -> Refused

Group == "add" :> 0 @@ "or" :> 1 @@ "adc" :> 2 @@ "sbb" :> 3
         @@ "and" :> 4 @@ "sub" :> 5 @@ "xor" :> 6 @@ "cmp" :> 7

(* An immediate of w bits; the processor extends 32 bits to 64.            *)
ImmFits(s, w) == (w = 64 => Fits(s, 32, TRUE)) /\ (w < 64 => Fits(s, w, FALSE))

Arithmetic(op, d, s) ==
    LET w == d.width
        g == 8 * Group[op]
        compact == Fits(s, 8, TRUE)
    IN  CASE ~IsRM(d) \/ w \notin Scalar -> Refused
          [] IsRM(d) /\ w \in Scalar /\ IsReg(s) ->
                When(s.width = w, ModRM(<<Sized(g, w)>>, w, Field(s), d, <<>>))
          [] IsRM(d) /\ w \in Scalar /\ IsMem(s) ->
                When(IsReg(d) /\ s.width = w, ModRM(<<Sized(g + 2, w)>>, w, Field(d), s, <<>>))
          [] IsRM(d) /\ w \in Scalar /\ IsImm(s) ->
                When(ImmFits(s, w),
                     IF IsAcc(d) /\ (w = 8 \/ ~compact)
                     THEN Short(w, d, <<Sized(g + 4, w)>>, Little(s.imm, ImmBytes(w)))
                     ELSE ModRM(<<IF w = 8 THEN 128 ELSE IF compact THEN 131 ELSE 129>>, w,
                                Digit(Group[op]), d, Little(s.imm, IF compact THEN 1 ELSE ImmBytes(w))))
          [] OTHER -> Refused

Test(d, s) ==
    LET w == d.width IN
    CASE ~IsRM(d) -> Refused
      [] IsRM(d) /\ IsReg(s) -> When(s.width = w, ModRM(<<Sized(132, w)>>, w, Field(s), d, <<>>))
      [] IsRM(d) /\ IsImm(s) ->
            When(ImmFits(s, w),
                 IF IsAcc(d) THEN Short(w, d, <<Sized(168, w)>>, Little(s.imm, ImmBytes(w)))
                 ELSE ModRM(<<Sized(246, w)>>, w, Digit(0), d, Little(s.imm, ImmBytes(w))))
      [] OTHER -> Refused

(* One operand: opcode, digit of the register field.                       *)
Unary == "inc" :> <<254, 0>> @@ "dec" :> <<254, 1>> @@ "not" :> <<246, 2>> @@ "neg" :> <<246, 3>>
         @@ "mul" :> <<246, 4>> @@ "div" :> <<246, 6>> @@ "idiv" :> <<246, 7>>

One(op, d) ==
    When(IsRM(d), ModRM(<<Sized(Unary[op][1], d.width)>>, d.width, Digit(Unary[op][2]), d, <<>>))

Shifts == "rol" :> 0 @@ "ror" :> 1 @@ "shl" :> 4 @@ "shr" :> 5 @@ "sar" :> 7

Shift(op, d, s) ==
    LET w == d.width
        By(base, tail) == ModRM(<<Sized(base, w)>>, w, Digit(Shifts[op]), d, tail)
    IN  CASE IsRM(d) /\ IsReg(s) -> When(s.reg = 1 /\ s.width = 8 /\ ~s.high8, By(210, <<>>))
          [] IsRM(d) /\ IsImm(s) ->
                When(s.imm < BYTE, IF s.imm = 1 THEN By(208, <<>>) ELSE By(192, <<s.imm>>))
          [] OTHER -> Refused

(* Two operands of one width beyond bytes, the first a register.           *)
WideInto(d, s) == IsReg(d) /\ IsRM(s) /\ d.width # 8 /\ d.width = s.width

Imul(o) ==
    LET d == o[1] s == o[2] IN
    IF Len(o) = 2 THEN When(WideInto(d, s), ModRM(<<15, 175>>, d.width, Field(d), s, <<>>))
    ELSE LET compact == Fits(o[3], 8, TRUE) IN
         When(WideInto(d, s) /\ IsImm(o[3]) /\ Fits(o[3], 32, TRUE),
              ModRM(<<IF compact THEN 107 ELSE 105>>, d.width, Field(d), s,
                    Little(o[3].imm, IF compact THEN 1 ELSE 4)))

PushPop(op, d) ==
    CASE IsReg(d) -> When(d.width = 64 /\ ~d.high8,
                          Plain((IF d.reg >= 8 THEN <<65>> ELSE <<>>)
                                \o <<(IF op = "push" THEN 80 ELSE 88) + (d.reg % 8)>>))
      [] IsMem(d) -> When(d.width = 64, IF op = "push" THEN ModRM(<<255>>, 32, Digit(6), d, <<>>)
                                                       ELSE ModRM(<<143>>, 32, Digit(0), d, <<>>))
      [] IsImm(d) -> IF op # "push" THEN Refused
                     ELSE IF Fits(d, 8, TRUE) THEN Plain(<<106>> \o Little(d.imm, 1))
                     ELSE When(Fits(d, 32, TRUE), Plain(<<104>> \o Little(d.imm, 4)))
      [] OTHER -> Refused

Transfer(op, d) ==
    CASE d.kind = "rel" -> When(Fits(d, 32, TRUE), Plain(<<IF op = "call" THEN 232 ELSE 233>> \o Little(d.imm, 4)))
      [] IsRM(d) -> When(d.width = 64, ModRM(<<255>>, 32, Digit(IF op = "call" THEN 2 ELSE 4), d, <<>>))
      [] OTHER -> Refused

(* The conditions, as the processor numbers them from 0.                   *)
Conditions == <<"o", "no", "b", "ae", "e", "ne", "be", "a", "s", "ns", "p", "np", "l", "ge", "le", "g">>
Condition(cc) == (CHOOSE k \in 1..16 : Conditions[k] = cc) - 1

Branch(cc, d) ==
    When(d.kind = "rel" /\ Fits(d, 32, TRUE), Plain(<<15, 128 + Condition(cc)>> \o Little(d.imm, 4)))
SetByte(cc, d) ==
    When(IsRM(d) /\ d.width = 8, ModRM(<<15, 144 + Condition(cc)>>, 8, Digit(0), d, <<>>))
Conditional(cc, d, s) ==
    When(WideInto(d, s), ModRM(<<15, 64 + Condition(cc)>>, d.width, Field(d), s, <<>>))

Control(op, d, s) ==
    LET gpr == IF op = "read_cr" THEN d ELSE s
        control == IF op = "read_cr" THEN s ELSE d
        rex == Rex(0, control.reg = 8, FALSE, gpr.reg >= 8)
    IN  When(gpr.kind = "reg" /\ control.kind = "cr",
             Plain((IF rex # 0 THEN <<64 + rex>> ELSE <<>>)
                   \o <<15, IF op = "read_cr" THEN 32 ELSE 34,
                        192 + 8 * (control.reg % 8) + (gpr.reg % 8)>>))

Extend(op, d, s) ==
    IF op = "movsxd"
    THEN When(IsReg(d) /\ IsRM(s) /\ s.width = 32 /\ d.width = 64, ModRM(<<99>>, 64, Field(d), s, <<>>))
    ELSE When(IsReg(d) /\ IsRM(s) /\ s.width \in {8, 16} /\ d.width > s.width /\ d.width \in {16, 32, 64},
              ModRM(<<15, Sized(IF op = "movzx" THEN 182 ELSE 190, s.width)>>, d.width, Field(d), s, <<>>))

SwapBytes(d) ==
    When(IsReg(d) /\ d.width \in {32, 64}, Short(d.width, d, <<15, 200 + (d.reg % 8)>>, <<>>))

BitOps == "bt" :> 0 @@ "bts" :> 1 @@ "btr" :> 2 @@ "btc" :> 3

BitOf(op, d, s) ==
    CASE ~IsRM(d) \/ d.width = 8 -> Refused
      [] IsRM(d) /\ d.width # 8 /\ IsReg(s) ->
            When(s.width = d.width, ModRM(<<15, 163 + 8 * BitOps[op]>>, d.width, Field(s), d, <<>>))
      [] IsRM(d) /\ d.width # 8 /\ IsImm(s) ->
            When(s.imm < BYTE, ModRM(<<15, 186>>, d.width, Digit(4 + BitOps[op]), d, <<s.imm>>))
      [] OTHER -> Refused

Scan(op, d, s) ==
    When(WideInto(d, s), ModRM(<<15, IF op = "bsf" THEN 188 ELSE 189>>, d.width, Field(d), s, <<>>))

Exchange(d, s) ==
    When(IsReg(d) /\ IsRM(s) /\ d.width = s.width,
         IF IsReg(s) THEN ModRM(<<Sized(134, d.width)>>, d.width, Field(s), d, <<>>)
                     ELSE ModRM(<<Sized(134, d.width)>>, d.width, Field(d), s, <<>>))

Tables == "sgdt" :> 0 @@ "sidt" :> 1 @@ "lgdt" :> 2 @@ "lidt" :> 3
Table(op, d) == When(IsMem(d) /\ d.width = 80, ModRM(<<15, 1>>, 32, Digit(Tables[op]), d, <<>>))
TaskRegister(d) == When(IsRM(d) /\ d.width = 16, ModRM(<<15, 0>>, 32, Digit(3), d, <<>>))
Invalidate(d) == When(IsMem(d) /\ d.width = 0, ModRM(<<15, 1>>, 32, Digit(7), d, <<>>))

PortIO(op, d, s) ==
    LET acc == IF op = "in" THEN d ELSE s
        port == IF op = "in" THEN s ELSE d
        way == IF op = "in" THEN 0 ELSE 2
        head == IF acc.width = 16 THEN <<102>> ELSE <<>>
    IN  CASE ~IsAcc(acc) \/ acc.width \notin {8, 16, 32} -> Refused
          [] IsAcc(acc) /\ acc.width \in {8, 16, 32} /\ IsImm(port) ->
                When(port.imm < BYTE, Plain(head \o <<Sized(228 + way, acc.width), port.imm>>))
          [] OTHER -> When(IsReg(port) /\ port.reg = 2 /\ port.width = 16 /\ ~port.high8,
                           Plain(head \o <<Sized(236 + way, acc.width)>>))

-----------------------------------------------------------------------------

(* Instructions without operands: bytes, features needed, highest ring.    *)
Fixed ==
    "nop" :> [bytes |-> <<144>>, features |-> {"lm"}, cpl |-> 3]
    @@ "pause" :> [bytes |-> <<243, 144>>, features |-> {"lm"}, cpl |-> 3]
    @@ "ud2" :> [bytes |-> <<15, 11>>, features |-> {"lm"}, cpl |-> 3]
    @@ "cpuid" :> [bytes |-> <<15, 162>>, features |-> {"lm"}, cpl |-> 3]
    @@ "cbw" :> [bytes |-> <<102, 152>>, features |-> {"lm"}, cpl |-> 3]
    @@ "cwde" :> [bytes |-> <<152>>, features |-> {"lm"}, cpl |-> 3]
    @@ "cdqe" :> [bytes |-> <<72, 152>>, features |-> {"lm"}, cpl |-> 3]
    @@ "cwd" :> [bytes |-> <<102, 153>>, features |-> {"lm"}, cpl |-> 3]
    @@ "cdq" :> [bytes |-> <<153>>, features |-> {"lm"}, cpl |-> 3]
    @@ "cqo" :> [bytes |-> <<72, 153>>, features |-> {"lm"}, cpl |-> 3]
    @@ "pushfq" :> [bytes |-> <<156>>, features |-> {"lm"}, cpl |-> 3]
    @@ "popfq" :> [bytes |-> <<157>>, features |-> {"lm"}, cpl |-> 0]
    @@ "rdtsc" :> [bytes |-> <<15, 49>>, features |-> {"lm", "tsc"}, cpl |-> 0]
    @@ "lfence" :> [bytes |-> <<15, 174, 232>>, features |-> {"lm", "sse2"}, cpl |-> 3]
    @@ "sfence" :> [bytes |-> <<15, 174, 248>>, features |-> {"lm", "sse2"}, cpl |-> 3]
    @@ "mfence" :> [bytes |-> <<15, 174, 240>>, features |-> {"lm", "sse2"}, cpl |-> 3]
    @@ "cli" :> [bytes |-> <<250>>, features |-> {"lm"}, cpl |-> 0]
    @@ "sti" :> [bytes |-> <<251>>, features |-> {"lm"}, cpl |-> 0]
    @@ "hlt" :> [bytes |-> <<244>>, features |-> {"lm"}, cpl |-> 0]
    @@ "swapgs" :> [bytes |-> <<15, 1, 248>>, features |-> {"lm"}, cpl |-> 0]
    @@ "rdmsr" :> [bytes |-> <<15, 50>>, features |-> {"lm", "msr"}, cpl |-> 0]
    @@ "wrmsr" :> [bytes |-> <<15, 48>>, features |-> {"lm", "msr"}, cpl |-> 0]
    @@ "syscall" :> [bytes |-> <<15, 5>>, features |-> {"lm", "syscall"}, cpl |-> 3]
    @@ "sysretq" :> [bytes |-> <<72, 15, 7>>, features |-> {"lm", "syscall"}, cpl |-> 0]
    @@ "iretq" :> [bytes |-> <<72, 207>>, features |-> {"lm"}, cpl |-> 0]
    @@ "ret" :> [bytes |-> <<195>>, features |-> {"lm"}, cpl |-> 3]
    @@ "return" :> [bytes |-> <<195>>, features |-> {"lm"}, cpl |-> 3]

(* Ring 0 only, apart from those among the fixed.                          *)
RingZero == {"read_cr", "write_cr", "lgdt", "lidt", "ltr", "invlpg", "in", "out"}

Families ==
    [move |-> {"mov", "load", "store", "lea"}, extend |-> {"movzx", "movsx", "movsxd"},
     control |-> {"read_cr", "write_cr"}, io |-> {"in", "out"}, scan |-> {"bsf", "bsr"}]

(* The number of operands each mnemonic takes.                             *)
Counts(op) ==
    CASE op \in DOMAIN Fixed -> {0}
      [] op = "imul" -> {2, 3}
      [] op \in DOMAIN Unary \cup DOMAIN Tables \cup {"push", "pop", "call", "jmp", "j", "set", "bswap", "ltr", "invlpg"} -> {1}
      [] OTHER -> {2}

Variable(op, cc, o) ==
    CASE op \in Families.move -> Move(op, o[1], o[2])
      [] op \in DOMAIN Group -> Arithmetic(op, o[1], o[2])
      [] op = "test" -> Test(o[1], o[2])
      [] op \in DOMAIN Unary -> One(op, o[1])
      [] op \in DOMAIN Shifts -> Shift(op, o[1], o[2])
      [] op = "imul" -> Imul(o)
      [] op \in {"push", "pop"} -> PushPop(op, o[1])
      [] op \in {"call", "jmp"} -> Transfer(op, o[1])
      [] op = "j" -> Branch(cc, o[1])
      [] op = "set" -> SetByte(cc, o[1])
      [] op = "cmov" -> Conditional(cc, o[1], o[2])
      [] op \in Families.control -> Control(op, o[1], o[2])
      [] op \in Families.extend -> Extend(op, o[1], o[2])
      [] op = "bswap" -> SwapBytes(o[1])
      [] op \in DOMAIN BitOps -> BitOf(op, o[1], o[2])
      [] op \in Families.scan -> Scan(op, o[1], o[2])
      [] op = "xchg" -> Exchange(o[1], o[2])
      [] op \in DOMAIN Tables -> Table(op, o[1])
      [] op = "ltr" -> TaskRegister(o[1])
      [] op = "invlpg" -> Invalidate(o[1])
      [] op \in Families.io -> PortIO(op, o[1], o[2])

Encode(i) ==
    IF Len(i.o) \notin Counts(i.op) \/ i.ctx.cpl > 3 THEN Refused
    ELSE IF i.op \in DOMAIN Fixed
    THEN When(Fixed[i.op].features \subseteq i.ctx.features /\ i.ctx.cpl <= Fixed[i.op].cpl,
              Plain(Fixed[i.op].bytes))
    ELSE When(/\ "lm" \in i.ctx.features
              /\ i.op \in RingZero => i.ctx.cpl = 0
              /\ \A k \in DOMAIN i.o : OperandValid(i.o[k]),
              Variable(i.op, i.cc, i.o))
=============================================================================
