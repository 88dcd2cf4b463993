----------------------------- MODULE X64Decode -----------------------------
(***************************************************************************)
(* The processor's reading of what X64 makes: bytes become the instruction *)
(* they mean, with the number of bytes taken and the place of the          *)
(* displacement.  The processor is outside the repository; this is its     *)
(* manual's opcode map, as far as the encoder goes.                        *)
(***************************************************************************)
EXTENDS X64, FiniteSets

Number(b, k, n) ==
    LET upto[j \in 0..n] == IF j = 0 THEN 0 ELSE upto[j - 1] + b[k + j - 1] * BYTE^(j - 1) IN upto[n]
Extended(v, n) == IF n > 0 /\ v >= BYTE^n \div 2 THEN v - BYTE^n ELSE v

(* A number as a word of w bits holds it.                                  *)
Num(v, w) == [kind |-> "num", v |-> v % Whole(w)]

Groups == <<"add", "or", "adc", "sbb", "and", "sub", "xor", "cmp">>
Rotations == <<"rol", "ror", "rcl", "rcr", "shl", "shr", "sal", "sar">>
Entry(op, args) == [op |-> op, cc |-> "", args |-> args]
OnCondition(op, k, args) == [op |-> op, cc |-> Conditions[k + 1], args |-> args]
Undefined == Entry("undefined", <<>>)

(* The opcode map: E is the operand in the low part of ModRM, G its        *)
(* register, M memory, A the accumulator, R a register in the opcode, Z an *)
(* immediate of at most 32 bits, V a whole one, B a byte extended, U one   *)
(* that is not, J a jump; a digit is a width that is not the operand's.    *)
OneByte(c, digit, w, repeat) ==
    LET d == digit + 1
        b == IF c % 2 = 0 THEN "8" ELSE ""
    IN  CASE c \in 0..63 /\ c % 8 <= 3 -> Entry(Groups[(c \div 8) + 1],
                IF c % 8 < 2 THEN <<"E" \o b, "G" \o b>> ELSE <<"G" \o b, "E" \o b>>)
          [] c \in 0..63 /\ c % 8 \in {4, 5} -> Entry(Groups[(c \div 8) + 1], <<"A" \o b, IF b = "" THEN "Z" ELSE "B8">>)
          [] c \in 80..87 -> Entry("push", <<"R64">>)
          [] c \in 88..95 -> Entry("pop", <<"R64">>)
          [] c = 99 -> Entry("movsxd", <<"G", "E32">>)
          [] c = 104 -> Entry("push", <<"Z64">>)
          [] c = 105 -> Entry("imul", <<"G", "E", "Z">>)
          [] c = 106 -> Entry("push", <<"B64">>)
          [] c = 107 -> Entry("imul", <<"G", "E", "B">>)
          [] c = 128 -> Entry(Groups[d], <<"E8", "B8">>)
          [] c = 129 -> Entry(Groups[d], <<"E", "Z">>)
          [] c = 131 -> Entry(Groups[d], <<"E", "B">>)
          [] c \in {132, 133} -> Entry("test", <<"E" \o b, "G" \o b>>)
          [] c \in {134, 135} -> Entry("xchg", <<"E" \o b, "G" \o b>>)
          [] c \in {136, 137} -> Entry("mov", <<"E" \o b, "G" \o b>>)
          [] c \in {138, 139} -> Entry("mov", <<"G" \o b, "E" \o b>>)
          [] c = 141 -> Entry("lea", <<"G", "M">>)
          [] c = 143 /\ digit = 0 -> Entry("pop", <<"E64">>)
          [] c = 144 -> Entry(IF repeat THEN "pause" ELSE "nop", <<>>)
          [] c = 152 -> Entry(CASE w = 16 -> "cbw" [] w = 32 -> "cwde" [] w = 64 -> "cdqe", <<>>)
          [] c = 153 -> Entry(CASE w = 16 -> "cwd" [] w = 32 -> "cdq" [] w = 64 -> "cqo", <<>>)
          [] c = 156 -> Entry("pushfq", <<>>)
          [] c = 157 -> Entry("popfq", <<>>)
          [] c \in {168, 169} -> Entry("test", <<"A" \o b, IF b = "" THEN "Z" ELSE "B8">>)
          [] c \in 176..183 -> Entry("mov", <<"R8", "B8">>)
          [] c \in 184..191 -> Entry("mov", <<"R", "V">>)
          [] c \in {192, 193} -> Entry(Rotations[d], <<"E" \o b, "U">>)
          [] c = 195 -> Entry("ret", <<>>)
          [] c \in {198, 199} /\ digit = 0 -> Entry("mov", <<"E" \o b, IF b = "" THEN "Z" ELSE "B8">>)
          [] c = 207 -> Entry(IF w = 64 THEN "iretq" ELSE "iret", <<>>)
          [] c \in {208, 209} -> Entry(Rotations[d], <<"E" \o b, "1">>)
          [] c \in {210, 211} -> Entry(Rotations[d], <<"E" \o b, "CL">>)
          [] c \in {228, 229} -> Entry("in", <<"A" \o b, "U">>)
          [] c \in {230, 231} -> Entry("out", <<"U", "A" \o b>>)
          [] c = 232 -> Entry("call", <<"J">>)
          [] c = 233 -> Entry("jmp", <<"J">>)
          [] c \in {236, 237} -> Entry("in", <<"A" \o b, "DX">>)
          [] c \in {238, 239} -> Entry("out", <<"DX", "A" \o b>>)
          [] c = 244 -> Entry("hlt", <<>>)
          [] c \in {246, 247} /\ digit = 0 -> Entry("test", <<"E" \o b, IF b = "" THEN "Z" ELSE "B8">>)
          [] c \in {246, 247} /\ digit > 1 -> Entry(<<"", "", "not", "neg", "mul", "imul", "div", "idiv">>[d], <<"E" \o b>>)
          [] c = 250 -> Entry("cli", <<>>)
          [] c = 251 -> Entry("sti", <<>>)
          [] c \in {254, 255} /\ digit < 2 -> Entry(<<"inc", "dec">>[d], <<"E" \o b>>)
          [] c = 255 /\ digit \in {2, 4, 6} -> Entry(<<"", "", "call", "", "jmp", "", "push">>[d], <<"E64">>)
          [] OTHER -> Undefined

TwoByte(c, modrm, w) ==
    LET digit == (modrm \div 8) % 8
        d == digit + 1
        b == IF c % 2 = 0 THEN "8" ELSE ""
    IN  CASE c = 0 /\ digit = 3 -> Entry("ltr", <<"E16">>)
          [] c = 1 /\ modrm = 248 -> Entry("swapgs", <<"skip">>)
          [] c = 1 /\ modrm < 192 /\ digit < 4 -> Entry(<<"sgdt", "sidt", "lgdt", "lidt">>[d], <<"M80">>)
          [] c = 1 /\ modrm < 192 /\ digit = 7 -> Entry("invlpg", <<"M0">>)
          [] c = 5 -> Entry("syscall", <<>>)
          [] c = 7 -> Entry(IF w = 64 THEN "sysretq" ELSE "sysret", <<>>)
          [] c = 11 -> Entry("ud2", <<>>)
          [] c = 32 -> Entry("read_cr", <<"E64", "C">>)
          [] c = 34 -> Entry("write_cr", <<"C", "E64">>)
          [] c = 48 -> Entry("wrmsr", <<>>)
          [] c = 49 -> Entry("rdtsc", <<>>)
          [] c = 50 -> Entry("rdmsr", <<>>)
          [] c \in 64..79 -> OnCondition("cmov", c - 64, <<"G", "E">>)
          [] c \in 128..143 -> OnCondition("j", c - 128, <<"J">>)
          [] c \in 144..159 -> OnCondition("set", c - 144, <<"E8">>)
          [] c = 162 -> Entry("cpuid", <<>>)
          [] c \in {163, 171, 179, 187} -> Entry(<<"bt", "bts", "btr", "btc">>[(c - 155) \div 8], <<"E", "G">>)
          [] c = 174 /\ modrm \in {232, 240, 248} ->
                Entry(CASE modrm = 232 -> "lfence" [] modrm = 240 -> "mfence" [] modrm = 248 -> "sfence", <<"skip">>)
          [] c = 175 -> Entry("imul", <<"G", "E">>)
          [] c \in {182, 183} -> Entry("movzx", <<"G", IF b = "8" THEN "E8" ELSE "E16">>)
          [] c = 186 /\ digit >= 4 -> Entry(<<"bt", "bts", "btr", "btc">>[digit - 3], <<"E", "U">>)
          [] c = 188 -> Entry("bsf", <<"G", "E">>)
          [] c = 189 -> Entry("bsr", <<"G", "E">>)
          [] c \in {190, 191} -> Entry("movsx", <<"G", IF b = "8" THEN "E8" ELSE "E16">>)
          [] c \in 200..207 -> Entry("bswap", <<"R">>)
          [] OTHER -> Undefined

(* An 8-bit register is one of ah to bh unless there is a REX prefix.      *)
Register(code, w, rexed) ==
    IF w = 8 /\ ~rexed /\ code \in 4..7 THEN Reg(code - 4, 8, TRUE) ELSE Reg(code, w, FALSE)

(* The operand in ModRM at position k: what it is, bytes, displacement.    *)
Operand(b, k, rex, rexed, segment, w) ==
    LET mod == b[k] \div 64
        low == b[k] % 8
        baseBit == 8 * (rex % 2)
        sib == mod # 3 /\ low = 4
        s == IF sib THEN b[k + 1] ELSE 0
        index == ((s \div 8) % 8) + 8 * ((rex \div 2) % 2)
        base == CASE sib -> IF s % 8 = 5 /\ mod = 0 THEN NONE ELSE (s % 8) + baseBit
                  [] ~sib -> IF low = 5 /\ mod = 0 THEN RIP ELSE low + baseBit
        size == CASE mod = 0 -> IF base < 0 THEN 4 ELSE 0 [] mod = 1 -> 1 [] mod = 2 -> 4 [] mod = 3 -> 0
        at == k + 1 + Bit(sib, 1)
    IN  IF mod = 3 THEN [o |-> Register(low + baseBit, w, rexed), next |-> k + 1, at |-> 0, size |-> 0]
        ELSE [o |-> Mem(base, IF sib /\ index # 4 THEN index ELSE NONE, IF sib THEN 2^(s \div 64) ELSE 1,
                        Extended(Number(b, at, size), size), segment, w),
              next |-> at + size, at |-> Bit(size # 0, at - 1), size |-> size]

WidthOf(arg, w) ==
    CASE arg \in {"E8", "G8", "A8", "R8", "B8"} -> 8
      [] arg = "E16" -> 16
      [] arg = "E32" -> 32
      [] arg \in {"E64", "R64", "Z64", "B64", "M"} -> 64
      [] arg = "M80" -> 80
      [] arg = "M0" -> 0
      [] OTHER -> w

InModRM == {"E", "E8", "E16", "E32", "E64", "G", "G8", "M", "M80", "M0", "C", "skip"}

(* The immediate of an instruction of width w: bytes, value.               *)
ImmSize(arg, w) ==
    CASE arg \in {"Z", "Z64", "J"} -> IF arg # "J" /\ w = 16 THEN 2 ELSE 4
      [] arg = "V" -> w \div 8
      [] arg \in {"B", "B8", "B64", "U"} -> 1
      [] OTHER -> 0

Decode(b) ==
    LET legacy == {100, 101, 102, 243}
        p == CHOOSE n \in 0..3 : b[n + 1] \notin legacy /\ \A k \in 1..n : b[k] \in legacy
        before == {b[k] : k \in 1..p}
        rexed == b[p + 1] \in 64..79
        rex == IF rexed THEN b[p + 1] - 64 ELSE 0
        first == p + 1 + Bit(rexed, 1)
        long == b[first] = 15
        k == first + 1 + Bit(long, 1)
        opcode == b[k - 1]
        modrm == b[k]
        segment == CASE 100 \in before -> "fs" [] 101 \in before -> "gs" [] OTHER -> "none"
        w == IF rex >= 8 THEN 64 ELSE IF 102 \in before THEN 16 ELSE 32
        e == IF long THEN TwoByte(opcode, modrm, w) ELSE OneByte(opcode, (modrm \div 8) % 8, w, 243 \in before)
        args == {e.args[n] : n \in DOMAIN e.args}
        has == args \cap InModRM # {}
        rmw == CHOOSE v \in {WidthOf(a, w) : a \in args \cap {"E", "E8", "E16", "E32", "E64", "M", "M80", "M0"}} : TRUE
        rm == IF "skip" \in args \/ args \cap {"E", "E8", "E16", "E32", "E64", "M", "M80", "M0"} = {}
              THEN [next |-> k + Bit(has, 1), at |-> 0, size |-> 0]
              ELSE Operand(b, k, rex, rexed, segment, rmw)
        size == LET s == {ImmSize(a, w) : a \in args} IN IF s \subseteq {0} THEN 0 ELSE CHOOSE n \in s : n # 0
        field == ((modrm \div 8) % 8) + 8 * ((rex \div 4) % 2)
        value(a) ==
            CASE a \in {"E", "E8", "E16", "E32", "E64", "M", "M80", "M0"} -> rm.o
              [] a \in {"G", "G8"} -> Register(field, WidthOf(a, w), rexed)
              [] a \in {"R", "R8", "R64"} -> Register((opcode % 8) + 8 * (rex % 2), WidthOf(a, w), rexed)
              [] a \in {"A", "A8"} -> Reg(0, WidthOf(a, w), FALSE)
              [] a = "C" -> Cr(field)
              [] a = "CL" -> Reg(1, 8, FALSE)
              [] a = "DX" -> Reg(2, 16, FALSE)
              [] a = "1" -> Num(1, 8)
              [] a = "U" -> Num(Number(b, rm.next, 1), 8)
              [] a \in {"Z", "Z64", "V", "B", "B8", "B64"} ->
                    Num(Extended(Number(b, rm.next, size), size), WidthOf(a, w))
              [] a = "J" -> Rel(Extended(Number(b, rm.next, 4), 4) % Whole(64))
    IN  [op |-> e.op, cc |-> e.cc,
         o |-> IF "skip" \in args THEN <<>> ELSE [n \in DOMAIN e.args |-> value(e.args[n])],
         taken |-> rm.next + size - 1, at |-> rm.at, size |-> rm.size]

-----------------------------------------------------------------------------

(* What an instruction of the source says, in the words of Decode.         *)
Same == "load" :> "mov" @@ "store" :> "mov" @@ "return" :> "ret"

Literal(i, n) ==
    LET o == i.o[n]
        w == CASE i.op = "push" -> 64
               [] i.op \in DOMAIN Shifts \cup DOMAIN BitOps \cup {"in", "out"} -> 8
               [] OTHER -> i.o[1].width
    IN  CASE IsImm(o) -> Num(o.imm, w)
          [] o.kind = "rel" -> Rel(o.imm)
          [] IsMem(o) -> IF i.op = "lea" THEN [o EXCEPT !.width = 64] ELSE o
          [] OTHER -> o

Intended(i) ==
    LET o == [n \in DOMAIN i.o |-> Literal(i, n)]
    IN  [op |-> IF i.op \in DOMAIN Same THEN Same[i.op] ELSE i.op, cc |-> i.cc,
         o |-> IF i.op = "xchg" /\ IsMem(i.o[2]) THEN <<o[2], o[1]>> ELSE o]

(* The bytes, whatever follows them, are one instruction, the intended     *)
(* one, and its displacement is where the encoder says.                    *)
Behind == [k \in 1..16 |-> 0]
Means(x, i) ==
    Decode(x.bytes \o Behind) =
        [op |-> Intended(i).op, cc |-> Intended(i).cc, o |-> Intended(i).o,
         taken |-> Len(x.bytes), at |-> x.at, size |-> x.size]
=============================================================================
