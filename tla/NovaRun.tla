------------------------------ MODULE NovaRun -------------------------------
(***************************************************************************)
(* Runs of lowered functions, one instruction a step, under a host that    *)
(* may hand over a wrong context or wrong arguments and a runtime that may *)
(* refuse any of its calls or lack functions.  A hidden local that was not *)
(* written holds what the stack held.  At the end the result, the error    *)
(* with its place, the calls of the runtime and the stores are those of    *)
(* the meaning.                                                            *)
(***************************************************************************)
EXTENDS NovaLower

CONSTANTS
    Programs,    \* [functions, given]: the functions by name and the arguments main is called with
    Buffers,     \* the buffers there are before
    MAX_FAIL,    \* the last runtime call that may be refused
    JUNK         \* what the stack held

RunAssumption == MAX_FAIL \in Nat /\ JUNK \in 0 .. MAX_WORD

VARIABLES
    program, code,             \* what runs and its lowered functions
    context, args,             \* how it is called
    frames,                    \* [fn, pc, env] of the active functions, the last one runs
    world,                     \* see World
    status, result             \* "running", "done", or "wild" after an access outside every buffer

vars == <<program, code, context, args, frames, world, status, result>>

Program == program.functions
Main == Program["main"]

Lowered(functions) ==
    [f \in DOMAIN functions |-> LowerBlock(functions[f].body, <<f>>, <<>>)]
    @@ ("entry" :> PublicEntryV2(functions["main"]))

Frame(fn, env) == [fn |-> fn, pc |-> 1, env |-> env]

Init ==
    /\ LET programs == Programs IN \E i \in DOMAIN programs : program = programs[i]
    /\ code = Lowered(Program)
    /\ context \in {"none", "short", "other", "failed", "fit"}
    /\ args \in program.given
    /\ \E table \in BOOLEAN, fails \in 0 .. MAX_FAIL :
          /\ context # "fit" \/ ~ table => fails = 0
          /\ world = [World(Buffers, table, fails) EXCEPT !.error = IF context = "failed" THEN LIFETIME ELSE 0]
    /\ frames = <<Frame("entry", [a \in {<<Entry, i, "argument">> : i \in DOMAIN args} |-> args[a[2]]])>>
    /\ status = "running" /\ result = 0

-----------------------------------------------------------------------------

Active == frames[Len(frames)]
Code == code[Active.fn]
Ins == Code[Active.pc]
Running(ops) == status = "running" /\ Ins.op \in ops

Read(env, x) == IF x \in DOMAIN env THEN env[x] ELSE JUNK
RECURSIVE Pure(_, _)
Pure(x, env) ==
    CASE x.k = "num" -> x.v
      [] x.k = "name" -> Read(env, x.x)
      [] x.k = "bin" -> Operate(x.op, x.t, Pure(x.l, env), Pure(x.r, env))
Value(x) == Pure(x, Active.env)
Values(xs) == [i \in DOMAIN xs |-> Value(xs[i])]

Goto(pc) == frames' = [frames EXCEPT ![Len(frames)].pc = pc]
Next1 == Goto(Active.pc + 1)
Put(t, v) == frames' = [frames EXCEPT ![Len(frames)].pc = @ + 1, ![Len(frames)].env = (t :> v) @@ @]
Target1(n) == CHOOSE i \in DOMAIN Code : Code[i].op = "label" /\ Code[i].n = n
Rest == UNCHANGED <<program, code, context, args>>
Going == UNCHANGED <<status, result>> /\ Rest

(* The call that waits in the caller takes the value.                      *)
Leave(v) ==
    /\ Rest
    /\ IF Len(frames) = 1 THEN status' = "done" /\ result' = v /\ UNCHANGED frames
       ELSE LET caller == frames[Len(frames) - 1]
                t == code[caller.fn][caller.pc].t
            IN  /\ frames' = Append(SubSeq(frames, 1, Len(frames) - 2),
                                    [caller EXCEPT !.pc = @ + 1, !.env = (t :> v) @@ @])
                /\ UNCHANGED <<status, result>>

SetStep == Running({"set"}) /\ Put(Ins.t, Value(Ins.x)) /\ UNCHANGED world /\ Going

Fails(failed, error) ==
    \/ failed /\ world' = Stop(world, error, Ins.at) /\ Leave(0)
    \/ ~ failed /\ Next1 /\ UNCHANGED world /\ Going

GuardStep == Running({"guard"}) /\ Fails(Value(Ins.c) # 0, Ins.code)
TableStep == Running({"table"}) /\ Fails(~ world.table, RUNTIME)
VersionStep == Running({"version"}) /\ Fails(context = "other", RUNTIME)
CountStep == Running({"count"}) /\ Fails(Len(args) # Ins.n, ARGUMENT)

PropagateStep ==
    /\ Running({"propagate"})
    /\ world' = Placed(world, Ins.at)
    /\ IF world.error # 0 THEN Leave(0) ELSE Next1 /\ Going

ContextStep ==
    /\ Running({"context"}) /\ UNCHANGED world
    /\ IF context \in {"none", "short"} THEN Leave(0) ELSE Next1 /\ Going

RuntimeStep ==
    /\ Running({"runtime"})
    /\ LET a == RuntimeCall(world, Ins.fn, Values(Ins.args))
       IN  world' = a.w /\ Put(Ins.t, a.v)
    /\ Going

(* Of buffer memory, through a pointer the runtime gave for it.            *)
Sound(pointer, write) ==
    /\ Alive(world, BufferAt(pointer))
    /\ OffsetAt(pointer) < world.bufs[BufferAt(pointer)].size
    /\ write => ForWriting(pointer) /\ ~ world.bufs[BufferAt(pointer)].readonly

Access(write) ==
    LET pointer == Value(Ins.pointer) IN
    IF ~ Sound(pointer, write) THEN status' = "wild" /\ UNCHANGED <<frames, world, result>> /\ Rest
    ELSE /\ IF write THEN world' = Stored(world, pointer, Value(Ins.x)) /\ Next1
                     ELSE Put(Ins.t, Loaded(world, pointer)) /\ UNCHANGED world
         /\ Going

LoadStep == Running({"load"}) /\ Access(FALSE)
StoreStep == Running({"store"}) /\ Access(TRUE)

CallStep ==
    /\ Running({"call"}) /\ UNCHANGED world /\ Going
    /\ LET f == Program[Ins.fn]
           given == Values(Ins.args)
       IN  frames' = Append(frames, Frame(Ins.fn,
               [x \in Range(f.params) |-> given[CHOOSE i \in DOMAIN f.params : f.params[i] = x]]))

ReturnStep == Running({"return"}) /\ UNCHANGED world /\ Leave(Value(Ins.x))

JumpStep ==
    /\ Running({"jump", "unless", "label"}) /\ UNCHANGED world /\ Going
    /\ IF Ins.op = "jump" \/ (Ins.op = "unless" /\ Value(Ins.c) = 0) THEN Goto(Target1(Ins.n)) ELSE Next1

Finished == status # "running" /\ UNCHANGED vars

Next ==
    \/ SetStep \/ GuardStep \/ TableStep \/ VersionStep \/ CountStep \/ PropagateStep \/ ContextStep
    \/ RuntimeStep \/ LoadStep \/ StoreStep \/ CallStep \/ ReturnStep \/ JumpStep
    \/ Finished

Spec == Init /\ [][Next]_vars

-----------------------------------------------------------------------------
(* The meaning of a call of the entry.                                     *)

RECURSIVE Fit(_, _, _)
Fit(types, i, w) ==
    IF i > Len(types) \/ w.error # 0 THEN w
    ELSE LET a == types[i]
             n == Ask(w, "length", <<args[i]>>, Entry)
             wrong == \/ a.k = "buffer" /\ (n.v % a.w # 0 \/ n.v \div a.w # args[i + 1])
                      \/ a.k = "narrow" /\ args[i] > a.max
             after == IF a.k = "buffer" THEN n.w ELSE w
         IN  Fit(types, i + 1, IF after.error = 0 /\ wrong THEN Stop(after, ARGUMENT, Entry) ELSE after)

Meaning ==
    LET w0 == [World(Buffers, world.table, world.fails) EXCEPT !.error = IF context = "failed" THEN LIFETIME ELSE 0]
        w == CASE context = "other" -> Stop(w0, RUNTIME, Entry)
               [] context = "failed" -> Placed(w0, Entry)
               [] OTHER -> IF Len(args) # Len(Main.types) THEN Stop(w0, ARGUMENT, Entry) ELSE Fit(Main.types, 1, w0)
        env == [x \in Range(Main.params) |-> args[CHOOSE i \in DOMAIN Main.params : Main.params[i] = x]]
        b == Run(Program, Main.body, 1, <<"main">>, env, w)
    IN  IF context \in {"none", "short"} THEN [v |-> 0, w |-> w0]
        ELSE IF w.error # 0 THEN [v |-> 0, w |-> w]
        ELSE [v |-> IF b.w.error = 0 THEN b.v ELSE 0, w |-> Placed(b.w, Entry)]

(* A call of the entry ends with the result, the error and its place, the  *)
(* runtime calls and the stores of the meaning: operands in order, nothing *)
(* after the first error, whatever the runtime refuses.                    *)
EndsAsMeant == [][status = "running" /\ status' = "done" => [v |-> result', w |-> world'] = Meaning]_vars

(* No load and no store leaves the buffers that are alive at that moment,  *)
(* though the value assigned may free the buffer it is assigned into.      *)
StaysInBuffers == status # "wild"
=============================================================================
