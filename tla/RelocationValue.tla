--------------------------- MODULE RelocationValue ---------------------------
(***************************************************************************)
(* nt_relocation_value (pe_layout.h) in words of limited width: unsigned   *)
(* numbers are below WORD, signed ones in -INT_MAX - 1 .. INT_MAX, and a   *)
(* signed operation that leaves that range is undefined in C.  The tests   *)
(* before each operation are what keeps it defined.                        *)
(***************************************************************************)
EXTENDS Relocation

CONSTANT RVA_LIMIT  \* bound on the addresses of an image (3 sections of 16 MiB)

INT_MAX == (WORD \div 2) - 1  \* INT64_MAX
INT_MIN == -INT_MAX - 1
SInt == INT_MIN .. INT_MAX
UInt == 0 .. WORD - 1

LimitAssumption ==
    /\ RVA_LIMIT \in Nat
    /\ RVA_LIMIT + W32 + REACH <= INT_MAX
    /\ IMAGE_BASE + RVA_LIMIT < WORD

VARIABLES
    kind, source, target, addend,  \* the arguments
    t,                             \* the variable of that name
    pc

vars == <<kind, source, target, addend, t, pc>>

Init ==
    /\ kind \in {"REL32", "DIR64"}
    /\ source \in UInt
    /\ target \in UInt
    /\ addend \in SInt
    /\ t = 0
    /\ pc = "start"

Args == <<kind, source, target, addend>>
Return(label) == pc' = label /\ UNCHANGED <<t, Args>>

(* The conversions to signed, and four more, must fit.                     *)
Convertible == source <= INT_MAX - W32 /\ target <= INT_MAX

TooFar == pc = "start" /\ ~ Convertible /\ Return("fails")

(* t += addend, unless it overflows.                                       *)
Add ==
    /\ pc = "start" /\ Convertible /\ kind = "REL32"
    /\ IF \/ addend > 0 /\ target > INT_MAX - addend
          \/ addend < 0 /\ target < INT_MIN - addend
       THEN Return("fails")
       ELSE t' = target + addend /\ pc' = "subtract" /\ UNCHANGED Args

(* Mutant: the test before the subtraction is dropped.                     *)
Subtract_Unchecked ==
    /\ pc = "subtract"
    /\ t' = t - (source + W32) /\ pc' = "range" /\ UNCHANGED Args

(* t -= p, unless it overflows.                                            *)
Subtract ==
    /\ pc = "subtract"
    /\ LET p == source + W32 IN
       IF t < INT_MIN + p
       THEN Return("fails")
       ELSE t' = t - p /\ pc' = "range" /\ UNCHANGED Args

(* INT32_MIN and INT32_MAX.                                                *)
Range32 ==
    pc = "range" /\ Return(IF t \in -REACH .. REACH - 1 THEN "value" ELSE "fails")

(* DIR64: unsigned, a negative addend by its magnitude.                    *)
Absolute ==
    /\ pc = "start" /\ Convertible /\ kind = "DIR64"
    /\ IF \/ target > WORD - 1 - IMAGE_BASE
          \/ addend < 0 /\ -(addend + 1) + 1 > IMAGE_BASE + target
          \/ addend >= 0 /\ addend > WORD - 1 - (IMAGE_BASE + target)
       THEN Return("fails")
       ELSE t' = IMAGE_BASE + target + addend /\ pc' = "value" /\ UNCHANGED Args

Next == TooFar \/ Add \/ Subtract \/ Range32 \/ Absolute
        \/ (pc \in {"fails", "value"} /\ UNCHANGED vars)

Spec == Init /\ [][Next]_vars

-----------------------------------------------------------------------------

(* No step leaves the type it computes in.  What is returned is the        *)
(* integer without bound, and it fits the field;                           *)
(* for the addresses of an image the tests for overflow refuse nothing     *)
(* else.  (Near INT_MAX they would: t + addend may overflow although       *)
(* t + addend - p does not.)                                               *)
Exact ==
    LET value == FieldValue(kind, source, target, addend) IN
    /\ t \in IF kind = "REL32" THEN SInt ELSE UInt
    /\ pc = "value" => t = value /\ FieldFits(kind, value)
    /\ pc = "fails" /\ source <= RVA_LIMIT /\ target <= RVA_LIMIT => ~ FieldFits(kind, value)
=============================================================================
