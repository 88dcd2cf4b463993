----------------------------- MODULE Relocation ------------------------------
(***************************************************************************)
(* What a relocated field holds (object.h, pe_layout.h), over the integers *)
(* without bound.  RelocationValue shows that the code's arithmetic on     *)
(* words of limited width computes exactly this.                           *)
(***************************************************************************)
EXTENDS NxoObject

CONSTANTS
    IMAGE_BASE,  \* 0x140000000
    REACH,       \* 2^31
    WORD         \* 2^64

RelocationAssumption ==
    {REACH, WORD} \subseteq Nat \ {0} /\ IMAGE_BASE \in 0 .. WORD - 1

(* "REL32 = S+A-(P+4); DIR64 = S+A", S and P as addresses of the image.    *)
FieldValue(kind, source, target, addend) ==
    IF kind = "REL32" THEN target + addend - (source + W32)
    ELSE IMAGE_BASE + target + addend

FieldFits(kind, value) ==
    value \in IF kind = "REL32" THEN -REACH .. REACH - 1 ELSE 0 .. WORD - 1
=============================================================================
