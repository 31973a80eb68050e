--------------------------------- MODULE Stride ---------------------------------
(***************************************************************************)
(* util::Stride, which is true every n-th time it is advanced, with        *)
(* counters of StrideWidth bits in place of those of unsigned int.         *)
(***************************************************************************)
EXTENDS Naturals

CONSTANTS
    StrideWidth, \* bits of unsigned int
    MaxUses,     \* bound: how often a Stride is advanced
    NoStride     \* in place of an object not constructed

ASSUME StrideAssumption ==
    /\ StrideWidth \in Nat \ {0} /\ MaxUses \in Nat
    /\ NoStride \notin [stride : Nat, step : Nat, form : {"prefix", "postfix"}]

VARIABLES
    stride, \* a Stride, with the form of operator++ the program uses
    uses,   \* history: how often the program has advanced it,
    fires   \* and how often the result was true

strideVars == <<stride, uses, fires>>

-----------------------------------------------------------------------------

StrideInit == stride = NoStride /\ uses = 0 /\ fires = 0

\* A stride of 0 divides by it, and a program makes none.
MakeStride(n, form) == /\ stride = NoStride
                       /\ stride' = [stride |-> n, step |-> 0, form |-> form]
                       /\ UNCHANGED <<uses, fires>>

\* Mutant of advanced: one step too many before the count starts again.
advancedLate(s) == [s EXCEPT !.step = (s.step + 1) % (s.stride + 1)]

advanced(s) == [s EXCEPT !.step = ((s.step + 1) % 2^StrideWidth) % s.stride]

IsTrue(s) == s.step = 0

\* operator++() returns the object as it was and operator++(int) as it is now,
\* the other way round than the two forms of ++ usually do.
AdvanceStride ==
    /\ stride # NoStride /\ uses < MaxUses
    /\ stride' = advanced(stride)
    /\ uses' = uses + 1
    /\ fires' = IF IsTrue(IF stride.form = "prefix" THEN stride ELSE advanced(stride))
                THEN fires + 1 ELSE fires

EndStride == /\ stride # NoStride
             /\ stride' = NoStride /\ uses' = 0 /\ fires' = 0

StrideNext ==
    \/ \E n \in 1 .. 2^StrideWidth - 1, form \in {"prefix", "postfix"} : MakeStride(n, form)
    \/ AdvanceStride
    \/ EndStride

StrideSpec == StrideInit /\ [][StrideNext]_strideVars

-----------------------------------------------------------------------------
(* Properties.                                                             *)

\* "do this every n times": however often the stride is advanced, one in n
\* results is true, the first of each n in a program that writes ++s and the
\* last in one that writes s++.
FiresEveryNth ==
    stride # NoStride =>
        fires = IF stride.form = "prefix"
                THEN (uses + stride.stride - 1) \div stride.stride
                ELSE uses \div stride.stride

=============================================================================
