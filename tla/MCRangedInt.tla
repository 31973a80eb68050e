------------------------------ MODULE MCRangedInt ------------------------------
(* Values of the constants of RangedInt: two objects of one type, one each   *)
(* of a wider, an unchecked and an asserting type, in a release build.       *)
EXTENDS RangedInt

MCRanged(lo, hi, checking, error) ==
    [min |-> lo, max |-> hi, checking |-> checking, error |-> error]

MCRangedObjects == {"strict", "twin", "wide", "loose", "asserting"}

MCTypeOf ==
    [o \in MCRangedObjects |->
        CASE o = "wide" -> MCRanged(0, 2, "AlwaysCheck", "ThrowOutOfRange")
          [] o = "loose" -> MCRanged(1, 2, "CheckInDebug", "ThrowOutOfRange")
          [] o = "asserting" -> MCRanged(1, 3, "AlwaysCheck", "AssertOutOfRange")
          [] OTHER -> MCRanged(1, 2, "AlwaysCheck", "ThrowOutOfRange")]

=============================================================================
