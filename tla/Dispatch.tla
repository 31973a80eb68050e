-------------------------------- MODULE Dispatch --------------------------------
(***************************************************************************)
(* util::ValueToTemplate and util::FusionMapToTemplate: the values of a    *)
(* tuple, or of a map from types to values, are turned one by one into     *)
(* template arguments, and an operation is called with all of them.        *)
(***************************************************************************)
EXTENDS Integers, Sequences

CONSTANTS
    Signatures, \* sequences of parameter types; a tuple's or a map's
    Arguments,  \* the values a program passes
    Keys,       \* the keys of a map, by their position
    Error       \* in place of the template argument when an exception is thrown

\* A parameter type: bool, or an int with its range (RangedInt's own, or
\* that of DefaultValueToTemplatePolicy<int>).
BoolParameter == [kind |-> "bool"]
IntParameter(lo, hi) == [kind |-> "int", min |-> lo, max |-> hi]
DefaultInt == IntParameter(0, 10)

ParameterType == {BoolParameter} \cup [kind : {"int"}, min : Int, max : Int]

ASSUME DispatchAssumption == /\ Signatures \subseteq Seq(ParameterType)
                             /\ Arguments \subseteq Int
                             /\ Error \notin Int

VARIABLES
    signature, \* the types of the call in progress
    caller,    \* whether it is of ValueToTemplate or FusionMapToTemplate
    input,     \* its values; the recursion is behind the first Len(params)
    params,    \* the template arguments so far
    result     \* "idle", "running", "called" or "error"

dispatchVars == <<signature, caller, input, params, result>>

-----------------------------------------------------------------------------
(* The selection policies.                                                 *)

\* call_type_from_int_impl: the recursion compares one constant after the
\* other, and the last one takes every value that is not above it.
call_type_from_int_impl(val, min, max) ==
    LET from[iter \in min .. max] ==
            IF iter = max THEN (IF val > max THEN Error ELSE max)
            ELSE IF val = iter THEN iter ELSE from[iter + 1]
    IN  from[min]

\* Mutant of call_type_from_int_range: it leaves the check of the range to
\* the recursion.
call_type_from_int_range_unchecked(val, min, max) == call_type_from_int_impl(val, min, max)

call_type_from_int_range(val, min, max) ==
    IF val < min \/ val > max THEN Error ELSE call_type_from_int_impl(val, min, max)

\* The constant that is passed for a value of type t.
Selected(t, val) == IF t.kind = "bool" THEN (IF val # 0 THEN 1 ELSE 0)
                    ELSE call_type_from_int_range(val, t.min, t.max)

-----------------------------------------------------------------------------

DispatchInit == /\ signature = << >> /\ caller = "ValueToTemplate" /\ input = << >>
                /\ params = << >> /\ result = "idle"

\* ValueToTemplate has no instance for a tuple of nothing.
Start(sig, function, values) ==
    /\ result = "idle"
    /\ function = "ValueToTemplate" => sig # << >>
    /\ signature' = sig /\ caller' = function /\ input' = values
    /\ result' = "running"
    /\ UNCHANGED params

\* ConvertHead, or ConvertElement, which takes the key along: the next value
\* selects a template argument, or its exception ends the call.
Convert ==
    /\ result = "running" /\ Len(params) < Len(input)
    /\ LET i == Len(params) + 1
           c == Selected(signature[i], input[i])
       IN  IF c = Error
           THEN result' = "error" /\ UNCHANGED params
           ELSE /\ params' = Append(params, IF caller = "FusionMapToTemplate" THEN <<Keys[i], c>> ELSE c)
                /\ UNCHANGED result
    /\ UNCHANGED <<signature, caller, input>>

\* The base case: all of them are converted.
CallOp == /\ result = "running" /\ Len(params) = Len(input)
          /\ result' = "called"
          /\ UNCHANGED <<signature, caller, input, params>>

\* The program has what the call returned or threw, and may make another.
Return == /\ result \in {"called", "error"}
          /\ signature' = << >> /\ caller' = "ValueToTemplate" /\ input' = << >>
          /\ params' = << >> /\ result' = "idle"

DispatchNext ==
    \/ \E sig \in Signatures, function \in {"ValueToTemplate", "FusionMapToTemplate"} :
          \E values \in [DOMAIN sig -> Arguments] : Start(sig, function, values)
    \/ Convert
    \/ CallOp
    \/ Return

DispatchSpec == DispatchInit /\ [][DispatchNext]_dispatchVars

-----------------------------------------------------------------------------
(* Properties.                                                             *)

Accepts(t, val) == t.kind = "bool" \/ val \in t.min .. t.max

\* The operation is called with exactly the values that were passed, in their
\* places or under their keys, and it is called unless one of them is outside
\* the range of its type, wherever in the input that is: no value is taken for
\* the constant at the end of the range that the recursion runs into.
CalledWithInput ==
    /\ result = "called" =>
          \A i \in DOMAIN input :
             LET c == IF caller = "FusionMapToTemplate" THEN params[i][2] ELSE params[i]
             IN  /\ caller = "FusionMapToTemplate" => params[i][1] = Keys[i]
                 /\ IF signature[i].kind = "bool" THEN c # 0 <=> input[i] # 0
                                                  ELSE c = input[i]
    /\ result \in {"called", "error"} =>
          (result = "called" <=> \A i \in DOMAIN input : Accepts(signature[i], input[i]))

=============================================================================
