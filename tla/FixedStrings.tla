------------------------------ MODULE FixedStrings ------------------------------
(***************************************************************************)
(* util::strcpy_safe: strings copied into an array of a fixed size, which  *)
(* is read back up to the first null character.  A string is a sequence of *)
(* characters without a null, the array a function on its indices.         *)
(***************************************************************************)
EXTENDS Naturals, Sequences, FiniteSetsExt

CONSTANTS
    StringChars,    \* the characters of strings
    NUL,            \* the null character
    N,              \* the size of the array
    MaxSourceLength \* bound: the length of a string that is copied

ASSUME StringAssumption == N \in Nat \ {0} /\ NUL \notin StringChars

VARIABLES
    dest,   \* the array that is copied to
    source  \* history: the string that was copied last

stringVars == <<dest, source>>

-----------------------------------------------------------------------------

\* strncpy fills up with nulls, but does not add one to a string that is too
\* long for it.
strncpy(s) == [i \in 0 .. N - 1 |-> IF i < Len(s) THEN s[i + 1] ELSE NUL]

\* Mutant of CopyBounded: it leaves it at that.
CopyBoundedOnly(s) == strncpy(s)

CopyBounded(s) == [strncpy(s) EXCEPT ![N - 1] = NUL]

\* strlcpy, and strncpy_s with _TRUNCATE, which leave the rest of dest alone.
CopyTruncated(s) ==
    LET length == Min({Len(s), N - 1})
    IN  [i \in 0 .. N - 1 |-> IF i < length THEN s[i + 1]
                              ELSE IF i = length THEN NUL ELSE dest[i]]

\* The function of the C library that a build uses; a program may read what a
\* part in another build has written.
strcpy_safe(s) == dest' \in {CopyBounded(s), CopyTruncated(s)} /\ source' = s

StringInit == dest = [i \in 0 .. N - 1 |-> NUL] /\ source = << >>

StringNext ==
    \E k \in 0 .. MaxSourceLength : \E s \in [1 .. k -> StringChars] : strcpy_safe(s)

StringSpec == StringInit /\ [][StringNext]_stringVars

-----------------------------------------------------------------------------
(* Properties.                                                             *)

\* The indices of the nulls, and the characters before the first of them.
Nulls(array) == {i \in DOMAIN array : array[i] = NUL}
CString(array) == [k \in 1 .. Min(Nulls(array)) |-> array[k - 1]]

\* "guaranteed to null-terminate and not overrun": with any of the three C
\* libraries, and whatever a longer string has left in dest, it reads back as
\* the string that was copied last, cut off to leave room for the null.
HoldsCopy == /\ Nulls(dest) # {}
             /\ CString(dest) = SubSeq(source, 1, Min({Len(source), N - 1}))

=============================================================================
