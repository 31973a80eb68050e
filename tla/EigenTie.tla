-------------------------------- MODULE EigenTie -------------------------------
(***************************************************************************)
(* util::TieVector: scalar variables tied together by reference, to be     *)
(* read as a vector and assigned from one, element by element.  A vector   *)
(* is a sequence, and so is a tie, of the variables it refers to.          *)
(***************************************************************************)
EXTENDS Naturals, Sequences, FiniteSets

CONSTANTS
    Ties,      \* the TieVector objects a program makes
    Variables, \* the variables they refer to
    Scalars,   \* the values of these
    MaxDim     \* bound: the dimension of a tie

ASSUME TieAssumption == MaxDim \in Nat \ {0} /\ Scalars # {}

VARIABLES
    memory,       \* the value of each variable
    tie,          \* _data of each object; << >> before it is made
    checksUnique  \* UTIL_EIGEN_TIE_UNIQUE_ASSIGN_DO_CHECK

tieVars == <<memory, tie, checksUnique>>

Vectors(S, n) == [1 .. n -> S]
Dim(t) == Len(tie[t])
Refers(t) == {tie[t][k] : k \in DOMAIN tie[t]}
\* Whether no variable is tied twice.
Unique(t) == Cardinality(Refers(t)) = Dim(t)

-----------------------------------------------------------------------------

\* The current value of a tie.
convert(t) == [k \in DOMAIN tie[t] |-> memory[tie[t][k]]]

\* The memory after the loop of _set, which reads other[k] from Other(m, k),
\* where m is the memory so far.
Written(t, Other(_, _)) ==
    LET m[k \in 0 .. Dim(t)] ==
            IF k = 0 THEN memory
            ELSE [m[k - 1] EXCEPT ![tie[t][k]] = Other(m[k - 1], k)]
    IN  m[Dim(t)]

\* With the check on, a tie that has a variable twice throws, or stops the
\* program, before anything is assigned.
MaySet(t) == checksUnique => Unique(t)

\* An Eigen value, and an expression that reads variables as it goes.
ByValue(v) == [lazy |-> FALSE, elements |-> v]
Reading(xs) == [lazy |-> TRUE, elements |-> xs]

Set(t, other) ==
    /\ MaySet(t)
    /\ LET Other(m, k) == IF other.lazy THEN m[other.elements[k]] ELSE other.elements[k]
       IN  memory' = Written(t, Other)
    /\ UNCHANGED <<tie, checksUnique>>

-----------------------------------------------------------------------------
(* Operations.                                                             *)

TieInit == /\ memory = [x \in Variables |-> CHOOSE s \in Scalars : TRUE]
           /\ tie = [t \in Ties |-> << >>]
           /\ checksUnique \in BOOLEAN

\* A variable is assigned by the program itself.
WriteVariable(x) == /\ \E s \in Scalars : memory' = [memory EXCEPT ![x] = s]
                    /\ UNCHANGED <<tie, checksUnique>>

\* TieVector(x0), and so on for each number of arguments.
MakeTie(t) == /\ Dim(t) = 0
              /\ \E n \in 1 .. MaxDim :
                    \E xs \in Vectors(Variables, n) : tie' = [tie EXCEPT ![t] = xs]
              /\ UNCHANGED <<memory, checksUnique>>

\* The chained syntax: u(x)
ChainTie(t, u) == /\ Dim(t) = 0 /\ Dim(u) \in 1 .. MaxDim - 1
                  /\ \E x \in Variables : tie' = [tie EXCEPT ![t] = Append(tie[u], x)]
                  /\ UNCHANGED <<memory, checksUnique>>

\* Mutant of AssignTie: the other tie is read while this one is written.
AssignTieElementwise(t, u) == /\ Dim(t) > 0 /\ Dim(t) = Dim(u) /\ t # u
                              /\ Set(t, Reading(tie[u]))

\* The other tie is converted to a vector first.  A tie assigned to itself
\* changes nothing.
AssignTie(t, u) == /\ Dim(t) > 0 /\ Dim(t) = Dim(u) /\ t # u
                   /\ Set(t, ByValue(convert(u)))

AssignVector(t, v) == /\ Dim(t) > 0 /\ Len(v) = Dim(t)
                      /\ Set(t, ByValue(v))

\* Such as an Eigen::Map of variables that are tied, too.
AssignExpression(t, xs) == /\ Dim(t) > 0 /\ Len(xs) = Dim(t)
                           /\ Set(t, Reading(xs))

TieNext == \/ \E x \in Variables : WriteVariable(x)
           \/ \E t \in Ties :
                 \/ MakeTie(t)
                 \/ \E u \in Ties : ChainTie(t, u) \/ AssignTie(t, u)
                 \/ \E v \in Vectors(Scalars, Dim(t)) : AssignVector(t, v)
                 \/ \E xs \in Vectors(Variables, Dim(t)) : AssignExpression(t, xs)

TieSpec == TieInit /\ [][TieNext]_tieVars

-----------------------------------------------------------------------------
(* Comparison, element by element.                                         *)

EqualsVector(t, v) == \A k \in DOMAIN tie[t] : memory[tie[t][k]] = v[k]
EqualsTie(t, u)    == \A k \in DOMAIN tie[t] : memory[tie[t][k]] = memory[tie[u][k]]

-----------------------------------------------------------------------------
(* Properties.                                                             *)

Untouched(t) == \A x \in Variables \ Refers(t) : memory'[x] = memory[x]

\* A tie assigned from another takes the values the other had, as if all were
\* assigned at once, although the two may tie the same variables in another
\* order (the tests' AliasingAcrossAssign), and nothing else changes; if they
\* share none they are equal afterwards.  A tie can be left different from a
\* vector assigned to it only by having a variable twice, and with the check
\* for that not even then.
SimultaneousAssignment ==
    [][\A t \in Ties :
          /\ \A u \in Ties :
                AssignTie(t, u) /\ Unique(t) =>
                   /\ convert(t)' = convert(u)
                   /\ Untouched(t)
                   /\ Refers(t) \cap Refers(u) = {} => EqualsTie(t, u)'
          /\ \A v \in Vectors(Scalars, Dim(t)) :
                AssignVector(t, v) /\ (Unique(t) \/ checksUnique) =>
                   EqualsVector(t, v)' /\ Untouched(t)]_tieVars

=============================================================================
