----------------------------- MODULE CubeComponents -----------------------------
(***************************************************************************)
(* util::Cube: vertices, faces and face vertices of the cube around the    *)
(* origin, named by numbers and by bits, and a program that walks along    *)
(* them.  A bitset is a function from the places of its bits to 0 and 1.   *)
(***************************************************************************)
EXTENDS Integers, FiniteSetsExt

CONSTANTS
    IDs,    \* the numbers a program passes as an id
    Nowhere \* in place of a face vertex, before there is one

ASSUME CubeAssumption == IDs \subseteq Nat

VARIABLES
    corner, \* a Vertex, as its bitset
    spot    \* a FaceVertex

cubeVars == <<corner, spot>>

Places(n) == 0 .. n - 1
Bitset(id, n) == [b \in Places(n) |-> (id \div 2^b) % 2]
to_ulong(bits) == FoldSet(LAMBDA b, sum : sum + bits[b] * 2^b, 0, DOMAIN bits)
flip(bits, b) == [bits EXCEPT ![b] = 1 - @]

-----------------------------------------------------------------------------
(* Vertex                                                                  *)

VertexCount == 8

get(v) == [b \in Places(3) |-> v[b] * 2 - 1]
getNeighbor(v, m) == flip(v, m)

-----------------------------------------------------------------------------
(* Face: a bit that is fixed, and its value.                               *)

FaceCount == 6

Face(fixedBit, bitval) == [fixedBit |-> fixedBit, bitval |-> bitval]
FaceNumber(j) == Face(j % 3, j \div 3)
getID(f) == f.bitval * 3 + f.fixedBit

\* The centre of a face, and its outward normal.
getCenter(f) == [b \in Places(3) |-> IF b = f.fixedBit THEN f.bitval * 2 - 1 ELSE 0]

-----------------------------------------------------------------------------
(* FaceVertex: a face, and the number of one of its vertices.              *)

FaceVertexCount == 4

FaceVertex(f, k) == [face |-> f, vertexID |-> k]

\* The neighbour is numbered by flipping one of the two bits.
getFaceNeighbor(fv, n) == FaceVertex(fv.face, to_ulong(flip(Bitset(fv.vertexID, 2), n)))

\* Mutant of bitsetInsert: every value goes where it would for location 2.
bitsetInsertLast(input, val, location) ==
    [b \in Places(3) |-> IF b = 2 THEN val ELSE input[b]]

\* The three bits made of two by putting val at the location.
bitsetInsert(input, val, location) ==
    [b \in Places(3) |-> CASE b < location -> input[b]
                           [] b = location -> val
                           [] b > location -> input[b - 1]]

getCubeVertex(fv) ==
    bitsetInsert(Bitset(fv.vertexID, 2), fv.face.bitval, fv.face.fixedBit)

-----------------------------------------------------------------------------
(* A walk.  A number out of range throws, and there is no step.            *)

CubeInit == corner = Bitset(0, 3) /\ spot = Nowhere

\* Vertex(id)
GoToVertex(id) == /\ id < VertexCount
                  /\ corner' = Bitset(id, 3)
                  /\ UNCHANGED spot

StepOnCube(m) == /\ m < 3
                 /\ corner' = getNeighbor(corner, m)
                 /\ UNCHANGED spot

\* Face(j).getFaceVertex(k)
GoToFace(j, k) == /\ j < FaceCount /\ k < FaceVertexCount
                  /\ spot' = FaceVertex(FaceNumber(j), k)
                  /\ UNCHANGED corner

\* The same vertex number on another face, made of a bit and its value.
TurnToFace(bit, val) == /\ spot # Nowhere /\ bit < 3
                        /\ spot' = FaceVertex(Face(bit, val), spot.vertexID)
                        /\ UNCHANGED corner

StepOnFace(n) == /\ spot # Nowhere /\ n < 2
                 /\ spot' = getFaceNeighbor(spot, n)
                 /\ UNCHANGED corner

LeaveFace == /\ spot # Nowhere
             /\ corner' = getCubeVertex(spot)
             /\ UNCHANGED spot

CubeNext == \/ \E i \in IDs : GoToVertex(i) \/ StepOnCube(i) \/ StepOnFace(i)
            \/ \E j, k \in IDs : GoToFace(j, k)
            \/ \E bit \in IDs, val \in {0, 1} : TurnToFace(bit, val)
            \/ LeaveFace

CubeSpec == CubeInit /\ [][CubeNext]_cubeVars

-----------------------------------------------------------------------------
(* Properties.                                                             *)

\* The vertices a face has on the cube.
Corners(f) == {getCubeVertex(FaceVertex(f, k)) : k \in Places(FaceVertexCount)}

\* The free bits of a face in order; one is below the fixed bit, or above it.
FreeBit(f, n) == IF n < f.fixedBit THEN n ELSE n + 1

\* Wherever a walk is on a face, it is on the cube too: a step to the n-th
\* neighbour on the face is the step on the cube along the n-th axis the face
\* leaves free, it stays on the face, and no axis but the fixed one leaves it.
\* The face has four vertices, with its centre in their middle, and the
\* numbers of face and vertex name them again.
FaceIsPartOfCube ==
    spot # Nowhere =>
        LET f == spot.face
            v == getCubeVertex(spot)
        IN  /\ \A n \in Places(2) :
                  getCubeVertex(getFaceNeighbor(spot, n)) = getNeighbor(v, FreeBit(f, n))
            /\ \A m \in Places(3) : getNeighbor(v, m) \in Corners(f) <=> m # f.fixedBit
            /\ v \in Corners(f) /\ Cardinality(Corners(f)) = FaceVertexCount
            /\ \A b \in Places(3) :
                  MapThenSumSet(LAMBDA c : get(c)[b], Corners(f))
                      = FaceVertexCount * getCenter(f)[b]
            /\ FaceNumber(getID(f)) = f
            /\ Bitset(to_ulong(v), 3) = v

=============================================================================
