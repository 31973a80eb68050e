------------------------------- MODULE SceneSearch -------------------------------
(***************************************************************************)
(* util::findNamedNode: the recursive search of a scene graph for a node   *)
(* of the name wanted.  A node can be the child of several groups; the     *)
(* nodes are numbered so that a child comes after its parents.             *)
(***************************************************************************)
EXTENDS Naturals, SequencesExt, FiniteSetsExt

CONSTANTS
    NodeCount,   \* the nodes are 1 .. NodeCount
    MaxChildren, \* bound: the children of a group
    NULL         \* the null pointer

ASSUME SceneAssumption == /\ NodeCount \in Nat /\ MaxChildren \in Nat
                          /\ NULL \notin 1 .. NodeCount

Node == 1 .. NodeCount

VARIABLES
    children, \* of each node; a leaf and an empty group have none
    wanted,   \* the nodes that have the name
    start,    \* the argument of the call in progress, or of the last one
    frames,   \* the stack: a node, and how many of its children were searched
    phase,    \* "idle", "calling" the search of foundNode, or "returning"
    foundNode \* the node whose call is made, or what the call returned

sceneVars == <<children, wanted, start, frames, phase, foundNode>>

-----------------------------------------------------------------------------

SceneInit == /\ children = [n \in Node |-> << >>] /\ wanted = {}
             /\ start = NULL /\ frames = << >> /\ phase = "idle" /\ foundNode = NULL

\* The program builds its scene.
AddChild(n, c) == /\ phase = "idle" /\ start = NULL
                  /\ n < c /\ Len(children[n]) < MaxChildren
                  /\ children' = [children EXCEPT ![n] = Append(@, c)]
                  /\ UNCHANGED <<wanted, start, frames, phase, foundNode>>

SetName(n) == /\ phase = "idle" /\ start = NULL
              /\ wanted' = wanted \cup {n}
              /\ UNCHANGED <<children, start, frames, phase, foundNode>>

Search(n) == /\ phase = "idle"
             /\ start' = n
             /\ phase' = "calling" /\ foundNode' = n
             /\ UNCHANGED <<children, wanted, frames>>

\* A null pointer and a node with the name are returned at once; the children
\* of any other node are searched.
EnterNode == /\ phase = "calling"
             /\ IF foundNode = NULL \/ foundNode \in wanted
                THEN phase' = "returning" /\ UNCHANGED <<frames, foundNode>>
                ELSE /\ frames' = Append(frames, [node |-> foundNode, searched |-> 0])
                     /\ phase' = "returning" /\ foundNode' = NULL
             /\ UNCHANGED <<children, wanted, start>>

Top == Last(frames)

\* Mutant of MoreChildren: what the first child returned is returned.
MoreChildrenFirstOnly == Top.searched = 0 /\ children[Top.node] # << >>

MoreChildren == Top.searched < Len(children[Top.node])

\* Nothing was found so far: the loop goes on with the next child.
NextChild == /\ phase = "returning" /\ frames # << >>
             /\ foundNode = NULL /\ MoreChildren
             /\ foundNode' = children[Top.node][Top.searched + 1]
             /\ frames' = [frames EXCEPT ![Len(frames)].searched = @ + 1]
             /\ phase' = "calling"
             /\ UNCHANGED <<children, wanted, start>>

\* A match, or the end of the loop, is returned to the caller.
ReturnNode == /\ phase = "returning" /\ frames # << >>
              /\ foundNode # NULL \/ ~MoreChildren
              /\ frames' = Front(frames)
              /\ UNCHANGED <<children, wanted, start, phase, foundNode>>

Finish == /\ phase = "returning" /\ frames = << >>
          /\ phase' = "idle"
          /\ UNCHANGED <<children, wanted, start, frames, foundNode>>

SceneNext == \/ \E n \in Node : \/ \E c \in Node : AddChild(n, c)
                                \/ SetName(n)
             \/ \E n \in Node \cup {NULL} : Search(n)
             \/ EnterNode \/ NextChild \/ ReturnNode \/ Finish

SceneSpec == SceneInit /\ [][SceneNext]_sceneVars

-----------------------------------------------------------------------------
(* Properties.                                                             *)

\* A place in a depth-first search: a node, and how many of its children the
\* search has been below.
Positions == {p \in Node \X (0 .. MaxChildren) : p[2] <= Len(children[p[1]])}

\* The nodes below n in the order of that search, n the first: what it has come
\* to when it has been below all of the children of n.
Preorder(n) ==
    LET pre[p \in Positions] ==
            IF p[2] = 0 THEN <<p[1]>>
            ELSE LET child == children[p[1]][p[2]]
                 IN  pre[<<p[1], p[2] - 1>>] \o pre[<<child, Len(children[child])>>]
    IN  pre[<<n, Len(children[n])>>]

\* "return the first node found with the given name": a search returns the
\* first of that name in depth-first order, also when nodes are shared by
\* several groups, and null only if there is none below the node it starts at.
FindsFirst ==
    phase = "idle" /\ start # NULL =>
        LET order == Preorder(start)
            named == {i \in DOMAIN order : order[i] \in wanted}
        IN  foundNode = IF named = {} THEN NULL ELSE order[Min(named)]

=============================================================================
