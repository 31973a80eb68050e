---------------------------- MODULE SequentialHeaders ----------------------------
(***************************************************************************)
(* The headers whose objects belong to one thread and know nothing of each *)
(* other: a behaviour is a program that uses one of them.                  *)
(***************************************************************************)
EXTENDS SearchPath, RangedInt, CountedUniqueValues, ScopeGuard, Set2, EigenTie,
        CubeComponents, Dispatch, TypeSequence, Stride, SizeGenerator, FixedStrings,
        SceneSearch

VARIABLE header  \* the one the program uses

headerVars == <<header, pathVars, rangedVars, storeVars, guardVars, pairVars, tieVars,
                cubeVars, dispatchVars, typeVars, strideVars, generatorVars,
                stringVars, sceneVars>>

Headers == {"SearchPath", "RangedInt", "CountedUniqueValues", "ScopeGuard", "Set2",
            "EigenTie", "CubeComponents", "Dispatch", "TypeSequence", "Stride",
            "SizeGenerator", "FixedStrings", "SceneSearch"}

Init == /\ header \in Headers
        /\ PathInit /\ RangedInit /\ StoreInit /\ GuardInit /\ PairInit /\ TieInit
        /\ CubeInit /\ DispatchInit /\ TypeInit /\ StrideInit /\ GeneratorInit
        /\ StringInit /\ SceneInit

\* The variables of every header but h, and header itself.
Others(h) ==
    /\ UNCHANGED header
    /\ h # "SearchPath" => UNCHANGED pathVars
    /\ h # "RangedInt" => UNCHANGED rangedVars
    /\ h # "CountedUniqueValues" => UNCHANGED storeVars
    /\ h # "ScopeGuard" => UNCHANGED guardVars
    /\ h # "Set2" => UNCHANGED pairVars
    /\ h # "EigenTie" => UNCHANGED tieVars
    /\ h # "CubeComponents" => UNCHANGED cubeVars
    /\ h # "Dispatch" => UNCHANGED dispatchVars
    /\ h # "TypeSequence" => UNCHANGED typeVars
    /\ h # "Stride" => UNCHANGED strideVars
    /\ h # "SizeGenerator" => UNCHANGED generatorVars
    /\ h # "FixedStrings" => UNCHANGED stringVars
    /\ h # "SceneSearch" => UNCHANGED sceneVars

Next == \/ header = "SearchPath" /\ PathNext /\ Others("SearchPath")
        \/ header = "RangedInt" /\ RangedNext /\ Others("RangedInt")
        \/ header = "CountedUniqueValues" /\ StoreNext /\ Others("CountedUniqueValues")
        \/ header = "ScopeGuard" /\ GuardNext /\ Others("ScopeGuard")
        \/ header = "Set2" /\ PairNext /\ Others("Set2")
        \/ header = "EigenTie" /\ TieNext /\ Others("EigenTie")
        \/ header = "CubeComponents" /\ CubeNext /\ Others("CubeComponents")
        \/ header = "Dispatch" /\ DispatchNext /\ Others("Dispatch")
        \/ header = "TypeSequence" /\ TypeNext /\ Others("TypeSequence")
        \/ header = "Stride" /\ StrideNext /\ Others("Stride")
        \/ header = "SizeGenerator" /\ GeneratorNext /\ Others("SizeGenerator")
        \/ header = "FixedStrings" /\ StringNext /\ Others("FixedStrings")
        \/ header = "SceneSearch" /\ SceneNext /\ Others("SceneSearch")

\* As in GeneratorSpec, a program in a SizeGenerator loop goes on calling loop().
Spec == /\ Init /\ [][Next]_headerVars
        /\ WF_headerVars(header = "SizeGenerator" /\ Loop /\ Others("SizeGenerator"))

=============================================================================
