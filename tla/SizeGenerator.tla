------------------------------ MODULE SizeGenerator ------------------------------
(***************************************************************************)
(* util::SizeGenerator, which goes through the rows and columns of a grid, *)
(* with counters of WordWidth bits in place of those of unsigned int.      *)
(***************************************************************************)
EXTENDS Naturals

CONSTANTS
    WordWidth,  \* bits of unsigned int
    NoGenerator \* in place of an object not constructed

ASSUME WordAssumption == WordWidth \in Nat \ {0}

Word == 0 .. 2^WordWidth - 1
Plus(a, b) == (a + b) % 2^WordWidth

VARIABLES
    generator, \* a SizeGenerator
    looping,   \* what the last call of loop() returned
    visited    \* history: the rows and columns after each call

generatorVars == <<generator, looping, visited>>

-----------------------------------------------------------------------------

GeneratorInit == generator = NoGenerator /\ looping = FALSE /\ visited = {}

MakeGenerator(min, max, step) ==
    /\ generator = NoGenerator
    /\ generator' = [min |-> min, max |-> max, step |-> step,
                     rows |-> min, cols |-> min]
    /\ looping' = TRUE
    /\ visited' = {<<min, min>>}

\* Mutant of Moved: the next row does not start with the first column.
MovedNoReset(g) == IF g.cols > g.max THEN [g EXCEPT !.rows = Plus(@, g.step)]
                                     ELSE [g EXCEPT !.cols = Plus(@, g.step)]

\* Mutant of Moved: the columns start again in the same row.
MovedSameRow(g) == IF g.cols > g.max THEN [g EXCEPT !.cols = g.min]
                                     ELSE [g EXCEPT !.cols = Plus(@, g.step)]

Moved(g) ==
    IF g.cols > g.max THEN [g EXCEPT !.cols = g.min, !.rows = Plus(@, g.step)]
                      ELSE [g EXCEPT !.cols = Plus(@, g.step)]

Loop == /\ looping
        /\ IF generator.rows > generator.max
           THEN looping' = FALSE /\ UNCHANGED <<generator, visited>>
           ELSE /\ generator' = Moved(generator)
                /\ visited' = visited \cup {<<generator'.rows, generator'.cols>>}
                /\ UNCHANGED looping

\* The program is done with its loop, and may start another.
EndOfLoop == /\ generator # NoGenerator /\ ~looping
             /\ generator' = NoGenerator /\ visited' = {}
             /\ UNCHANGED looping

GeneratorNext == \/ \E min, max, step \in Word : MakeGenerator(min, max, step)
                 \/ Loop
                 \/ EndOfLoop

\* The program that uses the generator goes on calling loop().
GeneratorSpec ==
    GeneratorInit /\ [][GeneratorNext]_generatorVars /\ WF_generatorVars(Loop)

-----------------------------------------------------------------------------
(* Properties.                                                             *)

\* The numbers a loop from min to max by step goes through.
Steps(g) == {n \in Word : /\ g.min <= n /\ n <= g.max
                          /\ n = g.min \/ (g.step > 0 /\ (n - g.min) % g.step = 0)}

\* A loop that ends has been at every point that the "two nested loops" it
\* simulates would visit, although it goes past the maximum in both directions.
GridCovered ==
    generator # NoGenerator /\ ~looping =>
        Steps(generator) \X Steps(generator) \subseteq visited

\* The loop ends if the counters can pass the maximum without wrapping.
LoopEnds ==
    /\ generator # NoGenerator
    /\ generator.step > 0 /\ generator.max + generator.step \in Word
    ~> ~looping

=============================================================================
