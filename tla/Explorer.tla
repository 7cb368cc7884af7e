------------------------------ MODULE Explorer ------------------------------
(***************************************************************************)
(* Deletion-based shrinking of a counterexample                            *)
(* (Henret/Explore/Shrink.lean). A property of programs is the set of the  *)
(* programs it fails on, and any property is tried.                        *)
(***************************************************************************)
EXTENDS Integers, SequencesExt

CONSTANTS
  Op,          \* operations, told apart and otherwise opaque
  MaxLength    \* bound on the length of programs

VARIABLES
  fails,     \* the programs on which the property is false
  program,   \* what shrinkProgram has arrived at
  fuel       \* the passes it has left; 0 when it has returned

Programs == SeqOf(Op, MaxLength)

\* shrinkProgram is called with a counterexample and fuel to spare.
ExplorerInit ==
  /\ fails \in SUBSET Programs
  /\ program \in fails
  /\ fuel = MaxLength + 1

\* shrinkPass: the operation at i is dropped if the property fails on what
\* comes after it.
ShrinkPass(prog) ==
  LET kept[i \in 1 .. Len(prog) + 1] ==
        IF i > Len(prog) THEN << >>
        ELSE IF SubSeq(prog, i + 1, Len(prog)) \in fails THEN kept[i + 1]
        ELSE << prog[i] >> \o kept[i + 1]
  IN  kept[1]

\* One round of shrinkProgram: go on while a pass makes the program shorter.
Shrink ==
  /\ fuel > 0
  /\ LET next == ShrinkPass(program)
     IN  \/ /\ Len(next) < Len(program)
            /\ program' = next
            /\ fuel' = fuel - 1
         \/ /\ Len(next) >= Len(program)
            /\ fuel' = 0
            /\ UNCHANGED program
  /\ UNCHANGED fails

ExplorerSpec == ExplorerInit /\ [][Shrink]_<< fails, program, fuel >>

-----------------------------------------------------------------------------

\* The comment on shrinkPass: "keep a removal if the property still fails on
\* the shortened program". The program it is at is a counterexample throughout.
ShrinksCounterexample == program \in fails

=============================================================================
