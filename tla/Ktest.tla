-------------------------------- MODULE Ktest --------------------------------
(***************************************************************************)
(* The program ktest (apps/ktest.cpp), which drives a Task: it compiles    *)
(* and loads a script whose function "run" loops for good, and then runs   *)
(* the task a few times.  A game, which may use a Task in any way there    *)
(* is, is the other driver of the module LuaTask.                          *)
(***************************************************************************)
EXTENDS LuaTask

CONSTANT Runs   \* how many times ktest calls run(): 5 in the code

ASSUME RunsIsNatural == Runs \in Nat \ {0}

VARIABLES
  driver,   \* the program: "game" or "ktest"
  pc,       \* ktest: what it does next
  turn      \* ktest: the variable i of its loop

main == <<driver, pc, turn>>
ktestVars == <<vars, main>>

KtestInit ==
  /\ Init
  /\ driver \in {"game", "ktest"} /\ pc = "compile" /\ turn = 0
  /\ driver = "ktest" => valid

Goto(next) == pc' = next /\ UNCHANGED <<driver, turn>>

CompileScript ==
  /\ pc = "compile"
  /\ Compile
  /\ Goto(IF codeState' = "ERROR" THEN "end" ELSE "load")

LoadScript ==
  /\ pc = "load"
  /\ \/ LoadFails /\ Goto("end")
     \/ LoadRuns /\ Goto("top level")

(* The top level of the script sets the counter and defines run. *)
ScriptIsLoaded ==
  /\ pc = "top level"
  /\ \/ ~hasRun /\ TopLevelStep /\ hasRun' /\ UNCHANGED main
     \/ LoadEnds /\ hasRun /\ Goto("run")

RunScript ==
  /\ pc = "run"
  /\ Run
  /\ Goto("look")

(* The function run neither returns nor yields, and it does not fail.      *)
ScriptLoops ==
  /\ control = "run"
  /\ Interrupted \/ (RunStep /\ hasRun' = hasRun)
  /\ UNCHANGED main

(* Mutant: the loop forgets to count. *)
LookWithoutCount ==
  /\ pc = "look" /\ control = "game"
  /\ pc' = IF state \in {"RUNNING", "WAITING", "INTERRUPTED"} /\ turn + 1 < Runs
           THEN "run" ELSE "end"
  /\ UNCHANGED <<vars, driver, turn>>

(* Anything but a task that can go on ends the loop. *)
LookAtTask ==
  /\ pc = "look" /\ control = "game"
  /\ turn' = turn + 1
  /\ pc' = IF state \in {"RUNNING", "WAITING", "INTERRUPTED"} /\ turn' < Runs
           THEN "run" ELSE "end"
  /\ UNCHANGED <<vars, driver>>

KtestStep ==
  /\ driver = "ktest"
  /\ \/ CompileScript \/ LoadScript \/ ScriptIsLoaded
     \/ RunScript \/ ScriptLoops \/ LookAtTask

GameStep == driver = "game" /\ Next /\ UNCHANGED main

KtestNext == KtestStep \/ GameStep

(* Luau gets on with a slice, and ktest with its one thread. *)
KtestSpec ==
  /\ KtestInit /\ [][KtestNext]_ktestVars
  /\ WF_ktestVars(GameStep /\ Slice) /\ WF_ktestVars(KtestStep)

-----------------------------------------------------------------------------

(***************************************************************************)
(* ktest ends, although its script never does: every one of its slices is  *)
(* interrupted, and the task is always left in a state that the loop knows *)
(* (ktest.cpp:39-66, game.cpp:141-175).                                    *)
(***************************************************************************)
KtestEnds == driver = "ktest" ~> pc = "end"

=============================================================================
