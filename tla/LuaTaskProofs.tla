--------------------------- MODULE LuaTaskProofs ---------------------------
(***************************************************************************)
(* For slices of any length: the types of a Task, and that run() resumes   *)
(* only a coroutine that can be resumed.  ktest, for any number of turns,  *)
(* uses its Task as a game may, so that both hold of ktest, too.           *)
(***************************************************************************)
EXTENDS Ktest, TLAPS

(***************************************************************************)
(* The states of the task, of the interrupt and of the processor agree:    *)
(* the interrupt is installed, and the task RUNNING, just while run() has  *)
(* the processor (game.cpp:141-175).                                       *)
(***************************************************************************)
LEMMA TypeOKInit == Init => TypeOK
<1> SUFFICES ASSUME Init PROVE TypeOK
  OBVIOUS
<1>1. elapsed \in 0..Limit
  BY LimitIsNatural DEF Init
<1>2. engaged = FALSE /\ control = "game" /\ state = "NEW"
  BY DEF Init
<1>3. (engaged <=> control = "run") /\ (state = "RUNNING" <=> control = "run")
  BY <1>2
<1>4. QED
  BY <1>1, <1>3, Zenon DEF Init, TypeOK, States

LEMMA TypeOKStep == TypeOK /\ [Next]_vars => TypeOK'
<1> SUFFICES ASSUME TypeOK, [Next]_vars PROVE TypeOK'
  OBVIOUS
<1> USE LimitIsNatural DEF TypeOK, States
<1>1. CASE Compile
  BY <1>1 DEF Compile
<1>2. CASE NewCode
  BY <1>2 DEF NewCode
<1>3. CASE LoadFails
  BY <1>3 DEF LoadFails, code
<1>4. CASE LoadRuns
  BY <1>4 DEF LoadRuns, code
<1>5. CASE TopLevelStep
  BY <1>5 DEF TopLevelStep, code
<1>6. CASE LoadEnds
  BY <1>6 DEF LoadEnds, code
<1>7. CASE Run
  BY <1>7 DEF Run, code
<1>8. CASE RunStep
  BY <1>8 DEF RunStep, code
<1>9. CASE Yields \/ Finishes \/ Fails
  BY <1>9 DEF Yields, Finishes, Fails, Returns, code
<1>10. CASE Interrupted
  BY <1>10 DEF Interrupted, Returns, code
<1>11. CASE UNCHANGED vars
  BY <1>11 DEF vars, code
<1>12. QED
  BY <1>1, <1>2, <1>3, <1>4, <1>5, <1>6, <1>7, <1>8, <1>9, <1>10, <1>11
     DEF Next, Slice

THEOREM TaskTypes == Spec => []TypeOK
BY TypeOKInit, TypeOKStep, PTL DEF Spec

-----------------------------------------------------------------------------

(***************************************************************************)
(* Whatever is loaded, reloaded, interrupted or fails before, run() finds  *)
(* a coroutine to resume (game.cpp:149-159).  A load leaves READY only     *)
(* with a coroutine of its own, and a slice WAITING only one that yielded. *)
(***************************************************************************)
LEMMA ResumableStep == Resumable /\ [Next]_vars => Resumable'
<1> SUFFICES ASSUME Resumable, [Next]_vars PROVE Resumable'
  OBVIOUS
<1> USE DEF Resumable
<1>1. CASE Compile \/ NewCode
  BY <1>1 DEF Compile, NewCode
<1>2. CASE LoadFails \/ LoadRuns \/ TopLevelStep
  BY <1>2 DEF LoadFails, LoadRuns, TopLevelStep
<1>3. CASE LoadEnds
  BY <1>3 DEF LoadEnds
<1>4. CASE Run \/ RunStep
  BY <1>4 DEF Run, RunStep
<1>5. CASE Yields \/ Finishes \/ Fails \/ Interrupted
  BY <1>5 DEF Yields, Finishes, Fails, Interrupted, Returns
<1>6. CASE UNCHANGED vars
  BY <1>6 DEF vars
<1>7. QED
  BY <1>1, <1>2, <1>3, <1>4, <1>5, <1>6 DEF Next, Slice

THEOREM TaskIsResumable == Spec => []Resumable
<1>1. Init => Resumable
  BY DEF Init, Resumable
<1>2. QED
  BY <1>1, ResumableStep, PTL DEF Spec

-----------------------------------------------------------------------------

(***************************************************************************)
(* Every step of ktest, and of a game, is one that a Task has or leaves    *)
(* the Task alone: ktest (ktest.cpp:18-66) uses its Task in a way that the *)
(* module LuaTask covers.                                                  *)
(***************************************************************************)
LEMMA KtestStepIsTaskStep == [KtestNext]_ktestVars => [Next]_vars
<1> SUFFICES ASSUME [KtestNext]_ktestVars PROVE [Next]_vars
  OBVIOUS
<1>1. CASE CompileScript
  BY <1>1 DEF CompileScript, Next
<1>2. CASE LoadScript
  BY <1>2 DEF LoadScript, Next
<1>3. CASE ScriptIsLoaded
  BY <1>3 DEF ScriptIsLoaded, Next
<1>4. CASE RunScript
  BY <1>4 DEF RunScript, Next
<1>5. CASE ScriptLoops
  BY <1>5 DEF ScriptLoops, Next, Slice
<1>6. CASE LookAtTask
  BY <1>6 DEF LookAtTask
<1>7. CASE GameStep
  BY <1>7 DEF GameStep
<1>8. CASE UNCHANGED ktestVars
  BY <1>8 DEF ktestVars
<1>9. QED
  BY <1>1, <1>2, <1>3, <1>4, <1>5, <1>6, <1>7, <1>8 DEF KtestNext, KtestStep

THEOREM KtestUsesTask == KtestSpec => Spec
<1>1. KtestInit => Init
  BY DEF KtestInit
<1>2. QED
  BY <1>1, KtestStepIsTaskStep, PTL DEF KtestSpec, Spec

(* What holds of a Task holds of it when ktest is the one that drives it   *)
(* (ktest.cpp:39-66).                                                      *)
THEOREM KtestTask == KtestSpec => [](TypeOK /\ Resumable)
BY KtestUsesTask, TaskTypes, TaskIsResumable, PTL

=============================================================================
