------------------------------- MODULE LuaTask -------------------------------
(***************************************************************************)
(* A Task and the LuaCode it is loaded from (game.cpp:88-215).  The code   *)
(* runs in two places: its top level inside Task::load, and its function   *)
(* "run", as a coroutine, in slices, inside Task::run.  While it runs,     *)
(* nothing else does; what keeps a script from running for good is the     *)
(* interrupt that run() installs for the time of a slice.                  *)
(*                                                                         *)
(* Luau and the scripts are external: a script may do whatever Luau lets   *)
(* it do at each of its steps.                                             *)
(***************************************************************************)
EXTENDS Integers

CONSTANT Limit   \* the length of a slice, in steps (5 milliseconds)

ASSUME LimitIsNatural == Limit \in Nat

VARIABLES
  valid,      \* is the source of the LuaCode correct Luau?
  codeState,  \* LuaCode::state
  state,      \* Task::state
  hasRun,     \* the Lua state has a global function "run"
  thread,     \* the coroutine on top of the Lua stack
  engaged,    \* the interrupt callback is installed
  control,    \* who has the processor: "game", "load" or "run"
  elapsed     \* how long the slice has lasted

code == <<valid, codeState>>
vars == <<code, state, hasRun, thread, engaged, control, elapsed>>

States == {"NEW", "READY", "RUNNING", "WAITING", "INTERRUPTED",
           "FINISHED", "ERROR"}

Init ==
  /\ valid \in BOOLEAN /\ codeState = "UNCOMPILED"
  /\ state = "NEW" /\ hasRun = FALSE /\ thread = "none"
  /\ engaged = FALSE /\ control = "game" /\ elapsed = 0

(* LuaCode::compile, of correct source, of incorrect source, whose message *)
(* sscanf may or may not find at the start of what luau_compile returned,  *)
(* or without the memory to compile at all.                                *)
Compile ==
  /\ control = "game"
  /\ codeState' \in IF valid THEN {"UNCOMPILED", "COMPILED"}
                    ELSE {"UNCOMPILED", "COMPILED", "ERROR"}
  /\ UNCHANGED <<valid, state, hasRun, thread, engaged, control, elapsed>>

(* The game gets other source. *)
NewCode ==
  /\ control = "game"
  /\ codeState' = "UNCOMPILED" /\ valid' \in BOOLEAN
  /\ UNCHANGED <<state, hasRun, thread, engaged, control, elapsed>>

-----------------------------------------------------------------------------
(* Task::load. *)

(* The code is not compiled, or luau_load finds that it is not correct. *)
LoadFails ==
  /\ control = "game"
  /\ codeState # "COMPILED" \/ ~valid
  /\ state' = "ERROR"
  /\ UNCHANGED <<code, hasRun, thread, engaged, control, elapsed>>

(* lua_pcall runs the top level, without an interrupt. *)
LoadRuns ==
  /\ control = "game"
  /\ codeState = "COMPILED" /\ valid
  /\ control' = "load"
  /\ UNCHANGED <<code, state, hasRun, thread, engaged, elapsed>>

(* The top level defines or clears "run"; it may go on afterwards. *)
TopLevelStep ==
  /\ control = "load"
  /\ hasRun' \in BOOLEAN
  /\ UNCHANGED <<code, state, thread, engaged, control, elapsed>>

(* Mutant: the coroutine is only made for a task that has none. *)
LoadOnce ==
  /\ control = "load"
  /\ state' = IF hasRun THEN "READY" ELSE "ERROR"
  /\ thread' = IF hasRun /\ thread = "none" THEN "suspended" ELSE thread
  /\ control' = "game"
  /\ UNCHANGED <<code, hasRun, engaged, elapsed>>

(* The top level ends, with an error or not, which load does not look at:  *)
(* what matters is a function "run", this script's or an earlier one's.    *)
LoadEnds ==
  /\ control = "load"
  /\ state' = IF hasRun THEN "READY" ELSE "ERROR"
  /\ thread' = IF hasRun THEN "suspended" ELSE thread
  /\ control' = "game"
  /\ UNCHANGED <<code, hasRun, engaged, elapsed>>

-----------------------------------------------------------------------------
(* Task::run. *)

(* Mutant: no interrupt is installed. *)
RunUnsafely ==
  /\ control = "game"
  /\ state \in {"READY", "INTERRUPTED", "WAITING"}
  /\ state' = "RUNNING" /\ thread' = "running" /\ elapsed' = 0
  /\ control' = "run"
  /\ UNCHANGED <<code, hasRun, engaged>>

Run ==
  /\ control = "game"
  /\ state \in {"READY", "INTERRUPTED", "WAITING"}
  /\ state' = "RUNNING" /\ thread' = "running"
  /\ engaged' = TRUE /\ elapsed' = 0
  /\ control' = "run"
  /\ UNCHANGED <<code, hasRun>>

(* Is the next safepoint of the script one at which it is interrupted? *)
Overdue == engaged /\ elapsed >= Limit

(* The script goes on; it, too, may define or clear "run". *)
RunStep ==
  /\ control = "run" /\ ~Overdue
  /\ elapsed' = IF elapsed < Limit THEN elapsed + 1 ELSE Limit
  /\ hasRun' \in BOOLEAN
  /\ UNCHANGED <<code, state, thread, engaged, control>>

(* Mutant: the interrupt stays installed when the coroutine has failed. *)
ReturnsEngaged(newState, newThread) ==
  /\ control = "run"
  /\ state' = newState /\ thread' = newThread
  /\ engaged' = (newState = "ERROR") /\ control' = "game"
  /\ UNCHANGED <<code, hasRun, elapsed>>

(* lua_resume returns and the state of the task is set from its status.    *)
Returns(newState, newThread) ==
  /\ control = "run"
  /\ state' = newState /\ thread' = newThread
  /\ engaged' = FALSE /\ control' = "game"
  /\ UNCHANGED <<code, hasRun, elapsed>>

Yields == Returns("WAITING", "suspended")
Finishes == Returns("FINISHED", "dead")
Fails == Returns("ERROR", "dead")

(* interrupt_check sets INTERRUPTED and yields, and run() takes that for a *)
(* yield like any other; where Luau cannot yield it is an error.           *)
Interrupted ==
  /\ Overdue
  /\ \/ Returns("WAITING", "suspended")
     \/ Returns("ERROR", "dead")

Slice == RunStep \/ Yields \/ Finishes \/ Fails \/ Interrupted

Next ==
  \/ Compile \/ NewCode \/ LoadFails \/ LoadRuns \/ TopLevelStep \/ LoadEnds
  \/ Run \/ Slice

Spec == Init /\ [][Next]_vars

(* Luau gets on with the script until the script gives way to the game. *)
FairSpec == Spec /\ WF_vars(Slice)

-----------------------------------------------------------------------------

(* The types; and a script has the interrupt to fear, and its task is      *)
(* RUNNING, just while run() has the processor.                            *)
TypeOK ==
  /\ valid \in BOOLEAN /\ codeState \in {"UNCOMPILED", "COMPILED", "ERROR"}
  /\ state \in States /\ hasRun \in BOOLEAN
  /\ thread \in {"none", "suspended", "running", "dead"}
  /\ engaged \in BOOLEAN /\ control \in {"game", "load", "run"}
  /\ elapsed \in 0..Limit
  /\ engaged <=> control = "run"
  /\ state = "RUNNING" <=> control = "run"

(***************************************************************************)
(* Whenever run() may resume the coroutine, there is one and it can be     *)
(* resumed, whatever was loaded, reloaded, interrupted or failed before    *)
(* (game.cpp:149-159): the states of the task and of its coroutine agree.  *)
(***************************************************************************)
Resumable ==
  control = "game" /\ state \in {"READY", "INTERRUPTED", "WAITING"}
    => thread = "suspended"

(* A slice ends, even if the script loops (game.cpp:141-145).              *)
SliceEnds == control = "run" ~> control = "game"

=============================================================================
