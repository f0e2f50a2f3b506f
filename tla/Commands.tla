------------------------------ MODULE Commands ------------------------------
(***************************************************************************)
(* CommandHandler (Commands.cpp): what players type is handled by the      *)
(* first of an object's commands that matches it.  The commands belong to  *)
(* the game: parse, canExecute and execute are its code, which may throw,  *)
(* and execute may change relations, register commands, and pass input to  *)
(* a handler before it returns.  The variable calls is the stack of the    *)
(* calls of CommandHandler::execute.                                       *)
(***************************************************************************)
EXTENDS Relations, Registries, Integers, FiniteSetsExt

CONSTANTS
  Puppet,        \* the objects that have a CommandHandler
  TypesOf,       \* TypesOf[h]: getTypes() of the object h
  CommandEntry,  \* bound: the entries that the game may register, each with
                 \* the priority of its command and the inputs it matches
  Input,         \* bound: what is typed
  MaxNesting     \* bound: how deep calls of execute nest

ASSUME CommandsAssumption ==
  /\ Puppet \subseteq Object
  /\ \A h \in Puppet : TypesOf[h] \in Seq(STRING)
  /\ \A e \in CommandEntry : e.priority \in Int /\ e.matches \subseteq Input
  /\ MaxNesting \in Nat \ {0}

VARIABLES
  commandRegistry,  \* the entries registered so far
  loaded,           \* per handler: has load() been called?
  commands,         \* per handler: its commands, in order, with their args
  calls             \* the calls of execute in progress, the innermost last

handlers == <<commandRegistry, loaded, commands>>
vars == <<graph, handlers, calls>>

(***************************************************************************)
(* A handler's constructor is declared and not defined, so that a game has *)
(* to supply it; it is taken to initialize the flag loaded.                *)
(***************************************************************************)
Init ==
  /\ NoRelations
  /\ commandRegistry = {}
  /\ loaded = [h \in Puppet |-> FALSE]
  /\ commands = [h \in Puppet |-> <<>>]
  /\ calls = <<>>

Top == calls[Len(calls)]

(* Code of the game is running that may call back. *)
GameRuns == calls # <<>> => Top.pc = "execute"

-----------------------------------------------------------------------------
(* Registering and loading. *)

(* Mutant: a second entry replaces the first. *)
RegisterAgain(e) ==
  /\ GameRuns
  /\ commandRegistry' = {f \in commandRegistry : ~SameKey(e, f)} \cup {e}
  /\ UNCHANGED <<graph, loaded, commands, calls>>

RegisterCommand(e) ==
  /\ GameRuns
  /\ commandRegistry' = RegisterNew(commandRegistry, e)
  /\ UNCHANGED <<graph, loaded, commands, calls>>

(* Mutant: the commands stay in the order of the hash table. *)
LoadedUnsorted(h) ==
  {[i \in DOMAIN s |-> [entry |-> s[i], args |-> {}]] :
     s \in SetToSeqs(Merged(commandRegistry, TypesOf[h]))}

(* What load() may make of the registry: the order of commands of the same *)
(* priority is that of a hash table and an unstable sort.                  *)
Loaded(h) ==
  {[i \in DOMAIN s |-> [entry |-> s[i], args |-> {}]] :
     s \in {t \in SetToSeqs(Merged(commandRegistry, TypesOf[h])) :
              \A i, j \in DOMAIN t : i < j => t[i].priority <= t[j].priority}}

(* The game loads the commands itself.  (A second call would load them a   *)
(* second time: load() does not look at the flag.)                         *)
Load(h) ==
  /\ GameRuns /\ ~loaded[h]
  /\ loaded' = [loaded EXCEPT ![h] = TRUE]
  /\ \E list \in Loaded(h) : commands' = [commands EXCEPT ![h] = list]
  /\ UNCHANGED <<graph, commandRegistry, calls>>

-----------------------------------------------------------------------------
(* CommandHandler::execute. *)

Hits(list, in) == {i \in DOMAIN list : in \in list[i].entry.matches}

(* The commands are loaded if need be; then the first one that matches     *)
(* gets the input, if there is one and no call of match throws before.     *)
Execute(h, in) ==
  /\ GameRuns /\ Len(calls) < MaxNesting
  /\ loaded' = [loaded EXCEPT ![h] = TRUE]
  /\ \E list \in IF loaded[h] THEN {commands[h]} ELSE Loaded(h) :
       /\ commands' = [commands EXCEPT ![h] = list]
       /\ \/ UNCHANGED calls   \* none matches, or a call of match throws
          \/ /\ Hits(list, in) # {}
             /\ calls' = Append(calls, [handler |-> h, at |-> Min(Hits(list, in)),
                                        input |-> in, pc |-> "parse"])
  /\ UNCHANGED <<graph, commandRegistry>>

(* The inputs that the args of a command hold parts of. *)
Args(h, i) == commands[h][i].args

SetArgs(value) ==
  commands' = [commands EXCEPT ![Top.handler][Top.at].args = value]

(* parse has added what it took from the input, and canExecute says yes. *)
MayExecute ==
  /\ calls # <<>> /\ Top.pc = "parse"
  /\ SetArgs(Args(Top.handler, Top.at) \cup {Top.input})
  /\ calls' = [calls EXCEPT ![Len(calls)].pc = "execute"]
  /\ UNCHANGED <<graph, commandRegistry, loaded>>

(* Mutant: an exception skips reset. *)
LeaveWithoutReset ==
  /\ calls # <<>>
  /\ SetArgs({}) \/ UNCHANGED commands
  /\ calls' = Front(calls)
  /\ UNCHANGED <<graph, commandRegistry, loaded>>

(* canExecute says no, one of the three throws (a std::exception), or      *)
(* execute returns: the command is reset in any case.                      *)
Leave ==
  /\ calls # <<>>
  /\ SetArgs({})
  /\ calls' = Front(calls)
  /\ UNCHANGED <<graph, commandRegistry, loaded>>

(* The game changes the relations, as commands do. *)
Relate ==
  /\ GameRuns
  /\ RelationsNext
  /\ UNCHANGED <<handlers, calls>>

Next ==
  \/ \E e \in CommandEntry : RegisterCommand(e)
  \/ \E h \in Puppet : Load(h) \/ \E in \in Input : Execute(h, in)
  \/ MayExecute \/ Leave
  \/ Relate

Spec == Init /\ [][Next]_vars

-----------------------------------------------------------------------------

(***************************************************************************)
(* The args of a command hold nothing of an input that has been dealt with,*)
(* although inputs nest, a command may come to run within itself, and each *)
(* of its hooks may throw (Commands.cpp:75-88).                            *)
(***************************************************************************)
NoArgsLeftOver ==
  \A h \in Puppet : \A i \in DOMAIN commands[h] : \A in \in Args(h, i) :
    \E k \in DOMAIN calls :
      /\ calls[k].handler = h /\ calls[k].at = i
      /\ calls[k].pc = "execute" /\ calls[k].input = in

(***************************************************************************)
(* The command at work on an input comes first among those of its handler  *)
(* that match it: none has a smaller priority (Commands.cpp:71-74, 116),   *)
(* also while nested calls load other handlers and register commands.      *)
(***************************************************************************)
FirstByPriority ==
  \A k \in DOMAIN calls :
    LET list == commands[calls[k].handler] IN
    /\ calls[k].at \in Hits(list, calls[k].input)
    /\ \A i \in Hits(list, calls[k].input) :
         list[calls[k].at].entry.priority <= list[i].entry.priority

(***************************************************************************)
(* What a handler has loaded, once and for all, is still registered: no    *)
(* two of its commands share a name, and each is of a type of the object,  *)
(* however many commands are registered afterwards (Commands.cpp:54, 105). *)
(***************************************************************************)
LoadedStayRegistered ==
  \A h \in Puppet : \A i \in DOMAIN commands[h] :
    LET e == commands[h][i].entry IN
    /\ e \in commandRegistry /\ e.objType \in ToSet(TypesOf[h])
    /\ \A j \in DOMAIN commands[h] :
         commands[h][j].entry.name = e.name => i = j

=============================================================================
