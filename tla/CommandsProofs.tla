--------------------------- MODULE CommandsProofs ---------------------------
(***************************************************************************)
(* Commands, for any objects, types, entries and inputs, and calls nested  *)
(* to any depth.                                                           *)
(***************************************************************************)
EXTENDS Commands, RelationsProofs

-----------------------------------------------------------------------------
(* The inductive invariant. *)

LoadedCommand == [entry : CommandEntry, args : SUBSET Input]
Call == [handler : Puppet, at : Nat, input : Input, pc : {"parse", "execute"}]

Sorted(list) ==
  \A i, j \in DOMAIN list : i < j => list[i].entry.priority <= list[j].entry.priority

RegistryInv ==
  /\ commandRegistry \subseteq CommandEntry /\ IsFiniteSet(commandRegistry)
  /\ OneEntryPerKey(commandRegistry)

(* A handler that is not loaded has no commands; what load() has made is   *)
(* in order, and stays so, since only the args change later.               *)
HandlersInv ==
  /\ loaded \in [Puppet -> BOOLEAN]
  /\ commands \in [Puppet -> Seq(LoadedCommand)]
  /\ \A h \in Puppet : ~loaded[h] => commands[h] = <<>>
  /\ \A h \in Puppet : Sorted(commands[h])

(* Only the innermost call may still be at parse: the others wait in       *)
(* execute for the ones they have made.                                    *)
CallsInv ==
  /\ calls \in Seq(Call)
  /\ \A k \in DOMAIN calls : k < Len(calls) => calls[k].pc = "execute"

IInv ==
  /\ GraphInv /\ RegistryInv /\ HandlersInv /\ CallsInv
  /\ NoArgsLeftOver /\ FirstByPriority /\ LoadedStayRegistered

-----------------------------------------------------------------------------
(* What load() makes of the registry. *)

(* Of the entries of one name it takes one, that of the last type that has *)
(* one: no two entries it takes share a name.                              *)
LEMMA MergedOncePerName ==
  ASSUME NEW registry, OneEntryPerKey(registry), NEW types \in Seq(STRING),
         NEW e \in Merged(registry, types), NEW f \in Merged(registry, types),
         e.name = f.name
  PROVE  e = f
<1>1. DOMAIN types \subseteq Nat
  OBVIOUS
<1>2. PICK i \in DOMAIN types :
             /\ types[i] = e.objType
             /\ \A g \in registry, j \in DOMAIN types :
                  g.name = e.name /\ types[j] = g.objType => j <= i
  BY DEF Merged
<1>3. PICK j \in DOMAIN types :
             /\ types[j] = f.objType
             /\ \A g \in registry, k \in DOMAIN types :
                  g.name = f.name /\ types[k] = g.objType => k <= j
  BY DEF Merged
<1>4. e \in registry /\ f \in registry
  BY DEF Merged
<1>5. i <= j /\ j <= i
  BY <1>2, <1>3, <1>4
<1>6. i = j
  BY <1>1, <1>5
<1>7. QED
  BY <1>2, <1>3, <1>4, <1>6 DEF OneEntryPerKey, SameKey

LEMMA LoadedLemma ==
  ASSUME RegistryInv, NEW h \in Puppet, NEW list \in Loaded(h)
  PROVE  /\ list \in Seq(LoadedCommand) /\ Sorted(list)
         /\ \A i \in DOMAIN list :
              /\ list[i].args = {}
              /\ list[i].entry \in commandRegistry
              /\ list[i].entry.objType \in ToSet(TypesOf[h])
              /\ \A j \in DOMAIN list :
                   list[j].entry.name = list[i].entry.name => i = j
<1> DEFINE types == TypesOf[h]
           merged == Merged(commandRegistry, types)
<1>1. types \in Seq(STRING)
  BY CommandsAssumption
<1>2. PICK s \in SetToSeqs(merged) :
             /\ list = [i \in DOMAIN s |-> [entry |-> s[i], args |-> {}]]
             /\ \A i, j \in DOMAIN s : i < j => s[i].priority <= s[j].priority
  BY DEF Loaded
<1>3. IsFiniteSet(merged)
  <2>1. merged \in SUBSET commandRegistry
    BY DEF Merged
  <2>2. QED
    BY <2>1, FS_Subset DEF RegistryInv
<1>4. s \in Seq(merged) /\ ToSet(s) = merged /\ IsInjective(s)
  BY <1>3, SetToSeqsCovers
<1>5. /\ DOMAIN s = 1 .. Len(s) /\ Len(s) \in Nat
      /\ \A i \in DOMAIN s : s[i] \in merged
  BY <1>4
<1>6. \A e \in merged : /\ e \in commandRegistry /\ e \in CommandEntry
                        /\ e.objType \in ToSet(types)
  BY DEF Merged, ToSet, RegistryInv
<1>7. \A e, f \in merged : e.name = f.name => e = f
  BY <1>1, MergedOncePerName DEF RegistryInv
<1> HIDE DEF merged
<1>8. /\ DOMAIN list = DOMAIN s
      /\ \A i \in DOMAIN s : list[i].entry = s[i] /\ list[i].args = {}
      /\ list \in Seq(LoadedCommand)
  BY <1>2, <1>5, <1>6 DEF LoadedCommand
<1>9. Sorted(list)
  BY <1>2, <1>8 DEF Sorted
<1>10. ASSUME NEW i \in DOMAIN list, NEW j \in DOMAIN list,
              list[j].entry.name = list[i].entry.name
       PROVE  i = j
  BY <1>4, <1>5, <1>7, <1>8, <1>10 DEF IsInjective
<1>11. QED
  BY <1>5, <1>6, <1>8, <1>9, <1>10

(* The first hit is at a place of the list, and comes first by priority.   *)
LEMMA FirstHit ==
  ASSUME NEW list \in Seq(LoadedCommand), Sorted(list), NEW in,
         Hits(list, in) # {}
  PROVE  LET at == Min(Hits(list, in))
         IN  /\ at \in Hits(list, in) /\ at \in Nat
             /\ \A i \in Hits(list, in) :
                  list[at].entry.priority <= list[i].entry.priority
<1> DEFINE at == Min(Hits(list, in))
<1>1. Hits(list, in) \subseteq DOMAIN list /\ DOMAIN list \subseteq Nat
  BY DEF Hits
<1>2. at \in Hits(list, in) /\ \A i \in Hits(list, in) : at <= i
  BY <1>1, MinLemma
<1> HIDE DEF at
<1>3. ASSUME NEW i \in Hits(list, in)
      PROVE  list[at].entry.priority <= list[i].entry.priority
  <2>1. at \in DOMAIN list /\ i \in DOMAIN list /\ (at < i \/ at = i)
    BY <1>1, <1>2, <1>3
  <2>2. list[i].entry.priority \in Int
    <3>1. list[i] \in LoadedCommand
      BY <2>1
    <3>2. QED
      BY <3>1, CommandsAssumption DEF LoadedCommand
  <2>3. QED
    BY <2>1, <2>2 DEF Sorted
<1>4. QED
  BY <1>1, <1>2, <1>3 DEF at

-----------------------------------------------------------------------------
(* The steps. *)

LEMMA InitIInv == Init => IInv
<1> SUFFICES ASSUME Init PROVE IInv
  OBVIOUS
<1>1. GraphInv
  BY NoRelationsGraphInv DEF Init
<1>2. RegistryInv
  BY FS_EmptySet DEF Init, RegistryInv, OneEntryPerKey
<1>3. HandlersInv /\ CallsInv
  BY DEF Init, HandlersInv, Sorted, CallsInv
<1>4. NoArgsLeftOver /\ FirstByPriority /\ LoadedStayRegistered
  BY DEF Init, NoArgsLeftOver, FirstByPriority, LoadedStayRegistered
<1>5. QED
  BY <1>1, <1>2, <1>3, <1>4 DEF IInv

(* The handlers' part of the invariant reads these variables only. *)
LEMMA HandlersSame ==
  ASSUME IInv, UNCHANGED <<handlers, calls>>, GraphInv'
  PROVE  IInv'
<1>1. RegistryInv' /\ HandlersInv' /\ CallsInv' /\ LoadedStayRegistered'
  BY DEF IInv, handlers, RegistryInv, OneEntryPerKey, HandlersInv, CallsInv,
         LoadedStayRegistered
<1>2. NoArgsLeftOver' /\ FirstByPriority'
  BY DEF IInv, handlers, NoArgsLeftOver, FirstByPriority, Args, Hits
<1>3. QED
  BY <1>1, <1>2 DEF IInv

LEMMA GraphSame == GraphInv /\ UNCHANGED graph => GraphInv'
BY GraphKeeps

LEMMA RegisterKeeps ==
  ASSUME IInv, NEW e \in CommandEntry, RegisterCommand(e)
  PROVE  IInv'
<1>1. RegistryInv' /\ commandRegistry \subseteq commandRegistry'
  <2>1. IsFiniteSet(commandRegistry \cup {e})
    BY FS_AddElement DEF IInv, RegistryInv
  <2>2. QED
    BY <2>1 DEF IInv, RegistryInv, RegisterCommand, RegisterNew,
                OneEntryPerKey, SameKey
<1>2. UNCHANGED <<graph, loaded, commands, calls>>
  BY DEF RegisterCommand
<1>3. HandlersInv' /\ CallsInv' /\ NoArgsLeftOver' /\ FirstByPriority'
  BY <1>2 DEF IInv, HandlersInv, CallsInv, NoArgsLeftOver, FirstByPriority, Args, Hits
<1>4. LoadedStayRegistered'
  BY <1>1, <1>2 DEF IInv, LoadedStayRegistered
<1>5. QED
  BY <1>1, <1>2, <1>3, <1>4, GraphSame DEF IInv

(***************************************************************************)
(* The first load of a handler.  No call of it is in progress, since a     *)
(* call needs a command, and there were none.                              *)
(***************************************************************************)
LEMMA LoadKeeps ==
  ASSUME IInv, NEW h \in Puppet, ~loaded[h], NEW list \in Loaded(h),
         loaded' = [loaded EXCEPT ![h] = TRUE],
         commands' = [commands EXCEPT ![h] = list],
         UNCHANGED commandRegistry
  PROVE  /\ HandlersInv' /\ LoadedStayRegistered'
         /\ \A k \in DOMAIN calls : calls[k].handler # h
         /\ \A g \in Puppet : g # h => commands'[g] = commands[g]
         /\ commands'[h] = list /\ \A i \in DOMAIN list : list[i].args = {}
<1>1. /\ list \in Seq(LoadedCommand) /\ Sorted(list)
      /\ \A i \in DOMAIN list :
           /\ list[i].args = {}
           /\ list[i].entry \in commandRegistry
           /\ list[i].entry.objType \in ToSet(TypesOf[h])
           /\ \A j \in DOMAIN list :
                list[j].entry.name = list[i].entry.name => i = j
  BY LoadedLemma DEF IInv
<1>2. /\ \A g \in Puppet : commands'[g] = IF g = h THEN list ELSE commands[g]
      /\ \A g \in Puppet : loaded'[g] = IF g = h THEN TRUE ELSE loaded[g]
  BY DEF IInv, HandlersInv
<1>3. HandlersInv'
  BY <1>1, <1>2 DEF IInv, HandlersInv
<1>4. LoadedStayRegistered'
  BY <1>1, <1>2 DEF IInv, LoadedStayRegistered
<1>5. \A k \in DOMAIN calls : calls[k].handler # h
  <2>1. commands[h] = <<>>
    BY DEF IInv, HandlersInv
  <2>2. QED
    BY <2>1 DEF IInv, FirstByPriority, Hits
<1>6. QED
  BY <1>1, <1>2, <1>3, <1>4, <1>5

(***************************************************************************)
(* NoArgsLeftOver and FirstByPriority, of any commands and any calls: an   *)
(* execute that loads a handler changes both at once.                      *)
(***************************************************************************)
Accounted(cmds, stack) ==
  \A h \in Puppet : \A i \in DOMAIN cmds[h] : \A in \in cmds[h][i].args :
    \E k \in DOMAIN stack :
      /\ stack[k].handler = h /\ stack[k].at = i
      /\ stack[k].pc = "execute" /\ stack[k].input = in

RightlyChosen(cmds, call) ==
  LET list == cmds[call.handler] IN
  /\ call.at \in Hits(list, call.input)
  /\ \A i \in Hits(list, call.input) :
       list[call.at].entry.priority <= list[i].entry.priority

LEMMA AccountedIs == NoArgsLeftOver <=> Accounted(commands, calls)
BY DEF NoArgsLeftOver, Accounted, Args

LEMMA ChosenIs ==
  FirstByPriority <=> \A k \in DOMAIN calls : RightlyChosen(commands, calls[k])
BY DEF FirstByPriority, RightlyChosen

LEMMA CallTypes ==
  ASSUME CallsInv
  PROVE  /\ DOMAIN calls = 1 .. Len(calls) /\ Len(calls) \in Nat
         /\ \A k \in DOMAIN calls : calls[k] \in Call
BY DEF CallsInv

(* Loading one handler leaves the calls of the others and their args alone.*)
LEMMA OthersAfterLoad ==
  ASSUME IInv, NEW h \in Puppet, NEW list,
         \A k \in DOMAIN calls : calls[k].handler # h,
         \A g \in Puppet : g # h => commands'[g] = commands[g],
         commands'[h] = list, \A i \in DOMAIN list : list[i].args = {}
  PROVE  /\ Accounted(commands', calls)
         /\ \A k \in DOMAIN calls : RightlyChosen(commands', calls[k])
<1>1. \A k \in DOMAIN calls : calls[k].handler \in Puppet
  BY CallTypes DEF IInv, Call
<1>2. Accounted(commands, calls) /\ \A k \in DOMAIN calls : RightlyChosen(commands, calls[k])
  BY AccountedIs, ChosenIs DEF IInv
<1>3. Accounted(commands', calls)
  BY <1>2 DEF Accounted
<1>4. \A k \in DOMAIN calls : RightlyChosen(commands', calls[k])
  BY <1>1, <1>2 DEF RightlyChosen
<1>5. QED
  BY <1>3, <1>4

LEMMA LoadStepKeeps ==
  ASSUME IInv, NEW h \in Puppet, Load(h)
  PROVE  IInv'
<1>1. PICK list \in Loaded(h) : commands' = [commands EXCEPT ![h] = list]
  BY DEF Load
<1>2. /\ HandlersInv' /\ LoadedStayRegistered'
      /\ \A k \in DOMAIN calls : calls[k].handler # h
      /\ \A g \in Puppet : g # h => commands'[g] = commands[g]
      /\ commands'[h] = list /\ \A i \in DOMAIN list : list[i].args = {}
  BY <1>1, LoadKeeps DEF Load
<1>3. NoArgsLeftOver' /\ FirstByPriority'
  <2>1. /\ Accounted(commands', calls)
        /\ \A k \in DOMAIN calls : RightlyChosen(commands', calls[k])
    BY <1>2, OthersAfterLoad
  <2>2. UNCHANGED calls
    BY DEF Load
  <2>3. QED
    BY <2>1, <2>2 DEF NoArgsLeftOver, Accounted, Args, FirstByPriority, RightlyChosen
<1>4. GraphInv' /\ RegistryInv' /\ CallsInv'
  BY GraphSame DEF IInv, Load, RegistryInv, OneEntryPerKey, CallsInv
<1>5. QED
  BY <1>2, <1>3, <1>4 DEF IInv

(* A call is pushed: the ones below it are in execute, and it is at the    *)
(* first of the commands that match.                                       *)
LEMMA PushKeeps ==
  ASSUME CallsInv, GameRuns, NEW call \in Call, call.pc = "parse",
         calls' = Append(calls, call),
         Accounted(commands', calls),
         \A k \in DOMAIN calls : RightlyChosen(commands', calls[k]),
         RightlyChosen(commands', call)
  PROVE  CallsInv' /\ NoArgsLeftOver' /\ FirstByPriority'
<1> DEFINE n == Len(calls)
<1>1. /\ n \in Nat /\ DOMAIN calls = 1..n
      /\ calls' \in Seq(Call) /\ Len(calls') = n + 1 /\ DOMAIN calls' = 1..(n + 1)
      /\ \A k \in 1..n : calls'[k] = calls[k]
      /\ calls'[n + 1] = call
  BY DEF CallsInv
<1>2. n # 0 => calls[n].pc = "execute"
  BY EmptySeq DEF GameRuns, Top, CallsInv
<1>3. \A k \in 1..n : calls[k].pc = "execute"
  <2>1. \A k \in 1..n : k < n => calls[k].pc = "execute"
    BY <1>1 DEF CallsInv
  <2> HIDE DEF n
  <2>2. \A k \in 1..n : k < n \/ (k = n /\ n # 0)
    BY <1>1
  <2>3. QED
    BY <1>2, <2>1, <2>2
<1> HIDE DEF n
<1>4. \A k \in 1..(n + 1) : k \in 1..n \/ k = n + 1
  BY <1>1
<1>5. CallsInv'
  <2>1. \A k \in 1..(n + 1) : k < n + 1 => k \in 1..n
    BY <1>1
  <2>2. QED
    BY <1>1, <1>3, <2>1 DEF CallsInv
<1>6. NoArgsLeftOver'
  <2>1. \A k \in 1..n : k \in 1..(n + 1)
    BY <1>1
  <2>2. QED
    BY <1>1, <2>1 DEF NoArgsLeftOver, Args, Accounted
<1>7. FirstByPriority'
  BY <1>1, <1>4 DEF FirstByPriority, RightlyChosen
<1>8. QED
  BY <1>5, <1>6, <1>7

LEMMA ExecuteKeeps ==
  ASSUME IInv, NEW h \in Puppet, NEW in \in Input, Execute(h, in)
  PROVE  IInv'
<1>1. PICK list \in IF loaded[h] THEN {commands[h]} ELSE Loaded(h) :
        /\ commands' = [commands EXCEPT ![h] = list]
        /\ \/ UNCHANGED calls
           \/ /\ Hits(list, in) # {}
              /\ calls' = Append(calls, [handler |-> h, at |-> Min(Hits(list, in)),
                                         input |-> in, pc |-> "parse"])
  BY DEF Execute
<1>2. /\ HandlersInv' /\ LoadedStayRegistered'
      /\ Accounted(commands', calls)
      /\ \A k \in DOMAIN calls : RightlyChosen(commands', calls[k])
  <2>1. CASE loaded[h]
    <3>1. commands' = commands /\ loaded' = loaded
      BY <1>1, <2>1 DEF IInv, HandlersInv, Execute
    <3>2. HandlersInv' /\ LoadedStayRegistered'
      BY <3>1 DEF IInv, HandlersInv, LoadedStayRegistered, Execute
    <3>3. QED
      BY <3>1, <3>2, AccountedIs, ChosenIs DEF IInv
  <2>2. CASE ~loaded[h]
    <3>1. list \in Loaded(h)
      BY <1>1, <2>2
    <3>2. /\ HandlersInv' /\ LoadedStayRegistered'
          /\ \A k \in DOMAIN calls : calls[k].handler # h
          /\ \A g \in Puppet : g # h => commands'[g] = commands[g]
          /\ commands'[h] = list /\ \A i \in DOMAIN list : list[i].args = {}
      BY <1>1, <2>2, <3>1, LoadKeeps DEF Execute
    <3>3. QED
      BY <3>2, OthersAfterLoad
  <2>3. QED
    BY <2>1, <2>2
<1>3. commands'[h] = list
  BY <1>1 DEF IInv, HandlersInv
<1>4. CallsInv' /\ NoArgsLeftOver' /\ FirstByPriority'
  <2>1. CASE UNCHANGED calls
    BY <1>2, <2>1 DEF IInv, CallsInv, NoArgsLeftOver, Accounted, Args,
                      FirstByPriority, RightlyChosen
  <2>2. CASE Hits(list, in) # {} /\ calls' = Append(calls, [handler |-> h,
                 at |-> Min(Hits(list, in)), input |-> in, pc |-> "parse"])
    <3> DEFINE call == [handler |-> h, at |-> Min(Hits(list, in)),
                        input |-> in, pc |-> "parse"]
    <3>1. list \in Seq(LoadedCommand) /\ Sorted(list)
      BY <1>2, <1>3 DEF HandlersInv
    <3>2. /\ call.at \in Hits(list, in) /\ call.at \in Nat
          /\ \A i \in Hits(list, in) :
               list[call.at].entry.priority <= list[i].entry.priority
      BY <2>2, <3>1, FirstHit
    <3>3. call \in Call
      BY <3>2 DEF Call
    <3>4. RightlyChosen(commands', call)
      BY <1>3, <3>2 DEF RightlyChosen
    <3>5. QED
      BY <1>2, <2>2, <3>3, <3>4, PushKeeps DEF IInv, Execute
  <2>3. QED
    BY <1>1, <2>1, <2>2
<1>5. GraphInv' /\ RegistryInv'
  BY GraphSame DEF IInv, Execute, RegistryInv, OneEntryPerKey
<1>6. QED
  BY <1>2, <1>4, <1>5 DEF IInv

(* Writing the args of the command at work changes no entry and no order.  *)
LEMMA SetArgsKeeps ==
  ASSUME IInv, calls # <<>>, NEW value \in SUBSET Input, SetArgs(value),
         UNCHANGED <<commandRegistry, loaded>>
  PROVE  /\ HandlersInv' /\ LoadedStayRegistered' /\ RegistryInv'
         /\ Top \in Call /\ Top.at \in DOMAIN commands[Top.handler]
         /\ \A g \in Puppet :
              /\ DOMAIN commands'[g] = DOMAIN commands[g]
              /\ \A i \in DOMAIN commands[g] :
                   /\ commands'[g][i].entry = commands[g][i].entry
                   /\ commands'[g][i].args = IF g = Top.handler /\ i = Top.at
                                             THEN value ELSE commands[g][i].args
<1> DEFINE h == Top.handler
           a == Top.at
           list == [commands[h] EXCEPT ![a].args = value]
<1>1. /\ Len(calls) \in DOMAIN calls /\ Top \in Call /\ h \in Puppet
  BY EmptySeq, CallTypes DEF IInv, CallsInv, Top, Call
<1>2. a \in DOMAIN commands[h]
  BY <1>1 DEF IInv, FirstByPriority, Hits, Top
<1>3. /\ commands[h] \in Seq(LoadedCommand)
      /\ commands[h][a] \in LoadedCommand
  BY <1>1, <1>2 DEF IInv, HandlersInv
<1>4. commands' = [commands EXCEPT ![h] = list]
  BY DEF SetArgs
<1>5. /\ DOMAIN list = DOMAIN commands[h]
      /\ \A i \in DOMAIN commands[h] :
           /\ list[i].entry = commands[h][i].entry
           /\ list[i].args = IF i = a THEN value ELSE commands[h][i].args
      /\ list \in Seq(LoadedCommand)
  <2>1. \A i \in DOMAIN commands[h] : commands[h][i] \in LoadedCommand
    BY <1>3
  <2>2. [commands[h][a] EXCEPT !.args = value] \in LoadedCommand
    BY <1>3 DEF LoadedCommand
  <2>3. /\ [commands[h][a] EXCEPT !.args = value].entry = commands[h][a].entry
        /\ [commands[h][a] EXCEPT !.args = value].args = value
    BY <1>3 DEF LoadedCommand
  <2>4. QED
    BY <1>2, <1>3, <2>1, <2>2, <2>3
<1> HIDE DEF list, h, a
<1>6. \A g \in Puppet : commands'[g] = IF g = h THEN list ELSE commands[g]
  BY <1>1, <1>4 DEF IInv, HandlersInv
<1>7. \A g \in Puppet :
        /\ DOMAIN commands'[g] = DOMAIN commands[g]
        /\ \A i \in DOMAIN commands[g] :
             /\ commands'[g][i].entry = commands[g][i].entry
             /\ commands'[g][i].args = IF g = h /\ i = a
                                       THEN value ELSE commands[g][i].args
  BY <1>5, <1>6
<1>8. HandlersInv'
  <2>1. commands' \in [Puppet -> Seq(LoadedCommand)]
    BY <1>4, <1>5 DEF IInv, HandlersInv
  <2>2. \A g \in Puppet : Sorted(commands'[g])
    BY <1>7 DEF IInv, HandlersInv, Sorted
  <2>3. \A g \in Puppet : ~loaded[g] => commands'[g] = <<>>
    <3>1. commands[h] # <<>>
      BY <1>2 DEF h, a
    <3>2. QED
      BY <1>1, <1>6, <3>1 DEF IInv, HandlersInv, h, a
  <2>4. QED
    BY <2>1, <2>2, <2>3 DEF IInv, HandlersInv
<1>9. LoadedStayRegistered' /\ RegistryInv'
  BY <1>7 DEF IInv, LoadedStayRegistered, RegistryInv, OneEntryPerKey
<1>10. QED
  BY <1>1, <1>2, <1>7, <1>8, <1>9 DEF h, a

(* No entry moves, so that each call is still at the command it chose.     *)
LEMMA StillChosen ==
  ASSUME NEW call \in Call, RightlyChosen(commands, call),
         \A g \in Puppet :
           /\ DOMAIN commands'[g] = DOMAIN commands[g]
           /\ \A i \in DOMAIN commands[g] :
                commands'[g][i].entry = commands[g][i].entry
  PROVE  RightlyChosen(commands', call)
<1>1. call.handler \in Puppet
  BY DEF Call
<1>2. Hits(commands'[call.handler], call.input) = Hits(commands[call.handler], call.input)
  BY <1>1 DEF Hits
<1>3. QED
  BY <1>1, <1>2 DEF RightlyChosen, Hits

LEMMA MayExecuteKeeps ==
  ASSUME IInv, MayExecute
  PROVE  IInv'
<1> DEFINE n == Len(calls)
           value == Args(Top.handler, Top.at) \cup {Top.input}
<1>1. /\ n \in Nat /\ n # 0 /\ DOMAIN calls = 1..n
      /\ Top \in Call /\ Top.handler \in Puppet /\ Top.input \in Input
      /\ Top.at \in DOMAIN commands[Top.handler]
  <2>1. n \in Nat /\ n # 0 /\ DOMAIN calls = 1..n /\ Top \in Call
    BY EmptySeq, CallTypes DEF IInv, CallsInv, MayExecute, Top
  <2>2. n \in DOMAIN calls
    BY <2>1
  <2>3. QED
    BY <2>1, <2>2 DEF IInv, FirstByPriority, Hits, Top, Call
<1>2. value \in SUBSET Input
  <2>1. commands[Top.handler][Top.at] \in LoadedCommand
    BY <1>1 DEF IInv, HandlersInv
  <2>2. QED
    BY <1>1, <2>1 DEF Args, LoadedCommand
<1>3. SetArgs(value) /\ UNCHANGED <<commandRegistry, loaded>> /\ calls # <<>>
  BY DEF MayExecute
<1>4. /\ HandlersInv' /\ LoadedStayRegistered' /\ RegistryInv'
      /\ \A g \in Puppet :
           /\ DOMAIN commands'[g] = DOMAIN commands[g]
           /\ \A i \in DOMAIN commands[g] :
                /\ commands'[g][i].entry = commands[g][i].entry
                /\ commands'[g][i].args = IF g = Top.handler /\ i = Top.at
                                          THEN value ELSE commands[g][i].args
  BY <1>2, <1>3, SetArgsKeeps
<1>5. /\ calls' \in Seq(Call) /\ Len(calls') = n /\ DOMAIN calls' = 1..n
      /\ \A k \in 1..n : /\ calls'[k].handler = calls[k].handler
                         /\ calls'[k].at = calls[k].at
                         /\ calls'[k].input = calls[k].input
                         /\ calls'[k].pc = IF k = n THEN "execute" ELSE calls[k].pc
  <2>1. calls' = [calls EXCEPT ![n] = [Top EXCEPT !.pc = "execute"]]
    BY DEF MayExecute, Top
  <2>2. [Top EXCEPT !.pc = "execute"] \in Call
    BY <1>1 DEF Call
  <2>3. n \in 1..n /\ calls \in Seq(Call)
    BY <1>1 DEF IInv, CallsInv
  <2>4. /\ [Top EXCEPT !.pc = "execute"].handler = Top.handler
        /\ [Top EXCEPT !.pc = "execute"].at = Top.at
        /\ [Top EXCEPT !.pc = "execute"].input = Top.input
        /\ [Top EXCEPT !.pc = "execute"].pc = "execute"
    BY <1>1 DEF Call
  <2>5. calls[n] = Top
    BY DEF Top
  <2> HIDE DEF n
  <2>6. \A k \in 1..n : calls'[k] = IF k = n THEN [Top EXCEPT !.pc = "execute"] ELSE calls[k]
    BY <2>1, <2>3, <1>1
  <2>7. calls' \in Seq(Call) /\ Len(calls') = n /\ DOMAIN calls' = 1..n
    BY <1>1, <2>1, <2>2, <2>3 DEF n
  <2>8. QED
    BY <2>4, <2>5, <2>6, <2>7
<1> HIDE DEF n, value
<1>6. CallsInv'
  <2>1. \A k \in 1..n : k < n => calls[k].pc = "execute"
    BY <1>1 DEF IInv, CallsInv, n
  <2>2. \A k \in 1..n : calls'[k].pc = "execute"
    BY <1>1, <1>5, <2>1
  <2>3. QED
    BY <1>5, <2>2 DEF CallsInv
<1>7. NoArgsLeftOver'
  <2> SUFFICES ASSUME NEW h \in Puppet, NEW i \in DOMAIN commands'[h],
                      NEW in \in commands'[h][i].args
               PROVE  \E k \in DOMAIN calls' :
                        /\ calls'[k].handler = h /\ calls'[k].at = i
                        /\ calls'[k].pc = "execute" /\ calls'[k].input = in
    BY DEF NoArgsLeftOver, Args
  <2>1. CASE in \in commands[h][i].args
    <3>1. PICK k \in DOMAIN calls :
                 /\ calls[k].handler = h /\ calls[k].at = i
                 /\ calls[k].pc = "execute" /\ calls[k].input = in
      BY <1>4, <2>1 DEF IInv, NoArgsLeftOver, Args
    <3>2. QED
      BY <1>1, <1>5, <3>1
  <2>2. CASE in \notin commands[h][i].args
    <3>1. h = Top.handler /\ i = Top.at /\ in = Top.input
      BY <1>4, <2>2 DEF value, Args
    <3>2. n \in 1..n /\ calls[n] = Top
      BY <1>1 DEF Top, n
    <3>3. QED
      BY <1>5, <3>1, <3>2
  <2>3. QED
    BY <2>1, <2>2
<1>8. FirstByPriority'
  <2>1. \A k \in DOMAIN calls : RightlyChosen(commands', calls[k])
    BY <1>4, CallTypes, ChosenIs, StillChosen DEF IInv
  <2>2. QED
    BY <1>1, <1>5, <2>1 DEF FirstByPriority, RightlyChosen
<1>9. GraphInv'
  BY GraphSame DEF IInv, MayExecute
<1>10. QED
  BY <1>4, <1>6, <1>7, <1>8, <1>9 DEF IInv

(***************************************************************************)
(* The innermost call ends.  The call that accounts for the args of some   *)
(* other command is not the one that ends; the args of its own are cleared.*)
(***************************************************************************)
LEMMA LeaveKeeps ==
  ASSUME IInv, Leave
  PROVE  IInv'
<1> DEFINE n == Len(calls)
<1>1. n \in Nat /\ n # 0 /\ DOMAIN calls = 1..n
  BY EmptySeq, CallTypes DEF IInv, CallsInv, Leave
<1>2. /\ HandlersInv' /\ LoadedStayRegistered' /\ RegistryInv'
      /\ \A g \in Puppet :
           /\ DOMAIN commands'[g] = DOMAIN commands[g]
           /\ \A i \in DOMAIN commands[g] :
                /\ commands'[g][i].entry = commands[g][i].entry
                /\ commands'[g][i].args = IF g = Top.handler /\ i = Top.at
                                          THEN {} ELSE commands[g][i].args
  BY SetArgsKeeps DEF Leave
<1>3. /\ calls' \in Seq(Call) /\ Len(calls') = n - 1 /\ DOMAIN calls' = 1 .. (n - 1)
      /\ \A k \in 1 .. (n - 1) : calls'[k] = calls[k]
  <2>1. calls \in Seq(Call) /\ calls # <<>> /\ calls' = Front(calls)
    BY DEF IInv, CallsInv, Leave
  <2>2. QED
    BY <2>1, FrontLemma
<1>4. calls[n] = Top
  BY DEF Top
<1> HIDE DEF n
<1>5. \A k \in 1..n : k \in 1 .. (n - 1) \/ k = n
  BY <1>1
<1>6. CallsInv'
  <2>1. \A k \in 1 .. (n - 1) : k \in 1..n /\ k < n
    BY <1>1
  <2>2. QED
    BY <1>1, <1>3, <2>1 DEF IInv, CallsInv, n
<1>7. NoArgsLeftOver'
  <2> SUFFICES ASSUME NEW h \in Puppet, NEW i \in DOMAIN commands'[h],
                      NEW in \in commands'[h][i].args
               PROVE  \E k \in DOMAIN calls' :
                        /\ calls'[k].handler = h /\ calls'[k].at = i
                        /\ calls'[k].pc = "execute" /\ calls'[k].input = in
    BY DEF NoArgsLeftOver, Args
  <2>1. in \in commands[h][i].args /\ ~(h = Top.handler /\ i = Top.at)
    BY <1>2
  <2>2. PICK k \in 1..n :
               /\ calls[k].handler = h /\ calls[k].at = i
               /\ calls[k].pc = "execute" /\ calls[k].input = in
    BY <1>1, <1>2, <2>1 DEF IInv, NoArgsLeftOver, Args
  <2>3. k \in 1 .. (n - 1)
    BY <1>4, <1>5, <2>1, <2>2
  <2>4. QED
    BY <1>3, <2>2, <2>3
<1>8. FirstByPriority'
  <2>1. \A k \in DOMAIN calls : RightlyChosen(commands', calls[k])
    BY <1>2, CallTypes, ChosenIs, StillChosen DEF IInv
  <2>2. \A k \in 1 .. (n - 1) : k \in 1..n
    BY <1>1
  <2>3. QED
    BY <1>1, <1>3, <2>1, <2>2 DEF FirstByPriority, RightlyChosen
<1>9. GraphInv'
  BY GraphSame DEF IInv, Leave
<1>10. QED
  BY <1>2, <1>6, <1>7, <1>8, <1>9 DEF IInv

LEMMA Inductive == Spec => []IInv
<1>1. Init => IInv
  BY InitIInv
<1>2. IInv /\ [Next]_vars => IInv'
  <2> SUFFICES ASSUME IInv, [Next]_vars PROVE IInv'
    OBVIOUS
  <2>1. ASSUME NEW e \in CommandEntry, RegisterCommand(e) PROVE IInv'
    BY <2>1, RegisterKeeps
  <2>2. ASSUME NEW h \in Puppet, Load(h) PROVE IInv'
    BY <2>2, LoadStepKeeps
  <2>3. ASSUME NEW h \in Puppet, NEW in \in Input, Execute(h, in) PROVE IInv'
    BY <2>3, ExecuteKeeps
  <2>4. CASE MayExecute
    BY <2>4, MayExecuteKeeps
  <2>5. CASE Leave
    BY <2>5, LeaveKeeps
  <2>6. CASE Relate
    BY <2>6, GraphKeeps, HandlersSame DEF IInv, Relate
  <2>7. CASE UNCHANGED vars
    BY <2>7, GraphSame, HandlersSame DEF IInv, vars
  <2>8. QED
    BY <2>1, <2>2, <2>3, <2>4, <2>5, <2>6, <2>7 DEF Next
<1>3. QED
  BY <1>1, <1>2, PTL DEF Spec

-----------------------------------------------------------------------------
(* The results. *)

(* Commands that change relations, nested and cut short in any way, keep   *)
(* forward and reverse relations in agreement (Object.cpp:346-382).        *)
THEOREM CommandsMirror == Spec => []Mirror
<1>1. IInv => Mirror
  BY DEF IInv, GraphInv
<1>2. QED
  BY <1>1, Inductive, PTL

(* Args of an input never outlive the call that put them there, however    *)
(* calls nest and whichever hook throws (Commands.cpp:75-88).              *)
THEOREM ArgsAreReset == Spec => []NoArgsLeftOver
<1>1. IInv => NoArgsLeftOver
  BY DEF IInv
<1>2. QED
  BY <1>1, Inductive, PTL

(* The command at work is the first by priority of those that match        *)
(* (Commands.cpp:71-74, 116).                                              *)
THEOREM FirstMatchRuns == Spec => []FirstByPriority
<1>1. IInv => FirstByPriority
  BY DEF IInv
<1>2. QED
  BY <1>1, Inductive, PTL

(* What a handler has loaded stays registered, one command per name, each  *)
(* of a type of the object (Commands.cpp:54, 95-117).                      *)
THEOREM LoadedCommandsStay == Spec => []LoadedStayRegistered
<1>1. IInv => LoadedStayRegistered
  BY DEF IInv
<1>2. QED
  BY <1>1, Inductive, PTL

(* Commands change relations one object at a time, and leave the order of  *)
(* the others alone (Object.cpp:346-382).                                  *)
THEOREM CommandsKeepOrder == Spec => OnlyOneMoves
<1>1. IInv /\ [Next]_vars => [\E o \in Object : OthersStay(o)]_graph
  <2> SUFFICES ASSUME IInv, [Next]_vars
               PROVE  [\E o \in Object : OthersStay(o)]_graph
    OBVIOUS
  <2>1. CASE Relate
    BY <2>1, OneMoves DEF IInv, Relate
  <2>2. CASE ~Relate
    BY <2>2 DEF Next, RegisterCommand, Load, Execute, MayExecute, Leave, vars
  <2>3. QED
    BY <2>1, <2>2
<1>2. QED
  BY <1>1, Inductive, PTL DEF Spec, OnlyOneMoves

=============================================================================
