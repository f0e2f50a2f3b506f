--------------------------- MODULE MovementProofs ---------------------------
(***************************************************************************)
(* moveTo and atDelete keep the locations a forest, and implement          *)
(* Containment, for any set of objects and any depth of nested calls, when *)
(* the game moves nothing in the window between a move's walk and its      *)
(* setRelation (WindowIsQuiet).                                            *)
(*                                                                         *)
(* The forest alone is not inductive: setRelation is safe because of what  *)
(* the walk saw, some steps earlier.  The strengthening says, for each     *)
(* call, what its walk has established so far (Walked), and that the only  *)
(* calls that are suspended are in hooks where this does not matter.       *)
(***************************************************************************)
EXTENDS Sessions, RelationsProofs

(* What the walk of the call f has established about the locations loc.    *)
Walked(loc, f) ==
  /\ f.pc = "walk" =>
       /\ f.obj # f.d
       /\ f.obj \in Enclosing(loc, f.dest) => f.obj \in Enclosing(loc, f.d)
  /\ f.pc \in WindowHooks \cup {"clear", "set"} /\ f.dest # NoObject =>
       f.obj \notin Enclosing(loc, f.dest)

(* The calls in progress: of the right type, and suspended in hooks only. *)
StackOK ==
  /\ stack \in Seq(Frame)
  /\ \A i \in DOMAIN stack : Usable(stack[i])
  /\ \A i \in DOMAIN stack : i < Len(stack) => stack[i].pc \in ReentrantHooks

(* The inductive invariant. *)
IInv ==
  /\ GraphInv
  /\ StackOK
  /\ Forest
  /\ stack # <<>> => Walked(Where, Top)

-----------------------------------------------------------------------------
(* The call stack. *)

LEMMA PushStack ==
  ASSUME StackOK, NEW f \in Frame, Usable(f), stack' = Append(stack, f),
         stack # <<>> => Top.pc \in ReentrantHooks
  PROVE  StackOK' /\ stack' # <<>> /\ Top' = f
<1>1. /\ stack' \in Seq(Frame)
      /\ Len(stack') = Len(stack) + 1
      /\ \A i \in 1..Len(stack) : stack'[i] = stack[i]
      /\ stack'[Len(stack) + 1] = f
  BY DEF StackOK
<1>2. DOMAIN stack = 1..Len(stack) /\ DOMAIN stack' = 1..Len(stack')
  BY <1>1 DEF StackOK
<1>3. Len(stack) \in Nat
  BY DEF StackOK
<1>4. \A i \in DOMAIN stack' : Usable(stack'[i])
  BY <1>1, <1>2, <1>3 DEF StackOK
<1>5. ASSUME NEW i \in DOMAIN stack', i < Len(stack')
      PROVE  stack'[i].pc \in ReentrantHooks
  <2>1. i \in 1..Len(stack) /\ stack'[i] = stack[i]
    BY <1>1, <1>2, <1>3, <1>5
  <2>2. CASE i < Len(stack)
    BY <1>2, <2>1, <2>2 DEF StackOK
  <2>3. CASE i = Len(stack)
    <3>1. stack # <<>>
      BY <1>2, <2>1
    <3>2. QED
      BY <2>1, <2>3, <3>1 DEF Top
  <2>4. QED
    BY <1>3, <2>1, <2>2, <2>3
<1>6. QED
  BY <1>1, <1>3, <1>4, <1>5 DEF StackOK, Top

LEMMA EnterStack ==
  ASSUME StackOK, stack # <<>>, NEW f \in Frame, Usable(f), Enter(f)
  PROVE  StackOK' /\ stack' # <<>> /\ Top' = f
<1>1. Len(stack) \in Nat \ {0} /\ DOMAIN stack = 1..Len(stack)
  BY DEF StackOK
<1>2. /\ stack' \in Seq(Frame)
      /\ Len(stack') = Len(stack)
      /\ DOMAIN stack' = DOMAIN stack
      /\ \A i \in 1..Len(stack) :
           stack'[i] = IF i = Len(stack) THEN f ELSE stack[i]
  BY <1>1 DEF StackOK, Enter
<1>3. /\ Len(stack) \in 1..Len(stack)
      /\ stack'[Len(stack)] = f
      /\ \A i \in DOMAIN stack : i < Len(stack) => stack'[i] = stack[i]
      /\ \A i \in DOMAIN stack : i < Len(stack) \/ i = Len(stack)
  <2> DEFINE n == Len(stack)
  <2>1. n \in Nat /\ n # 0
    BY <1>1
  <2> HIDE DEF n
  <2>2. n \in 1..n
    BY <2>1
  <2>3. \A i \in 1..n : i < n \/ i = n
    BY <2>1
  <2>4. \A i \in 1..n : i < n => i # n
    BY <2>1
  <2>5. stack'[n] = f
    BY <1>2, <2>2 DEF n
  <2>6. QED
    BY <1>1, <1>2, <2>2, <2>3, <2>4, <2>5 DEF n
<1>4. \A i \in DOMAIN stack' : Usable(stack'[i])
  BY <1>2, <1>3 DEF StackOK
<1>5. \A i \in DOMAIN stack' :
        i < Len(stack') => stack'[i].pc \in ReentrantHooks
  BY <1>2, <1>3 DEF StackOK
<1>6. Top' = f
  BY <1>2, <1>3 DEF Top
<1>7. stack' # <<>>
  BY <1>1, <1>2
<1>8. QED
  BY <1>2, <1>4, <1>5, <1>6, <1>7 DEF StackOK

LEMMA PopStack ==
  ASSUME StackOK, stack # <<>>, Return
  PROVE  StackOK' /\ (stack' # <<>> => Top'.pc \in ReentrantHooks)
<1>1. Len(stack) \in Nat \ {0} /\ DOMAIN stack = 1..Len(stack)
  BY DEF StackOK
<1>2. /\ stack' \in Seq(Frame)
      /\ Len(stack') = Len(stack) - 1
      /\ \A i \in 1..Len(stack') : stack'[i] = stack[i]
  <2>1. stack' = SubSeq(stack, 1, Len(stack) - 1)
    BY DEF Return, Front
  <2>2. QED
    BY <1>1, <2>1, SubSeqProperties DEF StackOK
<1>3. DOMAIN stack' = 1..Len(stack')
  BY <1>2
<1>4. \A i \in DOMAIN stack' : i \in DOMAIN stack /\ i < Len(stack)
  BY <1>1, <1>2, <1>3
<1>5. StackOK'
  BY <1>2, <1>3, <1>4 DEF StackOK
<1>6. ASSUME stack' # <<>> PROVE Top'.pc \in ReentrantHooks
  <2>1. Len(stack') \in DOMAIN stack' /\ Len(stack') \in 1..Len(stack')
    BY <1>1, <1>2, <1>3, <1>6
  <2>2. Top' = stack[Len(stack')]
    BY <1>2, <2>1 DEF Top
  <2>3. QED
    BY <1>4, <2>1, <2>2 DEF StackOK
<1>7. QED
  BY <1>5, <1>6

(* The innermost call is one of the calls. *)
LEMMA TopOK ==
  ASSUME StackOK, stack # <<>>
  PROVE  Top \in Frame /\ Usable(Top)
<1>1. Len(stack) \in DOMAIN stack /\ stack[Len(stack)] \in Frame
  BY DEF StackOK
<1>2. QED
  BY <1>1 DEF StackOK, Top

-----------------------------------------------------------------------------
(* The locations. *)

(* Where is a function on the objects. *)
LEMMA WhereType ==
  ASSUME RelationsTypeOK
  PROVE  /\ DOMAIN Where = Object
         /\ Where = [x \in DOMAIN Where |-> Where[x]]
         /\ \A x \in Object : Where[x] \in Object \cup {NoObject}
BY MovementAssumption DEF Where, RelationsTypeOK

(* clearRelation("location") takes the object out. *)
LEMMA ClearWhere ==
  ASSUME RelationsTypeOK, NEW o \in Object, ClearRelation(o, Location)
  PROVE  Where' = [Where EXCEPT ![o] = NoObject]
<1> USE MovementAssumption DEF Where
<1>1. CASE relations[o][Location] = NoObject
  <2>1. relations' = relations
    BY <1>1 DEF ClearRelation, graph
  <2>2. QED
    BY <1>1, <2>1
<1>2. CASE relations[o][Location] # NoObject
  <2>1. relations' = [relations EXCEPT ![o][Location] = NoObject]
    BY <1>2 DEF ClearRelation
  <2>2. QED
    BY <2>1 DEF RelationsTypeOK
<1>3. QED
  BY <1>1, <1>2

(* setRelation("location", dest) puts the object in, or only takes it out. *)
LEMMA SetWhere ==
  ASSUME RelationsTypeOK, NEW o \in Object, NEW dest \in Object,
         SetRelation(o, Location, dest)
  PROVE  \/ Where' = [Where EXCEPT ![o] = dest]
         \/ Where' = [Where EXCEPT ![o] = NoObject]
<1> USE MovementAssumption
<1>1. CASE ClearRelation(o, Location)
  BY <1>1, ClearWhere
<1>2. CASE Link(o, Location, dest) \/ Relink(o, Location, dest)
  <2>1. relations' = [relations EXCEPT ![o][Location] = dest]
    BY <1>2 DEF Link, Relink
  <2>2. QED
    BY <2>1 DEF RelationsTypeOK, Where
<1>3. QED
  BY <1>1, <1>2 DEF SetRelation

(* A step that leaves the relations alone leaves the locations alone. *)
LEMMA SameWhere ==
  ASSUME GraphInv, Forest, UNCHANGED graph
  PROVE  GraphInv' /\ Forest' /\ Where' = Where
BY DEF graph, GraphInv, RelationsTypeOK, Mirror, BackPointers, NoDuplicates,
       Forest, Where

(* A step that takes an object out keeps the forest, and nothing that was *)
(* not enclosed becomes enclosed.                                          *)
LEMMA TakenOut ==
  ASSUME GraphInv, Forest, NEW o \in Object,
         Where' = [Where EXCEPT ![o] = NoObject]
  PROVE  /\ Forest'
         /\ \A d \in Object : Enclosing(Where', d) \subseteq Enclosing(Where, d)
         /\ Abstract!Next
<1>1. /\ DOMAIN Where = Object
      /\ Where = [x \in DOMAIN Where |-> Where[x]]
  BY WhereType DEF GraphInv
<1>2. IsForest([Where EXCEPT ![o] = NoObject])
  BY <1>1, TakeOutForest, NullIsNoObject DEF Forest
<1>3. \A d : Enclosing([Where EXCEPT ![o] = NoObject], d)
               \subseteq Enclosing(Where, d)
  BY <1>1, EnclosingShrinks, NullIsNoObject
<1>4. QED
  BY <1>2, <1>3 DEF Forest, Abstract!Next, Abstract!TakeOut

(* A step that puts an object into one it does not enclose keeps it too. *)
LEMMA PutIn ==
  ASSUME GraphInv, Forest, NEW o \in Object, NEW dest \in Object,
         o \notin Enclosing(Where, dest),
         Where' = [Where EXCEPT ![o] = dest]
  PROVE  Forest' /\ Abstract!Next
<1>1. /\ DOMAIN Where = Object
      /\ Where = [x \in DOMAIN Where |-> Where[x]]
  BY WhereType DEF GraphInv
<1>2. IsForest([Where EXCEPT ![o] = dest])
  BY <1>1, PutForest DEF Forest
<1>3. QED
  BY <1>2 DEF Forest, Abstract!Next, Abstract!Put, Abstract!Enclosing,
              Enclosing, Abstract!Closed, Closed

-----------------------------------------------------------------------------
(* The three ways a step changes the call stack. *)

(* A new call starts in a hook that precedes its walk. *)
LEMMA CallKeeps ==
  ASSUME IInv, NEW f \in Frame, Usable(f), Call(f),
         f.pc \in {"atPreMove", "atObjectDeleted"}
  PROVE  IInv' /\ Where' = Where
<1>1. GraphInv' /\ Forest' /\ Where' = Where
  BY SameWhere DEF IInv, Call
<1>2. StackOK' /\ Top' = f
  BY PushStack DEF IInv, Call
<1>3. Walked(Where', f)
  BY DEF Walked, WindowHooks
<1>4. QED
  BY <1>1, <1>2, <1>3 DEF IInv

(* The call returned to is in a hook outside the window. *)
LEMMA ReturnKeeps ==
  ASSUME WindowIsQuiet, IInv, stack # <<>>, Return, GraphInv', Forest'
  PROVE  IInv'
<1>1. StackOK' /\ (stack' # <<>> => Top'.pc \in ReentrantHooks)
  BY PopStack DEF IInv
<1>2. ASSUME stack' # <<>> PROVE Walked(Where', Top')
  <2>1. Top'.pc \in Hooks /\ Top'.pc \notin WindowHooks
    BY <1>1, <1>2, MovementAssumption DEF WindowIsQuiet
  <2>2. Hooks \cap {"walk", "clear", "set"} = {}
    BY DEF Hooks, PreHooks, PostHooks, DeleteHooks
  <2>3. QED
    BY <2>1, <2>2 DEF Walked
<1>3. QED
  BY <1>1, <1>2 DEF IInv

(* The innermost call goes on. *)
LEMMA EnterKeeps ==
  ASSUME IInv, stack # <<>>, NEW f \in Frame, Usable(f), Enter(f),
         Walked(Where', f), GraphInv', Forest'
  PROVE  IInv'
BY EnterStack DEF IInv

(* The call with another pc is still a call. *)
LEMMA GotoFrame ==
  ASSUME NEW f \in Frame,
         NEW pc \in Hooks \cup {"walk", "clear", "set", "deleteClear"}
  PROVE  LET g == [f EXCEPT !.pc = pc] IN
         /\ g \in Frame
         /\ g.pc = pc
         /\ g.obj = f.obj /\ g.dest = f.dest /\ g.loc = f.loc
         /\ g.d = f.d /\ g.quiet = f.quiet
BY DEF Frame

-----------------------------------------------------------------------------
(* The steps of moveTo that decide whether the object may move. *)

(* The walk begins: what encloses d is what encloses the destination. *)
LEMMA StartWalkKeeps ==
  ASSUME IInv, StartWalk PROVE IInv' /\ Where' = Where
<1> DEFINE f == [Top EXCEPT !.pc = "walk", !.d = Top.dest]
<1>1. stack # <<>> /\ Top \in Frame
  BY TopOK DEF IInv, StartWalk, MayLeave, At
<1>2. GraphInv' /\ Forest' /\ Where' = Where
  BY SameWhere DEF IInv, StartWalk
<1>3. /\ f \in Frame
      /\ f.pc = "walk" /\ f.d = Top.dest /\ f.dest = Top.dest
      /\ f.obj = Top.obj
      /\ Top.dest \in Object /\ Top.dest # Top.obj
  BY <1>1 DEF Frame, StartWalk
<1>4. Usable(f) /\ Walked(Where', f)
  BY <1>3 DEF Usable, Walked, WindowHooks
<1>5. Enter(f)
  BY DEF StartWalk
<1> HIDE DEF f
<1>6. QED
  BY <1>1, <1>2, <1>3, <1>4, <1>5, EnterKeeps

(* The walk goes up by one location, which is not the mover. *)
LEMMA WalkUpKeeps ==
  ASSUME IInv, WalkUp PROVE IInv' /\ Where' = Where
<1> DEFINE l == Where[Top.d]
           f == [Top EXCEPT !.d = l]
<1>1. /\ stack # <<>> /\ Top \in Frame /\ Usable(Top)
      /\ Walked(Where, Top) /\ Top.pc = "walk"
  BY TopOK DEF IInv, WalkUp, At
<1>2. GraphInv' /\ Forest' /\ Where' = Where
  BY SameWhere DEF IInv, WalkUp
<1>3. Top.d \in Object /\ l \in Object /\ l # Top.obj /\ DOMAIN Where = Object
  BY <1>1, WhereType DEF IInv, GraphInv, WalkUp, Usable
<1>4. /\ f \in Frame
      /\ f.pc = "walk" /\ f.d = l /\ f.dest = Top.dest /\ f.obj = Top.obj
  BY <1>1, <1>3 DEF Frame
<1>5. Enclosing(Where, Top.d) \subseteq {Top.d} \cup Enclosing(Where, l)
  BY <1>3, EnclosingStep
<1>6. Walked(Where, f)
  BY <1>1, <1>3, <1>4, <1>5 DEF Walked, WindowHooks
<1>7. Usable(f)
  BY <1>1, <1>3, <1>4 DEF Usable
<1>8. Enter(f)
  BY DEF WalkUp
<1> HIDE DEF f, l
<1>9. QED
  BY <1>1, <1>2, <1>4, <1>6, <1>7, <1>8, EnterKeeps

(* The walk ends where nothing encloses d: the mover is not up there. *)
LEMMA AskDestinationKeeps ==
  ASSUME IInv, AskDestination PROVE IInv' /\ Where' = Where
<1> DEFINE f == [Top EXCEPT !.pc = "atPreObjectReceive", !.d = NoObject]
<1>1. /\ stack # <<>> /\ Top \in Frame /\ Usable(Top)
      /\ Walked(Where, Top) /\ Top.pc = "walk"
  BY TopOK DEF IInv, AskDestination, At
<1>2. GraphInv' /\ Forest' /\ Where' = Where
  BY SameWhere DEF IInv, AskDestination
<1>3. /\ Top.d \in Object /\ Top.dest \in Object
      /\ Where[Top.d] \notin DOMAIN Where /\ DOMAIN Where = Object
  BY <1>1, WhereType, NullIsNoObject
     DEF IInv, GraphInv, AskDestination, Usable
<1>4. Enclosing(Where, Top.d) \subseteq {Top.d}
  BY <1>3, EnclosingTop
<1>5. Top.obj \notin Enclosing(Where, Top.dest)
  BY <1>1, <1>4 DEF Walked
<1>6. /\ f \in Frame
      /\ f.pc = "atPreObjectReceive" /\ f.dest = Top.dest /\ f.obj = Top.obj
  BY <1>1 DEF Frame, Hooks, PreHooks
<1>7. Walked(Where, f) /\ Usable(f)
  BY <1>3, <1>5, <1>6 DEF Walked, Usable
<1>8. Enter(f)
  BY DEF AskDestination
<1> HIDE DEF f
<1>9. QED
  BY <1>1, <1>2, <1>6, <1>7, <1>8, EnterKeeps

(* The steps that only go from one hook to the next. *)
LEMMA HookKeeps ==
  ASSUME IInv,
         AskOrigin \/ StartMove \/ AnnounceFrom \/ AnnouncedFrom
           \/ AnnounceTo \/ AnnouncedTo \/ DeleteLeft
  PROVE  IInv' /\ Where' = Where
<1>1. stack # <<>> /\ Top \in Frame /\ Usable(Top) /\ Walked(Where, Top)
  BY TopOK DEF IInv, AskOrigin, StartMove, MayLeave, AnnounceFrom,
               AnnouncedFrom, AnnounceTo, AnnouncedTo, DeleteLeft, At
<1>2. UNCHANGED graph
  BY DEF AskOrigin, StartMove, AnnounceFrom, AnnouncedFrom,
         AnnounceTo, AnnouncedTo, DeleteLeft
<1>3. GraphInv' /\ Forest' /\ Where' = Where
  BY <1>2, SameWhere DEF IInv
<1>4. ASSUME NEW pc \in Hooks \cup {"walk", "clear", "set", "deleteClear"},
             Goto(pc),
             Usable([Top EXCEPT !.pc = pc]),
             Walked(Where, [Top EXCEPT !.pc = pc])
      PROVE  IInv'
  BY <1>1, <1>3, <1>4, GotoFrame, EnterKeeps DEF Goto
<1>5. ASSUME NEW pc \in Hooks \cup {"walk", "clear", "set", "deleteClear"}
      PROVE  LET g == [Top EXCEPT !.pc = pc] IN
             /\ g.pc = pc
             /\ g.obj = Top.obj /\ g.dest = Top.dest /\ g.loc = Top.loc
  BY <1>1, <1>5, GotoFrame
<1> USE DEF Usable, Walked, WindowHooks, Hooks, PreHooks, PostHooks,
            DeleteHooks, At
<1>6. CASE AskOrigin
  <2>1. Top.loc \in Object
    BY <1>1, <1>6 DEF AskOrigin, Frame
  <2>2. QED
    BY <1>3, <1>4, <1>5, <1>6, <2>1 DEF AskOrigin
<1>7. CASE StartMove
  <2>1. Top.dest # NoObject => At("atPreObjectReceive")
    BY <1>7 DEF StartMove
  <2>2. Top.loc \in Object \cup {NoObject} /\ Top.dest \in Object \cup {NoObject}
    BY <1>1 DEF Frame
  <2>3. CASE Top.loc # NoObject
    BY <1>1, <1>3, <1>4, <1>5, <1>7, <2>1, <2>2, <2>3 DEF StartMove
  <2>4. CASE Top.loc = NoObject /\ Top.dest # NoObject
    BY <1>1, <1>3, <1>4, <1>5, <1>7, <2>1, <2>2, <2>4 DEF StartMove
  <2>5. CASE Top.loc = NoObject /\ Top.dest = NoObject
    BY <1>1, <1>3, <1>4, <1>5, <1>7, <2>1, <2>2, <2>5 DEF StartMove
  <2>6. QED
    BY <2>3, <2>4, <2>5
<1>8. CASE AnnounceFrom
  <2>1. CASE Top.quiet
    BY <1>1, <1>3, <1>4, <1>5, <1>8, <2>1 DEF AnnounceFrom
  <2>2. CASE ~Top.quiet
    BY <1>1, <1>3, <1>4, <1>5, <1>8, <2>2 DEF AnnounceFrom
  <2>3. QED
    BY <2>1, <2>2
<1>9. CASE AnnouncedFrom
  BY <1>1, <1>3, <1>4, <1>5, <1>9 DEF AnnouncedFrom
<1>10. CASE AnnounceTo
  <2>1. CASE Top.quiet
    BY <1>1, <1>3, <1>4, <1>5, <1>10, <2>1 DEF AnnounceTo
  <2>2. CASE ~Top.quiet
    BY <1>1, <1>3, <1>4, <1>5, <1>10, <2>2 DEF AnnounceTo
  <2>3. QED
    BY <2>1, <2>2
<1>11. CASE AnnouncedTo
  BY <1>1, <1>3, <1>4, <1>5, <1>11 DEF AnnouncedTo
<1>12. CASE DeleteLeft
  BY <1>1, <1>3, <1>4, <1>5, <1>12 DEF DeleteLeft
<1>13. QED
  BY <1>6, <1>7, <1>8, <1>9, <1>10, <1>11, <1>12

-----------------------------------------------------------------------------
(* The steps that change the relations, and atDelete's. *)

(* clearRelation, between the departure and the arrival. *)
LEMMA ClearLocationKeeps ==
  ASSUME IInv, ClearLocation PROVE IInv' /\ Abstract!Next
<1>1. /\ stack # <<>> /\ Top \in Frame /\ Usable(Top)
      /\ Walked(Where, Top) /\ Top.pc = "clear"
  BY TopOK DEF IInv, ClearLocation, At
<1>2. Top.obj \in Object /\ Top.dest \in Object \cup {NoObject}
  BY <1>1 DEF Frame
<1>3. GraphInv' /\ Where' = [Where EXCEPT ![Top.obj] = NoObject]
  BY <1>2, MovementAssumption, ClearGraphInv, ClearWhere
     DEF IInv, GraphInv, ClearLocation
<1>4. /\ Forest' /\ Abstract!Next
      /\ \A d \in Object : Enclosing(Where', d) \subseteq Enclosing(Where, d)
  BY <1>2, <1>3, TakenOut DEF IInv
<1>5. ASSUME NEW pc \in {"set", "atPostMove"}, Goto(pc),
             pc = "set" => Top.dest # NoObject
      PROVE  IInv'
  <2> DEFINE f == [Top EXCEPT !.pc = pc]
  <2>1. pc \in Hooks \cup {"walk", "clear", "set", "deleteClear"}
    BY DEF Hooks, PostHooks
  <2>2. /\ f \in Frame
        /\ f.pc = pc /\ f.obj = Top.obj /\ f.dest = Top.dest
    BY <1>1, <2>1, GotoFrame
  <2>3. Enter(f)
    BY <1>5 DEF Goto
  <2> HIDE DEF f
  <2>4. Usable(f)
    BY <1>2, <1>5, <2>2 DEF Usable
  <2>5. Top.dest # NoObject => Top.obj \notin Enclosing(Where', Top.dest)
    BY <1>1, <1>2, <1>4 DEF Walked
  <2>6. Walked(Where', f)
    BY <2>2, <2>5 DEF Walked
  <2>7. QED
    BY <1>1, <1>3, <1>4, <2>2, <2>3, <2>4, <2>6, EnterKeeps
<1>6. QED
  BY <1>4, <1>5 DEF ClearLocation

(* setRelation, whose safety is what the walk has established. *)
LEMMA SetLocationKeeps ==
  ASSUME IInv, SetLocation PROVE IInv' /\ Abstract!Next
<1> DEFINE f == [Top EXCEPT !.pc = "atObjectReceive"]
<1>1. /\ stack # <<>> /\ Top \in Frame /\ Usable(Top)
      /\ Walked(Where, Top) /\ Top.pc = "set"
  BY TopOK DEF IInv, SetLocation, At
<1>2. /\ Top.obj \in Object /\ Top.dest \in Object
      /\ Top.obj \notin Enclosing(Where, Top.dest)
  BY <1>1, NullIsNoObject DEF Frame, Usable, Walked
<1>3. /\ GraphInv'
      /\ \/ Where' = [Where EXCEPT ![Top.obj] = Top.dest]
         \/ Where' = [Where EXCEPT ![Top.obj] = NoObject]
  BY <1>2, MovementAssumption, SetGraphInv, SetWhere
     DEF IInv, GraphInv, SetLocation
<1>4. Forest' /\ Abstract!Next
  BY <1>2, <1>3, TakenOut, PutIn DEF IInv
<1>5. "atObjectReceive" \in Hooks
  BY DEF Hooks, PostHooks
<1>6. f \in Frame /\ f.pc = "atObjectReceive" /\ f.dest = Top.dest
  BY <1>1, <1>5, GotoFrame
<1>7. Enter(f)
  BY DEF SetLocation, Goto
<1> HIDE DEF f
<1>8. Usable(f) /\ Walked(Where', f)
  BY <1>2, <1>6 DEF Usable, Walked, WindowHooks
<1>9. QED
  BY <1>1, <1>3, <1>4, <1>6, <1>7, <1>8, EnterKeeps

(* atDelete reads the location after the session has been told. *)
LEMMA DeleteLeavesKeeps ==
  ASSUME IInv, DeleteLeaves PROVE IInv' /\ Where' = Where
<1> DEFINE f == [Top EXCEPT !.pc = "atDeleteLeave", !.loc = Where[Top.obj]]
<1>1. stack # <<>> /\ Top \in Frame
  BY TopOK DEF IInv, DeleteLeaves, At
<1>2. GraphInv' /\ Forest' /\ Where' = Where
  BY SameWhere DEF IInv, DeleteLeaves
<1>3. Top.obj \in Object /\ Where[Top.obj] \in Object
  BY <1>1, WhereType DEF IInv, GraphInv, Frame, DeleteLeaves
<1>4. f \in Frame /\ f.pc = "atDeleteLeave" /\ f.loc \in Object
  BY <1>1, <1>3 DEF Frame, Hooks, DeleteHooks
<1>5. Enter(f)
  BY DEF DeleteLeaves
<1> HIDE DEF f
<1>6. Usable(f) /\ Walked(Where', f)
  BY <1>4 DEF Usable, Walked, WindowHooks
<1>7. QED
  BY <1>1, <1>2, <1>4, <1>5, <1>6, EnterKeeps

(* atDelete's clearRelation. *)
LEMMA DeleteClearsKeeps ==
  ASSUME WindowIsQuiet, IInv, DeleteClears PROVE IInv' /\ Abstract!Next
<1>1. stack # <<>> /\ Top \in Frame
  BY TopOK DEF IInv, DeleteClears, At
<1>2. Top.obj \in Object
  BY <1>1 DEF Frame
<1>3. GraphInv' /\ Where' = [Where EXCEPT ![Top.obj] = NoObject]
  BY <1>2, MovementAssumption, ClearGraphInv, ClearWhere
     DEF IInv, GraphInv, DeleteClears
<1>4. Forest' /\ Abstract!Next
  BY <1>2, <1>3, TakenOut DEF IInv
<1>5. QED
  BY <1>1, <1>3, <1>4, ReturnKeeps DEF DeleteClears

(* The steps that end a call without touching the relations. *)
LEMMA EndKeeps ==
  ASSUME WindowIsQuiet, IInv,
         Refuse \/ RefuseIntoItself \/ RefuseCircular \/ FinishMove
           \/ DeleteFromNowhere
  PROVE  IInv' /\ Where' = Where
<1>1. UNCHANGED graph /\ Return /\ stack # <<>>
  BY DEF Refuse, RefuseIntoItself, RefuseCircular, FinishMove,
         DeleteFromNowhere, MayLeave, At
<1>2. QED
  BY <1>1, SameWhere, ReturnKeeps DEF IInv

(***************************************************************************)
(* Every step keeps the invariant, and is a step of Containment or leaves  *)
(* the locations alone.                                                    *)
(***************************************************************************)
LEMMA NextKeeps ==
  ASSUME WindowIsQuiet, IInv, [Next]_vars
  PROVE  IInv' /\ [Abstract!Next]_Where
<1>1. CASE UNCHANGED vars
  <2>1. UNCHANGED graph /\ stack' = stack
    BY <1>1 DEF vars, graph
  <2>2. GraphInv' /\ Forest' /\ Where' = Where
    BY <2>1, SameWhere DEF IInv
  <2>3. QED
    BY <2>1, <2>2 DEF IInv, StackOK, Top
<1>2. ASSUME NEW o \in Object, AtDelete(o) PROVE IInv' /\ Where' = Where
  <2> DEFINE f == [pc |-> "atObjectDeleted", obj |-> o, dest |-> NoObject,
                   loc |-> NoObject, d |-> NoObject, quiet |-> TRUE]
  <2>1. f \in Frame /\ Usable(f) /\ f.pc = "atObjectDeleted"
    BY DEF Frame, Usable, Hooks, DeleteHooks
  <2>2. Call(f)
    BY <1>2 DEF AtDelete
  <2> HIDE DEF f
  <2>3. QED
    BY <2>1, <2>2, CallKeeps
<1>3. ASSUME NEW o \in Object, NEW dest \in Object \cup {NoObject},
             NEW quiet \in BOOLEAN, MoveTo(o, dest, quiet)
      PROVE  IInv' /\ Where' = Where
  <2> DEFINE f == [pc |-> "atPreMove", obj |-> o, dest |-> dest,
                   loc |-> Where[o], d |-> NoObject, quiet |-> quiet]
  <2>1. Where[o] \in Object \cup {NoObject}
    BY WhereType DEF IInv, GraphInv
  <2>2. f \in Frame /\ Usable(f) /\ f.pc = "atPreMove"
    BY <2>1 DEF Frame, Usable, Hooks, PreHooks
  <2>3. Call(f)
    BY <1>3 DEF MoveTo
  <2> HIDE DEF f
  <2>4. QED
    BY <2>2, <2>3, CallKeeps
<1>4. CASE Proceed
  BY <1>4, EndKeeps, HookKeeps, StartWalkKeeps, WalkUpKeeps,
     AskDestinationKeeps, ClearLocationKeeps, SetLocationKeeps,
     DeleteLeavesKeeps, DeleteClearsKeeps DEF Proceed
<1>5. QED
  BY <1>1, <1>2, <1>3, <1>4 DEF Next

-----------------------------------------------------------------------------

(* The game starts with no object anywhere and no call in progress. *)
LEMMA InitKeeps == Init => IInv /\ Abstract!Init
<1> SUFFICES ASSUME Init PROVE IInv /\ Abstract!Init
  OBVIOUS
<1>1. GraphInv
  BY NoRelationsGraphInv DEF Init
<1>2. Where = [o \in Object |-> NoObject]
  BY MovementAssumption DEF Init, NoRelations, Where
<1>3. Forest
  BY <1>2, NowhereForest, NullIsNoObject DEF Forest
<1>4. StackOK /\ stack = <<>>
  BY DEF Init, StackOK
<1>5. QED
  BY <1>1, <1>2, <1>3, <1>4 DEF IInv, Abstract!Init

(* The invariant holds in every state of every run. *)
LEMMA Invariance == WindowIsQuiet => (Spec => []IInv)
<1> SUFFICES ASSUME WindowIsQuiet PROVE Spec => []IInv
  OBVIOUS
<1>1. Init => IInv
  BY InitKeeps
<1>2. IInv /\ [Next]_vars => IInv'
  BY NextKeeps
<1>3. QED
  BY <1>1, <1>2, PTL DEF Spec

(***************************************************************************)
(* The types, and no hook, relation or walk is reached through a null      *)
(* pointer, whatever the hooks answer (Object.cpp:263-307).                *)
(***************************************************************************)
THEOREM MovementTypes == WindowIsQuiet => (Spec => []MovementTypeOK)
<1> SUFFICES ASSUME WindowIsQuiet PROVE Spec => []MovementTypeOK
  OBVIOUS
<1>1. IInv => MovementTypeOK
  BY DEF IInv, GraphInv, StackOK, MovementTypeOK
<1>2. QED
  BY <1>1, Invariance, PTL

(***************************************************************************)
(* No object is ever inside itself, so moveTo's walk meets no cycle, for   *)
(* any number of objects and any depth of nested calls (Object.cpp:277).   *)
(***************************************************************************)
THEOREM MovementForest == WindowIsQuiet => (Spec => []Forest)
<1> SUFFICES ASSUME WindowIsQuiet PROVE Spec => []Forest
  OBVIOUS
<1>1. IInv => Forest
  BY DEF IInv
<1>2. QED
  BY <1>1, Invariance, PTL

(***************************************************************************)
(* Forward and reverse locations agree in the middle of any move           *)
(* (Object.cpp:298, 302 and 84).                                           *)
(***************************************************************************)
THEOREM MovementMirror == WindowIsQuiet => (Spec => []Mirror)
<1> SUFFICES ASSUME WindowIsQuiet PROVE Spec => []Mirror
  OBVIOUS
<1>1. IInv => Mirror
  BY DEF IInv, GraphInv
<1>2. QED
  BY <1>1, Invariance, PTL

(***************************************************************************)
(* moveTo and atDelete do to the locations only what Containment allows:   *)
(* each step that changes them takes one object out, or puts one object    *)
(* into another that it does not enclose at that moment.                   *)
(***************************************************************************)
THEOREM MovementRefines == WindowIsQuiet => (Spec => ImplementsContainment)
<1> SUFFICES ASSUME WindowIsQuiet PROVE Spec => ImplementsContainment
  OBVIOUS
<1>1. Init => Abstract!Init
  BY InitKeeps
<1>2. IInv /\ [Next]_vars => [Abstract!Next]_Where
  BY NextKeeps
<1>3. QED
  BY <1>1, <1>2, Invariance, PTL
     DEF Spec, ImplementsContainment, Abstract!Spec

-----------------------------------------------------------------------------
(***************************************************************************)
(* What containers hear of moves, when the game moves and deletes only in  *)
(* hooks where no call holds a location (NothingStale).  The strengthening *)
(* says that the innermost call knows where its object is (Fresh), and     *)
(* that the counts are off by the departure it has told and not done yet.  *)
(***************************************************************************)

Fresh(loc, f) ==
  /\ f.pc \in PreHooks \cup {"walk", "atObjectLeave", "announceMoveFrom", "clear",
                             "atDeleteLeave", "deleteClear"}
       => f.loc = loc[f.obj]
  /\ f.pc = "set" => loc[f.obj] = NoObject

FreshInv == stack # <<>> => Fresh(Where, Top)

(* The calls that have told of a departure that is still to come. *)
Owed(f, c) ==
  IF f.pc \in {"atObjectLeave", "announceMoveFrom", "clear", "atDeleteLeave",
               "deleteClear"} /\ f.loc = c
  THEN 1 ELSE 0

OwedNow(c) == IF stack # <<>> THEN Owed(Top, c) ELSE 0

Present(c) == Len(reverseRelations[c][Location])

CountInv ==
  /\ occupants \in [Object -> Int]
  /\ \A c \in Object : occupants[c] + OwedNow(c) = Present(c)

(* The game's hooks are outside of the window if nothing they do is stale, *)
(* and a call that is suspended in one owes nothing.                       *)
LEMMA Suspended ==
  ASSUME NothingStale
  PROVE  /\ WindowIsQuiet
         /\ \A f : f.pc \in ReentrantHooks =>
              Fresh(Where, f) /\ Fresh(Where', f) /\ \A c : Owed(f, c) = 0
BY DEF NothingStale, WindowIsQuiet, WindowHooks, PostHooks, PreHooks, Fresh, Owed

(* Going on in the innermost call. *)
LEMMA EnterTop ==
  ASSUME StackOK, stack # <<>>, NEW f \in Frame, Enter(f)
  PROVE  Top' = f /\ stack' # <<>> /\ Len(stack') = Len(stack) /\ Len(stack) \in Nat
<1> DEFINE n == Len(stack)
<1>1. n \in Nat /\ n # 0 /\ DOMAIN stack = 1..n /\ stack \in Seq(Frame)
  BY EmptySeq DEF StackOK
<1>2. n \in 1..n
  <2> HIDE DEF n
  <2>1. QED
    BY <1>1
<1>3. Len(stack') = n /\ stack'[n] = f
  BY <1>1, <1>2 DEF Enter
<1>4. stack' # <<>>
  BY <1>1, <1>3
<1>5. QED
  BY <1>1, <1>3, <1>4 DEF Top

LEMMA GotoTop ==
  ASSUME StackOK, stack # <<>>,
         NEW pc \in Hooks \cup {"walk", "clear", "set", "deleteClear"}, Goto(pc)
  PROVE  /\ Top'.pc = pc /\ Top'.obj = Top.obj
         /\ Top'.dest = Top.dest /\ Top'.loc = Top.loc
         /\ stack' # <<>> /\ Len(stack') = Len(stack) /\ Len(stack) \in Nat
<1>1. Top \in Frame
  BY TopOK
<1> DEFINE f == [Top EXCEPT !.pc = pc]
<1>2. /\ f \in Frame /\ f.pc = pc /\ f.obj = Top.obj
      /\ f.dest = Top.dest /\ f.loc = Top.loc
  BY <1>1, GotoFrame
<1>3. Enter(f)
  BY DEF Goto
<1> HIDE DEF f
<1>4. Top' = f /\ stack' # <<>> /\ Len(stack') = Len(stack) /\ Len(stack) \in Nat
  BY <1>2, <1>3, EnterTop
<1>5. QED
  BY <1>2, <1>4

(* clearRelation("location") of an object in c: c holds one object less. *)
LEMMA ClearCounts ==
  ASSUME GraphInv, NEW o \in Object, Where[o] \in Object, ClearRelation(o, Location)
  PROVE  \A c \in Object :
           /\ Present(c) \in Nat
           /\ Present(c)' = Present(c) - (IF c = Where[o] THEN 1 ELSE 0)
<1> DEFINE v == Where[o]
           was == reverseRelations[v][Location]
<1>1. /\ v = relations[o][Location] /\ v # NoObject /\ Location \in RelName
  BY MovementAssumption, NullIsNoObject DEF Where
<1>2. /\ was \in Seq(Object) /\ IsInjective(was) /\ o \in ToSet(was)
  BY <1>1 DEF GraphInv, RelationsTypeOK, Mirror, NoDuplicates, BackPointers
<1>3. Len(RemoveFirst(was, o)) = Len(was) - 1
  BY <1>2, RemoveFirstLemma
<1>4. \A c \in Object :
        reverseRelations'[c][Location] = IF c = v THEN RemoveFirst(was, o)
                                         ELSE reverseRelations[c][Location]
  BY <1>1 DEF ClearRelation, GraphInv, RelationsTypeOK
<1>5. \A c \in Object : Len(reverseRelations[c][Location]) \in Nat
  BY <1>1 DEF GraphInv, RelationsTypeOK
<1> HIDE DEF v
<1>6. ASSUME NEW c \in Object
      PROVE  Present(c)' = Present(c) - (IF c = v THEN 1 ELSE 0)
  <2>1. CASE c = v
    BY <1>3, <1>4, <2>1 DEF Present
  <2>2. CASE c # v
    BY <1>4, <1>5, <2>2 DEF Present
  <2>3. QED
    BY <2>1, <2>2
<1>7. QED
  BY <1>5, <1>6 DEF Present, v

(* setRelation("location", v) of an object that is nowhere always makes    *)
(* the relation: the path without a return statement is not taken.         *)
LEMMA SetCounts ==
  ASSUME GraphInv, NEW o \in Object, Where[o] = NoObject, NEW v \in Object,
         SetRelation(o, Location, v)
  PROVE  /\ Where' = [Where EXCEPT ![o] = v]
         /\ \A c \in Object :
              /\ Present(c) \in Nat
              /\ Present(c)' = Present(c) + (IF c = v THEN 1 ELSE 0)
<1>1. relations[o][Location] = NoObject /\ v # NoObject /\ Location \in RelName
  BY MovementAssumption, NullIsNoObject DEF Where
<1>2. Link(o, Location, v)
  BY <1>1 DEF SetRelation
<1>3. Where' = [Where EXCEPT ![o] = v]
  BY <1>1, <1>2 DEF Link, Where, GraphInv, RelationsTypeOK
<1>4. \A c \in Object :
        reverseRelations'[c][Location] =
          IF c = v THEN Append(reverseRelations[v][Location], o)
          ELSE reverseRelations[c][Location]
  BY <1>1, <1>2 DEF Link, GraphInv, RelationsTypeOK
<1>5. \A c \in Object : /\ reverseRelations[c][Location] \in Seq(Object)
                        /\ Len(reverseRelations[c][Location]) \in Nat
  BY <1>1 DEF GraphInv, RelationsTypeOK
<1>6. Len(Append(reverseRelations[v][Location], o)) = Len(reverseRelations[v][Location]) + 1
  BY <1>5
<1>7. ASSUME NEW c \in Object
      PROVE  Present(c)' = Present(c) + (IF c = v THEN 1 ELSE 0)
  <2>1. CASE c = v
    BY <1>4, <1>6, <2>1 DEF Present
  <2>2. CASE c # v
    BY <1>4, <1>5, <2>2 DEF Present
  <2>3. QED
    BY <2>1, <2>2
<1>8. QED
  BY <1>3, <1>5, <1>7 DEF Present

-----------------------------------------------------------------------------
(* The counts, step by step. *)

Counting ==
  occupants' = IF Len(stack') >= Len(stack) THEN Heard(stack'[Len(stack')])
               ELSE occupants

(* A step into a hook, with the relations as they were: what it tells is   *)
(* what it owes more than before.                                          *)
LEMMA QuietCount ==
  ASSUME CountInv, Counting, UNCHANGED graph,
         stack' # <<>>, Len(stack') >= Len(stack), Top'.pc # "atObjectReceive",
         \A c \in Object :
           OwedNow(c) = IF Top'.pc \in {"atObjectLeave", "atDeleteLeave"}
                        THEN 0 ELSE Owed(Top', c)
  PROVE  CountInv'
<1>1. \A c \in Object : Present(c)' = Present(c)
  BY DEF graph, Present
<1>2. occupants' = Heard(Top')
  BY DEF Counting, Top
<1>3. occupants' \in [Object -> Int]
  BY <1>2 DEF CountInv, Heard
<1>4. ASSUME NEW c \in Object
      PROVE  occupants'[c] + OwedNow(c)' = occupants[c] + OwedNow(c)
  <2>1. OwedNow(c)' = Owed(Top', c)
    BY DEF OwedNow, Owed
  <2>2. occupants[c] \in Int
    BY DEF CountInv
  <2>3. occupants'[c] = occupants[c]
          - (IF Top'.pc \in {"atObjectLeave", "atDeleteLeave"} /\ Top'.loc = c
             THEN 1 ELSE 0)
    BY <1>2, <2>2 DEF Heard
  <2>4. CASE Top'.pc \in {"atObjectLeave", "atDeleteLeave"}
    BY <2>1, <2>2, <2>3, <2>4 DEF Owed
  <2>5. CASE Top'.pc \notin {"atObjectLeave", "atDeleteLeave"}
    BY <2>1, <2>2, <2>3, <2>5
  <2>6. QED
    BY <2>4, <2>5
<1>5. QED
  BY <1>1, <1>3, <1>4 DEF CountInv

(* A call ends: the call it returns to is suspended in a hook. *)
LEMMA ReturnCounts ==
  ASSUME NothingStale, IInv, FreshInv, CountInv, Counting, stack # <<>>, Return,
         \A c \in Object : Present(c)' = Present(c) - Owed(Top, c)
  PROVE  FreshInv' /\ CountInv'
<1>1. StackOK' /\ (stack' # <<>> => Top'.pc \in ReentrantHooks)
  BY PopStack DEF IInv
<1>2. FreshInv'
  BY <1>1, Suspended DEF FreshInv
<1>3. Len(stack') = Len(stack) - 1 /\ Len(stack) \in Nat
  BY FrontLemma DEF IInv, StackOK, Return
<1>4. occupants' = occupants
  BY <1>3 DEF Counting
<1>5. \A c \in Object : OwedNow(c)' = 0
  BY <1>1, Suspended DEF OwedNow, Owed
<1>6. \A c \in Object : OwedNow(c) = Owed(Top, c) /\ Owed(Top, c) \in Int
  BY DEF OwedNow, Owed
<1>7. QED
  BY <1>2, <1>4, <1>5, <1>6 DEF CountInv

LEMMA EndCounts ==
  ASSUME NothingStale, IInv, FreshInv, CountInv, Counting,
         Refuse \/ RefuseIntoItself \/ RefuseCircular \/ FinishMove
           \/ DeleteFromNowhere
  PROVE  FreshInv' /\ CountInv'
<1>1. /\ UNCHANGED graph /\ Return /\ stack # <<>>
      /\ Top.pc \in PreHooks \cup {"walk", "atPostMove", "atObjectDeleted"}
  BY DEF Refuse, RefuseIntoItself, RefuseCircular, FinishMove,
         DeleteFromNowhere, MayLeave, At, PreHooks
<1>2. \A c \in Object : Owed(Top, c) = 0
  BY <1>1 DEF Owed, PreHooks
<1>3. \A c \in Object : Present(c)' = Present(c) /\ Present(c) \in Nat
  BY <1>1, MovementAssumption DEF graph, Present, IInv, GraphInv, RelationsTypeOK
<1>4. QED
  BY <1>1, <1>2, <1>3, ReturnCounts

(* A call begins, from outside or from a hook: it owes nothing, nor does   *)
(* the call it is made from.                                               *)
LEMMA CallCounts ==
  ASSUME NothingStale, IInv, FreshInv, CountInv, Counting,
         NEW f \in Frame, Usable(f), Call(f),
         (f.pc = "atPreMove" /\ f.loc = Where[f.obj]) \/ f.pc = "atObjectDeleted"
  PROVE  FreshInv' /\ CountInv'
<1>1. stack' # <<>> /\ Top' = f /\ UNCHANGED graph
  BY PushStack DEF IInv, Call
<1>2. Where' = Where
  BY <1>1 DEF graph, Where
<1>3. FreshInv'
  BY <1>1, <1>2 DEF FreshInv, Fresh, PreHooks
<1>4. Len(stack') >= Len(stack)
  BY DEF Call, IInv, StackOK
<1>5. \A c \in Object : OwedNow(c) = 0 /\ Owed(f, c) = 0
  BY Suspended DEF Call, OwedNow, Owed
<1>6. CountInv'
  BY <1>1, <1>4, <1>5, QuietCount
<1>7. QED
  BY <1>3, <1>6

(* The steps from one hook to the next, and those of the walk. *)
LEMMA HookCounts ==
  ASSUME IInv, FreshInv, CountInv, Counting,
         AskOrigin \/ StartMove \/ AnnounceFrom \/ AnnouncedFrom
           \/ AnnounceTo \/ AnnouncedTo \/ DeleteLeft
  PROVE  FreshInv' /\ CountInv'
<1>1. stack # <<>> /\ StackOK /\ Top \in Frame /\ Usable(Top) /\ Fresh(Where, Top)
  BY TopOK DEF IInv, FreshInv, AskOrigin, StartMove, MayLeave, AnnounceFrom,
               AnnouncedFrom, AnnounceTo, AnnouncedTo, DeleteLeft, At
<1>2. UNCHANGED graph
  BY DEF AskOrigin, StartMove, AnnounceFrom, AnnouncedFrom,
         AnnounceTo, AnnouncedTo, DeleteLeft
<1>3. Where' = Where
  BY <1>2 DEF graph, Where
<1>4. ASSUME NEW pc \in Hooks \cup {"walk", "clear", "set", "deleteClear"}, Goto(pc),
             pc # "atObjectReceive",
             Fresh(Where, [Top EXCEPT !.pc = pc]),
             \A c \in Object : Owed(Top, c) =
               IF pc \in {"atObjectLeave", "atDeleteLeave"}
               THEN 0 ELSE Owed([Top EXCEPT !.pc = pc], c)
      PROVE  FreshInv' /\ CountInv'
  <2>1. /\ Top' = [Top EXCEPT !.pc = pc] /\ Top'.pc = pc
        /\ stack' # <<>> /\ Len(stack') >= Len(stack)
    <3> DEFINE f == [Top EXCEPT !.pc = pc]
    <3>1. f \in Frame /\ f.pc = pc
      BY <1>1, GotoFrame
    <3>2. Enter(f)
      BY <1>4 DEF Goto
    <3> HIDE DEF f
    <3>3. Top' = f /\ stack' # <<>> /\ Len(stack') = Len(stack) /\ Len(stack) \in Nat
      BY <1>1, <3>1, <3>2, EnterTop
    <3>4. QED
      BY <3>1, <3>3 DEF f
  <2>2. FreshInv'
    BY <1>3, <1>4, <2>1 DEF FreshInv
  <2>3. CountInv'
    BY <1>1, <1>2, <1>4, <2>1, QuietCount DEF OwedNow
  <2>4. QED
    BY <2>2, <2>3
<1>5. ASSUME NEW pc \in Hooks \cup {"walk", "clear", "set", "deleteClear"}
      PROVE  LET g == [Top EXCEPT !.pc = pc] IN
             g.pc = pc /\ g.obj = Top.obj /\ g.loc = Top.loc
  BY <1>1, <1>5, GotoFrame
<1> USE DEF Fresh, Owed, Hooks, PreHooks, PostHooks, DeleteHooks, At
<1>6. CASE AskOrigin
  BY <1>1, <1>4, <1>5, <1>6 DEF AskOrigin
<1>7. CASE StartMove
  <2>1. Top.loc = Where[Top.obj] /\ \A c \in Object : Owed(Top, c) = 0
    BY <1>1, <1>7 DEF StartMove, MayLeave
  <2>2. CASE Top.loc # NoObject
    BY <1>1, <1>4, <1>5, <1>7, <2>1, <2>2 DEF StartMove
  <2>3. CASE Top.loc = NoObject /\ Top.dest # NoObject
    BY <1>1, <1>4, <1>5, <1>7, <2>1, <2>3 DEF StartMove
  <2>4. CASE Top.loc = NoObject /\ Top.dest = NoObject
    BY <1>1, <1>4, <1>5, <1>7, <2>1, <2>4 DEF StartMove
  <2>5. QED
    BY <2>2, <2>3, <2>4
<1>8. CASE AnnounceFrom
  BY <1>1, <1>4, <1>5, <1>8 DEF AnnounceFrom
<1>9. CASE AnnouncedFrom
  BY <1>1, <1>4, <1>5, <1>9 DEF AnnouncedFrom
<1>10. CASE AnnounceTo
  BY <1>1, <1>4, <1>5, <1>10 DEF AnnounceTo
<1>11. CASE AnnouncedTo
  BY <1>1, <1>4, <1>5, <1>11 DEF AnnouncedTo
<1>12. CASE DeleteLeft
  BY <1>1, <1>4, <1>5, <1>12 DEF DeleteLeft
<1>13. QED
  BY <1>6, <1>7, <1>8, <1>9, <1>10, <1>11, <1>12

LEMMA WalkCounts ==
  ASSUME IInv, FreshInv, CountInv, Counting,
         StartWalk \/ WalkUp \/ AskDestination \/ DeleteLeaves
  PROVE  FreshInv' /\ CountInv'
<1>1. stack # <<>> /\ StackOK /\ Top \in Frame /\ Usable(Top) /\ Fresh(Where, Top)
  BY TopOK DEF IInv, FreshInv, StartWalk, MayLeave, WalkUp, AskDestination,
               DeleteLeaves, At
<1>2. UNCHANGED graph
  BY DEF StartWalk, WalkUp, AskDestination, DeleteLeaves
<1>3. Where' = Where
  BY <1>2 DEF graph, Where
<1>4. \A c \in Object : Owed(Top, c) = 0
  BY DEF Owed, StartWalk, MayLeave, WalkUp, AskDestination, DeleteLeaves, At
<1>5. ASSUME NEW f \in Frame, Enter(f), f.obj = Top.obj, f.loc = Where[f.obj],
             f.pc \in {"walk", "atPreObjectReceive", "atDeleteLeave"}
      PROVE  FreshInv' /\ CountInv'
  <2>1. Top' = f /\ stack' # <<>> /\ Len(stack') >= Len(stack)
    BY <1>1, <1>5, EnterTop
  <2>2. FreshInv'
    BY <1>3, <1>5, <2>1 DEF FreshInv, Fresh, PreHooks
  <2>3. CountInv'
    BY <1>1, <1>2, <1>4, <1>5, <2>1, QuietCount DEF OwedNow, Owed
  <2>4. QED
    BY <2>2, <2>3
<1>6. \A x \in Object : Where[x] \in Object \cup {NoObject}
  BY WhereType DEF IInv, GraphInv
<1>7. CASE StartWalk
  <2> DEFINE f == [Top EXCEPT !.pc = "walk", !.d = Top.dest]
  <2>1. f \in Frame /\ f.pc = "walk" /\ f.obj = Top.obj /\ f.loc = Top.loc
    BY <1>1 DEF Frame
  <2>2. Top.loc = Where[Top.obj]
    BY <1>1, <1>7 DEF StartWalk, MayLeave, At, Fresh, PreHooks
  <2>3. Enter(f)
    BY <1>7 DEF StartWalk
  <2> HIDE DEF f
  <2>4. QED
    BY <1>5, <2>1, <2>2, <2>3
<1>8. CASE WalkUp
  <2> DEFINE f == [Top EXCEPT !.d = Where[Top.d]]
  <2>1. Top.pc = "walk" /\ Top.d \in Object
    BY <1>1, <1>8 DEF WalkUp, At, Usable
  <2>2. f \in Frame /\ f.pc = "walk" /\ f.obj = Top.obj /\ f.loc = Top.loc
    BY <1>1, <1>6, <2>1 DEF Frame
  <2>3. Top.loc = Where[Top.obj]
    BY <1>1, <2>1 DEF Fresh
  <2>4. Enter(f)
    BY <1>8 DEF WalkUp
  <2> HIDE DEF f
  <2>5. QED
    BY <1>5, <2>2, <2>3, <2>4
<1>9. CASE AskDestination
  <2> DEFINE f == [Top EXCEPT !.pc = "atPreObjectReceive", !.d = NoObject]
  <2>1. f \in Frame /\ f.pc = "atPreObjectReceive" /\ f.obj = Top.obj /\ f.loc = Top.loc
    BY <1>1 DEF Frame, Hooks, PreHooks
  <2>2. Top.loc = Where[Top.obj]
    BY <1>1, <1>9 DEF AskDestination, At, Fresh
  <2>3. Enter(f)
    BY <1>9 DEF AskDestination
  <2> HIDE DEF f
  <2>4. QED
    BY <1>5, <2>1, <2>2, <2>3
<1>10. CASE DeleteLeaves
  <2> DEFINE f == [Top EXCEPT !.pc = "atDeleteLeave", !.loc = Where[Top.obj]]
  <2>1. Top.obj \in Object
    BY <1>1 DEF Frame
  <2>2. /\ f \in Frame /\ f.pc = "atDeleteLeave" /\ f.obj = Top.obj
        /\ f.loc = Where[Top.obj]
    BY <1>1, <1>6, <2>1 DEF Frame, Hooks, DeleteHooks
  <2>3. Enter(f)
    BY <1>10 DEF DeleteLeaves
  <2> HIDE DEF f
  <2>4. QED
    BY <1>5, <2>2, <2>3
<1>11. QED
  BY <1>7, <1>8, <1>9, <1>10

(* The departure that was told takes place. *)
LEMMA ClearingCounts ==
  ASSUME NothingStale, IInv, FreshInv, CountInv, Counting,
         ClearLocation \/ DeleteClears
  PROVE  FreshInv' /\ CountInv'
<1>1. /\ stack # <<>> /\ StackOK /\ Top \in Frame /\ Usable(Top)
      /\ Fresh(Where, Top) /\ Top.pc \in {"clear", "deleteClear"}
      /\ ClearRelation(Top.obj, Location)
  BY TopOK DEF IInv, FreshInv, ClearLocation, DeleteClears, At
<1>2. /\ Top.obj \in Object /\ Top.loc = Where[Top.obj] /\ Top.loc \in Object
  BY <1>1 DEF Frame, Fresh, Usable
<1>3. \A c \in Object :
        /\ Present(c) \in Nat
        /\ Present(c)' = Present(c) - (IF c = Top.loc THEN 1 ELSE 0)
  BY <1>1, <1>2, ClearCounts DEF IInv
<1>4. \A c \in Object : Owed(Top, c) = IF c = Top.loc THEN 1 ELSE 0
  BY <1>1 DEF Owed
<1>5. CASE DeleteClears
  BY <1>1, <1>3, <1>4, <1>5, ReturnCounts DEF DeleteClears
<1>6. CASE ClearLocation
  <2>1. PICK pc \in {"set", "atPostMove"} : Goto(pc)
    BY <1>6 DEF ClearLocation
  <2>2. pc \in Hooks \cup {"walk", "clear", "set", "deleteClear"}
    BY DEF Hooks, PostHooks
  <2>3. /\ Top'.pc = pc /\ Top'.obj = Top.obj
        /\ stack' # <<>> /\ Len(stack') >= Len(stack)
    BY <1>1, <2>1, <2>2, GotoTop
  <2>4. Where' = [Where EXCEPT ![Top.obj] = NoObject]
    BY <1>1, <1>2, ClearWhere DEF IInv, GraphInv
  <2>5. Where'[Top.obj] = NoObject
    BY <1>2, <2>4, WhereType DEF IInv, GraphInv
  <2>6. FreshInv'
    BY <2>3, <2>5 DEF FreshInv, Fresh, PreHooks
  <2>7. occupants' = Heard(Top')
    BY <2>3 DEF Counting, Top
  <2>8. occupants' \in [Object -> Int] /\ \A c \in Object : occupants'[c] = occupants[c]
    BY <2>3, <2>7 DEF Heard, CountInv
  <2>9. \A c \in Object : OwedNow(c)' = 0 /\ OwedNow(c) = Owed(Top, c)
    BY <1>1, <2>3 DEF OwedNow, Owed
  <2>10. CountInv'
    BY <1>3, <1>4, <2>8, <2>9 DEF CountInv
  <2>11. QED
    BY <2>6, <2>10
<1>7. QED
  BY <1>5, <1>6

(* The arrival, and the hook that tells of it. *)
LEMMA SettingCounts ==
  ASSUME IInv, FreshInv, CountInv, Counting, SetLocation
  PROVE  FreshInv' /\ CountInv'
<1>1. /\ stack # <<>> /\ StackOK /\ Top \in Frame /\ Usable(Top)
      /\ Fresh(Where, Top) /\ Top.pc = "set"
  BY TopOK DEF IInv, FreshInv, SetLocation, At
<1>2. Top.obj \in Object /\ Top.dest \in Object /\ Where[Top.obj] = NoObject
  BY <1>1 DEF Frame, Fresh, Usable
<1>3. \A c \in Object :
        /\ Present(c) \in Nat
        /\ Present(c)' = Present(c) + (IF c = Top.dest THEN 1 ELSE 0)
  BY <1>2, SetCounts DEF IInv, SetLocation
<1>4. /\ Top'.pc = "atObjectReceive" /\ Top'.dest = Top.dest
      /\ stack' # <<>> /\ Len(stack') >= Len(stack)
  <2>1. "atObjectReceive" \in Hooks
    BY DEF Hooks, PostHooks
  <2>2. QED
    BY <1>1, <2>1, GotoTop DEF SetLocation
<1>5. FreshInv'
  BY <1>4 DEF FreshInv, Fresh, PreHooks
<1>6. occupants' = Heard(Top')
  BY <1>4 DEF Counting, Top
<1>7. /\ occupants' \in [Object -> Int]
      /\ \A c \in Object :
           occupants'[c] = occupants[c] + (IF c = Top.dest THEN 1 ELSE 0)
  BY <1>4, <1>6 DEF Heard, CountInv
<1>8. \A c \in Object : OwedNow(c)' = 0 /\ OwedNow(c) = 0
  BY <1>1, <1>4 DEF OwedNow, Owed
<1>9. CountInv'
  BY <1>3, <1>7, <1>8 DEF CountInv
<1>10. QED
  BY <1>5, <1>9

LEMMA NoticeKeeps ==
  ASSUME NothingStale, IInv, FreshInv, CountInv, [NoticeNext]_<<vars, occupants>>
  PROVE  FreshInv' /\ CountInv'
<1>1. CASE UNCHANGED <<vars, occupants>>
  BY <1>1 DEF vars, FreshInv, Fresh, Where, Top, CountInv, OwedNow, Owed, Present
<1>2. CASE NoticeNext
  <2>1. Next /\ Counting
    BY <1>2 DEF NoticeNext, Counting
  <2>2. ASSUME NEW o \in Object, AtDelete(o) PROVE FreshInv' /\ CountInv'
    <3> DEFINE f == [pc |-> "atObjectDeleted", obj |-> o, dest |-> NoObject,
                     loc |-> NoObject, d |-> NoObject, quiet |-> TRUE]
    <3>1. f \in Frame /\ Usable(f) /\ f.pc = "atObjectDeleted"
      BY DEF Frame, Usable, Hooks, DeleteHooks
    <3>2. Call(f)
      BY <2>2 DEF AtDelete
    <3> HIDE DEF f
    <3>3. QED
      BY <2>1, <3>1, <3>2, CallCounts
  <2>3. ASSUME NEW o \in Object, NEW dest \in Object \cup {NoObject},
               NEW quiet \in BOOLEAN, MoveTo(o, dest, quiet)
        PROVE  FreshInv' /\ CountInv'
    <3> DEFINE f == [pc |-> "atPreMove", obj |-> o, dest |-> dest,
                     loc |-> Where[o], d |-> NoObject, quiet |-> quiet]
    <3>1. Where[o] \in Object \cup {NoObject}
      BY WhereType DEF IInv, GraphInv
    <3>2. f \in Frame /\ Usable(f) /\ f.pc = "atPreMove" /\ f.loc = Where[f.obj]
      BY <3>1 DEF Frame, Usable, Hooks, PreHooks
    <3>3. Call(f)
      BY <2>3 DEF MoveTo
    <3> HIDE DEF f
    <3>4. QED
      BY <2>1, <3>2, <3>3, CallCounts
  <2>4. CASE Proceed
    BY <2>1, <2>4, EndCounts, HookCounts, WalkCounts, ClearingCounts, SettingCounts
    DEF Proceed
  <2>5. QED
    BY <2>1, <2>2, <2>3, <2>4 DEF Next
<1>3. QED
  BY <1>1, <1>2

(* Counting changes nothing of the moves, nor do the sessions. *)
LEMMA NoticesMove == NoticeSpec => Spec
<1>1. NoticeInit => Init
  BY DEF NoticeInit
<1>2. [NoticeNext]_<<vars, occupants>> => [Next]_vars
  BY DEF NoticeNext, vars
<1>3. QED
  BY <1>1, <1>2, PTL DEF NoticeSpec, Spec

LEMMA SessionsNotice == PlaySpec => NoticeSpec
<1>1. SessionInit => NoticeInit
  BY DEF SessionInit
<1>2. [PlayNext]_playVars => [NoticeNext]_<<vars, occupants>>
  BY DEF PlayNext, playVars, vars
<1>3. QED
  BY <1>1, <1>2, PTL DEF PlaySpec, NoticeSpec

LEMMA NoticeInductive ==
  ASSUME NothingStale
  PROVE  NoticeSpec => [](IInv /\ FreshInv /\ CountInv)
<1>1. NoticeSpec => []IInv
  <2>1. WindowIsQuiet
    BY Suspended
  <2>2. QED
    BY <2>1, NoticesMove, Invariance, PTL
<1>2. NoticeInit => FreshInv /\ CountInv
  <2> SUFFICES ASSUME NoticeInit PROVE FreshInv /\ CountInv
    OBVIOUS
  <2>1. stack = <<>> /\ occupants = [c \in Object |-> 0]
    BY DEF NoticeInit, Init
  <2>2. \A c \in Object : Present(c) = 0
    BY MovementAssumption DEF NoticeInit, Init, NoRelations, Present
  <2>3. QED
    BY <2>1, <2>2 DEF FreshInv, CountInv, OwedNow
<1>3. IInv /\ FreshInv /\ CountInv /\ [NoticeNext]_<<vars, occupants>>
        => FreshInv' /\ CountInv'
  BY NoticeKeeps
<1>4. QED
  BY <1>1, <1>2, <1>3, PTL DEF NoticeSpec

(***************************************************************************)
(* Between calls, a container that counts the hooks agrees with            *)
(* getContents(), for any objects and any nesting of calls from hooks      *)
(* where no call holds a location (Object.cpp:75-86, 250-309).             *)
(***************************************************************************)
THEOREM ContainersKnow == NothingStale => (PlaySpec => []Attendance)
<1> SUFFICES ASSUME NothingStale PROVE PlaySpec => []Attendance
  OBVIOUS
<1>1. CountInv => Attendance
  BY DEF CountInv, Attendance, OwedNow, Present
<1>2. QED
  BY <1>1, SessionsNotice, NoticeInductive, PTL

(***************************************************************************)
(* moveTo's setRelation puts the mover where it was sent, although it      *)
(* tests an undefined result when it clears (Object.cpp:302, 353, 382): by *)
(* then there is nothing to clear.                                         *)
(***************************************************************************)
THEOREM MoversArrive == NothingStale => (PlaySpec => ArrivesWhereSent)
<1> SUFFICES ASSUME NothingStale PROVE PlaySpec => ArrivesWhereSent
  OBVIOUS
<1>1. IInv /\ FreshInv /\ [Next]_vars
        => [At("set") => Where'[Top.obj] = Top.dest]_vars
  <2> SUFFICES ASSUME IInv, FreshInv, Next, At("set")
               PROVE  Where'[Top.obj] = Top.dest
    OBVIOUS
  <2>1. "set" \notin ReentrantHooks
    BY DEF NothingStale, PostHooks
  <2>2. SetLocation
    BY <2>1 DEF Next, AtDelete, MoveTo, Call, Proceed, Refuse, AskOrigin,
                RefuseIntoItself, StartWalk, MayLeave, WalkUp, RefuseCircular,
                AskDestination, StartMove, AnnounceFrom, AnnouncedFrom,
                ClearLocation, AnnounceTo, AnnouncedTo, FinishMove,
                DeleteFromNowhere, DeleteLeaves, DeleteLeft, DeleteClears, At,
                PreHooks
  <2>3. Top \in Frame /\ Usable(Top) /\ Fresh(Where, Top) /\ Top.pc = "set"
    BY TopOK DEF IInv, FreshInv, At
  <2>4. Top.obj \in Object /\ Top.dest \in Object /\ Where[Top.obj] = NoObject
    BY <2>3 DEF Frame, Fresh, Usable
  <2>5. Where' = [Where EXCEPT ![Top.obj] = Top.dest]
    BY <2>2, <2>4, SetCounts DEF IInv, SetLocation
  <2>6. QED
    BY <2>4, <2>5, WhereType DEF IInv, GraphInv
<1>2. QED
  BY <1>1, SessionsNotice, NoticesMove, NoticeInductive, PTL DEF Spec, ArrivesWhereSent

-----------------------------------------------------------------------------
(* The sessions. *)

Changing == {"onPreSessionLink", "onPreSessionUnlink"}

SessionCall ==
  [hook : Changing \cup {"onPostSessionLink", "onPostSessionUnlink"},
   obj : Object, sess : Session \cup {NoSession}]

(***************************************************************************)
(* What the hooks have told of is the session at any time.  It takes that  *)
(* no two calls are about to change the same object, and that a removal in *)
(* progress still names the session that it removes.                       *)
(***************************************************************************)
SessionInv ==
  /\ session \in [Object -> Session \cup {NoSession}]
  /\ heard = session
  /\ sessionCalls \in Seq(SessionCall)
  /\ \A i \in DOMAIN sessionCalls :
       sessionCalls[i].hook = "onPreSessionUnlink"
         => sessionCalls[i].sess = session[sessionCalls[i].obj]
  /\ \A i, j \in DOMAIN sessionCalls :
       /\ sessionCalls[i].hook \in Changing /\ sessionCalls[j].hook \in Changing
       /\ sessionCalls[i].obj = sessionCalls[j].obj
       => i = j

LEMMA CallHookKeeps ==
  ASSUME SessionInv, NEW hook \in Changing, NEW o \in Object,
         NEW s \in Session \cup {NoSession}, CallHook(hook, o, s),
         hook = "onPreSessionUnlink" => s = session[o]
  PROVE  SessionInv'
<1> DEFINE n == Len(sessionCalls)
           call == [hook |-> hook, obj |-> o, sess |-> s]
<1>1. /\ call \in SessionCall
      /\ call.hook = hook /\ call.obj = o /\ call.sess = s
  BY DEF SessionCall
<1>2. sessionCalls' = Append(sessionCalls, call) /\ UNCHANGED <<session, heard>>
  BY DEF CallHook
<1>3. /\ n \in Nat /\ DOMAIN sessionCalls = 1..n
      /\ sessionCalls' \in Seq(SessionCall) /\ DOMAIN sessionCalls' = 1..(n + 1)
      /\ \A i \in 1..n : sessionCalls'[i] = sessionCalls[i]
      /\ sessionCalls'[n + 1] = call
  BY <1>1, <1>2 DEF SessionInv
<1>4. \A i \in 1..n : sessionCalls[i].hook \in Changing => sessionCalls[i].obj # o
  BY <1>3 DEF CallHook, BeingChanged, Changing
<1> HIDE DEF n, call
<1>5. \A i \in 1..(n + 1) : i \in 1..n \/ i = n + 1
  BY <1>3
<1>6. \A i \in DOMAIN sessionCalls' :
        sessionCalls'[i].hook = "onPreSessionUnlink"
          => sessionCalls'[i].sess = session'[sessionCalls'[i].obj]
  BY <1>1, <1>2, <1>3, <1>5 DEF SessionInv
<1>7. \A i, j \in DOMAIN sessionCalls' :
        /\ sessionCalls'[i].hook \in Changing /\ sessionCalls'[j].hook \in Changing
        /\ sessionCalls'[i].obj = sessionCalls'[j].obj
        => i = j
  BY <1>1, <1>3, <1>4, <1>5 DEF SessionInv
<1>8. QED
  BY <1>2, <1>3, <1>6, <1>7 DEF SessionInv

(* The session changes, between the two hooks of the innermost call. *)
LEMMA ChangeKeeps ==
  ASSUME SessionInv, sessionCalls # <<>>, InnerCall.hook \in Changing,
         NEW s \in Session \cup {NoSession},
         NEW hook \in {"onPostSessionLink", "onPostSessionUnlink"},
         Change(s, hook), heard' = [heard EXCEPT ![InnerCall.obj] = s]
  PROVE  SessionInv'
<1> DEFINE n == Len(sessionCalls)
           call == [InnerCall EXCEPT !.hook = hook]
<1>1. n \in Nat /\ n # 0 /\ DOMAIN sessionCalls = 1..n
  BY EmptySeq DEF SessionInv
<1>2. n \in 1..n
  <2> HIDE DEF n
  <2>1. QED
    BY <1>1
<1>3. InnerCall \in SessionCall /\ InnerCall = sessionCalls[n]
  BY <1>1, <1>2 DEF SessionInv, InnerCall
<1>4. call \in SessionCall /\ call.hook = hook /\ call.obj = InnerCall.obj
  BY <1>3 DEF SessionCall
<1>5. sessionCalls' = [sessionCalls EXCEPT ![n] = call]
  BY DEF Change, InnerCall
<1> HIDE DEF call
<1>6. /\ sessionCalls' \in Seq(SessionCall) /\ DOMAIN sessionCalls' = 1..n
      /\ \A i \in 1..n : sessionCalls'[i] = IF i = n THEN call ELSE sessionCalls[i]
  BY <1>1, <1>2, <1>4, <1>5 DEF SessionInv
<1>7. InnerCall.obj \in Object
  BY <1>3 DEF SessionCall
<1>8. /\ session' \in [Object -> Session \cup {NoSession}] /\ heard' = session'
      /\ \A o \in Object : o # InnerCall.obj => session'[o] = session[o]
  BY <1>7 DEF SessionInv, Change
<1>9. hook \notin Changing /\ hook # "onPreSessionUnlink"
  BY DEF Changing
<1> HIDE DEF n
<1>10. \A i \in 1..n : i # n /\ sessionCalls[i].hook \in Changing =>
         sessionCalls[i].obj \in Object /\ sessionCalls[i].obj # InnerCall.obj
  <2>1. \A i \in 1..n : sessionCalls[i] \in SessionCall
    BY <1>1 DEF SessionInv
  <2>2. QED
    BY <1>1, <1>2, <1>3, <2>1 DEF SessionInv, SessionCall
<1>11. \A i \in DOMAIN sessionCalls' :
         sessionCalls'[i].hook = "onPreSessionUnlink"
           => sessionCalls'[i].sess = session'[sessionCalls'[i].obj]
  BY <1>1, <1>4, <1>6, <1>8, <1>9, <1>10 DEF SessionInv, Changing
<1>12. \A i, j \in DOMAIN sessionCalls' :
         /\ sessionCalls'[i].hook \in Changing /\ sessionCalls'[j].hook \in Changing
         /\ sessionCalls'[i].obj = sessionCalls'[j].obj
         => i = j
  BY <1>1, <1>4, <1>6, <1>9 DEF SessionInv
<1>13. QED
  BY <1>6, <1>8, <1>11, <1>12 DEF SessionInv

LEMMA SessionReturnKeeps ==
  ASSUME SessionInv, SessionReturn
  PROVE  SessionInv'
<1> DEFINE n == Len(sessionCalls)
<1>1. n \in Nat /\ n # 0 /\ DOMAIN sessionCalls = 1..n
  BY EmptySeq DEF SessionInv, SessionReturn
<1>2. /\ sessionCalls' \in Seq(SessionCall) /\ Len(sessionCalls') = n - 1
      /\ \A i \in 1 .. (n - 1) : sessionCalls'[i] = sessionCalls[i]
  BY FrontLemma DEF SessionInv, SessionReturn
<1>3. DOMAIN sessionCalls' = 1 .. (n - 1)
  BY <1>2
<1> HIDE DEF n
<1>4. \A i \in 1 .. (n - 1) : i \in 1..n
  BY <1>1
<1>5. QED
  BY <1>1, <1>2, <1>3, <1>4 DEF SessionInv, SessionReturn

LEMMA SessionNextKeeps ==
  ASSUME SessionInv, SessionNext
  PROVE  SessionInv'
<1>1. ASSUME NEW o \in Object, RemoveSession(o) PROVE SessionInv'
  <2>1. session[o] \in Session \cup {NoSession}
    BY DEF SessionInv
  <2>2. QED
    BY <1>1, <2>1, CallHookKeeps DEF RemoveSession, Changing
<1>2. ASSUME NEW o \in Object, NEW s \in Session \cup {NoSession}, SetSession(o, s)
      PROVE  SessionInv'
  BY <1>2, CallHookKeeps DEF SetSession, Changing
<1>3. sessionCalls # <<>> =>
        /\ InnerCall \in SessionCall
        /\ InnerCall.hook = "onPreSessionUnlink"
             => InnerCall.sess = session[InnerCall.obj]
  <2>1. sessionCalls # <<>> => Len(sessionCalls) \in DOMAIN sessionCalls
    BY EmptySeq DEF SessionInv
  <2>2. QED
    BY <2>1 DEF SessionInv, InnerCall
<1>4. CASE LinkSession
  BY <1>3, <1>4, ChangeKeeps DEF LinkSession, Changing, SessionCall
<1>5. CASE UnlinkSession
  <2>1. heard' = [heard EXCEPT ![InnerCall.obj] = NoSession]
    BY <1>3, <1>5 DEF UnlinkSession, SessionInv
  <2>2. QED
    BY <1>5, <2>1, ChangeKeeps DEF UnlinkSession, Changing
<1>6. QED
  BY <1>1, <1>2, <1>4, <1>5, SessionReturnKeeps DEF SessionNext

(***************************************************************************)
(* What the session hooks tell of is true, however calls of setSession and *)
(* removeSession nest, as long as no hook changes the session of an object *)
(* that is being changed (Object.cpp:33-61, 77-79).                        *)
(***************************************************************************)
THEOREM HooksTellOfSessions == PlaySpec => []HooksKnowTheSession
<1>1. SessionInit => SessionInv
  BY DEF SessionInit, SessionInv
<1>2. SessionInv /\ [PlayNext]_playVars => SessionInv'
  <2> SUFFICES ASSUME SessionInv, [PlayNext]_playVars PROVE SessionInv'
    OBVIOUS
  <2>1. CASE SessionNext
    BY <2>1, SessionNextKeeps
  <2>2. CASE UNCHANGED sessionVars
    BY <2>2 DEF sessionVars, SessionInv
  <2>3. QED
    BY <2>1, <2>2 DEF PlayNext, playVars
<1>3. SessionInv => HooksKnowTheSession
  BY DEF SessionInv, HooksKnowTheSession
<1>4. QED
  BY <1>1, <1>2, <1>3, PTL DEF PlaySpec

=============================================================================
