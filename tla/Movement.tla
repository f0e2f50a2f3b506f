------------------------------ MODULE Movement ------------------------------
(***************************************************************************)
(* Object::moveTo and Object::atDelete (Object.cpp:75-86 and 250-309).     *)
(*                                                                         *)
(* Both run on the game's one thread, yet neither is atomic: they call     *)
(* virtual hooks of the objects involved, the hooks belong to the game     *)
(* built on the library, and a hook may itself move or delete objects      *)
(* before it returns.  The variable stack is the C++ call stack of these   *)
(* two functions; each step runs the topmost call from the return of one   *)
(* hook to the call of the next one.                                       *)
(***************************************************************************)
EXTENDS Relations, Forests

CONSTANTS
  Location,    \* the relation "location"
  ReentrantHooks, \* the hooks in which the game moves or deletes objects
  MaxDepth     \* bound: how deep such calls nest

VARIABLE stack   \* the calls in progress, the innermost last

vars == <<relations, reverseRelations, stack>>

(* The hooks that answer an OpResult, and the others. *)
PreHooks == {"atPreMove", "atPreObjectLeave", "atPreObjectReceive"}
PostHooks == {"atObjectReceive", "announceMoveTo", "atPostMove"}
DeleteHooks == {"atObjectDeleted", "atDeleteLeave"}
Hooks == PreHooks \cup PostHooks \cup DeleteHooks
           \cup {"atObjectLeave", "announceMoveFrom"}

(***************************************************************************)
(* A call: the hook it is in (or the piece of its own code it runs next),  *)
(* and its variables.  quiet says whether the parameters hold an entry     *)
(* "quiet" at all, since moveTo tests the optional and not its value.      *)
(***************************************************************************)
Frame ==
  [pc : Hooks \cup {"walk", "clear", "set", "deleteClear"},
   obj : Object,                   \* this
   dest : Object \cup {NoObject},  \* the parameter "destination"
   loc : Object \cup {NoObject},   \* the location read on entry
   d : Object \cup {NoObject},     \* where the walk up the locations is
   quiet : BOOLEAN]

ASSUME MovementAssumption ==
  /\ Location \in RelName
  /\ ReentrantHooks \subseteq Hooks
  /\ MaxDepth \in Nat \ {0}

Top == stack[Len(stack)]
At(pc) == stack # <<>> /\ Top.pc = pc
Enter(f) == stack' = [stack EXCEPT ![Len(stack)] = f]
Goto(pc) == Enter([Top EXCEPT !.pc = pc])
Return == stack' = Front(stack)

(* Where each object is: what getRelation("location") answers. *)
Where == [o \in Object |-> relations[o][Location]]

-----------------------------------------------------------------------------
(* Calls, from outside or from a hook. *)

Call(f) ==
  /\ stack # <<>> => Top.pc \in ReentrantHooks /\ Len(stack) < MaxDepth
  /\ stack' = Append(stack, f)
  /\ UNCHANGED graph

MoveTo(o, dest, quiet) ==
  Call([pc |-> "atPreMove", obj |-> o, dest |-> dest,
        loc |-> Where[o], d |-> NoObject, quiet |-> quiet])

AtDelete(o) ==
  Call([pc |-> "atObjectDeleted", obj |-> o, dest |-> NoObject,
        loc |-> NoObject, d |-> NoObject, quiet |-> TRUE])

-----------------------------------------------------------------------------
(* moveTo: may the object leave, and may it enter? *)

(* One of the three pre-hooks says no. *)
Refuse ==
  /\ stack # <<>> /\ Top.pc \in PreHooks
  /\ Return
  /\ UNCHANGED graph

AskOrigin ==
  /\ At("atPreMove") /\ Top.loc # NoObject
  /\ Goto("atPreObjectLeave")
  /\ UNCHANGED graph

(* Both questions about the origin are answered: line 270 on. *)
MayLeave ==
  At("atPreObjectLeave") \/ (At("atPreMove") /\ Top.loc = NoObject)

RefuseIntoItself ==
  /\ MayLeave /\ Top.dest = Top.obj
  /\ Return
  /\ UNCHANGED graph

(* Mutant: the destination itself is looked at, but not what it is in. *)
StartWithoutWalk ==
  /\ MayLeave /\ Top.dest \notin {NoObject, Top.obj}
  /\ Goto("atPreObjectReceive")
  /\ UNCHANGED graph

StartWalk ==
  /\ MayLeave /\ Top.dest \notin {NoObject, Top.obj}
  /\ Enter([Top EXCEPT !.pc = "walk", !.d = Top.dest])
  /\ UNCHANGED graph

(* Mutant: d is not advanced. *)
WalkStandsStill ==
  /\ At("walk")
  /\ Where[Top.d] \notin {NoObject, Top.obj}
  /\ UNCHANGED vars

(* The loop that looks for the mover among what encloses its destination. *)
WalkUp ==
  /\ At("walk")
  /\ LET l == Where[Top.d] IN
       /\ l \notin {NoObject, Top.obj}
       /\ Enter([Top EXCEPT !.d = l])
  /\ UNCHANGED graph

RefuseCircular ==
  /\ At("walk") /\ Where[Top.d] = Top.obj
  /\ Return
  /\ UNCHANGED graph

(* Mutant: an if in place of the loop. *)
AskAfterOneLook ==
  /\ At("walk") /\ Where[Top.d] # Top.obj
  /\ Enter([Top EXCEPT !.pc = "atPreObjectReceive", !.d = NoObject])
  /\ UNCHANGED graph

AskDestination ==
  /\ At("walk") /\ Where[Top.d] = NoObject
  /\ Enter([Top EXCEPT !.pc = "atPreObjectReceive", !.d = NoObject])
  /\ UNCHANGED graph

-----------------------------------------------------------------------------
(* moveTo: the move itself. *)

(* Mutants: no test of dest before setRelation; a quiet move skips the     *)
(* departure hook along with the announcement.                             *)
StartMoveAnywhere ==
  /\ \/ At("atPreObjectReceive")
     \/ MayLeave /\ Top.dest = NoObject
  /\ Goto(IF Top.loc # NoObject THEN "atObjectLeave" ELSE "set")
  /\ UNCHANGED graph

StartQuietMoveUnheard ==
  /\ \/ At("atPreObjectReceive")
     \/ MayLeave /\ Top.dest = NoObject
  /\ Goto(IF Top.loc # NoObject THEN IF Top.quiet THEN "clear" ELSE "atObjectLeave"
          ELSE IF Top.dest # NoObject THEN "set" ELSE "atPostMove")
  /\ UNCHANGED graph

StartMove ==
  /\ \/ At("atPreObjectReceive")
     \/ MayLeave /\ Top.dest = NoObject
  /\ Goto(IF Top.loc # NoObject THEN "atObjectLeave"
          ELSE IF Top.dest # NoObject THEN "set" ELSE "atPostMove")
  /\ UNCHANGED graph

AnnounceFrom ==
  /\ At("atObjectLeave")
  /\ Goto(IF Top.quiet THEN "clear" ELSE "announceMoveFrom")
  /\ UNCHANGED graph

AnnouncedFrom ==
  /\ At("announceMoveFrom")
  /\ Goto("clear")
  /\ UNCHANGED graph

(* Mutant: clearing is left to setRelation when there is a destination. *)
ClearLocationUnlessMoving ==
  /\ At("clear")
  /\ IF Top.dest = NoObject THEN ClearRelation(Top.obj, Location)
     ELSE UNCHANGED graph
  /\ Goto(IF Top.dest # NoObject THEN "set" ELSE "atPostMove")

ClearLocation ==
  /\ At("clear")
  /\ ClearRelation(Top.obj, Location)
  /\ Goto(IF Top.dest # NoObject THEN "set" ELSE "atPostMove")

SetLocation ==
  /\ At("set")
  /\ SetRelation(Top.obj, Location, Top.dest)
  /\ Goto("atObjectReceive")

AnnounceTo ==
  /\ At("atObjectReceive")
  /\ Goto(IF Top.quiet THEN "atPostMove" ELSE "announceMoveTo")
  /\ UNCHANGED graph

AnnouncedTo ==
  /\ At("announceMoveTo")
  /\ Goto("atPostMove")
  /\ UNCHANGED graph

FinishMove ==
  /\ At("atPostMove")
  /\ Return
  /\ UNCHANGED graph

-----------------------------------------------------------------------------
(* atDelete, after the session (if any) has been told. *)

DeleteFromNowhere ==
  /\ At("atObjectDeleted") /\ Where[Top.obj] = NoObject
  /\ Return
  /\ UNCHANGED graph

DeleteLeaves ==
  /\ At("atObjectDeleted") /\ Where[Top.obj] # NoObject
  /\ Enter([Top EXCEPT !.pc = "atDeleteLeave", !.loc = Where[Top.obj]])
  /\ UNCHANGED graph

DeleteLeft ==
  /\ At("atDeleteLeave")
  /\ Goto("deleteClear")
  /\ UNCHANGED graph

DeleteClears ==
  /\ At("deleteClear")
  /\ ClearRelation(Top.obj, Location)
  /\ Return

-----------------------------------------------------------------------------

Init == NoRelations /\ stack = <<>>

(* What the innermost call does when its current hook returns. *)
Proceed ==
  \/ Refuse \/ AskOrigin \/ RefuseIntoItself \/ StartWalk
  \/ WalkUp \/ RefuseCircular \/ AskDestination
  \/ StartMove \/ AnnounceFrom \/ AnnouncedFrom \/ ClearLocation
  \/ SetLocation \/ AnnounceTo \/ AnnouncedTo \/ FinishMove
  \/ DeleteFromNowhere \/ DeleteLeaves \/ DeleteLeft \/ DeleteClears

Next ==
  \/ \E o \in Object :
       \/ AtDelete(o)
       \/ \E dest \in Object \cup {NoObject}, quiet \in BOOLEAN :
            MoveTo(o, dest, quiet)
  \/ Proceed

Spec == Init /\ [][Next]_vars

(***************************************************************************)
(* moveTo and atDelete wait for nothing but their hooks, and a hook that   *)
(* keeps getting its nested calls answered returns in the end.             *)
(***************************************************************************)
Fairness == \A n \in 1..MaxDepth : SF_vars(Len(stack) = n /\ Proceed)

FairSpec == Spec /\ Fairness

-----------------------------------------------------------------------------

(* The hooks between the walk and the move. *)
WindowHooks == {"atPreObjectReceive", "atObjectLeave", "announceMoveFrom"}

(* What the game must respect for the walk to be worth anything: it moves  *)
(* nothing while another move is between its walk and its setRelation.     *)
WindowIsQuiet == ReentrantHooks \cap WindowHooks = {}

(* The pointers a call is about to use are not null. *)
Usable(f) ==
  /\ f.pc = "walk" => f.d \in Object
  /\ f.pc \in {"walk", "atPreObjectReceive", "set", "atObjectReceive",
               "announceMoveTo"} => f.dest \in Object
  /\ f.pc \in {"atPreObjectLeave", "atObjectLeave", "announceMoveFrom",
               "clear", "atDeleteLeave", "deleteClear"} => f.loc \in Object

(* The types, and that no hook is called on a null pointer: the origin and *)
(* the destination are there wherever the code uses them.                  *)
MovementTypeOK ==
  /\ RelationsTypeOK
  /\ stack \in Seq(Frame)
  /\ \A i \in DOMAIN stack : Usable(stack[i])

(* moveTo never makes an object contain itself, however hooks nest moves   *)
(* and deletions outside the window (the message of Object.cpp:281).       *)
Forest == IsForest(Where)

(* Whatever its hooks do outside the window, what a move does to the       *)
(* locations is what Containment allows (Object.cpp:298 and 302).          *)
Abstract == INSTANCE Containment WITH location <- Where
ImplementsContainment == Abstract!Spec

(* A move or deletion that has begun ends, and the game loop goes on: the  *)
(* walk of Object.cpp:277 never meets a cycle.                             *)
MovesReturn == stack # <<>> ~> stack = <<>>

(* When setRelation returns, the mover is where it was sent, although the  *)
(* result setRelation looks at is undefined (Object.cpp:302, 353 and 382). *)
ArrivesWhereSent == [][At("set") => Where'[Top.obj] = Top.dest]_vars

=============================================================================
