---------------------------- MODULE Containment ----------------------------
(***************************************************************************)
(* What moveTo and atDelete promise together, seen from outside: objects   *)
(* are put into other objects and taken out of them, one at a time, and    *)
(* never into themselves.  Movement implements this specification.         *)
(***************************************************************************)
EXTENDS Forests

CONSTANTS
  Object,     \* the Object instances
  NoObject    \* the null pointer: the object is nowhere

(* Nowhere is not an object. *)
NowhereIsNoObject == NoObject \notin Object

VARIABLE location   \* location[o]: the object that o is in

Init == location = [o \in Object |-> NoObject]

(* moveTo into a destination that o does not enclose. *)
Put(o, dest) ==
  /\ o \notin Enclosing(location, dest)
  /\ location' = [location EXCEPT ![o] = dest]

(* The first half of a move that has an origin, or a deletion. *)
TakeOut(o) == location' = [location EXCEPT ![o] = NoObject]

Next == \E o \in Object : TakeOut(o) \/ \E dest \in Object : Put(o, dest)

Spec == Init /\ [][Next]_location

-----------------------------------------------------------------------------

(* moveTo's walk up the locations must stay finite: no object is inside    *)
(* itself, directly or through others (Object.cpp:276-284).                *)
Forest == IsForest(location)

=============================================================================
