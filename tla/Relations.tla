------------------------------ MODULE Relations ------------------------------
(***************************************************************************)
(* The named relations between game objects (Object.cpp, "Relations").     *)
(*                                                                         *)
(* Every object keeps, per relation name, the object it points at, and, as *)
(* a back pointer, the list of the objects that point at it.  The list of  *)
(* the "location" relation is what getContents() returns.  The two maps    *)
(* live in different objects and are updated by different statements; what *)
(* makes the data structure correct is that they always agree.             *)
(*                                                                         *)
(* All of this runs on the one thread that runs the io_context, so a call  *)
(* that invokes no hook is one atomic step.                                *)
(***************************************************************************)
EXTENDS SequencesExt, Integers

CONSTANTS
  Object,     \* the Object instances
  RelName,    \* the names of relations, e.g. "location"
  NoObject    \* the null pointer

ASSUME NullIsNoObject == NoObject \notin Object

VARIABLES
  relations,         \* relations[o][k]: what o points at under the name k
  reverseRelations   \* reverseRelations[v][k]: who points at v, oldest first

graph == <<relations, reverseRelations>>

(***************************************************************************)
(* A name that is absent from the map relations of an object is NoObject   *)
(* here, and one absent from the map reverseRelations is the empty list.   *)
(***************************************************************************)
NoRelations ==
  /\ relations = [o \in Object |-> [k \in RelName |-> NoObject]]
  /\ reverseRelations = [v \in Object |-> [k \in RelName |-> <<>>]]

(* Mutants of ClearRelation: the back pointer stays, or the last one fills *)
(* the gap instead of the others closing up.                               *)
ClearLeavesBackPointer(o, k) ==
  /\ relations' = [relations EXCEPT ![o][k] = NoObject]
  /\ UNCHANGED reverseRelations

ClearSwapsWithLast(o, k) ==
  LET v == relations[o][k] IN
  IF v = NoObject
  THEN UNCHANGED graph
  ELSE LET back == reverseRelations[v][k]
           filled == [i \in DOMAIN back |->
                        IF back[i] = o THEN Last(back) ELSE back[i]]
       IN /\ relations' = [relations EXCEPT ![o][k] = NoObject]
          /\ reverseRelations' = [reverseRelations EXCEPT ![v][k] = Front(filled)]

(***************************************************************************)
(* clearRelation: forget the relation and take the object out of the list  *)
(* of the object it pointed at (std::find and erase of the first match).   *)
(***************************************************************************)
ClearRelation(o, k) ==
  LET v == relations[o][k] IN
  IF v = NoObject
  THEN UNCHANGED graph
  ELSE /\ relations' = [relations EXCEPT ![o][k] = NoObject]
       /\ reverseRelations' =
            [reverseRelations EXCEPT ![v][k] = RemoveFirst(@, o)]

(* The rest of setRelation once no relation named k is in the way. *)
Link(o, k, v) ==
  /\ relations' = [relations EXCEPT ![o][k] = v]
  /\ reverseRelations' = [reverseRelations EXCEPT ![v][k] = Append(@, o)]

(* clearRelation(k) followed by Link, in one call of setRelation. *)
Relink(o, k, v) ==
  LET cleared ==
        [reverseRelations EXCEPT ![relations[o][k]][k] = RemoveFirst(@, o)]
  IN /\ relations' = [relations EXCEPT ![o][k] = v]
     /\ reverseRelations' = [cleared EXCEPT ![v][k] = Append(@, o)]

(***************************************************************************)
(* setRelation.  clearRelation has no return statement on the path that    *)
(* clears a relation, so the result setRelation then tests is whatever the *)
(* return slot held: the new relation may or may not be made, and when it  *)
(* is not the old one is gone all the same.                                *)
(***************************************************************************)
SetRelation(o, k, v) ==
  \/ /\ v = NoObject \/ relations[o][k] # NoObject
     /\ ClearRelation(o, k)
  \/ /\ v # NoObject
     /\ relations[o][k] = NoObject
     /\ Link(o, k, v)
  \/ /\ v # NoObject
     /\ relations[o][k] # NoObject
     /\ Relink(o, k, v)

-----------------------------------------------------------------------------

RelationsInit == NoRelations

RelationsNext ==
  \E o \in Object, k \in RelName :
    \/ ClearRelation(o, k)
    \/ \E v \in Object \cup {NoObject} : SetRelation(o, k, v)

RelationsSpec == RelationsInit /\ [][RelationsNext]_graph

-----------------------------------------------------------------------------

(* The types of the two maps of Object (Object.h, protected members). *)
RelationsTypeOK ==
  /\ relations \in [Object -> [RelName -> Object \cup {NoObject}]]
  /\ reverseRelations \in [Object -> [RelName -> Seq(Object)]]

(* The list v keeps under k holds exactly the objects that point at v. *)
BackPointers ==
  \A o, v \in Object, k \in RelName :
    relations[o][k] = v <=> o \in ToSet(reverseRelations[v][k])

(* No list holds an object twice. *)
NoDuplicates ==
  \A v \in Object, k \in RelName : IsInjective(reverseRelations[v][k])

(***************************************************************************)
(* Forward and reverse relations agree, whatever the order of calls and    *)
(* whichever way the missing return falls.  It is what makes the erase in  *)
(* clearRelation defined (find never answers end()), and what makes        *)
(* getContents() list an object in one container only.                     *)
(***************************************************************************)
Mirror == BackPointers /\ NoDuplicates

(* p is in the list, and so is q, not before p. *)
Precedes(list, p, q) ==
  \E i, j \in DOMAIN list : i <= j /\ list[i] = p /\ list[j] = q

(* Every list holds the same objects but o, in the same order, after a step.*)
OthersStay(o) ==
  \A v \in Object, k \in RelName : \A p, q \in Object \ {o} :
    Precedes(reverseRelations'[v][k], p, q)
      <=> Precedes(reverseRelations[v][k], p, q)

(***************************************************************************)
(* A call moves one object only: of the others, every list holds the same  *)
(* ones in the same order after the call (Object.cpp:346-382).  It is what *)
(* lets a caller of getContents() rely on the order of arrival.            *)
(***************************************************************************)
OnlyOneMoves == [][\E o \in Object : OthersStay(o)]_graph

=============================================================================
