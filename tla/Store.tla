------------------------------- MODULE Store -------------------------------
(***************************************************************************)
(* What saveDatabase, loadDatabase and restarts promise together about the *)
(* objects of a game and their relations: a world is saved whole or not at *)
(* all, is lost in a crash unless it was saved, and comes back as it was   *)
(* saved, less the objects whose types the game no longer knows.           *)
(***************************************************************************)
CONSTANTS
  Object,   \* ids of objects
  Type,     \* types of objects
  RelName,  \* the names of relations
  Path,     \* the files
  Nothing   \* no file

VARIABLES
  disk,     \* disk[p]: the worlds saved to the file p, put together
  world,    \* the objects there are, and their relations
  known,    \* the types that this run of the game knows
  loading   \* the file that is being loaded

vars == <<disk, world, known, loading>>

(* A world holds its objects, and its relations from object to object.     *)
NoWorld == [objects |-> {}, relations |-> {}]
Ids(w) == {r.id : r \in w.objects}

Init ==
  /\ disk = [p \in Path |-> NoWorld] /\ world = NoWorld
  /\ known = Type /\ loading = Nothing

(* A new object, of a type that is known. *)
Create(o, t) ==
  /\ loading = Nothing
  /\ o \notin Ids(world) /\ t \in known
  /\ world' = [world EXCEPT !.objects = @ \cup {[id |-> o, type |-> t]}]
  /\ UNCHANGED <<disk, known, loading>>

(* An object's relation k is set or cleared. *)
Relate(o, k) ==
  /\ loading = Nothing
  /\ o \in Ids(world)
  /\ \E new \in {{}} \cup {{[id |-> o, type |-> k, target |-> v]} : v \in Ids(world)} :
       world' = [world EXCEPT
                   !.relations = {r \in @ : r.id # o \/ r.type # k} \cup new]
  /\ UNCHANGED <<disk, known, loading>>

(* A file takes in a world once: no id may have been saved to it before.   *)
Save(p) ==
  /\ loading = Nothing
  /\ Ids(world) \cap Ids(disk[p]) = {}
  /\ disk' = [disk EXCEPT ![p].objects = @ \cup world.objects,
                          ![p].relations = @ \cup world.relations]
  /\ UNCHANGED <<world, known, loading>>

StartLoading(p) ==
  /\ loading = Nothing /\ world = NoWorld
  /\ loading' = p
  /\ UNCHANGED <<disk, world, known>>

(* What is left of a world without the types that are not known. *)
Restored(w) ==
  LET back == {r \in w.objects : r.type \in known}
      ids == {r.id : r \in back}
  IN [objects |-> back,
      relations |-> {r \in w.relations : r.id \in ids /\ r.target \in ids}]

FinishLoading ==
  /\ loading # Nothing
  /\ world' = Restored(disk[loading]) /\ loading' = Nothing
  /\ UNCHANGED <<disk, known>>

(* The game stops or crashes, and starts again. *)
Restart ==
  /\ world' = NoWorld /\ loading' = Nothing /\ known' \in SUBSET Type
  /\ UNCHANGED disk

Next ==
  \/ \E o \in Object :
       (\E t \in Type : Create(o, t)) \/ (\E k \in RelName : Relate(o, k))
  \/ \E p \in Path : Save(p) \/ StartLoading(p)
  \/ FinishLoading \/ Restart

Spec == Init /\ [][Next]_vars

=============================================================================
