---------------------------- MODULE GameObjects ----------------------------
(***************************************************************************)
(* The objects of a running game: the registry of Object.cpp, and what an  *)
(* Object keeps beside its relations, in its handlers for stats, equipment *)
(* and aspects.  Every operation is called by the game's code and calls    *)
(* no hook that could come back, so each is one step.                      *)
(*                                                                         *)
(* An Object is known by its id here.  Of its strings only "equippedAt" is *)
(* kept, the one the library itself writes.                                *)
(***************************************************************************)
EXTENDS Relations, Registries, Integers, FiniteSetsExt

CONSTANTS
  Type,           \* the types of objects
  TypesOf,        \* getTypes() of each: its main type and its sub-type
  StatEntry,      \* the registered stats; each is real or virtual
  EquipEntry,     \* the registered equipment slots
  AspectSlot,     \* the registered slots for aspects
  Aspect,         \* the registered aspects, by type, kind of slot and save key
  Value,          \* bound: the values of stats
  Nothing,        \* an absent string, value or aspect
  GameLoadsHandlers,  \* does the game's atCreate call load() of the handlers?
  Checked         \* the items that a game equips only while they say they are not worn

ASSUME GameObjectsAssumption ==
  /\ Object \subseteq Int
  /\ GameLoadsHandlers \in BOOLEAN /\ Checked \subseteq Object
  /\ \A t \in Type : Len(TypesOf[t]) = 2
  /\ OneEntryPerKey(StatEntry) /\ OneEntryPerKey(EquipEntry)
  /\ OneEntryPerKey(AspectSlot)
  /\ \A e \in StatEntry : e.real \in BOOLEAN
  /\ \A a, b \in Aspect :
       /\ a.objType = b.objType /\ a.slotType = b.slotType /\ a.saveKey = b.saveKey
       => a = b
  /\ Nothing \notin Value /\ Nothing \notin Aspect
  /\ Nothing \notin Names(EquipEntry)

VARIABLES
  objects,       \* game::objects: the type of each object there is, by its id
  lastInsertID,  \* state::lastInsertID
  registered,    \* objectRegistry: the types this build of the game registers
  fields         \* per object, what it and its handlers keep

memory == <<graph, objects, lastInsertID, registered, fields>>

SaveKeys == {a.saveKey : a \in Aspect}

Empty == [x \in {} |-> x]

(***************************************************************************)
(* What load() of a handler may leave behind for an object of type t: the  *)
(* flag "loaded" is never initialized, so load() may take it that there is *)
(* nothing left to do; nor is a RealStat's base.  A virtual stat has no    *)
(* base.  Without load() there is nothing either.                          *)
(***************************************************************************)
LoadedStats(t) ==
  LET entries == Merged(StatEntry, TypesOf[t])
      real == Names({e \in entries : e.real})
  IN {Empty} \cup
       IF ~GameLoadsHandlers THEN {}
       ELSE {[s \in Names(entries) |-> IF s \in real THEN base[s] ELSE Nothing] :
               base \in [real -> Value]}

LoadedSlots(t) ==
  {Empty} \cup
    IF ~GameLoadsHandlers THEN {}
    ELSE [Names(Merged(EquipEntry, TypesOf[t])) -> {NoObject}]

LoadedAspectSlots(t) ==
  {{}} \cup
    IF ~GameLoadsHandlers THEN {} ELSE {Names(Merged(AspectSlot, TypesOf[t]))}

(* What atCreate leaves behind. *)
Created(t) ==
  [equippedAt : {Nothing}, stats : LoadedStats(t), slots : LoadedSlots(t),
   aspectSlots : LoadedAspectSlots(t), aspects : [SaveKeys -> {Nothing}]]

Blank == [equippedAt |-> Nothing, stats |-> Empty, slots |-> Empty,
          aspectSlots |-> {}, aspects |-> [k \in SaveKeys |-> Nothing]]

MemoryInit ==
  /\ NoRelations
  /\ objects = Empty /\ lastInsertID = 0 /\ registered = Type
  /\ fields = [o \in Object |-> Blank]

Live == DOMAIN objects

-----------------------------------------------------------------------------

(* createObject, once an id has been settled on. *)
Construct(o, t) ==
  /\ t \in registered
  /\ objects' = [i \in Live \cup {o} |-> IF i = o THEN t ELSE objects[i]]
  /\ \E f \in Created(t) : fields' = [fields EXCEPT ![o] = f]
  /\ UNCHANGED <<graph, registered>>

(* createObject with an id: one in use is refused. *)
CreateWithId(o, t) ==
  /\ o \in Object \ Live
  /\ Construct(o, t)
  /\ UNCHANGED lastInsertID

(* getNextAvailableID, and createObject with that id. *)
CreateWithNextId(t) ==
  LET free == {n \in Object \ Live : n >= lastInsertID} IN
  /\ free # {}
  /\ LET id == Min(free) IN
       /\ lastInsertID' = id
       /\ Construct(id, t)

(* Stat::set and modify; a virtual stat ignores them. *)
SetStat(o, s, v) ==
  /\ s \in DOMAIN fields[o].stats
  /\ fields' = [fields EXCEPT ![o].stats[s] = IF @ = Nothing THEN @ ELSE v]
  /\ UNCHANGED <<graph, objects, lastInsertID, registered>>

Wearing(o) == {s \in DOMAIN fields[o].slots : fields[o].slots[s] # NoObject}

(* Mutant: the item is not told where it is worn. *)
EquipSilently(o, s, item) ==
  /\ s \in DOMAIN fields[o].slots
  /\ fields' = [fields EXCEPT ![o].slots[s] = item]
  /\ UNCHANGED <<graph, objects, lastInsertID, registered>>

(* EquipSlot::equip.  It looks neither whether the slot is taken, as       *)
(* canEquip would, nor whether the item is worn already; an item that it   *)
(* replaces is not told.                                                   *)
Equip(o, s, item) ==
  /\ s \in DOMAIN fields[o].slots
  /\ fields' = [fields EXCEPT ![o].slots[s] = item, ![item].equippedAt = s]
  /\ UNCHANGED <<graph, objects, lastInsertID, registered>>

(* What a game asks of an item before it equips it, if it asks. *)
MayWear(item) == item \in Checked => fields[item].equippedAt = Nothing

(* The library has no unequip: a game empties the slot and calls atUnequip.*)
Unequip(o, s) ==
  /\ s \in Wearing(o)
  /\ fields' = [fields EXCEPT ![o].slots[s] = NoObject,
                              ![fields[o].slots[s]].equippedAt = Nothing]
  /\ UNCHANGED <<graph, objects, lastInsertID, registered>>

(* Slots are loaded for each of the object's types, but what goes into one *)
(* is only looked for among the aspects of its main type.                  *)
MayHold(o, a) ==
  /\ a.slotType \in fields[o].aspectSlots
  /\ a.objType = TypesOf[objects[o]][1]

(* AspectSlot::setAspect: aspects are kept by their save keys. *)
SetAspect(o, a) ==
  /\ MayHold(o, a)
  /\ fields' = [fields EXCEPT ![o].aspects[a.saveKey] = a]
  /\ UNCHANGED <<graph, objects, lastInsertID, registered>>

(* setRelation and clearRelation between objects there are. *)
Relate(o, k) ==
  /\ \E v \in Live \cup {NoObject} : SetRelation(o, k, v)
  /\ UNCHANGED <<objects, lastInsertID, registered, fields>>

Play ==
  \/ \E t \in Type : CreateWithNextId(t) \/ \E o \in Object : CreateWithId(o, t)
  \/ \E o \in Live :
       \/ \E s \in Names(StatEntry), v \in Value : SetStat(o, s, v)
       \/ \E s \in Names(EquipEntry) :
            \/ Unequip(o, s)
            \/ \E item \in Live : MayWear(item) /\ Equip(o, s, item)
       \/ \E a \in Aspect : SetAspect(o, a)
       \/ \E k \in RelName : Relate(o, k)

-----------------------------------------------------------------------------

(***************************************************************************)
(* An item that a slot holds says that it is worn, and in that slot, and   *)
(* no other slot of any object holds it: in play, in the middle of a load  *)
(* and after a restart, in whatever order the objects were loaded, since   *)
(* the two are kept in two objects and saved in two tables (Equip.cpp:     *)
(* 14-17 and 127-141, Object.cpp:202-212).  This is so for the items of    *)
(* which the game asks MayWear, which equip itself never does.  An item may*)
(* say it is worn where no slot holds it: another has replaced it, or the  *)
(* wearer's slots were not loaded.                                         *)
(***************************************************************************)
WornWhereItSays ==
  \A o \in Live : \A s \in Wearing(o) :
    LET item == fields[o].slots[s] IN
    item \in Checked =>
      /\ fields[item].equippedAt = s
      /\ \A p \in Live : \A u \in Wearing(p) :
           fields[p].slots[u] = item => p = o /\ u = s

=============================================================================
