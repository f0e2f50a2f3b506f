-------------------------- MODULE PersistenceProofs --------------------------
(***************************************************************************)
(* What is saved and what comes back, for any ids, types, stats, equipment,*)
(* aspects and files, and however loads, saves, crashes and the steps of   *)
(* the game follow each other.                                             *)
(*                                                                         *)
(* None of the properties is inductive.  That an object that is worn says  *)
(* so may be broken by a load, unless the file was written by a save that  *)
(* saw it hold: so the invariant is about the memory, about every file,    *)
(* and about how far the save or the load that is running has come.        *)
(***************************************************************************)
EXTENDS Persistence, RelationsProofs

-----------------------------------------------------------------------------
(* The invariant. *)

(* f is a map from some of the keys S to T. *)
IsPartial(f, S, T) == DOMAIN f \subseteq S /\ f \in [DOMAIN f -> T]

(* The stats that are real for objects of type t: the others are computed. *)
RealStats(t) == Names({e \in Merged(StatEntry, TypesOf[t]) : e.real})

(* The registry has finitely many objects, each of a type of the game. *)
ObjectsOK ==
  /\ Live \subseteq Object /\ IsFiniteSet(Live)
  /\ objects \in [Live -> Type] /\ registered \subseteq Type
  /\ lastInsertID \in Nat

(* What an object keeps: stats, slots and aspects that are registered, and *)
(* an aspect only under its own save key.                                  *)
FieldOK(f) ==
  /\ f \in [equippedAt : Names(EquipEntry) \cup {Nothing}, stats : {f.stats},
            slots : {f.slots}, aspectSlots : {f.aspectSlots},
            aspects : [SaveKeys -> Aspect \cup {Nothing}]]
  /\ IsPartial(f.stats, Names(StatEntry), Value \cup {Nothing})
  /\ IsPartial(f.slots, Names(EquipEntry), Object \cup {NoObject})
  /\ \A k \in SaveKeys : f.aspects[k] # Nothing => f.aspects[k].saveKey = k

(* Every object keeps such fields. *)
FieldsOK ==
  /\ fields = [o \in Object |-> fields[o]]
  /\ \A o \in Object : FieldOK(fields[o])

(* The stats of an object that have a value are the real ones of its type. *)
StatsOK ==
  \A o \in Live : \A s \in DOMAIN fields[o].stats :
    fields[o].stats[s] # Nothing <=> s \in RealStats(objects[o])

(* Only objects of the registry are related, and only to each other. *)
AmongLive ==
  \A o \in Object, k \in RelName :
    relations[o][k] # NoObject => o \in Live /\ relations[o][k] \in Live

(* What is worn is in the registry. *)
WornLive ==
  \A o \in Live : \A s \in Wearing(o) : fields[o].slots[s] \in Live

(* The game's check keeps an item in one slot of one object; and the item  *)
(* says which.                                                             *)
WornOnce ==
  \A o, p \in Live : \A s \in Wearing(o), u \in Wearing(p) :
    fields[o].slots[s] \in Checked /\ fields[o].slots[s] = fields[p].slots[u]
    => o = p /\ s = u

SaysWhere ==
  \A o \in Live : \A s \in Wearing(o) :
    fields[o].slots[s] \in Checked => fields[fields[o].slots[s]].equippedAt = s

(* The memory of a running game. *)
MemoryInv ==
  /\ GraphInv /\ ObjectsOK /\ AmongLive /\ FieldsOK
  /\ StatsOK /\ WornLive /\ WornOnce /\ SaysWhere

(* The ids of the rows of objects. *)
Ids(rows) == {r.id : r \in rows.objects}

(* The rows of a file: at most one for each key, those of every table about*)
(* an object that has a row itself; no stat that is not real; an item that *)
(* is checked in one slot at most, with the "equippedAt" that says so.     *)
RowsOK(rows) ==
  /\ rows = [t \in Tables |-> rows[t]]
  /\ IsFiniteSet(rows.objects)
  /\ rows.objects \subseteq [id : Object, type : Type]
  /\ \A r, s \in rows.objects : r.id = s.id => r = s
  /\ rows.strings \subseteq [id : Ids(rows), value : Names(EquipEntry)]
  /\ \A r, s \in rows.strings : r.id = s.id => r = s
  /\ rows.relations \subseteq [id : Ids(rows), type : RelName, target : Ids(rows)]
  /\ \A r, s \in rows.relations : r.id = s.id /\ r.type = s.type => r = s
  /\ rows.stats \subseteq [id : Ids(rows), type : Names(StatEntry), value : Value]
  /\ \A r, s \in rows.stats : r.id = s.id /\ r.type = s.type => r = s
  /\ \A r \in rows.objects, s \in rows.stats : r.id = s.id => s.type \in RealStats(r.type)
  /\ rows.equip \subseteq [id : Ids(rows), slot : Names(EquipEntry), item : Ids(rows)]
  /\ \A r, s \in rows.equip : r.id = s.id /\ r.slot = s.slot => r = s
  /\ \A r, s \in rows.equip : r.item = s.item /\ r.item \in Checked => r = s
  /\ \A r \in rows.equip :
       r.item \in Checked => [id |-> r.item, value |-> r.slot] \in rows.strings
  /\ \A r \in rows.aspects : r.id \in Ids(rows) /\ r.key \in SaveKeys
  /\ \A r, s \in rows.aspects : r.id = s.id /\ r.key = s.key => r = s

(* Every file holds such rows. *)
FilesOK == DOMAIN file = Path /\ \A p \in Path : RowsOK(file[p])

(* Halfway through a save, the rows that wait for the commit are those of  *)
(* the file and of the objects that have been saved, and no id has come    *)
(* twice.                                                                  *)
SavingOK ==
  job.kind = "saving" =>
    /\ job.path \in Path
    /\ job.todo \subseteq Live
    /\ job.rows = [t \in Tables |-> file[job.path][t] \cup
                                    UNION {RowsOf(o)[t] : o \in Live \ job.todo}]
    /\ \A o \in Live \ job.todo : o \notin Ids(file[job.path])

(* Halfway through a load, the objects come first; one that has not been   *)
(* loaded yet has no relation, wears nothing and has no aspect; and one    *)
(* that has wears only what the file says.                                 *)
LoadingOK ==
  job.kind = "loading" =>
    /\ job.path \in Path
    /\ job.todo \subseteq Live
    /\ job.rows \subseteq file[job.path].objects
    /\ job.rows # {} => job.todo = Live
    /\ \A o \in job.todo :
         /\ \A k \in RelName : relations[o][k] = NoObject
         /\ Wearing(o) = {}
         /\ \A k \in SaveKeys : fields[o].aspects[k] = Nothing
    /\ \A o \in Live \ job.todo :
         \A s \in Wearing(o) :
           [id |-> o, slot |-> s, item |-> fields[o].slots[s]] \in file[job.path].equip

(* The save or the load that is running, if there is one. *)
JobOK == job.kind \in {"idle", "saving", "loading"} /\ SavingOK /\ LoadingOK

(* The inductive invariant. *)
IInv == MemoryInv /\ FilesOK /\ JobOK

-----------------------------------------------------------------------------
(* The objects in memory. *)

(* What atCreate leaves behind says nothing that the invariant forbids. *)
LEMMA CreatedLemma ==
  ASSUME NEW t \in Type, NEW f \in Created(t)
  PROVE  /\ FieldOK(f)
         /\ \A s \in DOMAIN f.stats : f.stats[s] # Nothing <=> s \in RealStats(t)
         /\ \A s \in DOMAIN f.slots : f.slots[s] = NoObject
         /\ f.aspects = [k \in SaveKeys |-> Nothing]
<1>1. /\ f.equippedAt = Nothing
      /\ f.stats \in LoadedStats(t)
      /\ f.slots \in LoadedSlots(t)
      /\ f.aspects = [k \in SaveKeys |-> Nothing]
  BY DEF Created
<1>2. /\ IsPartial(f.stats, Names(StatEntry), Value \cup {Nothing})
      /\ \A s \in DOMAIN f.stats : f.stats[s] # Nothing <=> s \in RealStats(t)
  <2>1. CASE f.stats = Empty
    BY <2>1 DEF Empty, IsPartial
  <2>2. CASE f.stats # Empty
    <3> DEFINE entries == Merged(StatEntry, TypesOf[t])
    <3>1. PICK base \in [RealStats(t) -> Value] :
            f.stats = [s \in Names(entries) |-> IF s \in RealStats(t) THEN base[s]
                                                ELSE Nothing]
      BY <1>1, <2>2 DEF LoadedStats, RealStats
    <3>2. Names(entries) \subseteq Names(StatEntry)
      BY DEF Names, Merged
    <3> HIDE DEF entries
    <3>3. QED
      BY <3>1, <3>2, GameObjectsAssumption DEF IsPartial
  <2>3. QED
    BY <2>1, <2>2
<1>3. /\ IsPartial(f.slots, Names(EquipEntry), Object \cup {NoObject})
      /\ \A s \in DOMAIN f.slots : f.slots[s] = NoObject
  <2>1. Names(Merged(EquipEntry, TypesOf[t])) \subseteq Names(EquipEntry)
    BY DEF Names, Merged
  <2>2. f.slots = Empty \/ f.slots \in [Names(Merged(EquipEntry, TypesOf[t])) -> {NoObject}]
    BY <1>1 DEF LoadedSlots
  <2>3. QED
    BY <2>1, <2>2 DEF Empty, IsPartial
<1>4. FieldOK(f)
  <2>1. f \in [equippedAt : {Nothing}, stats : {f.stats}, slots : {f.slots},
               aspectSlots : {f.aspectSlots}, aspects : [SaveKeys -> {Nothing}]]
    BY DEF Created
  <2>2. QED
    BY <1>2, <1>3, <2>1 DEF FieldOK
<1>5. QED
  BY <1>1, <1>2, <1>3, <1>4

(* createObject: there is one object more, without relations. *)
LEMMA ConstructMemory ==
  ASSUME MemoryInv, NEW o \in Object \ Live, NEW t \in Type, Construct(o, t),
         lastInsertID' \in Nat
  PROVE  MemoryInv'
<1>1. /\ objects' = [i \in Live \cup {o} |-> IF i = o THEN t ELSE objects[i]]
      /\ UNCHANGED <<relations, reverseRelations, registered>>
  BY DEF Construct, graph
<1>2. PICK f \in Created(t) : fields' = [fields EXCEPT ![o] = f]
  BY DEF Construct
<1>3. Live' = Live \cup {o}
  BY <1>1 DEF Live
<1>4. /\ fields' = [i \in Object |-> fields'[i]] /\ fields'[o] = f
      /\ \A i \in Object \ {o} : fields'[i] = fields[i]
  BY <1>2 DEF MemoryInv, FieldsOK
<1>5. GraphInv'
  BY <1>1 DEF MemoryInv, GraphInv, RelationsTypeOK, Mirror, BackPointers, NoDuplicates
<1>6. ObjectsOK'
  BY <1>1, <1>3, FS_AddElement DEF MemoryInv, ObjectsOK
<1>7. AmongLive'
  BY <1>1, <1>3 DEF MemoryInv, AmongLive
<1>8. FieldsOK'
  BY <1>4, CreatedLemma DEF MemoryInv, FieldsOK
<1>9. StatsOK'
  BY <1>1, <1>3, <1>4, CreatedLemma DEF MemoryInv, StatsOK, ObjectsOK
<1>10. /\ (Wearing(o))' = {}
       /\ \A i \in Live : (Wearing(i))' = Wearing(i) /\ i # o
  BY <1>4, CreatedLemma DEF Wearing, MemoryInv, ObjectsOK
<1>11. WornLive' /\ WornOnce'
  BY <1>3, <1>4, <1>10 DEF MemoryInv, ObjectsOK, WornLive, WornOnce
<1>12. SaysWhere'
  <2> SUFFICES ASSUME NEW i \in Live, NEW s \in Wearing(i), fields'[i].slots[s] \in Checked
               PROVE  fields'[fields'[i].slots[s]].equippedAt = s
    BY <1>3, <1>10 DEF SaysWhere
  <2>1. i # o /\ fields'[i] = fields[i] /\ fields[i].slots[s] \in Live
    BY <1>4, <1>10 DEF MemoryInv, WornLive, ObjectsOK
  <2>2. fields'[fields[i].slots[s]] = fields[fields[i].slots[s]]
    BY <1>4, <2>1 DEF MemoryInv, ObjectsOK
  <2>3. QED
    BY <2>1, <2>2 DEF MemoryInv, SaysWhere
<1>13. QED
  BY <1>5, <1>6, <1>7, <1>8, <1>9, <1>11, <1>12 DEF MemoryInv

(* What only changes the fields of objects only has those to look at. *)
LEMMA OnlyFields ==
  ASSUME MemoryInv, UNCHANGED <<graph, objects, lastInsertID, registered>>,
         FieldsOK', StatsOK', WornLive', WornOnce', SaysWhere'
  PROVE  MemoryInv'
<1>1. GraphInv' /\ AmongLive'
  BY DEF MemoryInv, GraphInv, RelationsTypeOK, Mirror, BackPointers, NoDuplicates,
         AmongLive, Live, graph
<1>2. ObjectsOK'
  BY DEF MemoryInv, ObjectsOK, Live
<1>3. QED
  BY <1>1, <1>2 DEF MemoryInv

(* Stat::set keeps a virtual stat virtual. *)
LEMMA SetStatMemory ==
  ASSUME MemoryInv, NEW o \in Live, NEW s, NEW v \in Value, SetStat(o, s, v)
  PROVE  MemoryInv'
<1> DEFINE was == fields[o].stats
           now == [was EXCEPT ![s] = IF @ = Nothing THEN @ ELSE v]
<1>1. /\ o \in Object
      /\ s \in DOMAIN was
      /\ UNCHANGED <<graph, objects, lastInsertID, registered>>
      /\ FieldOK(fields[o])
  BY DEF SetStat, MemoryInv, ObjectsOK, FieldsOK
<1>2. fields' = [fields EXCEPT ![o] = [@ EXCEPT !.stats = now]]
  BY DEF SetStat
<1>3. /\ IsPartial(now, Names(StatEntry), Value \cup {Nothing})
      /\ DOMAIN now = DOMAIN was
      /\ \A u \in DOMAIN was : now[u] # Nothing <=> was[u] # Nothing
  BY <1>1, GameObjectsAssumption DEF FieldOK, IsPartial
<1> HIDE DEF now
<1>4. fields'[o].stats = now /\ fields'[o].slots = fields[o].slots
      /\ fields'[o].equippedAt = fields[o].equippedAt /\ FieldOK(fields'[o])
  BY <1>1, <1>2, <1>3 DEF FieldOK, MemoryInv, FieldsOK
<1>5. \A i \in Object \ {o} : fields'[i] = fields[i]
  BY <1>2 DEF MemoryInv, FieldsOK
<1>6. FieldsOK'
  BY <1>2, <1>4, <1>5 DEF MemoryInv, FieldsOK
<1>7. StatsOK'
  BY <1>1, <1>3, <1>4, <1>5 DEF MemoryInv, StatsOK, Live, ObjectsOK
<1>8. \A i \in Object : /\ fields'[i].slots = fields[i].slots
                        /\ fields'[i].equippedAt = fields[i].equippedAt
  BY <1>4, <1>5
<1>9. WornLive' /\ WornOnce' /\ SaysWhere'
  BY <1>1, <1>8 DEF MemoryInv, WornLive, WornOnce, SaysWhere, Wearing, Live, ObjectsOK
<1>10. QED
  BY <1>1, <1>6, <1>7, <1>9, OnlyFields

(* setAspect keeps an aspect under its own save key. *)
LEMMA SetAspectMemory ==
  ASSUME MemoryInv, NEW o \in Live, NEW a \in Aspect, SetAspect(o, a)
  PROVE  MemoryInv'
<1> DEFINE now == [fields[o].aspects EXCEPT ![a.saveKey] = a]
<1>1. /\ o \in Object
      /\ UNCHANGED <<graph, objects, lastInsertID, registered>>
      /\ FieldOK(fields[o])
  BY DEF SetAspect, MemoryInv, ObjectsOK, FieldsOK
<1>2. fields' = [fields EXCEPT ![o] = [@ EXCEPT !.aspects = now]]
  BY DEF SetAspect
<1>3. /\ now \in [SaveKeys -> Aspect \cup {Nothing}]
      /\ \A k \in SaveKeys : now[k] # Nothing => now[k].saveKey = k
  BY <1>1 DEF FieldOK
<1> HIDE DEF now
<1>4. fields'[o].stats = fields[o].stats /\ fields'[o].slots = fields[o].slots
      /\ fields'[o].equippedAt = fields[o].equippedAt /\ FieldOK(fields'[o])
  BY <1>1, <1>2, <1>3 DEF FieldOK, MemoryInv, FieldsOK
<1>5. \A i \in Object \ {o} : fields'[i] = fields[i]
  BY <1>2 DEF MemoryInv, FieldsOK
<1>6. FieldsOK'
  BY <1>2, <1>4, <1>5 DEF MemoryInv, FieldsOK
<1>7. StatsOK'
  BY <1>1, <1>4, <1>5 DEF MemoryInv, StatsOK, Live, ObjectsOK
<1>8. \A i \in Object : /\ fields'[i].slots = fields[i].slots
                        /\ fields'[i].equippedAt = fields[i].equippedAt
  BY <1>4, <1>5
<1>9. WornLive' /\ WornOnce' /\ SaysWhere'
  BY <1>1, <1>8 DEF MemoryInv, WornLive, WornOnce, SaysWhere, Wearing, Live, ObjectsOK
<1>10. QED
  BY <1>1, <1>6, <1>7, <1>9, OnlyFields

(* An item is told where it is worn, or that it is not. *)
LEMMA TellField ==
  ASSUME NEW f, FieldOK(f), NEW c \in Names(EquipEntry) \cup {Nothing},
         NEW g, g = [f EXCEPT !.equippedAt = c]
  PROVE  /\ FieldOK(g) /\ g.equippedAt = c
         /\ g.stats = f.stats /\ g.slots = f.slots /\ g.aspects = f.aspects
         /\ g.aspectSlots = f.aspectSlots
<1>1. /\ g.equippedAt = c
      /\ g.stats = f.stats /\ g.slots = f.slots /\ g.aspects = f.aspects
      /\ g.aspectSlots = f.aspectSlots
  BY DEF FieldOK
<1>2. g \in [equippedAt : Names(EquipEntry) \cup {Nothing}, stats : {f.stats},
             slots : {f.slots}, aspectSlots : {f.aspectSlots},
             aspects : [SaveKeys -> Aspect \cup {Nothing}]]
  BY DEF FieldOK
<1>3. QED
  BY <1>1, <1>2 DEF FieldOK

(* A slot of one object and what another says of itself are set together.  *)
Put(o, s, x, item, y) == [fields EXCEPT ![o].slots[s] = x, ![item].equippedAt = y]

LEMMA SlotAndItem ==
  ASSUME FieldsOK, NEW o \in Object, NEW s \in DOMAIN fields[o].slots, NEW item \in Object,
         NEW x \in Object \cup {NoObject}, NEW y \in Names(EquipEntry) \cup {Nothing},
         fields' = Put(o, s, x, item, y)
  PROVE  /\ FieldsOK'
         /\ \A i \in Object :
              /\ fields'[i].stats = fields[i].stats
              /\ fields'[i].slots = IF i = o THEN [fields[o].slots EXCEPT ![s] = x]
                                    ELSE fields[i].slots
              /\ fields'[i].equippedAt = IF i = item THEN y ELSE fields[i].equippedAt
<1> DEFINE g == [fields EXCEPT ![o].slots[s] = x]
           slots == [fields[o].slots EXCEPT ![s] = x]
<1>1. IsPartial(slots, Names(EquipEntry), Object \cup {NoObject})
  BY DEF FieldsOK, FieldOK, IsPartial
<1>2. /\ \A i \in Object : g[i] = IF i = o THEN [fields[o] EXCEPT !.slots = slots]
                                  ELSE fields[i]
      /\ DOMAIN g = Object /\ fields' = [g EXCEPT ![item].equippedAt = y]
  BY DEF FieldsOK, Put
<1> HIDE DEF g, slots
<1>3. \A i \in Object : /\ FieldOK(g[i])
                        /\ g[i].stats = fields[i].stats
                        /\ g[i].slots = IF i = o THEN slots ELSE fields[i].slots
                        /\ g[i].equippedAt = fields[i].equippedAt
  <2> SUFFICES ASSUME NEW i \in Object
               PROVE  /\ FieldOK(g[i])
                      /\ g[i].stats = fields[i].stats
                      /\ g[i].slots = IF i = o THEN slots ELSE fields[i].slots
                      /\ g[i].equippedAt = fields[i].equippedAt
    OBVIOUS
  <2>1. FieldOK(fields[i]) /\ g[i] = IF i = o THEN [fields[i] EXCEPT !.slots = slots]
                                     ELSE fields[i]
    BY <1>2 DEF FieldsOK
  <2>2. QED
    BY <1>1, <2>1 DEF FieldOK
<1>4. \A i \in Object :
        fields'[i] = IF i = item THEN [g[i] EXCEPT !.equippedAt = y] ELSE g[i]
  BY <1>2
<1>5. \A i \in Object : /\ FieldOK(fields'[i])
                        /\ fields'[i].stats = g[i].stats /\ fields'[i].slots = g[i].slots
                        /\ fields'[i].equippedAt = IF i = item THEN y ELSE g[i].equippedAt
  <2> SUFFICES ASSUME NEW i \in Object
               PROVE  /\ FieldOK(fields'[i])
                      /\ fields'[i].stats = g[i].stats /\ fields'[i].slots = g[i].slots
                      /\ fields'[i].equippedAt = IF i = item THEN y ELSE g[i].equippedAt
    OBVIOUS
  <2>1. CASE i = item
    <3>1. fields'[i] = [g[i] EXCEPT !.equippedAt = y]
      BY <1>4, <2>1
    <3>2. QED
      BY <1>3, <2>1, <3>1, TellField
  <2>2. CASE i # item
    BY <1>3, <1>4, <2>2
  <2>3. QED
    BY <2>1, <2>2
<1>6. fields' = [i \in Object |-> fields'[i]]
  BY <1>2
<1>7. FieldsOK'
  BY <1>5, <1>6 DEF FieldsOK
<1>8. QED
  BY <1>3, <1>5, <1>7 DEF slots

(* A checked item says it is worn nowhere and so is in no slot: it goes    *)
(* into one.  Any other item may be in several.                            *)
LEMMA EquipMemory ==
  ASSUME MemoryInv, NEW o \in Live, NEW s \in Names(EquipEntry), NEW item \in Live,
         MayWear(item), Equip(o, s, item)
  PROVE  MemoryInv'
<1>1. /\ o \in Object /\ item \in Object
      /\ s \in DOMAIN fields[o].slots
      /\ item \in Checked => fields[item].equippedAt = Nothing
      /\ UNCHANGED <<graph, objects, lastInsertID, registered>>
  BY DEF MayWear, Equip, MemoryInv, ObjectsOK
<1>2. fields' = Put(o, s, item, item, s)
  BY DEF Equip, Put
<1>3. /\ FieldsOK'
      /\ \A i \in Object :
           /\ fields'[i].stats = fields[i].stats
           /\ fields'[i].slots = IF i = o THEN [fields[o].slots EXCEPT ![s] = item]
                                 ELSE fields[i].slots
           /\ fields'[i].equippedAt = IF i = item THEN s ELSE fields[i].equippedAt
  <2>1. FieldsOK /\ item \in Object \cup {NoObject} /\ s \in Names(EquipEntry) \cup {Nothing}
    BY <1>1 DEF MemoryInv
  <2>2. QED
    BY <1>1, <1>2, <2>1, SlotAndItem
<1>4. StatsOK'
  BY <1>1, <1>3 DEF MemoryInv, StatsOK, Live, ObjectsOK
<1>5. /\ Live' = Live
      /\ \A i \in Live : (Wearing(i))' = Wearing(i) \cup (IF i = o THEN {s} ELSE {})
      /\ \A i \in Live : \A u \in (Wearing(i))' :
           \/ i = o /\ u = s /\ fields'[i].slots[u] = item
           \/ u \in Wearing(i) /\ fields'[i].slots[u] = fields[i].slots[u]
  <2>1. Live' = Live /\ item # NoObject
    BY <1>1, NullIsNoObject DEF Live
  <2>2. QED
    BY <1>1, <1>3, <2>1 DEF Wearing, MemoryInv, ObjectsOK
<1>6. ASSUME item \in Checked
      PROVE  \A i \in Live : \A u \in Wearing(i) : fields[i].slots[u] # item
  <2> SUFFICES ASSUME NEW i \in Live, NEW u \in Wearing(i), fields[i].slots[u] = item
               PROVE  FALSE
    OBVIOUS
  <2>1. u \in Names(EquipEntry)
    BY DEF MemoryInv, ObjectsOK, FieldsOK, FieldOK, IsPartial, Wearing
  <2>2. fields[item].equippedAt = u
    BY <1>6 DEF MemoryInv, SaysWhere
  <2>3. QED
    BY <1>1, <1>6, <2>1, <2>2, GameObjectsAssumption
<1>7. WornLive' /\ WornOnce'
  BY <1>5, <1>6 DEF MemoryInv, WornLive, WornOnce
<1>8. SaysWhere'
  <2> SUFFICES ASSUME NEW i \in Live, NEW u \in (Wearing(i))', fields'[i].slots[u] \in Checked
               PROVE  fields'[fields'[i].slots[u]].equippedAt = u
    BY <1>5 DEF SaysWhere
  <2>1. CASE i = o /\ u = s /\ fields'[i].slots[u] = item
    BY <1>1, <1>3, <2>1
  <2>2. CASE u \in Wearing(i) /\ fields'[i].slots[u] = fields[i].slots[u]
    <3>1. fields[i].slots[u] \in Object /\ fields[i].slots[u] # item
      BY <1>6, <2>2 DEF MemoryInv, WornLive, ObjectsOK
    <3>2. QED
      BY <1>3, <2>2, <3>1 DEF MemoryInv, SaysWhere
  <2>3. QED
    BY <1>5, <2>1, <2>2
<1>9. QED
  BY <1>1, <1>3, <1>4, <1>7, <1>8, OnlyFields

(* A checked item that is taken out of a slot was in no other one. *)
LEMMA UnequipMemory ==
  ASSUME MemoryInv, NEW o \in Live, NEW s, Unequip(o, s)
  PROVE  MemoryInv'
<1> DEFINE item == fields[o].slots[s]
<1>1. /\ o \in Object /\ item \in Live /\ item \in Object
      /\ s \in DOMAIN fields[o].slots
      /\ s \in Wearing(o)
      /\ UNCHANGED <<graph, objects, lastInsertID, registered>>
  BY DEF Unequip, MemoryInv, ObjectsOK, WornLive, Wearing
<1>2. fields' = Put(o, s, NoObject, item, Nothing)
  BY DEF Unequip, Put
<1> HIDE DEF item
<1>3. /\ FieldsOK'
      /\ \A i \in Object :
           /\ fields'[i].stats = fields[i].stats
           /\ fields'[i].slots = IF i = o THEN [fields[o].slots EXCEPT ![s] = NoObject]
                                 ELSE fields[i].slots
           /\ fields'[i].equippedAt = IF i = item THEN Nothing ELSE fields[i].equippedAt
  <2>1. /\ FieldsOK /\ NoObject \in Object \cup {NoObject}
        /\ Nothing \in Names(EquipEntry) \cup {Nothing}
    BY <1>1 DEF MemoryInv
  <2>2. QED
    BY <1>1, <1>2, <2>1, SlotAndItem
<1>4. StatsOK'
  BY <1>1, <1>3 DEF MemoryInv, StatsOK, Live, ObjectsOK
<1>5. /\ Live' = Live
      /\ \A i \in Live : (Wearing(i))' = Wearing(i) \ (IF i = o THEN {s} ELSE {})
      /\ \A i \in Live : \A u \in (Wearing(i))' : fields'[i].slots[u] = fields[i].slots[u]
  <2>1. Live' = Live
    BY <1>1 DEF Live
  <2>2. QED
    BY <1>1, <1>3, <2>1 DEF Wearing, MemoryInv, ObjectsOK
<1>6. WornLive' /\ WornOnce'
  BY <1>5 DEF MemoryInv, WornLive, WornOnce
<1>7. \A i \in Live : \A u \in (Wearing(i))' :
        /\ u \in Wearing(i) /\ fields[i].slots[u] \in Object
        /\ fields[i].slots[u] \in Checked => fields[i].slots[u] # item
  BY <1>1, <1>5 DEF MemoryInv, WornLive, WornOnce, ObjectsOK, item
<1>8. SaysWhere'
  BY <1>3, <1>5, <1>7 DEF MemoryInv, SaysWhere
<1>9. QED
  BY <1>1, <1>3, <1>4, <1>6, <1>8, OnlyFields

(* Relations are made between objects there are. *)
LEMMA RelateMemory ==
  ASSUME MemoryInv, NEW o \in Live, NEW k \in RelName, Relate(o, k)
  PROVE  MemoryInv'
<1>1. /\ o \in Object
      /\ UNCHANGED <<objects, lastInsertID, registered, fields>>
      /\ Live' = Live
  BY DEF Relate, MemoryInv, ObjectsOK, Live
<1>2. PICK v \in Live \cup {NoObject} : SetRelation(o, k, v)
  BY DEF Relate
<1>3. GraphInv'
  BY <1>1, <1>2, SetGraphInv DEF MemoryInv, ObjectsOK
<1>4. relations' = relations \/ relations' = [relations EXCEPT ![o][k] = NoObject]
        \/ relations' = [relations EXCEPT ![o][k] = v]
  BY <1>2 DEF SetRelation, ClearRelation, Link, Relink, graph
<1>5. AmongLive'
  <2>1. \A p \in Object, l \in RelName :
          \/ relations'[p][l] \in {relations[p][l], NoObject}
          \/ p = o /\ relations'[p][l] = v
    BY <1>4 DEF MemoryInv, GraphInv, RelationsTypeOK
  <2>2. QED
    BY <1>1, <2>1 DEF MemoryInv, AmongLive
<1>6. ObjectsOK' /\ FieldsOK' /\ StatsOK' /\ WornLive' /\ WornOnce' /\ SaysWhere'
  <2>1. ObjectsOK'
    BY <1>1 DEF MemoryInv, ObjectsOK
  <2>2. FieldsOK' /\ StatsOK'
    BY <1>1 DEF MemoryInv, FieldsOK, StatsOK
  <2>3. WornLive' /\ WornOnce' /\ SaysWhere'
    BY <1>1 DEF MemoryInv, WornLive, WornOnce, SaysWhere, Wearing
  <2>4. QED
    BY <2>1, <2>2, <2>3
<1>7. QED
  BY <1>3, <1>5, <1>6 DEF MemoryInv

(* getNextAvailableID settles on an id that no object has. *)
LEMMA NextIdIsFree ==
  ASSUME MemoryInv, NEW t \in Type, CreateWithNextId(t)
  PROVE  \E o \in Object \ Live : Construct(o, t) /\ lastInsertID' \in Nat
<1> DEFINE free == {n \in Object \ Live : n >= lastInsertID}
<1>1. Object \subseteq Int /\ lastInsertID \in Nat
  BY GameObjectsAssumption DEF MemoryInv, ObjectsOK
<1>2. ASSUME NEW n \in free PROVE n \in Nat
  <2>1. n \in Int /\ n >= lastInsertID
    BY <1>1
  <2>2. QED
    BY <1>1, <2>1
<1>3. free \subseteq Nat /\ free # {}
  BY <1>2 DEF CreateWithNextId
<1>4. Min(free) \in free
  BY <1>3, MinLemma
<1>5. Min(free) \in Object \ Live /\ Min(free) \in Nat
  BY <1>3, <1>4
<1>6. lastInsertID' = Min(free) /\ Construct(Min(free), t)
  BY DEF CreateWithNextId
<1> HIDE DEF free
<1>7. QED
  BY <1>5, <1>6

(* Whatever the game does with its objects between two saves or loads. *)
LEMMA PlayMemory ==
  ASSUME MemoryInv, Play
  PROVE  MemoryInv'
<1>1. CASE \E t \in Type : CreateWithNextId(t)
  BY <1>1, NextIdIsFree, ConstructMemory
<1>2. CASE \E t \in Type, o \in Object : CreateWithId(o, t)
  <2>1. PICK t \in Type, o \in Object : CreateWithId(o, t)
    BY <1>2
  <2>2. o \in Object \ Live /\ Construct(o, t) /\ lastInsertID' \in Nat
    BY <2>1 DEF CreateWithId, MemoryInv, ObjectsOK
  <2>3. QED
    BY <2>2, ConstructMemory
<1>3. CASE \E o \in Live, s \in Names(StatEntry), v \in Value : SetStat(o, s, v)
  BY <1>3, SetStatMemory
<1>4. CASE \E o \in Live, s \in Names(EquipEntry) : Unequip(o, s)
  BY <1>4, UnequipMemory
<1>5. CASE \E o \in Live, s \in Names(EquipEntry), item \in Live :
             MayWear(item) /\ Equip(o, s, item)
  BY <1>5, EquipMemory
<1>6. CASE \E o \in Live, a \in Aspect : SetAspect(o, a)
  BY <1>6, SetAspectMemory
<1>7. CASE \E o \in Live, k \in RelName : Relate(o, k)
  BY <1>7, RelateMemory
<1>8. QED
  BY <1>1, <1>2, <1>3, <1>4, <1>5, <1>6, <1>7 DEF Play

(* A process begins with nothing in memory. *)
NothingInMemory ==
  /\ objects = Empty /\ lastInsertID = 0 /\ registered \subseteq Type
  /\ NoRelations /\ fields = [o \in Object |-> Blank]

LEMMA BlankMemory == NothingInMemory => MemoryInv
<1> SUFFICES ASSUME NothingInMemory PROVE MemoryInv
  OBVIOUS
<1> USE DEF NothingInMemory
<1>1. Live = {}
  BY DEF Live, Empty
<1>2. GraphInv
  BY NoRelationsGraphInv
<1>3. ObjectsOK
  BY <1>1, FS_EmptySet DEF ObjectsOK, Empty
<1>4. AmongLive
  BY DEF AmongLive, NoRelations
<1>5. FieldOK(Blank)
  BY DEF FieldOK, Blank, Empty, IsPartial
<1>6. FieldsOK
  BY <1>5 DEF FieldsOK
<1>7. QED
  BY <1>1, <1>2, <1>3, <1>4, <1>6 DEF MemoryInv, StatsOK, WornLive, WornOnce, SaysWhere

-----------------------------------------------------------------------------
(* What is saved. *)

(* What the invariant says of one object. *)
LEMMA LiveField ==
  ASSUME MemoryInv, NEW o \in Live
  PROVE  /\ o \in Object /\ objects[o] \in Type
         /\ fields[o].equippedAt \in Names(EquipEntry) \cup {Nothing}
         /\ \A s \in DOMAIN fields[o].stats :
              s \in Names(StatEntry) /\ fields[o].stats[s] \in Value \cup {Nothing}
         /\ \A s \in Wearing(o) : s \in Names(EquipEntry) /\ fields[o].slots[s] \in Live
         /\ \A k \in SaveKeys :
              fields[o].aspects[k] # Nothing => fields[o].aspects[k].saveKey = k
<1>1. o \in Object /\ objects[o] \in Type
  BY DEF MemoryInv, ObjectsOK
<1>2. FieldOK(fields[o])
  BY <1>1 DEF MemoryInv, FieldsOK
<1>3. \A s \in Wearing(o) : fields[o].slots[s] \in Live
  BY DEF MemoryInv, WornLive
<1>4. \A s \in Wearing(o) : s \in Names(EquipEntry)
  BY <1>2 DEF Wearing, FieldOK, IsPartial
<1>5. QED
  BY <1>1, <1>2, <1>3, <1>4 DEF FieldOK, IsPartial

(* The rows of all the objects there are, table by table. *)
LEMMA EverythingIs ==
  /\ Everything = [t \in Tables |-> Everything[t]]
  /\ Everything.objects = {[id |-> o, type |-> objects[o]] : o \in Live}
  /\ \A r : r \in Everything.strings <=>
       \E o \in Live : fields[o].equippedAt # Nothing
                         /\ r = [id |-> o, value |-> fields[o].equippedAt]
  /\ \A r : r \in Everything.relations <=>
       \E o \in Live, k \in RelName :
         relations[o][k] # NoObject
           /\ r = [id |-> o, type |-> k, target |-> relations[o][k]]
  /\ \A r : r \in Everything.stats <=>
       \E o \in Live : \E s \in DOMAIN fields[o].stats :
         fields[o].stats[s] # Nothing
           /\ r = [id |-> o, type |-> s, value |-> fields[o].stats[s]]
  /\ \A r : r \in Everything.equip <=>
       \E o \in Live : \E s \in Wearing(o) :
         r = [id |-> o, slot |-> s, item |-> fields[o].slots[s]]
  /\ \A r : r \in Everything.aspects <=>
       \E o \in Live, k \in SaveKeys :
         fields[o].aspects[k] # Nothing /\ r = AspectRow(o, fields[o].aspects[k])
<1>1. \A t \in Tables :
        \A r : r \in Everything[t] <=> \E o \in Live : r \in RowsOf(o)[t]
  BY DEF Everything
<1>2. \A o : /\ RowsOf(o)["objects"] = {[id |-> o, type |-> objects[o]]}
             /\ RowsOf(o)["strings"] =
                  {[id |-> o, value |-> v] : v \in {fields[o].equippedAt} \ {Nothing}}
             /\ RowsOf(o)["relations"] =
                  {[id |-> o, type |-> k, target |-> relations[o][k]] :
                     k \in {l \in RelName : relations[o][l] # NoObject}}
             /\ RowsOf(o)["stats"] = StatRows(o)
             /\ RowsOf(o)["equip"] = EquipRows(o)
             /\ RowsOf(o)["aspects"] = AspectRows(o)
  BY DEF RowsOf
<1>3. \A r : r \in Everything["objects"]
               <=> r \in {[id |-> o, type |-> objects[o]] : o \in Live}
  BY <1>1, <1>2 DEF Tables
<1>4. \A r : r \in Everything["strings"] <=>
       \E o \in Live : fields[o].equippedAt # Nothing
                         /\ r = [id |-> o, value |-> fields[o].equippedAt]
  BY <1>1, <1>2 DEF Tables
<1>5. \A r : r \in Everything["relations"] <=>
       \E o \in Live, k \in RelName :
         relations[o][k] # NoObject
           /\ r = [id |-> o, type |-> k, target |-> relations[o][k]]
  BY <1>1, <1>2 DEF Tables
<1>6. \A r : r \in Everything["stats"] <=>
       \E o \in Live : \E s \in DOMAIN fields[o].stats :
         fields[o].stats[s] # Nothing
           /\ r = [id |-> o, type |-> s, value |-> fields[o].stats[s]]
  BY <1>1, <1>2 DEF Tables, StatRows
<1>7. \A r : r \in Everything["equip"] <=>
       \E o \in Live : \E s \in Wearing(o) :
         r = [id |-> o, slot |-> s, item |-> fields[o].slots[s]]
  BY <1>1, <1>2 DEF Tables, EquipRows
<1>8. \A r : r \in Everything["aspects"] <=>
       \E o \in Live, k \in SaveKeys :
         fields[o].aspects[k] # Nothing /\ r = AspectRow(o, fields[o].aspects[k])
  BY <1>1, <1>2 DEF Tables, AspectRows
<1>9. Everything = [t \in Tables |-> Everything[t]]
  BY DEF Everything
<1>10. QED
  BY <1>3, <1>4, <1>5, <1>6, <1>7, <1>8, <1>9

(* A file that has no row of the objects there are can take them in.       *)
LEMMA EverythingFits ==
  ASSUME MemoryInv, NEW rows, RowsOK(rows), Live \cap Ids(rows) = {}
  PROVE  RowsOK(AddRows(rows, Everything))
<1> DEFINE all == AddRows(rows, Everything)
<1>1. /\ all = [t \in Tables |-> all[t]]
      /\ all.objects = rows.objects \cup Everything.objects
      /\ all.strings = rows.strings \cup Everything.strings
      /\ all.relations = rows.relations \cup Everything.relations
      /\ all.stats = rows.stats \cup Everything.stats
      /\ all.equip = rows.equip \cup Everything.equip
      /\ all.aspects = rows.aspects \cup Everything.aspects
  BY DEF AddRows, Tables
<1> HIDE DEF all
<1>2. Ids(all) = Ids(rows) \cup Live
  <2>1. /\ \A r \in Everything.objects : r.id \in Live
        /\ \A o \in Live : [id |-> o, type |-> objects[o]] \in Everything.objects
    BY EverythingIs
  <2>2. ASSUME NEW o \in Live PROVE o \in Ids(all)
    <3>1. [id |-> o, type |-> objects[o]] \in all.objects
      BY <1>1, <2>1
    <3>2. QED
      BY <3>1 DEF Ids
  <2>3. Ids(all) \subseteq Ids(rows) \cup Live /\ Ids(rows) \subseteq Ids(all)
    BY <1>1, <2>1 DEF Ids
  <2>4. QED
    BY <2>2, <2>3
<1>3. IsFiniteSet(all.objects)
  <2> DEFINE f == [o \in Live |-> [id |-> o, type |-> objects[o]]]
  <2>1. f \in Surjection(Live, Everything.objects)
    BY EverythingIs DEF Surjection
  <2>2. IsFiniteSet(Everything.objects)
    BY <2>1, FS_Surjection DEF MemoryInv, ObjectsOK
  <2>3. IsFiniteSet(rows.objects)
    BY DEF RowsOK
  <2>4. IsFiniteSet(rows.objects \cup Everything.objects)
    BY <2>2, <2>3, FS_Union
  <2>5. QED
    BY <1>1, <2>4
<1>4. /\ all.objects \subseteq [id : Object, type : Type]
      /\ \A r, s \in all.objects : r.id = s.id => r = s
  <2>1. Everything.objects \subseteq [id : Live, type : Type]
    BY EverythingIs DEF MemoryInv, ObjectsOK
  <2>2. \A r, s \in Everything.objects : r.id = s.id => r = s
    BY EverythingIs
  <2>3. \A r \in rows.objects, s \in Everything.objects : r.id # s.id
    BY <2>1 DEF Ids
  <2>4. QED
    BY <1>1, <2>1, <2>2, <2>3 DEF RowsOK, MemoryInv, ObjectsOK
<1>5. /\ all.strings \subseteq [id : Ids(all), value : Names(EquipEntry)]
      /\ \A r, s \in all.strings : r.id = s.id => r = s
  <2>1. Everything.strings \subseteq [id : Live, value : Names(EquipEntry)]
    <3> SUFFICES ASSUME NEW r \in Everything.strings
                 PROVE  r \in [id : Live, value : Names(EquipEntry)]
      OBVIOUS
    <3>1. PICK o \in Live : fields[o].equippedAt # Nothing
                              /\ r = [id |-> o, value |-> fields[o].equippedAt]
      BY EverythingIs
    <3>2. QED
      BY <3>1, LiveField
  <2>2. \A r, s \in Everything.strings : r.id = s.id => r = s
    BY EverythingIs
  <2>3. QED
    BY <1>1, <1>2, <2>1, <2>2 DEF RowsOK
<1>6. /\ all.relations \subseteq [id : Ids(all), type : RelName, target : Ids(all)]
      /\ \A r, s \in all.relations : r.id = s.id /\ r.type = s.type => r = s
  <2>1. Everything.relations \subseteq [id : Live, type : RelName, target : Live]
    BY EverythingIs DEF MemoryInv, ObjectsOK, AmongLive
  <2>2. \A r, s \in Everything.relations : r.id = s.id /\ r.type = s.type => r = s
    BY EverythingIs
  <2>3. QED
    BY <1>1, <1>2, <2>1, <2>2 DEF RowsOK
<1>7. /\ all.stats \subseteq [id : Ids(all), type : Names(StatEntry), value : Value]
      /\ \A r, s \in all.stats : r.id = s.id /\ r.type = s.type => r = s
      /\ \A r \in all.objects, s \in all.stats : r.id = s.id => s.type \in RealStats(r.type)
  <2>1. Everything.stats \subseteq [id : Live, type : Names(StatEntry), value : Value]
    BY EverythingIs, LiveField
  <2>2. \A r, s \in Everything.stats : r.id = s.id /\ r.type = s.type => r = s
    BY EverythingIs
  <2>3. \A s \in Everything.stats : s.type \in RealStats(objects[s.id])
    BY EverythingIs DEF MemoryInv, StatsOK
  <2>4. \A r \in Everything.objects : r.id \in Live /\ r.type = objects[r.id]
    BY EverythingIs
  <2>5. /\ \A r \in rows.objects : r.id \in Ids(rows)
        /\ \A r \in rows.stats : r.id \in Ids(rows)
    BY DEF Ids, RowsOK
  <2>6. \A r \in all.objects, s \in all.stats : r.id = s.id => s.type \in RealStats(r.type)
    BY <1>1, <2>1, <2>3, <2>4, <2>5 DEF RowsOK
  <2>7. QED
    BY <1>1, <1>2, <2>1, <2>2, <2>6 DEF RowsOK
<1>8. /\ all.equip \subseteq [id : Ids(all), slot : Names(EquipEntry), item : Ids(all)]
      /\ \A r, s \in all.equip : r.id = s.id /\ r.slot = s.slot => r = s
      /\ \A r, s \in all.equip : r.item = s.item /\ r.item \in Checked => r = s
      /\ \A r \in all.equip :
           r.item \in Checked => [id |-> r.item, value |-> r.slot] \in all.strings
  <2>1. Everything.equip \subseteq [id : Live, slot : Names(EquipEntry), item : Live]
    BY EverythingIs, LiveField
  <2>2. /\ \A r, s \in Everything.equip : r.id = s.id /\ r.slot = s.slot => r = s
        /\ \A r, s \in Everything.equip : r.item = s.item /\ r.item \in Checked => r = s
    <3> SUFFICES ASSUME NEW r \in Everything.equip, NEW t \in Everything.equip
                 PROVE  /\ r.id = t.id /\ r.slot = t.slot => r = t
                        /\ r.item = t.item /\ r.item \in Checked => r = t
      OBVIOUS
    <3>1. PICK o \in Live : \E s \in Wearing(o) :
            r = [id |-> o, slot |-> s, item |-> fields[o].slots[s]]
      BY EverythingIs
    <3>2. PICK p \in Live : \E u \in Wearing(p) :
            t = [id |-> p, slot |-> u, item |-> fields[p].slots[u]]
      BY EverythingIs
    <3>3. PICK s \in Wearing(o) : r = [id |-> o, slot |-> s, item |-> fields[o].slots[s]]
      BY <3>1
    <3>4. PICK u \in Wearing(p) : t = [id |-> p, slot |-> u, item |-> fields[p].slots[u]]
      BY <3>2
    <3>5. QED
      BY <3>3, <3>4 DEF MemoryInv, WornOnce
  <2>3. \A r \in Everything.equip :
          r.item \in Checked => [id |-> r.item, value |-> r.slot] \in Everything.strings
    <3> SUFFICES ASSUME NEW r \in Everything.equip, r.item \in Checked
                 PROVE  [id |-> r.item, value |-> r.slot] \in Everything.strings
      OBVIOUS
    <3>0. PICK o \in Live : \E s \in Wearing(o) :
            r = [id |-> o, slot |-> s, item |-> fields[o].slots[s]]
      BY EverythingIs
    <3>1. PICK s \in Wearing(o) : r = [id |-> o, slot |-> s, item |-> fields[o].slots[s]]
      BY <3>0
    <3>2. r.item \in Live /\ r.slot = s /\ s \in Names(EquipEntry)
      BY <2>1, <3>1
    <3>3. fields[r.item].equippedAt = s
      BY <3>1 DEF MemoryInv, SaysWhere
    <3>4. QED
      BY <3>2, <3>3, EverythingIs, GameObjectsAssumption
  <2>4. QED
    BY <1>1, <1>2, <2>1, <2>2, <2>3 DEF RowsOK
<1>9. /\ \A r \in all.aspects : r.id \in Ids(all) /\ r.key \in SaveKeys
      /\ \A r, s \in all.aspects : r.id = s.id /\ r.key = s.key => r = s
  <2>1. \A r \in Everything.aspects : \E o \in Live, k \in SaveKeys :
          /\ r = AspectRow(o, fields[o].aspects[k])
          /\ fields[o].aspects[k].saveKey = k
    BY EverythingIs, LiveField
  <2>2. \A r \in Everything.aspects :
          r.id \in Live /\ r.key \in SaveKeys /\ r = AspectRow(r.id, fields[r.id].aspects[r.key])
    BY <2>1 DEF AspectRow
  <2>3. \A r \in rows.aspects : r.id \in Ids(rows) /\ r.key \in SaveKeys
    BY DEF RowsOK
  <2>4. \A r, s \in rows.aspects : r.id = s.id /\ r.key = s.key => r = s
    BY DEF RowsOK
  <2>5. \A r, s \in all.aspects : r.id = s.id /\ r.key = s.key => r = s
    BY <1>1, <2>2, <2>3, <2>4
  <2>6. QED
    BY <1>1, <1>2, <2>2, <2>3, <2>5
<1>10. RowsOK(all)
  BY <1>1, <1>3, <1>4, <1>5, <1>6, <1>7, <1>8, <1>9 DEF RowsOK
<1>11. QED
  BY <1>10 DEF all

-----------------------------------------------------------------------------
(* What is loaded. *)

(* A relation is brought back when its target is.                          *)
LEMMA SavedRelationsIs ==
  ASSUME MemoryInv, RowsOK(file[job.path]), NEW o
  PROVE  /\ SavedRelations(o) \in [RelName -> Live \cup {NoObject}]
         /\ \A k \in RelName, v \in Live :
              SavedRelations(o)[k] = v
                <=> [id |-> o, type |-> k, target |-> v] \in file[job.path].relations
<1> DEFINE rows == file[job.path].relations
           saved(k) == {r.target : r \in {r \in rows : r.id = o /\ r.type = k}} \cap Live
<1>1. \A k \in RelName : SavedRelations(o)[k] =
                           IF saved(k) = {} THEN NoObject ELSE CHOOSE v \in saved(k) : TRUE
  BY DEF SavedRelations
<1>2. SavedRelations(o) = [k \in RelName |-> SavedRelations(o)[k]]
  BY DEF SavedRelations
<1>3. \A k, v : v \in saved(k)
                  <=> v \in Live /\ [id |-> o, type |-> k, target |-> v] \in rows
  BY DEF RowsOK
<1>4. \A k : \A u, v \in saved(k) : u = v
  BY <1>3 DEF RowsOK
<1>5. NoObject \notin Live
  BY NullIsNoObject DEF MemoryInv, ObjectsOK
<1> HIDE DEF saved, rows
<1>6. \A k : saved(k) # {} => (CHOOSE v \in saved(k) : TRUE) \in saved(k)
  OBVIOUS
<1>7. \A k \in RelName : SavedRelations(o)[k] \in Live \cup {NoObject}
  BY <1>1, <1>3, <1>6
<1>8. \A k \in RelName, v \in Live : SavedRelations(o)[k] = v <=> v \in saved(k)
  BY <1>1, <1>4, <1>5, <1>6
<1>9. QED
  BY <1>2, <1>3, <1>7, <1>8 DEF rows

(* An item is brought back to its slot when it is brought back.            *)
LEMMA SavedItemIs ==
  ASSUME MemoryInv, RowsOK(file[job.path]), NEW o, NEW s
  PROVE  /\ SavedItem(o, s) \in Live \cup {NoObject}
         /\ \A i \in Live :
              SavedItem(o, s) = i
                <=> [id |-> o, slot |-> s, item |-> i] \in file[job.path].equip
<1> DEFINE rows == file[job.path].equip
           saved == {r.item : r \in {r \in rows : r.id = o /\ r.slot = s}} \cap Live
<1>1. SavedItem(o, s) = IF saved = {} THEN NoObject ELSE CHOOSE i \in saved : TRUE
  BY DEF SavedItem
<1>2. \A i : i \in saved
               <=> i \in Live /\ [id |-> o, slot |-> s, item |-> i] \in rows
  BY DEF RowsOK
<1>3. \A i, j \in saved : i = j
  BY <1>2 DEF RowsOK
<1>4. NoObject \notin Live
  BY NullIsNoObject DEF MemoryInv, ObjectsOK
<1> HIDE DEF saved, rows
<1>5. saved # {} => (CHOOSE i \in saved : TRUE) \in saved
  OBVIOUS
<1>6. SavedItem(o, s) \in Live \cup {NoObject}
  BY <1>1, <1>2, <1>5
<1>7. \A i \in Live : SavedItem(o, s) = i <=> i \in saved
  BY <1>1, <1>3, <1>4, <1>5
<1>8. QED
  BY <1>2, <1>6, <1>7 DEF rows

(* A stat is brought back if the handler has it and it is real.            *)
LEMMA SavedStatsIs ==
  ASSUME RowsOK(file[job.path]), NEW o, NEW old,
         IsPartial(old, Names(StatEntry), Value \cup {Nothing})
  PROVE  LET new == SavedStats(o, old) IN
         /\ IsPartial(new, Names(StatEntry), Value \cup {Nothing})
         /\ DOMAIN new = DOMAIN old
         /\ \A s \in DOMAIN old : new[s] # Nothing <=> old[s] # Nothing
         /\ \A r \in file[job.path].stats :
              r.id = o /\ r.type \in DOMAIN old /\ old[r.type] # Nothing
                => new[r.type] = r.value
<1> DEFINE rows == file[job.path].stats
           saved(s) == {r.value : r \in {r \in rows : r.id = o /\ r.type = s}}
           new == SavedStats(o, old)
<1>1. /\ new = [s \in DOMAIN old |-> new[s]]
      /\ \A s \in DOMAIN old :
           new[s] = IF old[s] = Nothing \/ saved(s) = {} THEN old[s]
                    ELSE CHOOSE v \in saved(s) : TRUE
  BY DEF SavedStats
<1>2. \A s : saved(s) \subseteq Value
  BY DEF RowsOK
<1>3. \A s : \A r \in rows : r.id = o /\ r.type = s => saved(s) = {r.value}
  BY DEF RowsOK
<1> HIDE DEF saved, rows, new
<1>4. \A s : saved(s) # {} => (CHOOSE v \in saved(s) : TRUE) \in saved(s)
  OBVIOUS
<1>5. \A s \in DOMAIN old :
        /\ new[s] \in Value \cup {Nothing}
        /\ new[s] # Nothing <=> old[s] # Nothing
  BY <1>1, <1>2, <1>4, GameObjectsAssumption DEF IsPartial
<1>6. \A r \in rows : r.id = o /\ r.type \in DOMAIN old /\ old[r.type] # Nothing
                        => new[r.type] = r.value
  BY <1>1, <1>3, <1>4
<1>7. DOMAIN new = DOMAIN old
  BY <1>1
<1>8. IsPartial(new, Names(StatEntry), Value \cup {Nothing})
  BY <1>1, <1>5, <1>7 DEF IsPartial
<1>9. QED
  BY <1>5, <1>6, <1>7, <1>8 DEF new, rows

(* An aspect is brought back when there is a slot for it. *)
LEMMA SavedAspectsIs ==
  ASSUME RowsOK(file[job.path]), NEW o, NEW old \in [SaveKeys -> Aspect \cup {Nothing}],
         \A k \in SaveKeys : old[k] = Nothing
  PROVE  LET new == SavedAspects(o, old) IN
         /\ new \in [SaveKeys -> Aspect \cup {Nothing}]
         /\ \A k \in SaveKeys : new[k] # Nothing => new[k].saveKey = k
         /\ \A a \in Aspect :
              MayHold(o, a) =>
                (new[a.saveKey] = a <=> AspectRow(o, a) \in file[job.path].aspects)
<1> DEFINE rows == file[job.path].aspects
           saved(k) == {a \in Aspect : /\ a.saveKey = k /\ MayHold(o, a)
                                       /\ AspectRow(o, a) \in rows}
           new == SavedAspects(o, old)
<1>1. /\ new = [k \in SaveKeys |-> new[k]]
      /\ \A k \in SaveKeys : new[k] = IF saved(k) = {} THEN Nothing
                                      ELSE CHOOSE a \in saved(k) : TRUE
  BY DEF SavedAspects
<1>2. \A k : \A a, b \in saved(k) : a = b
  <2> SUFFICES ASSUME NEW k, NEW a \in saved(k), NEW b \in saved(k) PROVE a = b
    OBVIOUS
  <2>1. AspectRow(o, a) = AspectRow(o, b)
    BY DEF RowsOK, AspectRow
  <2>2. a.slotType = b.slotType /\ a.saveKey = b.saveKey
    BY <2>1 DEF AspectRow
  <2>3. a.objType = b.objType
    BY DEF MayHold
  <2>4. QED
    BY <2>2, <2>3, GameObjectsAssumption
<1>3. \A a \in Aspect : a.saveKey \in SaveKeys
                          /\ (MayHold(o, a) => (a \in saved(a.saveKey)
                                                  <=> AspectRow(o, a) \in rows))
  BY DEF SaveKeys
<1>4. \A k : saved(k) \subseteq Aspect /\ \A a \in saved(k) : a.saveKey = k
  OBVIOUS
<1> HIDE DEF saved, rows, new
<1>5. \A k : saved(k) # {} => (CHOOSE a \in saved(k) : TRUE) \in saved(k)
  OBVIOUS
<1>6. \A k \in SaveKeys : /\ new[k] \in Aspect \cup {Nothing}
                          /\ new[k] # Nothing => new[k].saveKey = k
  BY <1>1, <1>4, <1>5
<1>7. \A k \in SaveKeys : \A a \in Aspect : new[k] = a <=> a \in saved(k)
  BY <1>1, <1>2, <1>5, GameObjectsAssumption
<1>8. new \in [SaveKeys -> Aspect \cup {Nothing}]
  BY <1>1, <1>6
<1>9. QED
  BY <1>3, <1>6, <1>7, <1>8 DEF new, rows

(* Each setRelation of a load adds one back pointer to one list. *)
LEMMA LinkAllGraph ==
  ASSUME GraphInv, NEW o \in Object,
         NEW targets \in [RelName -> Object \cup {NoObject}],
         \A k \in RelName : relations[o][k] = NoObject,
         LinkAll(o, targets)
  PROVE  GraphInv'
<1>1. /\ relations' = [relations EXCEPT ![o] = targets]
      /\ \A v \in Object, k \in RelName :
           reverseRelations'[v][k] =
             IF targets[k] = v THEN Append(reverseRelations[v][k], o)
             ELSE reverseRelations[v][k]
  BY DEF LinkAll
<1>2. \A v \in Object, k \in RelName :
        /\ reverseRelations[v][k] \in Seq(Object)
        /\ IsInjective(reverseRelations[v][k])
        /\ o \notin ToSet(reverseRelations[v][k])
  BY NullIsNoObject DEF GraphInv, RelationsTypeOK, Mirror, NoDuplicates, BackPointers
<1>3. \A v \in Object, k \in RelName :
        LET was == reverseRelations[v][k] IN
        /\ Append(was, o) \in Seq(Object)
        /\ ToSet(Append(was, o)) = ToSet(was) \cup {o}
        /\ IsInjective(Append(was, o))
  BY <1>2, AppendLemma
<1>4. RelationsTypeOK'
  <2>1. relations' \in [Object -> [RelName -> Object \cup {NoObject}]]
    BY <1>1 DEF GraphInv, RelationsTypeOK
  <2>2. reverseRelations' \in [Object -> [RelName -> Seq(Object)]]
    BY <1>2, <1>3 DEF LinkAll
  <2>3. QED
    BY <2>1, <2>2 DEF RelationsTypeOK
<1>5. BackPointers'
  <2> SUFFICES ASSUME NEW p \in Object, NEW w \in Object, NEW l \in RelName
               PROVE  relations'[p][l] = w
                        <=> p \in ToSet(reverseRelations'[w][l])
    BY DEF BackPointers
  <2>1. relations[p][l] = w <=> p \in ToSet(reverseRelations[w][l])
    BY DEF GraphInv, Mirror, BackPointers
  <2>2. relations'[p][l] = IF p = o THEN targets[l] ELSE relations[p][l]
    BY <1>1 DEF GraphInv, RelationsTypeOK
  <2>3. ToSet(reverseRelations'[w][l]) =
          IF targets[l] = w THEN ToSet(reverseRelations[w][l]) \cup {o}
          ELSE ToSet(reverseRelations[w][l])
    BY <1>1, <1>3
  <2>4. o \notin ToSet(reverseRelations[w][l])
    BY <1>2
  <2>5. QED
    BY <2>1, <2>2, <2>3, <2>4
<1>6. NoDuplicates'
  BY <1>1, <1>2, <1>3 DEF NoDuplicates
<1>7. QED
  BY <1>4, <1>5, <1>6 DEF GraphInv, Mirror

(* What loadFromDB of the handlers leaves in each object. *)
LEMMA LoadedFields ==
  ASSUME MemoryInv, RowsOK(file[job.path]), NEW o \in Live, LoadFields(o),
         \A k \in SaveKeys : fields[o].aspects[k] = Nothing
  PROVE  /\ FieldsOK'
         /\ \A i \in Object : fields'[i].aspectSlots = fields[i].aspectSlots
         /\ \A i \in Object \ {o} : /\ fields'[i].stats = fields[i].stats
                                    /\ fields'[i].slots = fields[i].slots
                                    /\ fields'[i].aspects = fields[i].aspects
         /\ fields'[o].stats = SavedStats(o, fields[o].stats)
         /\ fields'[o].slots = [s \in DOMAIN fields[o].slots |-> SavedItem(o, s)]
         /\ fields'[o].aspects = SavedAspects(o, fields[o].aspects)
         /\ \A i \in Object :
              LET told == {s \in DOMAIN fields[o].slots : SavedItem(o, s) = i}
                  strings == {r.value : r \in {r \in file[job.path].strings : r.id = i}}
              IN fields'[i].equippedAt =
                   IF told # {} THEN CHOOSE s \in told : TRUE
                   ELSE IF i = o /\ strings # {} THEN CHOOSE s \in strings : TRUE
                   ELSE fields[i].equippedAt
<1> DEFINE strings == {r.value : r \in {r \in file[job.path].strings : r.id = o}}
           worn == [s \in DOMAIN fields[o].slots |-> SavedItem(o, s)]
           told(i) == {s \in DOMAIN worn : worn[s] = i}
           stats == SavedStats(o, fields[o].stats)
           aspects == SavedAspects(o, fields[o].aspects)
           at == IF strings = {} THEN fields[o].equippedAt ELSE CHOOSE s \in strings : TRUE
           read == [[[[fields[o] EXCEPT !.stats = stats] EXCEPT !.slots = worn]
                       EXCEPT !.aspects = aspects] EXCEPT !.equippedAt = at]
           mine == [fields EXCEPT ![o] = read]
<1>1. o \in Object /\ fields = [i \in Object |-> fields[i]] /\ FieldOK(fields[o])
  BY DEF MemoryInv, ObjectsOK, FieldsOK
<1>2. fields' = [i \in Object |->
                   IF told(i) = {} THEN mine[i]
                   ELSE [mine[i] EXCEPT !.equippedAt = CHOOSE s \in told(i) : TRUE]]
  BY <1>1 DEF LoadFields, FieldOK
<1>3. /\ IsPartial(stats, Names(StatEntry), Value \cup {Nothing})
      /\ IsPartial(worn, Names(EquipEntry), Object \cup {NoObject})
      /\ aspects \in [SaveKeys -> Aspect \cup {Nothing}]
      /\ \A k \in SaveKeys : aspects[k] # Nothing => aspects[k].saveKey = k
      /\ at \in Names(EquipEntry) \cup {Nothing}
      /\ \A i : told(i) \subseteq Names(EquipEntry)
  <2>1. IsPartial(stats, Names(StatEntry), Value \cup {Nothing})
    BY <1>1, SavedStatsIs DEF FieldOK
  <2>2. \A s : SavedItem(o, s) \in Object \cup {NoObject}
    BY SavedItemIs DEF MemoryInv, ObjectsOK
  <2>3. IsPartial(worn, Names(EquipEntry), Object \cup {NoObject})
    BY <1>1, <2>2 DEF FieldOK, IsPartial
  <2>4. /\ aspects \in [SaveKeys -> Aspect \cup {Nothing}]
        /\ \A k \in SaveKeys : aspects[k] # Nothing => aspects[k].saveKey = k
    BY <1>1, SavedAspectsIs DEF FieldOK
  <2>5. strings \subseteq Names(EquipEntry)
    BY DEF RowsOK
  <2>6. at \in Names(EquipEntry) \cup {Nothing}
    BY <1>1, <2>5 DEF FieldOK
  <2>7. \A i : told(i) \subseteq Names(EquipEntry)
    BY <1>1 DEF FieldOK, IsPartial
  <2>8. QED
    BY <2>1, <2>3, <2>4, <2>6, <2>7
<1> HIDE DEF strings, worn, told, stats, aspects, at
<1>4. /\ FieldOK(read)
      /\ read.stats = stats /\ read.slots = worn /\ read.aspects = aspects
      /\ read.equippedAt = at /\ read.aspectSlots = fields[o].aspectSlots
  BY <1>1, <1>3 DEF FieldOK
<1> HIDE DEF read
<1>5. \A i \in Object : mine[i] = (IF i = o THEN read ELSE fields[i])
                          /\ FieldOK(mine[i])
  BY <1>1, <1>4 DEF MemoryInv, FieldsOK
<1> HIDE DEF mine
<1>6. \A i \in Object :
        /\ FieldOK(fields'[i])
        /\ fields'[i].stats = mine[i].stats /\ fields'[i].slots = mine[i].slots
        /\ fields'[i].aspects = mine[i].aspects
        /\ fields'[i].aspectSlots = mine[i].aspectSlots
        /\ fields'[i].equippedAt = IF told(i) # {} THEN CHOOSE s \in told(i) : TRUE
                                   ELSE mine[i].equippedAt
  <2> SUFFICES ASSUME NEW i \in Object
               PROVE  /\ FieldOK(fields'[i])
                      /\ fields'[i].stats = mine[i].stats /\ fields'[i].slots = mine[i].slots
                      /\ fields'[i].aspects = mine[i].aspects
                      /\ fields'[i].aspectSlots = mine[i].aspectSlots
                      /\ fields'[i].equippedAt = IF told(i) # {} THEN CHOOSE s \in told(i) : TRUE
                                                 ELSE mine[i].equippedAt
    OBVIOUS
  <2>1. CASE told(i) = {}
    BY <1>2, <1>5, <2>1
  <2>2. CASE told(i) # {}
    <3> DEFINE c == CHOOSE s \in told(i) : TRUE
    <3>1. fields'[i] = [mine[i] EXCEPT !.equippedAt = c]
      BY <1>2, <2>2
    <3>2. c \in Names(EquipEntry)
      BY <1>3, <2>2
    <3> HIDE DEF c
    <3>3. /\ FieldOK(fields'[i])
          /\ fields'[i].stats = mine[i].stats /\ fields'[i].slots = mine[i].slots
          /\ fields'[i].aspects = mine[i].aspects
          /\ fields'[i].aspectSlots = mine[i].aspectSlots
          /\ fields'[i].equippedAt = c
      BY <1>5, <3>1, <3>2, TellField
    <3>4. QED
      BY <2>2, <3>3 DEF c
  <2>3. QED
    BY <2>1, <2>2
<1>7. FieldsOK'
  BY <1>2, <1>6 DEF FieldsOK
<1>8. \A i \in Object : fields'[i].aspectSlots = fields[i].aspectSlots
  BY <1>4, <1>5, <1>6
<1>9. \A i \in Object \ {o} : /\ fields'[i].stats = fields[i].stats
                              /\ fields'[i].slots = fields[i].slots
                              /\ fields'[i].aspects = fields[i].aspects
  BY <1>5, <1>6
<1>10. /\ fields'[o].stats = SavedStats(o, fields[o].stats)
       /\ fields'[o].slots = [s \in DOMAIN fields[o].slots |-> SavedItem(o, s)]
       /\ fields'[o].aspects = SavedAspects(o, fields[o].aspects)
  BY <1>1, <1>4, <1>5, <1>6 DEF stats, worn, aspects
<1>11. ASSUME NEW i \in Object
       PROVE  LET from == {r.value : r \in {r \in file[job.path].strings : r.id = i}}
                  by == {s \in DOMAIN fields[o].slots : SavedItem(o, s) = i}
              IN fields'[i].equippedAt =
                   IF by # {} THEN CHOOSE s \in by : TRUE
                   ELSE IF i = o /\ from # {} THEN CHOOSE s \in from : TRUE
                   ELSE fields[i].equippedAt
  <2>1. told(i) = {s \in DOMAIN fields[o].slots : SavedItem(o, s) = i}
    BY DEF told, worn
  <2>2. mine[i].equippedAt = IF i = o THEN at ELSE fields[i].equippedAt
    BY <1>4, <1>5
  <2>3. CASE told(i) # {}
    BY <1>6, <2>1, <2>3
  <2>4. CASE told(i) = {}
    <3>1. fields'[i].equippedAt = IF i = o THEN at ELSE fields[i].equippedAt
      BY <1>6, <2>2, <2>4
    <3>2. CASE i = o
      BY <2>1, <2>4, <3>1, <3>2 DEF at, strings
    <3>3. CASE i # o
      BY <2>1, <2>4, <3>1, <3>3
    <3>4. QED
      BY <3>2, <3>3
  <2>5. QED
    BY <2>3, <2>4
<1>12. QED
  BY <1>7, <1>8, <1>9, <1>10, <1>11

(* An object is loaded: its relations, its handlers, and what it wears. *)
LEMMA LoadObjectMemory ==
  ASSUME IInv, NEW o \in Object, LoadObject(o)
  PROVE  /\ MemoryInv' /\ Live' = Live
         /\ \A p \in Live : \A s \in (Wearing(p))' :
              [id |-> p, slot |-> s, item |-> fields'[p].slots[s]] \in file[job.path].equip
         /\ \A p \in Live \ {o} : (Wearing(p))' = Wearing(p)
<1> DEFINE rows == file[job.path]
           saved == SavedRelations(o)
<1>1. /\ MemoryInv /\ RowsOK(rows)
      /\ job.kind = "loading" /\ job.rows = {} /\ o \in job.todo /\ o \in Live
      /\ UNCHANGED <<objects, lastInsertID, registered, file>>
      /\ LinkAll(o, saved) /\ LoadFields(o)
  BY DEF IInv, JobOK, LoadingOK, FilesOK, LoadObject
<1>2. /\ \A k \in RelName : relations[o][k] = NoObject
      /\ Wearing(o) = {}
      /\ \A k \in SaveKeys : fields[o].aspects[k] = Nothing
      /\ \A p \in job.todo : Wearing(p) = {}
      /\ \A p \in Live \ job.todo : \A s \in Wearing(p) :
           [id |-> p, slot |-> s, item |-> fields[p].slots[s]] \in rows.equip
  BY <1>1 DEF IInv, JobOK, LoadingOK
<1>3. Live' = Live /\ Live \subseteq Object /\ NoObject \notin Live
  BY <1>1, NullIsNoObject DEF Live, MemoryInv, ObjectsOK
<1>4. saved \in [RelName -> Live \cup {NoObject}]
  BY <1>1, SavedRelationsIs
<1>5. GraphInv'
  BY <1>1, <1>2, <1>3, <1>4, LinkAllGraph DEF MemoryInv
<1>6. AmongLive'
  <2>1. \A p \in Object, k \in RelName :
          relations'[p][k] = IF p = o THEN saved[k] ELSE relations[p][k]
    BY <1>1 DEF LinkAll, MemoryInv, GraphInv, RelationsTypeOK
  <2>2. QED
    BY <1>1, <1>3, <1>4, <2>1 DEF MemoryInv, AmongLive
<1>7. ObjectsOK'
  BY <1>1, <1>3 DEF MemoryInv, ObjectsOK
<1>8. FieldsOK'
  BY <1>1, <1>2, LoadedFields
<1>9. StatsOK'
  <2>1. IsPartial(fields[o].stats, Names(StatEntry), Value \cup {Nothing})
    BY <1>1 DEF MemoryInv, FieldsOK, FieldOK
  <2>2. /\ DOMAIN fields'[o].stats = DOMAIN fields[o].stats
        /\ \A s \in DOMAIN fields[o].stats :
             fields'[o].stats[s] # Nothing <=> fields[o].stats[s] # Nothing
    <3> DEFINE new == SavedStats(o, fields[o].stats)
    <3>1. fields'[o].stats = new
      BY <1>1, <1>2, LoadedFields
    <3>2. /\ DOMAIN new = DOMAIN fields[o].stats
          /\ \A s \in DOMAIN fields[o].stats : new[s] # Nothing <=> fields[o].stats[s] # Nothing
      BY <1>1, <2>1, SavedStatsIs
    <3> HIDE DEF new
    <3>3. QED
      BY <3>1, <3>2
  <2>3. \A p \in Live \ {o} : fields'[p].stats = fields[p].stats
    BY <1>1, <1>2, <1>3, LoadedFields
  <2>4. QED
    BY <1>1, <1>3, <2>2, <2>3 DEF MemoryInv, StatsOK
<1>10. \A p \in Live \ {o} : fields'[p].slots = fields[p].slots
                               /\ (Wearing(p))' = Wearing(p)
  <2>1. \A p \in Live \ {o} : fields'[p].slots = fields[p].slots
    BY <1>1, <1>2, <1>3, LoadedFields
  <2>2. QED
    BY <2>1 DEF Wearing
<1>11. \A s \in (Wearing(o))' : /\ fields'[o].slots[s] = SavedItem(o, s)
                                /\ s \in DOMAIN fields[o].slots
                                /\ SavedItem(o, s) \in Live
                                /\ [id |-> o, slot |-> s, item |-> SavedItem(o, s)]
                                     \in rows.equip
  <2>1. fields'[o].slots = [s \in DOMAIN fields[o].slots |-> SavedItem(o, s)]
    BY <1>1, <1>2, LoadedFields
  <2>2. \A s \in (Wearing(o))' : /\ fields'[o].slots[s] = SavedItem(o, s)
                                 /\ s \in DOMAIN fields[o].slots
                                 /\ SavedItem(o, s) # NoObject
    BY <2>1 DEF Wearing
  <2>3. QED
    BY <1>1, <2>2, SavedItemIs
<1>12. \A p \in Live : \A s \in (Wearing(p))' :
         /\ fields'[p].slots[s] \in Live
         /\ [id |-> p, slot |-> s, item |-> fields'[p].slots[s]] \in rows.equip
  <2> SUFFICES ASSUME NEW p \in Live, NEW s \in (Wearing(p))'
               PROVE  /\ fields'[p].slots[s] \in Live
                      /\ [id |-> p, slot |-> s, item |-> fields'[p].slots[s]] \in rows.equip
    OBVIOUS
  <2>1. CASE p = o
    BY <1>11, <2>1
  <2>2. CASE p # o
    BY <1>1, <1>2, <1>10, <2>2 DEF MemoryInv, WornLive
  <2>3. QED
    BY <2>1, <2>2
<1>13. \A r, s \in rows.equip : r.item = s.item /\ r.item \in Checked => r = s
  BY <1>1 DEF RowsOK
<1>14. WornLive' /\ WornOnce'
  <2>1. WornLive'
    BY <1>3, <1>12 DEF WornLive
  <2>2. ASSUME NEW p \in Live, NEW q \in Live,
               NEW s \in (Wearing(p))', NEW u \in (Wearing(q))',
               fields'[p].slots[s] \in Checked, fields'[p].slots[s] = fields'[q].slots[u]
        PROVE  p = q /\ s = u
    <3> DEFINE r == [id |-> p, slot |-> s, item |-> fields'[p].slots[s]]
               t == [id |-> q, slot |-> u, item |-> fields'[q].slots[u]]
    <3>1. r \in rows.equip /\ t \in rows.equip
      BY <1>12
    <3>2. r.item = t.item /\ r.item \in Checked
      BY <2>2
    <3>3. r = t
      BY <1>13, <3>1, <3>2
    <3>4. r.id = t.id /\ r.slot = t.slot
      BY <3>3
    <3>5. QED
      BY <3>4
  <2>3. QED
    BY <1>3, <2>1, <2>2 DEF WornOnce
<1>15. SaysWhere'
  <2> SUFFICES ASSUME NEW p \in Live, NEW s \in (Wearing(p))',
                      fields'[p].slots[s] \in Checked
               PROVE  fields'[fields'[p].slots[s]].equippedAt = s
    BY <1>3 DEF SaysWhere
  <2> DEFINE i == fields'[p].slots[s]
             told == {u \in DOMAIN fields[o].slots : SavedItem(o, u) = i}
             strings == {r.value : r \in {r \in rows.strings : r.id = i}}
  <2>1. /\ i \in Live /\ i \in Object /\ i \in Checked
        /\ [id |-> p, slot |-> s, item |-> i] \in rows.equip
    BY <1>3, <1>12
  <2>2. fields'[i].equippedAt =
          IF told # {} THEN CHOOSE u \in told : TRUE
          ELSE IF i = o /\ strings # {} THEN CHOOSE u \in strings : TRUE
          ELSE fields[i].equippedAt
    BY <1>1, <1>2, <2>1, LoadedFields
  <2>3. \A u \in told : u = s
    <3> SUFFICES ASSUME NEW u \in told PROVE u = s
      OBVIOUS
    <3>1. [id |-> o, slot |-> u, item |-> i] \in rows.equip
      BY <1>1, <2>1, SavedItemIs
    <3>2. [id |-> o, slot |-> u, item |-> i] = [id |-> p, slot |-> s, item |-> i]
      BY <1>13, <2>1, <3>1
    <3>3. [id |-> o, slot |-> u, item |-> i].slot = [id |-> p, slot |-> s, item |-> i].slot
      BY <3>2
    <3>4. QED
      BY <3>3
  <2>4. strings = {s}
    <3>1. [id |-> i, value |-> s] \in rows.strings
      BY <1>1, <2>1 DEF RowsOK
    <3>2. \A r, t \in rows.strings : r.id = t.id => r = t
      BY <1>1 DEF RowsOK
    <3>3. \A r \in rows.strings : r.id = i => r = [id |-> i, value |-> s]
      BY <3>1, <3>2
    <3>4. QED
      BY <3>1, <3>3
  <2>5. CASE told # {}
    BY <2>2, <2>3, <2>5
  <2>6. CASE told = {}
    <3>1. p # o
      BY <1>11, <2>6
    <3>2. s \in Wearing(p) /\ fields[p].slots[s] = i
      BY <1>10, <3>1
    <3>3. fields[i].equippedAt = s
      BY <1>1, <3>2 DEF MemoryInv, SaysWhere
    <3>4. QED
      BY <2>2, <2>4, <2>6, <3>3
  <2>7. QED
    BY <2>5, <2>6
<1>16. QED
  BY <1>3, <1>5, <1>6, <1>7, <1>8, <1>9, <1>10, <1>12, <1>14, <1>15 DEF MemoryInv

-----------------------------------------------------------------------------
(* The steps. *)

(* A step that leaves the memory alone leaves the invariant of it alone. *)
LEMMA SameMemory ==
  ASSUME MemoryInv, UNCHANGED memory
  PROVE  MemoryInv' /\ Live' = Live
<1>1. UNCHANGED <<graph, objects, lastInsertID, registered, fields>> /\ Live' = Live
  BY DEF memory, Live
<1>2. FieldsOK' /\ StatsOK'
  BY <1>1 DEF MemoryInv, FieldsOK, StatsOK
<1>3. WornLive' /\ WornOnce' /\ SaysWhere'
  BY <1>1 DEF MemoryInv, WornLive, WornOnce, SaysWhere, Wearing
<1>4. QED
  BY <1>1, <1>2, <1>3, OnlyFields

(* There is a row with the lowest id among finitely many.                  *)
LEMMA LeastRow ==
  ASSUME NEW R, IsFiniteSet(R), R # {}, \A r \in R : r.id \in Int
  PROVE  \E r \in R : \A s \in R : r.id <= s.id
<1> DEFINE below(r) == {s \in R : s.id <= r.id}
           C == {Cardinality(below(r)) : r \in R}
<1>1. \A r \in R : IsFiniteSet(below(r)) /\ Cardinality(below(r)) \in Nat
  BY FS_Subset, FS_CardinalityType
<1>2. C \subseteq Nat /\ C # {}
  BY <1>1
<1>3. Min(C) \in C /\ \A c \in C : Min(C) <= c
  BY <1>2, MinLemma
<1>4. PICK r \in R : Cardinality(below(r)) = Min(C)
  BY <1>3
<1>5. ASSUME NEW s \in R, s.id < r.id PROVE FALSE
  <2>1. below(s) \subseteq below(r) /\ r \notin below(s) /\ r \in below(r)
    BY <1>5
  <2>2. /\ Cardinality(below(s)) <= Cardinality(below(r))
        /\ Cardinality(below(s)) # Cardinality(below(r))
    BY <1>1, <2>1, FS_Subset
  <2>3. Cardinality(below(s)) \in C
    OBVIOUS
  <2>4. Min(C) <= Cardinality(below(s))
    BY <1>3, <2>3
  <2> HIDE DEF below, C
  <2>5. QED
    BY <1>1, <1>4, <2>2, <2>4
<1>6. \A s \in R : r.id <= s.id
  BY <1>5
<1>7. QED
  BY <1>6

(* The row that a load comes to next is one of those that are left. *)
LEMMA NextRow ==
  ASSUME IInv, job.kind = "loading", job.rows # {}
  PROVE  LET row == CHOOSE r \in job.rows : \A s \in job.rows : r.id <= s.id IN
         /\ row \in job.rows
         /\ row.id \in Object /\ row.type \in Type
<1> DEFINE rows == file[job.path]
           row == CHOOSE r \in job.rows : \A s \in job.rows : r.id <= s.id
<1>1. RowsOK(rows) /\ job.rows \subseteq rows.objects
  BY DEF IInv, JobOK, LoadingOK, FilesOK
<1>2. IsFiniteSet(job.rows) /\ \A r \in job.rows : r.id \in Object /\ r.type \in Type
  BY <1>1, FS_Subset DEF RowsOK
<1>3. \A r \in job.rows : r.id \in Int
  BY <1>2, GameObjectsAssumption
<1>4. row \in job.rows
  BY <1>2, <1>3, LeastRow
<1>5. QED
  BY <1>2, <1>4

(* A game with no objects and empty files. *)
LEMMA InitInv == Init => IInv
<1> SUFFICES ASSUME Init PROVE IInv
  OBVIOUS
<1>1. MemoryInv
  BY BlankMemory DEF Init, MemoryInit, NothingInMemory
<1>2. RowsOK(NoRows)
  BY FS_EmptySet DEF RowsOK, NoRows, Tables
<1>3. FilesOK
  BY <1>2 DEF Init, FilesOK
<1>4. JobOK
  BY DEF Init, JobOK, Idle, SavingOK, LoadingOK
<1>5. QED
  BY <1>1, <1>3, <1>4 DEF IInv

(* Between two saves or loads nothing is half done. *)
LEMMA PlayStep ==
  ASSUME IInv, job.kind = "idle", Play, UNCHANGED <<file, job>>
  PROVE  IInv'
<1>1. MemoryInv'
  BY PlayMemory DEF IInv
<1>2. FilesOK' /\ JobOK'
  BY DEF IInv, FilesOK, JobOK, SavingOK, LoadingOK
<1>3. QED
  BY <1>1, <1>2 DEF IInv

(* A save begins with all objects still to be saved. *)
LEMMA BeginSaveStep ==
  ASSUME IInv, NEW p \in Path, BeginSave(p)
  PROVE  IInv'
<1>1. MemoryInv' /\ Live' = Live
  BY SameMemory DEF IInv, BeginSave
<1>2. job' = Saving(p, Live, file[p]) /\ file' = file
  BY DEF BeginSave
<1>3. FilesOK'
  BY <1>2 DEF IInv, FilesOK
<1>4. file[p] = [t \in Tables |-> file[p][t]]
  BY DEF IInv, FilesOK, RowsOK
<1>5. Live' \ job'.todo = {}
  BY <1>1, <1>2 DEF Saving
<1>6. file[p] = [t \in Tables |-> file'[p][t] \cup
                                    UNION {(RowsOf(o))'[t] : o \in Live' \ job'.todo}]
  BY <1>2, <1>4, <1>5
<1>7. SavingOK'
  BY <1>1, <1>2, <1>5, <1>6 DEF SavingOK, Saving
<1>8. JobOK'
  BY <1>2, <1>7 DEF JobOK, LoadingOK, Saving
<1>9. QED
  BY <1>1, <1>3, <1>8 DEF IInv

(* An object is saved if its rows clash with none: the rows then are those *)
(* of one object more.                                                     *)
LEMMA SaveObjectStep ==
  ASSUME IInv, NEW o \in Object, SaveObject(o)
  PROVE  IInv'
<1>1. MemoryInv' /\ Live' = Live /\ UNCHANGED memory
  BY SameMemory DEF IInv, SaveObject
<1>2. file' = file /\ job.kind = "saving" /\ o \in job.todo
  BY DEF SaveObject
<1>3. FilesOK'
  BY <1>2 DEF IInv, FilesOK
<1>4. CASE job' = Idle
  BY <1>1, <1>3, <1>4 DEF IInv, JobOK, SavingOK, LoadingOK, Idle
<1>5. CASE job' # Idle
  <2> DEFINE p == job.path
  <2>1. /\ ~Throws(o, job.rows)
        /\ job' = Saving(p, job.todo \ {o}, AddRows(job.rows, RowsOf(o)))
    BY <1>5 DEF SaveObject
  <2>2. /\ p \in Path /\ job.todo \subseteq Live
        /\ job.rows = [t \in Tables |-> file[p][t] \cup
                         UNION {RowsOf(i)[t] : i \in Live \ job.todo}]
        /\ \A i \in Live \ job.todo : i \notin Ids(file[p])
    BY <1>2 DEF IInv, JobOK, SavingOK
  <2>3. Live' \ job'.todo = (Live \ job.todo) \cup {o}
    BY <1>1, <1>2, <2>1, <2>2 DEF Saving
  <2>4. o \notin Ids(file[p])
    <3>1. job.rows["objects"] = file[p]["objects"] \cup
                                  UNION {RowsOf(i)["objects"] : i \in Live \ job.todo}
      BY <2>2 DEF Tables
    <3>2. \A r \in job.rows["objects"] : r.id # o
      BY <2>1 DEF Throws
    <3>3. QED
      BY <3>1, <3>2 DEF Ids
  <2>5. \A i : (RowsOf(i))' = RowsOf(i)
    BY <1>1 DEF RowsOf, memory, graph, StatRows, EquipRows, AspectRows, Wearing
  <2>6. \A t \in Tables :
          AddRows(job.rows, RowsOf(o))[t] =
            file[p][t] \cup UNION {RowsOf(i)[t] : i \in (Live \ job.todo) \cup {o}}
    BY <2>2 DEF AddRows
  <2>7. job'.rows = [t \in Tables |-> file'[p][t] \cup
                       UNION {(RowsOf(i))'[t] : i \in Live' \ job'.todo}]
    <3>1. job'.rows = [t \in Tables |-> AddRows(job.rows, RowsOf(o))[t]]
      BY <2>1 DEF Saving, AddRows
    <3>2. \A t \in Tables :
            UNION {(RowsOf(i))'[t] : i \in Live' \ job'.todo}
              = UNION {RowsOf(i)[t] : i \in (Live \ job.todo) \cup {o}}
      BY <2>3, <2>5
    <3>3. QED
      BY <1>2, <2>6, <3>1, <3>2
  <2>8. SavingOK'
    BY <1>1, <1>2, <2>1, <2>2, <2>3, <2>4, <2>7 DEF SavingOK, Saving
  <2>9. JobOK'
    BY <2>1, <2>8 DEF JobOK, LoadingOK, Saving
  <2>10. QED
    BY <1>1, <1>3, <2>9 DEF IInv
<1>6. QED
  BY <1>4, <1>5

(* What a save has gathered at its end is what there is. *)
LEMMA SavedAll ==
  ASSUME IInv, job.kind = "saving", job.todo = {}
  PROVE  /\ job.path \in Path
         /\ job.rows = AddRows(file[job.path], Everything)
         /\ Live \cap Ids(file[job.path]) = {}
<1>1. /\ job.path \in Path
      /\ job.rows = [t \in Tables |-> file[job.path][t] \cup UNION {RowsOf(o)[t] : o \in Live}]
      /\ Live \cap Ids(file[job.path]) = {}
  BY DEF IInv, JobOK, SavingOK
<1>2. QED
  BY <1>1 DEF AddRows, Everything

(* The file gets the rows of all the objects. *)
LEMMA CommitStep ==
  ASSUME IInv, Commit
  PROVE  IInv'
<1>1. MemoryInv' /\ Live' = Live
  BY SameMemory DEF IInv, Commit
<1>2. /\ job.kind = "saving" /\ job.todo = {} /\ job' = Idle
      /\ file' = [file EXCEPT ![job.path] = job.rows]
  BY DEF Commit
<1>3. RowsOK(job.rows)
  BY <1>2, SavedAll, EverythingFits DEF IInv, FilesOK
<1>4. FilesOK'
  BY <1>2, <1>3 DEF IInv, FilesOK
<1>5. JobOK'
  BY <1>2 DEF JobOK, SavingOK, LoadingOK, Idle
<1>6. QED
  BY <1>1, <1>4, <1>5 DEF IInv

(* A load begins with nothing in memory, so that nothing has been loaded. *)
LEMMA BeginLoadStep ==
  ASSUME IInv, NEW p \in Path, BeginLoad(p)
  PROVE  IInv'
<1>1. MemoryInv' /\ Live' = Live
  BY SameMemory DEF IInv, BeginLoad
<1>2. /\ job' = Loading(p, {}, file[p].objects) /\ file' = file /\ Live = {}
  BY DEF BeginLoad
<1>3. FilesOK'
  BY <1>2 DEF IInv, FilesOK
<1>4. JobOK'
  BY <1>1, <1>2 DEF JobOK, SavingOK, LoadingOK, Loading
<1>5. QED
  BY <1>1, <1>3, <1>4 DEF IInv

(* A new object has no relations, wears nothing and has no aspects.        *)
LEMMA ConstructBlank ==
  ASSUME MemoryInv, NEW o \in Object \ Live, NEW t \in Type, Construct(o, t)
  PROVE  /\ Live' = Live \cup {o} /\ objects'[o] = t
         /\ \A i \in Live : objects'[i] = objects[i]
         /\ \A k \in RelName : relations'[o][k] = NoObject
         /\ (Wearing(o))' = {}
         /\ \A k \in SaveKeys : fields'[o].aspects[k] = Nothing
         /\ \A i \in Object \ {o} : fields'[i] = fields[i] /\ relations'[i] = relations[i]
<1>1. /\ objects' = [i \in Live \cup {o} |-> IF i = o THEN t ELSE objects[i]]
      /\ relations' = relations
  BY DEF Construct, graph
<1>2. PICK f \in Created(t) : fields' = [fields EXCEPT ![o] = f]
  BY DEF Construct
<1>3. /\ fields'[o] = f /\ \A i \in Object \ {o} : fields'[i] = fields[i]
  BY <1>2 DEF MemoryInv, FieldsOK
<1>4. Live' = Live \cup {o} /\ objects'[o] = t /\ \A i \in Live : objects'[i] = objects[i]
  BY <1>1 DEF Live
<1>5. \A k \in RelName : relations'[o][k] = NoObject
  BY <1>1 DEF MemoryInv, AmongLive
<1>6. (Wearing(o))' = {} /\ \A k \in SaveKeys : fields'[o].aspects[k] = Nothing
  BY <1>3, CreatedLemma DEF Wearing
<1>7. QED
  BY <1>1, <1>3, <1>4, <1>5, <1>6

(* One row of "objects" becomes one object, with the fields atCreate gives *)
(* it.                                                                     *)
LEMMA LoadRowStep ==
  ASSUME IInv, LoadRow
  PROVE  IInv'
<1>0. PICK row, o : /\ row = CHOOSE r \in job.rows : \A s \in job.rows : r.id <= s.id
                    /\ o = AsInt(row.id)
  OBVIOUS
<1>1. /\ job.kind = "loading" /\ job.rows # {} /\ file' = file
      /\ job' = Loading(job.path, Live', job.rows \ {row})
      /\ \/ o \notin Live /\ row.type \in registered /\ Construct(o, row.type)
              /\ UNCHANGED lastInsertID
         \/ UNCHANGED memory
  BY <1>0 DEF LoadRow
<1>2. row \in job.rows /\ o \in Object /\ row.type \in Type
  BY <1>0, <1>1, NextRow, PersistenceAssumption
<1>3. /\ job.path \in Path /\ job.todo = Live
      /\ job.rows \subseteq file[job.path].objects
      /\ \A i \in Live : /\ \A k \in RelName : relations[i][k] = NoObject
                         /\ Wearing(i) = {}
                         /\ \A k \in SaveKeys : fields[i].aspects[k] = Nothing
  BY <1>1 DEF IInv, JobOK, LoadingOK
<1>4. /\ MemoryInv'
      /\ \A i \in Live' : /\ \A k \in RelName : relations'[i][k] = NoObject
                          /\ (Wearing(i))' = {}
                          /\ \A k \in SaveKeys : fields'[i].aspects[k] = Nothing
  <2>1. CASE UNCHANGED memory
    BY <1>3, <2>1, SameMemory DEF IInv, memory, graph, Wearing
  <2>2. CASE o \notin Live /\ Construct(o, row.type) /\ UNCHANGED lastInsertID
    <3>1. MemoryInv'
      BY <1>2, <2>2, ConstructMemory DEF IInv, MemoryInv, ObjectsOK
    <3>2. /\ Live' = Live \cup {o}
          /\ \A k \in RelName : relations'[o][k] = NoObject
          /\ (Wearing(o))' = {}
          /\ \A k \in SaveKeys : fields'[o].aspects[k] = Nothing
          /\ \A i \in Object \ {o} : fields'[i] = fields[i] /\ relations'[i] = relations[i]
      <4>1. MemoryInv /\ o \in Object \ Live
        BY <1>2, <2>2 DEF IInv
      <4>2. QED
        BY <1>2, <2>2, <4>1, ConstructBlank
    <3>3. \A i \in Live : i \in Object \ {o} /\ (Wearing(i))' = Wearing(i)
      BY <2>2, <3>2 DEF IInv, MemoryInv, ObjectsOK, Wearing
    <3>4. \A i \in Live : /\ \A k \in RelName : relations'[i][k] = NoObject
                          /\ (Wearing(i))' = {}
                          /\ \A k \in SaveKeys : fields'[i].aspects[k] = Nothing
      BY <1>3, <3>2, <3>3
    <3>5. QED
      BY <3>1, <3>2, <3>4
  <2>3. QED
    BY <1>1, <2>1, <2>2
<1>5. FilesOK'
  BY <1>1 DEF IInv, FilesOK
<1>6. LoadingOK'
  BY <1>1, <1>3, <1>4 DEF LoadingOK, Loading
<1>7. JobOK'
  BY <1>1, <1>6 DEF JobOK, SavingOK, Loading
<1>8. QED
  BY <1>4, <1>5, <1>7 DEF IInv

(* One object is loaded; the others are as they were, except for what it   *)
(* wears.                                                                  *)
LEMMA LoadObjectStep ==
  ASSUME IInv, NEW o \in Object, LoadObject(o)
  PROVE  IInv'
<1>1. /\ MemoryInv' /\ Live' = Live
      /\ \A p \in Live : \A s \in (Wearing(p))' :
           [id |-> p, slot |-> s, item |-> fields'[p].slots[s]] \in file[job.path].equip
      /\ \A p \in Live \ {o} : (Wearing(p))' = Wearing(p)
  BY LoadObjectMemory
<1>2. /\ job.kind = "loading" /\ job.rows = {} /\ o \in job.todo /\ file' = file
      /\ \/ job' = Idle
         \/ job' = Loading(job.path, job.todo \ {o}, {})
      /\ LinkAll(o, SavedRelations(o)) /\ LoadFields(o)
  BY DEF LoadObject
<1>3. FilesOK'
  BY <1>2 DEF IInv, FilesOK
<1>4. CASE job' = Idle
  BY <1>1, <1>3, <1>4 DEF IInv, JobOK, SavingOK, LoadingOK, Idle
<1>5. CASE job' = Loading(job.path, job.todo \ {o}, {})
  <2>1. /\ job.path \in Path /\ job.todo \subseteq Live /\ o \in Live
        /\ \A i \in job.todo :
             /\ \A k \in RelName : relations[i][k] = NoObject
             /\ Wearing(i) = {}
             /\ \A k \in SaveKeys : fields[i].aspects[k] = Nothing
    BY <1>2 DEF IInv, JobOK, LoadingOK
  <2>2. Live \subseteq Object /\ MemoryInv /\ RowsOK(file[job.path])
    BY <2>1 DEF IInv, MemoryInv, ObjectsOK, FilesOK
  <2>3. \A i \in job.todo \ {o} : relations'[i] = relations[i]
    BY <1>2, <2>1, <2>2 DEF LinkAll, MemoryInv, GraphInv, RelationsTypeOK
  <2>4. \A i \in job.todo \ {o} : fields'[i].aspects = fields[i].aspects
    BY <1>2, <2>1, <2>2, LoadedFields
  <2>5. LoadingOK'
    BY <1>1, <1>2, <1>5, <2>1, <2>3, <2>4 DEF LoadingOK, Loading
  <2>6. JobOK'
    BY <1>5, <2>5 DEF JobOK, SavingOK, Loading
  <2>7. QED
    BY <1>1, <1>3, <2>6 DEF IInv
<1>6. QED
  BY <1>2, <1>4, <1>5

(* A load of an empty file ends where it began. *)
LEMMA LoadNothingStep ==
  ASSUME IInv, LoadNothing
  PROVE  IInv'
<1>1. MemoryInv' /\ job' = Idle /\ file' = file
  BY SameMemory DEF IInv, LoadNothing
<1>2. QED
  BY <1>1 DEF IInv, FilesOK, JobOK, SavingOK, LoadingOK, Idle

(* A process that dies leaves the files, and its save or load with it. *)
LEMMA RestartStep ==
  ASSUME IInv, Restart
  PROVE  IInv'
<1>1. /\ objects' = Empty /\ lastInsertID' = 0 /\ registered' \subseteq Type
      /\ NoRelations' /\ fields' = [o \in Object |-> Blank]
      /\ job' = Idle /\ file' = file
  BY DEF Restart, NoRelations
<1>2. MemoryInv'
  <2>1. NothingInMemory'
    BY <1>1 DEF NothingInMemory
  <2>2. QED
    BY <2>1, BlankMemory, PTL
<1>3. QED
  BY <1>1, <1>2 DEF IInv, FilesOK, JobOK, SavingOK, LoadingOK, Idle

(* One step for each disjunct of Next. *)
LEMMA NextInv == IInv /\ [Next]_vars => IInv'
<1> SUFFICES ASSUME IInv, [Next]_vars PROVE IInv'
  OBVIOUS
<1>1. CASE job.kind = "idle" /\ Play /\ UNCHANGED <<file, job>>
  BY <1>1, PlayStep
<1>2. CASE \E p \in Path : BeginSave(p)
  BY <1>2, BeginSaveStep
<1>3. CASE \E p \in Path : BeginLoad(p)
  BY <1>3, BeginLoadStep
<1>4. CASE \E o \in Object : SaveObject(o)
  BY <1>4, SaveObjectStep
<1>5. CASE \E o \in Object : LoadObject(o)
  BY <1>5, LoadObjectStep
<1>6. CASE Commit
  BY <1>6, CommitStep
<1>7. CASE LoadRow
  BY <1>7, LoadRowStep
<1>8. CASE LoadNothing
  BY <1>8, LoadNothingStep
<1>9. CASE Restart
  BY <1>9, RestartStep
<1>10. CASE UNCHANGED vars
  <2>1. UNCHANGED <<memory, file, job>> /\ MemoryInv' /\ Live' = Live
    BY <1>10, SameMemory DEF vars, IInv
  <2>2. UNCHANGED <<relations, fields, objects>> /\ \A i : (RowsOf(i))' = RowsOf(i)
    BY <2>1 DEF memory, graph, RowsOf, StatRows, EquipRows, AspectRows, Wearing
  <2>3. SavingOK'
    <3>1. \A t \in Tables :
            UNION {(RowsOf(o))'[t] : o \in Live' \ job'.todo}
              = UNION {RowsOf(o)[t] : o \in Live \ job.todo}
      BY <2>1, <2>2
    <3>2. [t \in Tables |-> file[job.path][t] \cup
                              UNION {RowsOf(o)[t] : o \in Live \ job.todo}]
            = [t \in Tables |-> file'[job'.path][t] \cup
                                  UNION {(RowsOf(o))'[t] : o \in Live' \ job'.todo}]
      BY <2>1, <3>1
    <3>3. QED
      BY <2>1, <3>2 DEF IInv, JobOK, SavingOK
  <2>4. LoadingOK'
    BY <2>1, <2>2 DEF IInv, JobOK, LoadingOK, Wearing
  <2>5. QED
    BY <2>1, <2>3, <2>4 DEF IInv, FilesOK, JobOK
<1>11. QED
  BY <1>1, <1>2, <1>3, <1>4, <1>5, <1>6, <1>7, <1>8, <1>9, <1>10 DEF Next

(* The invariant holds in every state the program reaches. *)
LEMMA Inductive == Spec => []IInv
BY InitInv, NextInv, PTL DEF Spec

(* The back pointers agree with the relations, also while a file is loaded *)
(* object by object with setRelation (Mirror; Object.cpp setRelation,      *)
(* game.cpp load).                                                         *)
THEOREM PersistenceMirror == Spec => []Mirror
<1>1. IInv => Mirror
  BY DEF IInv, MemoryInv, GraphInv
<1>2. QED
  BY <1>1, Inductive, PTL

(* An item that the game checks is held by one slot of one object at most, *)
(* and says in "equippedAt" that it is worn there; so whoever unequips it  *)
(* finds it, also after any number of saves, loads and crashes, and        *)
(* whichever items the game does not check (WornWhereItSays; Equip.cpp).   *)
THEOREM WornAfterAll == Spec => []WornWhereItSays
<1>1. IInv => WornWhereItSays
  BY DEF IInv, MemoryInv, WornOnce, SaysWhere, WornWhereItSays
<1>2. QED
  BY <1>1, Inductive, PTL

(* Only Commit writes to a file. *)
THEOREM SavedWhole == Spec => AllOrNothing
<1> DEFINE Whole == \A p \in Path :
                      file'[p] # file[p] => file'[p] = AddRows(file[p], Everything)
<1>1. ASSUME IInv, [Next]_vars PROVE [Whole]_vars
  <2>1. CASE Commit
    <3>1. /\ job.kind = "saving" /\ job.todo = {}
          /\ file' = [file EXCEPT ![job.path] = job.rows]
      BY <2>1 DEF Commit
    <3>2. job.rows = AddRows(file[job.path], Everything) /\ DOMAIN file = Path
      BY <1>1, <3>1, SavedAll DEF IInv, FilesOK
    <3>3. QED
      BY <3>1, <3>2
  <2>2. CASE file' = file
    BY <2>2
  <2>3. QED
    BY <1>1, <2>1, <2>2 DEF Next, vars, BeginSave, BeginLoad, SaveObject, LoadObject,
       LoadRow, LoadNothing, Restart
<1>2. QED
  BY <1>1, Inductive, PTL DEF Spec, AllOrNothing

-----------------------------------------------------------------------------
(* What a load reads back, when ids fit. *)

(* The rows of "objects" but those left have been read. *)
ObjectsBack(rows, left) ==
  \A r \in [id : Object, type : Type] :
    r.id \in Live /\ objects[r.id] = r.type
      <=> r \in rows.objects \ left /\ r.type \in registered

(* The relations of o are those of its rows. *)
RelationsBack(o, rows) ==
  \A k \in RelName, v \in Live :
    relations[o][k] = v <=> [id |-> o, type |-> k, target |-> v] \in rows.relations

(* Stats, equipment and aspects of o are those of its rows, as far as the  *)
(* handlers of the new process have a place for them.                      *)
HandlersBack(o, rows) ==
  LET f == fields[o] IN
  /\ \A r \in rows.stats :
       r.id = o /\ r.type \in DOMAIN f.stats => f.stats[r.type] = r.value
  /\ \A s \in DOMAIN f.slots, item \in Live :
       f.slots[s] = item <=> [id |-> o, slot |-> s, item |-> item] \in rows.equip
  /\ \A a \in Aspect :
       MayHold(o, a) => (f.aspects[a.saveKey] = a <=> AspectRow(o, a) \in rows.aspects)

(* How far a load has come: beside LoadingOK, that what has been read is   *)
(* what is in the file.                                                    *)
ReadBack ==
  job.kind = "loading" =>
    /\ ObjectsBack(file[job.path], job.rows)
    /\ \A o \in Live \ job.todo :
         RelationsBack(o, file[job.path]) /\ HandlersBack(o, file[job.path])

(* An object that has been loaded is as it was saved, and so is any other. *)
LEMMA LoadObjectBack ==
  ASSUME IInv, ReadBack, NEW o \in Object, LoadObject(o), NEW rows, rows = file[job.path]
  PROVE  /\ ObjectsBack(rows, {})'
         /\ \A i \in Live \ (job.todo \ {o}) : RelationsBack(i, rows)' /\ HandlersBack(i, rows)'
<1>1. /\ MemoryInv /\ RowsOK(rows)
      /\ job.kind = "loading" /\ job.rows = {} /\ o \in job.todo /\ o \in Live
      /\ UNCHANGED <<objects, lastInsertID, registered, file>>
      /\ LinkAll(o, SavedRelations(o)) /\ LoadFields(o)
      /\ \A k \in SaveKeys : fields[o].aspects[k] = Nothing
  BY DEF IInv, JobOK, LoadingOK, FilesOK, LoadObject
<1>2. /\ ObjectsBack(rows, {})
      /\ \A i \in Live \ job.todo : RelationsBack(i, rows) /\ HandlersBack(i, rows)
  BY <1>1 DEF ReadBack
<1>3. Live' = Live /\ Live \subseteq Object
  BY <1>1 DEF Live, MemoryInv, ObjectsOK
<1>4. ObjectsBack(rows, {})'
  BY <1>1, <1>2, <1>3 DEF ObjectsBack
<1>5. \A i \in Object : fields'[i].aspectSlots = fields[i].aspectSlots
  BY <1>1, LoadedFields
<1>6. \A i \in Object, a \in Aspect : MayHold(i, a)' <=> MayHold(i, a)
  BY <1>1, <1>5 DEF MayHold
<1>7. ASSUME NEW i \in Live \ job.todo PROVE RelationsBack(i, rows)' /\ HandlersBack(i, rows)'
  <2>1. i # o /\ i \in Object
    BY <1>1, <1>3
  <2>2. relations'[i] = relations[i]
    BY <1>1, <2>1 DEF LinkAll, MemoryInv, GraphInv, RelationsTypeOK
  <2>3. /\ fields'[i].stats = fields[i].stats /\ fields'[i].slots = fields[i].slots
        /\ fields'[i].aspects = fields[i].aspects
    BY <1>1, <2>1, LoadedFields
  <2>4. RelationsBack(i, rows)'
    BY <1>2, <1>3, <2>2 DEF RelationsBack
  <2>5. HandlersBack(i, rows)'
    BY <1>2, <1>3, <1>6, <2>1, <2>3 DEF HandlersBack
  <2>6. QED
    BY <2>4, <2>5
<1>8. RelationsBack(o, rows)'
  <2>1. relations'[o] = SavedRelations(o)
    BY <1>1 DEF LinkAll, MemoryInv, GraphInv, RelationsTypeOK
  <2>2. QED
    BY <1>1, <1>3, <2>1, SavedRelationsIs DEF RelationsBack
<1>9. HandlersBack(o, rows)'
  <2> DEFINE old == fields[o]
  <2>1. /\ fields'[o].stats = SavedStats(o, old.stats)
        /\ fields'[o].slots = [s \in DOMAIN old.slots |-> SavedItem(o, s)]
        /\ fields'[o].aspects = SavedAspects(o, old.aspects)
    BY <1>1, LoadedFields
  <2>2. FieldOK(old)
    BY <1>1 DEF MemoryInv, FieldsOK
  <2>3. \A r \in rows.stats :
          r.id = o /\ r.type \in DOMAIN fields'[o].stats => fields'[o].stats[r.type] = r.value
    <3> SUFFICES ASSUME NEW r \in rows.stats, r.id = o, r.type \in DOMAIN fields'[o].stats
                 PROVE  fields'[o].stats[r.type] = r.value
      OBVIOUS
    <3> DEFINE new == SavedStats(o, old.stats)
    <3>1. IsPartial(old.stats, Names(StatEntry), Value \cup {Nothing})
      BY <2>2 DEF FieldOK
    <3>2. /\ DOMAIN new = DOMAIN old.stats
          /\ r.type \in DOMAIN old.stats /\ old.stats[r.type] # Nothing => new[r.type] = r.value
      BY <1>1, <3>1, SavedStatsIs
    <3>3. r.type \in DOMAIN old.stats
      BY <2>1, <3>2
    <3>4. [id |-> o, type |-> objects[o]] \in rows.objects
      BY <1>1, <1>2 DEF ObjectsBack, MemoryInv, ObjectsOK
    <3>5. r.type \in RealStats(objects[o])
      BY <1>1, <3>4 DEF RowsOK
    <3>6. old.stats[r.type] # Nothing
      BY <1>1, <3>3, <3>5 DEF MemoryInv, StatsOK
    <3>7. QED
      BY <2>1, <3>2, <3>3, <3>6
  <2>4. \A s \in DOMAIN fields'[o].slots, item \in Live :
          fields'[o].slots[s] = item <=> [id |-> o, slot |-> s, item |-> item] \in rows.equip
    BY <1>1, <2>1, SavedItemIs
  <2>5. \A a \in Aspect :
          MayHold(o, a) =>
            (fields'[o].aspects[a.saveKey] = a <=> AspectRow(o, a) \in rows.aspects)
    <3>1. old.aspects \in [SaveKeys -> Aspect \cup {Nothing}]
      BY <2>2 DEF FieldOK
    <3>2. QED
      BY <1>1, <2>1, <3>1, SavedAspectsIs
  <2>6. QED
    BY <1>3, <1>6, <2>3, <2>4, <2>5 DEF HandlersBack
<1>10. QED
  BY <1>4, <1>7, <1>8, <1>9

(* A row is read once: its object is not among those there are already.    *)
LEMMA LoadRowBack ==
  ASSUME IdsFit, IInv, ReadBack, LoadRow, NEW rows, rows = file[job.path]
  PROVE  ObjectsBack(rows, job.rows)'
<1>0. PICK row, o : /\ row = CHOOSE r \in job.rows : \A s \in job.rows : r.id <= s.id
                    /\ o = AsInt(row.id)
  OBVIOUS
<1>1. /\ job.kind = "loading" /\ job.rows # {} /\ file' = file
      /\ job'.rows = job.rows \ {row}
      /\ IF row.type \in registered /\ o \notin Live
         THEN Construct(o, row.type) /\ UNCHANGED lastInsertID
         ELSE UNCHANGED memory
  BY <1>0 DEF LoadRow, Loading
<1>2. row \in job.rows /\ o = row.id /\ o \in Object /\ row.type \in Type
  BY <1>0, <1>1, NextRow DEF IdsFit
<1>3. /\ RowsOK(rows) /\ MemoryInv /\ job.rows \subseteq rows.objects
      /\ ObjectsBack(rows, job.rows)
  BY <1>1 DEF IInv, FilesOK, JobOK, LoadingOK, ReadBack
<1>4. row = [id |-> o, type |-> row.type] /\ row \in rows.objects
  BY <1>2, <1>3 DEF RowsOK
<1>5. o \notin Live
  <2> SUFFICES ASSUME o \in Live PROVE FALSE
    OBVIOUS
  <2>1. [id |-> o, type |-> objects[o]] \in rows.objects \ job.rows
    BY <1>2, <1>3 DEF ObjectsBack, MemoryInv, ObjectsOK
  <2>2. row = [id |-> o, type |-> objects[o]]
    BY <1>3, <1>4, <2>1 DEF RowsOK
  <2>3. QED
    BY <1>2, <2>1, <2>2
<1>6. SUFFICES ASSUME NEW r \in [id : Object, type : Type]
               PROVE  r.id \in Live' /\ objects'[r.id] = r.type
                        <=> r \in rows.objects \ (job.rows \ {row}) /\ r.type \in registered'
  BY <1>1 DEF ObjectsBack
<1>7. r.id \in Live /\ objects[r.id] = r.type
        <=> r \in rows.objects \ job.rows /\ r.type \in registered
  BY <1>3 DEF ObjectsBack
<1>8. r.id = o /\ r.type = row.type <=> r = row
  BY <1>4
<1>9. CASE row.type \in registered
  <2>1. /\ Construct(o, row.type) /\ registered' = registered
    BY <1>1, <1>5, <1>9 DEF Construct
  <2>2. /\ Live' = Live \cup {o} /\ objects'[o] = row.type
        /\ \A i \in Live : objects'[i] = objects[i]
    BY <1>2, <1>3, <1>5, <2>1, ConstructBlank
  <2>3. CASE r.id = o
    <3>1. r \in rows.objects => r = row
      BY <1>3, <1>4, <2>3 DEF RowsOK
    <3>2. QED
      BY <1>4, <1>8, <1>9, <2>1, <2>2, <2>3, <3>1
  <2>4. CASE r.id # o
    BY <1>2, <1>7, <2>1, <2>2, <2>4
  <2>5. QED
    BY <2>3, <2>4
<1>10. CASE row.type \notin registered
  <2>1. UNCHANGED <<objects, registered>> /\ Live' = Live
    BY <1>1, <1>10 DEF memory, Live
  <2>2. QED
    BY <1>7, <1>10, <2>1
<1>11. QED
  BY <1>9, <1>10

(* Every step of a load reads back one row or one object; others are not in*)
(* the middle of a load.                                                   *)
LEMMA ReadBackStep ==
  ASSUME IdsFit, IInv, ReadBack, [Next]_vars
  PROVE  ReadBack'
<1>1. CASE \E o \in Object : LoadObject(o)
  <2>1. PICK o \in Object : LoadObject(o)
    BY <1>1
  <2>2. PICK rows : rows = file[job.path]
    OBVIOUS
  <2>3. /\ ObjectsBack(rows, {})'
        /\ \A i \in Live \ (job.todo \ {o}) : RelationsBack(i, rows)' /\ HandlersBack(i, rows)'
    BY <2>1, <2>2, LoadObjectBack
  <2>4. /\ job' = Idle \/ job' = Loading(job.path, job.todo \ {o}, {})
        /\ file' = file /\ Live' = Live
    BY <2>1 DEF LoadObject, Live
  <2>5. CASE job' = Idle
    BY <2>5 DEF ReadBack, Idle
  <2>6. CASE job' = Loading(job.path, job.todo \ {o}, {})
    <3>1. job'.rows = {} /\ job'.todo = job.todo \ {o} /\ file'[job'.path] = rows
      BY <2>2, <2>4, <2>6 DEF Loading
    <3>2. ObjectsBack(file[job.path], job.rows)'
      BY <2>3, <3>1 DEF ObjectsBack
    <3>3. \A i \in Live' \ job'.todo :
            RelationsBack(i, file[job.path])' /\ HandlersBack(i, file[job.path])'
      BY <2>3, <2>4, <3>1 DEF RelationsBack, HandlersBack
    <3>4. QED
      BY <3>2, <3>3 DEF ReadBack
  <2>7. QED
    BY <2>4, <2>5, <2>6
<1>2. CASE LoadRow
  <2>1. PICK rows : rows = file[job.path]
    OBVIOUS
  <2>2. ObjectsBack(rows, job.rows)'
    BY <1>2, <2>1, LoadRowBack
  <2>3. file'[job'.path] = rows /\ job'.todo = Live'
    BY <1>2, <2>1 DEF LoadRow, Loading
  <2>4. ObjectsBack(file[job.path], job.rows)'
    BY <2>2, <2>3 DEF ObjectsBack
  <2>5. QED
    BY <2>3, <2>4 DEF ReadBack
<1>3. CASE \E p \in Path : BeginLoad(p)
  <2>1. PICK p \in Path : BeginLoad(p)
    BY <1>3
  <2>2. /\ job'.path = p /\ job'.rows = file[p].objects /\ file' = file /\ Live' = {}
    BY <2>1 DEF BeginLoad, Loading, memory, Live
  <2>3. ObjectsBack(file[job.path], job.rows)'
    BY <2>2 DEF ObjectsBack
  <2>4. QED
    BY <2>2, <2>3 DEF ReadBack
<1>4. CASE job'.kind # "loading"
  BY <1>4 DEF ReadBack
<1>5. CASE UNCHANGED vars
  BY <1>5 DEF vars, memory, graph, ReadBack, ObjectsBack, RelationsBack, HandlersBack, Live,
     MayHold
<1>6. Next => \/ \E o \in Object : LoadObject(o)
              \/ LoadRow
              \/ \E p \in Path : BeginLoad(p)
              \/ job'.kind # "loading"
  BY DEF Next, BeginSave, SaveObject, Commit, LoadNothing, Restart, Idle, Saving
<1>7. QED
  BY <1>1, <1>2, <1>3, <1>4, <1>5, <1>6

(* With ids that fit, what a load has read is always what the file holds. *)
LEMMA BackInductive ==
  ASSUME IdsFit
  PROVE  Spec => [](IInv /\ ReadBack)
<1>1. Init => ReadBack
  BY DEF Init, Idle, ReadBack
<1>2. IInv /\ ReadBack /\ [Next]_vars => ReadBack'
  BY ReadBackStep
<1>3. QED
  BY <1>1, <1>2, Inductive, PTL DEF Spec

(* With the last step of a load, every object has been read back.          *)
LEMMA LoadEndsBack ==
  ASSUME IInv, ReadBack, LoadEnds, NEW rows, rows = file[job.path]
  PROVE  /\ ObjectsBack(rows, {})'
         /\ \A i \in Live : RelationsBack(i, rows)' /\ HandlersBack(i, rows)'
         /\ Live' = Live
<1>1. CASE LoadNothing
  <2>1. /\ UNCHANGED <<relations, objects, registered, fields>> /\ Live' = Live
        /\ job.kind = "loading" /\ job.rows = {} /\ job.todo = {}
    BY <1>1 DEF LoadNothing, memory, graph, Live
  <2>2. /\ ObjectsBack(rows, {})
        /\ \A i \in Live : RelationsBack(i, rows) /\ HandlersBack(i, rows)
    BY <2>1 DEF ReadBack
  <2>3. QED
    BY <2>1, <2>2 DEF ObjectsBack, RelationsBack, HandlersBack, MayHold
<1>2. CASE \E o \in Object : job.todo = {o} /\ LoadObject(o)
  <2>1. PICK o \in Object : job.todo = {o} /\ LoadObject(o)
    BY <1>2
  <2>2. Live' = Live /\ Live \ (job.todo \ {o}) = Live
    BY <2>1 DEF LoadObject, Live
  <2>3. QED
    BY <2>1, <2>2, LoadObjectBack
<1>3. QED
  BY <1>1, <1>2 DEF LoadEnds

(* When a load ends, every object has the stats, the equipment and the     *)
(* aspects it had when it was saved, as far as it has slots and stats for  *)
(* them (HandlersRestored; loadFromDB of Stats.cpp, Equip.cpp and          *)
(* Aspects.cpp).                                                           *)
THEOREM HandlersComeBack == IdsFit => (Spec => HandlersRestored)
<1> SUFFICES ASSUME IdsFit PROVE Spec => HandlersRestored
  OBVIOUS
<1> DEFINE Back ==
      LoadEnds =>
       LET rows == file[job.path] IN
       \A o \in Live :
         LET f == fields'[o] IN
         /\ \A r \in rows.stats :
              r.id = o /\ r.type \in DOMAIN f.stats => f.stats[r.type] = r.value
         /\ \A s \in DOMAIN f.slots, item \in Live :
              f.slots[s] = item
                <=> [id |-> o, slot |-> s, item |-> item] \in rows.equip
         /\ \A a \in Aspect :
              MayHold(o, a) =>
                (f.aspects[a.saveKey] = a <=> AspectRow(o, a) \in rows.aspects)
<1>1. ASSUME IInv, ReadBack PROVE Back
  <2> SUFFICES ASSUME LoadEnds PROVE Back
    OBVIOUS
  <2>1. PICK rows : rows = file[job.path]
    OBVIOUS
  <2>2. /\ Live' = Live /\ \A o \in Live : HandlersBack(o, rows)'
    BY <1>1, <2>1, LoadEndsBack
  <2>3. \A o \in Live, a \in Aspect : MayHold(o, a) => MayHold(o, a)'
    <3>1. CASE LoadNothing
      BY <3>1 DEF LoadNothing, memory, MayHold
    <3>2. CASE \E o \in Object : LoadObject(o)
      <4>1. PICK o \in Object : LoadObject(o)
        BY <3>2
      <4>2. /\ MemoryInv /\ RowsOK(file[job.path]) /\ o \in Live /\ LoadFields(o)
            /\ objects' = objects /\ Live \subseteq Object
            /\ \A k \in SaveKeys : fields[o].aspects[k] = Nothing
        BY <1>1, <4>1 DEF LoadObject, IInv, JobOK, LoadingOK, FilesOK, MemoryInv, ObjectsOK
      <4>3. \A i \in Live : fields'[i].aspectSlots = fields[i].aspectSlots
        BY <4>2, LoadedFields
      <4>4. QED
        BY <4>2, <4>3 DEF MayHold
    <3>3. QED
      BY <3>1, <3>2 DEF LoadEnds
  <2>4. QED
    BY <2>1, <2>2, <2>3 DEF HandlersBack
<1>2. QED
  BY <1>1, BackInductive, PTL DEF HandlersRestored

-----------------------------------------------------------------------------
(* Store is implemented. *)

(* What Store sees of the memory: during a load, nothing yet. *)
AbsWorld == IF job.kind = "loading" THEN Kept(NoRows) ELSE World
(* What Store sees of the files. *)
AbsDisk == [p \in Path |-> Kept(file[p])]
(* The file that Store takes to be loading. *)
AbsLoading == IF job.kind = "loading" THEN job.path ELSE Nothing

(* The mapping, written out once. *)
LEMMA StoreIs ==
  /\ Abstract!Init <=> /\ AbsDisk = [p \in Path |-> Abstract!NoWorld]
                       /\ AbsWorld = Abstract!NoWorld
                       /\ registered = Type /\ AbsLoading = Nothing
  /\ [Abstract!Next]_Abstract!vars
       <=> Abstract!Next \/ UNCHANGED <<AbsDisk, AbsWorld, registered, AbsLoading>>
BY DEF Abstract!Init, Abstract!vars, AbsDisk, AbsWorld, AbsLoading

(* The relations and types of the objects in memory, as Store sees them. *)
LEMMA WorldIs ==
  /\ World = [objects |-> World.objects, relations |-> World.relations]
  /\ World.objects = {[id |-> o, type |-> objects[o]] : o \in Live}
  /\ \A r : r \in World.relations <=>
       \E o \in Live, k \in RelName :
         relations[o][k] # NoObject
           /\ r = [id |-> o, type |-> k, target |-> relations[o][k]]
BY DEF World

(* Nothing that a save or a load of Store is about has changed. *)
LEMMA StoreStutters ==
  ASSUME UNCHANGED <<relations, objects, registered, file>>,
         job.kind = "loading" <=> job'.kind = "loading", job'.path = job.path
           \/ job.kind # "loading"
  PROVE  [Abstract!Next]_Abstract!vars
<1>1. World' = World
  BY DEF World, Live
<1>2. UNCHANGED <<AbsDisk, AbsWorld, registered, AbsLoading>>
  BY <1>1 DEF AbsDisk, AbsWorld, AbsLoading
<1>3. QED
  BY <1>2, StoreIs

(* createObject. *)
LEMMA CreateRefines ==
  ASSUME IInv, job.kind = "idle", UNCHANGED <<file, job>>,
         NEW o \in Object \ Live, NEW t \in Type, Construct(o, t)
  PROVE  Abstract!Next
<1>1. /\ Live' = Live \cup {o} /\ objects'[o] = t
      /\ \A i \in Live : objects'[i] = objects[i]
  BY ConstructBlank DEF IInv
<1>2. /\ relations' = relations /\ registered' = registered /\ t \in registered
      /\ \A k \in RelName : relations[o][k] = NoObject
  BY DEF Construct, graph, IInv, MemoryInv, AmongLive
<1>3. World'.objects = World.objects \cup {[id |-> o, type |-> t]}
  BY <1>1, WorldIs DEF World
<1>4. World'.relations = World.relations
  BY <1>1, <1>2 DEF World
<1>5. AbsWorld' = [AbsWorld EXCEPT !.objects = @ \cup {[id |-> o, type |-> t]}]
  <2>1. World' = [World EXCEPT !.objects = @ \cup {[id |-> o, type |-> t]}]
    BY <1>3, <1>4, WorldIs DEF World
  <2>2. QED
    BY <2>1 DEF AbsWorld
<1>6. AbsLoading = Nothing /\ UNCHANGED <<AbsDisk, registered, AbsLoading>>
  BY <1>2 DEF AbsLoading, AbsDisk
<1>7. o \notin Abstract!Ids(AbsWorld)
  BY WorldIs DEF AbsWorld, Abstract!Ids
<1>8. Abstract!Create(o, t)
  BY <1>2, <1>5, <1>6, <1>7 DEF Abstract!Create, AbsWorld, AbsDisk, AbsLoading
<1>9. QED
  BY <1>8 DEF Abstract!Next

(* setRelation and clearRelation. *)
LEMMA RelateRefines ==
  ASSUME IInv, job.kind = "idle", UNCHANGED <<file, job>>,
         NEW o \in Live, NEW k \in RelName, Relate(o, k)
  PROVE  Abstract!Next
<1>1. /\ o \in Object /\ UNCHANGED <<objects, registered>> /\ Live' = Live
      /\ NoObject \notin Live
  BY NullIsNoObject DEF Relate, IInv, MemoryInv, ObjectsOK, Live
<1>2. PICK v \in Live \cup {NoObject} : SetRelation(o, k, v)
  BY DEF Relate
<1>3. PICK w \in Live \cup {NoObject} :
        \A p \in Object, l \in RelName :
          relations'[p][l] = IF p = o /\ l = k THEN w ELSE relations[p][l]
  <2>1. \/ relations' = relations /\ relations[o][k] = NoObject
        \/ relations' = [relations EXCEPT ![o][k] = NoObject]
        \/ relations' = [relations EXCEPT ![o][k] = v]
    BY <1>2 DEF SetRelation, ClearRelation, Link, Relink, graph
  <2>2. PICK w \in Live \cup {NoObject} :
          \/ relations' = relations /\ relations[o][k] = w
          \/ relations' = [relations EXCEPT ![o][k] = w]
    BY <2>1
  <2>3. relations \in [Object -> [RelName -> Object \cup {NoObject}]]
    BY DEF IInv, MemoryInv, GraphInv, RelationsTypeOK
  <2>4. \A p \in Object, l \in RelName :
          relations'[p][l] = IF p = o /\ l = k THEN w ELSE relations[p][l]
    BY <1>1, <2>2, <2>3
  <2>5. QED
    BY <2>4
<1> DEFINE new == IF w = NoObject THEN {} ELSE {[id |-> o, type |-> k, target |-> w]}
           kept == {r \in World.relations : r.id # o \/ r.type # k}
<1>4. World'.objects = World.objects
  BY <1>1 DEF World
<1>5. World'.relations = kept \cup new
  <2>1. Live \subseteq Object
    BY DEF IInv, MemoryInv, ObjectsOK
  <2>2. \A r : r \in World'.relations <=>
          \E p \in Live, l \in RelName :
            relations'[p][l] # NoObject
              /\ r = [id |-> p, type |-> l, target |-> relations'[p][l]]
    BY <1>1 DEF World
  <2>3. ASSUME NEW r \in World'.relations PROVE r \in kept \cup new
    <3>1. PICK p \in Live, l \in RelName :
            relations'[p][l] # NoObject
              /\ r = [id |-> p, type |-> l, target |-> relations'[p][l]]
      BY <2>2
    <3>2. CASE p = o /\ l = k
      BY <1>1, <1>3, <3>1, <3>2
    <3>3. CASE ~(p = o /\ l = k)
      <4>1. relations'[p][l] = relations[p][l]
        BY <1>3, <2>1, <3>3
      <4>2. r \in World.relations /\ r.id = p /\ r.type = l
        BY <3>1, <4>1, WorldIs
      <4>3. QED
        BY <3>3, <4>2
    <3>4. QED
      BY <3>2, <3>3
  <2>4. ASSUME NEW r \in kept PROVE r \in World'.relations
    <3>1. PICK p \in Live, l \in RelName :
            relations[p][l] # NoObject
              /\ r = [id |-> p, type |-> l, target |-> relations[p][l]]
      BY WorldIs
    <3>2. r.id = p /\ r.type = l
      BY <3>1
    <3>3. ~(p = o /\ l = k)
      BY <3>2
    <3>4. relations'[p][l] = relations[p][l]
      BY <1>3, <2>1, <3>3
    <3>5. QED
      BY <2>2, <3>1, <3>4
  <2>5. ASSUME NEW r \in new PROVE r \in World'.relations
    <3>1. w # NoObject /\ r = [id |-> o, type |-> k, target |-> w]
      OBVIOUS
    <3>2. relations'[o][k] = w
      BY <1>1, <1>3
    <3>3. QED
      BY <2>2, <3>1, <3>2
  <2>6. QED
    BY <2>3, <2>4, <2>5
<1>6. AbsWorld' = [AbsWorld EXCEPT !.relations = {r \in @ : r.id # o \/ r.type # k} \cup new]
  <2>1. World' = [World EXCEPT !.relations = {r \in @ : r.id # o \/ r.type # k} \cup new]
    BY <1>4, <1>5 DEF World
  <2>2. QED
    BY <2>1 DEF AbsWorld
<1>7. AbsLoading = Nothing /\ UNCHANGED <<AbsDisk, registered, AbsLoading>>
  BY <1>1 DEF AbsLoading, AbsDisk
<1>8. o \in Abstract!Ids(AbsWorld) /\ Abstract!Ids(AbsWorld) = Live
  <2>1. \A r \in World.objects : r.id \in Live
    BY WorldIs
  <2>2. \A p \in Live : [id |-> p, type |-> objects[p]] \in World.objects
    BY WorldIs
  <2>3. ASSUME NEW p \in Live PROVE p \in {r.id : r \in World.objects}
    <3>1. [id |-> p, type |-> objects[p]].id = p
      OBVIOUS
    <3>2. QED
      BY <2>2, <3>1
  <2>4. QED
    BY <2>1, <2>3 DEF AbsWorld, Abstract!Ids
<1>9. new \in {{}} \cup {{[id |-> o, type |-> k, target |-> u]} : u \in Abstract!Ids(AbsWorld)}
  BY <1>8
<1>10. Abstract!Relate(o, k)
  BY <1>6, <1>7, <1>8, <1>9 DEF Abstract!Relate, AbsWorld, AbsDisk, AbsLoading
<1>11. QED
  BY <1>1, <1>10 DEF Abstract!Next

(* The transaction of a save is committed. *)
LEMMA CommitRefines ==
  ASSUME IInv, Commit
  PROVE  Abstract!Next
<1> DEFINE p == job.path
<1>1. /\ job.kind = "saving" /\ job.todo = {} /\ job' = Idle
      /\ file' = [file EXCEPT ![p] = job.rows]
      /\ UNCHANGED <<relations, objects, registered>>
  BY DEF Commit, memory, graph
<1>2. /\ p \in Path /\ DOMAIN file = Path
      /\ job.rows = AddRows(file[p], Everything)
      /\ Live \cap Ids(file[p]) = {}
  BY <1>1, SavedAll DEF IInv, FilesOK
<1>3. World' = World
  BY <1>1 DEF World, Live
<1>4. Everything.objects = World.objects /\ Everything.relations = World.relations
  <2>1. \A r : r \in Everything.relations <=> r \in World.relations
    BY EverythingIs, WorldIs
  <2>2. QED
    BY <2>1, EverythingIs, WorldIs
<1>5. Kept(job.rows) = [objects |-> file[p].objects \cup World.objects,
                        relations |-> file[p].relations \cup World.relations]
  BY <1>2, <1>4 DEF Kept, AddRows, Tables
<1>6. AbsDisk' = [AbsDisk EXCEPT ![p].objects = @ \cup World.objects,
                                 ![p].relations = @ \cup World.relations]
  <2>1. AbsDisk' = [q \in Path |-> IF q = p THEN Kept(job.rows) ELSE Kept(file[q])]
    BY <1>1, <1>2 DEF AbsDisk
  <2> DEFINE O == file[p].objects \cup World.objects
             R == file[p].relations \cup World.relations
             half == [objects |-> O, relations |-> file[p].relations]
             one == [AbsDisk EXCEPT ![p].objects = @ \cup World.objects]
             two == [one EXCEPT ![p].relations = @ \cup World.relations]
  <2>2. /\ AbsDisk = [q \in Path |-> AbsDisk[q]]
        /\ AbsDisk[p] = [objects |-> file[p].objects, relations |-> file[p].relations]
        /\ \A q \in Path : AbsDisk[q] = Kept(file[q])
    BY <1>2 DEF AbsDisk, Kept
  <2>3. [AbsDisk[p] EXCEPT !.objects = @ \cup World.objects] = half
    <3>1. [[objects |-> file[p].objects, relations |-> file[p].relations]
             EXCEPT !.objects = @ \cup World.objects] = half
      OBVIOUS
    <3>2. QED
      BY <2>2, <3>1, Zenon
  <2>4. one = [AbsDisk EXCEPT ![p] = half]
    BY <2>3
  <2>5. one = [q \in Path |-> one[q]] /\ one[p] = half
          /\ \A q \in Path \ {p} : one[q] = AbsDisk[q]
    BY <1>2, <2>2, <2>4
  <2> HIDE DEF one
  <2>6. [half EXCEPT !.relations = @ \cup World.relations]
          = [objects |-> O, relations |-> R]
    <3>1. \A a, b, y : [[objects |-> a, relations |-> b] EXCEPT !.relations = @ \cup y]
                        = [objects |-> a, relations |-> b \cup y]
      OBVIOUS
    <3>2. QED
      BY <3>1, Zenon
  <2>7. two = [one EXCEPT ![p] = Kept(job.rows)]
    BY <1>5, <2>5, <2>6
  <2>8. two = [q \in Path |-> IF q = p THEN Kept(job.rows) ELSE Kept(file[q])]
    BY <2>2, <2>5, <2>7
  <2>9. QED
    BY <2>1, <2>8 DEF one
<1>7. /\ AbsLoading = Nothing /\ AbsWorld = World
      /\ UNCHANGED <<AbsWorld, registered, AbsLoading>>
  BY <1>1, <1>3 DEF AbsLoading, AbsWorld, Idle
<1>8. Abstract!Ids(AbsWorld) \cap Abstract!Ids(AbsDisk[p]) = {}
  <2>1. \A r \in World.objects : r.id \in Live
    BY WorldIs
  <2>2. AbsDisk[p].objects = file[p].objects
    BY <1>2 DEF AbsDisk, Kept
  <2>3. \A r \in file[p].objects : r.id \notin Live
    BY <1>2 DEF Ids
  <2>4. QED
    BY <1>7, <2>1, <2>2, <2>3 DEF Abstract!Ids
<1>9. Abstract!Save(p)
  <2>1. /\ AbsDisk' = [AbsDisk EXCEPT ![p].objects = @ \cup AbsWorld.objects,
                                      ![p].relations = @ \cup AbsWorld.relations]
    BY <1>6, <1>7
  <2>2. QED
    BY <1>7, <1>8, <2>1 DEF Abstract!Save, AbsWorld, AbsDisk, AbsLoading
<1>10. QED
  BY <1>2, <1>9 DEF Abstract!Next

(* A load begins, of any file. *)
LEMMA BeginLoadRefines ==
  ASSUME IInv, NEW p \in Path, BeginLoad(p)
  PROVE  Abstract!Next
<1>1. /\ job.kind = "idle" /\ Live = {}
      /\ job'.kind = "loading" /\ job'.path = p
      /\ UNCHANGED <<file, registered>>
  BY DEF BeginLoad, Loading, memory
<1>2. AbsLoading = Nothing /\ AbsLoading' = p /\ UNCHANGED <<AbsDisk, registered>>
  BY <1>1 DEF AbsLoading, AbsDisk
<1>3. World = Abstract!NoWorld
  BY <1>1 DEF World, Abstract!NoWorld
<1>4. Kept(NoRows) = Abstract!NoWorld
  BY DEF Kept, NoRows, Tables, Abstract!NoWorld
<1>5. AbsWorld = Abstract!NoWorld /\ AbsWorld' = Abstract!NoWorld
  BY <1>1, <1>3, <1>4 DEF AbsWorld
<1>6. Abstract!StartLoading(p)
  BY <1>2, <1>5 DEF Abstract!StartLoading, AbsWorld, AbsDisk, AbsLoading
<1>7. QED
  BY <1>6 DEF Abstract!Next

(* A load ends with what Store calls Restored. *)
LEMMA LoadEndsRefines ==
  ASSUME IInv, ReadBack, LoadEnds
  PROVE  Abstract!Next
<1>1. PICK rows : rows = file[job.path]
  OBVIOUS
<1>2. /\ job.kind = "loading" /\ job' = Idle /\ UNCHANGED <<file, objects, registered>>
      /\ job.path \in Path /\ RowsOK(rows) /\ MemoryInv
  BY <1>1 DEF LoadEnds, LoadNothing, LoadObject, memory, IInv, JobOK, LoadingOK, FilesOK
<1>3. /\ ObjectsBack(rows, {})' /\ Live' = Live
      /\ \A o \in Live : RelationsBack(o, rows)'
  BY <1>1, LoadEndsBack
<1>4. NoObject \notin Live /\ Live \subseteq Object
  BY <1>2, NullIsNoObject DEF MemoryInv, ObjectsOK
<1> DEFINE back == {r \in rows.objects : r.type \in registered}
           ids == {r.id : r \in back}
           left == {r \in rows.relations : r.id \in ids /\ r.target \in ids}
<1>5. World'.objects = back
  <2>1. \A r \in [id : Object, type : Type] :
          r.id \in Live /\ objects[r.id] = r.type <=> r \in back
    BY <1>2, <1>3 DEF ObjectsBack
  <2>2. back \subseteq [id : Object, type : Type]
    BY <1>2 DEF RowsOK
  <2>3. World'.objects = {[id |-> o, type |-> objects[o]] : o \in Live}
    BY <1>2, <1>3 DEF World
  <2>4. {[id |-> o, type |-> objects[o]] : o \in Live} \subseteq [id : Object, type : Type]
    BY <1>2 DEF MemoryInv, ObjectsOK
  <2>5. \A r \in [id : Object, type : Type] :
          r \in {[id |-> o, type |-> objects[o]] : o \in Live}
            <=> r.id \in Live /\ objects[r.id] = r.type
    OBVIOUS
  <2>6. QED
    BY <2>1, <2>2, <2>3, <2>4, <2>5
<1>6. ids = Live
  <2>1. back = {[id |-> o, type |-> objects[o]] : o \in Live}
    BY <1>2, <1>3, <1>5 DEF World
  <2>2. ASSUME NEW o \in Live PROVE o \in ids
    <3>1. [id |-> o, type |-> objects[o]] \in back
      BY <2>1
    <3>2. QED
      BY <3>1
  <2>3. QED
    BY <2>1, <2>2
<1>7. World'.relations = left
  <2>1. \A r : r \in World'.relations <=>
          \E o \in Live, k \in RelName :
            relations'[o][k] # NoObject
              /\ r = [id |-> o, type |-> k, target |-> relations'[o][k]]
    BY <1>3 DEF World
  <2>2. \A o \in Live, k \in RelName : relations'[o][k] # NoObject => relations'[o][k] \in Live
    <3>1. MemoryInv'
      <4>1. LoadEnds => [Next]_vars
        BY DEF LoadEnds, Next
      <4>2. QED
        BY <4>1, NextInv DEF IInv
    <3>2. QED
      BY <1>3, <1>4, <3>1 DEF MemoryInv, AmongLive
  <2>3. \A o \in Live, k \in RelName, v \in Live :
          relations'[o][k] = v <=> [id |-> o, type |-> k, target |-> v] \in rows.relations
    BY <1>3 DEF RelationsBack
  <2>4. ASSUME NEW r \in World'.relations PROVE r \in left
    BY <1>6, <2>1, <2>2, <2>3
  <2>5. ASSUME NEW r \in left PROVE r \in World'.relations
    <3>1. /\ r = [id |-> r.id, type |-> r.type, target |-> r.target]
          /\ r.type \in RelName /\ r \in rows.relations
      BY <1>2 DEF RowsOK
    <3>2. r.id \in Live /\ r.target \in Live
      BY <1>6
    <3>3. relations'[r.id][r.type] = r.target
      BY <2>3, <3>1, <3>2
    <3>4. QED
      BY <1>4, <2>1, <3>1, <3>2, <3>3
  <2>6. QED
    BY <2>4, <2>5
<1> HIDE DEF back, ids, left
<1>8. AbsWorld' = [objects |-> back, relations |-> left]
  BY <1>2, <1>5, <1>7 DEF AbsWorld, World, Idle
<1>9. Abstract!Restored(AbsDisk[AbsLoading]) = [objects |-> back, relations |-> left]
  <2>1. AbsDisk[AbsLoading] = Kept(rows)
    BY <1>1, <1>2 DEF AbsDisk, AbsLoading
  <2>2. QED
    BY <2>1 DEF Abstract!Restored, Kept, back, ids, left
<1>10. /\ AbsLoading # Nothing /\ AbsLoading' = Nothing
       /\ UNCHANGED <<AbsDisk, registered>>
  BY <1>2, PersistenceAssumption DEF AbsLoading, AbsDisk, Idle
<1>11. Abstract!FinishLoading
  BY <1>8, <1>9, <1>10 DEF Abstract!FinishLoading, AbsWorld, AbsDisk, AbsLoading
<1>12. QED
  BY <1>11 DEF Abstract!Next

(* A crash of the program is a crash of Store. *)
LEMMA RestartRefines ==
  ASSUME Restart
  PROVE  Abstract!Next
<1>1. /\ objects' = Empty /\ registered' \in SUBSET Type /\ job' = Idle /\ file' = file
  BY DEF Restart
<1>2. Live' = {}
  BY <1>1 DEF Live, Empty
<1>3. World' = Abstract!NoWorld
  BY <1>2 DEF World, Abstract!NoWorld
<1>4. AbsWorld' = Abstract!NoWorld /\ AbsLoading' = Nothing /\ AbsDisk' = AbsDisk
  BY <1>1, <1>3 DEF AbsWorld, AbsLoading, AbsDisk, Idle
<1>5. Abstract!Restart
  BY <1>1, <1>4 DEF Abstract!Restart, AbsWorld, AbsDisk, AbsLoading
<1>6. QED
  BY <1>5 DEF Abstract!Next

(* What happens between two saves or loads. *)
LEMMA PlayRefines ==
  ASSUME IInv, job.kind = "idle", Play, UNCHANGED <<file, job>>
  PROVE  [Abstract!Next]_Abstract!vars
<1>1. CASE \E t \in Type : CreateWithNextId(t)
  BY <1>1, NextIdIsFree, CreateRefines DEF IInv
<1>2. CASE \E t \in Type, o \in Object : CreateWithId(o, t)
  BY <1>2, CreateRefines DEF CreateWithId
<1>3. CASE \E o \in Live, k \in RelName : Relate(o, k)
  BY <1>3, RelateRefines
<1>4. CASE UNCHANGED <<relations, objects, registered>>
  BY <1>4, StoreStutters
<1>5. QED
  BY <1>1, <1>2, <1>3, <1>4 DEF Play, SetStat, Unequip, Equip, SetAspect, graph

(* Every step of the program is a step of Store, or none at all to it. *)
LEMMA NextRefines ==
  ASSUME IInv, ReadBack, [Next]_vars
  PROVE  [Abstract!Next]_Abstract!vars
<1>1. CASE job.kind = "idle" /\ Play /\ UNCHANGED <<file, job>>
  BY <1>1, PlayRefines
<1>2. CASE \E p \in Path : BeginSave(p)
  BY <1>2, StoreStutters DEF BeginSave, memory, graph, Saving
<1>3. CASE \E p \in Path : BeginLoad(p)
  BY <1>3, BeginLoadRefines
<1>4. CASE \E o \in Object : SaveObject(o)
  BY <1>4, StoreStutters DEF SaveObject, memory, graph, Saving, Idle
<1>5. CASE \E o \in Object : LoadObject(o)
  <2>1. PICK o \in Object : LoadObject(o)
    BY <1>5
  <2>2. CASE job.todo = {o}
    BY <2>1, <2>2, LoadEndsRefines DEF LoadEnds
  <2>3. CASE job.todo # {o}
    <3>1. /\ job.kind = "loading" /\ job'.kind = "loading" /\ job'.path = job.path
          /\ UNCHANGED <<file, registered>>
      BY <2>1, <2>3 DEF LoadObject, Loading
    <3>2. UNCHANGED <<AbsDisk, AbsWorld, registered, AbsLoading>>
      BY <3>1 DEF AbsDisk, AbsWorld, AbsLoading, Kept, NoRows
    <3>3. QED
      BY <3>2, StoreIs
  <2>4. QED
    BY <2>2, <2>3
<1>6. CASE Commit
  BY <1>6, CommitRefines
<1>7. CASE LoadRow
  <2>1. /\ job.kind = "loading" /\ job'.kind = "loading" /\ job'.path = job.path
        /\ UNCHANGED <<file, registered>>
    BY <1>7 DEF LoadRow, Loading, Construct, memory
  <2>2. UNCHANGED <<AbsDisk, AbsWorld, registered, AbsLoading>>
    BY <2>1 DEF AbsDisk, AbsWorld, AbsLoading, Kept, NoRows
  <2>3. QED
    BY <2>2, StoreIs
<1>8. CASE LoadNothing
  BY <1>8, LoadEndsRefines DEF LoadEnds
<1>9. CASE Restart
  BY <1>9, RestartRefines
<1>10. CASE UNCHANGED vars
  BY <1>10, StoreStutters DEF vars, memory, graph
<1>11. QED
  BY <1>1, <1>2, <1>3, <1>4, <1>5, <1>6, <1>7, <1>8, <1>9, <1>10 DEF Next

(* Saves and loads of game.cpp, object by object and row by row, with      *)
(* crashes in between, keep what Store promises: a save puts the whole     *)
(* world into a file or leaves it, and a load brings back what the file    *)
(* holds (ImplementsStore).                                                *)
THEOREM StoreIsImplemented == IdsFit => (Spec => ImplementsStore)
<1> SUFFICES ASSUME IdsFit PROVE Spec => ImplementsStore
  OBVIOUS
<1>1. Init => Abstract!Init
  <2> SUFFICES ASSUME Init PROVE Abstract!Init
    OBVIOUS
  <2>1. /\ Live = {} /\ registered = Type /\ file = [p \in Path |-> NoRows]
        /\ job.kind = "idle"
    BY DEF Init, MemoryInit, Live, Empty, Idle
  <2>2. World = Abstract!NoWorld /\ Kept(NoRows) = Abstract!NoWorld
    BY <2>1 DEF World, Abstract!NoWorld, Kept, NoRows, Tables
  <2>3. QED
    BY <2>1, <2>2, StoreIs DEF AbsDisk, AbsWorld, AbsLoading
<1>2. IInv /\ ReadBack /\ [Next]_vars => [Abstract!Next]_Abstract!vars
  BY NextRefines
<1>3. QED
  BY <1>1, <1>2, BackInductive, PTL DEF Spec, ImplementsStore, Abstract!Spec

=============================================================================
