---------------------------- MODULE Persistence ----------------------------
(***************************************************************************)
(* saveDatabase and loadDatabase (Database.cpp), with what the objects and *)
(* their handlers read and write, and restarts of the game.                *)
(*                                                                         *)
(* Neither waits for anything: only the death of the process comes between *)
(* two steps of a save or a load.  SQLite is external: a transaction is    *)
(* committed whole or not at all, and a row that would break a UNIQUE or   *)
(* PRIMARY KEY is refused.  The files are only written by the game.        *)
(***************************************************************************)
EXTENDS GameObjects

CONSTANTS
  Path,      \* the database files the game may use
  MaxInt32   \* the largest int; 2^31 - 1 in the code

(* getInt of a column: the low 32 bits, as a signed number. *)
AsInt(n) == ((n + MaxInt32 + 1) % (2 * (MaxInt32 + 1))) - (MaxInt32 + 1)

ASSUME PersistenceAssumption ==
  /\ MaxInt32 \in Nat /\ Nothing \notin Path
  /\ \A n \in Object : AsInt(n) \in Object

(* Every id fits in the int that a load reads it into: the code takes ids  *)
(* up to SIZE_MAX, and one beyond 2^31 - 1 comes back as another.          *)
IdsFit == \A n \in Object : AsInt(n) = n

VARIABLES
  file,   \* file[p]: the rows of each table
  job     \* the save or load that is under way

vars == <<memory, file, job>>

(* objects to do, and: rows in the transaction, or rows of "objects" to do *)
Idle == [kind |-> "idle", path |-> Nothing, todo |-> {}, rows |-> Empty]
Saving(p, todo, rows) == [kind |-> "saving", path |-> p, todo |-> todo, rows |-> rows]
Loading(p, todo, rows) == [kind |-> "loading", path |-> p, todo |-> todo, rows |-> rows]

(* The tables as createSchema makes them, and sets of rows for them. *)
Tables == {"objects", "strings", "relations", "stats", "equip", "aspects"}
NoRows == [t \in Tables |-> {}]
AddRows(a, b) == [t \in Tables |-> a[t] \cup b[t]]

Init == MemoryInit /\ file = [p \in Path |-> NoRows] /\ job = Idle

-----------------------------------------------------------------------------
(* saveDatabase. *)

(* The rows that the saveToDB of each handler of an object inserts, and    *)
(* those of the object itself with them.                                   *)
StatRows(o) ==
  LET stats == fields[o].stats IN
  {[id |-> o, type |-> s, value |-> stats[s]] :
     s \in {s \in DOMAIN stats : stats[s] # Nothing}}

EquipRows(o) ==
  {[id |-> o, slot |-> s, item |-> fields[o].slots[s]] : s \in Wearing(o)}

AspectRow(o, a) == [id |-> o, type |-> a.slotType, key |-> a.saveKey]

AspectRows(o) ==
  {AspectRow(o, a) :
     a \in {fields[o].aspects[k] : k \in SaveKeys} \ {Nothing}}

RowsOf(o) ==
  [objects |-> {[id |-> o, type |-> objects[o]]},
   strings |-> {[id |-> o, value |-> v] : v \in {fields[o].equippedAt} \ {Nothing}},
   relations |-> {[id |-> o, type |-> k, target |-> relations[o][k]] :
                    k \in {l \in RelName : relations[o][l] # NoObject}},
   stats |-> StatRows(o), equip |-> EquipRows(o), aspects |-> AspectRows(o)]

(***************************************************************************)
(* An insertion throws: the id has a row already; the statement for stats  *)
(* or for equipment, which is not reset, is executed a second time; or two *)
(* aspects are of one slot type.                                           *)
(***************************************************************************)
Throws(o, rows) ==
  LET mine == RowsOf(o) IN
  \/ \E r \in rows.objects : r.id = o
  \/ Cardinality(mine.stats) > 1
  \/ Cardinality(mine.equip) > 1
  \/ \E r, s \in mine.aspects : r # s /\ r.type = s.type

BeginSave(p) ==
  /\ job.kind = "idle"
  /\ job' = Saving(p, Live, file[p])
  /\ UNCHANGED <<memory, file>>

(* Mutant: without a transaction each row is there at once. *)
SaveObjectAtOnce(o) ==
  /\ job.kind = "saving" /\ o \in job.todo
  /\ IF Throws(o, job.rows) THEN job' = Idle /\ UNCHANGED file
     ELSE LET rows == AddRows(job.rows, RowsOf(o)) IN
          /\ job' = Saving(job.path, job.todo \ {o}, rows)
          /\ file' = [file EXCEPT ![job.path] = rows]
  /\ UNCHANGED memory

(* Objects are saved in the order of a hash table.  An exception leaves    *)
(* saveDatabase, and the Transaction rolls back on the way.                *)
SaveObject(o) ==
  /\ job.kind = "saving" /\ o \in job.todo
  /\ job' = IF Throws(o, job.rows) THEN Idle
            ELSE Saving(job.path, job.todo \ {o}, AddRows(job.rows, RowsOf(o)))
  /\ UNCHANGED <<memory, file>>

Commit ==
  /\ job.kind = "saving" /\ job.todo = {}
  /\ file' = [file EXCEPT ![job.path] = job.rows]
  /\ job' = Idle
  /\ UNCHANGED memory

-----------------------------------------------------------------------------
(* loadDatabase. *)

(* A game loads its database before there are objects.  In a file that has *)
(* never been saved to there is no table to select from, which throws and  *)
(* leaves as little behind as the tables of a save without objects.        *)
BeginLoad(p) ==
  /\ job.kind = "idle" /\ Live = {}
  /\ job' = Loading(p, {}, file[p].objects)
  /\ UNCHANGED <<memory, file>>

(* The next row of "objects", by id.  What createObject answers is ignored,*)
(* so that a type which is not registered or an id in use goes unnoticed.  *)
LoadRow ==
  /\ job.kind = "loading" /\ job.rows # {}
  /\ LET row == CHOOSE r \in job.rows : \A s \in job.rows : r.id <= s.id
         o == AsInt(row.id)
     IN /\ IF row.type \in registered /\ o \notin Live
           THEN Construct(o, row.type) /\ UNCHANGED lastInsertID
           ELSE UNCHANGED memory
        /\ job' = Loading(job.path, Live' , job.rows \ {row})
  /\ UNCHANGED file

(* Mutant: a relation is only found once its target has been loaded. *)
SavedRelationsIfLoaded(o) ==
  [k \in RelName |->
     LET saved == {r.target : r \in {r \in file[job.path].relations :
                                       r.id = o /\ r.type = k}} \cap (Live \ job.todo)
     IN IF saved = {} THEN NoObject ELSE CHOOSE v \in saved : TRUE]

(* What an object reads of the file; relations and items that are not (or  *)
(* not any more) among the objects are left out.                           *)
SavedRelations(o) ==
  [k \in RelName |->
     LET saved == {r.target : r \in {r \in file[job.path].relations :
                                       r.id = o /\ r.type = k}} \cap Live
     IN IF saved = {} THEN NoObject ELSE CHOOSE v \in saved : TRUE]

(* Mutant: an item is only found once it has been loaded itself. *)
SavedItemIfLoaded(o, s) ==
  LET saved == {r.item : r \in {r \in file[job.path].equip :
                                  r.id = o /\ r.slot = s}} \cap (Live \ job.todo)
  IN IF saved = {} THEN NoObject ELSE CHOOSE i \in saved : TRUE

SavedItem(o, s) ==
  LET saved == {r.item : r \in {r \in file[job.path].equip :
                                  r.id = o /\ r.slot = s}} \cap Live
  IN IF saved = {} THEN NoObject ELSE CHOOSE i \in saved : TRUE

SavedStats(o, old) ==
  [s \in DOMAIN old |->
     LET saved == {r.value : r \in {r \in file[job.path].stats :
                                      r.id = o /\ r.type = s}}
     IN IF old[s] = Nothing \/ saved = {} THEN old[s]
        ELSE CHOOSE v \in saved : TRUE]

SavedAspects(o, old) ==
  [k \in DOMAIN old |->
     LET saved == {a \in Aspect : /\ a.saveKey = k /\ MayHold(o, a)
                                  /\ AspectRow(o, a) \in file[job.path].aspects}
     IN IF saved = {} THEN old[k] ELSE CHOOSE a \in saved : TRUE]

(* Mutant: the relations are set without setRelation. *)
LinkOneWay(o, targets) ==
  /\ relations' = [relations EXCEPT ![o] = targets]
  /\ UNCHANGED reverseRelations

(* setRelation for each of the relations; none is in the way. *)
LinkAll(o, targets) ==
  /\ relations' = [relations EXCEPT ![o] = targets]
  /\ reverseRelations' =
       [v \in Object |-> [k \in RelName |->
          IF targets[k] = v THEN Append(reverseRelations[v][k], o)
          ELSE reverseRelations[v][k]]]

(* The handlers' loadFromDB: what equip() says reaches the items, too.  A  *)
(* file holds one slot per wearer at most, since a second one would throw  *)
(* in the save: told(i) has at most one member.                            *)
LoadFields(o) ==
  LET strings == {r.value : r \in {r \in file[job.path].strings : r.id = o}}
      worn == [s \in DOMAIN fields[o].slots |-> SavedItem(o, s)]
      told(i) == {s \in DOMAIN worn : worn[s] = i}
      mine == [fields EXCEPT
                 ![o].stats = SavedStats(o, @), ![o].slots = worn,
                 ![o].aspects = SavedAspects(o, @),
                 ![o].equippedAt = IF strings = {} THEN @ ELSE CHOOSE s \in strings : TRUE]
  IN fields' = [i \in Object |->
                  IF told(i) = {} THEN mine[i]
                  ELSE [mine[i] EXCEPT !.equippedAt = CHOOSE s \in told(i) : TRUE]]

LoadObject(o) ==
  /\ job.kind = "loading" /\ job.rows = {} /\ o \in job.todo
  /\ LinkAll(o, SavedRelations(o))
  /\ LoadFields(o)
  /\ job' = IF job.todo = {o} THEN Idle ELSE Loading(job.path, job.todo \ {o}, {})
  /\ UNCHANGED <<objects, lastInsertID, registered, file>>

(* No row was of a type that is registered. *)
LoadNothing ==
  /\ job.kind = "loading" /\ job.rows = {} /\ job.todo = {}
  /\ job' = Idle
  /\ UNCHANGED <<memory, file>>
-----------------------------------------------------------------------------

(* The process ends, at any point, and another one starts: what is left is *)
(* the files.  The new build may register other types.                     *)
Restart ==
  /\ relations' = [o \in Object |-> [k \in RelName |-> NoObject]]
  /\ reverseRelations' = [v \in Object |-> [k \in RelName |-> <<>>]]
  /\ objects' = Empty /\ lastInsertID' = 0
  /\ registered' \in SUBSET Type
  /\ fields' = [o \in Object |-> Blank]
  /\ job' = Idle
  /\ UNCHANGED file

Next ==
  \/ job.kind = "idle" /\ Play /\ UNCHANGED <<file, job>>
  \/ \E p \in Path : BeginSave(p) \/ BeginLoad(p)
  \/ \E o \in Object : SaveObject(o) \/ LoadObject(o)
  \/ Commit \/ LoadRow \/ LoadNothing
  \/ Restart

Spec == Init /\ [][Next]_vars

-----------------------------------------------------------------------------

Everything == [t \in Tables |-> UNION {RowsOf(o)[t] : o \in Live}]

(***************************************************************************)
(* A save adds the rows of every object to its file or changes nothing, at *)
(* whatever row it throws or the process ends (Database.cpp:105 and 121).  *)
(***************************************************************************)
AllOrNothing ==
  [][\A p \in Path :
       file'[p] # file[p] => file'[p] = AddRows(file[p], Everything)]_vars

(* The step that a load ends with. *)
LoadEnds == LoadNothing \/ \E o \in Object : job.todo = {o} /\ LoadObject(o)

(***************************************************************************)
(* Saves, loads and crashes are what Store allows: a load brings back the  *)
(* objects of the file whose types are registered with all the relations   *)
(* between them, although it takes many steps, of which a crash may be the *)
(* next, although objects are loaded in the order of a hash table and each *)
(* may point at any other, and although what createObject answers is       *)
(* ignored (Database.cpp:81-95, 105-121, Object.cpp:112-126).              *)
(***************************************************************************)
Kept(rows) == [objects |-> rows.objects, relations |-> rows.relations]

(* The objects there are and their relations, as they would be saved. *)
World ==
  [objects |-> {[id |-> o, type |-> objects[o]] : o \in Live},
   relations |->
     UNION {{[id |-> o, type |-> k, target |-> relations[o][k]] :
               k \in {l \in RelName : relations[o][l] # NoObject}} : o \in Live}]

Abstract == INSTANCE Store WITH
  disk <- [p \in Path |-> Kept(file[p])],
  world <- IF job.kind = "loading" THEN Kept(NoRows) ELSE World,
  known <- registered,
  loading <- IF job.kind = "loading" THEN job.path ELSE Nothing

ImplementsStore == Abstract!Spec

(***************************************************************************)
(* When a load is over, a handler that had loaded its stats, slots or slots*)
(* for aspects holds what the file has for them, whichever of the objects  *)
(* was loaded first (Stats.cpp:98-113, Equip.cpp:127-141,                  *)
(* Aspects.cpp:137-148).                                                   *)
(***************************************************************************)
HandlersRestored ==
  [][LoadEnds =>
       LET rows == file[job.path] IN
       \A o \in Live :
         LET f == fields'[o] IN
         /\ \A r \in rows.stats :
              r.id = o /\ r.type \in DOMAIN f.stats => f.stats[r.type] = r.value
         /\ \A s \in DOMAIN f.slots, item \in Live :
              f.slots[s] = item
                <=> [id |-> o, slot |-> s, item |-> item] \in rows.equip
         /\ \A a \in Aspect :
              MayHold(o, a) =>
                (f.aspects[a.saveKey] = a <=> AspectRow(o, a) \in rows.aspects)]_vars

-----------------------------------------------------------------------------
(* What a comment promises and the code does not keep.                     *)

(* Stats.h, of a RealStat: its base value is "stored persistently to the   *)
(* database".  No save is given up half-way.                               *)
SavesAreCompleted ==
  [][\A o \in Live : SaveObject(o) => job'.kind = "saving"]_vars

=============================================================================
