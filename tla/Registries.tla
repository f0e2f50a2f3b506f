------------------------------ MODULE Registries ------------------------------
(***************************************************************************)
(* The registries of the library (Commands.cpp, Stats.cpp, Equip.cpp,      *)
(* Aspects.cpp): maps from the name of a type to a map from names to       *)
(* entries.  Here a registry is the set of its entries, each of which says *)
(* for what type (objType) and under what name it is registered.           *)
(***************************************************************************)
EXTENDS Integers

Names(registry) == {e.name : e \in registry}

SameKey(e, f) == e.objType = f.objType /\ e.name = f.name

OneEntryPerKey(registry) ==
  \A e, f \in registry : SameKey(e, f) => e = f

(* registerCommand, registerStat and registerEquip refuse a second entry.  *)
RegisterNew(registry, e) ==
  IF \E f \in registry : SameKey(e, f) THEN registry ELSE registry \cup {e}

(***************************************************************************)
(* The entries that load() of a handler picks for an object: the types are *)
(* gone through in the order of getTypes(), and an entry takes the place   *)
(* of one of its name that an earlier type has brought in.                 *)
(***************************************************************************)
Merged(registry, types) ==
  {e \in registry :
     \E i \in DOMAIN types :
       /\ types[i] = e.objType
       /\ \A f \in registry, j \in DOMAIN types :
            f.name = e.name /\ types[j] = f.objType => j <= i}

=============================================================================
