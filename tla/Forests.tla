------------------------------- MODULE Forests -------------------------------
(***************************************************************************)
(* Who is inside whom, for a function loc that gives each object either    *)
(* the object it is in or a value outside its own domain.  Reachability is *)
(* written as a smallest closed set, which needs no recursion.             *)
(***************************************************************************)

(* T holds, with every object, the object it is in. *)
Closed(loc, T) == \A o \in T : loc[o] \in DOMAIN loc => loc[o] \in T

(* d itself, the object it is in, the object that one is in, and so on. *)
Enclosing(loc, d) ==
  {a \in DOMAIN loc :
     \A T \in SUBSET DOMAIN loc : d \in T /\ Closed(loc, T) => a \in T}

(* No object is inside itself: every set of objects has an outermost one. *)
IsForest(loc) ==
  \A S \in SUBSET DOMAIN loc : S # {} => \E o \in S : loc[o] \notin S

=============================================================================
