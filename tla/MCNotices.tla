----------------------------- MODULE MCNotices -----------------------------
(* Notices and Sessions on a small instance: see MCNotices.cfg. *)
EXTENDS Sessions

(* The hooks that run before atDelete, or after moveTo, does its work. *)
AfterTheMove == PostHooks \cup {"atObjectDeleted"}

ASSUME InstanceIsFresh == NothingStale

(* The objects are interchangeable, and so are the sessions. *)
Symmetry == Permutations(Object) \cup Permutations(Session)
=============================================================================
