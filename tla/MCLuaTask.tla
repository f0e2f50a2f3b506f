----------------------------- MODULE MCLuaTask -----------------------------
(* LuaTask, driven by a game or by ktest, on a small instance. *)
EXTENDS Ktest
=============================================================================
