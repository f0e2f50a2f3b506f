---------------------------- MODULE MCCommands ----------------------------
(* Commands, and the relations they change: see MCCommands.cfg. *)
EXTENDS Commands

(* Every puppet is a player character. *)
Types == [h \in Puppet |-> <<"char", "player">>]

(* Two versions of a command for characters, a third for players, which    *)
(* takes precedence, and another command that is as urgent.                *)
Entries ==
  {[objType |-> "char", name |-> "look", priority |-> 0, matches |-> Input],
   [objType |-> "player", name |-> "look", priority |-> 1, matches |-> Input],
   [objType |-> "char", name |-> "get", priority |-> 1, matches |-> Input],
   [objType |-> "char", name |-> "look", priority |-> 2, matches |-> Input]}

(* The puppets are interchangeable, and so are the other objects and the   *)
(* inputs.                                                                 *)
Symmetry ==
  Permutations(Puppet) \cup Permutations(Object \ Puppet) \cup Permutations(Input)

=============================================================================
