---------------------------- MODULE MCPersistence ----------------------------
(* Persistence on small instances: see the MCPersistence*.cfg files. *)
EXTENDS Persistence

TwoIds == {0, 1}

(* The game asks whether item 1 is worn, and wears item 0 as it likes. *)
OneOfTwo == {1}

ASSUME InstanceIdsFit == IdsFit

(* The main type of an object is what cfg files call its type; every       *)
(* object has the same sub-type, or each type one of its own.              *)
TypeAndPlain == [t \in Type |-> <<t, "plain">>]

CharsAndItems == [char |-> <<"char", "plain">>, item |-> <<"item", "thing">>]

None == {}

AspectOf(objType, slotType, saveKey) ==
  [objType |-> objType, slotType |-> slotType, saveKey |-> saveKey]

(* Two aspects for the one kind of slot: an item may come to have both,    *)
(* and cannot be saved then.                                               *)
MagicSlot == {[objType |-> "item", name |-> "magic"]}

TwoMagics ==
  {AspectOf("item", "magic", "flame"), AspectOf("item", "magic", "frost")}

(* Strength is real; luck is real for chars and virtual for plain objects, *)
(* which takes precedence.                                                 *)
StrengthAndLuck ==
  {[objType |-> "char", name |-> "str", real |-> TRUE],
   [objType |-> "char", name |-> "luck", real |-> TRUE],
   [objType |-> "plain", name |-> "luck", real |-> FALSE]}

StrengthAndDexterity ==
  {[objType |-> "char", name |-> "str", real |-> TRUE],
   [objType |-> "plain", name |-> "dex", real |-> TRUE]}

OneHand == {[objType |-> "plain", name |-> "hand"]}

(* A slot and an aspect of the main type, and ones of the sub-type. *)
MagicAndPoisonSlots == MagicSlot \cup {[objType |-> "thing", name |-> "poison"]}

MagicAndPoison ==
  {AspectOf("item", "magic", "flame"), AspectOf("thing", "poison", "venom")}

=============================================================================
