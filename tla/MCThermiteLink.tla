--------------------------- MODULE MCThermiteLink ---------------------------
(* ThermiteLink on small instances: see the MCThermiteLink*.cfg files. *)
EXTENDS ThermiteLink

(* Ids as Thermite gives them: small numbers. *)
SmallIds == {1, 2}

(* One id of each kind a JSON number can have when a signed number has     *)
(* three bits: -1 is cast to the connection id 7, which is a uint64.       *)
IdsOfAllKinds == {1, -1, 7}

OneId == {1}
=============================================================================
