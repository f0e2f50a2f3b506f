-------------------------- MODULE ContainmentProofs --------------------------
(* The abstract promise keeps the locations a forest, for any set of objects. *)
EXTENDS Containment, Lemmas

(* Every object is in an object or nowhere. *)
LocationOK == location \in [Object -> Object \cup {NoObject}]

(***************************************************************************)
(* Whatever is moved and deleted in whatever order, moveTo's walk up the   *)
(* locations ends (Object.cpp:276-284).                                    *)
(***************************************************************************)
THEOREM ForestInvariant == NowhereIsNoObject => (Spec => []Forest)
<1> SUFFICES ASSUME NowhereIsNoObject PROVE Spec => []Forest
  OBVIOUS
<1> USE DEF NowhereIsNoObject
<1> DEFINE IInv == LocationOK /\ Forest
<1>1. Init => IInv
  BY NowhereForest DEF Init, LocationOK, Forest
<1>2. IInv /\ [Next]_location => IInv'
  <2> SUFFICES ASSUME IInv, [Next]_location PROVE IInv'
    OBVIOUS
  <2>1. DOMAIN location = Object /\ location = [x \in Object |-> location[x]]
    BY DEF LocationOK
  <2>2. ASSUME NEW o \in Object, TakeOut(o) PROVE IInv'
    <3>1. LocationOK'
      BY <2>2 DEF TakeOut, LocationOK
    <3>2. IsForest([location EXCEPT ![o] = NoObject])
      BY <2>1, TakeOutForest DEF Forest
    <3>3. QED
      BY <2>2, <3>1, <3>2 DEF TakeOut, Forest
  <2>3. ASSUME NEW o \in Object, NEW dest \in Object, Put(o, dest) PROVE IInv'
    <3>1. LocationOK'
      BY <2>3 DEF Put, LocationOK
    <3>2. IsForest([location EXCEPT ![o] = dest])
      BY <2>1, <2>3, PutForest DEF Put, Forest
    <3>3. QED
      BY <2>3, <3>1, <3>2 DEF Put, Forest
  <2>4. CASE UNCHANGED location
    BY <2>4 DEF LocationOK, Forest
  <2>5. QED
    BY <2>2, <2>3, <2>4 DEF Next
<1>3. QED
  BY <1>1, <1>2, PTL DEF Spec

=============================================================================
