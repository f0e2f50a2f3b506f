--------------------------- MODULE RelationsProofs ---------------------------
(***************************************************************************)
(* Forward and reverse relations agree, for any set of objects and any set *)
(* of relation names.  Mirror is inductive once the types are known: the   *)
(* absence of duplicates is what makes erasing one occurrence enough.      *)
(***************************************************************************)
EXTENDS Relations, Lemmas

(* The inductive invariant of this module, and a part of Movement's. *)
GraphInv == RelationsTypeOK /\ Mirror

(* An object without relations points at nothing and is in no list. *)
LEMMA NoRelationsGraphInv == NoRelations => GraphInv
<1> SUFFICES ASSUME NoRelations PROVE GraphInv
  OBVIOUS
<1>1. RelationsTypeOK
  BY DEF NoRelations, RelationsTypeOK
<1>2. BackPointers
  BY NullIsNoObject DEF NoRelations, BackPointers, ToSet
<1>3. NoDuplicates
  BY DEF NoRelations, NoDuplicates, IsInjective
<1>4. QED
  BY <1>1, <1>2, <1>3 DEF GraphInv, Mirror

(* What the code of clearRelation does when there is something to clear. *)
LEMMA UnlinkGraphInv ==
  ASSUME GraphInv,
         NEW o \in Object, NEW k \in RelName, relations[o][k] # NoObject,
         ClearRelation(o, k)
  PROVE  GraphInv'
<1> DEFINE v == relations[o][k]
           was == reverseRelations[v][k]
<1>1. v \in Object
  BY DEF GraphInv, RelationsTypeOK
<1>2. /\ relations' = [relations EXCEPT ![o][k] = NoObject]
      /\ reverseRelations' =
           [reverseRelations EXCEPT ![v][k] = RemoveFirst(was, o)]
  BY DEF ClearRelation
<1>3. /\ was \in Seq(Object)
      /\ IsInjective(was)
  BY <1>1 DEF GraphInv, RelationsTypeOK, Mirror, NoDuplicates
<1>4. /\ RemoveFirst(was, o) \in Seq(Object)
      /\ ToSet(RemoveFirst(was, o)) = ToSet(was) \ {o}
      /\ IsInjective(RemoveFirst(was, o))
  BY <1>3, RemoveFirstLemma
<1>5. RelationsTypeOK'
  BY <1>1, <1>2, <1>4 DEF GraphInv, RelationsTypeOK
<1>6. BackPointers'
  <2> SUFFICES ASSUME NEW p \in Object, NEW w \in Object, NEW l \in RelName
               PROVE  relations'[p][l] = w
                        <=> p \in ToSet(reverseRelations'[w][l])
    BY DEF BackPointers
  <2>1. relations[p][l] = w <=> p \in ToSet(reverseRelations[w][l])
    BY DEF GraphInv, Mirror, BackPointers
  <2>2. relations'[p][l] = IF p = o /\ l = k THEN NoObject ELSE relations[p][l]
    BY <1>2 DEF GraphInv, RelationsTypeOK
  <2>3. reverseRelations'[w][l] = IF w = v /\ l = k THEN RemoveFirst(was, o)
                                  ELSE reverseRelations[w][l]
    BY <1>1, <1>2 DEF GraphInv, RelationsTypeOK
  <2>4. QED
    BY <1>4, <2>1, <2>2, <2>3, NullIsNoObject
<1>7. NoDuplicates'
  BY <1>1, <1>2, <1>4 DEF GraphInv, RelationsTypeOK, Mirror, NoDuplicates
<1>8. QED
  BY <1>5, <1>6, <1>7 DEF GraphInv, Mirror

(* clearRelation, whether or not the relation exists. *)
LEMMA ClearGraphInv ==
  ASSUME GraphInv, NEW o \in Object, NEW k \in RelName, ClearRelation(o, k)
  PROVE  GraphInv'
<1>1. CASE relations[o][k] = NoObject
  BY <1>1 DEF ClearRelation, graph, GraphInv, RelationsTypeOK, Mirror,
              BackPointers, NoDuplicates
<1>2. CASE relations[o][k] # NoObject
  BY <1>2, UnlinkGraphInv
<1>3. QED
  BY <1>1, <1>2

(* The part of setRelation that makes a relation where there is none. *)
LEMMA LinkGraphInv ==
  ASSUME GraphInv, NEW o \in Object, NEW k \in RelName, NEW v \in Object,
         relations[o][k] = NoObject,
         Link(o, k, v)
  PROVE  GraphInv'
<1> DEFINE was == reverseRelations[v][k]
<1>1. /\ relations' = [relations EXCEPT ![o][k] = v]
      /\ reverseRelations' = [reverseRelations EXCEPT ![v][k] = Append(was, o)]
  BY DEF Link
<1>2. /\ was \in Seq(Object)
      /\ IsInjective(was)
      /\ o \notin ToSet(was)
  BY NullIsNoObject DEF GraphInv, RelationsTypeOK, Mirror, NoDuplicates,
                        BackPointers
<1>3. /\ Append(was, o) \in Seq(Object)
      /\ ToSet(Append(was, o)) = ToSet(was) \cup {o}
      /\ IsInjective(Append(was, o))
  BY <1>2, AppendLemma
<1>4. RelationsTypeOK'
  BY <1>1, <1>3 DEF GraphInv, RelationsTypeOK
<1>5. BackPointers'
  <2> SUFFICES ASSUME NEW p \in Object, NEW w \in Object, NEW l \in RelName
               PROVE  relations'[p][l] = w
                        <=> p \in ToSet(reverseRelations'[w][l])
    BY DEF BackPointers
  <2>1. relations[p][l] = w <=> p \in ToSet(reverseRelations[w][l])
    BY DEF GraphInv, Mirror, BackPointers
  <2>2. relations'[p][l] = IF p = o /\ l = k THEN v ELSE relations[p][l]
    BY <1>1 DEF GraphInv, RelationsTypeOK
  <2>3. reverseRelations'[w][l] = IF w = v /\ l = k THEN Append(was, o)
                                  ELSE reverseRelations[w][l]
    BY <1>1 DEF GraphInv, RelationsTypeOK
  <2>4. QED
    BY <1>3, <2>1, <2>2, <2>3, NullIsNoObject
<1>6. NoDuplicates'
  BY <1>1, <1>3 DEF GraphInv, RelationsTypeOK, Mirror, NoDuplicates
<1>7. QED
  BY <1>4, <1>5, <1>6 DEF GraphInv, Mirror

(* The part of setRelation that replaces a relation: cleared, then linked. *)
LEMMA RelinkGraphInv ==
  ASSUME GraphInv, NEW o \in Object, NEW k \in RelName, NEW v \in Object,
         relations[o][k] # NoObject,
         Relink(o, k, v)
  PROVE  GraphInv'
<1> DEFINE old == relations[o][k]
           was == reverseRelations[old][k]
           mid == [reverseRelations EXCEPT ![old][k] = RemoveFirst(was, o)]
           now == mid[v][k]
<1>1. old \in Object
  BY DEF GraphInv, RelationsTypeOK
<1>2. /\ relations' = [relations EXCEPT ![o][k] = v]
      /\ reverseRelations' = [mid EXCEPT ![v][k] = Append(now, o)]
  BY DEF Relink
<1>3. /\ was \in Seq(Object)
      /\ IsInjective(was)
  BY <1>1 DEF GraphInv, RelationsTypeOK, Mirror, NoDuplicates
<1>4. /\ RemoveFirst(was, o) \in Seq(Object)
      /\ ToSet(RemoveFirst(was, o)) = ToSet(was) \ {o}
      /\ IsInjective(RemoveFirst(was, o))
  BY <1>3, RemoveFirstLemma
<1>5. \A w \in Object, l \in RelName :
        mid[w][l] = IF w = old /\ l = k THEN RemoveFirst(was, o)
                    ELSE reverseRelations[w][l]
  BY <1>1 DEF GraphInv, RelationsTypeOK
<1>6. mid \in [Object -> [RelName -> Seq(Object)]]
  BY <1>1, <1>4 DEF GraphInv, RelationsTypeOK
<1>7. /\ \A w \in Object, l \in RelName : IsInjective(mid[w][l])
      /\ \A p, w \in Object, l \in RelName :
           p \in ToSet(mid[w][l])
             <=> relations[p][l] = w /\ ~(p = o /\ l = k)
  <2>1. \A p, w \in Object, l \in RelName :
          relations[p][l] = w <=> p \in ToSet(reverseRelations[w][l])
    BY DEF GraphInv, Mirror, BackPointers
  <2>2. \A w \in Object, l \in RelName : IsInjective(reverseRelations[w][l])
    BY DEF GraphInv, Mirror, NoDuplicates
  <2> HIDE DEF mid
  <2>3. QED
    BY <1>4, <1>5, <2>1, <2>2
<1> HIDE DEF mid
<1>8. /\ now \in Seq(Object)
      /\ IsInjective(now)
      /\ o \notin ToSet(now)
  BY <1>6, <1>7
<1>9. /\ Append(now, o) \in Seq(Object)
      /\ ToSet(Append(now, o)) = ToSet(now) \cup {o}
      /\ IsInjective(Append(now, o))
  BY <1>8, AppendLemma
<1>10. /\ RelationsTypeOK'
       /\ \A p \in Object, l \in RelName :
            relations'[p][l] = IF p = o /\ l = k THEN v ELSE relations[p][l]
       /\ \A w \in Object, l \in RelName :
            reverseRelations'[w][l] = IF w = v /\ l = k THEN Append(now, o)
                                      ELSE mid[w][l]
  BY <1>2, <1>6, <1>9 DEF GraphInv, RelationsTypeOK
<1>11. BackPointers'
  BY <1>7, <1>9, <1>10 DEF BackPointers
<1>12. NoDuplicates'
  BY <1>7, <1>9, <1>10 DEF NoDuplicates
<1>13. QED
  BY <1>10, <1>11, <1>12 DEF GraphInv, Mirror

(* setRelation, whichever way the missing return falls. *)
LEMMA SetGraphInv ==
  ASSUME GraphInv, NEW o \in Object, NEW k \in RelName,
         NEW v \in Object \cup {NoObject}, SetRelation(o, k, v)
  PROVE  GraphInv'
BY ClearGraphInv, LinkGraphInv, RelinkGraphInv DEF SetRelation

(* Any call of either, or none. *)
LEMMA GraphKeeps ==
  ASSUME GraphInv, [RelationsNext]_graph
  PROVE  GraphInv'
<1>1. ASSUME NEW o \in Object, NEW k \in RelName, ClearRelation(o, k)
      PROVE  GraphInv'
  BY <1>1, ClearGraphInv
<1>2. ASSUME NEW o \in Object, NEW k \in RelName,
             NEW v \in Object \cup {NoObject}, SetRelation(o, k, v)
      PROVE  GraphInv'
  BY <1>2, SetGraphInv
<1>3. CASE UNCHANGED graph
  BY <1>3 DEF graph, GraphInv, RelationsTypeOK, Mirror, BackPointers,
              NoDuplicates
<1>4. QED
  BY <1>1, <1>2, <1>3 DEF RelationsNext

LEMMA GraphInductive == RelationsSpec => []GraphInv
<1>1. RelationsInit => GraphInv
  BY NoRelationsGraphInv DEF RelationsInit
<1>2. GraphInv /\ [RelationsNext]_graph => GraphInv'
  BY GraphKeeps
<1>3. QED
  BY <1>1, <1>2, PTL DEF RelationsSpec

(***************************************************************************)
(* Any sequence of calls of setRelation and clearRelation keeps the two    *)
(* maps of every object in agreement (Object.cpp:346-382).                 *)
(***************************************************************************)
THEOREM MirrorInvariant == RelationsSpec => [](RelationsTypeOK /\ Mirror)
BY GraphInductive, PTL DEF GraphInv

-----------------------------------------------------------------------------
(* The order of the lists. *)

(* Erasing an object leaves the others in their order: the places behind   *)
(* the gap move up together.                                               *)
LEMMA RemoveKeepsOrder ==
  ASSUME NEW S, NEW s \in Seq(S), IsInjective(s), NEW e,
         NEW p, NEW q, p # e, q # e
  PROVE  Precedes(RemoveFirst(s, e), p, q) <=> Precedes(s, p, q)
<1>1. CASE \A i \in 1..Len(s) : s[i] # e
  BY <1>1 DEF RemoveFirst, SelectInSeq
<1>2. CASE \E i \in 1..Len(s) : s[i] = e
  <2>1. PICK i \in 1..Len(s) : s[i] = e
    BY <1>2
  <2> DEFINE n == Len(s)
             t == RemoveAt(s, i)
             orig(j) == IF j < i THEN j ELSE j + 1
             moved(j) == IF j < i THEN j ELSE j - 1
  <2>2. RemoveFirst(s, e) = t
    BY <2>1, RemoveFirstIsRemoveAt
  <2>3. n \in Nat /\ i \in 1..n /\ DOMAIN s = 1..n
    OBVIOUS
  <2>4. t \in Seq(S) /\ Len(t) = n - 1 /\ \A j \in 1..(n - 1) : t[j] = s[orig(j)]
    BY RemoveAtPlaces
  <2>5. DOMAIN t = 1..(n - 1)
    BY <2>4
  <2> HIDE DEF t, n
  <2>6. /\ \A j \in 1..(n - 1) : orig(j) \in 1..n
        /\ \A j, k \in 1..(n - 1) : j <= k => orig(j) <= orig(k)
    BY <2>3
  <2>7. /\ \A j \in 1..n : j # i => moved(j) \in 1..(n - 1) /\ orig(moved(j)) = j
        /\ \A j, k \in 1..n : j # i /\ k # i /\ j <= k => moved(j) <= moved(k)
    BY <2>3
  <2> HIDE DEF orig, moved
  <2>8. Precedes(t, p, q) => Precedes(s, p, q)
    BY <2>3, <2>4, <2>5, <2>6 DEF Precedes
  <2>9. ASSUME Precedes(s, p, q) PROVE Precedes(t, p, q)
    <3>1. PICK j, k \in 1..n : j <= k /\ s[j] = p /\ s[k] = q
      BY <2>3, <2>9 DEF Precedes
    <3>2. j # i /\ k # i
      BY <2>1, <3>1
    <3>3. t[moved(j)] = p /\ t[moved(k)] = q
      BY <2>4, <2>7, <3>1, <3>2
    <3>4. QED
      BY <2>5, <2>7, <3>1, <3>2, <3>3 DEF Precedes
  <2>10. QED
    BY <2>2, <2>8, <2>9
<1>3. QED
  BY <1>1, <1>2

(* Putting an object at the end leaves the others in their order. *)
LEMMA AppendKeepsOrder ==
  ASSUME NEW S, NEW s \in Seq(S), NEW e \in S,
         NEW p, NEW q, p # e, q # e
  PROVE  Precedes(Append(s, e), p, q) <=> Precedes(s, p, q)
<1> DEFINE n == Len(s)
           t == Append(s, e)
<1>1. /\ n \in Nat /\ DOMAIN s = 1..n /\ DOMAIN t = 1..(n + 1)
      /\ \A j \in 1..n : t[j] = s[j]
      /\ t[n + 1] = e
  OBVIOUS
<1> HIDE DEF n, t
<1>2. \A j \in 1..(n + 1) : j \in 1..n \/ j = n + 1
  BY <1>1
<1>3. \A j \in 1..n : j \in 1..(n + 1)
  BY <1>1
<1>4. Precedes(t, p, q) <=> Precedes(s, p, q)
  BY <1>1, <1>2, <1>3 DEF Precedes
<1>5. QED
  BY <1>4 DEF t

LEMMA ClearMovesOne ==
  ASSUME GraphInv, NEW o \in Object, NEW k \in RelName, ClearRelation(o, k)
  PROVE  OthersStay(o)
<1>1. CASE relations[o][k] = NoObject
  BY <1>1 DEF ClearRelation, graph, OthersStay
<1>2. CASE relations[o][k] # NoObject
  <2> DEFINE w == relations[o][k]
  <2>1. w \in Object
    BY <1>2 DEF GraphInv, RelationsTypeOK
  <2>2. \A v \in Object, l \in RelName :
          reverseRelations'[v][l] = IF v = w /\ l = k
                                    THEN RemoveFirst(reverseRelations[w][k], o)
                                    ELSE reverseRelations[v][l]
    BY <1>2, <2>1 DEF ClearRelation, GraphInv, RelationsTypeOK
  <2>3. reverseRelations[w][k] \in Seq(Object) /\ IsInjective(reverseRelations[w][k])
    BY <2>1 DEF GraphInv, RelationsTypeOK, Mirror, NoDuplicates
  <2>4. \A p, q \in Object \ {o} :
          Precedes(RemoveFirst(reverseRelations[w][k], o), p, q)
            <=> Precedes(reverseRelations[w][k], p, q)
    BY <2>3, RemoveKeepsOrder
  <2>5. QED
    BY <2>2, <2>4 DEF OthersStay
<1>3. QED
  BY <1>1, <1>2

LEMMA LinkMovesOne ==
  ASSUME GraphInv, NEW o \in Object, NEW k \in RelName, NEW v \in Object,
         Link(o, k, v)
  PROVE  OthersStay(o)
<1>1. \A w \in Object, l \in RelName :
        reverseRelations'[w][l] = IF w = v /\ l = k
                                  THEN Append(reverseRelations[v][k], o)
                                  ELSE reverseRelations[w][l]
  BY DEF Link, GraphInv, RelationsTypeOK
<1>2. reverseRelations[v][k] \in Seq(Object)
  BY DEF GraphInv, RelationsTypeOK
<1>3. \A p, q \in Object \ {o} :
        Precedes(Append(reverseRelations[v][k], o), p, q)
          <=> Precedes(reverseRelations[v][k], p, q)
  BY <1>2, AppendKeepsOrder
<1>4. QED
  BY <1>1, <1>3 DEF OthersStay

LEMMA RelinkMovesOne ==
  ASSUME GraphInv, NEW o \in Object, NEW k \in RelName, NEW v \in Object,
         relations[o][k] # NoObject, Relink(o, k, v)
  PROVE  OthersStay(o)
<1> DEFINE old == relations[o][k]
           was == reverseRelations[old][k]
           mid == [reverseRelations EXCEPT ![old][k] = RemoveFirst(was, o)]
<1>1. old \in Object
  BY DEF GraphInv, RelationsTypeOK
<1>2. was \in Seq(Object) /\ IsInjective(was)
  BY <1>1 DEF GraphInv, RelationsTypeOK, Mirror, NoDuplicates
<1>3. RemoveFirst(was, o) \in Seq(Object)
  BY <1>2, RemoveFirstLemma
<1>4. /\ mid \in [Object -> [RelName -> Seq(Object)]]
      /\ \A w \in Object, l \in RelName :
           mid[w][l] = IF w = old /\ l = k THEN RemoveFirst(was, o)
                       ELSE reverseRelations[w][l]
  BY <1>1, <1>3 DEF GraphInv, RelationsTypeOK
<1>5. reverseRelations' = [mid EXCEPT ![v][k] = Append(mid[v][k], o)]
  BY DEF Relink
<1> HIDE DEF mid
<1>6. \A w \in Object, l \in RelName :
        reverseRelations'[w][l] = IF w = v /\ l = k THEN Append(mid[v][k], o)
                                  ELSE mid[w][l]
  BY <1>4, <1>5
<1>7. \A w \in Object, l \in RelName, p, q \in Object \ {o} :
        Precedes(mid[w][l], p, q) <=> Precedes(reverseRelations[w][l], p, q)
  <2>1. \A p, q \in Object \ {o} :
          Precedes(RemoveFirst(was, o), p, q) <=> Precedes(was, p, q)
    BY <1>2, RemoveKeepsOrder
  <2>2. QED
    BY <1>4, <2>1
<1>8. \A p, q \in Object \ {o} :
        Precedes(Append(mid[v][k], o), p, q) <=> Precedes(mid[v][k], p, q)
  <2>1. mid[v][k] \in Seq(Object)
    BY <1>4
  <2>2. QED
    BY <2>1, AppendKeepsOrder
<1>9. QED
  BY <1>6, <1>7, <1>8 DEF OthersStay

LEMMA OneMoves ==
  ASSUME GraphInv, RelationsNext
  PROVE  \E o \in Object : OthersStay(o)
BY ClearMovesOne, LinkMovesOne, RelinkMovesOne DEF RelationsNext, SetRelation

(***************************************************************************)
(* No call of setRelation or clearRelation reorders what a list holds of   *)
(* other objects: getContents() keeps the order of arrival                 *)
(* (Object.cpp:346-382).                                                   *)
(***************************************************************************)
THEOREM OrderOfArrival == RelationsSpec => OnlyOneMoves
<1>1. GraphInv /\ [RelationsNext]_graph => [\E o \in Object : OthersStay(o)]_graph
  BY OneMoves
<1>2. QED
  BY <1>1, GraphInductive, PTL DEF RelationsSpec, OnlyOneMoves

=============================================================================
