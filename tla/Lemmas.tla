------------------------------- MODULE Lemmas -------------------------------
(***************************************************************************)
(* Facts that the proofs share: about the lists that the models are built  *)
(* from, and about what the operators of Forests do when one object is put *)
(* in, or taken out of, another.                                           *)
(***************************************************************************)
EXTENDS Forests, SequencesExt, SequenceTheorems, FiniteSetTheorems,
        WellFoundedInduction, TLAPS

-----------------------------------------------------------------------------
(* Sequences. *)

(* push_back: the list gains the element, and nothing else changes. *)
LEMMA AppendLemma ==
  ASSUME NEW S, NEW s \in Seq(S), NEW e \in S
  PROVE  /\ Append(s, e) \in Seq(S)
         /\ ToSet(Append(s, e)) = ToSet(s) \cup {e}
         /\ IsInjective(s) /\ e \notin ToSet(s) => IsInjective(Append(s, e))
<1> DEFINE t == Append(s, e)
<1>1. /\ t \in Seq(S)
      /\ DOMAIN s = 1..Len(s)
      /\ DOMAIN t = 1..(Len(s) + 1)
      /\ Len(s) \in Nat
      /\ \A i \in 1..Len(s) : t[i] = s[i]
      /\ t[Len(s) + 1] = e
  OBVIOUS
<1> HIDE DEF t
<1>2. ToSet(t) = ToSet(s) \cup {e}
  <2>1. \A i \in 1..Len(s) : i \in 1..(Len(s) + 1)
    BY <1>1
  <2>2. Len(s) + 1 \in 1..(Len(s) + 1)
    BY <1>1
  <2>3. \A i \in 1..(Len(s) + 1) : i \in 1..Len(s) \/ i = Len(s) + 1
    BY <1>1
  <2>4. QED
    BY <1>1, <2>1, <2>2, <2>3 DEF ToSet
<1>3. IsInjective(s) /\ e \notin ToSet(s) => IsInjective(t)
  BY <1>1 DEF ToSet, IsInjective
<1>4. QED
  BY <1>1, <1>2, <1>3 DEF t

(* pop_back: the last element goes. *)
LEMMA FrontLemma ==
  ASSUME NEW S, NEW s \in Seq(S), s # <<>>
  PROVE  /\ Front(s) \in Seq(S)
         /\ Len(Front(s)) = Len(s) - 1
         /\ \A i \in 1 .. (Len(s) - 1) : Front(s)[i] = s[i]
<1>1. Len(s) \in Nat /\ Len(s) # 0 /\ DOMAIN s = 1 .. Len(s)
  BY EmptySeq
<1>2. \A i \in 1 .. (Len(s) - 1) : s[i] \in S
  BY <1>1
<1>3. 1 \in Int /\ Len(s) - 1 \in Int
  BY <1>1
<1>4. /\ SubSeq(s, 1, Len(s) - 1) \in Seq(S)
      /\ Len(SubSeq(s, 1, Len(s) - 1))
           = IF 1 <= Len(s) - 1 THEN (Len(s) - 1) - 1 + 1 ELSE 0
      /\ \A i \in 1 .. ((Len(s) - 1) - 1 + 1) :
           SubSeq(s, 1, Len(s) - 1)[i] = s[1 + i - 1]
  BY <1>2, <1>3, SubSeqProperties
<1>5. QED
  BY <1>1, <1>4 DEF Front

(* In a list without duplicates an element sits at one place only. *)
LEMMA RemoveFirstIsRemoveAt ==
  ASSUME NEW S, NEW s \in Seq(S), IsInjective(s), NEW i \in 1..Len(s)
  PROVE  RemoveFirst(s, s[i]) = RemoveAt(s, i)
<1>1. {j \in 1..Len(s) : s[j] = s[i]} = {i}
  BY DEF IsInjective
<1>2. Min({i}) = i
  BY DEF Min
<1>3. QED
  BY <1>1, <1>2 DEF RemoveFirst, SelectInSeq

(* Erasing one element: those before it stay where they are, and those     *)
(* after it move up by one place.                                          *)
LEMMA RemoveAtPlaces ==
  ASSUME NEW S, NEW s \in Seq(S), NEW i \in 1..Len(s)
  PROVE  /\ RemoveAt(s, i) \in Seq(S)
         /\ Len(RemoveAt(s, i)) = Len(s) - 1
         /\ \A j \in 1 .. (Len(s) - 1) :
              RemoveAt(s, i)[j] = s[IF j < i THEN j ELSE j + 1]
<1> DEFINE n == Len(s)
           t == RemoveAt(s, i)
           orig(j) == IF j < i THEN j ELSE j + 1
           before == SubSeq(s, 1, i - 1)
           after == SubSeq(s, i + 1, n)
<1>1. n \in Nat /\ i \in 1..n /\ DOMAIN s = 1..n
  OBVIOUS
<1>2. /\ before \in Seq(S)
      /\ Len(before) = i - 1
      /\ \A j \in 1..(i - 1) : before[j] = s[j]
  BY <1>1, SubSeqProperties
<1>3. /\ after \in Seq(S)
      /\ Len(after) = n - i
      /\ \A j \in 1..(n - i) : after[j] = s[j + i]
  <2>1. /\ 1 \in Int /\ i + 1 \in Int /\ n \in Int
        /\ \A j \in (i + 1)..n : s[j] \in S
    BY <1>1
  <2>2. /\ after \in Seq(S)
        /\ Len(after) = IF i + 1 <= n THEN n - (i + 1) + 1 ELSE 0
        /\ \A j \in 1..(n - (i + 1) + 1) : after[j] = s[(i + 1) + j - 1]
    BY <2>1, SubSeqProperties
  <2> HIDE DEF after, n
  <2>3. n - (i + 1) + 1 = n - i
    BY <1>1
  <2>4. Len(after) = n - i
    BY <1>1, <2>2
  <2>5. \A j \in 1..(n - i) : after[j] = s[j + i]
    <3> TAKE j \in 1..(n - i)
    <3>1. (i + 1) + j - 1 = j + i
      BY <1>1
    <3>2. QED
      BY <2>2, <2>3, <3>1
  <2>6. QED
    BY <2>2, <2>4, <2>5
<1>4. t = before \o after
  BY DEF before, after, RemoveAt
<1> HIDE DEF before, after, t, n
<1>5. /\ t \in Seq(S)
      /\ Len(t) = n - 1
      /\ \A j \in 1..(n - 1) :
           t[j] = IF j <= i - 1 THEN before[j] ELSE after[j - (i - 1)]
  <2>1. Len(before) + Len(after) = n - 1
    BY <1>1, <1>2, <1>3
  <2>2. /\ t \in Seq(S)
        /\ Len(t) = Len(before) + Len(after)
        /\ \A j \in 1..(Len(before) + Len(after)) :
             t[j] = IF j <= Len(before) THEN before[j]
                    ELSE after[j - Len(before)]
    BY <1>2, <1>3, <1>4, ConcatProperties
  <2>3. QED
    BY <1>2, <2>1, <2>2
<1>6. \A j \in 1..(n - 1) : t[j] = s[orig(j)]
  <2> TAKE j \in 1..(n - 1)
  <2>1. CASE j < i
    BY <1>1, <1>2, <1>5, <2>1
  <2>2. CASE ~(j < i)
    <3>1. j - (i - 1) \in 1..(n - i) /\ (j - (i - 1)) + i = j + 1
      BY <1>1, <2>2
    <3>2. QED
      BY <1>1, <1>3, <1>5, <2>2, <3>1
  <2>3. QED
    BY <2>1, <2>2
<1>7. QED
  BY <1>5, <1>6 DEF t, n

(* erase(find(e)): the list loses the element, and stays free of duplicates. *)
LEMMA RemoveFirstLemma ==
  ASSUME NEW S, NEW s \in Seq(S), NEW e, IsInjective(s)
  PROVE  /\ RemoveFirst(s, e) \in Seq(S)
         /\ ToSet(RemoveFirst(s, e)) = ToSet(s) \ {e}
         /\ IsInjective(RemoveFirst(s, e))
         /\ Len(RemoveFirst(s, e)) = Len(s) - (IF e \in ToSet(s) THEN 1 ELSE 0)
<1>1. CASE \A i \in 1..Len(s) : s[i] # e
  <2>1. RemoveFirst(s, e) = s
    BY <1>1 DEF RemoveFirst, SelectInSeq
  <2>2. e \notin ToSet(s)
    BY <1>1 DEF ToSet
  <2>3. QED
    BY <1>1, <2>1, <2>2
<1>2. CASE \E i \in 1..Len(s) : s[i] = e
  <2>1. PICK i \in 1..Len(s) : s[i] = e
    BY <1>2
  <2> DEFINE n == Len(s)
             t == RemoveAt(s, i)
             orig(j) == IF j < i THEN j ELSE j + 1
  <2>2. RemoveFirst(s, e) = t
    BY <2>1, RemoveFirstIsRemoveAt
  <2>3. n \in Nat /\ i \in 1..n /\ DOMAIN s = 1..n
    OBVIOUS
  <2>4. e \in ToSet(s)
    BY <2>1 DEF ToSet
  <2>5. t \in Seq(S) /\ Len(t) = n - 1 /\ \A j \in 1..(n - 1) : t[j] = s[orig(j)]
    BY RemoveAtPlaces
  <2>6. /\ t \in Seq(S)
        /\ Len(t) = n - 1
        /\ DOMAIN t = 1..(n - 1)
        /\ \A j \in 1..(n - 1) : t[j] = s[orig(j)]
    BY <2>5
  <2> HIDE DEF t
  <2>7. ToSet(t) = ToSet(s) \ {e}
    <3>1. \A j \in 1..(n - 1) : orig(j) \in 1..n /\ orig(j) # i
      BY <2>3
    <3>2. \A k \in 1..n : k # i => \E j \in 1..(n - 1) : orig(j) = k
      <4> TAKE k \in 1..n
      <4>1. k < i => k \in 1..(n - 1) /\ orig(k) = k
        BY <2>3
      <4>2. k > i => (k - 1) \in 1..(n - 1) /\ orig(k - 1) = k
        BY <2>3
      <4>3. QED
        BY <2>3, <4>1, <4>2
    <3>3. ToSet(t) = {s[orig(j)] : j \in 1..(n - 1)}
      BY <2>6 DEF ToSet
    <3>4. ToSet(s) = {s[k] : k \in 1..n}
      BY <2>3 DEF ToSet
    <3>5. \A k \in 1..n : s[k] = e <=> k = i
      BY <2>1, <2>3 DEF IsInjective
    <3> HIDE DEF orig, n
    <3>6. QED
      BY <3>1, <3>2, <3>3, <3>4, <3>5
  <2>8. IsInjective(t)
    BY <2>3, <2>6 DEF IsInjective
  <2>9. QED
    BY <2>2, <2>4, <2>6, <2>7, <2>8
<1>3. QED
  BY <1>1, <1>2

-----------------------------------------------------------------------------
(* Sets of numbers, and lists of the members of a set. *)

(* A set of numbers has a least one, which Min is. *)
LEMMA MinLemma ==
  ASSUME NEW S \in SUBSET Nat, S # {}
  PROVE  Min(S) \in S /\ \A y \in S : Min(S) <= y
<1> DEFINE T == {1..x : x \in S}
           R == StrictSubsetOrdering(Nat)
<1>1. T \subseteq FiniteSubsetsOf(Nat) /\ T # {}
  <2>1. \A x \in S : IsFiniteSet(1..x) /\ 1..x \subseteq Nat
    BY FS_Interval
  <2>2. QED
    BY <2>1 DEF FiniteSubsetsOf
<1>2. IsWellFoundedOn(R, FiniteSubsetsOf(Nat))
  BY FS_StrictSubsetOrderingWellFounded
<1> HIDE DEF R
<1>3. PICK U \in T : \A V \in T : ~(<<V, U>> \in R)
  BY <1>1, <1>2, WFMin
<1>4. PICK x \in S : U = 1..x
  OBVIOUS
<1>5. ASSUME NEW y \in S, y < x PROVE FALSE
  <2>1. 1..y \subseteq 1..x /\ x \in 1..x /\ x \notin 1..y /\ 1..x \subseteq Nat
    BY <1>5
  <2>2. <<1..y, 1..x>> \in R
    BY <2>1 DEF R, StrictSubsetOrdering
  <2>3. QED
    BY <1>3, <1>4, <2>2
<1>6. \A y \in S : x <= y
  BY <1>5
<1>7. QED
  BY <1>6 DEF Min

(* What SetToSeqs lists is the set, each of its members once. *)
LEMMA SetToSeqsCovers ==
  ASSUME NEW S, IsFiniteSet(S), NEW s \in SetToSeqs(S)
  PROVE  s \in Seq(S) /\ ToSet(s) = S /\ IsInjective(s)
<1> DEFINE n == Cardinality(S)
<1>1. n \in Nat
  BY FS_CardinalityType
<1> HIDE DEF n
<1>2. s \in [1..n -> S] /\ \A i, j \in 1..n : i # j => s[i] # s[j]
  BY DEF SetToSeqs, n
<1>3. s \in Injection(1..n, S) /\ IsInjective(s)
  BY <1>2 DEF Injection, IsInjective
<1>4. IsFiniteSet(1..n) /\ Cardinality(1..n) = n
  BY <1>1, FS_Interval
<1>5. s \in Surjection(1..n, S)
  BY <1>3, <1>4, FS_Injection DEF n
<1>6. ToSet(s) = S
  BY <1>2, <1>5 DEF ToSet, Surjection
<1>7. s \in Seq(S)
  BY <1>1, <1>2
<1>8. QED
  BY <1>3, <1>6, <1>7

-----------------------------------------------------------------------------
(* Forests. *)

(* An object is among those that enclose it, and so is its location, when  *)
(* it has one, for each object that is.                                    *)
LEMMA EnclosingClosed ==
  ASSUME NEW loc, NEW d \in DOMAIN loc
  PROVE  /\ d \in Enclosing(loc, d)
         /\ Closed(loc, Enclosing(loc, d))
BY DEF Enclosing, Closed

(* One step of moveTo's walk: what encloses d is d or encloses what d is in. *)
LEMMA EnclosingStep ==
  ASSUME NEW loc, NEW d \in DOMAIN loc, loc[d] \in DOMAIN loc
  PROVE  Enclosing(loc, d) \subseteq {d} \cup Enclosing(loc, loc[d])
<1> DEFINE T == {d} \cup Enclosing(loc, loc[d])
<1>1. loc[d] \in T /\ Closed(loc, Enclosing(loc, loc[d]))
  BY EnclosingClosed
<1>2. T \in SUBSET DOMAIN loc
  BY DEF Enclosing
<1>3. Closed(loc, T)
  BY <1>1 DEF Closed
<1>4. ASSUME NEW a \in Enclosing(loc, d) PROVE a \in T
  BY <1>2, <1>3, <1>4 DEF Enclosing
<1>5. QED
  BY <1>4

(* The end of the walk: what is nowhere is enclosed by itself only. *)
LEMMA EnclosingTop ==
  ASSUME NEW loc, NEW d \in DOMAIN loc, loc[d] \notin DOMAIN loc
  PROVE  Enclosing(loc, d) \subseteq {d}
<1>1. {d} \in SUBSET DOMAIN loc /\ Closed(loc, {d})
  BY DEF Closed
<1>2. QED
  BY <1>1 DEF Enclosing

(* Taking an object out of its location encloses nothing anew. *)
LEMMA EnclosingShrinks ==
  ASSUME NEW loc, NEW o \in DOMAIN loc, NEW out, out \notin DOMAIN loc,
         loc = [x \in DOMAIN loc |-> loc[x]], NEW d
  PROVE  Enclosing([loc EXCEPT ![o] = out], d) \subseteq Enclosing(loc, d)
<1> DEFINE new == [loc EXCEPT ![o] = out]
<1>1. DOMAIN new = DOMAIN loc
  OBVIOUS
<1>2. \A x \in DOMAIN loc : new[x] = IF x = o THEN out ELSE loc[x]
  OBVIOUS
<1>3. ASSUME NEW T \in SUBSET DOMAIN loc, Closed(loc, T)
      PROVE  Closed(new, T)
  BY <1>1, <1>2, <1>3 DEF Closed
<1> HIDE DEF new
<1>4. QED
  BY <1>1, <1>3 DEF Enclosing, new

(* Putting an object into one it does not enclose keeps a forest a forest. *)
LEMMA PutForest ==
  ASSUME NEW loc, loc = [x \in DOMAIN loc |-> loc[x]], IsForest(loc),
         NEW o \in DOMAIN loc, NEW dest \in DOMAIN loc,
         o \notin Enclosing(loc, dest)
  PROVE  IsForest([loc EXCEPT ![o] = dest])
<1> DEFINE new == [loc EXCEPT ![o] = dest]
<1>1. /\ DOMAIN new = DOMAIN loc
      /\ \A x \in DOMAIN loc : new[x] = IF x = o THEN dest ELSE loc[x]
  OBVIOUS
<1> HIDE DEF new
<1>2. SUFFICES ASSUME NEW S \in SUBSET DOMAIN loc, S # {},
                      \A x \in S : new[x] \in S
               PROVE  FALSE
  BY <1>1 DEF IsForest, new
<1>3. CASE o \notin S
  <2>1. \A x \in S : loc[x] \in S
    BY <1>1, <1>2, <1>3
  <2>2. QED
    BY <1>2, <2>1 DEF IsForest
<1>4. CASE o \in S
  <2> DEFINE R == S \cap Enclosing(loc, dest)
  <2>1. dest \in R /\ Closed(loc, Enclosing(loc, dest))
    BY <1>1, <1>2, <1>4, EnclosingClosed
  <2>2. ASSUME NEW x \in R PROVE loc[x] \in R
    BY <1>1, <1>2, <2>1, <2>2 DEF Closed
  <2>3. R \in SUBSET DOMAIN loc /\ R # {}
    BY <1>2, <2>1
  <2> HIDE DEF R
  <2>4. QED
    BY <2>2, <2>3 DEF IsForest
<1>5. QED
  BY <1>3, <1>4

(* Taking an object out keeps a forest a forest. *)
LEMMA TakeOutForest ==
  ASSUME NEW loc, loc = [x \in DOMAIN loc |-> loc[x]], IsForest(loc),
         NEW o \in DOMAIN loc, NEW out, out \notin DOMAIN loc
  PROVE  IsForest([loc EXCEPT ![o] = out])
<1> DEFINE new == [loc EXCEPT ![o] = out]
<1>1. /\ DOMAIN new = DOMAIN loc
      /\ \A x \in DOMAIN loc : new[x] = IF x = o THEN out ELSE loc[x]
  OBVIOUS
<1> HIDE DEF new
<1>2. SUFFICES ASSUME NEW S \in SUBSET DOMAIN loc, S # {},
                      \A x \in S : new[x] \in S
               PROVE  FALSE
  BY <1>1 DEF IsForest, new
<1>3. o \notin S
  BY <1>1, <1>2
<1>4. \A x \in S : loc[x] \in S
  BY <1>1, <1>2, <1>3
<1>5. QED
  BY <1>2, <1>4 DEF IsForest

(* Nothing is inside anything when everything is nowhere. *)
LEMMA NowhereForest ==
  ASSUME NEW loc, \A x \in DOMAIN loc : loc[x] \notin DOMAIN loc
  PROVE  IsForest(loc)
BY DEF IsForest

=============================================================================
