------------------------------- MODULE Lemmas -------------------------------
(***************************************************************************)
(* Facts about the operators the models share: the version histories that  *)
(* PutRaw leaves behind (module Versions) and the lookups on the ring of   *)
(* nodes (module Ring), whichever of the orders an unstable sort produces. *)
(***************************************************************************)
EXTENDS Ring, Versions, FunctionTheorems, FiniteSetTheorems, SequenceTheorems, TLAPS

-----------------------------------------------------------------------------
(* Version histories *)

(* The element of a sequence after an insertion, by index. *)
LEMMA InsertAtElements ==
  ASSUME NEW es \in Seq(Entry), NEW e \in Entry, NEW i \in 1..(Len(es) + 1)
  PROVE  /\ InsertAt(es, i, e) \in Seq(Entry)
         /\ Len(InsertAt(es, i, e)) = Len(es) + 1
         /\ \A j \in 1..(Len(es) + 1) :
              InsertAt(es, i, e)[j] = IF j < i THEN es[j] ELSE IF j = i THEN e ELSE es[j - 1]
<1> DEFINE front == SubSeq(es, 1, i - 1)
           mid == front \o <<e>>
           back == SubSeq(es, i, Len(es))
<1>0. Len(es) \in Nat /\ i \in Nat /\ 1 <= i /\ i <= Len(es) + 1
  OBVIOUS
<1>1. /\ front \in Seq(Entry) /\ Len(front) = i - 1
      /\ \A j \in 1..(i - 1) : front[j] = es[j]
  OBVIOUS
<1>2. /\ back \in Seq(Entry) /\ Len(back) = Len(es) - i + 1
      /\ \A j \in 1..(Len(es) - i + 1) : back[j] = es[i + j - 1]
  OBVIOUS
<1>3. InsertAt(es, i, e) = mid \o back
  BY DEF InsertAt
<1> HIDE DEF front, back
<1>4. /\ mid \in Seq(Entry) /\ Len(mid) = i
      /\ \A j \in 1..i : mid[j] = IF j < i THEN es[j] ELSE e
  BY <1>0, <1>1
<1> HIDE DEF mid
<1>5. /\ mid \o back \in Seq(Entry)
      /\ Len(mid \o back) = Len(mid) + Len(back)
      /\ \A j \in 1..(Len(mid) + Len(back)) :
           (mid \o back)[j] = IF j <= Len(mid) THEN mid[j] ELSE back[j - Len(mid)]
  BY <1>2, <1>4, ConcatProperties
<1>6. Len(mid \o back) = Len(es) + 1 /\ Len(mid) + Len(back) = Len(es) + 1
  BY <1>0, <1>2, <1>4, <1>5
<1>7. ASSUME NEW j \in 1..(Len(es) + 1)
      PROVE  (mid \o back)[j] = IF j < i THEN es[j] ELSE IF j = i THEN e ELSE es[j - 1]
  <2>1. (mid \o back)[j] = IF j <= Len(mid) THEN mid[j] ELSE back[j - Len(mid)]
    BY <1>5, <1>6
  <2>2. CASE j <= i
    BY <2>1, <2>2, <1>0, <1>4
  <2>3. CASE j > i
    <3>1. j - i \in 1..(Len(es) - i + 1) /\ i + (j - i) - 1 = j - 1
      BY <2>3, <1>0
    <3>2. back[j - i] = es[j - 1]
      BY <3>1, <1>2
    <3>3. (mid \o back)[j] = back[j - i]
      BY <2>1, <2>3, <1>0, <1>4
    <3>4. ~(j < i) /\ j # i
      BY <2>3, <1>0
    <3> QED BY <3>2, <3>3, <3>4
  <2>4. j <= i \/ j > i
    BY <1>0
  <2> QED BY <2>2, <2>3, <2>4, Zenon
<1> QED
  BY <1>3, <1>5, <1>6, <1>7

(* What PutRaw writes back is a history. *)
LEMMA SortedInsertsType ==
  ASSUME NEW es \in History, NEW e \in Entry, NEW new \in SortedInserts(es, e)
  PROVE  /\ new \in History
         /\ Len(new) = Len(es) + 1
<1>1. PICK i \in 1..(Len(es) + 1) : new = InsertAt(es, i, e)
  BY DEF SortedInserts, Places
<1> QED
  <2>1. es \in Seq(Entry)
    BY DEF History
  <2> QED BY <1>1, <2>1, InsertAtElements DEF History

(* Whatever version the entry has, the history stays in ascending order. *)
LEMMA SortedInsertsAscending ==
  ASSUME NEW es \in History, NEW e \in Entry, NEW new \in SortedInserts(es, e),
         Ascending(es)
  PROVE  Ascending(new)
<1>1. PICK i \in Places(es, e) : new = InsertAt(es, i, e)
  BY DEF SortedInserts
<1>2. /\ i \in 1..(Len(es) + 1)
      /\ \A j \in 1..Len(es) : j < i  => es[j].ver <= e.ver
      /\ \A j \in 1..Len(es) : j >= i => e.ver <= es[j].ver
  BY DEF Places
<1>3. /\ Len(new) = Len(es) + 1 /\ new \in Seq(Entry)
      /\ \A j \in 1..(Len(es) + 1) :
           new[j] = IF j < i THEN es[j] ELSE IF j = i THEN e ELSE es[j - 1]
  <2>1. es \in Seq(Entry)
    BY DEF History
  <2>2. /\ InsertAt(es, i, e) \in Seq(Entry)
        /\ Len(InsertAt(es, i, e)) = Len(es) + 1
        /\ \A j \in 1..(Len(es) + 1) :
             InsertAt(es, i, e)[j] = IF j < i THEN es[j] ELSE IF j = i THEN e ELSE es[j - 1]
    BY <2>1, <1>2, InsertAtElements
  <2> QED BY <1>1, <2>2
<1>4. \A j \in 1..Len(es) : es[j] \in Entry /\ es[j].ver \in Nat
  <2>1. \A j \in 1..Len(es) : es[j] \in Entry
    BY DEF History
  <2> QED BY <2>1 DEF Entry
<1>5. e.ver \in Nat
  BY DEF Entry
<1>6. ASSUME NEW j \in 1..(Len(es) + 1), NEW k \in 1..(Len(es) + 1), j < k
      PROVE  new[j].ver <= new[k].ver
  <2>1. \A a, b \in 1..Len(es) : a < b => es[a].ver <= es[b].ver
    BY DEF Ascending, History
  <2>2. CASE k < i
    <3>1. new[j] = es[j] /\ new[k] = es[k] /\ j \in 1..Len(es) /\ k \in 1..Len(es)
      BY <2>2, <1>2, <1>3, <1>6
    <3> QED BY <3>1, <2>1, <1>6
  <2>3. CASE k = i
    <3>1. new[j] = es[j] /\ new[k] = e /\ j \in 1..Len(es) /\ j < i
      BY <2>3, <1>2, <1>3, <1>6
    <3> QED BY <3>1, <1>2
  <2>4. CASE k > i /\ j < i
    <3>1. new[j] = es[j] /\ new[k] = es[k - 1] /\ k - 1 \in 1..Len(es) /\ j \in 1..Len(es) /\ k - 1 >= i
      BY <2>4, <1>2, <1>3, <1>6
    <3>2. es[j].ver <= e.ver /\ e.ver <= es[k - 1].ver
      BY <3>1, <1>2, <2>4
    <3> QED BY <3>1, <3>2, <1>4, <1>5
  <2>5. CASE k > i /\ j = i
    <3>1. new[j] = e /\ new[k] = es[k - 1] /\ k - 1 \in 1..Len(es) /\ k - 1 >= i
      BY <2>5, <1>2, <1>3, <1>6
    <3> QED BY <3>1, <1>2
  <2>6. CASE k > i /\ j > i
    <3>1. new[j] = es[j - 1] /\ new[k] = es[k - 1] /\ j - 1 \in 1..Len(es)
          /\ k - 1 \in 1..Len(es) /\ j - 1 < k - 1
      BY <2>6, <1>2, <1>3, <1>6
    <3> QED BY <3>1, <2>1
  <2> QED BY <2>2, <2>3, <2>4, <2>5, <2>6, <1>2
<1> QED
  BY <1>3, <1>6 DEF Ascending

(* No entry of the history is lost. *)
LEMMA SortedInsertsKeep ==
  ASSUME NEW es \in History, NEW e \in Entry, NEW new \in SortedInserts(es, e)
  PROVE  ToSet(es) \subseteq ToSet(new)
<1>1. PICK i \in 1..(Len(es) + 1) : new = InsertAt(es, i, e)
  BY DEF SortedInserts, Places
<1>2. /\ Len(new) = Len(es) + 1 /\ new \in Seq(Entry)
      /\ \A j \in 1..(Len(es) + 1) :
           new[j] = IF j < i THEN es[j] ELSE IF j = i THEN e ELSE es[j - 1]
  <2>1. es \in Seq(Entry)
    BY DEF History
  <2>2. /\ InsertAt(es, i, e) \in Seq(Entry)
        /\ Len(InsertAt(es, i, e)) = Len(es) + 1
        /\ \A j \in 1..(Len(es) + 1) :
             InsertAt(es, i, e)[j] = IF j < i THEN es[j] ELSE IF j = i THEN e ELSE es[j - 1]
    BY <2>1, InsertAtElements
  <2> QED BY <1>1, <2>2
<1>3. ASSUME NEW j \in 1..Len(es) PROVE \E k \in 1..Len(new) : new[k] = es[j]
  <2>1. CASE j < i
    BY <2>1, <1>2
  <2>2. CASE j >= i
    <3>1. j + 1 \in 1..Len(new) /\ new[j + 1] = es[j]
      BY <2>2, <1>2
    <3> QED BY <3>1
  <2> QED BY <2>1, <2>2 DEF History
<1> QED
  <2>1. DOMAIN es = 1..Len(es) /\ DOMAIN new = 1..Len(new)
    BY <1>2, LenProperties DEF History
  <2> QED BY <2>1, <1>3 DEF ToSet

(* The newest version never goes back. *)
LEMMA SortedInsertsLatest ==
  ASSUME NEW es \in History, NEW e \in Entry, NEW new \in SortedInserts(es, e)
  PROVE  Latest(new).ver >= Latest(es).ver
<1>1. PICK i \in Places(es, e) : new = InsertAt(es, i, e)
  BY DEF SortedInserts
<1>2. /\ i \in 1..(Len(es) + 1)
      /\ \A j \in 1..Len(es) : j < i  => es[j].ver <= e.ver
  BY DEF Places
<1>3. /\ Len(new) = Len(es) + 1 /\ new \in Seq(Entry)
      /\ \A j \in 1..(Len(es) + 1) :
           new[j] = IF j < i THEN es[j] ELSE IF j = i THEN e ELSE es[j - 1]
  <2>1. es \in Seq(Entry)
    BY DEF History
  <2>2. /\ InsertAt(es, i, e) \in Seq(Entry)
        /\ Len(InsertAt(es, i, e)) = Len(es) + 1
        /\ \A j \in 1..(Len(es) + 1) :
             InsertAt(es, i, e)[j] = IF j < i THEN es[j] ELSE IF j = i THEN e ELSE es[j - 1]
    BY <2>1, <1>2, InsertAtElements
  <2> QED BY <1>1, <2>2
<1>4. Latest(new) = new[Len(es) + 1]
  BY <1>3 DEF Latest, Last, History
<1>5. e.ver \in Nat
  BY DEF Entry
<1>6. CASE es = <<>>
  <2>1. Latest(new) = e
    BY <1>2, <1>3, <1>4, <1>6
  <2> QED BY <2>1, <1>5, <1>6 DEF Latest, NoEntry
<1>7. CASE es # <<>>
  <2>1. Len(es) \in Nat \ {0} /\ Latest(es) = es[Len(es)] /\ es[Len(es)] \in Entry
    BY <1>7 DEF Latest, Last, History
  <2>2. es[Len(es)].ver \in Nat
    BY <2>1 DEF Entry
  <2>3. CASE i = Len(es) + 1
    <3>1. Latest(new) = e /\ es[Len(es)].ver <= e.ver
      BY <2>1, <2>3, <1>2, <1>3, <1>4
    <3> QED BY <3>1, <2>1, <2>2, <1>5
  <2>4. CASE i # Len(es) + 1
    <3>1. Latest(new) = es[Len(es)]
      BY <2>1, <2>4, <1>2, <1>3, <1>4
    <3> QED BY <3>1, <2>1, <2>2
  <2> QED BY <2>3, <2>4
<1> QED BY <1>6, <1>7

(* The entry PutRaw adds is an entry. *)
LEMMA NewEntryType ==
  ASSUME NEW es \in History, NEW val \in Nat, NEW version \in Nat \cup {NoVersion}
  PROVE  NewEntry(es, val, version) \in Entry
<1>1. NewVersion(es, version) \in Nat
  <2>1. CASE es = <<>>
    BY <2>1 DEF NewVersion
  <2>2. CASE es # <<>>
    <3>1. Last(es) \in Entry
      BY <2>2 DEF Last, History
    <3> QED BY <3>1, <2>2 DEF NewVersion, Entry
  <2> QED BY <2>1, <2>2
<1> QED BY <1>1 DEF NewEntry, Entry

(* What is written back, by index: the new entry stands at one of its      *)
(* places, everything from there on has moved up.                          *)
LEMMA InsertedAt ==
  ASSUME NEW es \in History, NEW e \in Entry, NEW new \in SortedInserts(es, e)
  PROVE  \E i \in Places(es, e) :
           /\ i \in 1..(Len(es) + 1)
           /\ new \in Seq(Entry) /\ Len(new) = Len(es) + 1
           /\ \A j \in 1..(Len(es) + 1) :
                new[j] = IF j < i THEN es[j] ELSE IF j = i THEN e ELSE es[j - 1]
<1>1. PICK i \in Places(es, e) : new = InsertAt(es, i, e)
  BY DEF SortedInserts
<1>2. i \in 1..(Len(es) + 1) /\ es \in Seq(Entry)
  BY DEF Places, History
<1>3. /\ InsertAt(es, i, e) \in Seq(Entry)
      /\ Len(InsertAt(es, i, e)) = Len(es) + 1
      /\ \A j \in 1..(Len(es) + 1) :
           InsertAt(es, i, e)[j] = IF j < i THEN es[j] ELSE IF j = i THEN e ELSE es[j - 1]
  BY <1>2, InsertAtElements
<1> QED BY <1>1, <1>2, <1>3

(* Nothing but the new entry is added, and it is. *)
LEMMA SortedInsertsAdd ==
  ASSUME NEW es \in History, NEW e \in Entry, NEW new \in SortedInserts(es, e)
  PROVE  ToSet(new) = ToSet(es) \cup {e}
<1>2. PICK i \in 1..(Len(es) + 1) :
        /\ Len(new) = Len(es) + 1 /\ new \in Seq(Entry)
        /\ \A j \in 1..(Len(es) + 1) :
             new[j] = IF j < i THEN es[j] ELSE IF j = i THEN e ELSE es[j - 1]
  BY InsertedAt
<1>3. DOMAIN es = 1..Len(es) /\ DOMAIN new = 1..Len(new) /\ Len(es) \in Nat
  BY <1>2, LenProperties DEF History
<1>4. ASSUME NEW j \in 1..Len(new) PROVE new[j] \in ToSet(es) \cup {e}
  <2>1. CASE j < i
    <3>1. j \in 1..Len(es) /\ new[j] = es[j]
      BY <2>1, <1>2, <1>3
    <3> QED BY <3>1, <1>3 DEF ToSet
  <2>2. CASE j = i
    BY <2>2, <1>2
  <2>3. CASE j > i
    <3>1. j - 1 \in 1..Len(es) /\ new[j] = es[j - 1]
      BY <2>3, <1>2, <1>3
    <3> QED BY <3>1, <1>3 DEF ToSet
  <2> QED BY <2>1, <2>2, <2>3, <1>3
<1>5. e \in ToSet(new)
  <2>1. i \in 1..Len(new) /\ new[i] = e
    BY <1>2, <1>3
  <2> QED BY <2>1, <1>3 DEF ToSet
<1>6. ToSet(new) \subseteq ToSet(es) \cup {e}
  BY <1>3, <1>4 DEF ToSet
<1> QED BY <1>5, <1>6, SortedInsertsKeep

(* An entry above all the others can only be put last. *)
LEMMA SortedInsertsLast ==
  ASSUME NEW es \in History, NEW e \in Entry, NEW new \in SortedInserts(es, e),
         \A i \in DOMAIN es : es[i].ver < e.ver
  PROVE  /\ Len(new) = Len(es) + 1
         /\ new[Len(es) + 1] = e
         /\ \A j \in 1..Len(es) : new[j] = es[j]
<1>3. PICK i \in Places(es, e) :
        /\ Len(new) = Len(es) + 1
        /\ \A j \in 1..(Len(es) + 1) :
             new[j] = IF j < i THEN es[j] ELSE IF j = i THEN e ELSE es[j - 1]
  BY InsertedAt
<1>2. /\ i \in 1..(Len(es) + 1)
      /\ \A j \in 1..Len(es) : j >= i => e.ver <= es[j].ver
  BY DEF Places
<1>4. DOMAIN es = 1..Len(es) /\ Len(es) \in Nat /\ e.ver \in Nat
  BY LenProperties DEF History, Entry
<1>5. \A j \in 1..Len(es) : es[j].ver \in Nat
  <2>1. \A j \in 1..Len(es) : es[j] \in Entry
    BY DEF History
  <2> QED BY <2>1 DEF Entry
<1>6. i = Len(es) + 1
  <2> SUFFICES ASSUME i # Len(es) + 1 PROVE FALSE
    OBVIOUS
  <2>1. i \in 1..Len(es)
    BY <1>2, <1>4
  <2>2. es[i].ver < e.ver /\ e.ver <= es[i].ver
    BY <2>1, <1>2, <1>4
  <2> QED BY <2>1, <2>2, <1>4, <1>5
<1> QED BY <1>3, <1>4, <1>6

(* The newest version is not below the new entry's.                        *)
LEMMA SortedInsertsReach ==
  ASSUME NEW es \in History, NEW e \in Entry, NEW new \in SortedInserts(es, e)
  PROVE  Latest(new).ver >= e.ver
<1>1. PICK i \in Places(es, e) :
        /\ i \in 1..(Len(es) + 1)
        /\ new \in Seq(Entry) /\ Len(new) = Len(es) + 1
        /\ \A j \in 1..(Len(es) + 1) :
             new[j] = IF j < i THEN es[j] ELSE IF j = i THEN e ELSE es[j - 1]
  BY InsertedAt
<1>2. Len(es) \in Nat /\ e.ver \in Nat /\ \A j \in 1..Len(es) : j >= i => e.ver <= es[j].ver
  <2>1. Len(es) \in Nat /\ e.ver \in Nat
    BY DEF History, Entry
  <2>2. \A j \in 1..Len(es) : j >= i => e.ver <= es[j].ver
    BY <1>1, Zenon DEF Places
  <2> QED BY <2>1, <2>2
<1>3. Latest(new) = new[Len(es) + 1]
  BY <1>1, <1>2 DEF Latest, Last
<1>4. CASE i = Len(es) + 1
  BY <1>1, <1>2, <1>3, <1>4
<1>5. CASE i # Len(es) + 1
  <2>1. Latest(new) = es[Len(es)] /\ Len(es) \in 1..Len(es) /\ Len(es) >= i
    BY <1>1, <1>2, <1>3, <1>5
  <2>2. es[Len(es)] \in Entry
    BY <2>1 DEF History
  <2> QED BY <2>1, <2>2, <1>2 DEF Entry
<1> QED BY <1>4, <1>5

(* No version in an ascending history is above the newest. *)
LEMMA LatestHighest ==
  ASSUME NEW es \in History, Ascending(es), NEW i \in DOMAIN es
  PROVE  es[i].ver <= Latest(es).ver /\ Latest(es) \in Entry /\ es[i] \in Entry
<1>1. DOMAIN es = 1..Len(es) /\ Len(es) \in Nat
  BY LenProperties DEF History
<1>2. es # <<>> /\ Latest(es) = es[Len(es)] /\ Len(es) \in DOMAIN es
  BY <1>1 DEF Latest, Last, History
<1>3. es[i] \in Entry /\ es[Len(es)] \in Entry
  BY <1>1, <1>2 DEF History
<1>4. i < Len(es) => es[i].ver <= es[Len(es)].ver
  BY <1>2 DEF Ascending
<1>5. i = Len(es) \/ i < Len(es)
  BY <1>1
<1> QED BY <1>2, <1>3, <1>4, <1>5 DEF Entry

(* What is read of a history is an entry. *)
LEMMA LatestType ==
  ASSUME NEW es \in History
  PROVE  Latest(es) \in Entry
<1>1. NoEntry \in Entry
  BY DEF NoEntry, Entry
<1>2. CASE es # <<>>
  BY <1>2 DEF Latest, Last, History
<1> QED BY <1>1, <1>2 DEF Latest

(* A value that is new to the history is in it once. *)
OneEach(es) == \A i, j \in DOMAIN es : es[i].val = es[j].val => i = j

LEMMA SortedInsertsOneEach ==
  ASSUME NEW es \in History, NEW e \in Entry, NEW new \in SortedInserts(es, e),
         OneEach(es), \A i \in DOMAIN es : es[i].val # e.val
  PROVE  OneEach(new)
<1>1. PICK i \in 1..(Len(es) + 1) :
        /\ new \in Seq(Entry) /\ Len(new) = Len(es) + 1
        /\ \A j \in 1..(Len(es) + 1) :
             new[j] = IF j < i THEN es[j] ELSE IF j = i THEN e ELSE es[j - 1]
  BY InsertedAt
<1>2. DOMAIN es = 1..Len(es) /\ DOMAIN new = 1..(Len(es) + 1) /\ Len(es) \in Nat
  BY <1>1, LenProperties DEF History
<1> DEFINE from(j) == IF j < i THEN j ELSE j - 1
<1>3. ASSUME NEW j \in DOMAIN new, j # i
      PROVE  from(j) \in DOMAIN es /\ new[j] = es[from(j)] /\ new[j].val # e.val
  <2>1. from(j) \in DOMAIN es /\ new[j] = es[from(j)]
    BY <1>1, <1>2, <1>3
  <2> QED BY <2>1
<1>4. new[i] = e
  BY <1>1, <1>2
<1>5. ASSUME NEW j \in DOMAIN new, NEW k \in DOMAIN new, new[j].val = new[k].val
      PROVE  j = k
  <2>1. CASE j = i \/ k = i
    BY <2>1, <1>3, <1>4, <1>5
  <2>2. CASE j # i /\ k # i
    <3>1. from(j) = from(k)
      <4> HIDE DEF from
      <4>1. /\ from(j) \in DOMAIN es /\ from(k) \in DOMAIN es
            /\ es[from(j)].val = es[from(k)].val
        BY <2>2, <1>3, <1>5
      <4> QED BY <4>1 DEF OneEach
    <3> QED BY <3>1, <2>2, <1>2
  <2> QED BY <2>1, <2>2
<1> QED BY <1>5 DEF OneEach

-----------------------------------------------------------------------------
(* The ring *)

(* A set of naturals has a least element: of the intervals that end in it, *)
(* one has no other inside.                                                *)
LEMMA LeastNatural ==
  ASSUME NEW S \in SUBSET Nat, S # {}
  PROVE  First(S) \in S /\ \A j \in S : First(S) <= j
<1> DEFINE T == {0..i : i \in S}
           R == StrictSubsetOrdering(Nat)
<1>1. T \subseteq FiniteSubsetsOf(Nat)
  <2> SUFFICES ASSUME NEW i \in S PROVE 0..i \in SUBSET Nat /\ IsFiniteSet(0..i)
    BY DEF FiniteSubsetsOf
  <2> QED BY FS_Interval
<1>2. T # {}
  OBVIOUS
<1>3. IsWellFoundedOn(R, FiniteSubsetsOf(Nat))
  BY FS_StrictSubsetOrderingWellFounded
<1>4. \E x \in T : \A y \in T : <<y, x>> \notin R
  <2> HIDE DEF T, R
  <2> QED BY <1>1, <1>2, <1>3, WFMin, Zenon
<1>5. PICK i \in S : \A j \in S : <<0..j, 0..i>> \notin R
  BY <1>4
<1>6. ASSUME NEW j \in S PROVE i <= j
  <2> SUFFICES ASSUME j < i PROVE FALSE
    OBVIOUS
  <2>1. 0..j \subseteq 0..i /\ 0..j # 0..i /\ 0..j \in SUBSET Nat /\ 0..i \in SUBSET Nat
    <3>1. i \in 0..i /\ i \notin 0..j
      OBVIOUS
    <3> QED BY <3>1
  <2> QED BY <2>1, <1>5 DEF StrictSubsetOrdering
<1> QED BY <1>6 DEF First

(* Different nodes are sorted by their place in the list.                  *)
LEMMA Listing ==
  ASSUME NEW S, IsFiniteSet(S), NEW nodes \in MapToArr(S)
  PROVE  /\ nodes \in Seq(S)
         /\ Len(nodes) = Cardinality(S) /\ Cardinality(S) \in Nat
         /\ DOMAIN nodes = 1..Cardinality(S)
         /\ \A i, j \in DOMAIN nodes : nodes[i] = nodes[j] => i = j
         /\ \A e \in S : \E i \in DOMAIN nodes : nodes[i] = e
<1> DEFINE D == 1..Cardinality(S)
<1>1. Cardinality(S) \in Nat
  BY FS_CardinalityType
<1>2. nodes \in [D -> S] /\ \A i, j \in D : nodes[i] = nodes[j] => i = j
  BY DEF MapToArr, SetToSeqs
<1>3. nodes \in Seq(S) /\ Len(nodes) = Cardinality(S)
  BY <1>1, <1>2
<1>4. nodes \in Injection(D, S)
  BY <1>2, Fun_IsInj
<1>5. IsFiniteSet(D) /\ Cardinality(D) = Cardinality(S)
  BY <1>1, FS_Interval
<1>6. nodes \in Surjection(D, S)
  BY <1>4, <1>5, FS_Injection
<1>7. \A e \in S : \E i \in D : nodes[i] = e
  BY <1>6 DEF Surjection
<1> QED BY <1>1, <1>2, <1>3, <1>7

(* A lookup stops at the first of the places where it may. *)
LEMMA FirstPlace ==
  ASSUME NEW S, IsFiniteSet(S), NEW nodes \in MapToArr(S),
         NEW found \in SUBSET (DOMAIN nodes), found # {}
  PROVE  First(found) \in found /\ \A j \in found : First(found) <= j
<1>1. found \in SUBSET Nat
  BY Listing
<1> QED BY <1>1, LeastNatural

(* A view holds one entry of a node. *)
LEMMA ViewFinite ==
  ASSUME NEW S \in SUBSET Node, \A d, e \in S : d.id = e.id => d = e
  PROVE  IsFiniteSet(S) /\ Cardinality(S) <= Cardinality(Ids)
<1> DEFINE idOf == [e \in S |-> e.id]
<1>1. idOf \in [S -> Ids]
  BY DEF Node
<1>2. \A d, e \in S : idOf[d] = idOf[e] => d = e
  OBVIOUS
<1> HIDE DEF idOf
<1>3. idOf \in Injection(S, Ids)
  BY <1>1, <1>2, Fun_IsInj
<1> QED BY <1>3, IdsAssumption, FS_Injection

(* helper.go's GetNode finds the owner, if there is one. *)
LEMMA GetNodeOwner ==
  ASSUME NEW S \in SUBSET Node, IsFiniteSet(S), NEW nodes \in Sorted(S), NEW token \in Nat
  PROVE  /\ GetNode(nodes, token) # None => IsOwner(S, token, GetNode(nodes, token))
         /\ GetNode(nodes, token) = None => \A e \in S : ~ Serves(e, token)
<1> DEFINE found == {i \in DOMAIN nodes : Serves(nodes[i], token)}
<1>0. nodes \in MapToArr(S) /\ Increasing(nodes)
  BY DEF Sorted
<1>1. /\ nodes \in Seq(S) /\ DOMAIN nodes = 1..Cardinality(S) /\ Cardinality(S) \in Nat
      /\ \A e \in S : \E i \in DOMAIN nodes : nodes[i] = e
  BY <1>0, Listing
<1>2. \A i \in DOMAIN nodes : nodes[i] \in S /\ nodes[i] \in Node
  BY <1>1
<1>3. CASE found = {}
  <2>1. GetNode(nodes, token) = None
    BY <1>3 DEF GetNode
  <2> QED BY <2>1, <1>1, <1>3
<1>4. CASE found # {}
  <2> DEFINE f == First(found)
  <2>1. f \in found /\ \A j \in found : f <= j
    BY <1>0, <1>4, FirstPlace
  <2>2. GetNode(nodes, token) = nodes[f]
    BY <1>4 DEF GetNode
  <2>3. nodes[f] \in Node /\ nodes[f] # None
    BY <1>2, <2>1, NoneAssumption
  <2> HIDE DEF f
  <2>4. ASSUME NEW other \in S, Serves(other, token) PROVE nodes[f].eokr <= other.eokr
    <3>1. PICK j \in DOMAIN nodes : nodes[j] = other
      BY <1>1
    <3>2. j \in found /\ f <= j /\ f \in DOMAIN nodes
      BY <3>1, <2>1, <2>4
    <3>3. nodes[j].eokr \in Nat /\ nodes[f].eokr \in Nat
      BY <1>2, <3>2, TotalSlotsAssumption DEF Node
    <3>4. CASE f = j
      BY <3>1, <3>3, <3>4
    <3>5. CASE f # j
      <4>1. f < j
        BY <3>2, <3>5, <1>1
      <4> QED BY <4>1, <3>1, <3>2, <1>0 DEF Increasing
    <3> QED BY <3>4, <3>5
  <2> QED BY <1>2, <2>1, <2>2, <2>3, <2>4 DEF IsOwner
<1> QED BY <1>3, <1>4

(* The source of a bootstrap: the list may come in any order. *)
LEMMA GetNodeByTokenAvailable ==
  ASSUME NEW S \in SUBSET Node, IsFiniteSet(S), NEW nodes \in MapToArr(S), NEW token \in Nat
  PROVE  /\ GetNodeByToken(nodes, token) # None =>
              /\ GetNodeByToken(nodes, token) \in S
              /\ GetNodeByToken(nodes, token).state = "AVAILABLE"
              /\ token <= GetNodeByToken(nodes, token).eokr
         /\ GetNodeByToken(nodes, token) = None =>
              ~ \E e \in S : e.state = "AVAILABLE" /\ token <= e.eokr
<1> DEFINE found == {i \in DOMAIN nodes : nodes[i].state = "AVAILABLE" /\ token <= nodes[i].eokr}
<1>1. /\ \A i \in DOMAIN nodes : nodes[i] \in S
      /\ \A e \in S : \E i \in DOMAIN nodes : nodes[i] = e
  BY Listing
<1>2. CASE found = {}
  <2>1. GetNodeByToken(nodes, token) = None
    BY <1>2 DEF GetNodeByToken
  <2> QED BY <2>1, <1>1, <1>2
<1>3. CASE found # {}
  <2> DEFINE f == First(found)
  <2>1. f \in found
    BY <1>3, FirstPlace
  <2>2. GetNodeByToken(nodes, token) = nodes[f]
    BY <1>3 DEF GetNodeByToken
  <2>3. nodes[f] # None
    BY <1>1, <2>1, NoneAssumption
  <2> QED BY <1>1, <2>1, <2>2, <2>3
<1> QED BY <1>2, <1>3

(* The entries of a view come out of the map in some order. *)
LEMMA SomeListing ==
  ASSUME NEW S, IsFiniteSet(S)
  PROVE  MapToArr(S) # {}
<1>1. PICK f : f \in Bijection(1..Cardinality(S), S)
  BY FS_CardinalityType DEF ExistsBijection
<1>2. f \in [1..Cardinality(S) -> S] /\ \A i, j \in 1..Cardinality(S) : f[i] = f[j] => i = j
  BY <1>1, Fun_IsBij, Fun_IsInj DEF Bijection, Injection, IsInjective
<1> QED BY <1>2 DEF MapToArr, SetToSeqs

(* Going around the ring once at most. *)
LEMMA ModOnce ==
  ASSUME NEW L \in Nat \ {0}, NEW x \in Nat, x < 2 * L
  PROVE  x % L = IF x < L THEN x ELSE x - L
<1>1. x % L \in 0..(L - 1)
  OBVIOUS
<1>2. x \div L \in Int /\ x = L * (x \div L) + (x % L)
  OBVIOUS
<1>3. x \div L \in {0, 1}
  <2> DEFINE q == x \div L
             r == x % L
  <2>1. q \in Int /\ r \in 0..(L - 1) /\ x = L * q + r
    BY <1>1, <1>2
  <2> HIDE DEF q, r
  <2>2. CASE q < 0
    <3>1. L * q <= L * (-1)
      BY <2>1, <2>2
    <3> QED BY <2>1, <3>1
  <2>3. CASE q > 1
    <3>1. L * q >= L * 2
      BY <2>1, <2>3
    <3> QED BY <2>1, <3>1
  <2> QED BY <2>1, <2>2, <2>3 DEF q
<1> QED BY <1>1, <1>2, <1>3

(* The places GetNNode takes, from f on, are places of the list, each one  *)
(* taken once.                                                             *)
Around(L, f, c) == ((f - 1 + (c - 1)) % L) + 1

LEMMA AroundPlaces ==
  ASSUME NEW L \in Nat \ {0}, NEW f \in 1..L, NEW c \in 1..L
  PROVE  /\ f + c - 1 <= L => Around(L, f, c) = f + c - 1
         /\ f + c - 1 > L => Around(L, f, c) = f + c - 1 - L
         /\ Around(L, f, c) \in 1..L
<1> DEFINE x == f - 1 + (c - 1)
           r == x % L
<1>1. x \in Nat /\ x < 2 * L /\ x = f + c - 2
  OBVIOUS
<1>2. Around(L, f, c) = r + 1
  BY DEF Around
<1> HIDE DEF x
<1>3. r = IF x < L THEN x ELSE x - L
  BY <1>1, ModOnce
<1> HIDE DEF r
<1> QED BY <1>1, <1>2, <1>3

LEMMA AroundOnce ==
  ASSUME NEW L \in Nat \ {0}, NEW f \in 1..L, NEW c \in 1..L, NEW d \in 1..L,
         Around(L, f, c) = Around(L, f, d)
  PROVE  c = d
<1>1. /\ f + c - 1 <= L => Around(L, f, c) = f + c - 1
      /\ f + c - 1 > L => Around(L, f, c) = f + c - 1 - L
  BY AroundPlaces
<1>2. /\ f + d - 1 <= L => Around(L, f, d) = f + d - 1
      /\ f + d - 1 > L => Around(L, f, d) = f + d - 1 - L
  BY AroundPlaces
<1>3. CASE f + c - 1 <= L /\ f + d - 1 <= L
  BY <1>1, <1>2, <1>3
<1>4. CASE f + c - 1 <= L /\ f + d - 1 > L
  BY <1>1, <1>2, <1>4
<1>5. CASE f + c - 1 > L /\ f + d - 1 <= L
  BY <1>1, <1>2, <1>5
<1>6. CASE f + c - 1 > L /\ f + d - 1 > L
  BY <1>1, <1>2, <1>6
<1> QED BY <1>3, <1>4, <1>5, <1>6

(* helper.go's GetNNode: as many different nodes as asked for, the owner   *)
(* that GetNode finds first.                                               *)
LEMMA GetNNodeOwner ==
  ASSUME NEW S \in SUBSET Node, IsFiniteSet(S), NEW nodes \in Sorted(S), NEW token \in Nat,
         NEW N \in Nat \ {0}, GetNNode(nodes, token, N) # None
  PROVE  /\ GetNNode(nodes, token, N) \in [1..N -> S]
         /\ GetNNode(nodes, token, N)[1] = GetNode(nodes, token)
         /\ IsOwner(S, token, GetNNode(nodes, token, N)[1])
         /\ \A i, j \in 1..N : GetNNode(nodes, token, N)[i] = GetNNode(nodes, token, N)[j] => i = j
<1> DEFINE found == {i \in DOMAIN nodes : Serves(nodes[i], token)}
           f == First(found)
           L == Len(nodes)
           chosen == [c \in 1..N |-> nodes[Around(L, f, c)]]
<1>1. nodes \in MapToArr(S)
  BY DEF Sorted
<1>2. /\ nodes \in Seq(S) /\ DOMAIN nodes = 1..L /\ L \in Nat
      /\ \A i, j \in DOMAIN nodes : nodes[i] = nodes[j] => i = j
  BY <1>1, Listing
<1>3. N <= L /\ found # {} /\ GetNNode(nodes, token, N) = chosen
  BY <1>2 DEF GetNNode, Around
<1>4. f \in found /\ f \in 1..L /\ L \in Nat \ {0}
  <2>1. f \in found
    <3> HIDE DEF found
    <3>1. found \in SUBSET (DOMAIN nodes)
      BY DEF found
    <3> QED BY <3>1, <1>1, <1>3, FirstPlace
  <2> QED BY <2>1, <1>2
<1>5. GetNode(nodes, token) = nodes[f] /\ nodes[f] \in Node
  BY <1>2, <1>3, <1>4 DEF GetNode
<1>6. GetNode(nodes, token) # None
  BY <1>5, NoneAssumption
<1> HIDE DEF f, L
<1>14. 1..N \subseteq 1..L
  BY <1>3, <1>4
<1>7. \A c \in 1..N : Around(L, f, c) \in 1..L
  <2>1. \A c \in 1..L : Around(L, f, c) \in 1..L
    BY <1>4, AroundPlaces
  <2> QED BY <2>1, <1>14
<1>9. \A i, j \in 1..N : Around(L, f, i) = Around(L, f, j) => i = j
  <2>1. \A i, j \in 1..L : Around(L, f, i) = Around(L, f, j) => i = j
    BY <1>4, AroundOnce
  <2> QED BY <2>1, <1>14
<1>8. Around(L, f, 1) = f
  BY <1>4, AroundPlaces
<1>10. chosen \in [1..N -> S]
  <2>1. \A c \in 1..N : nodes[Around(L, f, c)] \in S
    BY <1>2, <1>7
  <2> QED BY <2>1
<1>11. chosen[1] = nodes[f]
  BY <1>8
<1>12. \A i, j \in 1..N : chosen[i] = chosen[j] => i = j
  BY <1>2, <1>7, <1>9
<1>13. IsOwner(S, token, nodes[f])
  BY <1>5, <1>6, GetNodeOwner
<1> QED BY <1>3, <1>5, <1>10, <1>11, <1>12, <1>13

(* It finds them whenever there are enough nodes and one of them serves.   *)
LEMMA GetNNodeFinds ==
  ASSUME NEW S \in SUBSET Node, IsFiniteSet(S), NEW nodes \in Sorted(S), NEW token \in Nat,
         NEW N \in Nat \ {0}, N <= Cardinality(S), NEW e \in S, Serves(e, token)
  PROVE  GetNNode(nodes, token, N) # None
<1> DEFINE found == {i \in DOMAIN nodes : Serves(nodes[i], token)}
           L == Len(nodes)
           chosen == [c \in 1..N |-> nodes[Around(L, First(found), c)]]
<1>1. nodes \in MapToArr(S)
  BY DEF Sorted
<1>2. /\ nodes \in Seq(S) /\ DOMAIN nodes = 1..L /\ L \in Nat /\ L = Cardinality(S)
      /\ \A d \in S : \E i \in DOMAIN nodes : nodes[i] = d
  BY <1>1, Listing
<1>3. found # {} /\ ~(N > L)
  BY <1>2
<1>4. GetNNode(nodes, token, N) = chosen
  BY <1>3 DEF GetNNode, Around
<1>5. First(found) \in 1..L /\ L \in Nat \ {0}
  <2>1. First(found) \in found
    <3> HIDE DEF found
    <3>1. found \in SUBSET (DOMAIN nodes)
      BY DEF found
    <3> QED BY <3>1, <1>1, <1>3, FirstPlace
  <2> QED BY <2>1, <1>2
<1> HIDE DEF L, found
<1>6. \A c \in 1..N : Around(L, First(found), c) \in 1..L
  <2>1. \A c \in 1..L : Around(L, First(found), c) \in 1..L
    BY <1>5, AroundPlaces
  <2>2. 1..N \subseteq 1..L
    BY <1>2, <1>3
  <2> QED BY <2>1, <2>2
<1>7. \A c \in 1..N : nodes[Around(L, First(found), c)] \in Node
  BY <1>2, <1>6
<1>8. chosen \in Seq(Node)
  BY <1>7
<1> QED BY <1>4, <1>8, NoneAssumption

(* Of a part of the list, how many nodes there are. *)
LEMMA PartOfList ==
  ASSUME NEW S, IsFiniteSet(S), NEW nodes \in MapToArr(S),
         NEW K \in SUBSET (DOMAIN nodes), NEW T, T = {nodes[k] : k \in K}
  PROVE  Cardinality(T) = Cardinality(K)
<1> DEFINE g == [k \in K |-> nodes[k]]
<1>1. DOMAIN nodes = 1..Cardinality(S) /\ Cardinality(S) \in Nat
      /\ \A i, j \in DOMAIN nodes : nodes[i] = nodes[j] => i = j
  BY Listing
<1>2. IsFiniteSet(K)
  <2>1. IsFiniteSet(1..Cardinality(S)) /\ K \in SUBSET (1..Cardinality(S))
    BY <1>1, FS_Interval
  <2> QED BY <2>1, FS_Subset
<1>3. g \in [K -> T] /\ (\A a, b \in K : g[a] = g[b] => a = b)
  BY <1>1
<1>4. \A t \in T : \E k \in K : g[k] = t
  OBVIOUS
<1> HIDE DEF g
<1>5. g \in Bijection(K, T)
  BY <1>3, <1>4, Fun_IsBij
<1>6. ExistsBijection(K, T)
  BY <1>5 DEF ExistsBijection
<1> QED BY <1>2, <1>6, FS_Bijection

(* Where no two nodes have the same token, the nodes that GetNNode returns *)
(* follow one another on the ring and none is left out between them.       *)
LEMMA GetNNodeFollows ==
  ASSUME NEW S \in SUBSET Node, IsFiniteSet(S), \A d, e \in S : d.eokr = e.eokr => d = e,
         NEW nodes \in Sorted(S), NEW token \in Nat,
         NEW N \in Nat \ {0}, NEW chosen, chosen = GetNNode(nodes, token, N), chosen # None,
         NEW i \in 1..N
  PROVE  Distance(S, chosen[1], chosen[i]) = i - 1
<1> DEFINE found == {k \in DOMAIN nodes : Serves(nodes[k], token)}
           L == Cardinality(S)
           eokr(k) == nodes[k].eokr
<1>1. nodes \in MapToArr(S) /\ Increasing(nodes)
  BY DEF Sorted
<1>2. /\ nodes \in Seq(S) /\ DOMAIN nodes = 1..L /\ L \in Nat /\ Len(nodes) = L
      /\ \A k, l \in DOMAIN nodes : nodes[k] = nodes[l] => k = l
      /\ \A e \in S : \E k \in DOMAIN nodes : nodes[k] = e
  BY <1>1, Listing
<1>3. /\ N <= L /\ found # {}
      /\ chosen = [c \in 1..N |-> nodes[Around(L, First(found), c)]]
  BY <1>2 DEF GetNNode, Around
<1>4. PICK f \in 1..L : chosen = [c \in 1..N |-> nodes[Around(L, f, c)]]
  <2>1. First(found) \in found
    <3> HIDE DEF found
    <3>1. found \in SUBSET (DOMAIN nodes)
      BY DEF found
    <3> QED BY <3>1, <1>1, <1>3, FirstPlace
  <2>2. First(found) \in 1..L
    BY <2>1, <1>2
  <2> QED BY <2>2, <1>3
<1>5. 1 \in 1..N /\ i \in 1..L /\ 1 \in 1..L /\ L \in Nat \ {0}
  BY <1>2, <1>3
<1> HIDE DEF L, found
<1> DEFINE p == Around(L, f, i)
<1>6. /\ p \in 1..L
      /\ f + i - 1 <= L => p = f + i - 1
      /\ f + i - 1 > L => p = f + i - 1 - L
  BY <1>5, AroundPlaces
<1>7. Around(L, f, 1) = f
  <2>1. f + 1 - 1 <= L => Around(L, f, 1) = f + 1 - 1
    BY <1>5, AroundPlaces
  <2> QED BY <2>1
<1>8. chosen[1] = nodes[f] /\ chosen[i] = nodes[p]
  BY <1>4, <1>5, <1>7
<1> HIDE DEF p
<1>9. ASSUME NEW k \in 1..L PROVE nodes[k] \in S /\ eokr(k) \in Nat
  <2>1. nodes[k] \in S /\ nodes[k] \in Node
    BY <1>2
  <2> QED BY <2>1, TotalSlotsAssumption DEF Node
<1>10. ASSUME NEW k \in 1..L, NEW l \in 1..L
       PROVE  (k < l) <=> (eokr(k) < eokr(l))
  <2>1. eokr(k) = eokr(l) => k = l
    BY <1>2, <1>9
  <2>2. k < l => eokr(k) <= eokr(l)
    BY <1>1, <1>2 DEF Increasing
  <2>3. l < k => eokr(l) <= eokr(k)
    BY <1>1, <1>2 DEF Increasing
  <2> QED BY <2>1, <2>2, <2>3, <1>9
<1>11. \A e \in S : \E k \in 1..L : nodes[k] = e
  BY <1>2
<1>12. CASE f <= p
  <2> DEFINE K == f..(p - 1)
             T == {e \in S : nodes[f].eokr <= e.eokr /\ e.eokr < nodes[p].eokr}
  <2>1. nodes[f].eokr <= nodes[p].eokr
    BY <1>12, <1>6, <1>9, <1>10
  <2>2. Distance(S, chosen[1], chosen[i]) = Cardinality(T)
    BY <2>1, <1>8 DEF Distance
  <2>3. K \in SUBSET (DOMAIN nodes)
    BY <1>2, <1>6
  <2>4. T = {nodes[k] : k \in K}
    <3>1. ASSUME NEW k \in 1..L PROVE k \in K <=> nodes[k] \in T
      <4>1. k \in K <=> ~(k < f) /\ k < p
        BY <1>6
      <4>2. nodes[k] \in T <=> ~(nodes[k].eokr < nodes[f].eokr) /\ nodes[k].eokr < nodes[p].eokr
        BY <1>6, <1>9
      <4>3. (k < f <=> nodes[k].eokr < nodes[f].eokr) /\ (k < p <=> nodes[k].eokr < nodes[p].eokr)
        BY <1>6, <1>10
      <4> QED BY <4>1, <4>2, <4>3
    <3>2. K \subseteq 1..L
      BY <1>5, <1>6
    <3> HIDE DEF K
    <3>3. ASSUME NEW t \in T PROVE t \in {nodes[k] : k \in K}
      <4>1. PICK k \in 1..L : nodes[k] = t
        BY <1>11
      <4> QED BY <4>1, <3>1
    <3> QED BY <3>1, <3>2, <3>3
  <2>5. Cardinality(T) = Cardinality(K)
    <3> HIDE DEF T, K
    <3> QED BY <2>3, <2>4, <1>1, PartOfList
  <2>6. Cardinality(K) = i - 1
    <3>1. p = f + i - 1
      BY <1>6, <1>12, <1>5
    <3>2. Cardinality(K) = IF f > p - 1 THEN 0 ELSE (p - 1) - f + 1
      BY <1>6, FS_Interval
    <3> QED BY <3>1, <3>2, <1>6
  <2> QED BY <2>2, <2>5, <2>6
<1>13. CASE p < f
  <2> DEFINE K1 == f..L
             K2 == 1..(p - 1)
             K == K1 \cup K2
             T == {e \in S : nodes[f].eokr <= e.eokr \/ e.eokr < nodes[p].eokr}
  <2>1. ~(nodes[f].eokr <= nodes[p].eokr)
    BY <1>13, <1>6, <1>9, <1>10
  <2>2. Distance(S, chosen[1], chosen[i]) = Cardinality(T)
    BY <2>1, <1>8 DEF Distance
  <2>3. K \in SUBSET (DOMAIN nodes)
    BY <1>2, <1>6
  <2>4. T = {nodes[k] : k \in K}
    <3>1. ASSUME NEW k \in 1..L PROVE k \in K <=> nodes[k] \in T
      <4>1. k \in K <=> ~(k < f) \/ k < p
        BY <1>6
      <4>2. nodes[k] \in T <=> ~(nodes[k].eokr < nodes[f].eokr) \/ nodes[k].eokr < nodes[p].eokr
        BY <1>6, <1>9
      <4>3. (k < f <=> nodes[k].eokr < nodes[f].eokr) /\ (k < p <=> nodes[k].eokr < nodes[p].eokr)
        BY <1>6, <1>10
      <4> QED BY <4>1, <4>2, <4>3
    <3>2. K \subseteq 1..L
      BY <1>5, <1>6
    <3> HIDE DEF K
    <3>3. ASSUME NEW t \in T PROVE t \in {nodes[k] : k \in K}
      <4>1. PICK k \in 1..L : nodes[k] = t
        BY <1>11
      <4> QED BY <4>1, <3>1
    <3> QED BY <3>1, <3>2, <3>3
  <2>5. Cardinality(T) = Cardinality(K)
    <3> HIDE DEF T, K
    <3> QED BY <2>3, <2>4, <1>1, PartOfList
  <2>6. Cardinality(K) = i - 1
    <3>1. p = f + i - 1 - L
      BY <1>6, <1>13, <1>5
    <3>2. IsFiniteSet(K1) /\ Cardinality(K1) = L - f + 1
      BY <1>5, FS_Interval
    <3>3. IsFiniteSet(K2) /\ Cardinality(K2) = p - 1
      <4>1. p \in Nat /\ p >= 1
        BY <1>5, <1>6
      <4>2. IsFiniteSet(K2) /\ Cardinality(K2) = IF 1 > p - 1 THEN 0 ELSE (p - 1) - 1 + 1
        BY <4>1, FS_Interval
      <4> QED BY <4>1, <4>2
    <3>4. K1 \cap K2 = {}
      BY <1>5, <1>6, <1>13
    <3>5. Cardinality(K) = Cardinality(K1) + Cardinality(K2) - Cardinality(K1 \cap K2)
      <4> HIDE DEF K1, K2
      <4> QED BY <3>2, <3>3, FS_Union
    <3>6. Cardinality(K1 \cap K2) = 0
      BY <3>4, FS_EmptySet
    <3>7. Cardinality(K) = L - f + 1 + (p - 1)
      <4> HIDE DEF K1, K2
      <4> QED BY <3>2, <3>3, <3>5, <3>6, <1>5, <1>6
    <3> HIDE DEF K1, K2
    <3> QED BY <3>1, <3>7, <1>5, <1>6
  <2> QED BY <2>2, <2>5, <2>6
<1> QED BY <1>6, <1>12, <1>13

(* Where no two nodes have the same token there is one way to sort them: a *)
(* node's place is the number of nodes up to its token.                    *)
LEMMA SortedOnce ==
  ASSUME NEW S \in SUBSET Node, IsFiniteSet(S), \A d, e \in S : d.eokr = e.eokr => d = e,
         NEW a \in Sorted(S), NEW b \in Sorted(S)
  PROVE  a = b
<1> DEFINE L == Cardinality(S)
           UpTo(e) == {d \in S : d.eokr <= e.eokr}
<1>1. L \in Nat
  BY FS_CardinalityType
<1>2. ASSUME NEW nodes \in Sorted(S), NEW k \in 1..L
      PROVE  nodes[k] \in S /\ k = Cardinality(UpTo(nodes[k]))
  <2>1. /\ nodes \in MapToArr(S) /\ Increasing(nodes)
        /\ nodes \in Seq(S) /\ DOMAIN nodes = 1..L
        /\ \A i, j \in DOMAIN nodes : nodes[i] = nodes[j] => i = j
        /\ \A e \in S : \E i \in DOMAIN nodes : nodes[i] = e
    BY Listing DEF Sorted
  <2>2. \A i \in 1..L : nodes[i] \in S /\ nodes[i].eokr \in Nat
    <3>1. nodes \in [1..L -> S]
      BY DEF Sorted, MapToArr, SetToSeqs
    <3> QED BY <3>1, TotalSlotsAssumption DEF Node
  <2>3. ASSUME NEW i \in 1..L PROVE i \in 1..k <=> nodes[i] \in UpTo(nodes[k])
    <3>1. i < k => nodes[i].eokr <= nodes[k].eokr
      BY <2>1 DEF Increasing
    <3>2. k < i => nodes[k].eokr <= nodes[i].eokr
      BY <2>1 DEF Increasing
    <3>3. nodes[i].eokr = nodes[k].eokr => i = k
      BY <2>1, <2>2
    <3> QED BY <3>1, <3>2, <3>3, <2>2
  <2> DEFINE K == 1..k
  <2>4. K \in SUBSET (DOMAIN nodes)
    BY <1>1, <2>1
  <2>5. UpTo(nodes[k]) = {nodes[i] : i \in K}
    <3>1. ASSUME NEW e \in UpTo(nodes[k]) PROVE e \in {nodes[i] : i \in 1..k}
      <4>1. PICK i \in 1..L : nodes[i] = e
        BY <2>1
      <4> QED BY <4>1, <2>3
    <3>2. \A i \in 1..k : i \in 1..L
      BY <1>1
    <3> QED BY <3>1, <3>2, <2>3
  <2>6. Cardinality(UpTo(nodes[k])) = Cardinality(K)
    <3> DEFINE T == UpTo(nodes[k])
    <3>1. nodes \in MapToArr(S) /\ T = {nodes[i] : i \in K}
      BY <2>1, <2>5
    <3> HIDE DEF T, K
    <3>2. Cardinality(T) = Cardinality(K)
      BY <3>1, <2>4, PartOfList
    <3> QED BY <3>2 DEF T
  <2>7. Cardinality(K) = k
    BY FS_Interval
  <2> QED BY <2>2, <2>6, <2>7
<1>3. ASSUME NEW k \in 1..L PROVE a[k] = b[k]
  <2>1. a[k] \in S
    BY <1>2
  <2>2. PICK j \in 1..L : b[j] = a[k]
    BY <2>1, Listing DEF Sorted
  <2>3. k = Cardinality(UpTo(a[k])) /\ j = Cardinality(UpTo(b[j]))
    BY <1>2
  <2> QED BY <2>2, <2>3
<1> HIDE DEF L
<1>4. a \in [1..L -> S] /\ b \in [1..L -> S]
  BY DEF Sorted, MapToArr, SetToSeqs, L
<1>5. \A k \in 1..L : a[k] = b[k]
  BY <1>3
<1>6. a = [k \in 1..L |-> a[k]] /\ b = [k \in 1..L |-> b[k]]
  BY <1>4
<1>7. [k \in 1..L |-> a[k]] = [k \in 1..L |-> b[k]]
  BY <1>5
<1> QED BY <1>6, <1>7
=============================================================================
