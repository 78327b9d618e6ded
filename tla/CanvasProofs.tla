----------------------------- MODULE CanvasProofs -----------------------------
(***************************************************************************)
(* Theorems about the canvas tools.  First CanvasEdits, for any number of  *)
(* agents, sections and texts: type correctness, what an edit leaves       *)
(* alone, what its repeat does.  Then CanvasParser, as Reader, for any     *)
(* document: type correctness, every block read where it stands, every     *)
(* list one part of the markdown.                                          *)
(***************************************************************************)
EXTENDS CanvasEdits, CanvasParser, SequenceTheorems, FiniteSetTheorems, TLAPS

--------------------------------------------------------------------------------
(* Insertion and removal, element by element.                              *)
LEMMA InsertProperties ==
    ASSUME NEW S, NEW s \in Seq(S), NEW i \in 1..Len(s) + 1, NEW e \in S
    PROVE  /\ InsertAt(s, i, e) \in Seq(S)
           /\ Len(InsertAt(s, i, e)) = Len(s) + 1
           /\ \A j \in 1..Len(s) + 1 :
                 InsertAt(s, i, e)[j] = IF j < i THEN s[j] ELSE IF j = i THEN e ELSE s[j - 1]
<1> DEFINE before == SubSeq(s, 1, i - 1)
           after == SubSeq(s, i, Len(s))
<1>1. /\ Len(s) \in Nat /\ i \in Nat /\ i >= 1
      /\ \A j \in 1..Len(s) : s[j] \in S
    OBVIOUS
<1>2. /\ before \in Seq(S)
      /\ Len(before) = i - 1
      /\ \A j \in 1..i - 1 : before[j] = s[j]
    OBVIOUS
<1>3. /\ after \in Seq(S)
      /\ Len(after) = Len(s) + 1 - i
      /\ \A j \in 1..Len(s) + 1 - i : after[j] = s[j + i - 1]
    OBVIOUS
<1>4. <<e>> \in Seq(S) /\ Len(<<e>>) = 1 /\ <<e>>[1] = e
    OBVIOUS
<1> HIDE DEF before, after
<1>5. /\ before \o <<e>> \in Seq(S)
      /\ Len(before \o <<e>>) = i
      /\ \A j \in 1..i : (before \o <<e>>)[j] = IF j < i THEN s[j] ELSE e
    BY <1>1, <1>2, <1>4
<1> DEFINE front == before \o <<e>>
           whole == front \o after
<1>6. InsertAt(s, i, e) = whole
    BY DEF InsertAt, before, after
<1>7. front \in Seq(S) /\ Len(front) = i /\ \A j \in 1..i : front[j] = IF j < i THEN s[j] ELSE e
    BY <1>5
<1> HIDE DEF front
<1>8. /\ whole \in Seq(S)
      /\ Len(whole) = Len(front) + Len(after)
      /\ \A j \in 1..Len(front) + Len(after) :
            whole[j] = IF j <= Len(front) THEN front[j] ELSE after[j - Len(front)]
    BY <1>3, <1>7, ConcatProperties
<1> HIDE DEF whole
<1>9. Len(whole) = Len(s) + 1
    BY <1>1, <1>3, <1>7, <1>8
<1>10. ASSUME NEW j \in 1..Len(s) + 1
       PROVE  whole[j] = IF j < i THEN s[j] ELSE IF j = i THEN e ELSE s[j - 1]
    <2>1. j \in 1..Len(front) + Len(after)
        BY <1>1, <1>3, <1>7
    <2>2. whole[j] = IF j <= i THEN front[j] ELSE after[j - i]
        BY <1>7, <1>8, <2>1
    <2>3. CASE j <= i
        <3>1. j \in 1..i
            BY <1>1, <2>3
        <3> QED
            BY <1>1, <1>7, <2>2, <2>3, <3>1
    <2>4. CASE j > i
        <3>1. j - i \in 1..Len(s) + 1 - i /\ (j - i) + i - 1 = j - 1
            BY <1>1, <2>4
        <3>2. after[j - i] = s[j - 1]
            BY <1>3, <3>1
        <3> QED
            BY <1>1, <2>2, <2>4, <3>2
    <2> QED
        BY <1>1, <2>3, <2>4
<1> QED
    BY <1>6, <1>8, <1>9, <1>10

LEMMA RemoveProperties ==
    ASSUME NEW S, NEW s \in Seq(S), NEW i \in 1..Len(s)
    PROVE  /\ RemoveAt(s, i) \in Seq(S)
           /\ Len(RemoveAt(s, i)) = Len(s) - 1
           /\ \A j \in 1..Len(s) - 1 :
                 RemoveAt(s, i)[j] = IF j < i THEN s[j] ELSE s[j + 1]
<1> DEFINE before == SubSeq(s, 1, i - 1)
           after == SubSeq(s, i + 1, Len(s))
<1>1. /\ Len(s) \in Nat /\ i \in Nat /\ i >= 1
      /\ \A j \in 1..Len(s) : s[j] \in S
    OBVIOUS
<1>2. /\ before \in Seq(S)
      /\ Len(before) = i - 1
      /\ \A j \in 1..i - 1 : before[j] = s[j]
    OBVIOUS
<1>3. /\ after \in Seq(S)
      /\ Len(after) = Len(s) - i
      /\ \A j \in 1..Len(s) - i : after[j] = s[j + i]
    OBVIOUS
<1> HIDE DEF before, after
<1> DEFINE whole == before \o after
<1>4. RemoveAt(s, i) = whole
    BY DEF RemoveAt, before, after
<1>5. /\ whole \in Seq(S)
      /\ Len(whole) = Len(before) + Len(after)
      /\ \A j \in 1..Len(before) + Len(after) :
            whole[j] = IF j <= Len(before) THEN before[j] ELSE after[j - Len(before)]
    BY <1>2, <1>3, ConcatProperties
<1> HIDE DEF whole
<1>6. Len(whole) = Len(s) - 1
    BY <1>1, <1>2, <1>3, <1>5
<1>7. ASSUME NEW j \in 1..Len(s) - 1
      PROVE  whole[j] = IF j < i THEN s[j] ELSE s[j + 1]
    <2>1. j \in 1..Len(before) + Len(after)
        BY <1>1, <1>2, <1>3
    <2>2. whole[j] = IF j <= i - 1 THEN before[j] ELSE after[j - (i - 1)]
        BY <1>2, <1>5, <2>1
    <2>3. CASE j <= i - 1
        <3>1. j \in 1..i - 1
            BY <1>1, <2>3
        <3> QED
            BY <1>1, <1>2, <2>2, <2>3, <3>1
    <2>4. CASE j > i - 1
        <3>1. j - (i - 1) \in 1..Len(s) - i /\ (j - (i - 1)) + i = j + 1
            BY <1>1, <2>4
        <3>2. after[j - (i - 1)] = s[j + 1]
            BY <1>3, <3>1
        <3> QED
            BY <1>1, <2>2, <2>4, <3>2
    <2> QED
        BY <1>1, <2>3, <2>4
<1> QED
    BY <1>4, <1>5, <1>6, <1>7

(* A set of places has a first one.                                        *)
LEMMA FirstOf ==
    ASSUME NEW T \in SUBSET Nat, T # {}
    PROVE  \E i \in T : \A j \in T : i <= j
<1> DEFINE Upto(i) == 1..i
           U == {Upto(i) : i \in T}
           R == StrictSubsetOrdering(Nat)
<1>1. IsWellFoundedOn(R, FiniteSubsetsOf(Nat))
    BY FS_StrictSubsetOrderingWellFounded
<1>2. U \subseteq FiniteSubsetsOf(Nat) /\ U # {}
    <2>1. ASSUME NEW i \in T PROVE Upto(i) \in FiniteSubsetsOf(Nat)
        <3>1. IsFiniteSet(1..i)
            BY FS_Interval
        <3> QED
            BY <3>1 DEF FiniteSubsetsOf
    <2> HIDE DEF Upto
    <2> QED
        BY <2>1
<1>3. PICK u \in U : \A v \in U : ~(<<v, u>> \in R)
    <2> HIDE DEF R, U
    <2> QED
        BY <1>1, <1>2, WFMin
<1>4. PICK i \in T : u = 1..i
    OBVIOUS
<1>5. ASSUME NEW j \in T, j < i PROVE FALSE
    <2>1. 1..j \subseteq 1..i /\ i \notin 1..j /\ i \in 1..i
        BY <1>5
    <2>2. 1..j \in SUBSET Nat /\ 1..i \in SUBSET Nat
        OBVIOUS
    <2>3. <<1..j, 1..i>> \in R
        BY <2>1, <2>2 DEF StrictSubsetOrdering
    <2> QED
        BY <1>3, <1>4, <2>3
<1> QED
    BY <1>5
--------------------------------------------------------------------------------
(* A document whose sections are d, w ids having been handed out.          *)
Document(d, w) ==
    /\ d \in Seq(Section)
    /\ \A i, j \in DOMAIN d : d[i].id = d[j].id => i = j
    /\ \A i \in DOMAIN d : d[i].id <= w

Remains(old, new, i) == \E j \in DOMAIN new : new[j] = old[i]

(* new has all of old but the sections at K, in the order of old.          *)
SameBut(old, new, K) ==
    /\ \A i \in DOMAIN old : i \in K \/ Remains(old, new, i)
    /\ \A i, j \in DOMAIN old : i < j /\ Remains(old, new, i) /\ Remains(old, new, j) =>
          \E k, l \in DOMAIN new : k < l /\ new[k] = old[i] /\ new[l] = old[j]

(* new has sections of old, by their ids, and sections written after w.    *)
Descends(old, new, w) ==
    \A j \in DOMAIN new : w < new[j].id \/ \E i \in DOMAIN old : old[i].id = new[j].id

Lacks(d, id) == \A i \in DOMAIN d : d[i].id # id

(* An id that has been given up does not return.                           *)
LEMMA LackLasts ==
    ASSUME NEW old, NEW new, NEW w \in Nat, Descends(old, new, w),
           NEW id \in Nat, id <= w, Lacks(old, id)
    PROVE  Lacks(new, id)
BY DEF Descends, Lacks

LEMMA DocumentShape ==
    ASSUME NEW w \in Nat, NEW d, Document(d, w)
    PROVE  /\ d \in Seq(Section) /\ Len(d) \in Nat /\ DOMAIN d = 1..Len(d)
           /\ \A i, j \in 1..Len(d) : d[i].id = d[j].id => i = j
           /\ \A i \in 1..Len(d) : d[i] \in Section /\ d[i].id \in Nat /\ d[i].id <= w
<1>1. d \in Seq(Section) /\ Len(d) \in Nat /\ DOMAIN d = 1..Len(d)
    BY DEF Document
<1>2. /\ \A i, j \in 1..Len(d) : d[i].id = d[j].id => i = j
      /\ \A i \in 1..Len(d) : d[i].id <= w
    BY <1>1 DEF Document
<1>3. \A x \in Section : x.id \in Nat
    BY BoundAssumption DEF Section
<1>4. \A i \in 1..Len(d) : d[i] \in Section
    BY <1>1
<1> QED
    BY <1>1, <1>2, <1>3, <1>4

LEMMA InsertIsSafe ==
    ASSUME NEW w \in Nat, w < MaxSection, NEW d, Document(d, w),
           NEW i \in 1..Len(d) + 1, NEW text \in Text
    PROVE  LET new == InsertAt(d, i, [id |-> w + 1, text |-> text]) IN
           Document(new, w + 1) /\ SameBut(d, new, {}) /\ Descends(d, new, w)
<1> DEFINE x == [id |-> w + 1, text |-> text]
           new == InsertAt(d, i, x)
<1>1. x \in Section /\ x.id = w + 1
    BY BoundAssumption DEF Section
<1>2. /\ d \in Seq(Section) /\ Len(d) \in Nat /\ DOMAIN d = 1..Len(d)
      /\ \A p, q \in 1..Len(d) : d[p].id = d[q].id => p = q
      /\ \A j \in 1..Len(d) : d[j] \in Section /\ d[j].id \in Nat /\ d[j].id <= w
    BY DocumentShape
<1> HIDE DEF x
<1>3. /\ new \in Seq(Section)
      /\ Len(new) = Len(d) + 1
      /\ DOMAIN new = 1..Len(d) + 1
      /\ \A j \in 1..Len(d) + 1 :
            new[j] = IF j < i THEN d[j] ELSE IF j = i THEN x ELSE d[j - 1]
    <2>1. /\ new \in Seq(Section)
          /\ Len(new) = Len(d) + 1
          /\ \A j \in 1..Len(d) + 1 :
                new[j] = IF j < i THEN d[j] ELSE IF j = i THEN x ELSE d[j - 1]
        <3>1. d \in Seq(Section) /\ x \in Section /\ i \in 1..Len(d) + 1
            BY <1>1, <1>2
        <3>2. \A S : \A t \in Seq(S), e \in S : \A p \in 1..Len(t) + 1 :
                 /\ InsertAt(t, p, e) \in Seq(S)
                 /\ Len(InsertAt(t, p, e)) = Len(t) + 1
                 /\ \A j \in 1..Len(t) + 1 :
                       InsertAt(t, p, e)[j] = IF j < p THEN t[j] ELSE IF j = p THEN e ELSE t[j - 1]
            <4> TAKE S
            <4> TAKE t \in Seq(S), e \in S
            <4> TAKE p \in 1..Len(t) + 1
            <4> QED
                BY ONLY t \in Seq(S), e \in S, p \in 1..Len(t) + 1, InsertProperties
        <3> QED
            BY <3>1, <3>2
    <2> HIDE DEF new
    <2> QED
        BY <2>1
<1> HIDE DEF new
<1>4. Document(new, w + 1)
    <2>1. ASSUME NEW j \in 1..Len(d) + 1
          PROVE  new[j].id <= w + 1
        <3>1. new[j] = x \/ \E p \in 1..Len(d) : new[j] = d[p]
            <4>1. CASE j = i
                BY <1>3, <4>1
            <4>2. CASE j # i
                <5> DEFINE h == IF j < i THEN j ELSE j - 1
                <5>1. h \in 1..Len(d) /\ new[j] = d[h]
                    BY <1>2, <1>3, <4>2
                <5> QED
                    BY <5>1
            <4> QED
                BY <4>1, <4>2
        <3> QED
            BY <1>1, <1>2, <3>1
    <2>2. ASSUME NEW j \in 1..Len(d) + 1, NEW k \in 1..Len(d) + 1, j < k
          PROVE  new[j].id # new[k].id
        <3>2. CASE j = i
            <4>1. new[j] = x /\ new[k] = d[k - 1] /\ k - 1 \in 1..Len(d)
                BY <1>2, <1>3, <2>2, <3>2
            <4> QED
                BY <1>1, <1>2, <4>1
        <3>3. CASE k = i
            <4>1. new[k] = x /\ new[j] = d[j] /\ j \in 1..Len(d)
                BY <1>2, <1>3, <2>2, <3>3
            <4> QED
                BY <1>1, <1>2, <4>1
        <3>4. CASE j # i /\ k # i
            <4> DEFINE h(p) == IF p < i THEN p ELSE p - 1
            <4>1. h(j) \in 1..Len(d) /\ h(k) \in 1..Len(d) /\ h(j) # h(k)
                BY <1>2, <2>2, <3>4
            <4>2. new[j] = d[h(j)] /\ new[k] = d[h(k)]
                BY <1>3, <3>4
            <4> QED
                BY <1>2, <4>1, <4>2
        <3> QED
            BY <3>2, <3>3, <3>4
    <2>3. \A j, k \in 1..Len(d) + 1 : new[j].id = new[k].id => j = k
        BY <1>2, <2>2
    <2> QED
        BY <1>3, <2>1, <2>3 DEF Document
<1>5. SameBut(d, new, {})
    <2> DEFINE f(j) == IF j < i THEN j ELSE j + 1
    <2>1. \A j \in 1..Len(d) : f(j) \in 1..Len(d) + 1 /\ new[f(j)] = d[j]
        BY <1>2, <1>3
    <2>2. \A j, k \in 1..Len(d) : j < k => f(j) < f(k)
        BY <1>2
    <2> HIDE DEF f
    <2> QED
        BY <1>2, <1>3, <2>1, <2>2 DEF SameBut, Remains
<1>6. Descends(d, new, w)
    <2>1. ASSUME NEW j \in 1..Len(d) + 1
          PROVE  w < new[j].id \/ \E p \in 1..Len(d) : d[p].id = new[j].id
        <3>1. CASE j = i
            BY <1>1, <1>3, <3>1
        <3>2. CASE j < i
            BY <1>2, <1>3, <3>2
        <3>3. CASE j > i
            <4>1. j - 1 \in 1..Len(d) /\ new[j] = d[j - 1]
                BY <1>2, <1>3, <3>3
            <4> QED
                BY <4>1
        <3> QED
            BY <1>2, <3>1, <3>2, <3>3
    <2> QED
        BY <1>2, <1>3, <2>1 DEF Descends
<1> QED
    BY <1>4, <1>5, <1>6 DEF new, x

LEMMA RemoveIsSafe ==
    ASSUME NEW w \in Nat, NEW d, Document(d, w), NEW i \in DOMAIN d
    PROVE  /\ Document(RemoveAt(d, i), w) /\ SameBut(d, RemoveAt(d, i), {i})
           /\ Descends(d, RemoveAt(d, i), w) /\ Lacks(RemoveAt(d, i), d[i].id)
<1> DEFINE new == RemoveAt(d, i)
<1>1. /\ d \in Seq(Section) /\ Len(d) \in Nat /\ DOMAIN d = 1..Len(d)
      /\ \A p, q \in 1..Len(d) : d[p].id = d[q].id => p = q
      /\ \A j \in 1..Len(d) : d[j].id <= w
    BY DocumentShape
<1>2. /\ new \in Seq(Section)
      /\ Len(new) = Len(d) - 1
      /\ DOMAIN new = 1..Len(d) - 1
      /\ \A j \in 1..Len(d) - 1 : new[j] = IF j < i THEN d[j] ELSE d[j + 1]
    <2>1. /\ new \in Seq(Section)
          /\ Len(new) = Len(d) - 1
          /\ \A j \in 1..Len(d) - 1 : new[j] = IF j < i THEN d[j] ELSE d[j + 1]
        <3>1. d \in Seq(Section) /\ i \in 1..Len(d)
            BY <1>1
        <3> QED
            BY <3>1, RemoveProperties, Zenon
    <2> HIDE DEF new
    <2> QED
        BY <2>1
<1> HIDE DEF new
<1> DEFINE g(j) == IF j < i THEN j ELSE j + 1
<1>3. /\ \A j \in 1..Len(d) - 1 : g(j) \in 1..Len(d) /\ g(j) # i /\ new[j] = d[g(j)]
      /\ \A j, k \in 1..Len(d) - 1 : g(j) = g(k) => j = k
    BY <1>1, <1>2
<1>4. ~Remains(d, new, i)
    <2> HIDE DEF g
    <2> QED
        BY <1>1, <1>2, <1>3 DEF Remains
<1>5. Document(new, w)
    <2> HIDE DEF g
    <2>1. \A j, k \in 1..Len(d) - 1 : new[j].id = new[k].id => j = k
        BY <1>1, <1>3
    <2>2. \A j \in 1..Len(d) - 1 : new[j].id <= w
        BY <1>1, <1>3
    <2> QED
        BY <1>2, <2>1, <2>2 DEF Document
<1>6. SameBut(d, new, {i})
    <2> DEFINE f(j) == IF j < i THEN j ELSE j - 1
    <2>1. \A j \in 1..Len(d) : j # i => f(j) \in 1..Len(d) - 1 /\ new[f(j)] = d[j]
        BY <1>1, <1>2
    <2>2. \A j, k \in 1..Len(d) : j # i /\ k # i /\ j < k => f(j) < f(k)
        BY <1>1
    <2> HIDE DEF f, g
    <2>3. \A j \in 1..Len(d) : j # i <=> Remains(d, new, j)
        BY <1>2, <1>4, <2>1 DEF Remains
    <2> QED
        BY <1>1, <1>2, <2>1, <2>2, <2>3 DEF SameBut
<1>7. Descends(d, new, w) /\ Lacks(new, d[i].id)
    <2> HIDE DEF g
    <2> QED
        BY <1>1, <1>2, <1>3 DEF Descends, Lacks
<1> QED
    BY <1>5, <1>6, <1>7 DEF new

(* A section is given another text, or replaced by a new one.              *)
LEMMA ReplaceIsSafe ==
    ASSUME NEW w \in Nat, NEW v \in {w, w + 1}, v <= MaxSection,
           NEW d, Document(d, w), NEW i \in DOMAIN d,
           NEW x \in Section, x.id = IF v = w THEN d[i].id ELSE v
    PROVE  /\ Document([d EXCEPT ![i] = x], v) /\ SameBut(d, [d EXCEPT ![i] = x], {i})
           /\ Descends(d, [d EXCEPT ![i] = x], w)
<1> DEFINE new == [d EXCEPT ![i] = x]
<1>1. /\ d \in Seq(Section) /\ Len(d) \in Nat /\ DOMAIN d = 1..Len(d)
      /\ \A p, q \in 1..Len(d) : d[p].id = d[q].id => p = q
      /\ \A j \in 1..Len(d) : d[j].id \in Nat /\ d[j].id <= w
    BY DocumentShape
<1>2. /\ new \in Seq(Section)
      /\ DOMAIN new = 1..Len(d)
      /\ new[i] = x
      /\ \A j \in 1..Len(d) : j # i => new[j] = d[j]
    BY <1>1
<1> HIDE DEF new
<1>3. \A j \in 1..Len(d) : j # i => new[j].id # x.id
    BY <1>1, <1>2
<1>4. Document(new, v)
    <2>1. \A j, k \in 1..Len(d) : new[j].id = new[k].id => j = k
        BY <1>1, <1>2, <1>3
    <2>2. \A j \in 1..Len(d) : new[j].id <= v
        BY <1>1, <1>2
    <2> QED
        BY <1>2, <2>1, <2>2 DEF Document
<1>5. SameBut(d, new, {i})
    <2>1. Remains(d, new, i) => new[i] = d[i]
        BY <1>1, <1>2 DEF Remains
    <2> QED
        BY <1>1, <1>2, <2>1 DEF SameBut, Remains
<1>6. Descends(d, new, w)
    <2>1. ASSUME NEW j \in 1..Len(d)
          PROVE  w < new[j].id \/ \E p \in 1..Len(d) : d[p].id = new[j].id
        <3>1. CASE j # i
            BY <1>2, <3>1
        <3>2. CASE j = i /\ v = w
            BY <1>1, <1>2, <3>2
        <3>3. CASE j = i /\ v # w
            <4>1. new[j].id = w + 1
                BY <1>2, <3>3
            <4> QED
                BY <4>1
        <3> QED
            BY <3>1, <3>2, <3>3
    <2> QED
        BY <1>1, <1>2, <2>1 DEF Descends
<1> QED
    BY <1>4, <1>5, <1>6 DEF new

(* Slack's other two places for a new section.                             *)
LEMMA EndsAreInsertions ==
    ASSUME NEW S, NEW s \in Seq(S), NEW e \in S
    PROVE  /\ Append(s, e) = InsertAt(s, Len(s) + 1, e)
           /\ <<e>> \o s = InsertAt(s, 1, e)
<1>1. Len(s) \in Nat /\ Len(s) + 1 \in 1..Len(s) + 1 /\ 1 \in 1..Len(s) + 1
    OBVIOUS
<1>2. SubSeq(s, 1, Len(s)) = s /\ SubSeq(s, Len(s) + 1, Len(s)) = <<>> /\ SubSeq(s, 1, 0) = <<>>
    BY <1>1, SubSeqFull, SubSeqEmpty
<1>3. <<e>> \in Seq(S) /\ s \o <<e>> \in Seq(S)
    OBVIOUS
<1>4. (s \o <<e>>) \o <<>> = s \o <<e>> /\ <<>> \o <<e>> = <<e>>
    BY <1>3, ConcatEmptySeq
<1>5. InsertAt(s, Len(s) + 1, e) = s \o <<e>> \o <<>>
    <2>1. (Len(s) + 1) - 1 = Len(s)
        BY <1>1
    <2> QED
        BY <1>2, <2>1 DEF InsertAt
<1>6. InsertAt(s, 1, e) = <<>> \o <<e>> \o s
    BY <1>2 DEF InsertAt
<1> QED
    BY <1>4, <1>5, <1>6, AppendIsConcat

--------------------------------------------------------------------------------
(* What a call by text has found when it makes its change.                 *)
FirstHit(r) ==
    LET n == Len(r.seen) IN
    /\ n \in DOMAIN r.seen
    /\ r.seen[n].id = r.target
    /\ r.seen[n].text \in Having[r.needle]
    /\ \A p \in 1..n - 1 : r.seen[p].text \notin Having[r.needle]

(* An edit names its section by id or by text, and not both; by text, it   *)
(* reads before it changes.                                                *)
Searched(r) ==
    /\ r.needle # NoNeedle => r.tool \in Positional
    /\ r.needle # NoNeedle /\ r.pc \in {"lookup", "info", "page"} => r.target = NoSection
    /\ r.pc \in {"info", "page"} /\ r.tool \in Positional => r.needle # NoNeedle
    /\ r.needle # NoNeedle /\ r.pc \in {"apply", "resend"} => FirstHit(r)
    /\ r.made => r.pc = "resend"

(* The section of a deletion that was made is gone.                        *)
Spent(r) == r.made /\ r.tool = "delete" => Lacks(doc, r.target)

CanvasTyped ==
    /\ exists \in BOOLEAN
    /\ ~exists => doc = <<>>
    /\ Document(doc, written)
    /\ written \in 0..MaxSection

CanvasInv ==
    /\ CanvasTyped
    /\ request \in [Agent -> Request]
    /\ \A a \in Agent : /\ request[a].target <= written
                        /\ Searched(request[a])
                        /\ Spent(request[a])

LEMMA InvIsEnough == CanvasInv => TypeOK
BY DEF CanvasInv, CanvasTyped, Document, TypeOK

LEMMA RequestFields ==
    /\ NoRequest \in Request
    /\ \A r \in Request : r.target \in Nat
<1>1. <<>> \in Seq(Section) /\ "read" \in Tool /\ 0 \in 0..MaxSection
    BY BoundAssumption DEF Tool
<1>2. NoRequest \in Request
    BY <1>1 DEF NoRequest, Request, NoSection
<1>3. 0..MaxSection \subseteq Nat
    BY BoundAssumption
<1> QED
    BY <1>2, <1>3 DEF Request

LEMMA CanvasInit == Init => CanvasInv
<1>1. <<>> \in Seq(Section) /\ DOMAIN <<>> = {}
    OBVIOUS
<1>2. NoRequest \in Request
    BY RequestFields
<1>3. Searched(NoRequest) /\ Spent(NoRequest) /\ NoRequest.target = 0
    BY DEF NoRequest, Searched, Spent, NoSection
<1> HIDE DEF NoRequest
<1>4. Init => CanvasTyped
    <2>1. Document(<<>>, 0)
        BY <1>1 DEF Document
    <2>2. 0 \in 0..MaxSection
        BY BoundAssumption
    <2> QED
        BY <2>1, <2>2 DEF Init, CanvasTyped
<1>5. Init => \A a \in Agent : request[a] = NoRequest /\ NoRequest.target <= written
    BY <1>3 DEF Init
<1>6. Init => request \in [Agent -> Request]
    BY <1>2 DEF Init
<1> QED
    BY <1>3, <1>4, <1>5, <1>6 DEF CanvasInv

(* People, who leave the agents' calls alone.                              *)
LEMMA PersonKeepsInv ==
    ASSUME CanvasInv, UNCHANGED request, CanvasTyped', written <= written',
           Descends(doc, doc', written)
    PROVE  CanvasInv'
<1>1. written \in Nat /\ written' \in Nat
    BY BoundAssumption DEF CanvasInv, CanvasTyped
<1>2. \A a \in Agent : request'[a] = request[a] /\ request[a].target \in Nat
    BY RequestFields DEF CanvasInv
<1>3. \A a \in Agent : /\ request'[a].target <= written'
                       /\ Searched(request'[a])
    BY <1>1, <1>2 DEF CanvasInv
<1>4. \A a \in Agent : Spent(request[a])'
    BY <1>1, <1>2, LackLasts DEF CanvasInv, Spent
<1> QED
    BY <1>3, <1>4 DEF CanvasInv

LEMMA PersonAddsKeepsInv ==
    ASSUME CanvasInv, NEW text \in Text, PersonAdds(text)
    PROVE  CanvasInv'
<1>1. written \in Nat /\ written < MaxSection /\ Document(doc, written)
    BY BoundAssumption DEF CanvasInv, CanvasTyped, PersonAdds
<1>2. Document(doc', written + 1) /\ Descends(doc, doc', written)
    <2>1. PICK i \in 1..Len(doc) + 1 :
             doc' = InsertAt(doc, i, [id |-> written + 1, text |-> text])
        BY DEF PersonAdds, Fresh
    <2> QED
        BY <1>1, <2>1, InsertIsSafe
<1>3. CanvasTyped' /\ written <= written'
    BY <1>1, <1>2, BoundAssumption DEF CanvasInv, CanvasTyped, PersonAdds
<1> QED
    BY <1>2, <1>3, PersonKeepsInv DEF PersonAdds

LEMMA PersonRewritesKeepsInv ==
    ASSUME CanvasInv, NEW text \in Text, NEW i \in DOMAIN doc, PersonRewrites(i, text)
    PROVE  CanvasInv'
<1>1. written \in Nat /\ written <= MaxSection /\ Document(doc, written)
    BY BoundAssumption DEF CanvasInv, CanvasTyped
<1>2. PICK x \in Section : x.id = doc[i].id /\ doc' = [doc EXCEPT ![i] = x]
    <2>1. doc[i] \in Section
        BY <1>1, DocumentShape
    <2>2. [doc[i] EXCEPT !.text = text] \in Section /\ [doc[i] EXCEPT !.text = text].id = doc[i].id
        BY <2>1 DEF Section
    <2> QED
        BY <2>2 DEF PersonRewrites
<1>3. Document(doc', written) /\ Descends(doc, doc', written)
    BY <1>1, <1>2, ReplaceIsSafe
<1>4. doc # <<>>
    OBVIOUS
<1>5. CanvasTyped' /\ written <= written'
    BY <1>1, <1>3, <1>4 DEF CanvasInv, CanvasTyped, PersonRewrites
<1> QED
    BY <1>3, <1>5, PersonKeepsInv DEF PersonRewrites

LEMMA PersonRemovesKeepsInv ==
    ASSUME CanvasInv, NEW i \in DOMAIN doc, PersonRemoves(i)
    PROVE  CanvasInv'
<1>1. written \in Nat /\ Document(doc, written)
    BY BoundAssumption DEF CanvasInv, CanvasTyped
<1>2. Document(doc', written) /\ Descends(doc, doc', written)
    BY <1>1, RemoveIsSafe DEF PersonRemoves
<1>3. doc # <<>>
    OBVIOUS
<1>4. CanvasTyped' /\ written <= written'
    BY <1>1, <1>2, <1>3 DEF CanvasInv, CanvasTyped, PersonRemoves
<1> QED
    BY <1>2, <1>4, PersonKeepsInv DEF PersonRemoves
--------------------------------------------------------------------------------
(* The calls.  One step concerns one request and leaves the others alone.  *)
LEMMA RequestMoves ==
    ASSUME CanvasInv, NEW a \in Agent, NEW r \in Request,
           request' = [request EXCEPT ![a] = r],
           CanvasTyped', written <= written', Descends(doc, doc', written),
           r.target <= written', Searched(r),
           r.made /\ r.tool = "delete" => Lacks(doc', r.target)
    PROVE  CanvasInv'
<1>1. written \in Nat /\ written' \in Nat
    BY BoundAssumption DEF CanvasInv, CanvasTyped
<1>2. request' \in [Agent -> Request]
    BY DEF CanvasInv
<1>3. ASSUME NEW b \in Agent
      PROVE  /\ request'[b].target <= written'
             /\ Searched(request'[b])
             /\ Spent(request[b])'
    <2>1. CASE b = a
        <3>1. request'[b] = r
            BY <2>1 DEF CanvasInv
        <3> QED
            BY <3>1 DEF Spent
    <2>2. CASE b # a
        <3>1. request'[b] = request[b] /\ request[b].target \in Nat
            BY <2>2, RequestFields DEF CanvasInv
        <3>2. Spent(request[b])'
            BY <1>1, <3>1, LackLasts DEF CanvasInv, Spent
        <3> QED
            BY <1>1, <3>1, <3>2 DEF CanvasInv
    <2> QED
        BY <2>1, <2>2
<1> QED
    BY <1>2, <1>3 DEF CanvasInv

LEMMA QuietRequestMoves ==
    ASSUME CanvasInv, NEW a \in Agent, NEW r \in Request,
           request' = [request EXCEPT ![a] = r], UNCHANGED canvas,
           r.target <= written, Searched(r), Spent(r)
    PROVE  CanvasInv'
<1>1. CanvasTyped' /\ written <= written' /\ r.target <= written'
    BY BoundAssumption DEF CanvasInv, CanvasTyped, canvas
<1>2. Descends(doc, doc', written)
    BY DEF Descends, canvas
<1>3. r.made /\ r.tool = "delete" => Lacks(doc', r.target)
    BY DEF Spent, canvas
<1> QED
    BY <1>1, <1>2, <1>3, RequestMoves

LEMMA CallKeepsInv ==
    ASSUME CanvasInv, NEW a \in Agent,
           NEW tool \in Tool, NEW needle \in Needle \cup {NoNeedle}, NEW id \in 0..written,
           Call(a, tool, needle, id)
    PROVE  CanvasInv'
<1>1. PICK r : r = [NoRequest EXCEPT !.pc = "lookup", !.tool = tool,
                                     !.needle = needle, !.target = id]
    OBVIOUS
<1>2. id <= written /\ id \in 0..MaxSection
    BY BoundAssumption DEF CanvasInv, CanvasTyped
<1>3. /\ r \in Request /\ r.pc = "lookup" /\ r.tool = tool /\ r.needle = needle
      /\ r.target = id /\ ~r.made
    <2>1. NoRequest \in Request /\ ~NoRequest.made
        BY RequestFields DEF NoRequest
    <2> QED
        BY <1>1, <1>2, <2>1 DEF Request
<1>4. Searched(r) /\ Spent(r)
    BY <1>3 DEF Searched, Spent, Call
<1> QED
    BY <1>1, <1>2, <1>3, <1>4, QuietRequestMoves DEF Call

LEMMA FinishedFields ==
    ASSUME NEW a \in Agent, NEW answer \in Refusal \cup {"ok", "content"}
    PROVE  /\ Finished(a, answer) \in Request
           /\ Searched(Finished(a, answer)) /\ ~Finished(a, answer).made
           /\ Finished(a, answer).target = 0
<1>1. PICK r : r = Finished(a, answer)
    OBVIOUS
<1>2. r \in Request /\ r.pc = "done" /\ r.needle = NoNeedle /\ r.target = 0 /\ ~r.made
    <2>1. NoRequest \in Request
        BY RequestFields
    <2>2. answer \in Refusal \cup {"", "ok", "content"}
        OBVIOUS
    <2>3. NoRequest.needle = NoNeedle /\ NoRequest.target = 0 /\ ~NoRequest.made
        BY DEF NoRequest, NoSection
    <2> QED
        BY <1>1, <2>1, <2>2, <2>3 DEF Finished, Request
<1> QED
    BY <1>1, <1>2 DEF Searched

LEMMA AnswerKeepsInv ==
    ASSUME CanvasInv, NEW a \in Agent, NEW answer \in Refusal \cup {"content"},
           Answer(a, answer)
    PROVE  CanvasInv'
<1>1. PICK r : r = Finished(a, answer)
    OBVIOUS
<1>2. r \in Request /\ Searched(r) /\ Spent(r) /\ r.target <= written
    BY <1>1, FinishedFields, BoundAssumption DEF Spent, CanvasInv, CanvasTyped
<1> QED
    BY <1>1, <1>2, QuietRequestMoves DEF Answer

LEMMA GotoKeepsInv ==
    ASSUME CanvasInv, NEW a \in Agent, NEW phase \in {"info", "page", "apply"},
           Goto(a, phase),
           request[a].pc \in {"lookup", "info"},
           phase = "apply" => request[a].needle = NoNeedle,
           phase \in {"info", "page"} /\ request[a].tool \in Positional
               => request[a].needle # NoNeedle
    PROVE  CanvasInv'
<1>1. PICK r : r = [request[a] EXCEPT !.pc = phase]
    OBVIOUS
<1>2. request[a] \in Request /\ Searched(request[a]) /\ request[a].target <= written
    BY DEF CanvasInv
<1>3. /\ r \in Request
      /\ r.pc = phase /\ r.tool = request[a].tool
      /\ r.needle = request[a].needle /\ r.target = request[a].target
      /\ r.made = request[a].made
    BY <1>1, <1>2 DEF Request
<1>4. Searched(r) /\ Spent(r)
    BY <1>2, <1>3 DEF Searched, Spent, CanvasInv
<1>5. request' = [request EXCEPT ![a] = r]
    BY <1>1 DEF Goto
<1> QED
    BY <1>2, <1>3, <1>4, <1>5, QuietRequestMoves DEF Goto

LEMMA LookupKeepsInv ==
    ASSUME CanvasInv, NEW a \in Agent, Lookup(a)
    PROVE  CanvasInv'
<1>1. /\ request[a].pc = "lookup"
      /\ request[a].needle # NoNeedle => request[a].tool \in Positional
      /\ request[a].needle # NoNeedle => request[a].target = NoSection
    BY DEF Lookup, At, CanvasInv, Searched
<1>2. \/ \E answer \in Refusal : Answer(a, answer)
      \/ Goto(a, "apply") /\ request[a].needle = NoNeedle
      \/ Goto(a, "info") /\ (request[a].tool \in Positional => request[a].needle # NoNeedle)
    <2>1. CASE Answer(a, "failed")
        BY <2>1 DEF Refusal
    <2>2. CASE request[a].tool = "create" /\ canvas_create(a)
        BY <1>1, <2>2 DEF canvas_create, Refusal, Positional
    <2>3. CASE request[a].tool \in Whole \cup Positional /\ canvas_edit(a)
        BY <1>1, <2>3 DEF canvas_edit, Refusal, Positional, Whole
    <2>4. CASE request[a].tool = "set_title" /\ canvas_set_title(a)
        BY <1>1, <2>4 DEF canvas_set_title, Refusal, Positional
    <2>5. CASE request[a].tool = "read" /\ read_canvas(a)
        BY <1>1, <2>5 DEF read_canvas, Refusal, Positional
    <2> QED
        BY <2>1, <2>2, <2>3, <2>4, <2>5 DEF Lookup
<1> QED
    BY <1>1, <1>2, AnswerKeepsInv, GotoKeepsInv

LEMMA FetchInfoKeepsInv ==
    ASSUME CanvasInv, NEW a \in Agent, FetchInfo(a)
    PROVE  CanvasInv'
<1>1. /\ request[a].pc = "info"
      /\ request[a].tool \in Positional => request[a].needle # NoNeedle
    BY DEF FetchInfo, At, CanvasInv, Searched
<1> QED
    BY <1>1, AnswerKeepsInv, GotoKeepsInv DEF FetchInfo, Refusal

(* find_section_id: the first section in which the text occurs.            *)
LEMMA FirstHitIsFound ==
    ASSUME NEW sections \in Seq(Section), NEW n \in Needle,
           find_section_id(n, sections) # NoSection
    PROVE  LET spot == find_section_id(n, sections) IN
           /\ spot \in DOMAIN sections
           /\ sections[spot].text \in Having[n]
           /\ \A p \in 1..spot - 1 : sections[p].text \notin Having[n]
<1> DEFINE hits == {i \in DOMAIN sections : sections[i].text \in Having[n]}
           spot == CHOOSE i \in hits : \A j \in hits : i <= j
<1>1. hits # {} /\ find_section_id(n, sections) = spot
    BY DEF find_section_id
<1>2. DOMAIN sections = 1..Len(sections) /\ Len(sections) \in Nat
    OBVIOUS
<1>3. \E i \in hits : \A j \in hits : i <= j
    <2>1. hits \in SUBSET Nat
        BY <1>2
    <2> HIDE DEF hits
    <2> QED
        BY <1>1, <2>1, FirstOf
<1>4. spot \in hits /\ \A j \in hits : spot <= j
    <2> HIDE DEF hits
    <2> QED
        BY <1>3
<1> HIDE DEF spot
<1>5. ASSUME NEW p \in 1..spot - 1 PROVE sections[p].text \notin Having[n]
    <2>1. p \in DOMAIN sections /\ ~(spot <= p)
        BY <1>2, <1>4
    <2> QED
        BY <1>4, <2>1
<1> QED
    BY <1>1, <1>4, <1>5

LEMMA FetchPageKeepsInv ==
    ASSUME CanvasInv, NEW a \in Agent, FetchPage(a)
    PROVE  CanvasInv'
<1>1. /\ request[a].pc = "page"
      /\ request[a] \in Request
      /\ request[a].tool \in Positional =>
            request[a].needle # NoNeedle /\ request[a].needle \in Needle
    BY DEF FetchPage, At, CanvasInv, Searched, Request
<1>2. CASE \E answer \in Refusal \cup {"content"} : Answer(a, answer)
    BY <1>2, AnswerKeepsInv
<1>3. ASSUME NEW spot, spot = find_section_id(request[a].needle, doc), spot # NoSection,
             request[a].tool \in Positional,
             request' = [request EXCEPT ![a].pc = "apply",
                                        ![a].target = doc[spot].id,
                                        ![a].seen = SubSeq(doc, 1, spot)],
             UNCHANGED canvas
      PROVE  CanvasInv'
    <2>1. /\ doc \in Seq(Section) /\ Len(doc) \in Nat /\ DOMAIN doc = 1..Len(doc)
          /\ \A i \in 1..Len(doc) : doc[i] \in Section
          /\ \A i \in 1..Len(doc) : doc[i].id \in Nat /\ doc[i].id <= written
        BY DocumentShape, BoundAssumption DEF CanvasInv, CanvasTyped
    <2>2. /\ spot \in 1..Len(doc)
          /\ doc[spot].text \in Having[request[a].needle]
          /\ \A p \in 1..spot - 1 : doc[p].text \notin Having[request[a].needle]
        BY <1>1, <1>3, <2>1, FirstHitIsFound
    <2>3. PICK seen : seen = SubSeq(doc, 1, spot)
        OBVIOUS
    <2>4. /\ seen \in Seq(Section) /\ Len(seen) = spot
          /\ \A i \in 1..spot : seen[i] = doc[i]
        BY <2>1, <2>2, <2>3
    <2>5. doc[spot].id \in 0..MaxSection /\ doc[spot].id <= written
        BY <2>1, <2>2, BoundAssumption DEF CanvasInv, CanvasTyped
    <2>6. PICK r : r = [request[a] EXCEPT !.pc = "apply", !.target = doc[spot].id, !.seen = seen]
        OBVIOUS
    <2>7. /\ r \in Request
          /\ r.pc = "apply" /\ r.tool = request[a].tool /\ r.needle = request[a].needle
          /\ r.target = doc[spot].id /\ r.seen = seen /\ r.made = request[a].made
        BY <1>1, <2>4, <2>5, <2>6 DEF Request
    <2>8. FirstHit(r)
        BY <2>2, <2>4, <2>7 DEF FirstHit
    <2>9. Searched(r) /\ Spent(r)
        BY <1>1, <1>3, <2>7, <2>8 DEF Searched, Spent, CanvasInv
    <2>10. request' = [request EXCEPT ![a] = r]
        BY <1>3, <2>3, <2>6 DEF CanvasInv
    <2> QED
        BY <1>3, <2>5, <2>7, <2>9, <2>10, QuietRequestMoves
<1> QED
    BY <1>2, <1>3 DEF FetchPage, Refusal

LEMMA ApplyRefusedKeepsInv ==
    ASSUME CanvasInv, NEW a \in Agent, ApplyRefused(a)
    PROVE  CanvasInv'
BY AnswerKeepsInv DEF ApplyRefused, Refusal
--------------------------------------------------------------------------------
(* The sections a change may take away or rewrite.                         *)
Named(r) ==
    {i \in DOMAIN doc : r.tool \in {"replace", "delete"} /\ doc[i].id = r.target}

NewSectionIn(new, text) ==
    \E i \in 1..Len(doc) + 1 : new = InsertAt(doc, i, Fresh(text))

LEMMA SameButMore ==
    ASSUME NEW old, NEW new, NEW K, NEW L, K \subseteq L, SameBut(old, new, K)
    PROVE  SameBut(old, new, L)
BY DEF SameBut

LEMMA EditIsSafe ==
    ASSUME CanvasTyped, NEW r, NEW text \in Text,
           EditCanvas(r.tool, r.target, text), r.tool \in Whole \cup Positional
    PROVE  /\ CanvasTyped' /\ written <= written' /\ SameBut(doc, doc', Named(r))
           /\ Descends(doc, doc', written)
           /\ r.tool = "delete" => Lacks(doc', r.target)
<1>1. /\ exists = TRUE /\ Document(doc, written)
      /\ written \in Nat /\ written <= MaxSection
      /\ doc \in Seq(Section) /\ Len(doc) \in Nat /\ DOMAIN doc = 1..Len(doc)
    BY DocumentShape, BoundAssumption DEF CanvasTyped, EditCanvas, CanApply
<1>2. UNCHANGED exists
    BY DEF EditCanvas
<1>3. SUFFICES /\ written' \in Nat /\ written <= written' /\ written' <= MaxSection
               /\ Document(doc', written')
               /\ SameBut(doc, doc', Named(r))
               /\ Descends(doc, doc', written)
               /\ r.tool = "delete" => Lacks(doc', r.target)
    BY <1>1, <1>2, BoundAssumption DEF CanvasTyped
<1>4. Fresh(text) = [id |-> written + 1, text |-> text]
    BY DEF Fresh
<1>5. ASSUME written < MaxSection
      PROVE  Fresh(text) \in Section /\ Fresh(text).id = written + 1
    BY <1>1, <1>4, <1>5, BoundAssumption DEF Section
<1> DEFINE spot == CHOOSE j \in Positions(r.target) : TRUE
<1>6. ASSUME r.tool \in Positional
      PROVE  /\ spot \in 1..Len(doc) /\ doc[spot].id = r.target
             /\ spot + 1 \in 1..Len(doc) + 1 /\ spot \in 1..Len(doc) + 1
    <2>1. spot \in Positions(r.target)
        BY <1>6 DEF EditCanvas, CanApply
    <2> QED
        BY <1>1, <2>1 DEF Positions
<1> HIDE DEF spot
<1>7. CASE doc' = Edited(r.tool, r.target, text) /\ r.tool \notin {"delete", "replace"}
                                                 /\ written' = written + 1
    <2>1. written < MaxSection
        BY <1>1, <1>7, BoundAssumption DEF EditCanvas, CanApply
    <2>2. NewSectionIn(doc', text)
        <3>1. CASE r.tool = "append"
            <4>1. doc' = Append(doc, Fresh(text))
                BY <1>7, <3>1 DEF Edited
            <4>2. Len(doc) + 1 \in 1..Len(doc) + 1
                BY <1>1
            <4> QED
                BY <1>1, <1>5, <2>1, <4>1, <4>2, EndsAreInsertions DEF NewSectionIn
        <3>2. CASE r.tool = "prepend"
            <4>1. doc' = <<Fresh(text)>> \o doc
                BY <1>7, <3>2 DEF Edited
            <4>2. 1 \in 1..Len(doc) + 1
                BY <1>1
            <4> QED
                BY <1>1, <1>5, <2>1, <4>1, <4>2, EndsAreInsertions DEF NewSectionIn
        <3>3. CASE r.tool = "insert_after"
            <4>1. doc' = InsertAt(doc, spot + 1, Fresh(text))
                BY <1>7, <3>3 DEF Edited, spot
            <4> QED
                BY <1>6, <3>3, <4>1 DEF NewSectionIn, Positional
        <3>4. CASE r.tool = "insert_before"
            <4>1. doc' = InsertAt(doc, spot, Fresh(text))
                BY <1>7, <3>4 DEF Edited, spot
            <4> QED
                BY <1>6, <3>4, <4>1 DEF NewSectionIn, Positional
        <3> QED
            BY <1>7, <3>1, <3>2, <3>3, <3>4 DEF Whole, Positional
    <2>3. PICK i \in 1..Len(doc) + 1 : doc' = InsertAt(doc, i, [id |-> written + 1, text |-> text])
        BY <1>4, <2>2 DEF NewSectionIn
    <2>4. /\ Document(doc', written + 1) /\ SameBut(doc, doc', {})
          /\ Descends(doc, doc', written)
        BY <1>1, <2>1, <2>3, InsertIsSafe
    <2> QED
        BY <1>1, <1>7, <2>1, <2>4, SameButMore, BoundAssumption
<1>8. CASE doc' = Edited(r.tool, r.target, text) /\ r.tool = "delete" /\ written' = written
    <2>1. doc' = RemoveAt(doc, spot)
        BY <1>8 DEF Edited, spot
    <2>2. spot \in DOMAIN doc /\ spot \in Named(r)
        BY <1>1, <1>6, <1>8 DEF Named, Positional
    <2>3. /\ Document(doc', written) /\ SameBut(doc, doc', {spot})
          /\ Descends(doc, doc', written) /\ Lacks(doc', doc[spot].id)
        BY <1>1, <2>1, <2>2, RemoveIsSafe
    <2>4. doc[spot].id = r.target
        BY <1>6, <1>8 DEF Positional
    <2> QED
        BY <1>1, <1>8, <2>2, <2>3, <2>4, SameButMore
<1>9. CASE doc' = Edited(r.tool, r.target, text) /\ r.tool = "replace" /\ written' = written + 1
    <2>1. doc' = [doc EXCEPT ![spot] = Fresh(text)]
        BY <1>9 DEF Edited, spot
    <2>2. spot \in DOMAIN doc /\ spot \in Named(r)
        BY <1>1, <1>6, <1>9 DEF Named, Positional
    <2>3. written < MaxSection
        BY <1>9 DEF EditCanvas, CanApply
    <2>4. PICK x \in Section : x = Fresh(text) /\ x.id = written + 1
        BY <1>5, <2>3
    <2>5. written + 1 <= MaxSection /\ written + 1 # written
        BY <1>1, <2>3, BoundAssumption
    <2>6. Document([doc EXCEPT ![spot] = x], written + 1)
          /\ SameBut(doc, [doc EXCEPT ![spot] = x], {spot})
          /\ Descends(doc, [doc EXCEPT ![spot] = x], written)
        BY <1>1, <2>2, <2>4, <2>5, ReplaceIsSafe
    <2> QED
        <3>1. /\ Document(doc', written + 1) /\ SameBut(doc, doc', {spot})
              /\ Descends(doc, doc', written)
            BY <2>1, <2>4, <2>6
        <3> QED
            BY <1>1, <1>9, <2>2, <2>5, <3>1, SameButMore
<1>10. CASE /\ r.tool = "replace" /\ written' = written
            /\ \E i \in Positions(r.target) : doc' = [doc EXCEPT ![i].text = text]
    <2>1. PICK i \in Positions(r.target) : doc' = [doc EXCEPT ![i].text = text]
        BY <1>10
    <2>2. i \in DOMAIN doc /\ i \in Named(r)
        BY <1>10, <2>1 DEF Named, Positions
    <2>3. PICK x : x = [doc[i] EXCEPT !.text = text]
        OBVIOUS
    <2>4. x \in Section /\ x.id = doc[i].id
        <3>1. doc[i] \in Section
            BY <1>1, <2>2
        <3> QED
            BY <2>3, <3>1 DEF Section
    <2>5. doc' = [doc EXCEPT ![i] = x]
        BY <2>1, <2>3
    <2>6. Document(doc', written) /\ SameBut(doc, doc', {i}) /\ Descends(doc, doc', written)
        BY <1>1, <2>2, <2>4, <2>5, ReplaceIsSafe
    <2> QED
        BY <1>1, <1>10, <2>2, <2>6, SameButMore
<1> QED
    BY <1>7, <1>8, <1>9, <1>10 DEF EditCanvas

LEMMA ChangeIsSafe ==
    ASSUME CanvasTyped, NEW a \in Agent, Change(a)
    PROVE  /\ CanvasTyped' /\ written <= written' /\ SameBut(doc, doc', Named(request[a]))
           /\ Descends(doc, doc', written)
           /\ request[a].tool = "delete" => Lacks(doc', request[a].target)
<1>1. written \in Nat /\ Document(doc, written)
    BY BoundAssumption DEF CanvasTyped
<1>2. CASE request[a].tool = "create" /\ \E text \in Text : CreateCanvas(text)
    <2>1. PICK text \in Text : CreateCanvas(text)
        BY <1>2
    <2>2. doc = <<>> /\ written < MaxSection
        BY <2>1 DEF CanvasTyped, CreateCanvas
    <2>3. doc' = InsertAt(doc, 1, [id |-> written + 1, text |-> text])
        <3>1. Fresh(text) \in Section
            BY <1>1, <2>2, BoundAssumption DEF Fresh, Section
        <3>2. <<Fresh(text)>> \o doc = <<Fresh(text)>>
            BY <2>2, <3>1, ConcatEmptySeq
        <3>3. doc \in Seq(Section)
            BY <1>1 DEF Document
        <3> QED
            BY <2>1, <3>1, <3>2, <3>3, EndsAreInsertions DEF CreateCanvas, Fresh
    <2>4. /\ Document(doc', written + 1) /\ SameBut(doc, doc', {})
          /\ Descends(doc, doc', written)
        <3>1. 1 \in 1..Len(doc) + 1
            BY <2>2
        <3> QED
            BY <1>1, <2>2, <2>3, <3>1, InsertIsSafe
    <2> QED
        BY <1>1, <1>2, <2>1, <2>2, <2>4, BoundAssumption DEF CanvasTyped, CreateCanvas, SameBut
<1>3. CASE request[a].tool = "set_title" /\ Retitle
    <2>1. UNCHANGED <<exists, doc, written>>
        BY <1>3 DEF Retitle, canvas
    <2>2. SameBut(doc, doc', {})
        <3>1. DOMAIN doc = 1..Len(doc) /\ Len(doc) \in Nat
            BY <1>1, DocumentShape
        <3> QED
            BY <2>1 DEF SameBut, Remains
    <2> QED
        BY <1>1, <1>3, <2>1, <2>2 DEF CanvasTyped, SameBut, Descends
<1>4. CASE \E text \in Text : /\ request[a].tool \in Whole \cup Positional
                              /\ EditCanvas(request[a].tool, request[a].target, text)
    <2>1. PICK r : r = request[a]
        OBVIOUS
    <2> QED
        BY <1>4, <2>1, EditIsSafe
<1> QED
    BY <1>2, <1>3, <1>4 DEF Change

LEMMA AfterLossFields ==
    ASSUME CanvasInv, NEW a \in Agent, NEW made \in BOOLEAN, Sending(a)
    PROVE  LET r == AfterLoss(a, made) IN
           /\ r \in Request /\ Searched(r)
           /\ r.target = 0 \/ r.target = request[a].target
           /\ r.made => made /\ r.tool = request[a].tool /\ r.target = request[a].target
<1>1. PICK r : r = AfterLoss(a, made)
    OBVIOUS
<1>2. request[a] \in Request /\ Searched(request[a])
    BY DEF CanvasInv
<1>3. CASE At(a, "apply")
    <2>1. r = [request[a] EXCEPT !.pc = "resend", !.made = made]
        BY <1>1, <1>3 DEF AfterLoss
    <2>2. /\ r \in Request /\ r.pc = "resend" /\ r.made = made /\ r.tool = request[a].tool
          /\ r.target = request[a].target /\ r.needle = request[a].needle
          /\ r.seen = request[a].seen
        BY <1>2, <2>1 DEF Request
    <2>3. Searched(r)
        BY <1>2, <1>3, <2>2 DEF Searched, At, FirstHit
    <2> QED
        BY <1>1, <2>2, <2>3
<1>4. CASE ~At(a, "apply")
    BY <1>4, FinishedFields DEF AfterLoss, Refusal
<1> QED
    BY <1>3, <1>4

LEMMA ApplyKeepsInv ==
    ASSUME CanvasInv, NEW a \in Agent, Apply(a)
    PROVE  CanvasInv'
<1>1. /\ CanvasTyped' /\ written <= written' /\ Descends(doc, doc', written)
      /\ request[a].tool = "delete" => Lacks(doc', request[a].target)
      /\ Sending(a)
    BY ChangeIsSafe DEF CanvasInv, Apply
<1>2. PICK r \in {Finished(a, "ok"), AfterLoss(a, TRUE)} : request' = [request EXCEPT ![a] = r]
    BY DEF Apply
<1>3. /\ r \in Request /\ Searched(r)
      /\ r.target = 0 \/ r.target = request[a].target
      /\ r.made => r.tool = request[a].tool /\ r.target = request[a].target
    BY <1>1, FinishedFields, AfterLossFields
<1>4. r.target <= written'
    <2>1. /\ written \in Nat /\ written' \in Nat /\ request[a].target \in Nat
          /\ request[a].target <= written
        BY <1>1, RequestFields, BoundAssumption DEF CanvasInv, CanvasTyped
    <2> QED
        BY <1>1, <1>3, <2>1
<1> QED
    BY <1>1, <1>2, <1>3, <1>4, RequestMoves

LEMMA RequestLostKeepsInv ==
    ASSUME CanvasInv, NEW a \in Agent, RequestLost(a)
    PROVE  CanvasInv'
<1>1. PICK r : r = AfterLoss(a, FALSE)
    OBVIOUS
<1>2. /\ r \in Request /\ Searched(r) /\ ~r.made
      /\ r.target = 0 \/ r.target = request[a].target
    BY <1>1, AfterLossFields DEF RequestLost
<1>3. r.target <= written
    BY <1>2, BoundAssumption DEF CanvasInv, CanvasTyped
<1> QED
    BY <1>1, <1>2, <1>3, QuietRequestMoves DEF RequestLost, Spent
--------------------------------------------------------------------------------
LEMMA CanvasStep == CanvasInv /\ [Next]_vars => CanvasInv'
<1> SUFFICES ASSUME CanvasInv, [Next]_vars PROVE CanvasInv'
    OBVIOUS
<1>1. CASE UNCHANGED vars
    BY <1>1, BoundAssumption, PersonKeepsInv DEF vars, canvas, CanvasInv, CanvasTyped, Descends
<1>2. ASSUME NEW text \in Text, PersonAdds(text) PROVE CanvasInv'
    BY <1>2, PersonAddsKeepsInv
<1>3. ASSUME NEW text \in Text, NEW i \in DOMAIN doc, PersonRewrites(i, text) PROVE CanvasInv'
    BY <1>3, PersonRewritesKeepsInv
<1>4. ASSUME NEW i \in DOMAIN doc, PersonRemoves(i) PROVE CanvasInv'
    BY <1>4, PersonRemovesKeepsInv
<1>5. ASSUME NEW a \in Agent, NEW tool \in Tool, NEW needle \in Needle \cup {NoNeedle},
             NEW id \in 0..written, Call(a, tool, needle, id)
      PROVE  CanvasInv'
    BY <1>5, CallKeepsInv
<1>6. ASSUME NEW a \in Agent,
             \/ Lookup(a) \/ FetchInfo(a) \/ FetchPage(a)
             \/ Apply(a) \/ RequestLost(a) \/ ApplyRefused(a)
      PROVE  CanvasInv'
    BY <1>6, LookupKeepsInv, FetchInfoKeepsInv, FetchPageKeepsInv,
       ApplyKeepsInv, RequestLostKeepsInv, ApplyRefusedKeepsInv
<1> QED
    BY <1>1, <1>2, <1>3, <1>4, <1>5, <1>6 DEF Next

LEMMA CanvasInvariance == Spec => []CanvasInv
BY CanvasInit, CanvasStep, PTL DEF Spec

(* The canvas tools and the document keep to their state space: no two     *)
(* sections share an id, however agents and people take turns.             *)
THEOREM EditsTypeCorrect == Spec => []TypeOK
BY CanvasInvariance, InvIsEnough, PTL

(* A step changes one request, and Slack's document only at a call's       *)
(* change.                                                                 *)
LEMMA CallsKeepCanvas ==
    ASSUME NEW a \in Agent,
           \/ \E tool \in Tool, needle \in Needle \cup {NoNeedle}, id \in 0..written :
                 Call(a, tool, needle, id)
           \/ Lookup(a) \/ FetchInfo(a) \/ FetchPage(a) \/ RequestLost(a) \/ ApplyRefused(a)
    PROVE  UNCHANGED doc
BY DEF Call, Lookup, FetchInfo, FetchPage, RequestLost, ApplyRefused, Answer, Goto, canvas_create,
       canvas_edit, canvas_set_title, read_canvas, canvas

LEMMA StepIsOfOneCall ==
    ASSUME CanvasInv, NEW a \in Agent, NEW b \in Agent, Apply(b), ByAgent(a)
    PROVE  a = b
BY DEF CanvasInv, Apply, ByAgent

LEMMA OnlyApplyChanges ==
    ASSUME CanvasInv, Next, NEW a \in Agent, ByAgent(a)
    PROVE  Apply(a) \/ UNCHANGED doc
<1>1. request'[a] # request[a]
    BY DEF ByAgent
<1>2. ~UNCHANGED request
    BY <1>1
<1>3. \A text \in Text : ~PersonAdds(text) /\ \A i \in DOMAIN doc : ~PersonRewrites(i, text)
    BY <1>2 DEF PersonAdds, PersonRewrites
<1>4. \A i \in DOMAIN doc : ~PersonRemoves(i)
    BY <1>2 DEF PersonRemoves
<1> QED
    BY <1>3, <1>4, CallsKeepCanvas, StepIsOfOneCall DEF Next

LEMMA UnchangedIsSame ==
    ASSUME CanvasTyped, UNCHANGED doc
    PROVE  SameBut(doc, doc', {})
<1>1. DOMAIN doc = 1..Len(doc) /\ Len(doc) \in Nat
    BY DocumentShape, BoundAssumption DEF CanvasTyped
<1> QED
    BY <1>1 DEF SameBut, Remains

LEMMA TouchesTheNamed ==
    ASSUME CanvasInv, Next, NEW a \in Agent, ByAgent(a)
    PROVE  /\ \A i \in Touched : i \in Named(request[a])
           /\ SameBut(doc, doc', Named(request[a]))
<1>1. SameBut(doc, doc', Named(request[a]))
    <2>1. CASE Apply(a)
        BY <2>1, ChangeIsSafe DEF Apply, CanvasInv
    <2>2. CASE UNCHANGED doc
        BY <2>2, UnchangedIsSame, SameButMore DEF CanvasInv
    <2> QED
        BY <2>1, <2>2, OnlyApplyChanges
<1> QED
    BY <1>1 DEF SameBut, Touched, Kept, Remains

(* "Editing one section leaves the rest, including anything a human wrote, *)
(* untouched" (canvas_edit): with any number of agents and people at work  *)
(* between its requests, a call takes away or rewrites no section but the  *)
(* one it named, or the first in which it had found the text.              *)
THEOREM EditsLeaveTheRest == Spec => OnlyTheNamedSection
<1>1. ASSUME CanvasInv, Next, NEW a \in Agent, ByAgent(a)
      PROVE  /\ \A i \in Touched : i \in Named(request[a])
             /\ SameBut(doc, doc', Named(request[a]))
    BY <1>1, TouchesTheNamed
<1>2. ASSUME CanvasInv, Next, NEW a \in Agent, ByAgent(a), NEW i \in Touched
      PROVE  LET r == request[a]
                 n == Len(r.seen) IN
             /\ r.tool \in {"replace", "delete"}
             /\ IF r.needle = NoNeedle THEN doc[i].id = r.target
                ELSE /\ r.seen[n].id = doc[i].id
                     /\ r.seen[n].text \in Having[r.needle]
                     /\ \A p \in 1..n - 1 : r.seen[p].text \notin Having[r.needle]
    <2>1. request[a].tool \in {"replace", "delete"} /\ doc[i].id = request[a].target
        BY <1>1, <1>2 DEF Named
    <2>2. request[a].needle # NoNeedle => FirstHit(request[a])
        BY <1>2 DEF CanvasInv, Searched, ByAgent, Sending, At
    <2> QED
        BY <2>1, <2>2 DEF FirstHit
<1>3. ASSUME CanvasInv, Next, NEW a \in Agent, ByAgent(a),
             NEW i \in DOMAIN doc, NEW j \in DOMAIN doc, i < j, Kept(i), Kept(j)
      PROVE  \E k, l \in DOMAIN doc' : k < l /\ doc'[k] = doc[i] /\ doc'[l] = doc[j]
    BY <1>1, <1>3 DEF SameBut, Kept, Remains
<1>4. CanvasInv /\ [Next]_vars =>
      [\A a \in Agent : ByAgent(a) =>
          /\ \A i \in Touched :
              LET r == request[a]
                  n == Len(r.seen) IN
              /\ r.tool \in {"replace", "delete"}
              /\ IF r.needle = NoNeedle THEN doc[i].id = r.target
                 ELSE /\ r.seen[n].id = doc[i].id
                      /\ r.seen[n].text \in Having[r.needle]
                      /\ \A p \in 1..n - 1 : r.seen[p].text \notin Having[r.needle]
          /\ \A i, j \in DOMAIN doc : i < j /\ Kept(i) /\ Kept(j) =>
               \E k, l \in DOMAIN doc' : k < l /\ doc'[k] = doc[i] /\ doc'[l] = doc[j]]_vars
    BY <1>2, <1>3
<1> QED
    BY <1>4, CanvasInvariance, PTL DEF Spec, OnlyTheNamedSection

(* A change that slack_sdk's client asks for a second time, having lost    *)
(* the reply to the first, takes away nothing more: the id of a deleted    *)
(* section never returns, whoever writes to the canvas in between.         *)
THEOREM RepeatsTakeNothing == Spec => RepeatsTakeNothingMore
<1>1. ASSUME CanvasInv, Next, NEW a \in Agent, ByAgent(a), request[a].made, NEW i \in Touched
      PROVE  request[a].tool = "replace" /\ doc[i].id = request[a].target
    <2>1. i \in Named(request[a])
        BY <1>1, TouchesTheNamed
    <2>2. request[a].tool # "delete"
        BY <1>1, <2>1 DEF CanvasInv, Spent, Lacks, Named
    <2> QED
        BY <2>1, <2>2 DEF Named
<1>2. CanvasInv /\ [Next]_vars =>
      [\A a \in Agent : ByAgent(a) /\ request[a].made =>
          \A i \in Touched : request[a].tool = "replace" /\ doc[i].id = request[a].target]_vars
    BY <1>1
<1> QED
    BY <1>2, CanvasInvariance, PTL DEF Spec, RepeatsTakeNothingMore
--------------------------------------------------------------------------------
(* Reading a canvas: CanvasParser on a document of any depth and length.   *)
Block == Item \cup Paragraph

(* How elements nest: a block by itself, or within the lists of a section. *)
Paragraphed == Len(open) = 1 /\ open[1].kind = "block"
Sectioned ==
    /\ Len(open) >= 1 /\ open[1].kind = "list"
    /\ \A i \in 2..Len(open) - 1 : open[i].kind = "ul"
    /\ Len(open) >= 2 => open[Len(open)].kind = "ul" \/ (open[Len(open)].kind = "block" /\ Len(open) >= 3)

InBlock == Len(open) >= 1 /\ open[Len(open)].kind = "block"
Begun == IF InBlock THEN Len(blocks) + 1 ELSE Len(blocks)

Nested ==
    /\ open \in Seq(Element)
    /\ open = <<>> \/ Paragraphed \/ Sectioned
    /\ lists \in 0..MaxLists
    /\ Sectioned => lists >= 1
    /\ blocks \in Seq(Block)
    /\ Begun <= MaxBlocks
    /\ \A i \in 1..Len(open) : open[i].items <= Begun

(* The parser's fields say of the document what they are there to say.     *)
InStep ==
    /\ depth \in 0..MaxDepth
    /\ ~Sectioned => depth = 0 /\ mode = Bullet
    /\ Sectioned => depth = (IF InBlock THEN Len(open) - 2 ELSE Len(open) - 1) /\ mode = open[1].style
    /\ counters \in [1..MaxDepth -> 0..MaxBlocks]
    /\ \A d \in 1..depth : counters[d] = open[d + 1].items
    /\ group = lists
    /\ InBlock => cur \in Block /\ cur = Place
    /\ ~InBlock => cur = NoBlock

(* The lines so far: a part's number is that of a line at most.            *)
Lines ==
    /\ place = blocks
    /\ part \in Seq(Nat) /\ Len(part) = Len(blocks)
    /\ \A i \in 1..Len(part) : part[i] <= i
    /\ prevGroup \in 1..MaxLists \cup {NoGroup}

(* Lists do not come back, and only the last one may go on.                *)
Grouped ==
    \A i \in 1..Len(part) : part[i] # 0 /\ place[i].group # NoGroup =>
        /\ place[i].group <= lists
        /\ Sectioned /\ place[i].group = lists => prevGroup = lists

LastPart ==
    prevGroup # NoGroup =>
        \A i \in 1..Len(part) : part[i] # 0 =>
            (place[i].group = prevGroup <=> part[i] = Parts)

ParserInv ==
    /\ Nested
    /\ InStep
    /\ Lines
    /\ Grouped
    /\ LastPart
    /\ PartsAreLists

--------------------------------------------------------------------------------
LEMMA ReaderBounds ==
    /\ MaxDepth \in Nat /\ MaxBlocks \in Nat /\ MaxLists \in Nat
    /\ Bullet \in Style /\ NoGroup \notin Nat /\ NoBlock \notin Block
BY ModeAssumption, DocumentAssumption, MarkerAssumption
DEF Block, ModeAssumption, DocumentAssumption, MarkerAssumption

LEMMA FrontProperties ==
    ASSUME NEW S, NEW s \in Seq(S), s # <<>>
    PROVE  /\ Front(s) \in Seq(S)
           /\ Len(Front(s)) = Len(s) - 1
           /\ \A i \in 1..Len(s) - 1 : Front(s)[i] = s[i]
<1>1. Len(s) \in Nat /\ Len(s) >= 1 /\ \A i \in 1..Len(s) - 1 : s[i] \in S
    OBVIOUS
<1>2. Front(s) = SubSeq(s, 1, Len(s) - 1)
    BY DEF Front
<1>3. PICK n : n = Len(s) - 1
    OBVIOUS
<1>4. PICK f : f = SubSeq(s, 1, n)
    OBVIOUS
<1>5. f = Front(s)
    BY <1>2, <1>3, <1>4
<1>6. n \in Nat /\ \A i \in 1..n : s[i] \in S
    BY <1>1, <1>3
<1>7. f \in Seq(S) /\ Len(f) = n /\ \A i \in 1..n : f[i] = s[i]
    BY <1>4, <1>6, SubSeqProperties
<1> QED
    BY <1>3, <1>5, <1>7

(* A block is an item or a paragraph; only items have a group.             *)
LEMMA BlockGroups ==
    ASSUME NEW b \in Block
    PROVE  b.group \in 1..MaxLists \cup {NoGroup}
BY DEF Block, Item, Paragraph

LEMMA ParserBegins == ParserInit => ParserInv
<1> SUFFICES ASSUME ParserInit PROVE ParserInv
    OBVIOUS
<1>1. open = <<>> /\ blocks = <<>> /\ part = <<>> /\ place = <<>> /\ Len(<<>>) = 0
    BY DEF ParserInit
<1>2. ~InBlock /\ ~Sectioned /\ Begun = 0
    BY <1>1 DEF InBlock, Sectioned, Begun
<1>3. Nested
    BY <1>1, <1>2, ReaderBounds DEF Nested, ParserInit
<1>4. InStep
    BY <1>2, ReaderBounds DEF InStep, ParserInit, NoCounters
<1>5. Lines /\ Grouped /\ LastPart
    BY <1>1 DEF Lines, Grouped, LastPart, ParserInit
<1>6. PartsAreLists
    BY <1>1 DEF PartsAreLists
<1> QED
    BY <1>3, <1>4, <1>5, <1>6 DEF ParserInv

(* The shape of the document, for an action that opens or closes.          *)
LEMMA OpenShape ==
    ASSUME ParserInv
    PROVE  /\ open \in Seq(Element) /\ Len(open) \in Nat
           /\ DOMAIN open = 1..Len(open)
           /\ \A i \in 1..Len(open) : open[i] \in Element
           /\ open = <<>> <=> Len(open) = 0
           /\ blocks \in Seq(Block) /\ Len(blocks) \in Nat
BY DEF ParserInv, Nested

(* Everything but the end of a block leaves the lines as they are.         *)
LEMMA LinesStay ==
    ASSUME ParserInv, UNCHANGED <<blocks, part, prevGroup, place>>,
           lists' \in {lists, lists + 1},
           Sectioned' /\ lists' = lists => Sectioned,
           Nested', InStep'
    PROVE  ParserInv'
<1>1. lists \in Nat /\ lists' \in Nat
    BY ReaderBounds DEF ParserInv, Nested
<1>2. \A i \in 1..Len(part) :
         part[i] # 0 /\ place[i].group # NoGroup => place[i].group \in Nat
    <2>1. ASSUME NEW i \in 1..Len(part) PROVE place[i] \in Block
        BY DEF ParserInv, Lines, Nested
    <2> QED
        BY <2>1, BlockGroups, ReaderBounds
<1>3. Lines' /\ LastPart' /\ PartsAreLists'
    BY DEF ParserInv, Lines, LastPart, PartsAreLists, Parts
<1>4. Grouped'
    BY <1>1, <1>2 DEF ParserInv, Grouped
<1> QED
    BY <1>3, <1>4 DEF ParserInv

LEMMA OpenListKeepsInv ==
    ASSUME ParserInv, NEW style \in Style, OpenList(style)
    PROVE  ParserInv'
<1>1. PICK e : e = [kind |-> "list", style |-> style, items |-> 0]
    OBVIOUS
<1>2. e \in Element /\ e.kind = "list" /\ e.style = style /\ e.items = 0
    BY <1>1, ReaderBounds DEF Element
<1>3. open = <<>> /\ open' = Append(open, e) /\ lists < MaxLists /\ lists' = lists + 1
    BY <1>1 DEF OpenList, Opened
<1>4. open' \in Seq(Element) /\ Len(open') = 1 /\ open'[1] = e
    BY <1>2, <1>3
<1>5. Sectioned' /\ ~InBlock' /\ ~InBlock /\ ~Sectioned
    BY <1>2, <1>3, <1>4 DEF Sectioned, InBlock
<1>6. Nested'
    BY <1>2, <1>3, <1>4, <1>5, OpenShape, ReaderBounds
    DEF ParserInv, Nested, Begun, OpenList
<1>7. InStep'
    BY <1>2, <1>3, <1>4, <1>5, ReaderBounds
    DEF ParserInv, InStep, OpenList, NoCounters
<1> QED
    BY <1>3, <1>6, <1>7, LinesStay, ReaderBounds DEF OpenList, ParserInv, Nested

(* Where an element may be opened in a list, or a list closed.             *)
LEMMA InsideSection ==
    ASSUME ParserInv, Inside({"list", "ul"})
    PROVE  /\ Sectioned /\ ~InBlock /\ Begun = Len(blocks)
           /\ depth = Len(open) - 1 /\ Len(open) >= 1
           /\ \A i \in 2..Len(open) : open[i].kind = "ul"
           /\ open[Len(open)].kind = "list" <=> Len(open) = 1
<1>1. Len(open) >= 1 /\ open[Len(open)].kind \in {"list", "ul"}
    BY OpenShape DEF Inside, Last
<1>2. Sectioned /\ ~InBlock
    BY <1>1, OpenShape DEF ParserInv, Nested, Paragraphed, Sectioned, InBlock
<1>3. \A i \in 2..Len(open) : open[i].kind = "ul"
    BY <1>1, <1>2, OpenShape DEF Sectioned, InBlock
<1>4. Begun = Len(blocks)
    BY <1>2 DEF Begun
<1>5. depth = Len(open) - 1
    BY <1>2 DEF ParserInv, InStep
<1>6. open[Len(open)].kind = "list" <=> Len(open) = 1
    BY <1>1, <1>2, <1>3, OpenShape DEF Sectioned
<1> QED
    BY <1>1, <1>2, <1>3, <1>4, <1>5, <1>6

LEMMA OpenUlKeepsInv ==
    ASSUME ParserInv, OpenUl
    PROVE  ParserInv'
<1>1. PICK e : e = [kind |-> "ul", style |-> open[Len(open)].style, items |-> 0]
    OBVIOUS
<1>2. /\ Sectioned /\ ~InBlock /\ Begun = Len(blocks)
      /\ depth = Len(open) - 1 /\ Len(open) >= 1
      /\ \A i \in 2..Len(open) : open[i].kind = "ul"
    BY InsideSection DEF OpenUl
<1>3. e \in Element /\ e.kind = "ul" /\ e.items = 0
    BY <1>1, <1>2, OpenShape, ReaderBounds DEF Element
<1>4. open' = Append(open, e)
    BY <1>1 DEF OpenUl, Opened, Last
<1>5. /\ open' \in Seq(Element) /\ Len(open') = Len(open) + 1
      /\ open'[Len(open) + 1] = e
      /\ \A i \in 1..Len(open) : open'[i] = open[i]
    BY <1>3, <1>4, OpenShape
<1>6. Sectioned' /\ ~InBlock'
    BY <1>2, <1>3, <1>5, OpenShape DEF Sectioned, InBlock
<1>7. Begun' = Begun
    BY <1>2, <1>6 DEF Begun, OpenUl
<1>8. Nested'
    BY <1>2, <1>3, <1>5, <1>6, <1>7, OpenShape, ReaderBounds
    DEF ParserInv, Nested, OpenUl
<1>9. /\ depth \in Nat /\ depth < MaxDepth /\ depth' = depth + 1
      /\ counters' = [counters EXCEPT ![depth + 1] = 0]
      /\ counters \in [1..MaxDepth -> 0..MaxBlocks]
    BY ReaderBounds DEF OpenUl, ParserInv, InStep
<1>10. \A d \in 1..depth' : counters'[d] = open'[d + 1].items
    <2>1. ASSUME NEW d \in 1..depth' PROVE counters'[d] = open'[d + 1].items
        <3>1. CASE d = depth + 1
            BY <1>2, <1>3, <1>5, <1>9, <3>1, ReaderBounds
        <3>2. CASE d \in 1..depth
            <4>1. d + 1 \in 1..Len(open) /\ d \in 1..MaxDepth /\ d # depth + 1
                BY <1>2, <1>9, <3>2, OpenShape, ReaderBounds
            <4>2. counters[d] = open[d + 1].items
                BY <3>2 DEF ParserInv, InStep
            <4> QED
                BY <1>5, <1>9, <4>1, <4>2
        <3> QED
            BY <1>9, <3>1, <3>2
    <2> QED
        BY <2>1
<1>11. counters' \in [1..MaxDepth -> 0..MaxBlocks]
    BY <1>9, ReaderBounds
<1>12. depth' \in 0..MaxDepth /\ depth' = Len(open') - 1
    BY <1>2, <1>5, <1>9, OpenShape, ReaderBounds
<1>13. mode' = open'[1].style
    <2>1. open'[1] = open[1]
        BY <1>2, <1>5, OpenShape
    <2>2. mode' = open[1].style
        BY <1>2 DEF ParserInv, InStep, OpenUl
    <2> QED
        BY <2>1, <2>2
<1>14. group' = lists' /\ cur' = NoBlock
    BY <1>2 DEF ParserInv, InStep, OpenUl
<1>15. InStep'
    BY <1>6, <1>10, <1>11, <1>12, <1>13, <1>14 DEF InStep
<1> QED
    BY <1>2, <1>8, <1>15, LinesStay DEF OpenUl

LEMMA OpenItemKeepsInv ==
    ASSUME ParserInv, OpenItem
    PROVE  ParserInv'
<1> DEFINE n == Len(open)
<1>1. /\ Sectioned /\ ~InBlock /\ Begun = Len(blocks)
      /\ depth = n - 1 /\ n >= 2
      /\ \A i \in 2..n : open[i].kind = "ul"
    BY InsideSection, OpenShape DEF OpenItem, Inside, Last
<1>2. Largest(1, depth) = depth /\ depth \in 1..MaxDepth /\ depth \in Nat
    BY <1>1, OpenShape, ReaderBounds DEF Largest, ParserInv, InStep
<1>3. PICK number : number = counters[depth] + 1
    OBVIOUS
<1>4. counters[depth] = open[n].items /\ counters[depth] \in Nat
    <2>1. /\ counters \in [1..MaxDepth -> 0..MaxBlocks]
          /\ \A d \in 1..depth : counters[d] = open[d + 1].items
        BY DEF ParserInv, InStep
    <2>2. depth \in 1..depth /\ depth + 1 = n
        BY <1>1, <1>2, OpenShape
    <2> QED
        BY <1>2, <2>1, <2>2, ReaderBounds
<1>5. number \in 1..MaxBlocks /\ number <= Len(blocks) + 1 /\ Len(blocks) < MaxBlocks
    <2>1. open[n].items <= Len(blocks)
        BY <1>1, OpenShape DEF ParserInv, Nested
    <2>2. Len(blocks) < MaxBlocks
        BY DEF OpenItem
    <2> QED
        BY <1>3, <1>4, <2>1, <2>2, OpenShape, ReaderBounds
<1>6. PICK ul : ul = [open[n] EXCEPT !.items = number]
    OBVIOUS
<1>7. PICK e : e = [kind |-> "block", style |-> open[n].style, items |-> 0]
    OBVIOUS
<1>8. /\ open[n] \in Element
      /\ ul \in Element /\ ul.kind = "ul" /\ ul.items = number
      /\ e \in Element /\ e.kind = "block" /\ e.items = 0
    <2>1. open[n] \in Element /\ open[n].kind = "ul"
        BY <1>1, OpenShape
    <2>2. ul = [kind |-> "ul", style |-> open[n].style, items |-> number]
        BY <1>6, <2>1 DEF Element
    <2>3. number \in 0..MaxBlocks /\ open[n].style \in Style /\ 0 \in 0..MaxBlocks
        BY <1>5, <2>1, ReaderBounds DEF Element
    <2>4. ul \in Element /\ ul.kind = "ul" /\ ul.items = number
        BY <2>2, <2>3 DEF Element
    <2>5. e \in Element /\ e.kind = "block" /\ e.items = 0
        BY <1>7, <2>3 DEF Element
    <2> QED
        BY <2>1, <2>4, <2>5
<1>9. open' = Append([open EXCEPT ![n] = ul], e)
    <2>1. open' = Append([open EXCEPT ![n].items = @ + 1], e)
        BY <1>7 DEF OpenItem, Last
    <2>2. [open EXCEPT ![n].items = @ + 1] = [open EXCEPT ![n] = ul]
        BY <1>3, <1>4, <1>6
    <2> QED
        BY <2>1, <2>2
<1>10. /\ open' \in Seq(Element) /\ Len(open') = n + 1
       /\ open'[n + 1] = e /\ open'[n] = ul
       /\ \A i \in 1..n - 1 : open'[i] = open[i]
    <2> DEFINE s == [open EXCEPT ![n] = ul]
    <2>1. n \in 1..Len(open)
        BY <1>1, OpenShape
    <2>2. /\ s \in Seq(Element) /\ Len(s) = n
          /\ s[n] = ul /\ \A i \in 1..n - 1 : s[i] = open[i]
        BY <1>8, <2>1, OpenShape
    <2> HIDE DEF s
    <2>3. n \in Nat
        BY OpenShape
    <2>4. /\ Append(s, e) \in Seq(Element) /\ Len(Append(s, e)) = n + 1
          /\ Append(s, e)[n + 1] = e /\ \A i \in 1..n : Append(s, e)[i] = s[i]
        BY <1>8, <2>2, <2>3
    <2>5. open' = Append(s, e)
        BY <1>9 DEF s
    <2> QED
        BY <1>1, <2>2, <2>3, <2>4, <2>5
<1> HIDE DEF n
<1>11. n \in Nat /\ n = Len(open) /\ blocks' = blocks /\ lists' = lists /\ depth' = depth
                 /\ mode' = mode /\ group' = group
    BY OpenShape DEF n, OpenItem
<1>12. Sectioned' /\ InBlock'
    BY <1>1, <1>8, <1>10, <1>11 DEF Sectioned, InBlock
<1>13. Begun' = Len(blocks) + 1
    BY <1>11, <1>12 DEF Begun
<1>14. Nested'
    <2>1. ASSUME NEW i \in 1..n + 1 PROVE open'[i].items <= Len(blocks) + 1
        <3>1. CASE i \in 1..n - 1
            <4>1. open[i].items <= Len(blocks) /\ open[i].items \in Nat
                BY <1>1, <1>11, <3>1, OpenShape, ReaderBounds DEF ParserInv, Nested, Element
            <4> QED
                BY <1>10, <3>1, <4>1, OpenShape
        <3>2. CASE i = n
            BY <1>5, <1>8, <1>10, <3>2
        <3>3. CASE i = n + 1
            BY <1>8, <1>10, <3>3, OpenShape
        <3> QED
            BY <1>11, <3>1, <3>2, <3>3
    <2>2. Len(blocks) + 1 <= MaxBlocks
        BY <1>5, OpenShape, ReaderBounds
    <2> QED
        BY <1>1, <1>10, <1>11, <1>12, <1>13, <2>1, <2>2 DEF ParserInv, Nested
<1>15. counters' = [counters EXCEPT ![depth] = number]
       /\ counters \in [1..MaxDepth -> 0..MaxBlocks]
    BY <1>2, <1>3 DEF OpenItem, ParserInv, InStep
<1>16. counters' \in [1..MaxDepth -> 0..MaxBlocks]
    BY <1>2, <1>5, <1>15, ReaderBounds
<1>17. ASSUME NEW d \in 1..depth PROVE counters'[d] = open'[d + 1].items
    <2>1. CASE d = depth
        BY <1>1, <1>2, <1>8, <1>10, <1>11, <1>15, <2>1
    <2>2. CASE d # depth
        <3>1. d + 1 \in 1..n - 1 /\ d \in 1..MaxDepth
            BY <1>1, <1>2, <1>11, <2>2, ReaderBounds
        <3> QED
            BY <1>10, <1>15, <2>2, <3>1 DEF ParserInv, InStep
    <2> QED
        BY <2>1, <2>2
<1>18. cur' = [depth |-> depth, mode |-> open[1].style, number |-> number, group |-> lists]
    BY <1>1, <1>2, <1>3 DEF OpenItem, ParserInv, InStep
<1>19. cur' \in Block
    <2>1. open[1].style \in Style
        BY <1>1, OpenShape DEF Element, n
    <2>2. lists \in 1..MaxLists
        BY <1>1, ReaderBounds DEF ParserInv, Nested
    <2> QED
        BY <1>2, <1>5, <1>18, <2>1, <2>2 DEF Block, Item
<1>20. Place' = cur'
    <2>1. n \in {i \in DOMAIN open' : open'[i].kind = "ul"}
        BY <1>1, <1>8, <1>10, <1>11
    <2>2. Len(open') - 2 = depth /\ Len(open') - 1 = n
        BY <1>1, <1>10, <1>11
    <2>3. open'[1].style = open[1].style
        BY <1>1, <1>10, <1>11
    <2> QED
        BY <1>8, <1>10, <1>11, <1>18, <2>1, <2>2, <2>3 DEF Place
<1>21. depth' \in 0..MaxDepth /\ depth' = Len(open') - 2
    BY <1>1, <1>2, <1>10, <1>11, ReaderBounds
<1>22. mode' = open'[1].style /\ group' = lists'
    <2>1. open'[1] = open[1]
        BY <1>1, <1>10, <1>11
    <2>2. mode' = open[1].style /\ group' = lists'
        BY <1>1, <1>11 DEF ParserInv, InStep
    <2> QED
        BY <2>1, <2>2
<1>23. \A d \in 1..depth' : counters'[d] = open'[d + 1].items
    BY <1>11, <1>17
<1>24. InStep'
    BY <1>12, <1>16, <1>19, <1>20, <1>21, <1>22, <1>23 DEF InStep
<1> QED
    BY <1>1, <1>14, <1>24, LinesStay DEF OpenItem

LEMMA OpenParagraphKeepsInv ==
    ASSUME ParserInv, OpenParagraph
    PROVE  ParserInv'
<1>1. PICK e : e = [kind |-> "block", style |-> Bullet, items |-> 0]
    OBVIOUS
<1>2. e \in Element /\ e.kind = "block" /\ e.items = 0
    BY <1>1, ReaderBounds DEF Element
<1>3. open = <<>> /\ open' = Append(open, e) /\ Len(blocks) < MaxBlocks
      /\ UNCHANGED <<lists, mode, depth, counters, group, blocks>>
    BY <1>1 DEF OpenParagraph, Opened, parser
<1>4. open' \in Seq(Element) /\ Len(open') = 1 /\ open'[1] = e
    BY <1>2, <1>3
<1>5. Paragraphed' /\ InBlock' /\ ~Sectioned' /\ ~InBlock /\ ~Sectioned
    BY <1>2, <1>3, <1>4 DEF Paragraphed, Sectioned, InBlock
<1>6. Nested'
    BY <1>2, <1>3, <1>4, <1>5, OpenShape, ReaderBounds DEF ParserInv, Nested, Begun
<1>7. cur' = [depth |-> 0, mode |-> Bullet, number |-> 0, group |-> NoGroup]
    BY DEF OpenParagraph
<1>8. cur' \in Block /\ cur' = Place'
    <2>1. {i \in DOMAIN open' : open'[i].kind = "ul"} = {}
        BY <1>2, <1>4
    <2> QED
        BY <1>7, <2>1 DEF Place, Block, Paragraph
<1>9. InStep'
    BY <1>3, <1>5, <1>8 DEF ParserInv, InStep
<1> QED
    BY <1>3, <1>5, <1>6, <1>9, LinesStay DEF OpenParagraph
LEMMA CloseUlKeepsInv ==
    ASSUME ParserInv, CloseUl
    PROVE  ParserInv'
<1>1. /\ Sectioned /\ ~InBlock /\ Begun = Len(blocks)
      /\ depth = Len(open) - 1 /\ Len(open) >= 2
      /\ \A i \in 2..Len(open) : open[i].kind = "ul"
    BY InsideSection, OpenShape DEF CloseUl, Inside, Last
<1>2. PICK n : n = Len(open) - 1
    OBVIOUS
<1>3. n \in Nat /\ n >= 1 /\ Len(open) = n + 1 /\ depth = n
    BY <1>1, <1>2, OpenShape
<1>4. open' = Front(open)
    BY DEF CloseUl
<1>5. /\ open' \in Seq(Element) /\ Len(open') = n
      /\ \A i \in 1..n : open'[i] = open[i]
    BY <1>2, <1>3, <1>4, OpenShape, FrontProperties
<1>6. Sectioned' /\ ~InBlock'
    <2>1. open[1].kind = "list"
        BY <1>1 DEF Sectioned
    <2>2. open'[n].kind # "block"
        <3>1. CASE n = 1
            BY <1>3, <1>5, <2>1, <3>1
        <3>2. CASE n >= 2
            BY <1>1, <1>3, <1>5, <3>2
        <3> QED
            BY <1>3, <3>1, <3>2
    <2>3. \A i \in 2..n : open'[i].kind = "ul"
        BY <1>1, <1>3, <1>5
    <2> QED
        BY <1>3, <1>5, <2>1, <2>2, <2>3 DEF Sectioned, InBlock
<1>7. blocks' = blocks /\ lists' = lists /\ Begun' = Len(blocks)
    BY <1>6 DEF Begun, CloseUl
<1>8. Nested'
    <2>1. \A i \in 1..n : open'[i].items <= Begun'
        BY <1>1, <1>3, <1>5, <1>7, OpenShape DEF ParserInv, Nested
    <2>2. lists \in 0..MaxLists /\ lists >= 1 /\ Begun' <= MaxBlocks
        BY <1>1, <1>7 DEF ParserInv, Nested
    <2> QED
        BY <1>5, <1>6, <1>7, <2>1, <2>2, OpenShape DEF Nested
<1>9. /\ depth \in 0..MaxDepth /\ depth' = n - 1
      /\ counters' = [counters EXCEPT ![depth] = 0]
      /\ counters \in [1..MaxDepth -> 0..MaxBlocks]
    BY <1>3, ReaderBounds DEF CloseUl, ParserInv, InStep
<1>10. depth' \in 0..MaxDepth /\ depth' = Len(open') - 1
    BY <1>3, <1>5, <1>9, ReaderBounds
<1>11. counters' \in [1..MaxDepth -> 0..MaxBlocks]
    <2>1. 0 \in 0..MaxBlocks
        BY ReaderBounds
    <2> QED
        BY <1>9, <2>1
<1>12. ASSUME NEW d \in 1..n - 1 PROVE counters'[d] = open'[d + 1].items
    <2>1. d # depth /\ d \in 1..depth /\ d + 1 \in 1..n /\ d \in 1..MaxDepth
        BY <1>3, <1>9, ReaderBounds
    <2>2. counters[d] = open[d + 1].items
        BY <2>1 DEF ParserInv, InStep
    <2> QED
        BY <1>5, <1>9, <2>1, <2>2
<1>13. mode' = open'[1].style
    <2>1. open'[1] = open[1]
        BY <1>3, <1>5
    <2>2. mode' = open[1].style
        BY <1>1 DEF ParserInv, InStep, CloseUl
    <2> QED
        BY <2>1, <2>2
<1>14. group' = lists' /\ cur' = NoBlock
    BY <1>1 DEF ParserInv, InStep, CloseUl
<1>15. InStep'
    BY <1>6, <1>9, <1>10, <1>11, <1>12, <1>13, <1>14 DEF InStep
<1> QED
    BY <1>1, <1>7, <1>8, <1>15, LinesStay DEF CloseUl

LEMMA CloseListKeepsInv ==
    ASSUME ParserInv, CloseList
    PROVE  ParserInv'
<1>1. Sectioned /\ ~InBlock /\ Begun = Len(blocks) /\ Len(open) = 1
    BY InsideSection, OpenShape DEF CloseList, Inside, Last
<1>2. open' = Front(open) /\ open # <<>>
    BY DEF CloseList, Inside
<1>3. open' \in Seq(Element) /\ Len(open') = 0
    BY <1>1, <1>2, OpenShape, FrontProperties
<1>4. open' = <<>> /\ ~Sectioned' /\ ~InBlock'
    BY <1>3 DEF Sectioned, InBlock
<1>5. blocks' = blocks /\ lists' = lists /\ Begun' = Begun
    BY <1>1, <1>4 DEF Begun, CloseList
<1>6. Nested'
    BY <1>3, <1>4, <1>5 DEF ParserInv, Nested
<1>7. InStep'
    <2>1. depth' = 0 /\ mode' = Bullet /\ group' = lists' /\ cur' = NoBlock
        BY <1>1 DEF CloseList, ParserInv, InStep
    <2>2. counters' \in [1..MaxDepth -> 0..MaxBlocks]
        BY ReaderBounds DEF CloseList, NoCounters
    <2> QED
        BY <1>4, <2>1, <2>2, ReaderBounds DEF InStep
<1> QED
    BY <1>1, <1>4, <1>5, <1>6, <1>7, LinesStay DEF CloseList
--------------------------------------------------------------------------------
(* The number of the last part, from the numbers of the lines.             *)
Highest(s) == Max({0} \cup Range(s))

LEMMA HighestIs ==
    ASSUME NEW s \in Seq(Nat), \A i \in 1..Len(s) : s[i] <= i
    PROVE  /\ Highest(s) \in Nat /\ Highest(s) <= Len(s)
           /\ \A i \in 1..Len(s) : s[i] <= Highest(s)
           /\ Highest(s) = 0 \/ \E i \in 1..Len(s) : s[i] = Highest(s)
<1> DEFINE T == {0} \cup {s[i] : i \in 1..Len(s)}
           B == {b \in Nat : \A t \in T : t <= b}
<1>1. Len(s) \in Nat /\ DOMAIN s = 1..Len(s) /\ \A i \in 1..Len(s) : s[i] \in Nat
    OBVIOUS
<1>2. T \subseteq Nat /\ 0 \in T
    BY <1>1
<1>3. Len(s) \in B
    <2>1. ASSUME NEW i \in 1..Len(s) PROVE s[i] <= Len(s)
        BY <1>1
    <2> QED
        BY <1>1, <2>1
<1>4. PICK b \in B : \A c \in B : b <= c
    <2>1. B \in SUBSET Nat /\ B # {}
        BY <1>3
    <2> HIDE DEF B
    <2> QED
        BY <2>1, FirstOf
<1> HIDE DEF T
<1>5. b \in Nat /\ b <= Len(s) /\ \A t \in T : t <= b
    BY <1>3, <1>4
<1>6. b \in T
    <2>1. SUFFICES ASSUME b \notin T PROVE FALSE
        OBVIOUS
    <2>2. b >= 1
        BY <1>2, <1>5, <2>1
    <2>3. ASSUME NEW t \in T PROVE t <= b - 1
        BY <1>2, <1>5, <2>1
    <2>4. b - 1 \in B
        BY <1>5, <2>2, <2>3
    <2> QED
        BY <1>4, <1>5, <2>4
<1>7. Highest(s) = CHOOSE x \in T : \A y \in T : x >= y
    BY <1>1 DEF Highest, Max, Range, T
<1>8. Highest(s) \in T /\ \A y \in T : Highest(s) >= y
    BY <1>2, <1>5, <1>6, <1>7
<1>9. PICK h : h = Highest(s)
    OBVIOUS
<1>10. h \in Nat /\ h <= b /\ h >= b
    BY <1>2, <1>5, <1>6, <1>8, <1>9
<1>11. Highest(s) = b
    BY <1>5, <1>9, <1>10
<1> QED
    BY <1>5, <1>6, <1>11 DEF T

LEMMA HighestAppend ==
    ASSUME NEW s \in Seq(Nat), \A i \in 1..Len(s) : s[i] <= i,
           NEW x \in Nat, x <= Len(s) + 1
    PROVE  /\ Append(s, x) \in Seq(Nat) /\ Len(Append(s, x)) = Len(s) + 1
           /\ \A i \in 1..Len(s) : Append(s, x)[i] = s[i]
           /\ Append(s, x)[Len(s) + 1] = x
           /\ \A i \in 1..Len(s) + 1 : Append(s, x)[i] <= i
           /\ Highest(Append(s, x)) = IF x > Highest(s) THEN x ELSE Highest(s)
<1>1. PICK t : t = Append(s, x)
    OBVIOUS
<1>2. Len(s) \in Nat /\ \A i \in 1..Len(s) : s[i] \in Nat
    OBVIOUS
<1>3. /\ t \in Seq(Nat) /\ Len(t) = Len(s) + 1
      /\ \A i \in 1..Len(s) : t[i] = s[i]
      /\ t[Len(s) + 1] = x
    BY <1>1
<1>4. ASSUME NEW i \in 1..Len(s) + 1 PROVE t[i] <= i
    BY <1>2, <1>3
<1>5. /\ Highest(s) \in Nat /\ \A i \in 1..Len(s) : s[i] <= Highest(s)
      /\ Highest(s) = 0 \/ \E i \in 1..Len(s) : s[i] = Highest(s)
    BY HighestIs
<1>6. /\ Highest(t) \in Nat /\ \A i \in 1..Len(t) : t[i] <= Highest(t)
      /\ Highest(t) = 0 \/ \E i \in 1..Len(t) : t[i] = Highest(t)
    BY <1>3, <1>4, HighestIs
<1>7. x <= Highest(t) /\ Highest(s) <= Highest(t)
    <2>1. Len(s) + 1 \in 1..Len(t)
        BY <1>2, <1>3
    <2>2. \A i \in 1..Len(s) : s[i] <= Highest(t)
        BY <1>2, <1>3, <1>6
    <2> QED
        BY <1>3, <1>5, <1>6, <2>1, <2>2
<1>8. Highest(t) = x \/ Highest(t) <= Highest(s)
    <2>1. CASE Highest(t) = 0
        BY <1>5, <2>1
    <2>2. ASSUME NEW i \in 1..Len(t), t[i] = Highest(t)
          PROVE  Highest(t) = x \/ Highest(t) <= Highest(s)
        <3>1. i = Len(s) + 1 \/ i \in 1..Len(s)
            BY <1>2, <1>3
        <3> QED
            BY <1>3, <1>5, <2>2, <3>1
    <2> QED
        BY <1>6, <2>1, <2>2
<1>9. Highest(t) = IF x > Highest(s) THEN x ELSE Highest(s)
    BY <1>5, <1>6, <1>7, <1>8
<1> QED
    BY <1>1, <1>3, <1>4, <1>9

(* The list a block that is open belongs to.                               *)
LEMMA BlockInList ==
    ASSUME ParserInv, InBlock
    PROVE  /\ cur \in Block /\ cur = Place
           /\ Sectioned => Len(open) >= 3 /\ cur.group = lists
           /\ ~Sectioned => Paragraphed /\ cur.group = NoGroup
<1>1. cur \in Block /\ cur = Place
    BY DEF ParserInv, InStep
<1>2. ASSUME Sectioned PROVE Len(open) >= 3 /\ cur.group = lists
    <2>1. Len(open) >= 3
        BY <1>2, OpenShape DEF Sectioned, InBlock
    <2>2. 2 \in {i \in DOMAIN open : open[i].kind = "ul"}
        BY <1>2, <2>1, OpenShape DEF Sectioned
    <2> QED
        BY <1>1, <2>1, <2>2 DEF Place
<1>3. ASSUME ~Sectioned PROVE Paragraphed /\ cur.group = NoGroup
    <2>1. Paragraphed
        BY <1>3, OpenShape DEF ParserInv, Nested, InBlock
    <2>2. {i \in DOMAIN open : open[i].kind = "ul"} = {}
        BY <2>1, OpenShape DEF Paragraphed
    <2> QED
        BY <1>1, <2>1, <2>2 DEF Place
<1> QED
    BY <1>1, <1>2, <1>3
(* A line more: of the last part, of a new one, or of none.                *)
LEMMA JoinKeepsLines ==
    ASSUME ParserInv, InBlock, NEW visible \in BOOLEAN,
           Join(cur, visible),
           blocks' = Append(blocks, cur), place' = Append(place, Place),
           lists' = lists, Sectioned' = Sectioned
    PROVE  Lines' /\ Grouped' /\ LastPart' /\ PartsAreLists'
<1>1. PICK g : g = cur.group
    OBVIOUS
<1>2. PICK p : p = Highest(part)
    OBVIOUS
<1>3. PICK m : m = Len(part)
    OBVIOUS
<1>4. /\ cur \in Block /\ cur = Place /\ g \in 1..MaxLists \cup {NoGroup}
      /\ Sectioned => g = lists
      /\ ~Sectioned => g = NoGroup
      /\ lists \in Nat /\ lists # NoGroup
    BY <1>1, BlockInList, BlockGroups, ReaderBounds DEF ParserInv, Nested
<1>5. /\ m \in Nat /\ m = Len(part) /\ m = Len(place) /\ m = Len(blocks)
      /\ place = blocks /\ place \in Seq(Block) /\ part \in Seq(Nat)
      /\ \A i \in 1..m : part[i] <= i /\ part[i] \in Nat
    <2>1. /\ place = blocks /\ blocks \in Seq(Block) /\ part \in Seq(Nat)
          /\ Len(part) = Len(blocks) /\ \A i \in 1..Len(part) : part[i] <= i
        BY DEF ParserInv, Lines, Nested
    <2>2. m \in Nat /\ \A i \in 1..m : part[i] \in Nat
        BY <1>3, <2>1
    <2> QED
        BY <1>3, <2>1, <2>2
<1>6. /\ p \in Nat /\ p <= m /\ p = Parts
      /\ \A i \in 1..m : part[i] <= p
    BY <1>2, <1>5, HighestIs DEF Highest, Parts
<1>7. PICK x : x = IF visible THEN (IF g # NoGroup /\ g = prevGroup THEN p ELSE p + 1) ELSE 0
    OBVIOUS
<1>8. /\ x \in Nat /\ x <= m + 1
      /\ part' = Append(part, x)
      /\ prevGroup' = IF visible THEN g ELSE prevGroup
    BY <1>1, <1>5, <1>6, <1>7 DEF Join
<1>9. /\ part' \in Seq(Nat) /\ Len(part') = m + 1
      /\ \A i \in 1..m : part'[i] = part[i]
      /\ part'[m + 1] = x
      /\ \A i \in 1..m + 1 : part'[i] <= i
      /\ Parts' = IF x > p THEN x ELSE p
    <2>1. /\ Append(part, x) \in Seq(Nat) /\ Len(Append(part, x)) = m + 1
          /\ \A i \in 1..m : Append(part, x)[i] = part[i]
          /\ Append(part, x)[m + 1] = x
          /\ \A i \in 1..m + 1 : Append(part, x)[i] <= i
          /\ Highest(Append(part, x)) = IF x > p THEN x ELSE p
        <3>1. part \in Seq(Nat) /\ x \in Nat /\ x <= Len(part) + 1
              /\ \A i \in 1..Len(part) : part[i] <= i
            BY <1>5, <1>8
        <3>2. /\ Append(part, x) \in Seq(Nat) /\ Len(Append(part, x)) = Len(part) + 1
              /\ \A i \in 1..Len(part) : Append(part, x)[i] = part[i]
              /\ Append(part, x)[Len(part) + 1] = x
              /\ \A i \in 1..Len(part) + 1 : Append(part, x)[i] <= i
              /\ Highest(Append(part, x)) = IF x > Highest(part) THEN x ELSE Highest(part)
            BY <3>1, HighestAppend, Zenon
        <3> QED
            BY <1>2, <1>3, <3>2
    <2>2. Parts' = Highest(Append(part, x))
        BY <1>8 DEF Highest, Parts
    <2> QED
        BY <1>8, <2>1, <2>2
<1>10. /\ place' = blocks' /\ place' \in Seq(Block) /\ Len(place') = m + 1
       /\ \A i \in 1..m : place'[i] = place[i]
       /\ place'[m + 1] = cur /\ place'[m + 1].group = g
    BY <1>1, <1>4, <1>5
<1>11. Lines'
    <2>1. prevGroup' \in 1..MaxLists \cup {NoGroup}
        BY <1>4, <1>8 DEF ParserInv, Lines
    <2>2. Len(part') = Len(blocks')
        BY <1>9, <1>10
    <2> QED
        BY <1>9, <1>10, <2>1, <2>2 DEF Lines
<1>12. ASSUME NEW i \in 1..m + 1
       PROVE  i = m + 1 \/ (i \in 1..m /\ part'[i] = part[i] /\ place'[i] = place[i])
    BY <1>5, <1>9, <1>10
<1>13. Grouped'
    <2>1. ASSUME NEW i \in 1..m + 1, part'[i] # 0, place'[i].group # NoGroup
          PROVE  /\ place'[i].group <= lists
                 /\ Sectioned /\ place'[i].group = lists => prevGroup' = lists
        <3>1. CASE i = m + 1
            <4>1. visible
                BY <1>7, <1>9, <2>1, <3>1
            <4>2. g = lists
                BY <1>4, <1>10, <2>1, <3>1
            <4> QED
                BY <1>4, <1>8, <1>10, <3>1, <4>1, <4>2
        <3>2. CASE i \in 1..m /\ part'[i] = part[i] /\ place'[i] = place[i]
            <4>1. /\ place[i].group <= lists
                  /\ Sectioned /\ place[i].group = lists => prevGroup = lists
                BY <1>5, <2>1, <3>2 DEF ParserInv, Grouped
            <4> QED
                BY <1>4, <1>8, <3>2, <4>1
        <3> QED
            BY <1>12, <3>1, <3>2
    <2>2. \A i \in 1..Len(part') : part'[i] # 0 /\ place'[i].group # NoGroup =>
             /\ place'[i].group <= lists'
             /\ Sectioned' /\ place'[i].group = lists' => prevGroup' = lists'
        BY <1>9, <2>1
    <2> QED
        BY <2>2 DEF Grouped
(* A new part is begun only by a block of another list than all before.    *)
<1>14. ASSUME visible, ~(g # NoGroup /\ g = prevGroup), g # NoGroup, NEW i \in 1..m, part[i] # 0
       PROVE  place[i].group # g
    <2>1. Sectioned /\ g = lists
        BY <1>4, <1>14
    <2> QED
        BY <1>4, <1>5, <1>14, <2>1 DEF ParserInv, Grouped
<1>15. ASSUME prevGroup # NoGroup, NEW i \in 1..m, part[i] # 0
       PROVE  place[i].group = prevGroup <=> part[i] = p
    BY <1>5, <1>6, <1>15 DEF ParserInv, LastPart
<1>16. LastPart'
    <2>1. ASSUME prevGroup' # NoGroup, NEW i \in 1..m + 1, part'[i] # 0
          PROVE  place'[i].group = prevGroup' <=> part'[i] = Parts'
        <3>1. CASE ~visible
            <4>1. i \in 1..m /\ part'[i] = part[i] /\ place'[i] = place[i]
                BY <1>7, <1>9, <1>12, <2>1, <3>1
            <4>2. Parts' = p /\ prevGroup' = prevGroup
                BY <1>6, <1>7, <1>8, <1>9, <3>1
            <4> QED
                BY <1>15, <2>1, <4>1, <4>2
        <3>2. CASE visible /\ g # NoGroup /\ g = prevGroup
            <4>1. Parts' = p /\ prevGroup' = g /\ x = p
                BY <1>6, <1>7, <1>8, <1>9, <3>2
            <4> QED
                BY <1>9, <1>10, <1>12, <1>15, <2>1, <3>2, <4>1
        <3>3. CASE visible /\ ~(g # NoGroup /\ g = prevGroup)
            <4>1. Parts' = p + 1 /\ prevGroup' = g /\ x = p + 1
                BY <1>6, <1>7, <1>8, <1>9, <3>3
            <4>2. CASE i = m + 1
                BY <1>9, <1>10, <4>1, <4>2
            <4>3. CASE i \in 1..m /\ part'[i] = part[i] /\ place'[i] = place[i]
                <5>1. place[i].group # g
                    BY <1>14, <2>1, <3>3, <4>1, <4>3
                <5>2. part[i] # p + 1
                    BY <1>5, <1>6, <4>3
                <5> QED
                    BY <4>1, <4>3, <5>1, <5>2
            <4> QED
                BY <1>12, <4>2, <4>3
        <3> QED
            BY <3>1, <3>2, <3>3
    <2>2. Len(part') = m + 1
        BY <1>9
    <2> QED
        BY <2>1, <2>2 DEF LastPart
<1>17. PartsAreLists'
    <2>1. ASSUME NEW i \in 1..m + 1, NEW j \in 1..m + 1, i < j, part'[i] # 0, part'[j] # 0
          PROVE  /\ part'[i] <= part'[j]
                 /\ part'[i] = part'[j]
                      <=> place'[i].group # NoGroup /\ place'[i].group = place'[j].group
        <3>1. i \in 1..m /\ part'[i] = part[i] /\ place'[i] = place[i]
            BY <1>5, <1>12, <2>1
        <3>2. CASE j \in 1..m /\ part'[j] = part[j] /\ place'[j] = place[j]
            <4>1. i \in DOMAIN part /\ j \in DOMAIN part
                <5>1. part \in Seq(Nat)
                    BY <1>5
                <5>2. DOMAIN part = 1..Len(part)
                    BY <5>1
                <5> QED
                    BY <1>3, <3>1, <3>2, <5>2
            <4> QED
                BY <2>1, <3>1, <3>2, <4>1 DEF ParserInv, PartsAreLists
        <3>3. CASE j = m + 1
            <4>1. part'[j] = x /\ place'[j].group = g /\ visible
                BY <1>7, <1>9, <1>10, <2>1, <3>3
            <4>2. CASE g # NoGroup /\ g = prevGroup
                <5>1. x = p
                    BY <1>7, <4>1, <4>2
                <5>2. place[i].group = prevGroup <=> part[i] = p
                    BY <1>15, <2>1, <3>1, <4>2
                <5> QED
                    BY <1>6, <3>1, <4>1, <4>2, <5>1, <5>2
            <4>3. CASE ~(g # NoGroup /\ g = prevGroup)
                <5>1. x = p + 1
                    BY <1>7, <4>1, <4>3
                <5>2. part[i] <= p /\ part[i] \in Nat
                    BY <1>5, <1>6, <3>1
                <5>3. ~(place[i].group # NoGroup /\ place[i].group = g)
                    BY <1>14, <2>1, <3>1, <4>1, <4>3
                <5> QED
                    BY <1>6, <3>1, <4>1, <5>1, <5>2, <5>3
            <4> QED
                BY <4>2, <4>3
        <3> QED
            BY <1>12, <3>2, <3>3
    <2>2. DOMAIN part' = 1..m + 1
        BY <1>9
    <2> QED
        BY <2>1, <2>2 DEF PartsAreLists
<1> QED
    BY <1>11, <1>13, <1>16, <1>17
LEMMA CloseBlockKeepsInv ==
    ASSUME ParserInv, CloseBlock
    PROVE  ParserInv'
<1>1. InBlock /\ Len(open) >= 1 /\ Begun = Len(blocks) + 1
    BY OpenShape DEF CloseBlock, Inside, Last, InBlock, Begun
<1>2. PICK n : n = Len(open) - 1
    OBVIOUS
<1>3. n \in Nat /\ Len(open) = n + 1 /\ open # <<>>
    BY <1>1, <1>2, OpenShape
<1>4. /\ open' \in Seq(Element) /\ Len(open') = n
      /\ \A i \in 1..n : open'[i] = open[i]
    BY <1>2, <1>3, OpenShape, FrontProperties DEF CloseBlock
<1>5. cur \in Block /\ (Sectioned => n >= 2) /\ (~Sectioned => n = 0)
    BY <1>1, <1>3, BlockInList DEF Paragraphed
<1>6. ASSUME Sectioned PROVE Sectioned' /\ ~InBlock'
    <2>1. n >= 2 /\ open[1].kind = "list" /\ \A i \in 2..n : open[i].kind = "ul"
        BY <1>3, <1>5, <1>6 DEF Sectioned
    <2>2. open'[1].kind = "list" /\ \A i \in 2..n : open'[i].kind = "ul"
        BY <1>3, <1>4, <2>1
    <2> QED
        BY <1>3, <1>4, <2>1, <2>2 DEF Sectioned, InBlock
<1>7. ASSUME ~Sectioned PROVE open' = <<>> /\ ~Sectioned' /\ ~InBlock'
    <2>1. Len(open') = 0
        BY <1>4, <1>5, <1>7
    <2> QED
        BY <1>4, <2>1 DEF Sectioned, InBlock
<1>8. /\ blocks' = Append(blocks, cur) /\ place' = Append(place, Place)
      /\ UNCHANGED <<lists, mode, depth, counters, group>> /\ cur' = NoBlock
    BY DEF CloseBlock, parser
<1>9. blocks' \in Seq(Block) /\ Begun' = Begun
    <2>1. Append(blocks, cur) \in Seq(Block) /\ Len(Append(blocks, cur)) = Len(blocks) + 1
        BY <1>5, OpenShape
    <2> QED
        BY <1>1, <1>6, <1>7, <1>8, <2>1 DEF Begun
<1>10. Nested'
    <2>1. \A i \in 1..n : open'[i].items <= Begun
        BY <1>3, <1>4 DEF ParserInv, Nested
    <2>2. open' = <<>> \/ Sectioned'
        BY <1>6, <1>7
    <2>3. lists' \in 0..MaxLists /\ (Sectioned' => lists' >= 1) /\ Begun' <= MaxBlocks
        BY <1>6, <1>7, <1>8, <1>9 DEF ParserInv, Nested
    <2> QED
        BY <1>4, <1>9, <2>1, <2>2, <2>3 DEF Nested
<1>11. InStep'
    <2>1. /\ depth' \in 0..MaxDepth /\ counters' \in [1..MaxDepth -> 0..MaxBlocks]
          /\ group' = lists' /\ cur' = NoBlock
        BY <1>8 DEF ParserInv, InStep
    <2>2. CASE ~Sectioned
        <3>1. depth' = 0 /\ mode' = Bullet
            BY <1>8, <2>2 DEF ParserInv, InStep
        <3> QED
            BY <1>7, <2>1, <2>2, <3>1 DEF InStep
    <2>3. CASE Sectioned
        <3>1. depth' = n - 1 /\ mode' = open[1].style
            BY <1>1, <1>3, <1>8, <2>3 DEF ParserInv, InStep
        <3>2. depth' = Len(open') - 1 /\ mode' = open'[1].style
            BY <1>3, <1>4, <1>5, <2>3, <3>1
        <3>3. ASSUME NEW d \in 1..n - 1 PROVE counters'[d] = open'[d + 1].items
            <4>1. d \in 1..depth /\ d + 1 \in 1..n
                BY <1>3, <1>8, <3>1
            <4> QED
                BY <1>4, <1>8, <4>1 DEF ParserInv, InStep
        <3> QED
            BY <1>6, <2>1, <2>3, <3>1, <3>2, <3>3 DEF InStep
    <2> QED
        BY <2>2, <2>3
<1>12. Sectioned' = Sectioned
    <2>1. Sectioned' \in BOOLEAN /\ Sectioned \in BOOLEAN
        BY DEF Sectioned
    <2> QED
        BY <1>6, <1>7, <2>1
<1>13. PICK visible \in BOOLEAN : Join(cur, visible)
    BY DEF CloseBlock
<1>14. Lines' /\ Grouped' /\ LastPart' /\ PartsAreLists'
    BY <1>1, <1>8, <1>12, <1>13, JoinKeepsLines
<1> QED
    BY <1>10, <1>11, <1>14 DEF ParserInv

LEMMA ParserStep ==
    ASSUME ParserInv, [ParserNext]_parserVars
    PROVE  ParserInv'
<1>1. ASSUME NEW style \in Style, OpenList(style) PROVE ParserInv'
    BY <1>1, OpenListKeepsInv
<1>2. CASE OpenUl
    BY <1>2, OpenUlKeepsInv
<1>3. CASE OpenItem
    BY <1>3, OpenItemKeepsInv
<1>4. CASE OpenParagraph
    BY <1>4, OpenParagraphKeepsInv
<1>5. CASE CloseBlock
    BY <1>5, CloseBlockKeepsInv
<1>6. CASE CloseUl
    BY <1>6, CloseUlKeepsInv
<1>7. CASE CloseList
    BY <1>7, CloseListKeepsInv
<1>8. CASE UNCHANGED parserVars
    <2>1. UNCHANGED <<open, lists, mode, depth, counters, group, cur, blocks, part, prevGroup, place>>
        BY <1>8 DEF parserVars, parser
    <2>2. UNCHANGED <<InBlock, Sectioned, Paragraphed, Place, Parts>>
        BY <2>1 DEF InBlock, Sectioned, Paragraphed, Place, Parts
    <2>3. Nested' /\ InStep'
        BY <2>1, <2>2 DEF ParserInv, Nested, InStep, Begun
    <2> QED
        BY <2>1, <2>2, <2>3, LinesStay
<1> QED
    BY <1>1, <1>2, <1>3, <1>4, <1>5, <1>6, <1>7, <1>8 DEF ParserNext

LEMMA ParserInvariance == ParserSpec => []ParserInv
<1>1. ParserInit => ParserInv
    BY ParserBegins
<1>2. ParserInv /\ [ParserNext]_parserVars => ParserInv'
    BY ParserStep
<1> QED
    BY <1>1, <1>2, PTL DEF ParserSpec
(* The parser's fields and its lines keep their types: depth never falls   *)
(* below 0, and a block is current exactly while one is open (every branch *)
(* of handle_starttag and handle_endtag).                                  *)
THEOREM ReaderTypeCorrect == ParserSpec => []ParserTypeOK
<1>1. ParserInv => ParserTypeOK
    <2> SUFFICES ASSUME ParserInv PROVE ParserTypeOK
        OBVIOUS
    <2>1. mode \in Style
        <3>1. CASE Sectioned
            <4>1. Len(open) >= 1 /\ open[1].style \in Style
                BY <3>1, OpenShape DEF Sectioned, Element
            <4> QED
                BY <3>1, <4>1 DEF ParserInv, InStep
        <3>2. CASE ~Sectioned
            BY <3>2, ReaderBounds DEF ParserInv, InStep
        <3> QED
            BY <3>1, <3>2
    <2>2. cur \in Item \cup Paragraph \cup {NoBlock}
        BY DEF ParserInv, InStep, Block
    <2>3. cur # NoBlock <=> open # <<>> /\ Last(open).kind = "block"
        <3>1. cur # NoBlock <=> InBlock
            BY ReaderBounds DEF ParserInv, InStep
        <3>2. InBlock <=> open # <<>> /\ Last(open).kind = "block"
            BY OpenShape DEF InBlock, Last
        <3> QED
            BY <3>1, <3>2
    <2>4. part \in [DOMAIN blocks -> 0..MaxBlocks]
        <3>1. /\ blocks \in Seq(Block) /\ part \in Seq(Nat) /\ Len(part) = Len(blocks)
              /\ \A i \in 1..Len(part) : part[i] <= i
            BY DEF ParserInv, Lines, Nested
        <3>2. Len(blocks) \in Nat /\ Len(blocks) <= MaxBlocks
            BY <3>1, ReaderBounds DEF ParserInv, Nested, Begun
        <3>3. DOMAIN part = 1..Len(blocks) /\ DOMAIN blocks = 1..Len(blocks)
            BY <3>1
        <3>4. ASSUME NEW i \in 1..Len(blocks) PROVE part[i] \in 0..MaxBlocks
            BY <3>1, <3>2, ReaderBounds
        <3>5. part = [i \in 1..Len(blocks) |-> part[i]]
            BY <3>1, <3>3
        <3> QED
            BY <3>3, <3>4, <3>5
    <2>5. depth \in 0..MaxDepth /\ counters \in [1..MaxDepth -> 0..MaxBlocks] /\ group \in 0..MaxLists
        BY DEF ParserInv, Nested, InStep
    <2> QED
        BY <2>1, <2>2, <2>3, <2>4, <2>5 DEF ParserTypeOK, ParserInv, Nested, Lines, Block
<1> QED
    BY <1>1, ParserInvariance, PTL

(* Every block is read with the depth, the number, the style and the list  *)
(* that it has in the document: at every nesting, _CanvasParser's counters *)
(* say what the stack it does not keep would (handle_starttag, on li).     *)
THEOREM BlocksAreReadInPlace == ParserSpec => []BlocksStandInPlace
<1>1. ParserInv => BlocksStandInPlace
    BY DEF ParserInv, Lines, BlocksStandInPlace
<1> QED
    BY <1>1, ParserInvariance, PTL

(* Two lines are in one part of the markdown exactly when both are items   *)
(* of one list, and the parts keep the order of the lines: parse_canvas    *)
(* compares each item with the block before it only, and that is enough.   *)
THEOREM PartsAreTheLists == ParserSpec => []PartsAreLists
<1>1. ParserInv => PartsAreLists
    BY DEF ParserInv
<1> QED
    BY <1>1, ParserInvariance, PTL
================================================================================
