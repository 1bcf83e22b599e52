--------------------------- MODULE EthzTlbProofs ----------------------------
(***************************************************************************)
(* For every slice table, every configuration and every size of the TLB, a *)
(* request of the core reaches memory at the address of the page it named, *)
(* the core gets an answer to the request it made, and the device panics   *)
(* only for the causes that PanicCauses names.                             *)
(***************************************************************************)
EXTENDS EthzTlb, FiniteSetTheorems, SequenceTheorems, TLAPS

Rule == [vaddr : Nat, paddr : Nat, size : Nat \ {0}]

-----------------------------------------------------------------------------
(* The first match and the victim.                                         *)

\* A non-empty set of natural numbers has a least element.
LEMMA Least ==
  ASSUME NEW S \in SUBSET Nat, S # {}
  PROVE  \E i \in S : \A j \in S : i <= j
<1> DEFINE R == OpToRel(<, Nat)
<1>1. \A x, y \in Nat : <<y, x>> \in R <=> y < x
  BY Zenon DEF OpToRel
<1>2. IsWellFoundedOn(R, Nat)
  BY NatLessThanWellFounded, Zenon
<1> HIDE DEF R
<1>3. PICK x \in S : \A y \in S : ~(<<y, x>> \in R)
  BY <1>2, WFMin, Zenon
<1>4. \A y \in S : ~(y < x)
  BY <1>1, <1>3, Zenon
<1> QED
  BY <1>4

\* remap returns the first rule that contains the address.
LEMMA FindFirst ==
  ASSUME NEW t, t.rules \in Seq(Rule), NEW a \in Nat
  PROVE  /\ Find(t, a) \in 0..Len(t.rules)
         /\ Find(t, a) > 0 => Covers(t.rules[Find(t, a)], a)
         /\ Find(t, a) = 0 => \A i \in DOMAIN t.rules : ~Covers(t.rules[i], a)
         /\ \A i \in DOMAIN t.rules : Covers(t.rules[i], a) => Find(t, a) \in 1..i
<1> DEFINE hits == {i \in DOMAIN t.rules : Covers(t.rules[i], a)}
           First(i) == i \in hits /\ \A j \in hits : i <= j
<1>1. hits \in SUBSET Nat /\ DOMAIN t.rules = 1..Len(t.rules)
  OBVIOUS
<1>2. Find(t, a) = IF hits = {} THEN 0 ELSE CHOOSE i \in hits : \A j \in hits : i <= j
  BY DEF Find
<1>3. \A i : i \in hits <=> i \in DOMAIN t.rules /\ Covers(t.rules[i], a)
  OBVIOUS
<1> HIDE DEF hits
<1>4. CASE hits = {}
  BY <1>1, <1>2, <1>3, <1>4
<1>5. CASE hits # {}
  <2>1. \E i \in hits : \A j \in hits : i <= j
    BY <1>1, <1>5, Least
  <2>2. Find(t, a) \in hits /\ \A j \in hits : Find(t, a) <= j
    BY <1>2, <1>5, <2>1, Zenon
  <2> QED
    BY <1>1, <1>3, <2>2
<1> QED
  BY <1>4, <1>5

\* updateTLB selects a rule other than the first, with the least tick.
LEMMA VictimLeast ==
  ASSUME NEW l \in Seq(Nat), Len(l) >= 2
  PROVE  Victim(l) \in 2..Len(l) /\ \A j \in 2..Len(l) : l[Victim(l)] <= l[j]
<1> DEFINE ticks == {l[j] : j \in 2..Len(l)}
<1>1. ticks \in SUBSET Nat /\ l[2] \in ticks
  OBVIOUS
<1>2. \A j \in 2..Len(l) : l[j] \in ticks
  OBVIOUS
<1>3. \A n \in ticks : \E j \in 2..Len(l) : n = l[j]
  OBVIOUS
<1> HIDE DEF ticks
<1>4. PICK n \in ticks : \A m \in ticks : n <= m
  BY <1>1, Least
<1> DEFINE oldest == {j \in 2..Len(l) : l[j] = n}
<1>5. oldest \in SUBSET Nat /\ oldest # {}
  BY <1>3
<1>6. \A j : j \in oldest <=> j \in 2..Len(l) /\ l[j] = n
  OBVIOUS
<1> HIDE DEF oldest
<1>7. PICK i \in oldest : \A j \in oldest : i <= j
  BY <1>5, Least
<1> DEFINE Best(k) == \A j \in 2..Len(l) : l[k] < l[j] \/ (l[k] = l[j] /\ k <= j)
<1>8. i \in 2..Len(l) /\ Best(i)
  BY <1>1, <1>2, <1>4, <1>6, <1>7
<1>9. Victim(l) \in 2..Len(l) /\ Best(Victim(l))
  BY <1>8, Zenon DEF Victim
<1> QED
  BY <1>9

\* What renumbering keeps: the order of the ticks; and no tick exceeds the number
\* of rules afterwards.
LEMMA RanksOrder ==
  ASSUME NEW l \in Seq(Nat)
  PROVE  /\ Ranks(l) \in Seq(Nat) /\ Len(Ranks(l)) = Len(l)
         /\ \A i \in 1..Len(l) : Ranks(l)[i] <= Len(l)
         /\ \A i, j \in 1..Len(l) : Ranks(l)[i] <= Ranks(l)[j] <=> l[i] <= l[j]
<1> DEFINE V == {l[j] : j \in DOMAIN l}
           Below(i) == V \cap 0..(l[i] - 1)
<1>1. DOMAIN l = 1..Len(l) /\ Len(l) \in Nat /\ (\A i \in 1..Len(l) : l[i] \in Nat)
  OBVIOUS
<1>2. \A i \in 1..Len(l) : l[i] \in V
  BY <1>1
<1>3. IsFiniteSet(V) /\ Cardinality(V) <= Len(l)
  <2>1. l \in Surjection(1..Len(l), V)
    BY <1>1 DEF Surjection
  <2> HIDE DEF V
  <2>2. IsFiniteSet(1..Len(l)) /\ Cardinality(1..Len(l)) = Len(l)
    <3> DEFINE n == Len(l)
    <3>1. n \in Nat
      BY <1>1, Zenon
    <3> HIDE DEF n
    <3>2. IsFiniteSet(1..n) /\ Cardinality(1..n) = n
      BY <3>1, FS_Interval
    <3> QED
      BY <3>2, Zenon DEF n
  <2> QED
    BY <2>1, <2>2, FS_Surjection
<1>4. \A i, n : n \in Below(i) <=> n \in V /\ n \in 0..(l[i] - 1)
  OBVIOUS
<1>5. Ranks(l) = [i \in 1..Len(l) |-> Cardinality(Below(i))]
  BY <1>1 DEF Ranks
<1> HIDE DEF V, Below
<1>6. \A i : IsFiniteSet(Below(i)) /\ Cardinality(Below(i)) \in Nat /\ Cardinality(Below(i)) <= Len(l)
  <2> TAKE i
  <2>1. Below(i) \in SUBSET V
    BY <1>4
  <2>2. IsFiniteSet(Below(i)) /\ Cardinality(Below(i)) <= Cardinality(V)
    BY <1>3, <2>1, FS_Subset
  <2>3. Cardinality(Below(i)) \in Nat /\ Cardinality(V) \in Nat
    BY <1>3, <2>2, FS_CardinalityType
  <2> QED
    BY <1>1, <1>3, <2>2, <2>3
<1>7. ASSUME NEW i \in 1..Len(l), NEW j \in 1..Len(l), l[i] <= l[j]
      PROVE  Cardinality(Below(i)) <= Cardinality(Below(j))
  <2>1. Below(i) \in SUBSET Below(j)
    <3>1. \A x : x \in 0..(l[i] - 1) => x \in 0..(l[j] - 1)
      BY <1>1, <1>7
    <3> QED
      BY <1>4, <3>1, Zenon
  <2>2. IsFiniteSet(Below(j))
    BY <1>6, Zenon
  <2> QED
    BY <2>1, <2>2, FS_Subset, Zenon
<1>8. ASSUME NEW i \in 1..Len(l), NEW j \in 1..Len(l), l[i] < l[j]
      PROVE  Cardinality(Below(i)) < Cardinality(Below(j))
  <2>1. Below(i) \in SUBSET Below(j)
    <3>1. \A x : x \in 0..(l[i] - 1) => x \in 0..(l[j] - 1)
      BY <1>1, <1>8
    <3> QED
      BY <1>4, <3>1, Zenon
  <2>2. l[i] \in Below(j) /\ l[i] \notin Below(i)
    <3>1. l[i] \in 0..(l[j] - 1) /\ l[i] \notin 0..(l[i] - 1)
      BY <1>1, <1>8
    <3>2. l[i] \in V
      BY <1>2
    <3> QED
      BY <1>4, <3>1, <3>2, Zenon
  <2>3. Below(j) # Below(i)
    BY <2>2
  <2>4. IsFiniteSet(Below(j))
    BY <1>6, Zenon
  <2>5. Cardinality(Below(i)) <= Cardinality(Below(j)) /\ Cardinality(Below(j)) # Cardinality(Below(i))
    BY <2>1, <2>3, <2>4, FS_Subset, Zenon
  <2>6. Cardinality(Below(i)) \in Nat /\ Cardinality(Below(j)) \in Nat
    BY <1>6, Zenon
  <2> QED
    BY <2>5, <2>6
<1> DEFINE rank(i) == Cardinality(Below(i))
<1>9. \A i : rank(i) \in Nat /\ rank(i) <= Len(l)
  BY <1>6, Zenon
<1>10. Ranks(l) = [i \in 1..Len(l) |-> rank(i)]
  BY <1>5, Zenon
<1>11. \A i, j \in 1..Len(l) : (l[i] <= l[j] => rank(i) <= rank(j)) /\ (l[i] < l[j] => rank(i) < rank(j))
  BY <1>7, <1>8, Zenon
<1> HIDE DEF rank
<1>12. Ranks(l) \in Seq(Nat) /\ Len(Ranks(l)) = Len(l) /\ \A i \in 1..Len(l) : Ranks(l)[i] = rank(i)
  BY <1>1, <1>9, <1>10
<1>13. \A i, j \in 1..Len(l) : rank(i) <= rank(j) <=> l[i] <= l[j]
  BY <1>1, <1>9, <1>11
<1> QED
  BY <1>9, <1>12, <1>13, Zenon

\* Erasing one place of a vector.
LEMMA EraseProperties ==
  ASSUME NEW S, NEW s \in Seq(S), NEW k \in 1..Len(s)
  PROVE  /\ Erase(s, k) \in Seq(S) /\ Len(Erase(s, k)) = Len(s) - 1
         /\ \A i \in 1..(Len(s) - 1) : Erase(s, k)[i] = IF i < k THEN s[i] ELSE s[i + 1]
<1> DEFINE a == SubSeq(s, 1, k - 1)
           b == SubSeq(s, k + 1, Len(s))
<1>1. a \in Seq(S) /\ Len(a) = k - 1 /\ \A i \in 1..(k - 1) : a[i] = s[i]
  OBVIOUS
<1>2. b \in Seq(S) /\ Len(b) = Len(s) - k /\ \A i \in 1..(Len(s) - k) : b[i] = s[k + i]
  OBVIOUS
<1>3. Erase(s, k) = a \o b
  BY DEF Erase
<1> HIDE DEF a, b
<1> DEFINE c == a \o b
<1>4. /\ c \in Seq(S) /\ Len(c) = Len(a) + Len(b)
      /\ \A i \in 1..(Len(a) + Len(b)) : c[i] = IF i <= Len(a) THEN a[i] ELSE b[i - Len(a)]
  BY <1>1, <1>2, ConcatProperties, Zenon
<1> HIDE DEF c
<1>5. Len(c) = Len(s) - 1
  BY <1>1, <1>2, <1>4
<1>6. ASSUME NEW i \in 1..(Len(s) - 1), i < k PROVE c[i] = s[i]
  <2>1. i \in 1..(Len(a) + Len(b)) /\ i <= Len(a) /\ i \in 1..(k - 1)
    BY <1>1, <1>2, <1>6
  <2> QED
    BY <1>1, <1>4, <2>1, Zenon
<1>7. ASSUME NEW i \in 1..(Len(s) - 1), ~(i < k) PROVE c[i] = s[i + 1]
  <2>1. i \in 1..(Len(a) + Len(b)) /\ ~(i <= Len(a)) /\ i - Len(a) \in 1..(Len(s) - k)
    BY <1>1, <1>2, <1>7
  <2>2. c[i] = b[i - Len(a)] /\ b[i - Len(a)] = s[k + (i - Len(a))]
    BY <1>2, <1>4, <2>1, Zenon
  <2>3. k + (i - Len(a)) = i + 1
    BY <1>1
  <2> QED
    BY <2>2, <2>3
<1> QED
  BY <1>3, <1>4, <1>5, <1>6, <1>7, Zenon DEF c

\* push_back after an erase, or alone.
LEMMA ReplaceProperties ==
  ASSUME NEW S, NEW s \in Seq(S), NEW k \in 1..Len(s), NEW x \in S
  PROVE  LET r == Append(Erase(s, k), x)
         IN  /\ r \in Seq(S) /\ Len(r) = Len(s) /\ r[Len(s)] = x
             /\ \A i \in 1..(Len(s) - 1) : r[i] = IF i < k THEN s[i] ELSE s[i + 1]
<1> DEFINE r == Erase(s, k)
<1>1. /\ r \in Seq(S) /\ Len(r) = Len(s) - 1
      /\ \A i \in 1..(Len(s) - 1) : r[i] = IF i < k THEN s[i] ELSE s[i + 1]
  BY EraseProperties, Zenon
<1> HIDE DEF r
<1>2. /\ Append(r, x) \in Seq(S) /\ Len(Append(r, x)) = Len(s) /\ Append(r, x)[Len(s)] = x
      /\ \A i \in 1..(Len(s) - 1) : Append(r, x)[i] = r[i]
  BY <1>1
<1> QED
  BY <1>1, <1>2, Zenon DEF r
-----------------------------------------------------------------------------
(* The rules under the operations of the TLB.                              *)

Config == TableAssumption /\ SizeAssumption /\ KindsAssumption

\* What the table and the configuration say, one fact at a time.
LEMMA ConfigFacts ==
  ASSUME Config
  PROVE  /\ \A v \in Pages : v \in Nat /\ Table[v] \in Rule /\ Covers(Table[v], v) /\ Table[v] \in Rules
         /\ Static \in Seq(Rule) /\ Len(Static) \in Nat \ {0} /\ Static[1] \in Rule
         /\ TlbSize \in Nat /\ TlbSize > Len(Static)
         /\ \A i \in 1..Len(Static) : Static[i] \in Rule /\ Static[i] \in Rules
         /\ Rules \subseteq Rule
<1>1. /\ Pages \subseteq Nat
      /\ \A v \in Pages : Table[v] \in Rule /\ Covers(Table[v], v)
      /\ Static \in Seq(Rule) /\ Static # <<>>
      /\ TlbSize \in Nat /\ TlbSize > Len(Static)
  BY Zenon DEF Config, TableAssumption, SizeAssumption, Rule
<1>2. Len(Static) \in Nat \ {0} /\ DOMAIN Static = 1..Len(Static) /\ \A i \in 1..Len(Static) : Static[i] \in Rule
  BY <1>1
<1>3. \A v \in Pages : Table[v] \in Rules
  BY DEF Rules
<1>4. \A i \in 1..Len(Static) : Static[i] \in Rules
  BY <1>2 DEF Rules, Range
<1>5. Rules \subseteq Rule
  BY <1>1, <1>2 DEF Rules, Range
<1>6. 1 \in 1..Len(Static)
  BY <1>2
<1> QED
  BY <1>1, <1>2, <1>3, <1>4, <1>5, <1>6, Zenon

\* A rule that contains a page is the rule of that page.
LEMMA PageRule ==
  ASSUME Config, NEW r \in Rules, NEW v \in Pages, Covers(r, v)
  PROVE  r = Table[v]
<1>1. CASE \E w \in Pages : r = Table[w]
  <2>1. PICK w \in Pages : r = Table[w]
    BY <1>1
  <2>2. v \in Table[w].vaddr..(Table[w].vaddr + Table[w].size - 1)
    BY <2>1, ConfigFacts DEF Covers, Rule
  <2> QED
    BY <2>1, <2>2, Zenon DEF Config, TableAssumption
<1>2. CASE \E i \in 1..Len(Static) : r = Static[i]
  <2>1. PICK i \in 1..Len(Static) : r = Static[i]
    BY <1>2
  <2>2. i \in DOMAIN Static /\ Static[i] \in Rule /\ v \in Nat
    BY ConfigFacts
  <2>3. ~Covers(Static[i], v)
    BY <2>2, Zenon DEF Config, TableAssumption
  <2> QED
    BY <2>1, <2>3, Zenon
<1>3. DOMAIN Static = 1..Len(Static)
  BY ConfigFacts
<1> QED
  BY <1>1, <1>2, <1>3 DEF Rules, Range

\* The TLB as every call finds it: the device's rule is first, there are no more
\* rules than fit, and a tick for each that can be replaced.
TlbOK(t) ==
    /\ t \in [rules : Seq(Rule), lastUsed : Seq(Nat), pending : SUBSET Pages, recency : SUBSET (Rules \X Rules)]
    /\ Len(t.rules) \in Len(Static)..TlbSize
    /\ t.rules[1] = Static[1]
    /\ \A i \in 1..Len(t.rules) : t.rules[i] \in Rules
    /\ Len(t.lastUsed) = Len(t.rules) - Len(Static) + 1
    /\ \A i \in 1..Len(t.lastUsed) : t.lastUsed[i] <= Len(t.lastUsed)

\* recency stays a relation on rules.
LEMMA UsedType ==
  ASSUME NEW order \in SUBSET (Rules \X Rules), NEW r \in Rules
  PROVE  Used(order, r) \in SUBSET (Rules \X Rules)
  BY DEF Used

\* Writing one place of a vector.
LEMMA SetAt ==
  ASSUME NEW l \in Seq(Nat), NEW i \in 1..Len(l), NEW n \in Nat
  PROVE  LET k == [l EXCEPT ![i] = n]
         IN  k \in Seq(Nat) /\ Len(k) = Len(l) /\ \A j \in 1..Len(l) : k[j] = IF j = i THEN n ELSE l[j]
  OBVIOUS

\* A hit changes neither the rules nor the refills in flight.
LEMMA TouchOK ==
  ASSUME Config, NEW t, TlbOK(t), NEW i \in 1..Len(t.rules)
  PROVE  TlbOK(Touch(t, i)) /\ Touch(t, i).rules = t.rules /\ Touch(t, i).pending = t.pending
<1>1. CASE i = 1
  BY <1>1 DEF Touch
<1>2. CASE i # 1
  <2> DEFINE l == t.lastUsed
             m == IF i <= Len(l) THEN Ranks([l EXCEPT ![i] = Len(l) + 1]) ELSE l
             o == Used(t.recency, t.rules[i])
  <2>1. Touch(t, i) = [t EXCEPT !.lastUsed = m, !.recency = o]
    BY <1>2 DEF Touch
  <2>2. l \in Seq(Nat) /\ t.recency \in SUBSET (Rules \X Rules) /\ t.rules[i] \in Rules
    BY DEF TlbOK
  <2>3. o \in SUBSET (Rules \X Rules)
    BY <2>2, UsedType, Zenon
  <2>4. m \in Seq(Nat) /\ Len(m) = Len(l) /\ \A j \in 1..Len(m) : m[j] <= Len(m)
    <3>1. CASE i <= Len(l)
      <4> DEFINE k == [l EXCEPT ![i] = Len(l) + 1]
      <4>1. m = Ranks(k)
        BY <3>1, Zenon
      <4>2. i \in 1..Len(l) /\ Len(l) + 1 \in Nat
        BY <2>2, <3>1
      <4> HIDE DEF l, m
      <4>3. k \in Seq(Nat) /\ Len(k) = Len(l)
        BY <2>2, <4>2, SetAt, ZenonT(60)
      <4> HIDE DEF k
      <4> QED
        BY <4>1, <4>3, RanksOrder, Zenon
    <3>2. CASE ~(i <= Len(l))
      BY <2>2, <3>2, Zenon DEF TlbOK
    <3> QED
      BY <3>1, <3>2, Zenon
  <2> HIDE DEF m, o
  <2> QED
    BY <2>1, <2>3, <2>4, Zenon DEF TlbOK
<1> QED
  BY <1>1, <1>2

\* updateTLB appends the rule, and when the TLB is full erases one that is not the
\* first with its tick.
LEMMA UpdateShape ==
  ASSUME Config, NEW t, TlbOK(t), NEW r \in Rules
  PROVE  LET u == UpdateTLB(t, r)
             l == t.lastUsed
             k == Victim(l)
         IN  /\ u \in [rules : Seq(Rule), lastUsed : Seq(Nat), pending : SUBSET Pages, recency : SUBSET (Rules \X Rules)]
             /\ u.pending = t.pending /\ u.recency = Used(t.recency, r)
             /\ Len(t.rules) < TlbSize =>
                    /\ u.rules = Append(t.rules, r)
                    /\ u.lastUsed = Ranks(Append(l, Len(l) + 1))
             /\ Len(t.rules) >= TlbSize =>
                    /\ Len(t.rules) = TlbSize /\ Len(l) >= 2 /\ k \in 2..Len(l) /\ k \in 2..Len(t.rules)
                    /\ u.rules = Append(Erase(t.rules, k), r)
                    /\ u.lastUsed = Ranks(Append(Erase(l, k), Len(l) + 1))
<1> DEFINE l == t.lastUsed
           k == Victim(l)
           a == Append(IF Len(t.rules) >= TlbSize THEN Erase(t.rules, k) ELSE t.rules, r)
           b == Append(IF Len(t.rules) >= TlbSize THEN Erase(l, k) ELSE l, Len(l) + 1)
           o == Used(t.recency, r)
<1>1. UpdateTLB(t, r) = [t EXCEPT !.rules = a, !.lastUsed = Ranks(b), !.recency = o]
  BY Zenon DEF UpdateTLB
<1>2. /\ t \in [rules : Seq(Rule), lastUsed : Seq(Nat), pending : SUBSET Pages, recency : SUBSET (Rules \X Rules)]
      /\ t.rules \in Seq(Rule) /\ l \in Seq(Nat) /\ r \in Rule /\ t.recency \in SUBSET (Rules \X Rules)
      /\ Len(t.rules) \in Len(Static)..TlbSize /\ Len(l) = Len(t.rules) - Len(Static) + 1
  BY ConfigFacts, Zenon DEF TlbOK
<1>3. o \in SUBSET (Rules \X Rules)
  BY <1>2, UsedType, Zenon
<1>4. /\ Len(Static) \in Nat \ {0} /\ TlbSize \in Nat /\ TlbSize > Len(Static)
      /\ Len(t.rules) \in Nat /\ Len(l) \in Nat /\ Len(l) + 1 \in Nat
  BY <1>2, ConfigFacts
<1> HIDE DEF l, o
<1>5. CASE Len(t.rules) >= TlbSize
  <2>1. Len(t.rules) = TlbSize /\ Len(l) >= 2 /\ Len(l) <= Len(t.rules)
    BY <1>2, <1>4, <1>5
  <2>2. k \in 2..Len(l)
    BY <1>2, <2>1, VictimLeast
  <2> HIDE DEF k
  <2>3. k \in 2..Len(t.rules) /\ k \in 1..Len(t.rules) /\ k \in 1..Len(l)
    BY <1>4, <2>1, <2>2
  <2>4. a = Append(Erase(t.rules, k), r) /\ b = Append(Erase(l, k), Len(l) + 1)
    BY <1>5, Zenon
  <2> HIDE DEF a, b
  <2>5. a \in Seq(Rule) /\ b \in Seq(Nat)
    <3>1. Append(Erase(t.rules, k), r) \in Seq(Rule)
      BY <1>2, <2>3, ReplaceProperties, Zenon
    <3>2. Append(Erase(l, k), Len(l) + 1) \in Seq(Nat)
      BY <1>2, <1>4, <2>3, ReplaceProperties, Zenon
    <3> QED
      BY <2>4, <3>1, <3>2, Zenon
  <2>6. Ranks(b) \in Seq(Nat)
    BY <2>5, RanksOrder, Zenon
  <2>7. ~(Len(t.rules) < TlbSize)
    BY <1>4, <1>5
  <2> QED
    BY <1>1, <1>2, <1>3, <2>1, <2>2, <2>3, <2>4, <2>5, <2>6, <2>7, Zenon DEF l, k, o
<1>6. CASE ~(Len(t.rules) >= TlbSize)
  <2>1. a = Append(t.rules, r) /\ b = Append(l, Len(l) + 1)
    BY <1>6, Zenon
  <2>2. a \in Seq(Rule) /\ b \in Seq(Nat)
    BY <1>2, <1>4, <2>1, AppendProperties, Zenon
  <2> HIDE DEF a, b
  <2>3. Ranks(b) \in Seq(Nat)
    BY <2>2, RanksOrder, Zenon
  <2> QED
    BY <1>1, <1>2, <1>3, <1>6, <2>1, <2>2, <2>3, Zenon DEF l, k, o
<1> QED
  BY <1>5, <1>6, Zenon

\* A refill keeps the TLB in order and leaves the rule in it.
LEMMA UpdateOK ==
  ASSUME Config, NEW t, TlbOK(t), NEW r \in Rules
  PROVE  LET u == UpdateTLB(t, r)
         IN  /\ TlbOK(u) /\ u.pending = t.pending
             /\ \E i \in 1..Len(u.rules) : u.rules[i] = r
<1> DEFINE u == UpdateTLB(t, r)
           l == t.lastUsed
           k == Victim(l)
<1>1. /\ u \in [rules : Seq(Rule), lastUsed : Seq(Nat), pending : SUBSET Pages, recency : SUBSET (Rules \X Rules)]
      /\ u.pending = t.pending
      /\ Len(t.rules) < TlbSize =>
             /\ u.rules = Append(t.rules, r)
             /\ u.lastUsed = Ranks(Append(l, Len(l) + 1))
      /\ Len(t.rules) >= TlbSize =>
             /\ Len(t.rules) = TlbSize /\ Len(l) >= 2 /\ k \in 2..Len(l) /\ k \in 2..Len(t.rules)
             /\ u.rules = Append(Erase(t.rules, k), r)
             /\ u.lastUsed = Ranks(Append(Erase(l, k), Len(l) + 1))
  BY UpdateShape, Zenon
<1>2. /\ t.rules \in Seq(Rule) /\ l \in Seq(Nat) /\ r \in Rule
      /\ Len(t.rules) \in Len(Static)..TlbSize /\ Len(l) = Len(t.rules) - Len(Static) + 1
      /\ t.rules[1] = Static[1] /\ \A i \in 1..Len(t.rules) : t.rules[i] \in Rules
  BY ConfigFacts, Zenon DEF TlbOK
<1> DEFINE n == Len(t.rules)
           w == Len(l)
           c == Len(Static)
<1>3. /\ c \in Nat \ {0} /\ TlbSize \in Nat /\ TlbSize > c
      /\ n \in c..TlbSize /\ n \in Nat /\ w \in Nat /\ w = n - c + 1 /\ w + 1 \in Nat
  BY <1>2, ConfigFacts
<1> HIDE DEF u, l, k, n, w, c
<1>4. CASE Len(t.rules) < TlbSize
  <2>1. /\ Len(u.rules) = n + 1 /\ u.rules[n + 1] = r
        /\ \A i \in 1..n : u.rules[i] = t.rules[i]
    <3>1. u.rules = Append(t.rules, r)
      BY <1>1, <1>4, Zenon
    <3>2. t.rules \in Seq(Rule) /\ r \in Rule
      BY <1>2
    <3>3. /\ Len(Append(t.rules, r)) = Len(t.rules) + 1 /\ Append(t.rules, r)[Len(t.rules) + 1] = r
          /\ \A i \in 1..Len(t.rules) : Append(t.rules, r)[i] = t.rules[i]
      BY <3>2
    <3> QED
      BY <3>1, <3>3, Zenon DEF n
  <2>2. Len(u.lastUsed) = w + 1 /\ \A i \in 1..Len(u.lastUsed) : u.lastUsed[i] <= Len(u.lastUsed)
    <3> DEFINE b == Append(l, Len(l) + 1)
    <3>1. b \in Seq(Nat) /\ Len(b) = w + 1
      BY <1>2, <1>3, AppendProperties, ZenonT(60) DEF w
    <3>2. u.lastUsed = Ranks(b)
      BY <1>1, <1>4, Zenon
    <3> HIDE DEF b
    <3> QED
      BY <3>1, <3>2, RanksOrder, Zenon
  <2>3. /\ Len(u.rules) \in Len(Static)..TlbSize /\ Len(u.lastUsed) = Len(u.rules) - Len(Static) + 1
        /\ 1 \in 1..n /\ n + 1 \in 1..Len(u.rules)
        /\ \A i \in 1..Len(u.rules) : i \in 1..n \/ i = n + 1
    <3>1. Len(u.rules) = n + 1 /\ Len(u.lastUsed) = w + 1 /\ n < TlbSize
      BY <1>4, <2>1, <2>2, Zenon DEF n
    <3> QED
      BY <1>3, <3>1 DEF c
  <2>4. \A i \in 1..Len(u.rules) : u.rules[i] \in Rules
    BY <1>2, <2>1, <2>3, Zenon DEF n
  <2>5. u.rules[1] = Static[1]
    BY <1>2, <2>1, <2>3, Zenon DEF n
  <2> QED
    BY <1>1, <2>1, <2>2, <2>3, <2>4, <2>5, Zenon DEF TlbOK, u
<1>5. CASE Len(t.rules) >= TlbSize
  <2>1. k \in 2..n /\ n = TlbSize /\ k \in 2..w
    BY <1>1, <1>5, Zenon DEF n, w
  <2>7. k \in 1..n /\ k \in 1..w
    BY <1>3, <2>1
  <2>2. /\ Len(u.rules) = n /\ u.rules[n] = r
        /\ \A i \in 1..(n - 1) : u.rules[i] = IF i < k THEN t.rules[i] ELSE t.rules[i + 1]
    <3>1. u.rules = Append(Erase(t.rules, k), r)
      BY <1>1, <1>5, Zenon
    <3>2. t.rules \in Seq(Rule) /\ r \in Rule /\ k \in 1..Len(t.rules)
      BY <1>2, <2>7, Zenon DEF n
    <3> DEFINE q == Append(Erase(t.rules, k), r)
    <3>3. /\ Len(q) = Len(t.rules) /\ q[Len(t.rules)] = r
          /\ \A i \in 1..(Len(t.rules) - 1) : q[i] = IF i < k THEN t.rules[i] ELSE t.rules[i + 1]
      BY <3>2, ReplaceProperties
    <3> QED
      BY <3>1, <3>3, Zenon DEF n
  <2>3. Len(u.lastUsed) = w /\ \A i \in 1..Len(u.lastUsed) : u.lastUsed[i] <= Len(u.lastUsed)
    <3> DEFINE b == Append(Erase(l, k), Len(l) + 1)
    <3>1. b \in Seq(Nat) /\ Len(b) = w
      <4>1. l \in Seq(Nat) /\ k \in 1..Len(l) /\ Len(l) + 1 \in Nat
        BY <1>2, <1>3, <2>7, Zenon DEF w
      <4>2. b \in Seq(Nat) /\ Len(b) = Len(l)
        BY <4>1, ReplaceProperties
      <4> QED
        BY <4>2, Zenon DEF w
    <3>2. u.lastUsed = Ranks(b)
      BY <1>1, <1>5, Zenon
    <3> HIDE DEF b
    <3> QED
      BY <3>1, <3>2, RanksOrder, Zenon
  <2>4. /\ Len(u.rules) \in Len(Static)..TlbSize /\ Len(u.lastUsed) = Len(u.rules) - Len(Static) + 1
        /\ 1 \in 1..(n - 1) /\ n \in 1..Len(u.rules) /\ 1 < k
        /\ \A i \in 1..Len(u.rules) : i \in 1..(n - 1) \/ i = n
        /\ \A i \in 1..(n - 1) : i \in 1..n /\ i + 1 \in 1..n
    <3>1. Len(u.rules) = n /\ Len(u.lastUsed) = w
      BY <2>2, <2>3, Zenon
    <3> QED
      BY <1>3, <2>1, <3>1 DEF c
  <2>5. \A i \in 1..Len(u.rules) : u.rules[i] \in Rules
    BY <1>2, <2>2, <2>4, Zenon DEF n
  <2>6. u.rules[1] = Static[1]
    BY <1>2, <2>2, <2>4, Zenon DEF n
  <2> QED
    BY <1>1, <2>2, <2>3, <2>4, <2>5, <2>6, Zenon DEF TlbOK, u
<1> QED
  BY <1>3, <1>4, <1>5 DEF n

-----------------------------------------------------------------------------
(* The invariant.                                                          *)

\* The address at which the program means to reach memory.
RightAddress(p) ==
    CASE p.kind = "device" -> Static[1].paddr
      [] p.kind = "vault"  -> Static[2].paddr
      [] OTHER             -> p.names - Table[p.names].vaddr + Table[p.names].paddr

PacketOK(p) ==
    /\ p \in [kind : Kinds \cup {"device"}, names : Nat, remapped : BOOLEAN, refused : BOOLEAN, addr : Int]
    /\ p.kind \notin {"device"} => p.names \in Pages
    /\ p.remapped => p.kind # "refill" /\ p.addr = RightAddress(p)
    /\ p.refused => p.remapped
    /\ ~p.remapped => p.addr = Packet(p.kind, p.names).addr

Dma == [state : {"idle", "transfer"}, vstart : Int]

\* A packet that waits in the core was refused by the bus, or its refill is the one
\* in flight; the bus owes no retry then.
WaitingOK ==
    /\ pkt.kind # "refill"
    /\ pkt.kind = "vault" => pkt.remapped
    /\ pkt.remapped => pkt.refused
    /\ owed \/ pkt.remapped => tlb.pending = {}
    /\ tlb.pending \subseteq {Target(pkt)}

\* What can stop the simulation: never a retry that finds the core without a packet.
PanicCauses ==
    /\ panic \in {"none", "functional", "slice_vend", "assert"}
    /\ panic = "assert" => ~TimingMode /\ "hmc" \in Kinds
    /\ panic \in {"functional", "slice_vend"} => DmaPages # {}

\* The address that is kept for the answer: the one the program named, if the
\* bus has not refused the packet.
Kept(p) == IF p.refused THEN p.addr ELSE p.names

OrigOK(a) == pkt.kind = "data" => a = Kept(pkt)

Inv ==
    /\ TlbOK(tlb) /\ PacketOK(pkt)
    /\ core \in {"idle", "retry", "wait"} /\ owed \in BOOLEAN /\ queued \in BOOLEAN
    /\ dma \in Dma /\ (dma.state = "transfer" => DmaPages # {})
    /\ core # "wait" => inflight = NoPacket /\ queued = FALSE
    /\ core # "retry" => owed = FALSE /\ tlb.pending = {}
    /\ core = "retry" => WaitingOK
    /\ queued => inflight = NoPacket /\ pkt.kind = "refill"
    /\ inflight # NoPacket => OrigOK(inflight.orig)
    /\ core = "idle" /\ answer # -1 => OrigOK(answer)
    /\ PanicCauses

-----------------------------------------------------------------------------
(* Translation: a rule that is found gives the address the program means.  *)

\* A rule that is found is one of the table or of the configuration, and it
\* covers the address that was looked up.
LEMMA RuleFound ==
  ASSUME Config, NEW t, TlbOK(t), NEW a \in Nat, Find(t, a) > 0
  PROVE  /\ Find(t, a) \in 1..Len(t.rules)
         /\ t.rules[Find(t, a)] \in Rules /\ Covers(t.rules[Find(t, a)], a)
<1>1. t.rules \in Seq(Rule) /\ \A i \in 1..Len(t.rules) : t.rules[i] \in Rules
  BY Zenon DEF TlbOK
<1>2. Find(t, a) \in 0..Len(t.rules) /\ Covers(t.rules[Find(t, a)], a)
  BY <1>1, FindFirst, Zenon
<1>3. Find(t, a) \in 1..Len(t.rules)
  BY <1>1, <1>2
<1> QED
  BY <1>1, <1>2, <1>3, Zenon

\* A rule that is there is found.
LEMMA RuleThere ==
  ASSUME Config, NEW t, TlbOK(t), NEW a \in Nat, NEW i \in 1..Len(t.rules), Covers(t.rules[i], a)
  PROVE  Find(t, a) \in 1..i /\ Find(t, a) > 0
<1>1. t.rules \in Seq(Rule)
  BY Zenon DEF TlbOK
<1>2. i \in DOMAIN t.rules
  BY <1>1
<1>3. Find(t, a) \in 1..i
  BY <1>1, <1>2, FindFirst, Zenon
<1> QED
  BY <1>1, <1>3

\* The rule that is found for a page of the core gives the physical address of
\* that page in the slice table.
LEMMA RemapPage ==
  ASSUME Config, NEW t, TlbOK(t), NEW v \in Pages, Find(t, v) > 0
  PROVE  Remapped(t, v) = v - Table[v].vaddr + Table[v].paddr /\ Find(t, v) \in 1..Len(t.rules)
<1>1. v \in Nat
  BY ConfigFacts, Zenon
<1>2. Find(t, v) \in 1..Len(t.rules) /\ t.rules[Find(t, v)] \in Rules /\ Covers(t.rules[Find(t, v)], v)
  BY <1>1, RuleFound, Zenon
<1>3. t.rules[Find(t, v)] = Table[v]
  BY <1>2, PageRule, Zenon
<1> QED
  BY <1>2, <1>3, Zenon DEF Remapped

\* A refilled page is found.
LEMMA RefilledPage ==
  ASSUME Config, NEW t, TlbOK(t), NEW v \in Pages
  PROVE  /\ TlbOK(UpdateTLB(t, Table[v])) /\ UpdateTLB(t, Table[v]).pending = t.pending
         /\ Find(UpdateTLB(t, Table[v]), v) > 0
<1> DEFINE u == UpdateTLB(t, Table[v])
<1>1. v \in Nat /\ Table[v] \in Rules /\ Covers(Table[v], v)
  BY ConfigFacts, Zenon
<1>2. TlbOK(u) /\ u.pending = t.pending /\ \E i \in 1..Len(u.rules) : u.rules[i] = Table[v]
  BY <1>1, UpdateOK, Zenon
<1> HIDE DEF u
<1>3. PICK i \in 1..Len(u.rules) : u.rules[i] = Table[v]
  BY <1>2, Zenon
<1>4. Find(u, v) > 0
  BY <1>1, <1>2, <1>3, RuleThere, Zenon
<1> QED
  BY <1>2, <1>4, Zenon DEF u

\* The device's registers are found at the first rule.
LEMMA RemapDevice ==
  ASSUME Config, NEW t, TlbOK(t)
  PROVE  Device \in Nat /\ Find(t, Device) = 1 /\ 1 \in 1..Len(t.rules) /\ Remapped(t, Device) = Static[1].paddr
<1>1. /\ t.rules \in Seq(Rule) /\ t.rules[1] = Static[1] /\ Len(t.rules) \in Len(Static)..TlbSize
      /\ Len(Static) \in Nat \ {0} /\ TlbSize \in Nat /\ Static[1] \in Rule
  BY ConfigFacts, Zenon DEF TlbOK
<1>2. Device \in Nat /\ Covers(Static[1], Device)
  <2>1. Static[1] \in Rule
    BY <1>1
  <2> QED
    BY <2>1 DEF Device, Covers, Rule
<1>3. 1 \in 1..Len(t.rules)
  BY <1>1
<1>4. Find(t, Device) \in 1..1
  BY <1>1, <1>2, <1>3, RuleThere, Zenon
<1>5. Find(t, Device) = 1
  BY <1>4
<1>6. Remapped(t, Device) = Device - Static[1].vaddr + Static[1].paddr
  BY <1>1, <1>5, Zenon DEF Remapped
<1>7. Static[1].vaddr \in Nat /\ Static[1].paddr \in Nat /\ Device = Static[1].vaddr
  <2>1. Static[1] \in Rule
    BY <1>1
  <2> QED
    BY <2>1 DEF Device, Rule
<1>8. Remapped(t, Device) = Static[1].paddr
  BY <1>6, <1>7
<1> QED
  BY <1>2, <1>3, <1>5, <1>8, Zenon

\* The vault's rule, while it has not been replaced.
LEMMA RemapVault ==
  ASSUME Config, NEW t, TlbOK(t), 2 \in 1..Len(Static), Find(t, Static[2].vaddr) > 0
  PROVE  Remapped(t, Static[2].vaddr) = Static[2].paddr /\ Find(t, Static[2].vaddr) \in 1..Len(t.rules)
<1> DEFINE a == Static[2].vaddr
<1>1. Static[2] \in Rule /\ Static \in Seq(Rule)
  BY ConfigFacts, Zenon
<1>2. a \in Nat /\ Static[2].size \in Nat \ {0} /\ Static[2].paddr \in Nat /\ DOMAIN Static = 1..Len(Static)
  BY <1>1 DEF Rule
<1>3. a \notin Pages /\ \A j \in DOMAIN Static \ {2} : ~Covers(Static[j], a)
  <2>1. Covers(Static[2], a)
    BY <1>2 DEF Covers
  <2>2. 2 \in DOMAIN Static
    BY <1>2, Zenon
  <2>3. \A v \in Pages : ~Covers(Static[2], v)
    BY <2>2, Zenon DEF Config, TableAssumption
  <2>4. \A j \in DOMAIN Static \ {2} : ~Covers(Static[j], Static[2].vaddr)
    BY <2>2, Zenon DEF Config, TableAssumption
  <2> QED
    BY <2>1, <2>3, <2>4, Zenon
<1> DEFINE r == t.rules[Find(t, a)]
<1>4. Find(t, a) \in 1..Len(t.rules) /\ r \in Rules /\ Covers(r, a)
  BY <1>2, RuleFound, Zenon
<1>5. Remapped(t, a) = a - r.vaddr + r.paddr
  BY Zenon DEF Remapped
<1> HIDE DEF a, r
<1>6. CASE \E w \in Pages : r = Table[w]
  <2>1. PICK w \in Pages : r = Table[w]
    BY <1>6
  <2>2. Table[w] \in Rule
    BY ConfigFacts, Zenon
  <2>3. a \in Table[w].vaddr..(Table[w].vaddr + Table[w].size - 1)
    BY <1>2, <1>4, <2>1, <2>2 DEF Covers, Rule
  <2>4. a \in Pages
    BY <2>3, Zenon DEF Config, TableAssumption
  <2> QED
    BY <1>3, <2>4, Zenon
<1>7. CASE \E i \in 1..Len(Static) : r = Static[i]
  <2>1. PICK i \in 1..Len(Static) : r = Static[i]
    BY <1>7
  <2>2. r = Static[2]
    BY <1>2, <1>3, <1>4, <2>1, Zenon
  <2> QED
    BY <1>2, <1>4, <1>5, <2>2 DEF a
<1> QED
  BY <1>2, <1>4, <1>6, <1>7, Zenon DEF Rules, Range

\* What a packet that was not remapped asks the TLB for.
LEMMA TargetFacts ==
  ASSUME Config, NEW p, PacketOK(p), ~p.remapped, p.kind # "refill"
  PROVE  \/ p.kind \in {"data", "hmc"} /\ p.names \in Pages /\ Target(p) = p.names
         \/ p.kind = "device" /\ Target(p) = Device
         \/ p.kind = "vault" /\ 2 \in 1..Len(Static) /\ Target(p) = Static[2].vaddr
<1>1. /\ p.kind \in {"data", "hmc", "refill", "device", "vault"}
      /\ p.kind # "device" => p.names \in Pages
      /\ p.addr = Packet(p.kind, p.names).addr
  BY Zenon DEF PacketOK, Config, KindsAssumption
<1>2. CASE p.kind = "data"
  BY <1>1, <1>2 DEF Packet, Target
<1>3. CASE p.kind = "hmc"
  BY <1>1, <1>3 DEF Target
<1>4. CASE p.kind = "device"
  BY <1>1, <1>4 DEF Packet, Target
<1>5. CASE p.kind = "vault"
  <2>1. "vault" \in Kinds
    BY <1>5 DEF PacketOK
  <2>2. Len(Static) > 1 /\ Len(Static) \in Nat
    BY <2>1, ConfigFacts DEF Config, KindsAssumption
  <2> QED
    BY <1>1, <1>5, <2>2 DEF Packet, Target
<1> QED
  BY <1>1, <1>2, <1>3, <1>4, <1>5

\* A packet that some rule remaps is remapped right.
LEMMA RemapRight ==
  ASSUME Config, NEW t, TlbOK(t), NEW p, PacketOK(p), ~p.remapped, p.kind # "refill", Find(t, Target(p)) > 0
  PROVE  /\ Find(t, Target(p)) \in 1..Len(t.rules)
         /\ PacketOK([p EXCEPT !.addr = Remapped(t, Target(p)), !.remapped = TRUE])
<1> DEFINE q == [p EXCEPT !.addr = Remapped(t, Target(p)), !.remapped = TRUE]
<1>1. /\ p \in [kind : Kinds \cup {"device"}, names : Nat, remapped : BOOLEAN, refused : BOOLEAN, addr : Int]
      /\ p.kind \notin {"device"} => p.names \in Pages
  BY Zenon DEF PacketOK
<1>2. /\ q.kind = p.kind /\ q.names = p.names /\ q.remapped /\ q.addr = Remapped(t, Target(p))
      /\ Remapped(t, Target(p)) \in Int =>
             q \in [kind : Kinds \cup {"device"}, names : Nat, remapped : BOOLEAN, refused : BOOLEAN, addr : Int]
  BY <1>1, Zenon
<1> HIDE DEF q
<1>3. SUFFICES /\ Find(t, Target(p)) \in 1..Len(t.rules)
               /\ Remapped(t, Target(p)) \in Int /\ Remapped(t, Target(p)) = RightAddress(p)
  <2>1. RightAddress(q) = RightAddress(p)
    BY <1>2, Zenon DEF RightAddress
  <2> QED
    BY <1>1, <1>2, <1>3, <2>1, Zenon DEF PacketOK, q
<1>4. CASE p.kind \in {"data", "hmc"} /\ p.names \in Pages /\ Target(p) = p.names
  <2>1. /\ Remapped(t, p.names) = p.names - Table[p.names].vaddr + Table[p.names].paddr
        /\ Find(t, p.names) \in 1..Len(t.rules)
    BY <1>4, RemapPage, Zenon
  <2>2. p.names \in Nat /\ Table[p.names] \in Rule
    BY <1>4, ConfigFacts, Zenon
  <2>3. Table[p.names].vaddr \in Nat /\ Table[p.names].paddr \in Nat
    BY <2>2 DEF Rule
  <2>4. RightAddress(p) = p.names - Table[p.names].vaddr + Table[p.names].paddr
    BY <1>4 DEF RightAddress
  <2> QED
    BY <1>4, <2>1, <2>2, <2>3, <2>4
<1>5. CASE p.kind = "device" /\ Target(p) = Device
  <2>1. Find(t, Device) = 1 /\ 1 \in 1..Len(t.rules) /\ Remapped(t, Device) = Static[1].paddr
    BY RemapDevice, Zenon
  <2>2. Static[1] \in Rule
    BY ConfigFacts, Zenon
  <2>3. Static[1].paddr \in Int
    BY <2>2 DEF Rule
  <2>4. RightAddress(p) = Static[1].paddr
    BY <1>5, Zenon DEF RightAddress
  <2> QED
    BY <1>5, <2>1, <2>3, <2>4, Zenon
<1>6. CASE p.kind = "vault" /\ 2 \in 1..Len(Static) /\ Target(p) = Static[2].vaddr
  <2>1. Remapped(t, Static[2].vaddr) = Static[2].paddr /\ Find(t, Static[2].vaddr) \in 1..Len(t.rules)
    BY <1>6, RemapVault, Zenon
  <2>2. Static[2] \in Rule
    BY <1>6, ConfigFacts, Zenon
  <2>3. Static[2].paddr \in Int
    BY <2>2 DEF Rule
  <2>4. RightAddress(p) = Static[2].paddr
    BY <1>6 DEF RightAddress
  <2> QED
    BY <1>6, <2>1, <2>3, <2>4, Zenon
<1> QED
  BY <1>4, <1>5, <1>6, TargetFacts, Zenon

\* Only a page of the slice table is ever missed: the device's rule is always
\* there, and an access to the vault is followed only while its rule is.
LEMMA MissIsPage ==
  ASSUME Config, NEW t, TlbOK(t), NEW p, PacketOK(p), ~p.remapped, p.kind # "refill",
         p.kind = "vault" => Find(t, Static[2].vaddr) > 0, Find(t, Target(p)) = 0
  PROVE  Target(p) \in Pages /\ p.kind \in {"data", "hmc"} /\ Target(p) = p.names
<1>1. CASE p.kind \in {"data", "hmc"} /\ p.names \in Pages /\ Target(p) = p.names
  BY <1>1, Zenon
<1>2. CASE p.kind = "device" /\ Target(p) = Device
  <2>1. Find(t, Device) = 1
    BY RemapDevice, Zenon
  <2> QED
    BY <1>2, <2>1
<1>3. CASE p.kind = "vault" /\ 2 \in 1..Len(Static) /\ Target(p) = Static[2].vaddr
  BY <1>3
<1> QED
  BY <1>1, <1>2, <1>3, TargetFacts, Zenon

\* A new request of the core.
LEMMA NewPacket ==
  ASSUME Config, NEW k \in Kinds \cup {"device"}, NEW v \in Nat, v \in Pages \/ k = "device"
  PROVE  /\ PacketOK(Packet(k, v)) /\ ~Packet(k, v).remapped /\ ~Packet(k, v).refused
         /\ Packet(k, v).kind = k /\ Packet(k, v).names = v
<1> DEFINE p == Packet(k, v)
<1>1. p.kind = k /\ p.names = v /\ p.remapped = FALSE /\ p.refused = FALSE
  BY DEF Packet
<1>2. p.addr \in Int
  <2>1. Device \in Nat
    <3>1. Static[1] \in Rule
      BY ConfigFacts, Zenon
    <3> QED
      BY <3>1 DEF Device, Rule
  <2>2. CASE k = "vault"
    <3>1. Len(Static) > 1 /\ Len(Static) \in Nat
      BY <2>2, ConfigFacts DEF Config, KindsAssumption
    <3>2. 2 \in 1..Len(Static)
      BY <3>1
    <3>3. Static[2] \in Rule
      BY <3>2, ConfigFacts, Zenon
    <3> QED
      BY <2>2, <3>3 DEF Packet, Rule
  <2> QED
    BY <2>1, <2>2 DEF Packet
<1>3. p = [kind |-> p.kind, names |-> p.names, remapped |-> p.remapped, refused |-> p.refused, addr |-> p.addr]
  BY DEF Packet
<1> HIDE DEF p
<1>4. p \in [kind : Kinds \cup {"device"}, names : Nat, remapped : BOOLEAN, refused : BOOLEAN, addr : Int]
  BY <1>1, <1>2, <1>3, Zenon
<1> QED
  BY <1>1, <1>4, Zenon DEF PacketOK, p

-----------------------------------------------------------------------------
(* Steps of the core.                                                      *)

\* The invariant, said of the state after a step.
LEMMA InvAfter ==
  ASSUME TlbOK(tlb'), PacketOK(pkt'),
         core' \in {"idle", "retry", "wait"}, owed' \in BOOLEAN, queued' \in BOOLEAN,
         dma' \in Dma, dma'.state = "transfer" => DmaPages # {},
         core' # "wait" => inflight' = NoPacket /\ queued' = FALSE,
         core' # "retry" => owed' = FALSE /\ tlb'.pending = {},
         core' = "retry" =>
             /\ pkt'.kind # "refill"
             /\ pkt'.kind = "vault" => pkt'.remapped
             /\ pkt'.remapped => pkt'.refused
             /\ owed' \/ pkt'.remapped => tlb'.pending = {}
             /\ tlb'.pending \subseteq {Target(pkt')},
         queued' => inflight' = NoPacket /\ pkt'.kind = "refill",
         inflight' # NoPacket /\ pkt'.kind = "data" => inflight'.orig = Kept(pkt'),
         core' = "idle" /\ answer' # -1 /\ pkt'.kind = "data" => answer' = Kept(pkt'),
         PanicCauses'
  PROVE  Inv'
<1>1. TlbOK(tlb)'
  BY Zenon DEF TlbOK
<1>2. PacketOK(pkt)'
  BY Zenon DEF PacketOK
<1>3. Target(pkt)' = Target(pkt')
  BY Zenon DEF Target
<1>4. NoPacket' = NoPacket
  BY Zenon DEF NoPacket
<1>5. Kept(pkt)' = Kept(pkt')
  BY Zenon DEF Kept
<1> QED
  BY <1>1, <1>2, <1>3, <1>4, <1>5, Zenon DEF Inv, WaitingOK, OrigOK

\* What Inv says of the parts that a request leaves alone.
Rest ==
    /\ core # "wait" /\ inflight = NoPacket /\ queued = FALSE
    /\ dma \in Dma /\ (dma.state = "transfer" => DmaPages # {})
    /\ PanicCauses

\* A packet that the bus refuses keeps the address it was given.
LEMMA RefusedOK ==
  ASSUME NEW p, PacketOK(p), p.remapped
  PROVE  /\ PacketOK([p EXCEPT !.refused = TRUE])
         /\ [p EXCEPT !.refused = TRUE].refused /\ [p EXCEPT !.refused = TRUE].remapped
         /\ [p EXCEPT !.refused = TRUE].kind = p.kind
<1> DEFINE q == [p EXCEPT !.refused = TRUE]
<1>1. p \in [kind : Kinds \cup {"device"}, names : Nat, remapped : BOOLEAN, refused : BOOLEAN, addr : Int]
  BY Zenon DEF PacketOK
<1>2. /\ q.kind = p.kind /\ q.names = p.names /\ q.remapped /\ q.refused /\ q.addr = p.addr
      /\ q \in [kind : Kinds \cup {"device"}, names : Nat, remapped : BOOLEAN, refused : BOOLEAN, addr : Int]
  BY <1>1, Zenon
<1> HIDE DEF q
<1>3. RightAddress(q) = RightAddress(p)
  BY <1>2, Zenon DEF RightAddress
<1>4. PacketOK(q)
  BY <1>2, <1>3, Zenon DEF PacketOK
<1> QED
  BY <1>2, <1>4, Zenon DEF q

\* The bus takes a packet that has been remapped, or asks the core to wait.
LEMMA SendKeeps ==
  ASSUME Config, Rest, NEW p, PacketOK(p), p.remapped, NEW orig,
         p.kind = "data" => orig = Kept(p),
         TlbOK(tlb'), tlb'.pending = {}, SendOnBus(p, orig), UNCHANGED <<queued, dma, panic, answer>>
  PROVE  Inv'
<1>1. queued' = queued /\ dma' = dma /\ panic' = panic /\ answer' = answer
  OBVIOUS
<1>2. p.kind # "refill"
  BY DEF PacketOK
<1>3. PanicCauses'
  BY <1>1 DEF Rest, PanicCauses
<1>4. CASE pkt' = p /\ core' = "wait" /\ inflight' = [addr |-> p.addr, orig |-> orig] /\ owed' = FALSE
  <2>1. inflight'.orig = orig
    BY <1>4
  <2> QED
    BY <1>1, <1>2, <1>3, <1>4, <2>1, InvAfter, Zenon DEF Rest
<1>5. CASE BusRejects /\ pkt' = [p EXCEPT !.refused = TRUE] /\ core' = "retry" /\ owed' = TRUE /\ UNCHANGED inflight
  <2>1. PacketOK(pkt') /\ pkt'.refused /\ pkt'.remapped /\ pkt'.kind = p.kind
    BY <1>5, RefusedOK, Zenon
  <2> QED
    BY <1>1, <1>2, <1>3, <1>5, <2>1, InvAfter, Zenon DEF Rest
<1> QED
  BY <1>4, <1>5, Zenon DEF SendOnBus

\* Forwarding a packet keeps the invariant, whether the bus takes it or not: it
\* is remapped by the right rule, once.
LEMMA ForwardKeeps ==
  ASSUME Config, Rest, NEW p, PacketOK(p), p.kind # "refill", p.remapped => p.refused,
         NEW t, TlbOK(t), t.pending = {}, Forward(p, t), UNCHANGED <<queued, dma, panic, answer>>
  PROVE  Inv'
<1>1. CASE /\ ~ p.remapped /\ Find(t, Target(p)) > 0
           /\ tlb' = Touch(t, Find(t, Target(p)))
           /\ SendOnBus([p EXCEPT !.addr = Remapped(t, Target(p)), !.remapped = TRUE], Target(p))
  <2> DEFINE q == [p EXCEPT !.addr = Remapped(t, Target(p)), !.remapped = TRUE]
  <2>1. Find(t, Target(p)) \in 1..Len(t.rules) /\ PacketOK(q)
    BY <1>1, RemapRight, Zenon
  <2>2. TlbOK(tlb') /\ tlb'.pending = {}
    BY <1>1, <2>1, TouchOK, Zenon
  <2>3. q.remapped /\ q.kind = p.kind /\ Kept(q) = p.names
    <3>1. /\ p \in [kind : Kinds \cup {"device"}, names : Nat, remapped : BOOLEAN, refused : BOOLEAN, addr : Int]
          /\ ~p.refused
      BY <1>1, Zenon DEF PacketOK
    <3>2. q.remapped /\ q.kind = p.kind /\ q.names = p.names /\ q.refused = p.refused
      BY <3>1, Zenon
    <3> QED
      BY <3>1, <3>2, Zenon DEF Kept
  <2>4. p.kind = "data" => Target(p) = p.names
    BY <1>1, TargetFacts
  <2>5. SendOnBus(q, Target(p))
    BY <1>1, Zenon
  <2> HIDE DEF q
  <2> QED
    BY <2>1, <2>2, <2>3, <2>4, <2>5, SendKeeps, Zenon
<1>2. CASE p.remapped /\ tlb' = t /\ SendOnBus(p, p.addr)
  <2>1. Kept(p) = p.addr
    BY <1>2, Zenon DEF Kept
  <2> QED
    BY <1>2, <2>1, SendKeeps, Zenon
<1> QED
  BY <1>1, <1>2, Zenon DEF Forward

\* recvTimingReq, whoever calls it.
LEMMA RequestKeeps ==
  ASSUME Config, Rest, NEW p, PacketOK(p), p.kind # "refill", p.remapped => p.refused,
         NEW t, TlbOK(t), t.pending = {},
         p.kind = "vault" => p.remapped \/ Find(t, Static[2].vaddr) > 0,
         RecvTimingReq(p, t)
  PROVE  Inv'
<1>1. UNCHANGED <<queued, dma, panic, answer>>
  BY Zenon DEF RecvTimingReq
<1>2. CASE Forward(p, t)
  BY <1>1, <1>2, ForwardKeeps, Zenon
<1>3. CASE TimingMiss(p, t)
  <2>1. /\ ~p.remapped /\ Find(t, Target(p)) = 0 /\ pkt' = p /\ core' = "retry" /\ inflight' = inflight
        /\ \/ tlb' = [t EXCEPT !.pending = @ \cup {Target(p)}] /\ owed' = FALSE
           \/ BusRejects /\ tlb' = t /\ owed' = TRUE
    BY <1>3, Zenon DEF TimingMiss
  <2>2. Target(p) \in Pages /\ p.kind \in {"data", "hmc"}
    BY <2>1, MissIsPage, Zenon
  <2>3. PanicCauses'
    BY <1>1 DEF Rest, PanicCauses
  <2>4. CASE tlb' = [t EXCEPT !.pending = @ \cup {Target(p)}] /\ owed' = FALSE
    <3>1. /\ tlb'.rules = t.rules /\ tlb'.lastUsed = t.lastUsed /\ tlb'.pending = {Target(p)}
          /\ tlb' \in [rules : Seq(Rule), lastUsed : Seq(Nat), pending : SUBSET Pages, recency : SUBSET (Rules \X Rules)]
      <4>1. t \in [rules : Seq(Rule), lastUsed : Seq(Nat), pending : SUBSET Pages, recency : SUBSET (Rules \X Rules)]
        BY Zenon DEF TlbOK
      <4> QED
        BY <2>2, <2>4, <4>1, Zenon
    <3>2. TlbOK(tlb')
      BY <3>1, Zenon DEF TlbOK
    <3> QED
      BY <1>1, <2>1, <2>2, <2>3, <2>4, <3>1, <3>2, InvAfter, Zenon DEF Rest
  <2>5. CASE BusRejects /\ tlb' = t /\ owed' = TRUE
    BY <1>1, <2>1, <2>2, <2>3, <2>5, InvAfter, Zenon DEF Rest
  <2> QED
    BY <2>1, <2>4, <2>5, Zenon
<1>4. CASE IdealMiss(p, t)
  <2> DEFINE u == UpdateTLB(t, Table[Target(p)])
  <2>1. ~p.remapped /\ Find(t, Target(p)) = 0 /\ Forward(p, u)
    BY <1>4, Zenon DEF IdealMiss
  <2>2. Target(p) \in Pages
    BY <2>1, MissIsPage, Zenon
  <2>3. TlbOK(u) /\ u.pending = {}
    BY <2>2, RefilledPage, Zenon
  <2> HIDE DEF u
  <2> QED
    BY <1>1, <2>1, <2>3, ForwardKeeps, Zenon
<1> QED
  BY <1>2, <1>3, <1>4, Zenon DEF RecvTimingReq

\* refillTLB_functional and refillTLB_atomic keep the TLB in order.
LEMMA FunctionalKeeps ==
  ASSUME Config, TlbOK(tlb), NEW v \in Pages
  PROVE  TlbOK(RefillFunctional(v)) /\ RefillFunctional(v).pending = tlb.pending
  BY RefilledPage, Zenon DEF RefillFunctional

\* A panic leaves everything else as it is.
LEMMA StopKeeps ==
  ASSUME Inv, NEW why, Stop(why), PanicCauses'
  PROVE  Inv'
<1>1. /\ tlb' = tlb /\ core' = core /\ pkt' = pkt /\ owed' = owed /\ inflight' = inflight
      /\ queued' = queued /\ dma' = dma /\ answer' = answer
  BY Zenon DEF Stop
<1> QED
  BY <1>1, InvAfter, Zenon DEF Inv, WaitingOK, OrigOK

\* A request of the core keeps the invariant.
LEMMA CoreRequestKeeps ==
  ASSUME Config, Inv, NEW k \in Kinds, NEW v \in Pages, CoreRequest(k, v)
  PROVE  Inv'
<1> DEFINE p == Packet(k, v)
<1>1. /\ core = "idle" /\ k # "refill" /\ RecvTimingReq(p, tlb)
      /\ k = "vault" => Find(tlb, Static[2].vaddr) > 0
  BY Zenon DEF CoreRequest
<1>2. v \in Nat
  BY ConfigFacts, Zenon
<1>3. PacketOK(p) /\ ~p.remapped /\ p.kind = k
  BY <1>2, NewPacket, Zenon
<1>4. TlbOK(tlb) /\ tlb.pending = {} /\ Rest
  <2>1. core # "wait" /\ core # "retry"
    BY <1>1
  <2> QED
    BY <2>1, Zenon DEF Inv, Rest
<1> HIDE DEF p
<1> QED
  BY <1>1, <1>3, <1>4, RequestKeeps, Zenon

\* A refill that the program asks for (the packet to the TLB's own range) keeps
\* the invariant.
LEMMA SoftwareRefillKeeps ==
  ASSUME Config, Inv, NEW v \in Pages, SoftwareRefill(v)
  PROVE  Inv'
<1>1. /\ core = "idle" /\ "refill" \in Kinds /\ tlb' = RefillFunctional(v) /\ core' = "wait"
      /\ pkt' = Packet("refill", v) /\ queued' = TRUE
      /\ owed' = owed /\ inflight' = inflight /\ dma' = dma /\ panic' = panic /\ answer' = answer
  BY Zenon DEF SoftwareRefill
<1>2. core # "wait" /\ core # "retry" /\ core' # "idle" /\ core' # "retry" /\ core' = "wait" /\ "refill" # "data"
  BY <1>1
<1>3. TlbOK(tlb) /\ tlb.pending = {} /\ owed = FALSE /\ inflight = NoPacket
  BY <1>2, Zenon DEF Inv
<1>4. TlbOK(tlb') /\ tlb'.pending = {}
  BY <1>1, <1>3, FunctionalKeeps, Zenon
<1>5. v \in Nat /\ "refill" \in Kinds \cup {"device"}
  BY <1>1, ConfigFacts, Zenon
<1>6. PacketOK(pkt') /\ pkt'.kind = "refill"
  BY <1>1, <1>5, NewPacket, Zenon
<1>7. PanicCauses'
  BY <1>1, Zenon DEF Inv, PanicCauses
<1> QED
  BY <1>1, <1>2, <1>3, <1>4, <1>6, <1>7, InvAfter, Zenon DEF Inv

\* The queued answer to such a refill keeps it.
LEMMA DequeueKeeps ==
  ASSUME Inv, Dequeue
  PROVE  Inv'
<1>1. /\ queued /\ queued' = FALSE /\ core' = "idle"
      /\ tlb' = tlb /\ pkt' = pkt /\ owed' = owed /\ inflight' = inflight /\ dma' = dma /\ panic' = panic
  BY Zenon DEF Dequeue
<1>2. core = "wait" /\ inflight = NoPacket /\ pkt.kind = "refill"
  BY <1>1, Zenon DEF Inv
<1>3. core # "retry" /\ core' # "retry" /\ "refill" # "data"
  BY <1>1, <1>2
<1>4. PanicCauses'
  BY <1>1, Zenon DEF Inv, PanicCauses
<1> QED
  BY <1>1, <1>2, <1>3, <1>4, InvAfter, Zenon DEF Inv

\* The answer of memory keeps it: the core gets back the address it asked for.
LEMMA ResponseKeeps ==
  ASSUME Inv, Response
  PROVE  Inv'
<1>1. /\ inflight # NoPacket /\ inflight' = NoPacket /\ core' = "idle" /\ answer' = inflight.orig
      /\ tlb' = tlb /\ pkt' = pkt /\ owed' = owed /\ queued' = queued /\ dma' = dma /\ panic' = panic
  BY Zenon DEF Response
<1>2. core = "wait" /\ queued = FALSE
  BY <1>1, Zenon DEF Inv
<1>3. core # "retry" /\ core' # "retry"
  BY <1>1, <1>2
<1>4. PanicCauses'
  BY <1>1, Zenon DEF Inv, PanicCauses
<1> QED
  BY <1>1, <1>2, <1>3, <1>4, InvAfter, Zenon DEF Inv, OrigOK

\* The answer to a refill finds the core waiting with the packet that missed.
LEMMA RefillResponseKeeps ==
  ASSUME Config, Inv, NEW v \in Pages, RefillResponse(v)
  PROVE  Inv'
<1>1. v \in tlb.pending
  BY Zenon DEF RefillResponse
<1>2. core = "retry" /\ WaitingOK
  BY <1>1, Zenon DEF Inv
<1> DEFINE s == [tlb EXCEPT !.pending = @ \ {v}]
           t == UpdateTLB(s, Table[v])
<1>3. RecvTimingReq(pkt, t)
  BY <1>2, Zenon DEF RefillResponse
<1>4. TlbOK(s) /\ s.pending = {}
  <2>1. /\ tlb \in [rules : Seq(Rule), lastUsed : Seq(Nat), pending : SUBSET Pages, recency : SUBSET (Rules \X Rules)]
        /\ TlbOK(tlb)
    BY Zenon DEF Inv, TlbOK
  <2>2. tlb.pending \subseteq {Target(pkt)}
    BY <1>2, Zenon DEF WaitingOK
  <2>3. tlb.pending \ {v} = {}
    BY <1>1, <2>2
  <2>4. /\ s.rules = tlb.rules /\ s.lastUsed = tlb.lastUsed /\ s.pending = {}
        /\ s \in [rules : Seq(Rule), lastUsed : Seq(Nat), pending : SUBSET Pages, recency : SUBSET (Rules \X Rules)]
    BY <2>1, <2>3, Zenon
  <2> HIDE DEF s
  <2> QED
    BY <2>1, <2>4, Zenon DEF TlbOK
<1> HIDE DEF s
<1>5. TlbOK(t) /\ t.pending = {}
  BY <1>4, RefilledPage, Zenon
<1> HIDE DEF t
<1>6. pkt.kind # "refill" /\ pkt.kind # "vault" /\ ~pkt.remapped
  BY <1>1, <1>2, Zenon DEF WaitingOK
<1>7. Rest /\ PacketOK(pkt)
  <2>1. core # "wait"
    BY <1>2
  <2> QED
    BY <2>1, Zenon DEF Inv, Rest
<1> QED
  BY <1>3, <1>5, <1>6, <1>7, RequestKeeps, Zenon

\* A retry of the bus finds the packet the core was refused, and sends it again.
LEMMA BusRetryKeeps ==
  ASSUME Config, Inv, BusRetry
  PROVE  Inv'
<1>1. owed
  BY Zenon DEF BusRetry
<1>2. core = "retry" /\ WaitingOK
  BY <1>1, Zenon DEF Inv
<1>3. RecvTimingReq(pkt, tlb)
  BY <1>2, Zenon DEF BusRetry
<1>4. tlb.pending = {} /\ pkt.kind # "refill" /\ (pkt.kind = "vault" => pkt.remapped) /\ (pkt.remapped => pkt.refused)
  BY <1>1, <1>2, Zenon DEF WaitingOK
<1>5. Rest /\ PacketOK(pkt) /\ TlbOK(tlb)
  <2>1. core # "wait"
    BY <1>2
  <2> QED
    BY <2>1, Zenon DEF Inv, Rest
<1> QED
  BY <1>3, <1>4, <1>5, RequestKeeps, Zenon

-----------------------------------------------------------------------------
(* The atomic mode and the DMA engine.                                     *)

\* The slice table begins above the device.
LEMMA SliceStart ==
  ASSUME Config
  PROVE  /\ PIM_SLICEVSTART \in Pages /\ \A v \in Pages : PIM_SLICEVSTART <= v
         /\ Device < PIM_SLICEVSTART
<1>1. Pages \in SUBSET Nat /\ Pages # {}
  BY Zenon DEF Config, TableAssumption
<1>2. \E v \in Pages : \A w \in Pages : v <= w
  BY <1>1, Least, Zenon
<1>3. PIM_SLICEVSTART \in Pages /\ \A v \in Pages : PIM_SLICEVSTART <= v
  BY <1>2, Zenon DEF PIM_SLICEVSTART
<1>4. Device < PIM_SLICEVSTART
  <2>1. Static[1] \in Rule /\ PIM_SLICEVSTART \in Nat
    BY <1>1, <1>3, ConfigFacts, Zenon
  <2>2. Static[1].vaddr + Static[1].size <= PIM_SLICEVSTART
    BY <1>3, Zenon DEF Config, TableAssumption
  <2>3. Static[1].vaddr \in Nat /\ Static[1].size \in Nat \ {0}
    BY <2>1, Zenon DEF Rule
  <2> QED
    BY <2>1, <2>2, <2>3 DEF Device
<1> QED
  BY <1>3, <1>4, Zenon

\* recvAtomic refills for a page only: for a command the assertion of
\* refillTLB_atomic fails.
LEMMA AtomicRequestKeeps ==
  ASSUME Config, Inv, NEW k \in Kinds, NEW v \in Pages, AtomicRequest(k, v)
  PROVE  Inv'
<1> DEFINE p    == Packet(k, v)
           miss == Find(tlb, Target(p)) = 0
           t    == IF miss THEN RefillAtomic(p.addr) ELSE tlb
           a    == IF miss THEN p.addr ELSE Target(p)
           q    == [p EXCEPT !.addr = Remapped(t, a), !.remapped = TRUE]
<1>1. /\ ~TimingMode /\ core = "idle" /\ k # "refill" /\ (k = "vault" => ~miss)
      /\ IF miss /\ p.addr < PIM_SLICEVSTART
           THEN Stop("assert")
           ELSE /\ tlb' = Touch(t, Find(t, a)) /\ pkt' = q /\ answer' = p.addr
                /\ UNCHANGED <<core, owed, inflight, queued, dma, panic>>
  BY Zenon DEF AtomicRequest
<1>2. v \in Nat /\ k \in Kinds \cup {"device"}
  BY ConfigFacts, Zenon
<1>3. PacketOK(p) /\ ~p.remapped /\ ~p.refused /\ p.kind = k /\ p.names = v
  BY <1>2, NewPacket, Zenon
<1>4. k \in {"data", "hmc", "device", "vault"} /\ (k = "data" => p.addr = v) /\ (k = "hmc" => p.addr = Device)
      /\ (k = "vault" => p.addr = Static[2].vaddr)
  BY <1>1 DEF Packet, Config, KindsAssumption
<1> HIDE DEF p
<1>5. core # "wait" /\ core # "retry"
  BY <1>1
<1>6. /\ TlbOK(tlb) /\ tlb.pending = {} /\ owed = FALSE /\ inflight = NoPacket /\ queued = FALSE
      /\ dma \in Dma /\ (dma.state = "transfer" => DmaPages # {}) /\ PanicCauses
  BY <1>5, Zenon DEF Inv
<1>7. Target(p) \in Nat /\ (k \in {"data", "hmc"} => Target(p) = v) /\ (k = "device" => Target(p) = Device)
      /\ (k = "vault" => Target(p) = Static[2].vaddr /\ 2 \in 1..Len(Static))
  <2>1. CASE p.kind \in {"data", "hmc"} /\ p.names \in Pages /\ Target(p) = p.names
    BY <1>2, <1>3, <2>1
  <2>2. CASE p.kind = "device" /\ Target(p) = Device
    <3>1. Device \in Nat
      BY <1>6, RemapDevice, Zenon
    <3> QED
      BY <1>3, <2>2, <3>1
  <2>3. CASE p.kind = "vault" /\ 2 \in 1..Len(Static) /\ Target(p) = Static[2].vaddr
    <3>1. Static[2] \in Rule
      BY <2>3, ConfigFacts, Zenon
    <3>2. Static[2].vaddr \in Nat
      BY <3>1, Zenon DEF Rule
    <3> QED
      BY <1>3, <2>3, <3>2
  <2> QED
    BY <1>1, <1>3, <2>1, <2>2, <2>3, TargetFacts, Zenon
<1>8. CASE miss /\ p.addr < PIM_SLICEVSTART
  <2>1. Stop("assert")
    BY <1>1, <1>8, Zenon
  <2>2. k # "device"
    <3>1. Find(tlb, Device) = 1
      BY <1>6, RemapDevice, Zenon
    <3> QED
      BY <1>7, <1>8, <3>1
  <2>3. k # "data"
    <3>1. PIM_SLICEVSTART \in Nat /\ PIM_SLICEVSTART <= v
      BY SliceStart, ConfigFacts, Zenon
    <3> QED
      BY <1>2, <1>4, <1>8, <3>1
  <2>4. "hmc" \in Kinds
    BY <1>1, <1>4, <1>8, <2>2, <2>3, Zenon
  <2>5. PanicCauses'
    BY <1>1, <2>1, <2>4 DEF Stop, PanicCauses
  <2> QED
    BY <2>1, <2>5, StopKeeps, Zenon
<1>9. CASE ~(miss /\ p.addr < PIM_SLICEVSTART)
  <2>1. /\ tlb' = Touch(t, Find(t, a)) /\ pkt' = q /\ answer' = p.addr
        /\ core' = core /\ owed' = owed /\ inflight' = inflight /\ queued' = queued /\ dma' = dma /\ panic' = panic
    BY <1>1, <1>9, Zenon
  <2>2. a = Target(p) /\ TlbOK(t) /\ t.pending = {} /\ Find(t, a) > 0
    <3>1. CASE miss
      <4>1. k # "device"
        <5>1. Find(tlb, Device) = 1
          BY <1>6, RemapDevice, Zenon
        <5> QED
          BY <1>7, <3>1, <5>1
      <4>2. k # "hmc" /\ k # "vault"
        BY <1>1, <1>4, <1>9, <3>1, SliceStart, Zenon
      <4>3. k = "data"
        BY <1>4, <4>1, <4>2, Zenon
      <4>4. a = v /\ Target(p) = v /\ t = UpdateTLB(tlb, Table[v])
        BY <1>4, <1>7, <3>1, <4>3 DEF RefillAtomic
      <4> HIDE DEF a, t, miss
      <4> QED
        BY <1>6, <4>4, RefilledPage, Zenon
    <3>2. CASE ~miss
      <4>1. t = tlb /\ a = Target(p)
        BY <3>2, Zenon
      <4>2. tlb.rules \in Seq(Rule)
        BY <1>6, Zenon DEF TlbOK
      <4>3. Find(tlb, Target(p)) \in 0..Len(tlb.rules)
        BY <1>7, <4>2, FindFirst, Zenon
      <4>4. Len(tlb.rules) \in Nat
        BY <4>2
      <4>5. Find(tlb, Target(p)) > 0
        BY <3>2, <4>3, <4>4
      <4> QED
        BY <1>6, <4>1, <4>5, Zenon
    <3> QED
      BY <3>1, <3>2, Zenon
  <2> HIDE DEF t, a, miss
  <2>3. Find(t, Target(p)) \in 1..Len(t.rules) /\ PacketOK(q)
    BY <1>1, <1>3, <2>2, RemapRight, Zenon
  <2>4. TlbOK(tlb') /\ tlb'.pending = {}
    BY <2>1, <2>2, <2>3, TouchOK, Zenon
  <2>5. q.kind = k /\ Kept(q) = v
    <3>1. p \in [kind : Kinds \cup {"device"}, names : Nat, remapped : BOOLEAN, refused : BOOLEAN, addr : Int]
      BY <1>3, Zenon DEF PacketOK
    <3>2. q.kind = k /\ q.names = v /\ ~q.refused
      BY <1>3, <3>1, Zenon
    <3> QED
      BY <3>2, Zenon DEF Kept
  <2> HIDE DEF q
  <2>6. PanicCauses'
    BY <1>6, <2>1, Zenon DEF PanicCauses
  <2> QED
    BY <1>1, <1>4, <1>5, <1>6, <2>1, <2>3, <2>4, <2>5, <2>6, InvAfter, Zenon
<1> QED
  BY <1>8, <1>9, Zenon

\* In atomic mode the program's refill keeps the invariant.
LEMMA AtomicRefillKeeps ==
  ASSUME Config, Inv, NEW v \in Pages, AtomicRefill(v)
  PROVE  Inv'
<1>1. /\ core = "idle" /\ "refill" \in Kinds /\ tlb' = RefillFunctional(v) /\ pkt' = Packet("refill", v)
      /\ core' = core /\ owed' = owed /\ inflight' = inflight /\ queued' = queued /\ dma' = dma /\ panic' = panic
  BY Zenon DEF AtomicRefill
<1>2. core # "wait" /\ core # "retry" /\ "refill" # "data"
  BY <1>1
<1>3. TlbOK(tlb) /\ tlb.pending = {} /\ owed = FALSE /\ inflight = NoPacket /\ queued = FALSE
  BY <1>2, Zenon DEF Inv
<1>4. TlbOK(tlb') /\ tlb'.pending = {}
  BY <1>1, <1>3, FunctionalKeeps, Zenon
<1>5. v \in Nat /\ "refill" \in Kinds \cup {"device"}
  BY <1>1, ConfigFacts, Zenon
<1>6. PacketOK(pkt') /\ pkt'.kind = "refill"
  BY <1>1, <1>5, NewPacket, Zenon
<1>7. PanicCauses'
  BY <1>1, Zenon DEF Inv, PanicCauses
<1> QED
  BY <1>1, <1>2, <1>3, <1>4, <1>6, <1>7, InvAfter, Zenon DEF Inv

\* The refills and the transfers of the DMA engine keep the invariant.
LEMMA DmaKeeps ==
  ASSUME Config, Inv, (\E v \in DmaPages : DmaRefill(v)) \/ DmaTransfer
  PROVE  Inv'
<1>1. ASSUME NEW v \in DmaPages, DmaRefill(v) PROVE Inv'
  <2>1. v \in Pages /\ DmaPages # {}
    BY Zenon DEF Config, TableAssumption
  <2>2. CASE Collides(v)
    <3>1. Stop("functional")
      BY <1>1, <2>2, Zenon DEF DmaRefill
    <3>2. PanicCauses'
      BY <2>1, <3>1 DEF Stop, PanicCauses
    <3> QED
      BY <3>1, <3>2, StopKeeps, Zenon
  <2>3. CASE ~Collides(v)
    <3>1. /\ tlb' = RefillFunctional(v) /\ dma' = [state |-> "transfer", vstart |-> v]
          /\ core' = core /\ pkt' = pkt /\ owed' = owed /\ inflight' = inflight /\ queued' = queued
          /\ panic' = panic /\ answer' = answer
      BY <1>1, <2>3, Zenon DEF DmaRefill
    <3>2. TlbOK(tlb') /\ tlb'.pending = tlb.pending
      BY <2>1, <3>1, FunctionalKeeps, Zenon DEF Inv
    <3>3. dma' \in Dma
      <4>1. v \in Int
        BY <2>1, ConfigFacts
      <4> QED
        BY <3>1, <4>1 DEF Dma
    <3>4. PanicCauses'
      BY <3>1, Zenon DEF Inv, PanicCauses
    <3> QED
      BY <2>1, <3>1, <3>2, <3>3, <3>4, InvAfter, Zenon DEF Inv, WaitingOK, OrigOK
  <2> QED
    BY <2>2, <2>3, Zenon
<1>2. ASSUME DmaTransfer PROVE Inv'
  <2>1. dma.state = "transfer" /\ DmaPages # {}
    BY <1>2, Zenon DEF DmaTransfer, Inv
  <2>2. CASE Find(tlb, dma.vstart) = 0
    <3>1. Stop("slice_vend")
      BY <1>2, <2>2, Zenon DEF DmaTransfer
    <3>2. PanicCauses'
      BY <2>1, <3>1 DEF Stop, PanicCauses
    <3> QED
      BY <3>1, <3>2, StopKeeps, Zenon
  <2>3. CASE Find(tlb, dma.vstart) # 0
    <3>1. /\ dma' = [dma EXCEPT !.state = "idle"]
          /\ tlb' = tlb /\ core' = core /\ pkt' = pkt /\ owed' = owed /\ inflight' = inflight
          /\ queued' = queued /\ panic' = panic /\ answer' = answer
      BY <1>2, <2>3, Zenon DEF DmaTransfer
    <3>2. dma' \in Dma
      <4>1. dma \in Dma
        BY Zenon DEF Inv
      <4> QED
        BY <3>1, <4>1 DEF Dma
    <3>3. PanicCauses'
      BY <3>1, Zenon DEF Inv, PanicCauses
    <3> QED
      BY <2>1, <3>1, <3>2, <3>3, InvAfter, Zenon DEF Inv, WaitingOK, OrigOK
  <2> QED
    BY <2>2, <2>3, Zenon
<1> QED
  BY <1>1, <1>2, Zenon

-----------------------------------------------------------------------------
(* The theorems.                                                           *)

\* The invariant holds at the start: the TLB has only the configured ranges.
LEMMA InitInv ==
  ASSUME Config, Init
  PROVE  Inv
<1>1. /\ tlb = [rules |-> Static, lastUsed |-> <<0>>, pending |-> {}, recency |-> {}]
      /\ core = "idle" /\ pkt = Packet("device", Device)
      /\ owed = FALSE /\ inflight = NoPacket /\ queued = FALSE
      /\ dma = [state |-> "idle", vstart |-> -1] /\ panic = "none" /\ answer = -1
  BY Zenon DEF Init
<1>2. /\ Static \in Seq(Rule) /\ Len(Static) \in Nat \ {0} /\ Static[1] \in Rule
      /\ TlbSize \in Nat /\ TlbSize > Len(Static) /\ \A i \in 1..Len(Static) : Static[i] \in Rules
  BY ConfigFacts, Zenon
<1>3. TlbOK(tlb)
  <2>1. tlb.rules = Static /\ tlb.lastUsed = <<0>> /\ tlb.pending = {} /\ tlb.recency = {}
    BY <1>1
  <2>2. <<0>> \in Seq(Nat) /\ Len(<<0>>) = 1 /\ \A i \in 1..1 : <<0>>[i] <= 1
    OBVIOUS
  <2>3. tlb \in [rules : Seq(Rule), lastUsed : Seq(Nat), pending : SUBSET Pages, recency : SUBSET (Rules \X Rules)]
    BY <1>1, <1>2, <2>2
  <2>4. Len(Static) \in Len(Static)..TlbSize /\ 1 = Len(Static) - Len(Static) + 1
    BY <1>2
  <2> QED
    BY <1>2, <2>1, <2>2, <2>3, <2>4, Zenon DEF TlbOK
<1>4. PacketOK(pkt) /\ pkt.kind = "device"
  <2>1. Device \in Nat /\ "device" \in Kinds \cup {"device"}
    BY <1>3, RemapDevice, Zenon
  <2> QED
    BY <1>1, <2>1, NewPacket, Zenon
<1>5. dma \in Dma /\ dma.state = "idle" /\ tlb.pending = {}
  BY <1>1 DEF Dma
<1> QED
  BY <1>1, <1>3, <1>4, <1>5, Zenon DEF Inv, PanicCauses, OrigOK

\* Every step keeps the invariant.
LEMMA NextInv ==
  ASSUME Config, Inv, [Next]_vars
  PROVE  Inv'
<1>1. CASE UNCHANGED vars
  <2>1. /\ tlb' = tlb /\ core' = core /\ pkt' = pkt /\ owed' = owed /\ inflight' = inflight
        /\ queued' = queued /\ dma' = dma /\ panic' = panic /\ answer' = answer
    BY <1>1, Zenon DEF vars
  <2>2. PanicCauses'
    BY <2>1, Zenon DEF Inv, PanicCauses
  <2> QED
    BY <2>1, <2>2, InvAfter, Zenon DEF Inv, WaitingOK, OrigOK
<1>2. CASE \E k \in Kinds, v \in Pages : CoreRequest(k, v) \/ AtomicRequest(k, v)
  BY <1>2, CoreRequestKeeps, AtomicRequestKeeps, Zenon
<1>3. CASE \E v \in Pages : SoftwareRefill(v) \/ AtomicRefill(v) \/ RefillResponse(v)
  BY <1>3, SoftwareRefillKeeps, AtomicRefillKeeps, RefillResponseKeeps, Zenon
<1>4. CASE Dequeue \/ Response \/ BusRetry
  BY <1>4, DequeueKeeps, ResponseKeeps, BusRetryKeeps, Zenon
<1>5. CASE (\E v \in DmaPages : DmaRefill(v)) \/ DmaTransfer
  BY <1>5, DmaKeeps, Zenon
<1> QED
  BY <1>1, <1>2, <1>3, <1>4, <1>5, Zenon DEF Next

\* Inv holds in every state, whatever table, configuration and size.
THEOREM Invariance == Config => (Spec => []Inv)
<1> SUFFICES ASSUME Config PROVE Spec => []Inv
  OBVIOUS
<1>1. Init => Inv
  BY InitInv
<1>2. Inv /\ [Next]_vars => Inv'
  BY NextInv
<1> QED
  BY <1>1, <1>2, PTL DEF Spec

\* The sizes and the sets of values that the code relies on.
THEOREM TypeCorrect == Config => (Spec => []TypeOK)
<1> SUFFICES ASSUME Config PROVE Spec => []TypeOK
  OBVIOUS
<1>1. ASSUME Inv PROVE TypeOK
  <2>1. /\ tlb.rules \in Seq(Rule) /\ tlb.lastUsed \in Seq(Nat) /\ tlb.pending \subseteq Pages
        /\ Len(tlb.rules) \in Len(Static)..TlbSize /\ Len(tlb.lastUsed) = Len(tlb.rules) - Len(Static) + 1
    BY <1>1, Zenon DEF Inv, TlbOK
  <2>2. (\A i \in 1..Len(tlb.rules) : tlb.rules[i] \in Rules) /\ DOMAIN tlb.rules = 1..Len(tlb.rules)
    BY <1>1, <2>1 DEF Inv, TlbOK
  <2>3. (\A i \in 1..Len(tlb.lastUsed) : tlb.lastUsed[i] <= Len(tlb.lastUsed))
    BY <1>1, Zenon DEF Inv, TlbOK
  <2>4. /\ Len(Static) \in Nat \ {0} /\ TlbSize \in Nat /\ Len(tlb.rules) \in Nat /\ Len(tlb.lastUsed) \in Nat
        /\ DOMAIN tlb.lastUsed = 1..Len(tlb.lastUsed)
        /\ \A i \in 1..Len(tlb.lastUsed) : tlb.lastUsed[i] \in Nat
    <3>1. Len(Static) \in Nat \ {0} /\ TlbSize \in Nat
      BY ConfigFacts, Zenon
    <3>2. tlb.rules \in Seq(Rule) /\ tlb.lastUsed \in Seq(Nat)
      BY <2>1
    <3>3. /\ Len(tlb.rules) \in Nat /\ Len(tlb.lastUsed) \in Nat
          /\ DOMAIN tlb.lastUsed = 1..Len(tlb.lastUsed)
          /\ \A i \in 1..Len(tlb.lastUsed) : tlb.lastUsed[i] \in Nat
      BY <3>2
    <3> QED
      BY <3>1, <3>3, Zenon
  <2>5. Len(tlb.lastUsed) <= TlbSize
    BY <2>1, <2>4
  <2>6. \A i \in 1..Len(tlb.lastUsed) : tlb.lastUsed[i] \in 0..TlbSize
    <3> TAKE i \in 1..Len(tlb.lastUsed)
    <3>1. tlb.lastUsed[i] \in Nat /\ tlb.lastUsed[i] <= Len(tlb.lastUsed)
      BY <2>3, <2>4, Zenon
    <3> QED
      BY <2>4, <2>5, <3>1
  <2>7. Range(tlb.rules) \subseteq Rules
    BY <2>2, Zenon DEF Range
  <2>8. Range(tlb.lastUsed) \subseteq 0..TlbSize
    BY <2>4, <2>6, Zenon DEF Range
  <2>9. pkt.kind \in Kinds \cup {"device"} /\ pkt.remapped \in BOOLEAN /\ pkt.refused \in BOOLEAN
    <3>1. pkt \in [kind : Kinds \cup {"device"}, names : Nat, remapped : BOOLEAN, refused : BOOLEAN, addr : Int]
      BY <1>1, Zenon DEF Inv, PacketOK
    <3> QED
      BY <3>1
  <2>10. dma.state \in {"idle", "transfer"}
    BY <1>1, Zenon DEF Inv, Dma
  <2>11. panic \in {"none", "retry", "functional", "slice_vend", "assert"}
    BY <1>1, Zenon DEF Inv, PanicCauses
  <2> QED
    BY <1>1, <2>1, <2>5, <2>7, <2>8, <2>9, <2>10, <2>11, Zenon DEF TypeOK, Inv
<1> QED
  BY <1>1, Invariance, PTL

\* A request of the core reaches memory at the address that the slice table gives the
\* page the program named, whatever was refused, refilled or evicted on the way.
THEOREM TranslatedRightHolds == Config => (Spec => []TranslatedRight)
<1> SUFFICES ASSUME Config PROVE Spec => []TranslatedRight
  OBVIOUS
<1>1. ASSUME Inv PROVE TranslatedRight
  <2> SUFFICES ASSUME pkt.remapped PROVE TranslatedRight
    BY Zenon DEF TranslatedRight
  <2>1. PacketOK(pkt)
    BY <1>1, Zenon DEF Inv
  <2>2. pkt.addr = RightAddress(pkt) /\ pkt.kind # "refill" /\ pkt.kind \in Kinds \cup {"device"}
    <3>1. pkt \in [kind : Kinds \cup {"device"}, names : Nat, remapped : BOOLEAN, refused : BOOLEAN, addr : Int]
      BY <2>1, Zenon DEF PacketOK
    <3> QED
      BY <2>1, <3>1, Zenon DEF PacketOK
  <2>3. Static[1] \in Rule
    BY ConfigFacts, Zenon
  <2>4. CASE pkt.kind = "device"
    <3>1. pkt.addr = Static[1].paddr /\ Static[1].vaddr - Static[1].vaddr + Static[1].paddr = Static[1].paddr
      BY <2>2, <2>3, <2>4 DEF RightAddress, Rule
    <3> QED
      BY <2>4, <3>1 DEF TranslatedRight
  <2>5. CASE pkt.kind = "vault"
    <3>1. "vault" \in Kinds
      BY <2>2, <2>5
    <3>2. Len(Static) > 1 /\ Len(Static) \in Nat
      BY <3>1, ConfigFacts DEF Config, KindsAssumption
    <3>3. 2 \in 1..Len(Static)
      BY <3>2
    <3>4. Static[2] \in Rule
      BY <3>3, ConfigFacts, Zenon
    <3>5. pkt.addr = Static[2].paddr /\ Static[2].vaddr - Static[2].vaddr + Static[2].paddr = Static[2].paddr
      BY <2>2, <2>5, <3>4 DEF RightAddress, Rule
    <3> QED
      BY <2>5, <3>5 DEF TranslatedRight
  <2>6. CASE pkt.kind # "device" /\ pkt.kind # "vault"
    <3>1. pkt.addr = pkt.names - Table[pkt.names].vaddr + Table[pkt.names].paddr
      BY <2>2, <2>6, Zenon DEF RightAddress
    <3> QED
      BY <2>6, <3>1 DEF TranslatedRight
  <2> QED
    BY <2>4, <2>5, <2>6
<1> QED
  BY <1>1, Invariance, PTL

\* "Restore the state and address": an answer to a request for data has the virtual
\* address the program named, unless the bus has refused that very request, whose
\* answer has the physical one.
THEOREM AnswerHasAddressHolds == Config => (Spec => []AnswerHasAddress)
<1> SUFFICES ASSUME Config PROVE Spec => []AnswerHasAddress
  OBVIOUS
<1>1. ASSUME Inv PROVE AnswerHasAddress
  BY <1>1, Zenon DEF Inv, OrigOK, Kept, AnswerHasAddress
<1> QED
  BY <1>1, Invariance, PTL

\* A retry never finds the core without a packet to send.  The only panics are those
\* of the DMA engine and, in atomic mode, of a command on a miss.
THEOREM PanicCausesHold == Config => (Spec => []PanicCauses)
<1> SUFFICES ASSUME Config PROVE Spec => []PanicCauses
  OBVIOUS
<1>1. ASSUME Inv PROVE PanicCauses
  BY <1>1, Zenon DEF Inv
<1> QED
  BY <1>1, Invariance, PTL

\* In timing mode, and as long as the DMA engine begins no transfer, no assertion fails.
THEOREM NoPanicHolds == Config /\ TimingMode /\ DmaPages = {} => (Spec => []NoPanic)
<1> SUFFICES ASSUME Config, TimingMode, DmaPages = {} PROVE Spec => []NoPanic
  OBVIOUS
<1>1. ASSUME PanicCauses PROVE NoPanic
  BY <1>1 DEF PanicCauses, NoPanic
<1> QED
  BY <1>1, PanicCausesHold, PTL
=============================================================================
