------------------------- MODULE EthzTlbLruProofs -------------------------
(***************************************************************************)
(* The rule that makes room for another is the least recently used one.    *)
(* lastUsed has a place for every rule only if the device's range is the   *)
(* one range of the configuration; and a rule is in the TLB once only if   *)
(* nothing but the core refills it, or every refill is done at once.       *)
(***************************************************************************)
EXTENDS EthzTlbProofs

\* The configurations of the theorem: one configured range, and no refill of the
\* DMA engine that is still under way when the core makes its request.
LruConfig == Len(Static) = 1 /\ (IdealRefill \/ DmaPages = {})

\* The history of the uses says the same as the ticks, which are all different.
LruOK(t) ==
    /\ \A i, j \in 1..Len(t.rules) : t.rules[i] = t.rules[j] => i = j
    /\ \A i, j \in 2..Len(t.rules) : t.lastUsed[i] = t.lastUsed[j] => i = j
    /\ \A i, j \in 2..Len(t.rules) : t.lastUsed[i] <= t.lastUsed[j] <=> <<t.rules[i], t.rules[j]>> \in t.recency
    /\ \A p \in t.recency : p[1] # Static[1] /\ p[2] # Static[1]

\* KeepsRecent, from one value of tlb to another
Evicts(t, u) ==
    \A p \in t.recency :
        /\ p[1] # p[2]
        /\ p[2] \in Range(t.rules) \ Range(u.rules)
        => p[1] \notin Range(t.rules) \cap Range(u.rules)

\* What is in the history after a use of r.
LEMMA UsedPairs ==
  ASSUME NEW order, NEW r, NEW x, NEW y
  PROVE  <<x, y>> \in Used(order, r) <=>
             \/ x # r /\ y # r /\ <<x, y>> \in order
             \/ y = r /\ (x = r \/ \E p \in order : p[1] = x)
<1>1. ASSUME <<x, y>> \in Used(order, r)
      PROVE  \/ x # r /\ y # r /\ <<x, y>> \in order
             \/ y = r /\ (x = r \/ \E p \in order : p[1] = x)
  <2>1. CASE <<x, y>> \in {p \in order : p[1] # r /\ p[2] # r}
    BY <2>1
  <2>2. CASE \E s \in {p[1] : p \in order} \cup {r} : <<x, y>> = <<s, r>>
    BY <2>2
  <2> QED
    BY <1>1, <2>1, <2>2 DEF Used
<1>2. ASSUME x # r /\ y # r /\ <<x, y>> \in order PROVE <<x, y>> \in Used(order, r)
  BY <1>2 DEF Used
<1>3. ASSUME y = r /\ (x = r \/ \E p \in order : p[1] = x) PROVE <<x, y>> \in Used(order, r)
  BY <1>3 DEF Used
<1> QED
  BY <1>1, <1>2, <1>3, Zenon

\* A use of the rule at place e of R, whose tick becomes the largest: the places
\* outside e keep the order that l and the history agreed on.
LEMMA UseKeepsOrder ==
  ASSUME NEW n \in Nat, NEW R, NEW l, NEW order, NEW e \in 2..n,
         \A i \in 1..n : l[i] \in Nat,
         \A i, j \in 1..n : R[i] = R[j] => i = j,
         \A i, j \in 2..n : i # e /\ j # e => (l[i] <= l[j] <=> <<R[i], R[j]>> \in order),
         \A i \in 2..n : i # e => l[i] < l[e]
  PROVE  \A i, j \in 2..n : l[i] <= l[j] <=> <<R[i], R[j]>> \in Used(order, R[e])
<1> TAKE i, j \in 2..n
<1>1. i \in 1..n /\ j \in 1..n /\ e \in 1..n /\ l[i] \in Nat /\ l[j] \in Nat /\ l[e] \in Nat
  <2>1. i \in 1..n /\ j \in 1..n /\ e \in 1..n
    OBVIOUS
  <2> QED
    BY <2>1, Zenon
<1>2. /\ <<R[i], R[j]>> \in Used(order, R[e]) <=>
             \/ R[i] # R[e] /\ R[j] # R[e] /\ <<R[i], R[j]>> \in order
             \/ R[j] = R[e] /\ (R[i] = R[e] \/ \E p \in order : p[1] = R[i])
  BY UsedPairs
<1>3. (R[i] = R[e] <=> i = e) /\ (R[j] = R[e] <=> j = e)
  BY <1>1, Zenon
<1>4. CASE j = e
  <2>1. l[i] <= l[j]
    BY <1>1, <1>4
  <2>2. i = e \/ \E p \in order : p[1] = R[i]
    <3>1. CASE i # e
      <4>1. l[i] <= l[i]
        BY <1>1
      <4>2. <<R[i], R[i]>> \in order
        BY <3>1, <4>1, Zenon
      <4>3. <<R[i], R[i]>>[1] = R[i]
        OBVIOUS
      <4> QED
        BY <4>2, <4>3, Zenon
    <3> QED
      BY <3>1, Zenon
  <2> QED
    BY <1>2, <1>3, <1>4, <2>1, <2>2, Zenon
<1>5. CASE j # e /\ i = e
  <2>1. l[j] < l[e]
    BY <1>5, Zenon
  <2>2. ~(l[i] <= l[j])
    BY <1>1, <1>5, <2>1
  <2> QED
    BY <1>2, <1>3, <1>5, <2>2, Zenon
<1>6. CASE j # e /\ i # e
  <2>1. l[i] <= l[j] <=> <<R[i], R[j]>> \in order
    BY <1>6
  <2> QED
    BY <1>2, <1>3, <1>6, <2>1
<1> QED
  BY <1>4, <1>5, <1>6, Zenon

\* No use puts the device's rule in the history.
Apart(order, s) == \A p \in order : p[1] # s /\ p[2] # s

\* Using another rule keeps a rule out of the history.
LEMMA UsedApart ==
  ASSUME NEW order, NEW r, NEW s, r # s, Apart(order, s)
  PROVE  Apart(Used(order, r), s)
<1> SUFFICES ASSUME NEW p \in Used(order, r) PROVE p[1] # s /\ p[2] # s
  BY Zenon DEF Apart
<1>1. CASE p \in order
  BY <1>1, Zenon DEF Apart
<1>2. CASE \E x \in {q[1] : q \in order} \cup {r} : p = <<x, r>>
  BY <1>2 DEF Apart
<1> QED
  BY <1>1, <1>2 DEF Used

\* The rule at e of the TLB u has just been used: k are the ticks before they are
\* renumbered, order the history before the use.
Uses(u, k, order, n, e) ==
    /\ k \in Seq(Nat) /\ order \in SUBSET (Rules \X Rules) /\ n \in Nat /\ e \in 2..n
    /\ Len(u.rules) = n /\ Len(k) = n /\ u.rules[1] = Static[1] /\ u.rules[e] \in Rules
    /\ u.lastUsed = Ranks(k) /\ u.recency = Used(order, u.rules[e])
    /\ \A i, j \in 1..n : u.rules[i] = u.rules[j] => i = j
    /\ \A i, j \in 2..n : i # e /\ j # e => (k[i] = k[j] => i = j)
    /\ \A i, j \in 2..n : i # e /\ j # e => (k[i] <= k[j] <=> <<u.rules[i], u.rules[j]>> \in order)
    /\ \A i \in 2..n : i # e => k[i] < k[e]
    /\ \A p \in order : p[1] # Static[1] /\ p[2] # Static[1]

\* After a use the history and the ticks agree again.
LEMMA LruAfterUse ==
  ASSUME NEW u, NEW k, NEW order, NEW n, NEW e, Uses(u, k, order, n, e)
  PROVE  LruOK(u)
<1> SUFFICES ASSUME k \in Seq(Nat), order \in SUBSET (Rules \X Rules), n \in Nat, e \in 2..n,
                    Len(u.rules) = n, Len(k) = n, u.rules[1] = Static[1], u.rules[e] \in Rules,
                    u.lastUsed = Ranks(k), u.recency = Used(order, u.rules[e]),
                    \A i, j \in 1..n : u.rules[i] = u.rules[j] => i = j,
                    \A i, j \in 2..n : i # e /\ j # e => (k[i] = k[j] => i = j),
                    \A i, j \in 2..n : i # e /\ j # e => (k[i] <= k[j] <=> <<u.rules[i], u.rules[j]>> \in order),
                    \A i \in 2..n : i # e => k[i] < k[e],
                    \A p \in order : p[1] # Static[1] /\ p[2] # Static[1]
             PROVE  LruOK(u)
  BY Zenon DEF Uses
<1>1. \A i \in 1..n : k[i] \in Nat
  OBVIOUS
<1>2. \A i, j \in 2..n : k[i] <= k[j] <=> <<u.rules[i], u.rules[j]>> \in Used(order, u.rules[e])
  BY <1>1, UseKeepsOrder, Zenon
<1>3. \A i, j \in 1..n : u.lastUsed[i] <= u.lastUsed[j] <=> k[i] <= k[j]
  BY RanksOrder, Zenon
<1>4. \A i \in 1..n : u.lastUsed[i] \in Nat
  <2>1. Ranks(k) \in Seq(Nat) /\ Len(Ranks(k)) = n
    BY RanksOrder, Zenon
  <2> HIDE DEF Ranks
  <2>2. \A i \in 1..n : Ranks(k)[i] \in Nat
    BY <2>1
  <2> QED
    BY <2>2, Zenon
<1>5. \A i \in 2..n : i \in 1..n
  OBVIOUS
<1>6. ASSUME NEW i \in 2..n, NEW j \in 2..n, u.lastUsed[i] = u.lastUsed[j] PROVE i = j
  <2>1. i \in 1..n /\ j \in 1..n /\ e \in 1..n
    BY <1>5, Zenon
  <2>2. u.lastUsed[i] <= u.lastUsed[j] /\ u.lastUsed[j] <= u.lastUsed[i]
    <3>1. u.lastUsed[i] \in Nat /\ u.lastUsed[j] \in Nat
      BY <1>4, <2>1, Zenon
    <3> QED
      BY <1>6, <3>1
  <2>3. k[i] <= k[j] /\ k[j] <= k[i] /\ k[i] \in Nat /\ k[j] \in Nat /\ k[e] \in Nat
    BY <1>1, <1>3, <2>1, <2>2, Zenon
  <2>4. k[i] = k[j]
    BY <2>3
  <2>5. CASE i # e /\ j # e
    BY <2>4, <2>5, Zenon
  <2>6. CASE i = e /\ j # e
    <3>1. k[j] < k[e]
      BY <2>6, Zenon
    <3> QED
      BY <2>3, <2>4, <2>6, <3>1
  <2>7. CASE i # e /\ j = e
    <3>1. k[i] < k[e]
      BY <2>7, Zenon
    <3> QED
      BY <2>3, <2>4, <2>7, <3>1
  <2> QED
    BY <2>5, <2>6, <2>7, Zenon
<1>7. \A i, j \in 2..n : u.lastUsed[i] <= u.lastUsed[j] <=> <<u.rules[i], u.rules[j]>> \in u.recency
  <2> TAKE i, j \in 2..n
  <2>1. u.lastUsed[i] <= u.lastUsed[j] <=> k[i] <= k[j]
    BY <1>3, <1>5, Zenon
  <2>2. k[i] <= k[j] <=> <<u.rules[i], u.rules[j]>> \in u.recency
    BY <1>2
  <2> QED
    BY <2>1, <2>2, Zenon
<1>8. \A p \in u.recency : p[1] # Static[1] /\ p[2] # Static[1]
  <2>1. 1 \in 1..n /\ e \in 1..n /\ e # 1
    OBVIOUS
  <2>2. u.rules[e] # Static[1]
    BY <2>1, Zenon
  <2>3. Apart(order, Static[1])
    BY Zenon DEF Apart
  <2>4. Apart(Used(order, u.rules[e]), Static[1])
    BY <2>2, <2>3, UsedApart, Zenon
  <2> QED
    BY <2>4, Zenon DEF Apart
<1> QED
  BY <1>6, <1>7, <1>8, Zenon DEF LruOK

\* A hit.
LEMMA TouchLru ==
  ASSUME Config, LruConfig, NEW t, TlbOK(t), LruOK(t), NEW e \in 1..Len(t.rules)
  PROVE  LruOK(Touch(t, e))
<1>1. CASE e = 1
  BY <1>1, Zenon DEF Touch
<1>2. CASE e # 1
  <2> DEFINE n == Len(t.rules)
             l == t.lastUsed
             k == [l EXCEPT ![e] = n + 1]
             u == Touch(t, e)
  <2>1. /\ t \in [rules : Seq(Rule), lastUsed : Seq(Nat), pending : SUBSET Pages, recency : SUBSET (Rules \X Rules)]
        /\ t.rules \in Seq(Rule) /\ l \in Seq(Nat) /\ t.recency \in SUBSET (Rules \X Rules)
        /\ t.rules[1] = Static[1] /\ t.rules[e] \in Rules /\ Len(l) = n - Len(Static) + 1
        /\ \A i \in 1..Len(l) : l[i] <= Len(l)
    BY Zenon DEF TlbOK
  <2>2. n \in Nat /\ Len(l) = n /\ e \in 2..n
    <3>1. n \in Nat /\ Len(Static) = 1 /\ Len(l) = n - Len(Static) + 1
      BY <2>1 DEF LruConfig
    <3> QED
      BY <1>2, <3>1
  <2>3. u.rules = t.rules /\ u.lastUsed = Ranks(k) /\ u.recency = Used(t.recency, t.rules[e])
    <3>1. e <= Len(l) /\ Len(t.lastUsed) + 1 = n + 1
      BY <2>2
    <3>2. u = [t EXCEPT !.lastUsed = Ranks(k), !.recency = Used(t.recency, t.rules[e])]
      BY <1>2, <3>1, Zenon DEF Touch
    <3> HIDE DEF u, k
    <3> QED
      BY <2>1, <3>2, Zenon
  <2> HIDE DEF u
  <2>4. k \in Seq(Nat) /\ Len(k) = n /\ \A j \in 1..n : k[j] = IF j = e THEN n + 1 ELSE l[j]
    <3>1. e \in 1..Len(l) /\ n + 1 \in Nat
      BY <2>2
    <3> HIDE DEF l, n
    <3>2. k \in Seq(Nat) /\ Len(k) = Len(l) /\ \A j \in 1..Len(l) : k[j] = IF j = e THEN n + 1 ELSE l[j]
      BY <2>1, <3>1, SetAt
    <3> QED
      BY <2>2, <3>2, Zenon
  <2> HIDE DEF k
  <2>5. \A i \in 2..n : i \in 1..n /\ i \in 1..Len(l)
    BY <2>2
  <2>6. \A i, j \in 2..n : i # e /\ j # e => (k[i] = k[j] => i = j)
    BY <2>4, <2>5, Zenon DEF LruOK
  <2>7. \A i, j \in 2..n : i # e /\ j # e => (k[i] <= k[j] <=> <<t.rules[i], t.rules[j]>> \in t.recency)
    <3> TAKE i, j \in 2..n
    <3> HAVE i # e /\ j # e
    <3>1. k[i] = l[i] /\ k[j] = l[j]
      BY <2>4, <2>5, Zenon
    <3>2. l[i] <= l[j] <=> <<t.rules[i], t.rules[j]>> \in t.recency
      BY Zenon DEF LruOK
    <3> QED
      BY <3>1, <3>2, Zenon
  <2>8. \A i \in 2..n : i # e => k[i] < k[e]
    <3> TAKE i \in 2..n
    <3> HAVE i # e
    <3>1. k[i] = l[i] /\ k[e] = n + 1 /\ l[i] <= Len(l) /\ Len(l) = n
      BY <2>1, <2>2, <2>4, <2>5, Zenon
    <3>2. l[i] \in Nat
      BY <2>1, <2>2, <2>5, ElementOfSeq, Zenon
    <3> QED
      BY <2>2, <3>1, <3>2
  <2>9. (\A i, j \in 1..n : t.rules[i] = t.rules[j] => i = j) /\ \A p \in t.recency : p[1] # Static[1] /\ p[2] # Static[1]
    BY Zenon DEF LruOK
  <2>10. Len(u.rules) = n
    BY <2>3, Zenon
  <2> HIDE DEF n, l
  <2>11. /\ u.rules[1] = Static[1] /\ u.rules[e] \in Rules /\ u.recency = Used(t.recency, u.rules[e])
         /\ \A i, j \in 1..n : u.rules[i] = u.rules[j] => i = j
         /\ \A i, j \in 2..n : i # e /\ j # e => (k[i] <= k[j] <=> <<u.rules[i], u.rules[j]>> \in t.recency)
    BY <2>1, <2>3, <2>7, <2>9, Zenon
  <2>12. Uses(u, k, t.recency, n, e)
    BY <2>1, <2>2, <2>3, <2>4, <2>6, <2>8, <2>9, <2>10, <2>11, Zenon DEF Uses
  <2> QED
    BY <2>12, LruAfterUse, Zenon DEF u
<1> QED
  BY <1>1, <1>2, Zenon

\* A refill: the place f[i] of the old TLB t is i in the new one, u, and the new rule
\* is the last; k are the ticks before they are renumbered.
Refills(t, u, r, n, m, f, k) ==
    /\ n \in Nat /\ m \in Nat /\ m >= 2 /\ Len(t.rules) = n /\ Len(u.rules) = m
    /\ t.recency \in SUBSET (Rules \X Rules) /\ t.rules[1] = Static[1]
    /\ \A i \in 1..n : t.lastUsed[i] \in Nat /\ t.lastUsed[i] <= n
    /\ r \in Rules /\ \A i \in 1..n : t.rules[i] # r
    /\ f \in [1..(m - 1) -> 1..n] /\ f[1] = 1
    /\ \A i, j \in 1..(m - 1) : f[i] = f[j] => i = j
    /\ \A i \in 2..(m - 1) : f[i] \in 2..n
    /\ k \in Seq(Nat) /\ Len(k) = m /\ k[m] = n + 1 /\ u.rules[m] = r
    /\ u.lastUsed = Ranks(k) /\ u.recency = Used(t.recency, r)
    /\ \A i \in 1..(m - 1) : u.rules[i] = t.rules[f[i]] /\ k[i] = t.lastUsed[f[i]]

\* After a refill, with or without an eviction, they agree too.
LEMMA LruAfterRefill ==
  ASSUME NEW t, NEW u, NEW r, NEW n, NEW m, NEW f, NEW k, LruOK(t), Refills(t, u, r, n, m, f, k)
  PROVE  LruOK(u)
<1> SUFFICES ASSUME n \in Nat, m \in Nat, m >= 2, Len(t.rules) = n, Len(u.rules) = m,
                    t.recency \in SUBSET (Rules \X Rules), t.rules[1] = Static[1],
                    \A i \in 1..n : t.lastUsed[i] \in Nat /\ t.lastUsed[i] <= n,
                    r \in Rules, \A i \in 1..n : t.rules[i] # r,
                    f \in [1..(m - 1) -> 1..n], f[1] = 1,
                    \A i, j \in 1..(m - 1) : f[i] = f[j] => i = j,
                    \A i \in 2..(m - 1) : f[i] \in 2..n,
                    k \in Seq(Nat), Len(k) = m, k[m] = n + 1, u.rules[m] = r,
                    u.lastUsed = Ranks(k), u.recency = Used(t.recency, r),
                    \A i \in 1..(m - 1) : u.rules[i] = t.rules[f[i]] /\ k[i] = t.lastUsed[f[i]]
             PROVE  LruOK(u)
  BY Zenon DEF Refills
<1>1. /\ m \in 2..m /\ m \in 1..m /\ 1 \in 1..(m - 1)
      /\ \A i \in 1..m : i # m => i \in 1..(m - 1)
      /\ \A i \in 2..m : i # m => i \in 2..(m - 1) /\ i \in 1..(m - 1)
  OBVIOUS
<1>2. \A i \in 1..(m - 1) : f[i] \in 1..n
  OBVIOUS
<1>3. u.rules[1] = Static[1] /\ u.rules[m] \in Rules /\ u.recency = Used(t.recency, u.rules[m])
  <2>1. u.rules[1] = t.rules[f[1]]
    BY <1>1, Zenon
  <2> QED
    BY <2>1, Zenon
<1>4. ASSUME NEW i \in 1..m, NEW j \in 1..m, u.rules[i] = u.rules[j] PROVE i = j
  <2>1. CASE i # m /\ j # m
    <3>1. i \in 1..(m - 1) /\ j \in 1..(m - 1)
      BY <1>1, <2>1, Zenon
    <3>2. f[i] \in 1..n /\ f[j] \in 1..n /\ t.rules[f[i]] = t.rules[f[j]]
      BY <1>2, <1>4, <3>1, Zenon
    <3>3. f[i] = f[j]
      BY <3>2, Zenon DEF LruOK
    <3> QED
      BY <3>1, <3>3, Zenon
  <2>2. CASE i = m /\ j # m
    <3>1. j \in 1..(m - 1)
      BY <1>1, <2>2, Zenon
    <3>2. f[j] \in 1..n /\ t.rules[f[j]] = r
      BY <1>2, <1>4, <2>2, <3>1, Zenon
    <3> QED
      BY <3>2, Zenon
  <2>3. CASE i # m /\ j = m
    <3>1. i \in 1..(m - 1)
      BY <1>1, <2>3, Zenon
    <3>2. f[i] \in 1..n /\ t.rules[f[i]] = r
      BY <1>2, <1>4, <2>3, <3>1, Zenon
    <3> QED
      BY <3>2, Zenon
  <2> QED
    BY <2>1, <2>2, <2>3, Zenon
<1>5. ASSUME NEW i \in 2..m, i # m
      PROVE  i \in 1..(m - 1) /\ f[i] \in 2..n /\ k[i] = t.lastUsed[f[i]] /\ u.rules[i] = t.rules[f[i]]
  <2>1. i \in 2..(m - 1) /\ i \in 1..(m - 1)
    BY <1>1, <1>5, Zenon
  <2> QED
    BY <2>1, Zenon
<1>6. ASSUME NEW i \in 2..m, NEW j \in 2..m, i # m, j # m, k[i] = k[j] PROVE i = j
  <2>1. /\ i \in 1..(m - 1) /\ f[i] \in 2..n /\ k[i] = t.lastUsed[f[i]]
        /\ j \in 1..(m - 1) /\ f[j] \in 2..n /\ k[j] = t.lastUsed[f[j]]
    BY <1>5, <1>6, Zenon
  <2>2. t.lastUsed[f[i]] = t.lastUsed[f[j]]
    BY <1>6, <2>1, Zenon
  <2>3. f[i] = f[j]
    BY <2>1, <2>2, Zenon DEF LruOK
  <2> QED
    BY <2>1, <2>3, Zenon
<1>7. ASSUME NEW i \in 2..m, NEW j \in 2..m, i # m, j # m
      PROVE  k[i] <= k[j] <=> <<u.rules[i], u.rules[j]>> \in t.recency
  <2>1. /\ f[i] \in 2..n /\ k[i] = t.lastUsed[f[i]] /\ u.rules[i] = t.rules[f[i]]
        /\ f[j] \in 2..n /\ k[j] = t.lastUsed[f[j]] /\ u.rules[j] = t.rules[f[j]]
    BY <1>5, <1>7, Zenon
  <2>2. t.lastUsed[f[i]] <= t.lastUsed[f[j]] <=> <<t.rules[f[i]], t.rules[f[j]]>> \in t.recency
    BY <2>1, Zenon DEF LruOK
  <2> QED
    BY <2>1, <2>2, Zenon
<1>8. ASSUME NEW i \in 2..m, i # m PROVE k[i] < k[m]
  <2>1. i \in 1..(m - 1) /\ k[i] = t.lastUsed[f[i]]
    BY <1>5, <1>8, Zenon
  <2>2. t.lastUsed[f[i]] \in Nat /\ t.lastUsed[f[i]] <= n
    BY <1>2, <2>1, Zenon
  <2>3. k[i] \in Nat /\ k[i] <= n /\ k[m] = n + 1
    BY <2>1, <2>2, Zenon
  <2> QED
    BY <2>3
<1>9. \A p \in t.recency : p[1] # Static[1] /\ p[2] # Static[1]
  BY Zenon DEF LruOK
<1>10. /\ \A i, j \in 1..m : u.rules[i] = u.rules[j] => i = j
       /\ \A i, j \in 2..m : i # m /\ j # m => (k[i] = k[j] => i = j)
       /\ \A i, j \in 2..m : i # m /\ j # m => (k[i] <= k[j] <=> <<u.rules[i], u.rules[j]>> \in t.recency)
       /\ \A i \in 2..m : i # m => k[i] < k[m]
  BY <1>4, <1>6, <1>7, <1>8, Zenon
<1>11. Uses(u, k, t.recency, m, m)
  BY <1>1, <1>3, <1>9, <1>10, Zenon DEF Uses
<1> QED
  BY <1>11, LruAfterUse, Zenon

\* refill takes the tick of the victim out and puts the new one at the end.
LEMMA ReplaceTick ==
  ASSUME NEW l \in Seq(Nat), NEW v \in 1..Len(l), NEW w \in Nat
  PROVE  LET q == Append(Erase(l, v), w)
         IN  /\ q \in Seq(Nat) /\ Len(q) = Len(l) /\ q[Len(l)] = w
             /\ \A i \in 1..(Len(l) - 1) : q[i] = IF i < v THEN l[i] ELSE l[i + 1]
  BY ReplaceProperties

\* A refill of a rule that is missing keeps the ticks and the history together, and
\* the rule it replaces was not used after any rule that stays.
LEMMA UpdateLru ==
  ASSUME Config, LruConfig, NEW t, TlbOK(t), LruOK(t), NEW r \in Rules, \A i \in 1..Len(t.rules) : t.rules[i] # r
  PROVE  LruOK(UpdateTLB(t, r)) /\ Evicts(t, UpdateTLB(t, r))
<1> DEFINE u == UpdateTLB(t, r)
           l == t.lastUsed
           n == Len(t.rules)
           v == Victim(l)
<1>1. /\ u.recency = Used(t.recency, r)
      /\ n < TlbSize => u.rules = Append(t.rules, r) /\ u.lastUsed = Ranks(Append(l, Len(l) + 1))
      /\ n >= TlbSize =>
             /\ Len(l) >= 2 /\ v \in 2..Len(l) /\ v \in 2..n
             /\ u.rules = Append(Erase(t.rules, v), r)
             /\ u.lastUsed = Ranks(Append(Erase(l, v), Len(l) + 1))
  BY UpdateShape, Zenon
<1>2. /\ t.rules \in Seq(Rule) /\ l \in Seq(Nat) /\ r \in Rule /\ t.rules[1] = Static[1]
      /\ t.recency \in SUBSET (Rules \X Rules) /\ Len(l) = n - Len(Static) + 1 /\ n \in Len(Static)..TlbSize
      /\ \A i \in 1..Len(l) : l[i] <= Len(l)
  BY ConfigFacts, Zenon DEF TlbOK
<1>3. n \in Nat /\ n >= 1 /\ Len(l) = n /\ TlbSize \in Nat /\ n + 1 \in Nat
  <2>1. TlbSize \in Nat /\ Len(Static) = 1
    BY ConfigFacts, Zenon DEF LruConfig
  <2>2. n \in Nat
    BY <1>2
  <2>3. Len(l) = n - Len(Static) + 1 /\ n \in Len(Static)..TlbSize
    BY <1>2, Zenon
  <2> HIDE DEF n, l
  <2> QED
    BY <2>1, <2>2, <2>3
<1>4. \A i \in 1..n : l[i] \in Nat /\ l[i] <= n
  <2>1. \A i \in 1..Len(l) : l[i] \in Nat
    <3>1. l \in Seq(Nat)
      BY <1>2
    <3> HIDE DEF l
    <3> QED
      BY <3>1
  <2> QED
    BY <1>2, <1>3, <2>1, Zenon
<1> HIDE DEF u, v, l, n
<1>5. DOMAIN t.rules = 1..n
  BY <1>2 DEF n
<1>8. /\ Len(t.rules) = n /\ t.rules[1] = Static[1] /\ t.recency \in SUBSET (Rules \X Rules)
      /\ \A i \in 1..n : t.lastUsed[i] \in Nat /\ t.lastUsed[i] <= n
      /\ \A i \in 1..n : t.rules[i] # r
  BY <1>2, <1>4, Zenon DEF n, l
<1>6. CASE n < TlbSize
  <2> DEFINE k == Append(l, n + 1)
             m == n + 1
             f == [i \in 1..(m - 1) |-> i]
  <2>1. u.rules = Append(t.rules, r) /\ u.lastUsed = Ranks(k)
    BY <1>1, <1>3, <1>6, Zenon
  <2>2. Len(u.rules) = m /\ u.rules[m] = r /\ \A i \in 1..n : u.rules[i] = t.rules[i]
    <3>1. t.rules \in Seq(Rule) /\ r \in Rule
      BY <1>2
    <3>2. /\ Len(Append(t.rules, r)) = Len(t.rules) + 1 /\ Append(t.rules, r)[Len(t.rules) + 1] = r
          /\ \A i \in 1..Len(t.rules) : Append(t.rules, r)[i] = t.rules[i]
      BY <3>1
    <3> QED
      BY <2>1, <3>2, Zenon DEF n
  <2>3. k \in Seq(Nat) /\ Len(k) = m /\ k[m] = n + 1 /\ \A i \in 1..n : k[i] = l[i]
    <3>1. l \in Seq(Nat) /\ n + 1 \in Nat /\ Len(l) = n
      BY <1>2, <1>3, Zenon
    <3>2. /\ k \in Seq(Nat) /\ Len(k) = Len(l) + 1 /\ k[Len(l) + 1] = n + 1
          /\ \A i \in 1..Len(l) : k[i] = l[i]
      BY <3>1
    <3> QED
      BY <3>1, <3>2, Zenon
  <2> HIDE DEF k
  <2>4. m \in Nat /\ m >= 2 /\ m - 1 = n /\ 1 \in 1..n
    BY <1>3
  <2>5. /\ f \in [1..(m - 1) -> 1..n] /\ f[1] = 1 /\ \A i \in 1..(m - 1) : f[i] = i
        /\ \A i \in 2..(m - 1) : f[i] \in 2..n
    BY <1>3
  <2>6. \A i, j \in 1..(m - 1) : f[i] = f[j] => i = j
    BY <2>5, Zenon
  <2> HIDE DEF m, f
  <2>7. \A i \in 1..(m - 1) : u.rules[i] = t.rules[f[i]] /\ k[i] = t.lastUsed[f[i]]
    BY <2>2, <2>3, <2>4, <2>5, ZenonT(60) DEF l
  <2>8. LruOK(u)
    <3>1. Refills(t, u, r, n, m, f, k)
      BY <1>1, <1>3, <1>8, <2>1, <2>2, <2>3, <2>4, <2>5, <2>6, <2>7, Zenon DEF Refills
    <3> QED
      BY <3>1, LruAfterRefill, Zenon
  <2>9. Evicts(t, u)
    <3>1. \A i \in 1..n : i \in DOMAIN u.rules
      <4>1. DOMAIN u.rules = 1..m
        <5>1. Append(t.rules, r) \in Seq(Rule) /\ t.rules \in Seq(Rule) /\ r \in Rule
          BY <1>2
        <5> QED
          BY <2>1, <2>2, <5>1
      <4> QED
        BY <1>3, <2>4, <4>1
    <3>2. Range(t.rules) \subseteq Range(u.rules)
      BY <1>5, <2>2, <3>1, Zenon DEF Range
    <3> QED
      BY <3>2, Zenon DEF Evicts
  <2> QED
    BY <2>8, <2>9, Zenon DEF u
<1>7. CASE n >= TlbSize
  <2> DEFINE k == Append(Erase(l, v), n + 1)
             f == [i \in 1..(n - 1) |-> IF i < v THEN i ELSE i + 1]
  <2>1. /\ u.rules = Append(Erase(t.rules, v), r) /\ u.lastUsed = Ranks(k)
        /\ v \in 2..n
    BY <1>1, <1>3, <1>7, Zenon
  <2>2. v \in 1..n /\ n >= 2 /\ 1 \in 1..(n - 1)
    BY <1>3, <2>1
  <2>3. /\ Len(u.rules) = n /\ u.rules[n] = r
        /\ \A i \in 1..(n - 1) : u.rules[i] = IF i < v THEN t.rules[i] ELSE t.rules[i + 1]
    <3>1. t.rules \in Seq(Rule) /\ r \in Rule /\ v \in 1..Len(t.rules)
      BY <1>2, <2>2, Zenon DEF n
    <3> DEFINE q == Append(Erase(t.rules, v), r)
    <3>2. /\ Len(q) = Len(t.rules) /\ q[Len(t.rules)] = r
          /\ \A i \in 1..(Len(t.rules) - 1) : q[i] = IF i < v THEN t.rules[i] ELSE t.rules[i + 1]
      BY <3>1, ReplaceProperties
    <3> QED
      BY <2>1, <3>2, Zenon DEF n
  <2> HIDE DEF f
  <2>4. /\ k \in Seq(Nat) /\ Len(k) = n /\ k[n] = n + 1
        /\ \A i \in 1..(n - 1) : k[i] = IF i < v THEN l[i] ELSE l[i + 1]
    <3> DEFINE w == n + 1
               q == Append(Erase(l, v), w)
    <3>1. l \in Seq(Nat) /\ w \in Nat /\ v \in 1..Len(l) /\ Len(l) = n
      BY <1>2, <1>3, <2>2, Zenon
    <3> HIDE DEF w
    <3>2. /\ q \in Seq(Nat) /\ Len(q) = Len(l) /\ q[Len(l)] = w
          /\ \A i \in 1..(Len(l) - 1) : q[i] = IF i < v THEN l[i] ELSE l[i + 1]
      BY <3>1, ReplaceTick, Zenon
    <3> QED
      BY <3>1, <3>2, Zenon DEF w
  <2> HIDE DEF k
  <2>5. /\ f \in [1..(n - 1) -> 1..n] /\ f[1] = 1 /\ \A i \in 1..(n - 1) : f[i] = IF i < v THEN i ELSE i + 1
        /\ \A i \in 2..(n - 1) : f[i] \in 2..n
        /\ \A i, j \in 1..(n - 1) : f[i] = f[j] => i = j
        /\ \A i \in 1..(n - 1) : f[i] # v
    BY <1>3, <2>1 DEF f
  <2>6. \A i \in 1..(n - 1) : u.rules[i] = t.rules[f[i]] /\ k[i] = t.lastUsed[f[i]]
    BY <2>3, <2>4, <2>5, ZenonT(60) DEF l
  <2>7. LruOK(u)
    <3>1. Refills(t, u, r, n, n, f, k)
      BY <1>1, <1>3, <1>8, <2>1, <2>2, <2>3, <2>4, <2>5, <2>6, Zenon DEF Refills
    <3> QED
      BY <3>1, LruAfterRefill, Zenon
  <2>8. Evicts(t, u)
    <3> SUFFICES ASSUME NEW p \in t.recency, p[1] # p[2],
                        p[2] \in Range(t.rules), p[2] \notin Range(u.rules),
                        p[1] \in Range(t.rules)
                 PROVE  FALSE
      BY Zenon DEF Evicts
    <3>1. PICK i \in 1..n : p[1] = t.rules[i]
      BY <1>5, Zenon DEF Range
    <3>2. PICK j \in 1..n : p[2] = t.rules[j]
      BY <1>5, Zenon DEF Range
    <3>3. j = v
      <4>1. CASE j # v
        <5>1. \E h \in 1..(n - 1) : f[h] = j
          <6>1. CASE j < v
            BY <1>3, <2>1, <2>5, <4>1, <6>1
          <6>2. CASE j > v
            <7>1. j - 1 \in 1..(n - 1) /\ ~(j - 1 < v) /\ (j - 1) + 1 = j
              BY <1>3, <2>1, <6>2
            <7> QED
              BY <2>5, <7>1, Zenon
          <6> QED
            BY <1>3, <2>1, <4>1, <6>1, <6>2
        <5>2. PICK h \in 1..(n - 1) : f[h] = j
          BY <5>1, Zenon
        <5>3. u.rules[h] = p[2]
          BY <2>6, <3>2, <5>2, Zenon
        <5>4. h \in DOMAIN u.rules
          <6>1. Append(Erase(t.rules, v), r) \in Seq(Rule)
            <7>1. t.rules \in Seq(Rule) /\ r \in Rule /\ v \in 1..Len(t.rules)
              BY <1>2, <2>2, Zenon DEF n
            <7> QED
              BY <7>1, ReplaceProperties, Zenon
          <6>2. u.rules \in Seq(Rule)
            BY <2>1, <6>1, Zenon
          <6>3. DOMAIN u.rules = 1..n
            BY <2>3, <6>2
          <6> QED
            BY <1>3, <6>3
        <5> QED
          BY <5>3, <5>4, Zenon DEF Range
      <4> QED
        BY <4>1
    <3>4. i \in 2..n /\ i # v /\ v \in 2..n
      <4>1. i # 1 /\ i # v
        BY <1>2, <3>1, <3>2, <3>3, Zenon DEF LruOK
      <4> QED
        BY <1>3, <2>1, <4>1
    <3>5. p = <<t.rules[i], t.rules[v]>>
      <4>1. p \in Rules \X Rules
        BY <1>2
      <4>2. p = <<p[1], p[2]>>
        BY <4>1
      <4> QED
        BY <3>1, <3>2, <3>3, <4>2, Zenon
    <3>6. l[i] <= l[v] /\ l[v] <= l[i]
      <4>1. l[i] <= l[v]
        BY <3>4, <3>5, Zenon DEF LruOK, l, n
      <4>2. l[v] <= l[i]
        <5>1. l \in Seq(Nat) /\ Len(l) >= 2 /\ Len(l) = n
          BY <1>1, <1>2, <1>3, <1>7, Zenon
        <5>2. \A j1 \in 2..Len(l) : l[v] <= l[j1]
          BY <5>1, VictimLeast, Zenon DEF v
        <5> QED
          BY <3>4, <5>1, <5>2, Zenon
      <4> QED
        BY <4>1, <4>2
    <3>7. l[i] \in Nat /\ l[v] \in Nat
      BY <1>4, <2>2, Zenon
    <3>8. l[i] = l[v]
      BY <3>6, <3>7
    <3> QED
      BY <3>4, <3>8, Zenon DEF LruOK, l, n
  <2> QED
    BY <2>7, <2>8, Zenon DEF u
<1> QED
  BY <1>3, <1>6, <1>7

\* What is missed can be refilled: its rule is not there.
LEMMA MissedRule ==
  ASSUME Config, NEW t, TlbOK(t), NEW v \in Pages, Find(t, v) = 0
  PROVE  Table[v] \in Rules /\ \A i \in 1..Len(t.rules) : t.rules[i] # Table[v]
<1>1. v \in Nat /\ Table[v] \in Rules /\ Covers(Table[v], v)
  BY ConfigFacts, Zenon
<1>2. ASSUME NEW i \in 1..Len(t.rules), t.rules[i] = Table[v] PROVE FALSE
  <2>1. Find(t, v) > 0
    BY <1>1, <1>2, RuleThere, Zenon
  <2> QED
    BY <2>1
<1> QED
  BY <1>1, <1>2, Zenon

\* A refill of a page that is missed.
LEMMA RefillLru ==
  ASSUME Config, LruConfig, NEW t, TlbOK(t), LruOK(t), NEW v \in Pages, Find(t, v) = 0
  PROVE  LruOK(UpdateTLB(t, Table[v])) /\ Evicts(t, UpdateTLB(t, Table[v]))
  BY MissedRule, UpdateLru, Zenon

\* LruOK and Evicts do not speak of the refills in flight.
LEMMA SameRules ==
  ASSUME NEW t, NEW u, u.rules = t.rules
  PROVE  /\ Evicts(t, u)
         /\ \A s : Evicts(s, t) => Evicts(s, u)
         /\ u.lastUsed = t.lastUsed /\ u.recency = t.recency => (LruOK(t) <=> LruOK(u))
         /\ u.recency = t.recency => \A s : Evicts(t, s) => Evicts(u, s)
<1>1. Evicts(t, u) /\ \A s : Evicts(s, t) => Evicts(s, u)
  BY Zenon DEF Evicts
<1>2. u.recency = t.recency => \A s : Evicts(t, s) => Evicts(u, s)
  BY Zenon DEF Evicts
<1>3. u.lastUsed = t.lastUsed /\ u.recency = t.recency => (LruOK(t) <=> LruOK(u))
  BY ZenonT(60) DEF LruOK
<1> QED
  BY <1>1, <1>2, <1>3, Zenon

\* Forwarding a packet is a use of the rule it is remapped by.
LEMMA ForwardLru ==
  ASSUME Config, LruConfig, NEW p, PacketOK(p), p.kind # "refill", NEW t, TlbOK(t), LruOK(t), Forward(p, t)
  PROVE  LruOK(tlb') /\ tlb'.rules = t.rules /\ tlb'.pending = t.pending
<1>1. CASE ~p.remapped /\ Find(t, Target(p)) > 0 /\ tlb' = Touch(t, Find(t, Target(p)))
  <2>1. Find(t, Target(p)) \in 1..Len(t.rules)
    BY <1>1, RemapRight, Zenon
  <2>2. LruOK(tlb')
    BY <1>1, <2>1, TouchLru, Zenon
  <2> QED
    BY <1>1, <2>1, <2>2, TouchOK, Zenon
<1>2. CASE tlb' = t
  BY <1>2, Zenon
<1> QED
  BY <1>1, <1>2, Zenon DEF Forward

\* The history and the ticks agree, and a refill in flight is still needed.
LruInv ==
    /\ LruOK(tlb)
    /\ \A v \in tlb.pending : Find(tlb, v) = 0
    /\ IdealRefill => tlb.pending = {}

\* The same, said of the state after a step.
LEMMA LruAfter ==
  ASSUME LruOK(tlb'), \A v \in tlb'.pending : Find(tlb', v) = 0, IdealRefill => tlb'.pending = {}
  PROVE  LruInv'
<1>1. LruOK(tlb)'
  BY Zenon DEF LruOK
<1> QED
  BY <1>1, Zenon DEF LruInv, Find

\* A request evicts only the least recently used rule.
LEMMA RequestLru ==
  ASSUME Config, LruConfig, NEW p, PacketOK(p), p.kind # "refill", NEW t, TlbOK(t), LruOK(t), t.pending = {},
         p.kind = "vault" => p.remapped \/ Find(t, Static[2].vaddr) > 0, RecvTimingReq(p, t)
  PROVE  LruInv' /\ Evicts(t, tlb')
<1>1. CASE Forward(p, t)
  <2>1. LruOK(tlb') /\ tlb'.rules = t.rules /\ tlb'.pending = {}
    BY <1>1, ForwardLru, Zenon
  <2>2. Evicts(t, tlb')
    BY <2>1, SameRules, Zenon
  <2> QED
    BY <2>1, <2>2, LruAfter, Zenon
<1>2. CASE TimingMiss(p, t)
  <2>1. /\ ~p.remapped /\ Find(t, Target(p)) = 0 /\ ~IdealRefill
        /\ tlb' = t \/ tlb' = [t EXCEPT !.pending = @ \cup {Target(p)}]
    BY <1>2, Zenon DEF TimingMiss
  <2>2. t \in [rules : Seq(Rule), lastUsed : Seq(Nat), pending : SUBSET Pages, recency : SUBSET (Rules \X Rules)]
    BY Zenon DEF TlbOK
  <2>3. /\ tlb'.rules = t.rules /\ tlb'.lastUsed = t.lastUsed /\ tlb'.recency = t.recency
        /\ tlb'.pending \subseteq {Target(p)}
    <3>1. CASE tlb' = t
      BY <3>1, Zenon
    <3>2. CASE tlb' = [t EXCEPT !.pending = @ \cup {Target(p)}]
      BY <2>2, <3>2, Zenon
    <3> QED
      BY <2>1, <3>1, <3>2, Zenon
  <2>4. LruOK(tlb') /\ Evicts(t, tlb')
    BY <2>3, SameRules, Zenon
  <2>5. Find(tlb', Target(p)) = 0
    BY <2>1, <2>3, Zenon DEF Find
  <2>6. \A v \in tlb'.pending : Find(tlb', v) = 0
    BY <2>3, <2>5, Zenon
  <2> QED
    BY <2>1, <2>4, <2>6, LruAfter, Zenon
<1>3. CASE IdealMiss(p, t)
  <2> DEFINE u == UpdateTLB(t, Table[Target(p)])
  <2>1. ~p.remapped /\ Find(t, Target(p)) = 0 /\ Forward(p, u)
    BY <1>3, Zenon DEF IdealMiss
  <2>2. Target(p) \in Pages
    BY <2>1, MissIsPage, Zenon
  <2>3. TlbOK(u) /\ u.pending = {}
    BY <2>2, RefilledPage, Zenon
  <2>4. LruOK(u) /\ Evicts(t, u)
    BY <2>1, <2>2, RefillLru, Zenon
  <2> HIDE DEF u
  <2>5. LruOK(tlb') /\ tlb'.rules = u.rules /\ tlb'.pending = {}
    BY <2>1, <2>3, <2>4, ForwardLru, Zenon
  <2>6. Evicts(t, tlb')
    BY <2>4, <2>5, SameRules, Zenon
  <2> QED
    BY <2>5, <2>6, LruAfter, Zenon
<1> QED
  BY <1>1, <1>2, <1>3, Zenon DEF RecvTimingReq

\* refillTLB_functional, with no refill in flight.
LEMMA FunctionalLru ==
  ASSUME Config, LruConfig, TlbOK(tlb), LruOK(tlb), tlb.pending = {}, NEW v \in Pages,
         tlb' = RefillFunctional(v)
  PROVE  LruInv' /\ Evicts(tlb, tlb')
<1>1. tlb'.pending = {}
  BY FunctionalKeeps, Zenon
<1>2. CASE Find(tlb, v) = 0
  <2>1. LruOK(tlb') /\ Evicts(tlb, tlb')
    BY <1>2, RefillLru, Zenon DEF RefillFunctional
  <2> QED
    BY <1>1, <2>1, LruAfter, Zenon
<1>3. CASE Find(tlb, v) # 0
  <2>1. tlb' = tlb
    BY <1>3, Zenon DEF RefillFunctional
  <2>2. LruOK(tlb') /\ Evicts(tlb, tlb')
    BY <2>1, SameRules, Zenon
  <2> QED
    BY <1>1, <2>2, LruAfter, Zenon
<1> QED
  BY <1>2, <1>3, Zenon

\* A step that leaves the TLB alone evicts nothing.
LEMMA SameTlbLru ==
  ASSUME LruInv, tlb' = tlb
  PROVE  LruInv' /\ Evicts(tlb, tlb')
<1>1. Evicts(tlb, tlb')
  BY SameRules, Zenon
<1> QED
  BY <1>1, LruAfter, Zenon DEF LruInv

\* The answer to a refill evicts only the least recently used rule, and the
\* request that waited for it uses the new one.
LEMMA RefillResponseLru ==
  ASSUME Config, LruConfig, Inv, LruInv, NEW v \in Pages, RefillResponse(v)
  PROVE  LruInv' /\ Evicts(tlb, tlb')
<1>1. v \in tlb.pending
  BY Zenon DEF RefillResponse
<1>2. core = "retry" /\ WaitingOK
  BY <1>1, Zenon DEF Inv
<1> DEFINE s == [tlb EXCEPT !.pending = @ \ {v}]
           t == UpdateTLB(s, Table[v])
<1>3. RecvTimingReq(pkt, t)
  BY <1>2, Zenon DEF RefillResponse
<1>4. tlb.pending \subseteq {Target(pkt)} /\ Target(pkt) = v /\ ~pkt.remapped /\ pkt.kind # "refill" /\ PacketOK(pkt)
  BY <1>1, <1>2, Zenon DEF WaitingOK, Inv
<1>5. /\ s.rules = tlb.rules /\ s.lastUsed = tlb.lastUsed /\ s.recency = tlb.recency /\ s.pending = {}
      /\ TlbOK(s) /\ Find(s, v) = 0
  <2>1. /\ tlb \in [rules : Seq(Rule), lastUsed : Seq(Nat), pending : SUBSET Pages, recency : SUBSET (Rules \X Rules)]
        /\ TlbOK(tlb) /\ Find(tlb, v) = 0
    BY <1>1, Zenon DEF Inv, TlbOK, LruInv
  <2>2. tlb.pending \ {v} = {}
    BY <1>4
  <2>3. /\ s.rules = tlb.rules /\ s.lastUsed = tlb.lastUsed /\ s.recency = tlb.recency /\ s.pending = {}
        /\ s \in [rules : Seq(Rule), lastUsed : Seq(Nat), pending : SUBSET Pages, recency : SUBSET (Rules \X Rules)]
    BY <2>1, <2>2, Zenon
  <2> HIDE DEF s
  <2>4. Find(s, v) = 0
    BY <2>1, <2>3, Zenon DEF Find
  <2> QED
    BY <2>1, <2>3, <2>4, Zenon DEF TlbOK
<1> HIDE DEF s
<1>6. LruOK(s)
  BY <1>5, SameRules, Zenon DEF LruInv
<1>7. TlbOK(t) /\ t.pending = {} /\ Find(t, v) > 0
  BY <1>5, RefilledPage, Zenon
<1>8. LruOK(t) /\ Evicts(s, t)
  BY <1>5, <1>6, RefillLru, Zenon
<1> HIDE DEF t
<1>9. Forward(pkt, t)
  <2>1. Find(t, Target(pkt)) # 0
    BY <1>4, <1>7
  <2> QED
    BY <1>3, <2>1, Zenon DEF RecvTimingReq, TimingMiss, IdealMiss
<1>10. LruOK(tlb') /\ tlb'.rules = t.rules /\ tlb'.pending = {}
  BY <1>4, <1>7, <1>8, <1>9, ForwardLru, Zenon
<1>11. Evicts(s, tlb')
  BY <1>8, <1>10, SameRules, Zenon
<1>12. Evicts(tlb, tlb')
  BY <1>5, <1>11, SameRules, Zenon
<1> QED
  BY <1>10, <1>12, LruAfter, Zenon

\* So does a request in atomic mode, which refills on a miss.
LEMMA AtomicRequestLru ==
  ASSUME Config, LruConfig, Inv, LruInv, NEW k \in Kinds, NEW v \in Pages, AtomicRequest(k, v)
  PROVE  LruInv' /\ Evicts(tlb, tlb')
<1> DEFINE p    == Packet(k, v)
           miss == Find(tlb, Target(p)) = 0
           t    == IF miss THEN RefillAtomic(p.addr) ELSE tlb
           a    == IF miss THEN p.addr ELSE Target(p)
<1>1. /\ core = "idle" /\ k # "refill"
      /\ \/ tlb' = tlb
         \/ ~(miss /\ p.addr < PIM_SLICEVSTART) /\ tlb' = Touch(t, Find(t, a))
  BY Zenon DEF AtomicRequest, Stop
<1>2. CASE tlb' = tlb
  BY <1>2, SameTlbLru, Zenon
<1>3. CASE ~(miss /\ p.addr < PIM_SLICEVSTART) /\ tlb' = Touch(t, Find(t, a))
  <2>1. v \in Nat /\ k \in Kinds \cup {"device"}
    BY ConfigFacts, Zenon
  <2>2. PacketOK(p) /\ ~p.remapped /\ p.kind = k /\ p.names = v
    BY <2>1, NewPacket, Zenon
  <2>3. (k = "data" => p.addr = v) /\ (k = "hmc" => p.addr = Device)
    BY DEF Packet
  <2> HIDE DEF p
  <2>4. core # "retry"
    BY <1>1
  <2>5. TlbOK(tlb) /\ tlb.pending = {} /\ LruOK(tlb)
    BY <2>4, Zenon DEF Inv, LruInv
  <2>6. k # "vault"
    <3>1. "vault" \in Kinds => Len(Static) > 1
      BY Zenon DEF Config, KindsAssumption
    <3>2. Len(Static) = 1
      BY Zenon DEF LruConfig
    <3> QED
      BY <3>1, <3>2
  <2>7. a = Target(p) /\ TlbOK(t) /\ t.pending = {} /\ LruOK(t) /\ Evicts(tlb, t) /\ Find(t, a) > 0
    <3>1. CASE miss
      <4>1. Target(p) \in Pages /\ k \in {"data", "hmc"} /\ Target(p) = v
        BY <1>1, <2>2, <2>5, <2>6, <3>1, MissIsPage, Zenon
      <4>2. k # "hmc"
        BY <1>3, <2>3, <3>1, SliceStart, Zenon
      <4>3. a = v /\ t = UpdateTLB(tlb, Table[v]) /\ Find(tlb, v) = 0
        BY <2>3, <3>1, <4>1, <4>2 DEF RefillAtomic
      <4> HIDE DEF a, t, miss
      <4>4. TlbOK(t) /\ t.pending = {} /\ Find(t, v) > 0
        BY <2>5, <4>3, RefilledPage, Zenon
      <4>5. LruOK(t) /\ Evicts(tlb, t)
        BY <2>5, <4>3, RefillLru, Zenon
      <4> QED
        BY <4>1, <4>3, <4>4, <4>5, Zenon
    <3>2. CASE ~miss
      <4>1. t = tlb /\ a = Target(p)
        BY <3>2, Zenon
      <4>2. Target(p) \in Nat
        <5>1. Device \in Nat
          BY <2>5, RemapDevice, Zenon
        <5> QED
          BY <1>1, <2>1, <2>2, <2>6, <5>1, TargetFacts, Zenon
      <4>3. tlb.rules \in Seq(Rule)
        BY <2>5, Zenon DEF TlbOK
      <4>4. Find(tlb, Target(p)) \in 0..Len(tlb.rules)
        BY <4>2, <4>3, FindFirst, Zenon
      <4>5. Len(tlb.rules) \in Nat
        BY <4>3
      <4>6. Find(tlb, Target(p)) > 0
        BY <3>2, <4>4, <4>5
      <4>7. Evicts(tlb, tlb)
        BY SameRules, Zenon
      <4> QED
        BY <2>5, <4>1, <4>6, <4>7, Zenon
    <3> QED
      BY <3>1, <3>2, Zenon
  <2> HIDE DEF t, a, miss
  <2>8. Find(t, a) \in 1..Len(t.rules)
    BY <1>1, <2>2, <2>7, RemapRight, Zenon
  <2>9. LruOK(tlb') /\ tlb'.rules = t.rules /\ tlb'.pending = {}
    BY <1>3, <2>7, <2>8, TouchOK, TouchLru, Zenon
  <2>10. Evicts(tlb, tlb')
    BY <2>7, <2>9, SameRules, Zenon
  <2> QED
    BY <2>9, <2>10, LruAfter, Zenon
<1> QED
  BY <1>1, <1>2, <1>3, Zenon

\* Every step keeps the agreement, and evicts only the least recently used rule.
LEMMA NextLru ==
  ASSUME Config, LruConfig, Inv, LruInv, [Next]_vars
  PROVE  LruInv' /\ Evicts(tlb, tlb')
<1>1. CASE tlb' = tlb
  BY <1>1, SameTlbLru, Zenon
<1>2. ASSUME NEW k \in Kinds, NEW v \in Pages, CoreRequest(k, v) PROVE LruInv' /\ Evicts(tlb, tlb')
  <2>1. core = "idle" /\ k # "refill" /\ RecvTimingReq(Packet(k, v), tlb) /\ (k = "vault" => Find(tlb, Static[2].vaddr) > 0)
    BY <1>2, Zenon DEF CoreRequest
  <2>2. core # "retry" /\ v \in Nat /\ k \in Kinds \cup {"device"}
    BY <2>1, ConfigFacts
  <2>3. PacketOK(Packet(k, v)) /\ Packet(k, v).kind = k
    BY <2>2, NewPacket, Zenon
  <2>4. TlbOK(tlb) /\ LruOK(tlb) /\ tlb.pending = {}
    BY <2>2, Zenon DEF Inv, LruInv
  <2> QED
    BY <2>1, <2>3, <2>4, RequestLru, Zenon
<1>3. CASE BusRetry
  <2>1. owed /\ core = "retry" /\ WaitingOK
    BY <1>3, Zenon DEF BusRetry, Inv
  <2>2. RecvTimingReq(pkt, tlb)
    BY <1>3, <2>1, Zenon DEF BusRetry
  <2>3. /\ TlbOK(tlb) /\ LruOK(tlb) /\ tlb.pending = {} /\ PacketOK(pkt) /\ pkt.kind # "refill"
        /\ pkt.kind = "vault" => pkt.remapped
    BY <2>1, Zenon DEF Inv, LruInv, WaitingOK
  <2> QED
    BY <2>2, <2>3, RequestLru, Zenon
<1>4. ASSUME NEW v \in Pages, SoftwareRefill(v) \/ AtomicRefill(v) PROVE LruInv' /\ Evicts(tlb, tlb')
  <2>1. core = "idle" /\ tlb' = RefillFunctional(v)
    BY <1>4, Zenon DEF SoftwareRefill, AtomicRefill
  <2>2. core # "retry"
    BY <2>1
  <2>3. TlbOK(tlb) /\ LruOK(tlb) /\ tlb.pending = {}
    BY <2>2, Zenon DEF Inv, LruInv
  <2> QED
    BY <2>1, <2>3, FunctionalLru, Zenon
<1>5. ASSUME NEW v \in DmaPages, DmaRefill(v) PROVE LruInv' /\ Evicts(tlb, tlb')
  <2>1. v \in Pages /\ IdealRefill
    BY Zenon DEF Config, TableAssumption, LruConfig
  <2>2. TlbOK(tlb) /\ LruOK(tlb) /\ tlb.pending = {}
    BY <2>1, Zenon DEF Inv, LruInv
  <2>3. tlb' = tlb \/ tlb' = RefillFunctional(v)
    BY <1>5, Zenon DEF DmaRefill, Stop
  <2> QED
    BY <1>1, <2>1, <2>2, <2>3, FunctionalLru, Zenon
<1>6. UNCHANGED vars \/ Dequeue \/ Response \/ DmaTransfer => tlb' = tlb
  BY Zenon DEF vars, Dequeue, Response, DmaTransfer, Stop
<1>7. ASSUME NEW v \in Pages, RefillResponse(v) PROVE LruInv' /\ Evicts(tlb, tlb')
  BY <1>7, RefillResponseLru, Zenon
<1>8. ASSUME NEW k \in Kinds, NEW v \in Pages, AtomicRequest(k, v) PROVE LruInv' /\ Evicts(tlb, tlb')
  BY <1>8, AtomicRequestLru, Zenon
<1> QED
  BY <1>1, <1>2, <1>3, <1>4, <1>5, <1>6, <1>7, <1>8, Zenon DEF Next

\* The TLB starts without a use.
LEMMA InitLru ==
  ASSUME Config, LruConfig, Init
  PROVE  LruInv
<1>1. tlb = [rules |-> Static, lastUsed |-> <<0>>, pending |-> {}, recency |-> {}]
  BY Zenon DEF Init
<1>2. tlb.rules = Static /\ tlb.pending = {} /\ tlb.recency = {}
  BY <1>1, Zenon
<1>3. Len(tlb.rules) = 1
  BY <1>2, Zenon DEF LruConfig
<1>4. (\A i, j \in 1..1 : i = j) /\ 2..1 = {}
  OBVIOUS
<1>5. LruOK(tlb)
  BY <1>2, <1>3, <1>4, Zenon DEF LruOK
<1> QED
  BY <1>2, <1>5, Zenon DEF LruInv

\* "To implement the ideal LRU algorithm": with the device's as the one range of the
\* configuration, and no refill of the DMA engine beside one in flight, no step replaces
\* a rule that was used more recently than a rule that stays, for any size of the TLB.
THEOREM KeepsRecentHolds == Config /\ LruConfig => (Spec => [][KeepsRecent]_vars)
<1> SUFFICES ASSUME Config, LruConfig PROVE Spec => [][KeepsRecent]_vars
  OBVIOUS
<1>1. Init => LruInv
  BY InitLru
<1>2. Inv /\ LruInv /\ [Next]_vars => LruInv' /\ [KeepsRecent]_vars
  <2>1. Evicts(tlb, tlb') => KeepsRecent
    BY Zenon DEF Evicts, KeepsRecent
  <2> QED
    BY <2>1, NextLru, Zenon
<1>3. Spec => []Inv
  BY Invariance
<1> QED
  BY <1>1, <1>2, <1>3, PTL DEF Spec
=============================================================================
