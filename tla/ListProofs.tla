----------------------------- MODULE ListProofs -----------------------------
(***************************************************************************)
(* What the operations of the intrusive lists do, for lists without        *)
(* repetitions of any items; and proofs about the components that live on  *)
(* such lists: the message nodes of the CAN driver, for any nodes,         *)
(* mailboxes, filters, writers and readers, and the timers of the port     *)
(* without an operating system, for any timers, periods and clock.         *)
(***************************************************************************)
EXTENDS CanTx, CanRx, TimerNone, FiniteSetTheorems, SequenceTheorems, WellFoundedInduction, TLAPS

-----------------------------------------------------------------------------
(* Lists. *)

(* Items that come and go at the ends. *)

\* list_add_tail of a new item.
LEMMA AppendList ==
    ASSUME NEW S, NEW q \in Seq(S), NEW n \in S, n \notin ToSet(q), IsInjective(q)
    PROVE  /\ Append(q, n) \in Seq(S) /\ Append(q, n) # << >>
           /\ ToSet(Append(q, n)) = ToSet(q) \cup {n}
           /\ IsInjective(Append(q, n))
<1> DEFINE r == Append(q, n)
<1>1. r \in Seq(S) /\ Len(r) = Len(q) + 1 /\ DOMAIN r = 1..(Len(q) + 1)
  OBVIOUS
<1>2. \A i \in DOMAIN q : r[i] = q[i] /\ i \in DOMAIN r
  OBVIOUS
<1>3. r[Len(q) + 1] = n
  OBVIOUS
<1>4. \A i \in DOMAIN r : i \in DOMAIN q \/ i = Len(q) + 1
  BY <1>1
<1>5. ToSet(r) = ToSet(q) \cup {n}
  BY <1>1, <1>2, <1>3, <1>4 DEF ToSet
<1>6. \A i \in DOMAIN q : q[i] # n
  BY DEF ToSet
<1>7. IsInjective(r)
  <2> SUFFICES ASSUME NEW i \in DOMAIN r, NEW j \in DOMAIN r, r[i] = r[j] PROVE i = j
    BY DEF IsInjective
  <2>. QED
    BY <1>2, <1>3, <1>4, <1>6 DEF IsInjective
<1>8. r # << >>
  BY <1>3, <1>1
<1>. QED
  BY <1>1, <1>5, <1>7, <1>8

\* The list without its first k items.
LEMMA RestList ==
    ASSUME NEW S, NEW q \in Seq(S), IsInjective(q), NEW k \in 0..Len(q)
    PROVE  /\ SubSeq(q, k + 1, Len(q)) \in Seq(S)
           /\ IsInjective(SubSeq(q, k + 1, Len(q)))
           /\ ToSet(SubSeq(q, k + 1, Len(q))) = {q[i] : i \in (k + 1)..Len(q)}
           /\ k = Len(q) => SubSeq(q, k + 1, Len(q)) = << >>
<1>0. PICK r : r = SubSeq(q, k + 1, Len(q))
  OBVIOUS
<1>1. Len(q) \in Nat /\ k \in Nat /\ DOMAIN q = 1..Len(q)
  OBVIOUS
<1>2. \A i \in (k + 1)..Len(q) : q[i] \in S
  BY <1>1
<1>3. r \in Seq(S) /\ Len(r) = Len(q) - k
  <2>1. k + 1 \in Int /\ Len(q) \in Int
    BY <1>1
  <2>2. /\ SubSeq(q, k + 1, Len(q)) \in Seq(S)
        /\ Len(SubSeq(q, k + 1, Len(q))) =
               IF k + 1 <= Len(q) THEN Len(q) - (k + 1) + 1 ELSE 0
    BY ONLY <1>2, <2>1, SubSeqProperties, Zenon
  <2>3. r \in Seq(S) /\ Len(r) = IF k + 1 <= Len(q) THEN Len(q) - (k + 1) + 1 ELSE 0
    BY <1>0, <2>2, Zenon
  <2>4. k <= Len(q) /\ Len(q) \in Int /\ k \in Int
    BY <1>1
  <2>5. Len(r) = Len(q) - k
    <3>1. Len(r) = IF k + 1 <= Len(q) THEN Len(q) - (k + 1) + 1 ELSE 0
      BY <2>3
    <3>. QED
      BY ONLY <3>1, <2>4
  <2>. QED
    BY <2>3, <2>5
<1>4. DOMAIN r = 1..(Len(q) - k)
  BY <1>3
<1>5. \A i \in DOMAIN r : r[i] = q[k + i] /\ k + i \in (k + 1)..Len(q)
  BY <1>0, <1>1, <1>4
<1>6. \A i \in (k + 1)..Len(q) : i - k \in DOMAIN r /\ r[i - k] = q[i]
  BY <1>1, <1>4, <1>5
<1>7. IsInjective(r)
  <2> SUFFICES ASSUME NEW i \in DOMAIN r, NEW j \in DOMAIN r, r[i] = r[j] PROVE i = j
    BY DEF IsInjective
  <2>1. k + i \in DOMAIN q /\ k + j \in DOMAIN q /\ q[k + i] = q[k + j]
    BY <1>1, <1>5
  <2>2. k + i = k + j
    BY <2>1 DEF IsInjective
  <2>. QED
    BY <2>2, <1>1, <1>4
<1>8. ToSet(r) = {q[i] : i \in (k + 1)..Len(q)}
  <2>1. \A i \in DOMAIN r : r[i] \in {q[j] : j \in (k + 1)..Len(q)}
    BY <1>5
  <2>2. \A j \in (k + 1)..Len(q) : q[j] \in {r[i] : i \in DOMAIN r}
    BY <1>6
  <2>. QED
    BY <2>1, <2>2 DEF ToSet
<1>9. k = Len(q) => r = << >>
  BY <1>3
<1>. QED
  BY <1>0, <1>3, <1>7, <1>8, <1>9

\* Taking the first item.
LEMMA TailList ==
    ASSUME NEW S, NEW q \in Seq(S), q # << >>, IsInjective(q)
    PROVE  /\ Tail(q) \in Seq(S) /\ IsInjective(Tail(q))
           /\ Head(q) \in S /\ Head(q) \in ToSet(q)
           /\ ToSet(Tail(q)) = ToSet(q) \ {Head(q)}
<1>1. Len(q) \in Nat /\ Len(q) > 0 /\ DOMAIN q = 1..Len(q) /\ 1 \in 0..Len(q)
  OBVIOUS
<1>2. Tail(q) = SubSeq(q, 1 + 1, Len(q))
  BY <1>1
<1>3. /\ Tail(q) \in Seq(S) /\ IsInjective(Tail(q))
      /\ ToSet(Tail(q)) = {q[i] : i \in 2..Len(q)}
  <2>1. 1 + 1 = 2
    OBVIOUS
  <2>2. /\ SubSeq(q, 1 + 1, Len(q)) \in Seq(S)
        /\ IsInjective(SubSeq(q, 1 + 1, Len(q)))
        /\ ToSet(SubSeq(q, 1 + 1, Len(q))) = {q[i] : i \in (1 + 1)..Len(q)}
    BY <1>1, RestList
  <2>. QED
    BY <1>2, <2>1, <2>2
<1>4. Head(q) = q[1] /\ 1 \in DOMAIN q
  BY <1>1
<1>5. \A i \in 2..Len(q) : i \in DOMAIN q /\ i # 1
  BY <1>1
<1>6. \A i \in DOMAIN q : i = 1 \/ i \in 2..Len(q)
  BY <1>1
<1>7. {q[i] : i \in 2..Len(q)} = ToSet(q) \ {Head(q)}
  BY <1>4, <1>5, <1>6 DEF ToSet, IsInjective
<1>8. Head(q) \in S /\ Head(q) \in ToSet(q)
  BY <1>4 DEF ToSet
<1>. QED
  BY <1>3, <1>7, <1>8

\* list_add of a new item.
LEMMA ConsList ==
    ASSUME NEW S, NEW q \in Seq(S), NEW n \in S, n \notin ToSet(q), IsInjective(q)
    PROVE  /\ <<n>> \o q \in Seq(S) /\ <<n>> \o q # << >>
           /\ ToSet(<<n>> \o q) = ToSet(q) \cup {n}
           /\ IsInjective(<<n>> \o q)
<1> DEFINE r == <<n>> \o q
<1>1. r \in Seq(S) /\ Len(r) = Len(q) + 1 /\ DOMAIN r = 1..(Len(q) + 1) /\ r # << >>
  OBVIOUS
<1>2. r[1] = n /\ 1 \in DOMAIN r
  OBVIOUS
<1>3. \A i \in DOMAIN r : i = 1 \/ (i - 1 \in DOMAIN q /\ r[i] = q[i - 1])
  BY <1>1
<1>4. \A i \in DOMAIN q : i + 1 \in DOMAIN r /\ r[i + 1] = q[i]
  BY <1>1
<1>5. ToSet(r) = ToSet(q) \cup {n}
  <2>1. \A i \in DOMAIN r : r[i] \in ToSet(q) \cup {n}
    BY <1>2, <1>3 DEF ToSet
  <2>2. \A i \in DOMAIN q : q[i] \in ToSet(r)
    BY <1>4 DEF ToSet
  <2>3. n \in ToSet(r)
    BY <1>2 DEF ToSet
  <2>. QED
    BY <2>1, <2>2, <2>3 DEF ToSet
<1>6. \A i \in DOMAIN q : q[i] # n
  BY DEF ToSet
<1>7. IsInjective(r)
  <2> SUFFICES ASSUME NEW i \in DOMAIN r, NEW j \in DOMAIN r, r[i] = r[j] PROVE i = j
    BY DEF IsInjective
  <2>1. CASE i = 1
    BY <2>1, <1>2, <1>3, <1>6
  <2>2. CASE j = 1
    BY <2>2, <1>2, <1>3, <1>6
  <2>3. CASE i # 1 /\ j # 1
    <3>1. i - 1 = j - 1
      BY <2>3, <1>3 DEF IsInjective
    <3>. QED
      BY <3>1, <1>1
  <2>. QED
    BY <2>1, <2>2, <2>3
<1>. QED
  BY <1>1, <1>5, <1>7

\* list_add in front of the item at position k.
LEMMA InsertList ==
    ASSUME NEW S, NEW q \in Seq(S), IsInjective(q), NEW n \in S, n \notin ToSet(q),
           NEW k \in 1..Len(q)
    PROVE  /\ InsertAt(q, k, n) \in Seq(S) /\ IsInjective(InsertAt(q, k, n))
           /\ ToSet(InsertAt(q, k, n)) = ToSet(q) \cup {n}
<1>1. Len(q) \in Nat /\ DOMAIN q = 1..Len(q) /\ k \in Int /\ 1 <= k /\ k <= Len(q)
  OBVIOUS
<1>2. PICK before, after, r : /\ before = SubSeq(q, 1, k - 1) /\ after = SubSeq(q, k, Len(q))
                              /\ r = (before \o <<n>>) \o after
  OBVIOUS
<1>3. before \in Seq(S) /\ Len(before) = k - 1 /\ \A i \in 1..(k - 1) : before[i] = q[i]
  BY <1>1, <1>2
<1>4. /\ after \in Seq(S) /\ Len(after) = Len(q) - k + 1
      /\ \A i \in 1..(Len(q) - k + 1) : after[i] = q[k + i - 1]
  BY <1>1, <1>2
<1>5. /\ before \o <<n>> \in Seq(S) /\ Len(before \o <<n>>) = k
      /\ \A i \in 1..(k - 1) : (before \o <<n>>)[i] = q[i]
      /\ (before \o <<n>>)[k] = n
  BY <1>1, <1>3
<1>6. /\ r \in Seq(S) /\ Len(r) = k + Len(after)
      /\ \A i \in 1..(k + Len(after)) :
           r[i] = IF i <= k THEN (before \o <<n>>)[i] ELSE after[i - k]
  <2>1. PICK head : head = before \o <<n>>
    OBVIOUS
  <2>2. head \in Seq(S) /\ Len(head) = k /\ r = head \o after
    BY <1>2, <1>5, <2>1
  <2>3. /\ head \o after \in Seq(S) /\ Len(head \o after) = Len(head) + Len(after)
        /\ \A i \in 1..Len(head) + Len(after) :
             (head \o after)[i] = IF i <= Len(head) THEN head[i] ELSE after[i - Len(head)]
    BY <1>4, <2>2, ConcatProperties
  <2>. QED
    BY <2>1, <2>2, <2>3
<1>7. /\ r \in Seq(S) /\ Len(r) = Len(q) + 1 /\ DOMAIN r = 1..(Len(q) + 1)
  BY <1>1, <1>4, <1>6
<1>8. /\ \A i \in 1..(k - 1) : r[i] = q[i]
      /\ r[k] = n
      /\ \A i \in (k + 1)..(Len(q) + 1) : r[i] = q[i - 1]
  <2>0. Len(after) \in Nat
    BY <1>4
  <2>1. \A i \in 1..k : r[i] = (before \o <<n>>)[i]
    <3> TAKE i \in 1..k
    <3>1. i \in 1..(k + Len(after)) /\ i <= k
      BY <1>1, <2>0
    <3>. QED
      BY <1>6, <3>1
  <2>2. \A i \in (k + 1)..(Len(q) + 1) : r[i] = q[i - 1]
    <3> TAKE i \in (k + 1)..(Len(q) + 1)
    <3>1. i - k \in 1..(Len(q) - k + 1) /\ k + (i - k) - 1 = i - 1
      BY <1>1
    <3>2. r[i] = after[i - k]
      BY <1>1, <1>4, <1>6
    <3>3. after[i - k] = q[k + (i - k) - 1]
      BY <1>4, <3>1
    <3>. QED
      BY <3>1, <3>2, <3>3
  <2>. QED
    BY <1>1, <1>5, <2>1, <2>2
<1>9. \A i \in DOMAIN q : q[i] # n
  BY DEF ToSet
<1>10. ToSet(r) = ToSet(q) \cup {n}
  <2>1. \A i \in DOMAIN r : r[i] \in ToSet(q) \cup {n}
    <3> TAKE i \in DOMAIN r
    <3>1. CASE i < k
      <4>1. i \in DOMAIN q /\ r[i] = q[i]
        BY <1>1, <1>7, <1>8, <3>1
      <4>. QED
        BY <4>1 DEF ToSet
    <3>2. CASE i = k
      BY <1>8, <3>2
    <3>3. CASE i > k
      <4>1. i - 1 \in DOMAIN q /\ r[i] = q[i - 1]
        BY <1>1, <1>7, <1>8, <3>3
      <4>. QED
        BY <4>1 DEF ToSet
    <3>. QED
      BY <1>1, <1>7, <3>1, <3>2, <3>3
  <2>2. \A i \in DOMAIN q : \E j \in DOMAIN r : r[j] = q[i]
    <3> TAKE i \in DOMAIN q
    <3>1. CASE i < k
      <4>1. i \in DOMAIN r /\ r[i] = q[i]
        BY <1>1, <1>7, <1>8, <3>1
      <4>. QED
        BY <4>1
    <3>2. CASE i >= k
      <4>1. i + 1 \in DOMAIN r /\ r[i + 1] = q[i]
        BY <1>1, <1>7, <1>8, <3>2
      <4>. QED
        BY <4>1
    <3>. QED
      BY <1>1, <3>1, <3>2
  <2>3. \E j \in DOMAIN r : r[j] = n
    BY <1>1, <1>7, <1>8
  <2>. QED
    BY <2>1, <2>2, <2>3 DEF ToSet
<1>11. IsInjective(r)
  <2> SUFFICES ASSUME NEW i \in DOMAIN r, NEW j \in DOMAIN r, r[i] = r[j], i < j PROVE FALSE
    BY <1>7 DEF IsInjective
  <2>1. /\ i < k => i \in DOMAIN q /\ r[i] = q[i]
        /\ i > k => i - 1 \in DOMAIN q /\ r[i] = q[i - 1]
        /\ j < k => j \in DOMAIN q /\ r[j] = q[j]
        /\ j > k => j - 1 \in DOMAIN q /\ r[j] = q[j - 1]
    BY <1>1, <1>7, <1>8
  <2>2. i \in Int /\ j \in Int /\ k \in Int
    BY <1>1, <1>7
  <2>3. CASE i = k
    BY <1>8, <1>9, <2>1, <2>2, <2>3
  <2>4. CASE j = k
    BY <1>8, <1>9, <2>1, <2>2, <2>4
  <2>5. CASE i # k /\ j # k
    <3>1. PICK f, g \in DOMAIN q : /\ f = (IF i < k THEN i ELSE i - 1) /\ q[f] = r[i]
                                   /\ g = (IF j < k THEN j ELSE j - 1) /\ q[g] = r[j]
      BY <2>1, <2>2, <2>5
    <3>2. f = g
      BY <3>1 DEF IsInjective
    <3>. QED
      BY <2>2, <2>5, <3>1, <3>2
  <2>. QED
    BY <2>3, <2>4, <2>5
<1>12. InsertAt(q, k, n) = r
  BY <1>2 DEF InsertAt
<1>. QED
  BY <1>7, <1>10, <1>11, <1>12

\* The buffer at the start: every node once.
LEMMA AllOnce ==
    ASSUME NEW S, IsFiniteSet(S), NEW q \in SetToSeqs(S)
    PROVE  q \in Seq(S) /\ IsInjective(q) /\ ToSet(q) = S
<1> DEFINE c == Cardinality(S)
<1>1. c \in Nat
  BY FS_CardinalityType
<1>2. q \in [1..c -> S] /\ \A i, j \in 1..c : i # j => q[i] # q[j]
  BY DEF SetToSeqs
<1>3. q \in Seq(S) /\ DOMAIN q = 1..c
  BY <1>1, <1>2
<1>4. IsInjective(q)
  BY <1>2, <1>3 DEF IsInjective
<1>5. q \in Injection(1..c, S)
  BY <1>2, <1>4 DEF Injection
<1>6. IsFiniteSet(1..c) /\ Cardinality(1..c) = c
  BY <1>1, FS_Interval
<1>7. q \in Surjection(1..c, S)
  BY <1>5, <1>6, FS_Injection
<1>8. \A s \in S : \E i \in 1..c : q[i] = s
  BY <1>7 DEF Surjection
<1>9. ToSet(q) = S
  BY <1>2, <1>3, <1>8 DEF ToSet
<1>. QED
  BY <1>3, <1>4, <1>9

-----------------------------------------------------------------------------
(* list_del, and the order of two lists. *)

\* r is q without some of its items.
Within(r, q) ==
    \E g \in [DOMAIN r -> DOMAIN q] :
        /\ \A i \in DOMAIN r : r[i] = q[g[i]]
        /\ \A i, j \in DOMAIN r : i < j <=> g[i] < g[j]

\* list_del takes one item out, and moves no other.
LEMMA WithoutList ==
    ASSUME NEW S, NEW q \in Seq(S), NEW x, IsInjective(q)
    PROVE  /\ Without(q, x) \in Seq(S) /\ IsInjective(Without(q, x))
           /\ ToSet(Without(q, x)) = ToSet(q) \ {x}
           /\ Len(Without(q, x)) = IF x \in ToSet(q) THEN Len(q) - 1 ELSE Len(q)
           /\ Within(Without(q, x), q)
           /\ x \notin ToSet(q) => Without(q, x) = q
<1>1. CASE x \notin ToSet(q)
  <2>1. Without(q, x) = q
    BY <1>1 DEF Without, ToSet
  <2>2. Within(q, q)
    <3> DEFINE g == [i \in DOMAIN q |-> i]
    <3>1. g \in [DOMAIN q -> DOMAIN q]
      OBVIOUS
    <3>2. /\ \A i \in DOMAIN q : q[i] = q[g[i]]
          /\ \A i, j \in DOMAIN q : i < j <=> g[i] < g[j]
      OBVIOUS
    <3> HIDE DEF g
    <3>. QED
      BY <3>1, <3>2, Zenon DEF Within
  <2>3. ToSet(q) \ {x} = ToSet(q)
    BY <1>1
  <2>. QED
    BY <1>1, <2>1, <2>2, <2>3
<1>2. CASE x \in ToSet(q)
  <2> DEFINE pos == CHOOSE i \in DOMAIN q : q[i] = x
             r == Without(q, x)
             g == [i \in DOMAIN r |-> IF i < pos THEN i ELSE i + 1]
  <2>1. pos \in DOMAIN q /\ q[pos] = x
    BY <1>2 DEF ToSet
  <2>2. pos \in 1..Len(q) /\ Len(q) \in Nat /\ DOMAIN q = 1..Len(q)
    BY <2>1
  <2>3. r = [i \in 1..(Len(q) - 1) |-> IF i < pos THEN q[i] ELSE q[i + 1]]
    <3>1. \E i \in DOMAIN q : q[i] = x
      BY <2>1
    <3>. QED
      BY <3>1 DEF Without
  <2> HIDE DEF pos, r
  <2>4. DOMAIN r = 1..(Len(q) - 1) /\ Len(q) - 1 \in Nat
    BY <2>2, <2>3
  <2>5. g \in [DOMAIN r -> DOMAIN q] /\ \A i \in DOMAIN r : g[i] # pos
    BY <2>2, <2>4
  <2>6. \A i \in DOMAIN r : r[i] = q[g[i]]
    BY <2>2, <2>3, <2>4
  <2>7. \A i, j \in DOMAIN r : i < j <=> g[i] < g[j]
    BY <2>2, <2>4
  <2>8. \A i \in DOMAIN q : i = pos \/ \E j \in DOMAIN r : g[j] = i
    <3> SUFFICES ASSUME NEW i \in DOMAIN q, i # pos PROVE \E j \in DOMAIN r : g[j] = i
      OBVIOUS
    <3>1. CASE i < pos
      <4>1. i \in DOMAIN r /\ g[i] = i
        BY <3>1, <2>2, <2>4
      <4>. QED
        BY <4>1
    <3>2. CASE i > pos
      <4>1. i - 1 \in DOMAIN r /\ g[i - 1] = i
        BY <3>2, <2>2, <2>4
      <4>. QED
        BY <4>1
    <3>. QED
      BY <3>1, <3>2, <2>2
  <2> HIDE DEF g
  <2>9. r \in Seq(S) /\ Len(r) = Len(q) - 1
    <3>1. \A i \in 1..(Len(q) - 1) : r[i] \in S
      BY <2>4, <2>5, <2>6
    <3>. QED
      BY <3>1, <2>3, <2>4
  <2>10. IsInjective(r)
    <3> SUFFICES ASSUME NEW i \in DOMAIN r, NEW j \in DOMAIN r, r[i] = r[j] PROVE i = j
      BY DEF IsInjective
    <3>1. g[i] \in DOMAIN q /\ g[j] \in DOMAIN q /\ q[g[i]] = q[g[j]]
      BY <2>5, <2>6
    <3>2. g[i] = g[j]
      BY ONLY <3>1, IsInjective(q) DEF IsInjective
    <3>3. ~(g[i] < g[j]) /\ ~(g[j] < g[i])
      BY <3>1, <3>2, <2>2
    <3>. QED
      BY <3>3, <2>4, <2>7
  <2>11. ToSet(r) = ToSet(q) \ {x}
    <3>1. \A i \in DOMAIN r : r[i] \in ToSet(q)
      BY <2>5, <2>6 DEF ToSet
    <3>2. \A i \in DOMAIN r : r[i] # x
      BY <2>1, <2>5, <2>6 DEF IsInjective
    <3>3. \A i \in DOMAIN q : q[i] # x => q[i] \in ToSet(r)
      BY <2>1, <2>6, <2>8 DEF ToSet
    <3>. QED
      BY <3>1, <3>2, <3>3 DEF ToSet
  <2>12. Within(r, q)
    BY <2>5, <2>6, <2>7, Zenon DEF Within
  <2>. QED
    BY <1>2, <2>9, <2>10, <2>11, <2>12 DEF r
<1>. QED
  BY <1>1, <1>2

\* Taking the first item is a list_del.
LEMMA TailWithout ==
    ASSUME NEW S, NEW q \in Seq(S), q # << >>, IsInjective(q)
    PROVE  Tail(q) = Without(q, Head(q))
<1> DEFINE pos == CHOOSE i \in DOMAIN q : q[i] = Head(q)
<1>1. Len(q) \in Nat /\ Len(q) > 0 /\ DOMAIN q = 1..Len(q) /\ Head(q) = q[1] /\ 1 \in DOMAIN q
  OBVIOUS
<1>2. pos \in DOMAIN q /\ q[pos] = q[1]
  BY <1>1
<1>3. pos = 1
  BY <1>1, <1>2 DEF IsInjective
<1>4. \E i \in DOMAIN q : q[i] = Head(q)
  BY <1>1
<1> HIDE DEF pos
<1>5. Without(q, Head(q)) = [i \in 1..(Len(q) - 1) |-> IF i < pos THEN q[i] ELSE q[i + 1]]
  BY <1>4 DEF Without, pos
<1>6. /\ Without(q, Head(q)) \in Seq(S) /\ Len(Without(q, Head(q))) = Len(q) - 1
      /\ \A i \in 1..(Len(q) - 1) : Without(q, Head(q))[i] = q[i + 1]
  <2>1. Len(Without(q, Head(q))) = Len(q) - 1 /\ Without(q, Head(q)) \in Seq(S)
    BY TailList, WithoutList
  <2>2. \A i \in 1..(Len(q) - 1) : Without(q, Head(q))[i] = q[i + 1]
    BY <1>1, <1>3, <1>5
  <2>. QED
    BY <2>1, <2>2
<1>7. /\ Tail(q) \in Seq(S) /\ Len(Tail(q)) = Len(q) - 1
      /\ \A i \in 1..(Len(q) - 1) : Tail(q)[i] = q[i + 1]
  BY <1>1
<1>. QED
  BY <1>6, <1>7, SeqEqual

\* Items taken out of two lists leave the others in their order.
LEMMA WithinOrder ==
    ASSUME NEW p, NEW q, NEW r, NEW s, SameOrder(p, q), Within(r, p), Within(s, q)
    PROVE  SameOrder(r, s)
<1>1. PICK g \in [DOMAIN r -> DOMAIN p] :
        /\ \A i \in DOMAIN r : r[i] = p[g[i]]
        /\ \A i, j \in DOMAIN r : i < j <=> g[i] < g[j]
  BY DEF Within
<1>2. PICK h \in [DOMAIN s -> DOMAIN q] :
        /\ \A i \in DOMAIN s : s[i] = q[h[i]]
        /\ \A i, j \in DOMAIN s : i < j <=> h[i] < h[j]
  BY DEF Within
<1> SUFFICES ASSUME NEW i \in DOMAIN r, NEW j \in DOMAIN r, NEW k \in DOMAIN s,
                    NEW l \in DOMAIN s, r[i] = s[k], r[j] = s[l]
             PROVE  i < j <=> k < l
  BY DEF SameOrder
<1>3. g[i] \in DOMAIN p /\ g[j] \in DOMAIN p /\ h[k] \in DOMAIN q /\ h[l] \in DOMAIN q
  OBVIOUS
<1>4. p[g[i]] = q[h[k]] /\ p[g[j]] = q[h[l]]
  BY <1>1, <1>2
<1>5. g[i] < g[j] <=> h[k] < h[l]
  BY <1>3, <1>4 DEF SameOrder
<1>. QED
  BY <1>1, <1>2, <1>5

\* list_add_tail to both lists, or to the second.
LEMMA AppendOrder ==
    ASSUME NEW S, NEW p \in Seq(S), NEW q \in Seq(S), NEW x \in S,
           x \notin ToSet(p), x \notin ToSet(q), SameOrder(p, q)
    PROVE  SameOrder(Append(p, x), Append(q, x)) /\ SameOrder(p, Append(q, x))
<1> DEFINE r == Append(p, x)
           s == Append(q, x)
<1>1. /\ \A i \in DOMAIN p : i \in DOMAIN r /\ r[i] = p[i] /\ p[i] # x /\ i <= Len(p)
      /\ \A i \in DOMAIN q : i \in DOMAIN s /\ s[i] = q[i] /\ q[i] # x /\ i <= Len(q)
  BY DEF ToSet
<1>2. /\ \A i \in DOMAIN r : (i \in DOMAIN p /\ r[i] = p[i]) \/ (i = Len(p) + 1 /\ r[i] = x)
      /\ \A i \in DOMAIN s : (i \in DOMAIN q /\ s[i] = q[i]) \/ (i = Len(q) + 1 /\ s[i] = x)
  OBVIOUS
<1>3. Len(p) \in Nat /\ Len(q) \in Nat /\ DOMAIN p \subseteq Int /\ DOMAIN q \subseteq Int
  OBVIOUS
<1> HIDE DEF r, s
<1>4. SameOrder(r, s)
  <2> SUFFICES ASSUME NEW i \in DOMAIN r, NEW j \in DOMAIN r, NEW k \in DOMAIN s,
                      NEW l \in DOMAIN s, r[i] = s[k], r[j] = s[l]
               PROVE  i < j <=> k < l
    BY DEF SameOrder
  <2>1. CASE i \in DOMAIN p /\ j \in DOMAIN p
    BY <2>1, <1>1, <1>2 DEF SameOrder
  <2>2. CASE i \notin DOMAIN p \/ j \notin DOMAIN p
    BY <2>2, <1>1, <1>2, <1>3
  <2>. QED
    BY <2>1, <2>2
<1>5. SameOrder(p, s)
  BY <1>1, <1>2 DEF SameOrder
<1>. QED
  BY <1>4, <1>5 DEF r, s

-----------------------------------------------------------------------------
\* A set of naturals has a least element: what a loop that counts up finds first.
LEMMA HasLeast ==
    ASSUME NEW S \in SUBSET Nat, S # {}
    PROVE  \E x \in S : \A y \in S : x <= y
<1>1. PICK x \in S : \A y \in S : ~ (<<y, x>> \in OpToRel(<, Nat))
  BY NatLessThanWellFounded, WFMin
<1>2. \A y \in S : ~ (y < x)
  BY <1>1 DEF OpToRel
<1>. QED
  BY <1>2

-----------------------------------------------------------------------------
(* The transmit half: the invariant. *)

\* Every node is in one place: F are the free nodes, U the used ones, `named` the
\* nodes of the mailboxes, `hand` those of the writers, O the orphans.
Placed(F, U, named, hand, O) ==
    /\ \A n \in TxNodes : \/ n \in F \/ n \in U \/ n \in O
                          \/ \E m \in Mailboxes : named[m] = n
                          \/ \E w \in Writers : hand[w] = n
    /\ \A n \in F : n \notin U /\ n \notin O
    /\ \A n \in U : n \notin O
    /\ \A m \in Mailboxes : named[m] \notin F /\ named[m] \notin U /\ named[m] \notin O
    /\ \A w \in Writers : hand[w] \notin F /\ hand[w] \notin U /\ hand[w] \notin O
    /\ \A m \in Mailboxes, w \in Writers : named[m] = hand[w] => named[m] = NoTxNode
    /\ \A m, k \in Mailboxes : named[m] = named[k] /\ named[m] # NoTxNode => m = k
    /\ \A v, w \in Writers : hand[v] = hand[w] /\ hand[v] # NoTxNode => v = w

\* MailboxesAgree, for any values of the variables; L are the nodes of the two lists
\* and those of the writers.
Agree(listed, named, own, hw, L) ==
    /\ \A m \in Mailboxes :
         /\ m \in listed <=> named[m] = NoTxNode
         /\ named[m] # NoTxNode => own[named[m]] = m
         /\ hw[m] # "empty" <=> named[m] # NoTxNode
    /\ \A n \in L : own[n] = NoBox

\* The nodes of the writers.
Hands(hand) == {n \in TxNodes : \E w \in Writers : hand[w] = n}

\* A writer has a node between the take and the queueing.
InHand ==
    \A w \in Writers : wnode[w] # NoTxNode <=> tpc[w] \in {"fill", "queue", "link"}

NoRepeats == IsInjective(txFree) /\ IsInjective(txUsed)

Apart == Placed(ToSet(txFree), ToSet(txUsed), pMsgList, wnode, orphans)

Agreed ==
    Agree(mailboxList, pMsgList, txOwner, hardware,
          ToSet(txFree) \cup ToSet(txUsed) \cup Hands(wnode))

TxInv == TxTypeOK /\ InHand /\ NoRepeats /\ Apart /\ Agreed

-----------------------------------------------------------------------------
(* The scheduler. *)

\* What a run of the scheduler has done: each mailbox m of `taken` has the node
\* give[m] of `used`; the mailboxes were not sending.
Given(used, listed, held, own, hw, taken, give) ==
    /\ taken \subseteq Mailboxes /\ give \in [taken -> ToSet(used)]
    /\ \A m, k \in taken : give[m] = give[k] => m = k
    /\ txUsed' \in Seq(TxNodes) /\ IsInjective(txUsed')
    /\ \A n \in ToSet(used) : n \in ToSet(txUsed') \/ \E m \in taken : give[m] = n
    /\ ToSet(txUsed') \subseteq ToSet(used)
    /\ \A m \in taken : give[m] \notin ToSet(txUsed')
    /\ mailboxList' = listed \ taken
    /\ pMsgList' = [m \in Mailboxes |-> IF m \in taken THEN give[m] ELSE held[m]]
    /\ \A m \in taken : hw[m] # "sending"
    /\ txOwner' = [n \in TxNodes |-> txOwner'[n]]
    /\ \A m \in taken : txOwner'[give[m]] = m
    /\ \A n \in TxNodes : (\A m \in taken : give[m] # n) => txOwner'[n] = own[n]
    /\ hardware' = [m \in Mailboxes |-> IF m \in taken THEN "sending" ELSE hw[m]]
    /\ orphans' = orphans \cup {held[m] : m \in {x \in taken : held[x] # NoTxNode}}
    /\ idle' \in BOOLEAN
    /\ ~idle' => txUsed' = << >> \/ mailboxList' = {}

LEMMA DispatchGives ==
    ASSUME NEW used \in Seq(TxNodes), IsInjective(used),
           NEW listed \in SUBSET Mailboxes, NEW held, NEW own, NEW hw,
           Dispatch(used, listed, held, own, hw)
    PROVE  \E taken, give : Given(used, listed, held, own, hw, taken, give)
<1>1. PICK p \in Picks :
        LET k == Len(p)
            taken == {p[i] : i \in 1..k}
            node(m) == used[CHOOSE i \in 1..k : p[i] = m]
            done == k = Len(used) \/ listed \subseteq taken
        IN  /\ k <= Len(used)
            /\ \A m \in taken : hw[m] # "sending"
            /\ \A i \in 1..k : ~(listed \subseteq {p[j] : j \in 1..(i - 1)})
            /\ txUsed' = SubSeq(used, k + 1, Len(used))
            /\ mailboxList' = listed \ taken
            /\ pMsgList' = [m \in Mailboxes |-> IF m \in taken THEN node(m) ELSE held[m]]
            /\ txOwner' = [n \in TxNodes |->
                   IF \E m \in taken : node(m) = n THEN CHOOSE m \in taken : node(m) = n
                   ELSE own[n]]
            /\ hardware' = [m \in Mailboxes |-> IF m \in taken THEN "sending" ELSE hw[m]]
            /\ orphans' = orphans \cup {held[m] : m \in {x \in taken : held[x] # NoTxNode}}
            /\ idle' = (~done)
  BY Zenon DEF Dispatch
<1> DEFINE k == Len(p)
           taken == {p[i] : i \in 1..k}
           pos(m) == CHOOSE i \in 1..k : p[i] = m
           give == [m \in taken |-> used[pos(m)]]
<1>2. k \in Nat /\ k <= Len(used) /\ Len(used) \in Nat /\ DOMAIN used = 1..Len(used)
      /\ DOMAIN p = 1..k /\ \A i \in 1..k : p[i] \in Mailboxes
  <2>1. PICK c \in Nat : p \in [1..c -> Mailboxes]
    BY DEF Picks
  <2>2. p \in Seq(Mailboxes) /\ Len(p) = c
    BY <2>1
  <2>. QED
    BY <1>1, <2>1, <2>2
<1>3. \A i, j \in 1..k : p[i] = p[j] => i = j
  BY <1>2 DEF Picks
<1>4. taken \in SUBSET Mailboxes
  BY <1>2
<1>5. \A m \in taken : pos(m) \in 1..k /\ p[pos(m)] = m
  OBVIOUS
<1>6. \A i \in 1..k : p[i] \in taken /\ pos(p[i]) = i
  <2>1. \A i \in 1..k : p[i] \in taken
    OBVIOUS
  <2>2. \A i \in 1..k : pos(p[i]) \in 1..k /\ p[pos(p[i])] = p[i]
    BY <1>5, <2>1
  <2>. QED
    BY <1>3, <2>1, <2>2
<1> HIDE DEF pos
<1>7. \A m \in taken : pos(m) \in DOMAIN used /\ give[m] = used[pos(m)]
  BY <1>2, <1>5
<1>8. give \in [taken -> ToSet(used)]
  BY <1>7 DEF ToSet
<1>9. \A m, n \in taken : give[m] = give[n] => m = n
  <2> SUFFICES ASSUME NEW m \in taken, NEW n \in taken, give[m] = give[n] PROVE m = n
    OBVIOUS
  <2>1. pos(m) \in DOMAIN used /\ pos(n) \in DOMAIN used /\ used[pos(m)] = used[pos(n)]
    BY <1>7
  <2>2. pos(m) = pos(n)
    BY ONLY <2>1, IsInjective(used) DEF IsInjective
  <2>3. p[pos(m)] = m /\ p[pos(n)] = n
    BY <1>5
  <2>. QED
    BY <2>2, <2>3
<1>10. /\ txUsed' \in Seq(TxNodes) /\ IsInjective(txUsed')
       /\ ToSet(txUsed') = {used[i] : i \in (k + 1)..Len(used)}
       /\ k = Len(used) => txUsed' = << >>
  <2>1. txUsed' = SubSeq(used, k + 1, Len(used))
    BY <1>1
  <2>2. k \in 0..Len(used)
    BY <1>2
  <2> HIDE DEF k
  <2>. QED
    BY ONLY <2>1, <2>2, used \in Seq(TxNodes), IsInjective(used), RestList
<1>11. \A n \in ToSet(used) : n \in ToSet(txUsed') \/ \E m \in taken : give[m] = n
  <2> SUFFICES ASSUME NEW i \in DOMAIN used
               PROVE  used[i] \in ToSet(txUsed') \/ \E m \in taken : give[m] = used[i]
    BY DEF ToSet
  <2>1. CASE i \in 1..k
    BY <2>1, <1>6, <1>7
  <2>2. CASE i \notin 1..k
    <3>1. i \in (k + 1)..Len(used)
      BY <2>2, <1>2
    <3>. QED
      BY <3>1, <1>10
  <2>. QED
    BY <2>1, <2>2
<1>12. ToSet(txUsed') \subseteq ToSet(used)
  <2>1. \A i \in (k + 1)..Len(used) : i \in DOMAIN used
    BY <1>2
  <2>. QED
    BY <2>1, <1>10 DEF ToSet
<1>13. \A m \in taken : give[m] \notin ToSet(txUsed')
  <2> SUFFICES ASSUME NEW m \in taken, NEW i \in (k + 1)..Len(used) PROVE give[m] # used[i]
    BY <1>10
  <2>1. pos(m) # i /\ pos(m) \in DOMAIN used /\ i \in DOMAIN used
    BY <1>2, <1>5
  <2>. QED
    BY <2>1, <1>7 DEF IsInjective
<1>14. /\ \A m \in taken : hw[m] # "sending"
       /\ mailboxList' = listed \ taken
       /\ pMsgList' = [m \in Mailboxes |-> IF m \in taken THEN used[pos(m)] ELSE held[m]]
       /\ txOwner' = [n \in TxNodes |->
              IF \E m \in taken : used[pos(m)] = n THEN CHOOSE m \in taken : used[pos(m)] = n
              ELSE own[n]]
       /\ hardware' = [m \in Mailboxes |-> IF m \in taken THEN "sending" ELSE hw[m]]
       /\ orphans' = orphans \cup {held[m] : m \in {x \in taken : held[x] # NoTxNode}}
       /\ idle' = (~(k = Len(used) \/ listed \subseteq taken))
  BY <1>1, Zenon DEF pos
<1> HIDE DEF taken, give
<1>15. pMsgList' = [m \in Mailboxes |-> IF m \in taken THEN give[m] ELSE held[m]]
  BY <1>7, <1>14
<1>16. \A m \in taken : txOwner'[give[m]] = m
  <2> SUFFICES ASSUME NEW m \in taken PROVE txOwner'[give[m]] = m
    OBVIOUS
  <2> DEFINE n == give[m]
             o == CHOOSE x \in taken : used[pos(x)] = n
  <2>1. n \in TxNodes
    BY <1>7
  <2>2. used[pos(m)] = n
    BY <1>7
  <2>3. o \in taken /\ used[pos(o)] = n
    BY <2>2
  <2>4. o = m
    BY <2>3, <1>7, <1>9
  <2> HIDE DEF n
  <2>5. txOwner'[n] = o
    BY <1>14, <2>1, <2>2
  <2>. QED
    BY <2>4, <2>5 DEF n
<1>17. \A n \in TxNodes : (\A m \in taken : give[m] # n) => txOwner'[n] = own[n]
  BY <1>7, <1>14
<1>18. txOwner' = [n \in TxNodes |-> txOwner'[n]]
  BY <1>14
<1>19. idle' \in BOOLEAN
  BY <1>14, Zenon
<1>20. ~idle' => txUsed' = << >> \/ mailboxList' = {}
  <2>1. ~idle' => k = Len(used) \/ listed \subseteq taken
    BY <1>14, Zenon
  <2>. QED
    BY <2>1, <1>10, <1>14
<1>21. Given(used, listed, held, own, hw, taken, give)
  BY <1>4, <1>8, <1>9, <1>10, <1>11, <1>12, <1>13, <1>14, <1>15, <1>16, <1>17, <1>18,
     <1>19, <1>20, Zenon DEF Given
<1>. QED
  BY <1>21, Zenon

\* Nodes, lists and mailboxes agree after a run of the scheduler when they agreed
\* before it: F are the free nodes, `hand` the writers' nodes.
LEMMA GivenKeeps ==
    ASSUME NEW used \in Seq(TxNodes), IsInjective(used),
           NEW listed \in SUBSET Mailboxes,
           NEW held \in [Mailboxes -> TxNodes \cup {NoTxNode}],
           NEW own \in [TxNodes -> Mailboxes \cup {NoBox}],
           NEW hw \in [Mailboxes -> {"empty", "sending", "sent", "failed"}],
           NEW F \in SUBSET TxNodes, NEW hand, orphans \subseteq TxNodes,
           Placed(F, ToSet(used), held, hand, orphans),
           Agree(listed, held, own, hw, F \cup ToSet(used) \cup Hands(hand)),
           NEW taken, NEW give, Given(used, listed, held, own, hw, taken, give)
    PROVE  /\ mailboxList' \subseteq Mailboxes
           /\ pMsgList' \in [Mailboxes -> TxNodes \cup {NoTxNode}]
           /\ txOwner' \in [TxNodes -> Mailboxes \cup {NoBox}]
           /\ hardware' \in [Mailboxes -> {"empty", "sending", "sent", "failed"}]
           /\ orphans' \subseteq TxNodes
           /\ Placed(F, ToSet(txUsed'), pMsgList', hand, orphans')
           /\ Agree(mailboxList', pMsgList', txOwner', hardware',
                    F \cup ToSet(txUsed') \cup Hands(hand))
<1>1. ToSet(used) \subseteq TxNodes
  BY DEF ToSet
<1>2. taken \subseteq Mailboxes /\ \A m \in taken : give[m] \in ToSet(used) /\ give[m] \in TxNodes
  BY <1>1 DEF Given
<1>3. \A m, k \in taken : give[m] = give[k] => m = k
  BY DEF Given
<1>4. /\ \A n \in ToSet(used) : n \in ToSet(txUsed') \/ \E m \in taken : give[m] = n
      /\ ToSet(txUsed') \subseteq ToSet(used)
      /\ \A m \in taken : give[m] \notin ToSet(txUsed')
  BY DEF Given
<1>5. /\ pMsgList' = [m \in Mailboxes |-> IF m \in taken THEN give[m] ELSE held[m]]
      /\ hardware' = [m \in Mailboxes |-> IF m \in taken THEN "sending" ELSE hw[m]]
      /\ mailboxList' = listed \ taken
      /\ orphans' = orphans \cup {held[m] : m \in {x \in taken : held[x] # NoTxNode}}
  BY DEF Given
<1>6. /\ txOwner' = [n \in TxNodes |-> txOwner'[n]]
      /\ \A m \in taken : txOwner'[give[m]] = m
      /\ \A n \in TxNodes : (\A m \in taken : give[m] # n) => txOwner'[n] = own[n]
  BY DEF Given
<1>7. \A m \in Mailboxes : pMsgList'[m] = IF m \in taken THEN give[m] ELSE held[m]
  BY <1>5
<1>8. \A m \in taken : held[m] # NoTxNode => held[m] \in orphans'
  BY <1>5
<1>9. \A n \in orphans' : n \in orphans \/ \E m \in taken : held[m] = n /\ held[m] # NoTxNode
  BY <1>5
<1>10. orphans \subseteq orphans'
  BY <1>5
<1>11. NoTxNode \notin TxNodes /\ NoBox \notin Mailboxes
  BY CanTxAssumption
<1>12. /\ mailboxList' \subseteq Mailboxes
       /\ pMsgList' \in [Mailboxes -> TxNodes \cup {NoTxNode}]
       /\ hardware' \in [Mailboxes -> {"empty", "sending", "sent", "failed"}]
  BY <1>2, <1>5
<1>13. orphans' \subseteq TxNodes
  BY <1>2, <1>9
<1>14. txOwner' \in [TxNodes -> Mailboxes \cup {NoBox}]
  <2>1. \A n \in TxNodes : txOwner'[n] \in Mailboxes \cup {NoBox}
    <3> SUFFICES ASSUME NEW n \in TxNodes PROVE txOwner'[n] \in Mailboxes \cup {NoBox}
      OBVIOUS
    <3>1. CASE \E m \in taken : give[m] = n
      BY <3>1, <1>2, <1>6
    <3>2. CASE \A m \in taken : give[m] # n
      BY <3>2, <1>6
    <3>. QED
      BY <3>1, <3>2
  <2>. QED
    BY <2>1, <1>6
<1>20. Placed(F, ToSet(txUsed'), pMsgList', hand, orphans')
  <2> DEFINE P == pMsgList'
             U == ToSet(txUsed')
             O == orphans'
             V == ToSet(used)
  <2>0. /\ \A m \in Mailboxes : P[m] = IF m \in taken THEN give[m] ELSE held[m]
        /\ \A m \in taken : held[m] # NoTxNode => held[m] \in O
        /\ \A n \in O : n \in orphans \/ \E m \in taken : held[m] = n /\ held[m] # NoTxNode
        /\ orphans \subseteq O
        /\ \A n \in V : n \in U \/ \E m \in taken : give[m] = n
        /\ U \subseteq V /\ V \subseteq TxNodes
        /\ \A m \in taken : give[m] \notin U
        /\ taken \subseteq Mailboxes /\ \A m \in taken : give[m] \in V /\ give[m] \in TxNodes
    BY <1>1, <1>2, <1>4, <1>7, <1>8, <1>9, <1>10
  <2>1. Placed(F, V, held, hand, orphans)
    OBVIOUS
  <2> HIDE DEF P, U, O, V
  <2>2. \A n \in TxNodes : \/ n \in F \/ n \in U \/ n \in O
                           \/ \E m \in Mailboxes : P[m] = n
                           \/ \E w \in Writers : hand[w] = n
    <3> SUFFICES ASSUME NEW n \in TxNodes
                 PROVE  \/ n \in F \/ n \in U \/ n \in O
                        \/ \E m \in Mailboxes : P[m] = n
                        \/ \E w \in Writers : hand[w] = n
      OBVIOUS
    <3>1. CASE n \in V
      BY <3>1, <2>0
    <3>2. CASE \E m \in Mailboxes : held[m] = n
      <4>1. PICK m \in Mailboxes : held[m] = n
        BY <3>2
      <4>2. n # NoTxNode
        BY <1>11
      <4>. QED
        BY <4>1, <4>2, <2>0
    <3>3. CASE n \in F \/ n \in orphans \/ \E w \in Writers : hand[w] = n
      BY <3>3, <2>0
    <3>. QED
      BY <3>1, <3>2, <3>3, <2>1 DEF Placed
  <2>3. \A n \in F : n \notin U /\ n \notin O
    BY <2>0, <2>1 DEF Placed
  <2>4. \A n \in U : n \notin O
    BY <2>0, <2>1 DEF Placed
  <2>5. \A m \in Mailboxes : P[m] \notin F /\ P[m] \notin U /\ P[m] \notin O
    <3> SUFFICES ASSUME NEW m \in Mailboxes PROVE P[m] \notin F /\ P[m] \notin U /\ P[m] \notin O
      OBVIOUS
    <3>1. CASE m \in taken
      BY <3>1, <2>0, <2>1 DEF Placed
    <3>2. CASE m \notin taken
      BY <3>2, <2>0, <2>1 DEF Placed
    <3>. QED
      BY <3>1, <3>2
  <2>6. \A w \in Writers : hand[w] \notin F /\ hand[w] \notin U /\ hand[w] \notin O
    BY <2>0, <2>1 DEF Placed
  <2>7. \A m \in Mailboxes, w \in Writers : P[m] = hand[w] => P[m] = NoTxNode
    BY <2>0, <2>1 DEF Placed
  <2>8. \A m, k \in Mailboxes : P[m] = P[k] /\ P[m] # NoTxNode => m = k
    <3> SUFFICES ASSUME NEW m \in Mailboxes, NEW k \in Mailboxes, P[m] = P[k], P[m] # NoTxNode
                 PROVE  m = k
      OBVIOUS
    <3>1. CASE m \in taken /\ k \in taken
      BY <3>1, <2>0, <1>3
    <3>2. CASE m \notin taken /\ k \notin taken
      BY <3>2, <2>0, <2>1 DEF Placed
    <3>3. CASE ~(m \in taken <=> k \in taken)
      BY <3>3, <2>0, <2>1 DEF Placed
    <3>. QED
      BY <3>1, <3>2, <3>3
  <2>9. \A v, w \in Writers : hand[v] = hand[w] /\ hand[v] # NoTxNode => v = w
    BY <2>1 DEF Placed
  <2>10. Placed(F, U, P, hand, O)
    BY <2>2, <2>3, <2>4, <2>5, <2>6, <2>7, <2>8, <2>9 DEF Placed
  <2>. QED
    BY <2>10 DEF P, U, O
<1>21. Agree(mailboxList', pMsgList', txOwner', hardware',
             F \cup ToSet(txUsed') \cup Hands(hand))
  <2>1. \A m \in Mailboxes : m \in mailboxList' <=> pMsgList'[m] = NoTxNode
    BY <1>2, <1>5, <1>7, <1>11 DEF Agree
  <2>2. \A m \in Mailboxes : hardware'[m] # "empty" <=> pMsgList'[m] # NoTxNode
    BY <1>2, <1>5, <1>11 DEF Agree
  <2>3. \A m \in Mailboxes : pMsgList'[m] # NoTxNode => txOwner'[pMsgList'[m]] = m
    <3> SUFFICES ASSUME NEW m \in Mailboxes, pMsgList'[m] # NoTxNode
                 PROVE  txOwner'[pMsgList'[m]] = m
      OBVIOUS
    <3>1. CASE m \in taken
      BY <3>1, <1>6, <1>7
    <3>2. CASE m \notin taken
      <4>1. pMsgList'[m] = held[m] /\ held[m] \in TxNodes /\ own[held[m]] = m
        BY <3>2, <1>7 DEF Agree
      <4>2. \A k \in taken : give[k] # held[m]
        BY <1>2 DEF Placed
      <4>. QED
        BY <4>1, <4>2, <1>6
    <3>. QED
      BY <3>1, <3>2
  <2>4. \A n \in F \cup ToSet(txUsed') \cup Hands(hand) : txOwner'[n] = NoBox
    <3> SUFFICES ASSUME NEW n \in F \cup ToSet(txUsed') \cup Hands(hand)
                 PROVE  txOwner'[n] = NoBox
      OBVIOUS
    <3>1. n \in TxNodes /\ own[n] = NoBox
      BY <1>1, <1>4 DEF Agree, Hands
    <3>2. \A m \in taken : give[m] # n
      BY <1>2, <1>4 DEF Placed, Hands
    <3>. QED
      BY <3>1, <3>2, <1>6
  <2>. QED
    BY <2>1, <2>2, <2>3, <2>4 DEF Agree
<1>. QED
  BY <1>12, <1>13, <1>14, <1>20, <1>21

-----------------------------------------------------------------------------
(* Steps of the writers. *)

LEMMA ListsTyped ==
    ASSUME TxTypeOK
    PROVE  ToSet(txFree) \subseteq TxNodes /\ ToSet(txUsed) \subseteq TxNodes
BY DEF TxTypeOK, ToSet

\* cantx_get_free_msg_list takes one node out of one of the lists.
LEMMA TakesOne ==
    ASSUME TxTypeOK, NoRepeats, TxHasNode
    PROVE  /\ TxGot \in TxNodes /\ TxGot \in ToSet(txFree) \cup ToSet(txUsed)
           /\ TxFreeLeft \in Seq(TxNodes) /\ IsInjective(TxFreeLeft)
           /\ TxUsedLeft \in Seq(TxNodes) /\ IsInjective(TxUsedLeft)
           /\ \/ /\ ToSet(TxFreeLeft) = ToSet(txFree) \ {TxGot}
                 /\ ToSet(TxUsedLeft) = ToSet(txUsed) /\ TxGot \in ToSet(txFree)
              \/ /\ ToSet(TxFreeLeft) = ToSet(txFree)
                 /\ ToSet(TxUsedLeft) = ToSet(txUsed) \ {TxGot} /\ TxGot \in ToSet(txUsed)
<1>1. /\ txFree \in Seq(TxNodes) /\ txUsed \in Seq(TxNodes)
      /\ IsInjective(txFree) /\ IsInjective(txUsed)
  BY DEF TxTypeOK, NoRepeats
<1>2. CASE txFree # << >>
  <2>1. /\ Tail(txFree) \in Seq(TxNodes) /\ IsInjective(Tail(txFree))
        /\ Head(txFree) \in TxNodes /\ Head(txFree) \in ToSet(txFree)
        /\ ToSet(Tail(txFree)) = ToSet(txFree) \ {Head(txFree)}
    BY <1>1, <1>2, TailList
  <2>. QED
    BY <2>1, <1>1, <1>2 DEF TxGot, TxFreeLeft, TxUsedLeft
<1>3. CASE txFree = << >>
  <2>1. txUsed # << >>
    BY <1>3 DEF TxHasNode
  <2>2. /\ Tail(txUsed) \in Seq(TxNodes) /\ IsInjective(Tail(txUsed))
        /\ Head(txUsed) \in TxNodes /\ Head(txUsed) \in ToSet(txUsed)
        /\ ToSet(Tail(txUsed)) = ToSet(txUsed) \ {Head(txUsed)}
    BY <1>1, <2>1, TailList
  <2>3. TxGot = Head(txUsed) /\ TxFreeLeft = txFree /\ TxUsedLeft = Tail(txUsed)
    BY <1>3 DEF TxGot, TxFreeLeft, TxUsedLeft
  <2>. QED
    BY <2>2, <2>3, <1>1
<1>. QED
  BY <1>2, <1>3

\* GetFree with a node: the node goes from its list to the writer.
LEMMA GetFreeKeeps ==
    ASSUME TxInv, NEW w \in Writers, GetFree(w), TxHasNode
    PROVE  TxInv'
<1>1. /\ tpc[w] = "get" /\ txFree' = TxFreeLeft /\ txUsed' = TxUsedLeft
      /\ wnode' = [wnode EXCEPT ![w] = TxGot] /\ tpc' = [tpc EXCEPT ![w] = "fill"]
      /\ UNCHANGED <<wtail, adrift, txOwner, txOverwrite, mailboxList, pMsgList, hardware,
                     orphans, idle>>
  BY DEF GetFree, WriterGoes, boxes
<1>2. TxTypeOK /\ InHand /\ NoRepeats /\ Apart /\ Agreed
  BY DEF TxInv
<1> DEFINE F == ToSet(txFree)
           U == ToSet(txUsed)
           G == ToSet(TxFreeLeft)
           V == ToSet(TxUsedLeft)
           x == TxGot
<1>3. /\ x \in TxNodes /\ x \in F \cup U /\ x # NoTxNode
      /\ TxFreeLeft \in Seq(TxNodes) /\ IsInjective(TxFreeLeft)
      /\ TxUsedLeft \in Seq(TxNodes) /\ IsInjective(TxUsedLeft)
      /\ \/ G = F \ {x} /\ V = U /\ x \in F
         \/ G = F /\ V = U \ {x} /\ x \in U
  BY <1>2, TakesOne, CanTxAssumption
<1>4. F \subseteq TxNodes /\ U \subseteq TxNodes
  BY <1>2, ListsTyped
<1>5. wnode[w] = NoTxNode
  BY <1>1, <1>2 DEF InHand
<1>6. /\ \A v \in Writers : wnode'[v] = IF v = w THEN x ELSE wnode[v]
      /\ \A v \in Writers : tpc'[v] = IF v = w THEN "fill" ELSE tpc[v]
  BY <1>1, <1>2 DEF TxTypeOK
<1>7. TxTypeOK'
  BY <1>1, <1>2, <1>3 DEF TxTypeOK
<1>8. InHand'
  BY <1>2, <1>3, <1>6 DEF InHand
<1>9. NoRepeats'
  BY <1>1, <1>3 DEF NoRepeats
<1> HIDE DEF F, U, G, V, x
<1>10. Placed(F, U, pMsgList, wnode, orphans)
  BY <1>2 DEF Apart, F, U
<1>11. Placed(G, V, pMsgList, wnode', orphans)
  <2>1. \A n \in TxNodes : \/ n \in G \/ n \in V \/ n \in orphans
                           \/ \E m \in Mailboxes : pMsgList[m] = n
                           \/ \E v \in Writers : wnode'[v] = n
    <3> SUFFICES ASSUME NEW n \in TxNodes, n # x
                 PROVE  \/ n \in G \/ n \in V \/ n \in orphans
                        \/ \E m \in Mailboxes : pMsgList[m] = n
                        \/ \E v \in Writers : wnode'[v] = n
      BY <1>6
    <3>1. \A v \in Writers : wnode[v] = n => wnode'[v] = n
      BY <1>5, <1>6, CanTxAssumption
    <3>. QED
      BY <3>1, <1>3, <1>10 DEF Placed
  <2>2. (\A n \in G : n \notin V /\ n \notin orphans) /\ (\A n \in V : n \notin orphans)
    BY <1>3, <1>4, <1>5, <1>6, <1>10 DEF Placed
  <2>3. \A m \in Mailboxes : pMsgList[m] \notin G /\ pMsgList[m] \notin V /\ pMsgList[m] \notin orphans
    BY <1>3, <1>4, <1>5, <1>6, <1>10 DEF Placed
  <2>4. \A v \in Writers : wnode'[v] \notin G /\ wnode'[v] \notin V /\ wnode'[v] \notin orphans
    BY <1>3, <1>4, <1>5, <1>6, <1>10 DEF Placed
  <2>5. \A m \in Mailboxes, v \in Writers : pMsgList[m] = wnode'[v] => pMsgList[m] = NoTxNode
    BY <1>3, <1>4, <1>5, <1>6, <1>10 DEF Placed
  <2>6. \A m, k \in Mailboxes : pMsgList[m] = pMsgList[k] /\ pMsgList[m] # NoTxNode => m = k
    BY <1>3, <1>4, <1>5, <1>6, <1>10 DEF Placed
  <2>7. \A u, v \in Writers : wnode'[u] = wnode'[v] /\ wnode'[u] # NoTxNode => u = v
    BY <1>3, <1>4, <1>5, <1>6, <1>10 DEF Placed
  <2>. QED
    BY <2>1, <2>2, <2>3, <2>4, <2>5, <2>6, <2>7 DEF Placed
<1>12. Apart'
  BY <1>1, <1>11 DEF Apart, G, V
<1>13. G \cup V \cup Hands(wnode') \subseteq F \cup U \cup Hands(wnode)
  BY <1>3, <1>6 DEF Hands
<1>14. Agreed'
  <2>1. Agree(mailboxList, pMsgList, txOwner, hardware, F \cup U \cup Hands(wnode))
    BY <1>2 DEF Agreed, F, U
  <2>2. Agree(mailboxList, pMsgList, txOwner, hardware, G \cup V \cup Hands(wnode'))
    BY <2>1, <1>13 DEF Agree
  <2>. QED
    BY <1>1, <2>2 DEF Agreed, G, V
<1>. QED
  BY <1>7, <1>8, <1>9, <1>12, <1>14 DEF TxInv

\* A writer's node goes to one of the lists.
LEMMA WriterGives ==
    ASSUME NEW F \in SUBSET TxNodes, NEW U \in SUBSET TxNodes, NEW named, NEW O,
           NEW hand \in [Writers -> TxNodes \cup {NoTxNode}],
           NEW w \in Writers, hand[w] # NoTxNode,
           O \subseteq TxNodes, Placed(F, U, named, hand, O)
    PROVE  /\ Placed(F \cup {hand[w]}, U, named, [hand EXCEPT ![w] = NoTxNode], O)
           /\ Placed(F, U \cup {hand[w]}, named, [hand EXCEPT ![w] = NoTxNode], O)
           /\ {hand[w]} \cup Hands([hand EXCEPT ![w] = NoTxNode]) \subseteq Hands(hand)
<1>0. PICK n, left : n = hand[w] /\ left = [hand EXCEPT ![w] = NoTxNode]
  OBVIOUS
<1>1. n = hand[w] /\ n # NoTxNode /\ n \in TxNodes /\ NoTxNode \notin TxNodes
  BY <1>0, CanTxAssumption
<1>2. \A v \in Writers : left[v] = IF v = w THEN NoTxNode ELSE hand[v]
  BY <1>0
<1>3. Placed(F \cup {n}, U, named, left, O)
  <2>1. \A i \in TxNodes : \/ i \in F \cup {n} \/ i \in U \/ i \in O
                           \/ \E k \in Mailboxes : named[k] = i
                           \/ \E v \in Writers : left[v] = i
    <3> TAKE i \in TxNodes
    <3>1. CASE i = n
      BY <3>1
    <3>2. CASE i # n
      <4>1. \A v \in Writers : hand[v] = i => left[v] = i
        BY <1>1, <1>2, <3>2
      <4>2. \/ i \in F \/ i \in U \/ i \in O \/ \E k \in Mailboxes : named[k] = i
            \/ \E v \in Writers : hand[v] = i
        BY DEF Placed
      <4>. QED
        BY <4>1, <4>2
    <3>. QED
      BY <3>1, <3>2
  <2>2. (\A i \in F \cup {n} : i \notin U /\ i \notin O) /\ (\A i \in U : i \notin O)
    BY <1>1, <1>2 DEF Placed
  <2>3. \A k \in Mailboxes : named[k] \notin F \cup {n} /\ named[k] \notin U /\ named[k] \notin O
    BY <1>1, <1>2 DEF Placed
  <2>4. \A v \in Writers : left[v] \notin F \cup {n} /\ left[v] \notin U /\ left[v] \notin O
    BY <1>1, <1>2 DEF Placed
  <2>5. \A k \in Mailboxes, v \in Writers : named[k] = left[v] => named[k] = NoTxNode
    BY <1>1, <1>2 DEF Placed
  <2>6. \A j, k \in Mailboxes : named[j] = named[k] /\ named[j] # NoTxNode => j = k
    BY <1>1, <1>2 DEF Placed
  <2>7. \A u, v \in Writers : left[u] = left[v] /\ left[u] # NoTxNode => u = v
    BY <1>1, <1>2 DEF Placed
  <2>. QED
    BY <2>1, <2>2, <2>3, <2>4, <2>5, <2>6, <2>7 DEF Placed
<1>4. Placed(F, U \cup {n}, named, left, O)
  <2>1. \A i \in TxNodes : \/ i \in F \/ i \in U \cup {n} \/ i \in O
                           \/ \E k \in Mailboxes : named[k] = i
                           \/ \E v \in Writers : left[v] = i
    <3> TAKE i \in TxNodes
    <3>1. CASE i = n
      BY <3>1
    <3>2. CASE i # n
      <4>1. \A v \in Writers : hand[v] = i => left[v] = i
        BY <1>1, <1>2, <3>2
      <4>2. \/ i \in F \/ i \in U \/ i \in O \/ \E k \in Mailboxes : named[k] = i
            \/ \E v \in Writers : hand[v] = i
        BY DEF Placed
      <4>. QED
        BY <4>1, <4>2
    <3>. QED
      BY <3>1, <3>2
  <2>2. (\A i \in F : i \notin U \cup {n} /\ i \notin O) /\ (\A i \in U \cup {n} : i \notin O)
    BY <1>1, <1>2 DEF Placed
  <2>3. \A k \in Mailboxes : named[k] \notin F /\ named[k] \notin U \cup {n} /\ named[k] \notin O
    BY <1>1, <1>2 DEF Placed
  <2>4. \A v \in Writers : left[v] \notin F /\ left[v] \notin U \cup {n} /\ left[v] \notin O
    BY <1>1, <1>2 DEF Placed
  <2>5. \A k \in Mailboxes, v \in Writers : named[k] = left[v] => named[k] = NoTxNode
    BY <1>1, <1>2 DEF Placed
  <2>6. \A j, k \in Mailboxes : named[j] = named[k] /\ named[j] # NoTxNode => j = k
    BY <1>1, <1>2 DEF Placed
  <2>7. \A u, v \in Writers : left[u] = left[v] /\ left[u] # NoTxNode => u = v
    BY <1>1, <1>2 DEF Placed
  <2>. QED
    BY <2>1, <2>2, <2>3, <2>4, <2>5, <2>6, <2>7 DEF Placed
<1>5. {n} \cup Hands(left) \subseteq Hands(hand)
  BY <1>1, <1>2 DEF Hands
<1>. QED
  BY <1>0, <1>3, <1>4, <1>5

\* The node of a mailbox goes to one of the lists.
LEMMA MailboxGives ==
    ASSUME NEW F \in SUBSET TxNodes, NEW U \in SUBSET TxNodes, NEW hand, NEW O,
           NEW named \in [Mailboxes -> TxNodes \cup {NoTxNode}],
           NEW m \in Mailboxes, named[m] # NoTxNode,
           O \subseteq TxNodes, Placed(F, U, named, hand, O)
    PROVE  /\ Placed(F \cup {named[m]}, U, [named EXCEPT ![m] = NoTxNode], hand, O)
           /\ Placed(F, U \cup {named[m]}, [named EXCEPT ![m] = NoTxNode], hand, O)
<1>0. PICK n, left : n = named[m] /\ left = [named EXCEPT ![m] = NoTxNode]
  OBVIOUS
<1>1. n = named[m] /\ n # NoTxNode /\ n \in TxNodes /\ NoTxNode \notin TxNodes
  BY <1>0, CanTxAssumption
<1>2. \A k \in Mailboxes : left[k] = IF k = m THEN NoTxNode ELSE named[k]
  BY <1>0
<1>3. Placed(F \cup {n}, U, left, hand, O)
  <2>1. \A i \in TxNodes : \/ i \in F \cup {n} \/ i \in U \/ i \in O
                           \/ \E k \in Mailboxes : left[k] = i
                           \/ \E v \in Writers : hand[v] = i
    BY <1>1, <1>2 DEF Placed
  <2>2. (\A i \in F \cup {n} : i \notin U /\ i \notin O) /\ (\A i \in U : i \notin O)
    BY <1>1, <1>2 DEF Placed
  <2>3. \A k \in Mailboxes : left[k] \notin F \cup {n} /\ left[k] \notin U /\ left[k] \notin O
    BY <1>1, <1>2 DEF Placed
  <2>4. \A v \in Writers : hand[v] \notin F \cup {n} /\ hand[v] \notin U /\ hand[v] \notin O
    BY <1>1, <1>2 DEF Placed
  <2>5. \A k \in Mailboxes, v \in Writers : left[k] = hand[v] => left[k] = NoTxNode
    BY <1>1, <1>2 DEF Placed
  <2>6. \A j, k \in Mailboxes : left[j] = left[k] /\ left[j] # NoTxNode => j = k
    BY <1>1, <1>2 DEF Placed
  <2>7. \A u, v \in Writers : hand[u] = hand[v] /\ hand[u] # NoTxNode => u = v
    BY <1>1, <1>2 DEF Placed
  <2>. QED
    BY <2>1, <2>2, <2>3, <2>4, <2>5, <2>6, <2>7 DEF Placed
<1>4. Placed(F, U \cup {n}, left, hand, O)
  <2>1. \A i \in TxNodes : \/ i \in F \/ i \in U \cup {n} \/ i \in O
                           \/ \E k \in Mailboxes : left[k] = i
                           \/ \E v \in Writers : hand[v] = i
    BY <1>1, <1>2 DEF Placed
  <2>2. (\A i \in F : i \notin U \cup {n} /\ i \notin O) /\ (\A i \in U \cup {n} : i \notin O)
    BY <1>1, <1>2 DEF Placed
  <2>3. \A k \in Mailboxes : left[k] \notin F /\ left[k] \notin U \cup {n} /\ left[k] \notin O
    BY <1>1, <1>2 DEF Placed
  <2>4. \A v \in Writers : hand[v] \notin F /\ hand[v] \notin U \cup {n} /\ hand[v] \notin O
    BY <1>1, <1>2 DEF Placed
  <2>5. \A k \in Mailboxes, v \in Writers : left[k] = hand[v] => left[k] = NoTxNode
    BY <1>1, <1>2 DEF Placed
  <2>6. \A j, k \in Mailboxes : left[j] = left[k] /\ left[j] # NoTxNode => j = k
    BY <1>1, <1>2 DEF Placed
  <2>7. \A u, v \in Writers : hand[u] = hand[v] /\ hand[u] # NoTxNode => u = v
    BY <1>1, <1>2 DEF Placed
  <2>. QED
    BY <2>1, <2>2, <2>3, <2>4, <2>5, <2>6, <2>7 DEF Placed
<1>. QED
  BY <1>0, <1>3, <1>4

\* The writer's node goes to the tail of the used list.
LEMMA QueueKeeps ==
    ASSUME TxInv, NEW w \in Writers, Queue(w)
    PROVE  TxInv'
<1>1. /\ tpc[w] = "queue" /\ txUsed' = Append(txUsed, wnode[w])
      /\ wnode' = [wnode EXCEPT ![w] = NoTxNode]
      /\ wtail' = [wtail EXCEPT ![w] = NoTxNode]
      /\ \E pos \in {"get", "schedule"} : tpc' = [tpc EXCEPT ![w] = pos]
      /\ UNCHANGED <<txFree, txOwner, txOverwrite, mailboxList, pMsgList, hardware,
                     orphans, idle, adrift>>
  BY DEF Queue, Drops, NextMessage, WriterGoes, boxes
<1>2. TxTypeOK /\ InHand /\ NoRepeats /\ Apart /\ Agreed
  BY DEF TxInv
<1> DEFINE F == ToSet(txFree)
           U == ToSet(txUsed)
           n == wnode[w]
<1>3. F \subseteq TxNodes /\ U \subseteq TxNodes
  BY <1>2, ListsTyped
<1>4. n \in TxNodes /\ n # NoTxNode
  BY <1>1, <1>2, CanTxAssumption DEF InHand, TxTypeOK
<1>5. n \notin F /\ n \notin U
  BY <1>2 DEF Apart, Placed
<1>6. txUsed' \in Seq(TxNodes) /\ ToSet(txUsed') = ToSet(txUsed) \cup {n} /\ IsInjective(txUsed')
  <2>1. txUsed \in Seq(TxNodes) /\ IsInjective(txUsed)
    BY <1>2 DEF TxTypeOK, NoRepeats
  <2>. QED
    BY <2>1, <1>1, <1>4, <1>5, AppendList
<1>7. /\ \A v \in Writers : wnode'[v] = IF v = w THEN NoTxNode ELSE wnode[v]
      /\ \A v \in Writers : v # w => tpc'[v] = tpc[v]
      /\ tpc'[w] \in {"get", "schedule"}
  BY <1>1, <1>2 DEF TxTypeOK
<1>8. TxTypeOK'
  BY <1>1, <1>2, <1>6 DEF TxTypeOK
<1>9. InHand'
  BY <1>2, <1>7 DEF InHand
<1>10. NoRepeats'
  BY <1>1, <1>2, <1>6 DEF NoRepeats
<1>11. wnode \in [Writers -> TxNodes \cup {NoTxNode}] /\ orphans \subseteq TxNodes
       /\ Placed(F, U, pMsgList, wnode, orphans)
  BY <1>2 DEF TxTypeOK, Apart
<1> HIDE DEF F, U
<1>12. /\ Placed(F, U \cup {n}, pMsgList, wnode', orphans)
       /\ {n} \cup Hands(wnode') \subseteq Hands(wnode)
  <2>1. wnode' = [wnode EXCEPT ![w] = NoTxNode]
    BY <1>1
  <2>. QED
    BY ONLY <1>3, <1>4, <1>11, <2>1, w \in Writers, WriterGives
<1>13. Apart'
  BY <1>1, <1>6, <1>12 DEF Apart, F, U
<1>14. Agreed'
  <2>1. Agree(mailboxList, pMsgList, txOwner, hardware, F \cup U \cup Hands(wnode))
    BY <1>2 DEF Agreed, F, U
  <2>2. Agree(mailboxList, pMsgList, txOwner, hardware, F \cup U \cup {n} \cup Hands(wnode'))
    BY <2>1, <1>12 DEF Agree
  <2>3. ToSet(txFree') \cup ToSet(txUsed') \cup Hands(wnode') = F \cup U \cup {n} \cup Hands(wnode')
    BY <1>1, <1>6 DEF F, U
  <2>. QED
    BY <1>1, <2>2, <2>3 DEF Agreed
<1>. QED
  BY <1>8, <1>9, <1>10, <1>13, <1>14 DEF TxInv

\* The writer's node goes back to the free list.
LEMMA TxLinkFreeKeeps ==
    ASSUME TxInv, NEW w \in Writers, TxLinkFree(w), wtail[w] = TxTailOf(txFree)
    PROVE  TxInv'
<1>1. /\ tpc[w] = "link" /\ txFree' = Append(txFree, wnode[w])
      /\ wnode' = [wnode EXCEPT ![w] = NoTxNode]
      /\ wtail' = [wtail EXCEPT ![w] = NoTxNode]
      /\ \E pos \in {"get", "schedule"} : tpc' = [tpc EXCEPT ![w] = pos]
      /\ UNCHANGED <<txUsed, txOwner, txOverwrite, mailboxList, pMsgList, hardware,
                     orphans, idle, adrift>>
  BY DEF TxLinkFree, Drops, NextMessage, WriterGoes, boxes
<1>2. TxTypeOK /\ InHand /\ NoRepeats /\ Apart /\ Agreed
  BY DEF TxInv
<1> DEFINE F == ToSet(txFree)
           U == ToSet(txUsed)
           n == wnode[w]
<1>3. F \subseteq TxNodes /\ U \subseteq TxNodes
  BY <1>2, ListsTyped
<1>4. n \in TxNodes /\ n # NoTxNode
  BY <1>1, <1>2, CanTxAssumption DEF InHand, TxTypeOK
<1>5. n \notin F /\ n \notin U
  BY <1>2 DEF Apart, Placed
<1>6. txFree' \in Seq(TxNodes) /\ ToSet(txFree') = ToSet(txFree) \cup {n} /\ IsInjective(txFree')
  <2>1. txFree \in Seq(TxNodes) /\ IsInjective(txFree)
    BY <1>2 DEF TxTypeOK, NoRepeats
  <2>. QED
    BY <2>1, <1>1, <1>4, <1>5, AppendList
<1>7. /\ \A v \in Writers : wnode'[v] = IF v = w THEN NoTxNode ELSE wnode[v]
      /\ \A v \in Writers : v # w => tpc'[v] = tpc[v]
      /\ tpc'[w] \in {"get", "schedule"}
  BY <1>1, <1>2 DEF TxTypeOK
<1>8. TxTypeOK'
  BY <1>1, <1>2, <1>6 DEF TxTypeOK
<1>9. InHand'
  BY <1>2, <1>7 DEF InHand
<1>10. NoRepeats'
  BY <1>1, <1>2, <1>6 DEF NoRepeats
<1>11. wnode \in [Writers -> TxNodes \cup {NoTxNode}] /\ orphans \subseteq TxNodes
       /\ Placed(F, U, pMsgList, wnode, orphans)
  BY <1>2 DEF TxTypeOK, Apart
<1> HIDE DEF F, U
<1>12. /\ Placed(F \cup {n}, U, pMsgList, wnode', orphans)
       /\ {n} \cup Hands(wnode') \subseteq Hands(wnode)
  <2>1. wnode' = [wnode EXCEPT ![w] = NoTxNode]
    BY <1>1
  <2>. QED
    BY ONLY <1>3, <1>4, <1>11, <2>1, w \in Writers, WriterGives
<1>13. Apart'
  BY <1>1, <1>6, <1>12 DEF Apart, F, U
<1>14. Agreed'
  <2>1. Agree(mailboxList, pMsgList, txOwner, hardware, F \cup U \cup Hands(wnode))
    BY <1>2 DEF Agreed, F, U
  <2>2. Agree(mailboxList, pMsgList, txOwner, hardware, F \cup U \cup {n} \cup Hands(wnode'))
    BY <2>1, <1>12 DEF Agree
  <2>3. ToSet(txFree') \cup ToSet(txUsed') \cup Hands(wnode') = F \cup U \cup {n} \cup Hands(wnode')
    BY <1>1, <1>6 DEF F, U
  <2>. QED
    BY <1>1, <2>2, <2>3 DEF Agreed
<1>. QED
  BY <1>8, <1>9, <1>10, <1>13, <1>14 DEF TxInv

\* A write from an interrupt handler: the node goes to the tail of the used list.
LEMMA WriteFromIsrKeeps ==
    ASSUME TxInv, WriteFromIsr
    PROVE  TxInv'
<1>1. /\ TxHasNode /\ txFree' = TxFreeLeft /\ txUsed' = Append(TxUsedLeft, TxGot)
      /\ idle' = TRUE
      /\ UNCHANGED <<txOwner, txOverwrite, mailboxList, pMsgList, hardware, tpc, wnode, wtail,
                     orphans, adrift>>
  BY DEF WriteFromIsr, boxes, writing
<1>2. TxTypeOK /\ InHand /\ NoRepeats /\ Apart /\ Agreed
  BY DEF TxInv
<1> DEFINE F == ToSet(txFree)
           U == ToSet(txUsed)
           G == ToSet(TxFreeLeft)
           V == ToSet(TxUsedLeft)
           x == TxGot
<1>3. /\ x \in TxNodes /\ x \in F \cup U
      /\ TxFreeLeft \in Seq(TxNodes) /\ IsInjective(TxFreeLeft)
      /\ TxUsedLeft \in Seq(TxNodes) /\ IsInjective(TxUsedLeft)
      /\ \/ G = F \ {x} /\ V = U /\ x \in F
         \/ G = F /\ V = U \ {x} /\ x \in U
  BY <1>1, <1>2, TakesOne
<1>4. Placed(F, U, pMsgList, wnode, orphans)
  BY <1>2 DEF Apart
<1>5. x \notin V
  BY <1>3, <1>4 DEF Placed
<1>6. txUsed' \in Seq(TxNodes) /\ ToSet(txUsed') = V \cup {x} /\ IsInjective(txUsed')
  BY <1>1, <1>3, <1>5, AppendList
<1>7. TxTypeOK'
  BY <1>1, <1>2, <1>3, <1>6 DEF TxTypeOK
<1>8. InHand' /\ NoRepeats'
  BY <1>1, <1>2, <1>3, <1>6 DEF InHand, NoRepeats
<1> HIDE DEF F, U, G, V, x
<1>9. Placed(G, V \cup {x}, pMsgList, wnode, orphans)
  BY <1>3, <1>4, <1>5 DEF Placed
<1>10. Apart'
  BY <1>1, <1>6, <1>9 DEF Apart, G
<1>11. Agreed'
  <2>1. Agree(mailboxList, pMsgList, txOwner, hardware, F \cup U \cup Hands(wnode))
    BY <1>2 DEF Agreed, F, U
  <2>2. G \cup (V \cup {x}) \cup Hands(wnode) \subseteq F \cup U \cup Hands(wnode)
    BY <1>3
  <2>3. Agree(mailboxList, pMsgList, txOwner, hardware, G \cup (V \cup {x}) \cup Hands(wnode))
    BY <2>1, <2>2 DEF Agree
  <2>. QED
    BY <1>1, <1>6, <2>3 DEF Agreed, G
<1>. QED
  BY <1>7, <1>8, <1>10, <1>11 DEF TxInv

-----------------------------------------------------------------------------
(* Steps that run the scheduler. *)

\* After a run of the scheduler the invariant holds when it held of the values the
\* scheduler was given, and a node is left behind only if the hardware refused it.
LEMMA DispatchKeeps ==
    ASSUME NEW used \in Seq(TxNodes), IsInjective(used),
           NEW listed \in SUBSET Mailboxes,
           NEW held \in [Mailboxes -> TxNodes \cup {NoTxNode}],
           NEW own \in [TxNodes -> Mailboxes \cup {NoBox}],
           NEW hw \in [Mailboxes -> {"empty", "sending", "sent", "failed"}],
           TxTypeOK, txFree' \in Seq(TxNodes), IsInjective(txFree'),
           tpc' \in [Writers -> {"out", "get", "fill", "queue", "link", "schedule"}], InHand',
           UNCHANGED <<txOverwrite, wnode, wtail, adrift>>,
           Placed(ToSet(txFree'), ToSet(used), held, wnode, orphans),
           Agree(listed, held, own, hw, ToSet(txFree') \cup ToSet(used) \cup Hands(wnode)),
           Dispatch(used, listed, held, own, hw)
    PROVE  TxInv' /\ (~idle' => txUsed' = << >> \/ mailboxList' = {})
<1>1. PICK taken, give : Given(used, listed, held, own, hw, taken, give)
  BY DispatchGives
<1>2. ToSet(txFree') \in SUBSET TxNodes /\ orphans \subseteq TxNodes
  BY DEF ToSet, TxTypeOK
<1> DEFINE F == ToSet(txFree')
<1>3. Placed(F, ToSet(used), held, wnode, orphans)
  OBVIOUS
<1>4. Agree(listed, held, own, hw, F \cup ToSet(used) \cup Hands(wnode))
  OBVIOUS
<1>5. F \in SUBSET TxNodes
  BY <1>2
<1> HIDE DEF F
<1>6. /\ mailboxList' \subseteq Mailboxes
      /\ pMsgList' \in [Mailboxes -> TxNodes \cup {NoTxNode}]
      /\ txOwner' \in [TxNodes -> Mailboxes \cup {NoBox}]
      /\ hardware' \in [Mailboxes -> {"empty", "sending", "sent", "failed"}]
      /\ orphans' \subseteq TxNodes
      /\ Placed(F, ToSet(txUsed'), pMsgList', wnode, orphans')
      /\ Agree(mailboxList', pMsgList', txOwner', hardware',
               F \cup ToSet(txUsed') \cup Hands(wnode))
  BY <1>1, <1>2, <1>3, <1>4, <1>5, GivenKeeps
<1>7. /\ txUsed' \in Seq(TxNodes) /\ IsInjective(txUsed') /\ idle' \in BOOLEAN
      /\ ~idle' => txUsed' = << >> \/ mailboxList' = {}
  BY <1>1 DEF Given
<1>8. TxTypeOK'
  BY <1>6, <1>7 DEF TxTypeOK
<1>9. NoRepeats'
  BY <1>7 DEF NoRepeats
<1>10. Apart' /\ Agreed'
  BY <1>6 DEF Apart, Agreed, F
<1>. QED
  BY <1>7, <1>8, <1>9, <1>10 DEF TxInv

\* can_write ends with the scheduler.
LEMMA ScheduleKeeps ==
    ASSUME TxInv, NEW w \in Writers, Schedule(w)
    PROVE  TxInv' /\ (~idle' => txUsed' = << >> \/ mailboxList' = {})
<1>1. /\ tpc[w] = "schedule" /\ tpc' = [tpc EXCEPT ![w] = "out"]
      /\ Dispatch(txUsed, mailboxList, pMsgList, txOwner, hardware)
      /\ UNCHANGED <<txFree, txOverwrite, wnode, wtail, adrift>>
  BY DEF Schedule, WriterGoes
<1>2. TxTypeOK /\ InHand /\ NoRepeats /\ Apart /\ Agreed
  BY DEF TxInv
<1>3. InHand' /\ tpc' \in [Writers -> {"out", "get", "fill", "queue", "link", "schedule"}]
  BY <1>1, <1>2 DEF InHand, TxTypeOK
<1>4. /\ txUsed \in Seq(TxNodes) /\ IsInjective(txUsed) /\ mailboxList \in SUBSET Mailboxes
      /\ pMsgList \in [Mailboxes -> TxNodes \cup {NoTxNode}]
      /\ txOwner \in [TxNodes -> Mailboxes \cup {NoBox}]
      /\ hardware \in [Mailboxes -> {"empty", "sending", "sent", "failed"}]
      /\ txFree' \in Seq(TxNodes) /\ IsInjective(txFree')
  BY <1>1, <1>2 DEF TxTypeOK, NoRepeats
<1>5. Placed(ToSet(txFree'), ToSet(txUsed), pMsgList, wnode, orphans)
  BY <1>1, <1>2 DEF Apart
<1>6. Agree(mailboxList, pMsgList, txOwner, hardware,
            ToSet(txFree') \cup ToSet(txUsed) \cup Hands(wnode))
  BY <1>1, <1>2 DEF Agreed
<1>. QED
  BY <1>1, <1>2, <1>3, <1>4, <1>5, <1>6, DispatchKeeps

\* What a handler that empties mailbox m gives to the scheduler.
LEMMA BoxEmptied ==
    ASSUME TxInv, NEW m \in Mailboxes, pMsgList[m] # NoTxNode,
           NEW held, held = [pMsgList EXCEPT ![m] = NoTxNode],
           NEW own, own = [txOwner EXCEPT ![pMsgList[m]] = NoBox],
           NEW hw, hw = [hardware EXCEPT ![m] = "empty"],
           NEW L, L = ToSet(txFree) \cup ToSet(txUsed) \cup Hands(wnode) \cup {pMsgList[m]}
    PROVE  /\ pMsgList[m] \in TxNodes
           /\ pMsgList[m] \notin ToSet(txFree) /\ pMsgList[m] \notin ToSet(txUsed)
           /\ held \in [Mailboxes -> TxNodes \cup {NoTxNode}]
           /\ own \in [TxNodes -> Mailboxes \cup {NoBox}]
           /\ hw \in [Mailboxes -> {"empty", "sending", "sent", "failed"}]
           /\ Agree(mailboxList \cup {m}, held, own, hw, L)
           /\ Placed(ToSet(txFree) \cup {pMsgList[m]}, ToSet(txUsed), held, wnode, orphans)
           /\ Placed(ToSet(txFree), ToSet(txUsed) \cup {pMsgList[m]}, held, wnode, orphans)
<1>1. TxTypeOK /\ Apart /\ Agreed
  BY DEF TxInv
<1>2. /\ pMsgList \in [Mailboxes -> TxNodes \cup {NoTxNode}]
      /\ txOwner \in [TxNodes -> Mailboxes \cup {NoBox}]
      /\ hardware \in [Mailboxes -> {"empty", "sending", "sent", "failed"}]
      /\ mailboxList \subseteq Mailboxes /\ orphans \subseteq TxNodes
  BY <1>1 DEF TxTypeOK
<1>3. pMsgList[m] \in TxNodes /\ NoTxNode \notin TxNodes /\ NoBox \notin Mailboxes
  BY <1>2, CanTxAssumption
<1>4. /\ \A k \in Mailboxes : held[k] = IF k = m THEN NoTxNode ELSE pMsgList[k]
      /\ \A n \in TxNodes : own[n] = IF n = pMsgList[m] THEN NoBox ELSE txOwner[n]
      /\ \A k \in Mailboxes : hw[k] = IF k = m THEN "empty" ELSE hardware[k]
  BY <1>2
<1>5. /\ held \in [Mailboxes -> TxNodes \cup {NoTxNode}]
      /\ own \in [TxNodes -> Mailboxes \cup {NoBox}]
      /\ hw \in [Mailboxes -> {"empty", "sending", "sent", "failed"}]
  BY <1>2
<1>6. Placed(ToSet(txFree), ToSet(txUsed), pMsgList, wnode, orphans)
  BY <1>1 DEF Apart
<1>7. ToSet(txFree) \in SUBSET TxNodes /\ ToSet(txUsed) \in SUBSET TxNodes
  BY <1>1, ListsTyped
<1>8. /\ Placed(ToSet(txFree) \cup {pMsgList[m]}, ToSet(txUsed), held, wnode, orphans)
      /\ Placed(ToSet(txFree), ToSet(txUsed) \cup {pMsgList[m]}, held, wnode, orphans)
  BY <1>2, <1>6, <1>7, MailboxGives
<1>9. Agree(mailboxList \cup {m}, held, own, hw, L)
  <2>1. Agree(mailboxList, pMsgList, txOwner, hardware,
              ToSet(txFree) \cup ToSet(txUsed) \cup Hands(wnode))
    BY <1>1 DEF Agreed
  <2>2. \A j, k \in Mailboxes : pMsgList[j] = pMsgList[k] /\ pMsgList[j] # NoTxNode => j = k
    BY <1>6 DEF Placed
  <2>3. L \subseteq TxNodes
    BY <1>3, <1>7 DEF Hands
  <2>4. \A k \in Mailboxes : k \in mailboxList \cup {m} <=> held[k] = NoTxNode
    BY <2>1, <1>4 DEF Agree
  <2>5. \A k \in Mailboxes : hw[k] # "empty" <=> held[k] # NoTxNode
    BY <2>1, <1>4 DEF Agree
  <2>6. \A k \in Mailboxes : held[k] # NoTxNode => own[held[k]] = k
    BY <2>1, <2>2, <1>2, <1>3, <1>4 DEF Agree
  <2>7. \A n \in L : own[n] = NoBox
    BY <2>1, <2>3, <1>4 DEF Agree
  <2>. QED
    BY <2>4, <2>5, <2>6, <2>7 DEF Agree
<1>10. pMsgList[m] \notin ToSet(txFree) /\ pMsgList[m] \notin ToSet(txUsed)
  BY <1>6 DEF Placed
<1>. QED
  BY <1>3, <1>5, <1>8, <1>9, <1>10

\* CAN_ISR_EVENT_INT_TX_DONE: the node of the mailbox is free again.
LEMMA DoneKeeps ==
    ASSUME TxInv, NEW m \in Mailboxes, TxDone(m)
    PROVE  TxInv' /\ (~idle' => txUsed' = << >> \/ mailboxList' = {})
<1> DEFINE n == pMsgList[m]
           listed == mailboxList \cup {m}
           held == [pMsgList EXCEPT ![m] = NoTxNode]
           own == [txOwner EXCEPT ![n] = NoBox]
           hw == [hardware EXCEPT ![m] = "empty"]
<1>1. /\ n # NoTxNode /\ txFree' = Append(txFree, n)
      /\ Dispatch(txUsed, listed, held, own, hw)
      /\ UNCHANGED <<txOverwrite, tpc, wnode, wtail, adrift>>
  BY Zenon DEF TxDone, writing
<1>2. TxTypeOK /\ InHand /\ NoRepeats /\ Apart /\ Agreed
  BY DEF TxInv
<1>3. /\ n \in TxNodes /\ n \notin ToSet(txFree)
      /\ held \in [Mailboxes -> TxNodes \cup {NoTxNode}]
      /\ own \in [TxNodes -> Mailboxes \cup {NoBox}]
      /\ hw \in [Mailboxes -> {"empty", "sending", "sent", "failed"}]
      /\ Agree(listed, held, own, hw,
               ToSet(txFree) \cup ToSet(txUsed) \cup Hands(wnode) \cup {n})
      /\ Placed(ToSet(txFree) \cup {n}, ToSet(txUsed), held, wnode, orphans)
  BY <1>1, BoxEmptied
<1>4. /\ txFree' \in Seq(TxNodes) /\ IsInjective(txFree')
      /\ ToSet(txFree') = ToSet(txFree) \cup {n}
  <2>1. txFree \in Seq(TxNodes) /\ IsInjective(txFree)
    BY <1>2 DEF TxTypeOK, NoRepeats
  <2>. QED
    BY <2>1, <1>1, <1>3, AppendList
<1>5. listed \in SUBSET Mailboxes /\ txUsed \in Seq(TxNodes) /\ IsInjective(txUsed)
  BY <1>2 DEF TxTypeOK, NoRepeats
<1>6. InHand' /\ tpc' \in [Writers -> {"out", "get", "fill", "queue", "link", "schedule"}]
  BY <1>1, <1>2 DEF InHand, TxTypeOK
<1> HIDE DEF n, listed, held, own, hw
<1>7. Placed(ToSet(txFree'), ToSet(txUsed), held, wnode, orphans)
  BY <1>3, <1>4
<1>8. Agree(listed, held, own, hw, ToSet(txFree') \cup ToSet(txUsed) \cup Hands(wnode))
  <2>1. ToSet(txFree) \cup ToSet(txUsed) \cup Hands(wnode) \cup {n}
          = ToSet(txFree') \cup ToSet(txUsed) \cup Hands(wnode)
    BY <1>4
  <2>. QED
    BY <2>1, <1>3
<1>9. UNCHANGED <<txOverwrite, wnode, wtail, adrift>>
  BY <1>1
<1>. QED
  BY <1>1, <1>2, <1>3, <1>4, <1>5, <1>6, <1>7, <1>8, <1>9, DispatchKeeps

\* cantx_soft_retransmit: the node of the mailbox waits again, first.
LEMMA RetransmitKeeps ==
    ASSUME TxInv, NEW m \in Mailboxes, Retransmit(m)
    PROVE  TxInv' /\ (~idle' => txUsed' = << >> \/ mailboxList' = {})
<1> DEFINE n == pMsgList[m]
           used == <<n>> \o txUsed
           listed == mailboxList \cup {m}
           held == [pMsgList EXCEPT ![m] = NoTxNode]
           own == [txOwner EXCEPT ![n] = NoBox]
           hw == [hardware EXCEPT ![m] = "empty"]
<1>1. /\ n # NoTxNode
      /\ Dispatch(used, listed, held, own, hw)
      /\ UNCHANGED <<txFree, txOverwrite, tpc, wnode, wtail, adrift>>
  BY Zenon DEF Retransmit, writing
<1>2. TxTypeOK /\ InHand /\ NoRepeats /\ Apart /\ Agreed
  BY DEF TxInv
<1>3. /\ n \in TxNodes /\ n \notin ToSet(txUsed)
      /\ held \in [Mailboxes -> TxNodes \cup {NoTxNode}]
      /\ own \in [TxNodes -> Mailboxes \cup {NoBox}]
      /\ hw \in [Mailboxes -> {"empty", "sending", "sent", "failed"}]
      /\ Agree(listed, held, own, hw,
               ToSet(txFree) \cup ToSet(txUsed) \cup Hands(wnode) \cup {n})
      /\ Placed(ToSet(txFree), ToSet(txUsed) \cup {n}, held, wnode, orphans)
  BY <1>1, BoxEmptied
<1>4. used \in Seq(TxNodes) /\ IsInjective(used) /\ ToSet(used) = ToSet(txUsed) \cup {n}
  <2>1. txUsed \in Seq(TxNodes) /\ IsInjective(txUsed)
    BY <1>2 DEF TxTypeOK, NoRepeats
  <2>. QED
    BY <2>1, <1>3, ConsList
<1>5. listed \in SUBSET Mailboxes /\ txFree' \in Seq(TxNodes) /\ IsInjective(txFree')
  BY <1>1, <1>2 DEF TxTypeOK, NoRepeats
<1>6. InHand' /\ tpc' \in [Writers -> {"out", "get", "fill", "queue", "link", "schedule"}]
  BY <1>1, <1>2 DEF InHand, TxTypeOK
<1> HIDE DEF n, used, listed, held, own, hw
<1>7. Placed(ToSet(txFree'), ToSet(used), held, wnode, orphans)
  BY <1>1, <1>3, <1>4
<1>8. Agree(listed, held, own, hw, ToSet(txFree') \cup ToSet(used) \cup Hands(wnode))
  <2>1. ToSet(txFree) \cup ToSet(txUsed) \cup Hands(wnode) \cup {n}
          = ToSet(txFree') \cup ToSet(used) \cup Hands(wnode)
    BY <1>1, <1>4
  <2>. QED
    BY <2>1, <1>3
<1>9. UNCHANGED <<txOverwrite, wnode, wtail, adrift>>
  BY <1>1
<1>. QED
  BY <1>1, <1>2, <1>3, <1>4, <1>5, <1>6, <1>7, <1>8, <1>9, DispatchKeeps

-----------------------------------------------------------------------------
(* The invariant. *)

LEMMA TxInvInit == TxInit => TxInv
<1> SUFFICES ASSUME TxInit PROVE TxInv
  OBVIOUS
<1>1. txFree \in Seq(TxNodes) /\ IsInjective(txFree) /\ ToSet(txFree) = TxNodes
  BY CanTxAssumption, AllOnce DEF TxInit
<1>2. txUsed = << >> /\ txUsed \in Seq(TxNodes) /\ IsInjective(txUsed) /\ ToSet(txUsed) = {}
  BY DEF TxInit, IsInjective, ToSet
<1>3. TxTypeOK
  BY <1>1, <1>2 DEF TxInit, TxTypeOK
<1>4. InHand /\ NoRepeats
  BY <1>1, <1>2 DEF TxInit, InHand, NoRepeats
<1>5. Apart
  BY <1>1, <1>2, CanTxAssumption DEF TxInit, Apart, Placed
<1>6. Agreed
  BY <1>1, <1>2 DEF TxInit, Agreed, Agree, Hands
<1>. QED
  BY <1>3, <1>4, <1>5, <1>6 DEF TxInv

\* The steps that move no node.
LEMMA NoNodeMoves ==
    ASSUME TxInv, NEW w \in Writers,
           UNCHANGED <<txFree, txUsed, txOwner, txOverwrite, mailboxList, pMsgList, hardware,
                       wnode, orphans, idle>>,
           wtail' \in [Writers -> TxNodes \cup {NoTxNode}], adrift' \in BOOLEAN,
           NEW pos \in {"out", "get", "fill", "queue", "link", "schedule"},
           tpc' = [tpc EXCEPT ![w] = pos],
           pos \in {"fill", "queue", "link"} <=> tpc[w] \in {"fill", "queue", "link"}
    PROVE  TxInv'
<1>1. TxTypeOK /\ InHand /\ NoRepeats /\ Apart /\ Agreed
  BY DEF TxInv
<1>2. TxTypeOK'
  BY <1>1 DEF TxTypeOK
<1>3. \A v \in Writers : tpc'[v] = IF v = w THEN pos ELSE tpc[v]
  BY <1>1 DEF TxTypeOK
<1>4. InHand'
  BY <1>1, <1>3 DEF InHand
<1>5. NoRepeats' /\ Apart' /\ Agreed'
  BY <1>1 DEF NoRepeats, Apart, Agreed
<1>. QED
  BY <1>2, <1>4, <1>5 DEF TxInv

\* What an action does to the invariant, and to the nodes that wait.
LEMMA TxInvStep ==
    ASSUME TxInv, [TxNext]_txVars
    PROVE  TxInv' /\ (NotForgotten => NotForgotten')
<1>1. TxTypeOK
  BY DEF TxInv
<1>2. ASSUME NEW w \in Writers, Write(w)
      PROVE  TxInv' /\ (NotForgotten => NotForgotten')
  <2>1. /\ tpc[w] = "out" /\ tpc' = [tpc EXCEPT ![w] = "get"]
        /\ UNCHANGED <<txFree, txUsed, txOwner, txOverwrite, mailboxList, pMsgList, hardware,
                       wnode, wtail, orphans, idle, adrift>>
    BY <1>2 DEF Write, WriterGoes, nodes, boxes
  <2>2. TxInv'
    BY <1>1, <2>1, NoNodeMoves DEF TxTypeOK
  <2>3. tpc'[w] # "out"
    BY <1>1, <2>1 DEF TxTypeOK
  <2>. QED
    BY <2>2, <2>3 DEF NotForgotten
<1>3. ASSUME NEW w \in Writers, GetFree(w)
      PROVE  TxInv' /\ (NotForgotten => NotForgotten')
  <2>1. CASE TxHasNode
    <3>1. tpc'[w] = "fill"
      BY <1>1, <1>3, <2>1 DEF TxTypeOK, GetFree, WriterGoes
    <3>. QED
      BY <1>3, <2>1, <3>1, GetFreeKeeps DEF NotForgotten
  <2>2. CASE ~TxHasNode /\ ~txOverwrite
    <3>1. /\ tpc[w] = "get" /\ tpc' = [tpc EXCEPT ![w] = "schedule"]
          /\ UNCHANGED <<txFree, txUsed, txOwner, txOverwrite, mailboxList, pMsgList,
                         hardware, wnode, wtail, orphans, idle, adrift>>
      BY <1>3, <2>2 DEF GetFree, WriterGoes, boxes
    <3>2. TxInv'
      BY <1>1, <3>1, NoNodeMoves DEF TxTypeOK
    <3>3. tpc'[w] # "out"
      BY <1>1, <3>1 DEF TxTypeOK
    <3>. QED
      BY <3>2, <3>3 DEF NotForgotten
  <2>3. CASE ~TxHasNode /\ txOverwrite
    <3>1. /\ tpc[w] = "get" /\ tpc' = [tpc EXCEPT ![w] = "get"] /\ adrift' = TRUE
          /\ UNCHANGED <<txFree, txUsed, txOwner, txOverwrite, mailboxList, pMsgList,
                         hardware, wnode, wtail, orphans, idle>>
      BY <1>1, <1>3, <2>3 DEF TxTypeOK, GetFree, boxes, writing
    <3>2. TxInv'
      BY <1>1, <3>1, NoNodeMoves DEF TxTypeOK
    <3>3. tpc'[w] # "out"
      BY <1>1, <3>1 DEF TxTypeOK
    <3>. QED
      BY <3>2, <3>3 DEF NotForgotten
  <2>. QED
    BY <2>1, <2>2, <2>3
<1>4. ASSUME NEW w \in Writers, Fill(w)
      PROVE  TxInv' /\ (NotForgotten => NotForgotten')
  <2>1. /\ tpc[w] = "fill"
        /\ UNCHANGED <<txFree, txUsed, txOwner, txOverwrite, mailboxList, pMsgList, hardware,
                       wnode, orphans, idle, adrift>>
    BY <1>4 DEF Fill, nodes, boxes
  <2>2. TxTailOf(txFree) \in TxNodes \cup {NoTxNode}
    <3>1. txFree \in Seq(TxNodes)
      BY <1>1 DEF TxTypeOK
    <3>2. txFree # << >> => Len(txFree) \in DOMAIN txFree /\ Last(txFree) = txFree[Len(txFree)]
      BY <3>1 DEF Last
    <3>. QED
      BY <3>1, <3>2 DEF TxTailOf
  <2>3. wtail' \in [Writers -> TxNodes \cup {NoTxNode}]
    BY <1>1, <1>4, <2>2 DEF TxTypeOK, Fill
  <2>4. PICK pos \in {"queue", "link"} : tpc' = [tpc EXCEPT ![w] = pos]
    BY <1>4 DEF Fill, WriterGoes
  <2>5. TxInv'
    BY <1>1, <2>1, <2>3, <2>4, NoNodeMoves DEF TxTypeOK
  <2>6. tpc'[w] # "out"
    BY <1>1, <2>4 DEF TxTypeOK
  <2>. QED
    BY <2>5, <2>6 DEF NotForgotten
<1>5. ASSUME NEW w \in Writers, TxLinkFree(w)
      PROVE  TxInv' /\ (NotForgotten => NotForgotten')
  <2>1. tpc[w] = "link"
    BY <1>5 DEF TxLinkFree
  <2>2. CASE wtail[w] = TxTailOf(txFree)
    <3>1. tpc'[w] # "out"
      BY <1>1, <1>5, <2>2 DEF TxTypeOK, TxLinkFree, NextMessage, WriterGoes
    <3>. QED
      BY <1>5, <2>2, <3>1, TxLinkFreeKeeps DEF NotForgotten
  <2>3. CASE wtail[w] # TxTailOf(txFree)
    <3>1. /\ tpc' = [tpc EXCEPT ![w] = "link"] /\ adrift' = TRUE
          /\ UNCHANGED <<txFree, txUsed, txOwner, txOverwrite, mailboxList, pMsgList,
                         hardware, wnode, wtail, orphans, idle>>
      BY <1>1, <1>5, <2>1, <2>3 DEF TxTypeOK, TxLinkFree, boxes, writing
    <3>2. TxInv'
      BY <1>1, <2>1, <3>1, NoNodeMoves DEF TxTypeOK
    <3>3. tpc'[w] # "out"
      BY <1>1, <3>1 DEF TxTypeOK
    <3>. QED
      BY <3>2, <3>3 DEF NotForgotten
  <2>. QED
    BY <2>2, <2>3
<1>6. ASSUME NEW w \in Writers, Queue(w)
      PROVE  TxInv' /\ (NotForgotten => NotForgotten')
  <2>1. tpc'[w] # "out"
    BY <1>1, <1>6 DEF TxTypeOK, Queue, NextMessage, WriterGoes
  <2>. QED
    BY <1>6, <2>1, QueueKeeps DEF NotForgotten
<1>7. ASSUME NEW w \in Writers, Schedule(w)
      PROVE  TxInv' /\ (NotForgotten => NotForgotten')
  <2>1. TxInv' /\ (~idle' => txUsed' = << >> \/ mailboxList' = {})
    BY ONLY <1>7, TxInv, ScheduleKeeps
  <2>. QED
    BY <2>1 DEF NotForgotten
<1>8. ASSUME WriteFromIsr
      PROVE  TxInv' /\ (NotForgotten => NotForgotten')
  BY <1>8, WriteFromIsrKeeps DEF NotForgotten, WriteFromIsr
<1>9. ASSUME NEW m \in Mailboxes, HardwareEnds(m)
      PROVE  TxInv' /\ (NotForgotten => NotForgotten')
  <2>1. PICK how \in {"sent", "failed"} : hardware' = [hardware EXCEPT ![m] = how]
    BY <1>9 DEF HardwareEnds
  <2>2. /\ hardware[m] = "sending"
        /\ UNCHANGED <<txFree, txUsed, txOwner, txOverwrite, mailboxList, pMsgList, tpc, wnode,
                       wtail, orphans, idle, adrift>>
    BY <1>9 DEF HardwareEnds, nodes, writing
  <2>3. \A k \in Mailboxes : hardware'[k] = IF k = m THEN how ELSE hardware[k]
    BY <1>1, <2>1 DEF TxTypeOK
  <2>4. TxTypeOK'
    BY <1>1, <2>1, <2>2 DEF TxTypeOK
  <2>5. InHand' /\ NoRepeats' /\ Apart'
    BY <2>2 DEF TxInv, InHand, NoRepeats, Apart
  <2>6. Agreed'
    BY <2>2, <2>3 DEF TxInv, Agreed, Agree
  <2>7. NotForgotten'
    BY <2>3 DEF NotForgotten
  <2>. QED
    BY <2>4, <2>5, <2>6, <2>7 DEF TxInv
<1>10. ASSUME NEW m \in Mailboxes, TxDone(m)
       PROVE  TxInv' /\ (NotForgotten => NotForgotten')
  <2>1. TxInv' /\ (~idle' => txUsed' = << >> \/ mailboxList' = {})
    BY ONLY <1>10, TxInv, DoneKeeps
  <2>. QED
    BY <2>1 DEF NotForgotten
<1>11. ASSUME NEW m \in Mailboxes, Retransmit(m)
       PROVE  TxInv' /\ (NotForgotten => NotForgotten')
  <2>1. TxInv' /\ (~idle' => txUsed' = << >> \/ mailboxList' = {})
    BY ONLY <1>11, TxInv, RetransmitKeeps
  <2>. QED
    BY <2>1 DEF NotForgotten
<1>12. ASSUME UNCHANGED txVars
       PROVE  TxInv' /\ (NotForgotten => NotForgotten')
  BY <1>12 DEF TxInv, TxTypeOK, InHand, NoRepeats, Apart, Agreed, NotForgotten, txVars, nodes,
     boxes, writing
<1>. QED
  BY <1>2, <1>3, <1>4, <1>5, <1>6, <1>7, <1>8, <1>9, <1>10, <1>11, <1>12
     DEF TxNext, Writer, Mailbox

\* The invariant says of every node that it is in one place.
LEMMA TxInvPlaces == TxInv => TxNodesPlaced
<1> SUFFICES ASSUME TxInv PROVE TxNodesPlaced
  OBVIOUS
<1>1. /\ Placed(ToSet(txFree), ToSet(txUsed), pMsgList, wnode, orphans) /\ NoRepeats
      /\ Agree(mailboxList, pMsgList, txOwner, hardware,
               ToSet(txFree) \cup ToSet(txUsed) \cup Hands(wnode))
  BY DEF TxInv, Apart, Agreed
<1>2. MailboxesAgree
  BY <1>1 DEF Agree, MailboxesAgree
<1>3. \A n \in TxNodes : Cardinality(Places(n)) = 1
  <2> TAKE n \in TxNodes
  <2>1. n # NoTxNode
    BY CanTxAssumption
  <2>2. \E x : Places(n) = {x}
    <3>1. CASE n \in ToSet(txFree)
      <4>1. Places(n) = {"free"}
        BY <1>1, <3>1 DEF Places, Placed
      <4>. QED
        BY <4>1
    <3>2. CASE n \in ToSet(txUsed)
      <4>1. Places(n) = {"used"}
        BY <1>1, <3>2 DEF Places, Placed
      <4>. QED
        BY <4>1
    <3>3. CASE n \in orphans
      <4>1. Places(n) = {"orphan"}
        BY <1>1, <3>3 DEF Places, Placed
      <4>. QED
        BY <4>1
    <3>4. ASSUME NEW m \in Mailboxes, pMsgList[m] = n PROVE Places(n) = {m}
      BY <1>1, <2>1, <3>4 DEF Places, Placed
    <3>5. ASSUME NEW w \in Writers, wnode[w] = n PROVE Places(n) = {w}
      BY <1>1, <2>1, <3>5 DEF Places, Placed
    <3>. QED
      BY <1>1, <3>1, <3>2, <3>3, <3>4, <3>5 DEF Placed
  <2>. QED
    BY <2>2, FS_Singleton
<1>. QED
  BY <1>1, <1>2, <1>3 DEF TxNodesPlaced, OnePlace, NoRepeats

\* The lists, the mailboxes and the writers never have a node twice, and a node that
\* waits has somebody who will look at it.
THEOREM TxInvariance == TxSpec => [](TxInv /\ NotForgotten)
<1>1. TxInit => TxInv /\ NotForgotten
  BY TxInvInit DEF TxInit, NotForgotten
<1>2. TxInv /\ NotForgotten /\ [TxNext]_txVars => TxInv' /\ NotForgotten'
  BY TxInvStep
<1>. QED
  BY <1>1, <1>2, PTL DEF TxSpec

\* Type correctness of the transmit half of the CAN driver.
THEOREM TxTypeCorrect == TxSpec => []TxTypeOK
<1>1. TxInv => TxTypeOK
  BY DEF TxInv
<1>. QED
  BY <1>1, TxInvariance, PTL

\* Every message node is in one place, and lists, mailboxes, owners and hardware
\* agree (hal_can_core.c, lines 486 to 667 and 810 to 967).
THEOREM TxNodesPlacedHolds == TxSpec => []TxNodesPlaced
BY TxInvPlaces, TxInvariance, PTL

\* With a mailbox listed and a message queued somebody is on the way to the
\* scheduler, but for the two cases `idle` names.
THEOREM NotForgottenHolds == TxSpec => []NotForgotten
BY TxInvariance, PTL

-----------------------------------------------------------------------------
(* The receive half: the invariant. *)

\* The steps of the allocating thread: of its slot, and of the bank of the slot.
FilterSteps ==
    /\ fpc \in {"enable", "publish", "release"} => fslot \in Mapped \ isActived
    /\ fpc \in {"reset", "disable", "clear"} => fslot \in isActived
    /\ fpc \in {"enable", "clear", "release"} => slotToHwBank[fslot] \notin hwBanks

\* A reader has a filter during the call, and a node from the take to the link.
ReaderSteps ==
    \A r \in Readers :
        /\ rslot[r] \in Slots <=> rpc[r] # "out"
        /\ rnode[r] # NoNode <=> rpc[r] \in {"copy", "link"}

RxNoRepeats == IsInjective(rxFree) /\ IsInjective(rxUsed)

\* Every node of N is in one place, and no other node: F are the free nodes, U the
\* used ones, L the lost ones, `hand` those of the readers.
InOnePlace(N, F, U, L, hand) ==
    /\ F \subseteq N /\ U \subseteq N /\ L \subseteq N
    /\ \A r \in Readers : hand[r] \in N \cup {NoNode}
    /\ \A n \in N : n \in F \/ n \in U \/ n \in L \/ \E r \in Readers : hand[r] = n
    /\ \A n \in F : n \notin U /\ n \notin L
    /\ \A n \in U : n \notin L
    /\ \A r \in Readers : hand[r] \notin F /\ hand[r] \notin U /\ hand[r] \notin L
    /\ \A q, r \in Readers : hand[q] = hand[r] /\ hand[q] # NoNode => q = r

RxApart == InOnePlace(Nodes, ToSet(rxFree), ToSet(rxUsed), lost, rnode)

\* ListsAgree, for any values of the variables; and a stranded node waits in the used
\* list, for a filter that lost count.
Accounted(used, matched, count, own, gone, mis) ==
    /\ \A s \in Slots :
         /\ IsInjective(matched[s])
         /\ ToSet(matched[s]) = {n \in ToSet(used) : own[n] = s /\ n \notin gone}
         /\ SameOrder(matched[s], used)
         /\ s \notin mis => count[s] = Len(matched[s])
    /\ gone \subseteq ToSet(used) /\ \A n \in gone : own[n] \in mis

RxAccounted == Accounted(rxUsed, msgMatched, msgCount, rxOwner, stranded, miscounted)

RxInv == RxTypeOK /\ FilterSteps /\ ReaderSteps /\ RxNoRepeats /\ RxApart /\ RxAccounted

\* Two readers at one filter are noticed.
Apiece ==
    ~shared => \A q, r \in Readers : rslot[q] = rslot[r] /\ rslot[q] \in Slots => q = r

-----------------------------------------------------------------------------
(* What the lists of a filter are after a node left or entered them. *)

LEMMA NodeLeaves ==
    ASSUME NEW used \in Seq(Nodes), IsInjective(used), NEW matched,
           \A s \in Slots : matched[s] \in Seq(Nodes),
           NEW count \in [Slots -> Int], NEW own \in [Nodes -> Slots \cup {NoSlot}],
           NEW gone, NEW mis, Accounted(used, matched, count, own, gone, mis),
           NEW x \in Nodes
    PROVE  Accounted(Without(used, x), [s \in Slots |-> Without(matched[s], x)],
                     [s \in Slots |->
                         count[s] - (IF x \in ToSet(used) /\ own[x] = s THEN 1 ELSE 0)],
                     [own EXCEPT ![x] = NoSlot], gone \ {x}, mis)
<1> DEFINE left == [s \in Slots |-> Without(matched[s], x)]
           counts == [s \in Slots |->
                         count[s] - (IF x \in ToSet(used) /\ own[x] = s THEN 1 ELSE 0)]
           owns == [own EXCEPT ![x] = NoSlot]
<1>1. /\ Without(used, x) \in Seq(Nodes) /\ ToSet(Without(used, x)) = ToSet(used) \ {x}
      /\ Within(Without(used, x), used)
  BY WithoutList
<1>2. \A n \in Nodes : n # x => owns[n] = own[n]
  OBVIOUS
<1>3. ToSet(used) \subseteq Nodes
  BY DEF ToSet
<1>4. gone \subseteq ToSet(used) /\ \A n \in gone : own[n] \in mis
  BY DEF Accounted
<1>5. gone \ {x} \subseteq ToSet(Without(used, x)) /\ \A n \in gone \ {x} : owns[n] \in mis
  BY <1>1, <1>2, <1>3, <1>4
<1>6. ASSUME NEW s \in Slots
      PROVE  /\ IsInjective(left[s])
             /\ ToSet(left[s]) =
                    {n \in ToSet(Without(used, x)) : owns[n] = s /\ n \notin gone \ {x}}
             /\ SameOrder(left[s], Without(used, x))
             /\ s \notin mis => counts[s] = Len(left[s])
  <2>1. /\ matched[s] \in Seq(Nodes) /\ IsInjective(matched[s])
        /\ ToSet(matched[s]) = {n \in ToSet(used) : own[n] = s /\ n \notin gone}
        /\ SameOrder(matched[s], used)
        /\ s \notin mis => count[s] = Len(matched[s])
    BY DEF Accounted
  <2>2. PICK l : l = Without(matched[s], x)
    OBVIOUS
  <2>3. /\ IsInjective(l) /\ ToSet(l) = ToSet(matched[s]) \ {x}
        /\ Len(l) = IF x \in ToSet(matched[s]) THEN Len(matched[s]) - 1 ELSE Len(matched[s])
        /\ Within(l, matched[s])
    BY <2>1, <2>2, WithoutList
  <2>4. left[s] = l
    BY <2>2
  <2>5. ToSet(l) = {n \in ToSet(Without(used, x)) : owns[n] = s /\ n \notin gone \ {x}}
    BY <1>1, <1>2, <1>3, <2>1, <2>3
  <2>6. SameOrder(l, Without(used, x))
    BY <1>1, <2>1, <2>3, WithinOrder
  <2>7. ASSUME s \notin mis PROVE counts[s] = Len(l)
    <3>1. x \in ToSet(matched[s]) <=> x \in ToSet(used) /\ own[x] = s
      BY <1>4, <2>1, <2>7
    <3>2. Len(matched[s]) \in Nat
      BY <2>1
    <3>. QED
      BY <2>1, <2>3, <2>7, <3>1, <3>2
  <2>. QED
    BY <2>3, <2>4, <2>5, <2>6, <2>7
<1> HIDE DEF left, counts, owns
<1>7. Accounted(Without(used, x), left, counts, owns, gone \ {x}, mis)
  BY <1>5, <1>6 DEF Accounted
<1>. QED
  BY <1>7 DEF left, counts, owns

LEMMA NodeArrives ==
    ASSUME NEW used \in Seq(Nodes), IsInjective(used), NEW matched,
           \A s \in Slots : matched[s] \in Seq(Nodes),
           NEW count, NEW own, NEW gone, NEW mis,
           Accounted(used, matched, count, own, gone, mis),
           NEW x \in Nodes, x \notin ToSet(used), NEW t \in Slots,
           NEW fuller, NEW counts, NEW owns,
           fuller[t] = Append(matched[t], x), counts[t] = count[t] + 1, owns[x] = t,
           \A s \in Slots : s # t => fuller[s] = matched[s] /\ counts[s] = count[s],
           \A n \in Nodes : n # x => owns[n] = own[n]
    PROVE  Accounted(Append(used, x), fuller, counts, owns, gone, mis)
<1>1. ToSet(Append(used, x)) = ToSet(used) \cup {x}
  BY AppendList
<1>3. ToSet(used) \subseteq Nodes
  BY DEF ToSet
<1>4. gone \subseteq ToSet(used) /\ \A n \in gone : own[n] \in mis
  BY DEF Accounted
<1>5. gone \subseteq ToSet(Append(used, x)) /\ \A n \in gone : owns[n] \in mis
  BY <1>1, <1>3, <1>4
<1>6. ASSUME NEW s \in Slots
      PROVE  /\ IsInjective(fuller[s])
             /\ ToSet(fuller[s]) =
                    {n \in ToSet(Append(used, x)) : owns[n] = s /\ n \notin gone}
             /\ SameOrder(fuller[s], Append(used, x))
             /\ s \notin mis => counts[s] = Len(fuller[s])
  <2>1. /\ matched[s] \in Seq(Nodes) /\ IsInjective(matched[s])
        /\ ToSet(matched[s]) = {n \in ToSet(used) : own[n] = s /\ n \notin gone}
        /\ SameOrder(matched[s], used)
        /\ s \notin mis => count[s] = Len(matched[s])
    BY DEF Accounted
  <2>2. x \notin ToSet(matched[s]) /\ x \notin gone
    BY <1>4, <2>1
  <2>3. SameOrder(Append(matched[s], x), Append(used, x)) /\ SameOrder(matched[s], Append(used, x))
    BY <2>1, <2>2, AppendOrder
  <2>4. CASE s = t
    <3>1. fuller[s] = Append(matched[s], x) /\ counts[s] = count[s] + 1
      BY <2>4
    <3>2. /\ IsInjective(Append(matched[s], x))
          /\ ToSet(Append(matched[s], x)) = ToSet(matched[s]) \cup {x}
      BY <2>1, <2>2, AppendList
    <3>3. Len(Append(matched[s], x)) = Len(matched[s]) + 1
      BY <2>1
    <3>4. ToSet(matched[s]) \cup {x} =
              {n \in ToSet(Append(used, x)) : owns[n] = s /\ n \notin gone}
      BY <1>1, <1>3, <2>1, <2>2, <2>4
    <3>. QED
      BY <2>1, <2>3, <3>1, <3>2, <3>3, <3>4
  <2>5. CASE s # t
    <3>1. fuller[s] = matched[s] /\ counts[s] = count[s]
      BY <2>5
    <3>2. ToSet(matched[s]) = {n \in ToSet(Append(used, x)) : owns[n] = s /\ n \notin gone}
      BY <1>1, <1>3, <2>1, <2>2, <2>5
    <3>. QED
      BY <2>1, <2>3, <3>1, <3>2
  <2>. QED
    BY <2>4, <2>5
<1>. QED
  BY <1>5, <1>6 DEF Accounted

-----------------------------------------------------------------------------
(* Where the nodes are after one left its place, and after it came to another. *)

LEMMA NodeGone ==
    ASSUME NEW F, NEW U, NEW L, NEW hand \in [Readers -> Nodes \cup {NoNode}],
           InOnePlace(Nodes, F, U, L, hand), NEW x \in Nodes
    PROVE  /\ x \in F => InOnePlace(Nodes \ {x}, F \ {x}, U, L, hand)
           /\ x \in U => InOnePlace(Nodes \ {x}, F, U \ {x}, L, hand)
           /\ \A r \in Readers :
                hand[r] = x => InOnePlace(Nodes \ {x}, F, U, L, [hand EXCEPT ![r] = NoNode])
<1>1. x # NoNode /\ NoNode \notin Nodes
  BY CanRxAssumption
<1>2. ASSUME x \in F PROVE InOnePlace(Nodes \ {x}, F \ {x}, U, L, hand)
  BY <1>1, <1>2 DEF InOnePlace
<1>3. ASSUME x \in U PROVE InOnePlace(Nodes \ {x}, F, U \ {x}, L, hand)
  BY <1>1, <1>3 DEF InOnePlace
<1>4. ASSUME NEW r \in Readers, hand[r] = x
      PROVE  InOnePlace(Nodes \ {x}, F, U, L, [hand EXCEPT ![r] = NoNode])
  <2> DEFINE left == [hand EXCEPT ![r] = NoNode]
  <2>1. left[r] = NoNode /\ \A q \in Readers : q # r => left[q] = hand[q] /\ hand[q] # x
    BY <1>1, <1>4 DEF InOnePlace
  <2> HIDE DEF left
  <2>2. /\ F \subseteq Nodes \ {x} /\ U \subseteq Nodes \ {x} /\ L \subseteq Nodes \ {x}
        /\ \A q \in Readers : left[q] \in (Nodes \ {x}) \cup {NoNode}
    <3>1. x \notin F /\ x \notin U /\ x \notin L
      BY <1>4 DEF InOnePlace
    <3>2. F \subseteq Nodes /\ U \subseteq Nodes /\ L \subseteq Nodes
      BY DEF InOnePlace
    <3>3. \A q \in Readers : left[q] \in (Nodes \ {x}) \cup {NoNode}
      BY <2>1
    <3>. QED
      BY <3>1, <3>2, <3>3
  <2>3. \A n \in Nodes \ {x} : n \in F \/ n \in U \/ n \in L \/ \E q \in Readers : left[q] = n
    BY <1>1, <1>4, <2>1 DEF InOnePlace
  <2>4. \A q \in Readers : left[q] \notin F /\ left[q] \notin U /\ left[q] \notin L
    BY <1>1, <2>1 DEF InOnePlace
  <2>5. \A p, q \in Readers : left[p] = left[q] /\ left[p] # NoNode => p = q
    BY <2>1 DEF InOnePlace
  <2>6. InOnePlace(Nodes \ {x}, F, U, L, left)
    BY <2>2, <2>3, <2>4, <2>5 DEF InOnePlace
  <2>. QED
    BY <2>6 DEF left
<1>. QED
  BY <1>2, <1>3, <1>4

LEMMA NodeComes ==
    ASSUME NEW F, NEW U, NEW L, NEW hand \in [Readers -> Nodes \cup {NoNode}],
           NEW x \in Nodes, InOnePlace(Nodes \ {x}, F, U, L, hand)
    PROVE  /\ InOnePlace(Nodes, F \cup {x}, U, L, hand)
           /\ InOnePlace(Nodes, F, U \cup {x}, L, hand)
           /\ InOnePlace(Nodes, F, U, L \cup {x}, hand)
           /\ \A r \in Readers :
                hand[r] = NoNode => InOnePlace(Nodes, F, U, L, [hand EXCEPT ![r] = x])
<1>1. x # NoNode /\ NoNode \notin Nodes
  BY CanRxAssumption
<1>2. /\ InOnePlace(Nodes, F \cup {x}, U, L, hand) /\ InOnePlace(Nodes, F, U \cup {x}, L, hand)
      /\ InOnePlace(Nodes, F, U, L \cup {x}, hand)
  BY <1>1 DEF InOnePlace
<1>4. ASSUME NEW r \in Readers, hand[r] = NoNode
      PROVE  InOnePlace(Nodes, F, U, L, [hand EXCEPT ![r] = x])
  <2> DEFINE more == [hand EXCEPT ![r] = x]
  <2>1. more[r] = x /\ \A q \in Readers : q # r => more[q] = hand[q] /\ hand[q] # x
    BY <1>1 DEF InOnePlace
  <2> HIDE DEF more
  <2>2. /\ F \subseteq Nodes /\ U \subseteq Nodes /\ L \subseteq Nodes
        /\ \A q \in Readers : more[q] \in Nodes \cup {NoNode}
    BY <2>1 DEF InOnePlace
  <2>3. \A n \in Nodes : n \in F \/ n \in U \/ n \in L \/ \E q \in Readers : more[q] = n
    BY <1>1, <1>4, <2>1 DEF InOnePlace
  <2>4. \A q \in Readers : more[q] \notin F /\ more[q] \notin U /\ more[q] \notin L
    BY <1>1, <2>1 DEF InOnePlace
  <2>5. \A p, q \in Readers : more[p] = more[q] /\ more[p] # NoNode => p = q
    BY <2>1 DEF InOnePlace
  <2>6. InOnePlace(Nodes, F, U, L, more)
    BY <2>2, <2>3, <2>4, <2>5 DEF InOnePlace
  <2>. QED
    BY <2>6 DEF more
<1>. QED
  BY <1>2, <1>4

\* What canrx_get_free_msg_list leaves.
LEMMA GotLeaves ==
    ASSUME RxInv, HasNode
    PROVE  /\ Got \in Nodes
           /\ FreeLeft \in Seq(Nodes) /\ IsInjective(FreeLeft) /\ Got \notin ToSet(FreeLeft)
           /\ UsedLeft \in Seq(Nodes) /\ IsInjective(UsedLeft) /\ Got \notin ToSet(UsedLeft)
           /\ InOnePlace(Nodes \ {Got}, ToSet(FreeLeft), ToSet(UsedLeft), lost, rnode)
           /\ \A s \in Slots : MatchedLeft(s) \in Seq(Nodes) /\ CountLeft(s) \in Int
           /\ Accounted(UsedLeft, [s \in Slots |-> MatchedLeft(s)],
                        [s \in Slots |-> CountLeft(s)], [rxOwner EXCEPT ![Got] = NoSlot],
                        stranded \ {Got}, miscounted)
           /\ rxFree # << >> => \A s \in Slots : MatchedLeft(s) = msgMatched[s]
<1>1. /\ rxFree \in Seq(Nodes) /\ rxUsed \in Seq(Nodes) /\ IsInjective(rxFree)
      /\ IsInjective(rxUsed) /\ rnode \in [Readers -> Nodes \cup {NoNode}]
      /\ InOnePlace(Nodes, ToSet(rxFree), ToSet(rxUsed), lost, rnode)
      /\ \A s \in Slots : msgMatched[s] \in Seq(Nodes)
      /\ msgCount \in [Slots -> Int] /\ rxOwner \in [Nodes -> Slots \cup {NoSlot}]
      /\ Accounted(rxUsed, msgMatched, msgCount, rxOwner, stranded, miscounted)
  BY DEF RxInv, RxTypeOK, RxNoRepeats, RxApart, RxAccounted
<1>2. /\ Got \in Nodes /\ (rxFree = << >> <=> Got \in ToSet(rxUsed))
      /\ FreeLeft \in Seq(Nodes) /\ IsInjective(FreeLeft) /\ Got \notin ToSet(FreeLeft)
      /\ UsedLeft = Without(rxUsed, Got)
      /\ InOnePlace(Nodes \ {Got}, ToSet(FreeLeft), ToSet(UsedLeft), lost, rnode)
  <2>1. CASE rxFree # << >>
    <3>1. Got = Head(rxFree) /\ FreeLeft = Tail(rxFree) /\ UsedLeft = rxUsed
      BY <2>1 DEF Got, FreeLeft, UsedLeft
    <3>2. /\ Tail(rxFree) \in Seq(Nodes) /\ IsInjective(Tail(rxFree))
          /\ Head(rxFree) \in Nodes /\ Head(rxFree) \in ToSet(rxFree)
          /\ ToSet(Tail(rxFree)) = ToSet(rxFree) \ {Head(rxFree)}
      BY <1>1, <2>1, TailList
    <3>3. Got \in Nodes /\ Got \in ToSet(rxFree) /\ ToSet(FreeLeft) = ToSet(rxFree) \ {Got}
      BY <3>1, <3>2
    <3>4. Got \notin ToSet(rxUsed)
      BY <1>1, <3>3 DEF InOnePlace
    <3>5. UsedLeft = Without(rxUsed, Got)
      BY <1>1, <3>1, <3>4, WithoutList
    <3>6. InOnePlace(Nodes \ {Got}, ToSet(rxFree) \ {Got}, ToSet(rxUsed), lost, rnode)
      BY <1>1, <3>3, NodeGone
    <3>. QED
      BY <2>1, <3>1, <3>2, <3>3, <3>4, <3>5, <3>6
  <2>2. CASE rxFree = << >>
    <3>1. Got = Head(rxUsed) /\ FreeLeft = << >> /\ UsedLeft = Tail(rxUsed) /\ rxUsed # << >>
      BY <2>2 DEF Got, FreeLeft, UsedLeft, HasNode
    <3>2. /\ Head(rxUsed) \in Nodes /\ Head(rxUsed) \in ToSet(rxUsed)
          /\ ToSet(Tail(rxUsed)) = ToSet(rxUsed) \ {Head(rxUsed)}
          /\ Tail(rxUsed) = Without(rxUsed, Head(rxUsed))
      BY <1>1, <3>1, TailList, TailWithout
    <3>3. Got \in Nodes /\ Got \in ToSet(rxUsed) /\ ToSet(UsedLeft) = ToSet(rxUsed) \ {Got}
      BY <3>1, <3>2
    <3>4. FreeLeft \in Seq(Nodes) /\ IsInjective(FreeLeft) /\ ToSet(FreeLeft) = {}
      BY <3>1 DEF IsInjective, ToSet
    <3>5. InOnePlace(Nodes \ {Got}, ToSet(rxFree), ToSet(rxUsed) \ {Got}, lost, rnode)
      BY <1>1, <3>3, NodeGone
    <3>6. FreeLeft = rxFree
      BY <2>2, <3>1
    <3>. QED
      BY <2>2, <3>1, <3>2, <3>3, <3>4, <3>5, <3>6
  <2>. QED
    BY <2>1, <2>2
<1>3. /\ UsedLeft \in Seq(Nodes) /\ IsInjective(UsedLeft)
      /\ ToSet(UsedLeft) = ToSet(rxUsed) \ {Got}
  BY <1>1, <1>2, WithoutList
<1>4. \A s \in Slots : IsInjective(msgMatched[s])
  BY <1>1 DEF Accounted
<1>5. \A s \in Slots : MatchedLeft(s) = Without(msgMatched[s], Got)
  <2> TAKE s \in Slots
  <2>1. CASE rxOwner[Got] = s
    BY <2>1 DEF MatchedLeft
  <2>2. CASE rxOwner[Got] # s
    <3>1. Got \notin ToSet(msgMatched[s])
      BY <1>1, <2>2 DEF Accounted
    <3>2. Without(msgMatched[s], Got) = msgMatched[s]
      BY <1>1, <1>4, <3>1, WithoutList
    <3>. QED
      BY <2>2, <3>2 DEF MatchedLeft
  <2>. QED
    BY <2>1, <2>2
<1>6. \A s \in Slots : MatchedLeft(s) \in Seq(Nodes)
  <2> TAKE s \in Slots
  <2>1. Without(msgMatched[s], Got) \in Seq(Nodes)
    BY <1>1, <1>4, WithoutList
  <2>. QED
    BY <1>5, <2>1
<1>7. \A s \in Slots : CountLeft(s) =
        msgCount[s] - (IF Got \in ToSet(rxUsed) /\ rxOwner[Got] = s THEN 1 ELSE 0)
  BY <1>2 DEF CountLeft
<1>8. \A s \in Slots : CountLeft(s) \in Int
  BY <1>1, <1>7
<1>9. Accounted(Without(rxUsed, Got), [s \in Slots |-> Without(msgMatched[s], Got)],
                [s \in Slots |-> msgCount[s]
                     - (IF Got \in ToSet(rxUsed) /\ rxOwner[Got] = s THEN 1 ELSE 0)],
                [rxOwner EXCEPT ![Got] = NoSlot], stranded \ {Got}, miscounted)
  <2>1. Got \in Nodes
    BY <1>2
  <2>2. ASSUME NEW x \in Nodes
        PROVE  Accounted(Without(rxUsed, x), [s \in Slots |-> Without(msgMatched[s], x)],
                         [s \in Slots |-> msgCount[s]
                              - (IF x \in ToSet(rxUsed) /\ rxOwner[x] = s THEN 1 ELSE 0)],
                         [rxOwner EXCEPT ![x] = NoSlot], stranded \ {x}, miscounted)
    BY <1>1, NodeLeaves
  <2>. QED
    BY <2>1, <2>2
<1>10. /\ [s \in Slots |-> MatchedLeft(s)] = [s \in Slots |-> Without(msgMatched[s], Got)]
       /\ [s \in Slots |-> CountLeft(s)] = [s \in Slots |-> msgCount[s]
              - (IF Got \in ToSet(rxUsed) /\ rxOwner[Got] = s THEN 1 ELSE 0)]
  BY <1>5, <1>7
<1>11. ASSUME rxFree # << >>, NEW s \in Slots PROVE MatchedLeft(s) = msgMatched[s]
  <2>1. Got \notin ToSet(msgMatched[s])
    BY <1>1, <1>2, <1>11 DEF Accounted
  <2>. QED
    BY <1>1, <1>5, <1>4, <2>1, WithoutList
<1>12. Accounted(UsedLeft, [s \in Slots |-> MatchedLeft(s)], [s \in Slots |-> CountLeft(s)],
                 [rxOwner EXCEPT ![Got] = NoSlot], stranded \ {Got}, miscounted)
  BY <1>2, <1>9, <1>10, Zenon
<1>. QED
  BY <1>2, <1>3, <1>6, <1>8, <1>11, <1>12

-----------------------------------------------------------------------------
(* The steps of the allocating thread. *)

\* The conjuncts of RxTypeOK about the filters.
FilterTypes ==
    /\ isActived \subseteq Mapped
    /\ slotToHwBank \in [Slots -> Banks \cup {NoSlot}]
    /\ \A s, t \in Mapped : slotToHwBank[s] = slotToHwBank[t] => s = t
    /\ hwBanks \subseteq {slotToHwBank[s] : s \in Mapped}
    /\ fpc \in {"out", "enable", "publish", "reset", "disable", "clear", "release"}
    /\ fslot \in Slots \cup {NoSlot}

LEMMA TypesOfFilters == RxTypeOK => FilterTypes
BY DEF RxTypeOK, FilterTypes

\* A step that leaves the nodes where they are.
LEMMA NodesStay ==
    ASSUME RxInv, UNCHANGED <<rxFree, rxUsed, msgMatched, msgCount, rxOwner, rnode, lost,
                              stranded, miscounted>>
    PROVE  RxNoRepeats' /\ RxApart' /\ RxAccounted'
BY DEF RxInv, RxNoRepeats, RxApart, RxAccounted

LEMMA FilterStep ==
    ASSUME RxInv, UNCHANGED <<lists, rxOverwrite, reading, past>>, FilterTypes', FilterSteps'
    PROVE  RxInv' /\ (Apiece /\ SeenIsThere => Apiece' /\ SeenIsThere')
<1>1. UNCHANGED <<rxFree, rxUsed, msgMatched, msgCount, rxOwner, rxOverwrite, rpc, rslot, rnode,
                  rtail, lost, stranded, miscounted, shared, derailed>>
  BY DEF lists, reading, past
<1>2. RxTypeOK'
  BY <1>1 DEF RxInv, RxTypeOK, FilterTypes
<1>3. ReaderSteps'
  BY <1>1 DEF RxInv, ReaderSteps
<1>4. RxNoRepeats' /\ RxApart' /\ RxAccounted'
  BY <1>1, NodesStay
<1>5. Apiece /\ SeenIsThere => Apiece' /\ SeenIsThere'
  BY <1>1 DEF Apiece, SeenIsThere
<1>. QED
  BY <1>2, <1>3, <1>4, <1>5 DEF RxInv

LEMMA LeastIn ==
    ASSUME NEW S \in SUBSET Nat, S # {}
    PROVE  Least(S) \in S
BY HasLeast DEF Least

LEMMA AllocReserveKeeps ==
    ASSUME RxInv, AllocReserve
    PROVE  RxInv' /\ (Apiece /\ SeenIsThere => Apiece' /\ SeenIsThere')
<1> DEFINE f == Least(Slots \ Mapped)
           banks == Banks \ {slotToHwBank[s] : s \in Mapped}
           b == Least(banks)
<1>1. /\ Mapped # Slots /\ banks # {} /\ fslot' = f /\ fpc' = "enable"
      /\ slotToHwBank' = [slotToHwBank EXCEPT ![f] = b]
      /\ UNCHANGED <<lists, rxOverwrite, isActived, hwBanks, reading, past>>
  BY Zenon DEF AllocReserve
<1>2. FilterTypes
  BY TypesOfFilters DEF RxInv
<1>3. f \in Slots \ Mapped
  <2>1. Slots \ Mapped \in SUBSET Nat /\ Slots \ Mapped # {}
    BY <1>1, CanRxAssumption DEF Slots, Mapped
  <2>. QED
    BY <2>1, LeastIn
<1>4. b \in banks
  <2>1. banks \in SUBSET Nat
    BY CanRxAssumption DEF Banks
  <2>. QED
    BY <1>1, <2>1, LeastIn
<1>5. b \in Banks /\ b # NoSlot /\ \A s \in Mapped : slotToHwBank[s] # b
  BY <1>4, CanRxAssumption DEF Banks
<1> HIDE DEF f, banks, b
<1>6. slotToHwBank'[f] = b /\ \A s \in Slots \ {f} : slotToHwBank'[s] = slotToHwBank[s]
  BY <1>1, <1>2, <1>3 DEF FilterTypes
<1>7. f \in Slots /\ f \notin Mapped /\ Mapped' = Mapped \cup {f}
  BY <1>3, <1>5, <1>6 DEF Mapped
<1>8. \A s \in Mapped : s \in Slots \ {f}
  BY <1>7 DEF Mapped
<1>9. FilterTypes'
  <2>1. isActived' \subseteq Mapped'
    BY <1>1, <1>2, <1>7 DEF FilterTypes
  <2>2. slotToHwBank' \in [Slots -> Banks \cup {NoSlot}]
    BY <1>1, <1>2, <1>5 DEF FilterTypes
  <2>3. \A s, t \in Mapped' : slotToHwBank'[s] = slotToHwBank'[t] => s = t
    BY <1>2, <1>5, <1>6, <1>7, <1>8 DEF FilterTypes
  <2>4. hwBanks' \subseteq {slotToHwBank'[s] : s \in Mapped'}
    BY <1>1, <1>2, <1>6, <1>7, <1>8 DEF FilterTypes
  <2>5. fpc' = "enable" /\ fslot' \in Slots
    BY <1>1, <1>7
  <2>. QED
    BY <2>1, <2>2, <2>3, <2>4, <2>5 DEF FilterTypes
<1>10. FilterSteps'
  <2>1. f \notin isActived' /\ b \notin hwBanks'
    BY <1>1, <1>2, <1>5, <1>7 DEF FilterTypes
  <2>. QED
    BY <1>1, <1>6, <1>7, <2>1 DEF FilterSteps
<1>. QED
  BY <1>1, <1>9, <1>10, FilterStep

\* The reservation is taken back, at the end of an allocation or of a release.
LEMMA SlotReturned ==
    ASSUME RxInv, fslot \in Mapped \ isActived, slotToHwBank[fslot] \notin hwBanks,
           slotToHwBank' = [slotToHwBank EXCEPT ![fslot] = NoSlot],
           fpc' = "out", fslot' = NoSlot,
           UNCHANGED <<lists, rxOverwrite, isActived, hwBanks, reading, past>>
    PROVE  RxInv' /\ (Apiece /\ SeenIsThere => Apiece' /\ SeenIsThere')
<1>1. FilterTypes
  BY TypesOfFilters DEF RxInv
<1>2. /\ fslot \in Slots /\ slotToHwBank'[fslot] = NoSlot
      /\ \A s \in Slots \ {fslot} : slotToHwBank'[s] = slotToHwBank[s]
  BY <1>1 DEF FilterTypes, Mapped
<1>3. Mapped' = Mapped \ {fslot} /\ \A s \in Mapped' : s \in Slots \ {fslot}
  BY <1>2 DEF Mapped
<1>4. FilterTypes'
  <2>1. isActived' \subseteq Mapped'
    BY <1>1, <1>3 DEF FilterTypes
  <2>2. slotToHwBank' \in [Slots -> Banks \cup {NoSlot}]
    BY <1>1 DEF FilterTypes
  <2>3. \A s, t \in Mapped' : slotToHwBank'[s] = slotToHwBank'[t] => s = t
    BY <1>1, <1>2, <1>3 DEF FilterTypes
  <2>4. hwBanks' \subseteq {slotToHwBank'[s] : s \in Mapped'}
    BY <1>1, <1>2, <1>3 DEF FilterTypes
  <2>. QED
    BY <2>1, <2>2, <2>3, <2>4 DEF FilterTypes
<1>5. FilterSteps'
  BY DEF FilterSteps
<1>. QED
  BY <1>4, <1>5, FilterStep

LEMMA AllocEnableKeeps ==
    ASSUME RxInv, AllocEnable
    PROVE  RxInv' /\ (Apiece /\ SeenIsThere => Apiece' /\ SeenIsThere')
<1>1. FilterTypes /\ FilterSteps
  BY TypesOfFilters DEF RxInv
<1>2. fpc = "enable" /\ fslot \in Mapped \ isActived /\ slotToHwBank[fslot] \notin hwBanks
  BY <1>1 DEF AllocEnable, FilterSteps
<1>3. CASE /\ hwBanks' = hwBanks \cup {slotToHwBank[fslot]} /\ fpc' = "publish"
           /\ UNCHANGED <<slotToHwBank, fslot>>
  <2>1. UNCHANGED <<lists, rxOverwrite, isActived, reading, past>> /\ Mapped' = Mapped
    BY <1>3 DEF AllocEnable, Mapped
  <2>2. FilterTypes'
    BY <1>1, <1>2, <1>3, <2>1 DEF FilterTypes
  <2>3. FilterSteps'
    BY <1>2, <1>3, <2>1 DEF FilterSteps
  <2>. QED
    BY <2>1, <2>2, <2>3, FilterStep
<1>4. CASE /\ slotToHwBank' = [slotToHwBank EXCEPT ![fslot] = NoSlot]
           /\ fpc' = "out" /\ fslot' = NoSlot /\ UNCHANGED hwBanks
  <2>1. UNCHANGED <<lists, rxOverwrite, isActived, reading, past>>
    BY DEF AllocEnable
  <2>. QED
    BY <1>2, <1>4, <2>1, SlotReturned
<1>. QED
  BY <1>3, <1>4 DEF AllocEnable

LEMMA FreeReleaseKeeps ==
    ASSUME RxInv, FreeRelease
    PROVE  RxInv' /\ (Apiece /\ SeenIsThere => Apiece' /\ SeenIsThere')
<1>1. fslot \in Mapped \ isActived /\ slotToHwBank[fslot] \notin hwBanks
  BY DEF RxInv, FilterSteps, FreeRelease
<1>. QED
  BY <1>1, SlotReturned DEF FreeRelease

LEMMA AllocPublishKeeps ==
    ASSUME RxInv, AllocPublish
    PROVE  RxInv' /\ (Apiece /\ SeenIsThere => Apiece' /\ SeenIsThere')
<1>1. FilterTypes /\ FilterSteps
  BY TypesOfFilters DEF RxInv
<1>2. /\ fpc = "publish" /\ isActived' = isActived \cup {fslot} /\ fpc' = "reset"
      /\ UNCHANGED <<lists, rxOverwrite, slotToHwBank, hwBanks, fslot, reading, past>>
      /\ Mapped' = Mapped
  BY DEF AllocPublish, Mapped
<1>3. fslot \in Mapped
  BY <1>1, <1>2 DEF FilterSteps
<1>4. FilterTypes'
  BY <1>1, <1>2, <1>3 DEF FilterTypes
<1>5. FilterSteps'
  BY <1>2 DEF FilterSteps
<1>. QED
  BY <1>2, <1>4, <1>5, FilterStep

LEMMA FreeTestKeeps ==
    ASSUME RxInv, NEW s \in Slots, FreeTest(s)
    PROVE  RxInv' /\ (Apiece /\ SeenIsThere => Apiece' /\ SeenIsThere')
<1>1. /\ s \in isActived /\ fpc' = "disable" /\ fslot' = s
      /\ UNCHANGED <<lists, rxOverwrite, isActived, slotToHwBank, hwBanks, reading, past>>
      /\ Mapped' = Mapped
  BY DEF FreeTest, Mapped
<1>2. FilterTypes
  BY TypesOfFilters DEF RxInv
<1>3. FilterTypes' /\ FilterSteps'
  BY <1>1, <1>2 DEF FilterTypes, FilterSteps
<1>. QED
  BY <1>1, <1>3, FilterStep

LEMMA FreeDisableKeeps ==
    ASSUME RxInv, FreeDisable
    PROVE  RxInv' /\ (Apiece /\ SeenIsThere => Apiece' /\ SeenIsThere')
<1>1. FilterTypes /\ FilterSteps
  BY TypesOfFilters DEF RxInv
<1>2. /\ fpc = "disable" /\ Mapped' = Mapped
      /\ UNCHANGED <<lists, rxOverwrite, isActived, slotToHwBank, reading, past>>
      /\ \/ hwBanks' = hwBanks \ {slotToHwBank[fslot]} /\ fpc' = "clear" /\ UNCHANGED fslot
         \/ fpc' = "out" /\ fslot' = NoSlot /\ UNCHANGED hwBanks
  BY DEF FreeDisable, Mapped
<1>3. fslot \in isActived
  BY <1>1, <1>2 DEF FilterSteps
<1>4. FilterTypes' /\ FilterSteps'
  BY <1>1, <1>2, <1>3 DEF FilterTypes, FilterSteps
<1>. QED
  BY <1>2, <1>4, FilterStep

\* The count is cleared whatever the list holds: the slot has lost count.
LEMMA AllocResetKeeps ==
    ASSUME RxInv, AllocReset
    PROVE  RxInv' /\ (Apiece /\ SeenIsThere => Apiece' /\ SeenIsThere')
<1>1. RxTypeOK /\ FilterTypes /\ FilterSteps /\ RxAccounted
  BY TypesOfFilters DEF RxInv
<1>2. /\ fpc = "reset" /\ fpc' = "out" /\ fslot' = NoSlot
      /\ msgCount' = [msgCount EXCEPT ![fslot] = 0]
      /\ miscounted' = IF msgMatched[fslot] # << >> THEN miscounted \cup {fslot} ELSE miscounted
      /\ UNCHANGED <<rxFree, rxUsed, msgMatched, rxOwner, rxOverwrite, isActived, slotToHwBank,
                     hwBanks, rpc, rslot, rnode, rtail, lost, stranded, shared, derailed>>
      /\ Mapped' = Mapped
  BY DEF AllocReset, LosesCount, reading, Mapped
<1>3. fslot \in Slots
  BY <1>1, <1>2 DEF FilterSteps, FilterTypes, Mapped
<1>4. RxTypeOK' /\ FilterSteps'
  BY <1>1, <1>2, <1>3 DEF RxTypeOK, FilterSteps
<1>5. ReaderSteps' /\ RxNoRepeats' /\ RxApart'
  BY <1>2 DEF RxInv, ReaderSteps, RxNoRepeats, RxApart
<1>6. RxAccounted'
  <2>1. ASSUME NEW s \in Slots, s \notin miscounted' PROVE msgCount'[s] = Len(msgMatched[s])
    <3>1. CASE s = fslot
      BY <1>1, <1>2, <2>1, <3>1 DEF RxTypeOK
    <3>2. CASE s # fslot
      <4>1. msgCount'[s] = msgCount[s] /\ s \notin miscounted
        BY <1>1, <1>2, <2>1, <3>2 DEF RxTypeOK
      <4>. QED
        BY <1>1, <4>1 DEF RxAccounted, Accounted
    <3>. QED
      BY <3>1, <3>2
  <2>2. miscounted \subseteq miscounted'
    BY <1>2
  <2>. QED
    BY <1>1, <1>2, <2>1, <2>2 DEF RxAccounted, Accounted
<1>7. Apiece /\ SeenIsThere => Apiece' /\ SeenIsThere'
  <2>1. miscounted' = {} => miscounted = {}
    BY <1>2
  <2>. QED
    BY <1>2, <2>1 DEF Apiece, SeenIsThere
<1>. QED
  BY <1>4, <1>5, <1>6, <1>7 DEF RxInv

LEMMA FreeClearKeeps ==
    ASSUME RxInv, FreeClear
    PROVE  RxInv' /\ (Apiece /\ SeenIsThere => Apiece' /\ SeenIsThere')
<1>1. RxTypeOK /\ FilterTypes /\ FilterSteps /\ RxAccounted
  BY TypesOfFilters DEF RxInv
<1>2. /\ fpc = "clear" /\ fpc' = "release" /\ isActived' = isActived \ {fslot}
      /\ msgCount' = [msgCount EXCEPT ![fslot] = 0]
      /\ msgMatched' = [msgMatched EXCEPT ![fslot] = << >>]
      /\ stranded' = stranded \cup ToSet(msgMatched[fslot])
      /\ miscounted' = IF msgMatched[fslot] # << >> THEN miscounted \cup {fslot} ELSE miscounted
      /\ UNCHANGED <<rxFree, rxUsed, rxOwner, rxOverwrite, slotToHwBank, hwBanks, fslot,
                     rpc, rslot, rnode, rtail, lost, shared, derailed>>
      /\ Mapped' = Mapped
  BY DEF FreeClear, LosesCount, reading, Mapped
<1>3. fslot \in isActived /\ fslot \in Mapped /\ fslot \in Slots
      /\ slotToHwBank[fslot] \notin hwBanks
  BY <1>1, <1>2 DEF FilterSteps, FilterTypes, Mapped
<1>4. /\ msgMatched'[fslot] = << >> /\ msgCount'[fslot] = 0
      /\ \A s \in Slots : s # fslot =>
           msgMatched'[s] = msgMatched[s] /\ msgCount'[s] = msgCount[s]
      /\ DOMAIN msgMatched' = Slots
  BY <1>1, <1>2, <1>3 DEF RxTypeOK
<1>5. /\ ToSet(msgMatched[fslot]) = {n \in ToSet(rxUsed) : rxOwner[n] = fslot /\ n \notin stranded}
      /\ stranded \subseteq ToSet(rxUsed) /\ \A n \in stranded : rxOwner[n] \in miscounted
  BY <1>1, <1>3 DEF RxAccounted, Accounted
<1>6. ToSet(rxUsed) \subseteq Nodes
  BY <1>1 DEF RxTypeOK, ToSet
<1>7. msgMatched[fslot] = << >> => ToSet(msgMatched[fslot]) = {}
  BY DEF ToSet
<1>8. RxTypeOK'
  <2>1. \A s \in Slots : msgMatched'[s] \in Seq(Nodes)
    <3>1. << >> \in Seq(Nodes) /\ \A s \in Slots : msgMatched[s] \in Seq(Nodes)
      BY <1>1 DEF RxTypeOK
    <3>. QED
      BY <1>4, <3>1
  <2>2. stranded' \subseteq Nodes /\ miscounted' \subseteq Slots
    BY <1>1, <1>2, <1>3, <1>5, <1>6 DEF RxTypeOK
  <2>3. msgCount' \in [Slots -> Int]
    <3>1. msgCount \in [Slots -> Int]
      BY <1>1 DEF RxTypeOK
    <3>2. msgCount' = [msgCount EXCEPT ![fslot] = 0]
      BY <1>2
    <3>. QED
      BY ONLY <1>3, <3>1, <3>2
  <2>. QED
    BY <1>1, <1>2, <1>4, <2>1, <2>2, <2>3 DEF RxTypeOK
<1>9. FilterSteps'
  BY <1>2, <1>3 DEF FilterSteps
<1>10. ReaderSteps' /\ RxNoRepeats' /\ RxApart'
  BY <1>2 DEF RxInv, ReaderSteps, RxNoRepeats, RxApart
<1>11. RxAccounted'
  <2>1. ASSUME NEW s \in Slots
        PROVE  /\ IsInjective(msgMatched'[s])
               /\ ToSet(msgMatched'[s]) =
                      {n \in ToSet(rxUsed) : rxOwner[n] = s /\ n \notin stranded'}
               /\ SameOrder(msgMatched'[s], rxUsed)
               /\ s \notin miscounted' => msgCount'[s] = Len(msgMatched'[s])
    <3>1. CASE s = fslot
      <4>1. msgMatched'[s] = << >> /\ msgCount'[s] = 0
        BY <1>4, <3>1
      <4>2. IsInjective(<< >>) /\ SameOrder(<< >>, rxUsed) /\ ToSet(<< >>) = {} /\ Len(<< >>) = 0
        BY DEF IsInjective, SameOrder, ToSet
      <4>3. {n \in ToSet(rxUsed) : rxOwner[n] = s /\ n \notin stranded'} = {}
        BY <1>2, <1>5, <3>1
      <4>. QED
        BY <4>1, <4>2, <4>3
    <3>2. CASE s # fslot
      <4>1. msgMatched'[s] = msgMatched[s] /\ msgCount'[s] = msgCount[s]
        BY <1>4, <3>2
      <4>2. /\ IsInjective(msgMatched[s]) /\ SameOrder(msgMatched[s], rxUsed)
            /\ ToSet(msgMatched[s]) = {n \in ToSet(rxUsed) : rxOwner[n] = s /\ n \notin stranded}
            /\ s \notin miscounted => msgCount[s] = Len(msgMatched[s])
        BY <1>1 DEF RxAccounted, Accounted
      <4>3. {n \in ToSet(rxUsed) : rxOwner[n] = s /\ n \notin stranded}
              = {n \in ToSet(rxUsed) : rxOwner[n] = s /\ n \notin stranded'}
        BY <1>2, <1>5, <3>2
      <4>4. s \notin miscounted' => s \notin miscounted
        BY <1>2
      <4>. QED
        BY <4>1, <4>2, <4>3, <4>4
    <3>. QED
      BY <3>1, <3>2
  <2>2. stranded' \subseteq ToSet(rxUsed) /\ \A n \in stranded' : rxOwner[n] \in miscounted'
    BY <1>2, <1>5, <1>7
  <2>3. rxUsed' = rxUsed /\ rxOwner' = rxOwner
    BY <1>2
  <2>. QED
    BY <2>1, <2>2, <2>3 DEF RxAccounted, Accounted
<1>12. Apiece /\ SeenIsThere => Apiece' /\ SeenIsThere'
  <2>1. Apiece => Apiece'
    BY <1>2 DEF Apiece
  <2>2. ASSUME miscounted' = {}
        PROVE  miscounted = {} /\ \A s \in Slots : msgMatched'[s] = msgMatched[s]
    BY <1>2, <1>4, <2>2
  <2>3. \A r \in Readers : rpc[r] = "take" => rslot[r] \in Slots
    BY DEF RxInv, ReaderSteps
  <2>4. SeenIsThere => SeenIsThere'
    BY <1>2, <2>2, <2>3 DEF SeenIsThere
  <2>. QED
    BY <2>1, <2>4
<1>. QED
  BY <1>8, <1>9, <1>10, <1>11, <1>12 DEF RxInv

-----------------------------------------------------------------------------
(* The steps of the readers. *)

\* A step that moves only the reader r, and no node.
LEMMA RxReaderStep ==
    ASSUME RxInv, NEW r \in Readers,
           UNCHANGED <<lists, rxOverwrite, filters, lost, stranded, miscounted>>,
           rpc' \in [Readers -> {"out", "take", "copy", "link"}],
           rslot' \in [Readers -> Slots \cup {NoSlot}],
           rtail' \in [Readers -> Nodes \cup {NoNode}], rnode' = rnode,
           shared' \in BOOLEAN, derailed' \in BOOLEAN,
           \A q \in Readers \ {r} : rpc'[q] = rpc[q] /\ rslot'[q] = rslot[q],
           rslot'[r] \in Slots, rpc'[r] # "out",
           rpc'[r] \in {"copy", "link"} <=> rpc[r] \in {"copy", "link"}
    PROVE  RxInv'
<1>1. UNCHANGED <<rxFree, rxUsed, msgMatched, msgCount, rxOwner, isActived, slotToHwBank,
                  hwBanks, fpc, fslot>>
  BY DEF lists, filters
<1>2. Mapped' = Mapped
  BY <1>1 DEF Mapped
<1>3. RxTypeOK'
  BY <1>1, <1>2 DEF RxInv, RxTypeOK
<1>4. FilterSteps'
  BY <1>1, <1>2 DEF RxInv, FilterSteps
<1>5. RxNoRepeats' /\ RxApart' /\ RxAccounted'
  BY <1>1, NodesStay
<1>6. ReaderSteps'
  BY DEF RxInv, ReaderSteps
<1>. QED
  BY <1>3, <1>4, <1>5, <1>6 DEF RxInv

LEMMA ReadCallKeeps ==
    ASSUME RxInv, NEW r \in Readers, NEW s \in Slots, ReadCall(r, s)
    PROVE  RxInv' /\ (Apiece /\ SeenIsThere => Apiece' /\ SeenIsThere')
<1>1. RxTypeOK /\ ReaderSteps /\ RxAccounted
  BY DEF RxInv
<1>2. /\ rpc[r] = "out" /\ msgCount[s] # 0
      /\ rpc' = [rpc EXCEPT ![r] = "take"] /\ rslot' = [rslot EXCEPT ![r] = s]
      /\ shared' = (shared \/ \E q \in Readers : rslot[q] = s)
      /\ UNCHANGED <<lists, rxOverwrite, filters, rnode, rtail, lost, stranded, miscounted,
                     derailed>>
  BY DEF ReadCall
<1>3. /\ rpc'[r] = "take" /\ rslot'[r] = s
      /\ \A q \in Readers \ {r} : rpc'[q] = rpc[q] /\ rslot'[q] = rslot[q]
  BY <1>1, <1>2 DEF RxTypeOK
<1>4. shared' \in BOOLEAN
  BY <1>1, <1>2, Zenon DEF RxTypeOK
<1>5. RxInv'
  <2>1. /\ rpc' \in [Readers -> {"out", "take", "copy", "link"}]
        /\ rslot' \in [Readers -> Slots \cup {NoSlot}]
        /\ rtail' \in [Readers -> Nodes \cup {NoNode}] /\ derailed' \in BOOLEAN
    BY <1>1, <1>2 DEF RxTypeOK
  <2>2. rpc'[r] \in {"copy", "link"} <=> rpc[r] \in {"copy", "link"}
    BY <1>2, <1>3
  <2>. QED
    BY <1>2, <1>3, <1>4, <2>1, <2>2, RxReaderStep
<1>6. msgMatched' = msgMatched
  BY <1>2 DEF lists
<1>7. Apiece => Apiece'
  <2>1. ~shared' => ~shared /\ \A q \in Readers : rslot[q] # s
    BY <1>2, Zenon
  <2>. QED
    BY <1>3, <2>1 DEF Apiece
<1>8. SeenIsThere => SeenIsThere'
  <2>1. ASSUME miscounted = {} PROVE msgMatched[s] # << >>
    <3>1. msgCount[s] = Len(msgMatched[s])
      BY <1>1, <2>1 DEF RxAccounted, Accounted
    <3>. QED
      BY <1>2, <3>1
  <2>2. ~shared' => ~shared
    BY <1>2, Zenon
  <2>. QED
    BY <1>2, <1>3, <1>6, <2>1, <2>2 DEF SeenIsThere
<1>. QED
  BY <1>5, <1>7, <1>8

LEMMA TakeKeeps ==
    ASSUME RxInv, NEW r \in Readers, Take(r)
    PROVE  RxInv' /\ (Apiece /\ SeenIsThere => Apiece' /\ SeenIsThere')
<1> DEFINE s == rslot[r]
           n == Head(msgMatched[s])
<1>1. RxTypeOK /\ FilterSteps /\ ReaderSteps /\ RxNoRepeats /\ RxApart /\ RxAccounted
  BY DEF RxInv
<1>2. rpc[r] = "take" /\ s \in Slots /\ rnode[r] = NoNode
  BY <1>1 DEF Take, ReaderSteps
<1>3. CASE msgMatched[s] = << >>
  <2>1. /\ UNCHANGED <<lists, rxOverwrite, filters, reading>>
        /\ derailed' = TRUE /\ UNCHANGED <<lost, stranded, miscounted, shared>>
    BY <1>3 DEF Take, Derail
  <2>2. UNCHANGED <<rpc, rslot, rnode, rtail, msgMatched>>
    BY <2>1 DEF reading, lists
  <2>3. RxInv'
    BY <1>1, <1>2, <2>1, <2>2, RxReaderStep DEF RxTypeOK
  <2>4. Apiece /\ SeenIsThere => Apiece' /\ SeenIsThere'
    BY <2>1, <2>2 DEF Apiece, SeenIsThere
  <2>. QED
    BY <2>3, <2>4
<1>4. CASE msgMatched[s] # << >>
  <2>1. /\ msgMatched' = [msgMatched EXCEPT ![s] = Tail(@)]
        /\ msgCount' = [msgCount EXCEPT ![s] = @ - 1]
        /\ rxUsed' = Without(rxUsed, n)
        /\ rxOwner' = [rxOwner EXCEPT ![n] = NoSlot]
        /\ rnode' = [rnode EXCEPT ![r] = n]
        /\ rpc' = [rpc EXCEPT ![r] = "copy"]
        /\ UNCHANGED <<rxFree, rslot, rtail, lost, stranded, miscounted, shared, derailed,
                       rxOverwrite, isActived, slotToHwBank, hwBanks, fpc, fslot>>
        /\ Mapped' = Mapped
    BY <1>4 DEF Take, past, filters, Mapped
  <2>2. /\ rxFree \in Seq(Nodes) /\ rxUsed \in Seq(Nodes)
        /\ rnode \in [Readers -> Nodes \cup {NoNode}] /\ DOMAIN msgMatched = Slots
        /\ \A t \in Slots : msgMatched[t] \in Seq(Nodes)
        /\ msgCount \in [Slots -> Int] /\ rxOwner \in [Nodes -> Slots \cup {NoSlot}]
        /\ IsInjective(rxUsed)
    BY <1>1 DEF RxTypeOK, RxNoRepeats
  <2>3. \A t \in Slots :
          /\ IsInjective(msgMatched[t])
          /\ ToSet(msgMatched[t]) =
                 {x \in ToSet(rxUsed) : rxOwner[x] = t /\ x \notin stranded}
    BY <1>1 DEF RxAccounted, Accounted
  <2>4. /\ n \in Nodes /\ n \in ToSet(msgMatched[s])
        /\ Tail(msgMatched[s]) = Without(msgMatched[s], n)
        /\ Tail(msgMatched[s]) \in Seq(Nodes)
    <3>1. msgMatched[s] \in Seq(Nodes) /\ IsInjective(msgMatched[s])
      BY <1>2, <2>2, <2>3
    <3>. QED
      BY <1>4, <3>1, TailList, TailWithout
  <2>5. n \in ToSet(rxUsed) /\ rxOwner[n] = s /\ n \notin stranded
    BY <1>2, <2>3, <2>4
  <2> HIDE DEF n, s
  <2>6. \A t \in Slots : t # s => Without(msgMatched[t], n) = msgMatched[t]
    <3> TAKE t \in Slots
    <3> SUFFICES ASSUME t # s PROVE Without(msgMatched[t], n) = msgMatched[t]
      OBVIOUS
    <3>1. n \notin ToSet(msgMatched[t])
      BY <2>3, <2>5
    <3>. QED
      BY <2>2, <2>3, <3>1, WithoutList
  <2>7. msgMatched' = [t \in Slots |-> Without(msgMatched[t], n)]
    BY <1>2, <2>1, <2>2, <2>4, <2>6
  <2>8. msgCount' = [t \in Slots |->
            msgCount[t] - (IF n \in ToSet(rxUsed) /\ rxOwner[n] = t THEN 1 ELSE 0)]
    <3>1. \A t \in Slots : msgCount'[t] =
            msgCount[t] - (IF n \in ToSet(rxUsed) /\ rxOwner[n] = t THEN 1 ELSE 0)
      <4>1. \A t \in Slots : msgCount'[t] = IF t = s THEN msgCount[t] - 1 ELSE msgCount[t]
        BY <1>2, <2>1, <2>2
      <4>. QED
        BY <2>2, <2>5, <4>1
    <3>2. msgCount' = [t \in Slots |-> msgCount'[t]]
      BY <2>1, <2>2
    <3>. QED
      BY <3>1, <3>2
  <2>9. stranded' = stranded \ {n}
    BY <2>1, <2>5
  <2>10. RxAccounted'
    <3>1. Accounted(rxUsed', msgMatched', msgCount', rxOwner', stranded', miscounted)
      <4>1. Accounted(rxUsed, msgMatched, msgCount, rxOwner, stranded, miscounted)
        BY <1>1 DEF RxAccounted
      <4>2. ASSUME NEW x \in Nodes
            PROVE  Accounted(Without(rxUsed, x), [t \in Slots |-> Without(msgMatched[t], x)],
                             [t \in Slots |-> msgCount[t]
                                 - (IF x \in ToSet(rxUsed) /\ rxOwner[x] = t THEN 1 ELSE 0)],
                             [rxOwner EXCEPT ![x] = NoSlot], stranded \ {x}, miscounted)
        BY <2>2, <4>1, NodeLeaves
      <4>3. Accounted(Without(rxUsed, n), [t \in Slots |-> Without(msgMatched[t], n)],
                      [t \in Slots |-> msgCount[t]
                           - (IF n \in ToSet(rxUsed) /\ rxOwner[n] = t THEN 1 ELSE 0)],
                      [rxOwner EXCEPT ![n] = NoSlot], stranded \ {n}, miscounted)
        BY <2>4, <4>2
      <4>. QED
        BY <2>1, <2>7, <2>8, <2>9, <4>3, Zenon
    <3>. QED
      BY <2>1, <3>1 DEF RxAccounted
  <2>11. rxUsed' \in Seq(Nodes) /\ IsInjective(rxUsed') /\ ToSet(rxUsed') = ToSet(rxUsed) \ {n}
    BY <2>1, <2>2, WithoutList
  <2>12. RxApart'
    <3>1. InOnePlace(Nodes \ {n}, ToSet(rxFree), ToSet(rxUsed'), lost, rnode)
      <4>1. InOnePlace(Nodes, ToSet(rxFree), ToSet(rxUsed), lost, rnode)
        BY <1>1 DEF RxApart
      <4>2. InOnePlace(Nodes \ {n}, ToSet(rxFree), ToSet(rxUsed) \ {n}, lost, rnode)
        BY <2>2, <2>4, <2>5, <4>1, NodeGone
      <4>. QED
        BY <2>11, <4>2
    <3>2. InOnePlace(Nodes, ToSet(rxFree), ToSet(rxUsed'), lost, rnode')
      BY <1>2, <2>1, <2>2, <2>4, <3>1, NodeComes
    <3>. QED
      BY <2>1, <3>2 DEF RxApart
  <2>13. RxNoRepeats'
    BY <1>1, <2>1, <2>11 DEF RxNoRepeats
  <2>14. RxTypeOK'
    <3>1. DOMAIN msgMatched' = Slots /\ \A t \in Slots : msgMatched'[t] \in Seq(Nodes)
      BY <1>2, <2>1, <2>2, <2>4
    <3>2. /\ msgCount' \in [Slots -> Int] /\ rxOwner' \in [Nodes -> Slots \cup {NoSlot}]
          /\ rnode' \in [Readers -> Nodes \cup {NoNode}]
          /\ rpc' \in [Readers -> {"out", "take", "copy", "link"}]
      <4>1. msgCount' \in [Slots -> Int]
        BY <2>2, <2>8
      <4>2. rpc \in [Readers -> {"out", "take", "copy", "link"}]
        BY <1>1 DEF RxTypeOK
      <4>. QED
        BY <2>1, <2>2, <2>4, <4>1, <4>2
    <3>. QED
      BY <1>1, <2>1, <2>11, <3>1, <3>2 DEF RxTypeOK
  <2>15. FilterSteps'
    BY <1>1, <2>1 DEF FilterSteps
  <2>16. rpc'[r] = "copy" /\ \A q \in Readers \ {r} : rpc'[q] = rpc[q]
    BY <1>1, <2>1 DEF RxTypeOK
  <2>17. ReaderSteps'
    <3>1. rnode'[r] = n /\ \A q \in Readers \ {r} : rnode'[q] = rnode[q]
      BY <2>1, <2>2
    <3>2. n # NoNode
      BY <2>4, CanRxAssumption
    <3>. QED
      BY <1>1, <1>2, <2>1, <2>16, <3>1, <3>2 DEF ReaderSteps, s
  <2>18. Apiece => Apiece'
    BY <2>1 DEF Apiece
  <2>19. Apiece /\ SeenIsThere => SeenIsThere'
    <3> SUFFICES ASSUME Apiece, SeenIsThere, ~rxOverwrite, ~shared, miscounted = {},
                        NEW q \in Readers, rpc'[q] = "take"
                 PROVE  msgMatched'[rslot[q]] # << >>
      BY <2>1 DEF SeenIsThere
    <3>1. q # r /\ rpc[q] = "take"
      BY <2>16
    <3>2. rslot[q] \in Slots /\ rslot[q] # s
      BY <1>1, <1>2, <3>1 DEF ReaderSteps, Apiece, s
    <3>3. msgMatched'[rslot[q]] = msgMatched[rslot[q]]
      BY <2>1, <2>2, <3>2
    <3>. QED
      BY <3>1, <3>3 DEF SeenIsThere
  <2>. QED
    BY <2>10, <2>12, <2>13, <2>14, <2>15, <2>17, <2>18, <2>19 DEF RxInv
<1>. QED
  BY <1>3, <1>4

LEMMA LastOf ==
    ASSUME NEW list \in Seq(Nodes)
    PROVE  TailOf(list) \in Nodes \cup {NoNode}
<1>1. list # << >> => Len(list) \in DOMAIN list /\ Last(list) = list[Len(list)]
  BY DEF Last
<1>. QED
  BY <1>1 DEF TailOf

LEMMA CopyKeeps ==
    ASSUME RxInv, NEW r \in Readers, Copy(r)
    PROVE  RxInv' /\ (Apiece /\ SeenIsThere => Apiece' /\ SeenIsThere')
<1>1. RxTypeOK /\ ReaderSteps
  BY DEF RxInv
<1>2. /\ rpc[r] = "copy" /\ rpc' = [rpc EXCEPT ![r] = "link"]
      /\ rtail' = [rtail EXCEPT ![r] = TailOf(rxFree)]
      /\ UNCHANGED <<lists, rxOverwrite, filters, rslot, rnode, lost, stranded, miscounted,
                     shared, derailed>>
  BY DEF Copy, past
<1>3. rpc'[r] = "link" /\ \A q \in Readers \ {r} : rpc'[q] = rpc[q]
  BY <1>1, <1>2 DEF RxTypeOK
<1>4. /\ rpc' \in [Readers -> {"out", "take", "copy", "link"}]
      /\ rslot' \in [Readers -> Slots \cup {NoSlot}]
      /\ rtail' \in [Readers -> Nodes \cup {NoNode}]
      /\ shared' \in BOOLEAN /\ derailed' \in BOOLEAN
  <2>1. TailOf(rxFree) \in Nodes \cup {NoNode}
    BY <1>1, LastOf DEF RxTypeOK
  <2>. QED
    BY <1>1, <1>2, <2>1 DEF RxTypeOK
<1>5. rslot'[r] \in Slots
  BY <1>1, <1>2 DEF ReaderSteps
<1>6. RxInv'
  BY <1>2, <1>3, <1>4, <1>5, RxReaderStep
<1>7. msgMatched' = msgMatched
  BY <1>2 DEF lists
<1>8. Apiece /\ SeenIsThere => Apiece' /\ SeenIsThere'
  BY <1>2, <1>3, <1>7 DEF Apiece, SeenIsThere
<1>. QED
  BY <1>6, <1>8

LEMMA LinkFreeKeeps ==
    ASSUME RxInv, NEW r \in Readers, LinkFree(r)
    PROVE  RxInv' /\ (Apiece /\ SeenIsThere => Apiece' /\ SeenIsThere')
<1> DEFINE n == rnode[r]
<1>1. RxTypeOK /\ FilterSteps /\ ReaderSteps /\ RxNoRepeats /\ RxApart /\ RxAccounted
  BY DEF RxInv
<1>2. rpc[r] = "link" /\ n \in Nodes
  BY <1>1 DEF LinkFree, ReaderSteps, RxTypeOK
<1>3. CASE rtail[r] # TailOf(rxFree)
  <2>1. /\ UNCHANGED <<lists, rxOverwrite, filters, reading>>
        /\ derailed' = TRUE /\ UNCHANGED <<lost, stranded, miscounted, shared>>
    BY <1>3 DEF LinkFree, Derail, lists
  <2>2. UNCHANGED <<rpc, rslot, rnode, rtail, msgMatched>>
    BY <2>1 DEF reading, lists
  <2>3. /\ rpc' \in [Readers -> {"out", "take", "copy", "link"}]
        /\ rslot' \in [Readers -> Slots \cup {NoSlot}]
        /\ rtail' \in [Readers -> Nodes \cup {NoNode}]
        /\ shared' \in BOOLEAN /\ derailed' \in BOOLEAN
    BY <1>1, <2>1, <2>2 DEF RxTypeOK
  <2>4. rslot'[r] \in Slots
    BY <1>1, <1>2, <2>2 DEF ReaderSteps
  <2>5. RxInv'
    BY <1>2, <2>1, <2>2, <2>3, <2>4, RxReaderStep
  <2>6. Apiece /\ SeenIsThere => Apiece' /\ SeenIsThere'
    BY <2>1, <2>2 DEF Apiece, SeenIsThere
  <2>. QED
    BY <2>5, <2>6
<1>4. CASE rtail[r] = TailOf(rxFree)
  <2>1. /\ rxFree' = Append(rxFree, n)
        /\ rpc' = [rpc EXCEPT ![r] = "out"] /\ rslot' = [rslot EXCEPT ![r] = NoSlot]
        /\ rnode' = [rnode EXCEPT ![r] = NoNode]
        /\ rtail' = [rtail EXCEPT ![r] = NoNode]
        /\ UNCHANGED <<rxUsed, msgMatched, msgCount, rxOwner, rxOverwrite, isActived,
                       slotToHwBank, hwBanks, fpc, fslot, lost, stranded, miscounted, shared,
                       derailed>>
        /\ Mapped' = Mapped
    BY <1>4 DEF LinkFree, past, filters, Mapped
  <2>2. /\ rxFree \in Seq(Nodes) /\ IsInjective(rxFree)
        /\ rnode \in [Readers -> Nodes \cup {NoNode}]
        /\ rpc \in [Readers -> {"out", "take", "copy", "link"}]
        /\ rslot \in [Readers -> Slots \cup {NoSlot}]
        /\ rtail \in [Readers -> Nodes \cup {NoNode}]
        /\ InOnePlace(Nodes, ToSet(rxFree), ToSet(rxUsed), lost, rnode)
    BY <1>1 DEF RxTypeOK, RxNoRepeats, RxApart
  <2>3. n \notin ToSet(rxFree)
    BY <2>2 DEF InOnePlace
  <2>4. /\ rxFree' \in Seq(Nodes) /\ IsInjective(rxFree')
        /\ ToSet(rxFree') = ToSet(rxFree) \cup {n}
    BY <1>2, <2>1, <2>2, <2>3, AppendList
  <2>5. RxApart'
    <3>1. InOnePlace(Nodes \ {n}, ToSet(rxFree), ToSet(rxUsed), lost, rnode')
      BY <1>2, <2>1, <2>2, NodeGone
    <3>2. rnode' \in [Readers -> Nodes \cup {NoNode}]
      BY <2>1, <2>2
    <3>3. InOnePlace(Nodes, ToSet(rxFree) \cup {n}, ToSet(rxUsed), lost, rnode')
      <4>1. ASSUME NEW x \in Nodes,
                   InOnePlace(Nodes \ {x}, ToSet(rxFree), ToSet(rxUsed), lost, rnode')
            PROVE  InOnePlace(Nodes, ToSet(rxFree) \cup {x}, ToSet(rxUsed), lost, rnode')
        BY <3>2, <4>1, NodeComes
      <4>. QED
        BY <1>2, <3>1, <4>1
    <3>. QED
      BY <2>1, <2>4, <3>3 DEF RxApart
  <2>6. RxNoRepeats' /\ RxAccounted' /\ FilterSteps'
    BY <1>1, <2>1, <2>4 DEF RxNoRepeats, RxAccounted, FilterSteps
  <2>7. /\ rpc' \in [Readers -> {"out", "take", "copy", "link"}]
        /\ rslot' \in [Readers -> Slots \cup {NoSlot}]
        /\ rtail' \in [Readers -> Nodes \cup {NoNode}]
        /\ rnode' \in [Readers -> Nodes \cup {NoNode}]
    BY <2>1, <2>2
  <2>8. RxTypeOK'
    BY <1>1, <2>1, <2>4, <2>7 DEF RxTypeOK
  <2>9. /\ rpc'[r] = "out" /\ rslot'[r] = NoSlot /\ rnode'[r] = NoNode
        /\ \A q \in Readers \ {r} :
             rpc'[q] = rpc[q] /\ rslot'[q] = rslot[q] /\ rnode'[q] = rnode[q]
    BY <2>1, <2>2
  <2>10. NoSlot \notin Slots
    BY CanRxAssumption DEF Slots
  <2>11. ReaderSteps'
    BY <1>1, <2>9, <2>10 DEF ReaderSteps
  <2>12. Apiece => Apiece'
    BY <2>1, <2>9, <2>10 DEF Apiece
  <2>13. SeenIsThere => SeenIsThere'
    BY <2>1, <2>9 DEF SeenIsThere
  <2>. QED
    BY <2>5, <2>6, <2>8, <2>11, <2>12, <2>13 DEF RxInv
<1>. QED
  BY <1>3, <1>4

-----------------------------------------------------------------------------
(* The receive interrupt. *)

\* A step that takes the first free, or the oldest used, node and places it.
LEMMA GotPlaced ==
    ASSUME RxInv, HasNode,
           UNCHANGED <<rxOverwrite, filters, reading, miscounted, shared, derailed>>,
           rxFree' \in Seq(Nodes), IsInjective(rxFree'),
           rxUsed' \in Seq(Nodes), IsInjective(rxUsed'), lost' \subseteq Nodes,
           InOnePlace(Nodes, ToSet(rxFree'), ToSet(rxUsed'), lost', rnode),
           DOMAIN msgMatched' = Slots,
           \A s \in Slots :
               /\ msgMatched'[s] \in Seq(Nodes)
               /\ msgMatched'[s] = << >> => MatchedLeft(s) = << >>,
           msgCount' \in [Slots -> Int],
           rxOwner' \in [Nodes -> Slots \cup {NoSlot}], stranded' = stranded \ {Got},
           Accounted(rxUsed', msgMatched', msgCount', rxOwner', stranded', miscounted)
    PROVE  RxInv' /\ (Apiece /\ SeenIsThere => Apiece' /\ SeenIsThere')
<1>1. /\ UNCHANGED <<isActived, slotToHwBank, hwBanks, fpc, fslot, rpc, rslot, rnode, rtail>>
      /\ Mapped' = Mapped
  BY DEF filters, reading, Mapped
<1>2. RxTypeOK'
  BY <1>1 DEF RxInv, RxTypeOK
<1>3. FilterSteps' /\ ReaderSteps'
  BY <1>1 DEF RxInv, FilterSteps, ReaderSteps
<1>4. RxNoRepeats' /\ RxApart' /\ RxAccounted'
  BY <1>1 DEF RxNoRepeats, RxApart, RxAccounted
<1>5. Apiece => Apiece'
  BY <1>1 DEF Apiece
<1>6. SeenIsThere => SeenIsThere'
  <2>1. ASSUME ~rxOverwrite, NEW s \in Slots PROVE MatchedLeft(s) = msgMatched[s]
    BY <2>1, GotLeaves DEF HasNode
  <2>2. \A q \in Readers : rpc[q] = "take" => rslot[q] \in Slots
    BY DEF RxInv, ReaderSteps
  <2>. QED
    BY <1>1, <2>1, <2>2 DEF SeenIsThere
<1>. QED
  BY <1>2, <1>3, <1>4, <1>5, <1>6 DEF RxInv

LEMMA RxFailsKeeps ==
    ASSUME RxInv, NEW b, RxFails(b)
    PROVE  RxInv' /\ (Apiece /\ SeenIsThere => Apiece' /\ SeenIsThere')
<1>1. PICK n : n = Got
  OBVIOUS
<1>2. /\ HasNode
      /\ \/ rxFree' = FreeLeft /\ lost' = lost \cup {n}
         \/ rxFree' = Append(FreeLeft, n) /\ UNCHANGED lost
      /\ rxUsed' = UsedLeft /\ rxOwner' = [rxOwner EXCEPT ![n] = NoSlot]
      /\ msgMatched' = [s \in Slots |-> MatchedLeft(s)]
      /\ msgCount' = [s \in Slots |-> CountLeft(s)]
      /\ stranded' = stranded \ {n}
      /\ UNCHANGED <<rxOverwrite, filters, reading, miscounted, shared, derailed>>
  BY <1>1, Zenon DEF RxFails
<1>3. /\ n \in Nodes
      /\ FreeLeft \in Seq(Nodes) /\ IsInjective(FreeLeft) /\ n \notin ToSet(FreeLeft)
      /\ UsedLeft \in Seq(Nodes) /\ IsInjective(UsedLeft)
      /\ InOnePlace(Nodes \ {n}, ToSet(FreeLeft), ToSet(UsedLeft), lost, rnode)
      /\ \A s \in Slots : MatchedLeft(s) \in Seq(Nodes) /\ CountLeft(s) \in Int
      /\ Accounted(UsedLeft, [s \in Slots |-> MatchedLeft(s)],
                   [s \in Slots |-> CountLeft(s)], [rxOwner EXCEPT ![n] = NoSlot],
                   stranded \ {n}, miscounted)
  BY <1>1, <1>2, GotLeaves, Zenon
<1>4. rnode \in [Readers -> Nodes \cup {NoNode}] /\ lost \subseteq Nodes
      /\ rxOwner \in [Nodes -> Slots \cup {NoSlot}]
  BY DEF RxInv, RxTypeOK
<1>5. /\ InOnePlace(Nodes, ToSet(FreeLeft) \cup {n}, ToSet(UsedLeft), lost, rnode)
      /\ InOnePlace(Nodes, ToSet(FreeLeft), ToSet(UsedLeft), lost \cup {n}, rnode)
  BY <1>3, <1>4, NodeComes
<1>6. /\ Append(FreeLeft, n) \in Seq(Nodes) /\ IsInjective(Append(FreeLeft, n))
      /\ ToSet(Append(FreeLeft, n)) = ToSet(FreeLeft) \cup {n}
  BY <1>3, AppendList
<1>7. /\ rxFree' \in Seq(Nodes) /\ IsInjective(rxFree') /\ lost' \subseteq Nodes
      /\ InOnePlace(Nodes, ToSet(rxFree'), ToSet(rxUsed'), lost', rnode)
  BY <1>2, <1>3, <1>4, <1>5, <1>6
<1>8. /\ DOMAIN msgMatched' = Slots
      /\ \A s \in Slots : msgMatched'[s] = MatchedLeft(s)
  BY <1>2
<1>9. msgCount' \in [Slots -> Int]
  BY <1>2, <1>3
<1>10. rxOwner' \in [Nodes -> Slots \cup {NoSlot}]
  BY <1>2, <1>3, <1>4
<1>11. Accounted(rxUsed', msgMatched', msgCount', rxOwner', stranded', miscounted)
  BY <1>2, <1>3, Zenon
<1>. QED
  BY <1>1, <1>2, <1>3, <1>7, <1>8, <1>9, <1>10, <1>11, GotPlaced

LEMMA RxPutKeeps ==
    ASSUME RxInv, NEW b, RxPut(b)
    PROVE  RxInv' /\ (Apiece /\ SeenIsThere => Apiece' /\ SeenIsThere')
<1>1. PICK n : n = Got
  OBVIOUS
<1>2. PICK t \in isActived :
         /\ msgMatched' = [s \in Slots |->
                IF s = t THEN Append(MatchedLeft(s), n) ELSE MatchedLeft(s)]
         /\ msgCount' = [s \in Slots |-> CountLeft(s) + (IF s = t THEN 1 ELSE 0)]
         /\ rxOwner' = [rxOwner EXCEPT ![n] = t]
  BY <1>1, Zenon DEF RxPut
<1>3. /\ HasNode /\ rxFree' = FreeLeft /\ rxUsed' = Append(UsedLeft, n)
      /\ stranded' = stranded \ {n}
      /\ UNCHANGED <<rxOverwrite, filters, reading, lost, miscounted, shared, derailed>>
  BY <1>1, Zenon DEF RxPut
<1>4. t \in Slots
  BY DEF RxInv, RxTypeOK, Mapped
<1>5. PICK left, counts, owns :
        /\ left = [s \in Slots |-> MatchedLeft(s)] /\ counts = [s \in Slots |-> CountLeft(s)]
        /\ owns = [rxOwner EXCEPT ![n] = NoSlot]
  OBVIOUS
<1>6. /\ n \in Nodes
      /\ FreeLeft \in Seq(Nodes) /\ IsInjective(FreeLeft)
      /\ UsedLeft \in Seq(Nodes) /\ IsInjective(UsedLeft) /\ n \notin ToSet(UsedLeft)
      /\ InOnePlace(Nodes \ {n}, ToSet(FreeLeft), ToSet(UsedLeft), lost, rnode)
      /\ \A s \in Slots : MatchedLeft(s) \in Seq(Nodes) /\ CountLeft(s) \in Int
      /\ Accounted(UsedLeft, left, counts, owns, stranded \ {n}, miscounted)
  BY <1>1, <1>3, <1>5, GotLeaves, Zenon
<1>7. /\ rnode \in [Readers -> Nodes \cup {NoNode}] /\ lost \subseteq Nodes
      /\ rxOwner \in [Nodes -> Slots \cup {NoSlot}]
  BY DEF RxInv, RxTypeOK
<1>8. /\ \A s \in Slots : left[s] = MatchedLeft(s) /\ counts[s] = CountLeft(s)
      /\ counts \in [Slots -> Int] /\ owns \in [Nodes -> Slots \cup {NoSlot}]
      /\ rxOwner' = [owns EXCEPT ![n] = t]
  BY <1>2, <1>5, <1>6, <1>7
<1>9. /\ msgMatched' = [s \in Slots |-> IF s = t THEN Append(left[s], n) ELSE left[s]]
      /\ msgCount' = [s \in Slots |-> counts[s] + (IF s = t THEN 1 ELSE 0)]
  BY <1>2, <1>8
<1>10. Accounted(Append(UsedLeft, n), msgMatched', msgCount', rxOwner', stranded \ {n},
                 miscounted)
  <2>1. \A s \in Slots : left[s] \in Seq(Nodes)
    BY <1>6, <1>8
  <2>2. PICK used, gone : used = UsedLeft /\ gone = stranded \ {n}
    OBVIOUS
  <2>3. /\ used \in Seq(Nodes) /\ IsInjective(used) /\ n \notin ToSet(used)
        /\ Accounted(used, left, counts, owns, gone, miscounted)
    BY <1>6, <2>2
  <2>4. Accounted(Append(used, n), msgMatched', msgCount', rxOwner', gone, miscounted)
    <3>1. /\ n \in Nodes /\ rxOwner'[n] = t
          /\ \A m \in Nodes : m # n => rxOwner'[m] = owns[m]
      BY <1>6, <1>8
    <3>2. /\ msgMatched'[t] = Append(left[t], n) /\ msgCount'[t] = counts[t] + 1
          /\ \A s \in Slots : s # t => msgMatched'[s] = left[s] /\ msgCount'[s] = counts[s]
      BY <1>4, <1>8, <1>9
    <3>. QED
      BY ONLY <1>4, <2>1, <2>3, <3>1, <3>2, NodeArrives, SMTT(30)
  <2>. QED
    BY <2>2, <2>4
<1>11. Accounted(rxUsed', msgMatched', msgCount', rxOwner', stranded', miscounted)
  BY <1>3, <1>10, Zenon
<1>12. /\ rxUsed' \in Seq(Nodes) /\ IsInjective(rxUsed')
       /\ ToSet(rxUsed') = ToSet(UsedLeft) \cup {n}
  BY <1>3, <1>6, AppendList
<1>13. InOnePlace(Nodes, ToSet(rxFree'), ToSet(rxUsed'), lost', rnode)
  <2>1. InOnePlace(Nodes, ToSet(FreeLeft), ToSet(UsedLeft) \cup {n}, lost, rnode)
    BY <1>6, <1>7, NodeComes
  <2>. QED
    BY <1>3, <1>12, <2>1
<1>14. /\ DOMAIN msgMatched' = Slots
       /\ \A s \in Slots :
            /\ msgMatched'[s] \in Seq(Nodes)
            /\ msgMatched'[s] = << >> => MatchedLeft(s) = << >>
  <2>1. DOMAIN msgMatched' = Slots
    BY <1>9
  <2>2. ASSUME NEW s \in Slots
        PROVE  /\ msgMatched'[s] \in Seq(Nodes)
               /\ msgMatched'[s] = << >> => MatchedLeft(s) = << >>
    <3>1. MatchedLeft(s) \in Seq(Nodes) /\ left[s] = MatchedLeft(s)
      BY <1>6, <1>8
    <3>2. Append(left[s], n) \in Seq(Nodes) /\ Append(left[s], n) # << >>
      BY <1>6, <3>1
    <3>. QED
      BY <1>9, <3>1, <3>2
  <2>. QED
    BY <2>1, <2>2
<1>15. msgCount' \in [Slots -> Int] /\ rxOwner' \in [Nodes -> Slots \cup {NoSlot}]
  BY <1>4, <1>6, <1>7, <1>8, <1>9
<1>. QED
  BY <1>1, <1>3, <1>6, <1>7, <1>11, <1>12, <1>13, <1>14, <1>15, GotPlaced

-----------------------------------------------------------------------------
(* The invariant. *)

LEMMA RxInvInit == RxInit => RxInv /\ Apiece /\ SeenIsThere
<1> SUFFICES ASSUME RxInit PROVE RxInv /\ Apiece /\ SeenIsThere
  OBVIOUS
<1>1. rxFree \in Seq(Nodes) /\ IsInjective(rxFree) /\ ToSet(rxFree) = Nodes
  BY CanRxAssumption, AllOnce DEF RxInit
<1>2. rxUsed = << >> /\ rxUsed \in Seq(Nodes) /\ IsInjective(rxUsed) /\ ToSet(rxUsed) = {}
  BY DEF RxInit, IsInjective, ToSet
<1>3. Mapped = {} /\ NoSlot \notin Slots
  BY CanRxAssumption DEF RxInit, Mapped, Slots
<1>4. RxTypeOK
  <2>1. rxFree \in Seq(Nodes) /\ rxUsed \in Seq(Nodes) /\ isActived = {} /\ hwBanks = {}
    BY <1>1, <1>2 DEF RxInit
  <2>2. DOMAIN msgMatched = Slots /\ \A s \in Slots : msgMatched[s] \in Seq(Nodes)
    BY DEF RxInit
  <2>3. /\ msgCount \in [Slots -> Int] /\ rxOwner \in [Nodes -> Slots \cup {NoSlot}]
        /\ slotToHwBank \in [Slots -> Banks \cup {NoSlot}]
    BY DEF RxInit
  <2>4. /\ rpc \in [Readers -> {"out", "take", "copy", "link"}]
        /\ rslot \in [Readers -> Slots \cup {NoSlot}]
        /\ rnode \in [Readers -> Nodes \cup {NoNode}]
        /\ rtail \in [Readers -> Nodes \cup {NoNode}]
    BY DEF RxInit
  <2>. QED
    BY <1>3, <2>1, <2>2, <2>3, <2>4 DEF RxInit, RxTypeOK
<1>5. FilterSteps /\ ReaderSteps /\ RxNoRepeats
  BY <1>1, <1>2, <1>3 DEF RxInit, FilterSteps, ReaderSteps, RxNoRepeats
<1>6. RxApart
  BY <1>1, <1>2, CanRxAssumption DEF RxInit, RxApart, InOnePlace
<1>7. RxAccounted
  <2>1. IsInjective(<< >>) /\ ToSet(<< >>) = {} /\ SameOrder(<< >>, << >>) /\ Len(<< >>) = 0
    BY DEF IsInjective, ToSet, SameOrder
  <2>. QED
    BY <1>2, <2>1 DEF RxInit, RxAccounted, Accounted
<1>8. Apiece /\ SeenIsThere
  BY <1>3 DEF RxInit, Apiece, SeenIsThere
<1>. QED
  BY <1>4, <1>5, <1>6, <1>7, <1>8 DEF RxInv

\* A step that changes nothing the invariant looks at.
LEMMA NothingMoves ==
    ASSUME RxInv, UNCHANGED <<lists, rxOverwrite, filters, reading, lost, stranded, miscounted,
                              shared>>, derailed' \in BOOLEAN
    PROVE  RxInv' /\ (Apiece /\ SeenIsThere => Apiece' /\ SeenIsThere')
<1>1. /\ UNCHANGED <<rxFree, rxUsed, msgMatched, msgCount, rxOwner, isActived, slotToHwBank,
                     hwBanks, fpc, fslot, rpc, rslot, rnode, rtail>>
      /\ Mapped' = Mapped
  BY DEF lists, filters, reading, Mapped
<1>2. RxTypeOK' /\ FilterSteps' /\ ReaderSteps'
  BY <1>1 DEF RxInv, RxTypeOK, FilterSteps, ReaderSteps
<1>3. RxNoRepeats' /\ RxApart' /\ RxAccounted'
  BY <1>1, NodesStay
<1>4. Apiece /\ SeenIsThere => Apiece' /\ SeenIsThere'
  BY <1>1 DEF Apiece, SeenIsThere
<1>. QED
  BY <1>2, <1>3, <1>4 DEF RxInv

LEMMA RxInvStep ==
    ASSUME RxInv, Apiece, SeenIsThere, [RxNext]_rxVars
    PROVE  RxInv' /\ Apiece' /\ SeenIsThere'
<1>1. ASSUME NEW r \in Readers, Reader(r) PROVE RxInv' /\ Apiece' /\ SeenIsThere'
  <2>1. ASSUME NEW s \in Slots, ReadCall(r, s) PROVE RxInv' /\ Apiece' /\ SeenIsThere'
    BY <2>1, ReadCallKeeps
  <2>2. CASE Take(r)
    BY <2>2, TakeKeeps
  <2>3. CASE Copy(r)
    BY <2>3, CopyKeeps
  <2>4. CASE LinkFree(r)
    BY <2>4, LinkFreeKeeps
  <2>. QED
    BY <1>1, <2>1, <2>2, <2>3, <2>4 DEF Reader
<1>2. ASSUME NEW b \in Banks, RxIsr(b) PROVE RxInv' /\ Apiece' /\ SeenIsThere'
  <2>1. derailed \in BOOLEAN
    BY DEF RxInv, RxTypeOK
  <2>2. CASE RxDiscard(b)
    BY <2>1, <2>2, NothingMoves DEF RxDiscard, rxVars, past
  <2>3. CASE RxNoNode(b) \/ RxUnlinksStranded(b) \/ RxNoCallback(b)
    BY <2>3, NothingMoves DEF RxNoNode, RxUnlinksStranded, RxNoCallback, Derail
  <2>4. CASE RxFails(b)
    BY <2>4, RxFailsKeeps
  <2>5. CASE RxPut(b)
    BY <2>5, RxPutKeeps
  <2>. QED
    BY <1>2, <2>2, <2>3, <2>4, <2>5 DEF RxIsr
<1>3. CASE Allocate
  BY <1>3, AllocReserveKeeps, AllocEnableKeeps, AllocPublishKeeps, AllocResetKeeps DEF Allocate
<1>4. CASE Release
  BY <1>4, FreeTestKeeps, FreeDisableKeeps, FreeClearKeeps, FreeReleaseKeeps DEF Release
<1>5. CASE UNCHANGED rxVars
  <2>1. derailed \in BOOLEAN
    BY DEF RxInv, RxTypeOK
  <2>. QED
    BY <1>5, <2>1, NothingMoves DEF rxVars, past
<1>. QED
  BY <1>1, <1>2, <1>3, <1>4, <1>5 DEF RxNext

\* A list without repetitions is as long as its set of items is large.
LEMMA UniqueList ==
    ASSUME NEW S, NEW q \in Seq(S), IsInjective(q)
    PROVE  Unique(q)
<1>1. Len(q) \in Nat /\ q \in [1..Len(q) -> ToSet(q)] /\ DOMAIN q = 1..Len(q)
  BY DEF ToSet
<1>2. q \in Bijection(1..Len(q), ToSet(q))
  BY <1>1 DEF IsInjective, ToSet, Bijection, Injection, Surjection
<1>3. IsFiniteSet(1..Len(q)) /\ Cardinality(1..Len(q)) = Len(q)
  BY <1>1, FS_Interval
<1>4. Cardinality(ToSet(q)) = Cardinality(1..Len(q))
  BY <1>2, <1>3, FS_Bijection DEF ExistsBijection
<1>. QED
  BY <1>3, <1>4 DEF Unique

\* The invariant says of every node that it is in one place, and that the lists agree.
LEMMA RxInvPlaces == RxInv => RxNodesPlaced
<1> SUFFICES ASSUME RxInv PROVE RxNodesPlaced
  OBVIOUS
<1>1. /\ RxTypeOK /\ RxNoRepeats /\ RxAccounted
      /\ InOnePlace(Nodes, ToSet(rxFree), ToSet(rxUsed), lost, rnode)
  BY DEF RxInv, RxApart
<1>2. ListsAgree
  BY <1>1 DEF RxAccounted, Accounted, ListsAgree
<1>3. Unique(rxFree) /\ Unique(rxUsed)
  BY <1>1, UniqueList DEF RxTypeOK, RxNoRepeats
<1>4. ASSUME NEW n \in Nodes
      PROVE  1 = Cardinality({r \in Readers : n \in HeldBy(r)})
                 + Cardinality({S \in {<<1, ToSet(rxFree)>>, <<2, ToSet(rxUsed)>>,
                                       <<3, lost>>} : n \in S[2]})
  <2> DEFINE hands == {r \in Readers : n \in HeldBy(r)}
             parts == {S \in {<<1, ToSet(rxFree)>>, <<2, ToSet(rxUsed)>>, <<3, lost>>} :
                           n \in S[2]}
  <2>1. n # NoNode /\ hands = {r \in Readers : rnode[r] = n}
    BY CanRxAssumption DEF HeldBy
  <2>2. CASE \E r \in Readers : rnode[r] = n
    <3>1. PICK r \in Readers : rnode[r] = n
      BY <2>2
    <3>2. hands = {r}
      BY <1>1, <2>1, <3>1 DEF InOnePlace
    <3>3. parts = {}
      BY <1>1, <3>1 DEF InOnePlace
    <3>4. Cardinality(hands) = 1 /\ Cardinality(parts) = 0
      BY <3>2, <3>3, FS_Singleton, FS_EmptySet
    <3>. QED
      BY <3>4
  <2>3. CASE \A r \in Readers : rnode[r] # n
    <3>1. hands = {}
      BY <2>1, <2>3
    <3>2. \E x : parts = {x}
      <4>1. CASE n \in ToSet(rxFree)
        <5>1. parts = {<<1, ToSet(rxFree)>>}
          BY <1>1, <4>1 DEF InOnePlace
        <5>. QED
          BY <5>1
      <4>2. CASE n \in ToSet(rxUsed)
        <5>1. parts = {<<2, ToSet(rxUsed)>>}
          BY <1>1, <4>2 DEF InOnePlace
        <5>. QED
          BY <5>1
      <4>3. CASE n \in lost
        <5>1. parts = {<<3, lost>>}
          BY <1>1, <4>3 DEF InOnePlace
        <5>. QED
          BY <5>1
      <4>. QED
        BY <1>1, <2>3, <4>1, <4>2, <4>3 DEF InOnePlace
    <3>3. Cardinality(hands) = 0 /\ Cardinality(parts) = 1
      BY <3>1, <3>2, FS_Singleton, FS_EmptySet
    <3>. QED
      BY <3>3
  <2>. QED
    BY <2>2, <2>3
<1>. QED
  BY <1>2, <1>3, <1>4, Zenon DEF RxNodesPlaced, OneOwner

\* The lists, the readers and the losses never have a node twice, and the lists of the
\* filters agree with the used list; a message that was seen stays.  In overwrite mode as
\* well, until a stranded node is unlinked through links that are out of date.
THEOREM RxInvariance == RxSpec => [](RxInv /\ Apiece /\ SeenIsThere)
<1>1. RxInit => RxInv /\ Apiece /\ SeenIsThere
  BY RxInvInit
<1>2. RxInv /\ Apiece /\ SeenIsThere /\ [RxNext]_rxVars => RxInv' /\ Apiece' /\ SeenIsThere'
  BY RxInvStep
<1>. QED
  BY <1>1, <1>2, PTL DEF RxSpec

\* Type correctness of the receive half of the CAN driver.
THEOREM RxTypeCorrect == RxSpec => []RxTypeOK
<1>1. RxInv => RxTypeOK
  BY DEF RxInv
<1>. QED
  BY <1>1, RxInvariance, PTL

\* Every message node has one owner, and the used list and the lists of the filters
\* agree (hal_can_core.c, lines 486 to 697 and 1292 to 1335), but for the windows of the
\* allocation calls and until a stranded node is unlinked (lines 568 to 575).
THEOREM RxNodesPlacedHolds == RxSpec => []RxNodesPlaced
BY RxInvPlaces, RxInvariance, PTL

\* A message that a reader saw is still there when it takes it, but for overwriting,
\* a second reader of the filter or a filter that lost count.
THEOREM SeenIsThereHolds == RxSpec => []SeenIsThere
BY RxInvariance, PTL

-----------------------------------------------------------------------------
(* TimerNone: the clock *)

\* A sum of times, and the distance of two times, on the clock.
LEMMA ClockSum ==
    ASSUME NEW W \in Nat, NEW x \in 0..(W - 1), NEW y \in 0..(W - 1)
    PROVE  /\ (x + y) % W = IF x + y < W THEN x + y ELSE x + y - W
           /\ (x - y) % W = IF y <= x THEN x - y ELSE x - y + W
OBVIOUS

LEMMA InsertedList ==
    ASSUME NEW q \in Seq(Timers), IsInjective(q), NEW t \in Timers, t \notin ToSet(q), NEW dl
    PROVE  /\ Inserted(q, t, dl) \in Seq(Timers) /\ IsInjective(Inserted(q, t, dl))
           /\ ToSet(Inserted(q, t, dl)) = ToSet(q) \cup {t}
<1> DEFINE places == {i \in 1..Len(q) : After(dl[t], dl[q[i]])}
           k == SelectInSeq(q, LAMBDA u : After(dl[t], dl[u]))
<1>1. k = IF places # {} THEN Min(places) ELSE 0
  BY DEF SelectInSeq
<1>2. Inserted(q, t, dl) = IF k = 0 THEN Append(q, t) ELSE InsertAt(q, k, t)
  BY DEF Inserted
<1>3. places # {} => Min(places) \in places
  <2>1. places \in SUBSET Nat
    OBVIOUS
  <2>. QED
    BY <2>1, HasLeast DEF Min
<1>4. k = 0 \/ k \in 1..Len(q)
  BY <1>1, <1>3
<1> HIDE DEF k
<1>5. CASE k = 0
  BY <1>2, <1>5, AppendList
<1>6. CASE k # 0
  BY <1>2, <1>4, <1>6, InsertList
<1>. QED
  BY <1>5, <1>6

(* The invariant. *)

\* A refresh, and a callback, are not further behind the clock than the bound.
Prompt == at # "program" => Lag(now) <= MaxLag

\* A timer that was called back in this refresh, and was armed again or started since,
\* waits for a time that the refresh does not reach.
Later ==
    /\ at = "program" => called = {}
    /\ \A t \in called : t \in active => After(deadline[t], now)

\* The timer whose callback runs: if it is to be armed again it was not stopped.
Fired ==
    /\ firing # NoTimer <=> at = "callback"
    /\ at = "callback" /\ mode[firing] = "periodic" /\ firing \in valid \ suppress =>
         firing \in wanted \cup revived

Listed == IsInjective(queue) /\ ToSet(queue) = active /\ active \subseteq wanted \cup revived

TimerInv == TimerTypeOK /\ Prompt /\ Later /\ Fired /\ Listed

LEMMA ClockWide ==
    ASSUME NEW p \in Periods
    PROVE  p \in Nat /\ p > 0 /\ MaxLag \in Nat /\ ClockWidth \in Nat /\ 2 * (p + MaxLag) < ClockWidth
BY TimerAssumption

LEMMA PlusIsTime ==
    ASSUME NEW x \in Times, NEW p \in Periods
    PROVE  Plus(x, p) \in Times
<1>1. p \in Nat /\ p > 0 /\ MaxLag \in Nat /\ ClockWidth \in Nat /\ 2 * (p + MaxLag) < ClockWidth
  BY ClockWide
<1>2. x \in 0..(ClockWidth - 1) /\ p \in 0..(ClockWidth - 1)
  BY <1>1 DEF Times
<1>. QED
  BY <1>1, <1>2, ClockSum DEF Plus, Times

\* A deadline one period from a time not long after `from` is after `from`.
LEMMA PeriodIsAfter ==
    ASSUME NEW from \in Times, NEW x \in Times, NEW p \in Periods,
           (x - from) % ClockWidth <= MaxLag
    PROVE  After(Plus(x, p), from)
<1>1. p \in Nat /\ p > 0 /\ MaxLag \in Nat /\ ClockWidth \in Nat /\ 2 * (p + MaxLag) < ClockWidth
  BY ClockWide
<1>2. from \in 0..(ClockWidth - 1) /\ x \in 0..(ClockWidth - 1) /\ p \in 0..(ClockWidth - 1)
  BY <1>1 DEF Times
<1>3. (x - from) % ClockWidth = IF from <= x THEN x - from ELSE x - from + ClockWidth
  BY <1>1, <1>2, ClockSum
<1>4. PICK y : y = Plus(x, p)
  OBVIOUS
<1>5. y = (IF x + p < ClockWidth THEN x + p ELSE x + p - ClockWidth) /\ y \in 0..(ClockWidth - 1)
  <2>1. y = (x + p) % ClockWidth
    BY <1>4 DEF Plus
  <2>2. (x + p) % ClockWidth = IF x + p < ClockWidth THEN x + p ELSE x + p - ClockWidth
    BY <1>1, <1>2, ClockSum
  <2>. QED
    BY <1>1, <1>2, <2>1, <2>2
<1>6. (y - from) % ClockWidth = IF from <= y THEN y - from ELSE y - from + ClockWidth
  BY <1>1, <1>2, <1>5, ClockSum
<1>7. (y - from) % ClockWidth = ((x - from) % ClockWidth) + p
  BY <1>1, <1>2, <1>3, <1>5, <1>6
<1>. QED
  BY <1>1, <1>2, <1>3, <1>4, <1>7 DEF After

LEMMA TimerInvInit == TimerInit => TimerInv
<1> SUFFICES ASSUME TimerInit PROVE TimerInv
  OBVIOUS
<1>1. queue = << >> /\ queue \in Seq(Timers) /\ IsInjective(queue) /\ ToSet(queue) = {}
  BY DEF TimerInit, IsInjective, ToSet
<1>2. 0 \in Times
  BY TimerAssumption DEF TimerInit, Times
<1>3. TimerTypeOK
  BY <1>1, <1>2 DEF TimerInit, TimerTypeOK
<1>4. Prompt /\ Later /\ Fired /\ Listed
  BY <1>1, TimerAssumption DEF TimerInit, Prompt, Later, Fired, Listed
<1>. QED
  BY <1>3, <1>4 DEF TimerInv

LEMMA ClockTickKeeps ==
    ASSUME TimerInv, ClockTick
    PROVE  TimerInv'
<1>1. /\ clock' = Plus(clock, 1) /\ swept' = FALSE
      /\ at # "program" => Lag(now) < MaxLag
      /\ UNCHANGED <<queue, valid, active, suppress, deadline, mode, period, at, now, firing,
                     wanted, revived, called>>
  BY DEF ClockTick, settings, history
<1>2. TimerTypeOK /\ Prompt /\ Later /\ Fired /\ Listed
  BY DEF TimerInv
<1>3. /\ ClockWidth \in Nat /\ MaxLag \in Nat /\ 2 * MaxLag < ClockWidth
      /\ clock \in 0..(ClockWidth - 1) /\ now \in 0..(ClockWidth - 1)
  BY <1>2, TimerAssumption DEF TimerTypeOK, Times
<1>4. CASE ClockWidth = 1
  <2>1. MaxLag = 0 /\ Lag(now) = 0
    BY <1>2, <1>3, <1>4, ClockSum DEF Lag
  <2>2. at = "program"
    BY <1>1, <1>3, <2>1
  <2>3. clock' \in Times
    BY <1>1, <1>3, <1>4 DEF Plus, Times
  <2>4. TimerTypeOK'
    BY <1>1, <1>2, <2>3 DEF TimerTypeOK
  <2>. QED
    BY <1>1, <1>2, <2>2, <2>4 DEF TimerInv, Prompt, Later, Fired, Listed
<1>5. CASE ClockWidth > 1
  <2>1. 1 \in 0..(ClockWidth - 1)
    BY <1>3, <1>5
  <2>2. clock' = (IF clock + 1 < ClockWidth THEN clock + 1 ELSE clock + 1 - ClockWidth)
        /\ clock' \in 0..(ClockWidth - 1)
    BY <1>1, <1>3, <2>1, ClockSum DEF Plus
  <2>3. TimerTypeOK'
    BY <1>1, <1>2, <2>2 DEF TimerTypeOK, Times
  <2>4. Prompt'
    <3> SUFFICES ASSUME at # "program" PROVE (clock' - now) % ClockWidth <= MaxLag
      BY <1>1 DEF Prompt, Lag
    <3>1. (clock - now) % ClockWidth < MaxLag
      BY <1>1 DEF Lag
    <3>2. (clock - now) % ClockWidth = IF now <= clock THEN clock - now ELSE clock - now + ClockWidth
      BY <1>3, ClockSum
    <3>3. (clock' - now) % ClockWidth
            = IF now <= clock' THEN clock' - now ELSE clock' - now + ClockWidth
      BY <1>3, <2>2, ClockSum
    <3>. QED
      BY <1>3, <2>2, <3>1, <3>2, <3>3
  <2>. QED
    BY <1>1, <1>2, <2>3, <2>4 DEF TimerInv, Later, Fired, Listed
<1>. QED
  BY <1>3, <1>4, <1>5

\* A timer is started, by the program or by a callback.
LEMMA StartKeeps ==
    ASSUME TimerInv, NEW t \in Timers, Start(t)
    PROVE  TimerInv'
<1>1. /\ at \in {"program", "callback"} /\ t \in valid
      /\ deadline' = [deadline EXCEPT ![t] = Plus(clock, period[t])]
      /\ queue' = Inserted(Without(queue, t), t, deadline')
      /\ active' = active \cup {t} /\ suppress' = suppress \ {t}
      /\ wanted' = wanted \cup {t} /\ revived' = revived \ {t}
      /\ UNCHANGED <<clock, valid, mode, period, at, now, firing, called, swept>>
  BY DEF Start, May, settings
<1>2. TimerTypeOK /\ Prompt /\ Later /\ Fired /\ Listed
  BY DEF TimerInv
<1>3. period[t] \in Periods /\ clock \in Times /\ now \in Times
  BY <1>2 DEF TimerTypeOK
<1>4. Plus(clock, period[t]) \in Times
  BY <1>3, PlusIsTime
<1>5. /\ queue' \in Seq(Timers) /\ IsInjective(queue') /\ ToSet(queue') = active'
  <2>1. queue \in Seq(Timers) /\ IsInjective(queue) /\ ToSet(queue) = active
    BY <1>2 DEF TimerTypeOK, Listed
  <2>2. /\ Without(queue, t) \in Seq(Timers) /\ IsInjective(Without(queue, t))
        /\ ToSet(Without(queue, t)) = ToSet(queue) \ {t}
    BY <2>1, WithoutList
  <2>3. t \notin ToSet(Without(queue, t))
    BY <2>2
  <2>4. PICK rest : rest = Without(queue, t)
    OBVIOUS
  <2>5. /\ Inserted(rest, t, deadline') \in Seq(Timers)
        /\ IsInjective(Inserted(rest, t, deadline'))
        /\ ToSet(Inserted(rest, t, deadline')) = ToSet(rest) \cup {t}
    BY <2>2, <2>3, <2>4, InsertedList
  <2>. QED
    BY <1>1, <2>1, <2>2, <2>4, <2>5
<1>6. TimerTypeOK'
  <2>1. deadline' \in [Timers -> Times]
    BY <1>1, <1>2, <1>4 DEF TimerTypeOK
  <2>. QED
    BY <1>1, <1>2, <1>5, <2>1 DEF TimerTypeOK
<1>7. Prompt'
  BY <1>1, <1>2 DEF Prompt, Lag
<1>8. Later'
  <2> SUFFICES ASSUME at # "program", NEW u \in called, u \in active'
               PROVE  After(deadline'[u], now)
    BY <1>1, <1>2 DEF Later
  <2>1. CASE u = t
    <3>1. deadline'[u] = Plus(clock, period[t])
      BY <1>1, <1>2, <2>1 DEF TimerTypeOK
    <3>2. (clock - now) % ClockWidth <= MaxLag
      BY <1>2 DEF Prompt, Lag
    <3>. QED
      BY <1>3, <3>1, <3>2, PeriodIsAfter
  <2>2. CASE u # t
    <3>1. deadline'[u] = deadline[u] /\ u \in active
      BY <1>1, <1>2, <2>2 DEF TimerTypeOK
    <3>. QED
      BY <1>2, <3>1 DEF Later
  <2>. QED
    BY <2>1, <2>2
<1>9. Fired'
  BY <1>1, <1>2 DEF Fired
<1>10. Listed'
  BY <1>1, <1>2, <1>5 DEF Listed
<1>. QED
  BY <1>6, <1>7, <1>8, <1>9, <1>10 DEF TimerInv

\* A timer leaves the list, stopped or deleted.
LEMMA TimerLeaves ==
    ASSUME TimerInv, NEW t \in Timers
    PROVE  /\ Without(queue, t) \in Seq(Timers) /\ IsInjective(Without(queue, t))
           /\ ToSet(Without(queue, t)) = active \ {t}
<1>1. queue \in Seq(Timers) /\ IsInjective(queue) /\ ToSet(queue) = active
  BY DEF TimerInv, TimerTypeOK, Listed
<1>. QED
  BY <1>1, WithoutList

LEMMA StopKeeps ==
    ASSUME TimerInv, NEW t \in Timers, Stop(t)
    PROVE  TimerInv'
<1>1. /\ queue' = Without(queue, t) /\ active' = active \ {t}
      /\ suppress' = IF t \notin active /\ firing = t THEN suppress \cup {t} ELSE suppress
      /\ wanted' = wanted \ {t}
      /\ revived' = IF firing = t /\ t \in active THEN revived \cup {t} ELSE revived \ {t}
      /\ UNCHANGED <<clock, valid, deadline, mode, period, at, now, firing, called, swept>>
  BY DEF Stop, settings
<1>2. TimerTypeOK /\ Prompt /\ Later /\ Fired /\ Listed
  BY DEF TimerInv
<1>3. queue' \in Seq(Timers) /\ IsInjective(queue') /\ ToSet(queue') = active'
  BY <1>1, TimerLeaves
<1>4. TimerTypeOK'
  BY <1>1, <1>2, <1>3 DEF TimerTypeOK
<1>5. Prompt' /\ Later'
  BY <1>1, <1>2 DEF Prompt, Later, Lag
<1>6. Fired'
  <2>1. (firing # NoTimer <=> at = "callback")'
    BY <1>1, <1>2 DEF Fired
  <2>2. ASSUME at = "callback", mode[firing] = "periodic", firing \in valid \ suppress'
        PROVE  firing \in wanted' \cup revived'
    <3>1. firing \in valid \ suppress
      BY <1>1, <2>2
    <3>2. firing \in wanted \cup revived
      BY <1>2, <2>2, <3>1 DEF Fired
    <3>3. CASE firing = t
      BY <1>1, <2>2, <3>3
    <3>4. CASE firing # t
      BY <1>1, <3>2, <3>4
    <3>. QED
      BY <3>3, <3>4
  <2>. QED
    BY <1>1, <2>1, <2>2 DEF Fired
<1>7. Listed'
  BY <1>1, <1>2, <1>3 DEF Listed
<1>. QED
  BY <1>4, <1>5, <1>6, <1>7 DEF TimerInv

LEMMA DeleteKeeps ==
    ASSUME TimerInv, NEW t \in Timers, Delete(t)
    PROVE  TimerInv'
<1>1. /\ queue' = Without(queue, t) /\ active' = active \ {t} /\ valid' = valid \ {t}
      /\ wanted' = wanted \ {t} /\ revived' = revived \ {t}
      /\ UNCHANGED <<clock, suppress, deadline, mode, period, at, now, firing, called, swept>>
  BY DEF Delete, settings
<1>2. TimerTypeOK /\ Prompt /\ Later /\ Fired /\ Listed
  BY DEF TimerInv
<1>3. queue' \in Seq(Timers) /\ IsInjective(queue') /\ ToSet(queue') = active'
  BY <1>1, TimerLeaves
<1>4. TimerTypeOK'
  BY <1>1, <1>2, <1>3 DEF TimerTypeOK
<1>5. Prompt' /\ Later' /\ Fired'
  BY <1>1, <1>2 DEF Prompt, Later, Lag, Fired
<1>6. Listed'
  BY <1>1, <1>2, <1>3 DEF Listed
<1>. QED
  BY <1>4, <1>5, <1>6 DEF TimerInv

LEMMA RefreshKeeps ==
    ASSUME TimerInv, Refresh
    PROVE  TimerInv'
<1>1. /\ at = "program" /\ at' = "refresh" /\ now' = clock
      /\ UNCHANGED <<clock, queue, valid, active, suppress, deadline, mode, period, firing,
                     wanted, revived, called, swept>>
  BY DEF Refresh, settings, history
<1>2. TimerTypeOK /\ Later /\ Fired /\ Listed
  BY DEF TimerInv
<1>3. Prompt'
  <2>1. ClockWidth \in Nat /\ MaxLag \in Nat /\ clock \in 0..(ClockWidth - 1)
    BY <1>2, TimerAssumption DEF TimerTypeOK, Times
  <2>2. (clock - clock) % ClockWidth = 0
    BY <2>1, ClockSum
  <2>. QED
    BY <1>1, <2>1, <2>2 DEF Prompt, Lag
<1>4. TimerTypeOK' /\ Later' /\ Fired' /\ Listed'
  BY <1>1, <1>2, TimerAssumption DEF TimerTypeOK, Later, Fired, Listed
<1>. QED
  BY <1>3, <1>4 DEF TimerInv

LEMMA FireKeeps ==
    ASSUME TimerInv, Fire
    PROVE  TimerInv'
<1> DEFINE t == Head(queue)
<1>1. /\ at = "refresh" /\ Due /\ at' = "callback" /\ firing' = t /\ queue' = Tail(queue)
      /\ active' = active \ {t} /\ suppress' = suppress \ {t}
      /\ called' = called \cup {t}
      /\ wanted' = IF mode[t] = "periodic" THEN wanted ELSE wanted \ {t}
      /\ UNCHANGED <<clock, valid, deadline, mode, period, now, revived, swept>>
  BY DEF Fire, settings
<1>2. TimerTypeOK /\ Prompt /\ Later /\ Fired /\ Listed
  BY DEF TimerInv
<1>3. queue # << >>
  BY <1>1 DEF Due
<1>4. /\ queue' \in Seq(Timers) /\ IsInjective(queue') /\ t \in Timers /\ t \in active
      /\ ToSet(queue') = active'
  <2>1. queue \in Seq(Timers) /\ IsInjective(queue) /\ ToSet(queue) = active
    BY <1>2 DEF TimerTypeOK, Listed
  <2>2. /\ Tail(queue) \in Seq(Timers) /\ IsInjective(Tail(queue))
        /\ t \in Timers /\ t \in ToSet(queue) /\ ToSet(Tail(queue)) = ToSet(queue) \ {t}
    BY <1>3, <2>1, TailList
  <2>. QED
    BY <1>1, <2>1, <2>2
<1> HIDE DEF t
<1>5. TimerTypeOK'
  BY <1>1, <1>2, <1>4 DEF TimerTypeOK
<1>6. Prompt' /\ Later'
  BY <1>1, <1>2 DEF Prompt, Later, Lag
<1>7. Fired'
  <2>1. t # NoTimer
    BY <1>4, TimerAssumption
  <2>2. t \in wanted \cup revived
    BY <1>2, <1>4 DEF Listed
  <2>. QED
    BY <1>1, <2>1, <2>2 DEF Fired
<1>8. Listed'
  BY <1>1, <1>2, <1>4 DEF Listed
<1>. QED
  BY <1>5, <1>6, <1>7, <1>8 DEF TimerInv

LEMMA CallbackReturnsKeeps ==
    ASSUME TimerInv, CallbackReturns
    PROVE  TimerInv'
<1> DEFINE t == firing
<1>1. /\ at = "callback" /\ at' = "refresh" /\ firing' = NoTimer
      /\ UNCHANGED <<clock, valid, suppress, mode, period, now, wanted, revived, called, swept>>
  BY DEF CallbackReturns, settings, history
<1>2. TimerTypeOK /\ Prompt /\ Later /\ Fired /\ Listed
  BY DEF TimerInv
<1>3. Prompt' /\ Fired'
  BY <1>1, <1>2 DEF Prompt, Lag, Fired
<1>4. CASE ~Rearms
  <2>1. UNCHANGED <<deadline, active, queue>>
    BY <1>4 DEF CallbackReturns
  <2>2. TimerTypeOK' /\ Later' /\ Listed'
    BY <1>1, <1>2, <2>1 DEF TimerTypeOK, Later, Listed
  <2>. QED
    BY <1>3, <2>2 DEF TimerInv
<1>5. CASE Rearms
  <2>1. /\ deadline' = [deadline EXCEPT ![t] = NextDeadline]
        /\ active' = active \cup {t} /\ queue' = Inserted(queue, t, deadline')
    BY <1>5 DEF CallbackReturns
  <2>2. /\ mode[t] = "periodic" /\ t \in valid /\ t \notin suppress /\ t \notin active
    BY <1>5 DEF Rearms
  <2>3. /\ t \in Timers /\ period[t] \in Periods /\ now \in Times /\ deadline[t] \in Times
    BY <1>2, <2>2 DEF TimerTypeOK
  <2>4. NextDeadline \in Times /\ After(NextDeadline, now)
    <3>1. Plus(deadline[t], period[t]) \in Times /\ Plus(now, period[t]) \in Times
      BY <2>3, PlusIsTime
    <3>2. After(Plus(now, period[t]), now)
      <4>1. ClockWidth \in Nat /\ MaxLag \in Nat /\ now \in 0..(ClockWidth - 1)
        BY <2>3, TimerAssumption DEF Times
      <4>2. (now - now) % ClockWidth <= MaxLag
        BY <4>1, ClockSum
      <4>. QED
        BY <2>3, <4>2, PeriodIsAfter
    <3>. QED
      BY <3>1, <3>2 DEF NextDeadline
  <2>5. queue' \in Seq(Timers) /\ IsInjective(queue') /\ ToSet(queue') = active'
    <3>1. /\ queue \in Seq(Timers) /\ IsInjective(queue) /\ ToSet(queue) = active
      BY <1>2 DEF TimerTypeOK, Listed
    <3>2. t \notin ToSet(queue)
      BY <2>2, <3>1
    <3>3. PICK u : u = t
      OBVIOUS
    <3>4. /\ Inserted(queue, u, deadline') \in Seq(Timers)
          /\ IsInjective(Inserted(queue, u, deadline'))
          /\ ToSet(Inserted(queue, u, deadline')) = ToSet(queue) \cup {u}
      BY <2>3, <3>1, <3>2, <3>3, InsertedList
    <3>. QED
      BY <2>1, <3>1, <3>3, <3>4
  <2>6. TimerTypeOK'
    <3>1. deadline' \in [Timers -> Times] /\ active' \subseteq Timers
      BY <1>2, <2>1, <2>3, <2>4 DEF TimerTypeOK
    <3>. QED
      BY <1>1, <1>2, <2>5, <3>1 DEF TimerTypeOK
  <2>7. Later'
    <3>1. \A u \in Timers : deadline'[u] = IF u = t THEN NextDeadline ELSE deadline[u]
      BY <1>2, <2>1 DEF TimerTypeOK
    <3>2. called \subseteq Timers
      BY <1>2 DEF TimerTypeOK
    <3>. QED
      BY <1>1, <1>2, <2>1, <2>4, <3>1, <3>2 DEF Later
  <2>8. Listed'
    <3>1. t \in wanted \cup revived
      BY <1>1, <1>2, <2>2 DEF Fired
    <3>. QED
      BY <1>1, <1>2, <2>1, <2>5, <3>1 DEF Listed
  <2>. QED
    BY <1>3, <2>6, <2>7, <2>8 DEF TimerInv
<1>. QED
  BY <1>4, <1>5

LEMMA RefreshReturnsKeeps ==
    ASSUME TimerInv, RefreshReturns
    PROVE  TimerInv'
<1>1. /\ at = "refresh" /\ at' = "program" /\ swept' = (clock = now)
      /\ now' = 0 /\ called' = {}
      /\ UNCHANGED <<clock, queue, valid, active, suppress, deadline, mode, period, firing,
                     wanted, revived>>
  BY Zenon DEF RefreshReturns, settings
<1>2. TimerTypeOK /\ Fired /\ Listed
  BY DEF TimerInv
<1>3. TimerTypeOK'
  <2>1. swept' \in BOOLEAN
    BY <1>1
  <2>2. 0 \in Times
    BY <1>2, TimerAssumption DEF TimerTypeOK, Times
  <2>. QED
    BY <1>1, <1>2, <2>1, <2>2 DEF TimerTypeOK
<1>4. Prompt' /\ Later' /\ Fired' /\ Listed'
  BY <1>1, <1>2 DEF Prompt, Later, Fired, Listed
<1>. QED
  BY <1>3, <1>4 DEF TimerInv

LEMMA TimerInvStep ==
    ASSUME TimerInv, [TimerNext]_tmVars
    PROVE  TimerInv'
<1>1. CASE UNCHANGED tmVars
  BY <1>1 DEF TimerInv, TimerTypeOK, Prompt, Later, Fired, Listed, Lag, tmVars, settings, history
<1>. QED
  BY <1>1, ClockTickKeeps, StartKeeps, StopKeeps, DeleteKeeps, RefreshKeeps, FireKeeps,
     CallbackReturnsKeeps, RefreshReturnsKeeps DEF TimerNext

LEMMA TimersAreQuiet == TimerInv => QuietTimers
<1> SUFFICES ASSUME TimerInv PROVE QuietTimers
  OBVIOUS
<1>1. TimerTypeOK /\ Later /\ Listed
  BY DEF TimerInv
<1>2. ASSUME at = "refresh", Due PROVE Head(queue) \notin called
  <2>1. queue # << >> /\ ~After(deadline[Head(queue)], now)
    BY <1>2 DEF Due
  <2>2. Head(queue) \in active
    BY <1>1, <2>1, TailList DEF TimerTypeOK, Listed
  <2>. QED
    BY <1>1, <2>1, <2>2 DEF Later
<1>. QED
  BY <1>1, <1>2 DEF QuietTimers, Listed

\* The inductive invariant: the list and the flags, and what keeps the loop of a
\* refresh from going round for ever.
THEOREM TimerInvariance == TimerSpec => []TimerInv
<1>1. TimerInit => TimerInv
  BY TimerInvInit
<1>2. TimerInv /\ [TimerNext]_tmVars => TimerInv'
  BY TimerInvStep
<1>. QED
  BY <1>1, <1>2, PTL DEF TimerSpec

\* Type correctness of the timers.
THEOREM TimerTypeCorrect == TimerSpec => []TimerTypeOK
<1>1. TimerInv => TimerTypeOK
  BY DEF TimerInv
<1>. QED
  BY <1>1, TimerInvariance, PTL

\* A timer in the list is active, is there once and was started and not stopped since,
\* but for the exception QuietTimers names; no timer is called back twice in one refresh
\* (osal_timer_none.c, lines 63 to 213).
THEOREM QuietTimersHolds == TimerSpec => []QuietTimers
BY TimersAreQuiet, TimerInvariance, PTL

=============================================================================
