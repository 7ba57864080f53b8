---------------------------- MODULE TxPoolProofs ----------------------------
(***************************************************************************)
(* Proofs about the memory pool, the orphan transactions and the blocks    *)
(* of the staking thread (TxPool), for every set of transactions and every *)
(* chain.                                                                  *)
(***************************************************************************)
EXTENDS TxPool, FiniteSetTheorems, WellFoundedInduction, TLAPS

(* Naturals are well ordered.                                              *)
LEMMA Smallest ==
  ASSUME NEW S \in SUBSET Nat, S # {}
  PROVE  \E x \in S : \A y \in S : x <= y
  <1>1. PICK x \in S : \A y \in S : ~(<<y, x>> \in OpToRel(<, Nat))
    BY NatLessThanWellFounded, WFMin, Zenon
  <1>2. \A y \in S : ~(y < x)
    BY <1>1 DEF OpToRel
  <1> QED BY <1>2

-----------------------------------------------------------------------------
(* The pool: mapNextTx is exactly the spends of mapTx.                     *)

Good(p) ==
  /\ p.tx \in SUBSET Tx
  /\ DOMAIN p.next = Spends(p.tx)
  /\ \A t \in p.tx : \A o \in InSet(t) : p.next[o] = t

(* A transaction that spends nothing the pool spends can be added.         *)
LEMMA AddGood ==
  ASSUME NEW p, Good(p), NEW t \in Tx, InSet(t) \cap DOMAIN p.next = {}
  PROVE  /\ Good(addUnchecked(p, t))
         /\ addUnchecked(p, t).tx = p.tx \cup {t}
  <1> DEFINE q == addUnchecked(p, t)
  <1>1. /\ q.tx = p.tx \cup {t}
        /\ DOMAIN q.next = DOMAIN p.next \cup InSet(t)
        /\ \A o \in DOMAIN p.next \cup InSet(t) :
             q.next[o] = IF o \in InSet(t) THEN t ELSE p.next[o]
    BY DEF addUnchecked
  <1> HIDE DEF q
  <1>2. q.tx \in SUBSET Tx
    BY <1>1 DEF Good
  <1>3. DOMAIN q.next = Spends(q.tx)
    BY <1>1 DEF Good, Spends
  <1>4. ASSUME NEW u \in q.tx, NEW o \in InSet(u) PROVE q.next[o] = u
    <2>1. CASE u = t
      BY <1>1, <2>1
    <2>2. CASE u \in p.tx
      <3>1. o \in DOMAIN p.next /\ p.next[o] = u
        BY <2>2 DEF Good, Spends
      <3>2. o \notin InSet(t)
        BY <3>1
      <3> QED BY <1>1, <3>1, <3>2
    <2> QED BY <1>1, <2>1, <2>2
  <1> QED BY <1>1, <1>2, <1>3, <1>4 DEF q, Good

(* Any transactions can be removed.                                        *)
LEMMA EraseGood ==
  ASSUME NEW p, Good(p), NEW S
  PROVE  Good(Erase(p, S)) /\ Erase(p, S).tx = p.tx \ S
  <1> DEFINE q == Erase(p, S)
  <1>1. /\ q.tx = p.tx \ S
        /\ DOMAIN q.next = DOMAIN p.next \ Spends(p.tx \cap S)
        /\ \A o \in DOMAIN q.next : q.next[o] = p.next[o]
    BY DEF Erase
  <1> HIDE DEF q
  <1>2. ASSUME NEW o, o \in Spends(p.tx \ S) PROVE o \in DOMAIN q.next
    <2>1. PICK t \in p.tx \ S : o \in InSet(t)
      BY <1>2 DEF Spends
    <2>2. o \in DOMAIN p.next /\ p.next[o] = t
      BY <2>1 DEF Good, Spends
    <2>3. ASSUME NEW u \in p.tx \cap S, o \in InSet(u) PROVE FALSE
      <3>1. p.next[o] = u
        BY <2>3 DEF Good
      <3> QED BY <2>1, <2>2, <3>1
    <2>4. o \notin Spends(p.tx \cap S)
      BY <2>3 DEF Spends
    <2> QED BY <1>1, <2>2, <2>4
  <1>3. ASSUME NEW o \in DOMAIN q.next PROVE o \in Spends(p.tx \ S)
    <2>1. o \in Spends(p.tx) /\ o \notin Spends(p.tx \cap S)
      BY <1>1 DEF Good
    <2> QED BY <2>1 DEF Spends
  <1>4. DOMAIN q.next = Spends(q.tx)
    BY <1>1, <1>2, <1>3
  <1>5. ASSUME NEW t \in q.tx, NEW o \in InSet(t) PROVE q.next[o] = t
    <2>1. o \in DOMAIN q.next
      BY <1>4 DEF Spends
    <2>2. t \in p.tx
      BY <1>1
    <2> QED BY <1>1, <2>1, <2>2 DEF Good
  <1> QED BY <1>1, <1>4, <1>5 DEF q, Good

(* Neither does removing a confirmed transaction and its conflicts break   *)
(* the pool.                                                               *)
LEMMA ConfirmGood ==
  ASSUME NEW p, Good(p), NEW t
  PROVE  LET q == removeConflicts(remove(p, t), t)
         IN Good(q) /\ q.tx \subseteq p.tx \ {t}
  <1> DEFINE r == remove(p, t)
  <1>1. Good(r) /\ r.tx = p.tx \ {t}
    BY EraseGood DEF remove
  <1> HIDE DEF r
  <1> DEFINE D == Descendants(r, {r.next[o] : o \in InSet(t) \cap DOMAIN r.next} \ {t})
  <1>2. removeConflicts(r, t) = Erase(r, D)
    BY DEF removeConflicts, removeRecursive
  <1> HIDE DEF D
  <1>3. Good(Erase(r, D)) /\ Erase(r, D).tx = r.tx \ D
    BY <1>1, EraseGood
  <1> QED BY <1>1, <1>2, <1>3 DEF r

(* AcceptToMemoryPool adds at most the transaction, if it is not confirmed. *)
LEMMA AcceptGood ==
  ASSUME NEW p, Good(p), NEW t \in Tx, NEW c
  PROVE  LET q == AcceptToMemoryPool(c, p, t)
         IN /\ Good(q) /\ p.tx \subseteq q.tx
            /\ q.tx \cap Txs(c) \subseteq p.tx
  <1>1. CASE Accepts(c, p, t)
    <2>1. InSet(t) \cap DOMAIN p.next = {} /\ t \notin Txs(c)
      BY <1>1 DEF Accepts, Refused, ContainsTx
    <2>2. Good(addUnchecked(p, t)) /\ addUnchecked(p, t).tx = p.tx \cup {t}
      BY <2>1, AddGood
    <2> QED BY <1>1, <2>1, <2>2 DEF AcceptToMemoryPool
  <1>2. CASE ~Accepts(c, p, t)
    BY <1>2 DEF AcceptToMemoryPool
  <1> QED BY <1>1, <1>2

-----------------------------------------------------------------------------
(* The loops of the module are recursive functions on intervals.  Each is  *)
(* the solution of an equation, which exists.                              *)

LoopStep(k, q, x, c) ==
  IF k = "resurrect" THEN AcceptToMemoryPool(c, q, x)
  ELSE IF k = "delete" THEN removeConflicts(remove(q, x), x)
  ELSE IF k = "flatten" THEN q \o x.vtx
  ELSE IF q.todo = << >> THEN q ELSE TryOrphan(q)

Loop(f, k, lo, n, a, s, c) ==
  f = [i \in lo .. n |-> IF i = lo THEN a ELSE LoopStep(k, f[i - 1], s[i], c)]

(* The equation has a solution for every length.                           *)
LEMMA LoopExists ==
  ASSUME NEW k, NEW lo \in Nat, NEW n \in Nat, NEW a, NEW s, NEW c
  PROVE  \E f : Loop(f, k, lo, n, a, s, c)
  <1> DEFINE Has(m) == \E f : Loop(f, k, lo, m, a, s, c)
  <1>1. Has(0)
    <2> DEFINE f == [i \in lo .. 0 |-> a]
    <2>1. \A i \in lo .. 0 : i = lo
      OBVIOUS
    <2>2. Loop(f, k, lo, 0, a, s, c)
      BY <2>1 DEF Loop
    <2> QED BY <2>2
  <1>2. ASSUME NEW m \in Nat, Has(m) PROVE Has(m + 1)
    <2>1. PICK f : Loop(f, k, lo, m, a, s, c)
      BY <1>2
    <2> DEFINE g == [i \in lo .. m + 1 |-> IF i = lo THEN a ELSE LoopStep(k, f[i - 1], s[i], c)]
    <2>2. \A i \in lo .. m : g[i] = f[i]
      BY <2>1 DEF Loop
    <2>a. \A i \in lo .. m + 1 : i # lo => i - 1 \in lo .. m
      OBVIOUS
    <2>3. \A i \in lo .. m + 1 : i # lo => g[i - 1] = f[i - 1]
      <3> HIDE DEF g
      <3> QED BY <2>2, <2>a
    <2>4. Loop(g, k, lo, m + 1, a, s, c)
      BY <2>3 DEF Loop
    <2> QED BY <2>4
  <1>3. ASSUME ~Has(n) PROVE FALSE
    <2> DEFINE B == {m \in Nat : ~Has(m)}
    <2> HIDE DEF Has
    <2>1. PICK m \in B : \A j \in B : m <= j
      BY <1>3, Smallest
    <2>2. m # 0 /\ m - 1 \in Nat /\ m - 1 \notin B
      BY <1>1, <2>1
    <2>3. Has((m - 1) + 1)
      BY <1>2, <2>2
    <2> QED BY <2>1, <2>2, <2>3
  <1> QED BY <1>3

(* A set of numbers between two that has the first one, and with a number  *)
(* the next one, has them all.                                             *)
LEMMA Throughout ==
  ASSUME NEW lo \in Nat, NEW n \in Nat, NEW S, lo \in S,
         \A i \in lo .. n : i # lo /\ i - 1 \in S => i \in S
  PROVE  \A i \in lo .. n : i \in S
  <1> SUFFICES ASSUME NEW i \in lo .. n, i \notin S PROVE FALSE
    OBVIOUS
  <1> DEFINE B == {j \in lo .. n : j \notin S}
  <1>1. B \in SUBSET Nat /\ B # {}
    OBVIOUS
  <1>2. PICK m \in B : \A j \in B : m <= j
    BY <1>1, Smallest
  <1>3. m # lo /\ m - 1 \in lo .. n /\ m - 1 \notin B
    BY <1>2
  <1> QED BY <1>2, <1>3

(* Resurrecting transactions keeps the pool exact, and adds none that the  *)
(* new chain has.                                                          *)
LEMMA ResurrectGood ==
  ASSUME NEW p, Good(p), NEW s \in Seq(Tx), NEW c
  PROVE  LET q == Resurrect(c, p, s)
         IN Good(q) /\ q.tx \cap Txs(c) \subseteq p.tx /\ p.tx \subseteq q.tx
  <1> DEFINE Eq(f) == f = [i \in 0 .. Len(s) |->
                             IF i = 0 THEN p ELSE AcceptToMemoryPool(c, f[i - 1], s[i])]
  <1> DEFINE f == CHOOSE g : Eq(g)
  <1>1. Resurrect(c, p, s) = f[Len(s)]
    BY DEF Resurrect
  <1>2. Len(s) \in Nat /\ \A i \in 1 .. Len(s) : s[i] \in Tx
    OBVIOUS
  <1>3. \E g : Eq(g)
    <2>1. PICK g : Loop(g, "resurrect", 0, Len(s), p, s, c)
      BY <1>2, LoopExists
    <2>2. Eq(g)
      BY <2>1 DEF Loop, LoopStep
    <2> QED BY <2>2
  <1>4. Eq(f)
    BY <1>3, Zenon
  <1> HIDE DEF f
  <1> DEFINE OK(q) == Good(q) /\ q.tx \cap Txs(c) \subseteq p.tx /\ p.tx \subseteq q.tx
  <1> DEFINE S == {i \in 0 .. Len(s) : OK(f[i])}
  <1>5. 0 \in S
    BY <1>2, <1>4
  <1>6. ASSUME NEW i \in 0 .. Len(s), i # 0, i - 1 \in S PROVE i \in S
    <2>1. f[i] = AcceptToMemoryPool(c, f[i - 1], s[i])
      BY <1>4, <1>6
    <2>2. s[i] \in Tx /\ OK(f[i - 1])
      BY <1>2, <1>6
    <2> DEFINE q == f[i - 1]
    <2> HIDE DEF q
    <2>3. OK(AcceptToMemoryPool(c, q, s[i]))
      BY <2>2, AcceptGood DEF q
    <2> QED BY <2>1, <2>3 DEF q
  <1> HIDE DEF OK
  <1>a. \A i \in 0 .. Len(s) : i # 0 /\ i - 1 \in S => i \in S
    BY <1>6
  <1>b. 0 \in Nat /\ Len(s) \in 0 .. Len(s)
    BY <1>2
  <1> HIDE DEF S
  <1>c. Len(s) \in S
    BY <1>2, <1>5, <1>a, <1>b, Throughout
  <1>8. OK(f[Len(s)])
    BY <1>c DEF S
  <1> QED BY <1>1, <1>8 DEF OK

(* Deleting transactions keeps the pool exact, and leaves none of them.    *)
LEMMA DeleteGood ==
  ASSUME NEW p, Good(p), NEW s \in Seq(Tx)
  PROVE  LET q == Delete(p, s)
         IN Good(q) /\ q.tx \subseteq p.tx /\ q.tx \cap Range(s) = {}
  <1> DEFINE Eq(f) == f = [i \in 0 .. Len(s) |->
                             IF i = 0 THEN p
                             ELSE removeConflicts(remove(f[i - 1], s[i]), s[i])]
  <1> DEFINE f == CHOOSE g : Eq(g)
  <1>1. Delete(p, s) = f[Len(s)]
    BY DEF Delete
  <1>2. Len(s) \in Nat /\ DOMAIN s = 1 .. Len(s)
    OBVIOUS
  <1>3. \E g : Eq(g)
    <2>1. PICK g : Loop(g, "delete", 0, Len(s), p, s, {})
      BY <1>2, LoopExists
    <2>2. Eq(g)
      BY <2>1 DEF Loop, LoopStep
    <2> QED BY <2>2
  <1>4. Eq(f)
    BY <1>3, Zenon
  <1> HIDE DEF f
  <1> DEFINE OK(q, i) == Good(q) /\ q.tx \subseteq p.tx /\ \A j \in 1 .. i : s[j] \notin q.tx
  <1> DEFINE S == {i \in 0 .. Len(s) : OK(f[i], i)}
  <1>5. 0 \in S
    BY <1>2, <1>4
  <1>6. ASSUME NEW i \in 0 .. Len(s), i # 0, i - 1 \in S PROVE i \in S
    <2>1. f[i] = removeConflicts(remove(f[i - 1], s[i]), s[i])
      BY <1>4, <1>6
    <2> DEFINE q == f[i - 1]
    <2>2. OK(q, i - 1)
      BY <1>6
    <2> HIDE DEF q
    <2> DEFINE r == removeConflicts(remove(q, s[i]), s[i])
    <2>3. Good(r) /\ r.tx \subseteq q.tx \ {s[i]}
      BY <2>2, ConfirmGood
    <2> HIDE DEF r
    <2>4. \A j \in 1 .. i : j = i \/ j \in 1 .. i - 1
      BY <1>2
    <2>5. OK(r, i)
      BY <2>2, <2>3, <2>4
    <2> QED BY <2>1, <2>5 DEF q, r
  <1> HIDE DEF OK
  <1>a. \A i \in 0 .. Len(s) : i # 0 /\ i - 1 \in S => i \in S
    BY <1>6
  <1>b. 0 \in Nat /\ Len(s) \in 0 .. Len(s)
    BY <1>2
  <1> HIDE DEF S
  <1>c. Len(s) \in S
    BY <1>2, <1>5, <1>a, <1>b, Throughout
  <1>8. OK(f[Len(s)], Len(s))
    BY <1>c DEF S
  <1> QED BY <1>1, <1>2, <1>8 DEF OK, Range

-----------------------------------------------------------------------------
(* Sequences of transactions and of orphans.                                                   *)

(* Listed enumerates a finite set.                                       *)
LEMMA ListedIs ==
  ASSUME NEW T, NEW S \in SUBSET T, IsFiniteSet(S)
  PROVE  /\ Listed(S) \in Seq(T)
         /\ Len(Listed(S)) = Cardinality(S)
         /\ Range(Listed(S)) = S
  <1> DEFINE n == Cardinality(S)
  <1> DEFINE f == Listed(S)
  <1>1. n \in Nat /\ ExistsBijection(1 .. n, S)
    BY FS_CardinalityType
  <1>2. \E g \in [1 .. n -> S] : IsInjective(g)
    BY <1>1 DEF ExistsBijection, Bijection, Injection
  <1>3. f \in [1 .. n -> S] /\ IsInjective(f)
    BY <1>2 DEF Listed
  <1>4. f \in Injection(1 .. n, S)
    BY <1>3 DEF Injection
  <1>5. Cardinality(1 .. n) = Cardinality(S)
    BY <1>1, FS_Interval
  <1> HIDE DEF f
  <1>6. f \in Surjection(1 .. n, S)
    BY <1>4, <1>5, FS_Injection
  <1>7. Range(f) = S
    BY <1>3, <1>6 DEF Range, Surjection
  <1>8. f \in Seq(T) /\ Len(f) = n
    <2> HIDE DEF n
    <2> QED BY <1>1, <1>3
  <1> QED BY <1>7, <1>8 DEF f

(* A sequence of elements of S, which all are elements of T.               *)
LEMMA Longer ==
  ASSUME NEW S, NEW T, S \subseteq T, NEW s \in Seq(S)
  PROVE  s \in Seq(T)
  OBVIOUS

(* What is in a sequence is its head or in its tail.                       *)
LEMMA HeadTail ==
  ASSUME NEW S, NEW s \in Seq(S), s # << >>
  PROVE  /\ Head(s) \in S /\ Tail(s) \in Seq(S) /\ Len(Tail(s)) = Len(s) - 1
         /\ Len(s) \in Nat /\ Len(s) >= 1
         /\ \A u \in Range(s) : u = Head(s) \/ u \in Range(Tail(s))
  <1>1. /\ Head(s) \in S /\ Tail(s) \in Seq(S) /\ Len(Tail(s)) = Len(s) - 1
        /\ Len(s) \in Nat /\ Len(s) >= 1 /\ Head(s) = s[1]
        /\ \A i \in 1 .. Len(s) - 1 : Tail(s)[i] = s[i + 1]
    OBVIOUS
  <1>2. ASSUME NEW i \in DOMAIN s PROVE s[i] = Head(s) \/ s[i] \in Range(Tail(s))
    <2>1. CASE i = 1
      BY <1>1, <2>1
    <2>2. CASE i # 1
      <3>1. DOMAIN Tail(s) = 1 .. Len(s) - 1 /\ i - 1 \in 1 .. Len(s) - 1
        BY <1>1, <2>2
      <3>2. Tail(s)[i - 1] = s[i]
        BY <1>1, <3>1
      <3> QED BY <3>1, <3>2 DEF Range
    <2> QED BY <2>1, <2>2
  <1> QED BY <1>1, <1>2 DEF Range

(* A concatenation has what its parts have.                                *)
LEMMA ConcatSet ==
  ASSUME NEW S, NEW a \in Seq(S), NEW b \in Seq(S)
  PROVE  /\ a \o b \in Seq(S) /\ Len(a \o b) = Len(a) + Len(b)
         /\ Range(a \o b) = Range(a) \cup Range(b)
  <1>1. /\ a \o b \in Seq(S) /\ Len(a \o b) = Len(a) + Len(b)
        /\ Len(a) \in Nat /\ Len(b) \in Nat
        /\ DOMAIN a = 1 .. Len(a) /\ DOMAIN b = 1 .. Len(b)
        /\ DOMAIN (a \o b) = 1 .. Len(a) + Len(b)
        /\ \A i \in 1 .. Len(a) + Len(b) :
             (a \o b)[i] = IF i <= Len(a) THEN a[i] ELSE b[i - Len(a)]
    OBVIOUS
  <1> DEFINE c == a \o b
  <1>2. ASSUME NEW i \in DOMAIN a PROVE a[i] \in Range(c)
    <2>1. i \in DOMAIN c /\ c[i] = a[i]
      BY <1>1
    <2> QED BY <2>1 DEF Range
  <1>3. ASSUME NEW i \in DOMAIN b PROVE b[i] \in Range(c)
    <2>1. i + Len(a) \in DOMAIN c /\ c[i + Len(a)] = b[i]
      BY <1>1
    <2> QED BY <2>1 DEF Range
  <1>4. ASSUME NEW i \in DOMAIN c PROVE c[i] \in Range(a) \cup Range(b)
    <2>1. CASE i <= Len(a)
      <3>1. i \in DOMAIN a /\ c[i] = a[i]
        BY <1>1, <2>1
      <3> QED BY <3>1 DEF Range
    <2>2. CASE ~(i <= Len(a))
      <3>1. i - Len(a) \in DOMAIN b /\ c[i] = b[i - Len(a)]
        BY <1>1, <2>2
      <3> QED BY <3>1 DEF Range
    <2> QED BY <2>1, <2>2
  <1> HIDE DEF c
  <1>5. Range(c) = Range(a) \cup Range(b)
    BY <1>2, <1>3, <1>4 DEF Range
  <1> QED BY <1>1, <1>5 DEF c

(* The transactions of the disconnected blocks are transactions.           *)
LEMMA ResurrectSeq ==
  ASSUME Len(chain) \in Nat, NEW h \in 0 .. Len(chain),
         \A i \in 1 .. Len(chain) : chain[i].vtx \in Seq(Tx)
  PROVE  vResurrect(h) \in Seq(Tx)
  <1> DEFINE Eq(f) == f = [i \in h .. Len(chain) |->
                             IF i = h THEN << >> ELSE f[i - 1] \o chain[i].vtx]
  <1> DEFINE f == CHOOSE g : Eq(g)
  <1>1. vResurrect(h) = f[Len(chain)]
    BY DEF vResurrect
  <1>2. h \in Nat /\ Len(chain) \in h .. Len(chain)
    OBVIOUS
  <1>3. \E g : Eq(g)
    <2>1. PICK g : Loop(g, "flatten", h, Len(chain), << >>, chain, {})
      BY <1>2, LoopExists
    <2>2. Eq(g)
      BY <2>1 DEF Loop, LoopStep
    <2> QED BY <2>2
  <1>4. Eq(f)
    BY <1>3, Zenon
  <1> HIDE DEF f
  <1> DEFINE S == {i \in h .. Len(chain) : f[i] \in Seq(Tx)}
  <1>5. h \in S
    <2>1. f[h] = << >> /\ h \in h .. Len(chain)
      BY <1>2, <1>4
    <2>2. << >> \in Seq(Tx)
      OBVIOUS
    <2> QED BY <2>1, <2>2
  <1>6. ASSUME NEW i \in h .. Len(chain), i # h, i - 1 \in S PROVE i \in S
    <2>1. f[i] = f[i - 1] \o chain[i].vtx /\ f[i - 1] \in Seq(Tx)
      BY <1>4, <1>6
    <2>2. chain[i].vtx \in Seq(Tx)
      BY <1>2, <1>6
    <2>3. f[i - 1] \o chain[i].vtx \in Seq(Tx)
      BY <2>1, <2>2, ConcatSet
    <2> QED BY <2>1, <2>3
  <1>7. \A i \in h .. Len(chain) : i # h /\ i - 1 \in S => i \in S
    BY <1>6
  <1> HIDE DEF S
  <1>8. Len(chain) \in S
    BY <1>2, <1>5, <1>7, Throughout
  <1> QED BY <1>1, <1>8 DEF S

-----------------------------------------------------------------------------
(* The index of the orphans.                                               *)

Indexed(o, b) ==
  /\ \A t \in o : \A h \in Prevs(t) : t \in Waiting(b, h)
  /\ \A h \in DOMAIN b : b[h] \subseteq o
  /\ \A h \in DOMAIN b : \A t \in b[h] : h \in Prevs(t)
  /\ DOMAIN b \subseteq Tx \cup {Coinbase}

(* The previous transactions are transactions.                             *)
LEMMA PrevsAre == \A t \in Tx : Prevs(t) \subseteq Tx \cup {Coinbase}
  BY TxPoolAssumption DEF Prevs, InSet, Range

(* EraseOrphanTx keeps the index exact.                                    *)
LEMMA EraseIndexed ==
  ASSUME NEW s, Indexed(s.o, s.b), NEW E
  PROVE  LET e == EraseOrphanTx(s, E)
         IN Indexed(e.o, e.b) /\ e.o = s.o \ E
  <1> DEFINE e == EraseOrphanTx(s, E)
  <1> DEFINE gone == E \cap s.o
  <1> DEFINE hit == UNION {Prevs(t) : t \in gone}
  <1> DEFINE D == {g \in DOMAIN s.b : g \in hit => s.b[g] \ gone # {}}
  <1>1. /\ e.o = s.o \ gone
        /\ DOMAIN e.b = D
        /\ \A h \in D : e.b[h] = IF h \in hit THEN s.b[h] \ gone ELSE s.b[h]
    BY DEF EraseOrphanTx
  <1>2. \A t \in gone : t \in s.o /\ Prevs(t) \subseteq hit
    OBVIOUS
  <1> HIDE DEF e, hit
  <1>3. ASSUME NEW t \in e.o, NEW h \in Prevs(t) PROVE t \in Waiting(e.b, h)
    <2>1. t \in s.o /\ t \notin gone
      BY <1>1
    <2>2. h \in DOMAIN s.b /\ t \in s.b[h]
      BY <2>1 DEF Indexed, Waiting
    <2>3. h \in D
      BY <2>1, <2>2
    <2> HIDE DEF D, gone
    <2>4. t \in e.b[h]
      BY <1>1, <2>1, <2>2, <2>3
    <2> QED BY <1>1, <2>3, <2>4 DEF Waiting
  <1>4. ASSUME NEW h \in DOMAIN e.b PROVE e.b[h] \subseteq e.o
    <2>1. h \in DOMAIN s.b /\ s.b[h] \subseteq s.o
      BY <1>1 DEF Indexed
    <2>2. CASE h \in hit
      BY <1>1, <2>1, <2>2
    <2>3. CASE h \notin hit
      <3>1. e.b[h] = s.b[h]
        BY <1>1, <2>3
      <3>2. \A t \in s.b[h] : t \notin gone
        BY <1>2, <2>1, <2>3 DEF Indexed
      <3> QED BY <1>1, <2>1, <3>1, <3>2
    <2> QED BY <2>2, <2>3
  <1>5. ASSUME NEW h \in DOMAIN e.b, NEW t \in e.b[h] PROVE h \in Prevs(t)
    <2>1. h \in DOMAIN s.b /\ t \in s.b[h]
      BY <1>1
    <2> QED BY <2>1 DEF Indexed
  <1>6. DOMAIN e.b \subseteq Tx \cup {Coinbase}
    BY <1>1 DEF Indexed
  <1>7. e.o = s.o \ E
    BY <1>1
  <1> QED BY <1>3, <1>4, <1>5, <1>6, <1>7 DEF Indexed, e

(* AddOrphanTx keeps the index exact.                                      *)
LEMMA AddIndexed ==
  ASSUME NEW o, NEW b, Indexed(o, b), NEW t \in Tx
  PROVE  LET s == AddOrphanTx(o, b, t)
         IN Indexed(s.o, s.b) /\ s.o = o \cup {t}
  <1>1. CASE t \in o
    BY <1>1 DEF AddOrphanTx
  <1>2. CASE t \notin o
    <2> DEFINE s == AddOrphanTx(o, b, t)
    <2>1. /\ s.o = o \cup {t}
          /\ DOMAIN s.b = DOMAIN b \cup Prevs(t)
          /\ \A h \in DOMAIN b \cup Prevs(t) :
               s.b[h] = IF h \in Prevs(t) THEN Waiting(b, h) \cup {t} ELSE b[h]
      BY <1>2 DEF AddOrphanTx
    <2> HIDE DEF s
    <2>2. ASSUME NEW h \in DOMAIN s.b
          PROVE  /\ Waiting(b, h) \subseteq s.b[h]
                 /\ s.b[h] \subseteq Waiting(b, h) \cup {t}
                 /\ t \in s.b[h] => h \in Prevs(t)
      <3>1. CASE h \in Prevs(t)
        BY <2>1, <3>1
      <3>2. CASE h \notin Prevs(t)
        <4>1. h \in DOMAIN b /\ s.b[h] = b[h] /\ Waiting(b, h) = b[h]
          BY <2>1, <3>2 DEF Waiting
        <4>2. t \notin b[h]
          BY <1>2, <4>1 DEF Indexed
        <4> QED BY <4>1, <4>2
      <3> QED BY <3>1, <3>2
    <2>3. \A h : Waiting(b, h) \subseteq o /\ \A u \in Waiting(b, h) : h \in Prevs(u)
      BY DEF Waiting, Indexed
    <2>4. ASSUME NEW u \in s.o, NEW h \in Prevs(u) PROVE u \in Waiting(s.b, h)
      <3>1. CASE u = t
        <4>1. h \in DOMAIN s.b /\ u \in s.b[h]
          BY <2>1, <3>1
        <4> QED BY <4>1 DEF Waiting
      <3>2. CASE u \in o
        <4>1. u \in Waiting(b, h)
          BY <3>2 DEF Indexed
        <4>2. h \in DOMAIN s.b
          BY <2>1, <4>1 DEF Waiting
        <4>3. u \in s.b[h]
          BY <2>2, <4>1, <4>2
        <4> QED BY <4>2, <4>3 DEF Waiting
      <3> QED BY <2>1, <3>1, <3>2
    <2>5. \A h \in DOMAIN s.b : s.b[h] \subseteq s.o
      BY <2>1, <2>2, <2>3
    <2>6. \A h \in DOMAIN s.b : \A u \in s.b[h] : h \in Prevs(u)
      BY <2>2, <2>3
    <2>7. DOMAIN s.b \subseteq Tx \cup {Coinbase}
      BY <2>1, PrevsAre DEF Indexed
    <2> QED BY <2>1, <2>4, <2>5, <2>6, <2>7 DEF Indexed, s
  <1> QED BY <1>1, <1>2

-----------------------------------------------------------------------------
(* The orphans that follow an accepted transaction.                        *)

(* What the work after i tries has done and has still to do: an orphan     *)
(* that a transaction accepted here could free is still to be tried, or    *)
(* waits for another one; and the tries do not exceed the orphans that the *)
(* accepted transactions put up for trial.                                 *)
Untouched(w, u) == Prevs(u) \cap w.looked = {}
Work(w, i) ==
  /\ w = [todo |-> w.todo, p |-> w.p, erase |-> w.erase, looked |-> w.looked]
  /\ w.todo \in Seq(orphans)
  /\ Good(w.p) /\ w.p.tx = pool.tx \cup w.looked
  /\ w.looked \in SUBSET Tx /\ w.looked \cap Txs(chain) = {}
  /\ w.todo # << >> => i + Len(w.todo) <= Cardinality(w.looked) * Cardinality(Tx)
  /\ \A u \in orphans : u \in w.erase \/ Untouched(w, u) \/ u \in Range(w.todo)
                          \/ MissingInputs(chain, w.p, u)

(* The state the work is done in.                                          *)
Ready ==
  /\ Good(pool) /\ pool.tx \cap Txs(chain) = {}
  /\ orphans \in SUBSET Tx /\ Indexed(orphans, byPrev)

(* The orphans that wait for a transaction, as a sequence.                 *)
LEMMA WaitingSeq ==
  ASSUME Ready, NEW h
  PROVE  LET q == Listed(Waiting(byPrev, h))
         IN /\ q \in Seq(orphans) /\ Len(q) \in Nat /\ Len(q) <= Cardinality(Tx)
            /\ Range(q) = Waiting(byPrev, h)
  <1> DEFINE S == Waiting(byPrev, h)
  <1>1. S \in SUBSET orphans /\ S \in SUBSET Tx
    BY DEF Waiting, Indexed, Ready
  <1>2. IsFiniteSet(S) /\ Cardinality(S) <= Cardinality(Tx) /\ Cardinality(S) \in Nat
    BY <1>1, FS_Subset, FS_CardinalityType, TxPoolAssumption
  <1> HIDE DEF S
  <1>3. Listed(S) \in Seq(orphans) /\ Len(Listed(S)) = Cardinality(S) /\ Range(Listed(S)) = S
    BY <1>1, <1>2, ListedIs
  <1> QED BY <1>2, <1>3 DEF S

(* Adding a transaction only helps those that wait for it.                 *)
LEMMA StillMissing ==
  ASSUME NEW p, NEW t, NEW u, MissingInputs(chain, p, u), t \notin Prevs(u),
         NEW q, q.tx = p.tx \cup {t}
  PROVE  MissingInputs(chain, q, u)
  BY DEF MissingInputs

(* The product of the bound.                                               *)
LEMMA Times == \A a, n \in Nat : (a + 1) * n = a * n + n /\ a * n \in Nat
  OBVIOUS

(* A try less and at most n more.                                          *)
LEMMA Sooner ==
  \A i, l, k, a, n \in Nat : i + l <= a /\ k <= n => (i + 1) + (l - 1 + k) <= a + n
  OBVIOUS

(* One more of the looked up hashes.                                       *)
LEMMA OneMore ==
  ASSUME NEW S \in SUBSET Tx, NEW t \in Tx, t \notin S
  PROVE  /\ Cardinality(S \cup {t}) * Cardinality(Tx)
              = Cardinality(S) * Cardinality(Tx) + Cardinality(Tx)
         /\ Cardinality(S) * Cardinality(Tx) \in Nat /\ Cardinality(Tx) \in Nat
  <1>1. IsFiniteSet(S) /\ Cardinality(S) \in Nat /\ Cardinality(Tx) \in Nat
    BY FS_Subset, FS_CardinalityType, TxPoolAssumption
  <1>2. Cardinality(S \cup {t}) = Cardinality(S) + 1
    BY <1>1, FS_AddElement
  <1> QED BY <1>1, <1>2, Times

(* The first orphans to try.                                               *)
LEMMA WorkInit ==
  ASSUME Ready, NEW t \in Tx, Accepts(chain, pool, t)
  PROVE  Work([todo |-> Listed(Waiting(byPrev, t)), p |-> addUnchecked(pool, t),
               erase |-> {t}, looked |-> {t}], 0)
  <1> DEFINE q == Listed(Waiting(byPrev, t))
  <1> DEFINE r == addUnchecked(pool, t)
  <1> DEFINE w == [todo |-> q, p |-> r, erase |-> {t}, looked |-> {t}]
  <1>1. q \in Seq(orphans) /\ Len(q) \in Nat /\ Len(q) <= Cardinality(Tx)
        /\ Range(q) = Waiting(byPrev, t)
    BY WaitingSeq
  <1>2. InSet(t) \cap DOMAIN pool.next = {} /\ t \notin Txs(chain)
    BY DEF Accepts, Refused, ContainsTx
  <1>3. Good(r) /\ r.tx = pool.tx \cup {t}
    BY <1>2, AddGood DEF Ready
  <1>4. Cardinality({t}) * Cardinality(Tx) = Cardinality(Tx)
    <2>1. Cardinality({t}) = 1 /\ Cardinality(Tx) \in Nat
      BY FS_Singleton, FS_CardinalityType, TxPoolAssumption
    <2> QED BY <2>1
  <1> HIDE DEF q, r
  <1>5. /\ w.todo = q /\ w.p = r /\ w.erase = {t} /\ w.looked = {t}
        /\ w = [todo |-> w.todo, p |-> w.p, erase |-> w.erase, looked |-> w.looked]
    OBVIOUS
  <1> HIDE DEF w
  <1>6. ASSUME NEW u \in orphans PROVE Untouched(w, u) \/ u \in Range(w.todo)
    <2>1. CASE t \in Prevs(u)
      BY <1>1, <1>5, <2>1 DEF Ready, Indexed
    <2>2. CASE t \notin Prevs(u)
      BY <1>5, <2>2 DEF Untouched
    <2> QED BY <2>1, <2>2
  <1>7. 0 + Len(w.todo) <= Cardinality(w.looked) * Cardinality(Tx)
    BY <1>1, <1>4, <1>5
  <1>8. Work(w, 0)
    BY <1>1, <1>2, <1>3, <1>5, <1>6, <1>7 DEF Work
  <1> QED BY <1>8 DEF w, q, r

(* Trying an orphan.                                                       *)
LEMMA WorkNext ==
  ASSUME Ready, NEW w, NEW i \in Nat, Work(w, i), w.todo # << >>
  PROVE  Work(TryOrphan(w), i + 1)
  <1> DEFINE t == Head(w.todo)
  <1> DEFINE rest == Tail(w.todo)
  <1> DEFINE x == TryOrphan(w)
  <1> DEFINE N == Cardinality(Tx)
  <1>1. /\ t \in orphans /\ rest \in Seq(orphans) /\ Len(rest) = Len(w.todo) - 1
        /\ Len(w.todo) \in Nat /\ Len(w.todo) >= 1
        /\ \A u \in Range(w.todo) : u = t \/ u \in Range(rest)
    BY HeadTail DEF Work
  <1>2. i + Len(w.todo) <= Cardinality(w.looked) * N
    BY DEF Work
  <1>3. t \in Tx
    BY <1>1 DEF Ready
  <1>4. CASE Accepts(chain, w.p, t)
    <2> DEFINE q == Listed(Waiting(byPrev, t))
    <2> DEFINE r == addUnchecked(w.p, t)
    <2>1. x = [todo |-> rest \o q, p |-> r, erase |-> w.erase \cup {t}, looked |-> w.looked \cup {t}]
      BY <1>4 DEF TryOrphan
    <2>2. q \in Seq(orphans) /\ Len(q) \in Nat /\ Len(q) <= N /\ Range(q) = Waiting(byPrev, t)
      BY WaitingSeq
    <2>3. InSet(t) \cap DOMAIN w.p.next = {} /\ t \notin Txs(chain) /\ t \notin w.p.tx
      BY <1>4 DEF Accepts, Refused, ContainsTx
    <2>4. Good(r) /\ r.tx = w.p.tx \cup {t}
      BY <1>3, <2>3, AddGood DEF Work
    <2> HIDE DEF t, rest, q, r, x
    <2>5. x.todo = rest \o q /\ x.p = r /\ x.erase = w.erase \cup {t} /\ x.looked = w.looked \cup {t}
      BY <2>1
    <2>6. /\ x.todo \in Seq(orphans) /\ Len(x.todo) = Len(rest) + Len(q)
          /\ Range(x.todo) = Range(rest) \cup Range(q)
      <3>1. /\ rest \o q \in Seq(orphans) /\ Len(rest \o q) = Len(rest) + Len(q)
            /\ Range(rest \o q) = Range(rest) \cup Range(q)
        BY <1>1, <2>2, ConcatSet
      <3> QED BY <2>5, <3>1
    <2>7. /\ Cardinality(x.looked) * N = Cardinality(w.looked) * N + N
          /\ Cardinality(w.looked) * N \in Nat /\ N \in Nat
      BY <1>3, <2>3, <2>5, OneMore DEF Work
    <2>8. (i + 1) + Len(x.todo) <= Cardinality(x.looked) * N
      <3> DEFINE a == Cardinality(w.looked) * N
      <3>1. a \in Nat /\ N \in Nat /\ i + Len(w.todo) <= a
        BY <1>2, <2>7
      <3> HIDE DEF N, a
      <3>2. (i + 1) + (Len(w.todo) - 1 + Len(q)) <= a + N
        BY <1>1, <2>2, <3>1, Sooner
      <3> QED BY <1>1, <2>6, <2>7, <3>2 DEF a
    <2>9. ASSUME NEW u \in orphans
          PROVE  u \in x.erase \/ Untouched(x, u) \/ u \in Range(x.todo)
                   \/ MissingInputs(chain, x.p, u)
      <3>1. CASE t \in Prevs(u)
        BY <2>2, <2>6, <3>1 DEF Ready, Indexed
      <3>2. CASE t \notin Prevs(u)
        <4>1. Untouched(w, u) => Untouched(x, u)
          BY <2>5, <3>2 DEF Untouched
        <4>2. MissingInputs(chain, w.p, u) => MissingInputs(chain, x.p, u)
          BY <2>4, <2>5, <3>2, StillMissing
        <4>3. u \in Range(w.todo) => u \in x.erase \/ u \in Range(x.todo)
          BY <1>1, <2>5, <2>6
        <4>4. u \in w.erase \/ Untouched(w, u) \/ u \in Range(w.todo)
                \/ MissingInputs(chain, w.p, u)
          BY DEF Work
        <4> QED BY <2>5, <4>1, <4>2, <4>3, <4>4
      <3> QED BY <3>1, <3>2
    <2>0. x = [todo |-> x.todo, p |-> x.p, erase |-> x.erase, looked |-> x.looked]
      BY <2>1
    <2>10. /\ Good(x.p) /\ x.p.tx = pool.tx \cup x.looked
           /\ x.looked \in SUBSET Tx /\ x.looked \cap Txs(chain) = {}
      BY <1>3, <2>3, <2>4, <2>5 DEF Work
    <2> QED BY <2>6, <2>8, <2>9, <2>10, <2>0 DEF Work, x
  <1>5. CASE ~Accepts(chain, w.p, t)
    <2> DEFINE missing == ~Refused(chain, w.p, t) /\ MissingInputs(chain, w.p, t)
    <2>1. /\ missing => x = [w EXCEPT !.todo = rest]
          /\ ~missing => x = [w EXCEPT !.todo = rest, !.erase = w.erase \cup {t}]
      BY <1>5 DEF TryOrphan
    <2>2. missing => MissingInputs(chain, w.p, t)
      OBVIOUS
    <2> HIDE DEF t, rest, x, missing
    <2>a. w = [todo |-> w.todo, p |-> w.p, erase |-> w.erase, looked |-> w.looked]
      BY DEF Work
    <2>3. /\ x = [todo |-> x.todo, p |-> x.p, erase |-> x.erase, looked |-> x.looked]
          /\ x.todo = rest /\ x.p = w.p /\ x.looked = w.looked
          /\ \A u \in w.erase : u \in x.erase
          /\ t \in x.erase \/ MissingInputs(chain, w.p, t)
      <3>1. CASE missing
        <4>1. x = [todo |-> rest, p |-> w.p, erase |-> w.erase, looked |-> w.looked]
          BY <2>1, <2>a, <3>1
        <4> QED BY <2>2, <3>1, <4>1
      <3>2. CASE ~missing
        <4>1. x = [todo |-> rest, p |-> w.p, erase |-> w.erase \cup {t}, looked |-> w.looked]
          BY <2>1, <2>a, <3>2
        <4> QED BY <4>1
      <3> QED BY <3>1, <3>2
    <2>4. ASSUME NEW u \in orphans
          PROVE  u \in x.erase \/ Untouched(x, u) \/ u \in Range(x.todo)
                   \/ MissingInputs(chain, x.p, u)
      <3>1. u \in w.erase \/ Untouched(w, u) \/ u \in Range(w.todo)
              \/ MissingInputs(chain, w.p, u)
        BY DEF Work
      <3>2. u = t \/ u \in w.erase \/ Untouched(w, u) \/ u \in Range(rest)
              \/ MissingInputs(chain, w.p, u)
        BY <1>1, <3>1
      <3> QED BY <2>3, <3>2 DEF Untouched
    <2>5. (i + 1) + Len(x.todo) <= Cardinality(x.looked) * N
      <3>1. (i + 1) + Len(rest) = i + Len(w.todo)
        BY <1>1
      <3> QED BY <1>2, <2>3, <3>1
    <2>6. /\ Good(x.p) /\ x.p.tx = pool.tx \cup x.looked
          /\ x.looked \in SUBSET Tx /\ x.looked \cap Txs(chain) = {}
          /\ x.todo \in Seq(orphans)
      BY <1>1, <2>3 DEF Work
    <2> QED BY <2>3, <2>4, <2>5, <2>6 DEF Work, x
  <1> QED BY <1>4, <1>5

(* The bound of the loop.                                                  *)
LEMMA Square == \A a, n \in Nat : a <= n => a * n <= n * n
  <1> SUFFICES ASSUME NEW a \in Nat, NEW n \in Nat, a <= n PROVE a * n <= n * n
    OBVIOUS
  <1> DEFINE d == n - a
  <1>1. d \in Nat /\ n = a + d
    OBVIOUS
  <1>2. n * n = a * n + d * n /\ a * n \in Nat /\ d * n \in Nat
    BY <1>1
  <1> QED BY <1>2

(* The loop ends with nothing left to try.                                 *)
LEMMA WorkDone ==
  ASSUME Ready, NEW t \in Tx, Accepts(chain, pool, t)
  PROVE  Work(WorkQueue(t), MaxTries) /\ WorkQueue(t).todo = << >>
  <1> DEFINE w0 == [todo |-> Listed(Waiting(byPrev, t)), p |-> addUnchecked(pool, t),
                    erase |-> {t}, looked |-> {t}]
  <1> DEFINE Eq(f) == f = [i \in 0 .. MaxTries |->
                             IF i = 0 THEN w0
                             ELSE IF f[i - 1].todo = << >> THEN f[i - 1] ELSE TryOrphan(f[i - 1])]
  <1> DEFINE f == CHOOSE g : Eq(g)
  <1>1. WorkQueue(t) = f[MaxTries]
    BY DEF WorkQueue
  <1>2. Cardinality(Tx) \in Nat /\ MaxTries \in Nat
    <2>1. Cardinality(Tx) \in Nat
      BY FS_CardinalityType, TxPoolAssumption
    <2> QED BY <2>1, Times DEF MaxTries
  <1>3. Work(w0, 0)
    BY WorkInit
  <1> HIDE DEF w0
  <1>4. \E g : Eq(g)
    <2>1. PICK g : Loop(g, "work", 0, MaxTries, w0, << >>, {})
      BY <1>2, LoopExists
    <2>2. Eq(g)
      BY <2>1 DEF Loop, LoopStep
    <2> QED BY <2>2
  <1>5. Eq(f)
    BY <1>4, Zenon
  <1> HIDE DEF f
  <1> DEFINE S == {i \in 0 .. MaxTries : Work(f[i], i)}
  <1>6. 0 \in S
    BY <1>2, <1>3, <1>5
  <1>7. ASSUME NEW i \in 0 .. MaxTries, i # 0, i - 1 \in S PROVE i \in S
    <2> DEFINE w == f[i - 1]
    <2>1. Work(w, i - 1) /\ i - 1 \in Nat
      BY <1>2, <1>7
    <2>2. f[i] = IF w.todo = << >> THEN w ELSE TryOrphan(w)
      BY <1>5, <1>7
    <2> HIDE DEF w
    <2>3. CASE w.todo = << >>
      <3>1. Work(w, i)
        BY <2>1, <2>3 DEF Work
      <3> QED BY <2>2, <2>3, <3>1
    <2>4. CASE w.todo # << >>
      <3>1. Work(TryOrphan(w), (i - 1) + 1) /\ (i - 1) + 1 = i
        BY <2>1, <2>4, <1>2, WorkNext
      <3> QED BY <2>2, <2>4, <3>1
    <2> QED BY <2>3, <2>4
  <1>8. \A i \in 0 .. MaxTries : i # 0 /\ i - 1 \in S => i \in S
    BY <1>7
  <1>9. 0 \in Nat /\ MaxTries \in 0 .. MaxTries
    BY <1>2
  <1> HIDE DEF S
  <1>10. MaxTries \in S
    BY <1>2, <1>6, <1>8, <1>9, Throughout
  <1> DEFINE w == f[MaxTries]
  <1>11. Work(w, MaxTries)
    BY <1>10 DEF S
  <1> HIDE DEF w
  <1>12. ASSUME w.todo # << >> PROVE FALSE
    <2>1. /\ MaxTries + Len(w.todo) <= Cardinality(w.looked) * Cardinality(Tx)
          /\ Len(w.todo) \in Nat /\ Len(w.todo) >= 1
      BY <1>11, <1>12, HeadTail DEF Work
    <2>2. Cardinality(w.looked) \in Nat /\ Cardinality(w.looked) <= Cardinality(Tx)
      BY <1>11, FS_Subset, FS_CardinalityType, TxPoolAssumption DEF Work
    <2> DEFINE a == Cardinality(w.looked) * Cardinality(Tx)
    <2>3. a <= MaxTries /\ a \in Nat
      BY <1>2, <2>2, Square, Times DEF MaxTries
    <2> HIDE DEF a
    <2>4. MaxTries + Len(w.todo) <= a
      BY <2>1 DEF a
    <2> QED BY <1>2, <2>1, <2>3, <2>4
  <1> QED BY <1>1, <1>11, <1>12 DEF w

-----------------------------------------------------------------------------
(* Blocks and the chain.                                                   *)

(* A block is a sequence of transactions.                                  *)
LEMMA BlockSeq ==
  ASSUME NEW s \in Blocks
  PROVE  s \in Seq(Tx) /\ Len(s) \in Nat /\ DOMAIN s = 1 .. Len(s) /\ IsInjective(s)
  <1>1. PICK n \in 0 .. MaxBlockTx : s \in [1 .. n -> Tx]
    BY DEF Blocks
  <1>2. n \in Nat /\ IsInjective(s)
    BY TxPoolAssumption DEF Blocks
  <1> QED BY <1>1, <1>2

(* The empty block.                                                        *)
LEMMA NoBlock == << >> \in Blocks
  <1>1. << >> \in [1 .. 0 -> Tx] /\ 0 \in 0 .. MaxBlockTx
    BY TxPoolAssumption
  <1>2. IsInjective(<< >>)
    BY DEF IsInjective
  <1> QED BY <1>1, <1>2 DEF Blocks

(* A new transaction fits into a block with room for it.                   *)
LEMMA AppendBlock ==
  ASSUME NEW s \in Blocks, Len(s) < MaxBlockTx, NEW t \in Tx, t \notin Range(s)
  PROVE  Append(s, t) \in Blocks
  <1> DEFINE a == Append(s, t)
  <1>1. s \in Seq(Tx) /\ Len(s) \in Nat /\ DOMAIN s = 1 .. Len(s) /\ IsInjective(s)
    BY BlockSeq
  <1>2. /\ a \in [1 .. Len(s) + 1 -> Tx] /\ a[Len(s) + 1] = t
        /\ \A i \in 1 .. Len(s) : a[i] = s[i]
    <2>1. /\ a \in Seq(Tx) /\ Len(a) = Len(s) + 1 /\ a[Len(s) + 1] = t
          /\ \A i \in 1 .. Len(s) : a[i] = s[i]
      BY <1>1
    <2> HIDE DEF a
    <2> QED BY <2>1
  <1>3. Len(s) + 1 \in 0 .. MaxBlockTx
    BY <1>1, TxPoolAssumption
  <1> HIDE DEF a
  <1>4. IsInjective(a)
    <2> SUFFICES ASSUME NEW i \in 1 .. Len(s) + 1, NEW j \in 1 .. Len(s) + 1, a[i] = a[j]
                 PROVE  i = j
      BY <1>2 DEF IsInjective
    <2>1. \A k \in 1 .. Len(s) : s[k] # t
      BY <1>1 DEF Range
    <2>2. \A k \in 1 .. Len(s) + 1 : k = Len(s) + 1 \/ k \in 1 .. Len(s)
      BY <1>1
    <2>3. \A k, l \in 1 .. Len(s) : s[k] = s[l] => k = l
      BY <1>1 DEF IsInjective
    <2> QED BY <1>2, <2>1, <2>2, <2>3
  <1> QED BY <1>2, <1>3, <1>4 DEF Blocks, a

(* A block that connects, and a transaction that connects after it.        *)
LEMMA AppendConnects ==
  ASSUME NEW s \in Blocks, NEW t \in Tx, NEW c, ConnectBlock(c, s), Connects(c, s, t)
  PROVE  ConnectBlock(c, Append(s, t))
  <1> DEFINE a == Append(s, t)
  <1>1. s \in Seq(Tx) /\ Len(s) \in Nat /\ DOMAIN s = 1 .. Len(s)
    BY BlockSeq
  <1>2. a \in Seq(Tx) /\ Len(a) = Len(s) + 1 /\ DOMAIN a = 1 .. Len(s) + 1
    BY <1>1
  <1>3. ASSUME NEW i \in DOMAIN a PROVE Connects(c, SubSeq(a, 1, i - 1), a[i])
    <2>1. CASE i = Len(s) + 1
      <3>1. a[i] = t /\ SubSeq(a, 1, i - 1) = s
        BY <1>1, <1>2, <2>1
      <3> QED BY <3>1
    <2>2. CASE i # Len(s) + 1
      <3>1. i \in DOMAIN s
        BY <1>1, <1>2, <2>2
      <3>2. a[i] = s[i] /\ SubSeq(a, 1, i - 1) = SubSeq(s, 1, i - 1)
        BY <1>1, <1>2, <3>1
      <3> QED BY <3>1, <3>2 DEF ConnectBlock
    <2> QED BY <2>1, <2>2
  <1> QED BY <1>3 DEF ConnectBlock

(* The transactions of a longer chain and of a shorter one.                *)
LEMMA TxsAppend ==
  ASSUME NEW B, NEW c \in Seq(B), NEW b \in B
  PROVE  LET d == Append(c, b)
         IN d \in Seq(B) /\ Tip(d) = b.id /\ Txs(d) = Txs(c) \cup Range(b.vtx)
  <1> DEFINE d == Append(c, b)
  <1>1. /\ d \in Seq(B) /\ DOMAIN c = 1 .. Len(c) /\ Len(c) \in Nat
        /\ DOMAIN d = 1 .. Len(c) + 1 /\ Len(d) = Len(c) + 1 /\ d # << >>
        /\ d[Len(c) + 1] = b /\ \A i \in 1 .. Len(c) : d[i] = c[i]
    OBVIOUS
  <1> HIDE DEF d
  <1>2. Tip(d) = b.id
    BY <1>1 DEF Tip
  <1>3. ASSUME NEW t, t \in Txs(d) PROVE t \in Txs(c) \cup Range(b.vtx)
    <2>1. PICK i \in DOMAIN d : t \in Range(d[i].vtx)
      BY <1>3 DEF Txs
    <2>2. i = Len(c) + 1 \/ i \in DOMAIN c
      BY <1>1
    <2> QED BY <1>1, <2>1, <2>2 DEF Txs
  <1>4. ASSUME NEW t, t \in Txs(c) \cup Range(b.vtx) PROVE t \in Txs(d)
    <2>1. CASE t \in Range(b.vtx)
      <3>1. Len(c) + 1 \in DOMAIN d /\ t \in Range(d[Len(c) + 1].vtx)
        BY <1>1, <2>1
      <3> QED BY <3>1 DEF Txs
    <2>2. CASE t \in Txs(c)
      <3>1. PICK i \in DOMAIN c : t \in Range(c[i].vtx)
        BY <2>2 DEF Txs
      <3>2. i \in DOMAIN d /\ d[i] = c[i]
        BY <1>1
      <3> QED BY <3>1, <3>2 DEF Txs
    <2> QED BY <1>4, <2>1, <2>2
  <1> QED BY <1>1, <1>2, <1>3, <1>4 DEF d

(* A block more.                                                           *)
LEMMA TxsNewBlock ==
  ASSUME NEW B, NEW c \in Seq(B), NEW n, NEW s, [id |-> n, vtx |-> s] \in B
  PROVE  LET d == NewBlock(c, n, s)
         IN d \in Seq(B) /\ Tip(d) = n /\ Txs(d) = Txs(c) \cup Range(s)
  <1> DEFINE b == [id |-> n, vtx |-> s]
  <1>1. b \in B /\ b.id = n /\ b.vtx = s /\ NewBlock(c, n, s) = Append(c, b)
    BY DEF NewBlock
  <1> HIDE DEF b
  <1> QED BY <1>1, TxsAppend

(* Two blocks more.                                                        *)
LEMMA TxsTwoBlocks ==
  ASSUME NEW B, NEW c \in Seq(B), NEW b1 \in B, NEW b2 \in B
  PROVE  LET d == Append(Append(c, b1), b2)
         IN d \in Seq(B) /\ Tip(d) = b2.id /\ Txs(d) = Txs(c) \cup Range(b1.vtx) \cup Range(b2.vtx)
  <1> DEFINE e == Append(c, b1)
  <1>1. e \in Seq(B) /\ Txs(e) = Txs(c) \cup Range(b1.vtx)
    BY TxsAppend
  <1> HIDE DEF e
  <1> DEFINE d == Append(e, b2)
  <1>2. d \in Seq(B) /\ Tip(d) = b2.id /\ Txs(d) = Txs(e) \cup Range(b2.vtx)
    BY <1>1, TxsAppend
  <1> HIDE DEF d
  <1>3. d \in Seq(B) /\ Tip(d) = b2.id /\ Txs(d) = Txs(c) \cup Range(b1.vtx) \cup Range(b2.vtx)
    BY <1>1, <1>2
  <1> QED BY <1>3 DEF d, e

(* A shorter chain.                                                        *)
LEMMA TxsSubSeq ==
  ASSUME NEW B, NEW c \in Seq(B), NEW f \in 0 .. Len(c)
  PROVE  SubSeq(c, 1, f) \in Seq(B) /\ Txs(SubSeq(c, 1, f)) \subseteq Txs(c)
  <1> DEFINE d == SubSeq(c, 1, f)
  <1>1. /\ d \in Seq(B) /\ DOMAIN d = 1 .. f /\ DOMAIN c = 1 .. Len(c)
        /\ \A i \in 1 .. f : d[i] = c[i] /\ i \in 1 .. Len(c)
    OBVIOUS
  <1> HIDE DEF d
  <1>2. Txs(d) \subseteq Txs(c)
    BY <1>1 DEF Txs
  <1> QED BY <1>1, <1>2 DEF d

-----------------------------------------------------------------------------
(* The inductive invariant.                                                *)

(* The last block connected is the tip.                                    *)
ChainPart ==
  /\ setting \in Settings
  /\ nBlocks \in Nat /\ nBlocks <= setting.MaxBlocks
  /\ chain \in Seq([id : 1 .. nBlocks, vtx : Blocks])
  /\ Tip(chain) = nBlocks

PoolPart == Good(pool) /\ NoneConfirmed /\ untold \subseteq pool.tx

OrphanPart ==
  /\ orphans \in SUBSET Tx /\ Cardinality(orphans) <= setting.MaxOrphans
  /\ Indexed(orphans, byPrev)

(* What is collected connects on the chain; once it is collected the chain *)
(* may grow, and then the tip is not the block it was made for.            *)
MinerPart ==
  /\ minerPc \in {"idle", "read", "collect", "found"}
  /\ block \in [prev : Nat, vtx : Blocks] /\ block.prev <= nBlocks
  /\ minerPc \in {"idle", "read"} => block.vtx = << >>
  /\ minerPc = "collect" => ConnectBlock(chain, block.vtx)
  /\ minerPc = "found" /\ block.prev = nBlocks => ConnectBlock(chain, block.vtx)

CollectPart ==
  /\ vecPriority \subseteq Tx
  /\ DOMAIN dependsOn \subseteq Tx /\ DOMAIN mapDependers \subseteq Tx
  /\ freed \in BOOLEAN

PoolIInv == ChainPart /\ PoolPart /\ OrphanPart /\ MinerPart /\ CollectPart

(* The bounds of a setting.                                                *)
LEMMA SettingIs ==
  ASSUME setting \in Settings
  PROVE  /\ setting.Loose \in SUBSET Tx
         /\ setting.MaxOrphans \in Nat /\ setting.MaxBlocks \in Nat
  BY TxPoolAssumption

(* The invariant says that the pool and the index are exact.               *)
LEMMA IInvExact == PoolIInv => PoolExact
  <1> SUFFICES ASSUME PoolIInv PROVE PoolExact
    OBVIOUS
  <1>1. \A i \in DOMAIN chain : chain[i].id \in 1 .. nBlocks /\ chain[i].vtx \in Blocks
    <2>1. \A i \in DOMAIN chain : chain[i] \in [id : 1 .. nBlocks, vtx : Blocks]
      <3> DEFINE B == [id : 1 .. nBlocks, vtx : Blocks]
      <3>1. chain \in Seq(B)
        BY DEF PoolIInv, ChainPart
      <3> HIDE DEF B
      <3>2. \A i \in DOMAIN chain : chain[i] \in B
        BY <3>1
      <3> QED BY <3>2 DEF B
    <2> QED BY <2>1
  <1>2. setting \in Settings /\ nBlocks \in 0 .. setting.MaxBlocks
    BY SettingIs DEF PoolIInv, ChainPart
  <1>3. /\ pool.tx \subseteq Tx /\ DOMAIN pool.next \subseteq OutPoint
        /\ untold \subseteq pool.tx
    BY DEF PoolIInv, PoolPart, Good, OutPoint, Spends
  <1>4. /\ orphans \subseteq Tx /\ Cardinality(orphans) <= setting.MaxOrphans
        /\ DOMAIN byPrev \subseteq Tx \cup {Coinbase}
    BY DEF PoolIInv, OrphanPart, Indexed
  <1>5. /\ minerPc \in {"idle", "read", "collect", "found"}
        /\ block.prev \in 0 .. nBlocks
    BY DEF PoolIInv, MinerPart, ChainPart
  <1>6. Range(block.vtx) \subseteq Tx
    <2>1. block.vtx \in Blocks
      BY DEF PoolIInv, MinerPart
    <2> QED BY <2>1, BlockSeq DEF Range
  <1>7. TypeOK
    BY <1>1, <1>2, <1>3, <1>4, <1>5, <1>6 DEF TypeOK, PoolIInv, CollectPart
  <1>8. NextTxExact /\ NoneConfirmed
    BY DEF PoolIInv, PoolPart, Good, NextTxExact
  <1>9. OrphansIndexed
    BY DEF PoolIInv, OrphanPart, Indexed, OrphansIndexed
  <1> QED BY <1>7, <1>8, <1>9 DEF PoolExact

(* And that the state is one in which orphans can be tried.                *)
LEMMA IInvReady == PoolIInv => Ready
  BY DEF PoolIInv, PoolPart, OrphanPart, NoneConfirmed, Ready

(* It holds in the initial states.                                         *)
LEMMA PoolIInvInit == Init => PoolIInv
  <1> SUFFICES ASSUME Init PROVE PoolIInv
    OBVIOUS
  <1>1. ChainPart
    <2> DEFINE B == [id : 1 .. nBlocks, vtx : Blocks]
    <2>1. << >> \in Seq(B)
      OBVIOUS
    <2> QED BY <2>1, SettingIs DEF Init, ChainPart, Tip
  <1>2. PoolPart
    BY DEF Init, PoolPart, Good, NoneConfirmed, Spends, NoFcn
  <1>3. OrphanPart
    <2>1. Cardinality({}) = 0 /\ setting.MaxOrphans \in Nat
      BY SettingIs, FS_EmptySet DEF Init
    <2>2. Indexed({}, NoFcn)
      BY DEF Indexed, NoFcn
    <2> QED BY <2>1, <2>2 DEF Init, OrphanPart
  <1>4. MinerPart
    BY NoBlock DEF Init, MinerPart
  <1>5. CollectPart
    BY DEF Init, CollectPart, NoFcn
  <1> QED BY <1>1, <1>2, <1>3, <1>4, <1>5 DEF PoolIInv

-----------------------------------------------------------------------------
(* Each action keeps it.                                                   *)

(* What depends on the chain alone, or on the miner.                       *)
LEMMA ChainSame == ChainPart /\ UNCHANGED chainVars => ChainPart'
  BY DEF ChainPart, chainVars

(* The miner's state with the chain it is about.                           *)
LEMMA MinerSame ==
  MinerPart /\ CollectPart /\ UNCHANGED <<chainVars, minerVars>> => MinerPart' /\ CollectPart'
  BY DEF MinerPart, CollectPart, chainVars, minerVars, collectVars

(* The orphans with the setting that bounds them.                          *)
LEMMA OrphansSame == OrphanPart /\ UNCHANGED <<setting, orphanVars>> => OrphanPart'
  BY DEF OrphanPart, orphanVars

(* A transaction that is accepted, and the orphans that follow it.         *)
LEMMA TxAcceptedKeeps ==
  ASSUME PoolIInv, NEW t \in Tx, TxAccepted(t)
  PROVE  PoolIInv'
  <1> DEFINE w == WorkQueue(t)
  <1> DEFINE b == [h \in DOMAIN byPrev \cup w.looked |-> Waiting(byPrev, h)]
  <1> DEFINE s == [o |-> orphans, b |-> b]
  <1> DEFINE e == EraseOrphanTx(s, w.erase)
  <1>1. /\ Accepts(chain, pool, t)
        /\ pool' = w.p /\ orphans' = e.o /\ byPrev' = e.b
        /\ untold' = untold \cup (w.p.tx \ (pool.tx \cup {t}))
        /\ UNCHANGED <<chainVars, minerVars>>
    BY DEF TxAccepted
  <1>2. Ready
    BY IInvReady
  <1>3. Work(w, MaxTries)
    BY <1>1, <1>2, WorkDone
  <1> HIDE DEF w
  <1>4. PoolPart'
    <2>1. Good(pool') /\ pool'.tx = pool.tx \cup w.looked /\ w.looked \cap Txs(chain) = {}
      BY <1>1, <1>3 DEF Work
    <2>2. pool'.tx \cap Txs(chain') = {}
      BY <1>1, <2>1 DEF chainVars, PoolIInv, PoolPart, NoneConfirmed
    <2>3. untold' \subseteq pool'.tx
      BY <1>1, <2>1 DEF PoolIInv, PoolPart
    <2> QED BY <2>1, <2>2, <2>3 DEF PoolPart, NoneConfirmed
  <1>5. Indexed(orphans, b)
    <2>1. DOMAIN b = DOMAIN byPrev \cup w.looked
          /\ \A h \in DOMAIN b : b[h] = Waiting(byPrev, h)
      OBVIOUS
    <2>2. w.looked \subseteq Tx
      BY <1>3 DEF Work
    <2> HIDE DEF b
    <2>3. \A h : Waiting(b, h) = Waiting(byPrev, h)
      BY <2>1 DEF Waiting
    <2>4. \A h : Waiting(byPrev, h) \subseteq orphans /\ \A u \in Waiting(byPrev, h) : h \in Prevs(u)
      BY DEF PoolIInv, OrphanPart, Indexed, Waiting
    <2>5. \A u \in orphans : \A h \in Prevs(u) : u \in Waiting(b, h)
      BY <2>3 DEF PoolIInv, OrphanPart, Indexed
    <2>6. DOMAIN b \subseteq Tx \cup {Coinbase}
      BY <2>1, <2>2 DEF PoolIInv, OrphanPart, Indexed
    <2> QED BY <2>1, <2>4, <2>5, <2>6 DEF Indexed
  <1>6. OrphanPart'
    <2>1. s.o = orphans /\ s.b = b
      OBVIOUS
    <2> HIDE DEF b, s
    <2>2. Indexed(e.o, e.b) /\ e.o = orphans \ w.erase
      BY <1>5, <2>1, EraseIndexed
    <2> HIDE DEF e
    <2>3. orphans \in SUBSET Tx /\ IsFiniteSet(orphans) /\ Cardinality(orphans) \in Nat
      BY FS_Subset, FS_CardinalityType, TxPoolAssumption DEF PoolIInv, OrphanPart
    <2>4. e.o \in SUBSET orphans
      BY <2>2
    <2>5. Cardinality(e.o) <= Cardinality(orphans) /\ Cardinality(e.o) \in Nat
      BY <2>3, <2>4, FS_Subset, FS_CardinalityType
    <2>6. setting' = setting /\ setting.MaxOrphans \in Nat
      BY <1>1, SettingIs DEF chainVars, PoolIInv, ChainPart
    <2>7. Cardinality(e.o) <= setting.MaxOrphans
      BY <2>3, <2>5, <2>6 DEF PoolIInv, OrphanPart
    <2> QED BY <1>1, <2>2, <2>3, <2>4, <2>6, <2>7 DEF OrphanPart
  <1>7. ChainPart' /\ MinerPart' /\ CollectPart'
    BY <1>1, ChainSame, MinerSame DEF PoolIInv
  <1> QED BY <1>4, <1>6, <1>7 DEF PoolIInv

(* A transaction that waits.                                               *)
LEMMA TxOrphanKeeps ==
  ASSUME PoolIInv, NEW t \in Tx, TxOrphan(t)
  PROVE  PoolIInv'
  <1> DEFINE s == AddOrphanTx(orphans, byPrev, t)
  <1>1. /\ \/ /\ Cardinality(s.o) <= setting.MaxOrphans
              /\ orphans' = s.o /\ byPrev' = s.b
           \/ /\ Cardinality(s.o) > setting.MaxOrphans
              /\ \E u \in s.o : /\ orphans' = EraseOrphanTx(s, {u}).o
                                /\ byPrev' = EraseOrphanTx(s, {u}).b
        /\ UNCHANGED <<chainVars, pool, untold, minerVars>>
    BY DEF TxOrphan
  <1>2. Indexed(s.o, s.b) /\ s.o = orphans \cup {t}
    BY AddIndexed DEF PoolIInv, OrphanPart
  <1> HIDE DEF s
  <1>3. /\ orphans \in SUBSET Tx /\ IsFiniteSet(orphans) /\ Cardinality(orphans) \in Nat
        /\ Cardinality(orphans) <= setting.MaxOrphans
        /\ setting' = setting /\ setting.MaxOrphans \in Nat
    BY <1>1, SettingIs, FS_Subset, FS_CardinalityType, TxPoolAssumption
       DEF PoolIInv, OrphanPart, ChainPart, chainVars
  <1>4. OrphanPart'
    <2>1. CASE Cardinality(s.o) <= setting.MaxOrphans /\ orphans' = s.o /\ byPrev' = s.b
      BY <1>2, <1>3, <2>1 DEF OrphanPart
    <2>2. ASSUME NEW u \in s.o, orphans' = EraseOrphanTx(s, {u}).o,
                 byPrev' = EraseOrphanTx(s, {u}).b
          PROVE  OrphanPart'
      <3>1. Indexed(orphans', byPrev') /\ orphans' = s.o \ {u}
        BY <1>2, <2>2, EraseIndexed
      <3>2. IsFiniteSet(s.o) /\ Cardinality(s.o) \in Nat /\ Cardinality(s.o) <= setting.MaxOrphans + 1
        <4>1. /\ IsFiniteSet(orphans \cup {t})
              /\ Cardinality(orphans \cup {t})
                   = IF t \in orphans THEN Cardinality(orphans) ELSE Cardinality(orphans) + 1
          BY <1>3, FS_AddElement
        <4>2. /\ Cardinality(orphans \cup {t}) \in Nat
              /\ Cardinality(orphans \cup {t}) <= setting.MaxOrphans + 1
          BY <1>3, <4>1
        <4> QED BY <1>2, <4>1, <4>2
      <3>3. Cardinality(orphans') = Cardinality(s.o) - 1
        BY <2>2, <3>1, <3>2, FS_RemoveElement
      <3>4. orphans' \in SUBSET Tx
        BY <1>2, <1>3, <3>1
      <3>5. Cardinality(orphans') <= setting.MaxOrphans
        BY <1>3, <3>2, <3>3
      <3> QED BY <1>3, <3>1, <3>4, <3>5 DEF OrphanPart
    <2> QED BY <1>1, <2>1, <2>2
  <1>5. ChainPart' /\ MinerPart' /\ CollectPart'
    BY <1>1, ChainSame, MinerSame DEF PoolIInv
  <1>6. PoolPart'
    BY <1>1 DEF PoolIInv, PoolPart, NoneConfirmed, chainVars
  <1> QED BY <1>4, <1>5, <1>6 DEF PoolIInv

(* A transaction of the wallet.                                            *)
LEMMA OwnTransactionKeeps ==
  ASSUME PoolIInv, NEW t \in Tx, OwnTransaction(t)
  PROVE  PoolIInv'
  <1>1. /\ pool' = AcceptToMemoryPool(chain, pool, t) /\ untold' = untold \ {t}
        /\ UNCHANGED <<chainVars, orphanVars, minerVars>>
    BY DEF OwnTransaction
  <1>2. Good(pool') /\ pool.tx \subseteq pool'.tx /\ pool'.tx \cap Txs(chain) \subseteq pool.tx
    BY <1>1, AcceptGood DEF PoolIInv, PoolPart
  <1>3. PoolPart'
    BY <1>1, <1>2 DEF PoolIInv, PoolPart, NoneConfirmed, chainVars
  <1>4. ChainPart' /\ MinerPart' /\ CollectPart' /\ OrphanPart'
    BY <1>1, ChainSame, MinerSame, OrphansSame DEF PoolIInv, chainVars
  <1> QED BY <1>3, <1>4 DEF PoolIInv

(* A block on top of the chain.                                            *)
LEMMA ConnectTipKeeps ==
  ASSUME PoolIInv, NEW s \in Blocks, ConnectTip(s)
  PROVE  ChainPart' /\ PoolPart' /\ nBlocks' = nBlocks + 1 /\ setting' = setting
  <1> DEFINE n == nBlocks + 1
  <1> DEFINE B == [id : 1 .. n, vtx : Blocks]
  <1>1. /\ nBlocks < setting.MaxBlocks
        /\ chain' = NewBlock(chain, n, s) /\ nBlocks' = n /\ setting' = setting
        /\ pool' = Erase(pool, Range(s)) /\ untold' = untold \cap pool'.tx
    BY DEF ConnectTip
  <1>2. nBlocks \in Nat /\ setting.MaxBlocks \in Nat /\ setting \in Settings
    BY SettingIs DEF PoolIInv, ChainPart
  <1>3. chain \in Seq(B)
    <2>1. chain \in Seq([id : 1 .. nBlocks, vtx : Blocks])
      BY DEF PoolIInv, ChainPart
    <2>2. [id : 1 .. nBlocks, vtx : Blocks] \subseteq B
      BY <1>2
    <2> HIDE DEF B
    <2> QED BY <2>1, <2>2, Longer
  <1>4. [id |-> n, vtx |-> s] \in B
    BY <1>2
  <1>5. chain' \in Seq(B) /\ Tip(chain') = n /\ Txs(chain') = Txs(chain) \cup Range(s)
    <2> HIDE DEF B, n
    <2> QED BY <1>1, <1>3, <1>4, TxsNewBlock
  <1>6. ChainPart'
    BY <1>1, <1>2, <1>5 DEF ChainPart
  <1>7. Good(pool') /\ pool'.tx = pool.tx \ Range(s)
    BY <1>1, EraseGood DEF PoolIInv, PoolPart
  <1>8. PoolPart'
    BY <1>1, <1>5, <1>7 DEF PoolIInv, PoolPart, NoneConfirmed
  <1> QED BY <1>1, <1>6, <1>8

(* A longer chain makes what was found stale.                              *)
LEMMA MinerStale ==
  ASSUME PoolIInv, MainFree, UNCHANGED minerVars, nBlocks' \in Nat, nBlocks' > nBlocks
  PROVE  MinerPart' /\ CollectPart'
  <1>1. UNCHANGED <<minerPc, block, vecPriority, dependsOn, mapDependers, freed>>
    BY DEF minerVars, collectVars
  <1>2. block.prev \in Nat /\ block.prev < nBlocks' /\ block.prev # nBlocks'
    BY DEF PoolIInv, MinerPart, ChainPart
  <1> QED BY <1>1, <1>2 DEF MainFree, PoolIInv, MinerPart, CollectPart

(* A block from a peer.                                                    *)
LEMMA SetBestChainKeeps ==
  ASSUME PoolIInv, NEW s \in Blocks, SetBestChainInner(s)
  PROVE  PoolIInv'
  <1>1. MainFree /\ ConnectTip(s) /\ UNCHANGED orphanVars /\ UNCHANGED minerVars
    BY DEF SetBestChainInner
  <1>2. ChainPart' /\ PoolPart' /\ nBlocks' = nBlocks + 1 /\ setting' = setting
    BY <1>1, ConnectTipKeeps
  <1>3. nBlocks' \in Nat /\ nBlocks' > nBlocks
    BY <1>2 DEF PoolIInv, ChainPart
  <1>4. MinerPart' /\ CollectPart'
    BY <1>1, <1>3, MinerStale
  <1>5. OrphanPart'
    BY <1>1, <1>2, OrphansSame DEF PoolIInv
  <1> QED BY <1>2, <1>4, <1>5 DEF PoolIInv

(* Another branch.                                                         *)
LEMMA ReorganizeKeeps ==
  ASSUME PoolIInv, NEW f \in 0 .. Len(chain) - 1, Reorganize(f)
  PROVE  PoolIInv'
  <1> DEFINE base == SubSeq(chain, 1, f)
  <1> DEFINE n1 == nBlocks + 1
  <1> DEFINE n2 == nBlocks + 2
  <1> DEFINE B == [id : 1 .. n2, vtx : Blocks]
  <1>0. PICK s1 \in Connectable(base) : \E s2 \in Connectable(NewBlock(base, n1, s1)) :
          /\ chain' = NewBlock(NewBlock(base, n1, s1), n2, s2)
          /\ pool' = Delete(Resurrect(NewBlock(NewBlock(base, n1, s1), n2, s2), pool,
                                      vResurrect(f)), s1 \o s2)
    BY DEF Reorganize
  <1>1. PICK s2 \in Connectable(NewBlock(base, n1, s1)) :
          /\ chain' = NewBlock(NewBlock(base, n1, s1), n2, s2)
          /\ pool' = Delete(Resurrect(NewBlock(NewBlock(base, n1, s1), n2, s2), pool,
                                      vResurrect(f)), s1 \o s2)
    BY <1>0
  <1>2. /\ MainFree /\ n2 <= setting.MaxBlocks /\ nBlocks' = n2 /\ setting' = setting
        /\ untold' = untold \cap pool'.tx /\ UNCHANGED orphanVars /\ UNCHANGED minerVars
    BY DEF Reorganize
  <1>3. s1 \in Blocks /\ s2 \in Blocks
    BY DEF Connectable
  <1>4. nBlocks \in Nat /\ setting \in Settings /\ Len(chain) \in Nat
        /\ chain \in Seq([id : 1 .. nBlocks, vtx : Blocks])
    BY DEF PoolIInv, ChainPart
  <1>5. chain \in Seq(B)
    <2>1. [id : 1 .. nBlocks, vtx : Blocks] \subseteq B
      BY <1>4
    <2> HIDE DEF B
    <2> QED BY <1>4, <2>1, Longer
  <1>6. base \in Seq(B) /\ Txs(base) \subseteq Txs(chain)
    <2>1. f \in 0 .. Len(chain)
      BY <1>4
    <2> HIDE DEF B
    <2> QED BY <1>5, <2>1, TxsSubSeq
  <1>7. vResurrect(f) \in Seq(Tx)
    <2> DEFINE C == [id : 1 .. nBlocks, vtx : Blocks]
    <2>1. \A x \in C : x.vtx \in Blocks
      OBVIOUS
    <2>2. chain \in Seq(C)
      BY <1>4
    <2> HIDE DEF C
    <2>3. \A j \in 1 .. Len(chain) : chain[j] \in C
      BY <2>2
    <2>4. \A j \in 1 .. Len(chain) : chain[j].vtx \in Seq(Tx)
      BY <2>1, <2>3, BlockSeq
    <2>5. f \in 0 .. Len(chain)
      BY <1>4
    <2> QED BY <1>4, <2>4, <2>5, ResurrectSeq
  <1> HIDE DEF base
  <1> DEFINE c2 == NewBlock(NewBlock(base, n1, s1), n2, s2)
  <1>8. [id |-> n1, vtx |-> s1] \in B /\ [id |-> n2, vtx |-> s2] \in B
    BY <1>3, <1>4
  <1> HIDE DEF B, n1, n2
  <1>9. c2 \in Seq(B) /\ Tip(c2) = n2 /\ Txs(c2) = Txs(base) \cup Range(s1) \cup Range(s2)
    <2> DEFINE b1 == [id |-> n1, vtx |-> s1]
    <2> DEFINE b2 == [id |-> n2, vtx |-> s2]
    <2>1. b1 \in B /\ b2 \in B /\ b1.vtx = s1 /\ b2.id = n2 /\ b2.vtx = s2
      BY <1>8
    <2>2. c2 = Append(Append(base, b1), b2)
      BY DEF NewBlock
    <2> HIDE DEF b1, b2, c2
    <2> QED BY <1>6, <2>1, <2>2, TxsTwoBlocks
  <1>11. chain' = c2 /\ pool' = Delete(Resurrect(c2, pool, vResurrect(f)), s1 \o s2)
    BY <1>1
  <1> HIDE DEF c2
  <1>12. n2 \in Nat /\ n2 > nBlocks
    BY <1>4 DEF n2
  <1>13. ChainPart'
    BY <1>2, <1>4, <1>9, <1>11, <1>12 DEF ChainPart, B
  <1>14. PoolPart'
    <2> DEFINE r == Resurrect(c2, pool, vResurrect(f))
    <2>1. Good(r) /\ r.tx \cap Txs(c2) \subseteq pool.tx
      BY <1>7, ResurrectGood DEF PoolIInv, PoolPart
    <2>2. s1 \o s2 \in Seq(Tx) /\ Range(s1 \o s2) = Range(s1) \cup Range(s2)
      BY <1>3, BlockSeq, ConcatSet
    <2> HIDE DEF r
    <2>3. Good(pool') /\ pool'.tx \subseteq r.tx /\ pool'.tx \cap Range(s1 \o s2) = {}
      <3>1. pool' = Delete(r, s1 \o s2)
        BY <1>11 DEF r
      <3> QED BY <2>1, <2>2, <3>1, DeleteGood
    <2>4. ASSUME NEW t \in pool'.tx, t \in Txs(c2) PROVE FALSE
      <3>1. t \notin Range(s1) /\ t \notin Range(s2)
        BY <2>2, <2>3
      <3>2. t \in Txs(base)
        BY <1>9, <2>4, <3>1
      <3>3. t \in pool.tx
        BY <2>1, <2>3, <2>4
      <3> QED BY <1>6, <3>2, <3>3 DEF PoolIInv, PoolPart, NoneConfirmed
    <2> QED BY <1>2, <1>11, <2>3, <2>4 DEF PoolPart, NoneConfirmed
  <1>15. MinerPart' /\ CollectPart'
    BY <1>2, <1>12, MinerStale
  <1>16. OrphanPart'
    BY <1>2, OrphansSame DEF PoolIInv
  <1> QED BY <1>13, <1>14, <1>15, <1>16 DEF PoolIInv

(* The staking thread: what it does to its own state.                      *)
LEMMA StakingKeeps ==
  ASSUME PoolIInv,
         ReadBest \/ Collect \/ Collected \/ \E t \in Tx : Skip(t) \/ AddToBlock(t)
  PROVE  PoolIInv'
  <1>0. UNCHANGED <<chainVars, pool, orphanVars, untold>>
    BY DEF ReadBest, Collect, Collected, Skip, AddToBlock
  <1>1. ChainPart' /\ OrphanPart' /\ PoolPart'
    BY <1>0, ChainSame, OrphansSame DEF PoolIInv, PoolPart, NoneConfirmed, chainVars
  <1>2. chain' = chain /\ nBlocks' = nBlocks /\ nBlocks \in Nat
    BY <1>0 DEF chainVars, PoolIInv, ChainPart
  <1>3. MinerPart /\ CollectPart
    BY DEF PoolIInv
  <1>4. CASE ReadBest
    <2>1. MinerPart'
      BY <1>2, <1>4, NoBlock DEF ReadBest, MinerPart, PoolIInv, ChainPart
    <2>2. CollectPart'
      BY <1>3, <1>4 DEF ReadBest, CollectPart
    <2> QED BY <1>1, <2>1, <2>2 DEF PoolIInv
  <1>5. CASE Collect
    <2>1. ConnectBlock(chain, << >>)
      BY DEF ConnectBlock
    <2>2. MinerPart'
      BY <1>2, <1>3, <1>5, <2>1 DEF Collect, MinerPart
    <2>3. CollectPart'
      BY <1>5 DEF Collect, CollectPart, PoolIInv, PoolPart, Good
    <2> QED BY <1>1, <2>2, <2>3 DEF PoolIInv
  <1>6. CASE Collected
    <2>1. MinerPart'
      BY <1>2, <1>3, <1>6 DEF Collected, MinerPart
    <2>2. CollectPart'
      BY <1>3, <1>6 DEF Collected, CollectPart, NoFcn
    <2> QED BY <1>1, <2>1, <2>2 DEF PoolIInv
  <1>7. ASSUME NEW t \in Tx, Skip(t) PROVE PoolIInv'
    <2>1. MinerPart'
      BY <1>2, <1>3, <1>7 DEF Skip, MinerPart
    <2>2. CollectPart'
      BY <1>3, <1>7 DEF Skip, CollectPart
    <2> QED BY <1>1, <2>1, <2>2 DEF PoolIInv
  <1>8. ASSUME NEW t \in Tx, AddToBlock(t) PROVE PoolIInv'
    <2> DEFINE v == Append(block.vtx, t)
    <2>1. /\ minerPc = "collect" /\ minerPc' = "collect" /\ CanAdd(t)
          /\ block' = [block EXCEPT !.vtx = v]
      BY <1>8 DEF AddToBlock
    <2>2. /\ block \in [prev : Nat, vtx : Blocks] /\ block.vtx \in Blocks
          /\ block.prev <= nBlocks /\ ConnectBlock(chain, block.vtx)
      BY <1>3, <2>1 DEF MinerPart
    <2>3. Connects(chain, block.vtx, t) /\ Len(block.vtx) < MaxBlockTx /\ t \notin Range(block.vtx)
      BY <2>1 DEF CanAdd, Connects
    <2>4. v \in Blocks /\ ConnectBlock(chain, v)
      BY <2>2, <2>3, AppendBlock, AppendConnects
    <2> HIDE DEF v
    <2>5. block' \in [prev : Nat, vtx : Blocks] /\ block'.prev = block.prev /\ block'.vtx = v
      BY <2>1, <2>2, <2>4
    <2>6. MinerPart'
      BY <1>2, <2>1, <2>2, <2>4, <2>5 DEF MinerPart
    <2>7. /\ vecPriority' = (vecPriority \ {t}) \cup Released(t)
          /\ DOMAIN dependsOn' = DOMAIN dependsOn /\ mapDependers' = mapDependers
      BY <1>8 DEF AddToBlock
    <2>8. freed' \in BOOLEAN
      BY <1>8, Zenon DEF AddToBlock
    <2>9. CollectPart'
      BY <1>3, <2>7, <2>8 DEF CollectPart, Released
    <2> QED BY <1>1, <2>6, <2>9 DEF PoolIInv
  <1> QED BY <1>4, <1>5, <1>6, <1>7, <1>8

(* The block that was found.                                               *)
LEMMA CheckStakeKeeps ==
  ASSUME PoolIInv, CheckStake
  PROVE  PoolIInv'
  <1>1. /\ minerPc' = "idle" /\ block' = [prev |-> 0, vtx |-> << >>]
        /\ UNCHANGED orphanVars /\ UNCHANGED <<vecPriority, dependsOn, mapDependers, freed>>
    BY DEF CheckStake
  <1>2. ChainPart' /\ PoolPart' /\ setting' = setting
    <2>1. CASE ConnectTip(block.vtx)
      <3>1. block.vtx \in Blocks
        BY DEF PoolIInv, MinerPart
      <3> QED BY <2>1, <3>1, ConnectTipKeeps
    <2>2. CASE UNCHANGED <<chainVars, pool, untold>>
      BY <2>2, ChainSame DEF PoolIInv, PoolPart, NoneConfirmed, chainVars
    <2> QED BY <2>1, <2>2 DEF CheckStake
  <1>3. MinerPart'
    <2>1. nBlocks' \in Nat
      BY <1>2 DEF ChainPart
    <2> QED BY <1>1, <2>1, NoBlock DEF MinerPart
  <1>4. CollectPart'
    BY <1>1 DEF PoolIInv, CollectPart
  <1>5. OrphanPart'
    BY <1>1, <1>2, OrphansSame DEF PoolIInv
  <1> QED BY <1>2, <1>3, <1>4, <1>5 DEF PoolIInv

(* The invariant is inductive.                                             *)
LEMMA PoolIInvNext == PoolIInv /\ [Next]_vars => PoolIInv'
  <1> SUFFICES ASSUME PoolIInv, [Next]_vars PROVE PoolIInv'
    OBVIOUS
  <1>1. setting.Loose \subseteq Tx
    BY SettingIs DEF PoolIInv, ChainPart
  <1>2. ASSUME NEW t \in setting.Loose, TxAccepted(t) \/ TxOrphan(t) \/ OwnTransaction(t)
        PROVE  PoolIInv'
    BY <1>1, <1>2, TxAcceptedKeeps, TxOrphanKeeps, OwnTransactionKeeps
  <1>3. ASSUME NEW s \in Connectable(chain), SetBestChainInner(s) PROVE PoolIInv'
    <2>1. s \in Blocks
      BY DEF Connectable
    <2> QED BY <1>3, <2>1, SetBestChainKeeps
  <1>4. ASSUME NEW f \in 0 .. Len(chain) - 1, Reorganize(f) PROVE PoolIInv'
    BY <1>4, ReorganizeKeeps
  <1>5. CASE ReadBest \/ Collect \/ Collected
    BY <1>5, StakingKeeps
  <1>6. CASE CheckStake
    BY <1>6, CheckStakeKeeps
  <1>7. ASSUME NEW t \in setting.Loose, Skip(t) \/ AddToBlock(t) PROVE PoolIInv'
    BY <1>1, <1>7, StakingKeeps
  <1>8. CASE UNCHANGED vars
    <2>1. UNCHANGED <<chainVars, pool, orphanVars, untold, minerVars>>
      BY <1>8 DEF vars
    <2>2. ChainPart' /\ OrphanPart' /\ MinerPart' /\ CollectPart'
      BY <2>1, ChainSame, OrphansSame, MinerSame DEF PoolIInv, chainVars
    <2>3. PoolPart'
      BY <2>1 DEF PoolIInv, PoolPart, NoneConfirmed, chainVars
    <2> QED BY <2>2, <2>3 DEF PoolIInv
  <1> QED BY <1>2, <1>3, <1>4, <1>5, <1>6, <1>7, <1>8 DEF Next

-----------------------------------------------------------------------------
(* The pool and the index of the orphans are exact in every reachable      *)
(* state: no double spend in mapNextTx, nothing confirmed in the pool, and *)
(* every orphan found under each of its parents, through acceptance,       *)
(* conflicts, new blocks, reorganizations and evictions of any size.       *)
THEOREM PoolExactTheorem == Spec => []PoolExact
  BY PoolIInvInit, PoolIInvNext, IInvExact, PTL DEF Spec

(* What CreateNewBlock collected connects whenever the tip is still the    *)
(* block it was made for.                                                  *)
THEOREM BlockConnectsTheorem == Spec => []BlockConnects
  <1>1. PoolIInv => BlockConnects
    BY DEF PoolIInv, ChainPart, MinerPart, BlockConnects
  <1> QED BY <1>1, PoolIInvInit, PoolIInvNext, PTL DEF Spec

(* When a transaction is accepted, the orphans it frees are accepted or    *)
(* dropped with it, along every chain of orphans that wait for each other. *)
THEOREM OrphansFollowTheorem == Spec => OrphansFollow
  <1>1. ASSUME PoolIInv, NEW t \in setting.Loose, TxAccepted(t), NEW u \in orphans',
               Accepts(chain', pool', u)
        PROVE  Accepts(chain, pool, u)
    <2> DEFINE w == WorkQueue(t)
    <2> DEFINE b == [h \in DOMAIN byPrev \cup w.looked |-> Waiting(byPrev, h)]
    <2> DEFINE s == [o |-> orphans, b |-> b]
    <2>1. /\ Accepts(chain, pool, t) /\ chain' = chain /\ setting' = setting
          /\ pool' = w.p /\ orphans' = EraseOrphanTx(s, w.erase).o
      BY <1>1 DEF TxAccepted, chainVars
    <2>2. t \in Tx /\ Ready
      BY <1>1, SettingIs, IInvReady DEF PoolIInv, ChainPart
    <2>3. Work(w, MaxTries) /\ w.todo = << >>
      BY <2>1, <2>2, WorkDone
    <2>4. u \in orphans /\ u \notin w.erase
      <3>1. s.o = orphans
        OBVIOUS
      <3> HIDE DEF s, w
      <3>2. EraseOrphanTx(s, w.erase).o = orphans \ (w.erase \cap orphans)
        BY <3>1 DEF EraseOrphanTx
      <3> QED BY <1>1, <2>1, <3>2
    <2> HIDE DEF w
    <2>5. Range(w.todo) = {}
      BY <2>3 DEF Range
    <2>6. /\ ~MissingInputs(chain, w.p, u) /\ InSet(u) \cap Spent(chain) = {}
          /\ InSet(u) \cap DOMAIN w.p.next = {} /\ ~ContainsTx(chain, u)
          /\ u \notin setting.NonStandard /\ u \notin w.p.tx
      BY <1>1, <2>1 DEF Accepts, Refused
    <2>7. Prevs(u) \cap w.looked = {}
      BY <2>3, <2>4, <2>5, <2>6 DEF Work, Untouched
    <2>8. w.p.tx = pool.tx \cup w.looked /\ Good(w.p) /\ Good(pool)
      BY <2>2, <2>3 DEF Work, Ready
    <2>9. ~MissingInputs(chain, pool, u)
      BY <2>6, <2>7, <2>8 DEF MissingInputs
    <2>10. DOMAIN pool.next \subseteq DOMAIN w.p.next
      BY <2>8 DEF Good, Spends
    <2> QED BY <2>6, <2>8, <2>9, <2>10 DEF Accepts, Refused
  <1>2. PoolIInv /\ [Next]_vars =>
          [\A t \in setting.Loose : TxAccepted(t) =>
             \A u \in orphans' : ~Accepts(chain', pool', u) \/ Accepts(chain, pool, u)]_vars
    BY <1>1
  <1> QED BY <1>2, PoolIInvInit, PoolIInvNext, PTL DEF Spec, OrphansFollow

=============================================================================
