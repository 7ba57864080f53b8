------------------------ MODULE WalletSpendingProofs ------------------------
(***************************************************************************)
(* Proofs about the choice of the coins of a payment, for every number of  *)
(* coins, every amount and every setting of the fees (CoinSelection).      *)
(***************************************************************************)
EXTENDS CoinSelection, FiniteSetTheorems, WellFoundedInduction, TLAPS

(* Naturals are well ordered.                                              *)
LEMMA Smallest ==
  ASSUME NEW S \in SUBSET Nat, S # {}
  PROVE  \E x \in S : \A y \in S : x <= y
  <1>1. PICK x \in S : \A y \in S : ~(<<y, x>> \in OpToRel(<, Nat))
    BY NatLessThanWellFounded, WFMin, Zenon
  <1>2. \A y \in S : ~(y < x)
    BY <1>1 DEF OpToRel
  <1> QED BY <1>2

-----------------------------------------------------------------------------
(* What coins are worth: the recursion of MapThenSumSet over the subsets   *)
(* of a finite set.                                                        *)

Some(s) == CHOOSE x \in s : TRUE

(* f solves the equation of the recursion for the sets in D.               *)
Sums(f, D, v) == f = [s \in D |-> IF s = {} THEN 0 ELSE v[Some(s)] + f[s \ {Some(s)}]]

(* An element is chosen from a set that has one.                            *)
LEMMA SomeIn == \A s : s # {} => Some(s) \in s
  BY Zenon DEF Some

(* A finite set without one of its elements is smaller.                    *)
LEMMA Smaller ==
  ASSUME NEW S, IsFiniteSet(S), NEW s \in SUBSET S, s # {}
  PROVE  /\ Some(s) \in s /\ s \ {Some(s)} \in SUBSET S
         /\ Cardinality(s) \in Nat /\ Cardinality(s \ {Some(s)}) = Cardinality(s) - 1
         /\ Cardinality(s) # 0
  <1>1. IsFiniteSet(s) /\ Some(s) \in s
    BY FS_Subset, SomeIn
  <1>2. Cardinality(s) \in Nat /\ Cardinality(s) # 0
    BY <1>1, FS_CardinalityType, FS_EmptySet
  <1>3. Cardinality(s \ {Some(s)}) = Cardinality(s) - 1
    BY <1>1, FS_RemoveElement
  <1> QED BY <1>1, <1>2, <1>3

(* The equation has a solution.                                            *)
LEMMA SumsExist ==
  ASSUME NEW S, IsFiniteSet(S), NEW v
  PROVE  \E f : Sums(f, SUBSET S, v)
  <1> DEFINE U(k) == {s \in SUBSET S : Cardinality(s) <= k}
  <1> DEFINE Good(k) == \E f : Sums(f, U(k), v)
  <1>0. \A s \in SUBSET S : Cardinality(s) \in Nat /\ Cardinality(s) <= Cardinality(S)
    BY FS_Subset, FS_CardinalityType
  <1>1. Good(0)
    <2>1. ASSUME NEW s \in U(0) PROVE s = {}
      <3>1. s \in SUBSET S /\ Cardinality(s) \in Nat /\ Cardinality(s) <= 0
        BY <1>0
      <3>2. Cardinality(s) = 0
        BY <3>1
      <3> QED BY <3>1, <3>2, Smaller
    <2> DEFINE f == [s \in U(0) |-> 0]
    <2>2. Sums(f, U(0), v)
      BY <2>1 DEF Sums
    <2> QED BY <2>2
  <1>2. ASSUME NEW k \in Nat, Good(k) PROVE Good(k + 1)
    <2>1. PICK f : Sums(f, U(k), v)
      BY <1>2
    <2> DEFINE g == [s \in U(k + 1) |-> IF s = {} THEN 0 ELSE v[Some(s)] + f[s \ {Some(s)}]]
    <2>2. \A s \in U(k + 1) : s # {} => s \ {Some(s)} \in U(k)
      BY <1>0, Smaller
    <2>3. \A s \in U(k) : s \in U(k + 1)
      BY <1>0
    <2>4. \A s \in U(k) : f[s] = IF s = {} THEN 0 ELSE v[Some(s)] + f[s \ {Some(s)}]
      BY <2>1 DEF Sums
    <2>5. \A s \in U(k) : g[s] = f[s]
      BY <2>3, <2>4
    <2>6. \A s \in U(k + 1) : s # {} => g[s \ {Some(s)}] = f[s \ {Some(s)}]
      BY <2>2, <2>5
    <2>7. Sums(g, U(k + 1), v)
      BY <2>6 DEF Sums
    <2> QED BY <2>7
  <1>3. ASSUME NEW k \in Nat PROVE Good(k)
    <2> SUFFICES ASSUME ~Good(k) PROVE FALSE
      OBVIOUS
    <2> DEFINE B == {n \in Nat : ~Good(n)}
    <2> HIDE DEF Good
    <2>1. PICK n \in B : \A m \in B : n <= m
      BY Smallest
    <2>2. n # 0 /\ n - 1 \in Nat /\ n - 1 \notin B
      BY <1>1, <2>1
    <2>3. Good((n - 1) + 1)
      BY <1>2, <2>2
    <2> QED BY <2>1, <2>2, <2>3
  <1>4. U(Cardinality(S)) = SUBSET S
    BY <1>0
  <1>5. Good(Cardinality(S))
    BY <1>3, FS_CardinalityType
  <1> QED BY <1>4, <1>5

(* What a finite set of coins is worth is a natural number.                *)
LEMMA WorthNat ==
  ASSUME NEW S, IsFiniteSet(S), NEW v, \A c \in S : v[c] \in Nat
  PROVE  Worth(v, S) \in Nat
  <1> DEFINE f == CHOOSE g : Sums(g, SUBSET S, v)
  <1>1. Worth(v, S) = f[S]
    BY DEF Worth, MapThenSumSet, MapThenFoldSet, Sums, Some
  <1>2. Sums(f, SUBSET S, v)
    BY SumsExist, Zenon
  <1> HIDE DEF f
  <1> DEFINE B == {n \in Nat : \E s \in SUBSET S : Cardinality(s) = n /\ f[s] \notin Nat}
  <1>3. \A s \in SUBSET S : f[s] = IF s = {} THEN 0 ELSE v[Some(s)] + f[s \ {Some(s)}]
    BY <1>2 DEF Sums
  <1>4. B = {}
    <2> SUFFICES ASSUME B # {} PROVE FALSE
      OBVIOUS
    <2>1. PICK n \in B : \A m \in B : n <= m
      BY Smallest
    <2>2. PICK s \in SUBSET S : Cardinality(s) = n /\ f[s] \notin Nat
      BY <2>1
    <2>3. s # {}
      <3>1. f[{}] = 0
        BY <1>3
      <3> QED BY <2>2, <3>1
    <2>4. f[s \ {Some(s)}] \in Nat
      BY <2>1, <2>2, <2>3, Smaller
    <2>5. v[Some(s)] \in Nat
      BY <2>2, <2>3, SomeIn
    <2>6. f[s] = v[Some(s)] + f[s \ {Some(s)}]
      BY <1>3, <2>3
    <2>7. f[s] \in Nat
      BY <2>4, <2>5, <2>6
    <2> QED BY <2>2, <2>7
  <1>5. Cardinality(S) \in Nat /\ S \in SUBSET S
    BY FS_CardinalityType
  <1> QED BY <1>1, <1>4, <1>5

(* A coin alone is worth its value.                                        *)
LEMMA WorthOne ==
  ASSUME NEW c, NEW v, v[c] \in Nat
  PROVE  Worth(v, {c}) = v[c]
  <1> DEFINE f == CHOOSE g : Sums(g, SUBSET {c}, v)
  <1>1. Worth(v, {c}) = f[{c}]
    BY DEF Worth, MapThenSumSet, MapThenFoldSet, Sums, Some
  <1>2. Sums(f, SUBSET {c}, v)
    BY SumsExist, FS_Singleton, Zenon
  <1> HIDE DEF f
  <1>3. Some({c}) = c
    BY SomeIn
  <1>4. f[{c}] = v[c] + f[{}] /\ f[{}] = 0
    BY <1>2, <1>3 DEF Sums
  <1> QED BY <1>1, <1>4

-----------------------------------------------------------------------------
(* The inductive invariant of a payment.                                   *)

(* A level is left only if all its coins together are too little.          *)
LevelsTried ==
  pc \in {"select", "approximate", "build"} /\ ~control /\ level > 1
    => Total(Eligible(level - 1)) < nTotalValue

(* During the trials: the best subset reaches the goal, and the bigger     *)
(* coin is the smallest one if there is one.                               *)
Trials ==
  pc = "approximate" =>
    /\ ~control
    /\ goal \in {nTotalValue, nTotalValue + Cent}
    /\ Total(vfBest) >= goal
    /\ larger = None => LowestLarger(level, nTotalValue) = {}
    /\ larger # None => larger \in LowestLarger(level, nTotalValue)

PayIInv ==
  TypeOK /\ Balanced /\ Enough /\ NoSmallChange /\ LevelsTried /\ Trials /\ AllFundsTried

(* What the types say of the coins and the numbers.                        *)
LEMMA CoinFacts ==
  ASSUME TypeOK
  PROVE  /\ IsFiniteSet(Coins) /\ None \notin Coins
         /\ \A c \in Coins : value[c] \in Nat
         /\ \A S \in SUBSET Coins : IsFiniteSet(S) /\ Cardinality(S) \in Nat /\ Total(S) \in Nat
         /\ \A c \in Coins : Total({c}) = value[c]
         /\ nValue \in Nat /\ nTotalValue \in Nat
         /\ MinTxFee \in Nat /\ Cent \in Nat /\ TransactionFee \in Nat
         /\ setting.MaxSize \in Nat
         /\ \A l : Eligible(l) \in SUBSET Coins
  <1>1. /\ IsFiniteSet(Coins) /\ None \notin Coins
        /\ nValue \in Nat /\ nTotalValue \in Nat
        /\ MinTxFee \in Nat /\ Cent \in Nat /\ TransactionFee \in Nat
        /\ setting.MaxSize \in Nat
    BY SelectionAssumption DEF TypeOK, Coins, MinTxFee, Cent, TransactionFee, nTotalValue
  <1>2. \A c \in Coins : value[c] \in Nat
    BY SelectionAssumption DEF TypeOK, Coins
  <1>3. ASSUME NEW S \in SUBSET Coins
        PROVE  IsFiniteSet(S) /\ Cardinality(S) \in Nat /\ Total(S) \in Nat
    <2>1. IsFiniteSet(S) /\ Cardinality(S) \in Nat
      BY <1>1, FS_Subset, FS_CardinalityType
    <2>2. \A c \in S : value[c] \in Nat
      BY <1>2
    <2> QED BY <2>1, <2>2, WorthNat DEF Total
  <1>4. \A c \in Coins : Total({c}) = value[c]
    BY <1>2, WorthOne DEF Total
  <1>5. \A l : Eligible(l) \in SUBSET Coins
    BY DEF Eligible
  <1> QED BY <1>1, <1>2, <1>3, <1>4, <1>5

(* If no eligible coin is big, all are below the target and a cent.        *)
LEMMA NoneLarger ==
  ASSUME TypeOK, NEW l, NEW t \in Nat, LowestLarger(l, t) = {}
  PROVE  vValue(l, t) = Eligible(l)
  <1> DEFINE big == {c \in Eligible(l) : value[c] >= t + Cent}
  <1> DEFINE vs == {value[c] : c \in big}
  <1>1. \A c \in Eligible(l) : value[c] \in Nat
    BY CoinFacts
  <1>2. big = {}
    <2> SUFFICES ASSUME big # {} PROVE FALSE
      OBVIOUS
    <2>1. vs \in SUBSET Nat /\ vs # {}
      BY <1>1
    <2>2. PICK x \in vs : \A y \in vs : x <= y
      BY <2>1, Smallest
    <2>3. PICK c \in big : x = value[c]
      BY <2>2
    <2>4. \A d \in big : value[c] <= value[d]
      BY <2>2, <2>3
    <2>5. c \in LowestLarger(l, t)
      BY <2>3, <2>4 DEF LowestLarger
    <2> QED BY <2>5
  <1>3. ASSUME NEW c \in Eligible(l) PROVE value[c] < t + Cent
    BY <1>1, <1>2, CoinFacts
  <1> QED BY <1>3 DEF vValue

(* The recursion of a pass over k coins has a solution.                    *)
PassStep(s, take, v, i) ==
  LET with == v.in \cup {s[i]}
  IN IF s[i] \notin take THEN v
     ELSE IF Total(with) < goal THEN [v EXCEPT !.in = with]
     ELSE [v EXCEPT !.reached = TRUE,
                    !.best = IF Total(with) < Total(v.best) THEN with ELSE v.best]

Passes(f, n, s, start, take) ==
  f = [i \in 0 .. n |-> IF i = 0 THEN start ELSE PassStep(s, take, f[i - 1], i)]

(* There is one for every number of coins.                                 *)
LEMMA PassesExist ==
  ASSUME NEW s, NEW start, NEW take, NEW n \in Nat
  PROVE  \E f : Passes(f, n, s, start, take)
  <1> DEFINE Good(k) == \E f : Passes(f, k, s, start, take)
  <1>1. Good(0)
    <2> DEFINE f == [i \in 0 .. 0 |-> start]
    <2>1. Passes(f, 0, s, start, take)
      BY DEF Passes
    <2> QED BY <2>1
  <1>2. ASSUME NEW k \in Nat, Good(k) PROVE Good(k + 1)
    <2>1. PICK f : Passes(f, k, s, start, take)
      BY <1>2
    <2> DEFINE g == [i \in 0 .. k + 1 |-> IF i = 0 THEN start ELSE PassStep(s, take, f[i - 1], i)]
    <2>2. \A i \in 0 .. k : g[i] = f[i]
      BY <2>1 DEF Passes
    <2>3. \A i \in 0 .. k + 1 : i # 0 => g[i - 1] = f[i - 1]
      BY <2>2
    <2>4. Passes(g, k + 1, s, start, take)
      BY <2>3 DEF Passes
    <2> QED BY <2>4
  <1>3. ASSUME ~Good(n) PROVE FALSE
    <2> DEFINE B == {m \in Nat : ~Good(m)}
    <2> HIDE DEF Good
    <2>1. PICK m \in B : \A j \in B : m <= j
      BY <1>3, Smallest
    <2>2. m # 0 /\ m - 1 \in Nat /\ m - 1 \notin B
      BY <1>1, <2>1
    <2>3. Good((m - 1) + 1)
      BY <1>2, <2>2
    <2> QED BY <2>1, <2>2, <2>3
  <1> QED BY <1>3

Candidates == [in : SUBSET Coins, reached : BOOLEAN, best : SUBSET Coins]

(* A pass over the coins keeps a best subset that reaches the goal.        *)
LEMMA PassKeeps ==
  ASSUME TypeOK, NEW s, Len(s) \in Nat, NEW take \in SUBSET Coins,
         NEW start \in Candidates, Total(start.best) >= goal
  PROVE  /\ Pass(s, start, take) \in Candidates
         /\ Total(Pass(s, start, take).best) >= goal
  <1> DEFINE f == CHOOSE g : Passes(g, Len(s), s, start, take)
  <1>1. Pass(s, start, take) = f[Len(s)]
    BY DEF Pass, Passes, PassStep
  <1>2. Passes(f, Len(s), s, start, take)
    BY PassesExist, Zenon
  <1> HIDE DEF f
  <1> DEFINE OK(v) == v \in Candidates /\ Total(v.best) >= goal
  <1>3. \A i \in 0 .. Len(s) : f[i] = IF i = 0 THEN start ELSE PassStep(s, take, f[i - 1], i)
    BY <1>2 DEF Passes
  <1>4. ASSUME NEW v, OK(v), NEW i PROVE OK(PassStep(s, take, v, i))
    <2> DEFINE with == v.in \cup {s[i]}
    <2>1. CASE s[i] \notin take
      BY <1>4, <2>1 DEF PassStep
    <2>2. CASE s[i] \in take /\ Total(with) < goal
      <3>1. PassStep(s, take, v, i) = [v EXCEPT !.in = with]
        BY <2>2 DEF PassStep
      <3>2. with \in SUBSET Coins
        BY <1>4, <2>2 DEF Candidates
      <3> HIDE DEF with
      <3>3. /\ [v EXCEPT !.in = with] \in Candidates
            /\ [v EXCEPT !.in = with].best = v.best
        BY <1>4, <3>2 DEF Candidates
      <3> QED BY <1>4, <3>1, <3>3
    <2>3. CASE s[i] \in take /\ ~(Total(with) < goal)
      <3> DEFINE b == IF Total(with) < Total(v.best) THEN with ELSE v.best
      <3>1. PassStep(s, take, v, i) = [v EXCEPT !.reached = TRUE, !.best = b]
        BY <2>3 DEF PassStep
      <3>2. with \in SUBSET Coins /\ v.best \in SUBSET Coins
        BY <1>4, <2>3 DEF Candidates
      <3>3. Total(with) \in Nat /\ goal \in Nat
        BY <3>2, CoinFacts DEF TypeOK
      <3>4. b \in SUBSET Coins /\ Total(b) >= goal
        BY <1>4, <2>3, <3>2, <3>3
      <3> HIDE DEF b, with
      <3>5. /\ [v EXCEPT !.reached = TRUE, !.best = b] \in Candidates
            /\ [v EXCEPT !.reached = TRUE, !.best = b].best = b
        BY <1>4, <3>4 DEF Candidates
      <3> QED BY <3>1, <3>4, <3>5
    <2> QED BY <2>1, <2>2, <2>3
  <1> DEFINE B == {i \in 0 .. Len(s) : ~OK(f[i])}
  <1>5. B = {}
    <2> SUFFICES ASSUME B # {} PROVE FALSE
      OBVIOUS
    <2>0. B \in SUBSET Nat
      OBVIOUS
    <2>1. PICK m \in B : \A j \in B : m <= j
      BY <2>0, Smallest
    <2>2. m # 0
      BY <1>3, <2>1
    <2>3. m - 1 \in 0 .. Len(s) /\ m - 1 \notin B
      BY <2>1, <2>2
    <2> HIDE DEF OK
    <2>4. OK(f[m - 1])
      BY <2>3
    <2>5. OK(PassStep(s, take, f[m - 1], m))
      BY <1>4, <2>4
    <2> QED BY <1>3, <2>1, <2>2, <2>5
  <1>6. OK(f[Len(s)])
    BY <1>5
  <1> QED BY <1>1, <1>6

(* A trial of ApproximateBestSubset too.                                   *)
LEMMA TrialKeeps ==
  ASSUME TypeOK, NEW s, Len(s) \in Nat, NEW heads \in SUBSET Coins, Total(vfBest) >= goal
  PROVE  Trial(s, heads) \in SUBSET Coins /\ Total(Trial(s, heads)) >= goal
  <1> DEFINE start == [in |-> {}, reached |-> FALSE, best |-> vfBest]
  <1> DEFINE first == Pass(s, start, heads)
  <1> DEFINE second == Pass(s, first, Coins \ heads)
  <1>1. start \in Candidates /\ start.best = vfBest
    BY DEF Candidates, TypeOK
  <1> HIDE DEF start
  <1>2. first \in Candidates /\ Total(first.best) >= goal
    BY <1>1, PassKeeps
  <1> HIDE DEF first
  <1>3. second \in Candidates /\ Total(second.best) >= goal
    BY <1>2, PassKeeps
  <1> HIDE DEF second
  <1>4. Trial(s, heads) = IF first.reached THEN first.best ELSE second.best
    BY DEF Trial, first, second, start
  <1>5. first.best \in SUBSET Coins /\ second.best \in SUBSET Coins
    BY <1>2, <1>3 DEF Candidates
  <1> QED BY <1>2, <1>3, <1>4, <1>5

(* The order of the coins is a sequence.                                   *)
LEMMA OrderedLen ==
  ASSUME NEW S, Cardinality(S) \in Nat
  PROVE  Len(Ordered(S)) \in Nat
  <1> DEFINE nth(i) == CHOOSE c \in S : Cardinality({d \in S : Before(d, c)}) = i - 1
  <1>1. Ordered(S) = [i \in 1 .. Cardinality(S) |-> nth(i)]
    BY DEF Ordered
  <1> HIDE DEF nth
  <1>2. Len(Ordered(S)) = Cardinality(S)
    BY <1>1
  <1> QED BY <1>2

(* The invariant holds when CreateTransaction begins.                      *)
LEMMA PayIInvInit == Init => PayIInv
  <1> SUFFICES ASSUME Init PROVE PayIInv
    OBVIOUS
  <1>1. TypeOK
    BY SelectionAssumption DEF Init, TypeOK, Coins, TransactionFee
  <1> QED BY <1>1 DEF Init, PayIInv, Balanced, Enough, NoSmallChange, LevelsTried, Trials, AllFundsTried

(* A step that leaves the inputs of the call alone changes what the         *)
(* invariant says only through the other variables.                        *)
EligibleOf(C, k, l) ==
  {c \in C : /\ ~k[c].late
             /\ k[c].nDepth >= IF k[c].mine THEN Confirmations[l].mine
                               ELSE Confirmations[l].theirs}

LowestOf(E, v, t) ==
  LET big == {c \in E : v[c] >= t}
  IN {c \in big : \A d \in big : v[c] <= v[d]}

(* The sum of naturals is a natural.                                       *)
LEMMA AddNat == \A x, y \in Nat : x + y \in Nat
  OBVIOUS

(* The invariant after a step, from what it says of the new values.        *)
LEMMA PayPrimed ==
  ASSUME TypeOK, UNCHANGED inputs, TypeOK',
         pc' = "done" =>
           /\ Total(setCoins') = nValue + nChange' + nFeeRet'
           /\ nFeeRet' >= Required(Size(Cardinality(setCoins'), IF nChange' > 0 THEN 2 ELSE 1)),
         pc' = "build" => Total(setCoins') >= nValue + nFeeRet',
         pc' = "noFunds" => Total(IF control THEN Coins ELSE Eligible(3)) < nValue + nFeeRet',
         (pc' = "build" /\ ~control /\ Total(setCoins') > nValue + nFeeRet')
           => \/ Total(setCoins') >= nValue + nFeeRet' + Cent
              \/ Total(Eligible(level')) < nValue + nFeeRet' + Cent,
         (pc' \in {"select", "approximate", "build"} /\ ~control /\ level' > 1)
           => Total(Eligible(level' - 1)) < nValue + nFeeRet',
         pc' = "approximate" =>
           /\ ~control
           /\ goal' \in {nValue + nFeeRet', nValue + nFeeRet' + Cent}
           /\ Total(vfBest') >= goal'
           /\ larger' = None => LowestLarger(level', nValue + nFeeRet') = {}
           /\ larger' # None => larger' \in LowestLarger(level', nValue + nFeeRet')
  PROVE  PayIInv'
  <1>0. /\ value' = value /\ kind' = kind /\ nValue' = nValue /\ control' = control
        /\ setting' = setting
    BY DEF inputs
  <1>1. \A l : Eligible(l) = EligibleOf(setting.Coins, kind, l)
    BY DEF Eligible, EligibleOf, Coins
  <1>2. /\ Eligible(level)' = EligibleOf(setting'.Coins, kind', level')
        /\ Eligible(level - 1)' = EligibleOf(setting'.Coins, kind', level' - 1)
        /\ Eligible(3)' = EligibleOf(setting'.Coins, kind', 3)
    BY DEF Eligible, EligibleOf, Coins
  <1>3. \A l, t : LowestLarger(l, t) = LowestOf(Eligible(l), value, t + setting.Cent)
    BY DEF LowestLarger, LowestOf, Cent
  <1>4. LowestLarger(level, nTotalValue)'
          = LowestOf(Eligible(level)', value', nValue' + nFeeRet' + setting'.Cent)
    BY DEF LowestLarger, LowestOf, Cent, nTotalValue
  <1>5. LowestLarger(level, nTotalValue)' = LowestLarger(level', nValue + nFeeRet')
    BY <1>0, <1>1, <1>2, <1>3, <1>4
  <1>6. /\ Total(setCoins)' = Total(setCoins') /\ Total(vfBest)' = Total(vfBest')
        /\ Total(Eligible(level))' = Total(Eligible(level'))
        /\ Total(Eligible(level - 1))' = Total(Eligible(level' - 1))
    BY <1>0, <1>1, <1>2 DEF Total
  <1>7. Total(IF control THEN Coins ELSE Eligible(3))' = Total(IF control THEN Coins ELSE Eligible(3))
    BY <1>0, <1>1, <1>2 DEF Total, Coins
  <1>8. Cent' = Cent /\ nTotalValue' = nValue + nFeeRet'
    BY <1>0 DEF Cent, nTotalValue
  <1>9. Required(Size(Cardinality(setCoins), IF nChange > 0 THEN 2 ELSE 1))'
          = Required(Size(Cardinality(setCoins'), IF nChange' > 0 THEN 2 ELSE 1))
    BY <1>0 DEF Required, Size, TransactionFee, MinTxFee
  <1>10. Balanced'
    BY <1>0, <1>6, <1>9 DEF Balanced
  <1>11. Enough' /\ AllFundsTried'
    BY <1>6, <1>7, <1>8 DEF Enough, AllFundsTried
  <1>12. NoSmallChange'
    <2>1. nValue \in Nat /\ Cent \in Nat /\ nFeeRet' \in Nat
      BY CoinFacts DEF TypeOK
    <2>2. \A n, k \in Nat : \A x \in n + 1 .. n + k - 1 : x > n /\ ~(x >= n + k)
      OBVIOUS
    <2>3. nTotalValue' \in Nat /\ Cent' \in Nat
      <3>1. nValue + nFeeRet' \in Nat
        BY <2>1, AddNat, Zenon
      <3> QED BY <1>8, <2>1, <3>1, Zenon
    <2>4. \A x \in nTotalValue' + 1 .. nTotalValue' + Cent' - 1 :
             x > nTotalValue' /\ ~(x >= nTotalValue' + Cent')
      BY <2>2, <2>3
    <2> QED BY <1>0, <1>6, <1>8, <2>4 DEF NoSmallChange
  <1>13. LevelsTried'
    BY <1>0, <1>6, <1>8 DEF LevelsTried
  <1>14. Trials'
    BY <1>0, <1>5, <1>6, <1>8 DEF Trials
  <1> QED BY <1>10, <1>11, <1>12, <1>13, <1>14 DEF PayIInv

(* The coins chosen by hand.                                               *)
LEMMA ByHandKeeps == PayIInv /\ SelectByHand => PayIInv'
  <1> SUFFICES ASSUME PayIInv, SelectByHand PROVE PayIInv'
    OBVIOUS
  <1>1. /\ TypeOK /\ pc = "select" /\ control /\ UNCHANGED inputs
        /\ UNCHANGED <<level, nFeeRet, nChange, larger, vfBest, goal, nRep>>
    BY DEF SelectByHand, PayIInv
  <1>2. /\ Total(Coins) >= nTotalValue => (pc' = "build" /\ setCoins' = Coins)
        /\ ~(Total(Coins) >= nTotalValue) => (pc' = "noFunds" /\ setCoins' = setCoins)
    BY DEF SelectByHand, Selected
  <1>3. TypeOK'
    BY <1>1, <1>2 DEF TypeOK, inputs, Coins
  <1>4. Total(Coins) \in Nat /\ nTotalValue \in Nat /\ nTotalValue = nValue + nFeeRet'
    BY <1>1, CoinFacts DEF nTotalValue
  <1>5. pc' = "build" => Total(setCoins') >= nValue + nFeeRet'
    BY <1>2, <1>4
  <1>6. pc' = "noFunds" => Total(IF control THEN Coins ELSE Eligible(3)) < nValue + nFeeRet'
    BY <1>1, <1>2, <1>4
  <1>7. pc' \in {"build", "noFunds"}
    BY <1>2
  <1> QED BY <1>1, <1>3, <1>5, <1>6, <1>7, PayPrimed

(* SelectCoinsMinConf: an exact coin, all smaller ones, the next bigger    *)
(* one, the next level, or trials.                                         *)
LEMMA MinConfKeeps == PayIInv /\ SelectCoinsMinConf => PayIInv'
  <1> SUFFICES ASSUME PayIInv, SelectCoinsMinConf PROVE PayIInv'
    OBVIOUS
  <1> DEFINE t == nTotalValue
  <1> DEFINE lower == vValue(level, t)
  <1> DEFINE exact == {c \in Eligible(level) : value[c] = t}
  <1>1. /\ TypeOK /\ pc = "select" /\ ~control /\ UNCHANGED inputs
        /\ UNCHANGED <<nFeeRet, nChange>>
    BY DEF SelectCoinsMinConf, PayIInv
  <1>2. /\ t \in Nat /\ t = nValue + nFeeRet' /\ Cent \in Nat
        /\ \A c \in Coins : value[c] \in Nat /\ Total({c}) = value[c]
        /\ Eligible(level) \subseteq Coins /\ lower \subseteq Coins
        /\ Total(lower) \in Nat
    BY <1>1, CoinFacts DEF nTotalValue, vValue
  <1>3. level \in 1 .. 3 /\ (level > 1 => Total(Eligible(level - 1)) < t)
    BY <1>1 DEF PayIInv, LevelsTried, TypeOK
  <1>4. ASSUME NEW S \in SUBSET Coins, Selected(S), Total(S) \in Nat,
               UNCHANGED <<level, larger, vfBest, goal, nRep>>,
               Total(S) = t \/ Total(S) >= t + Cent
        PROVE  PayIInv'
    <2>1. pc' = "build" /\ setCoins' = S
      BY <1>4 DEF Selected
    <2>2. TypeOK'
      BY <1>1, <1>4, <2>1 DEF TypeOK, inputs, Coins
    <2>3. /\ Total(setCoins') >= nValue + nFeeRet'
          /\ Total(setCoins') > nValue + nFeeRet' => Total(setCoins') >= nValue + nFeeRet' + Cent
      BY <1>2, <1>4, <2>1
    <2>4. level' > 1 => Total(Eligible(level' - 1)) < nValue + nFeeRet'
      BY <1>2, <1>3, <1>4
    <2> QED BY <1>1, <2>1, <2>2, <2>3, <2>4, PayPrimed
  <1>5. CASE \E c \in exact : Selected({c}) /\ UNCHANGED <<level, larger, vfBest, goal, nRep>>
    <2>1. PICK c \in exact : Selected({c}) /\ UNCHANGED <<level, larger, vfBest, goal, nRep>>
      BY <1>5
    <2>2. {c} \in SUBSET Coins /\ Total({c}) = t
      BY <1>2, <2>1
    <2> QED BY <1>2, <1>4, <2>1, <2>2
  <1>6. CASE Total(lower) = t /\ Selected(lower) /\ UNCHANGED <<level, larger, vfBest, goal, nRep>>
    BY <1>2, <1>4, <1>6
  <1>7. CASE /\ \E c \in LowestLarger(level, t) : Selected({c})
             /\ UNCHANGED <<level, larger, vfBest, goal, nRep>>
    <2>1. PICK c \in LowestLarger(level, t) : Selected({c})
      BY <1>7
    <2>2. c \in Eligible(level) /\ value[c] >= t + Cent
      BY <2>1 DEF LowestLarger
    <2>3. {c} \in SUBSET Coins /\ Total({c}) \in Nat /\ Total({c}) >= t + Cent
      BY <1>2, <2>2
    <2> QED BY <1>2, <1>4, <1>7, <2>1, <2>3
  <1>8. CASE /\ Total(lower) < t /\ LowestLarger(level, t) = {}
             /\ level' = IF level < 3 THEN level + 1 ELSE level
             /\ pc' = IF level < 3 THEN "select" ELSE "noFunds"
             /\ UNCHANGED <<setCoins, larger, vfBest, goal, nRep>>
    <2>1. Total(Eligible(level)) < t
      BY <1>1, <1>2, <1>8, NoneLarger
    <2>2. level' \in 1 .. 3 /\ pc' \in {"select", "noFunds"}
      BY <1>3, <1>8
    <2>3. TypeOK'
      BY <1>1, <1>8, <2>2 DEF TypeOK, inputs, Coins
    <2>4. pc' = "noFunds" => Total(IF control THEN Coins ELSE Eligible(3)) < nValue + nFeeRet'
      <3> SUFFICES ASSUME pc' = "noFunds" PROVE Total(Eligible(3)) < nValue + nFeeRet'
        BY <1>1
      <3>1. level = 3
        BY <1>3, <1>8
      <3> QED BY <1>2, <2>1, <3>1
    <2>5. (pc' = "select" /\ level' > 1) => Total(Eligible(level' - 1)) < nValue + nFeeRet'
      <3> SUFFICES ASSUME pc' = "select" PROVE Total(Eligible(level' - 1)) < nValue + nFeeRet'
        OBVIOUS
      <3>1. level' - 1 = level
        BY <1>3, <1>8
      <3> QED BY <1>2, <2>1, <3>1
    <2> QED BY <1>1, <2>2, <2>3, <2>4, <2>5, PayPrimed
  <1>9. CASE /\ Total(lower) > t
             /\ larger' \in (IF LowestLarger(level, t) = {} THEN {None} ELSE LowestLarger(level, t))
             /\ pc' = "approximate" /\ goal' = t /\ vfBest' = lower /\ nRep' = 0
             /\ UNCHANGED <<setCoins, level>>
    <2>1. LowestLarger(level, t) \subseteq Coins
      BY <1>2 DEF LowestLarger
    <2>2. /\ larger' \in Coins \cup {None}
          /\ larger' = None => LowestLarger(level, t) = {}
          /\ larger' # None => larger' \in LowestLarger(level, t)
      BY <1>1, <1>9, <2>1, CoinFacts
    <2>3. 0 \in 0 .. Iterations
      BY SelectionAssumption
    <2>4. TypeOK'
      BY <1>1, <1>2, <1>9, <2>2, <2>3 DEF TypeOK, inputs, Coins
    <2>5. /\ ~control /\ goal' \in {nValue + nFeeRet', nValue + nFeeRet' + Cent}
          /\ Total(vfBest') >= goal'
          /\ larger' = None => LowestLarger(level', nValue + nFeeRet') = {}
          /\ larger' # None => larger' \in LowestLarger(level', nValue + nFeeRet')
      BY <1>1, <1>2, <1>9, <2>2
    <2>6. level' > 1 => Total(Eligible(level' - 1)) < nValue + nFeeRet'
      BY <1>2, <1>3, <1>9
    <2>7. pc' = "approximate"
      BY <1>9
    <2> QED BY <1>1, <2>4, <2>5, <2>6, <2>7, PayPrimed
  <1> QED BY <1>5, <1>6, <1>7, <1>8, <1>9, Zenon DEF SelectCoinsMinConf

(* A trial, and what is done with the best subset.                         *)
LEMMA ApproximateKeeps ==
  ASSUME NEW heads \in SUBSET Coins, PayIInv, Approximate(heads)
  PROVE  PayIInv'
  <1> DEFINE S == vValue(level, nTotalValue)
  <1>1. /\ TypeOK /\ pc = "approximate" /\ UNCHANGED inputs
        /\ UNCHANGED <<pc, level, nFeeRet, nChange, larger, goal, setCoins>>
        /\ nRep < Iterations /\ nRep' = nRep + 1
        /\ vfBest' = Trial(Ordered(S), heads)
    BY DEF Approximate, PayIInv
  <1>2. S \in SUBSET Coins
    BY <1>1, CoinFacts DEF vValue
  <1>3. Len(Ordered(S)) \in Nat
    BY <1>1, <1>2, CoinFacts, OrderedLen
  <1>4. /\ ~control /\ goal \in {nTotalValue, nTotalValue + Cent}
        /\ Total(vfBest) >= goal
        /\ larger = None => LowestLarger(level, nTotalValue) = {}
        /\ larger # None => larger \in LowestLarger(level, nTotalValue)
        /\ level > 1 => Total(Eligible(level - 1)) < nTotalValue
    BY <1>1 DEF PayIInv, Trials, LevelsTried
  <1>5. vfBest' \in SUBSET Coins /\ Total(vfBest') >= goal
    BY <1>1, <1>3, <1>4, TrialKeeps
  <1>6. nRep' \in 0 .. Iterations
    BY <1>1, SelectionAssumption DEF TypeOK
  <1>7. TypeOK'
    BY <1>1, <1>5, <1>6 DEF TypeOK, inputs, Coins
  <1>8. nTotalValue = nValue + nFeeRet'
    BY <1>1 DEF nTotalValue
  <1>9. /\ ~control /\ goal' \in {nValue + nFeeRet', nValue + nFeeRet' + Cent}
        /\ Total(vfBest') >= goal'
        /\ larger' = None => LowestLarger(level', nValue + nFeeRet') = {}
        /\ larger' # None => larger' \in LowestLarger(level', nValue + nFeeRet')
        /\ level' > 1 => Total(Eligible(level' - 1)) < nValue + nFeeRet'
    BY <1>1, <1>4, <1>5, <1>8
  <1> QED BY <1>1, <1>7, <1>9, PayPrimed

(* The trials end: a second goal, or the coins are chosen.                 *)
LEMMA ApproximatedKeeps == PayIInv /\ Approximated => PayIInv'
  <1> SUFFICES ASSUME PayIInv, Approximated PROVE PayIInv'
    OBVIOUS
  <1> DEFINE t == nTotalValue
  <1> DEFINE lower == vValue(level, t)
  <1> DEFINE nBest == Total(vfBest)
  <1>1. /\ TypeOK /\ pc = "approximate" /\ UNCHANGED inputs
        /\ UNCHANGED <<level, nFeeRet, nChange, larger>>
    BY DEF Approximated, PayIInv
  <1>2. /\ t \in Nat /\ t = nValue + nFeeRet' /\ Cent \in Nat
        /\ \A c \in Coins : value[c] \in Nat /\ Total({c}) = value[c]
        /\ Eligible(level) \subseteq Coins /\ lower \in SUBSET Coins
        /\ vfBest \in SUBSET Coins
        /\ Total(lower) \in Nat /\ nBest \in Nat
    BY <1>1, CoinFacts DEF nTotalValue, vValue, TypeOK
  <1>3. /\ ~control /\ goal \in {t, t + Cent}
        /\ nBest >= goal
        /\ larger = None => LowestLarger(level, t) = {}
        /\ larger # None => larger \in LowestLarger(level, t)
        /\ level > 1 => Total(Eligible(level - 1)) < t
    BY <1>1 DEF PayIInv, Trials, LevelsTried
  <1>4. level' > 1 => Total(Eligible(level' - 1)) < nValue + nFeeRet'
    BY <1>1, <1>2, <1>3
  <1>5. CASE goal = t /\ nBest # t /\ Total(lower) >= t + Cent
    <2>1. /\ goal' = t + Cent /\ vfBest' = lower /\ nRep' = 0
          /\ UNCHANGED <<pc, setCoins>>
      BY <1>5 DEF Approximated
    <2>2. 0 \in 0 .. Iterations /\ t + Cent \in Nat
      BY <1>2, SelectionAssumption
    <2>3. TypeOK'
      BY <1>1, <1>2, <2>1, <2>2 DEF TypeOK, inputs, Coins
    <2>4. /\ ~control /\ goal' \in {nValue + nFeeRet', nValue + nFeeRet' + Cent}
          /\ Total(vfBest') >= goal'
          /\ larger' = None => LowestLarger(level', nValue + nFeeRet') = {}
          /\ larger' # None => larger' \in LowestLarger(level', nValue + nFeeRet')
      BY <1>1, <1>2, <1>3, <1>5, <2>1
    <2>5. pc' = "approximate"
      BY <1>1, <2>1
    <2> QED BY <1>1, <1>4, <2>3, <2>4, <2>5, PayPrimed
  <1>6. CASE ~(goal = t /\ nBest # t /\ Total(lower) >= t + Cent)
    <2> DEFINE nearer == larger # None /\ (nBest \in t + 1 .. t + Cent - 1 \/ value[larger] <= nBest)
    <2>1. /\ IF nearer THEN Selected({larger}) ELSE Selected(vfBest)
          /\ UNCHANGED <<goal, vfBest, nRep>>
      BY <1>6 DEF Approximated
    <2>2. pc' = "build" /\ setCoins' = IF nearer THEN {larger} ELSE vfBest
      BY <2>1 DEF Selected
    <2>3. CASE nearer
      <3>1. larger \in Coins /\ value[larger] >= t + Cent
        BY <1>2, <1>3, <2>3 DEF LowestLarger
      <3>2. setCoins' = {larger} /\ setCoins' \in SUBSET Coins
        BY <2>2, <2>3, <3>1
      <3>3. TypeOK'
        BY <1>1, <2>1, <2>2, <3>2 DEF TypeOK, inputs, Coins
      <3>4. /\ Total(setCoins') >= nValue + nFeeRet'
            /\ Total(setCoins') >= nValue + nFeeRet' + Cent
        BY <1>2, <3>1, <3>2
      <3> QED BY <1>1, <1>4, <2>2, <3>3, <3>4, PayPrimed
    <2>4. CASE ~nearer
      <3>1. setCoins' = vfBest
        BY <2>2, <2>4
      <3>2. TypeOK'
        BY <1>1, <1>2, <2>1, <2>2, <3>1 DEF TypeOK, inputs, Coins
      <3>3. Total(setCoins') >= nValue + nFeeRet'
        BY <1>2, <1>3, <3>1
      <3>4. ASSUME nBest > t, ~(nBest >= t + Cent) PROVE Total(Eligible(level)) < t + Cent
        <4>1. nBest \in t + 1 .. t + Cent - 1
          BY <1>2, <3>4
        <4>2. LowestLarger(level, t) = {}
          BY <1>3, <2>4, <4>1
        <4>3. lower = Eligible(level)
          BY <1>1, <1>2, <4>2, NoneLarger
        <4>4. goal = t /\ nBest # t
          BY <1>2, <1>3, <3>4
        <4> QED BY <1>2, <1>6, <4>3, <4>4
      <3>5. Total(setCoins') > nValue + nFeeRet'
              => \/ Total(setCoins') >= nValue + nFeeRet' + Cent
                 \/ Total(Eligible(level')) < nValue + nFeeRet' + Cent
        BY <1>1, <1>2, <3>1, <3>4
      <3> QED BY <1>1, <1>4, <2>2, <3>2, <3>3, <3>5, PayPrimed
    <2> QED BY <2>3, <2>4
  <1> QED BY <1>5, <1>6

(* The fee that a size asks for is a natural number.                       *)
LEMMA RequiredNat ==
  ASSUME TypeOK, NEW n \in Nat, NEW m \in Nat
  PROVE  Required(Size(n, m)) \in Nat
  <1>1. \A x, y \in Nat : x * y \in Nat
    OBVIOUS
  <1>2. Size(n, m) \in Nat
    BY <1>1, SelectionAssumption DEF Size
  <1>3. \A x \in Nat : x \div Kilo \in Nat
    BY SelectionAssumption
  <1>4. 1 + Size(n, m) \div Kilo \in Nat
    BY <1>2, <1>3
  <1>5. (IF TransactionFee > MinTxFee THEN TransactionFee ELSE MinTxFee) \in Nat
    BY CoinFacts
  <1> QED BY <1>1, <1>4, <1>5 DEF Required

(* The transaction is built; it is done, or the fee is raised.             *)
LEMMA BuildKeeps == PayIInv /\ Build => PayIInv'
  <1> SUFFICES ASSUME PayIInv, Build PROVE PayIInv'
    OBVIOUS
  <1> DEFINE rest == Total(setCoins) - nValue - nFeeRet
  <1> DEFINE move == IF nFeeRet < MinTxFee /\ rest > 0 /\ rest < Cent
                     THEN IF rest < MinTxFee - nFeeRet THEN rest ELSE MinTxFee - nFeeRet
                     ELSE 0
  <1> DEFINE change == rest - move
  <1> DEFINE fee == nFeeRet + move
  <1> DEFINE need == Required(Size(Cardinality(setCoins), IF change > 0 THEN 2 ELSE 1))
  <1>1. /\ TypeOK /\ pc = "build" /\ UNCHANGED inputs
        /\ UNCHANGED <<larger, vfBest, goal, nRep>>
    BY DEF Build, PayIInv
  <1>2. /\ nValue \in Nat /\ nFeeRet \in Nat /\ MinTxFee \in Nat /\ Cent \in Nat
        /\ Total(setCoins) \in Nat /\ Cardinality(setCoins) \in Nat
        /\ Total(setCoins) >= nValue + nFeeRet
    BY <1>1, CoinFacts DEF PayIInv, Enough, nTotalValue, TypeOK
  <1>3. rest \in Nat
    BY <1>2
  <1>4. move \in Nat /\ move <= rest
    BY <1>2, <1>3
  <1>5. /\ change \in Nat /\ fee \in Nat
        /\ Total(setCoins) = nValue + change + fee
    BY <1>2, <1>3, <1>4
  <1>6. need \in Nat
    BY <1>1, <1>2, RequiredNat
  <1>7. ChangeAndFee = [change |-> change, fee |-> fee]
    BY DEF ChangeAndFee
  <1>8. \/ /\ fee >= need /\ pc' = "done" /\ nFeeRet' = fee /\ nChange' = change
           /\ UNCHANGED <<level, setCoins>>
        \/ /\ pc' = "select" /\ nFeeRet' = need
           /\ level' = 1 /\ setCoins' = {} /\ UNCHANGED nChange
        \/ /\ pc' \in {"tooBig", "notSigned"}
           /\ UNCHANGED <<nFeeRet, nChange, level, setCoins>>
    <2>1. ChangeAndFee.change = change /\ ChangeAndFee.fee = fee
      BY <1>7
    <2> HIDE DEF change, fee
    <2> QED BY <2>1 DEF Build, RaisedFee
  <1> HIDE DEF rest, move, change, fee
  <1>9. CASE /\ fee >= need /\ pc' = "done" /\ nFeeRet' = fee /\ nChange' = change
             /\ UNCHANGED <<level, setCoins>>
    <2>1. TypeOK'
      BY <1>1, <1>5, <1>9 DEF TypeOK, inputs, Coins
    <2>2. /\ Total(setCoins') = nValue + nChange' + nFeeRet'
          /\ nFeeRet' >= Required(Size(Cardinality(setCoins'), IF nChange' > 0 THEN 2 ELSE 1))
      BY <1>5, <1>9
    <2>3. pc' = "done"
      BY <1>9
    <2> QED BY <1>1, <2>1, <2>2, <2>3, PayPrimed
  <1>10. CASE /\ pc' = "select" /\ nFeeRet' = need
              /\ level' = 1 /\ setCoins' = {} /\ UNCHANGED nChange
    <2>1. TypeOK'
      BY <1>1, <1>6, <1>10 DEF TypeOK, inputs, Coins
    <2>2. pc' = "select" /\ ~(level' > 1)
      BY <1>10
    <2> QED BY <1>1, <2>1, <2>2, PayPrimed
  <1>11. CASE /\ pc' \in {"tooBig", "notSigned"}
              /\ UNCHANGED <<nFeeRet, nChange, level, setCoins>>
    <2>1. TypeOK'
      BY <1>1, <1>11 DEF TypeOK, inputs, Coins
    <2> QED BY <1>1, <1>11, <2>1, PayPrimed
  <1> QED BY <1>8, <1>9, <1>10, <1>11

(* Every step of CreateTransaction keeps the invariant.                    *)
LEMMA PayIInvNext == PayIInv /\ [Next]_vars => PayIInv'
  <1>1. ASSUME PayIInv, UNCHANGED vars PROVE PayIInv'
    BY <1>1 DEF vars, PayIInv, TypeOK, Balanced, Enough, NoSmallChange, LevelsTried, Trials,
                AllFundsTried, Total, nTotalValue, Cent, Coins, Eligible, LowestLarger, Required,
                Size, MinTxFee, TransactionFee
  <1> QED BY <1>1, ByHandKeeps, MinConfKeeps, ApproximateKeeps, ApproximatedKeeps, BuildKeeps
          DEF Next

(* Every payment that CreateTransaction builds, from any coins and at any  *)
(* fees, pays exactly what its coins are worth, has a fee that is enough   *)
(* for its size, leaves no more small change and touches no less confirmed *)
(* coins than it must.                                                     *)
THEOREM GoodPaymentTheorem == Spec => []GoodPayment
  <1>1. PayIInv => GoodPayment
    BY DEF PayIInv, GoodPayment, LevelsTried, ConfirmedFirst
  <1> QED BY <1>1, PayIInvInit, PayIInvNext, PTL DEF Spec

(* A payment is refused for lack of funds only if all coins that may be    *)
(* spent are together less than the amount and the fee.                    *)
THEOREM AllFundsTriedTheorem == Spec => []AllFundsTried
  <1>1. PayIInv => AllFundsTried
    BY DEF PayIInv
  <1> QED BY <1>1, PayIInvInit, PayIInvNext, PTL DEF Spec
=============================================================================
