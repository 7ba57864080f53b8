---------------------------- MODULE CoinSelection ----------------------------
(***************************************************************************)
(* CreateTransaction: the coins that pay an amount and a fee, where the fee  *)
(* depends on the size of the transaction and the size on the coins.         *)
(* SelectCoins tries three sets of coins, from the well confirmed ones to    *)
(* all; in each, SelectCoinsMinConf looks for an exact coin, for the next    *)
(* bigger one, and for a subset that random trials find.                     *)
(*                                                                         *)
(* A behaviour is one call.  Amounts are in units of the minimal fee.        *)
(***************************************************************************)
EXTENDS Integers, Sequences, FiniteSets, FiniteSetsExt

CONSTANTS
    Iterations,      \* bound: the random trials of ApproximateBestSubset
    InSize, OutSize, Kilo,  \* the sizes of an input and an output, 1000
    Settings,        \* Coins: the coins, 1 .. n; Values, Kinds: their values and
                     \* kinds [mine, nDepth, late]; Amounts: those to pay;
                     \* MinTxFee; Cent; TransactionFee: nTransactionFee;
                     \* MaxSize: the limit of a transaction
    None

ASSUME SelectionAssumption ==
    /\ {Iterations, InSize, OutSize} \subseteq Nat
    /\ Kilo \in Nat \ {0}
    /\ \A s \in Settings :
          /\ IsFiniteSet(s.Coins) /\ s.Coins \subseteq Nat /\ None \notin s.Coins
          /\ s.Values \subseteq Nat \ {0} /\ s.Amounts \subseteq Nat
          /\ {s.MinTxFee, s.Cent, s.TransactionFee, s.MaxSize} \subseteq Nat
          /\ s.Kinds \subseteq [mine : BOOLEAN, nDepth : Nat, late : BOOLEAN]

VARIABLES
    setting,       \* the setting of this behaviour
    value, kind,   \* the coins: Coins -> Values, Coins -> Kinds (inputs)
    nValue,        \* the amount (an input)
    control,       \* the coins were chosen by hand: coinControl->HasSelected() (an input)
    pc,            \* "select", "approximate", "build", "done", "noFunds", "notSigned", "tooBig"
    level,         \* which of the three calls of SelectCoinsMinConf
    nFeeRet, nChange,
    larger,        \* coinLowestLarger, or None
    vfBest,        \* the subset found
    goal,          \* the target of ApproximateBestSubset
    nRep,
    setCoins

vars == <<setting, value, kind, nValue, control, pc, level, nFeeRet, nChange, larger, vfBest, goal,
          nRep, setCoins>>
inputs == <<setting, value, kind, nValue, control>>

Coins == setting.Coins
MinTxFee == setting.MinTxFee
Cent == setting.Cent
TransactionFee == setting.TransactionFee

(* What the coins of S are worth together. *)
Worth(v, S) == MapThenSumSet(LAMBDA c : v[c], S)
Total(S) == Worth(value, S)

TypeOK ==
    /\ setting \in Settings
    /\ value \in [Coins -> setting.Values] /\ kind \in [Coins -> setting.Kinds]
    /\ nValue \in setting.Amounts /\ control \in BOOLEAN
    /\ pc \in {"select", "approximate", "build", "done", "noFunds", "notSigned", "tooBig"}
    /\ level \in 1 .. 3
    /\ nFeeRet \in Nat /\ nChange \in Nat /\ goal \in Nat
    /\ larger \in Coins \cup {None}
    /\ vfBest \subseteq Coins /\ setCoins \subseteq Coins
    /\ nRep \in 0 .. Iterations

(* The order of the coins does not matter: they are shuffled. *)
Init ==
    /\ setting \in Settings
    /\ value \in {v \in [Coins -> setting.Values] : \A c, d \in Coins : c < d => v[c] >= v[d]}
    /\ kind \in [Coins -> setting.Kinds]
    /\ nValue \in setting.Amounts /\ control \in BOOLEAN
    /\ pc = "select" /\ level = 1
    /\ nFeeRet = TransactionFee /\ nChange = 0
    /\ larger = None /\ vfBest = {} /\ goal = 0 /\ nRep = 0 /\ setCoins = {}

nTotalValue == nValue + nFeeRet

(* The coins that the call at a level may take: own coins with nConfMine, others
   with nConfTheirs confirmations, none from after the time of the payment. *)
Confirmations == << [mine |-> 1, theirs |-> 10], [mine |-> 1, theirs |-> 1],
                    [mine |-> 0, theirs |-> 1] >>
Eligible(l) ==
    {c \in Coins : /\ ~kind[c].late
                   /\ kind[c].nDepth >= IF kind[c].mine THEN Confirmations[l].mine
                                        ELSE Confirmations[l].theirs}

-----------------------------------------------------------------------------
(* SelectCoinsMinConf *)

(* vValue: the coins below the target and a cent; and the smallest others. *)
vValue(l, target) == {c \in Eligible(l) : value[c] < target + Cent}
LowestLarger(l, target) ==
    LET big == {c \in Eligible(l) : value[c] >= target + Cent}
    IN {c \in big : \A d \in big : value[c] <= value[d]}

Selected(S) == pc' = "build" /\ setCoins' = S

(* Coins chosen by hand are all taken. *)
SelectByHand ==
    /\ pc = "select" /\ control
    /\ IF Total(Coins) >= nTotalValue
       THEN Selected(Coins) ELSE pc' = "noFunds" /\ UNCHANGED setCoins
    /\ UNCHANGED <<inputs, level, nFeeRet, nChange, larger, vfBest, goal, nRep>>

(* Mutant: only the coins below the target are added up. *)
SelectCoinsMinConfStrict ==
    /\ pc = "select" /\ ~control
    /\ LET t == nTotalValue
           lower == {c \in Eligible(level) : value[c] < t}
           exact == {c \in Eligible(level) : value[c] = t}
       IN \/ \E c \in exact : Selected({c}) /\ UNCHANGED <<level, larger, vfBest, goal, nRep>>
          \/ /\ exact = {} /\ Total(lower) = t
             /\ Selected(lower) /\ UNCHANGED <<level, larger, vfBest, goal, nRep>>
          \/ /\ exact = {} /\ Total(lower) < t
             /\ \E c \in LowestLarger(level, t) : Selected({c})
             /\ UNCHANGED <<level, larger, vfBest, goal, nRep>>
          \/ /\ exact = {} /\ Total(lower) < t /\ LowestLarger(level, t) = {}
             /\ level' = IF level < 3 THEN level + 1 ELSE level
             /\ pc' = IF level < 3 THEN "select" ELSE "noFunds"
             /\ UNCHANGED <<setCoins, larger, vfBest, goal, nRep>>
          \/ /\ exact = {} /\ Total(lower) > t
             /\ larger' \in (IF LowestLarger(level, t) = {} THEN {None} ELSE LowestLarger(level, t))
             /\ pc' = "approximate" /\ goal' = t /\ vfBest' = lower /\ nRep' = 0
             /\ UNCHANGED <<setCoins, level>>
    /\ UNCHANGED <<inputs, nFeeRet, nChange>>

(* An exact coin; all smaller coins if they are exactly the target; the smallest
   bigger coin if they are too little; the next level if there is none; or trials. *)
SelectCoinsMinConf ==
    /\ pc = "select" /\ ~control
    /\ LET t == nTotalValue
           lower == vValue(level, t)
           exact == {c \in Eligible(level) : value[c] = t}
       IN \/ \E c \in exact : Selected({c}) /\ UNCHANGED <<level, larger, vfBest, goal, nRep>>
          \/ /\ exact = {} /\ Total(lower) = t
             /\ Selected(lower) /\ UNCHANGED <<level, larger, vfBest, goal, nRep>>
          \/ /\ exact = {} /\ Total(lower) < t
             /\ \E c \in LowestLarger(level, t) : Selected({c})
             /\ UNCHANGED <<level, larger, vfBest, goal, nRep>>
          \/ /\ exact = {} /\ Total(lower) < t /\ LowestLarger(level, t) = {}
             /\ level' = IF level < 3 THEN level + 1 ELSE level
             /\ pc' = IF level < 3 THEN "select" ELSE "noFunds"
             /\ UNCHANGED <<setCoins, larger, vfBest, goal, nRep>>
          \/ /\ exact = {} /\ Total(lower) > t
             /\ larger' \in (IF LowestLarger(level, t) = {} THEN {None} ELSE LowestLarger(level, t))
             /\ pc' = "approximate" /\ goal' = t /\ vfBest' = lower /\ nRep' = 0
             /\ UNCHANGED <<setCoins, level>>
    /\ UNCHANGED <<inputs, nFeeRet, nChange>>

-----------------------------------------------------------------------------
(* ApproximateBestSubset *)

(* The coins in the order in which they are tried: by falling value. *)
Before(c, d) == value[c] > value[d] \/ (value[c] = value[d] /\ c < d)
Ordered(S) ==
    [i \in 1 .. Cardinality(S) |->
        CHOOSE c \in S : Cardinality({d \in S : Before(d, c)}) = i - 1]

(* A pass over the coins s adds those in take; one that reaches the goal gives a
   candidate and is left out again. *)
Pass(s, start, take) ==
    LET step[i \in 0 .. Len(s)] ==
            IF i = 0 THEN start
            ELSE LET v == step[i - 1]
                     with == v.in \cup {s[i]}
                 IN IF s[i] \notin take THEN v
                    ELSE IF Total(with) < goal THEN [v EXCEPT !.in = with]
                    ELSE [v EXCEPT !.reached = TRUE,
                                   !.best = IF Total(with) < Total(v.best) THEN with ELSE v.best]
    IN step[Len(s)]

(* A trial: a pass over the coins in heads and, if the goal is not reached, one over
   the others. *)
Trial(s, heads) ==
    LET first == Pass(s, [in |-> {}, reached |-> FALSE, best |-> vfBest], heads)
    IN IF first.reached THEN first.best ELSE Pass(s, first, Coins \ heads).best

Approximate(heads) ==
    /\ pc = "approximate" /\ nRep < Iterations /\ Total(vfBest) # goal
    /\ \E s \in {Ordered(vValue(level, nTotalValue))} : vfBest' = Trial(s, heads)
    /\ nRep' = nRep + 1
    /\ UNCHANGED <<inputs, pc, level, nFeeRet, nChange, larger, goal, setCoins>>

(* No exact subset: search one that leaves a cent of change.  Then the bigger coin is
   taken if it is nearer, or if the subset leaves less than a cent of change. *)
Approximated ==
    /\ pc = "approximate" /\ (nRep = Iterations \/ Total(vfBest) = goal)
    /\ LET t == nTotalValue
           lower == vValue(level, t)
           nBest == Total(vfBest)
       IN IF goal = t /\ nBest # t /\ Total(lower) >= t + Cent
          THEN /\ goal' = t + Cent /\ vfBest' = lower /\ nRep' = 0
               /\ UNCHANGED <<pc, setCoins>>
          ELSE /\ IF larger # None /\ (nBest \in t + 1 .. t + Cent - 1 \/ value[larger] <= nBest)
                  THEN Selected({larger}) ELSE Selected(vfBest)
               /\ UNCHANGED <<goal, vfBest, nRep>>
    /\ UNCHANGED <<inputs, level, nFeeRet, nChange, larger>>

-----------------------------------------------------------------------------
(* The rest of an iteration of CreateTransaction. *)

(* Mutant: the part of the change that goes to the fee is still paid out. *)
ChangeAndFeeTwice ==
    LET rest == Total(setCoins) - nValue - nFeeRet
        move == IF nFeeRet < MinTxFee /\ rest > 0 /\ rest < Cent
                THEN IF rest < MinTxFee - nFeeRet THEN rest ELSE MinTxFee - nFeeRet
                ELSE 0
    IN [change |-> rest, fee |-> nFeeRet + move]

(* Change below a cent raises the fee to the minimal one. *)
ChangeAndFee ==
    LET rest == Total(setCoins) - nValue - nFeeRet
        move == IF nFeeRet < MinTxFee /\ rest > 0 /\ rest < Cent
                THEN IF rest < MinTxFee - nFeeRet THEN rest ELSE MinTxFee - nFeeRet
                ELSE 0
    IN [change |-> rest - move, fee |-> nFeeRet + move]

Size(nIn, nOut) == InSize * nIn + OutSize * nOut

(* max(nPayFee, GetMinFee): both by the kilobyte. *)
Required(nBytes) ==
    (1 + nBytes \div Kilo) * (IF TransactionFee > MinTxFee THEN TransactionFee ELSE MinTxFee)

(* Mutant: the loop starts again with the configured fee. *)
RaisedFeeLost(nBytes) == TransactionFee

RaisedFee(nBytes) == Required(nBytes)

(* The transaction is built and signed.  It is done if the fee is enough; otherwise
   the fee is raised and the coins are chosen anew.  The wallet may be locked
   meanwhile: then it cannot be signed. *)
Build ==
    /\ pc = "build"
    /\ LET cf == ChangeAndFee
           nBytes == Size(Cardinality(setCoins), IF cf.change > 0 THEN 2 ELSE 1)
       IN \/ /\ nBytes < setting.MaxSize /\ cf.fee >= Required(nBytes)
             /\ pc' = "done" /\ nFeeRet' = cf.fee /\ nChange' = cf.change
             /\ UNCHANGED <<level, setCoins>>
          \/ /\ nBytes < setting.MaxSize /\ cf.fee < Required(nBytes)
             /\ pc' = "select" /\ nFeeRet' = RaisedFee(nBytes)
             /\ level' = 1 /\ setCoins' = {}
             /\ UNCHANGED nChange
          \/ /\ nBytes >= setting.MaxSize
             /\ pc' = "tooBig"
             /\ UNCHANGED <<nFeeRet, nChange, level, setCoins>>
          \/ /\ pc' = "notSigned"
             /\ UNCHANGED <<nFeeRet, nChange, level, setCoins>>
    /\ UNCHANGED <<inputs, larger, vfBest, goal, nRep>>

Next ==
    \/ SelectByHand \/ SelectCoinsMinConf
    \/ \E heads \in SUBSET Coins : Approximate(heads)
    \/ Approximated
    \/ Build

Spec == Init /\ [][Next]_vars /\ WF_vars(Next)

-----------------------------------------------------------------------------
(* Properties *)

(* The transaction of CreateTransaction pays exactly what its coins are worth, and
   its fee is enough for its size. *)
Balanced ==
    pc = "done" =>
        /\ Total(setCoins) = nValue + nChange + nFeeRet
        /\ nFeeRet >= Required(Size(Cardinality(setCoins), IF nChange > 0 THEN 2 ELSE 1))

(* What the random search returns is enough for the amount and the fee. *)
Enough == pc = "build" => Total(setCoins) >= nTotalValue

(* A payment is refused for lack of funds only if all coins that may be spent are
   together less than the amount and the fee that was asked for. *)
AllFundsTried ==
    pc = "noFunds" => Total(IF control THEN Coins ELSE Eligible(3)) < nTotalValue

(* The search leaves change below a cent only if all coins of that level together
   leave less than a cent. *)
NoSmallChange ==
    pc = "build" /\ ~control /\ Total(setCoins) \in nTotalValue + 1 .. nTotalValue + Cent - 1
        => Total(Eligible(level)) < nTotalValue + Cent

(* Own coins and well confirmed coins are used first: coins with fewer confirmations
   are touched only if the others do not suffice. *)
ConfirmedFirst ==
    pc = "build" /\ ~control /\ level > 1 => Total(Eligible(level - 1)) < nTotalValue

(* A payment that is built is balanced, paid for, and leaves no more small change
   and touches no less confirmed coins than it must. *)
GoodPayment == TypeOK /\ Balanced /\ Enough /\ NoSmallChange /\ ConfirmedFirst
=============================================================================
