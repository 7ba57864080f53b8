------------------------------ MODULE AddrMan ------------------------------
(***************************************************************************)
(* The address manager (addrman.cpp, addrman.h): entries by number, the    *)
(* index by address, the random order, the "new" buckets (an entry may be  *)
(* in several) and the "tried" buckets.  Every public operation holds cs,  *)
(* so an operation is a step.                                              *)
(*                                                                         *)
(* What the random generator, the peers' times and IsTerrible decide is a  *)
(* choice: ShrinkNew may so remove any entry of its bucket.  nTime,        *)
(* nLastTry and nAttempts, which only feed these choices, are left out. An *)
(* operation on another port of a known address changes nothing else.      *)
(* Positions count from 1.                                                 *)
(***************************************************************************)
EXTENDS Integers, Sequences, FiniteSets, SequencesExt

CONSTANTS
  Host,             \* addresses (CNetAddr)
  Source,           \* groups of the peers that sent addresses
  NewBucket, TriedBucket,
  Keys,             \* what the secret key makes of the hash functions
  NEW_BUCKET_SIZE, TRIED_BUCKET_SIZE, NEW_BUCKETS_PER_ADDRESS,
  TRIED_ENTRIES_INSPECT_ON_EVICT, GETADDR_MAX_PCT,
  MaxId,            \* bound: entries created
  MaxTime           \* bound: the adjusted time

ASSUME AddrManAssumption ==
  /\ \A k \in Keys : /\ k.new \in [Host \X Source -> NewBucket]
                     /\ k.tried \in [Host -> TriedBucket]
  /\ {NEW_BUCKET_SIZE, TRIED_BUCKET_SIZE, NEW_BUCKETS_PER_ADDRESS,
      TRIED_ENTRIES_INSPECT_ON_EVICT} \subseteq Nat \ {0}

VARIABLES
  am,       \* the data structure
  nKey      \* the secret key

vars == <<am, nKey>>

Id == 0..(MaxId - 1)

CAddrInfo == [host : Host, source : Source, nLastSuccess : Nat,
              nRefCount : Nat, fInTried : BOOLEAN, nRandomPos : Nat]

TypeOK ==
  /\ DOMAIN am.mapInfo \subseteq Id
  /\ \A n \in DOMAIN am.mapInfo : am.mapInfo[n] \in CAddrInfo
  /\ DOMAIN am.mapAddr \subseteq Host
  /\ \A h \in DOMAIN am.mapAddr : am.mapAddr[h] \in Id
  /\ am.vRandom \in Seq(Id)
  /\ am.nTried \in Nat /\ am.nNew \in Nat /\ am.nIdCount \in 0..MaxId
  /\ am.vvTried \in [TriedBucket -> Seq(Id)]
  /\ am.vvNew \in [NewBucket -> SUBSET Id]
  /\ nKey \in Keys

EmptyMap == [x \in {} |-> x]

Empty ==
  [mapInfo |-> EmptyMap, mapAddr |-> EmptyMap, vRandom |-> <<>>, nTried |-> 0,
   nNew |-> 0, nIdCount |-> 0, vvTried |-> [b \in TriedBucket |-> <<>>],
   vvNew |-> [b \in NewBucket |-> {}]]

Init ==
  /\ am = Empty
  /\ nKey \in Keys

-----------------------------------------------------------------------------
Without(f, x) == [y \in DOMAIN f \ {x} |-> f[y]]

GetNewBucket(h, src) == nKey.new[h, src]

Create(a, h, src) ==
  LET n == a.nIdCount IN
  [a EXCEPT !.nIdCount = n + 1,
            !.mapInfo = a.mapInfo @@
              n :> [host |-> h, source |-> src, nLastSuccess |-> 0,
                    nRefCount |-> 0, fInTried |-> FALSE,
                    nRandomPos |-> Len(a.vRandom) + 1],
            !.mapAddr = a.mapAddr @@ h :> n,
            !.vRandom = Append(@, n),
            !.nNew = @ + 1]

SwapRandom(a, i, j) ==
  [a EXCEPT !.mapInfo[a.vRandom[i]].nRandomPos = j,
            !.mapInfo[a.vRandom[j]].nRandomPos = i,
            !.vRandom[i] = a.vRandom[j],
            !.vRandom[j] = a.vRandom[i]]

(* The last reference to an entry is gone.                                 *)
Delete(a, n) ==
  LET s == SwapRandom(a, a.mapInfo[n].nRandomPos, Len(a.vRandom)) IN
  [s EXCEPT !.vRandom = Front(s.vRandom),
            !.mapAddr = Without(s.mapAddr, a.mapInfo[n].host),
            !.mapInfo = Without(s.mapInfo, n),
            !.nNew = @ - 1]

(* Remove entry n, which IsTerrible or the draw of four chose, from a new  *)
(* bucket.                                                                 *)
ShrinkNew(a, b, n) ==
  LET r == [a EXCEPT !.mapInfo[n].nRefCount = a.mapInfo[n].nRefCount - 1,
                     !.vvNew[b] = a.vvNew[b] \ {n}]
  IN  IF r.mapInfo[n].nRefCount = 0 THEN Delete(r, n) ELSE r

(* The end of Add_: every outcome of the draw in ShrinkNew.                *)
AddToBucket(a, n, b) ==
  IF n \in a.vvNew[b] THEN {a}
  ELSE LET r == [a EXCEPT !.mapInfo[n].nRefCount = a.mapInfo[n].nRefCount + 1]
           full == Cardinality(a.vvNew[b]) = NEW_BUCKET_SIZE
           shrunk == IF full THEN {ShrinkNew(r, b, v) : v \in r.vvNew[b]} ELSE {r}
       IN  {[s EXCEPT !.vvNew[b] = @ \cup {n}] : s \in shrunk}

-----------------------------------------------------------------------------
(* SelectTried with the positions pos drawn: the shuffled bucket and the   *)
(* position it returns.                                                    *)
SelectTriedLoop(v, pos) ==
  LET success(n) == am.mapInfo[n].nLastSuccess
      s[i \in 0..Len(pos)] ==
        IF i = 0 THEN [v |-> v, oldest |-> -1, oldestPos |-> 0]
        ELSE LET p == s[i - 1]
                 nTemp == p.v[pos[i]]
                 older == p.oldest = -1 \/ success(nTemp) < success(p.oldest)
             IN  [v |-> [p.v EXCEPT ![pos[i]] = p.v[i], ![i] = nTemp],
                  oldest |-> IF older THEN nTemp ELSE p.oldest,
                  oldestPos |-> IF older THEN pos[i] ELSE p.oldestPos]
  IN  s[Len(pos)]

Draws(v) ==
  LET k == IF Len(v) < TRIED_ENTRIES_INSPECT_ON_EVICT THEN Len(v)
           ELSE TRIED_ENTRIES_INSPECT_ON_EVICT
  IN  {d \in [1..k -> 1..Len(v)] : \A i \in 1..k : d[i] >= i}

(* MakeTried, first part: the entry leaves all new buckets.                *)
LeaveNew(a, n) ==
  [a EXCEPT !.vvNew = [b \in NewBucket |-> a.vvNew[b] \ {n}],
            !.mapInfo[n].nRefCount =
               @ - Cardinality({b \in NewBucket : n \in a.vvNew[b]}),
            !.nNew = @ - 1]

(* The new bucket of an evicted entry: its own, or the one nId came from.  *)
EvictInto(a, old, nOrigin) ==
  LET own == GetNewBucket(a.mapInfo[old].host, a.mapInfo[old].source)
  IN  IF Cardinality(a.vvNew[own]) < NEW_BUCKET_SIZE THEN own ELSE nOrigin

(* Mutant: nNew is not counted up for the evicted entry.                   *)
EvictUncounted(a, n, k, sel, nOrigin) ==
  LET old == sel.v[sel.oldestPos] IN
  [a EXCEPT !.mapInfo[old].fInTried = FALSE,
            !.mapInfo[old].nRefCount = 1,
            !.mapInfo[n].fInTried = TRUE,
            !.vvNew[EvictInto(a, old, nOrigin)] = @ \cup {old},
            !.vvTried[k] = [sel.v EXCEPT ![sel.oldestPos] = n]]

(* MakeTried, last part: sel is what SelectTried returned for bucket k.    *)
Evict(a, n, k, sel, nOrigin) ==
  LET old == sel.v[sel.oldestPos] IN
  [a EXCEPT !.mapInfo[old].fInTried = FALSE,
            !.mapInfo[old].nRefCount = 1,
            !.mapInfo[n].fInTried = TRUE,
            !.vvNew[EvictInto(a, old, nOrigin)] = @ \cup {old},
            !.nNew = @ + 1,
            !.vvTried[k] = [sel.v EXCEPT ![sel.oldestPos] = n]]

MakeTried(a0, n, nOrigin) ==
  LET a == LeaveNew(a0, n)
      k == nKey.tried[a.mapInfo[n].host]
      v == a.vvTried[k]
  IN  \/ /\ Len(v) < TRIED_BUCKET_SIZE
         /\ am' = [a EXCEPT !.vvTried[k] = Append(@, n),
                            !.nTried = @ + 1,
                            !.mapInfo[n].fInTried = TRUE]
      \/ /\ Len(v) = TRIED_BUCKET_SIZE
         /\ \E pos \in Draws(v) :
              am' = Evict(a, n, k, SelectTriedLoop(v, pos), nOrigin)

-----------------------------------------------------------------------------
Find(h) == h \in DOMAIN am.mapAddr /\ am.mapAddr[h] \in DOMAIN am.mapInfo

FoundInfo(h) == am.mapInfo[am.mapAddr[h]]

(* An address from a peer: a new entry, or one more bucket for a known one *)
(* that is not in a tried bucket, when chance has it.                      *)
Add_(h, src) ==
  /\ \/ /\ ~Find(h)
        /\ am.nIdCount < MaxId
        /\ am' \in AddToBucket(Create(am, h, src), am.nIdCount,
                               GetNewBucket(h, src))
     \/ /\ Find(h)
        /\ ~FoundInfo(h).fInTried
        /\ FoundInfo(h).nRefCount < NEW_BUCKETS_PER_ADDRESS
        /\ am' \in AddToBucket(am, am.mapAddr[h], GetNewBucket(h, src))
  /\ UNCHANGED nKey

(* A connection to the address worked.  Adjusted time may also go back.    *)
Good_(h, nTime) ==
  /\ Find(h)
  /\ LET n == am.mapAddr[h]
         a == [am EXCEPT !.mapInfo[n].nLastSuccess = nTime]
     IN  \/ /\ FoundInfo(h).fInTried
            /\ am' = a
         \/ /\ ~FoundInfo(h).fInTried
            /\ \E b \in NewBucket : n \in am.vvNew[b] /\ MakeTried(a, n, b)
  /\ UNCHANGED nKey

(* GetAddr shuffles the first entries of the random order.                 *)
GetAddr_ ==
  LET k == (GETADDR_MAX_PCT * Len(am.vRandom)) \div 100 IN
  /\ k > 0
  /\ \E r \in [1..k -> 1..Len(am.vRandom)] :
       LET s[i \in 0..k] == IF i = 0 THEN am ELSE SwapRandom(s[i - 1], i, r[i])
       IN  /\ \A i \in 1..k : r[i] >= i
           /\ am' = s[k]
  /\ UNCHANGED nKey

-----------------------------------------------------------------------------
(* What is written to peers.dat: the entries with references, then those   *)
(* in tried buckets, by number; and the new buckets by index.              *)
NewIds(a) ==
  SetToSortSeq({n \in DOMAIN a.mapInfo : a.mapInfo[n].nRefCount # 0}, <)

TriedIds(a) ==
  SetToSortSeq({n \in DOMAIN a.mapInfo : a.mapInfo[n].fInTried}, <)

(* Mutant: entries that are only tried are counted too.                     *)
UnkIdOfAny(a, n) == Cardinality({m \in DOMAIN a.mapInfo : m < n})

(* mapUnkIds                                                               *)
UnkId(a, n) ==
  Cardinality({m \in DOMAIN a.mapInfo : m < n /\ a.mapInfo[m].nRefCount # 0})

(* Mutant: a bucket is taken for full one entry early.                     *)
KeptFewer(a) ==
  LET ids == TriedIds(a)
      bucket(i) == nKey.tried[a.mapInfo[ids[i]].host]
      room(i) == Cardinality({j \in 1..(i - 1) : bucket(j) = bucket(i)})
                   < TRIED_BUCKET_SIZE - 1
      kept == SelectSeq([i \in 1..Len(ids) |-> i], room)
  IN  [i \in DOMAIN kept |-> ids[kept[i]]]

(* The tried entries whose bucket still has place when they are read.      *)
Kept(a) ==
  LET ids == TriedIds(a)
      bucket(i) == nKey.tried[a.mapInfo[ids[i]].host]
      room(i) == Cardinality({j \in 1..(i - 1) : bucket(j) = bucket(i)})
                   < TRIED_BUCKET_SIZE
      kept == SelectSeq([i \in 1..Len(ids) |-> i], room)
  IN  [i \in DOMAIN kept |-> ids[kept[i]]]

(* The data structure rebuilt from the file.                               *)
Reload(a) ==
  LET ids == NewIds(a) \o Kept(a)
      index == 0..(Len(ids) - 1)
      buckets == [b \in NewBucket |->
                    {UnkId(a, n) : n \in
                       {m \in a.vvNew[b] :
                          Cardinality({c \in NewBucket : c < b /\ m \in a.vvNew[c]})
                            < NEW_BUCKETS_PER_ADDRESS}}]
      tried(i) == i >= Len(NewIds(a))
  IN  [mapInfo |->
         [i \in index |->
            [a.mapInfo[ids[i + 1]] EXCEPT
               !.nRefCount = Cardinality({b \in NewBucket : i \in buckets[b]}),
               !.fInTried = tried(i),
               !.nRandomPos = i + 1]],
       mapAddr |-> [h \in {a.mapInfo[n].host : n \in Range(ids)} |->
                      CHOOSE i \in index : a.mapInfo[ids[i + 1]].host = h],
       vRandom |-> [i \in 1..Len(ids) |-> i - 1],
       nTried |-> Len(Kept(a)),
       nNew |-> a.nNew,
       nIdCount |-> Len(ids),
       vvTried |-> [k \in TriedBucket |->
                      SelectSeq([i \in 1..Len(ids) |-> i - 1],
                        LAMBDA i : tried(i) /\ nKey.tried[a.mapInfo[ids[i + 1]].host] = k)],
       vvNew |-> buckets]

(* The process stops and starts again with the peers.dat it has written.   *)
Restart ==
  /\ am' = Reload(am)
  /\ UNCHANGED nKey

Next ==
  \/ \E h \in Host, src \in Source : Add_(h, src)
  \/ \E h \in Host, nTime \in 1..MaxTime : Good_(h, nTime)
  \/ GetAddr_
  \/ Restart

Spec == Init /\ [][Next]_vars

-----------------------------------------------------------------------------
(* Check_ returns 0: the counters, the index by address, the random order, *)
(* the reference counts and both tables agree after every operation.       *)
Check_ ==
  LET ids == DOMAIN am.mapInfo
      tried == {n \in ids : am.mapInfo[n].fInTried}
      places(n) == {<<k, i>> \in TriedBucket \X (1..Len(am.vRandom)) :
                      i <= Len(am.vvTried[k]) /\ am.vvTried[k][i] = n}
  IN  /\ Len(am.vRandom) = am.nTried + am.nNew
      /\ am.nTried = Cardinality(tried)
      /\ am.nNew = Cardinality(ids \ tried)
      /\ \A n \in ids :
           LET info == am.mapInfo[n] IN
           /\ info.host \in DOMAIN am.mapAddr /\ am.mapAddr[info.host] = n
           /\ info.nRandomPos \in DOMAIN am.vRandom
           /\ am.vRandom[info.nRandomPos] = n
           /\ n \in tried => info.nLastSuccess # 0 /\ info.nRefCount = 0
           /\ n \notin tried => info.nRefCount \in 1..NEW_BUCKETS_PER_ADDRESS
           /\ info.nRefCount = Cardinality({b \in NewBucket : n \in am.vvNew[b]})
           /\ Cardinality(places(n)) = IF n \in tried THEN 1 ELSE 0
      /\ UNION Range(am.vvNew) \subseteq ids
      /\ \A k \in TriedBucket : Range(am.vvTried[k]) \subseteq ids

(* "Only keep a limited number of addresses around" (addrman.h): no bucket *)
(* outgrows its size, also when MakeTried evicts an entry into a bucket    *)
(* where there is "certainly place".                                       *)
BucketBounds ==
  /\ \A b \in NewBucket : Cardinality(am.vvNew[b]) <= NEW_BUCKET_SIZE
  /\ \A k \in TriedBucket : Len(am.vvTried[k]) <= TRIED_BUCKET_SIZE

(* The tables are consistent and bounded, as the code's own check has it.  *)
Consistent == TypeOK /\ Check_ /\ BucketBounds

(* What a user of the address manager can tell of it.                      *)
Content(a) ==
  {<<a.mapInfo[n].host, a.mapInfo[n].nLastSuccess,
     a.mapInfo[n].fInTried, {b \in NewBucket : n \in a.vvNew[b]}>> :
       n \in DOMAIN a.mapInfo}

(* A restart changes the numbers of the entries and nothing else: which    *)
(* addresses are known, tried, and in which new buckets survives           *)
(* serialization, from every state the process may stop in.                *)
AddressesKept == Content(Reload(am)) = Content(am)

(* "They are never deleted while in the tried table" (addrman.h): an       *)
(* address known to work is still known after any operation or restart.    *)
TriedKept ==
  [][\A h \in DOMAIN am.mapAddr : FoundInfo(h).fInTried => Find(h)']_vars

(* "find the least recently tried among them" (SelectTried): the position  *)
(* it returns would be that of the oldest entry it has inspected.          *)
LeastRecentlyTried ==
  \A k \in TriedBucket : Len(am.vvTried[k]) = TRIED_BUCKET_SIZE =>
     \A pos \in Draws(am.vvTried[k]) :
     LET sel == SelectTriedLoop(am.vvTried[k], pos)
         success(i) == am.mapInfo[sel.v[i]].nLastSuccess
     IN  \A i \in DOMAIN pos : success(sel.oldestPos) <= success(i)
=============================================================================
