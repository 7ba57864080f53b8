# Verification of the ChessCoin core

TLA+ modules that model the node of this repository (`src/src/`), the TLC
configurations that check them on small instances, and TLAPS proofs of the
main results for every instance.  `PROJECT.json` is the machine-readable
index: which definition stands for which lines, what every run checks, one
mutant per property that the property must catch, the hazards of the code and
the properties that address them.

    tlc -config ChainFaults.cfg MCChainState    # a run
    tlapm ChainStateProofs.tla                  # the proofs of a module

Sections 1 to 3 describe the system, the modules and the runs; section 4 the
modelling decisions of each module; section 5 fairness; section 6 the proofs;
section 7 the disagreements between code and comments; section 8 what is not
modelled.

## 1. The system

A ChessCoin node is one process of a Bitcoin-derived proof-of-stake currency.

| Part | State | Operations | What makes it hard |
|---|---|---|---|
| Block chain (`main.cpp`) | `mapBlockIndex`, `pnext`, `pindexBest`, `mapOrphanBlocks`, `setStakeSeen(Orphan)` | `ProcessBlock`, `AcceptBlock`, `AddToBlockIndex`, `SetBestChain`, `Reorganize`, `ConnectBlock`, `DisconnectBlock` | blocks in any order, branches, several database transactions per call, failures in the middle, a stop between any two writes |
| Synchronized checkpoints (`checkpoints.cpp`) | `hashSyncCheckpoint`, `hashPendingCheckpoint` | `ProcessSyncCheckpoint`, `AcceptPendingSyncCheckpoint`, `WriteSyncCheckpoint`, `CheckSync` | messages race with blocks; a checkpoint forces a switch to a lighter branch |
| Database (`txdb-leveldb.cpp`) | block index with `hashNext`, transaction index, best chain, checkpoint | batches, commit, `LoadBlockIndex` | memory and disk must agree after a failed commit and after a restart |
| Stake kernel (`kernel.cpp`) | stake modifiers and proofs in the block index | `ComputeNextStakeModifier`, `CheckProofOfStake` | the modifier follows the block's own chain, the kernel check the best chain of the moment |
| Memory pool, orphan transactions (`main.cpp`) | `mapTx`, `mapNextTx`, `mapOrphanTransactions` | accept, remove, conflicts, resurrect | a reorganization changes which inputs exist |
| Block creation (`miner.cpp`) | the candidate block | `CreateNewBlock`, `CheckStake` | tip read without the lock, dependencies between pool transactions |
| Connections (`net.cpp`, `net.h`, `sync.h`) | `vNodes`, reference counts, `semOutbound`, send and receive queues | socket, message and open-connection threads | several threads share every node; disconnection races with all of them; both ends may wait for each other |
| Messages (`main.cpp`) | inventory sets, `mapAskFor`, `hashContinue` | one handler per command | lost and repeated announcements |
| Alerts (`alert.cpp`) | `mapAlerts`, `setKnown` | process, cancel, relay | alerts cross each other, version messages and expiry |
| Address manager (`addrman.cpp`) | `mapInfo`, `vRandom`, new and tried buckets | `Add`, `Good`, `GetAddr`, (un)serialize | several indexes of one set, evictions, random choices |
| Wallet (`wallet.cpp`) | `mapWallet`, spent flags, key pool | add, spend, reserve, return, scan | chain, pool and disk change under it |
| Wallet locking (`rpcwallet.cpp`, `keystore.cpp`, `crypter.cpp`) | `vMasterKey`, `nWalletUnlockTime`, master keys | unlock, lock, encrypt, timer threads | a thread per timeout; a stop while keys are replaced |
| Wallet file (`sqlitewallet.cpp`, `walletmigrate.cpp`, `walletdb.cpp`) | files, one shared connection | migration by rename, transactions, backup | a stop between two renames; several users of one transaction |

The chain, the checkpoints and the database run under `cs_main`, whose holders
are the message thread (`main.cpp:3650`), the miner (`miner.cpp:465`, `505`),
block import (`main.cpp:2760`) and the RPC thread (`bitcoinrpc.cpp:1166`).
They feed the memory pool and the wallet (`SyncWithWallets`); the message
thread feeds them from the connections; the stake kernel decides which
proof-of-stake blocks the chain takes.

## 2. Modules

| Module | Models | Composed in | Proofs |
|---|---|---|---|
| `BlockTree` | a tree of blocks with transactions, valid chains, spent outputs (the vocabulary of the chain) | `ChainState`, `ChainLedger` | `ChainReorgProofs` |
| `ChainState` | chain, checkpoints and database, one action per step of the thread that holds `cs_main` | `MCChainState`, `MCChainStake` | `ChainReorgProofs`, `ChainStateProofs` |
| `ChainLedger` | abstract specification of what the chain code commits: a tip and a checkpoint | refined by `ChainState` | `ChainStateProofs` |
| `StakeKernel` | stake modifiers and kernel checks with two branches | `MCServices` | |
| `TxPool` | memory pool, orphan transactions, block creation, reorganization | `MCTxPool` | `TxPoolProofs` |
| `NetNodes` | `CNode` objects, reference counts, slots, the threads that share them | `MCNetwork` | `NetNodesProofs` |
| `MessageStream` | both ends of one connection: queues, bytes, threads, pings, limits | `MCServices` | |
| `Alerts` | alerts over a changing network | `MCServices` | |
| `AddrMan` | the address manager and `peers.dat` | `MCNetwork` | |
| `BlockSync`, `MruSet` | the download of a chain in batches; the bounded set of known inventory | `MCSync` | |
| `AskFor` | one item announced by several peers, retries | `MCSync` | |
| `KeyPool` | the key pool | `MCWalletKeys` | `WalletKeysProofs` |
| `WalletLock` | unlocking for a time: commands, windows, timer threads | `MCWalletKeys` | `WalletKeysProofs` |
| `WalletCrypt` | encryption and passphrases against the file | `MCWalletFiles` | `WalletCryptProofs` |
| `WalletMigrate` | conversion of `wallet.dat` | `MCWalletFiles` | `WalletFileProofs` |
| `WalletStore` | the shared SQLite connection, backup | `MCWalletFiles` | `WalletFileProofs` |
| `WalletCoins` | records and spent flags of the wallet against the chain | `MCWalletSpending` | |
| `CoinSelection` | one call of `CreateTransaction` | `MCWalletSpending` | `WalletSpendingProofs` |

State variables and actions carry the names of the code's variables and
functions.  The modules that share state in the code share it in the model
(chain with checkpoints and database; pool with orphans, miner and chain tip;
`CNode` with its semaphore and both loops).  The `MC` modules that hold
several components which share no state let a behaviour be one of one
component (`part`), so that the other variables do not multiply the states.

## 3. Runs

| Run | Properties | What it shows |
|---|---|---|
| `ChainFaults` | `HeaviestValidChainWins`, `DiskExact`, `MemoryFollowsDisk` | eight blocks on three branches with double spends, in any order, one stop of the process, one failed read or commit at any step: what is on disk is exactly one valid chain, memory agrees with it between calls, and while nothing has failed the best chain is the heaviest valid one |
| `ChainCheckpoints` | `Inv`, `CheckpointAdvances`, `ImplementsLedger` | three checkpoint messages race with the blocks and a restart; the invariant of the proofs holds, checkpoints only move forward, and `ChainState` implements `ChainLedger` |
| `ChainStake` | `StakeReleased`, `ProcessingEnds` | three blocks minted with one stake in any order: no stake stays reserved for a block that is gone, and every call ends |
| `ChainNotFatal` (violation) | `NotFatal` | section 7 |
| `Network` | `ReferencesExact`, `Consistent`, `AddressesKept`, `DeletedEventually`, `TriedKept` | reference counts equal holders, no deleted node is used, disconnected nodes are deleted; the address tables stay consistent through additions, successes, evictions and restarts, and lose no tried address |
| `TxPool` | `PoolExact`, `BlockConnects`, `OrphansFollow` | the pool has no double spend and nothing confirmed, orphans follow their last parent, a block that is not stale connects |
| `Sync` | `DownloadEnds`, `OrphansResolve`, `Obtained` | the download of a chain ends with it, orphans get their parents (not after a refused block of the initial download), an announced item is obtained although other peers are silent |
| `Services` | `StreamIntact`, `MessagesServed`, `AlertsAgree`, `KernelAgrees` | messages arrive whole, once, in order, and are served; connected nodes agree on the alerts in effect; recorded modifiers and proofs are those of each block's own chain, except after a block that was accepted with a proof of the other branch |
| `WalletKeys` | `PoolReadable`, `GivenOutOnce`, `OldKeysFlushed`, `Relocked`, `UnlockedAsAsked` | no key comes out twice, every pool index is readable, old keys are gone after encryption; a wallet unlocked by `walletpassphrase` is locked again, when that was asked for, whatever windows and changes of the passphrase do, unless a timer fires inside a change |
| `WalletFiles` | `RecordsKept`, `OriginalKept`, `KeysKept`, `Unlockable`, `TransactionsApart`, `BackupExact` | no step of migration or encryption loses a record or a key, whatever fails and wherever it stops; transactions of objects that share the connection stay apart, and a backup during which nothing is committed is exact |
| `MigrateHalf` (violation) | `NeverWithoutWallet` | section 7 |
| `WalletSpending` | `GoodPayment`, `AllFundsTried`, `PaymentEnds`, `SpentExact`, `RecordsFollow` | a payment is balanced and pays its fee, gives up only when all funds are too little, and its loop ends; records and flags follow the best chain, and do so again after a reorganization that was given up half-way, once `repairwallet` or a rescan is through |

Deadlock is checked except where the system may rest: when every block has been
delivered (`ChainFaults`), when a download is complete (`Sync`), when the
bounded clock has run out (`WalletKeys`), when the one payment is made
(`WalletSpending`), and when alerts and blocks are all delivered or both ends
have closed (`Services`).

### Bounds

* Chain: nine blocks (`MCChainState`) give a fork below the tip, a longer
  branch that turns invalid at its last block, a transaction both branches
  confirm and a double spend hidden in a side branch.  `MCChainStake` has three
  blocks with one stake on two parents and one child.  `MaxCrashes` and
  `MaxIOErrors` of 1 put one fault of each kind at any step; the proofs cover
  every number.
* `Network`: two nodes, two openers and one address make every race of
  `FindNode`/`AddRef`; three addresses from two sources, buckets of one entry
  and at most three entries (`MaxId`) make every eviction and deletion happen.
* `TxPool`: five transactions (a double spend, a two-parent orphan and its
  child), blocks of up to two transactions, up to three blocks.
* `Sync`: six blocks and a side chain in batches of two, and one refused
  block in or after the initial download; `KnownLimit` keeps the
  2 : 1 ratio of `setInventoryKnown` to a batch (1000 : 500), `DenseLimit` of 2
  stands for 10.  Three peers, two of them silent, and one item.
* `Services`: headers of two bytes, replies of three and a socket that holds
  three cut messages at every place; a send buffer of 3 and a receive limit of
  4 reach both limits; three nodes, two alerts of which one cancels the other,
  three connections; fourteen blocks, a trunk with branches of six and three,
  four modifier rounds (64 in the code, with the code's formula for the
  sections), and no, or two, blocks whose proof meets the target with any
  modifier.
* `WalletKeys`: pools of up to two, four keys, clock of five; two timer
  threads with the windows or three without.  `WalletFiles`: three keys, two
  passphrases, two attempts, three records, two handles with three writes to
  two pages, enough for a torn copy.  `WalletSpending`: five transactions (a
  split stake, a payment of each of its outputs, a conflicting coinstake) in
  six blocks on four branches; up to four coins, values on both sides of the cent and of the fee; `Iterations` of 2
  stands for the 1000 random trials, each of which may pick any subset.

## 4. Modelling decisions

**ChainState.**  One thread steps through `ProcessBlock` and
`ProcessSyncCheckpoint` (`pc`), since every caller holds `cs_main`; a step ends
at each database commit and each read that may fail, so that a stop of the
process falls between any two.  Checkpoint mode is STRICT, the network is the
main one.  Malformed blocks are not delivered; `BadBlock` stands for failed
value, signature, fee and reward checks of `ConnectBlock`, `Unacceptable` for
the checks of `AcceptBlock` and `AddToBlockIndex`; the kernel check may reject
any proof-of-stake block, and the check against too little proof since the last
checkpoint any block that is not wanted.  A batch is modelled as the whole database as it
would be after the commit.  Sibling orphans are tried in any order.  `broken`
records that a postponed block failed after a commit (section 7); the
properties that this voids say so.  `nBestInvalidTrust`, relay, wallet and pool
are left out here; the last two have their own modules.

**StakeKernel.**  Block numbers stand for hashes and chain trust is the height.
Every block is valid: its kernel met the target with the modifier its minter
saw; that of an `easy` block meets it with any modifier (`kernel.cpp:315` only
compares with the target), that of another block with no other.  A block
accepted while its coin, or the block with its minter's modifier, was off the
main chain is in `strays`: what is recorded of it may be another proof
than its minter's, for ever (`main.cpp:2012`), and later modifiers rest on it.
`pnext` runs along the best chain, which `PnextTheorem` of
`ChainStateProofs` proves of the chain code.  Block times need not grow along a
chain (`GetPastTimeLimit` is the median of past times).  `Pick`,
`ModifierAfter` and `OwnIndex` are the reference the code's loops are compared
with.

**TxPool.**  Sizes, fees and priorities are a choice (`Skip`); `Coinbase`
stands for buried outputs; a reorganization connects exactly two blocks; one
that is given up does not touch the pool.  The recursive `remove` erases the
smallest set that has the given transactions and, with each one, what spends it
in the pool (`Descendants`).  The loops of `Reorganize` and of the message `tx`
are functions of the number of passes; the second has no bound in the code and
`MaxTries` in the model, of which `TxPoolProofs` proves that the queue is
empty by then.

**NetNodes.**  The `TRY_LOCK`s before a delete succeed when there are no
references.  Two settings: one opener, the message thread and inbound
connections; or both openers before the message thread has started (with two openers the counts
and pointers are not claimed, section 7).  Connections by name,
bans and local addresses are left out.

**MessageStream.**  The connection after the handshake.  `send()` takes all
that fits; a round in which `TRY_LOCK(cs_vSend)` fails is left out, being a
stutter.  Requests and pings have no payload.  Time counts in half hours and
passes only when no thread of either end has work.  A reset may throw away
bytes when the peer has closed; a send error in the optimistic write of
`EndMessage` closes the connection in the message thread, which may wipe the
receive queue it is working on.  Enabling conditions of the fairness are
written out (`MessageWork`, `SocketWork`) instead of `ENABLED`.

**Alerts.**  The alerts of `sendalert`: numbers ascend, `setCancel` is empty,
the reserved maximal number is not used, clocks agree.  A refused alert costs
10 points of 100; fewer refusals than lead to a ban happen within the bounds.
Of the version handler only what the alerts depend on is modelled.

**AddrMan.**  Random choices are left open; `ShrinkNew` may remove any entry
its loop can reach.  `nTime`, `nLastTry` and `nAttempts` only weigh those
choices and are left out.  A restart reads the `peers.dat` just written.

**BlockSync.**  One connection, both ends run this program; block validity
beyond "refused once" is left out.  **AskFor.**  Times relative to now; each
peer announces once per connection.

**KeyPool.**  Each operation is one `cs_wallet` section; `Lock` takes only
`cs_KeyStore`, so it may come in the middle of a refill.  `Failures` names the
writes and erasures that may fail: those the code looks at (`Heeded`) in the
run, those it ignores (`Ignored`) in section 7.  `AddReserveKey` has no caller.

**WalletLock.**  The clock advances when no timer thread is runnable and not
within `walletpassphrase`.  `walletpassphrasechange` takes three steps, since
`CCryptoKeyStore::Lock`, which the timers call, needs no lock that it holds: it
notes whether the wallet is locked and locks it, unlocks it with the old
passphrase, and locks it again if it was locked.  `asked.crossed` records that
a timer has fired between the first two, `asked.alone` that no timer was on
when `walletpassphrase` was called.  A passphrase dialog waits for `cs_wallet`
as a whole; that `Unlock` looks at the wallet before it waits, and failures of
the ciphers, are left out.

**WalletCrypt.**  Master keys are named by the attempt; a wrong passphrase does
not decrypt; the pool stands for one new key.  `Failures` names the writes that
may fail, among them those the code ignores (`Ignored`): the master key, the
erasure of the unencrypted key in `WriteCryptedKey`, and a changed passphrase;
`"rollback"` is SQLite taking the transaction back with a failed statement.
**WalletStore.**  SQLite is external: a statement changes some pages of the
file; a failed one may take the whole transaction back, and a failed COMMIT may
or may not; a backup copies the file page by page, with no lock.  **WalletMigrate.**  One start-up
thread, every file operation may fail and the process may stop between any two.

**WalletCoins.**  A coin is an output of a transaction; a stake may be split in
two.  A payment holds `cs_main` and
`cs_wallet` and so does not interleave with a reorganization.  Any block that
is not an ancestor may become the best one; a reorganization is given up at
block boundaries, after which `damage` records that flags and blocks are not
claimed until `repairwallet` or a rescan.  A restart is one round of
`ReacceptWalletTransactions` and, if it marked a coin, the scan and a second
round; it passes over what `wallet.cpp:893` does.  Maturity, lock times and minimum values are left out.
**CoinSelection.**  A behaviour is one call of `CreateTransaction`; the coins
start sorted by falling value; sizes are abstract.

## 5. Fairness

Liveness properties assume weak fairness of what the code runs in endless
loops, and of nothing else: the thread that holds `cs_main` goes on
(`ProcessingEnds`); the socket and message threads loop
(`DeletedEventually`, `MessagesServed`); received messages are handled, queued
ones sent, retries and the loop of the daemon take place, a peer that answers
does so (`DownloadEnds`, `OrphansResolve`, `Obtained`); timer threads and the
clock go on (`Relocked`); `CreateTransaction` is not abandoned
(`PaymentEnds`).  Nothing makes blocks, alerts, commands or connections
arrive.

## 6. Proofs

The proofs hold for every value of the constants that satisfies the named
`ASSUME`s: `BlockTreeAssumption` and `TransactionAssumption` (blocks form a
tree, trust grows along it, transactions have inputs and outputs),
`ChainStateAssumption`, `KeyPoolAssumption`, `LockAssumption`,
`CryptAssumption`, `StoreAssumption`, `NetAssumption`, `SelectionAssumption`
and `TxPoolAssumption` (types, finitely many objects, a null value that is none of them, at
least one record or address).

* **Chain.**  `ChainReorgProofs` proves what connecting and disconnecting a
  block does to the set of spent outputs of a valid chain, and types, and
  has one lemma per action of `SetBestChain` and `Reorganize`;
  `ChainStateProofs` has one per action outside them.  The
  inductive invariant is `Inv == TypeOK /\ SyncInv /\ DiskInv /\ ThreadInv /\
  CalmInv`.  `DiskInv` says that the database describes one valid chain and
  `SyncInv` relates the checkpoint to it; neither is inductive alone, because a
  reorganization works in a batch: `ThreadInv` says, for each `pc`, which chain
  the batch describes on the way between the two branches and where memory and
  disk may differ meanwhile.  `CalmInv` (no fault, no checkpoint switch) carries the
  trust of the indexed blocks that `HeaviestValidChainWins` needs.  Results:
  `Invariance`, `DiskExactTheorem`, `MemoryTheorem`, `HeaviestTheorem`,
  `NothingPostponedTheorem`, `CheckpointTheorem`, `CheckpointAdvancesTheorem`.
* **Refinement.**  `ChainStateProofs` proves `Spec => ImplementsLedger`: with
  `Inv` and `CallerInv` (who called `SetBestChain`, and why) every step is a
  step of `ChainLedger` or leaves what it sees alone; and `StakeReleased`.
* **Migration.**  `MigrateIInv` of `WalletFileProofs` says at each stage which file
  has the records; it gives `RecordsKept` and `OriginalKept` for every set of
  records.
* **Key pool.**  Under `Failures \subseteq Heeded` (the writes and erasures whose
  results are ignored succeed; section 7 shows what happens otherwise)
  `PoolIInv == TypeOK /\ Pooled /\ Fresh /\ Placed /\ Flushed`:
  every record is in the pool or in reserve, a new key is in neither yet and was
  never given out, and no old key remains once the pool was flushed.  It gives `GivenOutOnce`, `PoolReadable` and
  `OldKeysFlushed` for every pool size and number of keys.
* **Encryption.**  `IInv == TypeOK /\ Recoverable /\ Filed /\ Stage`: at each
  stage of `EncryptWallet` how memory, transaction and file differ.  Under
  `Failures \cap Ignored = {}` it gives `KeysKept` and `Unlockable`.  The
  assumption is needed: the results of those writes are ignored (section 7).
* **Wallet file.**  `StoreIInv == StoreTypeOK /\ Counted /\ Ordered /\ Owned /\
  Backed` of `WalletFileProofs`.  `Ordered` says that what a transaction changed
  is later than everything in the file, so that a commit that fails marks
  nothing the file has; `Owned` that, while SQLite has taken no transaction
  back, the owner of the transaction is open and alone and has nothing of a
  failed one; `Backed` that the `.dat` file is whole whenever the connection is
  closed, and that a backup after which nothing was committed has copied, and
  will copy, what was committed when it began: no page in the file is older, as
  the numbers of the writes only grow.  It gives `TransactionsApart` and `BackupExact` for
  every number of objects, pages and writes.
* **Connections.**  `NetIInv == NetTypeOK /\ Threads /\ Memory /\ RefCounts /\
  Exact /\ SlotsConserved` of `NetNodesProofs`: what each thread holds at each
  point of its loop, that free memory holds no slot and no reference, and,
  with one opener, that the address it chose is not connected by anybody else,
  so that its new node keeps its first reference until `fNetworkNode` is set.
  The counts need the last part: without it the opener's node could be deleted
  between `ConnectNode` and that assignment.  It gives `ReferencesExact` for
  every number of nodes, threads, addresses and slots.
* **Unlock timer.**  `LockIInv == LockTypeOK /\ Deadlines /\ Watched /\ Obeyed /\
  InTime` of `WalletKeysProofs`: some thread wakes no later than the shared
  time, and a wallet that is left to a timer has one on or on its way
  (`Watched`); if no timer was on when `walletpassphrase` was called, the one
  deadline under way is the one asked for, in whichever of the command, a new
  thread or the shared time it is (`Obeyed`), and it has not passed (`InTime`).
  "Left to a timer" (`UntilTimer`) includes the moment inside a change of the
  passphrase in which the wallet is locked and about to be unlocked again:
  without it the invariant is not inductive, and a timer that fires just then is
  the exception `crossed`.  It gives the action property `UnlockedAsAsked` for
  every number of threads, with windows and changes.
* **Payment.**  `PayIInv` of `WalletSpendingProofs`: a level of confirmations is
  left only when its coins are too little (`LevelsTried`), and during the random
  trials the best subset reaches its goal (`Trials`).  It gives `GoodPayment`
  and `AllFundsTried` for all coins and values.  The sums over sets are folds;
  what they satisfy is proved from their definition by a least counterexample
  (`SumsExist`), which takes the place of an induction rule.
* **Pool.**  `PoolIInv == ChainPart /\ PoolPart /\ OrphanPart /\ MinerPart /\
  CollectPart` of `TxPoolProofs`: `mapNextTx` and the index of the orphans are
  exact, and what `CreateNewBlock` has collected connects on the chain unless
  the chain has grown meanwhile, when the block is stale.  Each loop of the code
  is a recursive function, and a lemma says that what its body keeps holds
  after the loop (`LoopExists`, `Throughout`).  For the work queue of the message `tx` that
  is `Work`: an orphan which an accepted transaction could free is still
  to be tried or lacks another parent, and the tries do not exceed the
  transactions accepted times those that can wait for one, so that `MaxTries`
  passes empty the queue.  It gives `PoolExact`, `BlockConnects` and the action
  property `OrphansFollow` for every set of transactions and every setting.

Only model-checked:

* every liveness property and the enabledness behind it: temporal reasoning
  under fairness is beyond the prover;
* `KernelAgrees` (`StakeKernel`), which compares two recursive computations
  over a chain; what they return for every chain would need induction over the
  data, for which the installed provers have no usable rule;
* `StreamIntact`, `AlertsAgree`, the address manager (`Consistent`,
  `AddressesKept`, `TriedKept`) and the wallet's records (`SpentExact`,
  `RecordsFollow`), for which no inductive invariant has been worked
  out yet; the download, whose properties are liveness.

## 7. Where code and comments disagree

Two runs show a violation of what a comment promises.

* `ChainNotFatal` — `main.cpp:1857`: a postponed block fails in the loop over
  `vpindexSecondary`; `SetBestChain` breaks out and still names `pindexNew` the
  best block, which was never connected.  The comment (line 1856) says "errors
  now are not fatal, we still did a reorganisation to a new chain in a valid
  way".  It takes a checkpoint to a lighter branch: in the other cases nothing
  is postponed (`NothingPostponedTheorem`).
* `MigrateHalf` — `walletmigrate.cpp:301`: a stop between the two renames, or a
  failed roll back, leaves no `wallet.dat`; the next start takes that for a new
  user.  The comment (line 303) says "so the user is never left without a
  wallet".  `RecordsKept` shows that the records remain in the backup.

### Observations

The following statements are defined in the modules too and have no run of
their own.  TLC finds each of them violated with the constants of the
module's run, or with the change named in brackets.  Where a condition is
named the definition holds with it, is part of a run, and fails without it.

| Definition | Code | What happens |
|---|---|---|
| `ChainState!HeldUntilParent` | `main.cpp:2348` | a block that fails to connect stays in the index and `ProcessBlock` returns before the orphan loop: held children wait for a parent that is there |
| `ChainState!StartupAssertion` | `main.cpp:2035` | a failed commit of an index entry leaves the block in memory; its child is stored without it, which `kernel.cpp:374` asserts cannot be |
| `ChainState!LimitedDuplicity` | `main.cpp:2365` | a tried orphan erases the stake that another held orphan uses |
| `NetNodes!NoUseAfterDelete` | `net.cpp:506` | `FindNode` releases `cs_vNodes` before `AddRef` (condition `OneOpener`) |
| `NetNodes!NoSlotDisconnected` | `net.cpp:1531` | the outbound grant moves to a node that was disconnected meanwhile |
| `NetNodes!SyncNodeAsked` | `net.cpp:1569` | `StartSync` names a node that was disconnected meanwhile |
| `AddrMan!LeastRecentlyTried` | `addrman.cpp:142` | the position of the oldest entry is recorded after the swap that moved it [`TRIED_BUCKET_SIZE` 2] |
| `KeyPool!MinedKeyRemoved` | `miner.cpp:470` | the reserve key kept in `CheckWork` is not the one the coinbase uses |
| `TxPool!NoMissingInput` | `main.cpp:1757` | pool transactions stay when the disconnected transaction they spend is not taken back |
| `TxPool!OrphanAlive` | `miner.cpp:210` | `mapDependers` keeps a pointer to a destroyed `COrphan` |
| `TxPool!WalletsKnow` | `main.cpp:3382` | `SyncWithWallets` gets the parent instead of the orphan |
| `TxPool!IndexBounded` | `main.cpp:3371` | `mapOrphanTransactionsByPrev[hashPrev]` inserts an empty set per accepted transaction |
| `BlockSync!BatchesContinue` | `main.cpp:3226` | past the last proof-of-work block the inventory after a batch asks for nothing new; only the loop of the daemon continues |
| `AskFor!RetrySpacing` | `main.cpp:3829` | two peers get the same request time |
| `BlockSync!AllOrphansResolve` | `main.cpp:2340` | during the initial download a block that was refused once is not asked for again, and what follows it stays an orphan |
| `KeyPool!PoolReadable`, `GivenOutOnce`, `OldKeysFlushed` | `wallet.cpp:2193`, `2091` | the result of `ErasePool` is ignored: the record of a key in use comes back at the next start, or is left where a new one is written [`Failures` with `"keep"`: all three; `"flush"`: the first and the last; `"renew"`, `WritePool` in `NewKeyPool`: the first] |
| `WalletLock!RelockedAlways` | `wallet.cpp:164`, `174` | a timer fires between the `Lock` and the `Unlock` of `ChangeWalletPassphrase`: the wallet is unlocked again and no timer is left |
| `WalletLock!NotLonger`, `NotShorter` | `rpcwallet.cpp:1431`, `1405` | an old unlock time outlives a lock from the windows or a change with a wrong passphrase; a late timer thread shortens a later unlock (condition `asked.alone`) |
| `WalletCrypt!Recoverable`, `Unlockable` | `wallet.cpp:293`, `193` | the result of `WriteMasterKey` is ignored [`Failures` with `"mkey"` or `"change"`] |
| `WalletCrypt!OneKind`, `Recoverable` | `walletdb.h:110` | the result of `Erase` is ignored: the unencrypted key stays in the file beside the encrypted one [`Failures` with `"erase"`]; if SQLite takes the transaction back with it, the later keys are written without their master key [also `"rollback"`] |
| `WalletCrypt!Unlockable` | `wallet.cpp:292` | a failed `TxnBegin` leaves a master key in memory at which `Unlock` gives up (condition: every master key in memory is in the file) |
| `WalletCrypt!Rewritten` | `wallet.cpp:322` | the rewrite after encryption is the Berkeley DB one |
| `WalletStore!OneOwner` | `sqlitewallet.cpp:196` | SQLite takes a transaction back with a failed statement, another object begins one, and the first goes on in it (condition `~rolledBack`) |
| `WalletStore!BackupNotTorn` | `walletdb.cpp:585` | a commit and a checkpoint between two pages of the copy: the backup has pages of both states |
| `WalletCoins!ChainSpent` | `main.cpp:1524` | the wallets are told of disconnected coinstakes before the reorganization succeeds (condition on `damage`) |
| `WalletCoins!RestartMends` | `wallet.cpp:893` | a restart after that does not look at the second output of a split stake whose first is marked |
| `StakeKernel!ProofsAgree`, `MainAccepted` | `kernel.cpp:315` | a block of a side branch whose proof also meets the target with the main chain's modifier is recorded with that proof; a valid descendant is then refused on the main chain |
| `WalletCoins!CommitAccepted` | `wallet.cpp:399` | change spent in the pool is marked unspent by a block |

Seen while modelling `Services`, where the properties name them as exceptions:

* `net.cpp:914`: a socket thread that drains its queue does not read.  Two ends
  that fill each other's sockets wait until the 90-minute limit
  (`cut = "block"` in `MessageStream`).
* `net.cpp:1024`: a peer whose data exceed `-maxreceivebuffer` while the
  message thread is busy is disconnected, not held back.
* `kernel.cpp:228`: the kernel's modifier is searched along `pnext`.  A valid
  block whose modifier lies after a fork is refused by a node whose best chain
  is the other branch; the comments (`kernel.cpp:231`, `359`, `main.cpp:2198`)
  speak of the initial download only.  Through that search the effective
  minimum age of a stake is the selection interval, not `nStakeMinAge`.
* `net.h:469`: a send error closes the connection inside `PushMessage` and wipes
  the receive queue that the message thread is working on.

Seen while modelling `WalletStore`: a write through one object while another has
a transaction open is part of that transaction and is lost with it, without
notice; the result of the checkpoint before a backup is not looked at
(`walletdb.cpp:576`), so that a backup beside an open transaction may lack what
is in the log (`backup.flushed`); and `move` (`rpcwallet.cpp:658`, `668`) ignores
the results of its two writes, so that one of them alone may be committed.

And one comment:

* `rpcnet.cpp:75`: the comment on a known deadlock of `sendalert` is out of
  date, `SendMessages` takes `cs_main` with `TRY_LOCK`.

## 8. Not modelled

* **Clock** (`util.cpp`, `ntp.cpp`): a median over a window in one handler,
  sequential arithmetic; no code starts the NTP thread.  **Check queue**
  (`checkqueue.h`): no code instantiates it.
* **Script interpreter, keys, hashes, encodings, `serialize.h`**: sequential
  functions of byte strings; their verdicts are inputs of the models.
* **Berkeley DB and LevelDB wrappers, SQLite, sockets, name resolution, IRC,
  proxies**: external libraries and pure I/O, modelled only by the outcomes
  the callers distinguish.
* **RPC and HTTP layers, start-up and options, the graphical interface**:
  formatting and presentation; the commands that change wallet or alert state
  are actions of those modules.
* Of modelled components: `ResetSyncCheckpoint`, the hardened and the stake
  modifier checkpoints, the verification loop of `LoadBlockIndex`, bans,
  address and header messages, accounts, order positions, resending,
  `Recover`, the search of the minter, and the proof-of-work `CheckWork`
  apart from its reserve key.

The mapped lines are about a fifth of the C++ that lies directly in
`src/src/` (some 40,000 lines); the rest of the tree is the graphical
interface and its translations, the tests and the bundled LevelDB, SQLite and
secp256k1.  What remains of the node proper is listed above.
