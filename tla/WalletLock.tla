----------------------------- MODULE WalletLock -----------------------------
(***************************************************************************)
(* How long an encrypted wallet stays unlocked.  walletpassphrase unlocks   *)
(* the wallet and starts a thread, ThreadCleanWalletPassphrase, that is to  *)
(* lock it again; the threads share nWalletUnlockTime, which walletlock     *)
(* clears.  The windows lock and unlock the same wallet without touching    *)
(* that variable: a menu entry, the passphrase dialog, and the sending of   *)
(* coins, which unlocks the wallet for the time of the payment              *)
(* (WalletModel::requestUnlock).                                            *)
(*                                                                         *)
(* RPC commands exclude each other (they hold cs_main and cs_wallet), the   *)
(* windows run in one thread, CCryptoKeyStore::Lock needs neither lock: a   *)
(* timer also locks inside walletpassphrasechange, which is no single step. *)
(* The clock advances only while no timer thread has anything to do, and    *)
(* not within walletpassphrase.                                             *)
(***************************************************************************)
EXTENDS Naturals, FiniteSets

CONSTANTS
    MaxTime,      \* bound: the clock
    Settings      \* Threads: the timer threads that may be alive at once;
                  \* Timeouts: those given to walletpassphrase; Gui: the
                  \* windows are used besides the RPC commands

ASSUME LockAssumption ==
    /\ MaxTime \in Nat \ {0}
    /\ \A s \in Settings : s.Timeouts \subseteq Nat /\ s.Gui \in BOOLEAN

VARIABLES
    setting,                   \* the setting of this behaviour
    now,                       \* GetTimeMillis(), in seconds; starts at 1
    fLocked,                   \* vMasterKey is empty
    fWalletUnlockStakingOnly,
    nWalletUnlockTime,         \* 0, or the time at which the timer locks
    thread,                    \* Threads -> the state of a timer thread
    rpc,                       \* the command under way: the timeout of a
                               \* walletpassphrase, or fWasLocked of a change
    gui,                       \* the state of the sending window
    asked                      \* history: who unlocked the wallet last, until when,
                               \* whether no timer was alive then (alone), whether
                               \* one has fired inside a change since (crossed)

lockVars == <<setting, now, fLocked, fWalletUnlockStakingOnly, nWalletUnlockTime, thread,
              rpc, gui, asked>>

Threads == setting.Threads

Idle == [at |-> "idle", arg |-> 0]
NoCommand == [at |-> "idle", arg |-> 0, fWasLocked |-> FALSE]
TimeRange == 0 .. MaxTime

LockTypeOK ==
    /\ setting \in Settings
    /\ now \in TimeRange
    /\ fLocked \in BOOLEAN
    /\ fWalletUnlockStakingOnly \in BOOLEAN
    /\ nWalletUnlockTime \in TimeRange
    /\ thread \in [Threads -> [at : {"idle", "start", "enter", "sleep"}, arg : TimeRange]]
    /\ rpc \in [at : {"idle", "spawn", "change", "changed"}, arg : TimeRange,
               fWasLocked : BOOLEAN]
    /\ gui \in [at : {"idle", "dialog", "sending"}, relock : BOOLEAN]
    /\ asked \in [by : {"nobody", "rpc", "gui"}, until : TimeRange,
                 alone : BOOLEAN, crossed : BOOLEAN]

LockInit ==
    /\ setting \in Settings
    /\ now = 1
    /\ fLocked = TRUE
    /\ fWalletUnlockStakingOnly = FALSE
    /\ nWalletUnlockTime = 0
    /\ thread = [t \in Threads |-> Idle]
    /\ rpc = NoCommand
    /\ gui = [at |-> "idle", relock |-> FALSE]
    /\ asked = [by |-> "nobody", until |-> 0, alone |-> FALSE, crossed |-> FALSE]

(* A timer thread that has something to do now. *)
Runnable(t) ==
    \/ thread[t].at \in {"start", "enter"}
    \/ thread[t].at = "sleep" /\ thread[t].arg <= now

(* A command runs when no other one does. *)
Command == rpc.at = "idle"

(* No earlier timer is on, and no thread is about to set one. *)
NoTimer == nWalletUnlockTime = 0 /\ \A t \in Threads : thread[t].at \notin {"start", "enter"}

-----------------------------------------------------------------------------
(* The RPC commands. *)

(* walletpassphrase: an unlocked wallet is an error; the right passphrase
   unlocks it (CWallet::Unlock); the bound keeps every deadline on the clock. *)
walletpassphrase(T) ==
    /\ Command /\ fLocked
    /\ now + T <= MaxTime
    /\ \E t \in Threads : thread[t].at = "idle"
    /\ fLocked' = FALSE
    /\ rpc' = [at |-> "spawn", arg |-> T, fWasLocked |-> FALSE]
    /\ asked' = [by |-> "rpc", until |-> now + T, alone |-> NoTimer, crossed |-> FALSE]
    /\ UNCHANGED <<setting, now, fWalletUnlockStakingOnly, nWalletUnlockTime, thread, gui>>

(* ... its second half: the thread is created, then the flag is set. *)
StartTimer(stakingOnly) ==
    /\ rpc.at = "spawn"
    /\ \E t \in Threads :
          /\ thread[t].at = "idle"
          /\ thread' = [thread EXCEPT ![t] = [at |-> "start", arg |-> rpc.arg]]
    /\ fWalletUnlockStakingOnly' = stakingOnly
    /\ rpc' = NoCommand
    /\ UNCHANGED <<setting, now, fLocked, nWalletUnlockTime, gui, asked>>

walletlock ==
    /\ Command
    /\ fLocked' = TRUE
    /\ nWalletUnlockTime' = 0
    /\ UNCHANGED <<setting, now, fWalletUnlockStakingOnly, thread, rpc, gui, asked>>

(* walletpassphrasechange, in the steps between which others may lock: it looks
   at the wallet and locks it, ... *)
ChangeWalletPassphrase ==
    /\ Command
    /\ rpc' = [at |-> "change", arg |-> 0, fWasLocked |-> fLocked]
    /\ fLocked' = TRUE
    /\ UNCHANGED <<setting, now, fWalletUnlockStakingOnly, nWalletUnlockTime, thread, gui, asked>>

(* ... derives a key from the old passphrase: a wrong one leaves the wallet
   locked, and the timer is not told; the right one unlocks it; ... *)
TryOldPassphrase(right) ==
    /\ rpc.at = "change"
    /\ fLocked' = (fLocked /\ ~right)
    /\ rpc' = IF right THEN [rpc EXCEPT !.at = "changed"] ELSE NoCommand
    /\ UNCHANGED <<setting, now, fWalletUnlockStakingOnly, nWalletUnlockTime, thread, gui, asked>>

(* ... and, the new key derived and written, locks it if it was locked before. *)
EndChange ==
    /\ rpc.at = "changed"
    /\ fLocked' = (fLocked \/ rpc.fWasLocked)
    /\ rpc' = NoCommand
    /\ UNCHANGED <<setting, now, fWalletUnlockStakingOnly, nWalletUnlockTime, thread, gui, asked>>

-----------------------------------------------------------------------------
(* ThreadCleanWalletPassphrase.  A step is what a thread does between two
   releases of cs_nWalletUnlockTime. *)

(* It computes its own wake time before it enters the section. *)
StartThread(t) ==
    /\ thread[t].at = "start"
    /\ thread' = [thread EXCEPT ![t] = [at |-> "enter", arg |-> now + thread[t].arg]]
    /\ UNCHANGED <<setting, now, fLocked, fWalletUnlockStakingOnly, nWalletUnlockTime, rpc, gui, asked>>

(* The time u is up, and was not cleared: the thread locks the wallet. *)
Fires(u) == u # 0 /\ u <= now

(* A change is about to unlock the wallet, for good. *)
Unlocking == rpc.at = "change" /\ ~rpc.fWasLocked

(* Mutant: the time is cleared, the wallet left as it is. *)
LoopClears(t, u) ==
    /\ thread' = [thread EXCEPT ![t] = IF u > now THEN [at |-> "sleep", arg |-> u] ELSE Idle]
    /\ nWalletUnlockTime' = IF u > now THEN u ELSE 0
    /\ UNCHANGED <<fLocked, asked>>

(* Mutant: the thread locks also when the time was cleared. *)
LoopLocks(t, u) ==
    /\ thread' = [thread EXCEPT ![t] = IF u > now THEN [at |-> "sleep", arg |-> u] ELSE Idle]
    /\ nWalletUnlockTime' = IF u > now THEN u ELSE 0
    /\ fLocked' = (fLocked \/ u <= now)
    /\ UNCHANGED asked

(* The loop, for the thread that waits: nothing left to do, sleep until time u,
   or lock the wallet. *)
Loop(t, u) ==
    /\ thread' = [thread EXCEPT ![t] = IF u > now THEN [at |-> "sleep", arg |-> u] ELSE Idle]
    /\ nWalletUnlockTime' = IF u > now THEN u ELSE 0
    /\ fLocked' = (fLocked \/ Fires(u))
    /\ asked' = [asked EXCEPT !.crossed = @ \/ (Fires(u) /\ Unlocking)]

(* The first thread waits for the others; a later one only extends the time. *)
EnterThread(t) ==
    /\ thread[t].at = "enter"
    /\ IF nWalletUnlockTime = 0
       THEN Loop(t, thread[t].arg)
       ELSE /\ nWalletUnlockTime' = IF nWalletUnlockTime < thread[t].arg
                                    THEN thread[t].arg ELSE nWalletUnlockTime
            /\ thread' = [thread EXCEPT ![t] = Idle]
            /\ UNCHANGED <<fLocked, asked>>
    /\ UNCHANGED <<setting, now, fWalletUnlockStakingOnly, rpc, gui>>

WakeThread(t) ==
    /\ thread[t].at = "sleep" /\ thread[t].arg <= now
    /\ Loop(t, nWalletUnlockTime)
    /\ UNCHANGED <<setting, now, fWalletUnlockStakingOnly, rpc, gui>>

-----------------------------------------------------------------------------
(* The windows. *)

(* "Lock wallet" in the menu; a change of the passphrase in the windows, right
   or wrong, also leaves the wallet locked (WalletModel::changePassphrase locks it
   before ChangeWalletPassphrase looks). *)
GuiLock ==
    /\ setting.Gui /\ gui.at = "idle"
    /\ fLocked' = TRUE
    /\ UNCHANGED <<setting, now, fWalletUnlockStakingOnly, nWalletUnlockTime, thread, rpc, gui, asked>>

(* The passphrase dialog: Unlock needs cs_wallet, which a command holds; it
   fails on an unlocked wallet. *)
UnlockDialog(stakingOnly) ==
    /\ rpc.at = "idle" /\ fLocked
    /\ fLocked' = FALSE
    /\ fWalletUnlockStakingOnly' = stakingOnly
    /\ asked' = [by |-> "gui", until |-> 0, alone |-> FALSE, crossed |-> FALSE]

GuiUnlock(stakingOnly) ==
    /\ setting.Gui /\ gui.at = "idle"
    /\ UnlockDialog(stakingOnly)
    /\ UNCHANGED <<setting, now, nWalletUnlockTime, thread, rpc, gui>>

(* requestUnlock: a wallet unlocked for staking only is locked first; a locked
   one is unlocked by the dialog. *)
RequestUnlock ==
    /\ setting.Gui /\ gui.at = "idle"
    /\ fLocked' = (fLocked \/ fWalletUnlockStakingOnly)
    /\ gui' = IF fLocked' THEN [at |-> "dialog", relock |-> FALSE]
                         ELSE [at |-> "sending", relock |-> FALSE]
    /\ UNCHANGED <<setting, now, fWalletUnlockStakingOnly, nWalletUnlockTime, thread, rpc, asked>>

(* The dialog succeeds: the wallet is to be locked after the payment unless it
   was unlocked for staking. *)
UnlockToSend(stakingOnly) ==
    /\ gui.at = "dialog"
    /\ UnlockDialog(stakingOnly)
    /\ gui' = [at |-> "sending", relock |-> ~stakingOnly]
    /\ UNCHANGED <<setting, now, nWalletUnlockTime, thread, rpc>>

(* The dialog is cancelled: the payment goes on if a command has unlocked the
   wallet meanwhile. *)
CancelDialog ==
    /\ gui.at = "dialog"
    /\ gui' = IF fLocked THEN [at |-> "idle", relock |-> FALSE]
              ELSE [at |-> "sending", relock |-> ~fWalletUnlockStakingOnly]
    /\ UNCHANGED <<setting, now, fLocked, fWalletUnlockStakingOnly, nWalletUnlockTime, thread, rpc, asked>>

(* ~UnlockContext *)
EndSend ==
    /\ gui.at = "sending"
    /\ fLocked' = (fLocked \/ gui.relock)
    /\ gui' = [at |-> "idle", relock |-> FALSE]
    /\ UNCHANGED <<setting, now, fWalletUnlockStakingOnly, nWalletUnlockTime, thread, rpc, asked>>

Tick ==
    /\ now < MaxTime
    /\ rpc.at # "spawn"
    /\ \A t \in Threads : ~Runnable(t)
    /\ now' = now + 1
    /\ UNCHANGED <<setting, fLocked, fWalletUnlockStakingOnly, nWalletUnlockTime, thread, rpc, gui, asked>>

ThreadStep(t) == StartThread(t) \/ EnterThread(t) \/ WakeThread(t)

LockNext ==
    \/ \E T \in setting.Timeouts : walletpassphrase(T)
    \/ \E s \in BOOLEAN : StartTimer(s)
    \/ walletlock
    \/ ChangeWalletPassphrase
    \/ \E right \in BOOLEAN : TryOldPassphrase(right)
    \/ EndChange
    \/ \E t \in Threads : ThreadStep(t)
    \/ GuiLock
    \/ \E s \in BOOLEAN : GuiUnlock(s) \/ UnlockToSend(s)
    \/ RequestUnlock \/ CancelDialog \/ EndSend
    \/ Tick

LockSpec == LockInit /\ [][LockNext]_lockVars

-----------------------------------------------------------------------------
(* Properties *)

(* Unlocked by walletpassphrase, no change of the passphrase under way. *)
UnlockedByRpc == ~fLocked /\ asked.by = "rpc" /\ rpc.at \in {"idle", "spawn"}

(* As long as the wallet is unlocked by walletpassphrase, some thread is going
   to lock it: one that is about to start, or one that sleeps no longer than until
   nWalletUnlockTime (the branch that only extends the time relies on it).  Not so
   after a timer has fired inside walletpassphrasechange: the change unlocks the
   wallet that the timer has just locked, and no thread is left. *)
TimerRuns ==
    UnlockedByRpc /\ ~asked.crossed =>
        \/ rpc.at = "spawn"
        \/ \E t \in Threads : thread[t].at \in {"start", "enter"}
        \/ /\ nWalletUnlockTime # 0
           /\ \E t \in Threads : thread[t].at = "sleep" /\ thread[t].arg <= nWalletUnlockTime

(* A wallet unlocked by walletpassphrase is locked again, and not only for the
   time of a change of the passphrase, unless a timer fires inside a change. *)
Relocked ==
    (~fLocked /\ asked.by = "rpc")
        ~> ((fLocked /\ rpc.at = "idle") \/ asked.by # "rpc" \/ asked.crossed)

(* ... without that exception it does not hold. *)
RelockedAlways ==
    (~fLocked /\ asked.by = "rpc") ~> ((fLocked /\ rpc.at = "idle") \/ asked.by # "rpc")

(* "Stores the wallet decryption key in memory for <timeout> seconds": not
   longer, if no timer was alive when walletpassphrase was called and none has
   fired inside a change.  A window, or a change with a wrong passphrase, locks
   the wallet and leaves nWalletUnlockTime, which the next walletpassphrase then
   meets. *)
NotLonger ==
    UnlockedByRpc /\ asked.alone /\ ~asked.crossed => now <= asked.until

(* ... and not shorter: then a timer thread does not lock before that time
   either.  Else a thread that starts after walletlock sets a time for a locked
   wallet. *)
NotShorterStep ==
    \A t \in Threads :
        ThreadStep(t) /\ UnlockedByRpc /\ fLocked' /\ asked.alone => now >= asked.until
NotShorter == [][NotShorterStep]_lockVars

(* Neither longer nor shorter, and some thread is always there to lock the
   wallet. *)
UnlockedStep == (LockTypeOK /\ TimerRuns /\ NotLonger)' /\ NotShorterStep
UnlockedAsAsked == [][UnlockedStep]_lockVars
=============================================================================
