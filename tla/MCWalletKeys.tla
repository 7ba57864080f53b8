---------------------------- MODULE MCWalletKeys ----------------------------
(***************************************************************************)
(* The key pool (KeyPool) and the time a wallet stays unlocked             *)
(* (WalletLock).  KeyPool lets the wallet be locked at any moment, so the  *)
(* timers need not move with it: a behaviour is one of either component.   *)
(***************************************************************************)
EXTENDS KeyPool, WalletLock

VARIABLE part                                   \* the component that moves

(* Two timers and the windows; or three timers and the commands only.      *)
MCSettings ==
  {[Threads |-> {"t1", "t2"}, Timeouts |-> {1, 3}, Gui |-> TRUE],
   [Threads |-> {"t1", "t2", "t3"}, Timeouts |-> {0, 2}, Gui |-> FALSE]}

mcVars == <<part, vars, lockVars>>

MCInit ==
  /\ part \in {"pool", "lock"}
  /\ Init /\ LockInit
  /\ part = "pool" => setting = CHOOSE s \in Settings : TRUE

Timed(A) == part = "lock" /\ A /\ UNCHANGED <<part, vars>>

MCNext ==
  \/ part = "pool" /\ Next /\ UNCHANGED <<part, lockVars>>
  \/ Timed(LockNext)

(* The scheduler runs a thread that can run, a command that has begun      *)
(* ends, and time passes.                                                  *)
MCSpec ==
  /\ MCInit /\ [][MCNext]_mcVars
  /\ \A t \in {"t1", "t2", "t3"} :
       WF_mcVars(Timed(t \in setting.Threads /\ ThreadStep(t)))
  /\ WF_mcVars(Timed(\E s \in BOOLEAN : StartTimer(s) \/ TryOldPassphrase(s)))
  /\ WF_mcVars(Timed(EndChange))
  /\ WF_mcVars(Timed(Tick))
=============================================================================
