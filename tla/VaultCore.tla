---------------------------- MODULE VaultCore ----------------------------
(***************************************************************************)
(* The browser session of the package @tgoliveira/vault-core, as src/ uses *)
(* it: an owner, the key installed for it, the epoch of that key, the one  *)
(* current operation, and the inactivity timer.  The package is not part   *)
(* of the repository; everything here is what the calls in                 *)
(* src/src/lib/crypto-client and its tests rely on.                        *)
(*                                                                         *)
(* The session is one record, and each call of the package is an operator  *)
(* from the record before the call to the record after it.                 *)
(***************************************************************************)
EXTENDS Naturals

CONSTANTS
    Owners,      \* accounts
    Attempts,    \* operation objects handed out by the package
    NoOwner,
    NoAttempt,
    MaxEpoch     \* bound on the number of key installations

ASSUME CoreAssumption ==
    /\ NoOwner \notin Owners
    /\ NoAttempt \notin Attempts
    /\ MaxEpoch \in Nat

Sessions == [owner : Owners \cup {NoOwner},
             key   : Owners \cup {NoOwner},   \* whose vault key is installed
             epoch : 0..MaxEpoch,
             op    : Attempts \cup {NoAttempt},
             armed : BOOLEAN]                 \* the inactivity timer

Leases == [owner : Owners, epoch : 0..MaxEpoch]

\* A lease that is never current.
NoLease == [owner |-> NoOwner, epoch |-> 0]

EmptySession == [owner |-> NoOwner, key |-> NoOwner, epoch |-> 0,
                 op |-> NoAttempt, armed |-> FALSE]

\* getSessionVaultKey() # null and not isVaultManuallyLocked(): a lock drops the key.
Unlocked(c) == c.key # NoOwner

\* beginVaultSessionOperation: the newest operation wins, a new owner replaces the old key.
CoreBegin(c, a, o) ==
    IF c.owner = o THEN [c EXCEPT !.op = a]
                   ELSE [c EXCEPT !.owner = o, !.op = a, !.key = NoOwner, !.armed = FALSE]

\* unlockVaultSession, allowed to the current operation only.
CoreMayInstall(c, a) == c.op = a /\ c.epoch < MaxEpoch

CoreInstall(c) == [c EXCEPT !.key = c.owner, !.epoch = c.epoch + 1]

\* MUTANT: a lock leaves the operation in progress current.
CoreLockKeepsOperation(c) == [c EXCEPT !.key = NoOwner, !.armed = FALSE]

\* lockVaultSession: drops the key and cancels the operation in progress.
CoreLock(c) == [c EXCEPT !.key = NoOwner, !.op = NoAttempt, !.armed = FALSE]

\* clearVaultSessionOwner: as a lock, and the owner is forgotten.
CoreClearOwner(c) == [CoreLock(c) EXCEPT !.owner = NoOwner]

\* isVaultSessionLeaseCurrent and assertVaultSessionLeaseCurrent.
LeaseCurrent(c, l) ==
    /\ Unlocked(c)
    /\ l.owner = c.owner
    /\ l.epoch = c.epoch

\* captureVaultSessionLease(o), NoLease where the package throws.
CaptureLease(c, o) ==
    IF Unlocked(c) /\ c.owner = o THEN [owner |-> o, epoch |-> c.epoch] ELSE NoLease
==========================================================================
