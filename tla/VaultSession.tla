--------------------------- MODULE VaultSession ---------------------------
(***************************************************************************)
(* One browser tab of SelahKeep: the session adapter                       *)
(* (lib/crypto-client/vault-session.ts) over vault-core, the unlock flows  *)
(* that go through it, the boundary that clears a prior account            *)
(* (components/app-bootstrap-boundary.tsx), and the readers that decrypt   *)
(* note bodies into the shared cache (features/notes/eager-decrypt-notes). *)
(*                                                                         *)
(* JavaScript runs one turn at a time: an action is the code between two   *)
(* awaits, and everything else may run where a function awaits.            *)
(***************************************************************************)
EXTENDS VaultCore, FiniteSets

CONSTANTS
    Handles,              \* calls of suspendVaultAutoLock (a mounted voice panel)
    Readers,              \* concurrent decryptions of note bodies
    ContinuationIsPrompt  \* nothing runs between vault-core's install and the adapter's next line

ASSUME SessionAssumption == ContinuationIsPrompt \in BOOLEAN

VARIABLES
    core,                 \* vault-core's session
    attempt,              \* unlock attempts: where each is suspended, and for whom
    currentLease,
    unlockMethod,         \* whether the adapter remembers a method of unlock
    lockedByInactivity,
    autoLockSuspendCount,
    handle,               \* each release function: unused, held or released
    preLockTimer,
    bodyCache,            \* the account whose note bodies are cached in plaintext
    reader,
    sessionOwner,         \* useSession()
    snapshotOwner,        \* initialOwnerId, the account the server tree was rendered for
    cancelled,            \* history: attempts overtaken by a lock, a clear or a newer attempt
    stray                 \* history: whose operation or key comes from a login that outlived its page

adapterVars == <<currentLease, unlockMethod, lockedByInactivity>>
timerVars   == <<autoLockSuspendCount, handle, preLockTimer>>
accountVars == <<sessionOwner, snapshotOwner>>
vars == <<core, attempt, adapterVars, timerVars, bodyCache, reader, accountVars, cancelled, stray>>

\* Where an unlock attempt and a reader may be suspended.
AttemptStates == [pc    : {"idle", "verifying", "deriving", "converting", "installed"},
                  owner : Owners \cup {NoOwner},
                  lease : Leases \cup {NoLease}]
ReaderStates  == [pc : {"idle", "settings", "decrypting"}, lease : Leases \cup {NoLease}]

Idle     == [pc |-> "idle", owner |-> NoOwner, lease |-> NoLease]
NoReader == [pc |-> "idle", lease |-> NoLease]

Init ==
    /\ core = EmptySession
    /\ attempt = [a \in Attempts |-> Idle]
    /\ currentLease = NoLease
    /\ unlockMethod = FALSE
    /\ lockedByInactivity = FALSE
    /\ autoLockSuspendCount = 0
    /\ handle = [h \in Handles |-> "unused"]
    /\ preLockTimer = FALSE
    /\ bodyCache = NoOwner
    /\ reader = [r \in Readers |-> NoReader]
    /\ sessionOwner \in Owners \cup {NoOwner}
    /\ snapshotOwner = sessionOwner
    /\ cancelled = {}
    /\ stray = NoOwner

InFlight == {a \in Attempts : attempt[a].pc \in {"deriving", "converting"}}

\* The private tree is on screen only while the snapshot matches the session.
Rendered == sessionOwner # NoOwner /\ snapshotOwner = sessionOwner

\* getCurrentVaultSessionLease(o)
GetLease(o) ==
    IF currentLease.owner = o /\ LeaseCurrent(core, currentLease)
    THEN currentLease ELSE CaptureLease(core, o)

\* handleCoreSessionChange, called by vault-core when a change c of its session was not
\* started by lockVaultSession: a key that is gone while a method is remembered is taken
\* for an automatic lock.
NotifyChange(c) ==
    lockedByInactivity' = (lockedByInactivity \/ (unlockMethod /\ ~Unlocked(c)))

\* MUTANT: the cleanup is not registered, only what handleCoreSessionChange takes for an automatic
\* lock empties the cache.
CleanupUnregistered(c) ==
    bodyCache' = IF unlockMethod /\ ~Unlocked(c) /\ ~lockedByInactivity THEN NoOwner ELSE bodyCache

\* vault-core runs the registered cleanup on every lock, which empties the body cache;
\* handleCoreSessionChange empties it too, for what it takes for an automatic lock.
CleanupOn(c) == bodyCache' = IF Unlocked(c) THEN bodyCache ELSE NoOwner

---------------------------------------------------------------------------
(* Unlock *)

\* beginVaultOwnerOperation(o): attempt a becomes the current operation.
Begin(a, o) ==
    /\ core' = CoreBegin(core, a, o)
    /\ attempt' = [attempt EXCEPT ![a] = [Idle EXCEPT !.pc = "deriving", !.owner = o]]
    /\ NotifyChange(core')
    /\ CleanupOn(core')
    /\ cancelled' = (cancelled \cup InFlight) \ {a}
    /\ UNCHANGED <<currentLease, unlockMethod, timerVars, reader, accountVars>>

\* An operation for the owner that vault-core has keeps the key, whoever installed it.
KeepsStray(o) == stray' = IF core.owner = o THEN stray ELSE NoOwner

\* An unlock form of the rendered account.
BeginUnlock(a) ==
    /\ attempt[a].pc = "idle"
    /\ Rendered
    /\ Begin(a, sessionOwner)
    /\ KeepsStray(sessionOwner)

\* The account login hook on a guest page first fetches the account's candidates ...
StartLogin(a, o) ==
    /\ attempt[a].pc = "idle"
    /\ snapshotOwner = NoOwner
    /\ attempt' = [attempt EXCEPT ![a] = [Idle EXCEPT !.pc = "verifying", !.owner = o]]
    /\ UNCHANGED <<core, adapterVars, timerVars, bodyCache, reader, accountVars, cancelled, stray>>

\* The guest page of the login has become an account's, or somebody else has signed in.
OutlivesItsPage(o) == snapshotOwner # NoOwner \/ sessionOwner \notin {NoOwner, o}

\* ... and begins the operation when they arrive, whatever the page shows by then.
LoginVerified(a) ==
    /\ attempt[a].pc = "verifying"
    /\ Begin(a, attempt[a].owner)
    /\ IF OutlivesItsPage(attempt[a].owner)
       THEN stray' = attempt[a].owner
       ELSE KeepsStray(attempt[a].owner)

\* The envelope is opened: setUnlockedVaultSession runs up to its first await, and takes the
\* notice away before it asks whether its operation is still current.
Derived(a) ==
    /\ attempt[a].pc = "deriving"
    /\ lockedByInactivity' = FALSE
    /\ attempt' = [attempt EXCEPT ![a].pc = "converting"]
    /\ UNCHANGED <<core, currentLease, unlockMethod, timerVars, bodyCache, reader,
                   accountVars, cancelled, stray>>

\* A wrong password, a failed request, or an operation that is no longer current.
AbandonUnlock(a) ==
    /\ attempt[a].pc \in {"verifying", "deriving", "converting"}
    /\ attempt' = [attempt EXCEPT ![a] = Idle]
    /\ UNCHANGED <<core, adapterVars, timerVars, bodyCache, reader, accountVars, cancelled, stray>>

\* assertVaultSessionOperationCurrent, then vault-core installs the key.
Install(a) ==
    /\ attempt[a].pc = "converting"
    /\ CoreMayInstall(core, a)
    /\ core' = CoreInstall(core)
    /\ attempt' = [attempt EXCEPT ![a].pc = "installed",
                                  ![a].lease = [owner |-> core'.owner, epoch |-> core'.epoch]]
    /\ UNCHANGED <<adapterVars, timerVars, bodyCache, reader, accountVars, cancelled, stray>>

\* scheduleVaultAutoLock with `count` suspensions; schedulePreLockHandlers is its last call.
Schedule(count) ==
    IF Unlocked(core) /\ count = 0
    THEN core' = [core EXCEPT !.armed = TRUE] /\ preLockTimer' = TRUE
    ELSE UNCHANGED <<core, preLockTimer>>

\* The continuation after `await coreUnlockVaultSession`: no assertion follows the await.
Finish(a) ==
    /\ attempt[a].pc = "installed"
    /\ currentLease' = attempt[a].lease
    /\ unlockMethod' = TRUE
    /\ Schedule(autoLockSuspendCount)
    /\ attempt' = [attempt EXCEPT ![a] = Idle]
    /\ UNCHANGED <<lockedByInactivity, autoLockSuspendCount, handle, bodyCache, reader,
                   accountVars, cancelled, stray>>

---------------------------------------------------------------------------
(* Lock *)

\* What lockVaultSession and clearVaultSessionOwnerState share.
DropSession(c) ==
    /\ core' = c
    /\ currentLease' = NoLease
    /\ unlockMethod' = FALSE
    /\ lockedByInactivity' = FALSE
    /\ preLockTimer' = FALSE
    /\ bodyCache' = NoOwner
    /\ cancelled' = cancelled \cup InFlight
    /\ stray' = NoOwner
    /\ UNCHANGED <<attempt, autoLockSuspendCount, handle, reader>>

\* lockVaultSession("manual"), also the first half of a sign-out.
LockManually == DropSession(CoreLock(core)) /\ UNCHANGED accountVars

\* clearVaultClientState: lockVaultSession("logout"), the second half of a sign-out.
LockForLogout == DropSession(CoreClearOwner(core)) /\ UNCHANGED accountVars

\* vault-core's inactivity timer.  The adapter learns of the lock by notification only:
\* its lease, its method and its suspend count stay.
AutoLockFires ==
    /\ core.armed
    /\ ~preLockTimer
    /\ core' = CoreLock(core)
    /\ NotifyChange(core')
    /\ CleanupOn(core')
    /\ cancelled' = cancelled \cup InFlight
    /\ stray' = NoOwner
    /\ UNCHANGED <<attempt, currentLease, unlockMethod, timerVars, reader, accountVars>>

\* The pre-lock timer is due 50 ms before the lock; its handlers are not awaited.
PreLockFires ==
    /\ preLockTimer
    /\ preLockTimer' = FALSE
    /\ UNCHANGED <<core, attempt, adapterVars, autoLockSuspendCount, handle, bodyCache,
                   reader, accountVars, cancelled, stray>>

\* touchVaultSession: renews both timers of an unlocked, unsuspended session.
Touch ==
    /\ Unlocked(core)
    /\ autoLockSuspendCount = 0
    /\ core' = [core EXCEPT !.armed = TRUE]
    /\ preLockTimer' = TRUE
    /\ UNCHANGED <<attempt, adapterVars, autoLockSuspendCount, handle, bodyCache, reader,
                   accountVars, cancelled, stray>>

\* suspendVaultAutoLock()
Suspend(h) ==
    /\ handle[h] = "unused"
    /\ handle' = [handle EXCEPT ![h] = "held"]
    /\ autoLockSuspendCount' = autoLockSuspendCount + 1
    /\ core' = [core EXCEPT !.armed = FALSE]
    /\ preLockTimer' = FALSE
    /\ UNCHANGED <<attempt, adapterVars, bodyCache, reader, accountVars, cancelled, stray>>

\* MUTANT: the last release does not schedule the timers again.
ReleaseUnarmed(h) ==
    /\ handle[h] = "held"
    /\ handle' = [handle EXCEPT ![h] = "released"]
    /\ autoLockSuspendCount' = autoLockSuspendCount - 1
    /\ UNCHANGED <<core, attempt, adapterVars, preLockTimer, bodyCache, reader, accountVars,
                   cancelled, stray>>

\* The first call of the returned release function; the last holder's schedules the timers.
Release(h) ==
    /\ handle[h] = "held"
    /\ handle' = [handle EXCEPT ![h] = "released"]
    /\ autoLockSuspendCount' = IF autoLockSuspendCount = 0 THEN 0 ELSE autoLockSuspendCount - 1
    /\ Schedule(autoLockSuspendCount')
    /\ UNCHANGED <<attempt, adapterVars, bodyCache, reader, accountVars, cancelled, stray>>

\* MUTANT: the second call counts as well.
ReleaseTwice(h) ==
    /\ handle[h] = "released"
    /\ handle' = [handle EXCEPT ![h] = "unused"]
    /\ autoLockSuspendCount' = autoLockSuspendCount - 1
    /\ UNCHANGED <<core, attempt, adapterVars, preLockTimer, bodyCache, reader, accountVars,
                   cancelled, stray>>

\* A second call of the same release function (an effect cleaned up twice) returns early;
\* the handle is then forgotten, so that the panel may be mounted again.
ReleaseAgain(h) ==
    /\ handle[h] = "released"
    /\ handle' = [handle EXCEPT ![h] = "unused"]
    /\ UNCHANGED <<core, attempt, adapterVars, autoLockSuspendCount, preLockTimer, bodyCache,
                   reader, accountVars, cancelled, stray>>

---------------------------------------------------------------------------
(* Readers of note bodies *)

\* applyUnlockBehavior(ownerId) of the rendered tree, up to its first await.
StartRead(r) ==
    /\ reader[r].pc = "idle"
    /\ Rendered
    /\ Unlocked(core)
    /\ LET l == GetLease(sessionOwner) IN
         /\ currentLease' = l
         /\ IF l = NoLease
            THEN bodyCache' = NoOwner /\ UNCHANGED reader
            ELSE /\ reader' = [reader EXCEPT ![r] = [pc |-> "settings", lease |-> l]]
                 /\ UNCHANGED bodyCache
    /\ UNCHANGED <<core, attempt, unlockMethod, lockedByInactivity, timerVars, accountVars,
                   cancelled, stray>>

\* The settings arrived and ask for every body: go on to fetch and decrypt the notes.
ReadSettings(r) ==
    /\ reader[r].pc = "settings"
    /\ LeaseCurrent(core, reader[r].lease)
    /\ reader' = [reader EXCEPT ![r].pc = "decrypting"]
    /\ UNCHANGED <<core, attempt, adapterVars, timerVars, bodyCache, accountVars, cancelled, stray>>

\* The settings ask for metadata only.
ReadNothing(r) ==
    /\ reader[r].pc = "settings"
    /\ LeaseCurrent(core, reader[r].lease)
    /\ bodyCache' = NoOwner
    /\ reader' = [reader EXCEPT ![r] = NoReader]
    /\ UNCHANGED <<core, attempt, adapterVars, timerVars, accountVars, cancelled, stray>>

\* Every body is decrypted: assert the lease, clear the cache and fill it.
CommitRead(r) ==
    /\ reader[r].pc = "decrypting"
    /\ LeaseCurrent(core, reader[r].lease)
    /\ bodyCache' = reader[r].lease.owner
    /\ reader' = [reader EXCEPT ![r] = NoReader]
    /\ UNCHANGED <<core, attempt, adapterVars, timerVars, accountVars, cancelled, stray>>

\* A request fails, or an assertion of the lease throws.
AbandonRead(r) ==
    /\ reader[r].pc # "idle"
    /\ reader' = [reader EXCEPT ![r] = NoReader]
    /\ UNCHANGED <<core, attempt, adapterVars, timerVars, bodyCache, accountVars, cancelled, stray>>

---------------------------------------------------------------------------
(* Accounts *)

\* MUTANT: any sign-in on a page of another account counts as entering.
EntersUnlockedVault(o) == o # NoOwner /\ Unlocked(core)

\* A guest page enters the account whose vault the login has just unlocked.
EntersMatchingOwner(o) ==
    /\ snapshotOwner = NoOwner
    /\ o # NoOwner
    /\ Unlocked(core)
    /\ currentLease.owner = o

\* NextAuth resolves another account (sign-in, sign-out, another tab) and the boundary's
\* layout effect runs before paint: everything private is cleared unless the account is the
\* snapshot's own or a login enters it.
SessionChange(o) ==
    /\ o # sessionOwner
    /\ sessionOwner' = o
    /\ IF snapshotOwner = o \/ EntersMatchingOwner(o)
       THEN UNCHANGED <<core, attempt, adapterVars, timerVars, bodyCache, reader, cancelled, stray>>
       ELSE DropSession(CoreClearOwner(core))
    /\ UNCHANGED snapshotOwner

\* router.refresh() completes: the server tree belongs to the current account.
ServerRefresh ==
    /\ snapshotOwner # sessionOwner
    /\ snapshotOwner' = sessionOwner
    /\ UNCHANGED <<core, attempt, adapterVars, timerVars, bodyCache, reader, sessionOwner,
                   cancelled, stray>>

\* The tab is reloaded: module state is gone, the login cookie is not.
Reload ==
    /\ core' = [EmptySession EXCEPT !.epoch = core.epoch]
    /\ attempt' = [a \in Attempts |-> Idle]
    /\ currentLease' = NoLease
    /\ unlockMethod' = FALSE
    /\ lockedByInactivity' = FALSE
    /\ autoLockSuspendCount' = 0
    /\ handle' = [h \in Handles |-> "unused"]
    /\ preLockTimer' = FALSE
    /\ bodyCache' = NoOwner
    /\ reader' = [r \in Readers |-> NoReader]
    /\ snapshotOwner' = sessionOwner
    /\ cancelled' = {}
    /\ stray' = NoOwner
    /\ UNCHANGED sessionOwner

---------------------------------------------------------------------------
Environment ==
    \/ \E a \in Attempts :
         \/ BeginUnlock(a) \/ LoginVerified(a) \/ Derived(a) \/ AbandonUnlock(a) \/ Install(a)
         \/ \E o \in Owners : StartLogin(a, o)
    \/ LockManually \/ LockForLogout \/ AutoLockFires \/ PreLockFires \/ Touch
    \/ \E h \in Handles : Suspend(h) \/ Release(h) \/ ReleaseAgain(h)
    \/ \E r \in Readers :
         StartRead(r) \/ ReadSettings(r) \/ ReadNothing(r) \/ CommitRead(r) \/ AbandonRead(r)
    \/ \E o \in Owners \cup {NoOwner} : SessionChange(o)
    \/ ServerRefresh \/ Reload

\* With ContinuationIsPrompt an installed attempt finishes before anything else runs.
Next ==
    \/ \E a \in Attempts : Finish(a)
    \/ /\ ContinuationIsPrompt => \A a \in Attempts : attempt[a].pc # "installed"
       /\ Environment

\* Timers fire and promises resume; users and the network owe nothing.
Fairness ==
    /\ WF_vars(PreLockFires)
    /\ WF_vars(AutoLockFires)
    /\ \A a \in Attempts : WF_vars(Finish(a))

Spec == Init /\ [][Next]_vars /\ Fairness
---------------------------------------------------------------------------
TypeOK ==
    /\ core \in Sessions
    /\ attempt \in [Attempts -> AttemptStates]
    /\ currentLease \in Leases \cup {NoLease}
    /\ unlockMethod \in BOOLEAN
    /\ lockedByInactivity \in BOOLEAN
    /\ autoLockSuspendCount \in Nat
    /\ handle \in [Handles -> {"unused", "held", "released"}]
    /\ preLockTimer \in BOOLEAN
    /\ bodyCache \in Owners \cup {NoOwner}
    /\ reader \in [Readers -> ReaderStates]
    /\ sessionOwner \in Owners \cup {NoOwner}
    /\ snapshotOwner \in Owners \cup {NoOwner}
    /\ cancelled \subseteq Attempts
    /\ stray \in Owners \cup {NoOwner}

\* Decrypted note bodies are in memory only while the vault is unlocked for the same
\* account, whatever reader was suspended when the lock or the account change came
\* (vault-session.ts lockVaultSession and handleCoreSessionChange, applyUnlockBehavior).
NoPlaintextWithoutKey ==
    bodyCache # NoOwner => core.key = bodyCache

\* The account on screen never sees another account's note bodies
\* (app-bootstrap-boundary.tsx: "never keep rendering owner A after NextAuth resolves owner B").
NoForeignPlaintext ==
    Rendered /\ bodyCache # NoOwner => bodyCache = sessionOwner

\* However suspensions, locks and unlocks interleave: while any panel holds the session open
\* neither timer is armed; an open vault that nobody holds open has its inactivity timer armed,
\* so no order of unlock, suspend, release and lock leaves a vault open for ever; and the
\* "locked due to inactivity" notice is never shown over an open vault (suspendVaultAutoLock,
\* scheduleVaultAutoLock, setUnlockedVaultSession).
TimersGuardTheVault ==
    /\ (\E h \in Handles : handle[h] = "held") => ~core.armed /\ ~preLockTimer
    /\ /\ Unlocked(core)
       /\ \A h \in Handles : handle[h] # "held"
       /\ \A a \in Attempts : attempt[a].pc # "installed"
       => core.armed
    /\ lockedByInactivity => ~Unlocked(core)

\* An unlock attempt overtaken by a lock, a clear of the account or a newer attempt never
\* installs its key, however late its derivation ends ("only the current owner operation may
\* install a key").
CancelledNeverInstalls ==
    [][\A a \in Attempts :
         attempt[a].pc = "converting" /\ attempt'[a].pc = "installed" => a \notin cancelled]_vars

\* The vault that is open in a private tree is the vault of the account it shows, through any
\* sign-in, unlock, lock and reload.  The exception is a passkey login whose guest page has become
\* another account's by the time its candidates arrive: it begins an operation for its own account
\* all the same (account-passkey-login-vault-hooks.ts:63), and no boundary is crossed after that.
OpenVaultIsOwn ==
    Rendered /\ Unlocked(core) => core.key \in {sessionOwner, stray}

\* A vault does not stay open unattended: unless it is touched or held open again and again,
\* it is locked again and again.
AutoLocks ==
    \/ []<>(~Unlocked(core))
    \/ []<>(\E h \in Handles : handle[h] = "held")
    \/ []<><<Touch>>_vars
==========================================================================
