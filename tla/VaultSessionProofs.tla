------------------------ MODULE VaultSessionProofs ------------------------
(***************************************************************************)
(* Proofs about the vault session of a browser tab and about the           *)
(* controllers that own its asynchronous requests.                         *)
(*                                                                         *)
(* VaultSession: for any sets of accounts, attempts, handles and readers   *)
(* and, but for OpenIsOwn, whether or not anything can run between         *)
(* vault-core's installation of a key and the adapter's next line.         *)
(*                                                                         *)
(* AsyncOwnership: the ownership controller with the vault leases is the   *)
(* last-request-wins register of LatestRequest, for any accounts, requests *)
(* and resources.  The induction needs three facts about what waits: a     *)
(* token and its lease speak of the same owner and epoch, tokens have      *)
(* distinct generations no greater than the controller's, and no lease is  *)
(* from a later epoch than the vault's.                                    *)
(***************************************************************************)
EXTENDS VaultSession, AsyncOwnership, FiniteSetTheorems, TLAPS

---------------------------------------------------------------------------
(* VaultSession *)

\* An installed key is the key of vault-core's owner.
KeyIsOwners == core.key # NoOwner => core.key = core.owner

\* An attempt under way, and the owner of an operation, are real accounts.
OwnersAreNamed ==
    /\ \A a \in Attempts : attempt[a].pc # "idle" => attempt[a].owner \in Owners
    /\ core.op \in Attempts => core.owner \in Owners

\* No lease is of an epoch still to come, so that a new installation revives none.
LeasesArePast ==
    /\ currentLease.epoch <= core.epoch
    /\ \A a \in Attempts : attempt[a].lease.epoch <= core.epoch
    /\ \A r \in Readers : reader[r].lease.epoch <= core.epoch

\* A reader whose lease is still current reads for the account on screen.
ReadersAreOwn ==
    \A r \in Readers :
        LeaseCurrent(core, reader[r].lease) => Rendered /\ reader[r].lease.owner = sessionOwner

\* What is cached is the open vault's, and belongs to the account on screen.
CacheIsOwn == bodyCache # NoOwner => Rendered /\ core.key = bodyCache /\ bodyCache = sessionOwner

\* What types and owners alone preserve; the rest is about plaintext.
BaseInv == TypeOK /\ OwnersAreNamed /\ LeasesArePast /\ KeyIsOwners

PlaintextInv == BaseInv /\ ReadersAreOwn /\ CacheIsOwn

---------------------------------------------------------------------------
(* The operators of vault-core, field by field. *)

LEMMA CoreLockFacts ==
    ASSUME NEW c \in Sessions
    PROVE  /\ CoreLock(c) \in Sessions
           /\ CoreLock(c).key = NoOwner
           /\ CoreLock(c).owner = c.owner
           /\ CoreLock(c).epoch = c.epoch
BY DEF CoreLock, Sessions

LEMMA CoreClearOwnerFacts ==
    ASSUME NEW c \in Sessions
    PROVE  /\ CoreClearOwner(c) \in Sessions
           /\ CoreClearOwner(c).key = NoOwner
           /\ CoreClearOwner(c).epoch = c.epoch
BY DEF CoreClearOwner, CoreLock, Sessions

LEMMA CoreBeginFacts ==
    ASSUME NEW c \in Sessions, NEW a \in Attempts, NEW o \in Owners
    PROVE  /\ CoreBegin(c, a, o) \in Sessions
           /\ CoreBegin(c, a, o).owner = o
           /\ CoreBegin(c, a, o).epoch = c.epoch
           /\ CoreBegin(c, a, o).key \in {c.key, NoOwner}
           /\ CoreBegin(c, a, o).key # NoOwner => c.owner = o
BY DEF CoreBegin, Sessions

LEMMA CoreInstallFacts ==
    ASSUME NEW c \in Sessions, c.epoch < MaxEpoch
    PROVE  /\ CoreInstall(c) \in Sessions
           /\ CoreInstall(c).key = c.owner
           /\ CoreInstall(c).owner = c.owner
           /\ CoreInstall(c).epoch = c.epoch + 1
<1>1. c.epoch \in 0..MaxEpoch /\ c.owner \in Owners \cup {NoOwner}
  BY DEF Sessions
<1>2. c.epoch + 1 \in 0..MaxEpoch
  BY <1>1, CoreAssumption
<1> QED BY <1>1, <1>2 DEF CoreInstall, Sessions

\* Arming or disarming the timer changes no other field.
LEMMA TimerFacts ==
    ASSUME NEW c \in Sessions, NEW b \in BOOLEAN
    PROVE  /\ [c EXCEPT !.armed = b] \in Sessions
           /\ [c EXCEPT !.armed = b].key = c.key
           /\ [c EXCEPT !.armed = b].owner = c.owner
           /\ [c EXCEPT !.armed = b].epoch = c.epoch
BY DEF Sessions

\* A lease that capture or recall hands out is current, unless it is NoLease.
LEMMA GetLeaseFacts ==
    ASSUME TypeOK, LeasesArePast, NEW o \in Owners
    PROVE  /\ GetLease(o) \in Leases \cup {NoLease}
           /\ GetLease(o).epoch <= core.epoch
           /\ GetLease(o) # NoLease => GetLease(o).owner = o /\ LeaseCurrent(core, GetLease(o))
BY CoreAssumption DEF GetLease, CaptureLease, LeaseCurrent, Unlocked, TypeOK, Leases, NoLease,
                      Sessions, LeasesArePast

\* Without a key no lease is current, and NoLease never is.
LEMMA LockedHasNoLease ==
    ASSUME NEW c, NEW l, c.key = NoOwner
    PROVE  ~LeaseCurrent(c, l)
BY DEF LeaseCurrent, Unlocked

---------------------------------------------------------------------------
(* Type correctness *)

LEMMA TypeInit == Init => TypeOK
<1> SUFFICES ASSUME Init PROVE TypeOK
  OBVIOUS
<1>1. core \in Sessions /\ currentLease \in Leases \cup {NoLease}
  BY CoreAssumption DEF Init, EmptySession, Sessions
<1>2. attempt \in [Attempts -> AttemptStates] /\ reader \in [Readers -> ReaderStates]
  BY DEF Init, AttemptStates, ReaderStates, Idle, NoReader
<1> QED BY <1>1, <1>2 DEF Init, TypeOK

\* What lockVaultSession and clearVaultSessionOwnerState leave behind is well typed.
LEMMA DropSessionType ==
    ASSUME TypeOK, NEW c \in Sessions, DropSession(c), UNCHANGED snapshotOwner,
           sessionOwner' \in Owners \cup {NoOwner}
    PROVE  TypeOK'
BY DEF TypeOK, DropSession, InFlight

\* Moving one attempt, or one reader, to a legal state keeps them all legal.
LEMMA AttemptType ==
    ASSUME TypeOK, NEW a \in Attempts, NEW s \in AttemptStates,
           attempt' = [attempt EXCEPT ![a] = s]
    PROVE  attempt' \in [Attempts -> AttemptStates]
BY DEF TypeOK

LEMMA ReaderType ==
    ASSUME TypeOK, NEW r \in Readers, NEW s \in ReaderStates,
           reader' = [reader EXCEPT ![r] = s]
    PROVE  reader' \in [Readers -> ReaderStates]
BY DEF TypeOK

LEMMA BeginType ==
    ASSUME TypeOK, NEW a \in Attempts, NEW o \in Owners, Begin(a, o), stray' \in {stray, o, NoOwner}
    PROVE  TypeOK'
<1>1. core' \in Sessions
  BY CoreBeginFacts DEF Begin, TypeOK
<1>2. attempt' \in [Attempts -> AttemptStates]
  BY AttemptType DEF Begin, AttemptStates, Idle
<1>3. bodyCache' \in Owners \cup {NoOwner} /\ lockedByInactivity' \in BOOLEAN
  BY DEF Begin, TypeOK, CleanupOn, NotifyChange, Unlocked
<1>4. cancelled' \subseteq Attempts
  BY DEF Begin, TypeOK, InFlight
<1> QED BY <1>1, <1>2, <1>3, <1>4 DEF Begin, TypeOK, timerVars, accountVars

LEMMA ScheduleType ==
    ASSUME TypeOK, NEW n, Schedule(n)
    PROVE  /\ core' \in Sessions /\ preLockTimer' \in BOOLEAN
           /\ core'.key = core.key /\ core'.owner = core.owner /\ core'.epoch = core.epoch
BY TimerFacts DEF Schedule, TypeOK

\* One step of any action keeps every variable in its type.
LEMMA TypeStep == BaseInv /\ [Next]_vars => TypeOK'
<1> SUFFICES ASSUME BaseInv, [Next]_vars PROVE TypeOK'
  OBVIOUS
<1>0. TypeOK /\ OwnersAreNamed /\ LeasesArePast
  BY DEF BaseInv
<1> USE DEF adapterVars, timerVars, accountVars
<1>1. ASSUME NEW a \in Attempts, BeginUnlock(a) PROVE TypeOK'
  BY <1>0, <1>1, BeginType DEF BeginUnlock, KeepsStray, Rendered, TypeOK
<1>2. ASSUME NEW a \in Attempts, LoginVerified(a) PROVE TypeOK'
  BY <1>0, <1>2, BeginType DEF LoginVerified, KeepsStray, OwnersAreNamed
<1>3. ASSUME NEW a \in Attempts, NEW o \in Owners, StartLogin(a, o) PROVE TypeOK'
  <2>1. attempt' \in [Attempts -> AttemptStates]
    BY <1>0, <1>3, AttemptType DEF StartLogin, AttemptStates, Idle
  <2> QED BY <1>0, <1>3, <2>1 DEF StartLogin, TypeOK
<1>4. ASSUME NEW a \in Attempts, Derived(a) PROVE TypeOK'
  <2>1. attempt' \in [Attempts -> AttemptStates]
    BY <1>0, <1>4 DEF Derived, AttemptStates, TypeOK
  <2> QED BY <1>0, <1>4, <2>1 DEF Derived, TypeOK
<1>5. ASSUME NEW a \in Attempts, AbandonUnlock(a) PROVE TypeOK'
  <2>1. attempt' \in [Attempts -> AttemptStates]
    BY <1>0, <1>5, AttemptType DEF AbandonUnlock, AttemptStates, Idle
  <2> QED BY <1>0, <1>5, <2>1 DEF AbandonUnlock, TypeOK
<1>6. ASSUME NEW a \in Attempts, Install(a) PROVE TypeOK'
  <2>1. core' \in Sessions /\ core'.owner = core.owner /\ core.owner \in Owners
    BY <1>0, <1>6, CoreInstallFacts DEF Install, CoreMayInstall, TypeOK, OwnersAreNamed
  <2> DEFINE l == [owner |-> core'.owner, epoch |-> core'.epoch]
  <2>2. l \in Leases
    BY <2>1 DEF Leases, Sessions
  <2> HIDE DEF l
  <2>3. attempt' \in [Attempts -> AttemptStates]
    <3>1. attempt' = [attempt EXCEPT ![a].pc = "installed", ![a].lease = l]
      BY <1>6 DEF Install, l
    <3>2. attempt[a] \in AttemptStates
      BY <1>0 DEF TypeOK
    <3>3. [attempt[a] EXCEPT !.pc = "installed", !.lease = l] \in AttemptStates
      BY <2>2, <3>2 DEF AttemptStates
    <3> QED BY <1>0, <3>1, <3>3 DEF TypeOK
  <2> QED BY <1>0, <1>6, <2>1, <2>3 DEF Install, TypeOK
<1>7. ASSUME NEW a \in Attempts, Finish(a) PROVE TypeOK'
  <2>1. attempt' \in [Attempts -> AttemptStates]
    BY <1>0, <1>7, AttemptType DEF Finish, AttemptStates, Idle
  <2>2. currentLease' \in Leases \cup {NoLease}
    BY <1>0, <1>7 DEF Finish, TypeOK, AttemptStates
  <2> QED BY <1>0, <1>7, <2>1, <2>2, ScheduleType DEF Finish, TypeOK
<1>8. CASE LockManually \/ LockForLogout
  BY <1>0, <1>8, CoreLockFacts, CoreClearOwnerFacts, DropSessionType
     DEF LockManually, LockForLogout, TypeOK
<1>9. CASE AutoLockFires
  BY <1>0, <1>9, CoreLockFacts
     DEF AutoLockFires, TypeOK, CleanupOn, NotifyChange, Unlocked, InFlight
<1>10. CASE PreLockFires
  BY <1>0, <1>10 DEF PreLockFires, TypeOK
<1>11. CASE Touch
  BY <1>0, <1>11, TimerFacts DEF Touch, TypeOK
<1>12. ASSUME NEW h \in Handles, Suspend(h) PROVE TypeOK'
  <2>1. core' \in Sessions
    BY <1>0, <1>12, TimerFacts DEF Suspend, TypeOK
  <2>2. handle' \in [Handles -> {"unused", "held", "released"}]
    BY <1>0, <1>12 DEF Suspend, TypeOK
  <2>3. autoLockSuspendCount \in Nat /\ autoLockSuspendCount' = autoLockSuspendCount + 1
    BY <1>0, <1>12 DEF Suspend, TypeOK
  <2>4. preLockTimer' \in BOOLEAN
    BY <1>12 DEF Suspend
  <2>5. UNCHANGED <<attempt, adapterVars, bodyCache, reader, accountVars, cancelled, stray>>
    BY <1>12 DEF Suspend
  <2> QED BY <1>0, <2>1, <2>2, <2>3, <2>4, <2>5 DEF TypeOK
<1>13. ASSUME NEW h \in Handles, Release(h) PROVE TypeOK'
  <2>1. autoLockSuspendCount' \in Nat
    BY <1>0, <1>13 DEF Release, TypeOK
  <2>2. handle' \in [Handles -> {"unused", "held", "released"}]
    BY <1>0, <1>13 DEF Release, TypeOK
  <2> QED BY <1>0, <1>13, <2>1, <2>2, ScheduleType DEF Release, TypeOK
<1>14. ASSUME NEW h \in Handles, ReleaseAgain(h) PROVE TypeOK'
  BY <1>0, <1>14 DEF ReleaseAgain, TypeOK
<1>15. ASSUME NEW r \in Readers, StartRead(r) PROVE TypeOK'
  <2>1. sessionOwner \in Owners
    BY <1>0, <1>15 DEF StartRead, Rendered, TypeOK
  <2>2. GetLease(sessionOwner) \in Leases \cup {NoLease}
    BY <1>0, <2>1, GetLeaseFacts
  <2>3. reader' \in [Readers -> ReaderStates]
    BY <1>0, <1>15, <2>2, ReaderType DEF StartRead, ReaderStates, TypeOK
  <2> QED BY <1>0, <1>15, <2>2, <2>3 DEF StartRead, TypeOK
<1>16. ASSUME NEW r \in Readers, ReadSettings(r) PROVE TypeOK'
  <2>1. reader' \in [Readers -> ReaderStates]
    BY <1>0, <1>16 DEF ReadSettings, ReaderStates, TypeOK
  <2> QED BY <1>0, <1>16, <2>1 DEF ReadSettings, TypeOK
<1>17. ASSUME NEW r \in Readers, ReadNothing(r) \/ AbandonRead(r) \/ CommitRead(r) PROVE TypeOK'
  <2>1. reader' \in [Readers -> ReaderStates]
    BY <1>0, <1>17, ReaderType DEF ReadNothing, AbandonRead, CommitRead, ReaderStates, NoReader
  <2>2. bodyCache' \in Owners \cup {NoOwner}
    BY <1>0, <1>17 DEF ReadNothing, AbandonRead, CommitRead, TypeOK, ReaderStates, Leases, NoLease
  <2> QED BY <1>0, <1>17, <2>1, <2>2 DEF ReadNothing, AbandonRead, CommitRead, TypeOK
<1>18. ASSUME NEW o \in Owners \cup {NoOwner}, SessionChange(o) PROVE TypeOK'
  BY <1>0, <1>18, CoreClearOwnerFacts, DropSessionType DEF SessionChange, TypeOK
<1>19. CASE ServerRefresh
  BY <1>0, <1>19 DEF ServerRefresh, TypeOK
<1>20. CASE Reload
  <2>1. core' \in Sessions
    BY <1>0, <1>20 DEF Reload, TypeOK, EmptySession, Sessions
  <2>2. attempt' \in [Attempts -> AttemptStates] /\ reader' \in [Readers -> ReaderStates]
    BY <1>20 DEF Reload, AttemptStates, ReaderStates, Idle, NoReader
  <2> QED BY <1>0, <1>20, <2>1, <2>2 DEF Reload, TypeOK
<1>21. CASE UNCHANGED vars
  BY <1>0, <1>21 DEF vars, TypeOK
<1> QED
  BY <1>1, <1>2, <1>3, <1>4, <1>5, <1>6, <1>7, <1>8, <1>9, <1>10, <1>11, <1>12, <1>13, <1>14,
     <1>15, <1>16, <1>17, <1>18, <1>19, <1>20, <1>21 DEF Next, Environment
---------------------------------------------------------------------------
(* The rest of the invariant *)

\* A step that keeps the key, its owner and its epoch, the accounts and the cache, and hands
\* out no lease that was not there, preserves what the invariant says of leases and plaintext.
LEMMA QuietStep ==
    ASSUME PlaintextInv,
           core'.key = core.key, core'.owner = core.owner, core'.epoch = core.epoch,
           UNCHANGED <<bodyCache, accountVars>>,
           currentLease'.epoch <= core.epoch,
           \A a \in Attempts : attempt'[a].lease.epoch <= core.epoch,
           \A r \in Readers : reader'[r].lease \in {reader[r].lease, NoLease}
    PROVE  KeyIsOwners' /\ LeasesArePast' /\ ReadersAreOwn' /\ CacheIsOwn'
<1>1. KeyIsOwners' /\ CacheIsOwn'
  BY DEF PlaintextInv, BaseInv, KeyIsOwners, CacheIsOwn, Rendered, accountVars
<1>2. LeasesArePast'
  BY CoreAssumption DEF PlaintextInv, BaseInv, LeasesArePast, NoLease, TypeOK, Sessions
<1>3. ASSUME NEW r \in Readers, LeaseCurrent(core, reader'[r].lease)
      PROVE  Rendered /\ reader'[r].lease.owner = sessionOwner
  <2>1. ~LeaseCurrent(core, NoLease)
    BY DEF PlaintextInv, BaseInv, KeyIsOwners, LeaseCurrent, Unlocked, NoLease
  <2> QED BY <1>3, <2>1 DEF PlaintextInv, ReadersAreOwn
<1>4. ReadersAreOwn'
  BY <1>3 DEF ReadersAreOwn, LeaseCurrent, Unlocked, Rendered, accountVars
<1> QED BY <1>1, <1>2, <1>4

\* A step that leaves no key and no plaintext behind preserves it as well.
LEMMA LockingStep ==
    ASSUME PlaintextInv,
           core'.key = NoOwner, core.epoch <= core'.epoch, core'.epoch \in Nat,
           bodyCache' = NoOwner,
           currentLease' \in {currentLease, NoLease},
           \A a \in Attempts : attempt'[a].lease \in {attempt[a].lease, NoLease},
           \A r \in Readers : reader'[r].lease \in {reader[r].lease, NoLease}
    PROVE  KeyIsOwners' /\ LeasesArePast' /\ ReadersAreOwn' /\ CacheIsOwn'
<1>1. KeyIsOwners' /\ CacheIsOwn' /\ ReadersAreOwn'
  BY DEF KeyIsOwners, CacheIsOwn, ReadersAreOwn, LeaseCurrent, Unlocked
<1>2. LeasesArePast'
  <2>1. core.epoch \in Nat
    BY CoreAssumption DEF PlaintextInv, BaseInv, TypeOK, Sessions
  <2>2. NoLease.epoch = 0
    BY DEF NoLease
  <2>3. /\ currentLease.epoch \in Nat
        /\ \A a \in Attempts : attempt[a].lease.epoch \in Nat
        /\ \A r \in Readers : reader[r].lease.epoch \in Nat
    BY <2>2, CoreAssumption DEF PlaintextInv, BaseInv, TypeOK, AttemptStates, ReaderStates, Leases
  <2> QED BY <2>1, <2>2, <2>3 DEF PlaintextInv, BaseInv, LeasesArePast
<1> QED BY <1>1, <1>2

LEMMA OwnersStep == BaseInv /\ [Next]_vars => OwnersAreNamed'
<1> SUFFICES ASSUME BaseInv, [Next]_vars PROVE OwnersAreNamed'
  OBVIOUS
<1>0. TypeOK /\ OwnersAreNamed
  BY DEF BaseInv
<1> USE DEF adapterVars, timerVars, accountVars
<1>1. ASSUME NEW a \in Attempts, NEW o \in Owners, Begin(a, o) PROVE OwnersAreNamed'
  BY <1>0, <1>1, CoreBeginFacts DEF Begin, OwnersAreNamed, TypeOK, Idle
<1>2. ASSUME NEW a \in Attempts, BeginUnlock(a) \/ LoginVerified(a) PROVE OwnersAreNamed'
  BY <1>0, <1>1, <1>2 DEF BeginUnlock, LoginVerified, Rendered, TypeOK, OwnersAreNamed
\* An attempt that moves keeps its owner, and vault-core's owner and operation stay.
<1>3. ASSUME \A a \in Attempts : \/ attempt'[a].pc = "idle"
                                 \/ attempt'[a].owner \in Owners
                                 \/ /\ attempt[a].pc # "idle"
                                    /\ attempt'[a].owner = attempt[a].owner
                                 \/ attempt'[a] = attempt[a],
             \/ core'.op = core.op /\ core'.owner = core.owner
             \/ core'.op = NoAttempt
      PROVE  OwnersAreNamed'
  BY <1>0, <1>3, CoreAssumption DEF OwnersAreNamed
<1>4. ASSUME NEW a \in Attempts, Install(a) PROVE OwnersAreNamed'
  BY <1>0, <1>3, <1>4 DEF Install, CoreInstall, TypeOK, Sessions, AttemptStates
<1>5. ASSUME NEW a \in Attempts, NEW o \in Owners, StartLogin(a, o) PROVE OwnersAreNamed'
  BY <1>0, <1>3, <1>5 DEF StartLogin, TypeOK, Idle
<1>6. ASSUME NEW a \in Attempts, Derived(a) \/ AbandonUnlock(a) PROVE OwnersAreNamed'
  BY <1>0, <1>3, <1>6 DEF Derived, AbandonUnlock, TypeOK, AttemptStates, Idle
<1>7. ASSUME NEW n, Schedule(n) PROVE core'.op = core.op /\ core'.owner = core.owner
  BY <1>0, <1>7 DEF Schedule, TypeOK, Sessions
<1>8. ASSUME NEW a \in Attempts, Finish(a) PROVE OwnersAreNamed'
  <2>1. core'.op = core.op /\ core'.owner = core.owner
    BY <1>7, <1>8 DEF Finish
  <2>2. \A b \in Attempts : attempt'[b].pc = "idle" \/ attempt'[b] = attempt[b]
    BY <1>0, <1>8 DEF Finish, TypeOK, Idle
  <2> QED BY <1>3, <2>1, <2>2
<1>9. ASSUME DropSession(CoreLock(core)) \/ DropSession(CoreClearOwner(core)) \/ AutoLockFires
      PROVE  OwnersAreNamed'
  <2>1. core'.op = NoAttempt
    BY <1>0, <1>9 DEF DropSession, AutoLockFires, CoreLock, CoreClearOwner, TypeOK, Sessions
  <2>2. attempt' = attempt
    BY <1>9 DEF DropSession, AutoLockFires
  <2> QED BY <1>3, <2>1, <2>2
<1>10. CASE LockManually \/ LockForLogout \/ AutoLockFires
  BY <1>9, <1>10 DEF LockManually, LockForLogout
<1>11. CASE Touch \/ (\E h \in Handles : Suspend(h))
  <2>1. core'.op = core.op /\ core'.owner = core.owner /\ attempt' = attempt
    BY <1>0, <1>11 DEF Touch, Suspend, TypeOK, Sessions
  <2> QED BY <1>3, <2>1
<1>12. ASSUME NEW h \in Handles, Release(h) PROVE OwnersAreNamed'
  <2>1. core'.op = core.op /\ core'.owner = core.owner /\ attempt' = attempt
    BY <1>7, <1>12 DEF Release
  <2> QED BY <1>3, <2>1
<1>13. ASSUME UNCHANGED <<core, attempt>> PROVE OwnersAreNamed'
  BY <1>0, <1>13 DEF OwnersAreNamed
<1>14. ASSUME NEW o \in Owners \cup {NoOwner}, SessionChange(o) PROVE OwnersAreNamed'
  BY <1>9, <1>13, <1>14 DEF SessionChange
<1>15. CASE Reload
  <2>1. core'.op = NoAttempt
    BY <1>15 DEF Reload, EmptySession
  <2>2. \A b \in Attempts : attempt'[b].pc = "idle"
    BY <1>15 DEF Reload, Idle
  <2> QED BY <1>3, <2>1, <2>2
<1>16. CASE PreLockFires \/ ServerRefresh \/ UNCHANGED vars
  BY <1>13, <1>16 DEF PreLockFires, ServerRefresh, vars
<1>17. ASSUME NEW h \in Handles, ReleaseAgain(h) PROVE OwnersAreNamed'
  BY <1>13, <1>17 DEF ReleaseAgain
<1>18. ASSUME NEW r \in Readers, StartRead(r) \/ ReadSettings(r) \/ ReadNothing(r)
                                 \/ CommitRead(r) \/ AbandonRead(r)
       PROVE  OwnersAreNamed'
  BY <1>13, <1>18 DEF StartRead, ReadSettings, ReadNothing, CommitRead, AbandonRead
<1> QED
  BY <1>2, <1>4, <1>5, <1>6, <1>8, <1>10, <1>11, <1>12, <1>14, <1>15, <1>16, <1>17, <1>18
     DEF Next, Environment

\* What each action does to the leases and to the plaintext, one action at a time.
LEMMA PlaintextStep ==
    PlaintextInv /\ [Next]_vars => KeyIsOwners' /\ LeasesArePast' /\ ReadersAreOwn' /\ CacheIsOwn'
<1> DEFINE Goal == KeyIsOwners' /\ LeasesArePast' /\ ReadersAreOwn' /\ CacheIsOwn'
<1> SUFFICES ASSUME PlaintextInv, [Next]_vars PROVE Goal
  OBVIOUS
<1>0. /\ TypeOK /\ OwnersAreNamed /\ LeasesArePast /\ KeyIsOwners /\ ReadersAreOwn /\ CacheIsOwn
      /\ core \in Sessions /\ core.epoch \in Nat
  BY CoreAssumption DEF PlaintextInv, BaseInv, TypeOK, Sessions
<1> USE DEF adapterVars, timerVars
\* Attempts and readers that move keep their lease or lose it, in every action but two.
<1>1. ASSUME NEW a \in Attempts, NEW s \in AttemptStates, s.lease \in {attempt[a].lease, NoLease},
             attempt' = [attempt EXCEPT ![a] = s]
      PROVE  \A b \in Attempts : attempt'[b].lease \in {attempt[b].lease, NoLease}
  BY <1>0, <1>1 DEF TypeOK
<1>2. ASSUME NEW r \in Readers, NEW s \in ReaderStates, s.lease \in {reader[r].lease, NoLease},
             reader' = [reader EXCEPT ![r] = s]
      PROVE  \A q \in Readers : reader'[q].lease \in {reader[q].lease, NoLease}
  BY <1>0, <1>2 DEF TypeOK
<1>3. ASSUME \A b \in Attempts : attempt'[b].lease \in {attempt[b].lease, NoLease}
      PROVE  \A b \in Attempts : attempt'[b].lease.epoch <= core.epoch
  <2>1. NoLease.epoch <= core.epoch
    BY <1>0 DEF NoLease
  <2> QED BY <1>0, <1>3, <2>1 DEF LeasesArePast
\* A step that neither touches the key nor hands out a lease.
<1>4. ASSUME core'.key = core.key, core'.owner = core.owner, core'.epoch = core.epoch,
             UNCHANGED <<bodyCache, currentLease, accountVars>>,
             \A b \in Attempts : attempt'[b].lease \in {attempt[b].lease, NoLease},
             \A r \in Readers : reader'[r].lease \in {reader[r].lease, NoLease}
      PROVE  Goal
  BY <1>0, <1>3, <1>4, QuietStep DEF LeasesArePast
<1>5. ASSUME NEW a \in Attempts, NEW o \in Owners, Begin(a, o) PROVE Goal
  <2>1. /\ core' \in Sessions /\ core'.owner = o /\ core'.epoch = core.epoch
        /\ core'.key \in {core.key, NoOwner} /\ (core'.key # NoOwner => core.owner = o)
    BY <1>0, <1>5, CoreBeginFacts DEF Begin
  <2>2. \A b \in Attempts : attempt'[b].lease \in {attempt[b].lease, NoLease}
    BY <1>0, <1>5 DEF Begin, Idle, TypeOK
  <2>3. \A r \in Readers : reader'[r].lease \in {reader[r].lease, NoLease}
    BY <1>5 DEF Begin
  <2>4. UNCHANGED <<currentLease, accountVars>>
    BY <1>5 DEF Begin
  <2>5. CASE core'.key = NoOwner
    <3>1. bodyCache' = NoOwner
      BY <1>5, <2>5 DEF Begin, CleanupOn, Unlocked
    <3> QED BY <1>0, <2>1, <2>2, <2>3, <2>4, <2>5, <3>1, LockingStep
  <2>6. CASE core'.key # NoOwner
    <3>1. core'.key = core.key /\ core'.owner = core.owner
      BY <2>1, <2>6
    <3>2. bodyCache' = bodyCache
      BY <1>5, <2>6 DEF Begin, CleanupOn, Unlocked
    <3> QED BY <1>4, <2>1, <2>2, <2>3, <2>4, <3>1, <3>2
  <2> QED BY <2>5, <2>6
<1>6. ASSUME NEW a \in Attempts, BeginUnlock(a) \/ LoginVerified(a) PROVE Goal
  BY <1>0, <1>5, <1>6 DEF BeginUnlock, LoginVerified, Rendered, TypeOK, OwnersAreNamed
<1>7. ASSUME NEW a \in Attempts,
             Derived(a) \/ AbandonUnlock(a) \/ (\E o \in Owners : StartLogin(a, o))
      PROVE  Goal
  <2>1. \A b \in Attempts : attempt'[b].lease \in {attempt[b].lease, NoLease}
    <3>1. CASE Derived(a)
      BY <1>0, <3>1 DEF Derived, TypeOK, AttemptStates
    <3>2. ASSUME NEW s, s.lease = NoLease, attempt' = [attempt EXCEPT ![a] = s]
          PROVE  \A b \in Attempts : attempt'[b].lease \in {attempt[b].lease, NoLease}
      BY <1>0, <3>2 DEF TypeOK
    <3>3. CASE AbandonUnlock(a)
      BY <3>2, <3>3 DEF AbandonUnlock, Idle
    <3>4. ASSUME NEW o \in Owners, StartLogin(a, o)
          PROVE  \A b \in Attempts : attempt'[b].lease \in {attempt[b].lease, NoLease}
      BY <3>2, <3>4 DEF StartLogin, Idle
    <3> QED BY <1>7, <3>1, <3>3, <3>4
  <2> QED BY <1>4, <1>7, <2>1 DEF Derived, AbandonUnlock, StartLogin
\* An installation starts a new epoch: it makes no lease current but its own.
<1>8. ASSUME NEW a \in Attempts, Install(a) PROVE Goal
  <2>1. /\ core' \in Sessions /\ core'.key = core.owner /\ core'.owner = core.owner
        /\ core'.epoch = core.epoch + 1
    BY <1>0, <1>8, CoreInstallFacts DEF Install, CoreMayInstall
  <2>2. UNCHANGED <<bodyCache, currentLease, reader, accountVars>>
    BY <1>8 DEF Install
  <2>3. \A b \in Attempts : attempt'[b].lease.epoch <= core'.epoch
    <3>1. ASSUME NEW b \in Attempts, b # a PROVE attempt'[b] = attempt[b]
      BY <1>0, <1>8, <3>1 DEF Install, TypeOK
    <3>2. attempt'[a].lease.epoch = core'.epoch
      BY <1>0, <1>8 DEF Install, TypeOK, AttemptStates
    <3>3. \A b \in Attempts : attempt[b].lease.epoch \in Nat
      BY <1>0, CoreAssumption DEF TypeOK, AttemptStates, Leases, NoLease
    <3>4. core'.epoch <= core'.epoch
      BY <1>0, <2>1
    <3>5. ASSUME NEW b \in Attempts, b # a PROVE attempt'[b].lease.epoch <= core'.epoch
      <4>1. attempt[b].lease.epoch <= core.epoch
        BY <1>0 DEF LeasesArePast
      <4> QED BY <1>0, <2>1, <3>1, <3>3, <3>5, <4>1
    <3> QED BY <3>2, <3>4, <3>5
  <2>4. LeasesArePast'
    <3>1. /\ currentLease.epoch \in Nat
          /\ \A r \in Readers : reader[r].lease.epoch \in Nat
      BY <1>0, CoreAssumption DEF TypeOK, ReaderStates, Leases, NoLease
    <3> QED BY <1>0, <2>1, <2>2, <2>3, <3>1 DEF LeasesArePast
  <2>5. ReadersAreOwn'
    <3>1. \A r \in Readers : ~LeaseCurrent(core', reader[r].lease)
      BY <1>0, <2>1, CoreAssumption
         DEF LeaseCurrent, LeasesArePast, TypeOK, ReaderStates, Leases, NoLease
    <3> QED BY <2>2, <3>1 DEF ReadersAreOwn
  <2> QED BY <1>0, <2>1, <2>2, <2>4, <2>5 DEF KeyIsOwners, CacheIsOwn, Rendered, accountVars
<1>9. ASSUME NEW a \in Attempts, Finish(a) PROVE Goal
  <2>1. core'.key = core.key /\ core'.owner = core.owner /\ core'.epoch = core.epoch
    BY <1>0, <1>9, ScheduleType DEF Finish
  <2>2. \A b \in Attempts : attempt'[b].lease \in {attempt[b].lease, NoLease}
    BY <1>0, <1>9 DEF Finish, TypeOK, Idle
  <2>3. currentLease'.epoch <= core.epoch
    BY <1>0, <1>9 DEF Finish, LeasesArePast
  <2> QED BY <1>3, <1>9, <2>1, <2>2, <2>3, QuietStep DEF Finish
<1>10. ASSUME DropSession(CoreLock(core)) \/ DropSession(CoreClearOwner(core)) PROVE Goal
  <2>1. core'.key = NoOwner /\ core'.epoch = core.epoch
    BY <1>0, <1>10, CoreLockFacts, CoreClearOwnerFacts DEF DropSession
  <2> QED BY <1>0, <1>10, <2>1, LockingStep DEF DropSession
<1>11. CASE LockManually \/ LockForLogout
  BY <1>10, <1>11 DEF LockManually, LockForLogout
<1>12. CASE AutoLockFires
  <2>1. core'.key = NoOwner /\ core'.epoch = core.epoch
    BY <1>0, <1>12, CoreLockFacts DEF AutoLockFires
  <2>2. bodyCache' = NoOwner
    BY <1>12, <2>1 DEF AutoLockFires, CleanupOn, Unlocked
  <2> QED BY <1>0, <1>12, <2>1, <2>2, LockingStep DEF AutoLockFires
<1>13. CASE PreLockFires \/ (\E h \in Handles : ReleaseAgain(h))
  BY <1>4, <1>13 DEF PreLockFires, ReleaseAgain
<1>14. CASE Touch \/ (\E h \in Handles : Suspend(h) \/ Release(h))
  <2>1. core'.key = core.key /\ core'.owner = core.owner /\ core'.epoch = core.epoch
    BY <1>0, <1>14, TimerFacts, ScheduleType DEF Touch, Suspend, Release
  <2> QED BY <1>4, <1>14, <2>1 DEF Touch, Suspend, Release
<1>15. ASSUME NEW r \in Readers, StartRead(r) PROVE Goal
  <2> DEFINE l == GetLease(sessionOwner)
  <2>1. /\ l \in Leases \cup {NoLease} /\ l.epoch <= core.epoch
        /\ l # NoLease => l.owner = sessionOwner /\ LeaseCurrent(core, l)
    BY <1>0, <1>15, GetLeaseFacts DEF StartRead, Rendered, TypeOK
  <2>2. currentLease' = l /\ UNCHANGED <<core, attempt, accountVars>> /\ Rendered
    BY <1>15 DEF StartRead
  <2> HIDE DEF l
  <2>3. CASE l = NoLease
    <3>1. bodyCache' = NoOwner /\ reader' = reader
      BY <1>15, <2>3 DEF StartRead, l
    <3> QED BY <1>0, <2>1, <2>2, <3>1
            DEF KeyIsOwners, CacheIsOwn, LeasesArePast, ReadersAreOwn, Rendered, accountVars
  <2>4. CASE l # NoLease
    <3>1. reader' = [reader EXCEPT ![r] = [pc |-> "settings", lease |-> l]] /\ bodyCache' = bodyCache
      BY <1>15, <2>4 DEF StartRead, l
    <3>2. \A q \in Readers : reader'[q].lease \in {reader[q].lease, l}
      BY <1>0, <3>1 DEF TypeOK
    <3>3. LeasesArePast'
      BY <1>0, <2>1, <2>2, <3>2 DEF LeasesArePast
    <3>4. ReadersAreOwn'
      BY <1>0, <2>1, <2>2, <2>4, <3>2 DEF ReadersAreOwn, Rendered, accountVars
    <3> QED BY <1>0, <2>2, <3>1, <3>3, <3>4 DEF KeyIsOwners, CacheIsOwn, Rendered, accountVars
  <2> QED BY <2>3, <2>4
<1>16. ASSUME NEW r \in Readers, ReadSettings(r) \/ AbandonRead(r) PROVE Goal
  <2>1. \A q \in Readers : reader'[q].lease \in {reader[q].lease, NoLease}
    BY <1>0, <1>16 DEF ReadSettings, AbandonRead, NoReader, TypeOK, ReaderStates
  <2> QED BY <1>4, <1>16, <2>1 DEF ReadSettings, AbandonRead
\* What a reader commits was read for the account on screen, under the key still installed.
<1>17. ASSUME NEW r \in Readers, ReadNothing(r) \/ CommitRead(r) PROVE Goal
  <2>1. \A q \in Readers : reader'[q].lease \in {reader[q].lease, NoLease}
    BY <1>0, <1>17 DEF ReadNothing, CommitRead, NoReader, TypeOK
  <2>2. UNCHANGED <<core, attempt, currentLease, accountVars>>
    BY <1>17 DEF ReadNothing, CommitRead
  <2>3. LeaseCurrent(core, reader[r].lease) /\ bodyCache' \in {NoOwner, reader[r].lease.owner}
    BY <1>17 DEF ReadNothing, CommitRead
  <2>4. Rendered /\ reader[r].lease.owner = sessionOwner /\ core.key = core.owner
    BY <1>0, <2>3 DEF ReadersAreOwn, KeyIsOwners, LeaseCurrent, Unlocked
  <2>5. CacheIsOwn'
    BY <2>2, <2>3, <2>4 DEF CacheIsOwn, LeaseCurrent, Rendered, accountVars
  <2>6. ReadersAreOwn'
    <3>1. ~LeaseCurrent(core, NoLease)
      BY <1>0 DEF KeyIsOwners, LeaseCurrent, Unlocked, NoLease
    <3> QED BY <1>0, <2>1, <2>2, <3>1 DEF ReadersAreOwn, Rendered, accountVars
  <2>7. LeasesArePast'
    BY <1>0, <2>1, <2>2 DEF LeasesArePast, NoLease
  <2> QED BY <1>0, <2>2, <2>5, <2>6, <2>7 DEF KeyIsOwners
\* A change of account that is not cleared finds nothing cached and no lease current.
<1>18. ASSUME NEW o \in Owners \cup {NoOwner}, SessionChange(o) PROVE Goal
  <2>1. CASE snapshotOwner = o \/ EntersMatchingOwner(o)
    <3>1. UNCHANGED <<core, attempt, currentLease, bodyCache, reader>>
      BY <1>18, <2>1 DEF SessionChange
    <3>2. ~Rendered
      BY <1>18, <2>1 DEF SessionChange, EntersMatchingOwner, Rendered
    <3> QED BY <1>0, <3>1, <3>2 DEF KeyIsOwners, LeasesArePast, ReadersAreOwn, CacheIsOwn
  <2>2. CASE ~(snapshotOwner = o \/ EntersMatchingOwner(o))
    BY <1>10, <1>18, <2>2 DEF SessionChange
  <2> QED BY <2>1, <2>2
<1>19. CASE ServerRefresh
  <2>1. UNCHANGED <<core, attempt, currentLease, bodyCache, reader>> /\ ~Rendered
    BY <1>19 DEF ServerRefresh, Rendered
  <2> QED BY <1>0, <2>1 DEF KeyIsOwners, LeasesArePast, ReadersAreOwn, CacheIsOwn
<1>20. CASE Reload
  <2>1. core'.key = NoOwner /\ core'.epoch = core.epoch
    BY <1>20 DEF Reload, EmptySession
  <2>2. /\ \A a \in Attempts : attempt'[a].lease = NoLease
        /\ \A r \in Readers : reader'[r].lease = NoLease
    BY <1>20 DEF Reload, Idle, NoReader
  <2> QED BY <1>0, <1>20, <2>1, <2>2, LockingStep DEF Reload
<1>21. CASE UNCHANGED vars
  BY <1>4, <1>21 DEF vars
<1> QED
  BY <1>6, <1>7, <1>8, <1>9, <1>11, <1>12, <1>13, <1>14, <1>15, <1>16, <1>17, <1>18, <1>19,
     <1>20, <1>21 DEF Next, Environment

---------------------------------------------------------------------------
(* Theorems *)

LEMMA PlaintextInit == Init => PlaintextInv
<1> SUFFICES ASSUME Init PROVE PlaintextInv
  OBVIOUS
<1>1. TypeOK
  BY TypeInit
<1>2. core.key = NoOwner /\ core.epoch = 0 /\ core.op = NoAttempt
  BY DEF Init, EmptySession
<1>3. /\ currentLease.epoch = 0
      /\ \A a \in Attempts : attempt[a].lease.epoch = 0 /\ attempt[a].pc = "idle"
      /\ \A r \in Readers : reader[r].lease.epoch = 0
  BY DEF Init, Idle, NoReader, NoLease
<1>4. OwnersAreNamed /\ LeasesArePast /\ KeyIsOwners
  BY <1>2, <1>3, CoreAssumption DEF OwnersAreNamed, LeasesArePast, KeyIsOwners
<1>5. ReadersAreOwn /\ CacheIsOwn
  BY <1>2 DEF Init, ReadersAreOwn, CacheIsOwn, LeaseCurrent, Unlocked
<1> QED BY <1>1, <1>4, <1>5 DEF PlaintextInv, BaseInv

LEMMA PlaintextInductive == PlaintextInv /\ [Next]_vars => PlaintextInv'
BY TypeStep, OwnersStep, PlaintextStep DEF PlaintextInv, BaseInv

\* The adapter, the boundary and the readers keep every variable in its type.
THEOREM TypeCorrect == Spec => []TypeOK
<1>1. PlaintextInv => TypeOK
  BY DEF PlaintextInv, BaseInv
<1> QED BY PlaintextInit, PlaintextInductive, <1>1, PTL DEF Spec

\* However unlocks, locks, account changes and readers interleave, decrypted bodies are in
\* memory only under the key of the same account (vault-session.ts, eager-decrypt-notes.ts).
THEOREM PlaintextNeedsKey == Spec => []NoPlaintextWithoutKey
<1>1. PlaintextInv => NoPlaintextWithoutKey
  BY DEF PlaintextInv, CacheIsOwn, NoPlaintextWithoutKey
<1> QED BY PlaintextInit, PlaintextInductive, <1>1, PTL DEF Spec

\* The account on screen never sees the bodies of another (app-bootstrap-boundary.tsx).
THEOREM PlaintextIsOwn == Spec => []NoForeignPlaintext
<1>1. PlaintextInv => NoForeignPlaintext
  BY DEF PlaintextInv, CacheIsOwn, NoForeignPlaintext
<1> QED BY PlaintextInit, PlaintextInductive, <1>1, PTL DEF Spec

\* An attempt that was overtaken is not vault-core's current operation.
CancelledIsNotCurrent == core.op \notin cancelled

\* No action but Install(a) brings attempt a to where its key is installed.
LEMMA OnlyInstallInstalls ==
    ASSUME TypeOK, [Next]_vars, NEW a \in Attempts,
           attempt[a].pc = "converting", attempt'[a].pc = "installed"
    PROVE  Install(a)
<1>1. attempt' # attempt
  OBVIOUS
<1>2. ASSUME NEW b \in Attempts, NEW s, attempt' = [attempt EXCEPT ![b] = s], s.pc # "installed"
      PROVE  FALSE
  BY <1>2 DEF TypeOK
<1>3. ASSUME NEW b \in Attempts, NEW o, Begin(b, o) \/ StartLogin(b, o) PROVE FALSE
  <2>1. \E s : attempt' = [attempt EXCEPT ![b] = s] /\ s.pc # "installed"
    <3>1. [Idle EXCEPT !.pc = "deriving", !.owner = o].pc = "deriving"
      BY DEF Idle
    <3>2. [Idle EXCEPT !.pc = "verifying", !.owner = o].pc = "verifying"
      BY DEF Idle
    <3>3. CASE Begin(b, o)
      BY <3>1, <3>3, Zenon DEF Begin
    <3>4. CASE StartLogin(b, o)
      BY <3>2, <3>4, Zenon DEF StartLogin
    <3> QED BY <1>3, <3>3, <3>4
  <2> QED BY <1>2, <2>1
<1>4. ASSUME NEW b \in Attempts,
             BeginUnlock(b) \/ LoginVerified(b) \/ AbandonUnlock(b) \/ Finish(b)
      PROVE  FALSE
  <2>1. CASE BeginUnlock(b) \/ LoginVerified(b)
    BY <1>3, <2>1 DEF BeginUnlock, LoginVerified
  <2>2. Idle.pc # "installed"
    BY DEF Idle
  <2>3. CASE AbandonUnlock(b) \/ Finish(b)
    BY <1>2, <2>2, <2>3 DEF AbandonUnlock, Finish
  <2> QED BY <1>4, <2>1, <2>3
<1>5. ~\E b \in Attempts : Derived(b)
  BY DEF Derived, TypeOK, AttemptStates
<1>6. ASSUME NEW b \in Attempts, Install(b) PROVE b = a
  BY <1>6 DEF Install, TypeOK
<1>7. ~(LockManually \/ LockForLogout \/ AutoLockFires \/ PreLockFires \/ Touch \/ ServerRefresh)
  BY <1>1 DEF LockManually, LockForLogout, DropSession, AutoLockFires, PreLockFires, Touch,
              ServerRefresh
<1>8. ~Reload
  BY DEF Reload, Idle
<1>9. ~\E h \in Handles : Suspend(h) \/ Release(h) \/ ReleaseAgain(h)
  BY <1>1 DEF Suspend, Release, ReleaseAgain
<1>10. ~\E r \in Readers : \/ StartRead(r) \/ ReadSettings(r) \/ ReadNothing(r)
                           \/ CommitRead(r) \/ AbandonRead(r)
  BY <1>1 DEF StartRead, ReadSettings, ReadNothing, CommitRead, AbandonRead
<1>11. ~\E o \in Owners \cup {NoOwner} : SessionChange(o)
  BY <1>1 DEF SessionChange, DropSession
<1>12. ~UNCHANGED vars
  BY <1>1 DEF vars
<1> QED
  BY <1>3, <1>4, <1>5, <1>6, <1>7, <1>8, <1>9, <1>10, <1>11, <1>12 DEF Next, Environment

LEMMA CancelledInductive ==
    BaseInv /\ CancelledIsNotCurrent /\ [Next]_vars => CancelledIsNotCurrent'
<1> SUFFICES ASSUME BaseInv, CancelledIsNotCurrent, [Next]_vars PROVE CancelledIsNotCurrent'
  OBVIOUS
<1>0. TypeOK /\ TypeOK' /\ core \in Sessions /\ NoAttempt \notin cancelled'
  BY TypeStep, CoreAssumption DEF BaseInv, TypeOK
<1> USE DEF adapterVars, timerVars, accountVars
<1>1. ASSUME core'.op \in {core.op, NoAttempt}, cancelled' = cancelled PROVE CancelledIsNotCurrent'
  BY <1>0, <1>1 DEF CancelledIsNotCurrent
<1>2. ASSUME NEW a \in Attempts, NEW o \in Owners, Begin(a, o) PROVE CancelledIsNotCurrent'
  BY <1>0, <1>2 DEF Begin, CoreBegin, CancelledIsNotCurrent, Sessions
<1>3. ASSUME NEW a \in Attempts, BeginUnlock(a) \/ LoginVerified(a) PROVE CancelledIsNotCurrent'
  BY <1>0, <1>2, <1>3 DEF BeginUnlock, LoginVerified, Rendered, TypeOK, BaseInv, OwnersAreNamed
<1>4. ASSUME core' = CoreLock(core) \/ core' = CoreClearOwner(core) PROVE CancelledIsNotCurrent'
  <2>1. core'.op = NoAttempt
    BY <1>0, <1>4 DEF CoreLock, CoreClearOwner, Sessions
  <2> QED BY <1>0, <2>1 DEF CancelledIsNotCurrent
<1>5. CASE LockManually \/ LockForLogout \/ AutoLockFires
  BY <1>4, <1>5 DEF LockManually, LockForLogout, DropSession, AutoLockFires
<1>6. ASSUME NEW n, Schedule(n) PROVE core'.op = core.op
  BY <1>0, <1>6 DEF Schedule, Sessions
<1>7. ASSUME NEW a \in Attempts, NEW o \in Owners,
             StartLogin(a, o)
      PROVE  CancelledIsNotCurrent'
  BY <1>1, <1>7 DEF StartLogin
<1>8. CASE PreLockFires \/ Touch \/ ServerRefresh \/ UNCHANGED vars
  BY <1>0, <1>1, <1>8 DEF PreLockFires, Touch, ServerRefresh, vars, Sessions
<1>9. ASSUME NEW h \in Handles, Suspend(h) \/ Release(h) \/ ReleaseAgain(h)
      PROVE  CancelledIsNotCurrent'
  BY <1>0, <1>1, <1>6, <1>9 DEF Suspend, Release, ReleaseAgain, Sessions
<1>10. ASSUME NEW r \in Readers, \/ StartRead(r) \/ ReadSettings(r) \/ ReadNothing(r)
                                 \/ CommitRead(r) \/ AbandonRead(r)
       PROVE  CancelledIsNotCurrent'
  BY <1>1, <1>10 DEF StartRead, ReadSettings, ReadNothing, CommitRead, AbandonRead
<1>11. ASSUME NEW o \in Owners \cup {NoOwner}, SessionChange(o) PROVE CancelledIsNotCurrent'
  BY <1>1, <1>4, <1>11 DEF SessionChange, DropSession
<1>12. CASE Reload
  BY <1>12 DEF Reload, CancelledIsNotCurrent
<1>13. ASSUME NEW a \in Attempts, Derived(a) \/ AbandonUnlock(a) \/ Install(a) \/ Finish(a)
       PROVE  CancelledIsNotCurrent'
  BY <1>0, <1>1, <1>6, <1>13
     DEF Derived, AbandonUnlock, Install, Finish, CoreInstall, Sessions
<1> QED
  BY <1>3, <1>5, <1>7, <1>8, <1>9, <1>10, <1>11, <1>12, <1>13 DEF Next, Environment

\* Only the current operation installs a key: an attempt overtaken by a lock, a clear or a
\* newer attempt never does, however late its derivation ends (vault-session.ts:227-229).
THEOREM OvertakenNeverInstalls == Spec => CancelledNeverInstalls
<1> DEFINE Step == \A a \in Attempts :
         attempt[a].pc = "converting" /\ attempt'[a].pc = "installed" => a \notin cancelled
<1> DEFINE Inv == PlaintextInv /\ CancelledIsNotCurrent
<1>1. Init => Inv
  BY PlaintextInit DEF Init, CancelledIsNotCurrent
<1>2. Inv /\ [Next]_vars => Inv'
  BY PlaintextInductive, CancelledInductive DEF PlaintextInv
<1>3. Inv /\ [Next]_vars => [Step]_vars
  <2> SUFFICES ASSUME Inv, Next, NEW a \in Attempts,
                      attempt[a].pc = "converting", attempt'[a].pc = "installed"
               PROVE  a \notin cancelled
    OBVIOUS
  <2>1. Install(a)
    BY OnlyInstallInstalls DEF PlaintextInv, BaseInv
  <2> QED BY <2>1 DEF Install, CoreMayInstall, CancelledIsNotCurrent
<1> QED BY <1>1, <1>2, <1>3, PTL DEF Spec, CancelledNeverInstalls
---------------------------------------------------------------------------
(* Timers, suspensions and the notice of an inactivity lock *)

Held == {h \in Handles : handle[h] = "held"}

\* The counter of suspensions counts the release functions still to be called.
HoldersAreCounted == IsFiniteSet(Held) /\ autoLockSuspendCount = Cardinality(Held)

SuspendedIsDisarmed == autoLockSuspendCount # 0 => ~core.armed /\ ~preLockTimer

\* An installed attempt arms the timer of the vault it opened when it goes on.
OpenIsArmed ==
    /\ Unlocked(core)
    /\ autoLockSuspendCount = 0
    /\ \A a \in Attempts : attempt[a].pc # "installed"
    => core.armed

\* The notice is gone from an open vault, and from one that is about to be opened: a lock
\* that brought it back would have cancelled the operation.
NoticeIsOfALock ==
    lockedByInactivity =>
        ~Unlocked(core) /\ \A a \in Attempts : core.op = a => attempt[a].pc # "converting"

GuardInv == HoldersAreCounted /\ SuspendedIsDisarmed /\ OpenIsArmed /\ NoticeIsOfALock

LEMMA GuardInit == Init => GuardInv
<1> SUFFICES ASSUME Init PROVE GuardInv
  OBVIOUS
<1>1. Held = {} /\ core.key = NoOwner /\ core.armed = FALSE
  BY DEF Init, Held, EmptySession
<1>2. HoldersAreCounted
  BY <1>1, FS_EmptySet DEF Init, HoldersAreCounted
<1> QED BY <1>1, <1>2 DEF Init, GuardInv, SuspendedIsDisarmed, OpenIsArmed, NoticeIsOfALock, Unlocked

\* What the guard says, of a step that suspends and releases nothing.
LEMMA SameHolders ==
    ASSUME HoldersAreCounted, UNCHANGED <<autoLockSuspendCount, handle>>
    PROVE  HoldersAreCounted'
BY DEF HoldersAreCounted, Held

\* A step that locks the vault, or leaves it locked.
LEMMA LockedIsGuarded ==
    ASSUME core'.key = NoOwner, core'.op = NoAttempt, ~core'.armed,
           HoldersAreCounted', autoLockSuspendCount' # 0 => ~preLockTimer'
    PROVE  GuardInv'
BY CoreAssumption DEF GuardInv, SuspendedIsDisarmed, OpenIsArmed, NoticeIsOfALock, Unlocked

\* A step that keeps session, timers and notice, and moves no attempt to or from the points
\* that the guard tells apart.
LEMMA OthersAreGuarded ==
    ASSUME GuardInv, UNCHANGED <<core, preLockTimer, lockedByInactivity>>,
           UNCHANGED <<autoLockSuspendCount, handle>>,
           \A a \in Attempts : attempt[a].pc = "installed" => attempt'[a].pc = "installed",
           \A a \in Attempts : attempt'[a].pc = "converting" => attempt[a].pc = "converting"
    PROVE  GuardInv'
<1>1. HoldersAreCounted'
  BY SameHolders DEF GuardInv
<1>2. SuspendedIsDisarmed'
  BY DEF GuardInv, SuspendedIsDisarmed
<1>3. OpenIsArmed'
  BY DEF GuardInv, OpenIsArmed
<1>4. NoticeIsOfALock'
  BY DEF GuardInv, NoticeIsOfALock
<1> QED BY <1>1, <1>2, <1>3, <1>4 DEF GuardInv

LEMMA ScheduleGuards ==
    ASSUME TypeOK, NEW n, Schedule(n)
    PROVE  /\ core'.key = core.key /\ core'.op = core.op
           /\ n = 0 /\ Unlocked(core) => core'.armed
           /\ n # 0 \/ ~Unlocked(core) => core' = core /\ preLockTimer' = preLockTimer
BY DEF Schedule, TypeOK, Sessions

\* beginVaultOwnerOperation drops the key of another account, or changes the operation only.
LEMMA BeginGuards ==
    ASSUME TypeOK, GuardInv, NEW a \in Attempts, NEW o, Begin(a, o), attempt[a].pc # "installed"
    PROVE  GuardInv'
<1>1. /\ core'.op = a
      /\ \/ core'.key = core.key /\ core'.armed = core.armed
         \/ core'.key = NoOwner /\ ~core'.armed
  <2>1. core \in Sessions /\ core' = CoreBegin(core, a, o)
    BY DEF Begin, TypeOK
  <2>2. CASE core.owner = o
    BY <2>1, <2>2 DEF CoreBegin, Sessions
  <2>3. CASE core.owner # o
    BY <2>1, <2>3 DEF CoreBegin, Sessions
  <2> QED BY <2>2, <2>3
<1>2. /\ attempt' = [attempt EXCEPT ![a] = [Idle EXCEPT !.pc = "deriving", !.owner = o]]
      /\ UNCHANGED <<autoLockSuspendCount, handle, preLockTimer>>
      /\ lockedByInactivity' = (lockedByInactivity \/ (unlockMethod /\ ~Unlocked(core')))
  BY DEF Begin, NotifyChange, timerVars
<1>3. [Idle EXCEPT !.pc = "deriving", !.owner = o].pc = "deriving"
  BY DEF Idle
<1>4. /\ attempt'[a].pc = "deriving"
      /\ \A b \in Attempts : b # a => attempt'[b] = attempt[b]
  BY <1>2, <1>3 DEF TypeOK
<1>5. HoldersAreCounted'
  BY <1>2, SameHolders DEF GuardInv
<1>6. SuspendedIsDisarmed'
  BY <1>1, <1>2 DEF GuardInv, SuspendedIsDisarmed
<1>7. OpenIsArmed'
  BY <1>1, <1>2, <1>4 DEF GuardInv, OpenIsArmed, Unlocked
<1>8. NoticeIsOfALock'
  BY <1>1, <1>2, <1>4 DEF GuardInv, NoticeIsOfALock, Unlocked
<1> QED BY <1>5, <1>6, <1>7, <1>8 DEF GuardInv

\* The steps of one attempt.
LEMMA AttemptGuards ==
    ASSUME TypeOK, GuardInv, NEW a \in Attempts,
           \/ Derived(a) \/ AbandonUnlock(a) \/ Install(a) \/ Finish(a)
           \/ \E o \in Owners : StartLogin(a, o)
    PROVE  GuardInv'
<1> USE DEF adapterVars, timerVars, accountVars
<1>1. HoldersAreCounted'
  BY SameHolders DEF GuardInv, Derived, AbandonUnlock, Install, Finish, StartLogin
<1>2. CASE Derived(a)
  <2>1. UNCHANGED <<core, preLockTimer, autoLockSuspendCount>> /\ ~lockedByInactivity'
    BY <1>2 DEF Derived
  <2>2. \A b \in Attempts : attempt'[b].pc = "installed" <=> attempt[b].pc = "installed"
    BY <1>2 DEF Derived, TypeOK, AttemptStates
  <2>3. SuspendedIsDisarmed'
    BY <2>1 DEF GuardInv, SuspendedIsDisarmed
  <2>4. OpenIsArmed'
    BY <2>1, <2>2 DEF GuardInv, OpenIsArmed
  <2>5. NoticeIsOfALock'
    BY <2>1 DEF NoticeIsOfALock
  <2> QED BY <1>1, <2>3, <2>4, <2>5 DEF GuardInv
<1>3. CASE Install(a)
  <2>1. /\ core' = CoreInstall(core) /\ core.op = a /\ attempt[a].pc = "converting"
        /\ UNCHANGED <<lockedByInactivity, preLockTimer, autoLockSuspendCount>>
    BY <1>3 DEF Install, CoreMayInstall
  <2>2. core'.armed = core.armed
    BY <2>1 DEF CoreInstall, TypeOK, Sessions
  <2>3. attempt'[a].pc = "installed"
    BY <1>3 DEF Install, TypeOK, AttemptStates
  <2>4. ~lockedByInactivity'
    BY <2>1 DEF GuardInv, NoticeIsOfALock
  <2>5. SuspendedIsDisarmed'
    BY <2>1, <2>2 DEF GuardInv, SuspendedIsDisarmed
  <2>6. OpenIsArmed'
    BY <2>3 DEF OpenIsArmed
  <2>7. NoticeIsOfALock'
    BY <2>4 DEF NoticeIsOfALock
  <2> QED BY <1>1, <2>5, <2>6, <2>7 DEF GuardInv
<1>4. CASE Finish(a)
  <2>1. /\ Schedule(autoLockSuspendCount)
        /\ attempt' = [attempt EXCEPT ![a] = Idle]
        /\ UNCHANGED <<lockedByInactivity, autoLockSuspendCount>>
    BY <1>4 DEF Finish
  <2>2. \A b \in Attempts : attempt'[b].pc = "converting" => attempt[b].pc = "converting"
    BY <2>1 DEF TypeOK, Idle
  <2>3. SuspendedIsDisarmed'
    BY <2>1, ScheduleGuards DEF GuardInv, SuspendedIsDisarmed
  <2>4. OpenIsArmed'
    BY <2>1, ScheduleGuards DEF OpenIsArmed, Unlocked
  <2>5. NoticeIsOfALock'
    BY <2>1, <2>2, ScheduleGuards DEF GuardInv, NoticeIsOfALock, Unlocked
  <2> QED BY <1>1, <2>3, <2>4, <2>5 DEF GuardInv
<1>5. CASE AbandonUnlock(a)
  <2>1. /\ attempt' = [attempt EXCEPT ![a] = Idle] /\ attempt[a].pc # "installed"
        /\ UNCHANGED <<core, preLockTimer, lockedByInactivity, autoLockSuspendCount, handle>>
    BY <1>5 DEF AbandonUnlock
  <2>2. \A b \in Attempts :
          /\ attempt[b].pc = "installed" => attempt'[b].pc = "installed"
          /\ attempt'[b].pc = "converting" => attempt[b].pc = "converting"
    BY <2>1 DEF TypeOK, Idle
  <2> QED BY <2>1, <2>2, OthersAreGuarded
<1>6. CASE \E o \in Owners : StartLogin(a, o)
  <2>1. PICK o \in Owners : StartLogin(a, o)
    BY <1>6
  <2> DEFINE s == [Idle EXCEPT !.pc = "verifying", !.owner = o]
  <2>2. s.pc = "verifying"
    BY DEF Idle
  <2>3. /\ attempt' = [attempt EXCEPT ![a] = s] /\ attempt[a].pc = "idle"
        /\ UNCHANGED <<core, preLockTimer, lockedByInactivity, autoLockSuspendCount, handle>>
    BY <2>1 DEF StartLogin
  <2> HIDE DEF s
  <2>4. \A b \in Attempts :
          /\ attempt[b].pc = "installed" => attempt'[b].pc = "installed"
          /\ attempt'[b].pc = "converting" => attempt[b].pc = "converting"
    BY <2>2, <2>3 DEF TypeOK
  <2> QED BY <2>3, <2>4, OthersAreGuarded
<1> QED BY <1>2, <1>3, <1>4, <1>5, <1>6

\* suspendVaultAutoLock and both calls of its release function.
LEMMA HolderGuards ==
    ASSUME TypeOK, GuardInv, NEW h \in Handles, Suspend(h) \/ Release(h) \/ ReleaseAgain(h)
    PROVE  GuardInv'
<1> USE DEF adapterVars, timerVars, accountVars
<1>0. autoLockSuspendCount \in Nat /\ IsFiniteSet(Held)
      /\ autoLockSuspendCount = Cardinality(Held)
  BY DEF TypeOK, GuardInv, HoldersAreCounted
<1>1. CASE Suspend(h)
  <2>1. Held' = Held \cup {h} /\ h \notin Held
    BY <1>1 DEF Suspend, Held, TypeOK
  <2>2. HoldersAreCounted'
    BY <1>0, <1>1, <2>1, FS_AddElement DEF HoldersAreCounted, Suspend
  <2>3. ~core'.armed /\ core'.key = core.key /\ core'.op = core.op /\ ~preLockTimer'
    BY <1>1 DEF Suspend, TypeOK, Sessions
  <2>4. autoLockSuspendCount' # 0
    BY <1>0, <1>1 DEF Suspend
  <2>5. NoticeIsOfALock'
    BY <1>1, <2>3 DEF GuardInv, NoticeIsOfALock, Suspend, Unlocked
  <2> QED BY <2>2, <2>3, <2>4, <2>5 DEF GuardInv, SuspendedIsDisarmed, OpenIsArmed
<1>2. CASE Release(h)
  <2>1. Held' = Held \ {h} /\ h \in Held
    BY <1>2 DEF Release, Held, TypeOK
  <2>2. autoLockSuspendCount # 0
    BY <1>0, <2>1, FS_EmptySet
  <2>3. autoLockSuspendCount' = autoLockSuspendCount - 1 /\ Schedule(autoLockSuspendCount')
    BY <1>2, <2>2 DEF Release
  <2>4. HoldersAreCounted'
    BY <1>0, <2>1, <2>3, FS_RemoveElement DEF HoldersAreCounted
  <2>5. /\ core'.key = core.key /\ core'.op = core.op
        /\ autoLockSuspendCount' = 0 /\ Unlocked(core) => core'.armed
        /\ autoLockSuspendCount' # 0 => core' = core /\ preLockTimer' = preLockTimer
    <3> DEFINE n == autoLockSuspendCount'
    <3>1. Schedule(n)
      BY <2>3
    <3> HIDE DEF n
    <3>2. /\ core'.key = core.key /\ core'.op = core.op
          /\ n = 0 /\ Unlocked(core) => core'.armed
          /\ n # 0 => core' = core /\ preLockTimer' = preLockTimer
      BY <3>1, ScheduleGuards
    <3> QED BY <3>2 DEF n
  <2>6. SuspendedIsDisarmed'
    BY <2>2, <2>5 DEF GuardInv, SuspendedIsDisarmed
  <2>7. OpenIsArmed'
    BY <2>5 DEF OpenIsArmed, Unlocked
  <2>8. NoticeIsOfALock'
    BY <1>2, <2>5 DEF GuardInv, NoticeIsOfALock, Release, Unlocked
  <2> QED BY <2>4, <2>6, <2>7, <2>8 DEF GuardInv
<1>3. CASE ReleaseAgain(h)
  <2>1. Held' = Held
    BY <1>3 DEF ReleaseAgain, Held, TypeOK
  <2>2. HoldersAreCounted'
    BY <1>0, <1>3, <2>1 DEF HoldersAreCounted, ReleaseAgain
  <2>3. UNCHANGED <<core, attempt, lockedByInactivity, autoLockSuspendCount, preLockTimer>>
    BY <1>3 DEF ReleaseAgain
  <2>4. SuspendedIsDisarmed' /\ OpenIsArmed'
    BY <2>3 DEF GuardInv, SuspendedIsDisarmed, OpenIsArmed
  <2>5. NoticeIsOfALock'
    BY <2>3 DEF GuardInv, NoticeIsOfALock
  <2> QED BY <2>2, <2>4, <2>5 DEF GuardInv
<1> QED BY <1>1, <1>2, <1>3

\* Every lock, by the user, a sign-out, another account or the timer.
LEMMA LockGuards ==
    ASSUME TypeOK, GuardInv,
           \/ LockManually \/ LockForLogout \/ AutoLockFires \/ Reload
           \/ \E o \in Owners \cup {NoOwner} : SessionChange(o)
    PROVE  GuardInv'
<1> USE DEF adapterVars, timerVars, accountVars
<1>1. ASSUME NEW c, c = CoreLock(core) \/ c = CoreClearOwner(core)
      PROVE  c.key = NoOwner /\ c.op = NoAttempt /\ ~c.armed
  BY <1>1 DEF CoreLock, CoreClearOwner, TypeOK, Sessions
<1>2. ASSUME NEW c, DropSession(c), c = CoreLock(core) \/ c = CoreClearOwner(core) PROVE GuardInv'
  <2>1. HoldersAreCounted'
    BY <1>2, SameHolders DEF GuardInv, DropSession
  <2> QED BY <1>1, <1>2, <2>1, LockedIsGuarded DEF DropSession
<1>3. CASE LockManually \/ LockForLogout
  BY <1>2, <1>3 DEF LockManually, LockForLogout
<1>4. CASE AutoLockFires
  <2>1. HoldersAreCounted'
    BY <1>4, SameHolders DEF GuardInv, AutoLockFires
  <2>2. core' = CoreLock(core) /\ ~preLockTimer'
    BY <1>4 DEF AutoLockFires
  <2> QED BY <1>1, <2>1, <2>2, LockedIsGuarded
<1>5. CASE Reload
  <2>1. Held' = {} /\ autoLockSuspendCount' = 0 /\ ~preLockTimer'
    BY <1>5 DEF Reload, Held
  <2>2. HoldersAreCounted'
    BY <2>1, FS_EmptySet DEF HoldersAreCounted
  <2>3. core'.key = NoOwner /\ core'.op = NoAttempt /\ ~core'.armed
    BY <1>5 DEF Reload, EmptySession
  <2> QED BY <2>1, <2>2, <2>3, LockedIsGuarded
<1>6. ASSUME NEW o \in Owners \cup {NoOwner}, SessionChange(o) PROVE GuardInv'
  <2>1. CASE UNCHANGED <<core, attempt, adapterVars, timerVars>>
    BY <2>1, OthersAreGuarded
  <2>2. CASE DropSession(CoreClearOwner(core))
    BY <1>2, <2>2
  <2> QED BY <1>6, <2>1, <2>2 DEF SessionChange
<1> QED BY <1>3, <1>4, <1>5, <1>6

LEMMA GuardInductive == TypeOK /\ GuardInv /\ [Next]_vars => GuardInv'
<1> SUFFICES ASSUME TypeOK, GuardInv, [Next]_vars PROVE GuardInv'
  OBVIOUS
<1> USE DEF adapterVars, timerVars, accountVars
<1>1. ASSUME NEW a \in Attempts, BeginUnlock(a) \/ LoginVerified(a) PROVE GuardInv'
  BY <1>1, BeginGuards DEF BeginUnlock, LoginVerified
<1>2. ASSUME NEW a \in Attempts,
             \/ Derived(a) \/ AbandonUnlock(a) \/ Install(a) \/ Finish(a)
             \/ \E o \in Owners : StartLogin(a, o)
      PROVE  GuardInv'
  BY <1>2, AttemptGuards
<1>3. ASSUME NEW h \in Handles, Suspend(h) \/ Release(h) \/ ReleaseAgain(h) PROVE GuardInv'
  BY <1>3, HolderGuards
<1>4. CASE \/ LockManually \/ LockForLogout \/ AutoLockFires \/ Reload
           \/ \E o \in Owners \cup {NoOwner} : SessionChange(o)
  BY <1>4, LockGuards
<1>5. CASE PreLockFires
  <2>1. HoldersAreCounted'
    BY <1>5, SameHolders DEF GuardInv, PreLockFires
  <2>2. /\ UNCHANGED <<core, attempt, lockedByInactivity, autoLockSuspendCount>>
        /\ ~preLockTimer'
    BY <1>5 DEF PreLockFires
  <2>3. SuspendedIsDisarmed' /\ OpenIsArmed' /\ NoticeIsOfALock'
    BY <2>2 DEF GuardInv, SuspendedIsDisarmed, OpenIsArmed, NoticeIsOfALock
  <2> QED BY <2>1, <2>3 DEF GuardInv
<1>6. CASE Touch
  <2>1. HoldersAreCounted'
    BY <1>6, SameHolders DEF GuardInv, Touch
  <2>2. /\ UNCHANGED <<attempt, lockedByInactivity, autoLockSuspendCount>>
        /\ autoLockSuspendCount = 0
        /\ core'.armed /\ core'.key = core.key /\ core'.op = core.op
    BY <1>6 DEF Touch, TypeOK, Sessions
  <2>3. SuspendedIsDisarmed' /\ OpenIsArmed' /\ NoticeIsOfALock'
    BY <2>2 DEF GuardInv, SuspendedIsDisarmed, OpenIsArmed, NoticeIsOfALock, Unlocked
  <2> QED BY <2>1, <2>3 DEF GuardInv
<1>7. ASSUME NEW r \in Readers, \/ StartRead(r) \/ ReadSettings(r) \/ ReadNothing(r)
                                \/ CommitRead(r) \/ AbandonRead(r)
      PROVE  GuardInv'
  <2>1. UNCHANGED <<core, attempt, lockedByInactivity, timerVars>>
    BY <1>7 DEF StartRead, ReadSettings, ReadNothing, CommitRead, AbandonRead
  <2> QED BY <2>1, OthersAreGuarded
<1>8. CASE ServerRefresh \/ UNCHANGED vars
  BY <1>8, OthersAreGuarded DEF ServerRefresh, vars
<1> QED
  BY <1>1, <1>2, <1>3, <1>4, <1>5, <1>6, <1>7, <1>8 DEF Next, Environment

\* No order of unlock, suspend, release, touch and lock leaves an open vault without its timer
\* or a suspended one with it, and the notice of an inactivity lock is never over an open
\* vault (vault-session.ts, suspendVaultAutoLock and scheduleVaultAutoLock).
THEOREM TimersAreGuards == Spec => []TimersGuardTheVault
<1>1. ASSUME GuardInv PROVE TimersGuardTheVault
  <2>1. autoLockSuspendCount = 0 <=> Held = {}
    BY <1>1, FS_EmptySet DEF GuardInv, HoldersAreCounted
  <2>2. Held = {} <=> \A h \in Handles : handle[h] # "held"
    BY DEF Held
  <2> QED BY <1>1, <2>1, <2>2
          DEF TimersGuardTheVault, GuardInv, SuspendedIsDisarmed, OpenIsArmed, NoticeIsOfALock
<1>2. PlaintextInv /\ GuardInv /\ [Next]_vars => (PlaintextInv /\ GuardInv)'
  BY PlaintextInductive, GuardInductive DEF PlaintextInv, BaseInv
<1> QED BY PlaintextInit, GuardInit, <1>1, <1>2, PTL DEF Spec

---------------------------------------------------------------------------
(* The open vault is the vault of the account on screen *)

\* While an account is signed in, key and operation are its own or a stray login's.
SignedInIsOwn ==
    sessionOwner # NoOwner =>
        /\ Unlocked(core) => core.key \in {sessionOwner, stray}
        /\ core.op \in Attempts => core.owner \in {sessionOwner, stray}

\* On a page of an account that is no longer signed in only a stray login has or opens anything.
StalePageIsShut ==
    snapshotOwner # NoOwner /\ snapshotOwner # sessionOwner =>
        /\ Unlocked(core) => core.key = stray
        /\ core.op \in Attempts => core.owner = stray

\* The adapter's lease speaks of the installed key, except while the adapter is still to learn
\* of an installation; then the lease that the attempt brings does.
LeaseIsTheKeys ==
    /\ \A a \in Attempts : attempt[a].pc = "installed" =>
           Unlocked(core) /\ attempt[a].lease.owner = core.key
    /\ (\A a \in Attempts : attempt[a].pc # "installed") =>
           (Unlocked(core) /\ currentLease.owner # NoOwner => currentLease.owner = core.key)

OwnInv == SignedInIsOwn /\ StalePageIsShut /\ LeaseIsTheKeys

NothingInstalled == \A a \in Attempts : attempt[a].pc # "installed"

\* At the start nothing is open and nobody opens anything.
LEMMA OwnInit == Init => OwnInv
BY CoreAssumption
   DEF Init, EmptySession, Unlocked, Idle, OwnInv, SignedInIsOwn, StalePageIsShut, LeaseIsTheKeys

\* A step that leaves neither key nor operation behind keeps it.
LEMMA ShutIsOwn ==
    ASSUME core'.key = NoOwner, core'.op = NoAttempt, NothingInstalled'
    PROVE  OwnInv'
BY CoreAssumption
   DEF NothingInstalled, Unlocked, OwnInv, SignedInIsOwn, StalePageIsShut, LeaseIsTheKeys

\* So does one that leaves the session, the lease and the accounts alone.
LEMMA QuietIsOwn ==
    ASSUME OwnInv, NothingInstalled, NothingInstalled',
           core'.key = core.key, core'.owner = core.owner, core'.op = core.op,
           UNCHANGED <<currentLease, accountVars, stray>>
    PROVE  OwnInv'
BY DEF NothingInstalled, Unlocked, OwnInv, SignedInIsOwn, StalePageIsShut, LeaseIsTheKeys,
       accountVars

\* An operation begins for the account on screen, where nobody else is, or as a stray.
LEMMA BeginIsOwn ==
    ASSUME PlaintextInv, OwnInv, NothingInstalled, NEW a \in Attempts, NEW o \in Owners,
           Begin(a, o),
           \/ stray' = o
           \/ sessionOwner \in {o, NoOwner} /\ snapshotOwner \in {sessionOwner, NoOwner}
    PROVE  OwnInv'
<1>1. /\ core'.owner = o /\ core'.key \in {core.key, NoOwner}
      /\ core'.key # NoOwner => core.owner = o
  BY CoreBeginFacts DEF Begin, PlaintextInv, BaseInv, TypeOK
<1>2. NothingInstalled'
  BY DEF Begin, NothingInstalled, Idle, PlaintextInv, BaseInv, TypeOK
<1>3. core'.key # NoOwner => core'.key = o
  BY <1>1 DEF PlaintextInv, BaseInv, KeyIsOwners
<1>4. UNCHANGED <<currentLease, sessionOwner, snapshotOwner>>
  BY DEF Begin, accountVars
<1> QED BY <1>1, <1>2, <1>3, <1>4
        DEF NothingInstalled, Unlocked, OwnInv, SignedInIsOwn, StalePageIsShut, LeaseIsTheKeys

\* Each action keeps it, one action at a time.
LEMMA OwnStep ==
    ASSUME ContinuationIsPrompt, PlaintextInv, OwnInv, [Next]_vars
    PROVE  OwnInv'
<1>0. TypeOK
  BY DEF PlaintextInv, BaseInv
<1> USE DEF adapterVars, timerVars, accountVars
<1>1. ASSUME NEW n, Schedule(n)
      PROVE  core'.key = core.key /\ core'.owner = core.owner /\ core'.op = core.op
  BY <1>0, <1>1 DEF Schedule, TypeOK, Sessions
<1>2. ASSUME NEW a \in Attempts, Finish(a) PROVE OwnInv'
  <2>1. core'.key = core.key /\ core'.owner = core.owner /\ core'.op = core.op
    BY <1>1, <1>2 DEF Finish
  <2>2. /\ attempt[a].pc = "installed" /\ currentLease' = attempt[a].lease
        /\ \A b \in Attempts : attempt'[b].pc = "installed" => attempt'[b] = attempt[b]
        /\ UNCHANGED <<sessionOwner, snapshotOwner, stray>>
    BY <1>0, <1>2 DEF Finish, TypeOK, Idle
  <2> QED BY <2>1, <2>2 DEF Unlocked, OwnInv, SignedInIsOwn, StalePageIsShut, LeaseIsTheKeys
<1>3. CASE UNCHANGED vars
  BY <1>3 DEF vars, Unlocked, OwnInv, SignedInIsOwn, StalePageIsShut, LeaseIsTheKeys
<1>4. ASSUME NothingInstalled, Environment PROVE OwnInv'
  <2>1. ASSUME NEW a \in Attempts, BeginUnlock(a) PROVE OwnInv'
    BY <1>0, <1>4, <2>1, BeginIsOwn DEF BeginUnlock, Rendered, TypeOK
  <2>2. ASSUME NEW a \in Attempts, LoginVerified(a) PROVE OwnInv'
    <3>1. attempt[a].owner \in Owners
      BY <2>2 DEF LoginVerified, PlaintextInv, BaseInv, OwnersAreNamed
    <3> QED BY <1>4, <2>2, <3>1, BeginIsOwn DEF LoginVerified, OutlivesItsPage
  <2>3. ASSUME NEW a \in Attempts,
               Derived(a) \/ AbandonUnlock(a) \/ \E o \in Owners : StartLogin(a, o)
        PROVE  OwnInv'
    <3>1. NothingInstalled'
      <4>1. /\ Idle.pc = "idle"
            /\ \A o \in Owners : [Idle EXCEPT !.pc = "verifying", !.owner = o].pc = "verifying"
        BY DEF Idle
      <4>2. [attempt[a] EXCEPT !.pc = "converting"].pc = "converting"
        BY <1>0 DEF TypeOK, AttemptStates
      <4>3. CASE Derived(a)
        BY <1>0, <1>4, <4>2, <4>3 DEF Derived, NothingInstalled, TypeOK
      <4>4. CASE AbandonUnlock(a) \/ \E o \in Owners : StartLogin(a, o)
        BY <1>0, <1>4, <4>1, <4>4 DEF AbandonUnlock, StartLogin, NothingInstalled, TypeOK
      <4> QED BY <2>3, <4>3, <4>4
    <3>2. UNCHANGED <<core, currentLease, accountVars, stray>>
      BY <2>3 DEF Derived, AbandonUnlock, StartLogin
    <3> QED BY <1>4, <3>1, <3>2, QuietIsOwn
  <2>4. ASSUME NEW a \in Attempts, Install(a) PROVE OwnInv'
    <3>1. core.op = a /\ core.owner \in Owners
      BY <2>4 DEF Install, CoreMayInstall, PlaintextInv, BaseInv, OwnersAreNamed
    <3>2. core'.key = core.owner /\ core'.owner = core.owner /\ core'.op = core.op
      BY <1>0, <2>4 DEF Install, CoreInstall, TypeOK, Sessions
    <3>3. /\ attempt'[a].lease.owner = core'.owner /\ attempt'[a].pc = "installed"
          /\ \A b \in Attempts \ {a} : attempt'[b] = attempt[b]
          /\ UNCHANGED <<sessionOwner, snapshotOwner, stray>>
      BY <1>0, <2>4 DEF Install, TypeOK, AttemptStates
    <3> QED BY <1>4, <3>1, <3>2, <3>3, CoreAssumption
            DEF NothingInstalled, Unlocked, OwnInv, SignedInIsOwn, StalePageIsShut, LeaseIsTheKeys
  <2>5. ASSUME DropSession(CoreLock(core)) \/ DropSession(CoreClearOwner(core)) \/ AutoLockFires
        PROVE  OwnInv'
    <3>1. core'.key = NoOwner /\ core'.op = NoAttempt /\ attempt' = attempt
      BY <1>0, <2>5 DEF DropSession, AutoLockFires, CoreLock, CoreClearOwner, TypeOK, Sessions
    <3> QED BY <1>4, <3>1, ShutIsOwn DEF NothingInstalled
  <2>6. CASE LockManually \/ LockForLogout \/ AutoLockFires
    BY <2>5, <2>6 DEF LockManually, LockForLogout
  <2>7. CASE PreLockFires \/ Touch \/ \E h \in Handles : Suspend(h) \/ Release(h) \/ ReleaseAgain(h)
    <3>1. UNCHANGED <<attempt, currentLease, accountVars, stray>>
      BY <2>7 DEF PreLockFires, Touch, Suspend, Release, ReleaseAgain
    <3>2. core'.key = core.key /\ core'.owner = core.owner /\ core'.op = core.op
      <4>1. CASE PreLockFires \/ Touch \/ \E h \in Handles : Suspend(h) \/ ReleaseAgain(h)
        BY <1>0, <4>1 DEF PreLockFires, Touch, Suspend, ReleaseAgain, TypeOK, Sessions
      <4>2. ASSUME NEW h \in Handles, Release(h)
            PROVE  core'.key = core.key /\ core'.owner = core.owner /\ core'.op = core.op
        BY <1>1, <4>2 DEF Release
      <4> QED BY <2>7, <4>1, <4>2
    <3> QED BY <1>4, <3>1, <3>2, QuietIsOwn DEF NothingInstalled
  <2>8. ASSUME NEW r \in Readers, StartRead(r) PROVE OwnInv'
    <3>1. sessionOwner \in Owners
      BY <1>0, <2>8 DEF StartRead, Rendered, TypeOK
    <3>2. currentLease'.owner # NoOwner => currentLease'.owner = core.key
      BY <2>8, <3>1, GetLeaseFacts
         DEF StartRead, NoLease, LeaseCurrent, Unlocked, PlaintextInv, BaseInv, KeyIsOwners
    <3>3. UNCHANGED <<core, attempt, sessionOwner, snapshotOwner, stray>>
      BY <2>8 DEF StartRead
    <3> QED BY <1>4, <2>8, <3>1, <3>2, <3>3, CoreAssumption
            DEF StartRead, NothingInstalled, Unlocked, OwnInv, SignedInIsOwn, StalePageIsShut,
                LeaseIsTheKeys
  <2>9. ASSUME NEW r \in Readers,
               ReadSettings(r) \/ ReadNothing(r) \/ CommitRead(r) \/ AbandonRead(r)
        PROVE  OwnInv'
    <3>1. UNCHANGED <<core, attempt, currentLease, accountVars, stray>>
      BY <2>9 DEF ReadSettings, ReadNothing, CommitRead, AbandonRead
    <3> QED BY <1>4, <3>1, QuietIsOwn DEF NothingInstalled
  <2>10. ASSUME NEW o \in Owners \cup {NoOwner}, SessionChange(o) PROVE OwnInv'
    <3>1. CASE snapshotOwner = o \/ EntersMatchingOwner(o)
      <4>1. /\ UNCHANGED <<core, attempt, currentLease, snapshotOwner, stray>>
            /\ sessionOwner' = o /\ o # sessionOwner
        BY <2>10, <3>1 DEF SessionChange
      <4>2. CASE snapshotOwner = o
        BY <4>1, <4>2, <1>4
           DEF NothingInstalled, Unlocked, OwnInv, SignedInIsOwn, StalePageIsShut, LeaseIsTheKeys
      <4>3. CASE EntersMatchingOwner(o)
        <5>1. core.key = o /\ core.owner = o
          BY <1>4, <4>3 DEF EntersMatchingOwner, NothingInstalled, OwnInv, LeaseIsTheKeys,
                            PlaintextInv, BaseInv, KeyIsOwners, Unlocked
        <5> QED BY <4>1, <4>3, <5>1, <1>4
                DEF EntersMatchingOwner, NothingInstalled, Unlocked, OwnInv, SignedInIsOwn,
                    StalePageIsShut, LeaseIsTheKeys
      <4> QED BY <3>1, <4>2, <4>3
    <3>2. CASE ~(snapshotOwner = o \/ EntersMatchingOwner(o))
      BY <2>5, <2>10, <3>2 DEF SessionChange
    <3> QED BY <3>1, <3>2
  <2>11. CASE ServerRefresh
    <3>1. /\ UNCHANGED <<core, attempt, currentLease, sessionOwner, stray>>
          /\ snapshotOwner' = sessionOwner
      BY <2>11 DEF ServerRefresh
    <3> QED BY <3>1 DEF Unlocked, OwnInv, SignedInIsOwn, StalePageIsShut, LeaseIsTheKeys
  <2>12. CASE Reload
    <3>1. core'.key = NoOwner /\ core'.op = NoAttempt /\ NothingInstalled'
      BY <2>12 DEF Reload, EmptySession, NothingInstalled, Idle
    <3> QED BY <3>1, ShutIsOwn
  <2> QED
    BY <1>4, <2>1, <2>2, <2>3, <2>4, <2>6, <2>7, <2>8, <2>9, <2>10, <2>11, <2>12 DEF Environment
<1> QED BY <1>2, <1>3, <1>4 DEF Next, NothingInstalled

\* When a continuation runs before anything else, the vault that is open in a private tree is
\* the vault of the account it shows, whatever accounts, logins, locks and reloads follow each
\* other, unless a login that outlived its guest page has opened it (app-bootstrap-boundary.tsx,
\* vault-session.ts, account-passkey-login-vault-hooks.ts:63).
THEOREM OpenIsOwn ==
    ASSUME ContinuationIsPrompt
    PROVE  Spec => []OpenVaultIsOwn
<1>1. PlaintextInv /\ OwnInv /\ [Next]_vars => (PlaintextInv /\ OwnInv)'
  BY PlaintextInductive, OwnStep
<1>2. OwnInv => OpenVaultIsOwn
  BY DEF OwnInv, SignedInIsOwn, OpenVaultIsOwn, Rendered
<1> QED BY PlaintextInit, OwnInit, <1>1, <1>2, PTL DEF Spec

---------------------------------------------------------------------------
(* AsyncOwnership *)

SessionKeyIsOwners == session.key \in {NoOwner, session.owner}

LeaseMatchesToken ==
    \A r \in Requests : Waiting(r) =>
        lease[r] = [owner |-> token[r].scope.ownerId, epoch |-> token[r].scope.leaseEpoch]

TokensArePast == \A r \in Requests : Waiting(r) => lease[r].epoch <= session.epoch

GenerationsArePast ==
    \A r \in Requests : Waiting(r) => token[r].generation <= controller.generation

GenerationsDiffer ==
    \A r, s \in Requests :
        Waiting(r) /\ Waiting(s) /\ token[r].generation = token[s].generation => r = s

OwnershipInv ==
    /\ OwnershipTypeOK
    /\ SessionKeyIsOwners
    /\ LeaseMatchesToken
    /\ TokensArePast
    /\ GenerationsArePast
    /\ GenerationsDiffer

\* A captured lease is the key's own (captureVaultSessionLease).
LEMMA CapturedLease ==
    ASSUME session \in Sessions, NEW o \in Owners, CaptureLease(session, o) # NoLease
    PROVE  /\ CaptureLease(session, o) = [owner |-> o, epoch |-> session.epoch]
           /\ CaptureLease(session, o) \in Leases
           /\ Unlocked(session) /\ session.owner = o
  BY DEF CaptureLease, Sessions, Leases, NoLease

\* NoLease is not a lease of anybody.
LEMMA NoLeaseIsNone == NoLease \notin Leases
  BY CoreAssumption DEF NoLease, Leases

LEMMA InitInv == OwnershipInit => OwnershipInv
<1> SUFFICES ASSUME OwnershipInit PROVE OwnershipInv
  OBVIOUS
<1>1. \A r \in Requests : ~Waiting(r)
  BY DEF OwnershipInit, Waiting
<1>2. OwnershipTypeOK
  BY <1>1, CoreAssumption, OwnershipAssumption DEF OwnershipInit, OwnershipTypeOK, EmptySession, Sessions
<1> QED
  BY <1>1, <1>2 DEF OwnershipInv, SessionKeyIsOwners, LeaseMatchesToken, TokensArePast,
     GenerationsArePast, GenerationsDiffer, OwnershipInit, EmptySession

\* What a capture leaves: the new token is the newest, every other stays as it was.
LEMMA CaptureStep ==
    ASSUME OwnershipInv, NEW r \in Requests, NEW o \in Owners, NEW i \in Resources,
           Capture(r, o, i)
    PROVE  /\ token'[r] = [generation |-> controller.generation + 1,
                           scope |-> [ownerId |-> o, leaseEpoch |-> session.epoch, resourceId |-> i]]
           /\ token'[r].generation = controller.generation + 1
           /\ token'[r].scope.ownerId = o /\ token'[r].scope.leaseEpoch = session.epoch
           /\ token'[r] \in Tokens
           /\ lease'[r].epoch = session.epoch
           /\ lease'[r] = [owner |-> o, epoch |-> session.epoch]
           /\ lease'[r] \in Leases
           /\ controller' = token'[r]
           /\ controller'.generation = controller.generation + 1
           /\ controller'.scope # NoScope
           /\ \A s \in Requests : s # r => token'[s] = token[s] /\ lease'[s] = lease[s]
           /\ Unlocked(session) /\ session.owner = o
<1>1. /\ session \in Sessions
      /\ controller.generation \in 0..MaxGeneration
      /\ token \in [Requests -> Tokens \cup {NoToken}]
      /\ lease \in [Requests -> Leases \cup {NoLease}]
  BY DEF OwnershipInv, OwnershipTypeOK
<1>2. /\ CaptureLease(session, o) = [owner |-> o, epoch |-> session.epoch]
      /\ CaptureLease(session, o) \in Leases
      /\ Unlocked(session) /\ session.owner = o
  BY <1>1, CapturedLease DEF Capture
<1>3. lease'[r] = [owner |-> o, epoch |-> session.epoch] /\ lease'[r].epoch = session.epoch
  BY <1>1, <1>2 DEF Capture
<1>4. session.epoch \in 0..MaxEpoch
  BY <1>1 DEF Sessions
<1> DEFINE scope == [ownerId |-> o, leaseEpoch |-> session.epoch, resourceId |-> i]
<1>5. scope \in Scopes
  BY <1>4 DEF Scopes
<1>6. controller' = [generation |-> controller.generation + 1, scope |-> scope]
  BY <1>3 DEF Capture, NextGeneration
<1>7. controller.generation + 1 \in 0..MaxGeneration
  BY <1>1, OwnershipAssumption DEF Capture
<1>8. token'[r] = [generation |-> controller.generation + 1, scope |-> scope]
  BY <1>1, <1>6 DEF Capture
<1>9. token'[r] \in Tokens
  BY <1>5, <1>7, <1>8 DEF Tokens
<1>10. scope # NoScope
  BY <1>5, NullAssumption
<1>11. \A s \in Requests : s # r => token'[s] = token[s] /\ lease'[s] = lease[s]
  BY <1>1 DEF Capture
<1>12. /\ token'[r].generation = controller.generation + 1
       /\ token'[r].scope.ownerId = o /\ token'[r].scope.leaseEpoch = session.epoch
       /\ controller'.generation = controller.generation + 1
       /\ controller'.scope # NoScope
  BY <1>6, <1>8, <1>10
<1> QED
  BY <1>2, <1>3, <1>6, <1>8, <1>9, <1>11, <1>12

LEMMA CaptureKeepsInv ==
    ASSUME OwnershipInv, NEW r \in Requests, NEW o \in Owners, NEW i \in Resources,
           Capture(r, o, i)
    PROVE  OwnershipInv'
<1> USE CaptureStep
<1>1. session' = session
  BY DEF Capture
<1>2. /\ token' \in [Requests -> Tokens \cup {NoToken}]
      /\ lease' \in [Requests -> Leases \cup {NoLease}]
  <2>1. token \in [Requests -> Tokens \cup {NoToken}] /\ lease \in [Requests -> Leases \cup {NoLease}]
    BY DEF OwnershipInv, OwnershipTypeOK
  <2>2. lease'[r] \in Leases /\ token'[r] \in Tokens
    OBVIOUS
  <2> QED
    BY <2>1, <2>2 DEF Capture
<1>3. Waiting(r)'
  BY NullAssumption DEF Waiting
<1>4. \A s \in Requests : s # r => (Waiting(s)' <=> Waiting(s))
  BY DEF Waiting
<1>5. controller' \in [generation : 0..MaxGeneration, scope : Scopes \cup {NoScope}]
  BY DEF Tokens
<1>6. OwnershipTypeOK'
  BY <1>1, <1>2, <1>4, <1>5 DEF OwnershipInv, OwnershipTypeOK
<1>7. /\ token'[r].generation = controller.generation + 1
      /\ token'[r].scope.ownerId = o /\ token'[r].scope.leaseEpoch = session.epoch
      /\ lease'[r].epoch = session.epoch
      /\ controller'.generation = controller.generation + 1
  OBVIOUS
<1>8. /\ session.epoch \in Nat /\ controller.generation \in Nat
      /\ \A s \in Requests : Waiting(s) => token[s] \in Tokens
  BY CoreAssumption, OwnershipAssumption DEF OwnershipInv, OwnershipTypeOK, Sessions, Waiting
<1>9. \A s \in Requests : Waiting(s) =>
        /\ token[s].generation \in Nat
        /\ token[s].generation <= controller.generation
        /\ lease[s].epoch <= session.epoch
        /\ lease[s] = [owner |-> token[s].scope.ownerId, epoch |-> token[s].scope.leaseEpoch]
  BY <1>8 DEF OwnershipInv, LeaseMatchesToken, TokensArePast, GenerationsArePast, Tokens
<1>10. \A s \in Requests : s # r /\ Waiting(s)' =>
         Waiting(s) /\ token'[s] = token[s] /\ lease'[s] = lease[s]
  BY <1>4
<1>11. ASSUME NEW s \in Requests, Waiting(s)'
       PROVE  /\ token'[s].generation <= controller'.generation
              /\ lease'[s].epoch <= session'.epoch
              /\ lease'[s] = [owner |-> token'[s].scope.ownerId,
                               epoch |-> token'[s].scope.leaseEpoch]
  <2>1. CASE s = r
    <3>1. lease'[r] = [owner |-> token'[r].scope.ownerId, epoch |-> token'[r].scope.leaseEpoch]
      <4>1. /\ lease'[r] = [owner |-> o, epoch |-> session.epoch]
            /\ token'[r].scope.ownerId = o /\ token'[r].scope.leaseEpoch = session.epoch
        BY Zenon
      <4> QED
        BY ONLY <4>1, Zenon
    <3>2. token'[r].generation <= controller'.generation /\ lease'[r].epoch <= session'.epoch
      BY ONLY <1>1, <1>7, <1>8
    <3> QED
      BY ONLY <2>1, <3>1, <3>2, Zenon
  <2>2. CASE s # r
    <3>1. Waiting(s) /\ token'[s] = token[s] /\ lease'[s] = lease[s]
      BY <1>10, <1>11, <2>2
    <3>2. /\ token[s].generation \in Nat /\ token[s].generation <= controller.generation
          /\ lease[s].epoch <= session.epoch
          /\ lease[s] = [owner |-> token[s].scope.ownerId, epoch |-> token[s].scope.leaseEpoch]
      BY <1>9, <3>1
    <3>3. token[s].generation <= controller'.generation
      BY ONLY <1>7, <1>8, <3>2
    <3>4. token'[s].generation <= controller'.generation
      BY ONLY <3>1, <3>3
    <3>5. lease'[s].epoch <= session'.epoch
      BY ONLY <1>1, <3>1, <3>2, Zenon
    <3> QED
      BY ONLY <3>1, <3>2, <3>4, <3>5, Zenon
  <2> QED
    BY <2>1, <2>2
<1>12. ASSUME NEW s \in Requests, NEW t \in Requests, Waiting(s)', Waiting(t)',
              token'[s].generation = token'[t].generation
       PROVE  s = t
  <2>1. ASSUME NEW u \in Requests, u # r, Waiting(u)'
        PROVE  token'[u].generation # token'[r].generation
    <3>1. Waiting(u) /\ token'[u] = token[u]
      BY <1>10, <2>1
    <3>2. token[u].generation \in Nat /\ token[u].generation <= controller.generation
      BY <1>9, <3>1
    <3> QED
      BY ONLY <1>7, <1>8, <3>1, <3>2
  <2>2. CASE s = r \/ t = r
    BY <1>12, <2>1, <2>2
  <2>3. CASE s # r /\ t # r
    BY <1>10, <1>12, <2>3 DEF OwnershipInv, GenerationsDiffer
  <2> QED
    BY <2>2, <2>3
<1>13. LeaseMatchesToken' /\ TokensArePast' /\ GenerationsArePast'
  BY <1>11 DEF LeaseMatchesToken, TokensArePast, GenerationsArePast
<1>14. GenerationsDiffer'
  BY <1>12 DEF GenerationsDiffer
<1> QED
  BY <1>1, <1>6, <1>13, <1>14 DEF OwnershipInv, SessionKeyIsOwners

\* Forgetting one request disturbs no other.
LEMMA ForgetKeepsInv ==
    ASSUME OwnershipInv, NEW r \in Requests, Forget(r), UNCHANGED <<session, controller>>
    PROVE  /\ OwnershipInv'
           /\ ~Waiting(r)'
           /\ \A s \in Requests : s # r => token'[s] = token[s] /\ lease'[s] = lease[s]
<1>1. token \in [Requests -> Tokens \cup {NoToken}] /\ lease \in [Requests -> Leases \cup {NoLease}]
  BY DEF OwnershipInv, OwnershipTypeOK
<1>2. /\ token' \in [Requests -> Tokens \cup {NoToken}]
      /\ lease' \in [Requests -> Leases \cup {NoLease}]
      /\ ~Waiting(r)'
      /\ \A s \in Requests : s # r => token'[s] = token[s] /\ lease'[s] = lease[s]
  BY <1>1 DEF Forget, Waiting
<1>3. \A s \in Requests : Waiting(s)' => Waiting(s) /\ token'[s] = token[s] /\ lease'[s] = lease[s]
  BY <1>2 DEF Waiting
<1>4. OwnershipTypeOK'
  BY <1>2, <1>3 DEF OwnershipInv, OwnershipTypeOK
<1> QED
  BY <1>2, <1>3, <1>4 DEF OwnershipInv, SessionKeyIsOwners, LeaseMatchesToken, TokensArePast,
     GenerationsArePast, GenerationsDiffer

\* A step of the vault: requests and controller stay, the epoch never falls.
LEMMA VaultKeepsInv ==
    ASSUME OwnershipInv, UNCHANGED <<controller, token, lease>>,
           session' \in Sessions, session'.key \in {NoOwner, session'.owner}, session.epoch <= session'.epoch
    PROVE  OwnershipInv'
<1>1. /\ session.epoch \in Nat /\ session'.epoch \in Nat
      /\ \A s \in Requests : Waiting(s) => lease[s].epoch \in Nat
  BY CoreAssumption DEF OwnershipInv, OwnershipTypeOK, Sessions, Leases
<1>2. \A s \in Requests : Waiting(s)' <=> Waiting(s)
  BY DEF Waiting
<1>3. TokensArePast'
  <2> SUFFICES ASSUME NEW s \in Requests, Waiting(s) PROVE lease[s].epoch <= session'.epoch
    BY <1>2 DEF TokensArePast
  <2>1. lease[s].epoch <= session.epoch
    BY DEF OwnershipInv, TokensArePast
  <2> QED
    BY <1>1, <2>1
<1>4. OwnershipTypeOK'
  BY <1>2 DEF OwnershipInv, OwnershipTypeOK
<1> QED
  BY <1>2, <1>3, <1>4 DEF OwnershipInv, SessionKeyIsOwners, LeaseMatchesToken,
     GenerationsArePast, GenerationsDiffer

\* What each step of the vault does to the session record.
LEMMA VaultSteps ==
    ASSUME OwnershipInv
    PROVE  /\ \A o \in Owners : UnlockFor(o) =>
                 /\ session' \in Sessions /\ session'.key = session'.owner
                 /\ session'.epoch = session.epoch + 1
           /\ LockVault \/ ForgetOwner =>
                 /\ session' \in Sessions /\ session'.key = NoOwner
                 /\ session'.epoch = session.epoch
<1>1. session \in Sessions
  BY DEF OwnershipInv, OwnershipTypeOK
<1>2. ASSUME NEW o \in Owners, UnlockFor(o)
      PROVE  /\ session' \in Sessions /\ session'.key = session'.owner
             /\ session'.epoch = session.epoch + 1
  <2> DEFINE begun == CoreBegin(session, NoAttempt, o)
  <2>1. begun \in Sessions /\ begun.epoch = session.epoch
    BY <1>1 DEF CoreBegin, Sessions
  <2>2. session.epoch + 1 \in 0..MaxEpoch
    BY <1>1, <1>2, CoreAssumption DEF UnlockFor, Sessions
  <2>3. session' = [begun EXCEPT !.key = begun.owner, !.epoch = begun.epoch + 1]
    BY <1>2 DEF UnlockFor, CoreInstall
  <2> HIDE DEF begun
  <2> QED
    BY <2>1, <2>2, <2>3 DEF Sessions
<1>3. ASSUME LockVault \/ ForgetOwner
      PROVE  session' \in Sessions /\ session'.key = NoOwner /\ session'.epoch = session.epoch
  BY <1>1, <1>3 DEF LockVault, ForgetOwner, CoreLock, CoreClearOwner, Sessions
<1> QED
  BY <1>2, <1>3

LEMMA InvalidateKeepsInv ==
    ASSUME OwnershipInv, Invalidate
    PROVE  OwnershipInv' /\ controller'.scope = NoScope
<1>1. /\ controller.generation \in 0..MaxGeneration
      /\ \A s \in Requests : Waiting(s) => token[s] \in Tokens
  BY DEF OwnershipInv, OwnershipTypeOK, Waiting
<1>2. /\ controller' = [generation |-> controller.generation + 1, scope |-> NoScope]
      /\ controller'.generation = controller.generation + 1
      /\ controller'.generation \in 0..MaxGeneration
  BY <1>1, OwnershipAssumption DEF Invalidate, NextGeneration
<1>3. \A s \in Requests : Waiting(s)' <=> Waiting(s)
  BY DEF Waiting, Invalidate
<1>4. OwnershipTypeOK'
  BY <1>2, <1>3 DEF OwnershipInv, OwnershipTypeOK, Invalidate
<1>5. GenerationsArePast'
  <2> SUFFICES ASSUME NEW s \in Requests, Waiting(s)
               PROVE  token[s].generation <= controller'.generation
    BY <1>3 DEF GenerationsArePast, Invalidate
  <2>1. token[s].generation <= controller.generation /\ token[s].generation \in 0..MaxGeneration
    BY <1>1 DEF OwnershipInv, GenerationsArePast, Tokens
  <2> QED
    BY <1>1, <1>2, <2>1
<1> QED
  BY <1>2, <1>3, <1>4, <1>5 DEF OwnershipInv, SessionKeyIsOwners, LeaseMatchesToken, TokensArePast,
     GenerationsDiffer, Invalidate

LEMMA StepKeepsInv == OwnershipInv /\ [OwnershipNext]_ownershipVars => OwnershipInv'
<1> SUFFICES ASSUME OwnershipInv, [OwnershipNext]_ownershipVars PROVE OwnershipInv'
  OBVIOUS
<1>1. ASSUME NEW r \in Requests, Commit(r) \/ Cancel(r) PROVE OwnershipInv'
  BY <1>1, ForgetKeepsInv DEF Commit, Cancel
<1>2. ASSUME NEW r \in Requests, NEW o \in Owners, NEW i \in Resources, Capture(r, o, i)
      PROVE  OwnershipInv'
  BY <1>2, CaptureKeepsInv
<1>3. CASE Invalidate
  BY <1>3, InvalidateKeepsInv
<1>4. session.epoch \in Nat
  BY CoreAssumption DEF OwnershipInv, OwnershipTypeOK, Sessions
<1>5. ASSUME NEW o \in Owners, UnlockFor(o) PROVE OwnershipInv'
  <2>1. /\ session' \in Sessions /\ session'.key = session'.owner
        /\ session'.epoch = session.epoch + 1
    BY <1>5, VaultSteps
  <2>2. session.epoch <= session'.epoch
    BY <1>4, <2>1
  <2>3. UNCHANGED <<controller, token, lease>>
    BY <1>5 DEF UnlockFor
  <2> QED
    BY <2>1, <2>2, <2>3, VaultKeepsInv
<1>6. CASE LockVault \/ ForgetOwner
  <2>1. session' \in Sessions /\ session'.key = NoOwner /\ session.epoch = session'.epoch
    BY <1>6, VaultSteps
  <2>2. session.epoch <= session'.epoch
    BY <1>4, <2>1
  <2>3. UNCHANGED <<controller, token, lease>>
    BY <1>6 DEF LockVault, ForgetOwner
  <2> QED
    BY <2>1, <2>2, <2>3, VaultKeepsInv
<1>7. CASE UNCHANGED ownershipVars
  BY <1>7 DEF ownershipVars, OwnershipInv, OwnershipTypeOK, SessionKeyIsOwners, LeaseMatchesToken, TokensArePast,
     GenerationsArePast, GenerationsDiffer, Waiting
<1> QED
  BY <1>1, <1>2, <1>3, <1>5, <1>6, <1>7 DEF OwnershipNext

LEMMA InvHolds == OwnershipSpec => []OwnershipInv
  BY InitInv, StepKeepsInv, PTL DEF OwnershipSpec

\* Every waiting request holds a token and a lease of the right shape, whatever locks,
\* unlocks and invalidations interleave.
THEOREM OwnershipTypes == OwnershipSpec => []OwnershipTypeOK
<1>1. OwnershipInv => OwnershipTypeOK
  BY DEF OwnershipInv
<1> QED
  BY <1>1, InvHolds, PTL

\* assertVaultAsyncOwnershipCurrent passes only for the owner whose key is installed and under
\* the epoch the request began in.
THEOREM CommitsAreForOpenVault == OwnershipSpec => []CommitsForOpenVault
<1>1. OwnershipInv => CommitsForOpenVault
  <2> SUFFICES ASSUME OwnershipInv, NEW r \in Requests, OwnershipCurrent(r)
               PROVE  /\ token[r].scope.ownerId = session.key
                      /\ token[r].scope.leaseEpoch = session.epoch
    BY DEF CommitsForOpenVault
  <2>1. lease[r] = [owner |-> token[r].scope.ownerId, epoch |-> token[r].scope.leaseEpoch]
    BY DEF OwnershipInv, LeaseMatchesToken, OwnershipCurrent
  <2>2. Unlocked(session) /\ lease[r].owner = session.owner /\ lease[r].epoch = session.epoch
    BY DEF OwnershipCurrent, LeaseCurrent
  <2>3. session.key = session.owner
    BY <2>2 DEF OwnershipInv, SessionKeyIsOwners, Unlocked
  <2> QED
    BY <2>1, <2>2, <2>3
<1> QED
  BY <1>1, InvHolds, PTL

---------------------------------------------------------------------------
\* The refinement: one lemma for each kind of step.
Awaited == {r \in Requests : Waiting(r)}

Entitled == {r \in Requests : OwnershipCurrent(r)}

LEMMA InitRefines == OwnershipInit => Latest!Init
  BY DEF OwnershipInit, Latest!Init, Waiting, OwnershipCurrent

\* A capture makes its request the only one entitled.
LEMMA CaptureBegins ==
    ASSUME OwnershipInv, NEW r \in Requests, NEW o \in Owners, NEW i \in Resources,
           Capture(r, o, i)
    PROVE  r \notin Awaited /\ Awaited' = Awaited \cup {r} /\ Entitled' = {r}
<1>1. /\ token'[r] \in Tokens /\ controller' = token'[r]
      /\ token'[r].generation = controller.generation + 1
      /\ controller'.generation = controller.generation + 1
      /\ controller'.scope # NoScope
      /\ lease'[r] = [owner |-> o, epoch |-> session.epoch]
      /\ Unlocked(session) /\ session.owner = o
      /\ \A s \in Requests : s # r => token'[s] = token[s]
  BY CaptureStep, Zenon
<1>2. ~Waiting(r) /\ session' = session
  BY DEF Capture
<1>3. Waiting(r)'
  BY <1>1, NullAssumption DEF Waiting
<1>4. \A s \in Requests : s # r => (Waiting(s)' <=> Waiting(s))
  BY <1>1 DEF Waiting
<1>5. OwnershipCurrent(r)'
  <2>1. IsCurrent(token[r])'
    BY <1>1, Zenon DEF IsCurrent
  <2>2. lease'[r].owner = session'.owner /\ lease'[r].epoch = session'.epoch /\ Unlocked(session')
    BY <1>1, <1>2
  <2> QED
    BY <1>3, <2>1, <2>2 DEF OwnershipCurrent, LeaseCurrent
<1>6. ASSUME NEW s \in Requests, s # r PROVE ~OwnershipCurrent(s)'
  <2> SUFFICES ASSUME Waiting(s)' PROVE token'[s].generation # controller'.generation
    BY DEF OwnershipCurrent, IsCurrent
  <2>1. Waiting(s) /\ token'[s] = token[s]
    BY <1>1, <1>4, <1>6
  <2>2. token[s] \in Tokens /\ controller.generation \in 0..MaxGeneration
    BY <2>1 DEF OwnershipInv, OwnershipTypeOK, Waiting
  <2>3. token[s].generation \in Nat /\ controller.generation \in Nat
    BY <2>2, OwnershipAssumption DEF Tokens
  <2>4. token[s].generation <= controller.generation
    BY <2>1 DEF OwnershipInv, GenerationsArePast
  <2> QED
    BY ONLY <1>1, <2>1, <2>3, <2>4
<1> QED
  BY <1>2, <1>3, <1>4, <1>5, <1>6, Zenon DEF Awaited, Entitled

\* No other request is current beside a current one.
LEMMA OneIsCurrent ==
    ASSUME OwnershipInv, NEW r \in Requests, NEW s \in Requests,
           OwnershipCurrent(r), OwnershipCurrent(s)
    PROVE  r = s
  BY DEF OwnershipInv, GenerationsDiffer, OwnershipCurrent, IsCurrent

LEMMA ForgetDrops ==
    ASSUME OwnershipInv, NEW r \in Requests, Forget(r), UNCHANGED <<session, controller>>
    PROVE  Awaited' = Awaited \ {r} /\ Entitled' = Entitled \ {r}
<1>1. /\ ~Waiting(r)'
      /\ \A s \in Requests : s # r => token'[s] = token[s] /\ lease'[s] = lease[s]
  BY ForgetKeepsInv
<1>2. \A s \in Requests : s # r => (Waiting(s)' <=> Waiting(s))
  BY <1>1 DEF Waiting
<1>3. \A s \in Requests : s # r => (OwnershipCurrent(s)' <=> OwnershipCurrent(s))
  BY <1>1, <1>2 DEF OwnershipCurrent, IsCurrent
<1>4. ~OwnershipCurrent(r)'
  BY <1>1 DEF OwnershipCurrent
<1> QED
  BY <1>1, <1>2, <1>3, <1>4, Zenon DEF Awaited, Entitled

\* Once the controller was invalidated, or the vault locked or opened anew, nobody is entitled.
LEMMA Revokes ==
    ASSUME OwnershipInv,
           Invalidate \/ LockVault \/ ForgetOwner \/ \E o \in Owners : UnlockFor(o)
    PROVE  Awaited' = Awaited /\ Entitled' = {}
<1>1. token' = token /\ lease' = lease
  BY DEF Invalidate, LockVault, ForgetOwner, UnlockFor
<1>2. \A s \in Requests : Waiting(s)' <=> Waiting(s)
  BY <1>1 DEF Waiting
<1>3. ASSUME NEW s \in Requests PROVE ~OwnershipCurrent(s)'
  <2>1. CASE Invalidate
    BY <2>1, InvalidateKeepsInv DEF OwnershipCurrent, IsCurrent
  <2>2. CASE LockVault \/ ForgetOwner
    BY <2>2, VaultSteps DEF OwnershipCurrent, LeaseCurrent, Unlocked
  <2>3. ASSUME NEW o \in Owners, UnlockFor(o) PROVE ~OwnershipCurrent(s)'
    <3> SUFFICES ASSUME Waiting(s) PROVE lease[s].epoch # session'.epoch
      BY <1>1, <1>2 DEF OwnershipCurrent, LeaseCurrent
    <3>1. session'.epoch = session.epoch + 1
      BY <2>3, VaultSteps
    <3>2. lease[s].epoch <= session.epoch /\ lease[s].epoch \in Nat /\ session.epoch \in Nat
      BY CoreAssumption DEF OwnershipInv, TokensArePast, OwnershipTypeOK, Leases, Sessions
    <3> QED
      BY ONLY <3>1, <3>2
  <2> QED
    BY <2>1, <2>2, <2>3
<1> QED
  BY <1>2, <1>3, Zenon DEF Awaited, Entitled

LEMMA StepRefines ==
    OwnershipInv /\ [OwnershipNext]_ownershipVars => [Latest!Next]_<<Awaited, Entitled>>
<1> SUFFICES ASSUME OwnershipInv, [OwnershipNext]_ownershipVars
             PROVE  Latest!Next \/ (Awaited' = Awaited /\ Entitled' = Entitled)
  OBVIOUS
<1>1. ASSUME NEW r \in Requests, NEW o \in Owners, NEW i \in Resources, Capture(r, o, i)
      PROVE  Latest!Begin(r)
  BY <1>1, CaptureBegins DEF Latest!Begin, Awaited, Entitled
<1>2. ASSUME NEW r \in Requests, Commit(r) PROVE Latest!Apply(r)
  <2>1. Awaited' = Awaited \ {r} /\ Entitled' = Entitled \ {r}
    BY <1>2, ForgetDrops DEF Commit
  <2>2. OwnershipCurrent(r) /\ Entitled \subseteq {r}
    BY <1>2, OneIsCurrent DEF Commit, Entitled
  <2> QED
    BY <2>1, <2>2 DEF Latest!Apply, Awaited, Entitled
<1>3. ASSUME NEW r \in Requests, Cancel(r) PROVE Latest!Drop(r)
  <2>1. Awaited' = Awaited \ {r} /\ Entitled' = Entitled \ {r}
    BY <1>3, ForgetDrops DEF Cancel
  <2> QED
    BY <1>3, <2>1 DEF Cancel, Latest!Drop, Awaited, Entitled
<1>4. CASE Invalidate \/ LockVault \/ ForgetOwner \/ \E o \in Owners : UnlockFor(o)
  <2>1. Latest!Revoke
    BY <1>4, Revokes DEF Latest!Revoke, Awaited, Entitled
  <2> QED
    BY <2>1 DEF Latest!Next
<1>5. CASE UNCHANGED ownershipVars
  BY <1>5 DEF ownershipVars, Awaited, Entitled, Waiting, OwnershipCurrent, IsCurrent
<1> QED
  BY <1>1, <1>2, <1>3, <1>4, <1>5 DEF OwnershipNext, Latest!Next

\* The controller with its leases implements the last-request-wins register: no answer is
\* applied after a later capture, an invalidation, a lock, a new key or a change of owner.
THEOREM RefinesLatestRequest == OwnershipSpec => LastRequestWins
<1>1. [Latest!Next]_<<Awaited, Entitled>> =>
        [Latest!Next]_<<{r \in Requests : Waiting(r)}, {r \in Requests : OwnershipCurrent(r)}>>
  BY DEF Awaited, Entitled
<1> QED
  BY <1>1, InitRefines, StepRefines, InvHolds, PTL DEF OwnershipSpec, LastRequestWins, Latest!Spec

==========================================================================
