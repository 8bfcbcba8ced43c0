------------------------- MODULE NoteEditorProofs -------------------------
(***************************************************************************)
(* Proofs about the page of one note, for any set of overlapping saves of  *)
(* drafts and any number of edits, whatever the user does and however long *)
(* a save or an encryption takes.                                          *)
(*                                                                         *)
(* The invariants are three layers: what the types need, what orders the   *)
(* texts, and where a text that is not saved yet is kept.                  *)
(***************************************************************************)
EXTENDS NoteEditor, TLAPS

OwnerIsUser == Unlocked(core) => core.owner = User

TypeInv == TypeOK /\ NothingPrivateWhenLocked /\ OwnerIsUser

\* No text is newer than the newest one typed.
TextsWereTyped ==
    /\ {page.body, page.baseline, page.prompt, load.text, save.text} \subseteq 0..edits
    /\ {stored, server, bodyCache, reached} \subseteq 0..edits
    /\ \A j \in Jobs : job[j].text \in 0..edits

\* What the autosave timer or the flush will save is the newest text.
FormIsNewest ==
    /\ debounce => page.editing
    /\ debounce \/ Dirty => page.body = edits

\* There is a form on a page that shows its note only, and the note is shown once per load.
PageFollowsLoad ==
    /\ page.editing => page.shown
    /\ page.shown => load.pc \in {"opening", "reading", "done"}
    /\ load.pc # "idle" => page.open

\* The job that owns the draft has the newest of the texts that reached the draft store.
OwnerIsNewest ==
    \A j \in Jobs :
        draftOwner = j /\ job[j].pc # "idle" => job[j].text >= stored

DraftInv == TypeInv /\ TextsWereTyped /\ FormIsNewest /\ PageFollowsLoad /\ OwnerIsNewest

\* What the row, the list's cache and the load hold was on the server.
RowWasReached ==
    /\ server <= reached /\ bodyCache <= reached
    /\ load.pc = "decrypting" => load.text <= reached
    /\ save.pc = "indexing" => save.text <= reached

\* The prompt comes last of all that a load shows.
PromptComesLast == load.pc # "done" => page.prompt = NoText

\* The text that Cancel returns to, or that is only shown.
RestingText == IF page.editing THEN page.baseline ELSE page.body

\* A text that the server never had is in the draft store, or a save has passed it over.
Kept(n) == n > reached => stored >= n \/ n \in passedOver

\* Every text that is not dirty is kept, and does not need the draft that the prompt offers, or
\* that is being read.
RestIsKept ==
    /\ Kept(RestingText) /\ Kept(page.prompt)
    /\ load.pc = "reading" /\ draftOwner = Load => Kept(load.text)
    /\ load.pc \in {"opening", "reading"} \/ page.prompt # NoText
         => RestingText <= reached \/ RestingText \in passedOver

KeptInv == DraftInv /\ RowWasReached /\ PromptComesLast /\ RestIsKept

\* The autosave timer renews the pre-lock timer with it.
AutosaveComesFirst == debounce => preLock

WayInv == KeptInv /\ AutosaveComesFirst /\ TypedTextIsOnItsWay

---------------------------------------------------------------------------
(* The vault session, field by field. *)

LEMMA LockFacts ==
    ASSUME NEW c \in Sessions
    PROVE  CoreLock(c) \in Sessions /\ ~Unlocked(CoreLock(c)) /\ CoreLock(c).epoch = c.epoch
BY DEF CoreLock, Sessions, Unlocked

\* Typing renews the timer and changes no other field.
LEMMA ArmFacts ==
    ASSUME NEW c \in Sessions
    PROVE  /\ [c EXCEPT !.armed = TRUE] \in Sessions
           /\ [c EXCEPT !.armed = TRUE].key = c.key
           /\ [c EXCEPT !.armed = TRUE].owner = c.owner
           /\ [c EXCEPT !.armed = TRUE].epoch = c.epoch
BY DEF Sessions

LEMMA UnlockFacts ==
    ASSUME TypeOK, Unlock
    PROVE  core' \in Sessions /\ core'.owner = User /\ core'.epoch = core.epoch + 1
<1> DEFINE b == CoreBegin(core, NoAttempt, User)
<1>1. b \in Sessions /\ b.owner = User /\ b.epoch = core.epoch
  BY EditorAssumption, CoreAssumption DEF CoreBegin, TypeOK, Sessions
<1> HIDE DEF b
<1>2. b.epoch + 1 \in 0..MaxEpoch
  BY <1>1, CoreAssumption DEF Unlock, TypeOK, Sessions
<1>3. core' = [[b EXCEPT !.key = b.owner, !.epoch = b.epoch + 1] EXCEPT !.armed = TRUE]
  BY DEF Unlock, CoreInstall, b
<1> QED BY <1>1, <1>2, <1>3 DEF Sessions

\* The lease that the page captures under an open vault is a real one, and current.
LEMMA LeaseFacts ==
    ASSUME TypeOK, OwnerIsUser, Unlocked(core)
    PROVE  /\ LeaseOfTab \in Leases
           /\ LeaseOfTab # NoLease
           /\ LeaseOfTab.epoch = core.epoch
           /\ LeaseCurrent(core, LeaseOfTab)
BY EditorAssumption, CoreAssumption
   DEF LeaseOfTab, CaptureLease, LeaseCurrent, OwnerIsUser, Unlocked, TypeOK, Sessions, Leases,
       NoLease

---------------------------------------------------------------------------
(* Type correctness *)

LEMMA TextFacts == NoText \in Texts /\ 1 \in Texts /\ 1 \in 1..MaxText
BY EditorAssumption DEF Texts, NoText

\* What is reset is reset to a legal value.
LEMMA NullFacts ==
    /\ ClosedPage \in Pages /\ [ClosedPage EXCEPT !.open = TRUE] \in Pages
    /\ NoJob \in JobStates /\ NoJob.pc = "idle"
    /\ NoLoad \in LoadStates /\ NoLoad.pc = "idle"
    /\ NoSave \in Saves /\ NoSave.pc = "idle"
<1>1. NoSave \in Saves
  BY TextFacts DEF NoSave, Saves
<1> QED BY <1>1, TextFacts DEF ClosedPage, NoJob, NoLoad, NoSave, Pages, JobStates, LoadStates

LEMMA JobType ==
    ASSUME TypeOK, NEW j \in Jobs, NEW s \in JobStates, s.pc # "idle" => s.lease # NoLease,
           job' = [job EXCEPT ![j] = s]
    PROVE  /\ job' \in [Jobs -> JobStates]
           /\ \A k \in Jobs : job'[k].pc # "idle" => job'[k].lease # NoLease
BY DEF TypeOK

LEMMA StartJobType ==
    ASSUME TypeInv, Unlocked(core), NEW j \in Jobs, StartJob(j)
    PROVE  /\ job' \in [Jobs -> JobStates]
           /\ \A k \in Jobs : job'[k].pc # "idle" => job'[k].lease # NoLease
           /\ draftOwner' \in Jobs
<1> DEFINE s == [pc |-> "encrypting", text |-> page.body, lease |-> LeaseOfTab]
<1>1. LeaseOfTab \in Leases /\ LeaseOfTab # NoLease
  BY LeaseFacts DEF TypeInv
<1>2. s \in JobStates
  BY <1>1 DEF JobStates, TypeInv, TypeOK, Pages
<1>3. s.pc # "idle" => s.lease # NoLease
  BY <1>1
<1>4. job' = [job EXCEPT ![j] = s] /\ draftOwner' = j
  BY DEF StartJob
<1> HIDE DEF s
<1> QED BY <1>2, <1>3, <1>4, JobType DEF TypeInv

LEMMA TypeInit == Init => TypeInv
<1> SUFFICES ASSUME Init PROVE TypeInv
  OBVIOUS
<1>1. core \in Sessions /\ core.key = NoOwner
  BY CoreAssumption DEF Init, EmptySession, Sessions
<1>2. page \in Pages /\ load \in LoadStates /\ save \in Saves /\ job \in [Jobs -> JobStates]
  BY TextFacts DEF Init, ClosedPage, NoLoad, NoSave, NoJob, Pages, LoadStates, Saves, JobStates
<1>3. \A j \in Jobs : job[j].pc = "idle"
  BY DEF Init, NoJob
<1>4. NothingPrivateWhenLocked
  BY DEF Init, NothingPrivateWhenLocked, ClosedPage, NoLoad, NoText
<1> QED BY <1>1, <1>2, <1>3, <1>4, TextFacts
        DEF Init, TypeInv, TypeOK, OwnerIsUser, Unlocked, NoSave

LEMMA TypeLock == TypeInv /\ LockAndClear => TypeInv'
<1> SUFFICES ASSUME TypeInv, LockAndClear PROVE TypeInv'
  OBVIOUS
<1>1. core' \in Sessions /\ ~Unlocked(core')
  BY LockFacts DEF LockAndClear, TypeInv, TypeOK
<1>2. page' \in Pages /\ load' \in LoadStates
  BY TextFacts DEF LockAndClear, ClosedPage, NoLoad, Pages, LoadStates, TypeInv, TypeOK
<1>3. NothingPrivateWhenLocked'
  BY DEF LockAndClear, NothingPrivateWhenLocked, ClosedPage, NoLoad
<1> QED BY <1>1, <1>2, <1>3, TextFacts DEF LockAndClear, TypeInv, TypeOK, OwnerIsUser, history

LEMMA TypeStep == TypeInv /\ [Next]_vars => TypeInv'
<1> SUFFICES ASSUME TypeInv, [Next]_vars PROVE TypeInv'
  OBVIOUS
<1> USE DEF TypeInv, vaultVars, pageVars, storeVars, history
<1>1. CASE Unlock
  BY <1>1, UnlockFacts DEF Unlock, TypeOK, NothingPrivateWhenLocked, OwnerIsUser
<1>2. CASE LockManually \/ AutoLockFires
  BY <1>2, TypeLock DEF LockManually, AutoLockFires
<1>3. ASSUME NEW j \in Jobs, DebounceFires(j) PROVE TypeInv'
  BY <1>3, StartJobType DEF DebounceFires, TypeOK, NothingPrivateWhenLocked, OwnerIsUser
<1>4. ASSUME NEW j \in Jobs, PreLockFires(j) PROVE TypeInv'
  BY <1>4, StartJobType DEF PreLockFires, Dirty, TypeOK, NothingPrivateWhenLocked, OwnerIsUser
<1>5. ASSUME NEW j \in Jobs, Encrypted(j) PROVE TypeInv'
  <2>1. /\ job' \in [Jobs -> JobStates]
        /\ \A k \in Jobs : job'[k].pc # "idle" => job'[k].lease # NoLease
    BY <1>5 DEF Encrypted, TypeOK, JobStates
  <2> QED BY <1>5, <2>1 DEF Encrypted, TypeOK, NothingPrivateWhenLocked, OwnerIsUser
<1>6. ASSUME NEW j \in Jobs, PutDraft(j) \/ JobCancelled(j) \/ StoreRefuses(j) PROVE TypeInv'
  <2>1. /\ job' \in [Jobs -> JobStates]
        /\ \A k \in Jobs : job'[k].pc # "idle" => job'[k].lease # NoLease
    BY <1>6, NullFacts, JobType DEF PutDraft, JobCancelled, StoreRefuses
  <2>2. stored' \in Texts /\ refused' \in BOOLEAN
    BY <1>6 DEF PutDraft, JobCancelled, StoreRefuses, TypeOK, JobStates
  <2> QED BY <1>6, <2>1, <2>2
          DEF PutDraft, JobCancelled, StoreRefuses, TypeOK, NothingPrivateWhenLocked, OwnerIsUser
<1>7. CASE Open \/ Leave
  <2>1. page' \in Pages /\ load' \in LoadStates /\ save' \in Saves
        /\ (save'.pc # "idle" => save'.lease # NoLease)
    BY <1>7, NullFacts DEF Open, Leave, Saves, TypeOK
  <2>2. NothingPrivateWhenLocked'
    BY <1>7 DEF Open, Leave, ClosedPage, NoLoad, NothingPrivateWhenLocked
  <2> QED BY <1>7, <2>1, <2>2 DEF Open, Leave, TypeOK, OwnerIsUser
<1>8. CASE ListBodies
  BY <1>8 DEF ListBodies, TypeOK, NothingPrivateWhenLocked, OwnerIsUser
<1>9. CASE StartLoad \/ Fetched \/ ReadDraft \/ LoadFails
  <2>1. load' \in LoadStates
    BY <1>9, TextFacts DEF StartLoad, Fetched, ReadDraft, LoadFails, LoadStates, TypeOK
  <2>2. Unlocked(core)
    BY <1>9 DEF StartLoad, Fetched, ReadDraft, LoadFails, NothingPrivateWhenLocked
  <2> QED BY <1>9, <2>1, <2>2
          DEF StartLoad, Fetched, ReadDraft, LoadFails, TypeOK, NothingPrivateWhenLocked,
              OwnerIsUser
<1>10. CASE ShowNote \/ ShowDraft
  <2>1. page' \in Pages /\ load' \in LoadStates
    <3>1. load.text \in Texts
      BY DEF LoadStates, TypeOK
    <3>2. page' \in Pages
      BY <1>10, <3>1 DEF ShowNote, ShowDraft, Pages, TypeOK
    <3> QED BY <1>10, <3>2, TextFacts DEF ShowNote, ShowDraft, LoadStates, TypeOK
  <2>2. Unlocked(core)
    BY <1>10 DEF ShowNote, ShowDraft, NothingPrivateWhenLocked
  <2> QED BY <1>10, <2>1, <2>2 DEF ShowNote, ShowDraft, TypeOK, NothingPrivateWhenLocked,
                                   OwnerIsUser
<1>11. CASE StartEditing \/ CancelEditing \/ RestoreDraft \/ DiscardDraft
  <2>1. page' \in Pages
    BY <1>11, TextFacts DEF StartEditing, CancelEditing, RestoreDraft, DiscardDraft, Prompted,
                            Pages, TypeOK
  <2>2. Unlocked(core)
    BY <1>11 DEF StartEditing, CancelEditing, RestoreDraft, DiscardDraft, Prompted,
                 NothingPrivateWhenLocked
  <2> QED BY <1>11, <2>1, <2>2, TextFacts
          DEF StartEditing, CancelEditing, RestoreDraft, DiscardDraft, TypeOK,
              NothingPrivateWhenLocked, OwnerIsUser
<1>12. CASE Type
  <2>1. edits' \in 1..MaxText /\ edits' \in Texts
    BY <1>12, EditorAssumption DEF Type, TypeOK, Texts, NoText
  <2>2. page' \in Pages
    BY <1>12, <2>1 DEF Type, Pages, TypeOK
  <2>3. core' \in Sessions /\ core'.key = core.key /\ core'.owner = core.owner
    BY <1>12, ArmFacts DEF Type, TypeOK
  <2>4. Unlocked(core)
    BY <1>12 DEF Type, NothingPrivateWhenLocked
  <2> QED BY <1>12, <2>1, <2>2, <2>3, <2>4
          DEF Type, TypeOK, NothingPrivateWhenLocked, OwnerIsUser, Unlocked
<1>13. CASE BeginSave
  <2>1. LeaseOfTab \in Leases /\ LeaseOfTab # NoLease
    BY <1>13, LeaseFacts DEF BeginSave, NothingPrivateWhenLocked
  <2>2. save' \in Saves /\ save'.lease # NoLease
    BY <1>13, <2>1 DEF BeginSave, Saves, Pages, TypeOK
  <2> QED BY <1>13, <2>2 DEF BeginSave, TypeOK, NothingPrivateWhenLocked, OwnerIsUser
<1>14. CASE SaveReachesServer
  <2>1. save' \in Saves /\ save'.lease # NoLease /\ server' \in Texts /\ reached' \in Texts
    BY <1>14 DEF SaveReachesServer, Saves, TypeOK
  <2> QED BY <1>14, <2>1 DEF SaveReachesServer, TypeOK, NothingPrivateWhenLocked, OwnerIsUser
<1>15. CASE SaveEnds \/ SaveFails
  <2>1. save' \in Saves /\ save'.pc = "idle"
    BY <1>15, NullFacts DEF SaveEnds, SaveFails
  <2>2. page' \in Pages /\ debounce' \in BOOLEAN
    BY <1>15, TextFacts DEF SaveEnds, SaveFails, Saves, Pages, TypeOK
  <2>3. NothingPrivateWhenLocked'
    BY <1>15 DEF SaveEnds, SaveFails, LeaseCurrent, NothingPrivateWhenLocked
  <2>4. passedOver' \subseteq Texts
    BY <1>15 DEF SaveEnds, SaveFails, TextsAtHand, TypeOK, Pages, LoadStates
  <2> QED BY <1>15, <2>1, <2>2, <2>3, <2>4, TextFacts DEF SaveEnds, SaveFails, TypeOK, OwnerIsUser
<1>16. CASE UNCHANGED vars
  BY <1>16 DEF vars, TypeOK, NothingPrivateWhenLocked, OwnerIsUser
<1> QED
  BY <1>1, <1>2, <1>3, <1>4, <1>5, <1>6, <1>7, <1>8, <1>9, <1>10, <1>11, <1>12, <1>13, <1>14,
     <1>15, <1>16
  DEF Next, DraftSteps

---------------------------------------------------------------------------
(* The order of the drafts *)

LEMMA DraftInit == Init => DraftInv
<1> SUFFICES ASSUME Init PROVE DraftInv
  OBVIOUS
<1>1. TextsWereTyped
  BY DEF Init, TextsWereTyped, ClosedPage, NoLoad, NoSave, NoJob, NoText
<1>2. FormIsNewest /\ PageFollowsLoad /\ OwnerIsNewest
  BY DEF Init, FormIsNewest, Dirty, PageFollowsLoad, OwnerIsNewest, ClosedPage, NoJob, NoLoad
<1> QED BY <1>1, <1>2, TypeInit DEF DraftInv

LEMMA DraftLock ==
    DraftInv /\ LockAndClear =>
        (TextsWereTyped /\ FormIsNewest /\ PageFollowsLoad /\ OwnerIsNewest)'
<1> SUFFICES ASSUME DraftInv, LockAndClear
             PROVE  (TextsWereTyped /\ FormIsNewest /\ PageFollowsLoad /\ OwnerIsNewest)'
  OBVIOUS
<1>1. /\ page' \in Pages /\ ~page'.shown /\ ~page'.editing
      /\ page'.body = 0 /\ page'.baseline = 0 /\ page'.prompt = 0
  BY TextFacts DEF LockAndClear, ClosedPage, Pages, DraftInv, TypeInv, TypeOK, NoText
<1>2. load'.text = 0 /\ load'.pc = "idle" /\ bodyCache' = 0
  BY DEF LockAndClear, NoLoad, NoText
<1>3. edits \in Nat
  BY DEF DraftInv, TypeInv, TypeOK
<1>4. TextsWereTyped'
  BY <1>1, <1>2, <1>3 DEF LockAndClear, TextsWereTyped, DraftInv, history
<1> QED BY <1>1, <1>2, <1>4
        DEF LockAndClear, DraftInv, FormIsNewest, Dirty, PageFollowsLoad, OwnerIsNewest, history

LEMMA DraftStep == DraftInv /\ [Next]_vars => DraftInv'
<1> SUFFICES ASSUME DraftInv, [Next]_vars
             PROVE  (TextsWereTyped /\ FormIsNewest /\ PageFollowsLoad /\ OwnerIsNewest)'
  BY TypeStep DEF DraftInv
<1> DEFINE Goal == (TextsWereTyped /\ FormIsNewest /\ PageFollowsLoad /\ OwnerIsNewest)'
<1>1. TypeInv /\ TypeInv' /\ edits \in Nat /\ edits' \in Nat
  BY TypeStep DEF DraftInv, TypeInv, TypeOK
<1> USE DEF DraftInv, vaultVars, pageVars, storeVars, history, TextsWereTyped, FormIsNewest,
            Dirty, PageFollowsLoad, OwnerIsNewest
<1>2. CASE Unlock
  BY <1>2 DEF Unlock
<1>3. CASE LockManually \/ AutoLockFires
  BY <1>3, DraftLock DEF LockManually, AutoLockFires
<1>4. ASSUME NEW j \in Jobs, DebounceFires(j) PROVE Goal
  BY <1>1, <1>4 DEF DebounceFires, StartJob, TypeInv, TypeOK
<1>5. ASSUME NEW j \in Jobs, PreLockFires(j) PROVE Goal
  BY <1>1, <1>5 DEF PreLockFires, StartJob, TypeInv, TypeOK
<1>6. ASSUME NEW j \in Jobs, DraftSteps(j) PROVE Goal
  <2> USE <1>1 DEF JobCurrent, TypeInv, TypeOK
  <2>1. CASE Encrypted(j)
    BY <2>1 DEF Encrypted
  <2>2. CASE PutDraft(j)
    BY <2>2 DEF PutDraft, NoJob, NoText
  <2>3. CASE JobCancelled(j)
    BY <2>3 DEF JobCancelled, NoJob, NoText
  <2>4. CASE StoreRefuses(j)
    BY <2>4 DEF StoreRefuses, NoJob, NoText
  <2> QED BY <1>6, <2>1, <2>2, <2>3, <2>4 DEF DraftSteps
<1>7. CASE Open \/ Leave
  <2>1. /\ page'.body = 0 /\ page'.baseline = 0 /\ page'.prompt = 0
        /\ ~page'.shown /\ ~page'.editing
        /\ load'.text \in 0..edits /\ save'.text = save.text
        /\ load'.pc # "idle" => page'.open
    BY <1>1, <1>7 DEF Open, Leave, ClosedPage, NoLoad, NoText, TypeInv, TypeOK, Saves
  <2>2. ~debounce'
    BY <1>7 DEF Open, Leave, TypeInv, TypeOK
  <2> QED BY <1>1, <1>7, <2>1, <2>2 DEF Open, Leave
<1>8. CASE ListBodies
  BY <1>8 DEF ListBodies
<1>9. CASE StartLoad \/ Fetched \/ ReadDraft \/ LoadFails
  BY <1>1, <1>9 DEF StartLoad, Fetched, ReadDraft, LoadFails, NoText, LoadStates, TypeInv, TypeOK
<1>10. CASE ShowNote
  BY <1>1, <1>10, EditorAssumption DEF ShowNote, NoText, LoadStates, TypeInv, TypeOK, Pages
<1>11. CASE ShowDraft
  BY <1>1, <1>11 DEF ShowDraft, NoText, LoadStates, TypeInv, TypeOK, Pages
<1>12. CASE StartEditing \/ CancelEditing
  <2>1. CASE StartEditing
    <3>1. /\ page'.body = page.body /\ page'.baseline = page.body /\ page'.prompt = page.prompt
          /\ page'.open = page.open /\ page'.shown = page.shown /\ page.shown
      BY <1>1, <2>1 DEF StartEditing, TypeInv, TypeOK, Pages
    <3>2. ~debounce
      BY <2>1 DEF StartEditing
    <3> QED BY <1>1, <2>1, <3>1, <3>2 DEF StartEditing
  <2>2. CASE CancelEditing
    <3>1. /\ page'.body = page.baseline /\ page'.baseline = page.baseline
          /\ page'.prompt = page.prompt /\ page'.open = page.open /\ page'.shown = page.shown
          /\ ~page'.editing /\ ~debounce'
      BY <1>1, <2>2 DEF CancelEditing, TypeInv, TypeOK, Pages
    <3> QED BY <1>1, <2>2, <3>1 DEF CancelEditing
  <2> QED BY <1>12, <2>1, <2>2
<1>13. CASE RestoreDraft \/ DiscardDraft
  <2>1. CASE RestoreDraft
    BY <1>1, <2>1 DEF RestoreDraft, Prompted, NoText, TypeInv, TypeOK, Pages
  <2>2. CASE DiscardDraft
    BY <1>1, <2>2 DEF DiscardDraft, Prompted, NoText, TypeInv, TypeOK, Pages
  <2> QED BY <1>13, <2>1, <2>2
<1>14. CASE Type
  BY <1>1, <1>14 DEF Type, TypeInv, TypeOK, Pages, JobStates
<1>15. CASE BeginSave
  BY <1>1, <1>15 DEF BeginSave, TypeInv, TypeOK, Saves
<1>16. CASE SaveReachesServer
  BY <1>1, <1>16 DEF SaveReachesServer, TypeInv, TypeOK, Saves
<1>17. CASE SaveEnds
  <2>1. CASE save.here
    <3>1. /\ page'.body = page.body /\ page'.baseline = save.text /\ page'.prompt = 0
          /\ page'.shown = page.shown /\ page'.open = page.open /\ ~page'.editing
          /\ ~debounce' /\ stored' = 0 /\ save'.text = 0
      BY <1>1, <1>17, <2>1 DEF SaveEnds, NoSave, NoText, TypeInv, TypeOK, Pages
    <3> QED BY <1>1, <1>17, <3>1 DEF SaveEnds
  <2>2. CASE ~save.here
    BY <1>1, <1>17, <2>2 DEF SaveEnds, NoSave, NoText, TypeInv, TypeOK
  <2> QED BY <2>1, <2>2
<1>18. CASE SaveFails
  BY <1>1, <1>18 DEF SaveFails, NoSave, NoText
<1>19. CASE UNCHANGED vars
  BY <1>19 DEF vars
<1> QED
  BY <1>2, <1>3, <1>4, <1>5, <1>6, <1>7, <1>8, <1>9, <1>10, <1>11, <1>12, <1>13, <1>14, <1>15,
     <1>16, <1>17, <1>18, <1>19
  DEF Next

---------------------------------------------------------------------------
(* What becomes of a text that is not saved yet *)

LEMMA KeptInit == Init => KeptInv
<1> SUFFICES ASSUME Init PROVE KeptInv
  OBVIOUS
<1>1. RowWasReached
  BY DEF Init, RowWasReached, NoLoad, NoSave, NoText
<1>2. PromptComesLast /\ RestIsKept
  BY DEF Init, PromptComesLast, RestIsKept, Kept, RestingText, ClosedPage, NoLoad, NoText
<1> QED BY <1>1, <1>2, DraftInit DEF KeptInv

LEMMA KeptLock == KeptInv /\ LockAndClear => (RowWasReached /\ PromptComesLast /\ RestIsKept)'
<1> SUFFICES ASSUME KeptInv, LockAndClear
             PROVE  (RowWasReached /\ PromptComesLast /\ RestIsKept)'
  OBVIOUS
<1>1. ~page'.editing /\ page'.body = 0 /\ page'.prompt = 0
  BY DEF LockAndClear, ClosedPage, NoText
<1>2. load'.pc = "idle" /\ bodyCache' = 0 /\ server' = server /\ reached' = reached
  BY DEF LockAndClear, NoLoad, NoText, history
<1>3. reached \in Nat
  BY DEF KeptInv, DraftInv, TypeInv, TypeOK, Texts, NoText
<1> QED BY <1>1, <1>2, <1>3
        DEF LockAndClear, KeptInv, RowWasReached, PromptComesLast, RestIsKept, Kept, RestingText,
            NoText

\* A text at hand when a save ends was on the server, or is passed over.
LEMMA PassedOverFacts ==
    ASSUME KeptInv, SaveEnds, NEW n \in TextsAtHand
    PROVE  /\ n \in Nat /\ reached' = reached
           /\ n <= reached \/ n \in passedOver'
<1>1. n \in Nat /\ reached \in Nat
  BY DEF KeptInv, DraftInv, TextsWereTyped, TypeInv, TypeOK, TextsAtHand
<1> QED BY <1>1 DEF SaveEnds

LEMMA KeptStep == KeptInv /\ [Next]_vars => KeptInv'
<1> SUFFICES ASSUME KeptInv, [Next]_vars PROVE (RowWasReached /\ PromptComesLast /\ RestIsKept)'
  BY DraftStep DEF KeptInv
<1> DEFINE Goal == (RowWasReached /\ PromptComesLast /\ RestIsKept)'
<1>1. /\ TypeInv /\ TypeInv' /\ TypeOK /\ TypeOK'
      /\ TextsWereTyped /\ FormIsNewest /\ PageFollowsLoad /\ OwnerIsNewest
  BY DraftStep DEF KeptInv, DraftInv, TypeInv
<1>2. /\ {page.body, page.baseline, page.prompt, load.text, save.text} \subseteq Nat
      /\ {stored, server, bodyCache, reached} \subseteq Nat
      /\ \A j \in Jobs : job[j].text \in Nat
  BY <1>1 DEF TypeOK, Pages, LoadStates, Saves, JobStates, Texts, NoText
<1> USE DEF KeptInv, vaultVars, pageVars, storeVars, history, RowWasReached, PromptComesLast,
            RestIsKept, Kept, RestingText
<1>3. CASE Unlock
  BY <1>3 DEF Unlock
<1>4. CASE LockManually \/ AutoLockFires
  BY <1>4, KeptLock DEF LockManually, AutoLockFires
<1>5. ASSUME NEW j \in Jobs, DebounceFires(j) \/ PreLockFires(j) PROVE Goal
  BY <1>2, <1>5, EditorAssumption DEF DebounceFires, PreLockFires, StartJob
<1>6. ASSUME NEW j \in Jobs, DraftSteps(j) PROVE Goal
  <2>1. CASE Encrypted(j)
    BY <1>2, <2>1 DEF Encrypted
  <2>2. CASE PutDraft(j)
    <3>1. draftOwner # Load /\ stored' >= stored /\ stored' \in Nat
      BY <1>1, <1>2, <2>2, EditorAssumption DEF PutDraft, JobCurrent, OwnerIsNewest
    <3> QED BY <1>2, <2>2, <3>1 DEF PutDraft
  <2>3. CASE JobCancelled(j) \/ StoreRefuses(j)
    BY <1>2, <2>3 DEF JobCancelled, StoreRefuses
  <2> QED BY <1>6, <2>1, <2>2, <2>3 DEF DraftSteps
<1>7. CASE Open \/ Leave
  BY <1>1, <1>2, <1>7 DEF Open, Leave, ClosedPage, NoLoad, NoText, TypeOK, PageFollowsLoad, Saves
<1>8. CASE ListBodies
  BY <1>1, <1>2, <1>8 DEF ListBodies
<1>9. CASE StartLoad \/ Fetched \/ ReadDraft \/ LoadFails
  BY <1>1, <1>2, <1>9 DEF StartLoad, Fetched, ReadDraft, LoadFails, LoadStates, TypeOK,
                          PageFollowsLoad, NoText
<1>10. CASE ShowNote
  BY <1>1, <1>2, <1>10 DEF ShowNote, LoadStates, Pages, TypeOK, NoText, PageFollowsLoad
<1>11. CASE ShowDraft
  BY <1>1, <1>2, <1>11 DEF ShowDraft, LoadStates, Pages, TypeOK
<1>12. CASE StartEditing \/ CancelEditing
  BY <1>1, <1>2, <1>12 DEF StartEditing, CancelEditing, Pages, TypeOK
<1>13. CASE RestoreDraft
  BY <1>1, <1>2, <1>13 DEF RestoreDraft, Prompted, Pages, TypeOK, NoText
<1>14. CASE DiscardDraft
  BY <1>1, <1>2, <1>14 DEF DiscardDraft, Prompted, Pages, TypeOK, NoText
<1>15. CASE Type
  BY <1>1, <1>2, <1>15 DEF Type, Pages, TypeOK
<1>16. CASE BeginSave
  BY <1>1, <1>2, <1>16 DEF BeginSave, Saves, TypeOK
<1>17. CASE SaveReachesServer
  BY <1>1, <1>2, <1>17 DEF SaveReachesServer, Saves, TypeOK
<1>18. CASE SaveEnds
  <2>1. /\ RestingText' \in TextsAtHand /\ load' = load
        /\ page'.prompt \in {page.prompt, 0} /\ save'.pc = "idle"
    BY <1>1, <1>18 DEF SaveEnds, TextsAtHand, NoSave, NoText, Pages, TypeOK
  <2>2. load.text \in TextsAtHand /\ page.prompt \in TextsAtHand
    BY DEF TextsAtHand
  <2>3. Kept(RestingText)' /\ Kept(page.prompt)' /\ Kept(load.text)'
    BY <1>2, <1>18, <2>1, <2>2, PassedOverFacts
  <2>4. (RestingText <= reached \/ RestingText \in passedOver)'
    BY <1>18, <2>1, PassedOverFacts
  <2>5. RowWasReached' /\ PromptComesLast'
    BY <1>18, <2>1 DEF SaveEnds, NoText
  <2> QED BY <2>3, <2>4, <2>5
<1>19. CASE SaveFails
  BY <1>1, <1>2, <1>19 DEF SaveFails, NoSave, NoText
<1>20. CASE UNCHANGED vars
  BY <1>20 DEF vars
<1> QED
  BY <1>3, <1>4, <1>5, <1>6, <1>7, <1>8, <1>9, <1>10, <1>11, <1>12, <1>13, <1>14, <1>15, <1>16,
     <1>17, <1>18, <1>19, <1>20
  DEF Next

LEMMA WayInit == Init => WayInv
BY KeptInit DEF Init, WayInv, AutosaveComesFirst, TypedTextIsOnItsWay, Dirty, ClosedPage

\* A form gets dirty by typing only, which starts the autosave timer; from when that fires, the
\* newest text is put, refused, or handed to the save that overtakes.
LEMMA WayStep ==
    ASSUME WayInv, [Next]_vars
    PROVE  (AutosaveComesFirst /\ TypedTextIsOnItsWay)'
<1> DEFINE Goal == (AutosaveComesFirst /\ TypedTextIsOnItsWay)'
<1>1. /\ TypeInv /\ TypeInv' /\ TypeOK /\ TypeOK' /\ KeptInv
      /\ TextsWereTyped /\ FormIsNewest /\ PageFollowsLoad /\ OwnerIsNewest /\ RowWasReached
  BY DraftStep DEF WayInv, KeptInv, DraftInv, TypeInv
<1> USE DEF vaultVars, pageVars, storeVars, history, WayInv, AutosaveComesFirst,
            TypedTextIsOnItsWay, Dirty, Settled, OnItsWay
<1>2. CASE Unlock
  <2>1. ~page.editing
    BY <1>1, <1>2 DEF Unlock, TypeInv, NothingPrivateWhenLocked
  <2> QED BY <1>2, <2>1 DEF Unlock
<1>3. CASE LockManually \/ AutoLockFires
  BY <1>3 DEF LockManually, AutoLockFires, LockAndClear, ClosedPage
<1>4. ASSUME NEW j \in Jobs, DebounceFires(j) \/ PreLockFires(j) PROVE Goal
  <2>1. CASE Unlocked(core) /\ StartJob(j) /\ page' = page /\ core' = core /\ ~debounce'
    <3>1. /\ job'[j].pc = "encrypting" /\ job'[j].text = page.body
          /\ draftOwner' = j /\ job'[j].lease = LeaseOfTab
      BY <1>1, <2>1 DEF StartJob, TypeOK
    <3> QED BY <1>1, <2>1, <3>1, LeaseFacts DEF JobCurrent, TypeInv
  <2>2. CASE ~Dirty /\ page' = page /\ ~debounce'
    BY <2>2
  <2> QED BY <1>1, <1>4, <2>1, <2>2 DEF DebounceFires, PreLockFires, TypeInv,
                                        NothingPrivateWhenLocked
<1>5. ASSUME NEW j \in Jobs, DraftSteps(j) PROVE Goal
  <2>1. /\ page' = page /\ debounce' = debounce /\ preLock' = preLock /\ draftOwner' = draftOwner
        /\ edits' = edits /\ reached' = reached /\ passedOver' = passedOver /\ core' = core
    BY <1>5 DEF DraftSteps, Encrypted, PutDraft, JobCancelled, StoreRefuses
  <2>2. \A k \in Jobs : k # j => job'[k] = job[k]
    BY <1>1, <1>5 DEF DraftSteps, Encrypted, PutDraft, JobCancelled, StoreRefuses, TypeOK
  <2>3. Dirty => page.body = edits /\ edits \in Nat /\ stored \in 0..edits /\ job[j].text \in 0..edits
    BY <1>1 DEF FormIsNewest, TextsWereTyped, TypeOK
  <2>4. CASE Encrypted(j)
    BY <1>1, <2>1, <2>2, <2>4 DEF Encrypted, JobCurrent, TypeOK
  <2>5. CASE PutDraft(j)
    <3>1. stored' = job[j].text /\ draftOwner = j /\ job[j].text >= stored /\ refused' = refused
      BY <1>1, <2>5 DEF PutDraft, JobCurrent, OwnerIsNewest
    <3> QED BY <2>1, <2>3, <3>1 DEF JobCurrent
  <2>6. CASE JobCancelled(j)
    BY <2>1, <2>2, <2>6 DEF JobCancelled, JobCurrent
  <2>7. CASE StoreRefuses(j)
    <3>1. draftOwner = j /\ stored' = stored /\ refused' = (refused \/ job[j].text = edits)
      BY <2>7 DEF StoreRefuses, JobCurrent
    <3>2. Dirty => debounce \/ Settled(page.body) \/ job[j].text = page.body
      BY <3>1 DEF JobCurrent
    <3>3. Dirty => debounce \/ Settled(page.body)'
      BY <2>1, <2>3, <3>1, <3>2
    <3> QED BY <2>1, <3>3
  <2> QED BY <1>5, <2>4, <2>5, <2>6, <2>7 DEF DraftSteps
<1>6. CASE Open \/ Leave
  BY <1>6 DEF Open, Leave, ClosedPage
<1>7. CASE ListBodies \/ StartLoad \/ Fetched \/ LoadFails \/ ReadDraft
  BY <1>7 DEF ListBodies, StartLoad, Fetched, LoadFails, ReadDraft, JobCurrent
<1>8. CASE ShowNote
  BY <1>1, <1>8 DEF ShowNote, PageFollowsLoad, TypeOK, Pages
<1>9. CASE ShowDraft
  BY <1>1, <1>9 DEF ShowDraft, JobCurrent, TypeOK, Pages
<1>10. CASE StartEditing \/ CancelEditing \/ RestoreDraft \/ DiscardDraft
  BY <1>1, <1>10 DEF StartEditing, CancelEditing, RestoreDraft, DiscardDraft, Prompted, TypeOK,
                     Pages
<1>11. CASE Type
  BY <1>11 DEF Type
<1>12. CASE BeginSave \/ SaveFails
  BY <1>12 DEF BeginSave, SaveFails, JobCurrent
<1>13. CASE SaveReachesServer
  <2>1. reached' >= reached /\ reached \in Nat /\ reached' \in Nat
    BY <1>1, <1>13 DEF SaveReachesServer, TypeOK, Texts, NoText, Saves
  <2>2. page.body \in Nat
    BY <1>1 DEF TypeOK, Pages, Texts, NoText
  <2> QED BY <1>13, <2>1, <2>2 DEF SaveReachesServer, JobCurrent
<1>14. CASE SaveEnds
  <2>1. CASE save.here
    BY <1>1, <1>14, <2>1 DEF SaveEnds, TypeOK, Pages
  <2>2. CASE ~save.here
    <3>1. page.body <= reached \/ page.body \in passedOver'
      BY <1>1, <1>14, PassedOverFacts DEF TextsAtHand
    <3>2. page.body \in Nat /\ reached \in Nat
      BY <1>1 DEF TypeOK, Pages, Texts, NoText
    <3> QED BY <1>14, <2>2, <3>1, <3>2 DEF SaveEnds
  <2> QED BY <2>1, <2>2
<1>15. CASE UNCHANGED vars
  BY <1>15 DEF vars, JobCurrent
<1> QED
  BY <1>2, <1>3, <1>4, <1>5, <1>6, <1>7, <1>8, <1>9, <1>10, <1>11, <1>12, <1>13, <1>14, <1>15
     DEF Next

---------------------------------------------------------------------------
(* The theorems *)

\* Every variable keeps its type, for every step of the page, the store and the vault.
THEOREM TypeCorrect == Spec => []TypeOK
<1>1. TypeInv => TypeOK
  BY DEF TypeInv
<1> QED BY <1>1, TypeInit, TypeStep, PTL DEF Spec

\* After a lock nothing of a note is on the page, in the cache or about to appear: it is part
\* of the inductive invariant, with the types and the owner of the open vault.
THEOREM LockedPageIsClear == Spec => []NothingPrivateWhenLocked
<1>1. TypeInv => NothingPrivateWhenLocked
  BY DEF TypeInv
<1> QED BY <1>1, TypeInit, TypeStep, PTL DEF Spec

\* A draft is never replaced by an older one, whatever the page does and however many saves of
\* drafts overlap: the job that may write owns the draft and has its newest text.
THEOREM DraftsGoForward == Spec => DraftNeverGoesBack
<1>1. DraftInv /\ [Next]_vars => [stored # NoText /\ stored' # NoText => stored' >= stored]_stored
  <2> SUFFICES ASSUME DraftInv, [Next]_vars, stored' # stored, stored' # NoText
               PROVE  stored' >= stored
    OBVIOUS
  <2>1. PICK j \in Jobs : PutDraft(j)
    BY DEF Next, DraftSteps, Unlock, LockManually, AutoLockFires, LockAndClear, DebounceFires,
           PreLockFires, Encrypted, JobCancelled, StoreRefuses, Open, Leave,
           ListBodies, StartLoad, Fetched, ShowNote, ReadDraft, ShowDraft, LoadFails,
           StartEditing,
           Type, CancelEditing, RestoreDraft, DiscardDraft, BeginSave, SaveReachesServer,
           SaveEnds,
           SaveFails, storeVars, vars
  <2> QED BY <2>1 DEF PutDraft, JobCurrent, DraftInv, OwnerIsNewest
<1> QED BY <1>1, DraftInit, DraftStep, PTL DEF Spec, DraftNeverGoesBack

\* A text newer than anything the server was given is dirty or in the draft store, unless a save
\* has passed it over: whatever is typed, restored, cancelled or left while a save is under way.
THEOREM NoTextIsLost == Spec => []UnsavedTextIsKept
<1>1. KeptInv => UnsavedTextIsKept
  <2>1. KeptInv => page.body \in Nat /\ reached \in Nat
    BY DEF KeptInv, DraftInv, TypeInv, TypeOK, Pages, Texts, NoText
  <2> QED BY <2>1 DEF KeptInv, RestIsKept, Kept, RestingText, UnsavedTextIsKept, Dirty
<1> QED BY <1>1, KeptInit, KeptStep, PTL DEF Spec

\* The text of a dirty form has its autosave timer, or a save that nothing has overtaken, until
\* it is stored, refused or passed over.
THEOREM AutosaveNeverStops == Spec => []TypedTextIsOnItsWay
<1>1. WayInv => TypedTextIsOnItsWay
  BY DEF WayInv
<1>2. WayInv /\ [Next]_vars => WayInv'
  BY KeptStep, WayStep DEF WayInv
<1> QED BY <1>1, <1>2, WayInit, PTL DEF Spec

\* An automatic lock finds the text of a dirty form settled or being flushed, however slow the
\* encryption is.
THEOREM FlushIsInTime == Spec => DraftSavedBeforeAutoLock
<1>1. WayInv => (AutoLockFires /\ Dirty => Settled(page.body) \/ OnItsWay(page.body))
  BY DEF AutoLockFires, WayInv, AutosaveComesFirst, TypedTextIsOnItsWay
<1>2. WayInv /\ [Next]_vars => WayInv'
  BY KeptStep, WayStep DEF WayInv
<1> QED BY <1>1, <1>2, WayInit, PTL DEF Spec, DraftSavedBeforeAutoLock
===========================================================================
