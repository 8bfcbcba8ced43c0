-------------------------- MODULE BoardPageProofs --------------------------
(***************************************************************************)
(* For any number of edits: a locked vault shows no board, and a board     *)
(* that has settled is stored.                                             *)
(*                                                                         *)
(* That nothing is shown is not inductive: a load, a save or a link under  *)
(* way might bring the board back.  What stops them is the controller,     *)
(* which the lock leaves in nobody's hands.                                *)
(*                                                                         *)
(* That a settled board is stored needs to follow the edits of the draft   *)
(* from the payload that waits to the save that runs and to the row, and   *)
(* the key of the row through a link.                                      *)
(***************************************************************************)
EXTENDS BoardPage, TLAPS

NobodyOwns == ~unlocked => owner = "nobody"

NothingBegins == ~unlocked => load.pc = "idle" /\ claim.pc # "creating"

LockedInv == NothingShownWhenLocked /\ NobodyOwns /\ NothingBegins

LEMMA LockedInit == Init => LockedInv
BY DEF Init, LockedInv, NothingShownWhenLocked, NobodyOwns, NothingBegins, Idle

\* The board of a locked vault is not linked, so that its note is let go of.
LEMMA NoneIsNotLinked == None.linked = FALSE
BY DEF None

LEMMA LoadKeepsLocked ==
    ASSUME LockedInv, StartLoad \/ FetchBoard \/ ShowBoard \/ FailLoad
    PROVE  LockedInv'
<1> USE DEF LockedInv, NothingShownWhenLocked, NobodyOwns, NothingBegins
<1>1. CASE StartLoad
  BY <1>1 DEF StartLoad, hookVars
<1>2. CASE FetchBoard
  BY <1>2 DEF FetchBoard, hookVars
<1>3. CASE ShowBoard
  BY <1>3 DEF ShowBoard, SetBoard
<1>4. CASE FailLoad
  BY <1>4 DEF FailLoad, hookVars
<1> QED BY <1>1, <1>2, <1>3, <1>4

LEMMA SaveKeepsLocked ==
    ASSUME LockedInv, Edit \/ SaveSteps
    PROVE  LockedInv'
<1> USE DEF LockedInv, NothingShownWhenLocked, NobodyOwns, NothingBegins
<1>1. CASE Edit
  BY <1>1 DEF Edit, hookVars
<1>2. CASE StartSave
  BY <1>2 DEF StartSave, hookVars
<1>3. CASE SendSave
  BY <1>3 DEF SendSave, hookVars
<1>4. CASE ServeSave
  BY <1>4 DEF ServeSave, hookVars
<1>5. CASE EndSave
  BY <1>5 DEF EndSave, SetBoard
<1>6. CASE FailSave
  BY <1>6 DEF FailSave, hookVars
<1> QED BY <1>1, <1>2, <1>3, <1>4, <1>5, <1>6 DEF SaveSteps

LEMMA ClaimKeepsLocked ==
    ASSUME LockedInv,
           BeginClaim \/ NoteCreated \/ SendClaim \/ ServeClaim \/ EndClaim \/ FailClaim
    PROVE  LockedInv'
<1> USE DEF LockedInv, NothingShownWhenLocked, NobodyOwns, NothingBegins
<1>1. CASE BeginClaim
  BY <1>1 DEF BeginClaim, hookVars
<1>2. CASE NoteCreated
  BY <1>2 DEF NoteCreated, hookVars
<1>3. CASE SendClaim
  BY <1>3 DEF SendClaim, hookVars
<1>4. CASE ServeClaim
  BY <1>4 DEF ServeClaim, hookVars
<1>5. CASE EndClaim
  BY <1>5 DEF EndClaim, SetBoard
<1>6. CASE FailClaim
  BY <1>6 DEF FailClaim, hookVars, Idle
<1> QED BY <1>1, <1>2, <1>3, <1>4, <1>5, <1>6

LEMMA SyncKeepsLocked ==
    ASSUME LockedInv, LoadNote \/ SyncSteps
    PROVE  LockedInv'
<1> USE DEF LockedInv, NothingShownWhenLocked, NobodyOwns, NothingBegins
<1>1. CASE LoadNote
  BY <1>1, NoneIsNotLinked DEF LoadNote
<1>2. CASE RunSync
  BY <1>2, NoneIsNotLinked DEF RunSync
<1>3. CASE ServeNote
  BY <1>3 DEF ServeNote, hookVars
<1>4. CASE WriteBack
  BY <1>4 DEF WriteBack, hookVars
<1>5. CASE FailSync
  BY <1>5 DEF FailSync, hookVars
<1> QED BY <1>1, <1>2, <1>3, <1>4, <1>5 DEF SyncSteps

LEMMA LockKeepsLocked ==
    ASSUME LockedInv, Unlock \/ Lock
    PROVE  LockedInv'
<1> USE DEF LockedInv, NothingShownWhenLocked, NobodyOwns, NothingBegins
<1>1. CASE Unlock
  BY <1>1 DEF Unlock
<1>2. CASE Lock
  BY <1>2, NoneIsNotLinked DEF Lock, SetBoard, Idle
<1> QED BY <1>1, <1>2

LEMMA LockedInductive == LockedInv /\ [Next]_vars => LockedInv'
<1> SUFFICES ASSUME LockedInv, [Next]_vars PROVE LockedInv'
  OBVIOUS
<1>1. CASE UNCHANGED vars
  BY <1>1 DEF vars, hookVars, LockedInv, NothingShownWhenLocked, NobodyOwns, NothingBegins
<1>2. CASE Next
  BY <1>2, LockKeepsLocked, LoadKeepsLocked, SaveKeepsLocked, ClaimKeepsLocked, SyncKeepsLocked
  DEF Next
<1> QED BY <1>1, <1>2

\* Once the vault is locked neither the board, nor its draft, nor the text of its note is in
\* memory, and nothing that was under way brings them back (useOnVaultLocked of useKanban and of
\* useKanbanBoardToNoteSync).
THEOREM LockedShowsNothing == Spec => []NothingShownWhenLocked
<1>1. LockedInv => NothingShownWhenLocked
  BY DEF LockedInv
<1> QED BY LockedInit, LockedInductive, <1>1, PTL DEF Spec

---------------------------------------------------------------------------
(* Types *)

\* A board is shown only while the hook has one, and what was fetched is a board.
ShownHasBoard == draft # None => board # None

LoadedIsBoard == load.pc = "decrypting" => load.board \in Boards

TypeInv == TypeOK /\ ShownHasBoard /\ LoadedIsBoard

LEMMA NoneIsNoBoard == None \notin Boards /\ None.linked = FALSE
BY DEF None, Boards

LEMMA BoardFields ==
    ASSUME NEW b \in Boards
    PROVE  b.edits \in EditSets /\ b.linked \in BOOLEAN /\ b.key \in {"board", "note"}
BY DEF Boards

LEMMA LinkedBoard ==
    ASSUME NEW b \in Boards
    PROVE  /\ Linked(b) \in Boards
           /\ Linked(b).edits = b.edits
           /\ Linked(b).key = "note"
BY DEF Linked, Boards

LEMMA CallShapes ==
    /\ Idle = [pc |-> "idle", board |-> None]
    /\ NoSync = [pc |-> "idle", board |-> None, live |-> FALSE]
BY DEF Idle, NoSync

LEMMA SetBoardType ==
    ASSUME TypeOK, NEW b \in Boards \cup {None}, SetBoard(b)
    PROVE  /\ board' = b
           /\ noteBody' \in EditSets \cup {Unknown}
           /\ sync' \in [pc : {"idle", "sending", "served"}, board : Boards \cup {None},
                         live : BOOLEAN]
           /\ sync'.pc = sync.pc /\ sync'.board = sync.board
BY DEF SetBoard, TypeOK

LEMMA SetBoardNone ==
    ASSUME TypeOK, SetBoard(None)
    PROVE  /\ board' = None
           /\ noteBody' \in EditSets \cup {Unknown}
           /\ sync' \in [pc : {"idle", "sending", "served"}, board : Boards \cup {None},
                         live : BOOLEAN]
           /\ sync'.pc = sync.pc /\ sync'.board = sync.board
BY DEF SetBoard, TypeOK

LEMMA TypeInit == Init => TypeInv
<1> SUFFICES ASSUME Init PROVE TypeInv
  OBVIOUS
<1>1. PICK l \in StartsLinked :
        row = [edits |-> {}, linked |-> l, key |-> IF l THEN "note" ELSE "board"]
  BY DEF Init
<1>2. l \in BOOLEAN
  BY BoardAssumption
<1>3. {} \in EditSets
  BY DEF EditSets
<1>4. row \in Boards
  BY <1>1, <1>2, <1>3 DEF Boards
<1>5. edits \in 0..MaxEdits
  BY BoardAssumption DEF Init
<1>6. /\ \A call \in {job, claim, sync} : call.pc = "idle" <=> call.board = None
      /\ {board, draft, pending} \subseteq Boards \cup {None}
  BY CallShapes DEF Init
<1>7. {failed, overtaken} \subseteq BOOLEAN /\ unlocked \in BOOLEAN
  BY DEF Init
<1>8. /\ job \in [pc : {"idle", "encrypting", "sent", "served"}, board : Boards \cup {None}]
      /\ load \in [pc : {"idle", "fetching", "decrypting", "done", "failed", "stuck"},
                   board : Boards \cup {None}]
      /\ claim \in [pc : {"idle", "creating", "encrypting", "sent", "served"},
                    board : Boards \cup {None}]
      /\ sync \in [pc : {"idle", "sending", "served"}, board : Boards \cup {None},
                   live : BOOLEAN]
  BY CallShapes DEF Init
<1>9. owner \in {"nobody", "load", "save", "claim"} /\ noteBody \in EditSets \cup {Unknown}
      /\ note \in EditSets
  BY <1>3 DEF Init
<1>10. TypeOK
  BY <1>4, <1>5, <1>6, <1>7, <1>8, <1>9 DEF TypeOK
<1> QED
  BY <1>10, CallShapes DEF Init, TypeInv, ShownHasBoard, LoadedIsBoard

LEMMA TypeLock == TypeInv /\ Lock => TypeInv'
<1> SUFFICES ASSUME TypeInv, Lock PROVE TypeInv'
  OBVIOUS
<1>1. SetBoard(None)
  BY DEF Lock
<1>2. failed' \in BOOLEAN
  BY DEF Lock, TypeInv, TypeOK
<1>3. /\ load' \in [pc : {"idle", "fetching", "decrypting", "done", "failed", "stuck"},
                    board : Boards \cup {None}]
      /\ load'.pc = "idle"
  BY CallShapes DEF Lock
<1>4. /\ claim' \in [pc : {"idle", "creating", "encrypting", "sent", "served"},
                     board : Boards \cup {None}]
      /\ claim'.pc = "idle" <=> claim'.board = None
  BY CallShapes DEF Lock, TypeInv, TypeOK
<1>5. /\ board' = None
      /\ noteBody' \in EditSets \cup {Unknown}
      /\ sync' \in [pc : {"idle", "sending", "served"}, board : Boards \cup {None},
                    live : BOOLEAN]
      /\ sync'.pc = sync.pc /\ sync'.board = sync.board
  BY <1>1, SetBoardNone DEF TypeInv
<1>6. \A call \in {job', claim', sync'} : call.pc = "idle" <=> call.board = None
  BY <1>4, <1>5 DEF Lock, TypeInv, TypeOK
<1>7. /\ unlocked' = FALSE /\ draft' = None /\ owner' = "nobody"
      /\ UNCHANGED <<pending, job, serverVars, edits, overtaken>>
  BY DEF Lock
<1>8. TypeOK'
  BY <1>2, <1>3, <1>4, <1>5, <1>6, <1>7 DEF serverVars, TypeInv, TypeOK
<1> QED
  BY <1>3, <1>8 DEF Lock, TypeInv, ShownHasBoard, LoadedIsBoard

LEMMA TypeShow == TypeInv /\ ShowBoard => TypeInv'
<1> SUFFICES ASSUME TypeInv, ShowBoard PROVE TypeInv'
  OBVIOUS
<1>1. load.board \in Boards /\ SetBoard(load.board)
  BY DEF ShowBoard, TypeInv, LoadedIsBoard
<1> QED
  BY <1>1, SetBoardType, NoneIsNoBoard
  DEF ShowBoard, TypeInv, TypeOK, ShownHasBoard, LoadedIsBoard, history, serverVars

LEMMA TypeEdit == TypeInv /\ Edit =>
    /\ TypeInv'
    /\ draft' \in Boards
    /\ pending' \in Boards
    /\ pending'.edits = draft'.edits
<1> SUFFICES ASSUME TypeInv, Edit
             PROVE  /\ TypeInv'
                    /\ draft' \in Boards
                    /\ pending' \in Boards
                    /\ pending'.edits = draft'.edits
  OBVIOUS
<1>1. draft \in Boards /\ board \in Boards
  BY DEF Edit, TypeInv, TypeOK, ShownHasBoard
<1>2. edits' \in 1..MaxEdits
  BY BoardAssumption DEF Edit, TypeInv, TypeOK
<1>3. draft.edits \cup {edits'} \in EditSets
  BY <1>1, <1>2, BoardFields DEF EditSets
<1>4. draft' \in Boards
  BY <1>1, <1>3 DEF Edit, Boards
<1>5. pending' \in Boards /\ pending'.edits = draft'.edits
  BY <1>1, <1>4, BoardFields DEF Edit, Enqueue, Boards
<1>6. edits' \in 0..MaxEdits
  BY <1>2, BoardAssumption
<1> QED
  BY <1>1, <1>4, <1>5, <1>6, NoneIsNoBoard
  DEF Edit, TypeInv, TypeOK, ShownHasBoard, LoadedIsBoard, hookVars, history, serverVars

LEMMA TypeStartSave == TypeInv /\ StartSave => TypeInv'
<1> SUFFICES ASSUME TypeInv, StartSave PROVE TypeInv'
  OBVIOUS
<1> USE DEF StartSave, TypeInv, TypeOK, ShownHasBoard, LoadedIsBoard, hookVars, history, serverVars
<1>1. CASE unlocked
  <2>1. job' = [pc |-> "encrypting", board |-> pending] /\ pending \in Boards
    BY <1>1
  <2> QED BY <1>1, <2>1, NoneIsNoBoard
<1>2. CASE ~unlocked
  BY <1>2
<1> QED BY <1>1, <1>2

LEMMA TypeEndSave == TypeInv /\ EndSave => TypeInv'
<1> SUFFICES ASSUME TypeInv, EndSave PROVE TypeInv'
  OBVIOUS
<1>1. job.board \in Boards /\ SetBoard(job.board)
  BY DEF EndSave, TypeInv, TypeOK
<1>2. draft' \in Boards \cup {None}
  BY <1>1 DEF EndSave, Mounted, TypeInv, TypeOK
<1> QED
  BY <1>1, <1>2, SetBoardType, NoneIsNoBoard, CallShapes
  DEF EndSave, TypeInv, TypeOK, ShownHasBoard, LoadedIsBoard, history, serverVars

LEMMA TypeServeClaim == TypeInv /\ ServeClaim => TypeInv'
<1> SUFFICES ASSUME TypeInv, ServeClaim PROVE TypeInv'
  OBVIOUS
<1>1. row' \in Boards
  BY LinkedBoard DEF ServeClaim, TypeInv, TypeOK
<1>2. overtaken' \in BOOLEAN
  BY DEF ServeClaim, TypeInv, TypeOK
<1> QED
  BY <1>1, <1>2 DEF ServeClaim, TypeInv, TypeOK, ShownHasBoard, LoadedIsBoard, hookVars

LEMMA TypeEndClaim == TypeInv /\ EndClaim => TypeInv'
<1> SUFFICES ASSUME TypeInv, EndClaim PROVE TypeInv'
  OBVIOUS
<1>1. Linked(claim.board) \in Boards /\ SetBoard(Linked(claim.board))
  BY LinkedBoard DEF EndClaim, TypeInv, TypeOK
<1>2. draft' \in Boards \cup {None}
  BY <1>1 DEF EndClaim, Mounted, TypeInv, TypeOK
<1> QED
  BY <1>1, <1>2, SetBoardType, NoneIsNoBoard, CallShapes
  DEF EndClaim, TypeInv, TypeOK, ShownHasBoard, LoadedIsBoard, history, serverVars

LEMMA TypeInductive == TypeInv /\ [Next]_vars => TypeInv'
<1> SUFFICES ASSUME TypeInv, [Next]_vars PROVE TypeInv'
  OBVIOUS
<1> USE DEF TypeInv, TypeOK, ShownHasBoard, LoadedIsBoard, hookVars, serverVars, history
<1>1. CASE Unlock
  BY <1>1 DEF Unlock
<1>2. CASE StartLoad \/ FetchBoard \/ FailLoad
  BY <1>2 DEF StartLoad, FetchBoard, FailLoad
<1>3. CASE SendSave
  BY <1>3 DEF SendSave
<1>14. CASE ServeSave
  <2>1. row' \in Boards
    BY <1>14 DEF ServeSave
  <2> QED BY <1>14, <2>1 DEF ServeSave
<1>15. CASE FailSave
  BY <1>15, CallShapes DEF FailSave
<1>4. CASE BeginClaim
  BY <1>4 DEF BeginClaim
<1>5. CASE NoteCreated
  BY <1>5, BoardFields DEF NoteCreated
<1>6. CASE SendClaim
  BY <1>6 DEF SendClaim
<1>16. CASE FailClaim
  BY <1>16, CallShapes DEF FailClaim
<1>7. CASE LoadNote
  BY <1>7 DEF LoadNote
<1>8. CASE RunSync
  BY <1>8, BoardFields, NoneIsNoBoard DEF RunSync
<1>9. CASE ServeNote
  BY <1>9, BoardFields DEF ServeNote
<1>10. CASE WriteBack
  BY <1>10, CallShapes DEF WriteBack, Enqueue
<1>11. CASE FailSync
  BY <1>11, CallShapes DEF FailSync
<1>12. CASE UNCHANGED vars
  BY <1>12 DEF vars
<1>13. CASE Next
  BY <1>1, <1>2, <1>3, <1>4, <1>5, <1>6, <1>7, <1>8, <1>9, <1>10, <1>11, <1>13, <1>14, <1>15, <1>16,
     TypeLock, TypeShow,
     TypeEdit, TypeStartSave, TypeEndSave, TypeServeClaim, TypeEndClaim
  DEF Next, SaveSteps, SyncSteps
<1> QED BY <1>12, <1>13

---------------------------------------------------------------------------
(* A settled board is stored *)

\* While no board is shown nothing is under way that could change the row.
NoDraft == draft = None => Settled /\ board = None

DraftIsLoaded == draft # None => load.pc = "done"

LoadedIsRow == load.pc = "decrypting" => load.board = row

\* The newest of the payload that waits, the save that runs and the row has the draft's edits.
LastSaveIsDraft ==
    /\ pending # None => pending.edits = draft.edits
    /\ pending = None /\ job.pc # "idle" => job.board.edits = draft.edits
    /\ draft # None /\ pending = None /\ job.pc \in {"idle", "served"} => row.edits = draft.edits

\* The hook holds the key of the row, except between the PUT of a link and its end.
KeysAgree ==
    /\ draft # None /\ claim.pc # "served" => row.key = board.key
    /\ claim.pc = "served" => row.key = "note"
    /\ job.pc = "served" /\ owner = "save" /\ claim.pc # "served" => job.board.key = row.key

StoredInv ==
    ~disturbed => NoDraft /\ DraftIsLoaded /\ LoadedIsRow /\ LastSaveIsDraft /\ KeysAgree

LEMMA StoredInit == Init => StoredInv
BY CallShapes DEF Init, StoredInv, NoDraft, Settled, DraftIsLoaded, LoadedIsRow, LastSaveIsDraft,
   KeysAgree

LEMMA StoredStep ==
    ASSUME TypeInv, TypeInv', StoredInv, [Next]_vars
    PROVE  StoredInv'
<1> SUFFICES ASSUME ~disturbed' PROVE StoredInv'
  BY DEF StoredInv
<1> USE DEF disturbed
<1>1. failed' = FALSE /\ overtaken' = FALSE
  BY DEF TypeInv, TypeOK
<1>2. failed \in BOOLEAN /\ overtaken \in BOOLEAN
  BY DEF TypeInv, TypeOK
<1>3. failed = FALSE /\ overtaken = FALSE
  BY <1>1, <1>2
  DEF Next, SaveSteps, SyncSteps, vars, history, Unlock, Lock, StartLoad, FetchBoard, ShowBoard,
      FailLoad, Edit, StartSave, SendSave, ServeSave, EndSave, FailSave, BeginClaim,
      NoteCreated, SendClaim, ServeClaim, EndClaim, FailClaim, LoadNote, RunSync, ServeNote,
      WriteBack, FailSync
<1>4. NoDraft /\ DraftIsLoaded /\ LoadedIsRow /\ LastSaveIsDraft /\ KeysAgree
  BY <1>3 DEF StoredInv
<1>5. /\ job \in [pc : {"idle", "encrypting", "sent", "served"}, board : Boards \cup {None}]
      /\ load \in [pc : {"idle", "fetching", "decrypting", "done", "failed", "stuck"},
                   board : Boards \cup {None}]
      /\ claim \in [pc : {"idle", "creating", "encrypting", "sent", "served"},
                    board : Boards \cup {None}]
      /\ sync \in [pc : {"idle", "sending", "served"}, board : Boards \cup {None},
                   live : BOOLEAN]
      /\ row \in Boards
      /\ draft # None => draft \in Boards
      /\ job.pc # "idle" => job.board \in Boards
      /\ claim.pc # "idle" => claim.board \in Boards
      /\ sync.pc # "idle" => sync.board \in Boards
  BY DEF TypeInv, TypeOK
<1> USE <1>4, <1>5
    DEF NoDraft, Settled, DraftIsLoaded, LoadedIsRow, LastSaveIsDraft, KeysAgree, StoredInv,
        hookVars, serverVars, history
<1>6. CASE Unlock
  BY <1>6 DEF Unlock
<1>7. CASE Lock
  BY <1>7, <1>1, CallShapes DEF Lock, SetBoard
<1>8. CASE StartLoad
  BY <1>8 DEF StartLoad
<1>9. CASE FetchBoard
  BY <1>9 DEF FetchBoard
<1>10. CASE ShowBoard
  BY <1>10 DEF ShowBoard, SetBoard
<1>11. CASE FailLoad
  BY <1>11 DEF FailLoad
<1>12. CASE Edit
  BY <1>12, TypeEdit, NoneIsNoBoard DEF Edit
<1>13. CASE StartSave
  BY <1>13, <1>1 DEF StartSave
<1>14. CASE SendSave
  BY <1>14 DEF SendSave
<1>15. CASE ServeSave
  BY <1>15 DEF ServeSave
<1>16. CASE EndSave
  BY <1>16, CallShapes DEF EndSave, SetBoard, Mounted
<1>17. CASE FailSave
  BY <1>17, <1>1 DEF FailSave
<1>18. CASE BeginClaim
  BY <1>18 DEF BeginClaim
<1>19. CASE NoteCreated
  BY <1>19 DEF NoteCreated
<1>20. CASE SendClaim
  BY <1>20 DEF SendClaim
<1>21. CASE ServeClaim
  BY <1>21, <1>1, LinkedBoard DEF ServeClaim
<1>22. CASE EndClaim
  BY <1>22, LinkedBoard, CallShapes DEF EndClaim, SetBoard, Mounted
<1>23. CASE FailClaim
  BY <1>23, <1>1 DEF FailClaim
<1>24. CASE LoadNote
  BY <1>24 DEF LoadNote
<1>25. CASE RunSync
  BY <1>25, NoneIsNoBoard DEF RunSync
<1>26. CASE ServeNote
  BY <1>26 DEF ServeNote
<1>27. CASE WriteBack
  BY <1>27, <1>1, CallShapes, NoneIsNoBoard DEF WriteBack, Enqueue
<1>28. CASE FailSync
  BY <1>28, <1>1 DEF FailSync
<1>29. CASE UNCHANGED vars
  BY <1>29 DEF vars
<1> QED
  BY <1>6, <1>7, <1>8, <1>9, <1>10, <1>11, <1>12, <1>13, <1>14, <1>15, <1>16, <1>17, <1>18, <1>19,
     <1>20, <1>21, <1>22, <1>23, <1>24, <1>25, <1>26, <1>27, <1>28, <1>29
  DEF Next, SaveSteps, SyncSteps

BoardInv == TypeInv /\ StoredInv

LEMMA AlwaysBoardInv == Spec => []BoardInv
<1>1. Init => BoardInv
  BY TypeInit, StoredInit DEF BoardInv
<1>2. BoardInv /\ [Next]_vars => BoardInv'
  BY TypeInductive, StoredStep DEF BoardInv
<1> QED BY <1>1, <1>2, PTL DEF Spec

\* Drafts, payloads, saves, links and syncs keep their shape, and a call under way always has a
\* board (use-kanban.ts, coalesced-task-queue.ts, use-kanban-board-to-note-sync.ts).
THEOREM TypeCorrect == Spec => []TypeOK
<1>1. BoardInv => TypeOK
  BY DEF BoardInv, TypeInv
<1> QED BY AlwaysBoardInv, <1>1, PTL

\* Coalescing and waiting lose no edit: unless a call failed or overtook an edit, a board with
\* nothing under way is stored as it is shown, under the key that useKanban will save it with
\* (coalesced-task-queue.ts, persistBoard and claimBoardForNote of use-kanban.ts).
THEOREM SettledIsStored == Spec => []SettledBoardIsStored
<1>1. BoardInv => SettledBoardIsStored
  BY CallShapes
  DEF BoardInv, StoredInv, LastSaveIsDraft, KeysAgree, SettledBoardIsStored, Settled
<1> QED BY AlwaysBoardInv, <1>1, PTL
============================================================================
