------------------------- MODULE NotesIndexProofs -------------------------
(***************************************************************************)
(* The index of the notes and their rows, for any number of notes, calls   *)
(* and hooks.                                                              *)
(*                                                                         *)
(* IndexAgrees speaks of the moments between calls only.  To carry it      *)
(* through a call the induction follows the entry a call owes: of an       *)
(* undisturbed note at most one call owes it, that call holds the contents *)
(* of the row, and the index it sends has their entry; a restore finds the *)
(* entry of its first round again.  IndexNeverAhead needs that what calls  *)
(* have read or owe are contents the rows have had.                        *)
(***************************************************************************)
EXTENDS NotesIndex, TLAPS

\* A call that is about a row has a note, and a restore then has both its rounds to go.
CallsHaveNotes ==
    \A c \in Calls : call[c].pc \in {"loading", "ready", "writing"} =>
        call[c].kind \in NoteKinds /\ ~SecondRound(c)

SeenWasHad ==
    \A c \in Calls : call[c].pc \in {"seen", "patching"} =>
        \A n \in Notes :
            /\ call[c].seen[n] # NoEntry => call[c].seen[n].write \in had[n]
            /\ Untrashed \in call[c].seen[n].edits => n \in disturbed

OwedWasHad ==
    \A c \in Calls, n \in Notes :
        Owing(c, n) /\ call[c].contents # Absent => call[c].contents \in had[n]

OneOwes ==
    \A n \in Notes \ disturbed : \A c, d \in Calls : Owing(c, n) /\ Owing(d, n) => c = d

OwedIsRow ==
    \A n \in Notes \ disturbed : \A c \in Calls : Owing(c, n) => call[c].contents = rows[n]

SentHasOwed ==
    \A n \in Notes \ disturbed : \A c \in Calls :
        Owing(c, n) /\ call[c].pc = "patching" => call[c].seen[n].write = call[c].contents

\* The entry that the first round of a restore wrote is still there in the second.
SecondFinds ==
    \A n \in Notes \ disturbed : \A c \in Calls :
        Owing(c, n) /\ SecondRound(c) =>
            /\ index[n].write = call[c].contents
            /\ call[c].pc = "seen" => call[c].seen[n].write = call[c].contents

NotesInv ==
    /\ TypeOK
    /\ CallsHaveNotes
    /\ IndexNeverAhead
    /\ SeenWasHad
    /\ OwedWasHad
    /\ SentHasOwed
    /\ SecondFinds
    /\ OneOwes
    /\ OwedIsRow
    /\ IndexAgrees

\* What an entry is made of.
LEMMA EntryFacts ==
    /\ NoEntry \in Entries /\ NoEntry.write = Absent /\ NoEntry.edits = {}
    /\ \A w \in Contents : /\ EntryOf(w) \in Entries /\ EntryOf(w).edits = {}
                           /\ EntryOf(w).write = w /\ (EntryOf(w) # NoEntry => w # Absent)
  BY NotesAssumption DEF NoEntry, EntryOf, Entries, Contents, Absent

\* An edit leaves an entry its contents.
LEMMA EditedFacts ==
    ASSUME NEW e \in Entries, NEW X \in SUBSET (Labels \cup {Untrashed})
    PROVE  /\ Edited(e, X) \in Entries /\ Edited(e, X).write = e.write
           /\ Edited(e, X) # NoEntry => e # NoEntry
           /\ Edited(e, X).edits \subseteq e.edits \cup X
  BY EntryFacts DEF Edited, Entries

LEMMA NothingSeenType == NothingSeen \in Indexes /\ Absent \in Contents /\ 1 \in 0..2
  BY NotesAssumption, EntryFacts DEF NothingSeen, Indexes, Contents, Absent

LEMMA IdleType == Idle \in CallStates /\ Idle.pc = "idle" /\ Idle.kind = "organize"
                  /\ Idle.contents = Absent
  BY NothingSeenType DEF Idle, NewCall, CallStates, Kinds

LEMMA InitInv == Init => NotesInv
<1> SUFFICES ASSUME Init PROVE NotesInv
  OBVIOUS
<1>1. /\ rows \in [Notes -> Contents] /\ index \in Indexes
      /\ \A n \in Notes : rows[n] \in {Absent, 1} /\ index[n] = EntryOf(rows[n])
  <2>1. rows \in [Notes -> Contents] /\ \A n \in Notes : rows[n] \in {Absent, 1}
    BY NotesAssumption DEF Init, Contents, Absent
  <2> QED BY <2>1, EntryFacts DEF Init, Indexes
<1>2. Idle \in CallStates /\ Idle.pc = "idle" /\ Idle.kind = "organize"
  BY IdleType
<1>3. \A c \in Calls : call[c] = Idle
  BY DEF Init
<1>4. \A c \in Calls, n \in Notes : ~Owing(c, n)
  BY <1>2, <1>3 DEF Owing
<1>5. \A n \in Notes : had[n] = {rows[n]} \ {Absent}
  BY DEF Init
<1>6. TypeOK
  BY <1>1, <1>2, <1>3, <1>5, NotesAssumption DEF Init, TypeOK, NoteKinds
<1>7. IndexNeverAhead /\ IndexAgrees
  BY <1>1, <1>5, EntryFacts DEF IndexNeverAhead, IndexAgrees
<1> QED
  BY <1>2, <1>3, <1>4, <1>6, <1>7 DEF NotesInv, CallsHaveNotes, SeenWasHad,
     OwedWasHad, SentHasOwed, SecondFinds, OneOwes, OwedIsRow

\* Whatever a step does to one call, the others stay.
LEMMA OtherCalls ==
    ASSUME TypeOK, NEW c \in Calls, NEW new, call' = [call EXCEPT ![c] = new]
    PROVE  call'[c] = new /\ \A d \in Calls : d # c => call'[d] = call[d]
  BY DEF TypeOK

\* A step of a call that does not owe an entry, neither before nor after, and changes nothing
\* else that the invariant speaks of.
LEMMA FreeStep ==
    ASSUME NotesInv, NEW c \in Calls, NEW new \in CallStates,
           call' = [call EXCEPT ![c] = new],
           UNCHANGED <<rows, index, had, disturbed>>,
           writes' \in 1..MaxWrites, owner' \in [Hooks -> Calls \cup {Nobody}],
           \A n \in Notes : ~Owing(c, n),
           \/ new.pc \in {"idle", "loading", "ready", "writing"}
           \/ new.kind = "organize" /\ new.pc = "written",
           new.pc \in {"loading", "ready", "writing"} =>
               new.kind \in NoteKinds /\ ~(new.kind = "restore" /\ new.rounds = 1),
           new.kind = "delete" => new.contents = Absent,
           new.kind \in NoteKinds => new.note \in Notes
    PROVE  NotesInv'
<1>1. call'[c] = new /\ \A d \in Calls : d # c => call'[d] = call[d]
  BY OtherCalls DEF NotesInv
<1>2. \A d \in Calls, n \in Notes : Owing(d, n)' => d # c
  BY <1>1 DEF Owing
<1>3. \A d \in Calls, n \in Notes : d # c => (Owing(d, n)' <=> Owing(d, n))
  BY <1>1 DEF Owing
<1>4. \A d \in Calls, n \in Notes : Owing(d, n)' <=> Owing(d, n)
  BY <1>2, <1>3
<1>5. TypeOK'
  BY <1>1 DEF NotesInv, TypeOK
<1>6. CallsHaveNotes' /\ IndexNeverAhead' /\ SeenWasHad'
  BY <1>1 DEF NotesInv, CallsHaveNotes, SecondRound, IndexNeverAhead, SeenWasHad
<1>7. OwedWasHad' /\ SentHasOwed' /\ SecondFinds'
  BY <1>1, <1>2, <1>4 DEF NotesInv, OwedWasHad, SentHasOwed, SecondFinds, SecondRound
<1>8. OneOwes' /\ OwedIsRow' /\ IndexAgrees'
  BY <1>1, <1>2, <1>4 DEF NotesInv, OneOwes, OwedIsRow, IndexAgrees
<1> QED
  BY <1>5, <1>6, <1>7, <1>8 DEF NotesInv

\* Every call is a record of the right fields, and so is one with some of them replaced.
LEMMA CallType ==
    ASSUME TypeOK, NEW c \in Calls
    PROVE  call[c] \in CallStates
  BY DEF TypeOK

LEMMA StartKeepsInv ==
    ASSUME NotesInv, NEW c \in Calls, NEW h \in Hooks,
           StartOrganize(c, h) \/ \E kind \in NoteKinds, n \in Notes : Start(c, h, kind, n)
    PROVE  NotesInv'
<1>1. \A n \in Notes : ~Owing(c, n)
  BY DEF StartOrganize, Start, Capture, At, Owing
<1>2. owner' \in [Hooks -> Calls \cup {Nobody}] /\ writes' \in 1..MaxWrites
      /\ UNCHANGED <<rows, index, had, disturbed>>
  BY DEF NotesInv, TypeOK, StartOrganize, Start, Capture
<1>3. CASE StartOrganize(c, h)
  <2> DEFINE new == NewCall("written", "organize", Nobody, h, 1)
  <2>1. new \in CallStates /\ new.kind = "organize" /\ new.pc = "written"
    BY NothingSeenType DEF NewCall, CallStates, Kinds
  <2>2. call' = [call EXCEPT ![c] = new]
    BY <1>3 DEF StartOrganize, Capture
  <2> HIDE DEF new
  <2> QED
    BY <1>1, <1>2, <2>1, <2>2, FreeStep DEF NoteKinds
<1>4. ASSUME NEW kind \in NoteKinds, NEW n \in Notes, Start(c, h, kind, n)
      PROVE  NotesInv'
  <2> DEFINE new == NewCall(FirstPc(kind), kind, n, h, Rounds(kind))
  <2>1. FirstPc(kind) \in {"loading", "ready"}
    BY DEF FirstPc
  <2>2. /\ new \in CallStates /\ new.kind = kind /\ new.pc = FirstPc(kind)
        /\ new.contents = Absent /\ new.note = n /\ ~(new.kind = "restore" /\ new.rounds = 1)
    <3>1. Rounds(kind) \in 0..2 /\ ~(kind = "restore" /\ Rounds(kind) = 1)
      BY DEF Rounds
    <3> QED
      BY <2>1, <3>1, NothingSeenType DEF NewCall, CallStates, Kinds
  <2>3. call' = [call EXCEPT ![c] = new]
    BY <1>4 DEF Start, Capture
  <2> HIDE DEF new
  <2> QED
    BY <1>1, <1>2, <2>1, <2>2, <2>3, FreeStep
<1> QED
  BY <1>3, <1>4

LEMMA RowRequestKeepsInv ==
    ASSUME NotesInv, NEW c \in Calls, LoadRow(c) \/ SendRow(c)
    PROVE  NotesInv'
<1>1. call[c].pc \in {"loading", "ready"} /\ \A n \in Notes : ~Owing(c, n)
  BY DEF LoadRow, SendRow, At, Owing
<1>2. /\ call[c] \in CallStates /\ call[c].kind \in NoteKinds /\ call[c].note \in Notes
      /\ call[c].kind = "delete" => call[c].contents = Absent
      /\ ~(call[c].kind = "restore" /\ call[c].rounds = 1)
  BY <1>1, CallType DEF NotesInv, CallsHaveNotes, SecondRound, TypeOK
<1>3. owner' \in [Hooks -> Calls \cup {Nobody}] /\ UNCHANGED <<rows, index, had, disturbed>>
  BY DEF NotesInv, TypeOK, LoadRow, SendRow
<1>4. CASE LoadRow(c)
  <2> DEFINE new == [call[c] EXCEPT !.pc = "ready"]
  <2>1. /\ new \in CallStates /\ new.kind = call[c].kind /\ new.pc = "ready"
        /\ new.contents = call[c].contents /\ new.note = call[c].note /\ new.rounds = call[c].rounds
    BY <1>2 DEF CallStates
  <2>2. call' = [call EXCEPT ![c] = new] /\ writes' \in 1..MaxWrites
    BY <1>4 DEF LoadRow, Goto, NotesInv, TypeOK
  <2> HIDE DEF new
  <2> QED
    BY <1>1, <1>2, <1>3, <2>1, <2>2, FreeStep
<1>5. CASE SendRow(c)
  <2>1. writes' \in 1..MaxWrites /\ writes' \in Contents
    BY <1>5, NotesAssumption DEF SendRow, NotesInv, TypeOK, Contents, Absent
  <2> DEFINE sent == IF call[c].kind = "delete" THEN Absent ELSE writes'
             new  == [call[c] EXCEPT !.pc = "writing", !.contents = sent]
  <2>2. sent \in Contents
    BY <2>1, NotesAssumption DEF Contents, Absent
  <2>3. /\ new \in CallStates /\ new.kind = call[c].kind /\ new.pc = "writing"
        /\ new.contents = sent /\ new.note = call[c].note /\ new.rounds = call[c].rounds
    BY <1>2, <2>2 DEF CallStates
  <2>4. call' = [call EXCEPT ![c] = new]
    BY <1>5 DEF SendRow
  <2>5. new.kind = "delete" => new.contents = Absent
    BY <2>3
  <2> HIDE DEF new
  <2> QED
    BY <1>1, <1>2, <1>3, <2>1, <2>3, <2>4, <2>5, FreeStep
<1> QED
  BY <1>4, <1>5

LEMMA ServeRowKeepsInv ==
    ASSUME NotesInv, NEW c \in Calls, ServeRow(c)
    PROVE  NotesInv'
<1> DEFINE m   == call[c].note
           new == [call[c] EXCEPT !.pc = "written"]
<1>1. /\ call[c] \in CallStates /\ call[c].pc = "writing" /\ call[c].kind \in NoteKinds
      /\ m \in Notes /\ call[c].contents \in Contents
      /\ call[c].kind = "delete" => call[c].contents = Absent
      /\ ~SecondRound(c)
  BY CallType DEF ServeRow, At, NotesInv, CallsHaveNotes, TypeOK, CallStates
<1>2. /\ new \in CallStates /\ new.pc = "written" /\ new.kind = call[c].kind /\ new.note = m
      /\ new.contents = call[c].contents /\ new.seen = call[c].seen /\ new.rounds = call[c].rounds
  BY <1>1 DEF CallStates
<1>3. call' = [call EXCEPT ![c] = new]
  BY DEF ServeRow, Goto
<1>4. call'[c] = new /\ \A d \in Calls : d # c => call'[d] = call[d]
  BY <1>3, OtherCalls DEF NotesInv
<1>5. /\ rows' \in [Notes -> Contents] /\ rows'[m] = call[c].contents
      /\ \A n \in Notes : n # m => rows'[n] = rows[n]
  BY <1>1 DEF ServeRow, NotesInv, TypeOK
<1>6. /\ had' \in [Notes -> SUBSET (1..MaxWrites)]
      /\ \A n \in Notes : had[n] \subseteq had'[n]
      /\ \A n \in Notes : n # m => had'[n] = had[n]
      /\ call[c].contents # Absent => call[c].contents \in had'[m]
  <2>1. call[c].contents # Absent => call[c].contents \in 1..MaxWrites
    BY <1>1, NotesAssumption DEF Contents, Absent
  <2> QED
    BY <1>1, <2>1 DEF ServeRow, NotesInv, TypeOK
<1>7. /\ disturbed \subseteq disturbed' /\ disturbed' \subseteq Notes
      /\ m \notin disturbed' => \A d \in Calls \ {c} : ~Owing(d, m)
  BY <1>1 DEF ServeRow, NotesInv, TypeOK
<1>8. UNCHANGED <<index, owner, writes>>
  BY DEF ServeRow
<1> HIDE DEF new
<1>9. /\ \A d \in Calls, n \in Notes : d # c => (Owing(d, n)' <=> Owing(d, n))
      /\ \A n \in Notes : Owing(c, n)' <=> n = m
  BY <1>1, <1>2, <1>4 DEF Owing, NoteKinds
<1>10. TypeOK'
  BY <1>1, <1>2, <1>3, <1>4, <1>5, <1>6, <1>7, <1>8 DEF NotesInv, TypeOK
<1>11. CallsHaveNotes'
  BY <1>2, <1>4 DEF NotesInv, CallsHaveNotes, SecondRound
<1>12. IndexNeverAhead' /\ SeenWasHad'
  BY <1>2, <1>4, <1>6, <1>7, <1>8 DEF NotesInv, IndexNeverAhead, SeenWasHad
<1>13. OwedWasHad' /\ SentHasOwed' /\ SecondFinds'
  <2>1. OwedWasHad' /\ SentHasOwed'
    BY <1>2, <1>4, <1>6, <1>7, <1>9 DEF NotesInv, OwedWasHad, SentHasOwed
  <2>2. ~SecondRound(c)' /\ \A d \in Calls \ {c} : SecondRound(d)' <=> SecondRound(d)
    BY <1>1, <1>2, <1>4 DEF SecondRound
  <2> QED BY <1>4, <1>7, <1>8, <1>9, <2>1, <2>2 DEF NotesInv, SecondFinds
<1>14. OneOwes'
  BY <1>4, <1>7, <1>9 DEF NotesInv, OneOwes
<1>15. OwedIsRow'
  BY <1>1, <1>2, <1>4, <1>5, <1>7, <1>9 DEF NotesInv, OwedIsRow
<1>16. IndexAgrees'
  <2> SUFFICES ASSUME NEW n \in Notes \ disturbed', \A d \in Calls : ~Owing(d, n)'
               PROVE  index'[n].write = rows'[n] /\ index'[n].edits \subseteq Labels
    BY DEF IndexAgrees
  <2>1. n # m /\ n \in Notes \ disturbed
    BY <1>7, <1>9
  <2>2. \A d \in Calls : ~Owing(d, n)
    BY <1>1, <1>9 DEF Owing
  <2> QED
    BY <1>5, <1>8, <2>1, <2>2 DEF NotesInv, IndexAgrees
<1> QED
  BY <1>10, <1>11, <1>12, <1>13, <1>14, <1>15, <1>16 DEF NotesInv

\* What a call sends was read or is the row's, and keeps the note's entry undisturbed.
LEMMA NextIndexFacts ==
    ASSUME NotesInv, NEW c \in Calls, call[c].pc = "seen", EntryFound(c), NEW next \in NextIndex(c)
    PROVE  /\ next \in Indexes
           /\ \A n \in Notes : /\ next[n] # NoEntry => next[n].write \in had[n]
                               /\ Untrashed \in next[n].edits => n \in disturbed
           /\ \A n \in Notes \ disturbed : Owing(c, n) => next[n].write = call[c].contents
<1> DEFINE seen == call[c].seen
<1>1. /\ seen \in Indexes /\ call[c].contents \in Contents /\ call[c].kind \in Kinds
      /\ call[c].kind \in NoteKinds => call[c].note \in Notes
  BY CallType DEF NotesInv, TypeOK, CallStates
<1>2. \A n \in Notes : /\ seen[n] \in Entries /\ (seen[n] # NoEntry => seen[n].write \in had[n])
                       /\ Untrashed \in seen[n].edits => n \in disturbed
  BY <1>1 DEF NotesInv, SeenWasHad, Indexes
<1>3. CASE call[c].kind = "organize"
  <2>1. PICK drops \in SUBSET (Labels \cup {Untrashed}) :
            Untrashed \notin drops /\ next = [n \in Notes |-> Edited(seen[n], drops)]
    <3>1. PICK X \in {{}} \cup {{l} : l \in Labels} : next = [n \in Notes |-> Edited(seen[n], X)]
      BY <1>3 DEF NextIndex, Organized
    <3>2. X \in SUBSET (Labels \cup {Untrashed}) /\ Untrashed \notin X
      BY NotesAssumption
    <3> QED BY <3>1, <3>2
  <2>2. \A n \in Notes : /\ Edited(seen[n], drops) \in Entries
                         /\ Edited(seen[n], drops).write = seen[n].write
                         /\ Edited(seen[n], drops) # NoEntry => seen[n] # NoEntry
                         /\ Edited(seen[n], drops).edits \subseteq seen[n].edits \cup drops
    BY <1>2, EditedFacts
  <2> HIDE DEF seen
  <2>3. next \in Indexes /\ \A n \in Notes : next[n] = Edited(seen[n], drops)
    BY <2>1, <2>2 DEF Indexes
  <2>4. \A n \in Notes : ~Owing(c, n)
    BY <1>3 DEF Owing
  <2> QED BY <1>2, <2>1, <2>2, <2>3, <2>4
<1>4. CASE call[c].kind # "organize"
  <2> DEFINE m == call[c].note
             new == IF SecondRound(c) THEN Restored(c, seen[m]) ELSE EntryOf(call[c].contents)
  <2>1. m \in Notes /\ Owing(c, m) /\ \A n \in Notes : Owing(c, n) => n = m
    BY <1>1, <1>4 DEF Owing, Kinds
  <2>2. next = [seen EXCEPT ![m] = new]
    BY <1>1, <1>4, <2>1 DEF NextIndex, Indexes
  <2>3. /\ new \in Entries /\ (new # NoEntry => new.write \in had[m])
        /\ Untrashed \in new.edits => m \in disturbed
        /\ m \notin disturbed => new.write = call[c].contents
    <3>1. CASE SecondRound(c)
      <4>1. m \notin disturbed => seen[m].write = call[c].contents
        BY <2>1, <3>1 DEF NotesInv, SecondFinds
      <4>2. CASE seen[m].write = call[c].contents
        <5>1. new = seen[m]
          BY <3>1, <4>2 DEF Restored
        <5> HIDE DEF new
        <5> QED BY <1>2, <2>1, <4>2, <5>1
      <4>3. CASE seen[m].write # call[c].contents
        <5> DEFINE e == Edited(seen[m], {Untrashed})
        <5>1. {Untrashed} \in SUBSET (Labels \cup {Untrashed}) /\ seen[m] \in Entries
          BY <1>2, <2>1
        <5>2. e \in Entries /\ e.write = seen[m].write /\ (e # NoEntry => seen[m] # NoEntry)
          BY <5>1, EditedFacts
        <5>3. new = e /\ m \in disturbed
          BY <2>1, <3>1, <4>1, <4>3 DEF Restored
        <5> HIDE DEF e, new
        <5> QED BY <1>2, <2>1, <5>2, <5>3
      <4> QED BY <4>2, <4>3
    <3>2. CASE ~SecondRound(c)
      <4>1. call[c].contents # Absent => call[c].contents \in had[m]
        BY <2>1 DEF NotesInv, OwedWasHad
      <4> QED BY <1>1, <3>2, <4>1, EntryFacts
    <3> QED BY <3>1, <3>2
  <2> HIDE DEF new, m, seen
  <2>4. \A n \in Notes : next[n] = IF n = m THEN new ELSE seen[n]
    BY <1>1, <2>1, <2>2 DEF Indexes
  <2>5. next \in Indexes
    BY <1>1, <2>1, <2>2, <2>3 DEF Indexes
  <2> QED BY <1>2, <2>1, <2>3, <2>4, <2>5
<1> QED BY <1>3, <1>4

\* Reading the index and sending the next one change the call alone.
LEMMA IndexRequestKeepsInv ==
    ASSUME NotesInv, NEW c \in Calls, ReadIndex(c) \/ SendIndex(c)
    PROVE  NotesInv'
<1>1. /\ call[c] \in CallStates /\ call[c].seen \in Indexes
      /\ call[c].kind = "delete" => call[c].contents = Absent
      /\ call[c].kind \in NoteKinds => call[c].note \in Notes
      /\ call[c].contents \in Contents
  BY CallType DEF NotesInv, TypeOK, CallStates
<1>2. UNCHANGED <<rows, index, owner, writes, had, disturbed>>
  BY DEF ReadIndex, SendIndex
<1>3. PICK seen \in Indexes, pc \in {"seen", "patching"} :
          /\ call' = [call EXCEPT ![c].pc = pc, ![c].seen = seen]
          /\ \A n \in Notes : /\ seen[n] # NoEntry => seen[n].write \in had[n]
                              /\ Untrashed \in seen[n].edits => n \in disturbed
          /\ pc = "seen" => seen = index
          /\ pc = "patching" =>
                \A n \in Notes \ disturbed : Owing(c, n) => seen[n].write = call[c].contents
  <2>1. CASE ReadIndex(c)
    BY <2>1 DEF ReadIndex, NotesInv, TypeOK, IndexNeverAhead
  <2>2. CASE SendIndex(c)
    <3>1. PICK next \in NextIndex(c) : call' = [call EXCEPT ![c].pc = "patching", ![c].seen = next]
      BY <2>2 DEF SendIndex
    <3>2. call[c].pc = "seen" /\ EntryFound(c)
      BY <2>2 DEF SendIndex, At
    <3> QED BY <3>1, <3>2, NextIndexFacts
  <2> QED BY <2>1, <2>2
<1> DEFINE new == [call[c] EXCEPT !.pc = pc, !.seen = seen]
<1>4. call' = [call EXCEPT ![c] = new]
  BY <1>3
<1>5. call[c].pc \in {"written", "seen"}
  BY DEF ReadIndex, SendIndex, At
<1>6. /\ new \in CallStates /\ new.pc = pc /\ new.seen = seen /\ new.kind = call[c].kind
      /\ new.note = call[c].note /\ new.contents = call[c].contents /\ new.rounds = call[c].rounds
  BY <1>1, <1>3 DEF CallStates
<1>7. call'[c] = new /\ \A d \in Calls : d # c => call'[d] = call[d]
  BY <1>4, OtherCalls DEF NotesInv
<1> HIDE DEF new
<1>8. /\ \A d \in Calls, n \in Notes : Owing(d, n)' <=> Owing(d, n)
      /\ \A d \in Calls : SecondRound(d)' <=> SecondRound(d)
  BY <1>5, <1>6, <1>7 DEF Owing, SecondRound
<1>9. TypeOK'
  BY <1>1, <1>2, <1>4, <1>6, <1>7 DEF NotesInv, TypeOK
<1>10. CallsHaveNotes'
  BY <1>6, <1>7, <1>8 DEF NotesInv, CallsHaveNotes
<1>11. IndexNeverAhead' /\ SeenWasHad'
  <2>1. IndexNeverAhead'
    BY <1>2 DEF NotesInv, IndexNeverAhead
  <2>2. SeenWasHad'
    BY <1>2, <1>3, <1>6, <1>7 DEF NotesInv, SeenWasHad
  <2> QED BY <2>1, <2>2
<1>12. OwedWasHad'
  BY <1>2, <1>6, <1>7, <1>8 DEF NotesInv, OwedWasHad
<1>13. SentHasOwed'
  <2> SUFFICES ASSUME NEW n \in Notes \ disturbed, NEW d \in Calls, Owing(d, n),
                      call'[d].pc = "patching"
               PROVE  call'[d].seen[n].write = call'[d].contents
    BY <1>2, <1>8 DEF SentHasOwed
  <2>1. CASE d = c
    BY <1>3, <1>6, <1>7, <2>1
  <2>2. CASE d # c
    BY <1>7, <2>2 DEF NotesInv, SentHasOwed
  <2> QED BY <2>1, <2>2
<1>14. SecondFinds'
  <2> SUFFICES ASSUME NEW n \in Notes \ disturbed, NEW d \in Calls, Owing(d, n), SecondRound(d)
               PROVE  /\ index[n].write = call'[d].contents
                      /\ call'[d].pc = "seen" => call'[d].seen[n].write = call'[d].contents
    BY <1>2, <1>8 DEF SecondFinds
  <2>1. /\ index[n].write = call[d].contents
        /\ call[d].pc = "seen" => call[d].seen[n].write = call[d].contents
    BY DEF NotesInv, SecondFinds
  <2>2. CASE d = c
    BY <1>3, <1>6, <1>7, <2>1, <2>2
  <2>3. CASE d # c
    BY <1>7, <2>1, <2>3
  <2> QED BY <2>2, <2>3
<1>15. OneOwes' /\ OwedIsRow' /\ IndexAgrees'
  BY <1>2, <1>6, <1>7, <1>8 DEF NotesInv, OneOwes, OwedIsRow, IndexAgrees
<1> QED
  BY <1>9, <1>10, <1>11, <1>12, <1>13, <1>14, <1>15 DEF NotesInv

\* The index is replaced: the caller's entry is paid, every other entry that changes is disturbed.
LEMMA ServeIndexKeepsInv ==
    ASSUME NotesInv, NEW c \in Calls, ServeIndex(c)
    PROVE  NotesInv'
<1>1. /\ call[c] \in CallStates /\ call[c].seen \in Indexes /\ call[c].pc = "patching"
      /\ call[c].kind = "delete" => call[c].contents = Absent
      /\ call[c].kind \in NoteKinds => call[c].note \in Notes
      /\ call[c].kind \in Kinds
  BY CallType DEF NotesInv, TypeOK, CallStates, ServeIndex, At
<1> DEFINE again == [call[c] EXCEPT !.pc = "written", !.rounds = 1, !.seen = NothingSeen]
           new   == IF call[c].rounds = 2 THEN again ELSE Idle
<1>2. call' = [call EXCEPT ![c] = new]
  BY DEF ServeIndex, End
<1>3. call'[c] = new /\ \A d \in Calls : d # c => call'[d] = call[d]
  BY <1>2, OtherCalls DEF NotesInv
<1>4. /\ new \in CallStates
      /\ \/ /\ new.pc = "written" /\ new.kind = call[c].kind /\ new.note = call[c].note
            /\ new.contents = call[c].contents
         \/ new = Idle
  <2>1. CASE call[c].rounds = 2
    BY <1>1, <2>1, NothingSeenType DEF CallStates
  <2>2. CASE call[c].rounds # 2
    BY <2>2, IdleType
  <2> QED
    BY <2>1, <2>2
<1> HIDE DEF new
<1>5. /\ index' = call[c].seen /\ disturbed' = disturbed \cup Undone(c)
      /\ UNCHANGED <<rows, writes, had>> /\ owner' \in [Hooks -> Calls \cup {Nobody}]
  BY DEF ServeIndex, End, NotesInv, TypeOK
<1>6. /\ \A d \in Calls, n \in Notes : d # c => (Owing(d, n)' <=> Owing(d, n))
      /\ \A n \in Notes : Owing(c, n)' => Owing(c, n)
      /\ \A n \in Notes : Owing(c, n) <=> n \in Target(c)
  BY <1>1, <1>3, <1>4, IdleType DEF Owing, Target
<1>7. /\ new.kind = "delete" => new.contents = Absent
      /\ new.kind \in NoteKinds => new.note \in Notes
      /\ new.pc \in {"idle", "written"}
  BY <1>1, <1>4, IdleType DEF NoteKinds
<1>8. TypeOK'
  BY <1>1, <1>2, <1>3, <1>4, <1>5, <1>7 DEF NotesInv, TypeOK, Undone
<1>9. CallsHaveNotes' /\ IndexNeverAhead' /\ SeenWasHad'
  <2>1. CallsHaveNotes'
    BY <1>3, <1>7 DEF NotesInv, CallsHaveNotes, SecondRound
  <2>2. disturbed \subseteq disturbed'
    BY <1>5
  <2> QED BY <1>1, <1>3, <1>5, <1>7, <2>1, <2>2 DEF NotesInv, IndexNeverAhead, SeenWasHad
<1>10. \A n \in Notes : Owing(c, n)' => call'[c].contents = call[c].contents
  BY <1>3, <1>4, IdleType DEF Owing
<1>11. OwedWasHad' /\ SentHasOwed'
  BY <1>3, <1>5, <1>6, <1>7, <1>10 DEF NotesInv, OwedWasHad, SentHasOwed
<1>12. OneOwes' /\ OwedIsRow'
  BY <1>3, <1>5, <1>6, <1>10 DEF NotesInv, OneOwes, OwedIsRow
\* An undisturbed note's entry is what the caller owes, or keeps its contents.
<1>13. ASSUME NEW n \in Notes \ disturbed'
       PROVE  /\ n \in Notes \ disturbed
              /\ n \in Target(c) => index'[n].write = call[c].contents /\ call[c].contents = rows[n]
              /\ n \notin Target(c) => index'[n].write = index[n].write
  <2>1. n \in Notes \ disturbed /\ n \notin Undone(c)
    BY <1>5
  <2>2. CASE n \in Target(c)
    BY <1>1, <1>5, <1>6, <2>1, <2>2 DEF NotesInv, SentHasOwed, OwedIsRow
  <2>3. CASE n \notin Target(c)
    BY <1>5, <2>1, <2>3 DEF Undone
  <2> QED BY <2>1, <2>2, <2>3
<1>14. SecondFinds'
  <2> SUFFICES ASSUME NEW n \in Notes \ disturbed', NEW d \in Calls,
                      Owing(d, n)', SecondRound(d)'
               PROVE  /\ index'[n].write = call'[d].contents
                      /\ call'[d].pc = "seen" => call'[d].seen[n].write = call'[d].contents
    BY DEF SecondFinds
  <2>1. CASE d = c
    BY <1>3, <1>6, <1>7, <1>10, <1>13, <2>1
  <2>2. CASE d # c
    <3>1. call'[d] = call[d] /\ Owing(d, n) /\ SecondRound(d)
      BY <1>3, <1>6, <2>2 DEF SecondRound
    <3>2. n \notin Target(c)
      BY <1>6, <1>13, <2>2, <3>1 DEF NotesInv, OneOwes
    <3> QED BY <1>13, <3>1, <3>2 DEF NotesInv, SecondFinds
  <2> QED BY <2>1, <2>2
<1>15. IndexAgrees'
  <2> SUFFICES ASSUME NEW n \in Notes \ disturbed', \A d \in Calls : ~Owing(d, n)'
               PROVE  index'[n].write = rows'[n] /\ index'[n].edits \subseteq Labels
    BY DEF IndexAgrees
  <2>1. index'[n].edits \subseteq Labels
    <3>1. index'[n] \in Entries
      BY <1>8 DEF TypeOK, Indexes
    <3> QED BY <1>9, <3>1 DEF IndexNeverAhead, Entries
  <2>2. n \notin Target(c) => \A d \in Calls : ~Owing(d, n)
    BY <1>6
  <2> QED BY <1>5, <1>13, <2>1, <2>2 DEF NotesInv, IndexAgrees
<1> QED
  BY <1>8, <1>9, <1>11, <1>12, <1>14, <1>15 DEF NotesInv

\* A call that ends early leaves the note it owes an entry for disturbed.
LEMMA FailKeepsInv ==
    ASSUME NotesInv, NEW c \in Calls, Fail(c)
    PROVE  NotesInv'
<1>1. call' = [call EXCEPT ![c] = Idle]
  BY DEF Fail, End
<1>2. call'[c] = Idle /\ \A d \in Calls : d # c => call'[d] = call[d]
  BY <1>1, OtherCalls DEF NotesInv
<1>3. /\ \A d \in Calls, n \in Notes : d # c => (Owing(d, n)' <=> Owing(d, n))
      /\ \A n \in Notes : ~Owing(c, n)'
  BY <1>2, IdleType DEF Owing
<1>4. UNCHANGED <<rows, index, writes, had>> /\ owner' \in [Hooks -> Calls \cup {Nobody}]
  BY DEF Fail, End, NotesInv, TypeOK
<1>5. /\ disturbed \subseteq disturbed' /\ disturbed' \subseteq Notes
      /\ \A n \in Notes : Owing(c, n) => n \in disturbed'
  BY DEF Fail, NotesInv, TypeOK, Owing
<1>6. TypeOK'
  BY <1>1, <1>2, <1>4, <1>5, IdleType DEF NotesInv, TypeOK, NoteKinds
<1>7. CallsHaveNotes' /\ IndexNeverAhead' /\ SeenWasHad'
  BY <1>2, <1>4, <1>5, IdleType
     DEF NotesInv, CallsHaveNotes, SecondRound, IndexNeverAhead, SeenWasHad
<1>8. OwedWasHad' /\ SentHasOwed' /\ SecondFinds'
  BY <1>2, <1>3, <1>4, <1>5 DEF NotesInv, OwedWasHad, SentHasOwed, SecondFinds, SecondRound
<1>9. OneOwes' /\ OwedIsRow'
  BY <1>2, <1>3, <1>4, <1>5 DEF NotesInv, OneOwes, OwedIsRow
<1>10. IndexAgrees'
  BY <1>3, <1>4, <1>5 DEF NotesInv, IndexAgrees
<1> QED
  BY <1>6, <1>7, <1>8, <1>9, <1>10 DEF NotesInv

LEMMA StepKeepsInv == NotesInv /\ [Next]_vars => NotesInv'
<1> SUFFICES ASSUME NotesInv, [Next]_vars PROVE NotesInv'
  OBVIOUS
<1>1. ASSUME NEW c \in Calls, LoadRow(c) \/ SendRow(c) PROVE NotesInv'
  BY <1>1, RowRequestKeepsInv
<1>2. ASSUME NEW c \in Calls, ServeRow(c) PROVE NotesInv'
  BY <1>2, ServeRowKeepsInv
<1>3. ASSUME NEW c \in Calls, ReadIndex(c) \/ SendIndex(c) PROVE NotesInv'
  BY <1>3, IndexRequestKeepsInv
<1>4. ASSUME NEW c \in Calls, ServeIndex(c) PROVE NotesInv'
  BY <1>4, ServeIndexKeepsInv
<1>5. ASSUME NEW c \in Calls, Fail(c) PROVE NotesInv'
  BY <1>5, FailKeepsInv
<1>6. ASSUME NEW c \in Calls, NEW h \in Hooks,
             StartOrganize(c, h) \/ \E kind \in NoteKinds, n \in Notes : Start(c, h, kind, n)
      PROVE  NotesInv'
  BY <1>6, StartKeepsInv
<1>7. CASE UNCHANGED <<rows, index, call, writes, had, disturbed>>
           /\ owner' \in [Hooks -> Calls \cup {Nobody}]
  BY <1>7 DEF NotesInv, TypeOK, CallsHaveNotes, IndexNeverAhead, SeenWasHad, OwedWasHad,
     SentHasOwed, SecondFinds, SecondRound, OneOwes, OwedIsRow, IndexAgrees, Owing
<1>8. ASSUME NEW h \in Hooks, EndLease(h) PROVE NotesInv'
  BY <1>7, <1>8 DEF EndLease, NotesInv, TypeOK
<1>9. CASE UNCHANGED vars
  BY <1>7, <1>9 DEF vars, NotesInv, TypeOK
<1> QED
  BY <1>1, <1>2, <1>3, <1>4, <1>5, <1>6, <1>8, <1>9 DEF Next

LEMMA InvHolds == Spec => []NotesInv
  BY InitInv, StepKeepsInv, PTL DEF Spec

\* Rows, entries and calls keep their types, and every row's contents are contents it was given.
THEOREM TypeCorrect == Spec => []TypeOK
<1>1. NotesInv => TypeOK
  BY DEF NotesInv
<1> QED
  BY <1>1, InvHolds, PTL

\* Only overlapping calls, calls cut short and straddled writes of the whole index make an entry
\* disagree with its row, but for the labels that a deleted category or tag took off it
\* (use-notes.ts, use-categories-tags.ts).
THEOREM IndexAgreesWithRows == Spec => []IndexAgrees
<1>1. NotesInv => IndexAgrees
  BY DEF NotesInv
<1> QED
  BY <1>1, InvHolds, PTL

\* Even then no entry is of contents its row never had (persistMetadataUpdate, createNote,
\* restoreNoteFromTrash).
THEOREM IndexIsNeverAhead == Spec => []IndexNeverAhead
<1>1. NotesInv => IndexNeverAhead
  BY DEF NotesInv
<1> QED
  BY <1>1, InvHolds, PTL
===========================================================================
