---------------------------- MODULE NoteBoardSync ----------------------------
(***************************************************************************)
(* The text of a note and the board bound to it: how the items of the text  *)
(* are parsed into cards (lib/notes/kanban-from-note.ts), how a changed text *)
(* is applied to the board and a changed board is written back into the     *)
(* text (lib/notes/kanban-sync.ts), and the edits of features/kanban/       *)
(* board.tsx that lead there.  Each edit is followed by its sync: what the  *)
(* hooks do between the two is the subject of BoardPage.                    *)
(*                                                                         *)
(* A text is a sequence of lines.  A line is a record: its sort is "item"   *)
(* (a bullet or checkbox at the left margin), "sub" (the same, indented by  *)
(* two spaces), "text", "blank", "quote" or "fence".  The title of an item  *)
(* or a card is a name with the [TAGS] in front of it.  Due date, priority  *)
(* and tags of a card are lines of its description; labels, colours, dates  *)
(* and the order of the cards of a column are left out.                     *)
(***************************************************************************)
EXTENDS Naturals, SequencesExt, FiniteSetsExt

CONSTANTS
    Titles,         \* the names of items and cards, with a key that is not empty
    KeyOf,          \* normalizeKanbanSourceText, which drops all tags, for each name
    Tags,           \* the titles of columns, in capitals; each can be read as a tag
    NewTag,         \* what a new column is called
    StartColumns,   \* createDefaultKanbanColumns, a sequence
    Prose,          \* the lines that are neither list lines nor blank
    Bodies,         \* the texts from which a board is generated
    Boards,         \* the cards of boards that become bound to a new note
    NoteLines,      \* the lines that an edit of the note puts in
    Descriptions,   \* the descriptions that an edit of a card sets
    TypedTags,      \* the tags that an edit of a card puts in front of its name
    MaxEdits,       \* bounds the edits
    MaxLines        \* bounds the text before an edit of the note

VARIABLES
    columns,    \* the board's columns in their order: [id, tag]
    cards,      \* the board's cards: [id, col, tags, title, key, desc]
    body,       \* the note's text
    by,         \* what was edited last: "none", "board" or "note"
    edited,     \* the cards as the last edit of the board left them
    source,     \* the text that the last edit found
    edits       \* the number of edits so far

syncVars == <<columns, cards, body, by, edited, source, edits>>

Null == "none"

Boxes == {"list", "open", "done"}

Item(box, tags, title) == [sort |-> "item", box |-> box, tags |-> tags, title |-> title]
Blank == [sort |-> "blank"]

Lines == [sort : {"item", "sub"}, box : Boxes, tags : Seq(Tags), title : Titles]
             \cup Prose \cup {Blank}

Texts == Seq(Lines)

Keys == {KeyOf[t] : t \in Titles}

\* A description is trimmed before it is kept, and no two blank lines follow each other.
Trimmed(lines) ==
    /\ lines # <<>> => lines[1].sort # "blank" /\ lines[Len(lines)].sort # "blank"
    /\ \A i \in 2..Len(lines) : lines[i] # Blank \/ lines[i - 1] # Blank

Column == [id : Nat, tag : Tags]

Cards == [id : Nat, col : Nat, tags : Seq(Tags), title : Titles, key : Keys \cup {Null},
          desc : Texts]

ASSUME SyncAssumption ==
    /\ Null \notin Keys
    /\ NewTag \in Tags /\ TypedTags \subseteq Seq(Tags)
    /\ StartColumns \in Seq(Column) /\ StartColumns # <<>>
    /\ \A i, j \in DOMAIN StartColumns : StartColumns[i].id = StartColumns[j].id => i = j
    /\ \A line \in Prose : line.sort \in {"text", "quote", "fence"}
    /\ Bodies \subseteq Texts /\ NoteLines \subseteq Lines
    /\ \A desc \in Descriptions : desc \in Texts /\ Trimmed(desc)
    /\ \A cs \in Boards : cs \in Seq(Cards) /\ \A i \in DOMAIN cs : Trimmed(cs[i].desc)
    /\ MaxEdits \in Nat /\ MaxLines \in Nat

Sorted(S) ==
    [n \in 1..Cardinality(S) |-> CHOOSE x \in S : Cardinality({y \in S : y < x}) = n - 1]

\* The entries of s at the positions S, in their order.
Picked(s, S) == LET at == Sorted(S) IN [n \in DOMAIN at |-> s[at[n]]]

-----------------------------------------------------------------------------
(* parseKanbanNoteItems                                                    *)

InCode(lines, i) == Cardinality({j \in 1..i - 1 : lines[j].sort = "fence"}) % 2 = 1

LooksLikeItem(lines, i) == lines[i].sort = "item" /\ ~InCode(lines, i)

\* The first line with a key is its item; a later one is part of a description.
ItemLines(lines) ==
    {i \in DOMAIN lines :
        /\ LooksLikeItem(lines, i)
        /\ \A j \in 1..i - 1 :
               LooksLikeItem(lines, j) => KeyOf[lines[j].title] # KeyOf[lines[i].title]}

\* descriptionEndLine: an item extends to the next item or the end.
LastLine(lines, i) == Min({j - 1 : j \in {k \in ItemLines(lines) : k > i}} \cup {Len(lines)})

\* Of several blank lines in succession one is left (parseDescriptionMetadata).
Repeats(lines) == {i \in 2..Len(lines) : lines[i] = Blank /\ lines[i - 1] = Blank}
OneBlank(lines) == Picked(lines, DOMAIN lines \ Repeats(lines))

\* joinDescriptionLines trims both ends.
Trim(lines) ==
    LET full == {i \in DOMAIN lines : lines[i].sort # "blank"} IN
    IF full = {} THEN <<>> ELSE SubSeq(lines, Min(full), Max(full))

TrimEnd(lines) ==
    SubSeq(lines, 1, Max({0} \cup {i \in DOMAIN lines : lines[i].sort # "blank"}))

Undent(line) == IF line.sort = "sub" THEN [line EXCEPT !.sort = "item"] ELSE line

\* An item-like line of a description is indented in the text.
Protect(line) == IF line.sort = "item" THEN [line EXCEPT !.sort = "sub"] ELSE line

Each(f(_), lines) == [i \in DOMAIN lines |-> f(lines[i])]

DescriptionAt(lines, i) ==
    OneBlank(Trim(Each(Undent, SubSeq(lines, i + 1, LastLine(lines, i)))))

KeysIn(lines) == {KeyOf[lines[i].title] : i \in ItemLines(lines)}

ItemOf(lines, key) == CHOOSE i \in ItemLines(lines) : KeyOf[lines[i].title] = key

Ids(cols) == {cols[i].id : i \in DOMAIN cols}
TagsOf(cols) == {cols[i].tag : i \in DOMAIN cols}

\* findColumnByTag: of several columns with one title, the first.
Titled(cols, tag) == cols[Min({i \in DOMAIN cols : cols[i].tag = tag})].id

\* parseTitleTags: the tags that a column has are read and taken off the title, the others
\* stay in it.
ReadTags(cols, tags) == {i \in DOMAIN tags : tags[i] \in TagsOf(cols)}
TitleTags(cols, tags) == Picked(tags, DOMAIN tags \ ReadTags(cols, tags))

\* resolveColumnIdForItem: a checked item is done, then its last tag decides.
ColumnForItem(cols, item) ==
    LET read == ReadTags(cols, item.tags) IN
    IF item.box = "done" THEN Last(cols).id
    ELSE IF read = {} THEN Head(cols).id
    ELSE Titled(cols, item.tags[Max(read)])

-----------------------------------------------------------------------------
(* syncBoardFromNoteBody and createKanbanBoardFromNote                     *)

\* Ids that no card of the board has, at least n of them.
FreshIds(cs, n) == Sorted((1..Len(cs) + n) \ {cs[i].id : i \in DOMAIN cs})

CardFor(cols, lines, i, id) ==
    [id |-> id, col |-> ColumnForItem(cols, lines[i]), tags |-> TitleTags(cols, lines[i].tags),
     title |-> lines[i].title, key |-> KeyOf[lines[i].title], desc |-> DescriptionAt(lines, i)]

NewCards(cols, cs, lines) ==
    LET held == {cs[j].key : j \in DOMAIN cs}
        new == Sorted({i \in ItemLines(lines) : KeyOf[lines[i].title] \notin held})
    IN  [n \in DOMAIN new |-> CardFor(cols, lines, new[n], FreshIds(cs, Len(new))[n])]

\* A card without a key is the board's own; one whose item is gone is removed;
\* the others take title, description and column from their item.
SyncBoard(cols, cs, lines) ==
    LET stay == Picked(cs, {j \in DOMAIN cs : cs[j].key \in KeysIn(lines) \cup {Null}})
        updated(c) == IF c.key = Null THEN c
                      ELSE CardFor(cols, lines, ItemOf(lines, c.key), c.id)
    IN  Each(updated, stay) \o NewCards(cols, cs, lines)

-----------------------------------------------------------------------------
(* syncNoteBodyFromBoard                                                   *)

\* A card that was added on the board gets the key of its title.
Keyed(cs) ==
    LET keyed(c) == IF c.key = Null THEN [c EXCEPT !.key = KeyOf[c.title]] ELSE c
    IN  Each(keyed, cs)

\* Of several cards with a key, the last counts.
CardOf(cs, key) == cs[Max({i \in DOMAIN cs : cs[i].key = key})]

\* resolveColumnIdForCard: the last column is the box, the others but the
\* first are the tag; a column that is gone is neither.
Checked(cols, card) == card.col = Last(cols).id

\* MUTANT: a card outside the first and last column has no tag.
TagNone(cols, card) == <<>>

Tag(cols, card) ==
    IF card.col \in Ids(cols) \ {Head(cols).id, Last(cols).id}
    THEN <<(CHOOSE column \in Range(cols) : column.id = card.col).tag>> ELSE <<>>

\* buildNoteLinesForCard: a bullet stays a bullet until its card is done.
ItemFor(cols, card, box) ==
    LET mark == IF Checked(cols, card) THEN "done"
                ELSE IF box = "list" THEN "list" ELSE "open"
    IN  Item(mark, Tag(cols, card) \o card.tags, card.title)

LinesForCard(cols, card, box) ==
    IF card.desc = <<>> THEN <<ItemFor(cols, card, box)>>
    ELSE <<ItemFor(cols, card, box)>> \o Each(Protect, card.desc) \o <<Blank>>

\* The lines that stand for item i: nothing when no card has its key.
Rewritten(cols, cs, lines, i) ==
    LET key == KeyOf[lines[i].title]
        block == SubSeq(lines, i, LastLine(lines, i))
    IN  IF \A j \in DOMAIN cs : cs[j].key # key THEN <<>>
        ELSE LET new == LinesForCard(cols, CardOf(cs, key), lines[i].box)
             IN  IF TrimEnd(new) = TrimEnd(block) THEN block ELSE new

\* The lines before the first item belong to no card.
Preamble(lines) == SubSeq(lines, 1, Min({Len(lines)} \cup {i - 1 : i \in ItemLines(lines)}))

Replaced(cols, cs, lines) ==
    LET items == Sorted(ItemLines(lines))
    IN  Preamble(lines)
            \o FlattenSeq([n \in DOMAIN items |-> Rewritten(cols, cs, lines, items[n])])

\* The cards that no item of the text stands for are appended, each key once.
Missing(cs, lines) ==
    LET absent == {i \in DOMAIN cs : cs[i].key \notin KeysIn(lines)}
    IN  Sorted({i \in absent : \A j \in absent : j < i => cs[j].key # cs[i].key})

\* A text that ends with a line break goes on in its empty last line.
Append1(lines, more) ==
    IF more = <<>> THEN lines
    ELSE IF lines # <<>> /\ Last(lines) = Blank THEN Front(lines) \o more
    ELSE lines \o more

SyncNote(cols, cs, lines) ==
    LET kept == Replaced(cols, cs, lines)
        missing == Missing(cs, kept)
    IN  Append1(kept, FlattenSeq([n \in DOMAIN missing |->
                                     LinesForCard(cols, cs[missing[n]], Null)]))

\* buildNoteBodyFromBoard: the cards, column by column.
NoteOfBoard(cols, cs) ==
    LET inColumn(column) == Picked(cs, {i \in DOMAIN cs : cs[i].col = column.id})
        ordered == FlattenSeq(Each(inColumn, cols))
        written(c) == LinesForCard(cols, c, Null)
    IN  Trim(OneBlank(FlattenSeq(Each(written, ordered))))

-----------------------------------------------------------------------------

\* A board generated from a note.
Generated ==
    /\ body \in Bodies
    /\ cards = SyncBoard(columns, <<>>, body)
    /\ by = "none"
    /\ edited = <<>>
    /\ source = body

\* A board of its own that was bound to a new note, after the first sync.
Bound ==
    /\ \E cs \in Boards :
           /\ source = NoteOfBoard(columns, cs)
           /\ edited = Keyed(cs)
    /\ by = "board"
    /\ body = SyncNote(columns, edited, source)
    /\ cards = SyncBoard(columns, edited, body)

SyncInit ==
    /\ columns = StartColumns
    /\ Generated \/ Bound
    /\ edits = 0

\* commit, then syncNoteAndBoardFromBoardChange.
BoardBecomes(cols, cs) ==
    LET keyed == Keyed(cs)
        text == SyncNote(cols, keyed, body)
    IN  /\ edits < MaxEdits
        /\ edits' = edits + 1
        /\ columns' = cols
        /\ by' = "board"
        /\ edited' = keyed
        /\ source' = body
        /\ body' = text
        /\ cards' = SyncBoard(cols, keyed, text)

\* moveKanbanCard: the card joins the cards of its new column.
MoveCard(i, col) ==
    /\ col \in Ids(columns) \ {cards[i].col}
    /\ LET moved == [cards[i] EXCEPT !.col = col]
           rest == RemoveAt(cards, i)
           there == {j \in DOMAIN rest : rest[j].col = col}
       IN  BoardBecomes(columns, Picked(rest, DOMAIN rest \ there) \o Picked(rest, there)
                                     \o <<moved>>)

\* saveCard of a card that exists; its source, and so its key, stays.
EditCard(i, tags, title, desc) ==
    /\ \/ tags # cards[i].tags \/ title # cards[i].title
       \/ desc # cards[i].desc
    /\ BoardBecomes(columns, [cards EXCEPT ![i].tags = tags, ![i].title = title,
                                           ![i].desc = desc])

\* saveCard of the card that addCard began.
AddCard(col, tags, title, desc) ==
    /\ col \in Ids(columns)
    /\ BoardBecomes(columns, Append(cards, [id |-> FreshIds(cards, 1)[1], col |-> col,
                                            tags |-> tags, title |-> title, key |-> Null,
                                            desc |-> desc]))

DeleteCard(i) == BoardBecomes(columns, RemoveAt(cards, i))

\* addColumn: the new column comes before the last, and is called like every new column.
AddColumn ==
    LET column == [id |-> FreshIds(columns, 1)[1], tag |-> NewTag]
    IN  BoardBecomes(Append(Front(columns), column) \o <<Last(columns)>>, cards)

\* updateColumn, of its title.
RenameColumn(i, tag) ==
    /\ tag # columns[i].tag
    /\ BoardBecomes([columns EXCEPT ![i].tag = tag], cards)

MoveColumn(i) ==
    /\ i \in 1..Len(columns) - 1
    /\ BoardBecomes([columns EXCEPT ![i] = columns[i + 1], ![i + 1] = columns[i]], cards)

\* deleteColumn leaves the cards of the column without one; canDeleteKanbanColumn
\* asks for a second column.
DeleteColumn(i) ==
    /\ Len(columns) > 1
    /\ BoardBecomes(RemoveAt(columns, i), cards)

\* An edit of the note, then syncBoardFromNoteBody.
NoteBecomes(text) ==
    /\ edits < MaxEdits
    /\ edits' = edits + 1
    /\ body' = text
    /\ source' = body
    /\ by' = "note"
    /\ edited' = <<>>
    /\ cards' = SyncBoard(columns, cards, text)
    /\ UNCHANGED columns

InsertLine(i, line) == Len(body) < MaxLines /\ NoteBecomes(InsertAt(body, i, line))
RemoveLine(i) == NoteBecomes(RemoveAt(body, i))

SyncNext ==
    \/ \E i \in DOMAIN cards :
           \/ \E col \in Ids(columns) : MoveCard(i, col)
           \/ \E tags \in TypedTags, title \in Titles, desc \in Descriptions :
                  EditCard(i, tags, title, desc)
           \/ DeleteCard(i)
    \/ \E col \in Ids(columns), tags \in TypedTags, title \in Titles, desc \in Descriptions :
           AddCard(col, tags, title, desc)
    \/ AddColumn
    \/ \E i \in DOMAIN columns :
           \/ \E tag \in Tags : RenameColumn(i, tag)
           \/ MoveColumn(i) \/ DeleteColumn(i)
    \/ \E i \in 1..Len(body) + 1, line \in NoteLines : InsertLine(i, line)
    \/ \E i \in DOMAIN body : RemoveLine(i)

SyncSpec == SyncInit /\ [][SyncNext]_syncVars

-----------------------------------------------------------------------------

Fences(lines) == Cardinality({i \in DOMAIN lines : lines[i].sort = "fence"})

\* A board that the text can hold: no two columns share a title, no two cards
\* a key, no card was renamed past its key or to the tag of a column, no code
\* block is left open, and no list line of a description is indented (in the
\* text, all of them are).
Plain(cols, cs, lines) ==
    /\ \A i, j \in DOMAIN cols : cols[i].tag = cols[j].tag => i = j
    /\ \A i \in DOMAIN cs :
           /\ ReadTags(cols, cs[i].tags) = {}
           /\ KeyOf[cs[i].title] = cs[i].key
           /\ Fences(cs[i].desc) % 2 = 0
           /\ \A j \in DOMAIN cs[i].desc : cs[i].desc[j].sort # "sub"
    /\ \A i, j \in DOMAIN cs : cs[i].key = cs[j].key => i = j
    /\ Fences(lines) % 2 = 0

\* What the user sees of a card.  A card without a column is in the first.
Shown(cols, cs) ==
    {[id |-> c.id, tags |-> c.tags, title |-> c.title, desc |-> c.desc,
      col |-> IF c.col \in Ids(cols) THEN c.col ELSE Head(cols).id] : c \in Range(cs)}

\* An edit of a board that the text can hold comes back from it as it was made: every card
\* keeps its identity, tags, title, description and column, no card joins or leaves,
\* the text before the first item stays, and another sync changes nothing (with
\* one column, first and last, it first ticks the cards of a deleted column).
BoardEditHolds ==
    by = "board" /\ Plain(columns, edited, source) =>
        /\ Shown(columns, cards) = Shown(columns, edited)
        /\ IsPrefix(TrimEnd(Preamble(source)), body)
        /\ Len(columns) > 1 => SyncNote(columns, cards, body) = body
        /\ SyncBoard(columns, cards, body) = cards

\* The cards with a key are the items of the text, after an edit of either.
ItemsAreCards ==
    /\ {c.key : c \in Range(cards)} = KeysIn(body)
    /\ \A c \in Range(cards) :
           LET i == ItemOf(body, c.key) IN
           /\ c.title = body[i].title /\ c.tags = TitleTags(columns, body[i].tags)
           /\ c.desc = DescriptionAt(body, i)
           /\ c.col = ColumnForItem(columns, body[i])

EditsSurviveSync == BoardEditHolds /\ ItemsAreCards

=============================================================================
