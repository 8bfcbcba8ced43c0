------------------------------ MODULE MCRecords ------------------------------
(***************************************************************************)
(* Four small systems checked side by side: the versions of a note, the     *)
(* access of an integration, the text of a note with its board, and the     *)
(* portable passkeys.  They share nothing, so each behaviour runs one of    *)
(* them and leaves the others as they start.                                *)
(***************************************************************************)
EXTENDS IntegrationAccess, PortableBroker, VersionHistory, NoteBoardSync

VARIABLE scenario

-----------------------------------------------------------------------------

Put(res, perm) == [res |-> res, perm |-> perm]

GrantLists == {<<Put("n1", "write")>>, <<Put("n1", "read")>>,
               <<Put("n1", "read"), Put("n2", "write")>>}

TitleKeys == [t \in Titles |-> IF t = "A" THEN "a" ELSE t]

ThreeColumns == <<[id |-> 1, tag |-> "TODO"], [id |-> 2, tag |-> "DOING"],
                  [id |-> 3, tag |-> "DONE"]>>

Doing == <<"DOING">>
New == <<"NEW COLUMN">>

Sub(title) == Protect(Item("open", <<>>, title))
Text == [sort |-> "text"]
Quote == [sort |-> "quote"]
Fence == [sort |-> "fence"]

OtherLines == {Text, Quote, Fence}

\* A note without items; prose before and after an item, whose tag no column has;
\* a code block before the items, and a repeated item; tags, a quote and a code block.
Notes == {
    <<Blank>>,
    <<Text, Item("open", New, "a"), Text, Blank, Blank, Text>>,
    <<Fence, Item("open", <<>>, "a"), Fence, Item("done", <<>>, "a"), Sub("b")>>,
    <<Item("list", Doing, "a"), Item("open", <<>>, "A"), Quote,
      Item("open", New \o Doing, "b"), Fence, Item("list", <<>>, "b"), Fence>>}

Own(id, col, title, desc) ==
    [id |-> id, col |-> col, tags |-> <<>>, title |-> title, key |-> "none", desc |-> desc]

OwnBoards == {<<Own(1, 2, "b", <<Text, Blank, Item("open", <<>>, "a")>>), Own(2, 3, "a", <<>>)>>}

Insertions == {Item("list", Doing, "b"), Item("done", <<>>, "A"), Sub("b"), Fence}

Details == {<<>>, <<Text, Blank, Item("list", <<>>, "a"), Text>>,
            <<Fence, Item("open", <<>>, "b"), Fence>>, <<Text, Sub("b")>>}

\* Of these, what a new card may begin with.
FirstDetails == {<<>>, <<Fence, Item("open", <<>>, "b"), Fence>>}

NoTagsOrNew == {<<>>, New}

-----------------------------------------------------------------------------

RecordsInit ==
    /\ scenario \in {"versions", "access", "sync", "portable"}
    /\ VersionInit
    /\ Init
    /\ SyncInit
    /\ PortableInit
    /\ scenario # "sync" => body = <<Blank>> /\ by = "none"

Versions == scenario = "versions" /\ UNCHANGED <<scenario, vars, syncVars, portableVars>>
Access == scenario = "access" /\ UNCHANGED <<scenario, versionVars, syncVars, portableVars>>
Sync == scenario = "sync" /\ UNCHANGED <<scenario, versionVars, vars, portableVars>>
Portable == scenario = "portable" /\ UNCHANGED <<scenario, versionVars, vars, syncVars>>

RecordsNext ==
    \/ \E t \in Creates :
           \/ Versions /\ MaxVersionNumber(t)
           \/ Versions /\ Insert(t)
           \/ Versions /\ SelectKept(t)
           \/ Versions /\ FindVictims(t)
           \/ Versions /\ Delete(t)
           \/ Versions /\ Commit(t)
           \/ Versions /\ Abort(t)
    \/ Access /\ CreateIntegration
    \/ Access /\ CreateToken
    \/ Access /\ RevokeRow
    \/ Access /\ RevokeToken
    \/ Access /\ RevokeGrants
    \/ Access /\ RevokeEnds
    \/ \E u \in Upserts :
           \/ \E list \in Lists : Access /\ UpsertStarts(u, list)
           \/ Access /\ UpsertChecks(u)
           \/ Access /\ UpsertRevokes(u)
           \/ Access /\ UpsertInserts(u)
           \/ Access /\ InsertConflicts(u)
           \/ Access /\ UpsertEnds(u)
    \/ \E r \in Resources : Access /\ Discard(r)
    \/ \E c \in Calls :
           \/ \E op \in {"read", "write", "list"}, r \in Resources : Access /\ Arrive(c, op, r)
           \/ Access /\ Authenticate(c)
           \/ Access /\ FindGrant(c)
           \/ Access /\ Serve(c)
           \/ Access /\ ServeList(c)
    \/ \E i \in DOMAIN cards :
           \/ \E col \in Ids(columns) : Sync /\ MoveCard(i, col)
           \/ \E title \in Titles : Sync /\ EditCard(i, cards[i].tags, title, cards[i].desc)
           \/ \E desc \in Descriptions : Sync /\ EditCard(i, cards[i].tags, cards[i].title, desc)
           \/ \E tags \in TypedTags : Sync /\ EditCard(i, tags, cards[i].title, cards[i].desc)
           \/ Sync /\ DeleteCard(i)
    \/ \E col \in Ids(columns), title \in Titles, desc \in FirstDetails :
           Sync /\ AddCard(col, <<>>, title, desc)
    \/ Sync /\ AddColumn
    \/ \E i \in DOMAIN columns, tag \in {"DOING", NewTag} : Sync /\ RenameColumn(i, tag)
    \/ \E i \in DOMAIN columns : Sync /\ MoveColumn(i)
    \/ \E i \in DOMAIN columns : Sync /\ DeleteColumn(i)
    \/ \E i \in 1..Len(body) + 1, line \in NoteLines : Sync /\ InsertLine(i, line)
    \/ \E i \in DOMAIN body : Sync /\ RemoveLine(i)
    \/ \E c \in Credentials : Portable /\ RemovePasskey(c)
    \/ \E f \in Flows :
           \/ \E c \in Credentials : Portable /\ PrepareFinds(f, c)
           \/ Portable /\ PrepareReuses(f)
           \/ Portable /\ PrepareInserts(f)
           \/ \E kind \in {"unlock", "revoke"}, m \in Flows : Portable /\ Pick(f, kind, m)
           \/ Portable /\ Grant(f)
           \/ Portable /\ BrokerEnrolls(f)
           \/ Portable /\ BrokerUnlocks(f)
           \/ Portable /\ BrokerRevokes(f)
           \/ Portable /\ Bind(f)
           \/ Portable /\ Consume(f)
           \/ Portable /\ CompleteEnroll(f)
           \/ Portable /\ CompleteRevoke(f)
           \/ Portable /\ CompleteUnlock(f)
           \/ Portable /\ Report(f)
           \/ Portable /\ Stop(f)

=============================================================================
