-------------------------- MODULE IntegrationAccess --------------------------
(***************************************************************************)
(* One integration of a user: its row, its token and its grants, written by *)
(* the owner's requests (create, upsertGrants, revoke) and read by the MCP  *)
(* requests that present the token.  No request runs in a transaction, so   *)
(* each statement is a step and a request may end after any of them: the    *)
(* server crashes, the connection is lost or a check fails.                 *)
(***************************************************************************)
EXTENDS Naturals, Sequences

CONSTANTS
    Resources,      \* the notes and boards of the vault
    Upserts,        \* requests of the owner that set grants
    Lists,          \* what such a request may ask for: sequences of [res, perm]
    Calls           \* MCP requests

Permissions == {"read", "write"}

\* upsertIntegrationGrantsSchema: a list of grants is not empty.
ASSUME ListsAssumption ==
    Lists \subseteq Seq([res : Resources, perm : Permissions]) \ {<<>>}

VARIABLES
    integration,    \* the row: "none", "live" or "revoked"
    token,          \* the token: "none", "live" or "revoked"
    grant,          \* for each resource its active grant: "none", "read", "write"
    kept,           \* the resources that still exist
    revoking,       \* where the owner's revocation stands
    upsert,         \* for each request that sets grants, where it stands
    call,           \* for each MCP request, where it stands
    settled         \* for each resource, what the last insert granted

vars == <<integration, token, grant, kept, revoking, upsert, call, settled>>

NoUpsert == [at |-> "new", todo |-> <<>>]
NoCall == [at |-> "new", op |-> "none", res |-> "none", found |-> "none",
           late |-> FALSE, may |-> {}, did |-> "none"]

Init ==
    /\ integration = "none"
    /\ token = "none"
    /\ grant = [r \in Resources |-> "none"]
    /\ kept = Resources
    /\ revoking = "new"
    /\ upsert = [u \in Upserts |-> NoUpsert]
    /\ call = [c \in Calls |-> NoCall]
    /\ settled = [r \in Resources |-> "none"]

-----------------------------------------------------------------------------
(* The owner's requests                                                    *)

\* create: createIntegration, then createToken.
CreateIntegration ==
    /\ integration = "none"
    /\ integration' = "live"
    /\ UNCHANGED <<token, grant, kept, revoking, upsert, call, settled>>

CreateToken ==
    /\ integration # "none"
    /\ token = "none"
    /\ token' = "live"
    /\ UNCHANGED <<integration, grant, kept, revoking, upsert, call, settled>>

\* revokeIntegration: three updates, the first of which finds the live row.
RevokeRow ==
    /\ integration = "live"
    /\ integration' = "revoked"
    /\ revoking' = "token"
    /\ UNCHANGED <<token, grant, kept, upsert, call, settled>>

RevokeToken ==
    /\ revoking = "token"
    /\ token' = IF token = "live" THEN "revoked" ELSE token
    /\ revoking' = "grants"
    /\ UNCHANGED <<integration, grant, kept, upsert, call, settled>>

RevokeGrants ==
    /\ revoking = "grants"
    /\ grant' = [r \in Resources |-> "none"]
    /\ revoking' = "done"
    /\ UNCHANGED <<integration, token, kept, upsert, call, settled>>

RevokeEnds ==
    /\ revoking \in {"token", "grants"}
    /\ revoking' = "done"
    /\ UNCHANGED <<integration, token, grant, kept, upsert, call, settled>>

\* The permissions that u still asks for on resource r.
Asked(u, r) == {item.perm : item \in {upsert[u].todo[i] : i \in
                   {j \in 1..Len(upsert[u].todo) : upsert[u].todo[j].res = r}}}

\* An MCP request in progress may now meet what the new request u asks for.
Announced(list) ==
    [c \in Calls |->
        IF call[c].at = "new" THEN call[c]
        ELSE [call[c] EXCEPT !.may = @ \cup
                 {list[i].perm : i \in {j \in 1..Len(list) : list[j].res = call[c].res}}]]

\* upsertGrants: findByIdForUser finds only a live integration.
UpsertStarts(u, list) ==
    /\ upsert[u].at = "new"
    /\ integration = "live"
    /\ upsert' = [upsert EXCEPT ![u] = [at |-> "check", todo |-> list]]
    /\ call' = Announced(list)
    /\ UNCHANGED <<integration, token, grant, kept, revoking, settled>>

Ended(u) == upsert' = [upsert EXCEPT ![u] = [NoUpsert EXCEPT !.at = "done"]]

\* assertResourceOwned: a resource that is gone ends the request.
UpsertChecks(u) ==
    /\ upsert[u].at = "check"
    /\ IF Head(upsert[u].todo).res \in kept
       THEN upsert' = [upsert EXCEPT ![u].at = "revoke"]
       ELSE Ended(u)
    /\ UNCHANGED <<integration, token, grant, kept, revoking, call, settled>>

\* upsertGrant, its update: the active grant of the resource is revoked.
UpsertRevokes(u) ==
    LET r == Head(upsert[u].todo).res IN
    /\ upsert[u].at = "revoke"
    /\ grant' = [grant EXCEPT ![r] = "none"]
    /\ upsert' = [upsert EXCEPT ![u].at = "insert"]
    /\ UNCHANGED <<integration, token, kept, revoking, call, settled>>

\* upsertGrant, its insert.  One grant of a resource may be active: when
\* another request inserted meanwhile, the insert fails and ends the request.
UpsertInserts(u) ==
    LET item == Head(upsert[u].todo) IN
    /\ upsert[u].at = "insert"
    /\ grant[item.res] = "none"
    /\ grant' = [grant EXCEPT ![item.res] = item.perm]
    /\ settled' = [settled EXCEPT ![item.res] = item.perm]
    /\ IF Len(upsert[u].todo) > 1
       THEN upsert' = [upsert EXCEPT ![u] = [at |-> "check", todo |-> Tail(@.todo)]]
       ELSE Ended(u)
    /\ UNCHANGED <<integration, token, kept, revoking, call>>

InsertConflicts(u) ==
    /\ upsert[u].at = "insert"
    /\ grant[Head(upsert[u].todo).res] # "none"
    /\ Ended(u)
    /\ UNCHANGED <<integration, token, grant, kept, revoking, call, settled>>

UpsertEnds(u) ==
    /\ upsert[u].at \in {"check", "revoke", "insert"}
    /\ Ended(u)
    /\ UNCHANGED <<integration, token, grant, kept, revoking, call, settled>>

\* The owner deletes the note or the board for good; its grants remain.
Discard(r) ==
    /\ kept' = kept \ {r}
    /\ r \in kept
    /\ UNCHANGED <<integration, token, grant, revoking, upsert, call, settled>>

-----------------------------------------------------------------------------
(* The MCP requests                                                        *)

Granted(r) == {settled[r]} \cup UNION {Asked(u, r) : u \in Upserts}

\* MUTANT: the join looks at the token alone.
AuthenticToken == token = "live"

\* findByTokenHash joins the token and its integration; neither is revoked.
Authentic == token = "live" /\ integration = "live"

Refused(c) == call' = [call EXCEPT ![c].at = "done"]

\* The token is known once create has returned it.
Arrive(c, op, r) ==
    /\ call[c].at = "new"
    /\ token # "none"
    /\ call' = [call EXCEPT ![c] = [NoCall EXCEPT
                   !.at = "token", !.op = op, !.res = r,
                   !.late = (integration = "revoked"), !.may = Granted(r)]]
    /\ UNCHANGED <<integration, token, grant, kept, revoking, upsert, settled>>

\* authenticateToken; the rate limit and the touch of the token follow.
Authenticate(c) ==
    /\ call[c].at = "token"
    /\ IF Authentic THEN call' = [call EXCEPT ![c].at = "grant"] ELSE Refused(c)
    /\ UNCHANGED <<integration, token, grant, kept, revoking, upsert, settled>>

\* listGrantedResourceIds, findGrant: an active grant; a write needs "write".
Allows(g, op) == IF op = "write" THEN g = "write" ELSE g # "none"

FindGrant(c) ==
    /\ call[c].at = "grant"
    /\ IF Allows(grant[call[c].res], call[c].op)
       THEN call' = [call EXCEPT ![c].at = "serve", ![c].found = grant[call[c].res]]
       ELSE Refused(c)
    /\ UNCHANGED <<integration, token, grant, kept, revoking, upsert, settled>>

\* getGrantedNote and updateGrantedNote (and their twins for boards) end with
\* the note itself, which may be gone.
Serve(c) ==
    /\ call[c].at = "serve"
    /\ call[c].op # "list"
    /\ call' = [call EXCEPT ![c].at = "done",
                   ![c].did = IF call[c].res \in kept THEN call[c].op ELSE "none"]
    /\ UNCHANGED <<integration, token, grant, kept, revoking, upsert, settled>>

\* listGrantedNotes reads the grants again, after the notes: a note whose
\* grant was revoked meanwhile is listed with "read" and without a key.
ServeList(c) ==
    /\ call[c].at = "serve"
    /\ call[c].op = "list"
    /\ call' = [call EXCEPT ![c].at = "done",
                   ![c].found = IF grant[call[c].res] = "none" THEN "read"
                                ELSE grant[call[c].res],
                   ![c].did = IF call[c].res \in kept THEN "list" ELSE "none"]
    /\ UNCHANGED <<integration, token, grant, kept, revoking, upsert, settled>>

Next ==
    \/ CreateIntegration \/ CreateToken
    \/ RevokeRow \/ RevokeToken \/ RevokeGrants \/ RevokeEnds
    \/ \E u \in Upserts :
           \/ \E list \in Lists : UpsertStarts(u, list)
           \/ UpsertChecks(u) \/ UpsertRevokes(u) \/ UpsertInserts(u)
           \/ InsertConflicts(u) \/ UpsertEnds(u)
    \/ \E r \in Resources : Discard(r)
    \/ \E c \in Calls :
           \/ \E op \in {"read", "write", "list"}, r \in Resources : Arrive(c, op, r)
           \/ Authenticate(c) \/ FindGrant(c) \/ Serve(c) \/ ServeList(c)

Spec == Init /\ [][Next]_vars

-----------------------------------------------------------------------------

\* An MCP request that arrives after the owner's revocation began is not
\* served, even when the revocation never ended; and a request reads or writes
\* only what the last completed grant, or one in progress while it runs,
\* allows, however the three statements of a revocation, the two of each grant
\* and the reads of the MCP requests interleave.
McpActsWithinGrants ==
    \A c \in Calls : call[c].did # "none" =>
        /\ ~call[c].late
        /\ \E perm \in call[c].may : Allows(perm, call[c].op)

=============================================================================
