------------------------------ MODULE RecordsProofs ------------------------------
(***************************************************************************)
(* Proofs about what the server keeps, for any values of the constants of  *)
(* each of four small systems.                                             *)
(*                                                                         *)
(* IntegrationAccess: for any requests, resources and lists of grants, an  *)
(* MCP request is served within the grants, and not after the revocation   *)
(* began.  Two things make that inductive.  A request that arrives late    *)
(* meets a revoked row, and no row comes back to life.  And the active     *)
(* grant of a resource is always one that the request in progress has been *)
(* told of: it was settled when the request arrived, or comes from a list  *)
(* that was announced to it.                                               *)
(*                                                                         *)
(* PortableBroker: PortableUnlockHolds for every number of operations and  *)
(* credentials.  The invariant says what each operation may rely on at     *)
(* each of its calls (FlowFits), what a row says of the broker (RowFits),  *)
(* and what the locks and the unique indexes keep apart (RowsDiffer,       *)
(* LocksHeld).                                                             *)
(*                                                                         *)
(* VersionHistory: for any number of requests and any limit.  A cutoff     *)
(* exists whenever there are Limit rows, and what a transaction deletes    *)
(* stays older than Limit rows stored or its own (PruneFits); one that     *)
(* overlaps with none still sees what its statements saw (AloneFits).      *)
(*                                                                         *)
(* VaultEnvelopes: for any set of requests.  The lock of a method belongs  *)
(* to its transaction, and the envelope found under it stays active until  *)
(* the transaction commits (EnvelopesInv).                                 *)
(***************************************************************************)
EXTENDS IntegrationAccess, PortableBroker, VersionHistory, VaultEnvelopes,
        FiniteSetTheorems, WellFoundedInduction, TLAPS

---------------------------------------------------------------------------
(* IntegrationAccess *)

Items == [res : Resources, perm : Permissions]

Ops == {"none", "read", "write", "list"}

Steps == {"new", "token", "grant", "serve", "done"}

Grants == Permissions \cup {"none"}

UpsertStates == [at : {"new", "check", "revoke", "insert", "done"}, todo : Seq(Items)]

CallStates == [at : Steps, op : Ops, res : Resources \cup {"none"}, found : Grants,
               late : BOOLEAN, may : SUBSET Grants, did : Ops]

AccessTypes ==
    /\ grant \in [Resources -> Grants]
    /\ settled \in [Resources -> Grants]
    /\ upsert \in [Upserts -> UpsertStates]
    /\ call \in [Calls -> CallStates]

\* A request that sets grants has one to set next.
ListsAreLeft ==
    \A u \in Upserts : upsert[u].at \in {"check", "revoke", "insert"} => upsert[u].todo # <<>>

\* The active grant of a resource is the one inserted last.
GrantIsSettled == \A r \in Resources : grant[r] \in {"none", settled[r]}

\* The permissions that a list asks for on resource r.
PermsOf(s, r) == {s[i].perm : i \in {j \in 1..Len(s) : s[j].res = r}}

\* What a request may meet has been announced to it.
GrantsAreKnown ==
    \A c \in Calls : call[c].at # "new" =>
        /\ call[c].res \in Resources
        /\ grant[call[c].res] \in call[c].may \cup {"none"}
        /\ \A u \in Upserts : PermsOf(upsert[u].todo, call[c].res) \subseteq call[c].may

LateMeansRevoked == \A c \in Calls : call[c].late => integration = "revoked"

\* A request that passed a check passed it with what it was told, and before
\* the revocation.
ChecksHold ==
    \A c \in Calls :
        /\ call[c].at \in {"grant", "serve"} => ~call[c].late
        /\ call[c].at = "serve" =>
             call[c].found \in call[c].may /\ Allows(call[c].found, call[c].op)

AccessInv ==
    /\ AccessTypes /\ ListsAreLeft /\ GrantIsSettled /\ GrantsAreKnown /\ LateMeansRevoked
    /\ ChecksHold /\ McpActsWithinGrants

-----------------------------------------------------------------------------
\* The list of grants that is left to set, and what it asks for.
LEMMA HeadOfList ==
    ASSUME NEW s \in Seq(Items), s # <<>>
    PROVE  /\ Head(s) \in Items /\ Head(s) = s[1] /\ Len(s) \in Nat /\ Len(s) >= 1
           /\ Tail(s) \in Seq(Items) /\ Len(Tail(s)) = Len(s) - 1
           /\ \A i \in 1..Len(Tail(s)) : Tail(s)[i] = s[i + 1]
OBVIOUS

LEMMA AskedIsPermsOf ==
    ASSUME NEW u \in Upserts, NEW r
    PROVE  Asked(u, r) = PermsOf(upsert[u].todo, r)
BY DEF Asked, PermsOf

LEMMA NothingAsked == \A r : PermsOf(<<>>, r) = {}
BY DEF PermsOf

LEMMA TailAsksLess ==
    ASSUME NEW s \in Seq(Items), s # <<>>, NEW r
    PROVE  PermsOf(Tail(s), r) \subseteq PermsOf(s, r)
<1> SUFFICES ASSUME NEW i \in 1..Len(Tail(s)), Tail(s)[i].res = r
             PROVE  Tail(s)[i].perm \in PermsOf(s, r)
  BY DEF PermsOf
<1>1. i + 1 \in 1..Len(s) /\ Tail(s)[i] = s[i + 1]
  BY HeadOfList
<1> QED BY <1>1 DEF PermsOf

LEMMA HeadIsAsked ==
    ASSUME NEW s \in Seq(Items), s # <<>>
    PROVE  Head(s).perm \in PermsOf(s, Head(s).res)
<1>1. 1 \in 1..Len(s) /\ Head(s) = s[1]
  BY HeadOfList
<1> QED BY <1>1 DEF PermsOf

LEMMA AnnouncedList ==
    ASSUME NEW list \in Lists, NEW c \in Calls
    PROVE  /\ call[c].at = "new" => Announced(list)[c] = call[c]
           /\ call[c].at # "new" =>
                Announced(list)[c] = [call[c] EXCEPT !.may = @ \cup PermsOf(list, call[c].res)]
BY DEF Announced, PermsOf

LEMMA PermsAreTyped ==
    ASSUME NEW s \in Seq(Items), NEW r
    PROVE  PermsOf(s, r) \subseteq Permissions
<1> SUFFICES ASSUME NEW i \in 1..Len(s), s[i].res = r
             PROVE  s[i].perm \in Permissions
  BY DEF PermsOf
<1>1. s[i] \in Items
  OBVIOUS
<1> QED BY <1>1 DEF Items

LEMMA AccessInit == Init => AccessInv
<1> SUFFICES ASSUME Init PROVE AccessInv
  OBVIOUS
<1>1. AccessTypes
  <2>1. <<>> \in Seq(Items)
    OBVIOUS
  <2>2. NoUpsert \in UpsertStates
    BY <2>1 DEF NoUpsert, UpsertStates
  <2>3. NoCall \in CallStates
    BY DEF NoCall, CallStates, Ops, Grants, Steps
  <2> QED BY <2>2, <2>3 DEF Init, AccessTypes, Grants
<1>2. ListsAreLeft /\ GrantIsSettled /\ GrantsAreKnown /\ LateMeansRevoked
  BY DEF Init, ListsAreLeft, GrantIsSettled, GrantsAreKnown, LateMeansRevoked,
         NoUpsert, NoCall
<1>3. ChecksHold /\ McpActsWithinGrants
  BY DEF Init, ChecksHold, McpActsWithinGrants, NoCall
<1> QED BY <1>1, <1>2, <1>3 DEF AccessInv

-----------------------------------------------------------------------------
\* The owner's steps that set nothing: creation, revocation, a list that ends,
\* a resource that is discarded.  No row comes back to life.
LEMMA QuietSteps ==
    ASSUME AccessInv, AccessTypes', ListsAreLeft',
           UNCHANGED <<call, settled>>,
           \A r \in Resources : grant'[r] \in {"none", grant[r]},
           integration = "revoked" => integration' = "revoked",
           \A u \in Upserts, r \in Resources :
               PermsOf(upsert'[u].todo, r) \subseteq PermsOf(upsert[u].todo, r)
    PROVE  AccessInv'
<1>1. GrantIsSettled'
  BY DEF AccessInv, GrantIsSettled
<1>2. GrantsAreKnown'
  <2> SUFFICES ASSUME NEW c \in Calls, call'[c].at # "new"
               PROVE  /\ call'[c].res \in Resources
                      /\ grant'[call'[c].res] \in call'[c].may \cup {"none"}
                      /\ \A u \in Upserts :
                           PermsOf(upsert'[u].todo, call'[c].res) \subseteq call'[c].may
    BY DEF GrantsAreKnown
  <2>1. /\ call[c].res \in Resources
        /\ grant[call[c].res] \in call[c].may \cup {"none"}
        /\ \A u \in Upserts : PermsOf(upsert[u].todo, call[c].res) \subseteq call[c].may
    BY DEF AccessInv, GrantsAreKnown
  <2> QED BY <2>1
<1>3. LateMeansRevoked' /\ ChecksHold' /\ McpActsWithinGrants'
  BY DEF AccessInv, LateMeansRevoked, ChecksHold, McpActsWithinGrants
<1> QED BY <1>1, <1>2, <1>3 DEF AccessInv

LEMMA OwnerSteps ==
    ASSUME AccessInv,
           \/ CreateIntegration \/ CreateToken \/ RevokeRow \/ RevokeToken \/ RevokeGrants
           \/ RevokeEnds \/ \E r \in Resources : Discard(r)
    PROVE  AccessInv'
<1>1. UNCHANGED <<call, settled, upsert>>
  BY DEF CreateIntegration, CreateToken, RevokeRow, RevokeToken, RevokeGrants, RevokeEnds, Discard
<1>2. \/ UNCHANGED grant
      \/ grant' = [r \in Resources |-> "none"]
  BY DEF CreateIntegration, CreateToken, RevokeRow, RevokeToken, RevokeGrants, RevokeEnds, Discard
<1>3. AccessTypes' /\ ListsAreLeft'
  BY <1>1, <1>2 DEF AccessInv, AccessTypes, ListsAreLeft, Grants
<1>4. \A r \in Resources : grant'[r] \in {"none", grant[r]}
  BY <1>2
<1>5. integration = "revoked" => integration' = "revoked"
  BY DEF CreateIntegration, CreateToken, RevokeRow, RevokeToken, RevokeGrants, RevokeEnds, Discard
<1> QED BY <1>1, <1>3, <1>4, <1>5, QuietSteps

Busy == {"check", "revoke", "insert"}

LEMMA UpsertEnded ==
    ASSUME NEW u \in Upserts, Ended(u)
    PROVE  \E x \in UpsertStates :
               upsert' = [upsert EXCEPT ![u] = x] /\ x.todo = <<>> /\ x.at \notin Busy
<1> DEFINE x == [NoUpsert EXCEPT !.at = "done"]
<1>1. <<>> \in Seq(Items)
  OBVIOUS
<1>2. x = [at |-> "done", todo |-> <<>>]
  BY DEF NoUpsert
<1>3. x \in UpsertStates /\ x.todo = <<>> /\ x.at \notin Busy
  BY <1>1, <1>2 DEF UpsertStates, Busy
<1>4. upsert' = [upsert EXCEPT ![u] = x]
  BY DEF Ended
<1> QED BY <1>3, <1>4

LEMMA UpsertMoved ==
    ASSUME AccessInv, NEW u \in Upserts, upsert[u].at \in Busy,
           NEW step \in Busy, upsert' = [upsert EXCEPT ![u].at = step]
    PROVE  \E x \in UpsertStates :
               upsert' = [upsert EXCEPT ![u] = x] /\ x.todo = upsert[u].todo /\ x.todo # <<>>
<1> DEFINE x == [upsert[u] EXCEPT !.at = step]
<1>1. upsert[u] \in UpsertStates /\ upsert[u].todo # <<>>
  BY DEF AccessInv, AccessTypes, ListsAreLeft, Busy
<1>2. x \in UpsertStates /\ x.todo = upsert[u].todo
  BY <1>1 DEF UpsertStates, Busy
<1>3. upsert' = [upsert EXCEPT ![u] = x]
  OBVIOUS
<1> QED BY <1>1, <1>2, <1>3

LEMMA QuietUpserts ==
    ASSUME AccessInv, NEW u \in Upserts,
           UpsertChecks(u) \/ UpsertRevokes(u) \/ InsertConflicts(u) \/ UpsertEnds(u)
    PROVE  AccessInv'
<1>1. UNCHANGED <<call, settled, integration>>
  BY DEF UpsertChecks, UpsertRevokes, InsertConflicts, UpsertEnds
<1>2. \/ UNCHANGED grant
      \/ grant' = [grant EXCEPT ![Head(upsert[u].todo).res] = "none"]
  BY DEF UpsertChecks, UpsertRevokes, InsertConflicts, UpsertEnds
<1>3. PICK x \in UpsertStates : /\ upsert' = [upsert EXCEPT ![u] = x]
                                /\ x.todo \in {<<>>, upsert[u].todo}
                                /\ x.at \in Busy => x.todo # <<>>
  <2>1. CASE Ended(u)
    BY <2>1, UpsertEnded
  <2>2. CASE ~Ended(u)
    <3>1. /\ upsert[u].at \in Busy
          /\ \E step \in Busy : upsert' = [upsert EXCEPT ![u].at = step]
      BY <2>2 DEF UpsertChecks, UpsertRevokes, InsertConflicts, UpsertEnds, Busy
    <3> QED BY <3>1, UpsertMoved
  <2> QED BY <2>1, <2>2
<1>4. \A v \in Upserts : upsert'[v] = IF v = u THEN x ELSE upsert[v]
  BY <1>3 DEF AccessInv, AccessTypes
<1>5. AccessTypes'
  BY <1>1, <1>2, <1>3 DEF AccessInv, AccessTypes, Grants
<1>6. ListsAreLeft'
  BY <1>3, <1>4 DEF AccessInv, ListsAreLeft, Busy
<1>7. \A r \in Resources : grant'[r] \in {"none", grant[r]}
  BY <1>2 DEF AccessInv, AccessTypes
<1>8. \A v \in Upserts, r \in Resources :
         PermsOf(upsert'[v].todo, r) \subseteq PermsOf(upsert[v].todo, r)
  BY <1>3, <1>4, NothingAsked
<1> QED BY <1>1, <1>5, <1>6, <1>7, <1>8, QuietSteps

\* A new list is announced to the requests in progress.
LEMMA StartsKeepInv ==
    ASSUME AccessInv, NEW u \in Upserts, NEW list \in Lists, UpsertStarts(u, list)
    PROVE  AccessInv'
<1>1. list \in Seq(Items) /\ list # <<>>
  BY ListsAssumption DEF Items
<1>2. /\ upsert' = [upsert EXCEPT ![u] = [at |-> "check", todo |-> list]]
      /\ call' = Announced(list)
      /\ UNCHANGED <<integration, grant, settled>>
  BY DEF UpsertStarts
<1>3. \A c \in Calls : call[c].at # "new" =>
         call'[c] = [call[c] EXCEPT !.may = @ \cup PermsOf(list, call[c].res)]
  BY <1>2, AnnouncedList
<1>4. \A c \in Calls : call[c].at = "new" => call'[c] = call[c]
  BY <1>2, AnnouncedList
<1>5. \A c \in Calls : PermsOf(list, call[c].res) \subseteq Grants
  BY <1>1, PermsAreTyped DEF Grants
<1>6. \A c \in Calls : call[c] \in CallStates
  BY DEF AccessInv, AccessTypes
<1>7. ASSUME NEW c \in Calls
       PROVE  /\ call'[c] \in CallStates
              /\ call'[c].at = call[c].at /\ call'[c].op = call[c].op /\ call'[c].res = call[c].res
              /\ call'[c].found = call[c].found /\ call'[c].late = call[c].late
              /\ call'[c].did = call[c].did /\ call[c].may \subseteq call'[c].may
              /\ call[c].at # "new" => PermsOf(list, call[c].res) \subseteq call'[c].may
  <2>1. CASE call[c].at = "new"
    BY <2>1, <1>4, <1>6
  <2>2. CASE call[c].at # "new"
    <3> DEFINE q == [call[c] EXCEPT !.may = @ \cup PermsOf(list, call[c].res)]
    <3>1. call[c] \in CallStates /\ PermsOf(list, call[c].res) \in SUBSET Grants
      BY <1>5, <1>6
    <3>2. /\ q \in CallStates
          /\ q.at = call[c].at /\ q.op = call[c].op /\ q.res = call[c].res
          /\ q.found = call[c].found /\ q.late = call[c].late /\ q.did = call[c].did
          /\ q.may = call[c].may \cup PermsOf(list, call[c].res)
      BY <3>1 DEF CallStates
    <3>3. call'[c] = q
      BY <2>2, <1>3
    <3> HIDE DEF q
    <3> QED BY <3>2, <3>3
  <2> QED BY <2>1, <2>2
<1>8. AccessTypes'
  <2>1. [at |-> "check", todo |-> list] \in UpsertStates
    BY <1>1 DEF UpsertStates
  <2>2. upsert' \in [Upserts -> UpsertStates]
    BY <1>2, <2>1 DEF AccessInv, AccessTypes
  <2>3. call' = [c \in Calls |-> call'[c]]
    BY <1>2 DEF Announced
  <2>4. call' \in [Calls -> CallStates]
    BY <1>7, <2>3
  <2> QED BY <1>2, <2>2, <2>4 DEF AccessInv, AccessTypes
<1>9. ListsAreLeft'
  BY <1>1, <1>2 DEF AccessInv, AccessTypes, ListsAreLeft
<1>10. GrantIsSettled'
  BY <1>2 DEF AccessInv, GrantIsSettled
<1>11. GrantsAreKnown'
  <2> SUFFICES ASSUME NEW c \in Calls, call'[c].at # "new"
               PROVE  /\ call'[c].res \in Resources
                      /\ grant'[call'[c].res] \in call'[c].may \cup {"none"}
                      /\ \A v \in Upserts :
                           PermsOf(upsert'[v].todo, call'[c].res) \subseteq call'[c].may
    BY DEF GrantsAreKnown
  <2>1. /\ call[c].res \in Resources
        /\ grant[call[c].res] \in call[c].may \cup {"none"}
        /\ \A v \in Upserts : PermsOf(upsert[v].todo, call[c].res) \subseteq call[c].may
    BY <1>7 DEF AccessInv, GrantsAreKnown
  <2>2. \A v \in Upserts : upsert'[v].todo = IF v = u THEN list ELSE upsert[v].todo
    BY <1>2 DEF AccessInv, AccessTypes
  <2>3. call[c].at # "new"
    BY <1>7
  <2> QED BY <1>2, <1>7, <2>1, <2>2, <2>3
<1>12. LateMeansRevoked' /\ ChecksHold'
  BY <1>2, <1>7 DEF AccessInv, LateMeansRevoked, ChecksHold
<1>13. McpActsWithinGrants'
  BY <1>7 DEF AccessInv, McpActsWithinGrants
<1> QED BY <1>8, <1>9, <1>10, <1>11, <1>12, <1>13 DEF AccessInv

\* What is inserted was asked for, so it has been announced.
LEMMA InsertsKeepInv ==
    ASSUME AccessInv, NEW u \in Upserts, UpsertInserts(u)
    PROVE  AccessInv'
<1> DEFINE item == Head(upsert[u].todo)
<1>1. upsert[u].todo \in Seq(Items) /\ upsert[u].todo # <<>>
  BY DEF AccessInv, AccessTypes, UpsertStates, ListsAreLeft, UpsertInserts
<1>2. item \in Items /\ item.res \in Resources /\ item.perm \in Permissions
  BY <1>1, HeadOfList DEF Items
<1>3. /\ grant' = [grant EXCEPT ![item.res] = item.perm]
      /\ settled' = [settled EXCEPT ![item.res] = item.perm]
      /\ UNCHANGED <<integration, call>>
  BY DEF UpsertInserts
<1>4. upsert[u] \in UpsertStates
  BY DEF AccessInv, AccessTypes
<1>5. PICK x \in UpsertStates : /\ upsert' = [upsert EXCEPT ![u] = x]
                                /\ x.todo \in {<<>>, Tail(upsert[u].todo)}
                                /\ x.at \in Busy => x.todo # <<>>
  <2>1. CASE Len(upsert[u].todo) > 1
    <3> DEFINE x == [at |-> "check", todo |-> Tail(upsert[u].todo)]
    <3>1. Len(Tail(upsert[u].todo)) >= 1 /\ Tail(upsert[u].todo) \in Seq(Items)
      BY <1>1, <2>1, HeadOfList
    <3>2. \A s \in Seq(Items) : Len(s) >= 1 => s # <<>>
      OBVIOUS
    <3>3. Tail(upsert[u].todo) # <<>>
      BY <3>1, <3>2
    <3>4. x \in UpsertStates
      BY <3>1 DEF UpsertStates
    <3>5. upsert' = [upsert EXCEPT ![u] = x]
      BY <2>1 DEF UpsertInserts
    <3> QED BY <3>3, <3>4, <3>5
  <2>2. CASE ~(Len(upsert[u].todo) > 1)
    <3>1. Ended(u)
      BY <2>2 DEF UpsertInserts
    <3> QED BY <3>1, UpsertEnded
  <2> QED BY <2>1, <2>2
<1>6. \A v \in Upserts : upsert'[v] = IF v = u THEN x ELSE upsert[v]
  BY <1>5 DEF AccessInv, AccessTypes
<1>7. AccessTypes'
  BY <1>2, <1>3, <1>5 DEF AccessInv, AccessTypes, Grants
<1>8. ListsAreLeft'
  BY <1>5, <1>6 DEF AccessInv, ListsAreLeft, Busy
<1>9. GrantIsSettled'
  BY <1>2, <1>3 DEF AccessInv, AccessTypes, GrantIsSettled
<1>10. \A v \in Upserts : \A r : PermsOf(upsert'[v].todo, r) \subseteq PermsOf(upsert[v].todo, r)
  BY <1>1, <1>5, <1>6, NothingAsked, TailAsksLess
<1>11. GrantsAreKnown'
  <2> SUFFICES ASSUME NEW c \in Calls, call'[c].at # "new"
               PROVE  /\ call'[c].res \in Resources
                      /\ grant'[call'[c].res] \in call'[c].may \cup {"none"}
                      /\ \A v \in Upserts :
                           PermsOf(upsert'[v].todo, call'[c].res) \subseteq call'[c].may
    BY DEF GrantsAreKnown
  <2>1. /\ call[c].res \in Resources
        /\ grant[call[c].res] \in call[c].may \cup {"none"}
        /\ \A v \in Upserts : PermsOf(upsert[v].todo, call[c].res) \subseteq call[c].may
    BY <1>3 DEF AccessInv, GrantsAreKnown
  <2>2. item.perm \in PermsOf(upsert[u].todo, item.res)
    BY <1>1, HeadIsAsked
  <2>3. grant'[call[c].res] \in {grant[call[c].res]} \cup
           (IF call[c].res = item.res THEN {item.perm} ELSE {})
    BY <1>3, <2>1 DEF AccessInv, AccessTypes
  <2>4. call[c].res = item.res => item.perm \in call[c].may
    BY <2>1, <2>2
  <2> QED BY <1>3, <1>10, <2>1, <2>3, <2>4
<1>12. LateMeansRevoked' /\ ChecksHold' /\ McpActsWithinGrants'
  BY <1>3 DEF AccessInv, LateMeansRevoked, ChecksHold, McpActsWithinGrants
<1> QED BY <1>7, <1>8, <1>9, <1>11, <1>12 DEF AccessInv

-----------------------------------------------------------------------------
\* A request that arrives learns what is granted and what is being asked for.
LEMMA ArrivalKeepsInv ==
    ASSUME AccessInv, NEW c \in Calls, NEW op \in {"read", "write", "list"}, NEW r \in Resources,
           Arrive(c, op, r)
    PROVE  AccessInv'
<1>1. /\ call' = [call EXCEPT ![c] = [NoCall EXCEPT
                    !.at = "token", !.op = op, !.res = r,
                    !.late = (integration = "revoked"), !.may = Granted(r)]]
      /\ UNCHANGED <<integration, grant, upsert, settled>>
  BY DEF Arrive
<1>2. Granted(r) \subseteq Grants
  <2>1. \A u \in Upserts : Asked(u, r) \subseteq Grants
    BY AskedIsPermsOf, PermsAreTyped DEF AccessInv, AccessTypes, UpsertStates, Grants
  <2> QED BY <2>1 DEF Granted, AccessInv, AccessTypes
<1>3. AccessTypes'
  <2>1. [NoCall EXCEPT !.at = "token", !.op = op, !.res = r,
                       !.late = (integration = "revoked"), !.may = Granted(r)] \in CallStates
    BY <1>2 DEF NoCall, CallStates, Steps, Ops, Grants
  <2> QED BY <1>1, <2>1 DEF AccessInv, AccessTypes
<1>4. ListsAreLeft' /\ GrantIsSettled'
  BY <1>1 DEF AccessInv, ListsAreLeft, GrantIsSettled
<1>5. \A d \in Calls : d # c => call'[d] = call[d]
  BY <1>1 DEF AccessInv, AccessTypes
<1>6. /\ call'[c].res = r /\ call'[c].may = Granted(r) /\ call'[c].at = "token"
      /\ call'[c].did = "none" /\ call'[c].late = (integration = "revoked")
  BY <1>1 DEF AccessInv, AccessTypes, NoCall
<1>7. GrantsAreKnown'
  <2> SUFFICES ASSUME NEW d \in Calls, call'[d].at # "new"
               PROVE  /\ call'[d].res \in Resources
                      /\ grant'[call'[d].res] \in call'[d].may \cup {"none"}
                      /\ \A v \in Upserts :
                           PermsOf(upsert'[v].todo, call'[d].res) \subseteq call'[d].may
    BY DEF GrantsAreKnown
  <2>1. CASE d = c
    <3>1. \A v \in Upserts : PermsOf(upsert[v].todo, r) \subseteq Granted(r)
      BY AskedIsPermsOf DEF Granted
    <3>2. grant[r] \in Granted(r) \cup {"none"}
      BY DEF Granted, AccessInv, GrantIsSettled
    <3> QED BY <1>1, <1>6, <2>1, <3>1, <3>2
  <2>2. CASE d # c
    BY <1>1, <1>5, <2>2 DEF AccessInv, GrantsAreKnown
  <2> QED BY <2>1, <2>2
<1>8. LateMeansRevoked' /\ ChecksHold'
  BY <1>1, <1>5, <1>6 DEF AccessInv, LateMeansRevoked, ChecksHold
<1>9. McpActsWithinGrants'
  BY <1>5, <1>6 DEF AccessInv, McpActsWithinGrants
<1> QED BY <1>3, <1>4, <1>7, <1>8, <1>9 DEF AccessInv

\* A request goes on to state q, having passed the checks that q tells of.
LEMMA CallMoved ==
    ASSUME AccessInv, NEW c \in Calls, call[c].at # "new",
           UNCHANGED <<integration, grant, upsert, settled>>,
           NEW q \in CallStates, call' = [call EXCEPT ![c] = q],
           q.res = call[c].res, q.may = call[c].may, q.late = call[c].late, q.op = call[c].op,
           q.at \in {"grant", "serve"} => ~call[c].late,
           q.at = "serve" => q.found \in call[c].may /\ Allows(q.found, call[c].op),
           q.did # "none" => /\ ~call[c].late
                             /\ \E perm \in call[c].may : Allows(perm, call[c].op)
    PROVE  AccessInv'
<1>1. \A d \in Calls : call'[d] = IF d = c THEN q ELSE call[d]
  BY DEF AccessInv, AccessTypes
<1>2. AccessTypes'
  BY DEF AccessInv, AccessTypes
<1>3. ListsAreLeft' /\ GrantIsSettled' /\ LateMeansRevoked'
  BY <1>1 DEF AccessInv, ListsAreLeft, GrantIsSettled, LateMeansRevoked
<1>4. GrantsAreKnown'
  BY <1>1 DEF AccessInv, GrantsAreKnown
<1>5. ChecksHold'
  BY <1>1 DEF AccessInv, ChecksHold
<1>6. McpActsWithinGrants'
  BY <1>1 DEF AccessInv, McpActsWithinGrants
<1> QED BY <1>2, <1>3, <1>4, <1>5, <1>6 DEF AccessInv

\* A request that goes on passed its check with a grant it knew of.
LEMMA ServiceKeepsInv ==
    ASSUME AccessInv, NEW c \in Calls,
           Authenticate(c) \/ FindGrant(c) \/ Serve(c) \/ ServeList(c)
    PROVE  AccessInv'
<1>1. UNCHANGED <<integration, grant, upsert, settled>>
  BY DEF Authenticate, FindGrant, Serve, ServeList
<1>2. call[c] \in CallStates /\ call[c].at # "new"
  BY DEF AccessInv, AccessTypes, Authenticate, FindGrant, Serve, ServeList
<1>3. /\ call[c].res \in Resources
      /\ grant[call[c].res] \in call[c].may \cup {"none"}
      /\ grant[call[c].res] \in Grants
  BY <1>2 DEF AccessInv, AccessTypes, GrantsAreKnown
<1>4. call[c].did # "none" => /\ ~call[c].late
                              /\ \E perm \in call[c].may : Allows(perm, call[c].op)
  BY DEF AccessInv, McpActsWithinGrants
<1>5. CASE Refused(c)
  <2> DEFINE q == [call[c] EXCEPT !.at = "done"]
  <2>1. /\ q \in CallStates /\ q.at = "done" /\ q.did = call[c].did
        /\ q.res = call[c].res /\ q.may = call[c].may /\ q.late = call[c].late /\ q.op = call[c].op
    BY <1>2 DEF CallStates, Steps
  <2>2. call' = [call EXCEPT ![c] = q]
    BY <1>5 DEF Refused
  <2> HIDE DEF q
  <2> QED BY <1>1, <1>2, <1>4, <2>1, <2>2, CallMoved
<1>6. CASE Authenticate(c) /\ ~Refused(c)
  <2> DEFINE q == [call[c] EXCEPT !.at = "grant"]
  <2>1. /\ q \in CallStates /\ q.at = "grant" /\ q.did = call[c].did
        /\ q.res = call[c].res /\ q.may = call[c].may /\ q.late = call[c].late /\ q.op = call[c].op
    BY <1>2 DEF CallStates, Steps
  <2>2. call' = [call EXCEPT ![c] = q] /\ integration = "live"
    BY <1>6 DEF Authenticate, Authentic
  <2>3. ~call[c].late
    BY <2>2 DEF AccessInv, LateMeansRevoked
  <2> HIDE DEF q
  <2> QED BY <1>1, <1>2, <1>4, <2>1, <2>2, <2>3, CallMoved
<1>7. CASE FindGrant(c) /\ ~Refused(c)
  <2> DEFINE q == [call[c] EXCEPT !.at = "serve", !.found = grant[call[c].res]]
  <2>1. /\ q \in CallStates /\ q.at = "serve" /\ q.did = call[c].did
        /\ q.found = grant[call[c].res]
        /\ q.res = call[c].res /\ q.may = call[c].may /\ q.late = call[c].late /\ q.op = call[c].op
    BY <1>2, <1>3 DEF CallStates, Steps
  <2>2. call' = [call EXCEPT ![c] = q] /\ Allows(grant[call[c].res], call[c].op)
    BY <1>7 DEF FindGrant
  <2>3. ~call[c].late
    BY <1>7 DEF AccessInv, ChecksHold, FindGrant
  <2>4. grant[call[c].res] \in call[c].may
    BY <1>3, <2>2 DEF Allows
  <2> HIDE DEF q
  <2> QED BY <1>1, <1>2, <1>4, <2>1, <2>2, <2>3, <2>4, CallMoved
<1>8. ASSUME call[c].at = "serve"
      PROVE  ~call[c].late /\ \E perm \in call[c].may : Allows(perm, call[c].op)
  BY <1>8 DEF AccessInv, ChecksHold
<1>9. CASE Serve(c)
  <2> DEFINE q == [call[c] EXCEPT !.at = "done",
                       !.did = IF call[c].res \in kept THEN call[c].op ELSE "none"]
  <2>1. /\ q \in CallStates /\ q.at = "done"
        /\ q.res = call[c].res /\ q.may = call[c].may /\ q.late = call[c].late /\ q.op = call[c].op
    BY <1>2 DEF CallStates, Steps, Ops
  <2>2. call' = [call EXCEPT ![c] = q] /\ call[c].at = "serve"
    BY <1>9 DEF Serve
  <2> HIDE DEF q
  <2> QED BY <1>1, <1>2, <1>8, <2>1, <2>2, CallMoved
<1>10. CASE ServeList(c)
  <2> DEFINE q == [call[c] EXCEPT !.at = "done",
                       !.found = IF grant[call[c].res] = "none" THEN "read"
                                 ELSE grant[call[c].res],
                       !.did = IF call[c].res \in kept THEN "list" ELSE "none"]
  <2>1. /\ q \in CallStates /\ q.at = "done"
        /\ q.res = call[c].res /\ q.may = call[c].may /\ q.late = call[c].late /\ q.op = call[c].op
    BY <1>2, <1>3 DEF CallStates, Steps, Ops, Grants, Permissions
  <2>2. call' = [call EXCEPT ![c] = q] /\ call[c].at = "serve"
    BY <1>10 DEF ServeList
  <2> HIDE DEF q
  <2> QED BY <1>1, <1>2, <1>8, <2>1, <2>2, CallMoved
<1> QED BY <1>5, <1>6, <1>7, <1>9, <1>10

LEMMA StepsKeepInv == AccessInv /\ [Next]_vars => AccessInv'
<1> SUFFICES ASSUME AccessInv, [Next]_vars PROVE AccessInv'
  OBVIOUS
<1>1. CASE UNCHANGED vars
  BY <1>1 DEF vars, AccessInv, AccessTypes, ListsAreLeft, GrantIsSettled, GrantsAreKnown,
              LateMeansRevoked, ChecksHold, McpActsWithinGrants
<1>2. CASE Next
  BY <1>2, OwnerSteps, QuietUpserts, StartsKeepInv, InsertsKeepInv, ArrivalKeepsInv,
     ServiceKeepsInv DEF Next
<1> QED BY <1>1, <1>2

\* Whatever requests of the owner and of the client overlap or end half-way: who arrives after
\* the revocation began is not served, and a read or write was allowed by a grant that was
\* settled or under way while the request ran (integration-service.ts authenticateToken,
\* getGrantedNote, updateGrantedNote).
THEOREM ServedWithinGrants == Spec => []McpActsWithinGrants
<1>1. AccessInv => McpActsWithinGrants
  BY DEF AccessInv
<1> QED BY <1>1, AccessInit, StepsKeepInv, PTL DEF Spec

---------------------------------------------------------------------------
(* PortableBroker *)

Names == Flows \cup {None}

Envelopes == [id : Flows, cred : Credentials, scope : Flows]

Mapping == [state : {"none", "pending", "active", "revoked"}, cred : Credentials \cup {None},
            scope : Names, envelope : Names, request : Names]

Stages == {"new", "locked", "ready", "granted", "answered", "bound", "consumed", "completed",
           "done", "failed"}

Flow == [kind : {"none", "enroll", "unlock", "revoke"}, at : Stages,
         cred : Credentials \cup {None}, mapping : Names, scope : Names, envelope : Names,
         after : SUBSET Names]

BrokerTypes ==
    /\ live \subseteq Credentials
    /\ mappings \in [Flows -> Mapping]
    /\ flow \in [Flows -> Flow]
    /\ held \subseteq Envelopes
    /\ withdrawn \subseteq Envelopes
    /\ revoked \subseteq Names

\* The broker has given up the envelope e.
Given(e) == \E w \in withdrawn : w.id = e

\* What a row says of the broker's envelope is what the broker was given.
RowFits(m) ==
    /\ mappings[m].state = "none" => mappings[m] = NoMapping
    /\ mappings[m].state # "none" => mappings[m].cred \in Credentials /\ mappings[m].scope \in Flows
    /\ mappings[m].envelope # None => Entry(m) \in held \cup withdrawn
    /\ mappings[m].state \in {"active", "revoked"} => mappings[m].envelope # None
    /\ mappings[m].state = "revoked" => Given(mappings[m].envelope)

RowsFit == \A m \in Flows : RowFits(m)

\* Two rows share neither a credential, while current, nor an envelope; the
\* request of a row is the operation that bound it.
RowsDiffer ==
    /\ \A m, n \in Flows :
           /\ Current(m) /\ Current(n) /\ mappings[m].cred = mappings[n].cred => m = n
           /\ mappings[m].envelope # None /\ mappings[m].envelope = mappings[n].envelope => m = n
    /\ \A m \in Flows : mappings[m].request # None =>
           /\ flow[mappings[m].request].mapping = m
           /\ flow[mappings[m].request].at \notin {"new", "locked"}

\* One prepareEnrollment at a time has the row of a credential, and what it
\* found there still holds.
LocksHeld ==
    /\ \A f, g \in Flows :
           flow[f].at = "locked" /\ flow[g].at = "locked" /\ flow[f].cred = flow[g].cred => f = g
    /\ \A f \in Flows : flow[f].at \in {"new", "locked"} => mappings[f] = NoMapping
    /\ \A f \in Flows : flow[f].at = "locked" =>
           /\ flow[f].kind = "enroll" /\ flow[f].cred \in Credentials
           /\ flow[f].mapping = None =>
                  \A m \in Flows : ~(Current(m) /\ mappings[m].cred = flow[f].cred)
           /\ flow[f].mapping # None =>
                  /\ mappings[flow[f].mapping].state # "none"
                  /\ mappings[flow[f].mapping].cred = flow[f].cred

\* What an operation may rely on at each of its calls.
FlowFits(f) ==
    LET m == flow[f].mapping
        e == flow[f].envelope
        at == flow[f].at IN
    /\ flow[f].after \subseteq revoked
    /\ at \notin {"new", "locked", "failed"} =>
           /\ m \in Flows
           /\ flow[f].kind \in {"enroll", "unlock", "revoke"}
           /\ mappings[m].state # "none"
           /\ flow[f].cred = mappings[m].cred /\ flow[f].scope = mappings[m].scope
           /\ flow[f].kind \in {"unlock", "revoke"} =>
                  /\ mappings[m].state \in {"active", "revoked"}
                  /\ e # None /\ e = mappings[m].envelope
           /\ flow[f].kind = "enroll" /\ at \notin {"ready", "granted"} =>
                  [id |-> e, cred |-> flow[f].cred, scope |-> flow[f].scope] \in held \cup withdrawn
    /\ at = "answered" => flow[f].kind = "enroll"
    /\ at \in {"bound", "consumed", "completed", "done"} =>
           /\ flow[f].kind = "revoke" => Given(e)
           /\ flow[f].kind = "unlock" => e \notin flow[f].after
    /\ at \in {"completed", "done"} =>
           /\ flow[f].kind = "enroll" =>
                  mappings[m].state \in {"active", "revoked"} /\ mappings[m].envelope = e
           /\ flow[f].kind = "revoke" => mappings[m].state = "revoked"

FlowsFit == \A f \in Flows : FlowFits(f)

\* An envelope the broker gave up does not come back.
BrokerFit ==
    /\ \A h \in held, w \in withdrawn : h.id # w.id
    /\ \A h \in held \cup withdrawn : flow[h.id].at \notin {"new", "locked", "ready", "granted"}
    /\ \A e \in revoked : Given(e)

BrokerInv == BrokerTypes /\ RowsFit /\ RowsDiffer /\ LocksHeld /\ FlowsFit /\ BrokerFit

-----------------------------------------------------------------------------

\* The invariant holds at the start.
LEMMA BrokerInit == PortableInit => BrokerInv
BY NoneAssumption DEF PortableInit, BrokerInv, BrokerTypes, RowsFit, RowFits, RowsDiffer, LocksHeld, FlowsFit, FlowFits,
   BrokerFit, NoMapping, NoFlow, Names, Envelopes, Mapping, Stages, Flow, Current, Given, Entry

\* A move leaves the operations well typed ...
LEMMA FlowMoves ==
    ASSUME flow \in [Flows -> Flow], NEW f \in Flows, NEW a \in Stages, Moves(f, a)
    PROVE  flow' \in [Flows -> Flow]
BY DEF Flow, Moves

\* ... and so does a new record of one of them.
LEMMA FlowBecomes ==
    ASSUME flow \in [Flows -> Flow], NEW f \in Flows, NEW r \in Flow,
           flow' = [flow EXCEPT ![f] = r]
    PROVE  flow' \in [Flows -> Flow]
OBVIOUS

\* Rows and broker unchanged, the rows still fit.
LEMMA RowsStay ==
    ASSUME RowsFit, UNCHANGED <<mappings, held, withdrawn>>
    PROVE  RowsFit'
BY DEF RowsFit, RowFits, Entry, Given

\* A move changes where one operation stands and nothing else.
LEMMA MovesOnly ==
    ASSUME flow \in [Flows -> Flow], NEW f \in Flows, NEW a, Moves(f, a)
    PROVE  /\ \A g \in Flows \ {f} : flow'[g] = flow[g]
           /\ flow'[f].at = a /\ flow'[f].kind = flow[f].kind /\ flow'[f].cred = flow[f].cred
           /\ flow'[f].mapping = flow[f].mapping /\ flow'[f].scope = flow[f].scope
           /\ flow'[f].envelope = flow[f].envelope /\ flow'[f].after = flow[f].after
BY DEF Moves, Flow

\* An operation that moves on and changes nothing but what was revoked.
LEMMA QuietMove ==
    ASSUME BrokerTypes, RowsFit, RowsDiffer, LocksHeld, FlowsFit, BrokerFit, NEW f \in Flows,
           UNCHANGED <<live, mappings, held, withdrawn>>,
           \A g \in Flows \ {f} : flow'[g] = flow[g],
           flow'[f].mapping = flow[f].mapping,
           flow[f].at # "new", flow'[f].at \notin {"new", "locked", "ready"},
           flow'[f].at = "granted" => flow[f].at = "ready",
           revoked \subseteq revoked', \A e \in revoked' : Given(e),
           flow' \in [Flows -> Flow], revoked' \subseteq Names,
           FlowFits(f)'
    PROVE  BrokerInv'
<1>1. BrokerTypes'
  BY BrokerTypes DEF BrokerTypes
<1>2. RowsFit'
  BY RowsFit, RowsStay
<1>3. RowsDiffer'
  <2>1. \A n \in Flows : mappings[n].request \in Names
    BY BrokerTypes DEF BrokerTypes, Mapping
  <2> QED BY <2>1, RowsDiffer DEF RowsDiffer, Current, Names
<1>4. LocksHeld'
  <2>1. \A g \in Flows : flow'[g].at \in {"new", "locked"} => g # f /\ flow'[g] = flow[g]
    OBVIOUS
  <2> QED BY <2>1, LocksHeld DEF LocksHeld, Current
<1>5. FlowsFit'
  <2>1. ASSUME NEW g \in Flows \ {f} PROVE FlowFits(g)'
    BY FlowsFit DEF FlowsFit, FlowFits, Given
  <2> QED BY <2>1 DEF FlowsFit
<1>6. BrokerFit'
  <2>1. \A h \in held \cup withdrawn : h.id \in Flows
    BY BrokerTypes DEF BrokerTypes, Envelopes
  <2> QED BY <2>1, BrokerFit DEF BrokerFit, Given
<1> QED BY <1>1, <1>2, <1>3, <1>4, <1>5, <1>6 DEF BrokerInv

\* The row of the credential is free, so the new operation holds it alone.
LEMMA PrepareFindsKeeps ==
    ASSUME BrokerTypes, RowsFit, RowsDiffer, LocksHeld, FlowsFit, BrokerFit,
           NEW f \in Flows, NEW c \in Credentials, PrepareFinds(f, c)
    PROVE  BrokerInv'
<1>1. PICK m \in Names :
          /\ flow' = [flow EXCEPT ![f] = [NoFlow EXCEPT !.kind = "enroll", !.at = "locked",
                                                        !.cred = c, !.mapping = m]]
          /\ m = None => \A n \in Flows : ~(Current(n) /\ mappings[n].cred = c)
          /\ m # None => Current(m) /\ mappings[m].cred = c
  BY NoneAssumption, PrepareFinds(f, c) DEF PrepareFinds, Names
<1>2. /\ flow[f].at = "new"
      /\ \A g \in Flows : ~(flow[g].at = "locked" /\ flow[g].cred = c)
      /\ UNCHANGED <<live, mappings, held, withdrawn, revoked>>
  BY PrepareFinds(f, c) DEF PrepareFinds, Locked
<1>3. /\ \A g \in Flows \ {f} : flow'[g] = flow[g]
      /\ flow'[f].kind = "enroll" /\ flow'[f].at = "locked" /\ flow'[f].cred = c
      /\ flow'[f].mapping = m /\ flow'[f].after = {}
  BY <1>1, BrokerTypes DEF BrokerTypes, NoFlow
<1>4. BrokerTypes'
  <2>1. [NoFlow EXCEPT !.kind = "enroll", !.at = "locked", !.cred = c, !.mapping = m] \in Flow
    BY DEF Flow, Stages, Names, NoFlow
  <2> QED BY <1>1, <1>2, <2>1, FlowBecomes, BrokerTypes DEF BrokerTypes
<1>5. RowsFit'
  BY <1>2, RowsFit, RowsStay
<1>6. RowsDiffer'
  <2>1. \A n \in Flows : mappings[n].request \in Names
    BY BrokerTypes DEF BrokerTypes, Mapping
  <2> QED BY <1>2, <1>3, <2>1, RowsDiffer DEF RowsDiffer, Current, Names
<1>7. LocksHeld'
  <2>1. \A g \in Flows \ {f} : flow'[g] = flow[g] /\ ~(flow[g].at = "locked" /\ flow[g].cred = c)
    BY <1>2, <1>3
  <2> QED BY <1>1, <1>2, <1>3, <2>1, LocksHeld DEF LocksHeld, Current
<1>8. FlowsFit'
  <2>1. FlowFits(f)'
    BY <1>3 DEF FlowFits
  <2>2. ASSUME NEW g \in Flows \ {f} PROVE FlowFits(g)'
    BY <1>2, <1>3, FlowsFit DEF FlowsFit, FlowFits, Given
  <2> QED BY <2>1, <2>2 DEF FlowsFit
<1>9. BrokerFit'
  <2>1. \A h \in held \cup withdrawn : h.id # f
    BY <1>2, BrokerFit DEF BrokerFit
  <2>2. \A h \in held \cup withdrawn : h.id \in Flows
    BY BrokerTypes DEF BrokerTypes, Envelopes
  <2> QED BY <1>2, <1>3, <2>1, <2>2, BrokerFit DEF BrokerFit, Given
<1> QED BY <1>4, <1>5, <1>6, <1>7, <1>8, <1>9 DEF BrokerInv

\* The scope answered is that of the pending row.
LEMMA PrepareReusesKeeps ==
    ASSUME BrokerTypes, RowsFit, RowsDiffer, LocksHeld, FlowsFit, BrokerFit,
           NEW f \in Flows, PrepareReuses(f)
    PROVE  BrokerInv'
<1>1. PICK s \in Names, a \in {"ready", "failed"} :
          /\ flow' = [flow EXCEPT ![f].at = a, ![f].scope = s]
          /\ a = "ready" => Current(flow[f].mapping) /\ s = mappings[flow[f].mapping].scope
  <2>1. CASE Current(flow[f].mapping)
    <3>1. mappings[flow[f].mapping].scope \in Names
      BY BrokerTypes, PrepareReuses(f) DEF PrepareReuses, BrokerTypes, Mapping, Flow, Names
    <3> QED BY <2>1, <3>1, PrepareReuses(f) DEF PrepareReuses, AnsweredScope
  <2>2. CASE ~Current(flow[f].mapping)
    <3>1. flow' = [flow EXCEPT ![f].at = "failed", ![f].scope = flow[f].scope] /\ flow[f].scope \in Names
      BY <2>2, BrokerTypes, PrepareReuses(f) DEF PrepareReuses, Moves, BrokerTypes, Flow
    <3> QED BY <3>1
  <2> QED BY <2>1, <2>2
<1>2. /\ flow[f].at = "locked" /\ flow[f].mapping \in Flows
      /\ UNCHANGED <<live, mappings, held, withdrawn, revoked>>
  BY BrokerTypes, PrepareReuses(f) DEF PrepareReuses, BrokerTypes, Flow, Names
<1>3. /\ \A g \in Flows \ {f} : flow'[g] = flow[g]
      /\ flow'[f].at = a /\ flow'[f].kind = flow[f].kind /\ flow'[f].cred = flow[f].cred
      /\ flow'[f].mapping = flow[f].mapping /\ flow'[f].scope = s
      /\ flow'[f].envelope = flow[f].envelope /\ flow'[f].after = flow[f].after
  BY <1>1, BrokerTypes DEF BrokerTypes, Flow
<1>4. BrokerTypes'
  <2>1. [flow[f] EXCEPT !.at = a, !.scope = s] \in Flow
    BY BrokerTypes DEF BrokerTypes, Flow, Stages
  <2>2. flow' = [flow EXCEPT ![f] = [flow[f] EXCEPT !.at = a, !.scope = s]]
    BY <1>1, BrokerTypes DEF BrokerTypes
  <2> QED BY <1>2, <2>1, <2>2, FlowBecomes, BrokerTypes DEF BrokerTypes
<1>5. RowsFit'
  BY <1>2, RowsFit, RowsStay
<1>6. RowsDiffer'
  BY <1>1, <1>2, <1>3, RowsDiffer, BrokerTypes DEF RowsDiffer, Current, BrokerTypes, Mapping, Names
<1>7. LocksHeld'
  <2>1. \A g \in Flows : flow'[g].at \in {"new", "locked"} => g # f /\ flow'[g] = flow[g]
    BY <1>1, <1>3
  <2> QED BY <1>2, <2>1, LocksHeld DEF LocksHeld, Current
<1>8. FlowsFit'
  <2>1. flow[f].kind = "enroll" /\ flow[f].cred = mappings[flow[f].mapping].cred
        /\ mappings[flow[f].mapping].state # "none"
    BY <1>2, LocksHeld, NoneAssumption DEF LocksHeld
  <2>2. FlowFits(f)'
    BY <1>1, <1>2, <1>3, <2>1, FlowsFit DEF FlowsFit, FlowFits
  <2>3. ASSUME NEW g \in Flows \ {f} PROVE FlowFits(g)'
    BY <1>2, <1>3, FlowsFit DEF FlowsFit, FlowFits, Given
  <2> QED BY <2>2, <2>3 DEF FlowsFit
<1>9. BrokerFit'
  <2>1. \A h \in held \cup withdrawn : h.id # f
    BY <1>2, BrokerFit DEF BrokerFit
  <2>2. \A h \in held \cup withdrawn : h.id \in Flows
    BY BrokerTypes DEF BrokerTypes, Envelopes
  <2> QED BY <1>2, <1>3, <2>1, <2>2, BrokerFit DEF BrokerFit, Given
<1> QED BY <1>4, <1>5, <1>6, <1>7, <1>8, <1>9 DEF BrokerInv

\* Nobody could insert for the credential since it was locked.
LEMMA PrepareInsertsKeeps ==
    ASSUME BrokerTypes, RowsFit, RowsDiffer, LocksHeld, FlowsFit, BrokerFit,
           NEW f \in Flows, PrepareInserts(f)
    PROVE  BrokerInv'
<1>1. /\ flow[f].at = "locked" /\ flow[f].mapping = None
      /\ mappings[f] = NoMapping
      /\ flow[f].kind = "enroll" /\ flow[f].cred \in Credentials
      /\ \A m \in Flows : ~(Current(m) /\ mappings[m].cred = flow[f].cred)
      /\ UNCHANGED <<live, held, withdrawn, revoked>>
  BY LocksHeld, PrepareInserts(f) DEF PrepareInserts, LocksHeld
<1>2. /\ \A g \in Flows \ {f} : flow'[g] = flow[g] /\ mappings'[g] = mappings[g]
      /\ flow'[f].at = "ready" /\ flow'[f].kind = flow[f].kind /\ flow'[f].cred = flow[f].cred
      /\ flow'[f].mapping = f /\ flow'[f].scope = f
      /\ flow'[f].envelope = flow[f].envelope /\ flow'[f].after = flow[f].after
      /\ mappings'[f].state = "pending" /\ mappings'[f].cred = flow[f].cred
      /\ mappings'[f].scope = f /\ mappings'[f].envelope = None /\ mappings'[f].request = None
  BY BrokerTypes, PrepareInserts(f) DEF PrepareInserts, BrokerTypes, Flow, NoMapping
<1>3. BrokerTypes'
  <2>1. flow' \in [Flows -> Flow]
    <3>1. flow[f] \in Flow /\ f \in Names
      BY BrokerTypes DEF BrokerTypes, Names
    <3>2. [flow[f] EXCEPT !.at = "ready", !.mapping = f, !.scope = f] \in Flow
      BY <3>1 DEF Flow, Stages
    <3>3. flow' = [flow EXCEPT ![f] = [flow[f] EXCEPT !.at = "ready", !.mapping = f, !.scope = f]]
      BY BrokerTypes, PrepareInserts(f) DEF PrepareInserts, BrokerTypes
    <3> QED BY <3>2, <3>3, FlowBecomes, BrokerTypes DEF BrokerTypes
  <2>2. [NoMapping EXCEPT !.state = "pending", !.cred = flow[f].cred, !.scope = f] \in Mapping
    BY <1>1 DEF Mapping, NoMapping, Names
  <2> QED BY <1>1, <2>1, <2>2, BrokerTypes, PrepareInserts(f) DEF PrepareInserts, BrokerTypes
<1>4. RowsFit'
  <2>1. RowFits(f)'
    BY <1>1, <1>2 DEF RowFits
  <2>2. ASSUME NEW m \in Flows \ {f} PROVE RowFits(m)'
    BY <1>1, <1>2, RowsFit DEF RowsFit, RowFits, Entry, Given
  <2> QED BY <2>1, <2>2 DEF RowsFit
<1>5. RowsDiffer'
  <2>1. \A m, n \in Flows : Current(m)' /\ Current(n)' /\ (mappings[m].cred = mappings[n].cred)' => m = n
    BY <1>1, <1>2, RowsDiffer DEF RowsDiffer, Current
  <2>2. \A m, n \in Flows : (mappings[m].envelope # None /\ mappings[m].envelope = mappings[n].envelope)' => m = n
    BY <1>1, <1>2, RowsDiffer DEF RowsDiffer
  <2>3. ASSUME NEW m \in Flows, mappings'[m].request # None
        PROVE  /\ flow'[mappings'[m].request].mapping = m
               /\ flow'[mappings'[m].request].at \notin {"new", "locked"}
    <3>1. mappings[m].request \in Names
      BY BrokerTypes DEF BrokerTypes, Mapping
    <3>2. m # f /\ mappings'[m] = mappings[m]
      BY <1>2, <2>3
    <3> QED BY <1>1, <1>2, <2>3, <3>1, <3>2, RowsDiffer DEF RowsDiffer, Names
  <2> QED BY <2>1, <2>2, <2>3 DEF RowsDiffer
<1>6. LocksHeld'
  <2>1. \A g \in Flows : flow'[g].at \in {"new", "locked"} =>
            g # f /\ flow'[g] = flow[g] /\ mappings'[g] = mappings[g]
    BY <1>2
  <2>2. ASSUME NEW g \in Flows, flow'[g].at = "locked" PROVE flow[g].cred # flow[f].cred
    BY <1>1, <2>1, <2>2, LocksHeld DEF LocksHeld
  <2>3. \A g \in Flows : flow'[g].at = "locked" /\ flow[g].mapping # None =>
            flow[g].mapping # f /\ flow[g].mapping \in Flows
    BY <1>1, <2>1, LocksHeld, BrokerTypes DEF LocksHeld, NoMapping, BrokerTypes, Flow, Names
  <2> QED BY <1>2, <2>1, <2>2, <2>3, LocksHeld DEF LocksHeld, Current
<1>7. FlowsFit'
  <2>1. FlowFits(f)'
    BY <1>1, <1>2, FlowsFit DEF FlowsFit, FlowFits
  <2>2. ASSUME NEW g \in Flows \ {f} PROVE FlowFits(g)'
    <3>1. FlowFits(g) /\ flow'[g] = flow[g]
      BY <1>2, FlowsFit DEF FlowsFit
    <3>2. flow[g].at \notin {"new", "locked", "failed"} => flow[g].mapping \in Flows \ {f}
      BY <1>1, <3>1 DEF FlowFits, NoMapping
    <3> QED BY <1>1, <1>2, <3>1, <3>2 DEF FlowFits, Given
  <2> QED BY <2>1, <2>2 DEF FlowsFit
<1>8. BrokerFit'
  <2>1. \A h \in held \cup withdrawn : h.id # f
    BY <1>1, BrokerFit DEF BrokerFit
  <2>2. \A h \in held \cup withdrawn : h.id \in Flows
    BY BrokerTypes DEF BrokerTypes, Envelopes
  <2> QED BY <1>1, <1>2, <2>1, <2>2, BrokerFit DEF BrokerFit, Given
<1> QED BY <1>3, <1>4, <1>5, <1>6, <1>7, <1>8 DEF BrokerInv

\* An active row has an envelope that the broker was given.
LEMMA PickKeeps ==
    ASSUME BrokerTypes, RowsFit, RowsDiffer, LocksHeld, FlowsFit, BrokerFit,
           NEW f \in Flows, NEW kind \in {"unlock", "revoke"}, NEW m \in Flows, Pick(f, kind, m)
    PROVE  BrokerInv'
<1>1. /\ flow[f].at = "new"
      /\ mappings[m].state = "active" /\ mappings[m].cred \in Credentials
      /\ mappings[m].scope \in Flows /\ mappings[m].envelope \in Flows
      /\ UNCHANGED <<live, mappings, held, withdrawn, revoked>>
  BY BrokerTypes, RowsFit, Pick(f, kind, m) DEF Pick, BrokerTypes, Mapping, Names, RowsFit, RowFits
<1>2. flow' = [flow EXCEPT ![f] =
          [kind |-> kind, at |-> "ready", cred |-> mappings[m].cred, mapping |-> m,
           scope |-> mappings[m].scope, envelope |-> mappings[m].envelope, after |-> {}]]
  BY Pick(f, kind, m) DEF Pick, NoFlow
<1>3. /\ \A g \in Flows \ {f} : flow'[g] = flow[g]
      /\ flow'[f].at = "ready" /\ flow'[f].kind = kind /\ flow'[f].cred = mappings[m].cred
      /\ flow'[f].mapping = m /\ flow'[f].scope = mappings[m].scope
      /\ flow'[f].envelope = mappings[m].envelope /\ flow'[f].after = {}
  BY <1>2, BrokerTypes DEF BrokerTypes
<1>4. BrokerTypes'
  <2>1. [kind |-> kind, at |-> "ready", cred |-> mappings[m].cred, mapping |-> m,
         scope |-> mappings[m].scope, envelope |-> mappings[m].envelope, after |-> {}] \in Flow
    BY <1>1 DEF Flow, Stages, Names
  <2> QED BY <1>1, <1>2, <2>1, FlowBecomes, BrokerTypes DEF BrokerTypes
<1>5. RowsFit'
  BY <1>1, RowsFit, RowsStay
<1>6. RowsDiffer'
  <2>1. \A n \in Flows : mappings[n].request \in Names
    BY BrokerTypes DEF BrokerTypes, Mapping
  <2> QED BY <1>1, <1>3, <2>1, RowsDiffer DEF RowsDiffer, Current, Names
<1>7. LocksHeld'
  <2>1. \A g \in Flows : flow'[g].at \in {"new", "locked"} => g # f /\ flow'[g] = flow[g]
    BY <1>3
  <2> QED BY <1>1, <2>1, LocksHeld DEF LocksHeld, Current
<1>8. FlowsFit'
  <2>1. FlowFits(f)'
    BY <1>1, <1>3, NoneAssumption DEF FlowFits
  <2>2. ASSUME NEW g \in Flows \ {f} PROVE FlowFits(g)'
    BY <1>1, <1>3, FlowsFit DEF FlowsFit, FlowFits, Given
  <2> QED BY <2>1, <2>2 DEF FlowsFit
<1>9. BrokerFit'
  <2>1. \A h \in held \cup withdrawn : h.id # f
    BY <1>1, BrokerFit DEF BrokerFit
  <2>2. \A h \in held \cup withdrawn : h.id \in Flows
    BY BrokerTypes DEF BrokerTypes, Envelopes
  <2> QED BY <1>1, <1>3, <2>1, <2>2, BrokerFit DEF BrokerFit, Given
<1> QED BY <1>4, <1>5, <1>6, <1>7, <1>8, <1>9 DEF BrokerInv

\* A grant notes what was revoked before it.
LEMMA GrantKeeps ==
    ASSUME BrokerTypes, RowsFit, RowsDiffer, LocksHeld, FlowsFit, BrokerFit,
           NEW f \in Flows, Grant(f)
    PROVE  BrokerInv'
<1>1. /\ \A g \in Flows \ {f} : flow'[g] = flow[g]
      /\ flow'[f].at = "granted" /\ flow'[f].kind = flow[f].kind /\ flow'[f].cred = flow[f].cred
      /\ flow'[f].mapping = flow[f].mapping /\ flow'[f].scope = flow[f].scope
      /\ flow'[f].envelope = flow[f].envelope /\ flow'[f].after = revoked
  BY BrokerTypes, Grant(f) DEF Grant, BrokerTypes, Flow
<1>2. FlowFits(f)'
  BY <1>1, FlowsFit, Grant(f) DEF Grant, FlowsFit, FlowFits, Given
<1>3. flow' \in [Flows -> Flow]
  <2>1. [flow[f] EXCEPT !.at = "granted", !.after = revoked] \in Flow
    BY BrokerTypes DEF BrokerTypes, Flow, Stages
  <2>2. flow' = [flow EXCEPT ![f] = [flow[f] EXCEPT !.at = "granted", !.after = revoked]]
    BY BrokerTypes, Grant(f) DEF Grant, BrokerTypes
  <2> QED BY <2>1, <2>2, FlowBecomes, BrokerTypes DEF BrokerTypes
<1> QED BY <1>1, <1>2, <1>3, QuietMove, BrokerTypes, RowsFit, RowsDiffer, LocksHeld, FlowsFit, BrokerFit, Grant(f)
       DEF Grant, BrokerTypes, BrokerFit

\* The broker answers with an envelope of this credential and scope.
LEMMA BrokerEnrollsKeeps ==
    ASSUME BrokerTypes, RowsFit, RowsDiffer, LocksHeld, FlowsFit, BrokerFit,
           NEW f \in Flows, BrokerEnrolls(f)
    PROVE  BrokerInv'
<1>1. /\ flow[f].kind = "enroll" /\ flow[f].at = "granted"
      /\ flow[f].mapping \in Flows
      /\ mappings[flow[f].mapping].state # "none"
      /\ flow[f].cred = mappings[flow[f].mapping].cred /\ flow[f].cred \in Credentials
      /\ flow[f].scope = mappings[flow[f].mapping].scope /\ flow[f].scope \in Flows
      /\ flow[f].after \subseteq revoked
      /\ UNCHANGED <<live, mappings, withdrawn, revoked>>
  BY FlowsFit, RowsFit, BrokerEnrolls(f) DEF BrokerEnrolls, FlowsFit, FlowFits, RowsFit, RowFits
<1>2. PICK e \in {[id |-> f, cred |-> flow[f].cred, scope |-> flow[f].scope]} \cup
               {h \in held : h.cred = flow[f].cred /\ h.scope = flow[f].scope} :
          /\ held' = held \cup {e}
          /\ flow' = [flow EXCEPT ![f].at = "answered", ![f].envelope = e.id]
  BY BrokerEnrolls(f) DEF BrokerEnrolls
<1>3. /\ e \in Envelopes
      /\ e = [id |-> e.id, cred |-> flow[f].cred, scope |-> flow[f].scope]
      /\ e.id = f \/ e \in held
  BY <1>1, <1>2, BrokerTypes DEF BrokerTypes, Envelopes
<1>4. /\ \A g \in Flows \ {f} : flow'[g] = flow[g]
      /\ flow'[f].at = "answered" /\ flow'[f].kind = "enroll" /\ flow'[f].cred = flow[f].cred
      /\ flow'[f].mapping = flow[f].mapping /\ flow'[f].scope = flow[f].scope
      /\ flow'[f].envelope = e.id /\ flow'[f].after = flow[f].after
  BY <1>1, <1>2, BrokerTypes DEF BrokerTypes, Flow
<1>5. e \in held' /\ held \subseteq held' /\ \A h \in held' : h \in held \/ h = e
  BY <1>2
<1>6. BrokerTypes'
  <2>1. e.id \in Names
    BY <1>3 DEF Envelopes, Names
  <2>2. [flow[f] EXCEPT !.at = "answered", !.envelope = e.id] \in Flow
    BY <2>1, BrokerTypes DEF BrokerTypes, Flow, Stages
  <2>3. flow' = [flow EXCEPT ![f] = [flow[f] EXCEPT !.at = "answered", !.envelope = e.id]]
    BY <1>2, BrokerTypes DEF BrokerTypes
  <2>4. flow' \in [Flows -> Flow]
    BY <2>2, <2>3, FlowBecomes, BrokerTypes DEF BrokerTypes
  <2> QED BY <1>1, <1>2, <1>3, <2>4, BrokerTypes DEF BrokerTypes
<1>7. RowsFit'
  BY <1>1, <1>5, RowsFit DEF RowsFit, RowFits, Entry, Given
<1>8. RowsDiffer'
  <2>1. \A n \in Flows : mappings[n].request \in Names
    BY BrokerTypes DEF BrokerTypes, Mapping
  <2> QED BY <1>1, <1>4, <2>1, RowsDiffer DEF RowsDiffer, Current, Names
<1>9. LocksHeld'
  <2>1. \A g \in Flows : flow'[g].at \in {"new", "locked"} => g # f /\ flow'[g] = flow[g]
    BY <1>4
  <2> QED BY <1>1, <2>1, LocksHeld DEF LocksHeld, Current
<1>10. FlowsFit'
  <2>1. FlowFits(f)'
    BY <1>1, <1>3, <1>4, <1>5 DEF FlowFits
  <2>2. ASSUME NEW g \in Flows \ {f} PROVE FlowFits(g)'
    BY <1>1, <1>4, <1>5, FlowsFit DEF FlowsFit, FlowFits, Given
  <2> QED BY <2>1, <2>2 DEF FlowsFit
<1>11. BrokerFit'
  <2>1. \A h \in held \cup withdrawn : h.id # f /\ h.id \in Flows
    BY <1>1, BrokerTypes, BrokerFit DEF BrokerFit, BrokerTypes, Envelopes
  <2>2. \A h \in held', w \in withdrawn : h.id # w.id
    BY <1>3, <1>5, <2>1, BrokerFit DEF BrokerFit
  <2>3. ASSUME NEW h \in held' \cup withdrawn
        PROVE  flow'[h.id].at \notin {"new", "locked", "ready", "granted"}
    <3>1. CASE h \in held \cup withdrawn BY <1>4, <2>1, <3>1, BrokerFit DEF BrokerFit
    <3>2. CASE h = e /\ e.id = f BY <1>4, <3>2
    <3> QED BY <1>3, <1>5, <3>1, <3>2
  <2> QED BY <1>1, <2>2, <2>3, BrokerFit DEF BrokerFit, Given
<1> QED BY <1>6, <1>7, <1>8, <1>9, <1>10, <1>11 DEF BrokerInv

\* An envelope that opens is not withdrawn, so nobody was told it is.
LEMMA BrokerUnlocksKeeps ==
    ASSUME BrokerTypes, RowsFit, RowsDiffer, LocksHeld, FlowsFit, BrokerFit,
           NEW f \in Flows, BrokerUnlocks(f)
    PROVE  BrokerInv'
<1>1. /\ \A g \in Flows \ {f} : flow'[g] = flow[g]
      /\ flow'[f].at = "bound" /\ flow'[f].kind = flow[f].kind /\ flow'[f].cred = flow[f].cred
      /\ flow'[f].mapping = flow[f].mapping /\ flow'[f].scope = flow[f].scope
      /\ flow'[f].envelope = flow[f].envelope /\ flow'[f].after = flow[f].after
  BY BrokerTypes, MovesOnly, BrokerUnlocks(f) DEF BrokerUnlocks, BrokerTypes
<1>2. FlowFits(f)'
  <2>1. flow[f].envelope \notin revoked
    BY BrokerFit, BrokerUnlocks(f) DEF BrokerUnlocks, BrokerFit, Given
  <2> QED BY <1>1, <2>1, FlowsFit, BrokerUnlocks(f) DEF BrokerUnlocks, FlowsFit, FlowFits, Given
<1>3. flow' \in [Flows -> Flow]
  BY BrokerTypes, FlowMoves, BrokerUnlocks(f) DEF BrokerUnlocks, BrokerTypes, Stages
<1> QED BY <1>1, <1>2, <1>3, QuietMove, BrokerTypes, RowsFit, RowsDiffer, LocksHeld, FlowsFit, BrokerFit, BrokerUnlocks(f)
       DEF BrokerUnlocks, BrokerTypes, BrokerFit

\* The envelope of the row is withdrawn from here on.
LEMMA BrokerRevokesKeeps ==
    ASSUME BrokerTypes, RowsFit, RowsDiffer, LocksHeld, FlowsFit, BrokerFit,
           NEW f \in Flows, BrokerRevokes(f)
    PROVE  BrokerInv'
<1>1. /\ flow[f].kind = "revoke" /\ flow[f].at = "granted"
      /\ flow[f].mapping \in Flows
      /\ flow[f].envelope # None /\ flow[f].envelope = mappings[flow[f].mapping].envelope
      /\ UNCHANGED <<live, mappings, revoked>>
  BY FlowsFit, BrokerRevokes(f) DEF BrokerRevokes, FlowsFit, FlowFits
<1>2. /\ held' = held \ {h \in held : h.id = flow[f].envelope}
      /\ withdrawn' = withdrawn \cup {h \in held : h.id = flow[f].envelope}
  BY BrokerRevokes(f) DEF BrokerRevokes
<1>3. /\ \A g \in Flows \ {f} : flow'[g] = flow[g]
      /\ flow'[f].at = "bound" /\ flow'[f].kind = flow[f].kind /\ flow'[f].cred = flow[f].cred
      /\ flow'[f].mapping = flow[f].mapping /\ flow'[f].scope = flow[f].scope
      /\ flow'[f].envelope = flow[f].envelope /\ flow'[f].after = flow[f].after
  BY BrokerTypes, MovesOnly, BrokerRevokes(f) DEF BrokerRevokes, BrokerTypes
<1>4. held' \cup withdrawn' = held \cup withdrawn /\ \A e : Given(e) => Given(e)'
  BY <1>2 DEF Given
<1>5. Given(flow[f].envelope)'
  <2>1. Entry(flow[f].mapping) \in held \cup withdrawn
    BY <1>1, RowsFit DEF RowsFit, RowFits
  <2>2. Entry(flow[f].mapping).id = flow[f].envelope
    BY <1>1 DEF Entry
  <2>3. Entry(flow[f].mapping) \in withdrawn'
    BY <1>2, <2>1, <2>2
  <2> QED BY <1>3, <2>2, <2>3 DEF Given
<1>6. BrokerTypes'
  <2>1. flow' \in [Flows -> Flow]
    BY BrokerTypes, FlowMoves, BrokerRevokes(f) DEF BrokerRevokes, BrokerTypes, Stages
  <2> QED BY <1>1, <1>2, <2>1, BrokerTypes DEF BrokerTypes
<1>7. RowsFit'
  BY <1>1, <1>4, RowsFit DEF RowsFit, RowFits, Entry
<1>8. RowsDiffer'
  <2>1. \A n \in Flows : mappings[n].request \in Names
    BY BrokerTypes DEF BrokerTypes, Mapping
  <2> QED BY <1>1, <1>3, <2>1, RowsDiffer DEF RowsDiffer, Current, Names
<1>9. LocksHeld'
  <2>1. \A g \in Flows : flow'[g].at \in {"new", "locked"} => g # f /\ flow'[g] = flow[g]
    BY <1>3
  <2> QED BY <1>1, <2>1, LocksHeld DEF LocksHeld, Current
<1>10. FlowsFit'
  <2>1. FlowFits(f)'
    BY <1>1, <1>3, <1>5, FlowsFit DEF FlowsFit, FlowFits
  <2>2. ASSUME NEW g \in Flows \ {f} PROVE FlowFits(g)'
    BY <1>1, <1>3, <1>4, FlowsFit DEF FlowsFit, FlowFits
  <2> QED BY <2>1, <2>2 DEF FlowsFit
<1>11. BrokerFit'
  <2>1. \A h \in held \cup withdrawn : flow'[h.id].at \notin {"new", "locked", "ready", "granted"}
    BY <1>3, BrokerTypes, BrokerFit DEF BrokerFit, BrokerTypes, Envelopes
  <2>2. \A h \in held', w \in withdrawn' : h.id # w.id
    BY <1>2, BrokerFit DEF BrokerFit
  <2> QED BY <1>1, <1>4, <2>1, <2>2, BrokerFit DEF BrokerFit
<1> QED BY <1>6, <1>7, <1>8, <1>9, <1>10, <1>11 DEF BrokerInv

\* A pending row takes an envelope that no other row has.
LEMMA BindKeeps ==
    ASSUME BrokerTypes, RowsFit, RowsDiffer, LocksHeld, FlowsFit, BrokerFit,
           NEW f \in Flows, Bind(f)
    PROVE  BrokerInv'
<1>1. PICK a \in {"bound", "failed"} :
          /\ Moves(f, a)
          /\ a = "bound" =>
                /\ mappings[flow[f].mapping].state = "pending"
                /\ mappings[flow[f].mapping].envelope \in {None, flow[f].envelope}
                /\ \A n \in Flows \ {flow[f].mapping} : mappings[n].envelope # flow[f].envelope
                /\ mappings' = [mappings EXCEPT ![flow[f].mapping].envelope = flow[f].envelope,
                                               ![flow[f].mapping].request = f]
          /\ a = "failed" => mappings' = mappings
  BY Bind(f) DEF Bind
<1>2. /\ flow[f].at = "answered" /\ flow[f].kind = "enroll"
      /\ flow[f].mapping \in Flows
      /\ mappings[flow[f].mapping].state # "none"
      /\ flow[f].cred = mappings[flow[f].mapping].cred
      /\ flow[f].scope = mappings[flow[f].mapping].scope
      /\ [id |-> flow[f].envelope, cred |-> flow[f].cred, scope |-> flow[f].scope] \in held \cup withdrawn
      /\ flow[f].envelope \in Flows
      /\ UNCHANGED <<live, held, withdrawn, revoked>>
  BY BrokerTypes, FlowsFit, Bind(f) DEF Bind, FlowsFit, FlowFits, BrokerTypes, Envelopes
<1>3. /\ \A g \in Flows \ {f} : flow'[g] = flow[g]
      /\ flow'[f].at = a /\ flow'[f].kind = flow[f].kind /\ flow'[f].cred = flow[f].cred
      /\ flow'[f].mapping = flow[f].mapping /\ flow'[f].scope = flow[f].scope
      /\ flow'[f].envelope = flow[f].envelope /\ flow'[f].after = flow[f].after
  BY <1>1, BrokerTypes, MovesOnly DEF BrokerTypes
<1>4. /\ \A n \in Flows : a = "failed" \/ n # flow[f].mapping => mappings'[n] = mappings[n]
      /\ \A n \in Flows : /\ mappings'[n].state = mappings[n].state
                           /\ mappings'[n].cred = mappings[n].cred
                           /\ mappings'[n].scope = mappings[n].scope
      /\ a = "bound" => /\ mappings'[flow[f].mapping].envelope = flow[f].envelope
                        /\ mappings'[flow[f].mapping].request = f
  BY <1>1, <1>2, BrokerTypes DEF BrokerTypes, Mapping
<1>5. BrokerTypes'
  <2>1. flow' \in [Flows -> Flow]
    BY <1>1, FlowMoves, BrokerTypes DEF BrokerTypes, Stages
  <2>2. mappings' \in [Flows -> Mapping]
    BY <1>1, <1>2, BrokerTypes DEF BrokerTypes, Mapping, Names
  <2> QED BY <1>2, <2>1, <2>2, BrokerTypes DEF BrokerTypes
<1>6. RowsFit'
  <2>1. SUFFICES ASSUME NEW m \in Flows PROVE RowFits(m)'
    BY DEF RowsFit
  <2>2. RowFits(m)
    BY RowsFit DEF RowsFit
  <2>3. CASE a = "bound" /\ m = flow[f].mapping
    BY <1>1, <1>2, <1>4, <2>2, <2>3, NoneAssumption DEF RowFits, Entry, Given
  <2>4. CASE mappings'[m] = mappings[m]
    BY <1>2, <2>2, <2>4 DEF RowFits, Entry, Given
  <2> QED BY <1>1, <1>4, <2>3, <2>4
<1>7. RowsDiffer'
  <2>1. \A m, n \in Flows : Current(m)' /\ Current(n)' /\ (mappings[m].cred = mappings[n].cred)' => m = n
    BY <1>4, RowsDiffer DEF RowsDiffer, Current
  <2>2. \A m, n \in Flows : (mappings[m].envelope # None /\ mappings[m].envelope = mappings[n].envelope)' => m = n
    BY <1>1, <1>4, RowsDiffer DEF RowsDiffer
  <2>3. ASSUME NEW m \in Flows, mappings'[m].request # None
        PROVE  /\ flow'[mappings'[m].request].mapping = m
               /\ flow'[mappings'[m].request].at \notin {"new", "locked"}
    <3>1. mappings[m].request \in Names
      BY BrokerTypes DEF BrokerTypes, Mapping
    <3> QED BY <1>1, <1>3, <1>4, <2>3, <3>1, RowsDiffer DEF RowsDiffer, Names
  <2> QED BY <2>1, <2>2, <2>3 DEF RowsDiffer
<1>8. LocksHeld'
  <2>1. \A g \in Flows : flow'[g].at = "locked" => g # f /\ flow'[g] = flow[g]
    BY <1>1, <1>3
  <2>2. \A g \in Flows : flow'[g].at \in {"new", "locked"} => mappings'[g] = NoMapping
    BY <1>1, <1>2, <1>3, <1>4, LocksHeld DEF LocksHeld, NoMapping
  <2>3. \A g \in Flows : flow'[g].at = "locked" => flow'[g].mapping \in Names
    BY <2>1, BrokerTypes DEF BrokerTypes, Flow
  <2> QED BY <1>4, <2>1, <2>2, <2>3, LocksHeld DEF LocksHeld, Current, Names
<1>9. FlowsFit'
  BY <1>1, <1>2, <1>3, <1>4, FlowsFit, NoneAssumption DEF FlowsFit, FlowFits, Given
<1>10. BrokerFit'
  <2>1. \A h \in held \cup withdrawn : h.id \in Flows
    BY BrokerTypes DEF BrokerTypes, Envelopes
  <2> QED BY <1>1, <1>2, <1>3, <2>1, BrokerFit DEF BrokerFit, Given
<1> QED BY <1>5, <1>6, <1>7, <1>8, <1>9, <1>10 DEF BrokerInv

\* A consumed receipt changes no row.
LEMMA ConsumeKeeps ==
    ASSUME BrokerTypes, RowsFit, RowsDiffer, LocksHeld, FlowsFit, BrokerFit,
           NEW f \in Flows, Consume(f)
    PROVE  BrokerInv'
<1>1. /\ \A g \in Flows \ {f} : flow'[g] = flow[g]
      /\ flow'[f].at = "consumed" /\ flow'[f].kind = flow[f].kind /\ flow'[f].cred = flow[f].cred
      /\ flow'[f].mapping = flow[f].mapping /\ flow'[f].scope = flow[f].scope
      /\ flow'[f].envelope = flow[f].envelope /\ flow'[f].after = flow[f].after
  BY BrokerTypes, MovesOnly, Consume(f) DEF Consume, BrokerTypes
<1>2. FlowFits(f)'
  BY <1>1, FlowsFit, Consume(f) DEF Consume, FlowsFit, FlowFits, Given
<1>3. flow' \in [Flows -> Flow]
  BY BrokerTypes, FlowMoves, Consume(f) DEF Consume, BrokerTypes, Stages
<1> QED BY <1>1, <1>2, <1>3, QuietMove, BrokerTypes, RowsFit, RowsDiffer, LocksHeld, FlowsFit, BrokerFit, Consume(f)
       DEF Consume, BrokerTypes, BrokerFit

\* The row that fits the receipt is the one the operation prepared ...
LEMMA CompleteEnrollKeeps ==
    ASSUME BrokerTypes, RowsFit, RowsDiffer, LocksHeld, FlowsFit, BrokerFit,
           NEW f \in Flows, CompleteEnroll(f)
    PROVE  BrokerInv'
<1> DEFINE fit == {m \in Flows : /\ Fits(f, m, "pending")
                             /\ mappings[m].request = f
                             /\ mappings[m].cred \in live}
<1>1. /\ flow[f].kind = "enroll" /\ flow[f].at = "consumed"
      /\ flow[f].mapping \in Flows
      /\ mappings[flow[f].mapping].state # "none"
      /\ flow[f].cred = mappings[flow[f].mapping].cred
      /\ flow[f].scope = mappings[flow[f].mapping].scope
      /\ [id |-> flow[f].envelope, cred |-> flow[f].cred, scope |-> flow[f].scope] \in held \cup withdrawn
      /\ flow[f].envelope \in Flows
      /\ UNCHANGED <<live, held, withdrawn, revoked>>
  BY BrokerTypes, FlowsFit, CompleteEnroll(f) DEF CompleteEnroll, FlowsFit, FlowFits, BrokerTypes, Envelopes
<1>2. \A m \in fit : m = flow[f].mapping
  BY RowsDiffer, NoneAssumption, <1>1 DEF RowsDiffer, Fits
<1>3. PICK a \in {"failed", "completed"} :
          Moves(f, a) /\ (a = "failed" <=> fit = {})
  BY CompleteEnroll(f) DEF CompleteEnroll
<1>4. /\ \A g \in Flows \ {f} : flow'[g] = flow[g]
      /\ flow'[f].at = a /\ flow'[f].kind = flow[f].kind /\ flow'[f].cred = flow[f].cred
      /\ flow'[f].mapping = flow[f].mapping /\ flow'[f].scope = flow[f].scope
      /\ flow'[f].envelope = flow[f].envelope /\ flow'[f].after = flow[f].after
  BY <1>3, BrokerTypes, MovesOnly DEF BrokerTypes
<1>5. /\ \A m \in Flows \ fit : mappings'[m] = mappings[m]
      /\ \A m \in fit : mappings[m].state = "pending" /\ mappings'[m].state = "active"
      /\ \A m \in Flows : /\ mappings'[m].cred = mappings[m].cred
                           /\ mappings'[m].scope = mappings[m].scope
                           /\ mappings'[m].envelope = mappings[m].envelope
                           /\ mappings'[m].request = mappings[m].request
  BY BrokerTypes, CompleteEnroll(f) DEF CompleteEnroll, BrokerTypes, Mapping, Fits
<1>6. \A m \in fit : mappings[m].envelope = flow[f].envelope
  BY DEF Fits
<1> HIDE DEF fit
<1>7. BrokerTypes'
  <2>1. flow' \in [Flows -> Flow]
    BY <1>3, BrokerTypes, FlowMoves DEF BrokerTypes, Stages
  <2>2. mappings' \in [Flows -> Mapping]
    BY BrokerTypes, CompleteEnroll(f) DEF CompleteEnroll, BrokerTypes, Mapping
  <2> QED BY <1>1, <2>1, <2>2, BrokerTypes DEF BrokerTypes
<1>8. RowsFit'
  <2>1. SUFFICES ASSUME NEW m \in Flows PROVE RowFits(m)'
    BY DEF RowsFit
  <2>2. RowFits(m)
    BY RowsFit DEF RowsFit
  <2>3. CASE m \in fit
    BY <1>1, <1>2, <1>5, <1>6, <2>2, <2>3, NoneAssumption DEF RowFits, Entry, Given
  <2>4. CASE mappings'[m] = mappings[m]
    BY <1>1, <2>2, <2>4 DEF RowFits, Entry, Given
  <2> QED BY <1>5, <2>3, <2>4
<1>9. RowsDiffer'
  <2>1. \A n \in Flows : mappings[n].request \in Names /\ Current(n)' => Current(n)
    BY <1>5, BrokerTypes DEF BrokerTypes, Mapping, Current
  <2>2. \A m, n \in Flows : Current(m)' /\ Current(n)' /\ (mappings[m].cred = mappings[n].cred)' => m = n
    BY <1>5, <2>1, RowsDiffer, BrokerTypes DEF RowsDiffer, BrokerTypes, Mapping, Current
  <2>3. \A m, n \in Flows : (mappings[m].envelope # None /\ mappings[m].envelope = mappings[n].envelope)' => m = n
    BY <1>5, RowsDiffer DEF RowsDiffer
  <2>4. ASSUME NEW m \in Flows, mappings'[m].request # None
        PROVE  /\ flow'[mappings'[m].request].mapping = m
               /\ flow'[mappings'[m].request].at \notin {"new", "locked"}
    BY <1>3, <1>4, <1>5, <2>1, <2>4, RowsDiffer, BrokerTypes DEF RowsDiffer, Names, BrokerTypes, Mapping
  <2> QED BY <2>2, <2>3, <2>4 DEF RowsDiffer
<1>10. LocksHeld'
  <2>1. \A g \in Flows : flow'[g].at \in {"new", "locked"} => g # f /\ flow'[g] = flow[g]
    BY <1>3, <1>4
  <2>2. \A m \in Flows : mappings[m] = NoMapping => mappings'[m] = NoMapping
    BY <1>5 DEF NoMapping
  <2>3. \A m \in Flows : /\ Current(m)' => Current(m)
                         /\ mappings[m].state # "none" => mappings'[m].state # "none"
    BY <1>5 DEF Current
  <2>4. \A g \in Flows : flow[g].mapping \in Names
    BY BrokerTypes DEF BrokerTypes, Flow
  <2> QED BY <1>5, <2>1, <2>2, <2>3, <2>4, LocksHeld DEF LocksHeld, Names
<1>11. FlowsFit'
  <2>1. FlowFits(f)'
    <3>1. FlowFits(f) /\ f \in Flows
      BY FlowsFit DEF FlowsFit
    <3>2. /\ mappings'[flow[f].mapping].state \in {mappings[flow[f].mapping].state, "active"}
          /\ a = "completed" =>
                /\ mappings'[flow[f].mapping].state = "active"
                /\ mappings'[flow[f].mapping].envelope = flow[f].envelope
      BY <1>1, <1>2, <1>3, <1>5, <1>6
    <3> QED BY <1>1, <1>3, <1>4, <1>5, <3>1, <3>2 DEF FlowFits, Given
  <2>2. ASSUME NEW g \in Flows \ {f} PROVE FlowFits(g)'
    <3>1. FlowFits(g) /\ flow'[g] = flow[g]
      BY <1>4, FlowsFit DEF FlowsFit
    <3>2. \A m \in Flows : /\ mappings[m].state \in {"active", "revoked"} => mappings'[m].state \in {"active", "revoked"}
                           /\ mappings[m].state = "revoked" => mappings'[m].state = "revoked"
                           /\ mappings[m].state # "none" => mappings'[m].state # "none"
      BY <1>5
    <3> QED BY <1>1, <1>5, <3>1, <3>2 DEF FlowFits, Given
  <2> QED BY <2>1, <2>2 DEF FlowsFit
<1>12. BrokerFit'
  <2>1. \A h \in held \cup withdrawn : h.id \in Flows
    BY BrokerTypes DEF BrokerTypes, Envelopes
  <2> QED BY <1>1, <1>3, <1>4, <2>1, BrokerFit DEF BrokerFit, Given
<1> QED BY <1>7, <1>8, <1>9, <1>10, <1>11, <1>12 DEF BrokerInv

\* ... and the one the page picked to revoke.
LEMMA CompleteRevokeKeeps ==
    ASSUME BrokerTypes, RowsFit, RowsDiffer, LocksHeld, FlowsFit, BrokerFit,
           NEW f \in Flows, CompleteRevoke(f)
    PROVE  BrokerInv'
<1> DEFINE fit == {m \in Flows : Fits(f, m, "active")}
<1>1. /\ flow[f].kind = "revoke" /\ flow[f].at = "consumed"
      /\ flow[f].mapping \in Flows
      /\ mappings[flow[f].mapping].state # "none"
      /\ flow[f].cred = mappings[flow[f].mapping].cred
      /\ flow[f].scope = mappings[flow[f].mapping].scope
      /\ mappings[flow[f].mapping].state \in {"active", "revoked"}
      /\ flow[f].envelope # None /\ flow[f].envelope = mappings[flow[f].mapping].envelope
      /\ Given(flow[f].envelope)
      /\ UNCHANGED <<live, held, withdrawn, revoked>>
  BY BrokerTypes, FlowsFit, CompleteRevoke(f) DEF CompleteRevoke, FlowsFit, FlowFits, BrokerTypes, Envelopes
<1>2. \A m \in fit : m = flow[f].mapping
  BY RowsDiffer, NoneAssumption, <1>1 DEF RowsDiffer, Fits
<1>3. PICK a \in {"failed", "completed"} :
          Moves(f, a) /\ (a = "failed" <=> fit = {})
  BY CompleteRevoke(f) DEF CompleteRevoke
<1>4. /\ \A g \in Flows \ {f} : flow'[g] = flow[g]
      /\ flow'[f].at = a /\ flow'[f].kind = flow[f].kind /\ flow'[f].cred = flow[f].cred
      /\ flow'[f].mapping = flow[f].mapping /\ flow'[f].scope = flow[f].scope
      /\ flow'[f].envelope = flow[f].envelope /\ flow'[f].after = flow[f].after
  BY <1>3, BrokerTypes, MovesOnly DEF BrokerTypes
<1>5. /\ \A m \in Flows \ fit : mappings'[m] = mappings[m]
      /\ \A m \in fit : mappings[m].state = "active" /\ mappings'[m].state = "revoked"
      /\ \A m \in Flows : /\ mappings'[m].cred = mappings[m].cred
                           /\ mappings'[m].scope = mappings[m].scope
                           /\ mappings'[m].envelope = mappings[m].envelope
                           /\ mappings'[m].request = mappings[m].request
  BY BrokerTypes, CompleteRevoke(f) DEF CompleteRevoke, BrokerTypes, Mapping, Fits
<1>6. \A m \in fit : mappings[m].envelope = flow[f].envelope
  BY DEF Fits
<1> HIDE DEF fit
<1>7. BrokerTypes'
  <2>1. flow' \in [Flows -> Flow]
    BY <1>3, BrokerTypes, FlowMoves DEF BrokerTypes, Stages
  <2>2. mappings' \in [Flows -> Mapping]
    BY BrokerTypes, CompleteRevoke(f) DEF CompleteRevoke, BrokerTypes, Mapping
  <2> QED BY <1>1, <2>1, <2>2, BrokerTypes DEF BrokerTypes
<1>8. RowsFit'
  <2>1. SUFFICES ASSUME NEW m \in Flows PROVE RowFits(m)'
    BY DEF RowsFit
  <2>2. RowFits(m)
    BY RowsFit DEF RowsFit
  <2>3. CASE m \in fit
    BY <1>1, <1>2, <1>5, <1>6, <2>2, <2>3, NoneAssumption DEF RowFits, Entry, Given
  <2>4. CASE mappings'[m] = mappings[m]
    BY <1>1, <2>2, <2>4 DEF RowFits, Entry, Given
  <2> QED BY <1>5, <2>3, <2>4
<1>9. RowsDiffer'
  <2>1. \A n \in Flows : mappings[n].request \in Names /\ Current(n)' => Current(n)
    BY <1>5, BrokerTypes DEF BrokerTypes, Mapping, Current
  <2>2. \A m, n \in Flows : Current(m)' /\ Current(n)' /\ (mappings[m].cred = mappings[n].cred)' => m = n
    BY <1>5, <2>1, RowsDiffer, BrokerTypes DEF RowsDiffer, BrokerTypes, Mapping, Current
  <2>3. \A m, n \in Flows : (mappings[m].envelope # None /\ mappings[m].envelope = mappings[n].envelope)' => m = n
    BY <1>5, RowsDiffer DEF RowsDiffer
  <2>4. ASSUME NEW m \in Flows, mappings'[m].request # None
        PROVE  /\ flow'[mappings'[m].request].mapping = m
               /\ flow'[mappings'[m].request].at \notin {"new", "locked"}
    BY <1>3, <1>4, <1>5, <2>1, <2>4, RowsDiffer, BrokerTypes DEF RowsDiffer, Names, BrokerTypes, Mapping
  <2> QED BY <2>2, <2>3, <2>4 DEF RowsDiffer
<1>10. LocksHeld'
  <2>1. \A g \in Flows : flow'[g].at \in {"new", "locked"} => g # f /\ flow'[g] = flow[g]
    BY <1>3, <1>4
  <2>2. \A m \in Flows : mappings[m] = NoMapping => mappings'[m] = NoMapping
    BY <1>5 DEF NoMapping
  <2>3. \A m \in Flows : /\ Current(m)' => Current(m)
                         /\ mappings[m].state # "none" => mappings'[m].state # "none"
    BY <1>5 DEF Current
  <2>4. \A g \in Flows : flow[g].mapping \in Names
    BY BrokerTypes DEF BrokerTypes, Flow
  <2> QED BY <1>5, <2>1, <2>2, <2>3, <2>4, LocksHeld DEF LocksHeld, Names
<1>11. FlowsFit'
  <2>1. FlowFits(f)'
    <3>1. FlowFits(f) /\ f \in Flows
      BY FlowsFit DEF FlowsFit
    <3>2. /\ mappings'[flow[f].mapping].state \in {mappings[flow[f].mapping].state, "revoked"}
          /\ a = "completed" =>
                /\ mappings'[flow[f].mapping].state = "revoked"
                /\ mappings'[flow[f].mapping].envelope = flow[f].envelope
      BY <1>1, <1>2, <1>3, <1>5, <1>6
    <3> QED BY <1>1, <1>3, <1>4, <1>5, <3>1, <3>2 DEF FlowFits, Given
  <2>2. ASSUME NEW g \in Flows \ {f} PROVE FlowFits(g)'
    <3>1. FlowFits(g) /\ flow'[g] = flow[g]
      BY <1>4, FlowsFit DEF FlowsFit
    <3>2. \A m \in Flows : /\ mappings[m].state \in {"active", "revoked"} => mappings'[m].state \in {"active", "revoked"}
                           /\ mappings[m].state = "revoked" => mappings'[m].state = "revoked"
                           /\ mappings[m].state # "none" => mappings'[m].state # "none"
      BY <1>5
    <3> QED BY <1>1, <1>5, <3>1, <3>2 DEF FlowFits, Given
  <2> QED BY <2>1, <2>2 DEF FlowsFit
<1>12. BrokerFit'
  <2>1. \A h \in held \cup withdrawn : h.id \in Flows
    BY BrokerTypes DEF BrokerTypes, Envelopes
  <2> QED BY <1>1, <1>3, <1>4, <2>1, BrokerFit DEF BrokerFit, Given
<1> QED BY <1>7, <1>8, <1>9, <1>10, <1>11, <1>12 DEF BrokerInv

\* An unlock changes no row.
LEMMA CompleteUnlockKeeps ==
    ASSUME BrokerTypes, RowsFit, RowsDiffer, LocksHeld, FlowsFit, BrokerFit,
           NEW f \in Flows, CompleteUnlock(f)
    PROVE  BrokerInv'
<1>1. PICK at \in {"completed", "failed"} : Moves(f, at)
  BY CompleteUnlock(f) DEF CompleteUnlock
<1>2. /\ \A g \in Flows \ {f} : flow'[g] = flow[g]
      /\ flow'[f].at = at /\ flow'[f].kind = flow[f].kind /\ flow'[f].cred = flow[f].cred
      /\ flow'[f].mapping = flow[f].mapping /\ flow'[f].scope = flow[f].scope
      /\ flow'[f].envelope = flow[f].envelope /\ flow'[f].after = flow[f].after
  BY <1>1, BrokerTypes, MovesOnly DEF BrokerTypes
<1>3. FlowFits(f)'
  BY <1>1, <1>2, FlowsFit, CompleteUnlock(f) DEF CompleteUnlock, FlowsFit, FlowFits, Given
<1>4. flow' \in [Flows -> Flow]
  BY <1>1, BrokerTypes, FlowMoves DEF BrokerTypes, Stages
<1> QED BY <1>2, <1>3, <1>4, <1>1, QuietMove, BrokerTypes, RowsFit, RowsDiffer, LocksHeld, FlowsFit, BrokerFit, CompleteUnlock(f)
       DEF CompleteUnlock, BrokerTypes, BrokerFit

\* What is reported revoked has been withdrawn.
LEMMA ReportKeeps ==
    ASSUME BrokerTypes, RowsFit, RowsDiffer, LocksHeld, FlowsFit, BrokerFit,
           NEW f \in Flows, Report(f)
    PROVE  BrokerInv'
<1>1. /\ \A g \in Flows \ {f} : flow'[g] = flow[g]
      /\ flow'[f].at = "done" /\ flow'[f].kind = flow[f].kind /\ flow'[f].cred = flow[f].cred
      /\ flow'[f].mapping = flow[f].mapping /\ flow'[f].scope = flow[f].scope
      /\ flow'[f].envelope = flow[f].envelope /\ flow'[f].after = flow[f].after
  BY BrokerTypes, MovesOnly, Report(f) DEF Report, BrokerTypes
<1>2. FlowFits(f)'
  BY <1>1, FlowsFit, Report(f) DEF Report, FlowsFit, FlowFits, Given
<1>3. flow' \in [Flows -> Flow]
  BY BrokerTypes, FlowMoves, Report(f) DEF Report, BrokerTypes, Stages
<1>4. revoked' \subseteq Names
  BY BrokerTypes, Report(f) DEF Report, BrokerTypes, Flow
<1>5. \A e \in revoked' : Given(e)
  BY FlowsFit, BrokerFit, Report(f) DEF Report, FlowsFit, FlowFits, BrokerFit
<1> QED BY <1>1, <1>2, <1>3, <1>4, <1>5, QuietMove, BrokerTypes, RowsFit, RowsDiffer, LocksHeld, FlowsFit,
       BrokerFit, Report(f)
       DEF Report

\* A page that stops leaves rows and broker behind as they are.
LEMMA StopKeeps ==
    ASSUME BrokerTypes, RowsFit, RowsDiffer, LocksHeld, FlowsFit, BrokerFit,
           NEW f \in Flows, Stop(f)
    PROVE  BrokerInv'
<1>1. /\ \A g \in Flows \ {f} : flow'[g] = flow[g]
      /\ flow'[f].at = "failed" /\ flow'[f].kind = flow[f].kind /\ flow'[f].cred = flow[f].cred
      /\ flow'[f].mapping = flow[f].mapping /\ flow'[f].scope = flow[f].scope
      /\ flow'[f].envelope = flow[f].envelope /\ flow'[f].after = flow[f].after
  BY BrokerTypes, MovesOnly, Stop(f) DEF Stop, BrokerTypes
<1>2. FlowFits(f)'
  BY <1>1, FlowsFit, Stop(f) DEF Stop, FlowsFit, FlowFits, Given
<1>3. flow' \in [Flows -> Flow]
  BY BrokerTypes, FlowMoves, Stop(f) DEF Stop, BrokerTypes, Stages
<1> QED BY <1>1, <1>2, <1>3, QuietMove, BrokerTypes, RowsFit, RowsDiffer, LocksHeld, FlowsFit, BrokerFit, Stop(f)
       DEF Stop, BrokerTypes, BrokerFit

\* Removing a passkey leaves rows and broker as they are.
LEMMA RemovePasskeyKeeps ==
    ASSUME BrokerTypes, RowsFit, RowsDiffer, LocksHeld, FlowsFit, BrokerFit,
           NEW c \in Credentials, RemovePasskey(c)
    PROVE  BrokerInv'
<1>1. UNCHANGED <<mappings, flow, held, withdrawn, revoked>> /\ live' \subseteq Credentials
  BY BrokerTypes, RemovePasskey(c) DEF RemovePasskey, BrokerTypes
<1>2. BrokerTypes' BY <1>1, BrokerTypes DEF BrokerTypes
<1>3. RowsFit' BY <1>1, RowsFit, RowsStay
<1>4. RowsDiffer' BY <1>1, RowsDiffer DEF RowsDiffer, Current
<1>5. LocksHeld' BY <1>1, LocksHeld DEF LocksHeld, Current
<1>6. FlowsFit' BY <1>1, FlowsFit DEF FlowsFit, FlowFits, Given
<1>7. BrokerFit' BY <1>1, BrokerFit DEF BrokerFit, Given
<1> QED BY <1>2, <1>3, <1>4, <1>5, <1>6, <1>7 DEF BrokerInv

\* Broker, mappings and what the pages were told agree, for every number of
\* pages, operations and passkeys (prepareEnrollment, bindPendingEnrollment,
\* completeVerifiedReceipt).
THEOREM BrokerAgrees == PortableSpec => []PortableUnlockHolds
<1>1. BrokerInv /\ [PortableNext]_portableVars => BrokerInv'
  <2> SUFFICES ASSUME BrokerTypes, RowsFit, RowsDiffer, LocksHeld, FlowsFit, BrokerFit, [PortableNext]_portableVars
               PROVE  BrokerInv'
    BY DEF BrokerInv
  <2>1. CASE UNCHANGED portableVars
    BY <2>1 DEF portableVars, BrokerInv, BrokerTypes, RowsFit, RowFits, RowsDiffer, LocksHeld, FlowsFit, FlowFits, BrokerFit,
       Current, Given, Entry
  <2>2. ASSUME NEW f \in Flows, NEW c \in Credentials, PrepareFinds(f, c) PROVE BrokerInv'
    BY <2>2, PrepareFindsKeeps
  <2>3. ASSUME NEW f \in Flows, NEW kind \in {"unlock", "revoke"}, NEW m \in Flows, Pick(f, kind, m)
        PROVE  BrokerInv'
    BY <2>3, PickKeeps
  <2>4. ASSUME NEW f \in Flows, PrepareReuses(f) \/ PrepareInserts(f) \/ Grant(f) PROVE BrokerInv'
    BY <2>4, PrepareReusesKeeps, PrepareInsertsKeeps, GrantKeeps
  <2>5. ASSUME NEW f \in Flows, BrokerEnrolls(f) \/ BrokerUnlocks(f) \/ BrokerRevokes(f) PROVE BrokerInv'
    BY <2>5, BrokerEnrollsKeeps, BrokerUnlocksKeeps, BrokerRevokesKeeps
  <2>6. ASSUME NEW f \in Flows, Bind(f) \/ Consume(f) \/ Report(f) \/ Stop(f) PROVE BrokerInv'
    BY <2>6, BindKeeps, ConsumeKeeps, ReportKeeps, StopKeeps
  <2>7. ASSUME NEW f \in Flows, CompleteEnroll(f) \/ CompleteRevoke(f) \/ CompleteUnlock(f)
        PROVE  BrokerInv'
    BY <2>7, CompleteEnrollKeeps, CompleteRevokeKeeps, CompleteUnlockKeeps
  <2>8. ASSUME NEW c \in Credentials, RemovePasskey(c) PROVE BrokerInv'
    BY <2>8, RemovePasskeyKeeps
  <2> QED BY <2>1, <2>2, <2>3, <2>4, <2>5, <2>6, <2>7, <2>8 DEF PortableNext
<1>2. BrokerInv => PortableUnlockHolds
  <2> SUFFICES ASSUME BrokerInv PROVE PortableUnlockHolds
    OBVIOUS
  <2>1. ASSUME NEW m \in Flows
        PROVE  /\ mappings[m].state = "active" => Entry(m) \in held \cup withdrawn
               /\ mappings[m].state = "revoked" => \A h \in held : h.id # mappings[m].envelope
    BY DEF BrokerInv, RowsFit, RowFits, BrokerFit, Given
  <2>2. \A m, n \in Flows : Current(m) /\ Current(n) /\ mappings[m].cred = mappings[n].cred => m = n
    BY DEF BrokerInv, RowsDiffer
  <2>3. ASSUME NEW f \in Flows, flow[f].at = "done"
        PROVE  CASE flow[f].kind = "enroll" ->
                        /\ mappings[flow[f].mapping].state \in {"active", "revoked"}
                        /\ mappings[flow[f].mapping].envelope = flow[f].envelope
                 [] flow[f].kind = "unlock" -> flow[f].envelope \notin flow[f].after
                 [] flow[f].kind = "revoke" -> mappings[flow[f].mapping].state = "revoked"
    BY <2>3 DEF BrokerInv, FlowsFit, FlowFits
  <2> QED BY <2>1, <2>2, <2>3 DEF PortableUnlockHolds
<1> QED BY BrokerInit, <1>1, <1>2, PTL DEF PortableSpec

---------------------------------------------------------------------------
(* VersionHistory *)

Row == [id : Creates, number : Nat]

Numbers(S) == {r.number : r \in S}

Upwards(S, n) == {r \in S : r.number >= n}

Above(S, n) == {r \in S : r.number > n}

\* A set of numbers has a least element.
LEMMA LeastOf ==
    ASSUME NEW S, S \subseteq Nat, S # {}
    PROVE  \E m \in S : \A k \in S : m <= k
<1>1. \E m \in S : \A k \in S : ~(<<k, m>> \in OpToRel(<, Nat))
  BY NatLessThanWellFounded, WFMin
<1>2. PICK m \in S : \A k \in S : ~(<<k, m>> \in OpToRel(<, Nat))
  BY <1>1
<1>3. \A k \in S : ~(k < m)
  BY <1>2 DEF OpToRel
<1> QED BY <1>3

\* A finite set of numbers has a greatest element: the one with the fewest above it.
LEMMA GreatestOf ==
    ASSUME NEW S, S \subseteq Nat, S # {}, IsFiniteSet(S)
    PROVE  \E m \in S : \A k \in S : m >= k
<1> DEFINE Over(x) == {y \in S : y > x}
           Counts == {Cardinality(Over(x)) : x \in S}
<1>1. \A x \in S : IsFiniteSet(Over(x)) /\ Cardinality(Over(x)) \in Nat
  <2> SUFFICES ASSUME NEW x \in S PROVE IsFiniteSet(Over(x)) /\ Cardinality(Over(x)) \in Nat
    OBVIOUS
  <2>1. Over(x) \in SUBSET S
    OBVIOUS
  <2>2. IsFiniteSet(Over(x))
    BY <2>1, FS_Subset
  <2> QED BY <2>2, FS_CardinalityType
<1>2. PICK n \in Counts : \A k \in Counts : n <= k
  <2>1. Counts \subseteq Nat /\ Counts # {}
    BY <1>1
  <2> HIDE DEF Counts
  <2> QED BY <2>1, LeastOf
<1>3. PICK m \in S : n = Cardinality(Over(m))
  BY <1>2
<1>4. ASSUME NEW k \in S, ~(m >= k) PROVE FALSE
  <2>1. Over(k) \in SUBSET Over(m) /\ k \in Over(m) /\ k \notin Over(k)
    <3>1. k > m /\ k \in Nat /\ m \in Nat /\ \A y \in S : y \in Nat
      BY <1>4
    <3>2. \A y \in S : y > k => y > m
      BY <3>1
    <3>3. ~(k > k)
      BY <3>1
    <3> QED BY <3>1, <3>2, <3>3
  <2>2. Cardinality(Over(k)) <= Cardinality(Over(m)) /\ Cardinality(Over(k)) # Cardinality(Over(m))
    <3> HIDE DEF Over
    <3> QED BY <1>1, <2>1, FS_Subset
  <2>3. Cardinality(Over(m)) <= Cardinality(Over(k))
    BY <1>2, <1>3
  <2>4. Cardinality(Over(m)) \in Nat /\ Cardinality(Over(k)) \in Nat
    BY <1>1
  <2> HIDE DEF Over
  <2> QED BY <2>2, <2>3, <2>4
<1> QED BY <1>4

LEMMA NumbersOfRows ==
    ASSUME NEW S \in SUBSET Row, IsFiniteSet(S)
    PROVE  /\ Numbers(S) \subseteq Nat
           /\ IsFiniteSet(Numbers(S)) /\ Cardinality(Numbers(S)) <= Cardinality(S)
<1> DEFINE f == [r \in S |-> r.number]
<1>1. f \in Surjection(S, Numbers(S))
  BY DEF Surjection, Numbers
<1>2. Numbers(S) \subseteq Nat
  BY DEF Row, Numbers
<1> QED BY <1>1, <1>2, FS_Surjection

\* The highest number of the rows is a number.
LEMMA MaxIsNumber ==
    ASSUME NEW S \in SUBSET Row, IsFiniteSet(S)
    PROVE  Max({0} \cup {r.number : r \in S}) \in Nat
<1> DEFINE T == Numbers(S) \cup {0}
<1>1. T \subseteq Nat /\ T # {} /\ IsFiniteSet(T)
  BY NumbersOfRows, FS_AddElement
<1>2. \E m \in T : \A k \in T : m >= k
  <2> HIDE DEF T
  <2> QED BY <1>1, GreatestOf
<1>3. Max(T) \in T
  <2> HIDE DEF T
  <2> QED BY <1>2 DEF Max
<1>4. T = {0} \cup {r.number : r \in S}
  BY DEF Numbers
<1> QED BY <1>1, <1>3, <1>4

\* When there are Limit rows there is a number that cuts off what is beyond the newest
\* Limit: the greatest number that leaves at least Limit rows from there on.
LEMMA CutoffCuts ==
    ASSUME NEW S \in SUBSET Row, IsFiniteSet(S), ~(Cardinality(S) < Limit)
    PROVE  /\ Cutoff(S) \in Nat
           /\ Cardinality(Above(S, Cutoff(S))) < Limit
           /\ Cardinality(Upwards(S, Cutoff(S))) >= Limit
<1> DEFINE Good == {n \in Numbers(S) : Cardinality(Upwards(S, n)) >= Limit}
<1>1. Numbers(S) \subseteq Nat /\ IsFiniteSet(Numbers(S))
  BY NumbersOfRows
<1>2. Cardinality(S) \in Nat /\ Cardinality(S) >= Limit /\ Limit \in Nat \ {0}
  BY FS_CardinalityType, LimitAssumption
<1>3. S # {}
  BY <1>2, FS_EmptySet
<1>4. Numbers(S) # {}
  BY <1>3 DEF Numbers
<1>5. PICK least \in Numbers(S) : \A k \in Numbers(S) : least <= k
  BY <1>1, <1>4, LeastOf
<1>6. Upwards(S, least) = S
  BY <1>1, <1>5 DEF Upwards, Numbers
<1>7. least \in Good
  BY <1>2, <1>6
<1>8. Good \in SUBSET Numbers(S)
  OBVIOUS
<1>9. IsFiniteSet(Good) /\ Good \subseteq Nat /\ Good # {}
  <2>1. IsFiniteSet(Good)
    BY <1>1, <1>8, FS_Subset
  <2> QED BY <1>1, <1>7, <2>1
<1>10. PICK n \in Good : \A k \in Good : n >= k
  <2> HIDE DEF Good
  <2> QED BY <1>9, GreatestOf
<1>11. Cardinality(Above(S, n)) \in Nat /\ IsFiniteSet(Above(S, n))
  <2>1. Above(S, n) \in SUBSET S
    BY DEF Above
  <2>2. IsFiniteSet(Above(S, n))
    BY <2>1, FS_Subset
  <2> QED BY <2>2, FS_CardinalityType
<1>12. Cardinality(Above(S, n)) < Limit
  <2> SUFFICES ASSUME Cardinality(Above(S, n)) >= Limit PROVE FALSE
    BY <1>2, <1>11
  <2>1. Above(S, n) # {}
    BY <1>2, FS_EmptySet
  <2>2. Numbers(Above(S, n)) \subseteq Numbers(S) /\ Numbers(Above(S, n)) # {}
    BY <2>1 DEF Above, Numbers
  <2>3. Numbers(Above(S, n)) \subseteq Nat
    BY <1>1, <2>2
  <2>4. PICK m \in Numbers(Above(S, n)) : \A k \in Numbers(Above(S, n)) : m <= k
    BY <2>2, <2>3, LeastOf
  <2>5. m > n /\ m \in Nat /\ n \in Nat
    BY <1>9, <2>3, <2>4 DEF Numbers, Above
  <2>6. \A r \in S : r.number \in Nat
    BY DEF Row
  <2>7. Upwards(S, m) = Above(S, n)
    <3>1. ASSUME NEW r \in S, r.number >= m PROVE r.number > n
      BY <2>5, <2>6, <3>1
    <3>2. ASSUME NEW r \in S, r.number > n PROVE r.number >= m
      BY <2>4, <2>5, <2>6, <3>2 DEF Numbers, Above
    <3> QED BY <3>1, <3>2 DEF Upwards, Above
  <2>8. m \in Good
    BY <2>2, <2>7
  <2> QED BY <1>10, <2>5, <2>8
<1>13. /\ n \in {r.number : r \in S}
       /\ Cardinality({r \in S : r.number > n}) < Limit
       /\ Cardinality({r \in S : r.number >= n}) >= Limit
  BY <1>10, <1>12 DEF Above, Upwards, Numbers
<1>14. /\ Cutoff(S) \in {r.number : r \in S}
       /\ Cardinality({r \in S : r.number > Cutoff(S)}) < Limit
       /\ Cardinality({r \in S : r.number >= Cutoff(S)}) >= Limit
  BY <1>13 DEF Cutoff
<1> QED BY <1>1, <1>14 DEF Above, Upwards, Numbers

---------------------------------------------------------------------------
TxStates == [at : {"new", "insert", "select", "delete", "wait", "deleted", "done"},
             max : Nat, own : SUBSET Row, cutoff : Nat, victims : SUBSET Row]

HistoryTypes ==
    /\ rows \subseteq created /\ created \subseteq Row /\ IsFiniteSet(created)
    /\ tx \in [Creates -> TxStates]
    /\ \A t \in Creates : IsFiniteSet(tx[t].own)
    /\ alone \subseteq Creates

\* What t deletes is older than Limit rows that are stored or that t stores itself.
PruneFits(t) ==
    /\ tx[t].at \in {"new", "insert", "select", "delete", "done"} => tx[t].victims = {}
    /\ tx[t].at \in {"delete", "wait"} \/ tx[t].victims # {} =>
           Cardinality(Upwards(created \cup tx[t].own, tx[t].cutoff)) >= Limit
    /\ \A v \in tx[t].victims : v.number < tx[t].cutoff

FewNewer(t) == Cardinality(Above(Visible(t), tx[t].cutoff)) < Limit

\* A transaction that overlaps with none still sees what its statements saw.
AloneFits(t) ==
    /\ Open(t) /\ \A u \in Creates \ {t} : ~Open(u)
    /\ tx[t].at = "delete" => FewNewer(t)
    /\ tx[t].at = "wait" => FewNewer(t) /\ tx[t].victims = Beyond(t)
    /\ tx[t].at = "deleted" =>
           \/ Cardinality(Visible(t)) < Limit
           \/ FewNewer(t) /\ tx[t].victims = Beyond(t)

\* No version is pruned unless Limit versions with greater numbers were stored.
PrunedAreOld ==
    \A v \in created : v \in rows \/ Cardinality(Above(created, v.number)) >= Limit

FewNumbers == orderly => Cardinality(Numbers(rows)) <= Limit

HistoryInv ==
    /\ HistoryTypes
    /\ \A t \in Creates : PruneFits(t)
    /\ \A t \in alone : AloneFits(t)
    /\ PrunedAreOld
    /\ FewNumbers

\* More rows leave no fewer of them above a number.
LEMMA MoreRows ==
    ASSUME NEW S, NEW T, IsFiniteSet(T), S \subseteq T
    PROVE  /\ IsFiniteSet(S) /\ Cardinality(S) \in Nat /\ Cardinality(T) \in Nat
           /\ Cardinality(S) <= Cardinality(T)
           /\ Cardinality(S) >= Limit => Cardinality(T) >= Limit
<1>1. IsFiniteSet(S) /\ Cardinality(S) <= Cardinality(T)
  BY FS_Subset
<1>2. Cardinality(S) \in Nat /\ Cardinality(T) \in Nat
  BY <1>1, FS_CardinalityType
<1> QED BY <1>1, <1>2, LimitAssumption

LEMMA RowsAreFinite ==
    ASSUME HistoryTypes, NEW t \in Creates
    PROVE  /\ Visible(t) \in SUBSET Row /\ IsFiniteSet(Visible(t))
           /\ Visible(t) \subseteq created \cup tx[t].own
           /\ rows \in SUBSET Row /\ IsFiniteSet(rows)
           /\ IsFiniteSet(created \cup tx[t].own) /\ created \cup tx[t].own \in SUBSET Row
<1>1. rows \in SUBSET created /\ tx[t] \in TxStates
  BY DEF HistoryTypes
<1>2. IsFiniteSet(rows)
  BY <1>1, FS_Subset DEF HistoryTypes
<1>3. tx[t].own \in SUBSET Row /\ IsFiniteSet(tx[t].own)
  BY <1>1 DEF HistoryTypes, TxStates
<1>4. IsFiniteSet(rows \cup tx[t].own)
  BY <1>2, <1>3, FS_Union
<1>5. IsFiniteSet(created \cup tx[t].own)
  BY <1>3, FS_Union DEF HistoryTypes
<1> QED BY <1>1, <1>2, <1>3, <1>4, <1>5 DEF HistoryTypes, Visible

\* A transaction goes on to state s; the table stays as it is.
LEMMA TransactionGoesOn ==
    ASSUME HistoryInv, NEW t \in Creates, NEW s \in TxStates, tx' = [tx EXCEPT ![t] = s],
           UNCHANGED <<rows, created, orderly>>, IsFiniteSet(s.own),
           PruneFits(t)', alone' \subseteq alone, t \in alone' => AloneFits(t)',
           Open(t)' => Open(t)
    PROVE  HistoryInv'
<1>1. HistoryTypes'
  BY DEF HistoryInv, HistoryTypes
<1>2. \A u \in Creates : u # t => tx'[u] = tx[u]
  BY DEF HistoryInv, HistoryTypes
<1>3. \A u \in Creates : PruneFits(u)'
  BY <1>2 DEF HistoryInv, PruneFits
<1>4. ASSUME NEW u \in alone', u # t PROVE AloneFits(u)'
  <2>1. u \in Creates /\ AloneFits(u)
    BY <1>4 DEF HistoryInv, HistoryTypes
  <2>2. tx'[u] = tx[u]
    BY <1>2, <1>4, <2>1
  <2>3. ~Open(t)'
    BY <1>4, <2>1 DEF AloneFits
  <2>4. \A v \in Creates : Open(v)' => Open(v)
    BY <1>2, <2>3 DEF Open
  <2> QED BY <2>1, <2>2, <2>4 DEF AloneFits, Open, FewNewer, Visible, Beyond
<1>5. PrunedAreOld' /\ FewNumbers'
  BY DEF HistoryInv, PrunedAreOld, FewNumbers
<1> QED BY <1>1, <1>3, <1>4, <1>5 DEF HistoryInv

LEMMA MaxVersionNumberKeeps ==
    ASSUME HistoryInv, NEW t \in Creates, MaxVersionNumber(t)
    PROVE  HistoryInv'
<1> DEFINE m == Max({0} \cup {r.number : r \in rows})
           s == [tx[t] EXCEPT !.at = "insert", !.max = m]
<1>1. m \in Nat
  BY RowsAreFinite, MaxIsNumber DEF HistoryInv
<1> HIDE DEF m
<1>2. tx[t] \in TxStates /\ tx[t].at = "new" /\ PruneFits(t)
  BY DEF HistoryInv, HistoryTypes, MaxVersionNumber
<1>3. s \in TxStates /\ s.at = "insert" /\ s.own = tx[t].own /\ s.victims = tx[t].victims
  BY <1>1, <1>2 DEF TxStates
<1>4. tx' = [tx EXCEPT ![t] = s]
  BY DEF MaxVersionNumber, m
<1> HIDE DEF s
<1>5. tx'[t] = s /\ \A u \in Creates : u # t => tx'[u] = tx[u]
  BY <1>4 DEF HistoryInv, HistoryTypes
<1>6. HistoryTypes'
  BY <1>3, <1>4, <1>5 DEF HistoryInv, HistoryTypes, MaxVersionNumber
<1>7. PruneFits(t)'
  BY <1>2, <1>3, <1>5 DEF PruneFits
<1>8. \A u \in Creates : PruneFits(u)'
  BY <1>5, <1>7 DEF HistoryInv, PruneFits, MaxVersionNumber
<1>9. ASSUME NEW u \in alone' PROVE AloneFits(u)'
  <2>1. u = t /\ \A v \in Creates : ~Open(v)
    BY <1>9 DEF MaxVersionNumber
  <2> QED BY <1>3, <1>5, <2>1 DEF AloneFits, Open
<1>10. PrunedAreOld' /\ FewNumbers'
  BY DEF HistoryInv, PrunedAreOld, FewNumbers, MaxVersionNumber
<1> QED BY <1>6, <1>8, <1>9, <1>10 DEF HistoryInv

LEMMA InsertKeeps ==
    ASSUME HistoryInv, NEW t \in Creates, Insert(t)
    PROVE  HistoryInv'
<1> DEFINE o == {[id |-> t, number |-> tx[t].max + 1]}
           s == [tx[t] EXCEPT !.at = "select", !.own = o]
<1>1. tx[t] \in TxStates /\ tx[t].at = "insert" /\ PruneFits(t)
  BY DEF HistoryInv, HistoryTypes, Insert
<1>2. o \in SUBSET Row /\ IsFiniteSet(o)
  <2>1. tx[t].max \in Nat
    BY <1>1 DEF TxStates
  <2>2. tx[t].max + 1 \in Nat
    BY <2>1
  <2>3. [id |-> t, number |-> tx[t].max + 1] \in Row
    BY <2>2 DEF Row
  <2> QED BY <2>3, FS_Singleton
<1> HIDE DEF o
<1>3. s \in TxStates /\ s.at = "select" /\ s.own = o /\ s.victims = {}
  BY <1>1, <1>2 DEF TxStates, PruneFits
<1>4. tx' = [tx EXCEPT ![t] = s]
  BY DEF Insert, o
<1> HIDE DEF s
<1>5. tx'[t] = s
  BY <1>4 DEF HistoryInv, HistoryTypes
<1>6. PruneFits(t)'
  BY <1>3, <1>5 DEF PruneFits
<1>7. ASSUME t \in alone' PROVE AloneFits(t)'
  <2>1. AloneFits(t) /\ \A u \in Creates \ {t} : tx'[u] = tx[u]
    BY <1>4, <1>7 DEF HistoryInv, HistoryTypes, Insert
  <2> QED BY <1>3, <1>5, <2>1 DEF AloneFits, Open
<1> QED BY <1>1, <1>2, <1>3, <1>4, <1>5, <1>6, <1>7, TransactionGoesOn DEF Insert, Open


LEMMA SelectKeptKeeps ==
    ASSUME HistoryInv, NEW t \in Creates, SelectKept(t)
    PROVE  HistoryInv'
<1> DEFINE n == Cutoff(Visible(t))
<1>1. tx[t] \in TxStates /\ tx[t].at = "select" /\ PruneFits(t) /\ tx[t].victims = {}
  BY DEF HistoryInv, HistoryTypes, SelectKept, PruneFits
<1>2. Visible(t) \in SUBSET Row /\ IsFiniteSet(Visible(t))
  BY RowsAreFinite DEF HistoryInv
<1>3. CASE Cardinality(Visible(t)) < Limit
  <2> DEFINE s == [tx[t] EXCEPT !.at = "deleted"]
  <2>1. s \in TxStates /\ s.at = "deleted" /\ s.own = tx[t].own /\ s.victims = {}
    BY <1>1 DEF TxStates
  <2>2. tx' = [tx EXCEPT ![t] = s]
    BY <1>3 DEF SelectKept
  <2> HIDE DEF s
  <2>3. tx'[t] = s /\ \A u \in Creates \ {t} : tx'[u] = tx[u]
    BY <2>2 DEF HistoryInv, HistoryTypes
  <2>4. PruneFits(t)'
    BY <2>1, <2>3 DEF PruneFits
  <2>5. ASSUME t \in alone' PROVE AloneFits(t)'
    <3>1. AloneFits(t)
      BY <2>5 DEF HistoryInv, SelectKept
    <3>2. Visible(t)' = Visible(t)
      BY <2>1, <2>3 DEF Visible, SelectKept
    <3> QED BY <1>3, <2>1, <2>3, <3>1, <3>2 DEF AloneFits, Open
  <2>6. IsFiniteSet(s.own)
    BY <2>1 DEF HistoryInv, HistoryTypes
  <2> QED BY <1>1, <2>1, <2>2, <2>4, <2>5, <2>6, TransactionGoesOn DEF SelectKept, Open
<1>4. CASE ~(Cardinality(Visible(t)) < Limit)
  <2> DEFINE s == [tx[t] EXCEPT !.at = "delete", !.cutoff = n]
  <2>1. /\ n \in Nat
        /\ Cardinality(Above(Visible(t), n)) < Limit
        /\ Cardinality(Upwards(Visible(t), n)) >= Limit
    BY <1>2, <1>4, CutoffCuts
  <2>2. tx' = [tx EXCEPT ![t] = s]
    BY <1>4 DEF SelectKept
  <2> HIDE DEF n
  <2>3. s \in TxStates /\ s.at = "delete" /\ s.own = tx[t].own /\ s.victims = {} /\ s.cutoff = n
    BY <1>1, <2>1 DEF TxStates
  <2> HIDE DEF s
  <2>4. tx'[t] = s /\ \A u \in Creates \ {t} : tx'[u] = tx[u]
    BY <2>2 DEF HistoryInv, HistoryTypes
  <2>5. Visible(t)' = Visible(t)
    BY <2>3, <2>4 DEF Visible, SelectKept
  <2>6. Cardinality(Upwards(created \cup tx[t].own, n)) >= Limit
    <3> DEFINE T == created \cup tx[t].own
    <3>1. Visible(t) \subseteq T /\ IsFiniteSet(T)
      BY RowsAreFinite DEF HistoryInv
    <3>2. Upwards(T, n) \in SUBSET T /\ Upwards(Visible(t), n) \subseteq Upwards(T, n)
      BY <3>1 DEF Upwards
    <3> HIDE DEF T
    <3>3. IsFiniteSet(Upwards(T, n))
      BY <3>1, <3>2, FS_Subset
    <3>4. Cardinality(Upwards(T, n)) >= Limit
      BY <2>1, <3>2, <3>3, MoreRows
    <3> QED BY <3>4 DEF T
  <2>7. PruneFits(t)'
    BY <2>3, <2>4, <2>6 DEF PruneFits, SelectKept
  <2>8. ASSUME t \in alone' PROVE AloneFits(t)'
    <3>1. AloneFits(t)
      BY <2>8 DEF HistoryInv, SelectKept
    <3> QED BY <2>1, <2>3, <2>4, <2>5, <3>1 DEF AloneFits, Open, FewNewer
  <2>9. IsFiniteSet(s.own)
    BY <2>3 DEF HistoryInv, HistoryTypes
  <2> QED BY <1>1, <2>2, <2>3, <2>7, <2>8, <2>9, TransactionGoesOn DEF SelectKept, Open
<1> QED BY <1>3, <1>4

LEMMA FindVictimsKeeps ==
    ASSUME HistoryInv, NEW t \in Creates, FindVictims(t)
    PROVE  HistoryInv'
<1> DEFINE b == Beyond(t)
           s == [tx[t] EXCEPT !.at = "wait", !.victims = b]
<1>1. tx[t] \in TxStates /\ tx[t].at = "delete" /\ PruneFits(t) /\ tx[t].cutoff \in Nat
  BY DEF HistoryInv, HistoryTypes, FindVictims, TxStates
<1>2. b \in SUBSET Row /\ \A v \in b : v.number < tx[t].cutoff
  <2>1. Visible(t) \in SUBSET Row
    BY RowsAreFinite DEF HistoryInv
  <2>2. \A v \in Visible(t) : v.number \in Nat
    BY <2>1 DEF Row
  <2> QED BY <1>1, <2>1, <2>2 DEF Beyond
<1>3. tx' = [tx EXCEPT ![t] = s]
  BY DEF FindVictims
<1> HIDE DEF b
<1>4. s \in TxStates /\ s.at = "wait" /\ s.own = tx[t].own /\ s.victims = b /\ s.cutoff = tx[t].cutoff
  BY <1>1, <1>2 DEF TxStates
<1> HIDE DEF s
<1>5. tx'[t] = s /\ \A u \in Creates \ {t} : tx'[u] = tx[u]
  BY <1>3 DEF HistoryInv, HistoryTypes
<1>6. Visible(t)' = Visible(t) /\ Beyond(t)' = Beyond(t)
  BY <1>4, <1>5 DEF Visible, Beyond, FindVictims
<1>7. PruneFits(t)'
  BY <1>1, <1>2, <1>4, <1>5 DEF PruneFits, FindVictims
<1>8. ASSUME t \in alone' PROVE AloneFits(t)'
  <2>1. AloneFits(t)
    BY <1>8 DEF HistoryInv, FindVictims
  <2> QED BY <1>1, <1>4, <1>5, <1>6, <2>1 DEF AloneFits, Open, FewNewer, b
<1>9. IsFiniteSet(s.own)
  BY <1>4 DEF HistoryInv, HistoryTypes
<1> QED BY <1>1, <1>3, <1>4, <1>7, <1>8, <1>9, TransactionGoesOn DEF FindVictims, Open

LEMMA DeleteKeeps ==
    ASSUME HistoryInv, NEW t \in Creates, Delete(t)
    PROVE  HistoryInv'
<1> DEFINE d == tx[t].victims \cap Visible(t)
           s == [tx[t] EXCEPT !.at = "deleted", !.victims = d]
<1>1. tx[t] \in TxStates /\ tx[t].at = "wait" /\ PruneFits(t)
  BY DEF HistoryInv, HistoryTypes, Delete
<1>2. d \in SUBSET Row
  BY <1>1 DEF TxStates
<1>3. tx' = [tx EXCEPT ![t] = s]
  BY DEF Delete
<1>4. d \subseteq tx[t].victims /\ (tx[t].victims \subseteq Visible(t) => d = tx[t].victims)
  OBVIOUS
<1> HIDE DEF d
<1>5. s \in TxStates /\ s.at = "deleted" /\ s.own = tx[t].own /\ s.victims = d /\ s.cutoff = tx[t].cutoff
  BY <1>1, <1>2 DEF TxStates
<1> HIDE DEF s
<1>6. tx'[t] = s /\ \A u \in Creates \ {t} : tx'[u] = tx[u]
  BY <1>3 DEF HistoryInv, HistoryTypes
<1>7. Visible(t)' = Visible(t) /\ Beyond(t)' = Beyond(t)
  BY <1>5, <1>6 DEF Visible, Beyond, Delete
<1>8. PruneFits(t)'
  BY <1>1, <1>4, <1>5, <1>6 DEF PruneFits, Delete
<1>9. ASSUME t \in alone' PROVE AloneFits(t)'
  <2>1. AloneFits(t)
    BY <1>9 DEF HistoryInv, Delete
  <2>2. d = Beyond(t)
    BY <1>1, <1>4, <2>1 DEF AloneFits, Beyond
  <2> QED BY <1>1, <1>5, <1>6, <1>7, <2>1, <2>2 DEF AloneFits, Open, FewNewer
<1>10. IsFiniteSet(s.own)
  BY <1>5 DEF HistoryInv, HistoryTypes
<1> QED BY <1>1, <1>3, <1>5, <1>8, <1>9, <1>10, TransactionGoesOn DEF Delete, Open

LEMMA NoTxIsTyped == /\ [NoTx EXCEPT !.at = "done"] \in TxStates
                     /\ [NoTx EXCEPT !.at = "done"].at = "done"
                     /\ [NoTx EXCEPT !.at = "done"].own = {}
                     /\ [NoTx EXCEPT !.at = "done"].victims = {}
BY DEF NoTx, TxStates

LEMMA AbortKeeps ==
    ASSUME HistoryInv, NEW t \in Creates, Abort(t)
    PROVE  HistoryInv'
<1> DEFINE s == [NoTx EXCEPT !.at = "done"]
<1>1. s \in TxStates /\ s.at = "done" /\ s.own = {} /\ s.victims = {}
  BY NoTxIsTyped
<1>2. tx' = [tx EXCEPT ![t] = s]
  BY DEF Abort
<1> HIDE DEF s
<1>3. tx'[t] = s
  BY <1>2 DEF HistoryInv, HistoryTypes
<1>4. PruneFits(t)'
  BY <1>1, <1>3 DEF PruneFits
<1> QED BY <1>1, <1>2, <1>4, FS_EmptySet, TransactionGoesOn DEF Abort


LEMMA CommitKeeps ==
    ASSUME HistoryInv, NEW t \in Creates, Commit(t)
    PROVE  HistoryInv'
<1> DEFINE s == [NoTx EXCEPT !.at = "done"]
<1>1. s \in TxStates /\ s.at = "done" /\ s.own = {} /\ s.victims = {}
  BY NoTxIsTyped
<1>2. tx' = [tx EXCEPT ![t] = s]
  BY DEF Commit
<1> HIDE DEF s
<1>3. tx'[t] = s /\ \A u \in Creates \ {t} : tx'[u] = tx[u]
  BY <1>2 DEF HistoryInv, HistoryTypes
<1>4. /\ tx[t] \in TxStates /\ tx[t].at = "deleted" /\ PruneFits(t)
      /\ tx[t].cutoff \in Nat /\ tx[t].victims \in SUBSET Row
  BY DEF HistoryInv, HistoryTypes, Commit, TxStates
<1>5. /\ rows' = Visible(t) \ tx[t].victims /\ created' = created \cup tx[t].own
      /\ Visible(t) \in SUBSET Row /\ IsFiniteSet(Visible(t))
      /\ Visible(t) \subseteq created' /\ IsFiniteSet(created') /\ created' \in SUBSET Row
  BY RowsAreFinite DEF HistoryInv, Commit
<1>6. HistoryTypes'
  <2>1. tx' \in [Creates -> TxStates] /\ alone' \subseteq Creates
    BY <1>1, <1>2 DEF HistoryInv, HistoryTypes, Commit
  <2>2. \A u \in Creates : IsFiniteSet(tx'[u].own)
    BY <1>1, <1>3, FS_EmptySet DEF HistoryInv, HistoryTypes
  <2> QED BY <1>5, <2>1, <2>2 DEF HistoryTypes
<1>7. ASSUME NEW u \in Creates PROVE PruneFits(u)'
  <2>1. CASE u = t
    BY <1>1, <1>3, <2>1 DEF PruneFits
  <2>2. CASE u # t
    <3> DEFINE T == created' \cup tx[u].own
    <3>1. tx'[u] = tx[u] /\ PruneFits(u)
      BY <1>3, <2>2 DEF HistoryInv
    <3>2. IsFiniteSet(T)
      BY <1>5, FS_Union DEF HistoryInv, HistoryTypes
    <3>3. \A n : /\ Upwards(T, n) \in SUBSET T
                 /\ Upwards(created \cup tx[u].own, n) \subseteq Upwards(T, n)
      BY <1>5 DEF Upwards
    <3> HIDE DEF T
    <3>4. \A n : Cardinality(Upwards(created \cup tx[u].own, n)) >= Limit =>
                     Cardinality(Upwards(T, n)) >= Limit
      BY <3>2, <3>3, FS_Subset, MoreRows
    <3> QED BY <3>1, <3>4 DEF PruneFits, T
  <2> QED BY <2>1, <2>2
<1>8. alone' = {}
  <2>1. Open(t)
    BY <1>4 DEF Open
  <2> QED BY <2>1 DEF HistoryInv, HistoryTypes, AloneFits, Commit
<1>9. PrunedAreOld'
  <2> SUFFICES ASSUME NEW v \in created', v \notin rows'
               PROVE  Cardinality(Above(created', v.number)) >= Limit
    BY DEF PrunedAreOld
  <2>1. \A n : Above(created', n) \in SUBSET created' /\ IsFiniteSet(Above(created', n))
    <3>1. \A n : Above(created', n) \in SUBSET created'
      BY DEF Above
    <3> QED BY <1>5, <3>1, FS_Subset
  <2>2. CASE v \in Visible(t)
    <3>1. v \in tx[t].victims /\ v.number < tx[t].cutoff
      BY <1>4, <1>5, <2>2 DEF PruneFits
    <3>2. Cardinality(Upwards(created', tx[t].cutoff)) >= Limit
      BY <1>4, <1>5, <3>1 DEF PruneFits
    <3>3. v.number \in Nat /\ \A w \in created' : w.number \in Nat
      BY <1>5 DEF Row
    <3>4. Upwards(created', tx[t].cutoff) \subseteq Above(created', v.number)
      BY <1>4, <3>1, <3>3 DEF Upwards, Above
    <3> QED BY <2>1, <3>2, <3>4, MoreRows
  <2>3. CASE v \notin Visible(t)
    <3>1. v \in created /\ v \notin rows
      BY <1>5, <2>3 DEF Visible
    <3>2. Cardinality(Above(created, v.number)) >= Limit
      BY <3>1 DEF HistoryInv, PrunedAreOld
    <3>3. Above(created, v.number) \subseteq Above(created', v.number)
      BY <1>5 DEF Above
    <3> QED BY <2>1, <3>2, <3>3, MoreRows
  <2> QED BY <2>2, <2>3
<1>10. FewNumbers'
  <2> SUFFICES ASSUME t \in alone PROVE Cardinality(Numbers(rows')) <= Limit
    BY DEF FewNumbers, Commit
  <2>1. rows' \in SUBSET Row /\ IsFiniteSet(rows') /\ rows' \in SUBSET Visible(t)
    BY <1>5, FS_Subset
  <2>2. AloneFits(t)
    BY DEF HistoryInv
  <2>3. CASE Cardinality(Visible(t)) < Limit
    <3>1. Cardinality(rows') <= Cardinality(Visible(t)) /\ Cardinality(Numbers(rows')) <= Cardinality(rows')
      BY <1>5, <2>1, MoreRows, NumbersOfRows
    <3>2. /\ Cardinality(rows') \in Nat /\ Cardinality(Visible(t)) \in Nat
          /\ Cardinality(Numbers(rows')) \in Nat
      BY <1>5, <2>1, NumbersOfRows, FS_CardinalityType
    <3> QED BY <2>3, <3>1, <3>2, LimitAssumption
  <2>4. CASE FewNewer(t) /\ tx[t].victims = Beyond(t)
    <3> DEFINE n == tx[t].cutoff
               A == Above(Visible(t), n)
    <3>1. A \in SUBSET Visible(t)
      BY DEF Above
    <3>2. A \in SUBSET Row /\ IsFiniteSet(A) /\ Cardinality(A) < Limit
      BY <1>5, <2>4, <3>1, FS_Subset DEF FewNewer
    <3>3. \A r \in Visible(t) : r.number \in Nat
      BY <1>5 DEF Row
    <3>4. \A r \in rows' : r.number >= n
      BY <1>4, <1>5, <2>4, <3>3 DEF Beyond
    <3>5. Numbers(rows') \in SUBSET (Numbers(A) \cup {n})
      BY <1>4, <2>1, <3>3, <3>4 DEF Numbers, Above
    <3> HIDE DEF A, n
    <3>6. IsFiniteSet(Numbers(A)) /\ Cardinality(Numbers(A)) <= Cardinality(A)
      BY <3>2, NumbersOfRows
    <3>7. Cardinality(Numbers(A)) \in Nat /\ Cardinality(A) \in Nat
      BY <3>2, <3>6, FS_CardinalityType
    <3>8. /\ IsFiniteSet(Numbers(A) \cup {n})
          /\ Cardinality(Numbers(A) \cup {n}) <= Cardinality(Numbers(A)) + 1
      <4>1. /\ IsFiniteSet(Numbers(A) \cup {n})
            /\ Cardinality(Numbers(A) \cup {n}) =
                   IF n \in Numbers(A) THEN Cardinality(Numbers(A)) ELSE Cardinality(Numbers(A)) + 1
        BY <3>6, FS_AddElement
      <4> QED BY <3>7, <4>1
    <3>9. /\ Cardinality(Numbers(rows')) <= Cardinality(Numbers(A) \cup {n})
          /\ Cardinality(Numbers(rows')) \in Nat /\ Cardinality(Numbers(A) \cup {n}) \in Nat
      BY <3>5, <3>8, MoreRows
    <3> QED BY <3>2, <3>6, <3>7, <3>8, <3>9, LimitAssumption
  <2> QED BY <1>4, <2>2, <2>3, <2>4 DEF AloneFits
<1> QED BY <1>6, <1>7, <1>8, <1>9, <1>10 DEF HistoryInv

LEMMA HistoryInit == VersionInit => HistoryInv
<1> SUFFICES ASSUME VersionInit PROVE HistoryInv
  OBVIOUS
<1>1. \A t \in Creates : tx[t] = NoTx
  BY DEF VersionInit
<1>2. NoTx \in TxStates /\ NoTx.at = "new" /\ NoTx.own = {} /\ NoTx.victims = {}
  BY DEF NoTx, TxStates
<1>3. HistoryTypes
  BY <1>2, FS_EmptySet DEF VersionInit, HistoryTypes
<1>4. \A t \in Creates : PruneFits(t)
  BY <1>1, <1>2 DEF PruneFits
<1>5. Numbers(rows) = {} /\ created = {} /\ alone = {}
  BY DEF VersionInit, Numbers
<1>6. PrunedAreOld /\ FewNumbers
  BY <1>5, FS_EmptySet, LimitAssumption DEF PrunedAreOld, FewNumbers
<1> QED BY <1>3, <1>4, <1>5, <1>6 DEF HistoryInv

LEMMA HistoryStep == HistoryInv /\ [VersionNext]_versionVars => HistoryInv'
<1> SUFFICES ASSUME HistoryInv, [VersionNext]_versionVars PROVE HistoryInv'
  OBVIOUS
<1>1. CASE UNCHANGED versionVars
  BY <1>1 DEF versionVars, HistoryInv, HistoryTypes, PruneFits, AloneFits, Open, FewNewer,
     Visible, Beyond, PrunedAreOld, FewNumbers
<1>2. ASSUME NEW t \in Creates,
             \/ MaxVersionNumber(t) \/ Insert(t) \/ SelectKept(t)
             \/ FindVictims(t) \/ Delete(t) \/ Commit(t) \/ Abort(t)
      PROVE  HistoryInv'
  BY <1>2, MaxVersionNumberKeeps, InsertKeeps, SelectKeptKeeps, FindVictimsKeeps, DeleteKeeps,
     CommitKeeps, AbortKeeps
<1> QED BY <1>1, <1>2 DEF VersionNext

\* However the requests that store versions overlap, and whichever of them fail, only
\* versions older than Limit others are pruned; and a request that ran by itself leaves
\* at most Limit numbers.
THEOREM HistoryKeepsTheNewest == VersionSpec => []HistoryIsTheNewest
<1>1. HistoryInv => HistoryIsTheNewest
  BY DEF HistoryInv, HistoryIsTheNewest, PrunedAreOld, FewNumbers, Above, Numbers
<1> QED BY <1>1, HistoryInit, HistoryStep, PTL DEF VersionSpec

---------------------------------------------------------------------------
(* VaultEnvelopes *)

\* Only a request that is done has left rows behind; only replacements hold a lock, and the
\* envelope a serialized replacement has found stays active until it commits.
DoneLeavesRows ==
    \A r \in Requests :
        (r \in vaults \/ \E m \in Methods : r \in active[m]) => req[r].pc = "done"

FoundStaysActive ==
    \A r \in Requests :
        /\ req[r].pc = "locked" => req[r].kind \in Serialized
        /\ req[r].pc = "found" =>
             /\ req[r].kind \in Methods
             /\ req[r].kind \in Serialized => req[r].found \in active[req[r].kind]

EnvelopesInv == EnvelopesTypeOK /\ DoneLeavesRows /\ FoundStaysActive /\ OneEnvelopePerSetup
---------------------------------------------------------------------------
\* Exchanging one element for a new one keeps the cardinality.
LEMMA ExchangeKeepsCardinality ==
    ASSUME NEW S, IsFiniteSet(S), NEW a \in S, NEW b, b \notin S
    PROVE  Cardinality((S \ {a}) \cup {b}) = Cardinality(S)
<1>1. IsFiniteSet(S \ {a}) /\ Cardinality(S \ {a}) = Cardinality(S) - 1
  BY FS_RemoveElement
<1>2. b \notin S \ {a}
  OBVIOUS
<1>3. Cardinality((S \ {a}) \cup {b}) = Cardinality(S \ {a}) + 1
  BY <1>1, <1>2, FS_AddElement
<1>4. Cardinality(S) \in Nat
  BY FS_CardinalityType
<1> QED BY <1>1, <1>3, <1>4

LEMMA EnvelopeRowsAreFinite ==
    ASSUME EnvelopesTypeOK
    PROVE  IsFiniteSet(vaults) /\ \A m \in Methods : IsFiniteSet(active[m])
BY EnvelopesAssumption, FS_Subset DEF EnvelopesTypeOK

LEMMA EnvelopesInitially == EnvelopesInit => EnvelopesInv
<1> SUFFICES ASSUME EnvelopesInit PROVE EnvelopesInv
  OBVIOUS
<1>1. EnvelopesTypeOK
  BY EnvelopesAssumption DEF EnvelopesInit, EnvelopesTypeOK, ReqStates, Fresh, Kinds, Methods, Serialized
<1>2. DoneLeavesRows /\ FoundStaysActive
  BY DEF EnvelopesInit, DoneLeavesRows, FoundStaysActive, Fresh
<1>3. OneEnvelopePerSetup
  BY DEF EnvelopesInit, OneEnvelopePerSetup, Methods, Serialized
<1> QED BY <1>1, <1>2, <1>3 DEF EnvelopesInv
---------------------------------------------------------------------------
\* Steps that write no row.
LEMMA QuietRequests ==
    ASSUME EnvelopesInv, NEW r \in Requests,
           UNCHANGED <<vaults, active>>,
           EnvelopesTypeOK',
           req[r].pc # "done",
           \A s \in Requests : s # r => req'[s] = req[s],
           req'[r].pc = "locked" => req'[r].kind \in Serialized,
           req'[r].pc = "found" =>
              /\ req'[r].kind \in Methods
              /\ req'[r].kind \in Serialized => req'[r].found \in active[req'[r].kind]
    PROVE  EnvelopesInv'
<1>1. DoneLeavesRows'
  BY DEF EnvelopesInv, DoneLeavesRows
<1>2. FoundStaysActive'
  BY DEF EnvelopesInv, FoundStaysActive
<1>3. OneEnvelopePerSetup'
  BY DEF EnvelopesInv, OneEnvelopePerSetup
<1> QED BY <1>1, <1>2, <1>3 DEF EnvelopesInv

\* A request that changes its place and its kind, or its place and its find, keeps its type.
LEMMA RequestKeepsType ==
    ASSUME NEW q \in ReqStates, NEW p \in {"idle", "checked", "locked", "found", "done"},
           NEW k \in Kinds, NEW f \in Requests \cup {Nobody}
    PROVE  /\ [q EXCEPT !.pc = p, !.kind = k] \in ReqStates
           /\ [q EXCEPT !.pc = p, !.found = f] \in ReqStates
BY DEF ReqStates

LEMMA CheckNoVaultPreserves ==
    ASSUME EnvelopesInv, NEW r \in Requests, CheckNoVault(r)
    PROVE  EnvelopesInv'
<1>1. EnvelopesTypeOK'
  <2> DEFINE q == [req[r] EXCEPT !.pc = "checked", !.kind = "setup"]
  <2>1. q \in ReqStates /\ req' = [req EXCEPT ![r] = q] /\ req \in [Requests -> ReqStates]
    BY RequestKeepsType DEF EnvelopesInv, EnvelopesTypeOK, CheckNoVault, Kinds
  <2>2. /\ req' \in [Requests -> ReqStates]
        /\ wraps' \in [Requests -> Requests \cup {Nobody}]
        /\ UNCHANGED <<vaults, active, lock>>
    <3>1. wraps' \in [Requests -> Requests \cup {Nobody}] /\ UNCHANGED <<vaults, active, lock>>
      BY DEF EnvelopesInv, EnvelopesTypeOK, CheckNoVault
    <3> HIDE DEF q
    <3>2. req' \in [Requests -> ReqStates]
      BY <2>1
    <3> QED BY <3>1, <3>2
  <2>3. ASSUME NEW l \in Serialized, NEW s \in Requests
        PROVE  lock'[l] = s <=> req'[s].kind = l /\ req'[s].pc \in {"locked", "found"}
    <3>1. CASE s = r
      BY <3>1 DEF EnvelopesInv, EnvelopesTypeOK, ReqStates, CheckNoVault, At
    <3>2. CASE s # r
      BY <3>2 DEF EnvelopesInv, EnvelopesTypeOK, ReqStates, CheckNoVault, At
    <3> QED BY <3>1, <3>2
  <2> QED BY <2>2, <2>3 DEF EnvelopesInv, EnvelopesTypeOK
<1> QED BY <1>1, QuietRequests DEF CheckNoVault, At, EnvelopesInv, EnvelopesTypeOK, ReqStates

LEMMA CheckVaultPreserves ==
    ASSUME EnvelopesInv, NEW r \in Requests, NEW m \in Methods, NEW k \in Requests, CheckVault(r, m, k)
    PROVE  EnvelopesInv'
<1>1. EnvelopesTypeOK'
  <2> DEFINE q == [req[r] EXCEPT !.pc = "checked", !.kind = m]
  <2>1. q \in ReqStates /\ req' = [req EXCEPT ![r] = q] /\ req \in [Requests -> ReqStates]
    BY RequestKeepsType DEF EnvelopesInv, EnvelopesTypeOK, CheckVault, Kinds
  <2>2. /\ req' \in [Requests -> ReqStates]
        /\ wraps' \in [Requests -> Requests \cup {Nobody}]
        /\ UNCHANGED <<vaults, active, lock>>
    <3>1. wraps' \in [Requests -> Requests \cup {Nobody}] /\ UNCHANGED <<vaults, active, lock>>
      BY DEF EnvelopesInv, EnvelopesTypeOK, CheckVault
    <3> HIDE DEF q
    <3>2. req' \in [Requests -> ReqStates]
      BY <2>1
    <3> QED BY <3>1, <3>2
  <2>3. ASSUME NEW l \in Serialized, NEW s \in Requests
        PROVE  lock'[l] = s <=> req'[s].kind = l /\ req'[s].pc \in {"locked", "found"}
    <3>1. CASE s = r
      BY <3>1 DEF EnvelopesInv, EnvelopesTypeOK, ReqStates, CheckVault, At
    <3>2. CASE s # r
      BY <3>2 DEF EnvelopesInv, EnvelopesTypeOK, ReqStates, CheckVault, At
    <3> QED BY <3>1, <3>2
  <2> QED BY <2>2, <2>3 DEF EnvelopesInv, EnvelopesTypeOK
<1> QED BY <1>1, QuietRequests DEF CheckVault, At, EnvelopesInv, EnvelopesTypeOK, ReqStates

LEMMA TakeLockPreserves ==
    ASSUME EnvelopesInv, NEW r \in Requests, TakeLock(r)
    PROVE  EnvelopesInv'
<1>1. EnvelopesTypeOK'
  <2>1. /\ req' \in [Requests -> ReqStates]
        /\ lock' \in [Serialized -> Requests \cup {Nobody}]
        /\ UNCHANGED <<vaults, active, wraps>>
    BY DEF EnvelopesInv, EnvelopesTypeOK, ReqStates, TakeLock, At
  <2>2. ASSUME NEW m \in Serialized, NEW s \in Requests
        PROVE  lock'[m] = s <=> req'[s].kind = m /\ req'[s].pc \in {"locked", "found"}
    <3>1. CASE m = req[r].kind /\ s = r
      BY <3>1, EnvelopesAssumption DEF EnvelopesInv, EnvelopesTypeOK, ReqStates, TakeLock, At
    <3>2. CASE m = req[r].kind /\ s # r
      BY <3>2, EnvelopesAssumption DEF EnvelopesInv, EnvelopesTypeOK, ReqStates, TakeLock, At
    <3>3. CASE m # req[r].kind
      BY <3>3, EnvelopesAssumption DEF EnvelopesInv, EnvelopesTypeOK, ReqStates, TakeLock, At
    <3> QED BY <3>1, <3>2, <3>3
  <2> QED BY <2>1, <2>2 DEF EnvelopesInv, EnvelopesTypeOK
<1> QED BY <1>1, QuietRequests DEF TakeLock, At, EnvelopesInv, EnvelopesTypeOK, ReqStates

LEMMA FindLockedPreserves ==
    ASSUME EnvelopesInv, NEW r \in Requests, FindLocked(r)
    PROVE  EnvelopesInv'
<1> PICK e \in active[req[r].kind] : req' = [req EXCEPT ![r].pc = "found", ![r].found = e]
  BY DEF FindLocked
<1>1. EnvelopesTypeOK /\ req[r].pc = "locked" /\ UNCHANGED <<vaults, active, wraps, lock>>
  BY DEF EnvelopesInv, FindLocked, At
<1>2. e \in Requests /\ req[r].kind \in Methods
  BY <1>1 DEF EnvelopesTypeOK, FoundStaysActive, Methods, EnvelopesInv
<1>3. EnvelopesTypeOK'
  <2>1. req' \in [Requests -> ReqStates]
    <3> DEFINE q == [req[r] EXCEPT !.pc = "found", !.found = e]
    <3>1. q \in ReqStates /\ req' = [req EXCEPT ![r] = q] /\ req \in [Requests -> ReqStates]
      <4>1. req[r] \in ReqStates /\ req \in [Requests -> ReqStates]
        BY <1>1 DEF EnvelopesTypeOK
      <4>2. q \in ReqStates
        BY <1>2, <4>1 DEF ReqStates
      <4> QED BY <4>1, <4>2
    <3> HIDE DEF q
    <3> QED BY <3>1
  <2>2. ASSUME NEW l \in Serialized, NEW s \in Requests
        PROVE  lock'[l] = s <=> req'[s].kind = l /\ req'[s].pc \in {"locked", "found"}
    <3>1. CASE s = r
      BY <1>1, <3>1 DEF EnvelopesTypeOK, ReqStates
    <3>2. CASE s # r
      BY <1>1, <3>2 DEF EnvelopesTypeOK, ReqStates
    <3> QED BY <3>1, <3>2
  <2> QED BY <1>1, <2>1, <2>2 DEF EnvelopesTypeOK
<1> QED BY <1>1, <1>2, <1>3, QuietRequests DEF EnvelopesTypeOK, ReqStates

LEMMA FindCodePreserves ==
    ASSUME EnvelopesInv, NEW r \in Requests, FindCode(r)
    PROVE  EnvelopesInv'
<1> PICK e \in active["recovery_code"] \cup {Nobody} :
      req' = [req EXCEPT ![r].pc = "found", ![r].found = e]
  BY DEF FindCode
<1>1. /\ EnvelopesTypeOK /\ req[r].pc = "checked" /\ req[r].kind = "recovery_code"
      /\ UNCHANGED <<vaults, active, wraps, lock>>
  BY DEF EnvelopesInv, FindCode, At
<1>2. e \in Requests \cup {Nobody}
  BY <1>1 DEF EnvelopesTypeOK, Methods
<1>3. EnvelopesTypeOK'
  <2>1. req' \in [Requests -> ReqStates]
    <3> DEFINE q == [req[r] EXCEPT !.pc = "found", !.found = e]
    <3>1. q \in ReqStates /\ req' = [req EXCEPT ![r] = q] /\ req \in [Requests -> ReqStates]
      <4>1. req[r] \in ReqStates /\ req \in [Requests -> ReqStates]
        BY <1>1 DEF EnvelopesTypeOK
      <4>2. q \in ReqStates
        BY <1>2, <4>1 DEF ReqStates
      <4> QED BY <4>1, <4>2
    <3> HIDE DEF q
    <3> QED BY <3>1
  <2>2. ASSUME NEW l \in Serialized, NEW s \in Requests
        PROVE  lock'[l] = s <=> req'[s].kind = l /\ req'[s].pc \in {"locked", "found"}
    <3>1. CASE s = r
      BY <1>1, <3>1 DEF EnvelopesTypeOK, ReqStates, Serialized
    <3>2. CASE s # r
      BY <1>1, <3>2 DEF EnvelopesTypeOK, ReqStates
    <3> QED BY <3>1, <3>2
  <2> QED BY <1>1, <2>1, <2>2 DEF EnvelopesTypeOK
<1> QED BY <1>1, <1>2, <1>3, QuietRequests DEF EnvelopesTypeOK, ReqStates, Serialized, Methods

\* What releasing the lock of a finished request leaves.
LEMMA ReleasedType ==
    ASSUME EnvelopesTypeOK, NEW r \in Requests, req' = [req EXCEPT ![r].pc = "done"], lock' = Released(r)
    PROVE  /\ req' \in [Requests -> ReqStates]
           /\ lock' \in [Serialized -> Requests \cup {Nobody}]
           /\ \A m \in Serialized, s \in Requests :
                lock'[m] = s <=> req'[s].kind = m /\ req'[s].pc \in {"locked", "found"}
BY EnvelopesAssumption DEF EnvelopesTypeOK, ReqStates, Released

LEMMA FailPreserves ==
    ASSUME EnvelopesInv, NEW r \in Requests, Fail(r)
    PROVE  EnvelopesInv'
<1>1. EnvelopesTypeOK'
  BY ReleasedType DEF EnvelopesInv, EnvelopesTypeOK, Fail
<1> QED BY <1>1, QuietRequests DEF Fail, EnvelopesInv, EnvelopesTypeOK, ReqStates

LEMMA CommitSetupPreserves ==
    ASSUME EnvelopesInv, NEW r \in Requests, CommitSetup(r)
    PROVE  EnvelopesInv'
<1>1. /\ EnvelopesTypeOK /\ req[r].pc = "checked" /\ req[r].kind = "setup"
      /\ req' = [req EXCEPT ![r].pc = "done"]
      /\ vaults' = vaults \cup {r}
      /\ active' = [m \in Methods |-> IF m \in Serialized THEN active[m] \cup {r} ELSE active[m]]
      /\ UNCHANGED <<wraps, lock>>
  BY DEF EnvelopesInv, CommitSetup, At
<1>2. EnvelopesTypeOK'
  BY <1>1 DEF EnvelopesTypeOK, ReqStates, Methods, Serialized
<1>3. DoneLeavesRows'
  BY <1>1 DEF EnvelopesInv, DoneLeavesRows, EnvelopesTypeOK, ReqStates
<1>4. FoundStaysActive'
  BY <1>1 DEF EnvelopesInv, FoundStaysActive, EnvelopesTypeOK, ReqStates, Methods
<1>5. ASSUME NEW m \in Serialized
      PROVE  Cardinality(active'[m]) = Cardinality(vaults')
  <2>1. r \notin vaults /\ r \notin active[m] /\ m \in Methods
    BY <1>1 DEF EnvelopesInv, DoneLeavesRows, Methods
  <2>2. IsFiniteSet(vaults) /\ IsFiniteSet(active[m])
    BY <1>1, <2>1, EnvelopeRowsAreFinite
  <2>3. Cardinality(vaults') = Cardinality(vaults) + 1
    BY <1>1, <2>1, <2>2, FS_AddElement
  <2>4. Cardinality(active'[m]) = Cardinality(active[m]) + 1
    BY <1>1, <2>1, <2>2, FS_AddElement
  <2> QED BY <2>3, <2>4 DEF EnvelopesInv, OneEnvelopePerSetup
<1> QED BY <1>2, <1>3, <1>4, <1>5 DEF EnvelopesInv, OneEnvelopePerSetup

LEMMA CommitReplacePreserves ==
    ASSUME EnvelopesInv, NEW r \in Requests, CommitReplace(r)
    PROVE  EnvelopesInv'
<1> DEFINE k == req[r].kind
<1>1. /\ EnvelopesTypeOK /\ req[r].pc = "found" /\ k \in Methods
      /\ req' = [req EXCEPT ![r].pc = "done"]
      /\ active' = [active EXCEPT ![k] = (@ \ {req[r].found}) \cup {r}]
      /\ lock' = Released(r)
      /\ UNCHANGED <<vaults, wraps>>
  BY DEF EnvelopesInv, CommitReplace, Succeeds, At, FoundStaysActive
<1>2. EnvelopesTypeOK'
  <2>1. active' \in [Methods -> SUBSET Requests]
    BY <1>1 DEF EnvelopesTypeOK
  <2> QED BY <1>1, <2>1, ReleasedType DEF EnvelopesTypeOK
<1>3. DoneLeavesRows'
  BY <1>1 DEF EnvelopesInv, DoneLeavesRows, EnvelopesTypeOK, ReqStates
<1>4. FoundStaysActive'
  <2> SUFFICES ASSUME NEW s \in Requests, req'[s].pc \in {"locked", "found"}
               PROVE  /\ req'[s].pc = "locked" => req'[s].kind \in Serialized
                      /\ req'[s].pc = "found" =>
                           /\ req'[s].kind \in Methods
                           /\ req'[s].kind \in Serialized =>
                                req'[s].found \in active'[req'[s].kind]
    BY DEF FoundStaysActive
  <2>1. s # r /\ req'[s] = req[s]
    BY <1>1 DEF EnvelopesTypeOK, ReqStates
  <2>2. CASE req[s].pc = "locked"
    BY <2>2, <2>1 DEF EnvelopesInv, FoundStaysActive
  <2> SUFFICES ASSUME req[s].pc = "found"
               PROVE  /\ req[s].kind \in Methods
                      /\ req[s].kind \in Serialized => req[s].found \in active'[req[s].kind]
    BY <2>2, <2>1
  <2>3. req[s].kind \in Methods /\ (req[s].kind \in Serialized => req[s].found \in active[req[s].kind])
    BY <2>1 DEF EnvelopesInv, FoundStaysActive
  <2>4. req[s].kind \in Serialized => req[s].kind # k
    \* Both would hold the lock of the method.
    BY <1>1, <2>1 DEF EnvelopesTypeOK
  <2> QED BY <1>1, <2>1, <2>3, <2>4 DEF EnvelopesTypeOK
<1>5. ASSUME NEW m \in Serialized
      PROVE  Cardinality(active'[m]) = Cardinality(vaults')
  <2>1. m \in Methods /\ Cardinality(active[m]) = Cardinality(vaults)
    BY DEF EnvelopesInv, OneEnvelopePerSetup, Methods
  <2>2. CASE m = k
    <3>1. r \notin active[m] /\ req[r].found \in active[m]
      BY <1>1, <2>1, <2>2 DEF EnvelopesInv, DoneLeavesRows, FoundStaysActive
    <3>2. Cardinality((active[m] \ {req[r].found}) \cup {r}) = Cardinality(active[m])
      BY <1>1, <2>1, <3>1, EnvelopeRowsAreFinite, ExchangeKeepsCardinality
    <3> QED BY <1>1, <2>1, <2>2, <3>2 DEF EnvelopesTypeOK
  <2>3. CASE m # k
    BY <1>1, <2>1, <2>3 DEF EnvelopesTypeOK
  <2> QED BY <2>2, <2>3
<1> QED BY <1>2, <1>3, <1>4, <1>5 DEF EnvelopesInv, OneEnvelopePerSetup
---------------------------------------------------------------------------
LEMMA EnvelopesInductive == EnvelopesInv /\ [EnvelopesNext]_envelopeVars => EnvelopesInv'
<1> SUFFICES ASSUME EnvelopesInv, [EnvelopesNext]_envelopeVars PROVE EnvelopesInv'
  OBVIOUS
<1>1. CASE UNCHANGED envelopeVars
  BY <1>1 DEF envelopeVars, EnvelopesInv, EnvelopesTypeOK, DoneLeavesRows, FoundStaysActive, OneEnvelopePerSetup
<1>2. CASE EnvelopesNext
  <2> PICK r \in Requests :
        \/ CheckNoVault(r)
        \/ \E m \in Methods, k \in Requests : CheckVault(r, m, k)
        \/ TakeLock(r) \/ FindLocked(r) \/ FindCode(r)
        \/ Fail(r) \/ CommitSetup(r) \/ CommitReplace(r)
    BY <1>2 DEF EnvelopesNext
  <2> QED BY CheckNoVaultPreserves, CheckVaultPreserves, TakeLockPreserves, FindLockedPreserves,
             FindCodePreserves, FailPreserves, CommitSetupPreserves, CommitReplacePreserves
<1> QED BY <1>1, <1>2

LEMMA EnvelopesAlways == EnvelopesSpec => []EnvelopesInv
BY EnvelopesInitially, EnvelopesInductive, PTL DEF EnvelopesSpec

\* Every variable keeps its type, and the lock of a method is held exactly by its transaction
\* (lockEnvelopeMutation), for any set of requests.
THEOREM EnvelopesAreTyped == EnvelopesSpec => []EnvelopesTypeOK
BY EnvelopesAlways, PTL DEF EnvelopesInv

\* Replacements neither fork nor lose an envelope (replacePasswordEnvelope,
\* replaceRecoveryPhrase): each setup keeps exactly one of each method.
THEOREM ReplacementsAreSerialized == EnvelopesSpec => []OneEnvelopePerSetup
BY EnvelopesAlways, PTL DEF EnvelopesInv

\* The service implements the register: every commit is one of its steps, everything else
\* stutters.
THEOREM ImplementsRegister == EnvelopesSpec => ActsAsRegister
<1>1. EnvelopesInit => Register!Init
  BY DEF EnvelopesInit, Register!Init
<1>2. EnvelopesInv /\ [EnvelopesNext]_envelopeVars => [Register!Next]_(Register!vars)
  <2> SUFFICES ASSUME EnvelopesInv, [EnvelopesNext]_envelopeVars PROVE [Register!Next]_(Register!vars)
    OBVIOUS
  <2>1. CASE UNCHANGED envelopeVars
    BY <2>1 DEF envelopeVars, Register!vars
  <2>2. CASE EnvelopesNext
    <3> PICK r \in Requests :
          \/ CheckNoVault(r)
          \/ \E m \in Methods, k \in Requests : CheckVault(r, m, k)
          \/ TakeLock(r) \/ FindLocked(r) \/ FindCode(r)
          \/ Fail(r) \/ CommitSetup(r) \/ CommitReplace(r)
      BY <2>2 DEF EnvelopesNext
    <3>1. CASE \/ CheckNoVault(r)
               \/ \E m \in Methods, k \in Requests : CheckVault(r, m, k)
               \/ TakeLock(r) \/ FindLocked(r) \/ FindCode(r) \/ Fail(r)
      BY <3>1 DEF CheckNoVault, CheckVault, TakeLock, FindLocked, FindCode, Fail, Register!vars
    <3>2. CASE CommitSetup(r)
      <4>1. r \notin vaults
        BY <3>2 DEF CommitSetup, At, EnvelopesInv, DoneLeavesRows
      <4>2. Register!Setup(r)
        BY <3>2, <4>1 DEF CommitSetup, Register!Setup
      <4> QED BY <4>2 DEF Register!Next
    <3>3. CASE CommitReplace(r)
      <4> DEFINE k == req[r].kind
                 e == req[r].found
      <4>1. /\ k \in Methods /\ r \notin active[k] /\ active \in [Methods -> SUBSET Requests]
            /\ active' = [active EXCEPT ![k] = (@ \ {e}) \cup {r}] /\ UNCHANGED vaults
            /\ k \in Serialized => e \in active[k]
        BY <3>3 DEF CommitReplace, Succeeds, At, EnvelopesInv, DoneLeavesRows, FoundStaysActive, EnvelopesTypeOK
      <4>2. CASE e \in active[k]
        <5>1. \E old \in active[k] : active' = [active EXCEPT ![k] = (@ \ {old}) \cup {r}]
          BY <4>1, <4>2
        <5>2. Register!Replace(r, k) /\ Register!Store(r, k)
          BY <4>1, <5>1 DEF Register!Replace, Register!Store
        <5> QED BY <4>1, <5>2 DEF Register!Next
      <4>3. CASE e \notin active[k]
        <5>1. active[k] \ {e} = active[k]
          BY <4>3
        <5>2. active' = [active EXCEPT ![k] = @ \cup {r}]
          BY <4>1, <5>1
        <5>3. Register!Store(r, k) /\ k \in Methods \ Serialized
          BY <4>1, <4>3, <5>2 DEF Register!Store
        <5> QED BY <5>3 DEF Register!Next
      <4> QED BY <4>2, <4>3
    <3> QED BY <3>1, <3>2, <3>3
  <2> QED BY <2>1, <2>2
<1> QED BY <1>1, <1>2, EnvelopesAlways, PTL DEF EnvelopesSpec, ActsAsRegister, Register!Spec

==================================================================================
