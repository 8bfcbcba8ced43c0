------------------------- MODULE PasskeyVaultProofs -------------------------
(***************************************************************************)
(* Theorems about PasskeyVault, for any credentials, variants, bindings,    *)
(* tokens and requests.  RequestInv says what requests and row locks are to *)
(* each other; AgreeInv adds what a transaction may rely on while it holds  *)
(* its lock, which is what the overlaps of the requests depend on.          *)
(* TicketsFit counts what the accepted assertions of a credential have      *)
(* earned, in whatever form it is kept.                                     *)
(***************************************************************************)
EXTENDS PasskeyVault, FiniteSetTheorems, TLAPS

\* A lock belongs to a transaction that is still open.
Transacting(r) == req[r].pc \in {"locking", "envelopes", "commit"}

LocksAreHeld == \A c \in Creds : lockOf[c] # None => Transacting(lockOf[c])

\* A removal has locked only rows that come before the ones it still has to lock.
LocksAscend ==
    \A r \in Slots : req[r].pc = "locking" =>
        \A c \in Creds, d \in req[r].todo : lockOf[c] = r => c < d

\* What a request in flight is about.
TargetOf(q) ==
    /\ q.pc \in {"locking", "envelopes"} => q.kind = "remove"
    /\ q.pc \in {"consume", "advance", "issue", "lock"} => q.kind # "remove"
    /\ q.pc # "idle" /\ q.kind # "remove" => q.cred \in Creds
    /\ q.pc # "idle" /\ q.kind \in {"bind", "disable"} => q.variant \in Variants
    /\ q.pc = "advance" => q.kind \in {"unlock", "enroll"}
    /\ q.pc = "consume" => q.token \in Tokens
    /\ q.pc \in {"consume", "advance"} /\ q.kind \in {"unlock", "enroll"} /\ q.cred \in Counting =>
           q.signed >= 1

Targets ==
    \A r \in Slots :
        /\ TargetOf(req[r])
        /\ req[r].pc = "commit" /\ req[r].kind # "remove" => lockOf[req[r].cred] = r

RequestInv == TypeOK /\ LocksAreHeld /\ LocksAscend /\ Targets

-----------------------------------------------------------------------------
LEMMA CredsAreNat == Creds \subseteq Nat
BY PasskeyAssumption DEF Creds

-----------------------------------------------------------------------------
(* The requests and their locks                                            *)

LEMMA NoCredIsRow == NoCred \in Rows
BY PasskeyAssumption DEF NoCred, Rows

LEMMA IdleIsRequest == Idle \in Requests /\ TargetOf(Idle) /\ Idle.pc = "idle"
BY NoCredIsRow DEF Idle, Requests, TargetOf

\* No more assertions are accepted than the bound allows.
LEMMA RevisionsFit ==
    ASSUME TypeOK, NEW c \in Creds, Cardinality(Accepted) < MaxAssertions
    PROVE  cred[c].rev + 1 \in 0..MaxAssertions
<1> DEFINE k == cred[c].rev
           T == {<<c, n>> : n \in 1..k}
<1>1. k \in Nat /\ MaxAssertions \in Nat /\ k <= MaxAssertions
  BY PasskeyAssumption DEF TypeOK, Rows
<1>2. IsFiniteSet(Accepted)
  <2>1. IsFiniteSet(Creds \X (1..MaxAssertions))
    <3>1. 1 \in Int /\ NumCreds \in Int /\ MaxAssertions \in Int
      BY PasskeyAssumption
    <3>2. IsFiniteSet(1..NumCreds) /\ IsFiniteSet(1..MaxAssertions)
      BY <3>1, FS_Interval
    <3> QED BY <3>2, FS_Product DEF Creds
  <2>2. \A d \in Creds : cred[d].rev \in 0..MaxAssertions
    BY DEF TypeOK, Rows
  <2>3. \A d \in Creds : \A n \in 1..cred[d].rev : n \in 1..MaxAssertions
    BY <2>2, PasskeyAssumption
  <2>4. Accepted \in SUBSET (Creds \X (1..MaxAssertions))
    BY <2>3 DEF Accepted
  <2> QED BY <2>1, <2>4, FS_Subset
<1>3. T \in SUBSET Accepted
  BY DEF Accepted
<1>4. Cardinality(T) = k
  <2>1. IsFiniteSet(1..k) /\ Cardinality(1..k) = k
    <3>1. 1 \in Int /\ k \in Int
      BY <1>1
    <3>2. IsFiniteSet(1..k) /\ Cardinality(1..k) = IF 1 > k THEN 0 ELSE k - 1 + 1
      BY <3>1, FS_Interval
    <3> HIDE DEF k
    <3> QED BY <1>1, <3>2
  <2>2. [n \in 1..k |-> <<c, n>>] \in Bijection(1..k, T)
    BY DEF Bijection, Injection, Surjection, IsInjective
  <2> QED BY <2>1, <2>2, FS_Bijection DEF ExistsBijection
<1>5. Cardinality(T) <= Cardinality(Accepted) /\ Cardinality(Accepted) \in Nat
  BY <1>2, <1>3, FS_Subset, FS_CardinalityType
<1> QED BY <1>1, <1>4, <1>5

\* A request moves to state q, and the locks it may have changed are its own.
LEMMA RequestMoves ==
    ASSUME RequestInv, NEW r \in Slots, NEW q \in Requests, req' = [req EXCEPT ![r] = q],
           TypeOK', TargetOf(q),
           \A c \in Creds : \/ lockOf'[c] = lockOf[c]
                            \/ lockOf[c] \in {r, None} /\ lockOf'[c] \in {r, None},
           (\E c \in Creds : lockOf'[c] = r) => q.pc \in {"locking", "envelopes", "commit"},
           q.pc = "locking" => \A c \in Creds, d \in q.todo : lockOf'[c] = r => c < d,
           q.pc = "commit" /\ q.kind # "remove" => lockOf'[q.cred] = r
    PROVE  RequestInv'
<1>1. \A s \in Slots : req'[s] = IF s = r THEN q ELSE req[s]
  BY DEF RequestInv, TypeOK
<1>2. r # None /\ \A c \in Creds : lockOf[c] \in Slots \cup {None}
  BY PasskeyAssumption DEF RequestInv, TypeOK
<1>3. \A s \in Slots, c \in Creds : s # r => (lockOf'[c] = s <=> lockOf[c] = s)
  BY <1>2, PasskeyAssumption
<1>4. LocksAreHeld'
  <2> SUFFICES ASSUME NEW c \in Creds, lockOf'[c] # None
               PROVE  req'[lockOf'[c]].pc \in {"locking", "envelopes", "commit"}
    BY DEF LocksAreHeld, Transacting
  <2>1. lockOf'[c] \in Slots
    BY DEF TypeOK
  <2>2. CASE lockOf'[c] = r
    BY <1>1, <2>2
  <2>3. CASE lockOf'[c] # r
    <3>1. lockOf[c] = lockOf'[c]
      BY <2>3
    <3> QED BY <1>1, <2>1, <2>3, <3>1 DEF RequestInv, LocksAreHeld, Transacting
  <2> QED BY <2>2, <2>3
<1>5. LocksAscend'
  BY <1>1, <1>3 DEF RequestInv, LocksAscend
<1>6. Targets'
  <2> SUFFICES ASSUME NEW s \in Slots
               PROVE  /\ TargetOf(req'[s])
                      /\ req'[s].pc = "commit" /\ req'[s].kind # "remove" =>
                             lockOf'[req'[s].cred] = s
    BY DEF Targets, TargetOf
  <2>1. CASE s = r
    BY <1>1, <2>1
  <2>2. CASE s # r
    <3>1. TargetOf(req[s]) /\ (req[s].pc = "commit" /\ req[s].kind # "remove" => lockOf[req[s].cred] = s)
      BY DEF RequestInv, Targets
    <3>2. req[s].pc = "commit" /\ req[s].kind # "remove" => req[s].cred \in Creds
      BY <3>1 DEF TargetOf
    <3> QED BY <1>1, <1>3, <2>2, <3>1, <3>2
  <2> QED BY <2>1, <2>2
<1> QED BY <1>4, <1>5, <1>6 DEF RequestInv

\* Nothing a request depends on changes.
LEMMA RequestsStay ==
    ASSUME RequestInv, UNCHANGED <<req, lockOf>>, TypeOK'
    PROVE  RequestInv'
BY DEF RequestInv, LocksAreHeld, Transacting, LocksAscend, Targets, TargetOf

-----------------------------------------------------------------------------
(* Types                                                                   *)

ChallengesTyped ==
    challenge \in [Tokens -> [type : ChallengeTypes, cred : Creds \cup {None}] \cup {None}]

LEMMA StoreIsTyped ==
    ASSUME TypeOK, NEW type \in ChallengeTypes, NEW c \in Creds \cup {None}, Store(type, c)
    PROVE  ChallengesTyped'
BY DEF TypeOK, Store, FreeTokens, ChallengesTyped

LEMMA ConsumedIsTyped ==
    ASSUME TypeOK, NEW t, challenge' = Consumed(t)
    PROVE  ChallengesTyped'
BY DEF TypeOK, Consumed, ChallengesTyped

LEMMA KeptIsTyped ==
    ASSUME TypeOK, UNCHANGED challenge
    PROVE  ChallengesTyped'
BY DEF TypeOK, ChallengesTyped

LEMMA SignIsTyped ==
    ASSUME TypeOK, NEW c \in Creds, Sign(c)
    PROVE  Signed(c) \in Nat /\ device' \in [Creds -> Nat]
BY DEF TypeOK, Sign, Signed

LEMMA ReleaseIsTyped ==
    ASSUME TypeOK, NEW r, Release(r)
    PROVE  lockOf' \in [Creds -> Slots \cup {None}]
BY DEF TypeOK, Release

LEMMA RequestIsTyped ==
    ASSUME TypeOK, NEW r \in Slots, NEW q \in Requests, req' = [req EXCEPT ![r] = q]
    PROVE  req' \in [Slots -> Requests]
BY DEF TypeOK

-----------------------------------------------------------------------------
(* Actions that start a request                                            *)

LEMMA RegisterCredentialInv ==
    ASSUME RequestInv, NEW c \in Creds, RegisterCredential(c)
    PROVE  RequestInv'
<1>1. cred[c] \in Rows /\ [cred[c] EXCEPT !.state = "live"] \in Rows
  BY DEF RequestInv, TypeOK, Rows
<1>2. cred' = [cred EXCEPT ![c] = [cred[c] EXCEPT !.state = "live"]]
  BY DEF RegisterCredential
<1>3. cred' \in [Creds -> Rows]
  BY <1>1, <1>2 DEF RequestInv, TypeOK
<1>4. TypeOK'
  BY <1>3 DEF RequestInv, TypeOK, RegisterCredential
<1> QED BY <1>4, RequestsStay DEF RegisterCredential

LEMMA OptionsInv ==
    ASSUME RequestInv, NEW c \in Creds,
           UnlockOptions \/ EnrollOptions(c) \/ LoginCandidates(c) \/ (\E t \in Tokens : Expire(t))
    PROVE  RequestInv'
<1>1. ChallengesTyped'
  BY StoreIsTyped, ConsumedIsTyped DEF RequestInv, UnlockOptions, EnrollOptions, LoginCandidates,
     Expire, ChallengeTypes
<1>2. TypeOK'
  BY <1>1 DEF RequestInv, TypeOK, ChallengesTyped, UnlockOptions, EnrollOptions, LoginCandidates,
     Expire, rows
<1> QED BY <1>2, RequestsStay DEF UnlockOptions, EnrollOptions, LoginCandidates, Expire

LEMMA UnbindInv ==
    ASSUME RequestInv, NEW b \in Bindings, Unbind(b)
    PROVE  RequestInv'
<1>1. TypeOK'
  BY DEF RequestInv, TypeOK, Unbind
<1> QED BY <1>1, RequestsStay DEF Unbind

\* A slot that is idle holds no lock.
LEMMA IdleHoldsNothing ==
    ASSUME RequestInv, NEW r \in Slots, NEW c \in Creds, lockOf[c] = r
    PROVE  Transacting(r)
BY PasskeyAssumption DEF RequestInv, LocksAreHeld

\* A request that starts waits for nothing yet, except a removal, which lists its rows.
LEMMA StartInv ==
    ASSUME RequestInv, NEW r \in Slots, NEW q \in Requests, Start(r, q), TypeOK', TargetOf(q),
           q.pc \notin {"envelopes", "commit"}, UNCHANGED lockOf
    PROVE  RequestInv'
<1>1. req' = [req EXCEPT ![r] = q]
  BY DEF Start
<1>2. \A c \in Creds : lockOf'[c] # r
  BY IdleHoldsNothing DEF Start, Transacting
<1> QED BY <1>1, <1>2, RequestMoves

LEMMA SendUnlockInv ==
    ASSUME RequestInv, NEW r \in Slots, NEW c \in Creds, NEW t \in Tokens, SendUnlock(r, c, t)
    PROVE  RequestInv'
<1> DEFINE q == [Idle EXCEPT !.kind = "unlock", !.pc = "advance", !.cred = c,
                             !.read = cred[c], !.signed = Signed(c)]
<1>1. ChallengesTyped' /\ Signed(c) \in Nat /\ device' \in [Creds -> Nat]
  BY ConsumedIsTyped, SignIsTyped DEF RequestInv, SendUnlock
<1>2. q \in Requests /\ q.pc = "advance" /\ q.kind = "unlock" /\ q.cred = c /\ q.signed = Signed(c)
  BY <1>1, NoCredIsRow, IdleIsRequest DEF RequestInv, TypeOK, Idle, Requests, Kinds
<1>3. TargetOf(q)
  <2>1. device[c] \in Nat
    BY DEF RequestInv, TypeOK
  <2> HIDE DEF q
  <2> QED BY <1>2, <2>1 DEF TargetOf, Signed
<1>4. CASE Live(c)
  <2>1. Start(r, q)
    BY <1>4 DEF SendUnlock
  <2> HIDE DEF q
  <2>2. req' = [req EXCEPT ![r] = q]
    BY <2>1 DEF Start
  <2>3. TypeOK'
    BY <1>1, <1>2, <2>2, RequestIsTyped DEF RequestInv, TypeOK, ChallengesTyped, SendUnlock, rows
  <2> QED BY <1>2, <1>3, <2>1, <2>3, StartInv DEF SendUnlock
<1>5. CASE ~Live(c)
  <2>1. UNCHANGED req
    BY <1>5 DEF SendUnlock
  <2>2. TypeOK'
    BY <1>1, <2>1 DEF RequestInv, TypeOK, ChallengesTyped, SendUnlock, rows
  <2> QED BY <2>1, <2>2, RequestsStay DEF SendUnlock
<1> QED BY <1>4, <1>5

LEMMA SendEnrollInv ==
    ASSUME RequestInv, NEW r \in Slots, NEW c \in Creds, NEW t \in Tokens, SendEnroll(r, c, t)
    PROVE  RequestInv'
<1> DEFINE q == [Idle EXCEPT !.kind = "enroll", !.pc = "consume", !.cred = c, !.token = t,
                             !.read = cred[c], !.signed = Signed(c)]
<1>1. Signed(c) \in Nat /\ device' \in [Creds -> Nat]
  BY SignIsTyped DEF RequestInv, SendEnroll
<1>2. /\ q \in Requests /\ q.pc = "consume" /\ q.kind = "enroll" /\ q.cred = c /\ q.token = t
      /\ q.signed = Signed(c) /\ Start(r, q)
  BY <1>1, NoCredIsRow, IdleIsRequest DEF RequestInv, TypeOK, Idle, Requests, Kinds, SendEnroll
<1> HIDE DEF q
<1>3. TargetOf(q)
  <2>1. device[c] \in Nat
    BY DEF RequestInv, TypeOK
  <2> QED BY <1>2, <2>1 DEF TargetOf, Signed
<1>4. req' = [req EXCEPT ![r] = q]
  BY <1>2 DEF Start
<1>5. TypeOK'
  BY <1>1, <1>2, <1>4, RequestIsTyped DEF RequestInv, TypeOK, SendEnroll, rows
<1> QED BY <1>2, <1>3, <1>5, StartInv DEF SendEnroll

LEMMA SendPersistInv ==
    ASSUME RequestInv, NEW r \in Slots, NEW c \in Creds, NEW t \in Tokens,
           SendPersist(r, c, t)
    PROVE  RequestInv'
<1> DEFINE q == [Idle EXCEPT !.kind = "persist", !.pc = "consume", !.cred = c, !.token = t]
<1>1. q \in Requests /\ q.pc = "consume" /\ q.kind = "persist" /\ q.cred = c /\ q.token = t /\ Start(r, q)
  BY IdleIsRequest DEF Idle, Requests, Kinds, SendPersist
<1> HIDE DEF q
<1>2. TargetOf(q)
  BY <1>1 DEF TargetOf
<1>3. req' = [req EXCEPT ![r] = q]
  BY <1>1 DEF Start
<1>4. TypeOK'
  BY <1>1, <1>3, RequestIsTyped DEF RequestInv, TypeOK, SendPersist, rows
<1> QED BY <1>1, <1>2, <1>4, StartInv DEF SendPersist

LEMMA SendBindInv ==
    ASSUME RequestInv, NEW r \in Slots, NEW c \in Creds, NEW t \in Tokens, NEW v \in Variants,
           SendBind(r, c, t, v)
    PROVE  RequestInv'
<1> DEFINE q == [Idle EXCEPT !.kind = "bind", !.pc = "consume", !.cred = c, !.token = t, !.variant = v]
<1>1. /\ q \in Requests /\ q.pc = "consume" /\ q.kind = "bind" /\ q.cred = c /\ q.token = t
      /\ q.variant = v /\ Start(r, q)
  BY IdleIsRequest DEF Idle, Requests, Kinds, SendBind
<1> HIDE DEF q
<1>2. TargetOf(q)
  BY <1>1 DEF TargetOf
<1>3. req' = [req EXCEPT ![r] = q]
  BY <1>1 DEF Start
<1>4. TypeOK'
  BY <1>1, <1>3, RequestIsTyped DEF RequestInv, TypeOK, SendBind, rows
<1> QED BY <1>1, <1>2, <1>4, StartInv DEF SendBind

LEMMA SendDisableInv ==
    ASSUME RequestInv, NEW r \in Slots, NEW c \in Creds, NEW t \in Tokens, NEW v \in Variants,
           SendDisable(r, c, t, v)
    PROVE  RequestInv'
<1> DEFINE q == [Idle EXCEPT !.kind = "disable", !.pc = "consume", !.cred = c, !.token = t, !.variant = v]
<1>1. /\ q \in Requests /\ q.pc = "consume" /\ q.kind = "disable" /\ q.cred = c /\ q.token = t
      /\ q.variant = v /\ Start(r, q)
  BY IdleIsRequest DEF Idle, Requests, Kinds, SendDisable
<1> HIDE DEF q
<1>2. TargetOf(q)
  BY <1>1 DEF TargetOf
<1>3. req' = [req EXCEPT ![r] = q]
  BY <1>1 DEF Start
<1>4. TypeOK'
  BY <1>1, <1>3, RequestIsTyped DEF RequestInv, TypeOK, SendDisable, rows
<1> QED BY <1>1, <1>2, <1>4, StartInv DEF SendDisable

LEMMA SendRemoveAllInv ==
    ASSUME RequestInv, NEW r \in Slots, SendRemoveAll(r)
    PROVE  RequestInv'
<1> DEFINE q == [Idle EXCEPT !.kind = "remove", !.pc = "locking", !.todo = {c \in Creds : Live(c)}]
<1>1. q \in Requests /\ q.pc = "locking" /\ q.kind = "remove" /\ Start(r, q)
  BY IdleIsRequest DEF Idle, Requests, Kinds, SendRemoveAll
<1> HIDE DEF q
<1>2. TargetOf(q)
  BY <1>1 DEF TargetOf
<1>3. req' = [req EXCEPT ![r] = q]
  BY <1>1 DEF Start
<1>4. TypeOK'
  BY <1>1, <1>3, RequestIsTyped DEF RequestInv, TypeOK, SendRemoveAll, rows
<1> QED BY <1>1, <1>2, <1>4, StartInv DEF SendRemoveAll

-----------------------------------------------------------------------------
(* Actions of a request in flight                                          *)

\* A request ends and gives back its locks.
LEMMA EndInv ==
    ASSUME RequestInv, NEW r \in Slots, Finish(r), Release(r), TypeOK'
    PROVE  RequestInv'
<1>1. req' = [req EXCEPT ![r] = Idle] /\ Idle \in Requests /\ TargetOf(Idle) /\ Idle.pc = "idle"
  BY IdleIsRequest DEF Finish
<1>2. r # None /\ \A c \in Creds : lockOf'[c] = IF lockOf[c] = r THEN None ELSE lockOf[c]
  BY PasskeyAssumption DEF Release
<1>3. Idle.pc # "locking" /\ Idle.pc # "commit"
  BY <1>1
<1> QED BY <1>1, <1>2, <1>3, RequestMoves

\* A request that has no lock ends.
LEMMA GiveUpInv ==
    ASSUME RequestInv, NEW r \in Slots, ~Transacting(r), Finish(r), UNCHANGED lockOf, TypeOK'
    PROVE  RequestInv'
<1>1. \A c \in Creds : lockOf[c] # r
  BY IdleHoldsNothing
<1>2. req' = [req EXCEPT ![r] = Idle] /\ Idle \in Requests /\ TargetOf(Idle) /\ Idle.pc = "idle"
  BY IdleIsRequest DEF Finish
<1>3. Idle.pc # "locking" /\ Idle.pc # "commit"
  BY <1>2
<1> QED BY <1>1, <1>2, <1>3, RequestMoves

\* A request without a lock goes on without one.
LEMMA GoOnInv ==
    ASSUME RequestInv, NEW r \in Slots, NEW q \in Requests, ~Transacting(r),
           req' = [req EXCEPT ![r] = q], q.pc \in {"consume", "advance", "issue", "lock"},
           TargetOf(q), UNCHANGED lockOf, TypeOK'
    PROVE  RequestInv'
<1>1. \A c \in Creds : lockOf[c] # r
  BY IdleHoldsNothing
<1> QED BY <1>1, RequestMoves

LEMMA FinishIsTyped ==
    ASSUME TypeOK, NEW r \in Slots, Finish(r)
    PROVE  req' \in [Slots -> Requests]
BY IdleIsRequest, RequestIsTyped DEF Finish

LEMMA ConsumeInv ==
    ASSUME RequestInv, NEW r \in Slots, Consume(r)
    PROVE  RequestInv'
<1> DEFINE q == [req[r] EXCEPT !.token = None,
                               !.pc = IF req[r].kind = "enroll" THEN "advance" ELSE "lock"]
<1>1. ~Transacting(r) /\ UNCHANGED lockOf
  BY DEF Consume, Transacting
<1>2. ChallengesTyped'
  BY ConsumedIsTyped, KeptIsTyped DEF RequestInv, Consume
<1>3. CASE Finish(r)
  <2>1. TypeOK'
    BY <1>2, <1>3, FinishIsTyped DEF RequestInv, TypeOK, ChallengesTyped, Consume, rows
  <2> QED BY <1>1, <1>3, <2>1, GiveUpInv
<1>4. CASE ~Finish(r)
  <2>1. req[r] \in Requests /\ TargetOf(req[r]) /\ req[r].pc = "consume"
    BY DEF RequestInv, TypeOK, Targets, Consume
  <2>2. q \in Requests /\ q.pc \in {"advance", "lock"} /\ q.kind = req[r].kind
        /\ q.cred = req[r].cred /\ q.variant = req[r].variant /\ q.signed = req[r].signed
        /\ (q.pc = "advance" => req[r].kind = "enroll")
    BY <2>1 DEF Requests
  <2>3. req' = [req EXCEPT ![r] = q]
    BY <1>4 DEF Consume
  <2> HIDE DEF q
  <2>4. TargetOf(q)
    BY <2>1, <2>2 DEF TargetOf
  <2>5. TypeOK'
    BY <1>2, <2>2, <2>3, RequestIsTyped DEF RequestInv, TypeOK, ChallengesTyped, Consume, rows
  <2> QED BY <1>1, <2>2, <2>3, <2>4, <2>5, GoOnInv
<1> QED BY <1>3, <1>4

LEMMA IssueProofInv ==
    ASSUME RequestInv, NEW r \in Slots, IssueProof(r)
    PROVE  RequestInv'
<1>1. ~Transacting(r) /\ UNCHANGED lockOf /\ Finish(r)
  BY DEF IssueProof, Transacting
<1>2. req[r].cred \in Creds
  BY DEF RequestInv, Targets, TargetOf, IssueProof
<1>3. ChallengesTyped'
  BY <1>2, StoreIsTyped, KeptIsTyped DEF RequestInv, IssueProof, ChallengeTypes
<1>4. TypeOK'
  BY <1>1, <1>3, FinishIsTyped DEF RequestInv, TypeOK, ChallengesTyped, IssueProof, rows
<1> QED BY <1>1, <1>4, GiveUpInv

LEMMA AdvanceCounterInv ==
    ASSUME RequestInv, NEW r \in Slots, AdvanceCounter(r)
    PROVE  RequestInv'
<1> DEFINE q == [req[r] EXCEPT !.pc = "issue", !.signed = 0,
                               !.read = [NoCred EXCEPT !.vault = @ \/ req[r].read.vault]]
<1>1. ~Transacting(r) /\ UNCHANGED lockOf
  BY DEF AdvanceCounter, Transacting
<1>2. req[r] \in Requests /\ TargetOf(req[r]) /\ req[r].pc = "advance"
  BY DEF RequestInv, TypeOK, Targets, AdvanceCounter
<1>3. req[r].cred \in Creds
  BY <1>2 DEF TargetOf
<1>4. CASE AcceptedNow(r)
  <2>1. q \in Requests /\ q.pc = "issue" /\ q.kind = req[r].kind /\ q.cred = req[r].cred
        /\ q.variant = req[r].variant
    BY <1>2, NoCredIsRow DEF Requests, Rows
  <2>2. req' = [req EXCEPT ![r] = q]
    BY <1>4 DEF AdvanceCounter
  <2> HIDE DEF q
  <2>3. TargetOf(q)
    BY <1>2, <2>1 DEF TargetOf
  <2>4. cred' \in [Creds -> Rows]
    <3> DEFINE d == req[r].cred
               row == [cred[d] EXCEPT !.counter = req[r].signed, !.rev = @ + 1]
    <3>1. cred[d].rev + 1 \in 0..MaxAssertions
      BY <1>3, <1>4, RevisionsFit DEF RequestInv, AdvanceCounter
    <3>2. row \in Rows
      BY <1>2, <1>3, <3>1 DEF RequestInv, TypeOK, Rows, Requests
    <3>3. cred' = [cred EXCEPT ![d] = row]
      BY <1>4 DEF AdvanceCounter
    <3> HIDE DEF row
    <3> QED BY <1>3, <3>2, <3>3 DEF RequestInv, TypeOK
  <2>5. TypeOK'
    BY <2>1, <2>2, <2>4, RequestIsTyped DEF RequestInv, TypeOK, AdvanceCounter
  <2> QED BY <1>1, <2>1, <2>2, <2>3, <2>5, GoOnInv
<1>5. CASE ~AcceptedNow(r)
  <2>1. Finish(r) /\ UNCHANGED cred
    BY <1>5 DEF AdvanceCounter
  <2>2. TypeOK'
    BY <2>1, FinishIsTyped DEF RequestInv, TypeOK, AdvanceCounter
  <2> QED BY <1>1, <2>1, <2>2, GiveUpInv
<1> QED BY <1>4, <1>5

LEMMA LockAndReadInv ==
    ASSUME RequestInv, NEW r \in Slots, LockAndRead(r)
    PROVE  RequestInv'
<1> DEFINE q == [req[r] EXCEPT !.pc = "commit"]
<1>1. ~Transacting(r)
  BY DEF LockAndRead, Transacting
<1>2. req[r] \in Requests /\ TargetOf(req[r]) /\ req[r].pc = "lock"
  BY DEF RequestInv, TypeOK, Targets, LockAndRead
<1>3. req[r].cred \in Creds
  BY <1>2 DEF TargetOf
<1>4. CASE GoesOn(r)
  <2>1. q \in Requests /\ q.pc = "commit" /\ q.kind = req[r].kind /\ q.cred = req[r].cred
        /\ q.variant = req[r].variant
    BY <1>2 DEF Requests
  <2>2. req' = [req EXCEPT ![r] = q] /\ lockOf' = [lockOf EXCEPT ![req[r].cred] = r]
    BY <1>4 DEF LockAndRead, Goto
  <2> HIDE DEF q
  <2>3. TargetOf(q)
    BY <1>2, <2>1 DEF TargetOf
  <2>4. lockOf[req[r].cred] = None
    BY DEF LockAndRead, RowFree
  <2>5. lockOf' \in [Creds -> Slots \cup {None}]
    BY <2>2 DEF RequestInv, TypeOK
  <2>6. TypeOK'
    BY <2>1, <2>2, <2>5, RequestIsTyped DEF RequestInv, TypeOK, LockAndRead, rows
  <2>7. \A c \in Creds : lockOf'[c] = IF c = req[r].cred THEN r ELSE lockOf[c]
    BY <2>2 DEF RequestInv, TypeOK
  <2>8. lockOf'[q.cred] = r /\ q.pc # "locking"
    BY <1>3, <2>1, <2>7
  <2> QED BY <2>1, <2>2, <2>3, <2>4, <2>6, <2>7, <2>8, RequestMoves
<1>5. CASE ~GoesOn(r)
  <2>1. Finish(r) /\ UNCHANGED lockOf
    BY <1>5 DEF LockAndRead
  <2>2. TypeOK'
    BY <2>1, FinishIsTyped DEF RequestInv, TypeOK, LockAndRead, rows
  <2> QED BY <1>1, <2>1, <2>2, GiveUpInv
<1> QED BY <1>4, <1>5

LEMMA CommitPersistInv ==
    ASSUME RequestInv, NEW r \in Slots, CommitPersist(r)
    PROVE  RequestInv'
<1> DEFINE q == [req[r] EXCEPT !.pc = "issue"]
<1>1. req[r] \in Requests /\ TargetOf(req[r]) /\ req[r].pc = "commit" /\ req[r].kind = "persist"
  BY DEF RequestInv, TypeOK, Targets, CommitPersist
<1>2. req[r].cred \in Creds
  BY <1>1 DEF TargetOf
<1>3. q \in Requests /\ q.pc = "issue" /\ q.kind = "persist" /\ q.cred = req[r].cred
  BY <1>1 DEF Requests
<1>4. req' = [req EXCEPT ![r] = q]
  BY DEF CommitPersist, Goto
<1> HIDE DEF q
<1>5. TargetOf(q)
  BY <1>2, <1>3 DEF TargetOf
<1>6. cred' \in [Creds -> Rows]
  <2> DEFINE row == [cred[req[r].cred] EXCEPT !.vault = @ \/ Live(req[r].cred)]
  <2>1. row \in Rows
    <3>1. cred[req[r].cred] \in Rows /\ Live(req[r].cred) \in BOOLEAN
      BY <1>2 DEF RequestInv, TypeOK, Live
    <3> QED BY <3>1 DEF Rows
  <2>2. cred' = [cred EXCEPT ![req[r].cred] = row]
    BY DEF CommitPersist
  <2> HIDE DEF row
  <2> QED BY <1>2, <2>1, <2>2 DEF RequestInv, TypeOK
<1>7. env' \in [Variants -> [cred : Creds \cup {None}, active : BOOLEAN]]
  BY <1>2 DEF RequestInv, TypeOK, CommitPersist, FreeVariants
<1>8. TypeOK'
  BY <1>3, <1>4, <1>6, <1>7, ReleaseIsTyped, RequestIsTyped DEF RequestInv, TypeOK, CommitPersist
<1>9. r # None /\ \A c \in Creds : lockOf'[c] = IF lockOf[c] = r THEN None ELSE lockOf[c]
  BY PasskeyAssumption DEF CommitPersist, Release
<1>10. q.pc # "locking" /\ q.pc # "commit"
  BY <1>3
<1> QED BY <1>3, <1>4, <1>5, <1>8, <1>9, <1>10, RequestMoves

LEMMA CommitBindInv ==
    ASSUME RequestInv, NEW r \in Slots, CommitBind(r)
    PROVE  RequestInv'
<1>1. TargetOf(req[r]) /\ req[r].pc = "commit" /\ req[r].kind = "bind"
  BY DEF RequestInv, Targets, CommitBind
<1>2. req[r].cred \in Creds /\ req[r].variant \in Variants
  BY <1>1 DEF TargetOf
<1>3. binding' \in [Bindings -> [cred : Creds, variant : Variants] \cup {None}]
  BY <1>2 DEF RequestInv, TypeOK, CommitBind
<1>4. TypeOK'
  BY <1>3, ReleaseIsTyped, FinishIsTyped DEF RequestInv, TypeOK, CommitBind
<1> QED BY <1>4, EndInv DEF CommitBind

LEMMA RetireIsTyped ==
    ASSUME NEW row \in Rows, NEW c
    PROVE  Retire(row, c) \in Rows
BY DEF Retire, Rows

LEMMA CommitDisableInv ==
    ASSUME RequestInv, NEW r \in Slots, CommitDisable(r)
    PROVE  RequestInv'
<1>1. TargetOf(req[r]) /\ req[r].pc = "commit" /\ req[r].kind = "disable"
  BY DEF RequestInv, Targets, CommitDisable
<1>2. req[r].cred \in Creds
  BY <1>1 DEF TargetOf
<1>3. cred' \in [Creds -> Rows]
  BY <1>2, RetireIsTyped DEF RequestInv, TypeOK, CommitDisable
<1>4. env' \in [Variants -> [cred : Creds \cup {None}, active : BOOLEAN]]
  BY DEF RequestInv, TypeOK, CommitDisable
<1>5. binding' \in [Bindings -> [cred : Creds, variant : Variants] \cup {None}]
  BY DEF RequestInv, TypeOK, CommitDisable
<1>6. TypeOK'
  BY <1>3, <1>4, <1>5, ReleaseIsTyped, FinishIsTyped DEF RequestInv, TypeOK, CommitDisable
<1> QED BY <1>6, EndInv DEF CommitDisable

\* The row that is locked next comes before those still to lock and after those locked.
LEMMA LockNextInv ==
    ASSUME RequestInv, NEW r \in Slots, LockNext(r)
    PROVE  RequestInv'
<1>1. PICK d \in NextRow(req[r].todo) :
          /\ lockOf[d] = None
          /\ lockOf' = [lockOf EXCEPT ![d] = r]
          /\ req' = [req EXCEPT ![r].todo = @ \ {d}]
  BY DEF LockNext, RowFree
<1> DEFINE q == [req[r] EXCEPT !.todo = @ \ {d}]
<1>2. req[r] \in Requests /\ TargetOf(req[r]) /\ req[r].pc = "locking" /\ req[r].kind = "remove"
  BY DEF RequestInv, TypeOK, Targets, TargetOf, LockNext
<1>3. q \in Requests /\ q.pc = "locking" /\ q.kind = "remove" /\ q.todo = req[r].todo \ {d}
      /\ req[r].todo \subseteq Creds
  BY <1>2 DEF Requests
<1>4. req' = [req EXCEPT ![r] = q]
  BY <1>1
<1> HIDE DEF q
<1>5. TargetOf(q)
  BY <1>3 DEF TargetOf
<1>6. d \in Creds /\ \A e \in req[r].todo : d <= e
  BY <1>1, <1>3 DEF NextRow
<1>7. \A c \in Creds : lockOf'[c] = IF c = d THEN r ELSE lockOf[c]
  BY <1>1 DEF RequestInv, TypeOK
<1>8. lockOf' \in [Creds -> Slots \cup {None}]
  BY <1>1 DEF RequestInv, TypeOK
<1>9. TypeOK'
  BY <1>3, <1>4, <1>8, RequestIsTyped DEF RequestInv, TypeOK, LockNext, rows
<1>10. \A c \in Creds, e \in q.todo : lockOf'[c] = r => c < e
  <2> SUFFICES ASSUME NEW c \in Creds, NEW e \in q.todo, lockOf'[c] = r PROVE c < e
    OBVIOUS
  <2>1. e \in req[r].todo /\ e # d /\ e \in Creds /\ d <= e
    BY <1>3, <1>6
  <2>2. CASE c = d
    BY <1>6, <2>1, <2>2, CredsAreNat
  <2>3. CASE c # d
    BY <1>2, <1>7, <2>1, <2>3 DEF RequestInv, LocksAscend
  <2> QED BY <2>2, <2>3
<1>11. \A c \in Creds : \/ lockOf'[c] = lockOf[c]
                        \/ lockOf[c] \in {r, None} /\ lockOf'[c] \in {r, None}
  BY <1>1, <1>7
<1>12. q.pc # "commit" /\ q.pc \in {"locking", "envelopes", "commit"}
  BY <1>3
<1> QED BY <1>3, <1>4, <1>5, <1>9, <1>10, <1>11, <1>12, RequestMoves

LEMMA ReadAgainInv ==
    ASSUME RequestInv, NEW r \in Slots, ReadAgain(r)
    PROVE  RequestInv'
<1> DEFINE q == [req[r] EXCEPT !.pc = "envelopes", !.seen = VaultCredentials]
<1>1. req[r] \in Requests /\ TargetOf(req[r]) /\ req[r].pc = "locking"
  BY DEF RequestInv, TypeOK, Targets, ReadAgain
<1>2. q \in Requests /\ q.pc = "envelopes" /\ q.kind = "remove"
  BY <1>1 DEF Requests, TargetOf, VaultCredentials
<1>3. req' = [req EXCEPT ![r] = q] /\ UNCHANGED lockOf
  BY DEF ReadAgain
<1> HIDE DEF q
<1>4. TargetOf(q) /\ q.pc # "locking" /\ q.pc # "commit"
  BY <1>2 DEF TargetOf
<1>5. TypeOK'
  BY <1>2, <1>3, RequestIsTyped DEF RequestInv, TypeOK, ReadAgain, rows
<1> QED BY <1>2, <1>3, <1>4, <1>5, RequestMoves

LEMMA ReadEnvelopesInv ==
    ASSUME RequestInv, NEW r \in Slots, ReadEnvelopes(r)
    PROVE  RequestInv'
<1> DEFINE q == [req[r] EXCEPT !.pc = "commit", !.seenEnv = EnvelopesToRevoke(r)]
<1>1. req[r] \in Requests /\ TargetOf(req[r]) /\ req[r].pc = "envelopes"
  BY DEF RequestInv, TypeOK, Targets, ReadEnvelopes
<1>2. CASE Finish(r) /\ Release(r)
  <2>1. TypeOK'
    BY <1>2, FinishIsTyped, ReleaseIsTyped DEF RequestInv, TypeOK, ReadEnvelopes, rows
  <2> QED BY <1>2, <2>1, EndInv
<1>3. CASE ~(Finish(r) /\ Release(r))
  <2>1. q \in Requests /\ q.pc = "commit" /\ q.kind = "remove"
    BY <1>1 DEF Requests, TargetOf, EnvelopesToRevoke
  <2>2. req' = [req EXCEPT ![r] = q] /\ UNCHANGED lockOf
    BY <1>3 DEF ReadEnvelopes
  <2> HIDE DEF q
  <2>3. TargetOf(q)
    BY <2>1 DEF TargetOf
  <2>4. TypeOK'
    BY <2>1, <2>2, RequestIsTyped DEF RequestInv, TypeOK, ReadEnvelopes, rows
  <2> QED BY <2>1, <2>2, <2>3, <2>4, RequestMoves
<1> QED BY <1>2, <1>3

LEMMA UpdateRowInv ==
    ASSUME RequestInv, NEW r \in Slots, UpdateRow(r)
    PROVE  RequestInv'
<1>1. PICK d \in req[r].seen : lockOf[d] = None /\ lockOf' = [lockOf EXCEPT ![d] = r]
  BY DEF UpdateRow, RowFree
<1>2. req[r] \in Requests /\ TargetOf(req[r]) /\ req[r].pc = "commit" /\ req[r].kind = "remove"
  BY DEF RequestInv, TypeOK, Targets, UpdateRow
<1>3. UNCHANGED <<cred, env, binding, challenge, req, device, late>>
  BY DEF UpdateRow, rows
<1>4. req' = [req EXCEPT ![r] = req[r]]
  BY <1>3 DEF RequestInv, TypeOK
<1>5. \A c \in Creds : lockOf'[c] = IF c = d THEN r ELSE lockOf[c]
  BY <1>1 DEF RequestInv, TypeOK
<1>6. lockOf' \in [Creds -> Slots \cup {None}]
  BY <1>1 DEF RequestInv, TypeOK
<1>7. TypeOK'
  BY <1>3, <1>6 DEF RequestInv, TypeOK
<1>8. \A c \in Creds : \/ lockOf'[c] = lockOf[c]
                       \/ lockOf[c] \in {r, None} /\ lockOf'[c] \in {r, None}
  BY <1>1, <1>5
<1> QED BY <1>2, <1>4, <1>7, <1>8, RequestMoves

LEMMA CommitRemovalInv ==
    ASSUME RequestInv, NEW r \in Slots, CommitRemoval(r)
    PROVE  RequestInv'
<1>1. cred' \in [Creds -> Rows]
  BY RetireIsTyped DEF RequestInv, TypeOK, CommitRemoval
<1>2. env' \in [Variants -> [cred : Creds \cup {None}, active : BOOLEAN]]
  BY DEF RequestInv, TypeOK, CommitRemoval
<1>3. binding' \in [Bindings -> [cred : Creds, variant : Variants] \cup {None}]
  BY DEF CommitRemoval
<1>4. TypeOK'
  BY <1>1, <1>2, <1>3, FinishIsTyped, ReleaseIsTyped DEF RequestInv, TypeOK, CommitRemoval
<1> QED BY <1>4, EndInv DEF CommitRemoval

LEMMA CrashInv ==
    ASSUME RequestInv, NEW r \in Slots, Crash(r)
    PROVE  RequestInv'
<1>1. TypeOK'
  BY FinishIsTyped, ReleaseIsTyped DEF RequestInv, TypeOK, Crash, rows
<1> QED BY <1>1, EndInv DEF Crash

-----------------------------------------------------------------------------
LEMMA RequestInit == Init => RequestInv
<1> SUFFICES ASSUME Init PROVE RequestInv
  OBVIOUS
<1>1. TypeOK
  BY PasskeyAssumption, NoCredIsRow, IdleIsRequest DEF Init, TypeOK
<1>2. \A r \in Slots : req[r] = Idle
  BY DEF Init
<1>3. Targets /\ LocksAscend
  BY <1>2, IdleIsRequest DEF Targets, LocksAscend
<1>4. LocksAreHeld
  BY DEF Init, LocksAreHeld
<1> QED BY <1>1, <1>3, <1>4 DEF RequestInv

LEMMA RequestStep == RequestInv /\ [Next]_vars => RequestInv'
<1> SUFFICES ASSUME RequestInv, [Next]_vars PROVE RequestInv'
  OBVIOUS
<1>1. CASE UNCHANGED vars
  <2>1. TypeOK'
    BY <1>1 DEF RequestInv, TypeOK, vars
  <2> QED BY <1>1, <2>1, RequestsStay DEF vars
<1>2. ASSUME NEW c \in Creds, RegisterCredential(c) \/ EnrollOptions(c) \/ LoginCandidates(c)
      PROVE  RequestInv'
  BY <1>2, RegisterCredentialInv, OptionsInv
<1>3. ASSUME UnlockOptions PROVE RequestInv'
  <2>1. PICK c \in Creds : Live(c)
    BY <1>3 DEF UnlockOptions
  <2> QED BY <1>3, OptionsInv
<1>4. ASSUME NEW t \in Tokens, Expire(t) PROVE RequestInv'
  <2>1. ChallengesTyped'
    BY <1>4, ConsumedIsTyped DEF RequestInv, Expire
  <2>2. TypeOK'
    BY <1>4, <2>1 DEF RequestInv, TypeOK, ChallengesTyped, Expire, rows
  <2> QED BY <1>4, <2>2, RequestsStay DEF Expire
<1>5. ASSUME NEW b \in Bindings, Unbind(b) PROVE RequestInv'
  BY <1>5, UnbindInv
<1>6. ASSUME NEW r \in Slots, Send(r) PROVE RequestInv'
  <2>1. CASE SendRemoveAll(r)
    BY <2>1, SendRemoveAllInv
  <2>2. CASE ~SendRemoveAll(r)
    <3>1. PICK c \in Creds, t \in Tokens :
              \/ SendUnlock(r, c, t) \/ SendEnroll(r, c, t) \/ SendPersist(r, c, t)
              \/ \E v \in Variants : SendBind(r, c, t, v) \/ SendDisable(r, c, t, v)
      BY <1>6, <2>2 DEF Send
    <3> QED BY <3>1, SendUnlockInv, SendEnrollInv, SendPersistInv, SendBindInv, SendDisableInv
  <2> QED BY <2>1, <2>2
<1>7. ASSUME NEW r \in Slots, Work(r) PROVE RequestInv'
  BY <1>7, ConsumeInv, AdvanceCounterInv, IssueProofInv, LockAndReadInv, CommitPersistInv,
     CommitBindInv, CommitDisableInv, LockNextInv, ReadAgainInv, ReadEnvelopesInv,
     UpdateRowInv, CommitRemovalInv DEF Work
<1>8. ASSUME NEW r \in Slots, Crash(r) PROVE RequestInv'
  BY <1>8, CrashInv
<1> QED BY <1>1, <1>2, <1>3, <1>4, <1>5, <1>6, <1>7, <1>8 DEF Next

\* The inductive invariant of the requests and their locks.
LEMMA RequestInductive == Spec => []RequestInv
<1>1. Init => RequestInv
  BY RequestInit
<1>2. RequestInv /\ [Next]_vars => RequestInv'
  BY RequestStep
<1> QED BY <1>1, <1>2, PTL DEF Spec

-----------------------------------------------------------------------------
\* Every row, lock and request is of its type, in every order of the requests.
THEOREM TypeCorrect == Spec => []TypeOK
<1>1. RequestInv => TypeOK
  BY DEF RequestInv
<1> QED BY <1>1, RequestInductive, PTL

LEMMA AdvanceIsInOrder ==
    ASSUME RequestInv, NEW r \in Slots, AdvanceCounter(r), NEW c \in Creds
    PROVE  /\ cred'[c].rev # cred[c].rev => cred'[c].rev = cred[c].rev + 1
           /\ cred'[c].counter >= cred[c].counter
           /\ cred'[c].rev = cred[c].rev => cred'[c].counter = cred[c].counter
           /\ cred'[c].rev # cred[c].rev /\ c \in Counting => cred'[c].counter > cred[c].counter
<1>1. cred[c] \in Rows /\ cred[c].counter \in Nat /\ cred[c].rev \in Nat
  BY PasskeyAssumption DEF RequestInv, TypeOK, Rows
<1>2. req[r].signed \in Nat /\ TargetOf(req[r]) /\ req[r].pc = "advance"
  BY DEF RequestInv, TypeOK, Requests, Targets, AdvanceCounter
<1>3. CASE AcceptedNow(r) /\ c = req[r].cred
  <2>1. cred'[c] = [cred[c] EXCEPT !.counter = req[r].signed, !.rev = @ + 1]
    BY <1>3 DEF RequestInv, TypeOK, AdvanceCounter
  <2>2. cred'[c].counter = req[r].signed /\ cred'[c].rev = cred[c].rev + 1
    BY <1>1, <2>1 DEF Rows
  <2>3. \/ cred[c].counter = 0 /\ req[r].signed = 0
        \/ req[r].signed > cred[c].counter
    BY <1>3 DEF AcceptedNow, CounterPlan
  <2>4. c \in Counting => req[r].signed >= 1
    BY <1>2, <1>3 DEF TargetOf
  <2> QED BY <1>1, <1>2, <2>2, <2>3, <2>4
<1>4. CASE ~(AcceptedNow(r) /\ c = req[r].cred)
  <2>1. cred'[c] = cred[c]
    BY <1>4 DEF RequestInv, TypeOK, AdvanceCounter
  <2> QED BY <1>1, <2>1
<1> QED BY <1>3, <1>4

\* Nothing else touches a counter or a revision.
LEMMA OthersKeepCounters ==
    ASSUME RequestInv, [Next]_vars, ~\E r \in Slots : AdvanceCounter(r), NEW c \in Creds
    PROVE  cred'[c].counter = cred[c].counter /\ cred'[c].rev = cred[c].rev
<1>1. cred[c] \in Rows
  BY DEF RequestInv, TypeOK
<1>2. \A row \in Rows : \A d : Retire(row, d).counter = row.counter /\ Retire(row, d).rev = row.rev
  BY DEF Retire, Rows
<1>3. CASE UNCHANGED cred
  BY <1>3
<1>4. ASSUME NEW d \in Creds, RegisterCredential(d)
      PROVE  cred'[c].counter = cred[c].counter /\ cred'[c].rev = cred[c].rev
  BY <1>1, <1>4 DEF RequestInv, TypeOK, Rows, RegisterCredential
<1>5. ASSUME NEW r \in Slots, CommitPersist(r)
      PROVE  cred'[c].counter = cred[c].counter /\ cred'[c].rev = cred[c].rev
  BY <1>1, <1>5 DEF RequestInv, TypeOK, Rows, CommitPersist
<1>6. ASSUME NEW r \in Slots, CommitDisable(r)
      PROVE  cred'[c].counter = cred[c].counter /\ cred'[c].rev = cred[c].rev
  <2>1. cred'[c] = cred[c] \/ cred'[c] = Retire(cred[c], c)
    BY <1>6 DEF RequestInv, TypeOK, CommitDisable
  <2> QED BY <1>1, <1>2, <2>1
<1>7. ASSUME NEW r \in Slots, CommitRemoval(r)
      PROVE  cred'[c].counter = cred[c].counter /\ cred'[c].rev = cred[c].rev
  <2>1. cred'[c] = cred[c] \/ cred'[c] = Retire(cred[c], c)
    BY <1>7 DEF CommitRemoval
  <2> QED BY <1>1, <1>2, <2>1
<1>8. ASSUME NEW r \in Slots, Send(r) PROVE UNCHANGED cred
  BY <1>8 DEF Send, SendRemoveAll, SendUnlock, SendEnroll, SendPersist, SendBind, SendDisable, rows
<1>9. ASSUME NEW r \in Slots, Work(r)
      PROVE  UNCHANGED cred \/ CommitPersist(r) \/ CommitDisable(r) \/ CommitRemoval(r)
  BY <1>9 DEF Work, Consume, IssueProof, LockAndRead, CommitBind, LockNext, ReadAgain, UpdateRow,
     ReadEnvelopes, rows
<1>10. CASE Next
  <2>1. ASSUME NEW d \in Creds, EnrollOptions(d) \/ LoginCandidates(d) PROVE UNCHANGED cred
    BY <2>1 DEF EnrollOptions, LoginCandidates
  <2>2. ASSUME UnlockOptions \/ (\E t \in Tokens : Expire(t)) \/ (\E b \in Bindings : Unbind(b))
        PROVE  UNCHANGED cred
    BY <2>2 DEF UnlockOptions, Expire, Unbind, rows
  <2>3. ASSUME NEW r \in Slots, Crash(r) PROVE UNCHANGED cred
    BY <2>3 DEF Crash, rows
  <2> QED BY <1>3, <1>4, <1>5, <1>6, <1>7, <1>8, <1>9, <1>10, <2>1, <2>2, <2>3 DEF Next
<1>11. CASE UNCHANGED vars
  BY <1>11 DEF vars
<1> QED BY <1>10, <1>11

\* No assertion is accepted twice against one stored counter: the compare-and-set moves the
\* revision by one, and the counter of a counting authenticator up, whatever overlaps.
THEOREM AssertionsAreAcceptedInOrder == Spec => AssertionsInOrder
<1> DEFINE InOrder ==
        \A c \in Creds :
          /\ cred'[c].rev # cred[c].rev => cred'[c].rev = cred[c].rev + 1
          /\ cred'[c].counter >= cred[c].counter
          /\ cred'[c].rev = cred[c].rev => cred'[c].counter = cred[c].counter
          /\ cred'[c].rev # cred[c].rev /\ c \in Counting =>
                 cred'[c].counter > cred[c].counter
<1>1. RequestInv /\ [Next]_vars => [InOrder]_vars
  <2> SUFFICES ASSUME RequestInv, [Next]_vars PROVE InOrder
    OBVIOUS
  <2>1. CASE \E r \in Slots : AdvanceCounter(r)
    BY <2>1, AdvanceIsInOrder
  <2>2. CASE ~\E r \in Slots : AdvanceCounter(r)
    <3>1. \A c \in Creds : cred'[c].counter = cred[c].counter /\ cred'[c].rev = cred[c].rev
      BY <2>2, OthersKeepCounters
    <3>2. \A c \in Creds : cred[c].counter \in Nat
      BY DEF RequestInv, TypeOK, Rows
    <3> QED BY <3>1, <3>2
  <2> QED BY <2>1, <2>2
<1> HIDE DEF InOrder
<1>2. Spec => [][InOrder]_vars
  BY <1>1, RequestInductive, PTL DEF Spec
<1> QED BY <1>2 DEF InOrder, AssertionsInOrder

-----------------------------------------------------------------------------
(* What credentials, variants and bindings say of each other               *)

\* What a request in flight may rely on.
About(r) ==
    LET q == req[r] IN
    /\ q.pc # "idle" /\ q.kind # "remove" => cred[q.cred].state # "absent"
    /\ q.pc # "idle" /\ q.kind = "bind" =>
           /\ env[q.variant].cred = q.cred
           /\ q.cred \in late \/ Live(q.cred) \/ ~env[q.variant].active
    /\ q.pc = "commit" /\ q.kind = "bind" => q.cred \in late \/ env[q.variant].active
    /\ q.pc = "commit" /\ q.kind = "persist" => Cardinality(Active(q.cred)) < MaxVariants
    /\ q.kind = "remove" => \A c \in Creds \ late : Live(c) =>
           /\ q.pc = "locking" => c \in q.todo \/ lockOf[c] = r
           /\ q.pc \in {"envelopes", "commit"} => lockOf[c] = r /\ (c \in q.seen <=> cred[c].vault)
           /\ q.pc = "commit" => Active(c) \subseteq q.seenEnv

\* Nothing belongs to a credential that does not exist.
RowsExist ==
    /\ \A v \in Variants : env[v].active => env[v].cred \in Creds
    /\ \A c \in Creds : cred[c].state = "absent" =>
           ~cred[c].vault /\ \A v \in Variants : env[v].cred # c

AgreeInv == RequestInv /\ RowsExist /\ PasskeyRowsAgree /\ \A r \in Slots : About(r)

\* A step of another request leaves alone what a request relies on, if it keeps off the
\* rows that this one has locked and brings no variant back.
LEMMA OthersStay ==
    ASSUME RequestInv, NEW s \in Slots, About(s), req'[s] = req[s], late \subseteq late',
           \A c \in Creds : lockOf[c] = s => lockOf'[c] = s,
           \A c \in Creds : cred[c].state # "absent" => cred'[c].state # "absent",
           \A c \in Creds : req[s].kind = "remove" /\ c \notin late' /\ Live(c)' => Live(c),
           \A v \in Variants : env[v].cred # None =>
               env'[v].cred = env[v].cred /\ (env'[v].active => env[v].active),
           \A c \in Creds : lockOf[c] = s => Active(c)' \subseteq Active(c),
           \A c \in Creds : lockOf[c] = s /\ c \notin late' /\ Live(c)' =>
               cred'[c].vault = cred[c].vault,
           \A c \in Creds, v \in Variants :
               env[v].cred = c /\ c \notin late' /\ Live(c) /\ ~Live(c)' => ~env'[v].active,
           \A c \in Creds, v \in Variants :
               env[v].cred = c /\ c \notin late' /\ Live(c) /\ lockOf[c] = s /\ env[v].active =>
               env'[v].active
    PROVE  About(s)'
<1> DEFINE q == req[s]
<1>1. TargetOf(q) /\ (q.pc = "commit" /\ q.kind # "remove" => lockOf[q.cred] = s)
  BY DEF RequestInv, Targets
<1>2. q.pc # "idle" /\ q.kind # "remove" => q.cred \in Creds /\ q.cred # None
  BY <1>1, PasskeyAssumption DEF TargetOf
<1>3. q.pc # "idle" /\ q.kind = "bind" => q.variant \in Variants
  BY <1>1 DEF TargetOf
<1>4. q.pc # "idle" /\ q.kind # "remove" => cred'[q.cred].state # "absent"
  BY <1>2 DEF About
<1>5. ASSUME q.pc # "idle", q.kind = "bind"
      PROVE  /\ env'[q.variant].cred = q.cred
             /\ q.cred \in late' \/ Live(q.cred)' \/ ~env'[q.variant].active
  BY <1>2, <1>3, <1>5 DEF About
<1>6. ASSUME q.pc = "commit", q.kind = "bind"
      PROVE  q.cred \in late' \/ env'[q.variant].active
  <2>1. lockOf[q.cred] = s /\ env[q.variant].cred = q.cred
    BY <1>1, <1>6 DEF About
  <2>2. q.cred \in late \/ (env[q.variant].active /\ Live(q.cred))
    BY <1>6 DEF About
  <2> QED BY <1>2, <1>3, <1>6, <2>1, <2>2
<1>7. ASSUME q.pc = "commit", q.kind = "persist"
      PROVE  Cardinality(Active(q.cred)') < MaxVariants
  <2>1. Active(q.cred)' \subseteq Active(q.cred) /\ Cardinality(Active(q.cred)) < MaxVariants
    BY <1>1, <1>2, <1>7 DEF About
  <2>2. IsFiniteSet(Active(q.cred))
    BY PasskeyAssumption, FS_Subset DEF Active
  <2>3. Cardinality(Active(q.cred)') <= Cardinality(Active(q.cred))
        /\ Cardinality(Active(q.cred)') \in Nat /\ Cardinality(Active(q.cred)) \in Nat
    BY <2>1, <2>2, FS_Subset, FS_CardinalityType
  <2> QED BY <2>1, <2>3, PasskeyAssumption
<1>8. ASSUME q.kind = "remove", NEW c \in Creds, c \notin late', Live(c)'
      PROVE  /\ q.pc = "locking" => c \in q.todo \/ lockOf'[c] = s
             /\ q.pc \in {"envelopes", "commit"} => lockOf'[c] = s /\ (c \in q.seen <=> cred'[c].vault)
             /\ q.pc = "commit" => Active(c)' \subseteq q.seenEnv
  <2>1. c \notin late /\ Live(c)
    BY <1>8
  <2> QED BY <1>8, <2>1 DEF About
<1> QED BY <1>4, <1>5, <1>6, <1>7, <1>8 DEF About

\* The rows stay, but for counters, and so does every request but r.
LEMMA RowsStay ==
    ASSUME AgreeInv, RequestInv', NEW r \in Slots, UNCHANGED <<env, binding, late>>,
           \A c \in Creds : cred'[c].state = cred[c].state /\ cred'[c].vault = cred[c].vault,
           \A s \in Slots : s # r => req'[s] = req[s],
           \A s \in Slots, c \in Creds : s # r /\ lockOf[c] = s => lockOf'[c] = s,
           About(r)'
    PROVE  AgreeInv'
<1>1. RowsExist'
  BY DEF AgreeInv, RowsExist
<1>2. \A c \in Creds : (Live(c)' <=> Live(c)) /\ Active(c)' = Active(c)
  BY DEF Live, Active
<1>3. VariantsFitTheCandidateSet' /\ FlagMeansVariants'
  BY <1>2 DEF AgreeInv, PasskeyRowsAgree, VariantsFitTheCandidateSet, FlagMeansVariants
<1>4. BindingsRouteToActiveVariants'
  <2> SUFFICES ASSUME NEW b \in Bindings, binding[b] # None, binding[b].cred \notin late
               PROVE  /\ cred'[binding[b].cred].state = "live" /\ cred'[binding[b].cred].vault
                      /\ binding[b].variant \in Active(binding[b].cred)
    BY DEF BindingsRouteToActiveVariants, Live, Active
  <2>1. binding[b].cred \in Creds
    BY DEF AgreeInv, RequestInv, TypeOK
  <2> QED BY <2>1 DEF AgreeInv, PasskeyRowsAgree, BindingsRouteToActiveVariants, Live
<1>5. ASSUME NEW s \in Slots, s # r PROVE About(s)'
  BY <1>2, <1>5, OthersStay DEF AgreeInv
<1>6. \A s \in Slots : About(s)'
  BY <1>5
<1> QED BY <1>1, <1>3, <1>4, <1>6 DEF AgreeInv, PasskeyRowsAgree

LEMMA NothingMoves ==
    ASSUME AgreeInv, RequestInv', UNCHANGED <<cred, env, binding, late, req, lockOf>>
    PROVE  AgreeInv'
<1>1. RowsExist'
  BY DEF AgreeInv, RowsExist
<1>2. PasskeyRowsAgree'
  BY DEF AgreeInv, PasskeyRowsAgree, VariantsFitTheCandidateSet, BindingsRouteToActiveVariants,
     FlagMeansVariants, Live, Active
<1>3. ASSUME NEW s \in Slots PROVE About(s)'
  BY DEF AgreeInv, About, Live, Active
<1> QED BY <1>1, <1>2, <1>3 DEF AgreeInv

LEMMA IdleIsAboutNothing ==
    ASSUME RequestInv, NEW r \in Slots, Finish(r)
    PROVE  About(r)'
<1>1. req'[r] = Idle
  BY DEF RequestInv, TypeOK, Finish
<1>2. Idle.pc = "idle" /\ Idle.kind # "remove"
  BY PasskeyAssumption DEF Idle, Kinds
<1> QED BY <1>1, <1>2 DEF About

LEMMA EndAgree ==
    ASSUME AgreeInv, RequestInv', NEW r \in Slots, Finish(r), UNCHANGED lockOf \/ Release(r),
           UNCHANGED <<cred, env, binding, late>>
    PROVE  AgreeInv'
<1>1. \A s \in Slots : s # r => req'[s] = req[s]
  BY DEF AgreeInv, RequestInv, TypeOK, Finish
<1>2. \A s \in Slots, c \in Creds : s # r /\ lockOf[c] = s => lockOf'[c] = s
  BY DEF Release
<1>3. About(r)'
  BY IdleIsAboutNothing DEF AgreeInv
<1> QED BY <1>1, <1>2, <1>3, RowsStay

LEMMA StartAgree ==
    ASSUME AgreeInv, RequestInv', NEW r \in Slots, NEW q, Start(r, q), UNCHANGED lockOf,
           UNCHANGED <<cred, env, binding, late>>, About(r)'
    PROVE  AgreeInv'
<1>1. \A s \in Slots : s # r => req'[s] = req[s]
  BY DEF AgreeInv, RequestInv, TypeOK, Start
<1> QED BY <1>1, RowsStay

LEMMA SendUnlockAgree ==
    ASSUME AgreeInv, NEW r \in Slots, NEW c \in Creds, NEW t \in Tokens, SendUnlock(r, c, t)
    PROVE  AgreeInv'
<1> DEFINE q == [Idle EXCEPT !.kind = "unlock", !.pc = "advance", !.cred = c,
                             !.read = cred[c], !.signed = Signed(c)]
<1>1. RequestInv'
  BY SendUnlockInv DEF AgreeInv
<1>2. CASE Live(c)
  <2>1. q.kind = "unlock" /\ q.pc = "advance" /\ q.cred = c /\ Start(r, q)
    BY <1>2 DEF Idle, SendUnlock
  <2> HIDE DEF q
  <2>2. req'[r] = q
    BY <2>1 DEF AgreeInv, RequestInv, TypeOK, Start
  <2>3. cred'[c].state # "absent"
    BY DEF SendUnlock, rows
  <2>4. About(r)'
    BY <2>1, <2>2, <2>3 DEF About
  <2> QED BY <1>1, <2>1, <2>4, StartAgree DEF SendUnlock, rows
<1>3. CASE ~Live(c)
  BY <1>1, <1>3, NothingMoves DEF SendUnlock, rows
<1> QED BY <1>2, <1>3

LEMMA SendEnrollAgree ==
    ASSUME AgreeInv, NEW r \in Slots, NEW c \in Creds, NEW t \in Tokens, SendEnroll(r, c, t)
    PROVE  AgreeInv'
<1> DEFINE q == [Idle EXCEPT !.kind = "enroll", !.pc = "consume", !.cred = c, !.token = t,
                             !.read = cred[c], !.signed = Signed(c)]
<1>1. q.kind = "enroll" /\ q.pc = "consume" /\ q.cred = c /\ Start(r, q)
  BY DEF Idle, SendEnroll
<1> HIDE DEF q
<1>2. req'[r] = q
  BY <1>1 DEF AgreeInv, RequestInv, TypeOK, Start
<1>3. cred'[c].state # "absent"
  BY DEF SendEnroll, rows, Live
<1>4. About(r)'
  BY <1>1, <1>2, <1>3 DEF About
<1> QED BY <1>1, <1>4, StartAgree, SendEnrollInv DEF SendEnroll, rows, AgreeInv

LEMMA SendPersistAgree ==
    ASSUME AgreeInv, NEW r \in Slots, NEW c \in Creds, NEW t \in Tokens, SendPersist(r, c, t)
    PROVE  AgreeInv'
<1> DEFINE q == [Idle EXCEPT !.kind = "persist", !.pc = "consume", !.cred = c, !.token = t]
<1>1. q.kind = "persist" /\ q.pc = "consume" /\ q.cred = c /\ Start(r, q)
  BY DEF Idle, SendPersist
<1> HIDE DEF q
<1>2. req'[r] = q
  BY <1>1 DEF AgreeInv, RequestInv, TypeOK, Start
<1>3. cred'[c].state # "absent"
  BY DEF SendPersist, rows, Live
<1>4. About(r)'
  BY <1>1, <1>2, <1>3 DEF About
<1> QED BY <1>1, <1>4, StartAgree, SendPersistInv DEF SendPersist, rows, AgreeInv

LEMMA SendBindAgree ==
    ASSUME AgreeInv, NEW r \in Slots, NEW c \in Creds, NEW t \in Tokens, NEW v \in Variants,
           SendBind(r, c, t, v)
    PROVE  AgreeInv'
<1> DEFINE q == [Idle EXCEPT !.kind = "bind", !.pc = "consume", !.cred = c, !.token = t,
                             !.variant = v]
<1>1. q.kind = "bind" /\ q.pc = "consume" /\ q.cred = c /\ q.variant = v /\ Start(r, q)
  BY DEF Idle, SendBind
<1> HIDE DEF q
<1>2. req'[r] = q
  BY <1>1 DEF AgreeInv, RequestInv, TypeOK, Start
<1>3. cred'[c].state = "live" /\ env'[v].cred = c
  BY DEF SendBind, rows, Live
<1>4. About(r)'
  BY <1>1, <1>2, <1>3 DEF About, Live
<1> QED BY <1>1, <1>4, StartAgree, SendBindInv DEF SendBind, rows, AgreeInv

LEMMA SendDisableAgree ==
    ASSUME AgreeInv, NEW r \in Slots, NEW c \in Creds, NEW t \in Tokens, NEW v \in Variants,
           SendDisable(r, c, t, v)
    PROVE  AgreeInv'
<1> DEFINE q == [Idle EXCEPT !.kind = "disable", !.pc = "consume", !.cred = c, !.token = t,
                             !.variant = v]
<1>1. q.kind = "disable" /\ q.pc = "consume" /\ q.cred = c /\ q.variant = v /\ Start(r, q)
  BY DEF Idle, SendDisable
<1> HIDE DEF q
<1>2. req'[r] = q
  BY <1>1 DEF AgreeInv, RequestInv, TypeOK, Start
<1>3. cred'[c].state = "live" /\ env'[v].cred = c
  BY DEF SendDisable, rows, Live
<1>4. About(r)'
  BY <1>1, <1>2, <1>3 DEF About, Live
<1> QED BY <1>1, <1>4, StartAgree, SendDisableInv DEF SendDisable, rows, AgreeInv

LEMMA SendRemoveAllAgree ==
    ASSUME AgreeInv, NEW r \in Slots, SendRemoveAll(r)
    PROVE  AgreeInv'
<1> DEFINE q == [Idle EXCEPT !.kind = "remove", !.pc = "locking", !.todo = {c \in Creds : Live(c)}]
<1>1. q.kind = "remove" /\ q.pc = "locking" /\ q.todo = {c \in Creds : Live(c)} /\ Start(r, q)
  BY DEF Idle, SendRemoveAll
<1> HIDE DEF q
<1>2. req'[r] = q
  BY <1>1 DEF AgreeInv, RequestInv, TypeOK, Start
<1>3. \A c \in Creds : Live(c)' => c \in q.todo
  BY <1>1 DEF SendRemoveAll, rows, Live
<1>4. About(r)'
  BY <1>1, <1>2, <1>3 DEF About
<1> QED BY <1>1, <1>4, StartAgree, SendRemoveAllInv DEF SendRemoveAll, rows, AgreeInv

\* A request in flight moves on; its lock is the only one it may have taken.
LEMMA MoveAgree ==
    ASSUME AgreeInv, RequestInv', NEW r \in Slots, NEW q, req' = [req EXCEPT ![r] = q],
           \A s \in Slots, c \in Creds : s # r /\ lockOf[c] = s => lockOf'[c] = s,
           UNCHANGED <<cred, env, binding, late>>, About(r)'
    PROVE  AgreeInv'
<1>1. \A s \in Slots : s # r => req'[s] = req[s]
  BY DEF AgreeInv, RequestInv, TypeOK
<1> QED BY <1>1, RowsStay

LEMMA ConsumeAgree ==
    ASSUME AgreeInv, NEW r \in Slots, Consume(r)
    PROVE  AgreeInv'
<1> DEFINE q == [req[r] EXCEPT !.token = None,
                               !.pc = IF req[r].kind = "enroll" THEN "advance" ELSE "lock"]
<1>1. RequestInv' /\ UNCHANGED <<cred, env, binding, late, lockOf>>
  BY ConsumeInv DEF AgreeInv, Consume, rows
<1>2. CASE Finish(r)
  BY <1>1, <1>2, EndAgree
<1>3. CASE ~Finish(r)
  <2>1. req[r] \in Requests /\ TargetOf(req[r]) /\ req[r].pc = "consume" /\ About(r)
    BY DEF AgreeInv, RequestInv, TypeOK, Targets, Consume
  <2>2. q.pc \in {"advance", "lock"} /\ q.kind = req[r].kind /\ q.kind # "remove"
        /\ q.cred = req[r].cred /\ q.variant = req[r].variant
    BY <2>1 DEF Requests, TargetOf
  <2>3. req' = [req EXCEPT ![r] = q]
    BY <1>3 DEF Consume
  <2> HIDE DEF q
  <2>4. req'[r] = q
    BY <2>3 DEF AgreeInv, RequestInv, TypeOK
  <2>5. About(r)'
    BY <1>1, <2>1, <2>2, <2>4 DEF About, Live
  <2> QED BY <1>1, <2>3, <2>5, MoveAgree
<1> QED BY <1>2, <1>3

LEMMA LockAndReadAgree ==
    ASSUME AgreeInv, NEW r \in Slots, LockAndRead(r)
    PROVE  AgreeInv'
<1> DEFINE q == [req[r] EXCEPT !.pc = "commit"]
<1>1. RequestInv' /\ UNCHANGED <<cred, env, binding, late>>
  BY LockAndReadInv DEF AgreeInv, LockAndRead, rows
<1>2. CASE GoesOn(r)
  <2>1. req[r] \in Requests /\ TargetOf(req[r]) /\ req[r].pc = "lock" /\ About(r)
    BY DEF AgreeInv, RequestInv, TypeOK, Targets, LockAndRead
  <2>2. q.pc = "commit" /\ q.kind = req[r].kind /\ q.kind # "remove"
        /\ q.cred = req[r].cred /\ q.variant = req[r].variant
    BY <2>1 DEF Requests, TargetOf
  <2>3. req' = [req EXCEPT ![r] = q] /\ lockOf' = [lockOf EXCEPT ![req[r].cred] = r]
        /\ lockOf[req[r].cred] = None
    BY <1>2 DEF LockAndRead, Goto, RowFree
  <2>4. \A s \in Slots, c \in Creds : s # r /\ lockOf[c] = s => lockOf'[c] = s
    BY <2>3, PasskeyAssumption DEF AgreeInv, RequestInv, TypeOK
  <2> HIDE DEF q
  <2>5. req'[r] = q
    BY <2>3 DEF AgreeInv, RequestInv, TypeOK
  <2>6. q.kind = "bind" => env'[q.variant].active
    BY <1>1, <1>2, <2>2 DEF GoesOn, Active
  <2>7. q.kind = "persist" => Cardinality(Active(req[r].cred)) < MaxVariants
    BY <1>2, <2>2 DEF GoesOn
  <2>8. Active(req[r].cred) = {v \in Variants : env'[v].cred = q.cred /\ env'[v].active}
    BY <1>1, <2>2 DEF Active
  <2>9. About(r)'
    BY <1>1, <2>1, <2>2, <2>5, <2>6, <2>7, <2>8 DEF About, Live, Active
  <2> QED BY <1>1, <2>3, <2>4, <2>9, MoveAgree
<1>3. CASE ~GoesOn(r)
  BY <1>1, <1>3, EndAgree DEF LockAndRead
<1> QED BY <1>2, <1>3

LEMMA LockNextAgree ==
    ASSUME AgreeInv, NEW r \in Slots, LockNext(r)
    PROVE  AgreeInv'
<1>1. PICK d \in NextRow(req[r].todo) :
          /\ lockOf[d] = None
          /\ lockOf' = [lockOf EXCEPT ![d] = r]
          /\ req' = [req EXCEPT ![r].todo = @ \ {d}]
  BY DEF LockNext, RowFree
<1> DEFINE q == [req[r] EXCEPT !.todo = @ \ {d}]
<1>2. RequestInv' /\ UNCHANGED <<cred, env, binding, late>>
  BY LockNextInv DEF AgreeInv, LockNext, rows
<1>3. req[r] \in Requests /\ req[r].pc = "locking" /\ req[r].kind = "remove" /\ About(r)
  BY DEF AgreeInv, RequestInv, TypeOK, Targets, TargetOf, LockNext
<1>4. q.pc = "locking" /\ q.kind = "remove" /\ q.todo = req[r].todo \ {d}
  BY <1>3 DEF Requests
<1>5. req' = [req EXCEPT ![r] = q]
  BY <1>1
<1> HIDE DEF q
<1>6. req'[r] = q
  BY <1>5 DEF AgreeInv, RequestInv, TypeOK
<1>7. \A c \in Creds : lockOf'[c] = IF c = d THEN r ELSE lockOf[c]
  BY <1>1 DEF AgreeInv, RequestInv, TypeOK
<1>8. \A c \in Creds : c \notin late /\ cred[c].state = "live" => c \in q.todo \/ lockOf'[c] = r
  BY <1>3, <1>4, <1>7 DEF About, Live
<1>9. About(r)'
  BY <1>2, <1>4, <1>6, <1>8 DEF About, Live
<1>10. \A s \in Slots, c \in Creds : s # r /\ lockOf[c] = s => lockOf'[c] = s
  BY <1>1, <1>7, PasskeyAssumption
<1> QED BY <1>2, <1>5, <1>9, <1>10, MoveAgree

LEMMA ReadAgainAgree ==
    ASSUME AgreeInv, NEW r \in Slots, ReadAgain(r)
    PROVE  AgreeInv'
<1> DEFINE q == [req[r] EXCEPT !.pc = "envelopes", !.seen = VaultCredentials]
<1>1. RequestInv' /\ UNCHANGED <<cred, env, binding, late, lockOf>>
  BY ReadAgainInv DEF AgreeInv, ReadAgain, rows
<1>2. req[r] \in Requests /\ req[r].kind = "remove" /\ About(r)
      /\ req[r].pc = "locking" /\ req[r].todo = {}
  BY DEF AgreeInv, RequestInv, TypeOK, Targets, TargetOf, ReadAgain
<1>3. q.pc = "envelopes" /\ q.kind = "remove" /\ q.seen = VaultCredentials
  BY <1>2 DEF Requests
<1>4. req' = [req EXCEPT ![r] = q]
  BY DEF ReadAgain
<1> HIDE DEF q
<1>5. req'[r] = q
  BY <1>4 DEF AgreeInv, RequestInv, TypeOK
<1>6. \A c \in Creds : c \notin late /\ cred[c].state = "live" =>
          lockOf[c] = r /\ (c \in q.seen <=> cred[c].vault)
  BY <1>2, <1>3 DEF About, Live, VaultCredentials
<1>7. About(r)'
  BY <1>1, <1>3, <1>5, <1>6 DEF About, Live
<1> QED BY <1>1, <1>4, <1>7, MoveAgree

LEMMA ReadEnvelopesAgree ==
    ASSUME AgreeInv, NEW r \in Slots, ReadEnvelopes(r)
    PROVE  AgreeInv'
<1> DEFINE q == [req[r] EXCEPT !.pc = "commit", !.seenEnv = EnvelopesToRevoke(r)]
<1>1. RequestInv' /\ UNCHANGED <<cred, env, binding, late>>
  BY ReadEnvelopesInv DEF AgreeInv, ReadEnvelopes, rows
<1>2. CASE Finish(r) /\ Release(r)
  BY <1>1, <1>2, EndAgree
<1>3. CASE ~(Finish(r) /\ Release(r))
  <2>1. req[r] \in Requests /\ req[r].kind = "remove" /\ About(r) /\ req[r].pc = "envelopes"
    BY DEF AgreeInv, RequestInv, TypeOK, Targets, TargetOf, ReadEnvelopes
  <2>2. q.pc = "commit" /\ q.kind = "remove" /\ q.seen = req[r].seen
        /\ q.seenEnv = EnvelopesToRevoke(r)
    BY <2>1 DEF Requests
  <2>3. req' = [req EXCEPT ![r] = q] /\ UNCHANGED lockOf
    BY <1>3 DEF ReadEnvelopes
  <2> HIDE DEF q
  <2>4. req'[r] = q
    BY <2>3 DEF AgreeInv, RequestInv, TypeOK
  <2>5. \A c \in Creds : {v \in Variants : env'[v].cred = c /\ env'[v].active} \subseteq q.seenEnv
    BY <1>1, <2>2 DEF EnvelopesToRevoke
  <2>6. About(r)'
    BY <1>1, <2>1, <2>2, <2>3, <2>4, <2>5 DEF About, Live, Active
  <2> QED BY <1>1, <2>3, <2>6, MoveAgree
<1> QED BY <1>2, <1>3

LEMMA UpdateRowAgree ==
    ASSUME AgreeInv, NEW r \in Slots, UpdateRow(r)
    PROVE  AgreeInv'
<1>1. RequestInv' /\ UNCHANGED <<cred, env, binding, late, req>>
  BY UpdateRowInv DEF AgreeInv, UpdateRow, rows
<1>2. req[r].kind = "remove" /\ req[r].pc = "commit" /\ About(r)
  BY DEF AgreeInv, UpdateRow
<1>3. \A s \in Slots, c \in Creds : lockOf[c] = s => lockOf'[c] = s
  BY PasskeyAssumption DEF AgreeInv, RequestInv, TypeOK, UpdateRow, RowFree
<1>4. About(r)'
  BY <1>1, <1>2, <1>3 DEF About, Live, Active
<1> QED BY <1>1, <1>3, <1>4, RowsStay

LEMMA IssueProofAgree ==
    ASSUME AgreeInv, NEW r \in Slots, IssueProof(r)
    PROVE  AgreeInv'
BY EndAgree, IssueProofInv DEF AgreeInv, IssueProof, rows

LEMMA CrashAgree ==
    ASSUME AgreeInv, NEW r \in Slots, Crash(r)
    PROVE  AgreeInv'
BY EndAgree, CrashInv DEF AgreeInv, Crash, rows

LEMMA AdvanceCounterAgree ==
    ASSUME AgreeInv, NEW r \in Slots, AdvanceCounter(r)
    PROVE  AgreeInv'
<1> DEFINE q == [req[r] EXCEPT !.pc = "issue", !.signed = 0,
                               !.read = [NoCred EXCEPT !.vault = @ \/ req[r].read.vault]]
           d == req[r].cred
<1>1. RequestInv' /\ UNCHANGED <<env, binding, late, lockOf>>
  BY AdvanceCounterInv DEF AgreeInv, AdvanceCounter
<1>2. CASE AcceptedNow(r)
  <2>1. req[r] \in Requests /\ TargetOf(req[r]) /\ req[r].pc = "advance" /\ About(r)
    BY DEF AgreeInv, RequestInv, TypeOK, Targets, AdvanceCounter
  <2>2. q.pc = "issue" /\ q.kind = req[r].kind /\ q.kind \in {"unlock", "enroll"} /\ q.cred = req[r].cred
    BY <2>1 DEF Requests, TargetOf
  <2>3. req' = [req EXCEPT ![r] = q]
    BY <1>2 DEF AdvanceCounter
  <2>4. \A c \in Creds : cred'[c].state = cred[c].state /\ cred'[c].vault = cred[c].vault
    <3>1. \A c \in Creds : cred[c] \in Rows
      BY DEF AgreeInv, RequestInv, TypeOK
    <3>2. cred' = [cred EXCEPT ![d].counter = req[r].signed, ![d].rev = @ + 1]
      BY <1>2 DEF AdvanceCounter
    <3> QED BY <3>1, <3>2 DEF AgreeInv, RequestInv, TypeOK, Rows
  <2> HIDE DEF q
  <2>5. req'[r] = q /\ \A s \in Slots : s # r => req'[s] = req[s]
    BY <2>3 DEF AgreeInv, RequestInv, TypeOK
  <2>6. d \in Creds /\ cred[d].state # "absent"
    BY <2>1 DEF TargetOf, About
  <2>7. About(r)'
    BY <2>2, <2>4, <2>5, <2>6 DEF About
  <2> QED BY <1>1, <2>4, <2>5, <2>7, RowsStay
<1>3. CASE ~AcceptedNow(r)
  BY <1>1, <1>3, EndAgree DEF AdvanceCounter
<1> QED BY <1>2, <1>3

LEMMA UnbindAgree ==
    ASSUME AgreeInv, NEW b \in Bindings, Unbind(b)
    PROVE  AgreeInv'
<1>1. RequestInv' /\ UNCHANGED <<cred, env, late, req, lockOf>>
  BY UnbindInv DEF AgreeInv, Unbind
<1>2. RowsExist' /\ \A s \in Slots : About(s)'
  BY <1>1 DEF AgreeInv, RowsExist, About, Live, Active
<1>3. VariantsFitTheCandidateSet' /\ FlagMeansVariants'
  BY <1>1 DEF AgreeInv, PasskeyRowsAgree, VariantsFitTheCandidateSet, FlagMeansVariants, Live, Active
<1>4. \A a \in Bindings : binding'[a] # None => binding'[a] = binding[a]
  BY DEF AgreeInv, RequestInv, TypeOK, Unbind
<1>5. BindingsRouteToActiveVariants'
  BY <1>1, <1>4 DEF AgreeInv, PasskeyRowsAgree, BindingsRouteToActiveVariants, Live, Active
<1> QED BY <1>1, <1>2, <1>3, <1>5 DEF AgreeInv, PasskeyRowsAgree

LEMMA RegisterCredentialAgree ==
    ASSUME AgreeInv, NEW c \in Creds, RegisterCredential(c)
    PROVE  AgreeInv'
<1>1. RequestInv' /\ UNCHANGED <<env, binding, req, lockOf>>
  BY RegisterCredentialInv DEF AgreeInv, RegisterCredential
<1>2. cred[c].state = "absent" /\ ~cred[c].vault /\ Active(c) = {}
  BY DEF AgreeInv, RowsExist, RegisterCredential, Active
<1>3. cred'[c].state = "live" /\ cred'[c].vault = cred[c].vault
      /\ \A d \in Creds : d # c => cred'[d] = cred[d]
  BY DEF AgreeInv, RequestInv, TypeOK, Rows, RegisterCredential
<1>4. late \subseteq late' /\ (Removing => c \in late')
  BY DEF RegisterCredential
<1>5. RowsExist'
  BY <1>1, <1>3 DEF AgreeInv, RowsExist
<1>6. \A d \in Creds : Active(d)' = Active(d)
  BY <1>1 DEF Active
<1>7. VariantsFitTheCandidateSet'
  BY <1>6 DEF AgreeInv, PasskeyRowsAgree, VariantsFitTheCandidateSet
<1>8. FlagMeansVariants'
  <2> SUFFICES ASSUME NEW d \in Creds, d \notin late', cred'[d].state = "live"
               PROVE  cred'[d].vault <=> Active(d) # {}
    BY <1>6 DEF FlagMeansVariants, Live
  <2>1. CASE d = c
    BY <1>2, <1>3, <2>1
  <2>2. CASE d # c
    BY <1>3, <1>4, <2>2 DEF AgreeInv, PasskeyRowsAgree, FlagMeansVariants, Live
  <2> QED BY <2>1, <2>2
<1>9. BindingsRouteToActiveVariants'
  <2> SUFFICES ASSUME NEW b \in Bindings, binding[b] # None, binding[b].cred \notin late'
               PROVE  /\ cred'[binding[b].cred].state = "live" /\ cred'[binding[b].cred].vault
                      /\ binding[b].variant \in Active(binding[b].cred)
    BY <1>1 DEF BindingsRouteToActiveVariants, Live, Active
  <2>1. binding[b].cred \in Creds /\ binding[b].cred \notin late
    BY <1>4 DEF AgreeInv, RequestInv, TypeOK
  <2>2. cred[binding[b].cred].state = "live" /\ cred[binding[b].cred].vault
        /\ binding[b].variant \in Active(binding[b].cred)
    BY <2>1 DEF AgreeInv, PasskeyRowsAgree, BindingsRouteToActiveVariants, Live
  <2>3. binding[b].cred # c
    BY <1>2, <2>2
  <2> QED BY <1>3, <2>1, <2>2, <2>3
<1>10. ASSUME NEW s \in Slots PROVE About(s)'
  <2>1. \A d \in Creds : req[s].kind = "remove" /\ d \notin late' /\ Live(d)' => Live(d)
    <3>1. req[s].kind = "remove" => Removing
      BY DEF Removing
    <3> QED BY <1>3, <1>4, <3>1 DEF Live
  <2>2. \A d \in Creds : Live(d) => Live(d)'
    BY <1>3 DEF Live
  <2>3. \A d \in Creds : cred[d].state # "absent" => cred'[d].state # "absent"
    BY <1>3
  <2>4. \A d \in Creds : cred'[d].vault = cred[d].vault
    BY <1>3
  <2> QED BY <1>1, <1>4, <1>6, <2>1, <2>2, <2>3, <2>4, OthersStay DEF AgreeInv
<1> QED BY <1>1, <1>5, <1>7, <1>8, <1>9, <1>10 DEF AgreeInv, PasskeyRowsAgree

\* The transaction counted the variants under the lock, so nobody has added one since.
LEMMA CommitPersistAgree ==
    ASSUME AgreeInv, NEW r \in Slots, CommitPersist(r)
    PROVE  AgreeInv'
<1> DEFINE q == [req[r] EXCEPT !.pc = "issue"]
           c == req[r].cred
<1>1. RequestInv' /\ UNCHANGED <<binding, late>>
  BY CommitPersistInv DEF AgreeInv, CommitPersist
<1>2. req[r] \in Requests /\ TargetOf(req[r]) /\ req[r].pc = "commit" /\ req[r].kind = "persist"
      /\ lockOf[req[r].cred] = r /\ About(r)
  BY DEF AgreeInv, RequestInv, TypeOK, Targets, CommitPersist
<1>3. c \in Creds /\ c # None
  BY <1>2, PasskeyAssumption DEF TargetOf
<1>4. cred[c].state # "absent" /\ Cardinality(Active(c)) < MaxVariants
  BY <1>2 DEF About
<1>5. PICK v \in FreeVariants : env' = [env EXCEPT ![v] = [cred |-> c, active |-> TRUE]]
  BY DEF CommitPersist
<1>6. v \in Variants /\ env[v].cred = None /\ env'[v].cred = c /\ env'[v].active
      /\ \A w \in Variants : w # v => env'[w] = env[w]
  BY <1>5 DEF FreeVariants, AgreeInv, RequestInv, TypeOK
<1>7. cred'[c].state = cred[c].state /\ (cred'[c].vault <=> cred[c].vault \/ Live(c))
      /\ \A d \in Creds : d # c => cred'[d] = cred[d]
  <2>1. cred[c] \in Rows
    BY <1>3 DEF AgreeInv, RequestInv, TypeOK
  <2>2. cred' = [cred EXCEPT ![c].vault = @ \/ Live(c)]
    BY DEF CommitPersist
  <2> HIDE DEF c
  <2> QED BY <1>3, <2>1, <2>2 DEF AgreeInv, RequestInv, TypeOK, Rows
<1>8. req'[r] = q /\ q.pc = "issue" /\ q.kind = "persist" /\ q.cred = c
      /\ \A s \in Slots : s # r => req'[s] = req[s]
  BY <1>2 DEF AgreeInv, RequestInv, TypeOK, Requests, CommitPersist, Goto
<1>9. \A s \in Slots, d \in Creds : s # r /\ lockOf[d] = s => lockOf'[d] = s
  BY DEF CommitPersist, Release
<1> HIDE DEF q, c
<1>10. \A d \in Creds : d # c => Active(d)' = Active(d)
  <2> SUFFICES ASSUME NEW d \in Creds, d # c
               PROVE  \A w \in Variants : env'[w].cred = d /\ env'[w].active <=>
                                           env[w].cred = d /\ env[w].active
    BY DEF Active
  <2>1. d # None
    BY PasskeyAssumption
  <2> QED BY <1>6, <2>1
<1>11. {w \in Variants : env'[w].cred = c /\ env'[w].active} = Active(c) \cup {v} /\ v \notin Active(c)
  BY <1>3, <1>6 DEF Active
<1>12. RowsExist'
  BY <1>3, <1>4, <1>6, <1>7 DEF AgreeInv, RowsExist
<1>13. VariantsFitTheCandidateSet'
  <2>1. IsFiniteSet(Active(c))
    BY PasskeyAssumption, FS_Subset DEF Active
  <2>2. Cardinality(Active(c) \cup {v}) = Cardinality(Active(c)) + 1 /\ Cardinality(Active(c)) \in Nat
    BY <1>11, <2>1, FS_AddElement, FS_CardinalityType
  <2>3. Cardinality(Active(c) \cup {v}) <= MaxVariants
    BY <1>4, <2>2, PasskeyAssumption
  <2> SUFFICES ASSUME NEW d \in Creds PROVE Cardinality(Active(d)') <= MaxVariants
    BY DEF VariantsFitTheCandidateSet
  <2>4. CASE d # c
    BY <1>10, <2>4 DEF AgreeInv, PasskeyRowsAgree, VariantsFitTheCandidateSet
  <2>5. CASE d = c
    <3>1. Active(d)' = Active(c) \cup {v}
      BY <1>11, <2>5 DEF Active
    <3> QED BY <2>3, <3>1
  <2> QED BY <2>4, <2>5
<1>14. FlagMeansVariants'
  <2> SUFFICES ASSUME NEW d \in Creds, d \notin late, cred'[d].state = "live"
               PROVE  cred'[d].vault <=> Active(d)' # {}
    BY <1>1 DEF FlagMeansVariants, Live
  <2>1. CASE d # c
    BY <1>7, <1>10, <2>1 DEF AgreeInv, PasskeyRowsAgree, FlagMeansVariants, Live
  <2>2. CASE d = c
    <3>1. Active(d)' # {}
      BY <1>11, <2>2 DEF Active
    <3> QED BY <1>7, <2>2, <3>1 DEF Live
  <2> QED BY <2>1, <2>2
<1>15. BindingsRouteToActiveVariants'
  <2> SUFFICES ASSUME NEW b \in Bindings, binding[b] # None, binding[b].cred \notin late
               PROVE  /\ cred'[binding[b].cred].state = "live" /\ cred'[binding[b].cred].vault
                      /\ env'[binding[b].variant].cred = binding[b].cred
                      /\ env'[binding[b].variant].active /\ binding[b].variant \in Variants
    BY <1>1 DEF BindingsRouteToActiveVariants, Live, Active
  <2>1. binding[b].cred \in Creds /\ binding[b].cred # None
    BY PasskeyAssumption DEF AgreeInv, RequestInv, TypeOK
  <2>2. cred[binding[b].cred].state = "live" /\ cred[binding[b].cred].vault
        /\ binding[b].variant \in Variants /\ env[binding[b].variant].cred = binding[b].cred
        /\ env[binding[b].variant].active
    BY <2>1 DEF AgreeInv, PasskeyRowsAgree, BindingsRouteToActiveVariants, Live, Active
  <2> QED BY <1>6, <1>7, <2>1, <2>2
<1>16. About(r)'
  BY <1>4, <1>7, <1>8 DEF About
<1>17. ASSUME NEW s \in Slots, s # r PROVE About(s)'
  <2>1. \A d \in Creds : lockOf[d] = s => d # c
    BY <1>2, <1>17 DEF c
  <2>2. \A d \in Creds : Live(d)' <=> Live(d)
    BY <1>7 DEF Live
  <2>3. \A w \in Variants : env[w].cred # None =>
            env'[w].cred = env[w].cred /\ (env'[w].active => env[w].active)
    BY <1>6
  <2>4. \A d \in Creds : lockOf[d] = s => Active(d)' \subseteq Active(d)
    BY <1>10, <2>1
  <2>5. \A d \in Creds, w \in Variants : env[w].cred = d /\ env[w].active => env'[w].active
    BY <1>6
  <2>6. \A d \in Creds : lockOf[d] = s => cred'[d].vault = cred[d].vault
    BY <1>7, <2>1
  <2>7. \A d \in Creds : cred[d].state # "absent" => cred'[d].state # "absent"
    BY <1>7
  <2> QED BY <1>1, <1>8, <1>9, <1>17, <2>2, <2>3, <2>4, <2>5, <2>6, <2>7, OthersStay DEF AgreeInv
<1>18. \A s \in Slots : About(s)'
  BY <1>16, <1>17
<1> QED BY <1>1, <1>12, <1>13, <1>14, <1>15, <1>18 DEF AgreeInv, PasskeyRowsAgree

\* The variant that is bound was active under the lock, and the removal needs that lock.
LEMMA CommitBindAgree ==
    ASSUME AgreeInv, NEW r \in Slots, CommitBind(r)
    PROVE  AgreeInv'
<1> DEFINE c == req[r].cred
<1>1. RequestInv' /\ UNCHANGED <<cred, env, late>> /\ Finish(r) /\ Release(r)
  BY CommitBindInv DEF AgreeInv, CommitBind
<1>2. TargetOf(req[r]) /\ req[r].pc = "commit" /\ req[r].kind = "bind" /\ About(r)
  BY DEF AgreeInv, RequestInv, Targets, CommitBind
<1>3. c \in Creds /\ req[r].variant \in Variants
  BY <1>2 DEF TargetOf
<1>4. env[req[r].variant].cred = c /\ (c \notin late => Live(c) /\ env[req[r].variant].active)
  BY <1>2 DEF About
<1>5. c \notin late => cred[c].vault
  <2> SUFFICES ASSUME c \notin late PROVE cred[c].vault
    OBVIOUS
  <2>1. req[r].variant \in Active(c) /\ Live(c)
    BY <1>3, <1>4 DEF Active
  <2> HIDE DEF c
  <2> QED BY <1>3, <2>1 DEF AgreeInv, PasskeyRowsAgree, FlagMeansVariants
<1>6. PICK b \in Bindings : binding' = [binding EXCEPT ![b] = [cred |-> c, variant |-> req[r].variant]]
  BY DEF CommitBind
<1>7. BindingsRouteToActiveVariants'
  <2> SUFFICES ASSUME NEW a \in Bindings, binding'[a] # None, binding'[a].cred \notin late
               PROVE  /\ cred[binding'[a].cred].state = "live" /\ cred[binding'[a].cred].vault
                      /\ env[binding'[a].variant].cred = binding'[a].cred
                      /\ env[binding'[a].variant].active /\ binding'[a].variant \in Variants
    BY <1>1 DEF BindingsRouteToActiveVariants, Live, Active
  <2>1. CASE a = b
    <3>1. binding'[a].cred = c /\ binding'[a].variant = req[r].variant
      BY <1>6, <2>1 DEF AgreeInv, RequestInv, TypeOK
    <3> QED BY <1>3, <1>4, <1>5, <3>1 DEF Live
  <2>2. CASE a # b
    <3>1. binding'[a] = binding[a]
      BY <1>6, <2>2 DEF AgreeInv, RequestInv, TypeOK
    <3> QED BY <3>1 DEF AgreeInv, PasskeyRowsAgree, BindingsRouteToActiveVariants, Live, Active
  <2> QED BY <2>1, <2>2
<1>8. RowsExist' /\ VariantsFitTheCandidateSet' /\ FlagMeansVariants'
  BY <1>1 DEF AgreeInv, RowsExist, PasskeyRowsAgree, VariantsFitTheCandidateSet, FlagMeansVariants,
     Live, Active
<1>9. ASSUME NEW s \in Slots PROVE About(s)'
  <2>1. CASE s = r
    BY <1>1, <2>1, IdleIsAboutNothing DEF AgreeInv
  <2>2. CASE s # r
    <3>1. req'[s] = req[s] /\ \A d \in Creds : lockOf[d] = s => lockOf'[d] = s
      BY <1>1, <2>2 DEF AgreeInv, RequestInv, TypeOK, Finish, Release
    <3>2. \A d \in Creds : (Live(d)' <=> Live(d)) /\ Active(d)' = Active(d)
      BY <1>1 DEF Live, Active
    <3> QED BY <1>1, <3>1, <3>2, OthersStay DEF AgreeInv
  <2> QED BY <2>1, <2>2
<1> QED BY <1>1, <1>7, <1>8, <1>9 DEF AgreeInv, PasskeyRowsAgree

LEMMA Retired ==
    ASSUME NEW row \in Rows, NEW c
    PROVE  /\ Retire(row, c).state = "live" => row.state = "live" /\ ~Retire(row, c).vault
           /\ Retire(row, c).state = "absent" => row.state = "absent"
           /\ Retire(row, c).vault => row.vault
BY DEF Retire, Rows

\* Fewer active variants still fit.
LEMMA FewerFit ==
    ASSUME AgreeInv, \A c \in Creds : Active(c)' \subseteq Active(c)
    PROVE  VariantsFitTheCandidateSet'
<1> SUFFICES ASSUME NEW c \in Creds PROVE Cardinality(Active(c)') <= MaxVariants
  BY DEF VariantsFitTheCandidateSet
<1>1. IsFiniteSet(Active(c))
  BY PasskeyAssumption, FS_Subset DEF Active
<1>2. Cardinality(Active(c)') <= Cardinality(Active(c)) /\ Cardinality(Active(c)) <= MaxVariants
      /\ Cardinality(Active(c)') \in Nat /\ Cardinality(Active(c)) \in Nat
  BY <1>1, FS_Subset, FS_CardinalityType DEF AgreeInv, PasskeyRowsAgree, VariantsFitTheCandidateSet
<1> QED BY <1>2, PasskeyAssumption

LEMMA CommitDisableAgree ==
    ASSUME AgreeInv, NEW r \in Slots, CommitDisable(r)
    PROVE  AgreeInv'
<1> DEFINE c == req[r].cred
<1>1. RequestInv' /\ UNCHANGED late /\ Finish(r) /\ Release(r)
  BY CommitDisableInv DEF AgreeInv, CommitDisable
<1>2. TargetOf(req[r]) /\ req[r].pc = "commit" /\ req[r].kind = "disable" /\ lockOf[c] = r
  BY DEF AgreeInv, RequestInv, Targets, CommitDisable
<1>3. c \in Creds
  BY <1>2 DEF TargetOf
<1>4. \A v \in Variants : /\ env'[v].cred = env[v].cred
                          /\ env'[v].active <=> env[v].active /\ env[v].cred # c
  BY DEF AgreeInv, RequestInv, TypeOK, CommitDisable, Active
<1>5. cred'[c] = Retire(cred[c], c) /\ \A d \in Creds : d # c => cred'[d] = cred[d]
  BY <1>3 DEF AgreeInv, RequestInv, TypeOK, CommitDisable
<1>6. /\ cred'[c].state = "live" => cred[c].state = "live" /\ ~cred'[c].vault
      /\ cred'[c].state = "absent" => cred[c].state = "absent"
      /\ cred'[c].vault => cred[c].vault
  BY <1>3, <1>5, Retired DEF AgreeInv, RequestInv, TypeOK
<1>7. \A b \in Bindings : binding'[b] # None => binding'[b] = binding[b] /\ binding[b].cred # c
  BY DEF AgreeInv, RequestInv, TypeOK, CommitDisable
<1> HIDE DEF c
<1>8. RowsExist'
  <2>1. \A v \in Variants : env'[v].active => env'[v].cred \in Creds
    BY <1>4 DEF AgreeInv, RowsExist
  <2>2. \A d \in Creds : cred'[d].state = "absent" => cred[d].state = "absent"
    BY <1>5, <1>6
  <2>3. \A d \in Creds : cred'[d].vault => cred[d].vault
    BY <1>5, <1>6
  <2> QED BY <1>4, <2>1, <2>2, <2>3 DEF AgreeInv, RowsExist
<1>9. \A d \in Creds : Active(d)' \subseteq Active(d)
  BY <1>4 DEF Active
<1>10. FlagMeansVariants'
  <2> SUFFICES ASSUME NEW d \in Creds, d \notin late, cred'[d].state = "live"
               PROVE  cred'[d].vault <=> Active(d)' # {}
    BY <1>1 DEF FlagMeansVariants, Live
  <2>1. CASE d = c
    <3>1. Active(d)' = {}
      BY <1>4, <2>1 DEF Active
    <3> QED BY <1>6, <2>1, <3>1
  <2>2. CASE d # c
    <3>1. Active(d)' = Active(d)
      BY <1>4, <2>2 DEF Active
    <3> QED BY <1>5, <2>2, <3>1 DEF AgreeInv, PasskeyRowsAgree, FlagMeansVariants, Live
  <2> QED BY <2>1, <2>2
<1>11. BindingsRouteToActiveVariants'
  <2> SUFFICES ASSUME NEW b \in Bindings, binding'[b] # None, binding'[b].cred \notin late
               PROVE  /\ cred'[binding'[b].cred].state = "live" /\ cred'[binding'[b].cred].vault
                      /\ env'[binding'[b].variant].cred = binding'[b].cred
                      /\ env'[binding'[b].variant].active /\ binding'[b].variant \in Variants
    BY <1>1 DEF BindingsRouteToActiveVariants, Live, Active
  <2>1. binding'[b] = binding[b] /\ binding[b].cred # c /\ binding[b] # None
    BY <1>7
  <2>2. binding[b].cred \in Creds
    BY <2>1 DEF AgreeInv, RequestInv, TypeOK
  <2>3. cred[binding[b].cred].state = "live" /\ cred[binding[b].cred].vault
        /\ binding[b].variant \in Variants /\ env[binding[b].variant].cred = binding[b].cred
        /\ env[binding[b].variant].active
    BY <2>1 DEF AgreeInv, PasskeyRowsAgree, BindingsRouteToActiveVariants, Live, Active
  <2> QED BY <1>4, <1>5, <2>1, <2>2, <2>3
<1>12. ASSUME NEW s \in Slots PROVE About(s)'
  <2>1. CASE s = r
    BY <1>1, <2>1, IdleIsAboutNothing DEF AgreeInv
  <2>2. CASE s # r
    <3>1. req'[s] = req[s] /\ \A d \in Creds : lockOf[d] = s => lockOf'[d] = s /\ d # c
      BY <1>1, <1>2, <2>2 DEF AgreeInv, RequestInv, TypeOK, Finish, Release
    <3>2. \A d \in Creds : Live(d)' => Live(d)
      BY <1>5, <1>6 DEF Live
    <3>3. \A d \in Creds, v \in Variants :
              env[v].cred = d /\ Live(d) /\ ~Live(d)' => ~env'[v].active
      BY <1>4, <1>5 DEF Live
    <3>4. \A v \in Variants : env'[v].cred = env[v].cred /\ (env'[v].active => env[v].active)
      BY <1>4
    <3>5. \A d \in Creds, v \in Variants :
              env[v].cred = d /\ lockOf[d] = s /\ env[v].active => env'[v].active
      BY <1>4, <3>1
    <3>6. \A d \in Creds : lockOf[d] = s => cred'[d].vault = cred[d].vault
      BY <1>5, <3>1
    <3>7. \A d \in Creds : cred[d].state # "absent" => cred'[d].state # "absent"
      BY <1>5, <1>6
    <3> QED BY <1>1, <1>9, <3>1, <3>2, <3>3, <3>4, <3>5, <3>6, <3>7, OthersStay DEF AgreeInv
  <2> QED BY <2>1, <2>2
<1> QED BY <1>1, <1>8, <1>9, <1>10, <1>11, <1>12, FewerFit DEF AgreeInv, PasskeyRowsAgree

\* The removal has locked every live credential it knows of, so it has seen all they have.
LEMMA CommitRemovalAgree ==
    ASSUME AgreeInv, NEW r \in Slots, CommitRemoval(r)
    PROVE  AgreeInv'
<1> DEFINE q == req[r]
<1>1. RequestInv' /\ UNCHANGED late /\ Finish(r) /\ Release(r) /\ \A b \in Bindings : binding'[b] = None
  BY CommitRemovalInv DEF AgreeInv, CommitRemoval
<1>2. q.pc = "commit" /\ q.kind = "remove" /\ About(r)
  BY DEF AgreeInv, CommitRemoval
<1>3. \A c \in Creds : c \notin late /\ Live(c) =>
          lockOf[c] = r /\ (c \in q.seen <=> cred[c].vault) /\ Active(c) \subseteq q.seenEnv
  BY <1>2 DEF About
<1>4. \A v \in Variants : /\ env'[v].cred = env[v].cred
                          /\ env'[v].active <=> env[v].active /\ v \notin q.seenEnv
  BY DEF AgreeInv, RequestInv, TypeOK, CommitRemoval
<1>5. \A c \in Creds : cred'[c] = IF c \in q.seen THEN Retire(cred[c], c) ELSE cred[c]
  BY DEF CommitRemoval
<1>6. \A c \in Creds :
          /\ cred'[c].state = "live" => cred[c].state = "live" /\ (c \in q.seen => ~cred'[c].vault)
          /\ cred'[c].state = "absent" => cred[c].state = "absent"
          /\ cred'[c].vault => cred[c].vault
  BY <1>5, Retired DEF AgreeInv, RequestInv, TypeOK
<1> HIDE DEF q
<1>7. RowsExist'
  BY <1>4, <1>6 DEF AgreeInv, RowsExist
<1>8. \A c \in Creds : Active(c)' \subseteq Active(c)
  BY <1>4 DEF Active
<1>9. FlagMeansVariants'
  <2> SUFFICES ASSUME NEW c \in Creds, c \notin late, cred'[c].state = "live"
               PROVE  cred'[c].vault <=> Active(c)' # {}
    BY <1>1 DEF FlagMeansVariants, Live
  <2>1. (c \in q.seen <=> cred[c].vault) /\ Active(c) \subseteq q.seenEnv
    BY <1>3, <1>6 DEF Live
  <2>2. Active(c)' = {}
    BY <1>4, <2>1 DEF Active
  <2> QED BY <1>5, <1>6, <2>1, <2>2
<1>10. BindingsRouteToActiveVariants'
  BY <1>1 DEF BindingsRouteToActiveVariants
<1>11. ASSUME NEW s \in Slots PROVE About(s)'
  <2>1. CASE s = r
    BY <1>1, <2>1, IdleIsAboutNothing DEF AgreeInv
  <2>2. CASE s # r
    <3>1. req'[s] = req[s] /\ \A c \in Creds : lockOf[c] = s => lockOf'[c] = s
      BY <1>1, <2>2 DEF AgreeInv, RequestInv, TypeOK, Finish, Release
    <3>2. \A c \in Creds : Live(c)' => Live(c)
      BY <1>6 DEF Live
    <3>3. \A c \in Creds : lockOf[c] = s => c \in late \/ ~Live(c)
      BY <1>3, <2>2
    <3>4. \A c \in Creds, v \in Variants : env[v].cred = c /\ c \notin late /\ Live(c) => ~env'[v].active
      BY <1>3, <1>4 DEF Active
    <3>5. \A v \in Variants : env'[v].cred = env[v].cred /\ (env'[v].active => env[v].active)
      BY <1>4
    <3>6. \A c \in Creds : cred[c].state # "absent" => cred'[c].state # "absent"
      BY <1>6
    <3> QED BY <1>1, <1>8, <3>1, <3>2, <3>3, <3>4, <3>5, <3>6, OthersStay DEF AgreeInv
  <2> QED BY <2>1, <2>2
<1> QED BY <1>1, <1>7, <1>8, <1>9, <1>10, <1>11, FewerFit DEF AgreeInv, PasskeyRowsAgree

-----------------------------------------------------------------------------
LEMMA AgreeInit == Init => AgreeInv
<1> SUFFICES ASSUME Init PROVE AgreeInv
  OBVIOUS
<1>1. RequestInv
  BY RequestInit
<1>2. \A r \in Slots : req[r].pc = "idle" /\ req[r].kind # "remove"
  BY PasskeyAssumption DEF Init, Idle, Kinds
<1>3. \A c \in Creds : Active(c) = {} /\ ~Live(c) /\ ~cred[c].vault
  BY DEF Init, Active, Live, NoCred
<1>4. RowsExist
  BY PasskeyAssumption DEF Init, RowsExist, NoCred
<1>5. VariantsFitTheCandidateSet
  <2>1. Cardinality({}) = 0 /\ 0 <= MaxVariants
    BY FS_EmptySet, PasskeyAssumption
  <2> QED BY <1>3, <2>1 DEF VariantsFitTheCandidateSet
<1>6. BindingsRouteToActiveVariants /\ FlagMeansVariants
  BY <1>3 DEF Init, BindingsRouteToActiveVariants, FlagMeansVariants
<1>7. \A r \in Slots : About(r)
  BY <1>2 DEF About
<1> QED BY <1>1, <1>4, <1>5, <1>6, <1>7 DEF AgreeInv, PasskeyRowsAgree

LEMMA AgreeStep == AgreeInv /\ [Next]_vars => AgreeInv'
<1> SUFFICES ASSUME AgreeInv, [Next]_vars PROVE AgreeInv'
  OBVIOUS
<1> RequestInv'
  BY RequestStep DEF AgreeInv
<1>1. CASE UNCHANGED vars
  BY <1>1, NothingMoves DEF vars
<1>2. ASSUME NEW c \in Creds, RegisterCredential(c) \/ EnrollOptions(c) \/ LoginCandidates(c)
      PROVE  AgreeInv'
  BY <1>2, RegisterCredentialAgree, NothingMoves DEF EnrollOptions, LoginCandidates
<1>3. ASSUME UnlockOptions \/ \E t \in Tokens : Expire(t) PROVE AgreeInv'
  BY <1>3, NothingMoves DEF UnlockOptions, Expire, rows
<1>4. ASSUME NEW b \in Bindings, Unbind(b) PROVE AgreeInv'
  BY <1>4, UnbindAgree
<1>5. ASSUME NEW r \in Slots, Send(r) PROVE AgreeInv'
  <2>1. CASE SendRemoveAll(r)
    BY <2>1, SendRemoveAllAgree
  <2>2. CASE ~SendRemoveAll(r)
    <3>1. PICK c \in Creds, t \in Tokens :
              \/ SendUnlock(r, c, t) \/ SendEnroll(r, c, t) \/ SendPersist(r, c, t)
              \/ \E v \in Variants : SendBind(r, c, t, v) \/ SendDisable(r, c, t, v)
      BY <1>5, <2>2 DEF Send
    <3> QED BY <3>1, SendUnlockAgree, SendEnrollAgree, SendPersistAgree, SendBindAgree,
               SendDisableAgree
  <2> QED BY <2>1, <2>2
<1>6. ASSUME NEW r \in Slots, Work(r) PROVE AgreeInv'
  BY <1>6, ConsumeAgree, AdvanceCounterAgree, IssueProofAgree, LockAndReadAgree,
     CommitPersistAgree, CommitBindAgree, CommitDisableAgree, LockNextAgree, ReadAgainAgree,
     ReadEnvelopesAgree, UpdateRowAgree, CommitRemovalAgree DEF Work
<1>7. ASSUME NEW r \in Slots, Crash(r) PROVE AgreeInv'
  BY <1>7, CrashAgree
<1> QED BY <1>1, <1>2, <1>3, <1>4, <1>5, <1>6, <1>7 DEF Next

LEMMA AgreeInductive == Spec => []AgreeInv
BY AgreeInit, AgreeStep, PTL DEF Spec

\* However enrolments, bindings, disablings and removals overlap: no passkey gets more
\* variants than an unlock accepts, the flag of a passkey tells whether it has any, and a
\* browser is routed only to an active variant of a live passkey.
THEOREM PasskeyTablesAgree == Spec => []PasskeyRowsAgree
<1>1. AgreeInv => PasskeyRowsAgree
  BY DEF AgreeInv
<1> QED BY <1>1, AgreeInductive, PTL

\* A removal leaves no active variant of a passkey it could know of: what was enrolled
\* before its commit is removed by it.
THEOREM RemovalsAreComplete == Spec => RemovalIsComplete
<1> DEFINE Complete ==
        \A r \in Slots : CommitRemoval(r) =>
          \A v \in Variants : env'[v].active =>
              env[v].cred \in late \/ ~Live(env[v].cred)
<1>1. AgreeInv /\ [Next]_vars => [Complete]_vars
  <2> SUFFICES ASSUME AgreeInv, NEW r \in Slots, CommitRemoval(r), NEW v \in Variants,
                      env'[v].active, env[v].cred \notin late, Live(env[v].cred)
               PROVE  FALSE
    OBVIOUS
  <2>1. env[v].active /\ v \notin req[r].seenEnv
    BY DEF AgreeInv, RequestInv, TypeOK, CommitRemoval
  <2>2. env[v].cred \in Creds
    BY <2>1 DEF AgreeInv, RowsExist
  <2>3. Active(env[v].cred) \subseteq req[r].seenEnv
    BY <2>2 DEF AgreeInv, About, CommitRemoval
  <2> QED BY <2>1, <2>3 DEF Active
<1> HIDE DEF Complete
<1>2. Spec => [][Complete]_vars
  BY <1>1, AgreeInductive, PTL DEF Spec
<1> QED BY <1>2 DEF Complete, RemovalIsComplete

-----------------------------------------------------------------------------
(* Who waits for whom                                                      *)

\* What a removal has read again it has locked, but for what was registered meanwhile.
SeenIsLocked ==
    \A r \in Slots : req[r].kind = "remove" /\ req[r].pc \in {"envelopes", "commit"} =>
        \A c \in req[r].seen \ late : lockOf[c] = r

\* A request that does not move keeps what it has locked.
LEMMA OthersKeepLocks ==
    ASSUME RequestInv, [Next]_vars, NEW s \in Slots, req'[s] = req[s], req[s].kind = "remove"
    PROVE  \A c \in Creds : lockOf[c] = s => lockOf'[c] = s
<1> SUFFICES ASSUME NEW c \in Creds, lockOf[c] = s PROVE lockOf'[c] = s
  OBVIOUS
<1>1. s # None /\ req \in [Slots -> Requests] /\ lockOf \in [Creds -> Slots \cup {None}]
  BY PasskeyAssumption DEF RequestInv, TypeOK
<1>2. req[s].pc # "idle" /\ Idle.pc = "idle"
  BY <1>1 DEF RequestInv, LocksAreHeld, Transacting, Idle
<1>3. CASE UNCHANGED lockOf
  BY <1>3
<1>4. ASSUME NEW r \in Slots, Release(r), r # s PROVE lockOf'[c] = s
  BY <1>1, <1>4 DEF Release
<1>5. ASSUME NEW r \in Slots, Release(r), Finish(r) PROVE lockOf'[c] = s
  <2>1. r # s
    BY <1>1, <1>2, <1>5 DEF Finish
  <2> QED BY <1>4, <1>5, <2>1
<1>6. ASSUME NEW r \in Slots, NEW d \in Creds, lockOf[d] = None, lockOf' = [lockOf EXCEPT ![d] = r]
      PROVE  lockOf'[c] = s
  BY <1>1, <1>6
<1>7. ASSUME NEW r \in Slots, Work(r) PROVE lockOf'[c] = s
  <2>1. CASE Consume(r) \/ AdvanceCounter(r) \/ IssueProof(r) \/ ReadAgain(r)
    BY <1>3, <2>1 DEF Consume, AdvanceCounter, IssueProof, ReadAgain
  <2>2. CASE LockAndRead(r)
    <3>1. req[r].cred \in Creds
      BY <2>2 DEF LockAndRead, RequestInv, Targets, TargetOf
    <3> QED BY <1>3, <1>6, <2>2, <3>1 DEF LockAndRead, RowFree
  <2>3. CASE CommitPersist(r)
    <3>1. r # s
      BY <2>3 DEF CommitPersist
    <3> QED BY <1>4, <2>3, <3>1 DEF CommitPersist
  <2>4. CASE CommitBind(r) \/ CommitDisable(r) \/ CommitRemoval(r)
    BY <1>5, <2>4 DEF CommitBind, CommitDisable, CommitRemoval
  <2>5. CASE LockNext(r) \/ UpdateRow(r)
    <3>1. req[r].todo \subseteq Creds /\ req[r].seen \subseteq Creds
      BY <1>1 DEF Requests
    <3> QED BY <1>6, <2>5, <3>1 DEF LockNext, UpdateRow, NextRow, RowFree
  <2>6. CASE ReadEnvelopes(r)
    BY <1>3, <1>5, <2>6 DEF ReadEnvelopes
  <2> QED BY <1>7, <2>1, <2>2, <2>3, <2>4, <2>5, <2>6 DEF Work
<1>8. ASSUME NEW r \in Slots, Send(r) PROVE UNCHANGED lockOf
  BY <1>8 DEF Send, SendRemoveAll, SendUnlock, SendEnroll, SendPersist, SendBind, SendDisable
<1>9. ASSUME NEW r \in Slots, Crash(r) PROVE lockOf'[c] = s
  BY <1>5, <1>9 DEF Crash
<1>10. ASSUME NEW d \in Creds, RegisterCredential(d) \/ EnrollOptions(d) \/ LoginCandidates(d)
       PROVE  UNCHANGED lockOf
  BY <1>10 DEF RegisterCredential, EnrollOptions, LoginCandidates
<1>11. ASSUME UnlockOptions \/ (\E t \in Tokens : Expire(t)) \/ \E b \in Bindings : Unbind(b)
       PROVE  UNCHANGED lockOf
  BY <1>11 DEF UnlockOptions, Expire, Unbind
<1>12. CASE UNCHANGED vars
  BY <1>3, <1>12 DEF vars
<1> QED BY <1>3, <1>7, <1>8, <1>9, <1>10, <1>11, <1>12 DEF Next

\* The credentials that count as registered during a removal only grow.
LEMMA LateGrows == [Next]_vars => late \subseteq late'
<1> SUFFICES ASSUME [Next]_vars PROVE late \subseteq late'
  OBVIOUS
<1>1. ASSUME NEW r \in Slots, Work(r) \/ Crash(r) PROVE UNCHANGED late
  BY <1>1 DEF Work, Crash, Consume, AdvanceCounter, IssueProof, LockAndRead, CommitPersist,
     CommitBind, CommitDisable, LockNext, ReadAgain, ReadEnvelopes, UpdateRow, CommitRemoval
<1>2. ASSUME NEW r \in Slots, Send(r) PROVE UNCHANGED late
  BY <1>2 DEF Send, SendRemoveAll, SendUnlock, SendEnroll, SendPersist, SendBind, SendDisable
<1>3. ASSUME NEW c \in Creds, RegisterCredential(c) \/ EnrollOptions(c) \/ LoginCandidates(c)
      PROVE  late \subseteq late'
  BY <1>3 DEF RegisterCredential, EnrollOptions, LoginCandidates
<1>4. ASSUME UnlockOptions \/ (\E t \in Tokens : Expire(t)) \/ \E b \in Bindings : Unbind(b)
      PROVE  UNCHANGED late
  BY <1>4 DEF UnlockOptions, Expire, Unbind
<1>5. CASE UNCHANGED vars
  BY <1>5 DEF vars
<1> QED BY <1>1, <1>2, <1>3, <1>4, <1>5 DEF Next

\* A request that a step moves to its removal's reads was locking, or has read before.
LEMMA RemovalsMove ==
    ASSUME RequestInv, [Next]_vars, NEW s \in Slots, req'[s] # req[s],
           req'[s].kind = "remove", req'[s].pc \in {"envelopes", "commit"}
    PROVE  \/ ReadAgain(s) /\ req'[s].seen = VaultCredentials
           \/ /\ ReadEnvelopes(s) /\ UNCHANGED lockOf
              /\ req[s].kind = "remove" /\ req'[s].seen = req[s].seen
<1>1. req \in [Slots -> Requests] /\ Idle.pc = "idle" /\ Idle.kind = None
  BY DEF RequestInv, TypeOK, Idle
<1>2. ASSUME NEW r \in Slots, Finish(r) PROVE FALSE
  BY <1>1, <1>2 DEF Finish
<1>3. ASSUME NEW r \in Slots, NEW request, Start(r, request),
             request.pc \notin {"envelopes", "commit"}
      PROVE  FALSE
  BY <1>1, <1>3 DEF Start
<1>4. ASSUME NEW r \in Slots, NEW q, req' = [req EXCEPT ![r] = q], q.kind # "remove" PROVE FALSE
  BY <1>1, <1>4
<1>5. ASSUME UNCHANGED req PROVE FALSE
  BY <1>5
<1>6. ASSUME NEW r \in Slots, Work(r)
      PROVE  r = s /\ (ReadAgain(r) \/ ReadEnvelopes(r))
  <2>1. r = s
    BY <1>1, <1>6 DEF Work, Consume, AdvanceCounter, IssueProof, LockAndRead, CommitPersist,
       CommitBind, CommitDisable, LockNext, ReadAgain, ReadEnvelopes, UpdateRow, CommitRemoval,
       Goto, Finish
  <2>2. ASSUME Consume(s) \/ AdvanceCounter(s) PROVE FALSE
    BY <1>1, <1>2, <2>2 DEF Consume, AdvanceCounter, Requests
  <2>3. ASSUME IssueProof(s) \/ CommitBind(s) \/ CommitDisable(s) \/ CommitRemoval(s) PROVE FALSE
    BY <1>2, <2>3 DEF IssueProof, CommitBind, CommitDisable, CommitRemoval
  <2>4. ASSUME CommitPersist(s) \/ UpdateRow(s) PROVE FALSE
    BY <1>1, <1>5, <2>4 DEF CommitPersist, UpdateRow, Goto, Requests
  <2>5. ASSUME LockAndRead(s) PROVE FALSE
    <3>1. req[s].kind # "remove" /\ req[s] \in Requests
      BY <2>5 DEF LockAndRead, RequestInv, TypeOK, Targets, TargetOf
    <3> QED BY <1>1, <1>2, <2>5, <3>1 DEF LockAndRead, Goto, Requests
  <2>6. ASSUME LockNext(s) PROVE FALSE
    BY <1>1, <2>6 DEF LockNext, Requests
  <2> QED BY <1>6, <2>1, <2>2, <2>3, <2>4, <2>5, <2>6 DEF Work
<1>7. ASSUME NEW r \in Slots, Send(r) PROVE FALSE
  <2>1. ASSUME NEW c \in Creds, NEW t \in Tokens, SendUnlock(r, c, t) PROVE FALSE
    BY <1>3, <1>5, <2>1 DEF SendUnlock, Idle
  <2>2. ASSUME NEW c \in Creds, NEW t \in Tokens, SendEnroll(r, c, t) \/ SendPersist(r, c, t)
        PROVE  FALSE
    BY <1>3, <2>2 DEF SendEnroll, SendPersist, Idle
  <2>3. ASSUME NEW c \in Creds, NEW t \in Tokens, NEW v \in Variants,
               SendBind(r, c, t, v) \/ SendDisable(r, c, t, v)
        PROVE  FALSE
    BY <1>3, <2>3 DEF SendBind, SendDisable, Idle
  <2>4. ASSUME SendRemoveAll(r) PROVE FALSE
    BY <1>3, <2>4 DEF SendRemoveAll, Idle
  <2> QED BY <1>7, <2>1, <2>2, <2>3, <2>4 DEF Send
<1>8. ASSUME NEW c \in Creds, RegisterCredential(c) \/ EnrollOptions(c) \/ LoginCandidates(c)
      PROVE  FALSE
  BY <1>5, <1>8 DEF RegisterCredential, EnrollOptions, LoginCandidates
<1>9. ASSUME UnlockOptions \/ (\E t \in Tokens : Expire(t)) \/ \E b \in Bindings : Unbind(b)
      PROVE  FALSE
  BY <1>5, <1>9 DEF UnlockOptions, Expire, Unbind
<1>10. PICK r \in Slots : Work(r) \/ Crash(r)
  BY <1>5, <1>7, <1>8, <1>9 DEF Next, vars
<1>11. ReadAgain(s) \/ ReadEnvelopes(s)
  BY <1>2, <1>6, <1>10 DEF Crash
<1>12. CASE ReadAgain(s)
  BY <1>1, <1>12 DEF ReadAgain, Requests
<1>13. CASE ReadEnvelopes(s)
  <2>1. UNCHANGED lockOf /\ req' = [req EXCEPT ![s].pc = "commit", ![s].seenEnv = EnvelopesToRevoke(s)]
    BY <1>2, <1>13 DEF ReadEnvelopes
  <2>2. req[s].kind = "remove" /\ req[s] \in Requests
    BY <1>13 DEF ReadEnvelopes, RequestInv, TypeOK, Targets, TargetOf
  <2> QED BY <1>1, <1>13, <2>1, <2>2 DEF Requests
<1> QED BY <1>11, <1>12, <1>13

LEMMA SeenIsLockedStep == AgreeInv /\ SeenIsLocked /\ [Next]_vars => SeenIsLocked'
<1> SUFFICES ASSUME AgreeInv, SeenIsLocked, [Next]_vars, NEW s \in Slots,
                    req'[s].kind = "remove", req'[s].pc \in {"envelopes", "commit"},
                    NEW c \in req'[s].seen, c \notin late'
             PROVE  lockOf'[c] = s
  BY DEF SeenIsLocked
<1>1. RequestInv /\ c \notin late
  BY LateGrows DEF AgreeInv
<1>2. CASE req'[s] = req[s]
  <2>1. lockOf[c] = s /\ c \in Creds
    BY <1>1, <1>2 DEF SeenIsLocked, RequestInv, TypeOK, Requests
  <2> QED BY <1>1, <1>2, <2>1, OthersKeepLocks
<1>3. CASE ReadAgain(s) /\ req'[s].seen = VaultCredentials
  <2>1. c \in Creds /\ Live(c) /\ About(s) /\ req[s].pc = "locking" /\ req[s].todo = {}
    BY <1>3 DEF VaultCredentials, ReadAgain, AgreeInv
  <2>2. req[s].kind = "remove"
    BY <1>1, <2>1 DEF RequestInv, Targets, TargetOf
  <2> QED BY <1>1, <1>3, <2>1, <2>2 DEF About, ReadAgain
<1>4. CASE ReadEnvelopes(s) /\ UNCHANGED lockOf /\ req[s].kind = "remove" /\ req'[s].seen = req[s].seen
  BY <1>1, <1>4 DEF SeenIsLocked, ReadEnvelopes
<1> QED BY <1>1, <1>2, <1>3, <1>4, RemovalsMove

\* Of two that wait for each other both hold a row.  If neither waits for a row it has not
\* locked in order, each holds the row the other is to lock next, and so each of the two
\* rows comes before the other.
LEMMA LocksPreventCircles == RequestInv /\ SeenIsLocked => NoCircularWait
<1> SUFFICES ASSUME RequestInv, SeenIsLocked, NEW r \in Slots, NEW s \in Slots, r # s,
                    NEW c \in Creds, NEW d \in Creds,
                    WaitsFor(r, c), lockOf[c] = s, WaitsFor(s, d), lockOf[d] = r,
                    ~(req[r].pc = "commit" /\ c \in late),
                    ~(req[s].pc = "commit" /\ d \in late)
             PROVE  FALSE
  BY DEF NoCircularWait
<1>1. ASSUME NEW a \in Slots, NEW b \in Slots, NEW e \in Creds, NEW f \in Creds, a # b,
             WaitsFor(a, e), lockOf[e] = b, lockOf[f] = a, ~(req[a].pc = "commit" /\ e \in late)
      PROVE  f < e
  <2>1. Transacting(a)
    BY <1>1, PasskeyAssumption DEF RequestInv, LocksAreHeld
  <2>2. CASE req[a].pc = "commit"
    BY <1>1, <2>2 DEF WaitsFor, SeenIsLocked
  <2>3. CASE req[a].pc = "locking"
    BY <1>1, <2>3 DEF WaitsFor, NextRow, RequestInv, LocksAscend
  <2> QED BY <1>1, <2>1, <2>2, <2>3 DEF Transacting, WaitsFor
<1>2. d < c /\ c < d
  BY <1>1
<1> QED BY <1>2, CredsAreNat

\* No two requests wait for each other's rows, but for a removal whose commit comes to a
\* credential registered meanwhile: a request with one lock waits for no other, and
\* removals lock in the order of the ids (passkey-service.ts, removeAllVaultUnlockCredentials).
THEOREM NoRequestsWaitInACircle == Spec => []NoCircularWait
<1>1. Init => SeenIsLocked
  BY PasskeyAssumption DEF Init, Idle, SeenIsLocked
<1>2. Spec => []SeenIsLocked
  BY <1>1, SeenIsLockedStep, AgreeInductive, PTL DEF Spec
<1>3. RequestInv /\ SeenIsLocked => NoCircularWait
  BY LocksPreventCircles
<1> QED BY <1>2, <1>3, RequestInductive, PTL

-----------------------------------------------------------------------------
(* One variant for one accepted assertion                                  *)

\* A request that an accepted assertion has earned a variant, or the proof for one.
Earned(q, c) ==
    /\ q.cred = c
    /\ \/ q.kind = "enroll" /\ q.pc = "issue"
       \/ q.kind = "persist" /\ q.pc \in {"lock", "commit"}

\* An accepted assertion of an enrolment is spent once: as the request that is to store
\* the proof, the proof, the request that has consumed it, and at last the variant.
Tickets(c) == {<<"variant", v>> : v \in {u \in Variants : env[u].cred = c}}
         \cup {<<"proof", t>> : t \in {u \in Tokens : Outstanding(u, "envelope", c)}}
         \cup {<<"request", r>> : r \in {s \in Slots : Earned(req[s], c)}}

FitsIn(c) == IsFiniteSet(Tickets(c)) /\ Cardinality(Tickets(c)) <= cred[c].rev
TicketsFit == \A c \in Creds : FitsIn(c)

\* The revision of a credential never falls.
RevisionsKeep ==
    \A c \in Creds : cred[c].rev \in Nat /\ cred'[c].rev \in Nat /\ cred'[c].rev >= cred[c].rev

LEMMA FewerTicketsFit ==
    ASSUME RevisionsKeep, NEW c \in Creds, FitsIn(c), Tickets(c)' \subseteq Tickets(c)
    PROVE  FitsIn(c)'
<1>1. Tickets(c)' \in SUBSET Tickets(c)
  OBVIOUS
<1>2. IsFiniteSet(Tickets(c)') /\ Cardinality(Tickets(c)') <= Cardinality(Tickets(c))
  BY <1>1, FS_Subset DEF FitsIn
<1>3. Cardinality(Tickets(c)) \in Nat /\ Cardinality(Tickets(c)') \in Nat
  BY <1>2, FS_CardinalityType DEF FitsIn
<1> QED BY <1>2, <1>3 DEF RevisionsKeep, FitsIn

\* One ticket is exchanged for another.
LEMMA TicketTurns ==
    ASSUME TicketsFit, RevisionsKeep, NEW c \in Creds, NEW x \in Tickets(c), NEW y,
           Tickets(c)' \subseteq (Tickets(c) \ {x}) \cup {y},
           \A d \in Creds \ {c} : Tickets(d)' \subseteq Tickets(d)
    PROVE  TicketsFit'
<1> DEFINE T == Tickets(c) \ {x}
<1>1. FitsIn(c)
  BY DEF TicketsFit
<1>2. Cardinality(Tickets(c)) \in Nat
  BY <1>1, FS_CardinalityType DEF FitsIn
<1>3. IsFiniteSet(T) /\ Cardinality(T) = Cardinality(Tickets(c)) - 1
  BY <1>1, FS_RemoveElement DEF FitsIn
<1>4. IsFiniteSet(T \cup {y}) /\ Cardinality(T \cup {y}) <= Cardinality(Tickets(c))
  <2>1. /\ IsFiniteSet(T \cup {y})
        /\ Cardinality(T \cup {y}) = IF y \in T THEN Cardinality(T) ELSE Cardinality(T) + 1
    BY <1>3, FS_AddElement
  <2> HIDE DEF T
  <2> QED BY <1>2, <1>3, <2>1
<1>5. Tickets(c)' \in SUBSET (T \cup {y})
  OBVIOUS
<1>6. IsFiniteSet(Tickets(c)') /\ Cardinality(Tickets(c)') <= Cardinality(T \cup {y})
  BY <1>4, <1>5, FS_Subset
<1>7. Cardinality(Tickets(c)') \in Nat /\ Cardinality(T \cup {y}) \in Nat
  BY <1>4, <1>6, FS_CardinalityType
<1>8. FitsIn(c)'
  <2> HIDE DEF T
  <2> QED BY <1>1, <1>2, <1>4, <1>6, <1>7 DEF RevisionsKeep, FitsIn
<1> QED BY <1>8, FewerTicketsFit DEF TicketsFit

\* An accepted assertion adds one ticket and moves the revision by one.
LEMMA TicketEarned ==
    ASSUME TicketsFit, RevisionsKeep, NEW c \in Creds, NEW y,
           Tickets(c)' \subseteq Tickets(c) \cup {y}, cred'[c].rev = cred[c].rev + 1,
           \A d \in Creds \ {c} : Tickets(d)' \subseteq Tickets(d)
    PROVE  TicketsFit'
<1>1. FitsIn(c)
  BY DEF TicketsFit
<1>2. Cardinality(Tickets(c)) \in Nat
  BY <1>1, FS_CardinalityType DEF FitsIn
<1>3. /\ IsFiniteSet(Tickets(c) \cup {y})
      /\ Cardinality(Tickets(c) \cup {y}) <= Cardinality(Tickets(c)) + 1
  <2>1. /\ IsFiniteSet(Tickets(c) \cup {y})
        /\ Cardinality(Tickets(c) \cup {y})
             = IF y \in Tickets(c) THEN Cardinality(Tickets(c)) ELSE Cardinality(Tickets(c)) + 1
    BY <1>1, FS_AddElement DEF FitsIn
  <2> QED BY <1>2, <2>1
<1>4. Tickets(c)' \in SUBSET (Tickets(c) \cup {y})
  OBVIOUS
<1>5. IsFiniteSet(Tickets(c)') /\ Cardinality(Tickets(c)') <= Cardinality(Tickets(c) \cup {y})
  BY <1>3, <1>4, FS_Subset
<1>6. Cardinality(Tickets(c)') \in Nat /\ Cardinality(Tickets(c) \cup {y}) \in Nat
  BY <1>3, <1>5, FS_CardinalityType
<1>7. FitsIn(c)'
  BY <1>1, <1>2, <1>3, <1>5, <1>6 DEF RevisionsKeep, FitsIn
<1> QED BY <1>7, FewerTicketsFit DEF TicketsFit

\* Most steps make no ticket: they store no enrolment proof, and what a request has
\* earned it had earned before.
NoneEarned ==
    /\ \A v \in Variants : env'[v].cred = env[v].cred
    /\ \A t \in Tokens, c \in Creds :
           Outstanding(t, "envelope", c)' => Outstanding(t, "envelope", c)
    /\ \A r \in Slots, c \in Creds : Earned(req'[r], c) => Earned(req[r], c)

LEMMA NoneEarnedFits ==
    ASSUME TicketsFit, RevisionsKeep, NoneEarned
    PROVE  TicketsFit'
<1>1. \A c \in Creds : Tickets(c)' \subseteq Tickets(c)
  BY DEF Tickets, NoneEarned
<1> QED BY <1>1, FewerTicketsFit DEF TicketsFit

\* A step of one request: it earns nothing by itself.
LEMMA RequestEarnsNothing ==
    ASSUME RequestInv, NEW r \in Slots, NEW q, req' = [req EXCEPT ![r] = q],
           \A c \in Creds : Earned(q, c) => Earned(req[r], c)
    PROVE  \A s \in Slots, c \in Creds : Earned(req'[s], c) => Earned(req[s], c)
<1> SUFFICES ASSUME NEW s \in Slots, NEW c \in Creds, Earned(req'[s], c)
             PROVE  Earned(req[s], c)
  OBVIOUS
<1>1. req' = [req EXCEPT ![r] = q] /\ req \in [Slots -> Requests]
  BY DEF RequestInv, TypeOK
<1>2. CASE s = r
  BY <1>1, <1>2
<1>3. CASE s # r
  BY <1>1, <1>3
<1> QED BY <1>2, <1>3

LEMMA IdleHasEarnedNothing == \A c \in Creds : ~Earned(Idle, c)
BY PasskeyAssumption DEF Earned, Idle, Creds

LEMMA RevisionsStay ==
    ASSUME TypeOK, UNCHANGED cred
    PROVE  RevisionsKeep
<1>1. \A c \in Creds : cred[c].rev \in Nat
  BY PasskeyAssumption DEF TypeOK, Rows
<1> QED BY <1>1 DEF RevisionsKeep

\* A proof of another audience is stored, or one is consumed.
LEMMA OtherProofs ==
    ASSUME TypeOK,
           \/ UNCHANGED challenge
           \/ \E t \in Tokens : challenge' = Consumed(t)
           \/ \E type \in ChallengeTypes \ {"envelope"}, c \in Creds \cup {None} : Store(type, c)
    PROVE  \A t \in Tokens, c \in Creds :
               Outstanding(t, "envelope", c)' => Outstanding(t, "envelope", c)
<1> SUFFICES ASSUME NEW t \in Tokens, NEW c \in Creds, Outstanding(t, "envelope", c)'
             PROVE  Outstanding(t, "envelope", c)
  OBVIOUS
<1>1. None # [type |-> "envelope", cred |-> c]
  BY PasskeyAssumption DEF ChallengeTypes
<1>2. CASE UNCHANGED challenge
  BY <1>2 DEF Outstanding
<1>3. ASSUME NEW u \in Tokens, challenge' = Consumed(u) PROVE Outstanding(t, "envelope", c)
  BY <1>1, <1>3 DEF Consumed, Outstanding, TypeOK
<1>4. ASSUME NEW type \in ChallengeTypes \ {"envelope"}, NEW d \in Creds \cup {None}, Store(type, d)
      PROVE  Outstanding(t, "envelope", c)
  BY <1>4 DEF Store, FreeTokens, Outstanding, TypeOK
<1> QED BY <1>2, <1>3, <1>4

-----------------------------------------------------------------------------
LEMMA OptionsEarn ==
    ASSUME RequestInv, TicketsFit,
           \/ \E c \in Creds : EnrollOptions(c) \/ LoginCandidates(c)
           \/ UnlockOptions
           \/ \E t \in Tokens : Expire(t)
    PROVE  TicketsFit'
<1>1. UNCHANGED <<cred, env, req>>
  BY DEF EnrollOptions, LoginCandidates, UnlockOptions, Expire, rows
<1>2. \/ \E t \in Tokens : challenge' = Consumed(t)
      \/ \E type \in ChallengeTypes \ {"envelope"}, c \in Creds \cup {None} : Store(type, c)
  BY DEF EnrollOptions, LoginCandidates, UnlockOptions, Expire, ChallengeTypes
<1>3. NoneEarned
  BY <1>1, <1>2, OtherProofs DEF RequestInv, NoneEarned
<1> QED BY <1>1, <1>3, RevisionsStay, NoneEarnedFits DEF RequestInv

LEMMA RegisterAndUnbindEarn ==
    ASSUME RequestInv, TicketsFit,
           (\E c \in Creds : RegisterCredential(c)) \/ (\E b \in Bindings : Unbind(b))
    PROVE  TicketsFit'
<1>1. UNCHANGED <<env, req, challenge>>
  BY DEF RegisterCredential, Unbind
<1>2. \A c \in Creds : cred'[c].rev = cred[c].rev
  BY DEF RegisterCredential, Unbind, RequestInv, TypeOK, Rows
<1>3. RevisionsKeep
  <2>1. \A c \in Creds : cred[c].rev \in Nat
    BY PasskeyAssumption DEF RequestInv, TypeOK, Rows
  <2> QED BY <1>2, <2>1 DEF RevisionsKeep
<1>4. NoneEarned
  BY <1>1 DEF NoneEarned, Outstanding
<1> QED BY <1>3, <1>4, NoneEarnedFits

\* A request starts without having earned anything.
LEMMA SendEarns ==
    ASSUME RequestInv, TicketsFit, NEW r \in Slots, Send(r)
    PROVE  TicketsFit'
<1>1. UNCHANGED <<cred, env>>
  BY DEF Send, SendRemoveAll, SendUnlock, SendEnroll, SendPersist, SendBind, SendDisable, rows
<1>2. UNCHANGED challenge \/ \E t \in Tokens : challenge' = Consumed(t)
  BY DEF Send, SendRemoveAll, SendUnlock, SendEnroll, SendPersist, SendBind, SendDisable
<1>3. ASSUME ~UNCHANGED req
      PROVE  req' = [req EXCEPT ![r] = req'[r]] /\ req'[r].pc \in {"advance", "consume", "locking"}
  <2> req \in [Slots -> Requests]
    BY DEF RequestInv, TypeOK
  <2>1. CASE SendRemoveAll(r)
    BY <2>1 DEF SendRemoveAll, Start, Idle
  <2>2. ASSUME NEW c \in Creds, NEW t \in Tokens, SendUnlock(r, c, t)
        PROVE  /\ req' = [req EXCEPT ![r] = req'[r]]
               /\ req'[r].pc \in {"advance", "consume", "locking"}
    BY <1>3, <2>2 DEF SendUnlock, Start, Idle
  <2>3. ASSUME NEW c \in Creds, NEW t \in Tokens, SendEnroll(r, c, t) \/ SendPersist(r, c, t)
        PROVE  /\ req' = [req EXCEPT ![r] = req'[r]]
               /\ req'[r].pc \in {"advance", "consume", "locking"}
    BY <2>3 DEF SendEnroll, SendPersist, Start, Idle
  <2>4. ASSUME NEW c \in Creds, NEW t \in Tokens, NEW v \in Variants,
               SendBind(r, c, t, v) \/ SendDisable(r, c, t, v)
        PROVE  /\ req' = [req EXCEPT ![r] = req'[r]]
               /\ req'[r].pc \in {"advance", "consume", "locking"}
    <3>1. CASE SendBind(r, c, t, v)
      BY <3>1 DEF SendBind, Start, Idle
    <3>2. CASE SendDisable(r, c, t, v)
      BY <3>2 DEF SendDisable, Start, Idle
    <3> QED BY <2>4, <3>1, <3>2
  <2> QED BY <2>1, <2>2, <2>3, <2>4 DEF Send
<1>4. \A s \in Slots, c \in Creds : Earned(req'[s], c) => Earned(req[s], c)
  <2>1. CASE UNCHANGED req
    BY <2>1
  <2>2. CASE ~UNCHANGED req
    <3>1. \A c \in Creds : ~Earned(req'[r], c)
      BY <1>3, <2>2 DEF Earned
    <3> QED BY <1>3, <2>2, <3>1, RequestEarnsNothing
  <2> QED BY <2>1, <2>2
<1>5. NoneEarned
  BY <1>1, <1>2, <1>4, OtherProofs DEF NoneEarned, RequestInv
<1> QED BY <1>1, <1>5, RevisionsStay, NoneEarnedFits DEF RequestInv


\* A request that ends has nothing left.
LEMMA QuitsEarnNothing ==
    ASSUME RequestInv, NEW r \in Slots, Finish(r)
    PROVE  \A s \in Slots, c \in Creds : Earned(req'[s], c) => Earned(req[s], c)
BY IdleHasEarnedNothing, RequestEarnsNothing DEF Finish

\* A step of a request that is no enrolment, or only loses what it has.
LEMMA StepEarnsNothing ==
    ASSUME RequestInv, TicketsFit, NEW r \in Slots, RevisionsKeep,
           \A v \in Variants : env'[v].cred = env[v].cred,
           \/ UNCHANGED challenge
           \/ \E t \in Tokens : challenge' = Consumed(t)
           \/ \E type \in ChallengeTypes \ {"envelope"}, c \in Creds \cup {None} : Store(type, c),
           \/ Finish(r)
           \/ \E q : /\ req' = [req EXCEPT ![r] = q]
                     /\ \A c \in Creds : Earned(q, c) => Earned(req[r], c)
    PROVE  TicketsFit'
<1>1. \A s \in Slots, c \in Creds : Earned(req'[s], c) => Earned(req[s], c)
  BY QuitsEarnNothing, RequestEarnsNothing
<1>2. NoneEarned
  BY <1>1, OtherProofs DEF NoneEarned, RequestInv
<1> QED BY <1>2, NoneEarnedFits

LEMMA CrashEarns ==
    ASSUME RequestInv, TicketsFit, NEW r \in Slots, Crash(r)
    PROVE  TicketsFit'
<1>1. UNCHANGED <<cred, env, challenge>> /\ Finish(r)
  BY DEF Crash, rows
<1>2. RevisionsKeep
  BY <1>1, RevisionsStay DEF RequestInv
<1> QED BY <1>1, <1>2, StepEarnsNothing

\* An enrolment proof becomes the request that has consumed it.
LEMMA ConsumeEarns ==
    ASSUME RequestInv, TicketsFit, NEW r \in Slots, Consume(r)
    PROVE  TicketsFit'
<1>1. PICK q, c, t : q = req[r] /\ c = q.cred /\ t = q.token
  OBVIOUS
<1> DEFINE n == [q EXCEPT !.token = None, !.pc = IF q.kind = "enroll" THEN "advance" ELSE "lock"]
<1>2. q.pc = "consume" /\ UNCHANGED <<cred, env>> /\ q \in Requests
  BY <1>1 DEF Consume, rows, RequestInv, TypeOK
<1>3. RevisionsKeep
  BY <1>2, RevisionsStay DEF RequestInv
<1>4. CASE ~Outstanding(t, Audience(q.kind), c)
  BY <1>1, <1>2, <1>3, <1>4, StepEarnsNothing DEF Consume
<1>5. CASE Outstanding(t, Audience(q.kind), c)
  <2>1. c \in Creds
    BY <1>1, <1>2 DEF RequestInv, Targets, TargetOf
  <2>2. t \in Tokens
    BY <1>1, <1>2 DEF RequestInv, Targets, TargetOf
  <2>3. challenge' = Consumed(t) /\ req' = [req EXCEPT ![r] = n]
    BY <1>1, <1>2, <1>5 DEF Consume
  <2>4. n.cred = c /\ n.kind = q.kind /\ (q.kind # "enroll" => n.pc = "lock") /\ n.pc # "issue"
    <3>1. n.cred = q.cred
      BY <1>2 DEF Requests
    <3>2. n.kind = q.kind
      BY <1>2 DEF Requests
    <3>3. n.pc = IF q.kind = "enroll" THEN "advance" ELSE "lock"
      BY <1>2 DEF Requests
    <3> HIDE DEF n
    <3> QED BY <1>1, <3>1, <3>2, <3>3
  <2>5. CASE q.kind # "persist"
    <3>1. \A d \in Creds : ~Earned(n, d)
      BY <2>4, <2>5 DEF Earned
    <3> QED BY <1>1, <1>2, <1>3, <2>2, <2>3, <3>1, StepEarnsNothing
  <2>6. CASE q.kind = "persist"
    <3>1. \A d \in Creds : d # c => ~Earned(n, d)
      BY <2>4 DEF Earned
    <3>2. Outstanding(t, "envelope", c)
      BY <1>5, <2>6 DEF Audience
    <3>3. <<"proof", t>> \in Tickets(c)
      BY <2>2, <3>2 DEF Tickets
    <3>4. challenge \in [Tokens -> [type : ChallengeTypes, cred : Creds \cup {None}] \cup {None}]
      BY DEF RequestInv, TypeOK
    <3>5. None # [type |-> "envelope", cred |-> c]
      BY <2>1, PasskeyAssumption DEF ChallengeTypes
    <3>6. \A u \in Tokens, d \in Creds :
              Outstanding(u, "envelope", d)' => Outstanding(u, "envelope", d)
      BY <2>2, <2>3, OtherProofs DEF RequestInv
    <3>7. ~Outstanding(t, "envelope", c)'
      <4>1. challenge'[t] = None
        BY <2>2, <2>3, <3>4 DEF Consumed
      <4> QED BY <3>5, <4>1 DEF Outstanding
    <3>8. \A s \in Slots : s # r => req'[s] = req[s]
      BY <2>3 DEF RequestInv, TypeOK
    <3>9. req'[r] = n
      BY <2>3 DEF RequestInv, TypeOK
    <3>10. Tickets(c)' \subseteq (Tickets(c) \ {<<"proof", t>>}) \cup {<<"request", r>>}
      <4> HIDE DEF n
      <4> QED BY <1>2, <2>1, <3>6, <3>7, <3>8 DEF Tickets
    <3>11. \A d \in Creds \ {c} : Tickets(d)' \subseteq Tickets(d)
      <4> HIDE DEF n
      <4> QED BY <1>2, <3>1, <3>6, <3>8, <3>9 DEF Tickets
    <3> HIDE DEF n
    <3> QED BY <1>3, <2>1, <3>3, <3>10, <3>11, TicketTurns
  <2> QED BY <2>5, <2>6
<1> QED BY <1>4, <1>5


\* An accepted enrolment earns what the revision counts.
LEMMA AdvanceCounterEarns ==
    ASSUME RequestInv, TicketsFit, NEW r \in Slots, AdvanceCounter(r)
    PROVE  TicketsFit'
<1>1. PICK q, c : q = req[r] /\ c = q.cred
  OBVIOUS
<1>2. q \in Requests /\ q.pc = "advance" /\ UNCHANGED <<env, challenge>>
  BY <1>1 DEF AdvanceCounter, RequestInv, TypeOK
<1>3. c \in Creds
  BY <1>1, <1>2 DEF RequestInv, Targets, TargetOf
<1>4. CASE ~AcceptedNow(r)
  <2>1. UNCHANGED cred /\ Finish(r)
    BY <1>4 DEF AdvanceCounter
  <2> QED BY <1>2, <2>1, RevisionsStay, StepEarnsNothing DEF RequestInv
<1>5. CASE AcceptedNow(r)
  <2> DEFINE n == [q EXCEPT !.pc = "issue", !.signed = 0,
                            !.read = [NoCred EXCEPT !.vault = @ \/ q.read.vault]]
  <2>1. cred' = [cred EXCEPT ![c].counter = q.signed, ![c].rev = @ + 1]
    BY <1>1, <1>5 DEF AdvanceCounter
  <2>2. req' = [req EXCEPT ![r].pc = "issue", ![r].signed = 0,
                           ![r].read = [NoCred EXCEPT !.vault = @ \/ q.read.vault]]
    BY <1>1, <1>5 DEF AdvanceCounter
  <2>3. \A s \in Slots : s # r => req'[s] = req[s]
    BY <2>2 DEF RequestInv, TypeOK
  <2>4. req'[r].cred = c /\ req'[r].kind = q.kind
    BY <1>1, <1>2, <2>2 DEF RequestInv, TypeOK, Requests
  <2>5. cred \in [Creds -> Rows] /\ \A d \in Creds : cred[d].rev \in Nat
    BY PasskeyAssumption DEF RequestInv, TypeOK, Rows
  <2>6. cred'[c].rev = cred[c].rev + 1
    BY <1>3, <2>1, <2>5 DEF Rows
  <2>7. \A d \in Creds : d # c => cred'[d] = cred[d]
    BY <2>1, <2>5
  <2>8. RevisionsKeep
    BY <2>5, <2>6, <2>7 DEF RevisionsKeep
  <2>9. \A d \in Creds : d # c => ~Earned(req'[r], d)
    BY <2>4 DEF Earned
  <2>10. Tickets(c)' \subseteq Tickets(c) \cup {<<"request", r>>}
    BY <1>2, <2>3 DEF Tickets, Outstanding
  <2>11. \A d \in Creds \ {c} : Tickets(d)' \subseteq Tickets(d)
    BY <1>2, <2>3, <2>9 DEF Tickets, Outstanding
  <2> QED BY <1>3, <2>6, <2>8, <2>10, <2>11, TicketEarned
<1> QED BY <1>4, <1>5

\* The proof of an accepted enrolment takes the place of the request.
LEMMA IssueProofEarns ==
    ASSUME RequestInv, TicketsFit, NEW r \in Slots, IssueProof(r)
    PROVE  TicketsFit'
<1>1. PICK q, c : q = req[r] /\ c = q.cred
  OBVIOUS
<1>2. q \in Requests /\ q.pc = "issue" /\ UNCHANGED <<cred, env>> /\ Finish(r)
  BY <1>1 DEF IssueProof, rows, RequestInv, TypeOK
<1>3. c \in Creds
  BY <1>1, <1>2 DEF RequestInv, Targets, TargetOf
<1>4. RevisionsKeep
  BY <1>2, RevisionsStay DEF RequestInv
<1>5. CASE UNCHANGED challenge
  BY <1>2, <1>4, <1>5, StepEarnsNothing
<1>6. CASE q.kind # "enroll" /\ Store("binding", c)
  BY <1>2, <1>3, <1>4, <1>6, StepEarnsNothing DEF ChallengeTypes
<1>7. CASE q.kind = "enroll" /\ Store("envelope", c)
  <2>1. PICK t \in FreeTokens :
            challenge' = [challenge EXCEPT ![t] = [type |-> "envelope", cred |-> c]]
    BY <1>7 DEF Store
  <2>2. challenge \in [Tokens -> [type : ChallengeTypes, cred : Creds \cup {None}] \cup {None}]
    BY DEF RequestInv, TypeOK
  <2>3. \A u \in Tokens : u # t => challenge'[u] = challenge[u]
    BY <2>1, <2>2
  <2>4. challenge'[t] = [type |-> "envelope", cred |-> c]
    BY <2>1, <2>2 DEF FreeTokens
  <2>5. \A s \in Slots : s # r => req'[s] = req[s]
    BY <1>2 DEF Finish, RequestInv, TypeOK
  <2>6. \A d \in Creds : ~Earned(req'[r], d)
    BY <1>2, IdleHasEarnedNothing DEF Finish, RequestInv, TypeOK
  <2>7. <<"request", r>> \in Tickets(c)
    BY <1>1, <1>2, <1>7 DEF Tickets, Earned
  <2>8. Tickets(c)' \subseteq (Tickets(c) \ {<<"request", r>>}) \cup {<<"proof", t>>}
    BY <1>2, <1>3, <2>3, <2>5, <2>6 DEF Tickets, Outstanding
  <2>9. \A d \in Creds \ {c} : ~Outstanding(t, "envelope", d)'
    BY <2>4 DEF Outstanding
  <2>10. \A d \in Creds \ {c} : Tickets(d)' \subseteq Tickets(d)
    BY <1>2, <2>3, <2>5, <2>6, <2>9 DEF Tickets, Outstanding
  <2> QED BY <1>3, <1>4, <2>7, <2>8, <2>10, TicketTurns
<1> QED BY <1>1, <1>5, <1>6, <1>7 DEF IssueProof

LEMMA LockAndReadEarns ==
    ASSUME RequestInv, TicketsFit, NEW r \in Slots, LockAndRead(r)
    PROVE  TicketsFit'
<1>1. PICK q : q = req[r]
  OBVIOUS
<1>2. q \in Requests /\ q.pc = "lock" /\ UNCHANGED <<cred, env, challenge>>
  BY <1>1 DEF LockAndRead, rows, RequestInv, TypeOK
<1>3. Finish(r) \/ req' = [req EXCEPT ![r] = [q EXCEPT !.pc = "commit"]]
  BY <1>1 DEF LockAndRead, Goto
<1>4. \A c \in Creds : Earned([q EXCEPT !.pc = "commit"], c) => Earned(q, c)
  BY <1>2 DEF Earned, Requests
<1>5. RevisionsKeep
  BY <1>2, RevisionsStay DEF RequestInv
<1> QED BY <1>1, <1>2, <1>3, <1>4, <1>5, StepEarnsNothing

\* The persisted envelope takes the place of the request that consumed the proof.
LEMMA CommitPersistEarns ==
    ASSUME RequestInv, TicketsFit, NEW r \in Slots, CommitPersist(r)
    PROVE  TicketsFit'
<1>1. PICK q, c : q = req[r] /\ c = q.cred
  OBVIOUS
<1>2. q \in Requests /\ q.pc = "commit" /\ q.kind = "persist" /\ UNCHANGED challenge
  BY <1>1 DEF CommitPersist, RequestInv, TypeOK
<1>3. c \in Creds
  BY <1>1, <1>2 DEF RequestInv, Targets, TargetOf
<1>4. PICK v \in FreeVariants : env' = [env EXCEPT ![v] = [cred |-> c, active |-> TRUE]]
  BY <1>1 DEF CommitPersist
<1>5. \A u \in Variants : u # v => env'[u] = env[u]
  BY <1>4 DEF RequestInv, TypeOK
<1>6. env'[v].cred = c
  BY <1>4 DEF FreeVariants, RequestInv, TypeOK
<1>7. req' = [req EXCEPT ![r].pc = "issue"]
  BY DEF CommitPersist, Goto
<1>8. \A s \in Slots : s # r => req'[s] = req[s]
  BY <1>7 DEF RequestInv, TypeOK
<1>9. req'[r].kind = "persist" /\ req'[r].pc = "issue"
  BY <1>1, <1>2, <1>7 DEF RequestInv, TypeOK, Requests
<1>10. \A d \in Creds : ~Earned(req'[r], d)
  BY <1>9 DEF Earned
<1>11. RevisionsKeep
  <2>1. cred \in [Creds -> Rows] /\ \A d \in Creds : cred[d].rev \in Nat
    BY PasskeyAssumption DEF RequestInv, TypeOK, Rows
  <2>2. \A d \in Creds : cred'[d].rev = cred[d].rev
    BY <1>1, <1>3, <2>1 DEF CommitPersist, Rows
  <2> QED BY <2>1, <2>2 DEF RevisionsKeep
<1>12. <<"request", r>> \in Tickets(c)
  BY <1>1, <1>2 DEF Tickets, Earned
<1>13. Tickets(c)' \subseteq (Tickets(c) \ {<<"request", r>>}) \cup {<<"variant", v>>}
  BY <1>2, <1>3, <1>5, <1>8, <1>10 DEF Tickets, Outstanding
<1>14. \A d \in Creds \ {c} : Tickets(d)' \subseteq Tickets(d)
  BY <1>2, <1>5, <1>6, <1>8, <1>10 DEF Tickets, Outstanding
<1> QED BY <1>3, <1>11, <1>12, <1>13, <1>14, TicketTurns

LEMMA CommitBindEarns ==
    ASSUME RequestInv, TicketsFit, NEW r \in Slots, CommitBind(r)
    PROVE  TicketsFit'
<1>1. UNCHANGED <<cred, env, challenge>> /\ Finish(r)
  BY DEF CommitBind
<1> QED BY <1>1, RevisionsStay, StepEarnsNothing DEF RequestInv

LEMMA RetiredKeepRevisions ==
    ASSUME TypeOK, \A c \in Creds : cred'[c] = cred[c] \/ cred'[c] = Retire(cred[c], c)
    PROVE  RevisionsKeep
<1>1. \A c \in Creds : cred[c] \in Rows /\ cred[c].rev \in Nat
  BY PasskeyAssumption DEF TypeOK, Rows
<1>2. \A c \in Creds : Retire(cred[c], c).rev = cred[c].rev
  BY <1>1 DEF Retire, Rows
<1> QED BY <1>1, <1>2 DEF RevisionsKeep

\* Disabling and removing only switch variants off.
LEMMA RemovalsEarn ==
    ASSUME RequestInv, TicketsFit, NEW r \in Slots, CommitDisable(r) \/ CommitRemoval(r)
    PROVE  TicketsFit'
<1>1. UNCHANGED challenge /\ Finish(r)
  BY DEF CommitDisable, CommitRemoval
<1>2. \A v \in Variants : env'[v] \in {env[v], [env[v] EXCEPT !.active = FALSE]}
  BY DEF CommitDisable, CommitRemoval
<1>3. \A v \in Variants : env'[v].cred = env[v].cred
  BY <1>2 DEF RequestInv, TypeOK
<1>4. \A c \in Creds : cred'[c] = cred[c] \/ cred'[c] = Retire(cred[c], c)
  BY DEF CommitDisable, CommitRemoval, RequestInv, TypeOK
<1>5. RevisionsKeep
  BY <1>4, RetiredKeepRevisions DEF RequestInv
<1> QED BY <1>1, <1>3, <1>5, StepEarnsNothing

LEMMA RemovalStepsEarn ==
    ASSUME RequestInv, TicketsFit, NEW r \in Slots, LockNext(r) \/ ReadAgain(r) \/ ReadEnvelopes(r) \/ UpdateRow(r)
    PROVE  TicketsFit'
<1>1. PICK q : q = req[r]
  OBVIOUS
<1>2. q \in Requests /\ UNCHANGED <<cred, env, challenge>>
  BY <1>1 DEF LockNext, ReadAgain, ReadEnvelopes, UpdateRow, rows, RequestInv, TypeOK
<1>3. q.kind = "remove"
  BY <1>1 DEF LockNext, ReadAgain, ReadEnvelopes, UpdateRow, RequestInv, Targets, TargetOf
<1>4. Finish(r) \/ (req' = [req EXCEPT ![r] = req'[r]] /\ req'[r].kind = "remove")
  <2>1. ASSUME NEW c, req' = [req EXCEPT ![r].todo = @ \ {c}]
        PROVE  req' = [req EXCEPT ![r] = req'[r]] /\ req'[r].kind = "remove"
    BY <1>1, <1>2, <1>3, <2>1 DEF RequestInv, TypeOK, Requests
  <2>2. ASSUME NEW c, req' = [req EXCEPT ![r].pc = "envelopes", ![r].seen = c]
        PROVE  req' = [req EXCEPT ![r] = req'[r]] /\ req'[r].kind = "remove"
    BY <1>1, <1>2, <1>3, <2>2 DEF RequestInv, TypeOK, Requests
  <2>3. ASSUME NEW c, req' = [req EXCEPT ![r].pc = "commit", ![r].seenEnv = c]
        PROVE  req' = [req EXCEPT ![r] = req'[r]] /\ req'[r].kind = "remove"
    BY <1>1, <1>2, <1>3, <2>3 DEF RequestInv, TypeOK, Requests
  <2>4. ASSUME UpdateRow(r)
        PROVE  req' = [req EXCEPT ![r] = req'[r]] /\ req'[r].kind = "remove"
    BY <1>1, <1>3, <2>4 DEF UpdateRow, RequestInv, TypeOK
  <2> QED BY <2>1, <2>2, <2>3, <2>4 DEF LockNext, ReadAgain, ReadEnvelopes
<1>5. req'[r].kind = "remove" => \A c \in Creds : ~Earned(req'[r], c)
  BY DEF Earned
<1>6. RevisionsKeep
  BY <1>2, RevisionsStay DEF RequestInv
<1> QED BY <1>2, <1>4, <1>5, <1>6, StepEarnsNothing

-----------------------------------------------------------------------------
LEMMA TicketsInit == Init => TicketsFit
<1> SUFFICES ASSUME Init, NEW c \in Creds PROVE FitsIn(c)
  BY DEF TicketsFit
<1>1. \A r \in Slots : ~Earned(req[r], c)
  BY IdleHasEarnedNothing DEF Init
<1>2. \A t \in Tokens : ~Outstanding(t, "envelope", c)
  BY PasskeyAssumption DEF Init, Outstanding, ChallengeTypes
<1>3. \A v \in Variants : env[v].cred # c
  BY PasskeyAssumption DEF Init
<1>4. Tickets(c) = {}
  BY <1>1, <1>2, <1>3 DEF Tickets
<1>5. cred[c].rev = 0
  BY DEF Init, NoCred
<1> QED BY <1>4, <1>5, FS_EmptySet DEF FitsIn

LEMMA TicketsStep == RequestInv /\ TicketsFit /\ [Next]_vars => TicketsFit'
<1> SUFFICES ASSUME RequestInv, TicketsFit, [Next]_vars PROVE TicketsFit'
  OBVIOUS
<1>1. CASE UNCHANGED vars
  <2>1. NoneEarned /\ UNCHANGED cred
    BY <1>1 DEF vars, NoneEarned, Outstanding
  <2> QED BY <2>1, RevisionsStay, NoneEarnedFits DEF RequestInv
<1>2. ASSUME NEW c \in Creds, RegisterCredential(c) \/ EnrollOptions(c) \/ LoginCandidates(c)
      PROVE  TicketsFit'
  BY <1>2, OptionsEarn, RegisterAndUnbindEarn
<1>3. CASE UnlockOptions \/ (\E t \in Tokens : Expire(t)) \/ \E b \in Bindings : Unbind(b)
  BY <1>3, OptionsEarn, RegisterAndUnbindEarn
<1>4. ASSUME NEW r \in Slots, Send(r) PROVE TicketsFit'
  BY <1>4, SendEarns
<1>5. ASSUME NEW r \in Slots, Work(r) PROVE TicketsFit'
  BY <1>5, ConsumeEarns, AdvanceCounterEarns, IssueProofEarns, LockAndReadEarns,
     CommitPersistEarns, CommitBindEarns, RemovalsEarn, RemovalStepsEarn DEF Work
<1>6. ASSUME NEW r \in Slots, Crash(r) PROVE TicketsFit'
  BY <1>6, CrashEarns
<1> QED BY <1>1, <1>2, <1>3, <1>4, <1>5, <1>6 DEF Next

\* No challenge and no enrolment proof serves twice: however the requests overlap, crash
\* or are repeated, every variant stands for an accepted assertion of its own.
THEOREM VariantsAreEarned == Spec => []VariantsAreConfirmed
<1>1. RequestInv /\ TicketsFit => VariantsAreConfirmed
  <2> SUFFICES ASSUME RequestInv, TicketsFit, NEW c \in Creds
               PROVE  Cardinality({v \in Variants : env[v].cred = c}) <= cred[c].rev
    BY DEF VariantsAreConfirmed
  <2> DEFINE V == {v \in Variants : env[v].cred = c}
             T == Tickets(c)
             f == [v \in V |-> <<"variant", v>>]
  <2>1. IsFiniteSet(T) /\ Cardinality(T) <= cred[c].rev /\ cred[c].rev \in Nat
    BY PasskeyAssumption DEF TicketsFit, FitsIn, RequestInv, TypeOK, Rows
  <2>2. f \in Injection(V, T)
    BY DEF Tickets, Injection, IsInjective
  <2> HIDE DEF V, T, f
  <2>3. IsFiniteSet(V) /\ Cardinality(V) <= Cardinality(T)
    BY <2>1, <2>2, FS_Injection
  <2>4. Cardinality(V) \in Nat /\ Cardinality(T) \in Nat
    BY <2>1, <2>3, FS_CardinalityType
  <2>5. Cardinality(V) <= cred[c].rev
    BY <2>1, <2>3, <2>4
  <2> QED BY <2>5 DEF V
<1> QED BY <1>1, TicketsInit, TicketsStep, RequestInductive, PTL DEF Spec

=============================================================================
