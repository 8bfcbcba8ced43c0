-------------------------- MODULE AsyncOwnership --------------------------
(***************************************************************************)
(* One AsyncOwnershipController (lib/application-state/async-ownership.ts) *)
(* with the vault leases that vault-async-ownership.ts adds to it: the     *)
(* guard every asynchronous reader and writer of private data goes         *)
(* through.  Requests capture it, the vault locks, opens and changes its   *)
(* owner, and an answer is applied only under a current token and lease.   *)
(***************************************************************************)
EXTENDS VaultCore

CONSTANTS
    Requests,        \* calls in flight
    Resources,       \* resource ids, with the fingerprint of a wrapped key
    NoScope, NoToken,
    MaxGeneration    \* bound on the controller's counter

ASSUME OwnershipAssumption == MaxGeneration \in Nat

VARIABLES
    session,         \* the vault session
    controller,      \* #generation and #scope
    token,           \* each waiting request's token
    lease            \* and its lease

ownershipVars == <<session, controller, token, lease>>

Scopes == [ownerId : Owners, leaseEpoch : 0..MaxEpoch, resourceId : Resources]
Tokens == [generation : 0..MaxGeneration, scope : Scopes]

ASSUME NullAssumption == NoScope \notin Scopes /\ NoToken \notin Tokens

OwnershipInit ==
    /\ session = EmptySession
    /\ controller = [generation |-> 0, scope |-> NoScope]
    /\ token = [r \in Requests |-> NoToken]
    /\ lease = [r \in Requests |-> NoLease]

Waiting(r) == token[r] # NoToken

\* MUTANT: a new request does not raise the generation.
NextGenerationStays == controller.generation

\* The counter of capture() and invalidate().
NextGeneration == controller.generation + 1

\* MUTANT: a capture without a lease does not throw.
CaptureLocked(r, o, i) ==
    /\ ~Waiting(r)
    /\ controller.generation < MaxGeneration
    /\ lease' = [lease EXCEPT ![r] = CaptureLease(session, o)]
    /\ controller' = [generation |-> NextGeneration,
                      scope |-> [ownerId |-> o, leaseEpoch |-> lease'[r].epoch, resourceId |-> i]]
    /\ token' = [token EXCEPT ![r] = [generation |-> controller'.generation,
                                      scope |-> controller'.scope]]
    /\ UNCHANGED session

\* captureVaultAsyncOwnership(controller, {o, i})
Capture(r, o, i) ==
    /\ ~Waiting(r)
    /\ CaptureLease(session, o) # NoLease
    /\ controller.generation < MaxGeneration
    /\ lease' = [lease EXCEPT ![r] = CaptureLease(session, o)]
    /\ controller' = [generation |-> NextGeneration,
                      scope |-> [ownerId |-> o, leaseEpoch |-> lease'[r].epoch, resourceId |-> i]]
    /\ token' = [token EXCEPT ![r] = [generation |-> controller'.generation,
                                      scope |-> controller'.scope]]
    /\ UNCHANGED session

\* isCurrent(token): sameScope compares every field of the scope.
IsCurrent(t) ==
    /\ t.generation = controller.generation
    /\ controller.scope # NoScope
    /\ t.scope = controller.scope

\* MUTANT: the lease is not asserted.
TokenAlone(r) == Waiting(r) /\ IsCurrent(token[r])

\* assertVaultAsyncOwnershipCurrent
OwnershipCurrent(r) ==
    /\ Waiting(r)
    /\ IsCurrent(token[r])
    /\ LeaseCurrent(session, lease[r])

Forget(r) ==
    /\ token' = [token EXCEPT ![r] = NoToken]
    /\ lease' = [lease EXCEPT ![r] = NoLease]

\* The answer arrives, the assertion passes and the result is committed.
Commit(r) ==
    /\ OwnershipCurrent(r)
    /\ Forget(r)
    /\ UNCHANGED <<session, controller>>

\* The assertion throws AsyncOwnershipCancelledError, or the request itself failed.
Cancel(r) ==
    /\ Waiting(r)
    /\ Forget(r)
    /\ UNCHANGED <<session, controller>>

\* invalidate(): an unmount, or a listener of the vault session.
Invalidate ==
    /\ controller.generation < MaxGeneration
    /\ controller' = [generation |-> NextGeneration, scope |-> NoScope]
    /\ UNCHANGED <<session, token, lease>>

\* The vault is opened for o, with whatever key was there replaced.
UnlockFor(o) ==
    /\ session.epoch < MaxEpoch
    /\ session' = CoreInstall(CoreBegin(session, NoAttempt, o))
    /\ UNCHANGED <<controller, token, lease>>

LockVault ==
    /\ session' = CoreLock(session)
    /\ UNCHANGED <<controller, token, lease>>

ForgetOwner ==
    /\ session' = CoreClearOwner(session)
    /\ UNCHANGED <<controller, token, lease>>

OwnershipNext ==
    \/ \E r \in Requests :
         Commit(r) \/ Cancel(r) \/ \E o \in Owners, i \in Resources : Capture(r, o, i)
    \/ Invalidate
    \/ \E o \in Owners : UnlockFor(o)
    \/ LockVault \/ ForgetOwner

OwnershipSpec == OwnershipInit /\ [][OwnershipNext]_ownershipVars
---------------------------------------------------------------------------
OwnershipTypeOK ==
    /\ session \in Sessions
    /\ controller \in [generation : 0..MaxGeneration, scope : Scopes \cup {NoScope}]
    /\ token \in [Requests -> Tokens \cup {NoToken}]
    /\ lease \in [Requests -> Leases \cup {NoLease}]
    /\ \A r \in Requests : Waiting(r) => lease[r] \in Leases

Latest == INSTANCE LatestRequest
            WITH waiting  <- {r \in Requests : Waiting(r)},
                 entitled <- {r \in Requests : OwnershipCurrent(r)}

\* The controller and the leases together are a last-request-wins register: only the request
\* that captured last may commit, and no capture that preceded an invalidation, a lock, a new
\* key or a change of owner is ever current again.
LastRequestWins == Latest!Spec

\* A request may commit only for the owner whose vault is open, and under the key it began with.
CommitsForOpenVault ==
    \A r \in Requests :
        OwnershipCurrent(r) => token[r].scope.ownerId = session.key /\ token[r].scope.leaseEpoch = session.epoch
==========================================================================
