------------------------------ MODULE Credentials ------------------------------
(***************************************************************************)
(* The credentials of the VPSie API client (src/pkg/vpsie/client/client.go)*)
(* and their rotation by the NodeGroup controller when the secret changes  *)
(* (src/pkg/controller/nodegroup/controller.go).  Requests of any number   *)
(* of goroutines use the client meanwhile.  Every action is what happens   *)
(* under one hold of the client's lock, or of the lock of the hash.        *)
(*                                                                         *)
(* The secret holds a pair of clientId and clientSecret, with which tokens *)
(* are obtained, or a simple token.  A token obtained with a pair is       *)
(* represented by that pair, a hash by what is hashed.                     *)
(***************************************************************************)
EXTENDS Naturals, FiniteSets

CONSTANTS
  Pairs,        \* clientId/clientSecret pairs
  Tokens,       \* simple tokens
  None,
  Rotations,    \* goroutines that secret events have started
  Requests,     \* goroutines that use the client
  Changes       \* bound: changes of the secret and of what the provider accepts

ASSUME ConstantsAssumption ==
  /\ Pairs \cap Tokens = {} /\ None \notin Pairs \cup Tokens
  /\ Changes \in Nat

VARIABLES
  secret,       \* what the secret holds
  valid,        \* what the provider accepts
  client,       \* the client's credentials and its access token
  hash,         \* credentialsHash of the reconciler
  rotation, request,
  clean,        \* requests that nothing has disturbed so far
  changes

vars == <<secret, valid, client, hash, rotation, request, clean, changes>>

Secrets == Pairs \cup Tokens

Clients == [pair : Pairs \cup {None}, token : Secrets \cup {None},
            age : {"fresh", "due", "expired"}]

NoClient == [pair |-> None, token |-> None, age |-> "due"]

TypeOK ==
  /\ secret \in Secrets /\ valid \in SUBSET Secrets /\ hash \in Secrets
  /\ client \in [pair : Pairs \cup {None}, token : Secrets \cup {None},
                 age : {"fresh", "due", "expired"}, useSimpleToken : BOOLEAN]
  /\ rotation \in [Rotations -> [step : {"idle", "check", "install", "refresh", "rollback", "commit"},
                                 new : Secrets \cup {None}, old : Clients]]
  /\ request \in [Requests -> {"idle", "refresh", "send", "retoken", "resend",
                               "unauthorized"}]
  /\ clean \in [Requests -> BOOLEAN]
  /\ changes \in 0..Changes

Idle == [step |-> "idle", new |-> None, old |-> NoClient]

Settled == \A r \in Rotations : rotation[r].step \in {"idle", "check", "install"}

\* NewClient prefers a simple token; with a pair it obtains a token, or fails.
Init ==
  /\ secret \in Secrets /\ valid \in SUBSET Secrets
  /\ secret \in Pairs => secret \in valid
  /\ client = [pair |-> IF secret \in Pairs THEN secret ELSE None, token |-> secret,
               age |-> "fresh", useSimpleToken |-> secret \in Tokens]
  /\ hash = secret
  /\ rotation = [r \in Rotations |-> Idle]
  /\ request = [q \in Requests |-> "idle"] /\ clean = [q \in Requests |-> FALSE]
  /\ changes = 0

-----------------------------------------------------------------------------
(* Around the client.                                                      *)

Change == changes < Changes /\ changes' = changes + 1

ChangeSecret(s) ==
  /\ Change /\ s # secret /\ secret' = s
  /\ UNCHANGED <<valid, client, hash, rotation, request, clean>>

\* The provider begins or ceases to accept s and the tokens obtained with it.
Accept(s) ==
  /\ Change /\ s \notin valid /\ valid' = valid \cup {s}
  /\ UNCHANGED <<secret, client, hash, rotation, request, clean>>

Revoke(s) ==
  /\ Change /\ s \in valid /\ valid' = valid \ {s}
  /\ clean' = [q \in Requests |-> FALSE]
  /\ UNCHANGED <<secret, client, hash, rotation, request>>

\* Tokens obtained with a pair expire; no request is as long as that.
Older(age) == IF age = "fresh" THEN "due" ELSE "expired"

Age ==
  /\ client.token \in Pairs /\ client.age # "expired"
  /\ \A q \in Requests : request[q] # "resend"
  /\ client' = [client EXCEPT !.age = Older(@)]
  /\ UNCHANGED <<secret, valid, hash, rotation, request, clean, changes>>

Accepted(token, age) == token \in valid /\ age # "expired"

-----------------------------------------------------------------------------
(* refreshToken holds the lock from reading the pair to storing the token. *)

\* Mutant of Obtain: the new expiry is not stored.
ObtainMutant ==
  /\ client.pair \in valid
  /\ client' = [client EXCEPT !.token = client.pair]

Obtain ==
  /\ client.pair \in valid
  /\ client' = [client EXCEPT !.token = client.pair, !.age = "fresh"]

-----------------------------------------------------------------------------
(* checkAndRotateCredentials, one goroutine for every event of the secret. *)

At(r, step) == rotation[r].step = step
Goto(r, step) == rotation' = [rotation EXCEPT ![r].step = step]

SecretEvent(r) ==
  /\ At(r, "idle")
  /\ rotation' = [rotation EXCEPT ![r] = [Idle EXCEPT !.step = "check", !.new = secret]]
  /\ UNCHANGED <<secret, valid, client, hash, request, clean, changes>>

Unchanged(r) ==
  /\ At(r, "check") /\ rotation[r].new = hash
  /\ rotation' = [rotation EXCEPT ![r] = Idle]
  /\ UNCHANGED <<secret, valid, client, hash, request, clean, changes>>

Changed(r) ==
  /\ At(r, "check") /\ rotation[r].new # hash
  /\ Goto(r, "install")
  /\ UNCHANGED <<secret, valid, client, hash, request, clean, changes>>

UpdateToken(r) ==
  /\ At(r, "install") /\ rotation[r].new \in Tokens
  /\ client' = [client EXCEPT !.token = rotation[r].new, !.age = "fresh",
                              !.useSimpleToken = TRUE]
  /\ Goto(r, "commit")
  /\ clean' = [q \in Requests |-> FALSE]
  /\ UNCHANGED <<secret, valid, hash, request, changes>>

\* Mutant of InstallCredentials: a simple token is taken for a pair.
InstallCredentialsMutant(r) ==
  /\ At(r, "install")
  /\ rotation' = [rotation EXCEPT ![r].step = "refresh"]
  /\ client' = [client EXCEPT !.pair = rotation[r].new]
  /\ UNCHANGED <<secret, valid, hash, request, clean, changes>>

\* UpdateCredentials, up to its Unlock.
InstallCredentials(r) ==
  /\ At(r, "install") /\ rotation[r].new \in Pairs
  /\ rotation' = [rotation EXCEPT ![r].step = "refresh",
       ![r].old = [pair |-> client.pair, token |-> client.token, age |-> client.age]]
  /\ client' = [client EXCEPT !.pair = rotation[r].new, !.token = None, !.age = "due"]
  /\ clean' = [q \in Requests |-> FALSE]
  /\ UNCHANGED <<secret, valid, hash, request, changes>>

ValidateCredentials(r) ==
  /\ At(r, "refresh")
  /\ \/ Obtain /\ Goto(r, "commit")
     \/ UNCHANGED client /\ Goto(r, "rollback")
  /\ UNCHANGED <<secret, valid, hash, request, clean, changes>>

\* Mutant of RollbackCredentials: the token is not restored.
RollbackCredentialsMutant(r) ==
  /\ At(r, "rollback")
  /\ client' = [client EXCEPT !.pair = rotation[r].old.pair]
  /\ rotation' = [rotation EXCEPT ![r] = Idle]
  /\ UNCHANGED <<secret, valid, hash, request, clean, changes>>

RollbackCredentials(r) ==
  /\ At(r, "rollback")
  /\ LET old == rotation[r].old
     IN client' = [client EXCEPT !.pair = old.pair, !.token = old.token, !.age = old.age]
  /\ rotation' = [rotation EXCEPT ![r] = Idle]
  /\ UNCHANGED <<secret, valid, hash, request, clean, changes>>

StoreHash(r) ==
  /\ At(r, "commit")
  /\ hash' = rotation[r].new
  /\ rotation' = [rotation EXCEPT ![r] = Idle]
  /\ UNCHANGED <<secret, valid, client, request, clean, changes>>

-----------------------------------------------------------------------------
(* doRequest.                                                              *)

Proceed(q, step) == request' = [request EXCEPT ![q] = step]

\* ensureValidToken leaves a simple token alone, and one that is not due.
BeginRequest(q) ==
  /\ request[q] \in {"idle", "unauthorized"}
  /\ Proceed(q, IF client.useSimpleToken \/ client.age = "fresh" THEN "send" ELSE "refresh")
  /\ clean' = [clean EXCEPT ![q] = Settled /\ client.pair \in valid]
  /\ UNCHANGED <<secret, valid, client, hash, rotation, changes>>

\* A request that can not get a token, or gets no answer, ends with another error.
EnsureValidToken(q) ==
  /\ request[q] = "refresh"
  /\ \/ Obtain /\ Proceed(q, "send")
     \/ UNCHANGED client /\ Proceed(q, "idle")
  /\ UNCHANGED <<secret, valid, hash, rotation, clean, changes>>

Send(q) ==
  /\ request[q] = "send"
  /\ \/ Proceed(q, "idle")
     \/ ~ Accepted(client.token, client.age) /\ Proceed(q, "retoken")
  /\ UNCHANGED <<secret, valid, client, hash, rotation, clean, changes>>

\* After a 401 a new token is obtained, of whatever kind the old one was.
Retoken(q) ==
  /\ request[q] = "retoken"
  /\ \/ Obtain /\ Proceed(q, "resend") /\ UNCHANGED clean
     \/ /\ UNCHANGED client /\ Proceed(q, "unauthorized")
        /\ clean' = [clean EXCEPT ![q] = @ /\ client.pair \notin valid]   \* no answer
  /\ UNCHANGED <<secret, valid, hash, rotation, changes>>

\* doRequestWithToken reads the token again, and does not try a third time.
Resend(q) ==
  /\ request[q] = "resend"
  /\ \/ Proceed(q, "idle")
     \/ ~ Accepted(client.token, client.age) /\ Proceed(q, "unauthorized")
  /\ UNCHANGED <<secret, valid, client, hash, rotation, clean, changes>>

Next ==
  \/ \E s \in Secrets : ChangeSecret(s) \/ Accept(s) \/ Revoke(s)
  \/ Age
  \/ \E r \in Rotations :
       \/ SecretEvent(r) \/ Unchanged(r) \/ Changed(r) \/ UpdateToken(r)
       \/ InstallCredentials(r) \/ ValidateCredentials(r) \/ RollbackCredentials(r)
       \/ StoreHash(r)
  \/ \E q \in Requests :
       BeginRequest(q) \/ EnsureValidToken(q) \/ Send(q) \/ Retoken(q) \/ Resend(q)

Spec == Init /\ [][Next]_vars

-----------------------------------------------------------------------------
(* Properties.                                                             *)

\* When no rotation is under way the client has a token, and the pair whose hash
\* the reconciler compares with the secret, also after rotations that failed
\* (client.go:888, "the old credentials are retained").
RotationsSettle ==
  Settled =>
    /\ client.token # None
    /\ hash \in Pairs => client.pair = hash

\* A request ends as unauthorized only if a rotation or a revocation fell into it,
\* or the client's pair was not accepted to begin with: an expired token, or one
\* that another goroutine has replaced, is made up for by the second try.
UnauthorizedForAReason ==
  \A q \in Requests : request[q] = "unauthorized" => ~ clean[q]
=============================================================================
