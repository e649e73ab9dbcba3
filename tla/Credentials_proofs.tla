-------------------------- MODULE Credentials_proofs --------------------------
(***************************************************************************)
(* Theorems about Credentials, for any credentials, goroutines and number  *)
(* of changes.  RotationsSettle needs rotations not to overlap.            *)
(***************************************************************************)
EXTENDS Credentials, TLAPS

\* A rotation that has begun has something to install.
NewIsSecret == \A r \in Rotations : rotation[r].step # "idle" => rotation[r].new \in Secrets

TypeInv == TypeOK /\ NewIsSecret

LEMMA InitTypeInv == Init => TypeInv
  BY ConstantsAssumption
     DEF Init, TypeInv, TypeOK, NewIsSecret, Idle, NoClient, Clients, Secrets

\* Obtaining a token keeps the types of the client.
LEMMA ObtainType == TypeOK /\ Obtain => client' \in [pair : Pairs \cup {None},
    token : Secrets \cup {None}, age : {"fresh", "due", "expired"}, useSimpleToken : BOOLEAN]
  BY ConstantsAssumption DEF TypeOK, Obtain, Secrets

LEMMA StepTypeInv == TypeInv /\ [Next]_vars => TypeInv'
<1> SUFFICES ASSUME TypeInv, [Next]_vars PROVE TypeInv'
  OBVIOUS
<1> USE DEF TypeInv, TypeOK, NewIsSecret
<1>1. ASSUME NEW s \in Secrets, ChangeSecret(s) \/ Accept(s) \/ Revoke(s) PROVE TypeInv'
  <2>1. changes' \in 0..Changes
    BY <1>1, ConstantsAssumption DEF ChangeSecret, Accept, Revoke, Change
  <2> QED BY <1>1, <2>1 DEF ChangeSecret, Accept, Revoke, Secrets
<1>2. CASE Age
  BY <1>2 DEF Age, Older
<1>3. ASSUME NEW r \in Rotations, SecretEvent(r) PROVE TypeInv'
  BY <1>3 DEF SecretEvent, Idle, NoClient, Clients
<1>4. ASSUME NEW r \in Rotations, Unchanged(r) PROVE TypeInv'
  BY <1>4 DEF Unchanged, Idle, NoClient, Clients
<1>5. ASSUME NEW r \in Rotations, Changed(r) PROVE TypeInv'
  BY <1>5 DEF Changed, At, Goto
<1>6. ASSUME NEW r \in Rotations, UpdateToken(r) PROVE TypeInv'
  BY <1>6 DEF UpdateToken, At, Goto, Secrets
<1>7. ASSUME NEW r \in Rotations, InstallCredentials(r) PROVE TypeInv'
  BY <1>7 DEF InstallCredentials, At, Clients
<1>8. ASSUME NEW r \in Rotations, ValidateCredentials(r) PROVE TypeInv'
  BY <1>8, ObtainType DEF ValidateCredentials, At, Goto
<1>9. ASSUME NEW r \in Rotations, RollbackCredentials(r) PROVE TypeInv'
  BY <1>9 DEF RollbackCredentials, Idle, NoClient, Clients, At
<1>10. ASSUME NEW r \in Rotations, StoreHash(r) PROVE TypeInv'
  BY <1>10 DEF StoreHash, Idle, NoClient, Clients, At
<1>11. ASSUME NEW q \in Requests, BeginRequest(q) PROVE TypeInv'
  <2>1. (Settled /\ client.pair \in valid) \in BOOLEAN
    BY DEF Settled
  <2> QED BY <1>11, <2>1 DEF BeginRequest, Proceed
<1>12. ASSUME NEW q \in Requests, EnsureValidToken(q) PROVE TypeInv'
  BY <1>12, ObtainType DEF EnsureValidToken, Proceed
<1>13. ASSUME NEW q \in Requests, Send(q) \/ Resend(q) PROVE TypeInv'
  BY <1>13 DEF Send, Resend, Proceed
<1>14. ASSUME NEW q \in Requests, Retoken(q) PROVE TypeInv'
  BY <1>14, ObtainType DEF Retoken, Proceed
<1>15. CASE UNCHANGED vars
  BY <1>15 DEF vars
<1> QED BY <1>1, <1>2, <1>3, <1>4, <1>5, <1>6, <1>7, <1>8, <1>9, <1>10, <1>11, <1>12,
          <1>13, <1>14, <1>15 DEF Next

\* The client's state stays within its types whatever goroutines interleave.
THEOREM TypeCorrect == Spec => []TypeOK
<1>1. TypeInv => TypeOK BY DEF TypeInv
<1> QED BY InitTypeInv, StepTypeInv, <1>1, PTL DEF Spec

-----------------------------------------------------------------------------
(* Why a request ends as unauthorized.                                     *)

\* As long as nothing disturbs a request, no rotation holds the client in between,
\* the pair is accepted, and a token obtained with it for the second try also.
Undisturbed(q) ==
  /\ request[q] # "unauthorized"
  /\ client.pair \in valid
  /\ Settled
  /\ request[q] = "resend" => Accepted(client.token, client.age)

CleanInv == \A q \in Requests : clean[q] => Undisturbed(q)

\* A rotation that ends has either not touched the client, or has stored what
\* disturbed every request, so that only settled rotations matter here.
LEMMA StepCleanInv == TypeInv /\ CleanInv /\ [Next]_vars => CleanInv'
<1> SUFFICES ASSUME TypeInv, CleanInv, [Next]_vars, NEW q \in Requests, clean'[q]
             PROVE Undisturbed(q)'
  BY DEF CleanInv
<1> USE DEF TypeInv, TypeOK
<1>a. clean[q] => Undisturbed(q)
  BY DEF CleanInv
<1> USE DEF Undisturbed, Settled
<1>1. ASSUME NEW s \in Secrets, ChangeSecret(s) \/ Accept(s) PROVE Undisturbed(q)'
  BY <1>1, <1>a DEF ChangeSecret, Accept, Accepted
<1>2. ASSUME NEW s \in Secrets, Revoke(s) PROVE Undisturbed(q)'
  BY <1>2 DEF Revoke
<1>3. CASE Age
  BY <1>3, <1>a DEF Age
<1>4. ASSUME NEW r \in Rotations, SecretEvent(r) \/ Unchanged(r) \/ Changed(r)
      PROVE Undisturbed(q)'
  <2>1. \/ UNCHANGED <<client, valid, request, clean>> /\ Settled'
        \/ ~ clean[q]
    <3>1. CASE SecretEvent(r)
      BY <3>1, <1>a DEF SecretEvent, Idle
    <3>2. CASE Unchanged(r)
      BY <3>2, <1>a DEF Unchanged, Idle
    <3>3. CASE Changed(r)
      BY <3>3, <1>a DEF Changed, Goto
    <3> QED BY <1>4, <3>1, <3>2, <3>3
  <2>2. UNCHANGED clean
    BY <1>4 DEF SecretEvent, Unchanged, Changed
  <2> QED BY <1>a, <2>1, <2>2 DEF Accepted
<1>5. ASSUME NEW r \in Rotations, UpdateToken(r) \/ InstallCredentials(r)
      PROVE Undisturbed(q)'
  BY <1>5 DEF UpdateToken, InstallCredentials
<1>6. ASSUME NEW r \in Rotations, ValidateCredentials(r) \/ RollbackCredentials(r)
      PROVE Undisturbed(q)'
  BY <1>6, <1>a DEF ValidateCredentials, RollbackCredentials, At
<1>7. ASSUME NEW r \in Rotations, StoreHash(r) PROVE Undisturbed(q)'
  BY <1>7, <1>a DEF StoreHash, Idle, At, Accepted
<1>8. ASSUME NEW p \in Requests, BeginRequest(p) PROVE Undisturbed(q)'
  <2>1. CASE p = q
    BY <1>8, <2>1 DEF BeginRequest, Proceed
  <2>2. CASE p # q
    BY <1>8, <1>a, <2>2 DEF BeginRequest, Proceed, Accepted
  <2> QED BY <2>1, <2>2
<1>9. ASSUME NEW p \in Requests, EnsureValidToken(p) PROVE Undisturbed(q)'
  BY <1>9, <1>a DEF EnsureValidToken, Proceed, Obtain, Accepted
<1>10. ASSUME NEW p \in Requests, Send(p) PROVE Undisturbed(q)'
  BY <1>10, <1>a DEF Send, Proceed, Accepted
<1>11. ASSUME NEW p \in Requests, Retoken(p) PROVE Undisturbed(q)'
  <2>1. CASE Obtain /\ Proceed(p, "resend") /\ UNCHANGED <<clean, valid, rotation>>
    BY <1>a, <2>1 DEF Proceed, Obtain, Accepted
  <2>2. CASE UNCHANGED <<client, valid, rotation>> /\ Proceed(p, "unauthorized")
             /\ clean' = [clean EXCEPT ![p] = @ /\ client.pair \notin valid]
    <3>1. CASE p = q
      BY <1>a, <2>2, <3>1 DEF Proceed
    <3>2. CASE p # q
      BY <1>a, <2>2, <3>2 DEF Proceed, Accepted
    <3> QED BY <3>1, <3>2
  <2> QED BY <1>11, <2>1, <2>2 DEF Retoken
<1>12. ASSUME NEW p \in Requests, Resend(p) PROVE Undisturbed(q)'
  BY <1>12, <1>a DEF Resend, Proceed, Accepted
<1>13. CASE UNCHANGED vars
  BY <1>13, <1>a DEF vars, Accepted
<1> QED BY <1>1, <1>2, <1>3, <1>4, <1>5, <1>6, <1>7, <1>8, <1>9, <1>10, <1>11, <1>12,
          <1>13 DEF Next

\* However many goroutines use the client and rotate its credentials, a request
\* ends as unauthorized only if something disturbed it.
THEOREM UnauthorizedExplained == Spec => []UnauthorizedForAReason
<1>1. Init => CleanInv
  BY DEF Init, CleanInv
<1>2. TypeInv /\ CleanInv => UnauthorizedForAReason
  BY DEF CleanInv, Undisturbed, UnauthorizedForAReason
<1> QED BY InitTypeInv, StepTypeInv, StepCleanInv, <1>1, <1>2, PTL DEF Spec

-----------------------------------------------------------------------------
(* Rotations that do not overlap.                                          *)

\* What the hash stands for is in the client, or with the rotation that will put
\* it back; a rotation that is about to store a hash has put it into the client.
RotationInv(r) ==
  /\ At(r, "idle") \/ At(r, "check") \/ At(r, "install") =>
       client.token # None /\ (hash \in Pairs => client.pair = hash)
  /\ At(r, "refresh") \/ At(r, "rollback") =>
       /\ rotation[r].new \in Pairs /\ client.pair = rotation[r].new
       /\ rotation[r].old.token # None
       /\ hash \in Pairs => rotation[r].old.pair = hash
  /\ At(r, "commit") =>
       client.token # None /\ (rotation[r].new \in Pairs => client.pair = rotation[r].new)

LEMMA StepRotationInv == ASSUME NEW r, Rotations = {r}
                         PROVE TypeInv /\ RotationInv(r) /\ [Next]_vars => RotationInv(r)'
<1> SUFFICES ASSUME TypeInv, RotationInv(r), [Next]_vars PROVE RotationInv(r)'
  OBVIOUS
<1> USE DEF TypeInv, TypeOK, NewIsSecret, RotationInv, At
<1>1. ASSUME NEW s \in Secrets, ChangeSecret(s) \/ Accept(s) \/ Revoke(s)
      PROVE RotationInv(r)'
  BY <1>1 DEF ChangeSecret, Accept, Revoke
<1>2. CASE Age
  BY <1>2 DEF Age
<1>3. CASE SecretEvent(r) \/ Unchanged(r) \/ Changed(r)
  <2>1. CASE SecretEvent(r)
    BY <2>1 DEF SecretEvent, Idle
  <2>2. CASE Unchanged(r)
    BY <2>2 DEF Unchanged, Idle
  <2>3. CASE Changed(r)
    BY <2>3 DEF Changed, Goto
  <2> QED BY <1>3, <2>1, <2>2, <2>3
<1>4. CASE UpdateToken(r)
  BY <1>4, ConstantsAssumption DEF UpdateToken, Goto
<1>5. CASE InstallCredentials(r)
  BY <1>5 DEF InstallCredentials
<1>6. CASE ValidateCredentials(r)
  <2>1. CASE Obtain /\ Goto(r, "commit")
    <3>1. client'.token = client.pair /\ client'.pair = client.pair
      BY <2>1 DEF Obtain
    <3>2. client.pair = rotation[r].new /\ client.pair # None
      BY <1>6, ConstantsAssumption DEF ValidateCredentials
    <3>3. rotation'[r].step = "commit" /\ rotation'[r].new = rotation[r].new
      BY <2>1 DEF Goto
    <3> QED BY <3>1, <3>2, <3>3
  <2>2. CASE UNCHANGED client /\ Goto(r, "rollback")
    BY <1>6, <2>2 DEF ValidateCredentials, Goto
  <2> QED BY <1>6, <2>1, <2>2 DEF ValidateCredentials
<1>7. CASE RollbackCredentials(r)
  BY <1>7 DEF RollbackCredentials, Idle
<1>8. CASE StoreHash(r)
  BY <1>8 DEF StoreHash, Idle
<1>9. ASSUME NEW q \in Requests, BeginRequest(q) \/ Send(q) \/ Resend(q)
      PROVE RotationInv(r)'
  BY <1>9 DEF BeginRequest, Send, Resend
<1>10. ASSUME NEW q \in Requests, EnsureValidToken(q) \/ Retoken(q)
       PROVE RotationInv(r)'
  <2>1. UNCHANGED <<rotation, hash>> /\ (UNCHANGED client \/ Obtain)
    BY <1>10 DEF EnsureValidToken, Retoken
  <2>2. \/ client' = client
        \/ client'.pair = client.pair /\ client'.token # None
    <3>1. CASE Obtain
      <4>1. client.pair # None
        BY <3>1, ConstantsAssumption DEF Obtain, Secrets
      <4>2. client'.pair = client.pair /\ client'.token = client.pair
        BY <3>1 DEF Obtain
      <4> QED BY <4>1, <4>2
    <3> QED BY <2>1, <3>1
  <2>3. UNCHANGED <<rotation, hash>>
    BY <2>1
  <2> QED BY <2>2, <2>3
<1>11. CASE UNCHANGED vars
  BY <1>11 DEF vars
<1> QED BY <1>1, <1>2, <1>3, <1>4, <1>5, <1>6, <1>7, <1>8, <1>9, <1>10, <1>11 DEF Next

\* A single rotation at a time leaves the client with the pair whose hash is stored,
\* whether it succeeds or rolls back, and while tokens are refreshed in between.
THEOREM OneRotationSettles ==
  ASSUME NEW r, Rotations = {r}
  PROVE  Spec => []RotationsSettle
<1>1. Init => RotationInv(r)
  BY ConstantsAssumption DEF Init, RotationInv, At, Idle, Secrets
<1>2. TypeInv /\ RotationInv(r) => RotationsSettle
  BY DEF RotationInv, RotationsSettle, Settled, At
<1> QED BY InitTypeInv, StepTypeInv, StepRotationInv, <1>1, <1>2, PTL DEF Spec
=============================================================================
