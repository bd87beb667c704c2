----------------------------- MODULE AuthProofs -----------------------------
(***************************************************************************)
(* Proofs about Auth for any users, sessions, tokens, requests and roles.  *)
(* Each conjunct of the invariant is kept by every step given the types.   *)
(***************************************************************************)
EXTENDS Auth, TLAPS

IInv ==
    /\ TypeOK
    /\ VerifyAgreesWithHandlers
    /\ LiveTokensHaveActiveUsers
    /\ OldSecretsStayRetired

\* A new secret is a secret, and not the one that was retired.
LEMMA NewSecretIsNew ==
    ASSUME NEW u \in Names
    PROVE  /\ NewSecret(u) \in Secrets
           /\ u = retired.user => NewSecret(u) # retired.secret
<1>1. \E x \in Secrets : u = retired.user => x # retired.secret
    <2>1. 1 \in Secrets /\ 2 \in Secrets /\ 1 # 2
        BY DEF Secrets
    <2> QED
        BY <2>1
<1> QED
    BY <1>1 DEF NewSecret

\* Whoever may administer has a row.
LEMMA SuperusersHaveRows == TypeOK => Superusers \subseteq rows
BY DEF TypeOK, Superusers

-----------------------------------------------------------------------------
(* Types. *)

LEMMA StepKeepsTypes ==
    ASSUME TypeOK, [Next]_vars
    PROVE  TypeOK'
<1> USE AuthAssumption DEF TypeOK, Secrets
<1>1. ASSUME bootstrap
      PROVE  TypeOK'
    BY <1>1, NewSecretIsNew DEF bootstrap, ensure_credentials, users, history
<1>2. ASSUME NEW u \in Names, show_setup(u)
      PROVE  TypeOK'
    BY <1>2, NewSecretIsNew DEF show_setup, ensure_credentials, users, history
<1>3. ASSUME NEW u \in Names, post_setup(u)
      PROVE  TypeOK'
    BY <1>3 DEF post_setup, activate_user, create_session, users, history
<1>4. ASSUME NEW u \in Names, post_setup_fails(u)
      PROVE  TypeOK'
    BY <1>4 DEF post_setup_fails, activate_user, users, history
<1>5. ASSUME NEW u \in Names, post_login(u)
      PROVE  TypeOK'
    BY <1>5 DEF post_login, create_session, users, history
<1>6. ASSUME NEW u \in Names, link_expires(u)
      PROVE  TypeOK'
    BY <1>6 DEF link_expires, users, history
<1>7. ASSUME NEW a \in Names, NEW u \in Names, delete_user(a, u)
      PROVE  TypeOK'
    <2>1. /\ rows' = rows \ {u} /\ superuser' \subseteq rows' /\ active' \subseteq rows'
          /\ invited' \subseteq rows' /\ torn' \subseteq rows' /\ raced' \subseteq Tids
          /\ secret' \in [Names -> {0, 1, 2}] /\ retired' = retired
        BY <1>7 DEF delete_user, DropTokens
    <2>2. /\ session' \in [Sids -> rows' \cup {Nobody}]
          /\ token' \in [Tids -> rows' \cup {Nobody}]
        BY <1>7, <2>1 DEF delete_user, Without, DropTokens, TokensOf
    <2>3. ASSUME NEW x \in Names
          PROVE  role'[x] \in [role : Roles, by : rows' \cup {Nobody}]
        <3>1. CASE x = u
            BY <1>7, <3>1 DEF delete_user, DeleteRoles, NoRole
        <3>2. CASE x # u /\ role[x].by = u
            BY <1>7, <3>2 DEF delete_user, DeleteRoles
        <3>3. CASE x # u /\ role[x].by # u
            BY <1>7, <2>1, <3>3 DEF delete_user, DeleteRoles
        <3> QED
            BY <3>1, <3>2, <3>3
    <2>4. role' \in [Names -> [role : Roles, by : rows' \cup {Nobody}]]
        BY <1>7, <2>3 DEF delete_user, DeleteRoles
    <2>5. request' \in [Requests -> [kind : {"none", "create_user", "assign_role", "create_token"},
                                    actor : rows' \cup {Nobody}]]
        BY <1>7, <2>1 DEF delete_user
    <2> QED
        BY <2>1, <2>2, <2>4, <2>5
<1>8. ASSUME NEW a \in Names, NEW u \in Names, reactivate(a, u)
      PROVE  TypeOK'
    BY <1>8 DEF reactivate, users, history
<1>9. ASSUME NEW a \in Names, NEW u \in Names, NEW k \in 1 .. 3, deactivate(a, u, k)
      PROVE  TypeOK'
    BY <1>9 DEF deactivate, DeactivationTarget, RevokeTokens, Without, DropTokens, TokensOf, users, history
<1>10. ASSUME NEW a \in Names, NEW u \in Names, NEW k \in 1 .. 4, reissue(a, u, k)
      PROVE  TypeOK'
    BY <1>10 DEF reissue, DeleteCredential, ReissueSessions, Without, DropTokens, TokensOf, users, history
<1>11. ASSUME NEW s \in Sids, logout(s)
      PROVE  TypeOK'
    BY <1>11 DEF logout, users, history
<1>12. ASSUME NEW s \in Sids, NEW t \in Tids, revoke_token(s, t)
      PROVE  TypeOK'
    BY <1>12 DEF revoke_token, DropTokens, users, history
<1>13. ASSUME NEW r \in Requests, NEW s \in Sids, asks_token(r, s)
      PROVE  TypeOK'
    BY <1>13 DEF asks_token, Await, validate_session, users, history, NoRequest
<1>14. ASSUME NEW t \in Tids, token_expires(t)
      PROVE  TypeOK'
    BY <1>14 DEF token_expires, DropTokens, users, history
<1>15. ASSUME NEW r \in Requests, request_fails(r)
      PROVE  TypeOK'
    BY <1>15 DEF request_fails, EndRequest, users, history, NoRequest
<1>16. ASSUME NEW r \in Requests, NEW a \in Names, asks_superuser(r, a)
      PROVE  TypeOK'
    BY <1>16, SuperusersHaveRows DEF asks_superuser, Await, users, history, NoRequest
<1>17. ASSUME NEW r \in Requests, NEW u \in Names, NEW b \in BOOLEAN, create_user(r, u, b)
      PROVE  TypeOK'
    BY <1>17 DEF create_user, EndRequest, users, history, NoRequest
<1>18. ASSUME NEW r \in Requests, NEW u \in Names, NEW x \in Roles, assign_role(r, u, x)
      PROVE  TypeOK'
    BY <1>18 DEF assign_role, EndRequest, users, history, NoRequest, NoRole
<1>19. ASSUME NEW r \in Requests, NEW t \in Tids, create_token(r, t)
      PROVE  TypeOK'
    BY <1>19 DEF create_token, EndRequest, users, history, NoRequest
<1>20. ASSUME UNCHANGED vars
      PROVE  TypeOK'
    BY <1>20 DEF vars, users, history
<1> QED
    BY <1>1, <1>2, <1>3, <1>4, <1>5, <1>6, <1>7, <1>8, <1>9, <1>10, <1>11, <1>12, <1>13, <1>14, <1>15, <1>16, <1>17, <1>18, <1>19, <1>20 DEF Next

-----------------------------------------------------------------------------
(* What an inactive user is left with. *)

\* The steps that only read who is active and who has a session or a token.
Quiet == UNCHANGED <<active, session, token, torn, raced>>

LEMMA QuietSteps ==
    ASSUME Next
    PROVE  \/ Quiet
           \/ \E u \in Names : post_setup(u) \/ post_setup_fails(u) \/ post_login(u)
           \/ \E a, u \in Names : delete_user(a, u) \/ reactivate(a, u)
           \/ \E a, u \in Names, k \in 1 .. 3 : deactivate(a, u, k)
           \/ \E a, u \in Names, k \in 1 .. 4 : reissue(a, u, k)
           \/ \E s \in Sids : logout(s)
           \/ \E s \in Sids, t \in Tids : revoke_token(s, t)
           \/ \E t \in Tids : token_expires(t)
           \/ \E r \in Requests, t \in Tids : create_token(r, t)
<1>1. bootstrap => Quiet
    BY DEF bootstrap, Quiet, history
<1>2. \A u \in Names : show_setup(u) \/ link_expires(u) => Quiet
    BY DEF show_setup, link_expires, Quiet, users, history
<1>3. \A r \in Requests : request_fails(r) => Quiet
    BY DEF request_fails, Quiet, users, history
<1>4. \A s \in Sids, r \in Requests : asks_token(r, s) => Quiet
    BY DEF asks_token, Await, Quiet, users, history
<1>5. \A r \in Requests, a \in Names : asks_superuser(r, a) => Quiet
    BY DEF asks_superuser, Await, Quiet, users, history
<1>6. \A r \in Requests, u \in Names, b \in BOOLEAN : create_user(r, u, b) => Quiet
    BY DEF create_user, Quiet, history
<1>7. \A r \in Requests, u \in Names, x \in Roles : assign_role(r, u, x) => Quiet
    BY DEF assign_role, Quiet, users, history
<1> QED
    BY ONLY Next, <1>1, <1>2, <1>3, <1>4, <1>5, <1>6, <1>7, ZenonT(60) DEF Next

LEMMA StepKeepsSessions ==
    ASSUME TypeOK, VerifyAgreesWithHandlers, [Next]_vars
    PROVE  VerifyAgreesWithHandlers'
<1> USE DEF VerifyAgreesWithHandlers, validate_session, verify
<1>1. CASE Quiet \/ UNCHANGED vars
    BY <1>1 DEF Quiet, vars, users, history
<1>2. ASSUME NEW u \in Names, post_setup(u) \/ post_setup_fails(u) \/ post_login(u)
      PROVE  VerifyAgreesWithHandlers'
    BY <1>2 DEF post_setup, post_setup_fails, post_login, activate_user, create_session, TypeOK,
                users, history
<1>3. ASSUME NEW a \in Names, NEW u \in Names, delete_user(a, u) \/ reactivate(a, u)
      PROVE  VerifyAgreesWithHandlers'
    BY <1>3 DEF delete_user, reactivate, Without, TypeOK
<1>4. ASSUME NEW a \in Names, NEW u \in Names, NEW k \in 1 .. 3, deactivate(a, u, k)
      PROVE  VerifyAgreesWithHandlers'
    BY <1>4 DEF deactivate, Without, TypeOK
<1>5. ASSUME NEW a \in Names, NEW u \in Names, NEW k \in 1 .. 4, reissue(a, u, k)
      PROVE  VerifyAgreesWithHandlers'
    BY <1>5 DEF reissue, ReissueSessions, Without, TypeOK
<1>6. ASSUME NEW s \in Sids, logout(s)
      PROVE  VerifyAgreesWithHandlers'
    BY <1>6 DEF logout, TypeOK, users, history
<1>7. ASSUME NEW t \in Tids,
             token_expires(t) \/ (\E s \in Sids : revoke_token(s, t))
                \/ \E r \in Requests : create_token(r, t)
      PROVE  VerifyAgreesWithHandlers'
    BY <1>7 DEF token_expires, revoke_token, create_token, users
<1> QED
    BY <1>1, <1>2, <1>3, <1>4, <1>5, <1>6, <1>7, QuietSteps

LEMMA StepKeepsTokens ==
    ASSUME TypeOK, LiveTokensHaveActiveUsers, [Next]_vars
    PROVE  LiveTokensHaveActiveUsers'
<1> USE DEF LiveTokensHaveActiveUsers
<1>1. CASE Quiet \/ UNCHANGED vars
    BY <1>1 DEF Quiet, vars, users, history
<1>2. ASSUME NEW u \in Names, post_setup(u) \/ post_setup_fails(u) \/ post_login(u)
      PROVE  LiveTokensHaveActiveUsers'
    BY <1>2 DEF post_setup, post_setup_fails, post_login, activate_user, TypeOK, users, history
<1>3. ASSUME NEW a \in Names, NEW u \in Names, delete_user(a, u) \/ reactivate(a, u)
      PROVE  LiveTokensHaveActiveUsers'
    BY <1>3 DEF delete_user, reactivate, DropTokens, TokensOf, TypeOK
<1>4. ASSUME NEW a \in Names, NEW u \in Names, NEW k \in 1 .. 3, deactivate(a, u, k)
      PROVE  LiveTokensHaveActiveUsers'
    BY <1>4 DEF deactivate, RevokeTokens, DropTokens, TokensOf, TypeOK
<1>5. ASSUME NEW a \in Names, NEW u \in Names, NEW k \in 1 .. 4, reissue(a, u, k)
      PROVE  LiveTokensHaveActiveUsers'
    BY <1>5 DEF reissue, DropTokens, TokensOf, TypeOK
<1>6. ASSUME NEW s \in Sids, logout(s)
      PROVE  LiveTokensHaveActiveUsers'
    BY <1>6 DEF logout, users, history
<1>7. ASSUME NEW t \in Tids, token_expires(t) \/ \E s \in Sids : revoke_token(s, t)
      PROVE  LiveTokensHaveActiveUsers'
    BY <1>7 DEF token_expires, revoke_token, DropTokens, users
<1>8. ASSUME NEW r \in Requests, NEW t \in Tids, create_token(r, t)
      PROVE  LiveTokensHaveActiveUsers'
    BY <1>8 DEF create_token, TypeOK, users
<1> QED
    BY <1>1, <1>2, <1>3, <1>4, <1>5, <1>6, <1>7, <1>8, QuietSteps

-----------------------------------------------------------------------------
(* Secrets. *)

\* What can happen to the secret of v in one step.
LEMMA SecretSteps ==
    ASSUME TypeOK, [Next]_vars, NEW v \in Names
    PROVE  \/ secret'[v] = 0
           \/ secret'[v] = secret[v] /\ (retired' = retired \/ retired'.user # v)
           \/ secret'[v] = NewSecret(v) /\ retired' = retired
<1> DEFINE Kept == secret' = secret /\ retired' = retired
           Ensured(u) == ensure_credentials(u) /\ retired' = retired
           Retires(u) == /\ secret' = [secret EXCEPT ![u] = 0]
                         /\ \/ retired' = retired
                            \/ retired' = [user |-> u, secret |-> secret[u]]
<1>1. Kept \/ (\E u \in Names : Ensured(u)) \/ (\E u \in Names : Retires(u))
    <2>1. bootstrap => Ensured(Admin)
        BY DEF bootstrap, history
    <2>2. \A u \in Names : show_setup(u) => Ensured(u)
        BY DEF show_setup, history
    <2>3. \A a, u \in Names : delete_user(a, u) => Retires(u)
        BY DEF delete_user
    <2>4. \A a, u \in Names, k \in 1 .. 4 : reissue(a, u, k) => Retires(u)
        BY DEF reissue, DeleteCredential
    <2>5. \A u \in Names : post_setup(u) \/ post_setup_fails(u) \/ post_login(u) \/ link_expires(u)
                               => Kept
        BY DEF post_setup, post_setup_fails, post_login, link_expires, history
    <2>6. \A a, u \in Names : reactivate(a, u) => Kept
        BY DEF reactivate
    <2>7. \A a, u \in Names, k \in 1 .. 3 : deactivate(a, u, k) => Kept
        BY DEF deactivate
    <2>8. \A s \in Sids : logout(s) => Kept
        BY DEF logout, history
    <2>9. \A s \in Sids, t \in Tids : revoke_token(s, t) => Kept
        BY DEF revoke_token
    <2>10. \A s \in Sids, r \in Requests : asks_token(r, s) => Kept
        BY DEF asks_token, Await, history
    <2>11. \A t \in Tids : token_expires(t) => Kept
        BY DEF token_expires
    <2>12. \A r \in Requests : request_fails(r) => Kept
        BY DEF request_fails, history
    <2>13. \A r \in Requests, a \in Names : asks_superuser(r, a) => Kept
        BY DEF asks_superuser, Await, history
    <2>14. \A r \in Requests, u \in Names, b \in BOOLEAN : create_user(r, u, b) => Kept
        BY DEF create_user, history
    <2>15. \A r \in Requests, u \in Names, x \in Roles : assign_role(r, u, x) => Kept
        BY DEF assign_role, history
    <2>16. \A r \in Requests, t \in Tids : create_token(r, t) => Kept
        BY DEF create_token
    <2>17. UNCHANGED vars => Kept
        BY DEF vars, history
    <2>0. Admin \in Names
        BY AuthAssumption
    <2> HIDE DEF Kept, Ensured, Retires
    <2> QED
        BY ONLY [Next]_vars, <2>0, <2>1, <2>2, <2>3, <2>4, <2>5, <2>6, <2>7,
           <2>8, <2>9, <2>10,
           <2>11, <2>12, <2>13, <2>14, <2>15, <2>16, <2>17, ZenonT(60)
           DEF Next
<1>2. ASSUME NEW u \in Names, Ensured(u)
      PROVE  \/ secret'[v] = secret[v] /\ retired' = retired
             \/ secret'[v] = NewSecret(v) /\ retired' = retired
    BY <1>2 DEF ensure_credentials, TypeOK
<1>3. ASSUME NEW u \in Names, Retires(u)
      PROVE  \/ secret'[v] = 0
             \/ secret'[v] = secret[v] /\ (retired' = retired \/ retired'.user # v)
    BY <1>3 DEF TypeOK
<1> QED
    BY <1>1, <1>2, <1>3

LEMMA StepKeepsSecrets ==
    ASSUME TypeOK, OldSecretsStayRetired, [Next]_vars
    PROVE  OldSecretsStayRetired'
<1> SUFFICES ASSUME NEW v \in Names, v = retired'.user, secret'[v] # 0
             PROVE  secret'[v] # retired'.secret
    BY DEF OldSecretsStayRetired
<1>1. CASE secret'[v] = secret[v] /\ retired' = retired
    BY <1>1 DEF OldSecretsStayRetired
<1>2. CASE secret'[v] = NewSecret(v) /\ retired' = retired
    BY <1>2, NewSecretIsNew
<1> QED
    BY <1>1, <1>2, SecretSteps

-----------------------------------------------------------------------------
(* The theorems. *)

LEMMA InitIsGood == Init => IInv
<1> SUFFICES ASSUME Init PROVE IInv
    OBVIOUS
<1> USE AuthAssumption DEF Init
<1>1. TypeOK
    BY DEF TypeOK, Secrets, NoRole, NoRequest, NoSecret
<1>2. VerifyAgreesWithHandlers /\ LiveTokensHaveActiveUsers
    BY DEF VerifyAgreesWithHandlers, LiveTokensHaveActiveUsers, validate_session
<1>3. OldSecretsStayRetired
    BY DEF OldSecretsStayRetired, NoSecret
<1> QED
    BY <1>1, <1>2, <1>3 DEF IInv

LEMMA StepIsGood == IInv /\ [Next]_vars => IInv'
BY StepKeepsTypes, StepKeepsSessions, StepKeepsTokens, StepKeepsSecrets DEF IInv

LEMMA AlwaysGood == Spec => []IInv
BY InitIsGood, StepIsGood, PTL DEF Spec

\* The tables of auth/migrations keep their types and foreign keys: who has a session,
\* a token, a role or a request in flight has a row, also after any deletion.
THEOREM TypeCorrect == Spec => []TypeOK
<1>1. IInv => TypeOK
    BY DEF IInv
<1> QED
    BY <1>1, AlwaysGood, PTL

\* validate_session and GET /auth/verify agree on every session, except after a
\* deactivation that failed half way.
THEOREM VerifyAlwaysAgrees == Spec => []VerifyAgreesWithHandlers
<1>1. IInv => VerifyAgreesWithHandlers
    BY DEF IInv
<1> QED
    BY <1>1, AlwaysGood, PTL

\* A machine token that works is an active user's, but for the two exceptions the
\* property names.
THEOREM LiveTokensAlwaysActive == Spec => []LiveTokensHaveActiveUsers
<1>1. IInv => LiveTokensHaveActiveUsers
    BY DEF IInv
<1> QED
    BY <1>1, AlwaysGood, PTL

\* No setup link, bootstrap or retry brings back the TOTP secret that a reissue has
\* deleted, for any number of users.
THEOREM OldSecretsAlwaysRetired == Spec => []OldSecretsStayRetired
<1>1. IInv => OldSecretsStayRetired
    BY DEF IInv
<1> QED
    BY <1>1, AlwaysGood, PTL

\* Deactivation, deletion and reissue, in any order and each failing anywhere, never
\* take away the last active superuser: who acts is active and not the target, or has
\* just got a setup link.
THEOREM SuperuserAlwaysRemains == Spec => SuperuserRemains
<1> DEFINE Before == superuser \cap active # {} /\ Superusers \subseteq active
           After == \/ (superuser \cap active)' # {}
                    \/ \E u \in superuser : u \in active /\ u \in invited'
           Grows == superuser \subseteq superuser' /\ active \subseteq active'
<1>1. ASSUME TypeOK, Before, Next
      PROVE  After
    <2>1. bootstrap => Grows
        BY DEF bootstrap
    <2>2. \A u \in Names :
              show_setup(u) \/ post_setup(u) \/ post_setup_fails(u) \/ post_login(u)
              \/ link_expires(u) => Grows
        BY DEF show_setup, post_setup, post_setup_fails, post_login, link_expires, activate_user,
               users
    <2>3. \A a, u \in Names : reactivate(a, u) => Grows
        BY DEF reactivate
    <2>4. \A s \in Sids : logout(s) => Grows
        BY DEF logout, users
    <2>5. \A s \in Sids, t \in Tids : revoke_token(s, t) => Grows
        BY DEF revoke_token, users
    <2>6. \A s \in Sids, r \in Requests : asks_token(r, s) => Grows
        BY DEF asks_token, Await, users
    <2>7. \A t \in Tids : token_expires(t) => Grows
        BY DEF token_expires, users
    <2>8. \A r \in Requests : request_fails(r) => Grows
        BY DEF request_fails, users
    <2>9. \A r \in Requests, a \in Names : asks_superuser(r, a) => Grows
        BY DEF asks_superuser, Await, users
    <2>10. \A r \in Requests, u \in Names, b \in BOOLEAN : create_user(r, u, b) => Grows
        BY DEF create_user
    <2>11. \A r \in Requests, u \in Names, x \in Roles : assign_role(r, u, x) => Grows
        BY DEF assign_role, users
    <2>12. \A r \in Requests, t \in Tids : create_token(r, t) => Grows
        BY DEF create_token, users
    <2>13. \A a, u \in Names : delete_user(a, u) => After
        BY <1>1 DEF delete_user, Superusers
    <2>14. \A a, u \in Names, k \in 1 .. 3 : deactivate(a, u, k) => After
        BY <1>1 DEF deactivate, DeactivationTarget, Superusers
    <2>15. \A a, u \in Names, k \in 1 .. 4 : reissue(a, u, k) => After
        BY <1>1 DEF reissue, Superusers
    <2>16. Grows => After
        BY <1>1
    <2> HIDE DEF Before, After, Grows
    <2> QED
        BY ONLY <1>1, <2>1, <2>2, <2>3, <2>4, <2>5, <2>6, <2>7, <2>8, <2>9, <2>10, <2>11, <2>12,
           <2>13, <2>14, <2>15, <2>16, ZenonT(60) DEF Next
<1>2. TypeOK /\ [Next]_vars => [Before => After]_vars
    BY <1>1
<1> QED
    BY <1>2, TypeCorrect, PTL DEF Spec, SuperuserRemains

\* A role lasts until a request sets another or its holder's row goes: neither the
\* granter's deletion nor anything else takes it.
THEOREM GrantsAlwaysOutlive == Spec => GrantsOutliveGranters
<1> DEFINE Set == \E r \in Requests : request[r].kind = "assign_role" /\ request'[r] = NoRequest
           Lasts == \A u \in rows \cap rows' : role'[u].role # role[u].role => Set
           Same == role' = role
<1>1. ASSUME TypeOK, Next
      PROVE  Lasts
    <2>1. bootstrap => Same
        BY DEF bootstrap
    <2>2. \A u \in Names :
              show_setup(u) \/ post_setup(u) \/ post_setup_fails(u) \/ post_login(u)
              \/ link_expires(u) => Same
        BY DEF show_setup, post_setup, post_setup_fails, post_login, link_expires
    <2>3. \A a, u \in Names : reactivate(a, u) => Same
        BY DEF reactivate
    <2>4. \A a, u \in Names, k \in 1 .. 3 : deactivate(a, u, k) => Same
        BY DEF deactivate
    <2>5. \A a, u \in Names, k \in 1 .. 4 : reissue(a, u, k) => Same
        BY DEF reissue
    <2>6. \A s \in Sids : logout(s) => Same
        BY DEF logout
    <2>7. \A s \in Sids, t \in Tids : revoke_token(s, t) => Same
        BY DEF revoke_token
    <2>8. \A s \in Sids, r \in Requests : asks_token(r, s) => Same
        BY DEF asks_token, Await
    <2>9. \A t \in Tids : token_expires(t) => Same
        BY DEF token_expires
    <2>10. \A r \in Requests : request_fails(r) => Same
        BY DEF request_fails
    <2>11. \A r \in Requests, a \in Names : asks_superuser(r, a) => Same
        BY DEF asks_superuser, Await
    <2>12. \A r \in Requests, u \in Names, b \in BOOLEAN : create_user(r, u, b) => Same
        BY DEF create_user
    <2>13. \A r \in Requests, t \in Tids : create_token(r, t) => Same
        BY DEF create_token
    <2>14. \A r \in Requests, u \in Names, x \in Roles : assign_role(r, u, x) => Set
        BY <1>1 DEF assign_role, EndRequest, TypeOK
    <2>15. ASSUME NEW a \in Names, NEW w \in Names, delete_user(a, w)
           PROVE  Lasts
        <3>1. ASSUME NEW u \in rows, u \in rows'
              PROVE  role'[u].role = role[u].role
            <4>1. u \in Names /\ u # w
                BY <1>1, <2>15, <3>1 DEF delete_user, TypeOK
            <4>2. role'[u] = IF role[u].by = w THEN [role[u] EXCEPT !.by = Nobody] ELSE role[u]
                BY <2>15, <4>1 DEF delete_user, DeleteRoles
            <4>3. role[u] \in [role : Roles, by : rows \cup {Nobody}]
                BY <1>1, <4>1 DEF TypeOK
            <4>4. [role[u] EXCEPT !.by = Nobody].role = role[u].role
                BY <4>3
            <4> QED
                BY <4>2, <4>4
        <3> QED
            BY <3>1
    <2>16. Same \/ Set => Lasts
        OBVIOUS
    <2> HIDE DEF Set, Lasts, Same
    <2> QED
        BY ONLY <1>1, <2>1, <2>2, <2>3, <2>4, <2>5, <2>6, <2>7, <2>8, <2>9, <2>10, <2>11, <2>12,
           <2>13, <2>14, <2>15, <2>16, ZenonT(60) DEF Next
<1>2. TypeOK /\ [Next]_vars => [Lasts]_vars
    BY <1>1
<1> QED
    BY <1>2, TypeCorrect, PTL DEF Spec, GrantsOutliveGranters
=============================================================================
