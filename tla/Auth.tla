-------------------------------- MODULE Auth --------------------------------
(***************************************************************************)
(* auth/: users, TOTP secrets, sessions, machine tokens and roles, the     *)
(* handlers of auth/routes.py and the gate of auth/middleware.py.          *)
(*                                                                         *)
(* Handlers are async and talk to Postgres without an await, so a handler  *)
(* is atomic but for two things.  create_user, assign_role and             *)
(* create_token look up the caller, await the body of the request, and go  *)
(* on with the caller they looked up.  And each statement commits by       *)
(* itself: deactivate_user is three, reissue_setup_token four, and an      *)
(* error in one of them leaves those before it done.                       *)
(*                                                                         *)
(* A row of users is named by its username.  is_superuser never changes in *)
(* a row, so the super claim of a token is that of its user; a session     *)
(* that has expired and a token that is revoked or has expired are as if   *)
(* there were none.  Whoever has a TOTP secret may present a code that is  *)
(* right and new, or one that is not, which changes nothing: the window of *)
(* the last code is left out.  So are the scopes of tokens, the pages, the *)
(* TOTP bypass of a development host, and the encryption key, which is     *)
(* taken to exist.                                                         *)
(***************************************************************************)
EXTENDS Naturals, FiniteSets

CONSTANTS
    Names,          \* usernames, in canonical form
    Admin,          \* BOOTSTRAP_USERNAME
    Sids, Tids,     \* rows of sessions and of machine_tokens
    Requests,       \* requests that can wait for their bodies at once
    Nobody,         \* no user
    Roles,          \* ROLE_VALUES
    RoleHolders     \* bound: the users who are given roles

ASSUME AuthAssumption ==
    /\ Admin \in Names /\ Nobody \notin Names
    /\ {"none", "full"} \subseteq Roles /\ RoleHolders \subseteq Names

VARIABLES
    rows, superuser, active,    \* the users there are, and two columns of theirs
    invited,        \* users with a setup token that has not expired
    secret,         \* name -> the number of its TOTP secret, 0 for no row
    session,        \* sid -> its user, Nobody once it is deleted or has expired
    token,          \* tid -> its user, Nobody unless it is neither revoked nor expired
    role,           \* name -> the role in one app, and granted_by
    request,        \* what waits for its body, and the actor it has looked up
    retired,        \* history: one secret a reissue was to replace, any of them
    torn,           \* history: users whose deactivation stopped half way
    raced           \* history: tokens issued to a user inactive by then

users    == <<rows, superuser, active, invited>>
history  == <<retired, torn, raced>>
vars     == <<users, secret, session, token, role, request, history>>

NoRole    == [role |-> "none", by |-> Nobody]
NoRequest == [kind |-> "none", actor |-> Nobody]
NoSecret  == [user |-> Nobody, secret |-> 0]
Secrets   == 1 .. 2     \* enough for one that is new beside the retired one

Init ==
    /\ rows = {} /\ superuser = {} /\ active = {}
    /\ invited = {}
    /\ secret = [u \in Names |-> 0]
    /\ session = [s \in Sids |-> Nobody]
    /\ token = [t \in Tids |-> Nobody]
    /\ role = [u \in Names |-> NoRole]
    /\ request = [r \in Requests |-> NoRequest]
    /\ retired = NoSecret /\ torn = {} /\ raced = {}

-----------------------------------------------------------------------------
(* The stores. *)

\* validate_session: it does not look at is_active.
validate_session(s) == session[s]

\* Whom the gate and require_superuser let through: by a session, or by a token that
\* JWTAuth.validate and MachineTokenStore.is_active accept.
Superusers ==
    ({validate_session(s) : s \in Sids} \cup {token[t] : t \in Tids}) \cap superuser

\* GET /auth/verify, which Caddy asks before each request to an app.
verify(s) == validate_session(s) \in active

RowsStay(u, f) == f                                                  \* mutant

Without(u, f) == [x \in DOMAIN f |-> IF f[x] = u THEN Nobody ELSE f[x]]

\* raced is only kept of tokens that work.
DropTokens(T) ==
    /\ token' = [t \in Tids |-> IF t \in T THEN Nobody ELSE token[t]]
    /\ raced' = raced \ T

TokensOf(u) == {t \in Tids : token[t] = u}

create_session(u) ==
    \E s \in Sids : session[s] = Nobody /\ session' = [session EXCEPT ![s] = u]

\* A random secret, which is not the one that was retired.
NewSecret(u) == CHOOSE x \in Secrets : u = retired.user => x # retired.secret

ensure_credentials(u) ==
    secret' = IF secret[u] # 0 THEN secret ELSE [secret EXCEPT ![u] = NewSecret(u)]

\* Some code is accepted: see above.
validate(u) == secret[u] # 0

-----------------------------------------------------------------------------
(* Enrolment, login, logout. *)

\* GET /auth/setup with a link, and POST with a code that is wrong.
show_setup(u) ==
    /\ u \in invited
    /\ ensure_credentials(u)
    /\ UNCHANGED <<users, session, token, role, request, history>>

\* get_or_create_bootstrap_superuser: any row called admin will do.
bootstrap ==
    /\ active = {}
    /\ rows' = rows \cup {Admin}
    /\ superuser' = IF Admin \in rows THEN superuser ELSE superuser \cup {Admin}
    /\ ensure_credentials(Admin)
    /\ UNCHANGED <<active, invited, session, token, role, request, history>>

activate_user(u) ==
    /\ active' = active \cup {u}
    /\ invited' = invited \ {u}

\* POST /auth/setup, by a link or, while nobody is active, for the row called admin.
post_setup(u) ==
    /\ u \in rows
    /\ \/ u \in invited
       \/ active = {} /\ u = Admin
    /\ validate(u)
    /\ activate_user(u)
    /\ create_session(u)
    /\ torn' = torn \ {u}
    /\ UNCHANGED <<rows, superuser, secret, token, role, request, retired, raced>>

\* The code is used up, and the statement after it fails.
post_setup_fails(u) ==
    /\ u \in rows
    /\ \/ u \in invited
       \/ active = {} /\ u = Admin
    /\ validate(u)
    /\ \/ UNCHANGED users
       \/ activate_user(u) /\ UNCHANGED <<rows, superuser>>
    /\ torn' = torn \ active'
    /\ UNCHANGED <<secret, session, token, role, request, retired, raced>>

post_login(u) ==
    /\ u \in active
    /\ validate(u)
    /\ create_session(u)
    /\ UNCHANGED <<users, secret, token, role, request, history>>

\* DELETE /auth/session, or the session expires: the garbage collection at the next
\* login only removes what validate_session no longer finds.
logout(s) ==
    /\ session[s] # Nobody
    /\ session' = [session EXCEPT ![s] = Nobody]
    /\ UNCHANGED <<users, secret, token, role, request, history>>

-----------------------------------------------------------------------------
(* User management by the superuser a. *)

\* DELETE FROM users: sessions, credentials, roles and tokens go too, granted_by
\* is set to NULL, and a request in flight holds an id that no row has.
DeleteCascadesToGrants(u) ==                                         \* mutant
    role' = [x \in Names |-> IF x = u \/ role[x].by = u THEN NoRole ELSE role[x]]

DeleteRoles(u) ==
    role' = [x \in Names |->
        IF x = u THEN NoRole
        ELSE IF role[x].by = u THEN [role[x] EXCEPT !.by = Nobody] ELSE role[x]]

delete_user(a, u) ==
    /\ a \in Superusers /\ a # u /\ u \in rows
    /\ u \in superuser \cap active => Cardinality(superuser \cap active) > 1
    /\ rows' = rows \ {u} /\ superuser' = superuser \ {u} /\ active' = active \ {u}
    /\ invited' = invited \ {u}
    /\ secret' = [secret EXCEPT ![u] = 0]
    /\ session' = Without(u, session)
    /\ DropTokens(TokensOf(u))
    /\ DeleteRoles(u)
    /\ request' = [r \in Requests |->
          IF request[r].actor = u THEN [request[r] EXCEPT !.actor = Nobody] ELSE request[r]]
    /\ torn' = torn \ {u}
    /\ UNCHANGED retired

AnyTarget(a, u) == a \in Superusers /\ u \in rows                    \* mutant

DeactivationTarget(a, u) == a \in Superusers /\ u \in rows /\ a # u

DeactivateKeepsTokens(u, k) ==                                       \* mutant
    UNCHANGED <<token, raced>>

\* The last statement of deactivate_user, if it is reached.
RevokeTokens(u, k) == IF k = 3 THEN DropTokens(TokensOf(u)) ELSE UNCHANGED <<token, raced>>

\* deactivate_user, of which k statements succeed.
deactivate(a, u, k) ==
    /\ DeactivationTarget(a, u)
    /\ active' = active \ {u}
    /\ IF k >= 2 THEN session' = Without(u, session) ELSE UNCHANGED session
    /\ RevokeTokens(u, k)
    /\ torn' = IF k < 3 THEN torn \cup {u} ELSE torn \ {u}
    /\ UNCHANGED <<rows, superuser, invited, secret, role, request, retired>>

\* The setup token, if there is one, stays.
reactivate(a, u) ==
    /\ a \in Superusers /\ u \in rows /\ secret[u] # 0
    /\ active' = active \cup {u}
    /\ torn' = torn \ {u}
    /\ UNCHANGED <<rows, superuser, invited, secret, session, token, role, request,
                   retired, raced>>

CredentialStays(u) == UNCHANGED secret                               \* mutant

DeleteCredential(u) == secret' = [secret EXCEPT ![u] = 0]

SessionsStay(u, k) == UNCHANGED session                              \* mutant

ReissueSessions(u, k) == IF k >= 3 THEN session' = Without(u, session) ELSE UNCHANGED session

\* reissue_setup_token, of which k statements succeed; the actor may be the target.
reissue(a, u, k) ==
    /\ a \in Superusers /\ u \in rows
    /\ DeleteCredential(u)
    /\ retired' \in {retired, [user |-> u, secret |-> secret[u]]}
    /\ IF k >= 2 THEN DropTokens(TokensOf(u)) ELSE UNCHANGED <<token, raced>>
    /\ ReissueSessions(u, k)
    /\ IF k = 4
       THEN active' = active \ {u} /\ invited' = invited \cup {u}
       ELSE UNCHANGED <<active, invited>>
    /\ torn' = IF k = 4 THEN torn \ {u} ELSE torn
    /\ UNCHANGED <<rows, superuser, role, request>>

-----------------------------------------------------------------------------
(* Handlers that look up the caller and then await the body. *)

Await(r, kind, a) ==
    /\ request[r] = NoRequest
    /\ request' = [request EXCEPT ![r] = [kind |-> kind, actor |-> a]]
    /\ UNCHANGED <<users, secret, session, token, role, history>>

asks_superuser(r, a) ==
    /\ a \in Superusers
    /\ Await(r, "assign_role", a) \/ Await(r, "create_user", Nobody)

asks_token(r, s) ==
    /\ validate_session(s) # Nobody
    /\ Await(r, "create_token", validate_session(s))

EndRequest(r) == request' = [request EXCEPT ![r] = NoRequest]

create_user(r, u, is_superuser) ==
    /\ request[r].kind = "create_user" /\ u \notin rows
    /\ rows' = rows \cup {u}
    /\ superuser' = IF is_superuser THEN superuser \cup {u} ELSE superuser
    /\ invited' = invited \cup {u}
    /\ EndRequest(r)
    /\ UNCHANGED <<active, secret, session, token, role, history>>

\* set_role.  Once the actor's row is gone the foreign key forbids an INSERT.
assign_role(r, u, x) ==
    /\ request[r].kind = "assign_role" /\ u \in rows \cap RoleHolders
    /\ x = "full" => request[r].actor \in superuser
    /\ x # "none" => request[r].actor # Nobody
    /\ role' = [role EXCEPT ![u] =
          IF x = "none" THEN NoRole ELSE [role |-> x, by |-> request[r].actor]]
    /\ EndRequest(r)
    /\ UNCHANGED <<users, secret, session, token, history>>

create_token(r, t) ==
    /\ request[r].kind = "create_token" /\ request[r].actor # Nobody
    /\ token[t] = Nobody
    /\ token' = [token EXCEPT ![t] = request[r].actor]
    /\ raced' = IF request[r].actor \in active THEN raced ELSE raced \cup {t}
    /\ EndRequest(r)
    /\ UNCHANGED <<users, secret, session, role, retired, torn>>

\* A bad body, an unknown or taken name, a refusal, an error, a client that is gone.
request_fails(r) ==
    /\ request[r] # NoRequest
    /\ EndRequest(r)
    /\ UNCHANGED <<users, secret, session, token, role, history>>

\* DELETE /api/auth/tokens/{id}, by the user whose token it is.
revoke_token(s, t) ==
    /\ token[t] # Nobody /\ token[t] = validate_session(s)
    /\ DropTokens({t})
    /\ UNCHANGED <<users, secret, session, role, request, retired, torn>>

-----------------------------------------------------------------------------
(* Time. *)

link_expires(u) ==
    /\ u \in invited
    /\ invited' = invited \ {u}
    /\ UNCHANGED <<rows, superuser, active, secret, session, token, role, request, history>>

token_expires(t) ==
    /\ token[t] # Nobody
    /\ DropTokens({t})
    /\ UNCHANGED <<users, secret, session, role, request, retired, torn>>

-----------------------------------------------------------------------------
Next ==
    \/ bootstrap
    \/ \E u \in Names :
          \/ show_setup(u) \/ post_setup(u) \/ post_setup_fails(u) \/ post_login(u)
          \/ link_expires(u)
          \/ \E a \in Names :
                \/ delete_user(a, u) \/ reactivate(a, u)
                \/ \E k \in 1 .. 3 : deactivate(a, u, k)
                \/ \E k \in 1 .. 4 : reissue(a, u, k)
    \/ \E s \in Sids :
          \/ logout(s)
          \/ \E t \in Tids : revoke_token(s, t)
          \/ \E r \in Requests : asks_token(r, s)
    \/ \E t \in Tids : token_expires(t)
    \/ \E r \in Requests :
          \/ request_fails(r)
          \/ \E a \in Names : asks_superuser(r, a)
          \/ \E u \in Names : \/ \E b \in BOOLEAN : create_user(r, u, b)
                              \/ \E x \in Roles : assign_role(r, u, x)
          \/ \E t \in Tids : create_token(r, t)

Spec == Init /\ [][Next]_vars

-----------------------------------------------------------------------------
(* Properties *)

TypeOK ==
    /\ rows \subseteq Names /\ superuser \subseteq rows /\ active \subseteq rows
    /\ invited \subseteq rows
    /\ secret \in [Names -> Secrets \cup {0}]
    /\ session \in [Sids -> rows \cup {Nobody}]
    /\ token \in [Tids -> rows \cup {Nobody}]
    /\ role \in [Names -> [role : Roles, by : rows \cup {Nobody}]]
    /\ request \in [Requests -> [kind : {"none", "create_user", "assign_role", "create_token"},
                                 actor : rows \cup {Nobody}]]
    /\ retired \in [user : Names \cup {Nobody}, secret : Secrets \cup {0}]
    /\ torn \subseteq rows /\ raced \subseteq Tids

\* What /auth/verify and the platform's own handlers think of a session is the same,
\* although only verify looks at is_active: no order of logins, enrolments,
\* deactivations and reissues leaves a session to an inactive user, save a
\* deactivation that failed half way and has not been repeated.
VerifyAgreesWithHandlers ==
    \A s \in Sids :
        validate_session(s) # Nobody => verify(s) \/ validate_session(s) \in torn

\* A token that works belongs to an active user: deactivation and reissue reach
\* every token but one whose request had looked the user up before, and a
\* deactivation that failed half way.
LiveTokensHaveActiveUsers ==
    \A t \in Tids :
        token[t] # Nobody => token[t] \in active \cup torn \/ t \in raced

\* After a setup link has been re-issued the old authenticator never works again.
OldSecretsStayRetired ==
    \A u \in Names : u = retired.user /\ secret[u] # 0 => secret[u] # retired.secret

\* "Cannot delete the last active Superuser": while those who act are themselves
\* active, an active superuser remains, or a superuser has just got a new setup link.
SuperuserRemains ==
    [][superuser \cap active # {} /\ Superusers \subseteq active
          => \/ (superuser \cap active)' # {}
             \/ \E u \in superuser : u \in active /\ u \in invited']_vars

\* "Rows survive the deletion of the granting Superuser": a user keeps a role until a
\* request sets another or the user's own row goes.
GrantsOutliveGranters ==
    [][\A u \in rows \cap rows' :
          role'[u].role # role[u].role
             => \E r \in Requests : request[r].kind = "assign_role" /\ request'[r] = NoRequest]_vars
=============================================================================
