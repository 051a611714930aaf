------------------------------ MODULE Accounts ------------------------------
(***************************************************************************)
(* Users, the credentials they sign in with, and the event streams that    *)
(* stay open under a credential (mova-application/users.rs,                *)
(* mova-db/users.rs, handlers/users.rs, handlers/auth.rs,                  *)
(* handlers/realtime.rs).                                                  *)
(*                                                                         *)
(* A user-management request reads the target, then the acting user, and   *)
(* only then opens the transaction that writes: nothing is locked between  *)
(* the reads and the write, so each is a step of its own here.  The same   *)
(* holds for a sign-in, which verifies a password (slowly) before it       *)
(* inserts the session.                                                    *)
(*                                                                         *)
(* A credential is a web session or a native session; what the chain of    *)
(* refresh tokens of a native session adds is in NativeSessions.           *)
(* Passwords are not modelled: a sign-in that gets past verification is    *)
(* what matters to the rest.                                               *)
(***************************************************************************)
EXTENDS Naturals, FiniteSets

CONSTANTS
    Users,         \* user names
    Libraries,     \* library ids
    Credentials,   \* rows of user_sessions and native_client_sessions
    Native,        \* the ones of native_client_sessions
    Requests,      \* requests of the run, each made at most once
    Streams,       \* event streams of the run, each opened at most once
    NoUser, NoCred

ASSUME NativeAssumption == Native \subseteq Credentials
ASSUME SignalsAssumption == /\ Users \intersect Credentials = {}
                            /\ NoUser \notin Users /\ NoCred \notin Credentials

VARIABLES
    users,       \* the users table, with the user_library_access of each row
    libraries,   \* the libraries table
    creds,       \* the two session tables
    request,     \* the requests in flight
    stream,      \* the event streams
    signals      \* session signals notified by commits and not yet published

accountsVars == <<users, libraries, creds, request, stream, signals>>
tables == <<users, libraries, creds, signals>>

Roles == {"owner", "admin", "viewer"}
is_admin(role) == role \in {"owner", "admin"}

\* The row of a user, and what stands for no row: an id is not used again.
Rows == [role : Roles, enabled : BOOLEAN, libs : SUBSET Libraries]
Absent == [role |-> "none", enabled |-> FALSE, libs |-> {}]
Deleted == [role |-> "gone", enabled |-> FALSE, libs |-> {}]
AnyRow == Rows \union {Absent, Deleted}
Exists(u) == users[u].role \in Roles

NoCredential == [status |-> "new", user |-> NoUser]

RequestIdle == [pc |-> "idle", op |-> "none", actor |-> NoUser, user |-> NoUser,
                seen |-> Absent, next |-> Absent]
RequestDone == [RequestIdle EXCEPT !.pc = "done"]

StreamIdle == [pc |-> "idle", cred |-> NoCred, user |-> NoUser, seen |-> Absent,
               tries |-> 0, closing |-> FALSE, missed |-> FALSE]
StreamClosed == [StreamIdle EXCEPT !.pc = "closed"]

-----------------------------------------------------------------------------
(* Authentication of a request.                                            *)

\* get_user_session and get_native_access_session: the row is there, not
\* revoked, not expired, and its user is enabled at this moment.
Accepted(c) == creds[c].status = "live" /\ users[creds[c].user].enabled

\* The AuthenticatedUser and AdminUser extractors, before the handler runs.
SignedIn(u) == \E c \in Credentials : creds[c].user = u /\ Accepted(c)

\* require_admin.
SignedInAdmin(u) == SignedIn(u) /\ is_admin(users[u].role)

Reply(r) == request' = [request EXCEPT ![r] = RequestDone]

\* The credentials of u end, by delete or by revoked_at; a trigger signals
\* each one that was still good.
OfUser(u) == {c \in Credentials : creds[c].user = u /\ creds[c].status = "live"}
End(cs) == [c \in Credentials |-> IF c \in cs THEN [NoCredential EXCEPT !.status = "ended"]
                                  ELSE creds[c]]

\* pg_notify at commit; what becomes of the signal is below, with the streams.
\* With every stream closed it has nobody to reach.
notify(sigs) == signals' = IF \A s \in Streams : stream[s].pc = "closed"
                           THEN {} ELSE signals \union sigs

-----------------------------------------------------------------------------
(* Sign-in.                                                                *)

\* count_admin_users is 0.
bootstrap_required == \A u \in Users : ~ is_admin(users[u].role)

\* bootstrap_admin up to its insert.
bootstrap_admin(r) ==
    /\ request[r].pc = "idle"
    /\ bootstrap_required
    /\ request' = [request EXCEPT ![r] = [RequestIdle EXCEPT !.pc = "insert",
           !.op = "bootstrap", !.next = [role |-> "owner", enabled |-> TRUE, libs |-> {}]]]
    /\ UNCHANGED <<tables, stream>>

\* The insert, under the unique index on the one owner.
insert_owner(r, u) ==
    /\ request[r].pc = "insert"
    /\ request[r].op = "bootstrap"
    /\ users[u] = Absent
    /\ IF \E v \in Users : users[v].role = "owner"
       THEN Reply(r) /\ UNCHANGED users
       ELSE /\ users' = [users EXCEPT ![u] = request[r].next]
            /\ request' = [request EXCEPT ![r] = [RequestIdle EXCEPT !.pc = "session", !.user = u]]
    /\ UNCHANGED <<libraries, creds, signals, stream>>

\* The password is right and the account enabled.
authenticate_login(r, u) ==
    /\ request[r].pc = "idle"
    /\ Exists(u) /\ users[u].enabled
    /\ request' = [request EXCEPT ![r] = [RequestIdle EXCEPT !.pc = "session", !.user = u]]
    /\ UNCHANGED <<tables, stream>>

\* create_session_for_user and create_native_session_for_user: the insert
\* fails when the user is gone by now; whether it is still enabled, or still
\* has the password that was verified, is not looked at again.
create_session_for_user(r, c) ==
    /\ request[r].pc = "session"
    /\ creds[c].status = "new"
    /\ creds' = IF Exists(request[r].user)
                THEN [creds EXCEPT ![c] = [status |-> "live", user |-> request[r].user]]
                ELSE creds
    /\ Reply(r)
    /\ UNCHANGED <<users, libraries, signals, stream>>

-----------------------------------------------------------------------------
(* User management.                                                        *)

user_management_level(role) == CASE role = "owner" -> 2 [] role = "admin" -> 1 [] OTHER -> 0

\* Mutation: an admin manages every other account.
manages_anyone_else(actor, target, actorRow, targetRow) ==
    actor # target /\ is_admin(actorRow.role)

validate_user_management_scope(actor, target, actorRow, targetRow) ==
    /\ actor # target
    /\ user_management_level(actorRow.role) > user_management_level(targetRow.role)

validate_role_assignment(actorRow, role) ==
    /\ is_admin(actorRow.role)
    /\ role # "owner"
    /\ role = "admin" => actorRow.role = "owner"

count_enabled_admin_users ==
    Cardinality({u \in Users : is_admin(users[u].role) /\ users[u].enabled})

\* enabled_admin_is_removed.
removes_enabled_admin(seen, role, enabled) ==
    is_admin(seen.role) /\ seen.enabled /\ (~ is_admin(role) \/ ~ enabled)

\* validate_admin_retention: an enabled admin is only taken away while
\* another one is counted.
validate_admin_retention(seen, role, enabled) ==
    removes_enabled_admin(seen, role, enabled) => count_enabled_admin_users > 1

\* What user_library_access holds: an admin sees every library without it.
granted(role, libs) == IF is_admin(role) THEN {} ELSE libs

\* create_user up to its transaction.
create_user(r, actor, u, row) ==
    /\ request[r].pc = "idle"
    /\ SignedInAdmin(actor)
    /\ validate_role_assignment(users[actor], row.role)
    /\ is_admin(row.role) \/ row.libs \subseteq libraries
    /\ request' = [request EXCEPT ![r] = [RequestIdle EXCEPT !.pc = "insert", !.op = "create",
           !.actor = actor, !.user = u, !.next = [row EXCEPT !.libs = granted(row.role, row.libs)]]]
    /\ UNCHANGED <<tables, stream>>

\* The name must be free and every library still there.
insert_user(r) ==
    LET u == request[r].user row == request[r].next IN
    /\ request[r].pc = "insert"
    /\ request[r].op = "create"
    /\ IF users[u] = Absent /\ row.libs \subseteq libraries
       THEN /\ users' = [users EXCEPT ![u] = row]
            /\ notify({s \in {u} : row.libs # {}})
       ELSE UNCHANGED <<users, signals>>
    /\ Reply(r)
    /\ UNCHANGED <<libraries, creds, stream>>

\* update_user, delete_user and reset_user_password read the target first.
read_target(r, op, actor, u) ==
    /\ request[r].pc = "idle"
    /\ SignedInAdmin(actor)
    /\ Exists(u)
    /\ request' = [request EXCEPT ![r] = [RequestIdle EXCEPT !.pc = "validate", !.op = op,
                                          !.actor = actor, !.user = u, !.seen = users[u]]]
    /\ UNCHANGED <<tables, stream>>

\* The acting user is read after the target, and checked against what was read
\* then; a field the request leaves out keeps the value read, not the value
\* the row has when the write comes.
validate_update(r, role, enabled, libs) ==
    LET q == request[r] IN
    /\ q.pc = "validate"
    /\ q.op = "update"
    /\ validate_user_management_scope(q.actor, q.user, users[q.actor], q.seen)
    /\ validate_role_assignment(users[q.actor], role)
    /\ validate_admin_retention(q.seen, role, enabled)
    /\ granted(role, libs) \subseteq libraries
    /\ request' = [request EXCEPT ![r].pc = "write", ![r].next =
                       [role |-> role, enabled |-> enabled, libs |-> granted(role, libs)]]
    /\ UNCHANGED <<tables, stream>>

validate_removal(r) ==
    LET q == request[r] IN
    /\ q.pc = "validate"
    /\ q.op \in {"delete", "reset"}
    /\ validate_user_management_scope(q.actor, q.user, users[q.actor], q.seen)
    /\ q.op = "delete" => validate_admin_retention(q.seen, q.seen.role, FALSE)
    /\ request' = [request EXCEPT ![r].pc = "write"]
    /\ UNCHANGED <<tables, stream>>

\* One of the validations refuses the request, or the acting user is gone.
Refused(r) ==
    /\ request[r].pc = "validate"
    /\ Reply(r)
    /\ UNCHANGED <<tables, stream>>

\* The triggers on users and user_library_access: the grants are deleted and
\* written again, so any grant before or after signals, changed or not.
authorization_signals(u, old, new) ==
    {s \in {u} : \/ old.role # new.role \/ old.enabled # new.enabled
                 \/ old.libs # {} \/ new.libs # {}}

\* update_user's transaction.  A disabled user loses its credentials.
update_user(r) ==
    LET u == request[r].user row == request[r].next
        ended == IF row.enabled THEN {} ELSE OfUser(u) IN
    /\ request[r].pc = "write"
    /\ request[r].op = "update"
    /\ IF Exists(u) /\ row.libs \subseteq libraries
       THEN /\ users' = [users EXCEPT ![u] = row]
            /\ creds' = End(ended)
            /\ notify(authorization_signals(u, users[u], row) \union ended)
       ELSE UNCHANGED <<users, creds, signals>>
    /\ Reply(r)
    /\ UNCHANGED <<libraries, stream>>

\* delete_user: sessions and grants go with the row.
delete_user(r) ==
    LET u == request[r].user IN
    /\ request[r].pc = "write"
    /\ request[r].op = "delete"
    /\ IF Exists(u)
       THEN /\ users' = [users EXCEPT ![u] = Deleted]
            /\ creds' = End(OfUser(u))
            /\ notify({u} \union (OfUser(u) \ Native))
       ELSE UNCHANGED <<users, creds, signals>>
    /\ Reply(r)
    /\ UNCHANGED <<libraries, stream>>

\* update_user_password_and_revoke_sessions, for reset_user_password.
reset_user_password(r) ==
    LET u == request[r].user IN
    /\ request[r].pc = "write"
    /\ request[r].op = "reset"
    /\ IF Exists(u) THEN creds' = End(OfUser(u)) /\ notify(OfUser(u))
       ELSE UNCHANGED <<creds, signals>>
    /\ Reply(r)
    /\ UNCHANGED <<users, libraries, stream>>

\* change_own_password verifies the current password ...
change_own_password(r, u) ==
    /\ request[r].pc = "idle"
    /\ SignedIn(u)
    /\ request' = [request EXCEPT ![r] = [RequestIdle EXCEPT !.pc = "write", !.op = "change",
                                                             !.user = u]]
    /\ UNCHANGED <<tables, stream>>

\* ... and its transaction leaves the user the one new session.
replace_sessions(r, c) ==
    LET u == request[r].user IN
    /\ request[r].pc = "write"
    /\ request[r].op = "change"
    /\ c \notin Native /\ creds[c].status = "new"
    /\ IF Exists(u)
       THEN /\ creds' = [End(OfUser(u)) EXCEPT ![c] = [status |-> "live", user |-> u]]
            /\ notify(OfUser(u))
       ELSE UNCHANGED <<creds, signals>>
    /\ Reply(r)
    /\ UNCHANGED <<users, libraries, stream>>

-----------------------------------------------------------------------------
(* Credentials that end by themselves, and libraries that go.              *)

\* logout deletes a web session and revokes a native one.
logout(c) ==
    /\ creds[c].status = "live"
    /\ creds' = End({c})
    /\ notify({c})
    /\ UNCHANGED <<users, libraries, request, stream>>

\* A native access by a disabled user revokes what the user still holds.
revoke_disabled(c) ==
    LET u == creds[c].user ended == OfUser(u) \intersect Native IN
    /\ c \in Native /\ creds[c].status = "live"
    /\ ~ users[u].enabled
    /\ creds' = End(ended)
    /\ notify(ended)
    /\ UNCHANGED <<users, libraries, request, stream>>

\* Time passes expires_at.  Nothing is signalled: the stream has its own timer.
expire(c) ==
    /\ creds[c].status = "live"
    /\ creds' = End({c})
    /\ stream' = [s \in Streams |->
           IF stream[s].cred = c /\ stream[s].pc = "open"
           THEN [stream[s] EXCEPT !.closing = TRUE] ELSE stream[s]]
    /\ UNCHANGED <<users, libraries, request, signals>>

\* delete_library takes the grants of the library with it.
delete_library_grants(l) ==
    /\ l \in libraries
    /\ libraries' = libraries \ {l}
    /\ users' = [u \in Users |-> [users[u] EXCEPT !.libs = @ \ {l}]]
    /\ notify({u \in Users : l \in users[u].libs})
    /\ UNCHANGED <<creds, request, stream>>

-----------------------------------------------------------------------------
(* An event stream.                                                        *)

\* The AuthenticatedContext extractor.
events(s, c) ==
    /\ stream[s].pc = "idle"
    /\ Accepted(c)
    /\ stream' = [stream EXCEPT ![s] = [StreamIdle EXCEPT !.pc = "auth", !.cred = c,
                      !.user = creds[c].user, !.seen = users[creds[c].user]]]
    /\ UNCHANGED <<tables, request>>

\* hub.subscribe: signals published from now on reach the stream.
subscribe(s) ==
    /\ stream[s].pc = "auth"
    /\ stream' = [stream EXCEPT ![s].pc = "subscribed", ![s].tries = @ + 1]
    /\ UNCHANGED <<tables, request>>

\* Mutation: the credential is accepted again, with whatever authorization.
same_authorization_by_user(old, new) == TRUE

same_authorization_snapshot(old, new) == old = new

\* The credential is read again under the subscription.  An authorization that
\* changed in between is taken over by the next try, three at the most.
revalidate(s) ==
    LET t == stream[s] now == users[t.user] IN
    /\ t.pc = "subscribed"
    /\ stream' = [stream EXCEPT ![s] =
           IF ~ Accepted(t.cred) THEN StreamClosed
           ELSE IF same_authorization_snapshot(t.seen, now) THEN [t EXCEPT !.pc = "open"]
           ELSE IF t.tries < 3
                THEN [t EXCEPT !.pc = "auth", !.seen = now, !.closing = FALSE]
                ELSE StreamClosed]
    /\ UNCHANGED <<tables, request>>

\* publish_session_invalidated and publish_revoked_session_invalidated: what a
\* commit notified reaches the streams subscribed by then.
publish_invalidated(sig) ==
    /\ sig \in signals
    /\ signals' = signals \ {sig}
    /\ stream' = [s \in Streams |->
           IF stream[s].pc \in {"subscribed", "open"} /\ sig \in {stream[s].user, stream[s].cred}
           THEN [stream[s] EXCEPT !.closing = TRUE] ELSE stream[s]]
    /\ UNCHANGED <<users, libraries, creds, request>>

\* PostgreSQL keeps nothing for a listener whose connection is down: any of the
\* signals on their way may be lost with it.  When recv fails, the listener
\* subscribes anew and publishes resync.required, which ends every stream.
listener_subscribes(lost) ==
    /\ signals' = signals \ lost
    /\ stream' = [s \in Streams |->
           IF stream[s].pc \in {"subscribed", "open"}
           THEN [stream[s] EXCEPT !.closing = TRUE] ELSE stream[s]]
    /\ UNCHANGED <<users, libraries, creds, request>>

\* The authorization a stream was opened with is the one its user has now.
IsCurrent(t) == Accepted(t.cred) /\ users[t.user] = t.seen

\* But sqlx's recv first connects and listens again by itself, and only fails
\* when it cannot: then nothing is published, and a stream that one of the lost
\* signals should have closed has missed it.
listener_reconnects(lost) ==
    /\ lost # {}
    /\ signals' = signals \ lost
    /\ stream' = [s \in Streams |->
           IF /\ stream[s].pc = "open" /\ ~ IsCurrent(stream[s])
              /\ lost \intersect {stream[s].user, stream[s].cred} # {}
           THEN [stream[s] EXCEPT !.missed = TRUE] ELSE stream[s]]
    /\ UNCHANGED <<users, libraries, creds, request>>

\* The stream passes session.invalidated or resync.required on and ends.
close_stream(s) ==
    /\ stream[s].pc = "open"
    /\ stream[s].closing
    /\ stream' = [stream EXCEPT ![s] = StreamClosed]
    /\ UNCHANGED <<tables, request>>

-----------------------------------------------------------------------------
(* The tables are empty, or hold an owner and whatever it has set up.       *)
AccountsInit ==
    /\ libraries = Libraries
    /\ users \in [Users -> Rows \union {Absent}]
    /\ \/ \A u \in Users : users[u] = Absent
       \/ \E o \in Users :
            /\ users[o] = [role |-> "owner", enabled |-> TRUE, libs |-> {}]
            /\ \A u \in Users \ {o} : users[u].role # "owner"
            /\ \A u \in Users : is_admin(users[u].role) => users[u].libs = {}
    /\ creds \in [Credentials -> {NoCredential} \union [status : {"live"}, user : Users]]
    /\ \A c \in Credentials : creds[c].status = "live" => users[creds[c].user].enabled
    /\ request \in [Requests -> {RequestIdle, RequestDone}]
    /\ stream \in [Streams -> {StreamIdle, StreamClosed}]
    /\ signals = {}

SignInStep(r) ==
    \/ bootstrap_admin(r)
    \/ \E u \in Users : insert_owner(r, u) \/ authenticate_login(r, u)
    \/ \E c \in Credentials : create_session_for_user(r, c)

ManageStep(r) ==
    \/ \E actor, u \in Users : \E row \in Rows : create_user(r, actor, u, row)
    \/ \E actor, u \in Users, op \in {"update", "delete", "reset"} : read_target(r, op, actor, u)
    \/ \E role \in Roles, enabled \in BOOLEAN, libs \in SUBSET Libraries :
          validate_update(r, role, enabled, libs)
    \/ insert_user(r) \/ validate_removal(r) \/ Refused(r)
    \/ update_user(r) \/ delete_user(r) \/ reset_user_password(r)
    \/ \E u \in Users : change_own_password(r, u)
    \/ \E c \in Credentials : replace_sessions(r, c)

StreamStep(s) ==
    \/ \E c \in Credentials : events(s, c)
    \/ subscribe(s) \/ revalidate(s) \/ close_stream(s)

AccountsNext ==
    \/ \E r \in Requests : SignInStep(r) \/ ManageStep(r)
    \/ \E s \in Streams : StreamStep(s)
    \/ \E c \in Credentials : logout(c) \/ revoke_disabled(c) \/ expire(c)
    \/ \E l \in Libraries : delete_library_grants(l)
    \/ \E sig \in Users \union Credentials : publish_invalidated(sig)
    \/ \E lost \in SUBSET signals : listener_subscribes(lost) \/ listener_reconnects(lost)

AccountsSpec == AccountsInit /\ [][AccountsNext]_accountsVars

-----------------------------------------------------------------------------
AccountsTypeOK ==
    /\ users \in [Users -> AnyRow]
    /\ libraries \subseteq Libraries
    /\ creds \in [Credentials -> [status : {"new", "live", "ended"}, user : Users \union {NoUser}]]
    /\ request \in [Requests ->
          [pc : {"idle", "insert", "session", "validate", "write", "done"},
           op : {"none", "bootstrap", "create", "update", "delete", "reset", "change"},
           actor : Users \union {NoUser}, user : Users \union {NoUser},
           seen : AnyRow, next : AnyRow]]
    /\ stream \in [Streams ->
          [pc : {"idle", "auth", "subscribed", "open", "closed"}, cred : Credentials \union {NoCred},
           user : Users \union {NoUser}, seen : AnyRow, tries : 0..3, closing : BOOLEAN, missed : BOOLEAN]]
    /\ signals \subseteq Users \union Credentials

\* There is never a second owner.
OneOwner == \A u, v \in Users : users[u].role = "owner" /\ users[v].role = "owner" => u = v

\* The tables stay consistent with each other: admins hold no grants, grants
\* name libraries that exist, and a good credential belongs to a user that exists.
GrantsFitRoles ==
    /\ \A u \in Users : is_admin(users[u].role) => users[u].libs = {}
    /\ \A u \in Users : users[u].libs \subseteq libraries
    /\ \A c \in Credentials : creds[c].status = "live" => Exists(creds[c].user)

\* What a request carries between its reads and its write: never an owner to
\* manage, never an owner to make, and no grants for an admin.
RequestsFit ==
    \A r \in Requests :
       LET q == request[r] IN
       /\ q.pc = "insert" /\ q.op = "bootstrap" =>
             q.next = [role |-> "owner", enabled |-> TRUE, libs |-> {}]
       /\ q.pc = "insert" => q.op \in {"bootstrap", "create"}
       /\ q.pc = "insert" /\ q.op = "create" =>
             q.next.role \in {"admin", "viewer"}
       /\ q.pc = "write" /\ q.op = "update" =>
             q.next.role \in {"admin", "viewer"}
       /\ q.pc \in {"insert", "write"} =>
             (is_admin(q.next.role) => q.next.libs = {})
       /\ q.pc \in {"validate", "write"} =>
             q.op \in {"update", "delete", "reset", "change"} /\ users[q.user] # Absent
       /\ q.pc = "validate" /\ q.seen.role # "owner" => users[q.user].role # "owner"
       /\ q.pc = "write" /\ q.op # "change" => users[q.user].role # "owner"

\* The tables hold one owner at most, fitting grants and fitting requests,
\* whatever requests overlap (mova-db/users.rs, create_user and update_user).
AccountsInv == AccountsTypeOK /\ OneOwner /\ GrantsFitRoles /\ RequestsFit

\* The owner stays the owner and stays enabled, although no request that
\* manages users locks the rows it has checked (validate_user_management_scope).
OwnerStays ==
    [][\A u \in Users : users[u].role = "owner" =>
          users'[u].role = "owner" /\ users'[u].enabled]_accountsVars

\* A stream that is open and not about to close has the authorization its user
\* has now, or a signal that will close it is on its way
\* (authenticate_and_subscribe subscribes before it reads the credential again;
\* the listener publishes resync.required when it has subscribed anew).  The one
\* exception is a stream whose signal was lost while recv reconnected by itself
\* (run_postgres_revision_listener, the loop around recv): it stays open until
\* its credential expires, another signal comes or its client leaves.
StreamsAreCurrent ==
    \A s \in Streams :
       LET t == stream[s] IN
       t.pc = "open" /\ ~ t.closing /\ ~ t.missed =>
          IsCurrent(t) \/ t.user \in signals \/ t.cred \in signals
=============================================================================
