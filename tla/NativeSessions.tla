--------------------------- MODULE NativeSessions ---------------------------
(***************************************************************************)
(* The refresh tokens of a native client session                           *)
(* (mova-application/users.rs, refresh_native_client_session;              *)
(* mova-db/users.rs, rotate_native_client_session_tokens) and what         *)
(* housekeeping may delete (cleanup_auth_sessions).                        *)
(*                                                                         *)
(* A refresh hands out the next token of the session and remembers the one *)
(* it replaces until that would have expired: a token that comes back      *)
(* after its rotation ends the session.  The token is looked up by one     *)
(* statement and exchanged by another, so two refreshes with the same      *)
(* token, a refresh and a logout, or a refresh and housekeeping overlap.   *)
(*                                                                         *)
(* Token hashes are the numbers 0, 1, ... in the order of their issue.     *)
(* All tokens live equally long, so they expire in that order.             *)
(***************************************************************************)
EXTENDS Naturals

CONSTANTS
    NativeIds,    \* rows of native_client_sessions
    Refreshes,    \* refresh requests of the run, each made at most once
    NoNative,
    MaxToken      \* bound: tokens issued in one session

ASSUME TokenAssumption == MaxToken \in Nat /\ NoNative \notin NativeIds

VARIABLES
    native,     \* native[n]: a row of native_client_sessions
    used,       \* used[n]: its rows of native_client_used_refresh_tokens
    refresh,    \* the refresh requests in flight
    enabled     \* whether the user of the sessions is enabled

nativeVars == <<native, used, refresh, enabled>>

\* token: the current refresh token; expired: how many tokens have expired;
\* access: whether the access token is still good.
NoRow == [status |-> "none", token |-> 0, expired |-> 0, access |-> FALSE, revoked |-> FALSE]
RefreshIdle == [pc |-> "idle", id |-> NoNative, token |-> 0]

Live(n) == native[n].status = "live"
Expired(n, t) == t < native[n].expired
Issued(n, t) == Live(n) /\ t <= native[n].token

NativeInit ==
    /\ native = [n \in NativeIds |-> NoRow]
    /\ used = [n \in NativeIds |-> {}]
    /\ refresh = [r \in Refreshes |-> RefreshIdle]
    /\ enabled = TRUE

Revoke(ns) == native' = [n \in NativeIds |->
                  IF n \in ns /\ Live(n) THEN [native[n] EXCEPT !.revoked = TRUE] ELSE native[n]]

Ends(r) == refresh' = [refresh EXCEPT ![r] = [RefreshIdle EXCEPT !.pc = "done"]]

-----------------------------------------------------------------------------
create_native_client_session(n) ==
    /\ enabled
    /\ native[n].status = "none"
    /\ native' = [native EXCEPT ![n] = [NoRow EXCEPT !.status = "live", !.access = TRUE]]
    /\ UNCHANGED <<used, refresh, enabled>>

\* refresh_native_client_session, the look-up of the token that was presented.
refresh_found(r, n, t) ==
    /\ refresh[r].pc = "idle"
    /\ Issued(n, t) /\ t = native[n].token
    /\ IF native[n].revoked \/ Expired(n, t)
       THEN Ends(r) /\ UNCHANGED native
       ELSE IF ~ enabled
            THEN Ends(r) /\ Revoke(NativeIds)
            ELSE /\ refresh' = [refresh EXCEPT ![r] = [pc |-> "rotate", id |-> n, token |-> t]]
                 /\ UNCHANGED native
    /\ UNCHANGED <<used, enabled>>

\* Not a current token: one that was used revokes its session, unless it would
\* have expired by now; any other is just refused.
refresh_replayed(r, n, t) ==
    /\ refresh[r].pc = "idle"
    /\ Issued(n, t) /\ t # native[n].token
    /\ IF t \in used[n] /\ ~ Expired(n, t) THEN Revoke({n}) ELSE UNCHANGED native
    /\ Ends(r)
    /\ UNCHANGED <<used, enabled>>

\* Mutation: the row is found by its id alone.
rotatable_by_id(n, t) == Live(n) /\ ~ native[n].revoked /\ ~ Expired(n, native[n].token)

\* The where clause of the exchange.
rotatable(n, t) ==
    Live(n) /\ native[n].token = t /\ ~ native[n].revoked /\ ~ Expired(n, t)

\* It is remembered unless it expired between the two statements.
remembered(n, t) == used[n] \union {u \in {t} : ~ Expired(n, u)}

\* rotate_native_client_session_tokens, one transaction.
rotate_native_client_session_tokens(r) ==
    LET n == refresh[r].id t == refresh[r].token IN
    /\ refresh[r].pc = "rotate"
    /\ \/ /\ rotatable(n, t)
          /\ native[n].token < MaxToken
          /\ native' = [native EXCEPT ![n].token = @ + 1, ![n].access = TRUE]
          /\ used' = [used EXCEPT ![n] = remembered(n, t)]
       \/ /\ ~ rotatable(n, t)
          /\ IF Live(n) /\ ~ (native[n].token = t /\ Expired(n, t) /\ ~ native[n].revoked)
             THEN Revoke({n}) ELSE UNCHANGED native
          /\ UNCHANGED used
    /\ Ends(r)
    /\ UNCHANGED enabled

\* logout by the access token revokes its session ...
logout_native_client_access_token(n) ==
    /\ Live(n) /\ native[n].access
    /\ Revoke({n})
    /\ UNCHANGED <<used, refresh, enabled>>

\* ... and by a refresh token, current or used, the session it came from.
logout_native_client_refresh_token(n, t) ==
    /\ Issued(n, t)
    /\ t = native[n].token \/ (t \in used[n] /\ ~ Expired(n, t))
    /\ Revoke({n})
    /\ UNCHANGED <<used, refresh, enabled>>

\* The user is disabled, or has its password replaced, by another request.
revoke_for_user(disable) ==
    /\ enabled
    /\ enabled' = ~ disable
    /\ Revoke(NativeIds)
    /\ UNCHANGED <<used, refresh>>

enable_user ==
    /\ ~ enabled
    /\ enabled' = TRUE
    /\ UNCHANGED <<native, used, refresh>>

-----------------------------------------------------------------------------
\* Time passes: the access token of a session, or its oldest refresh token.
expire_access(n) ==
    /\ Live(n) /\ native[n].access
    /\ native' = [native EXCEPT ![n].access = FALSE]
    /\ UNCHANGED <<used, refresh, enabled>>

expire_refresh(n) ==
    /\ Live(n) /\ native[n].expired <= native[n].token
    /\ native' = [native EXCEPT ![n].expired = @ + 1, ![n].access = @ /\ native[n].expired # native[n].token]
    /\ UNCHANGED <<used, refresh, enabled>>

\* Mutation: used tokens go with the access token.
forgettable_early(n) == {t \in used[n] : ~ native[n].access}

\* Only a token that can no longer revoke anything is forgotten.
forgettable(n) == {t \in used[n] : Expired(n, t)}

\* A session that has expired, or was revoked longer ago than the retention.
retired(n) == Live(n) /\ (native[n].revoked \/ Expired(n, native[n].token))

\* cleanup_auth_sessions: a batch, under an advisory lock that skips a second
\* one.  The used tokens of a session go with it.
cleanup_auth_sessions ==
    \E sessions \in SUBSET {n \in NativeIds : retired(n)} :
    \E tokens \in [NativeIds -> SUBSET (0 .. MaxToken)] :
       /\ \A n \in NativeIds : tokens[n] \subseteq forgettable(n)
       /\ native' = [n \in NativeIds |->
                        IF n \in sessions THEN [NoRow EXCEPT !.status = "gone"] ELSE native[n]]
       /\ used' = [n \in NativeIds |-> IF n \in sessions THEN {} ELSE used[n] \ tokens[n]]
       /\ UNCHANGED <<refresh, enabled>>

-----------------------------------------------------------------------------
Refresh(r) ==
    \/ \E n \in NativeIds, t \in 0 .. MaxToken : refresh_found(r, n, t) \/ refresh_replayed(r, n, t)
    \/ rotate_native_client_session_tokens(r)

NativeNext ==
    \/ \E r \in Refreshes : Refresh(r)
    \/ \E n \in NativeIds :
          \/ create_native_client_session(n)
          \/ logout_native_client_access_token(n)
          \/ \E t \in 0 .. MaxToken : logout_native_client_refresh_token(n, t)
          \/ expire_access(n) \/ expire_refresh(n)
    \/ \E disable \in BOOLEAN : revoke_for_user(disable)
    \/ enable_user
    \/ cleanup_auth_sessions

NativeSpec == NativeInit /\ [][NativeNext]_nativeVars

-----------------------------------------------------------------------------
NativeTypeOK ==
    /\ native \in [NativeIds -> [status : {"none", "live", "gone"}, token : 0 .. MaxToken,
                                 expired : 0 .. MaxToken + 1, access : BOOLEAN,
                                 revoked : BOOLEAN]]
    /\ used \in [NativeIds -> SUBSET (0 .. MaxToken)]
    /\ refresh \in [Refreshes -> [pc : {"idle", "rotate", "done"}, id : NativeIds \union {NoNative},
                                  token : 0 .. MaxToken]]
    /\ enabled \in BOOLEAN

\* Every token of a session that was exchanged and has not expired is
\* remembered, so that it revokes the session when it comes back, and no
\* current token is (rotate_native_client_session_tokens, cleanup_auth_sessions).
ExchangedTokensAreRemembered ==
    \A n \in NativeIds : Live(n) =>
       /\ \A t \in 0 .. MaxToken : t < native[n].token => Expired(n, t) \/ t \in used[n]
       /\ \A t \in used[n] : t < native[n].token

\* A session whose token is exchanged was not revoked, and the refresh that
\* exchanges it holds its current token: two refreshes never both succeed with
\* one token.  And a session that housekeeping deletes had ended before.
ExchangesAreExclusive ==
    [][/\ \A n \in NativeIds : native'[n].token > native[n].token =>
             /\ ~ native[n].revoked
             /\ \E r \in Refreshes : /\ refresh[r].pc = "rotate" /\ refresh'[r].pc = "done"
                                     /\ refresh[r].id = n /\ refresh[r].token = native[n].token
       /\ \A n \in NativeIds : Live(n) /\ native'[n].status = "gone" =>
             native[n].revoked \/ Expired(n, native[n].token)]_nativeVars
=============================================================================
