---------------------------- MODULE AuthRateLimit ---------------------------
(***************************************************************************)
(* The limit on failed sign-ins (auth_rate_limit.rs) and the way the login *)
(* handlers use it (handlers/auth.rs).                                     *)
(*                                                                         *)
(* The table is behind a mutex, but an attempt takes it twice: once to be  *)
(* let in and once to record how it ended.  Attempts let in together may   *)
(* therefore all fail, and the last ones find their key already blocked.   *)
(* The table has room for MaxKeys keys.                                    *)
(***************************************************************************)
EXTENDS Naturals, FiniteSets

CONSTANTS
    Keys,          \* rate limit keys: account names and user ids
    NoKey,
    Attempts,      \* attempts of the run, each made at most once
    MaxFailures, Window, Lockout, MaxKeys,     \* AuthRateLimitSettings
    MaxNow         \* bound: the clock of the run

ASSUME LimitAssumption == /\ MaxFailures \in Nat \ {0} /\ Window \in Nat \ {0}
                          /\ NoKey \notin Keys
                          /\ Lockout \in Nat \ {0} /\ MaxKeys \in Nat \ {0} /\ MaxNow \in Nat

VARIABLES
    entries,    \* entries[k]: the entry of a key, NoEntry when it has none
    attempt,    \* attempt[a]: its key while it is under way
    now

limitVars == <<entries, attempt, now>>

\* blocked: the end of the lockout, 0 for none.
NoEntry == [started |-> 0, failed |-> 0, blocked |-> 0, seen |-> 0, held |-> FALSE]
NewEntry == [started |-> now, failed |-> 0, blocked |-> 0, seen |-> now, held |-> TRUE]
Held == {k \in Keys : entries[k].held}

AttemptIdle == [pc |-> "idle", key |-> NoKey]

LimitInit ==
    /\ entries = [k \in Keys |-> NoEntry]
    /\ attempt = [a \in Attempts |-> AttemptIdle]
    /\ now = 1

Blocked(e) == e.blocked > now

\* What an entry is worth now: a lockout or a window that is over starts it anew.
Renewed(e) ==
    IF \/ e.blocked # 0 /\ ~ Blocked(e)
       \/ e.blocked = 0 /\ now - e.started >= Window
    THEN NewEntry ELSE [e EXCEPT !.seen = now]

\* check_at lets the attempt in unless its key is blocked.
check_at(a, k) ==
    /\ attempt[a].pc = "idle"
    /\ entries' = IF k \in Held THEN [entries EXCEPT ![k] = Renewed(@)] ELSE entries
    /\ attempt' = [attempt EXCEPT ![a] =
           [pc |-> IF k \in Held /\ Blocked(entries[k]) THEN "refused" ELSE "let_in", key |-> k]]
    /\ UNCHANGED now

Retention == 2 * (IF Window > Lockout THEN Window ELSE Lockout)

\* make_room: the keys that stay.  First the entries nobody has used for long
\* go, blocked ones excepted; when that is not enough, the one used least
\* recently goes, blocked or not.
make_room(k) ==
    LET kept == {j \in Held : Blocked(entries[j]) \/ now - entries[j].seen < Retention} IN
    IF k \in Held \/ Cardinality(Held) < MaxKeys THEN {Held}
    ELSE IF Cardinality(kept) < MaxKeys THEN {kept}
    ELSE {kept \ {old} : old \in {j \in kept : \A i \in kept : entries[j].seen <= entries[i].seen}}

\* Mutation: a failure under a lockout counts and extends it.
failed_again(e) ==
    LET f == Renewed(e) IN
    [f EXCEPT !.failed = @ + 1,
              !.blocked = IF f.failed + 1 >= MaxFailures THEN now + Lockout ELSE @]

\* The entry after a failure: counted in its window, and blocked by the one
\* that reaches the limit; under a lockout nothing is counted.
failed(e) ==
    LET f == Renewed(e) IN
    IF Blocked(e) THEN f
    ELSE [f EXCEPT !.failed = @ + 1,
                   !.blocked = IF f.failed + 1 >= MaxFailures THEN now + Lockout ELSE 0]

\* record_failure_at, for an attempt that resolve_auth_attempt counts.
record_failure_at(a) ==
    LET k == attempt[a].key IN
    /\ attempt[a].pc = "let_in"
    /\ \E kept \in make_room(k) :
          entries' = [j \in Keys |->
             IF j = k THEN failed(IF k \in kept THEN entries[k] ELSE NewEntry)
             ELSE IF j \in kept THEN entries[j] ELSE NoEntry]
    /\ attempt' = [attempt EXCEPT ![a].pc = "failed"]
    /\ UNCHANGED now

record_success(a) ==
    /\ attempt[a].pc = "let_in"
    /\ entries' = [entries EXCEPT ![attempt[a].key] = NoEntry]
    /\ attempt' = [attempt EXCEPT ![a].pc = "ok"]
    /\ UNCHANGED now

\* An error that is_counted_auth_failure does not count.
uncounted_failure(a) ==
    /\ attempt[a].pc = "let_in"
    /\ attempt' = [attempt EXCEPT ![a].pc = "failed"]
    /\ UNCHANGED <<entries, now>>

tick ==
    /\ now < MaxNow
    /\ now' = now + 1
    /\ UNCHANGED <<entries, attempt>>

LimitNext ==
    \/ \E a \in Attempts :
          \/ \E k \in Keys : check_at(a, k)
          \/ record_failure_at(a) \/ record_success(a) \/ uncounted_failure(a)
    \/ tick

LimitSpec == LimitInit /\ [][LimitNext]_limitVars

-----------------------------------------------------------------------------
LimitTypeOK ==
    /\ entries \in [Keys -> [started : Nat, failed : Nat, blocked : Nat, seen : Nat,
                             held : BOOLEAN]]
    /\ attempt \in [Attempts -> [pc : {"idle", "let_in", "refused", "failed", "ok"},
                                 key : Keys \union {NoKey}]]
    /\ now \in Nat

\* The table never outgrows max_keys, and an entry that does not block has
\* failures left in its window (make_room, record_failure_at).
LimiterInv ==
    /\ LimitTypeOK
    /\ Cardinality(Held) <= MaxKeys
    /\ \A k \in Held : entries[k].blocked = 0 => entries[k].failed < MaxFailures

\* A lockout is neither cut short nor extended: until it is over, the entry
\* keeps its end, or leaves the table because an attempt that was let in before
\* succeeded, or because a full table needed the room (record_failure_at).
LockoutsKeepTheirEnd ==
    [][\A k \in Keys : entries[k].held /\ entries[k].blocked > now =>
          \/ entries'[k].blocked = entries[k].blocked
          \/ ~ entries'[k].held /\ \E a \in Attempts : attempt[a].key = k /\ attempt'[a].pc = "ok"
          \/ ~ entries'[k].held /\ Cardinality(Held) = MaxKeys]_limitVars
=============================================================================
