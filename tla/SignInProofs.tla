---------------------------- MODULE SignInProofs ----------------------------
(***************************************************************************)
(* The limit on failed sign-ins, the refresh tokens of native sessions and *)
(* the accounts keep their invariants for any number of keys, attempts,    *)
(* tokens, users and requests, and so does what the run explores of them.  *)
(***************************************************************************)
EXTENDS MCSignIn, FiniteSetTheorems, TLAPS

-----------------------------------------------------------------------------
(* The limiter.                                                            *)

LimitEntry == [started : Nat, failed : Nat, blocked : Nat, seen : Nat, held : BOOLEAN]

\* The size of the table only means something while it is finite, and an
\* attempt is let in for a key.
LimitIInv ==
    /\ LimiterInv
    /\ IsFiniteSet(Held)
    /\ \A a \in Attempts : attempt[a].pc = "let_in" => attempt[a].key \in Keys

\* Renewing an entry keeps it in its type and in the table, with failures left
\* unless it blocks, and leaves the end of a lockout alone.
LEMMA RenewedEntry ==
    ASSUME NEW e \in LimitEntry, now \in Nat
    PROVE  /\ Renewed(e) \in LimitEntry
           /\ e.held => Renewed(e).held
           /\ (e.blocked = 0 => e.failed < MaxFailures)
                => (Renewed(e).blocked = 0 => Renewed(e).failed < MaxFailures)
           /\ Blocked(e) => Renewed(e).blocked = e.blocked
           /\ ~ e.held => ~ Renewed(e).held \/ Renewed(e) = NewEntry
  BY LimitAssumption DEF Renewed, NewEntry, LimitEntry, Blocked

\* So does counting a failure.
LEMMA FailedEntry ==
    ASSUME NEW e \in LimitEntry, now \in Nat, e.held,
           e.blocked = 0 => e.failed < MaxFailures
    PROVE  /\ failed(e) \in LimitEntry
           /\ failed(e).held
           /\ failed(e).blocked = 0 => failed(e).failed < MaxFailures
           /\ Blocked(e) => failed(e).blocked = e.blocked
<1> DEFINE f == Renewed(e)
<1>1. /\ f \in LimitEntry /\ f.held
      /\ f.blocked = 0 => f.failed < MaxFailures
      /\ Blocked(e) => f.blocked = e.blocked
  BY RenewedEntry
<1>2. CASE Blocked(e)
  BY <1>1, <1>2 DEF failed
<1>3. CASE ~ Blocked(e)
  <2> DEFINE b == IF f.failed + 1 >= MaxFailures THEN now + Lockout ELSE 0
  <2> DEFINE m == f.failed + 1
  <2>1. failed(e) = [f EXCEPT !.failed = m, !.blocked = b]
    BY <1>3 DEF failed
  <2>2. m \in Nat /\ b \in Nat /\ (b = 0 => m < MaxFailures)
    BY <1>1, LimitAssumption DEF LimitEntry
  <2>. HIDE DEF f, b, m
  <2>3. /\ failed(e) \in LimitEntry
        /\ failed(e).held = f.held
        /\ failed(e).failed = m
        /\ failed(e).blocked = b
    BY <1>1, <2>1, <2>2 DEF LimitEntry
  <2>. QED BY <1>1, <1>3, <2>2, <2>3
<1>. QED BY <1>2, <1>3

\* Room is made only in a full table, and then there is some.
LEMMA RoomIsMade ==
    ASSUME NEW k \in Keys, IsFiniteSet(Held), Cardinality(Held) <= MaxKeys,
           NEW kept \in make_room(k)
    PROVE  /\ kept \subseteq Held
           /\ kept # Held => k \notin Held /\ Cardinality(Held) = MaxKeys
           /\ IsFiniteSet(kept \union {k})
           /\ Cardinality(kept \union {k}) <= MaxKeys
<1> DEFINE recent == {j \in Held : Blocked(entries[j]) \/ now - entries[j].seen < Retention}
<1>1. Cardinality(Held) \in Nat /\ MaxKeys \in Nat
  BY FS_CardinalityType, LimitAssumption
<1>2. /\ recent \subseteq Held /\ IsFiniteSet(recent)
      /\ Cardinality(recent) \in Nat /\ Cardinality(recent) <= Cardinality(Held)
  BY FS_Subset, FS_CardinalityType
<1>3. CASE k \in Held \/ Cardinality(Held) < MaxKeys
  <2>1. kept = Held
    BY <1>3 DEF make_room
  <2>2. /\ IsFiniteSet(Held \union {k})
        /\ Cardinality(Held \union {k}) = IF k \in Held THEN Cardinality(Held) ELSE Cardinality(Held) + 1
    BY FS_AddElement
  <2>. QED BY <1>1, <1>3, <2>1, <2>2
<1>4. CASE ~ (k \in Held \/ Cardinality(Held) < MaxKeys) /\ Cardinality(recent) < MaxKeys
  <2>1. kept = recent
    BY <1>4 DEF make_room
  <2>2. /\ IsFiniteSet(recent \union {k})
        /\ Cardinality(recent \union {k}) = IF k \in recent THEN Cardinality(recent) ELSE Cardinality(recent) + 1
    BY <1>2, FS_AddElement
  <2>. QED BY <1>1, <1>2, <1>4, <2>1, <2>2
<1>5. CASE ~ (k \in Held \/ Cardinality(Held) < MaxKeys) /\ ~ Cardinality(recent) < MaxKeys
  <2>1. PICK old \in recent : kept = recent \ {old}
    BY <1>5 DEF make_room
  <2>2. /\ IsFiniteSet(recent \ {old})
        /\ Cardinality(recent \ {old}) = Cardinality(recent) - 1
    BY <1>2, FS_RemoveElement
  <2>3. /\ IsFiniteSet((recent \ {old}) \union {k})
        /\ Cardinality((recent \ {old}) \union {k}) =
              IF k \in recent \ {old} THEN Cardinality(recent \ {old}) ELSE Cardinality(recent \ {old}) + 1
    BY <2>2, FS_AddElement
  <2>. QED BY <1>1, <1>2, <1>5, <2>1, <2>2, <2>3
<1>. QED BY <1>3, <1>4, <1>5

LEMMA LimitInitially == LimitInit => LimitIInv
<1> SUFFICES ASSUME LimitInit PROVE LimitIInv
  OBVIOUS
<1>1. LimitTypeOK
  BY DEF LimitInit, LimitTypeOK, NoEntry, AttemptIdle
<1>2. Held = {}
  BY DEF LimitInit, Held, NoEntry
<1>3. \A a \in Attempts : attempt[a].pc = "idle"
  BY DEF LimitInit, AttemptIdle
<1>. QED BY <1>1, <1>2, <1>3, FS_EmptySet, LimitAssumption DEF LimitIInv, LimiterInv

\* The table after a failure was recorded.
LEMMA FailureRecorded ==
    ASSUME LimitIInv, NEW a \in Attempts, record_failure_at(a)
    PROVE  \E kept \in make_room(attempt[a].key) :
             LET k == attempt[a].key IN
             /\ k \in Keys
             /\ entries' \in [Keys -> LimitEntry]
             /\ Held' = kept \union {k}
             /\ \A j \in Keys \ {k} : entries'[j] = IF j \in kept THEN entries[j] ELSE NoEntry
             /\ entries'[k].blocked = 0 => entries'[k].failed < MaxFailures
             /\ k \in kept /\ Blocked(entries[k]) => entries'[k].blocked = entries[k].blocked
<1> DEFINE k == attempt[a].key
<1>1. k \in Keys
  BY DEF LimitIInv, record_failure_at
<1>2. PICK kept \in make_room(k) :
         entries' = [j \in Keys |->
             IF j = k THEN failed(IF k \in kept THEN entries[k] ELSE NewEntry)
             ELSE IF j \in kept THEN entries[j] ELSE NoEntry]
  BY DEF record_failure_at
<1>3. kept \subseteq Held
  BY <1>1, RoomIsMade DEF LimitIInv, LimiterInv
<1> DEFINE e == IF k \in kept THEN entries[k] ELSE NewEntry
<1>4. /\ e \in LimitEntry /\ e.held
      /\ e.blocked = 0 => e.failed < MaxFailures
  BY <1>1, <1>3, LimitAssumption DEF LimitIInv, LimiterInv, LimitTypeOK, LimitEntry, NewEntry, Held
<1>5. now \in Nat
  BY DEF LimitIInv, LimiterInv, LimitTypeOK
<1>6. /\ failed(e) \in LimitEntry
      /\ failed(e).held
      /\ failed(e).blocked = 0 => failed(e).failed < MaxFailures
      /\ Blocked(e) => failed(e).blocked = e.blocked
  <2> HIDE DEF e
  <2>. QED BY <1>4, <1>5, FailedEntry
<1>7. /\ entries'[k] = failed(e)
      /\ \A j \in Keys \ {k} : entries'[j] = IF j \in kept THEN entries[j] ELSE NoEntry
      /\ DOMAIN entries' = Keys
  BY <1>1, <1>2
<1>8. \A j \in Keys : entries'[j] \in LimitEntry
  <2>1. entries \in [Keys -> LimitEntry]
    BY DEF LimitIInv, LimiterInv, LimitTypeOK, LimitEntry
  <2>2. NoEntry \in LimitEntry
    BY DEF NoEntry, LimitEntry
  <2> HIDE DEF e, k
  <2>. QED BY <1>6, <1>7, <2>1, <2>2
<1>9. entries' \in [Keys -> LimitEntry]
  <2> HIDE DEF e, k
  <2>. QED BY <1>2, <1>8
<1>10. Held' = kept \union {k}
  <2>1. \A j \in Keys \ {k} : entries'[j].held <=> j \in kept
    BY <1>3, <1>7 DEF Held, NoEntry
  <2>. QED BY <1>1, <1>3, <1>6, <1>7, <2>1 DEF Held
<1>11. k \in kept /\ Blocked(entries[k]) => entries'[k].blocked = entries[k].blocked
  BY <1>6, <1>7
<1>. QED BY <1>1, <1>6, <1>7, <1>9, <1>10, <1>11

LEMMA LimitStep == LimitIInv /\ [LimitNext]_limitVars => LimitIInv'
<1> SUFFICES ASSUME LimitIInv, [LimitNext]_limitVars PROVE LimitIInv'
  OBVIOUS
<1>1. ASSUME NEW a \in Attempts, NEW k \in Keys, check_at(a, k)
      PROVE  LimitIInv'
  <2>1. /\ entries \in [Keys -> LimitEntry] /\ now \in Nat
        /\ entries[k] \in LimitEntry
    BY DEF LimitIInv, LimiterInv, LimitTypeOK, LimitEntry
  <2>2. CASE k \notin Held
    BY <1>1, <2>2 DEF check_at, LimitIInv, LimiterInv, LimitTypeOK, Held
  <2>3. CASE k \in Held
    <3>1. entries' = [entries EXCEPT ![k] = Renewed(entries[k])] /\ now' = now
      BY <1>1, <2>3 DEF check_at
    <3>2. /\ Renewed(entries[k]) \in LimitEntry
          /\ Renewed(entries[k]).held
          /\ Renewed(entries[k]).blocked = 0 => Renewed(entries[k]).failed < MaxFailures
      BY <2>1, <2>3, RenewedEntry DEF Held, LimitIInv, LimiterInv
    <3>3. entries' \in [Keys -> LimitEntry] /\ Held' = Held
      BY <2>1, <2>3, <3>1, <3>2 DEF Held
    <3>4. \A j \in Held' : entries'[j].blocked = 0 => entries'[j].failed < MaxFailures
      BY <2>1, <3>1, <3>2, <3>3 DEF LimitIInv, LimiterInv, Held
    <3>5. /\ attempt' \in [Attempts -> [pc : {"idle", "let_in", "refused", "failed", "ok"},
                                        key : Keys \union {NoKey}]]
          /\ \A b \in Attempts : attempt'[b].pc = "let_in" => attempt'[b].key \in Keys
      BY <1>1 DEF check_at, LimitIInv, LimiterInv, LimitTypeOK
    <3>. QED BY <2>1, <3>1, <3>3, <3>4, <3>5 DEF LimitIInv, LimiterInv, LimitTypeOK, LimitEntry
  <2>. QED BY <2>2, <2>3
<1>2. ASSUME NEW a \in Attempts, record_failure_at(a)
      PROVE  LimitIInv'
  <2> DEFINE k == attempt[a].key
  <2>1. PICK kept \in make_room(k) :
             /\ k \in Keys
             /\ entries' \in [Keys -> LimitEntry]
             /\ Held' = kept \union {k}
             /\ \A j \in Keys \ {k} : entries'[j] = IF j \in kept THEN entries[j] ELSE NoEntry
             /\ entries'[k].blocked = 0 => entries'[k].failed < MaxFailures
    BY <1>2, FailureRecorded
  <2>2. kept \subseteq Held /\ IsFiniteSet(Held') /\ Cardinality(Held') <= MaxKeys
    BY <2>1, RoomIsMade DEF LimitIInv, LimiterInv
  <2>3. \A j \in Held' : entries'[j].blocked = 0 => entries'[j].failed < MaxFailures
    <3>1. \A j \in kept \ {k} : j \in Held /\ entries'[j] = entries[j]
      BY <2>1, <2>2 DEF Held
    <3>. QED BY <2>1, <3>1 DEF LimitIInv, LimiterInv
  <2>4. /\ attempt' \in [Attempts -> [pc : {"idle", "let_in", "refused", "failed", "ok"},
                                      key : Keys \union {NoKey}]]
        /\ \A b \in Attempts : attempt'[b].pc = "let_in" => attempt'[b].key \in Keys
        /\ now' \in Nat
    BY <1>2 DEF record_failure_at, LimitIInv, LimiterInv, LimitTypeOK
  <2>. QED BY <2>1, <2>2, <2>3, <2>4 DEF LimitIInv, LimiterInv, LimitTypeOK, LimitEntry
<1>3. ASSUME NEW a \in Attempts, record_success(a)
      PROVE  LimitIInv'
  <2> DEFINE k == attempt[a].key
  <2>1. k \in Keys /\ entries' = [entries EXCEPT ![k] = NoEntry] /\ now' = now
    BY <1>3 DEF record_success, LimitIInv
  <2>2. entries' \in [Keys -> LimitEntry] /\ Held' = Held \ {k}
    BY <2>1 DEF NoEntry, LimitEntry, LimitIInv, LimiterInv, LimitTypeOK, Held
  <2>3. /\ IsFiniteSet(Held \ {k}) /\ Cardinality(Held \ {k}) <= Cardinality(Held)
        /\ Cardinality(Held) \in Nat /\ Cardinality(Held \ {k}) \in Nat
    BY FS_Subset, FS_CardinalityType DEF LimitIInv
  <2>4. \A j \in Held' : entries'[j].blocked = 0 => entries'[j].failed < MaxFailures
    BY <2>1, <2>2 DEF LimitIInv, LimiterInv, Held
  <2>5. /\ attempt' \in [Attempts -> [pc : {"idle", "let_in", "refused", "failed", "ok"},
                                      key : Keys \union {NoKey}]]
        /\ \A b \in Attempts : attempt'[b].pc = "let_in" => attempt'[b].key \in Keys
    BY <1>3 DEF record_success, LimitIInv, LimiterInv, LimitTypeOK
  <2>. QED BY <2>1, <2>2, <2>3, <2>4, <2>5, LimitAssumption
           DEF LimitIInv, LimiterInv, LimitTypeOK, LimitEntry
<1>4. ASSUME NEW a \in Attempts, uncounted_failure(a)
      PROVE  LimitIInv'
  BY <1>4 DEF uncounted_failure, LimitIInv, LimiterInv, LimitTypeOK, Held
<1>5. CASE tick
  BY <1>5 DEF tick, LimitIInv, LimiterInv, LimitTypeOK, Held
<1>6. CASE UNCHANGED limitVars
  BY <1>6 DEF limitVars, LimitIInv, LimiterInv, LimitTypeOK, Held
<1>. QED BY <1>1, <1>2, <1>3, <1>4, <1>5, <1>6 DEF LimitNext

\* The table never outgrows max_keys, whatever attempts overlap, and an entry
\* that does not block has failures left (make_room, record_failure_at).
THEOREM LimiterKeepsItsSize == LimitSpec => []LimiterInv
<1>1. LimitIInv => LimiterInv
  BY DEF LimitIInv
<1>. QED BY LimitInitially, LimitStep, <1>1, PTL DEF LimitSpec

\* What a step does to an entry that blocks.
LEMMA LockoutStep ==
    ASSUME LimitIInv, [LimitNext]_limitVars, NEW k \in Keys, entries[k].held, entries[k].blocked > now
    PROVE  \/ entries'[k].blocked = entries[k].blocked
           \/ ~ entries'[k].held /\ \E a \in Attempts : attempt[a].key = k /\ attempt'[a].pc = "ok"
           \/ ~ entries'[k].held /\ Cardinality(Held) = MaxKeys
<1>0. k \in Held /\ Blocked(entries[k]) /\ entries[k] \in LimitEntry /\ now \in Nat
  BY DEF Held, Blocked, LimitIInv, LimiterInv, LimitTypeOK, LimitEntry
<1>1. ASSUME NEW a \in Attempts, NEW j \in Keys, check_at(a, j)
      PROVE  entries'[k].blocked = entries[k].blocked
  <2>1. Renewed(entries[k]).blocked = entries[k].blocked
    BY <1>0, RenewedEntry
  <2>. QED BY <1>0, <1>1, <2>1 DEF check_at, LimitIInv, LimiterInv, LimitTypeOK
<1>2. ASSUME NEW a \in Attempts, record_failure_at(a)
      PROVE  \/ entries'[k].blocked = entries[k].blocked
             \/ ~ entries'[k].held /\ Cardinality(Held) = MaxKeys
  <2> DEFINE j == attempt[a].key
  <2>1. PICK kept \in make_room(j) :
             /\ j \in Keys
             /\ \A i \in Keys \ {j} : entries'[i] = IF i \in kept THEN entries[i] ELSE NoEntry
             /\ j \in kept /\ Blocked(entries[j]) => entries'[j].blocked = entries[j].blocked
    BY <1>2, FailureRecorded
  <2>2. kept # Held => j \notin Held /\ Cardinality(Held) = MaxKeys
    BY <2>1, RoomIsMade DEF LimitIInv, LimiterInv
  <2>3. CASE k \in kept
    BY <1>0, <2>1, <2>3
  <2>4. CASE k \notin kept
    BY <1>0, <2>1, <2>2, <2>4 DEF NoEntry
  <2>. QED BY <2>3, <2>4
<1>3. ASSUME NEW a \in Attempts, record_success(a)
      PROVE  \/ entries'[k].blocked = entries[k].blocked
             \/ ~ entries'[k].held /\ attempt[a].key = k /\ attempt'[a].pc = "ok"
  BY <1>3 DEF record_success, LimitIInv, LimiterInv, LimitTypeOK, NoEntry
<1>4. ASSUME \/ \E a \in Attempts : uncounted_failure(a)
             \/ tick
             \/ UNCHANGED limitVars
      PROVE  entries'[k].blocked = entries[k].blocked
  BY <1>4 DEF uncounted_failure, tick, limitVars
<1>. QED BY <1>1, <1>2, <1>3, <1>4 DEF LimitNext

\* A lockout is neither cut short nor extended: the entry keeps its end until an
\* attempt that was let in before succeeds, or a full table needs the room.
THEOREM LockoutsAreKept == LimitSpec => LockoutsKeepTheirEnd
<1>1. LimitIInv /\ [LimitNext]_limitVars =>
        [\A k \in Keys : entries[k].held /\ entries[k].blocked > now =>
          \/ entries'[k].blocked = entries[k].blocked
          \/ ~ entries'[k].held /\ \E a \in Attempts : attempt[a].key = k /\ attempt'[a].pc = "ok"
          \/ ~ entries'[k].held /\ Cardinality(Held) = MaxKeys]_limitVars
  BY LockoutStep
<1>. QED BY LimitInitially, LimitStep, <1>1, PTL DEF LimitSpec, LockoutsKeepTheirEnd

-----------------------------------------------------------------------------
(* The refresh tokens of native sessions.                                  *)

NativeRow == [status : {"none", "live", "gone"}, token : 0 .. MaxToken,
              expired : 0 .. MaxToken + 1, access : BOOLEAN, revoked : BOOLEAN]

\* A session starts with nothing remembered, and a refresh rotates the token of
\* a session that was there.
NativeIInv ==
    /\ NativeTypeOK
    /\ ExchangedTokensAreRemembered
    /\ \A n \in NativeIds : native[n].status = "none" => used[n] = {}
    /\ \A r \in Refreshes : refresh[r].pc = "rotate" => refresh[r].id \in NativeIds

\* The rows of a session that begins and of one that is deleted.
LEMMA FixedRows ==
    /\ [NoRow EXCEPT !.status = "live", !.access = TRUE] \in NativeRow
    /\ [NoRow EXCEPT !.status = "gone"] \in NativeRow
    /\ [NoRow EXCEPT !.status = "gone"].status = "gone"
    /\ [NoRow EXCEPT !.status = "gone"].token = 0
<1>1. 0 \in 0 .. MaxToken /\ 0 \in 0 .. MaxToken + 1
  BY TokenAssumption
<1>2. NoRow \in NativeRow /\ NoRow.token = 0
  BY <1>1 DEF NoRow, NativeRow
<1>. QED BY <1>2 DEF NativeRow

\* Sessions that are revoked keep the rest of their row.
LEMMA RevokeKeeps ==
    ASSUME NativeIInv, NEW ns, Revoke(ns)
    PROVE  /\ native' \in [NativeIds -> NativeRow]
           /\ \A n \in NativeIds : /\ native'[n].status = native[n].status
                                   /\ native'[n].token = native[n].token
                                   /\ native'[n].expired = native[n].expired
<1>1. \A n \in NativeIds : native[n] \in NativeRow
  BY DEF NativeIInv, NativeTypeOK, NativeRow
<1>2. \A n \in NativeIds :
        native'[n] = IF n \in ns /\ Live(n) THEN [native[n] EXCEPT !.revoked = TRUE] ELSE native[n]
  BY DEF Revoke
<1>3. native' \in [NativeIds -> NativeRow]
  BY <1>1, <1>2 DEF Revoke, NativeRow
<1>. QED BY <1>1, <1>2, <1>3 DEF NativeRow

LEMMA NativeInitially == NativeInit => NativeIInv
  BY TokenAssumption
     DEF NativeInit, NativeIInv, NativeTypeOK, ExchangedTokensAreRemembered, NoRow, RefreshIdle, Live

\* The rotation is the one step that changes a token.
LEMMA RotationStep ==
    ASSUME NativeIInv, NEW r \in Refreshes, rotate_native_client_session_tokens(r)
    PROVE  /\ NativeIInv'
           /\ \A n \in NativeIds : native'[n].token > native[n].token =>
                 /\ ~ native[n].revoked
                 /\ refresh[r].pc = "rotate" /\ refresh'[r].pc = "done"
                 /\ refresh[r].id = n /\ refresh[r].token = native[n].token
           /\ \A n \in NativeIds : native'[n].status = native[n].status
<1> DEFINE n == refresh[r].id
           t == refresh[r].token
<1>0. /\ n \in NativeIds /\ t \in 0 .. MaxToken
      /\ \A m \in NativeIds : native[m] \in NativeRow
      /\ refresh[r].pc = "rotate"
  BY DEF NativeIInv, NativeTypeOK, NativeRow, rotate_native_client_session_tokens
<1>1. /\ refresh' \in [Refreshes -> [pc : {"idle", "rotate", "done"},
                                     id : NativeIds \union {NoNative}, token : 0 .. MaxToken]]
      /\ enabled' \in BOOLEAN
      /\ refresh'[r].pc = "done"
      /\ \A q \in Refreshes : refresh'[q].pc = "rotate" => refresh'[q].id \in NativeIds
  BY TokenAssumption
     DEF NativeIInv, NativeTypeOK, rotate_native_client_session_tokens, Ends, RefreshIdle
<1>2. CASE /\ rotatable(n, t)
           /\ native[n].token < MaxToken
           /\ native' = [native EXCEPT ![n].token = @ + 1, ![n].access = TRUE]
           /\ used' = [used EXCEPT ![n] = remembered(n, t)]
  <2> DEFINE new == native[n].token + 1
  <2>1. /\ Live(n) /\ native[n].token = t /\ ~ native[n].revoked
        /\ new \in 0 .. MaxToken /\ new > t /\ t \in Nat
    BY <1>0, <1>2, TokenAssumption DEF rotatable, NativeRow
  <2>2. /\ native'[n] = [native[n] EXCEPT !.token = new, !.access = TRUE]
        /\ DOMAIN native' = NativeIds
        /\ native' = [native EXCEPT ![n] = native'[n]]
    BY <1>0, <1>2 DEF NativeIInv, NativeTypeOK
  <2>3. /\ native'[n] \in NativeRow /\ native'[n].token = new
        /\ native'[n].status = native[n].status /\ native'[n].expired = native[n].expired
    <3> HIDE DEF new, n, t
    <3>. QED BY <1>0, <2>1, <2>2 DEF NativeRow
  <2>4. \A m \in NativeIds \ {n} : native'[m] = native[m] /\ used'[m] = used[m]
    BY <1>0, <1>2 DEF NativeIInv, NativeTypeOK
  <2>5. /\ used'[n] = remembered(n, t)
        /\ used' \in [NativeIds -> SUBSET (0 .. MaxToken)]
    BY <1>0, <1>2 DEF NativeIInv, NativeTypeOK, remembered
  <2>6. native' \in [NativeIds -> NativeRow]
    <3> HIDE DEF n, t
    <3>. QED BY <1>0, <2>2, <2>3, <2>4
  <2>7. /\ \A u \in 0 .. MaxToken : u < new => u < native'[n].expired \/ u \in used'[n]
        /\ \A u \in used'[n] : u < new
    <3>1. /\ \A u \in 0 .. MaxToken : u < t => Expired(n, u) \/ u \in used[n]
          /\ \A u \in used[n] : u < t /\ u \in 0 .. MaxToken
      BY <1>0, <2>1 DEF NativeIInv, NativeTypeOK, ExchangedTokensAreRemembered
    <3>2. \A u \in 0 .. MaxToken : u < new => u < t \/ u = t
      BY <1>0, <2>1, TokenAssumption
    <3>3. \A u : Expired(n, u) => u < native'[n].expired
      BY <2>3 DEF Expired
    <3>4. \A u \in used[n] : u < new
      BY <1>0, <2>1, <3>1
    <3>. QED BY <1>0, <2>1, <2>5, <3>1, <3>2, <3>3, <3>4 DEF remembered
  <2>8. ExchangedTokensAreRemembered'
    <3>1. ASSUME NEW m \in NativeIds, Live(m)'
          PROVE  /\ \A u \in 0 .. MaxToken : u < native'[m].token => Expired(m, u)' \/ u \in used'[m]
                 /\ \A u \in used'[m] : u < native'[m].token
      <4>1. CASE m = n
        BY <2>3, <2>7, <4>1 DEF Expired
      <4>2. CASE m # n
        BY <2>4, <3>1, <4>2 DEF NativeIInv, ExchangedTokensAreRemembered, Live, Expired
      <4>. QED BY <4>1, <4>2
    <3>. QED BY <3>1 DEF ExchangedTokensAreRemembered
  <2>9. \A m \in NativeIds : native'[m].status = native[m].status
    BY <2>3, <2>4
  <2>10. \A m \in NativeIds : native'[m].status = "none" => used'[m] = {}
    BY <2>1, <2>4, <2>9 DEF NativeIInv, Live
  <2>11. \A m \in NativeIds : native'[m].token > native[m].token => m = n
    <3>1. \A m \in NativeIds : native[m].token \in Nat
      BY <1>0 DEF NativeRow
    <3>. QED BY <2>4, <3>1
  <2>. QED BY <1>0, <1>1, <2>1, <2>5, <2>6, <2>8, <2>9, <2>10, <2>11
           DEF NativeIInv, NativeTypeOK, NativeRow
<1>3. CASE ~ rotatable(n, t) /\ used' = used /\ (Revoke({n}) \/ native' = native)
  <2>1. /\ native' \in [NativeIds -> NativeRow]
        /\ \A m \in NativeIds : /\ native'[m].status = native[m].status
                                /\ native'[m].token = native[m].token
                                /\ native'[m].expired = native[m].expired
    <3>1. CASE Revoke({n})
      BY <3>1, RevokeKeeps
    <3>2. CASE native' = native
      BY <3>2 DEF NativeIInv, NativeTypeOK, NativeRow
    <3>. QED BY <1>3, <3>1, <3>2
  <2>2. \A m \in NativeIds : ~ (native'[m].token > native[m].token)
    BY <1>0, <2>1 DEF NativeRow
  <2>. QED BY <1>1, <1>3, <2>1, <2>2
           DEF NativeIInv, NativeTypeOK, NativeRow, ExchangedTokensAreRemembered, Live, Expired
<1>. QED BY <1>2, <1>3 DEF rotate_native_client_session_tokens

\* Every other step leaves the tokens of a session that goes on alone; only
\* housekeeping deletes one.
LEMMA OtherNativeStep ==
    ASSUME NativeIInv, [NativeNext]_nativeVars,
           ~ \E r \in Refreshes : rotate_native_client_session_tokens(r)
    PROVE  /\ NativeIInv'
           /\ \A n \in NativeIds : ~ (native'[n].token > native[n].token)
           /\ \A n \in NativeIds : Live(n) /\ native'[n].status = "gone" =>
                 native[n].revoked \/ Expired(n, native[n].token)
<1> DEFINE Kept ==
      /\ native' \in [NativeIds -> NativeRow]
      /\ \A n \in NativeIds : /\ native'[n].status = native[n].status
                              /\ native'[n].token = native[n].token
                              /\ native'[n].expired >= native[n].expired
<1> DEFINE Goal ==
      /\ NativeIInv'
      /\ \A n \in NativeIds : ~ (native'[n].token > native[n].token)
      /\ \A n \in NativeIds : Live(n) /\ native'[n].status = "gone" =>
            native[n].revoked \/ Expired(n, native[n].token)
<1>0. /\ \A n \in NativeIds : native[n] \in NativeRow
      /\ native \in [NativeIds -> NativeRow]
  BY DEF NativeIInv, NativeTypeOK, NativeRow
<1>1. ASSUME Kept, used' = used,
             refresh' \in [Refreshes -> [pc : {"idle", "rotate", "done"}, id : NativeIds \union {NoNative},
                                         token : 0 .. MaxToken]],
             \A r \in Refreshes : refresh'[r].pc = "rotate" => refresh'[r].id \in NativeIds,
             enabled' \in BOOLEAN
      PROVE  Goal
  <2>1. \A n \in NativeIds : /\ native'[n].status = native[n].status
                             /\ native'[n].token = native[n].token
                             /\ \A t \in 0 .. MaxToken : Expired(n, t) => t < native'[n].expired
    <3>1. \A n \in NativeIds : native[n].expired \in Nat /\ native'[n].expired \in Nat
      BY <1>0, <1>1 DEF NativeRow
    <3>. QED BY <1>1, <3>1 DEF Expired
  <2>2. ExchangedTokensAreRemembered'
    <3>1. ASSUME NEW n \in NativeIds, native'[n].status = "live"
          PROVE  /\ \A t \in 0 .. MaxToken :
                       t < native'[n].token => t < native'[n].expired \/ t \in used'[n]
                 /\ \A t \in used'[n] : t < native'[n].token
      BY <1>1, <2>1, <3>1 DEF NativeIInv, ExchangedTokensAreRemembered, Live
    <3>. QED BY <3>1 DEF ExchangedTokensAreRemembered, Live, Expired
  <2>3. \A n \in NativeIds : ~ (native'[n].token > native[n].token)
    BY <1>0, <2>1 DEF NativeRow
  <2>4. NativeIInv'
    BY <1>1, <2>1, <2>2 DEF NativeIInv, NativeTypeOK, NativeRow
  <2>. QED BY <2>1, <2>3, <2>4 DEF Live
<1>2. ASSUME NEW ns, Revoke(ns) PROVE Kept
  <2>1. /\ native' \in [NativeIds -> NativeRow]
        /\ \A n \in NativeIds : /\ native'[n].status = native[n].status
                                /\ native'[n].token = native[n].token
                                /\ native'[n].expired = native[n].expired
    BY <1>2, RevokeKeeps
  <2>. QED BY <1>0, <2>1 DEF NativeRow
<1>3. ASSUME native' = native PROVE Kept
  BY <1>0, <1>3 DEF NativeRow
<1>4. ASSUME NEW r \in Refreshes, NEW n \in NativeIds, NEW t \in 0 .. MaxToken,
             refresh_found(r, n, t) \/ refresh_replayed(r, n, t)
      PROVE  Goal
  <2>1. Kept
    BY <1>2, <1>3, <1>4 DEF refresh_found, refresh_replayed
  <2>2. used' = used /\ enabled' \in BOOLEAN
    BY <1>4 DEF refresh_found, refresh_replayed, NativeIInv, NativeTypeOK
  <2>3. /\ refresh' \in [Refreshes -> [pc : {"idle", "rotate", "done"}, id : NativeIds \union {NoNative},
                                       token : 0 .. MaxToken]]
        /\ \A q \in Refreshes : refresh'[q].pc = "rotate" => refresh'[q].id \in NativeIds
    BY <1>4, TokenAssumption
       DEF refresh_found, refresh_replayed, Ends, RefreshIdle, NativeIInv, NativeTypeOK
  <2>. HIDE DEF Kept, Goal
  <2>. QED BY <1>1, <2>1, <2>2, <2>3
<1>5. ASSUME NEW n \in NativeIds, create_native_client_session(n)
      PROVE  Goal
  <2>1. /\ native[n].status = "none"
        /\ native' = [native EXCEPT ![n] = [NoRow EXCEPT !.status = "live", !.access = TRUE]]
        /\ UNCHANGED <<used, refresh, enabled>>
    BY <1>5 DEF create_native_client_session
  <2>2. [NoRow EXCEPT !.status = "live", !.access = TRUE] \in NativeRow
    BY FixedRows
  <2>3. /\ native' \in [NativeIds -> NativeRow]
        /\ native'[n].status = "live" /\ native'[n].token = 0
        /\ \A m \in NativeIds \ {n} : native'[m] = native[m]
    BY <1>0, <2>1, <2>2 DEF NoRow
  <2>4. ExchangedTokensAreRemembered'
    <3>1. ASSUME NEW m \in NativeIds, Live(m)'
          PROVE  /\ \A t \in 0 .. MaxToken : t < native'[m].token => Expired(m, t)' \/ t \in used'[m]
                 /\ \A t \in used'[m] : t < native'[m].token
      <4>1. CASE m = n
        BY <2>1, <2>3, <4>1 DEF NativeIInv
      <4>2. CASE m # n
        BY <2>1, <2>3, <3>1, <4>2 DEF NativeIInv, ExchangedTokensAreRemembered, Live, Expired
      <4>. QED BY <4>1, <4>2
    <3>. QED BY <3>1 DEF ExchangedTokensAreRemembered
  <2>5. NativeIInv'
    BY <2>1, <2>3, <2>4 DEF NativeIInv, NativeTypeOK, NativeRow
  <2>. QED BY <1>0, <2>1, <2>3, <2>5 DEF Live, NativeRow
<1>6. ASSUME NEW n \in NativeIds,
             \/ logout_native_client_access_token(n)
             \/ \E t \in 0 .. MaxToken : logout_native_client_refresh_token(n, t)
      PROVE  Goal
  <2>1. Revoke({n}) /\ UNCHANGED <<used, refresh, enabled>>
    BY <1>6 DEF logout_native_client_access_token, logout_native_client_refresh_token
  <2>2. Kept
    BY <1>2, <2>1
  <2>. HIDE DEF Kept, Goal
  <2>. QED BY <1>1, <2>1, <2>2 DEF NativeIInv, NativeTypeOK
<1>7. ASSUME NEW n \in NativeIds, expire_access(n) \/ expire_refresh(n)
      PROVE  Goal
  <2>1. UNCHANGED <<used, refresh, enabled>>
    BY <1>7 DEF expire_access, expire_refresh
  <2>2. Kept
    <3>1. CASE expire_access(n)
      <4>1. native' = [native EXCEPT ![n].access = FALSE]
        BY <3>1 DEF expire_access
      <4>2. \A m \in NativeIds : /\ native'[m] \in NativeRow
                                 /\ native'[m].status = native[m].status
                                 /\ native'[m].token = native[m].token
                                 /\ native'[m].expired = native[m].expired
        BY <1>0, <4>1 DEF NativeRow
      <4>3. \A m \in NativeIds : native[m].expired >= native[m].expired
        BY <1>0 DEF NativeRow
      <4>4. native' \in [NativeIds -> NativeRow]
        BY <1>0, <4>1, <4>2
      <4>. QED BY <4>2, <4>3, <4>4
    <3>2. CASE expire_refresh(n)
      <4>1. /\ native[n].expired \in Nat /\ native[n].expired <= native[n].token
            /\ native[n].token <= MaxToken /\ native[n].token \in Nat
        BY <1>0, <3>2, TokenAssumption DEF expire_refresh, NativeRow
      <4> DEFINE x == native[n].expired + 1
                 a == native[n].access /\ native[n].expired # native[n].token
      <4>2. x \in 0 .. MaxToken + 1 /\ x >= native[n].expired /\ a \in BOOLEAN
        BY <4>1, TokenAssumption
      <4>3. /\ native' = [native EXCEPT ![n] = native'[n]]
            /\ native'[n] = [native[n] EXCEPT !.expired = x, !.access = a]
        BY <1>0, <3>2 DEF expire_refresh
      <4> HIDE DEF x, a
      <4>4. /\ native'[n] \in NativeRow
            /\ native'[n].status = native[n].status /\ native'[n].token = native[n].token
            /\ native'[n].expired = x
        BY <1>0, <4>2, <4>3 DEF NativeRow
      <4>5. \A m \in NativeIds \ {n} : native'[m] = native[m]
        BY <1>0, <4>3
      <4>6. \A m \in NativeIds : native[m].expired >= native[m].expired
        BY <1>0 DEF NativeRow
      <4>. QED BY <1>0, <4>2, <4>3, <4>4, <4>5, <4>6
    <3>. QED BY <1>7, <3>1, <3>2
  <2>. HIDE DEF Kept, Goal
  <2>. QED BY <1>1, <2>1, <2>2 DEF NativeIInv, NativeTypeOK
<1>8. ASSUME NEW disable \in BOOLEAN, revoke_for_user(disable)
      PROVE  Goal
  <2>1. Kept /\ UNCHANGED <<used, refresh>> /\ enabled' \in BOOLEAN
    BY <1>2, <1>8 DEF revoke_for_user
  <2>. HIDE DEF Kept, Goal
  <2>. QED BY <1>1, <2>1 DEF NativeIInv, NativeTypeOK
<1>9. ASSUME enable_user \/ UNCHANGED nativeVars
      PROVE  Goal
  <2>1. native' = native /\ UNCHANGED <<used, refresh>> /\ enabled' \in BOOLEAN
    BY <1>9 DEF enable_user, nativeVars, NativeIInv, NativeTypeOK
  <2>2. Kept
    BY <1>3, <2>1
  <2>. HIDE DEF Kept, Goal
  <2>. QED BY <1>1, <2>1, <2>2 DEF NativeIInv, NativeTypeOK
<1>10. ASSUME cleanup_auth_sessions
       PROVE  Goal
  <2>1. PICK sessions \in SUBSET {n \in NativeIds : retired(n)},
             tokens \in [NativeIds -> SUBSET (0 .. MaxToken)] :
          /\ \A n \in NativeIds : tokens[n] \subseteq forgettable(n)
          /\ native' = [n \in NativeIds |->
                           IF n \in sessions THEN [NoRow EXCEPT !.status = "gone"] ELSE native[n]]
          /\ used' = [n \in NativeIds |-> IF n \in sessions THEN {} ELSE used[n] \ tokens[n]]
          /\ UNCHANGED <<refresh, enabled>>
    BY <1>10 DEF cleanup_auth_sessions
  <2>2. /\ [NoRow EXCEPT !.status = "gone"] \in NativeRow
        /\ [NoRow EXCEPT !.status = "gone"].status = "gone"
        /\ [NoRow EXCEPT !.status = "gone"].token = 0
    BY FixedRows
  <2>3. native' \in [NativeIds -> NativeRow]
    BY <1>0, <2>1, <2>2
  <2>4. ASSUME NEW n \in NativeIds
        PROVE  /\ used'[n] \subseteq used[n]
               /\ ~ (native'[n].token > native[n].token)
               /\ Live(n) /\ native'[n].status = "gone" =>
                     native[n].revoked \/ Expired(n, native[n].token)
               /\ native'[n].status = "none" => native[n].status = "none"
               /\ native'[n].status = "live" =>
                     /\ native'[n] = native[n]
                     /\ used'[n] = used[n] \ tokens[n]
                     /\ \A t \in tokens[n] : Expired(n, t)
    <3>1. CASE n \in sessions
      BY <1>0, <2>1, <2>2, <3>1 DEF retired, NativeRow
    <3>2. CASE n \notin sessions
      BY <1>0, <2>1, <3>2 DEF forgettable, NativeRow, Live
    <3>. QED BY <3>1, <3>2
  <2>5. ExchangedTokensAreRemembered'
    BY <2>4 DEF NativeIInv, ExchangedTokensAreRemembered, Live, Expired
  <2>6. used' \in [NativeIds -> SUBSET (0 .. MaxToken)]
    BY <2>1 DEF NativeIInv, NativeTypeOK
  <2>7. \A n \in NativeIds : native'[n].status = "none" => used'[n] = {}
    BY <2>4 DEF NativeIInv
  <2>8. NativeIInv'
    BY <2>1, <2>3, <2>5, <2>6, <2>7 DEF NativeIInv, NativeTypeOK, NativeRow
  <2>. QED BY <2>4, <2>8
<1>. HIDE DEF Kept, Goal
<1>11. Goal
  BY <1>4, <1>5, <1>6, <1>7, <1>8, <1>9, <1>10 DEF NativeNext, Refresh
<1>. QED BY <1>11 DEF Goal

LEMMA NativeStep == NativeIInv /\ [NativeNext]_nativeVars => NativeIInv'
  BY RotationStep, OtherNativeStep

\* Every refresh token that was exchanged and has not expired revokes its
\* session when it comes back, whatever refreshes, logouts and housekeeping
\* overlap (rotate_native_client_session_tokens, cleanup_auth_sessions).
THEOREM TokensStayRemembered == NativeSpec => []ExchangedTokensAreRemembered
<1>1. NativeIInv => ExchangedTokensAreRemembered
  BY DEF NativeIInv
<1>. QED BY NativeInitially, NativeStep, <1>1, PTL DEF NativeSpec

LEMMA ExchangeStep ==
    ASSUME NativeIInv, [NativeNext]_nativeVars
    PROVE  /\ \A n \in NativeIds : native'[n].token > native[n].token =>
                 /\ ~ native[n].revoked
                 /\ \E r \in Refreshes : /\ refresh[r].pc = "rotate" /\ refresh'[r].pc = "done"
                                         /\ refresh[r].id = n /\ refresh[r].token = native[n].token
           /\ \A n \in NativeIds : Live(n) /\ native'[n].status = "gone" =>
                 native[n].revoked \/ Expired(n, native[n].token)
<1>1. CASE \E r \in Refreshes : rotate_native_client_session_tokens(r)
  BY <1>1, RotationStep DEF Live
<1>2. CASE ~ \E r \in Refreshes : rotate_native_client_session_tokens(r)
  BY <1>2, OtherNativeStep
<1>. QED BY <1>1, <1>2

\* Two refreshes never both succeed with one token, no revoked session gets a
\* new one, and housekeeping deletes only sessions that had ended.
THEOREM ExchangesStayExclusive == NativeSpec => ExchangesAreExclusive
<1>1. NativeIInv /\ [NativeNext]_nativeVars =>
        [/\ \A n \in NativeIds : native'[n].token > native[n].token =>
                /\ ~ native[n].revoked
                /\ \E r \in Refreshes : /\ refresh[r].pc = "rotate" /\ refresh'[r].pc = "done"
                                        /\ refresh[r].id = n /\ refresh[r].token = native[n].token
         /\ \A n \in NativeIds : Live(n) /\ native'[n].status = "gone" =>
                native[n].revoked \/ Expired(n, native[n].token)]_nativeVars
  BY ExchangeStep
<1>. QED BY NativeInitially, NativeStep, <1>1, PTL DEF NativeSpec, ExchangesAreExclusive

-----------------------------------------------------------------------------
(* Accounts: the tables, the requests and the streams, each by itself.     *)

CredentialRow == [status : {"new", "live", "ended"}, user : Users \union {NoUser}]

RequestRecord == [pc : {"idle", "insert", "session", "validate", "write", "done"},
                  op : {"none", "bootstrap", "create", "update", "delete", "reset", "change"},
                  actor : Users \union {NoUser}, user : Users \union {NoUser},
                  seen : AnyRow, next : AnyRow]

StreamRecord == [pc : {"idle", "auth", "subscribed", "open", "closed"},
                 cred : Credentials \union {NoCred}, user : Users \union {NoUser},
                 seen : AnyRow, tries : 0 .. 3, closing : BOOLEAN, missed : BOOLEAN]

OwnerRow == [role |-> "owner", enabled |-> TRUE, libs |-> {}]

\* The owner is enabled, and a good credential names a user.
TablesInv ==
    /\ users \in [Users -> AnyRow]
    /\ libraries \subseteq Libraries
    /\ creds \in [Credentials -> CredentialRow]
    /\ signals \subseteq Users \union Credentials
    /\ OneOwner /\ GrantsFitRoles
    /\ \A u \in Users : users[u].role = "owner" => users[u].enabled
    /\ \A c \in Credentials : creds[c].status = "live" => creds[c].user \in Users

\* What RequestsFit says of one request, and which user it names.
RequestFits(q, us) ==
    /\ q.pc = "insert" => q.op \in {"bootstrap", "create"}
    /\ q.pc = "insert" /\ q.op = "bootstrap" => q.next = OwnerRow
    /\ q.pc = "insert" /\ q.op = "create" => q.next.role \in {"admin", "viewer"} /\ q.user \in Users
    /\ q.pc = "session" => q.user \in Users
    /\ q.pc = "validate" => q.next = Absent
    /\ q.pc = "write" /\ q.op = "update" => q.next.role \in {"admin", "viewer"}
    /\ q.pc \in {"insert", "write"} => (is_admin(q.next.role) => q.next.libs = {})
    /\ q.pc \in {"validate", "write"} =>
          /\ q.op \in {"update", "delete", "reset", "change"}
          /\ q.user \in Users /\ us[q.user] # Absent
    /\ q.pc = "validate" /\ q.seen.role # "owner" => us[q.user].role # "owner"
    /\ q.pc = "write" /\ q.op # "change" => us[q.user].role # "owner"

RequestsInv ==
    /\ request \in [Requests -> RequestRecord]
    /\ \A r \in Requests : RequestFits(request[r], users)

\* A stream holds a credential that was issued, and its user while it is good.
StreamFits(t) ==
    /\ t.pc = "auth" => t.tries < 3
    /\ t.pc \in {"auth", "subscribed", "open"} =>
          /\ t.cred \in Credentials /\ t.user \in Users
          /\ creds[t.cred].status # "new"
          /\ creds[t.cred].status = "live" => creds[t.cred].user = t.user
    /\ t.pc = "open" /\ ~ t.closing /\ ~ t.missed =>
          IsCurrent(t) \/ t.user \in signals \/ t.cred \in signals

StreamsInv ==
    /\ stream \in [Streams -> StreamRecord]
    /\ \A s \in Streams : StreamFits(stream[s])

AccountsIInv == TablesInv /\ RequestsInv /\ StreamsInv

LEMMA AccountsIInvImplies == AccountsIInv => AccountsInv /\ StreamsAreCurrent
<1> SUFFICES ASSUME AccountsIInv PROVE AccountsInv /\ StreamsAreCurrent
  OBVIOUS
<1>1. AccountsTypeOK
  BY DEF AccountsIInv, TablesInv, RequestsInv, StreamsInv, AccountsTypeOK,
         CredentialRow, RequestRecord, StreamRecord
<1>2. RequestsFit
  BY DEF AccountsIInv, RequestsInv, RequestFits, RequestsFit, OwnerRow
<1>3. StreamsAreCurrent
  BY DEF AccountsIInv, StreamsInv, StreamFits, StreamsAreCurrent
<1>. QED BY <1>1, <1>2, <1>3 DEF AccountsIInv, TablesInv, AccountsInv

\* What the rows are: the role says which kind.
LEMMA RowKinds ==
    /\ Absent \in AnyRow /\ Deleted \in AnyRow /\ OwnerRow \in Rows
    /\ Absent.role = "none" /\ Absent.enabled = FALSE /\ Absent.libs = {}
    /\ Deleted.role = "gone" /\ Deleted.libs = {}
    /\ OwnerRow.role = "owner" /\ OwnerRow.enabled = TRUE /\ OwnerRow.libs = {}
    /\ \A row \in AnyRow : row.role \in Roles => row \in Rows
    /\ \A row \in Rows : row.role \in Roles /\ row \in AnyRow /\ row # Absent
  BY DEF AnyRow, Rows, Roles, Absent, Deleted, OwnerRow

LEMMA FixedRequests ==
    /\ RequestIdle \in RequestRecord /\ RequestIdle.pc = "idle" /\ RequestIdle.next = Absent
    /\ RequestDone \in RequestRecord /\ RequestDone.pc = "done"
    /\ \A us : RequestFits(RequestDone, us) /\ RequestFits(RequestIdle, us)
<1>1. RequestIdle \in RequestRecord /\ RequestIdle.pc = "idle" /\ RequestIdle.next = Absent
  BY RowKinds DEF RequestIdle, RequestRecord
<1>2. RequestDone \in RequestRecord /\ RequestDone.pc = "done"
  BY <1>1 DEF RequestDone, RequestRecord
<1>. QED BY <1>1, <1>2 DEF RequestFits

\* Users only move on: a row that was there does not become absent, and one
\* that was not the owner's does not become it.
UsersMoveOn ==
    \A u \in Users : users[u] # Absent =>
       /\ users'[u] # Absent
       /\ users[u].role # "owner" => users'[u].role # "owner"

LEMMA RequestKeepsFitting ==
    ASSUME NEW q, RequestFits(q, users), UsersMoveOn
    PROVE  RequestFits(q, users')
  BY DEF RequestFits, UsersMoveOn

\* A step of one request leaves the others fitting.
LEMMA OneRequestMoves ==
    ASSUME RequestsInv, UsersMoveOn, NEW r \in Requests, NEW q \in RequestRecord,
           request' = [request EXCEPT ![r] = q], RequestFits(q, users')
    PROVE  RequestsInv'
<1>1. \A p \in Requests : request'[p] = IF p = r THEN q ELSE request[p]
  BY DEF RequestsInv
<1>2. request' \in [Requests -> RequestRecord]
  BY DEF RequestsInv
<1>3. \A p \in Requests : RequestFits(request'[p], users')
  BY <1>1, RequestKeepsFitting DEF RequestsInv
<1>. QED BY <1>2, <1>3 DEF RequestsInv, RequestFits

LEMMA NoRequestMoves ==
    ASSUME RequestsInv, UsersMoveOn, request' = request
    PROVE  RequestsInv'
  BY RequestKeepsFitting DEF RequestsInv, RequestFits

\* Once a stream may still close, what was notified stays until it is published.
NoneCloses == \A s \in Streams : stream[s].pc = "closed"

LEMMA NotifyKeeps ==
    ASSUME signals \subseteq Users \union Credentials,
           NEW sigs \in SUBSET (Users \union Credentials), notify(sigs)
    PROVE  /\ signals' \subseteq Users \union Credentials
           /\ NoneCloses \/ (signals \subseteq signals' /\ sigs \subseteq signals')
  BY DEF notify, NoneCloses

LEMMA EndKeeps ==
    ASSUME TablesInv, NEW cs
    PROVE  /\ End(cs) \in [Credentials -> CredentialRow]
           /\ \A c \in Credentials :
                 /\ c \notin cs => End(cs)[c] = creds[c]
                 /\ c \in cs => End(cs)[c].status = "ended"
<1>1. [NoCredential EXCEPT !.status = "ended"] \in CredentialRow
  BY DEF NoCredential, CredentialRow
<1>2. [NoCredential EXCEPT !.status = "ended"].status = "ended"
  BY DEF NoCredential
<1>. QED BY <1>1, <1>2 DEF End, TablesInv

\* A change of the tables that the streams hear of: who loses a credential or
\* gets another authorization is signalled.
SignalledChange ==
    /\ \A c \in Credentials : creds[c].status # "new" =>
          /\ creds'[c].status # "new"
          /\ creds'[c].status = "live" => creds'[c] = creds[c]
    /\ \/ NoneCloses
       \/ /\ signals \subseteq signals'
          /\ \A c \in Credentials : creds[c].status = "live" /\ creds'[c].status # "live" =>
                c \in signals' \/ creds[c].user \in signals'
          /\ \A u \in Users : users[u].enabled /\ users'[u] # users[u] => u \in signals'

LEMMA StreamsHear ==
    ASSUME TablesInv, StreamsInv, SignalledChange, stream' = stream
    PROVE  StreamsInv'
<1>1. ASSUME NEW s \in Streams
      PROVE  StreamFits(stream[s])'
  <2> DEFINE t == stream[s]
  <2>1. StreamFits(t) /\ stream'[s] = t
    BY DEF StreamsInv
  <2>2. /\ t.pc = "auth" => t.tries < 3
        /\ t.pc \in {"auth", "subscribed", "open"} =>
              /\ t.cred \in Credentials /\ t.user \in Users
              /\ creds'[t.cred].status # "new"
              /\ creds'[t.cred].status = "live" => creds'[t.cred].user = t.user
    BY <2>1 DEF StreamFits, SignalledChange
  <2>3. ASSUME t.pc = "open", ~ t.closing, ~ t.missed
        PROVE  \/ creds'[t.cred].status = "live" /\ users'[creds'[t.cred].user].enabled
                    /\ users'[t.user] = t.seen
               \/ t.user \in signals' \/ t.cred \in signals'
    <3>1. /\ t.cred \in Credentials /\ t.user \in Users
          /\ creds[t.cred].status # "new"
          /\ creds[t.cred].status = "live" => creds[t.cred].user = t.user
          /\ \/ creds[t.cred].status = "live" /\ users[t.user].enabled /\ users[t.user] = t.seen
             \/ t.user \in signals \/ t.cred \in signals
      BY <2>1, <2>3 DEF StreamFits, IsCurrent, Accepted
    <3>2. ~ NoneCloses
      BY <2>3 DEF NoneCloses
    <3>3. CASE t.user \in signals \/ t.cred \in signals
      BY <3>2, <3>3 DEF SignalledChange
    <3>4. CASE creds[t.cred].status = "live" /\ users[t.user].enabled /\ users[t.user] = t.seen
      <4>1. CASE creds'[t.cred].status = "live"
        BY <3>1, <3>2, <3>4, <4>1 DEF SignalledChange
      <4>2. CASE creds'[t.cred].status # "live"
        BY <3>1, <3>2, <3>4, <4>2 DEF SignalledChange
      <4>. QED BY <4>1, <4>2
    <3>. QED BY <3>1, <3>3, <3>4
  <2>. QED BY <2>1, <2>2, <2>3 DEF StreamFits, IsCurrent, Accepted
<1>. QED BY <1>1 DEF StreamsInv

LEMMA TablesStay ==
    ASSUME AccountsIInv, UNCHANGED tables
    PROVE  /\ TablesInv' /\ UsersMoveOn
           /\ stream' = stream => StreamsInv'
<1>1. TablesInv'
  BY DEF AccountsIInv, TablesInv, tables, OneOwner, GrantsFitRoles, Exists
<1>2. UsersMoveOn /\ SignalledChange
  BY DEF UsersMoveOn, SignalledChange, tables
<1>. QED BY <1>1, <1>2, StreamsHear DEF AccountsIInv

\* Credentials end: the tables still fit when their users do.
LEMMA CredentialsEnd ==
    ASSUME TablesInv, NEW cs, creds' = End(cs), UNCHANGED <<users, libraries>>,
           signals' \subseteq Users \union Credentials
    PROVE  /\ TablesInv' /\ UsersMoveOn
           /\ (NoneCloses \/ (signals \subseteq signals'
                   /\ \A c \in cs : c \in Credentials /\ creds[c].status = "live" => c \in signals'))
                 => SignalledChange
<1>1. /\ creds' \in [Credentials -> CredentialRow]
      /\ \A c \in Credentials : /\ c \notin cs => creds'[c] = creds[c]
                                /\ c \in cs => creds'[c].status = "ended"
  BY EndKeeps
<1>2. TablesInv'
  BY <1>1 DEF TablesInv, OneOwner, GrantsFitRoles, Exists
<1>. QED BY <1>1, <1>2 DEF UsersMoveOn, SignalledChange

\* A user whose row was absent, or is not the owner's, gets another row.
LEMMA UserChanges ==
    ASSUME TablesInv, NEW u \in Users, NEW row \in AnyRow,
           users' = [users EXCEPT ![u] = row], libraries' = libraries,
           row.role = "owner" => row.enabled /\ \A v \in Users : users[v].role # "owner",
           row # Absent,
           users[u] # Absent => row.role # "owner",
           is_admin(row.role) => row.libs = {}, row.libs \subseteq libraries,
           creds' \in [Credentials -> CredentialRow],
           \A c \in Credentials : creds'[c].status = "live" =>
              /\ creds'[c] = creds[c]
              /\ creds[c].user = u => row.role \in Roles,
           signals' \subseteq Users \union Credentials
    PROVE  TablesInv' /\ UsersMoveOn
<1>1. \A v \in Users : users'[v] = IF v = u THEN row ELSE users[v]
  BY DEF TablesInv
<1>2. users' \in [Users -> AnyRow]
  BY DEF TablesInv
<1>3. OneOwner' /\ \A v \in Users : users'[v].role = "owner" => users'[v].enabled
  BY <1>1 DEF TablesInv, OneOwner
<1>4. GrantsFitRoles' /\ \A c \in Credentials : creds'[c].status = "live" => creds'[c].user \in Users
  <2>1. \A v \in Users : /\ is_admin(users'[v].role) => users'[v].libs = {}
                         /\ users'[v].libs \subseteq libraries
    BY <1>1 DEF TablesInv, GrantsFitRoles
  <2>2. \A c \in Credentials : creds'[c].status = "live" =>
           creds'[c].user \in Users /\ users'[creds'[c].user].role \in Roles
    BY <1>1 DEF TablesInv, GrantsFitRoles, Exists
  <2>. QED BY <2>1, <2>2 DEF GrantsFitRoles, Exists
<1>5. UsersMoveOn
  BY <1>1 DEF UsersMoveOn
<1>. QED BY <1>2, <1>3, <1>4, <1>5 DEF TablesInv

\* The owner's row lasts.
OwnerKept == \A u \in Users : users[u].role = "owner" => users'[u].role = "owner" /\ users'[u].enabled

LEMMA SignedInExists ==
    ASSUME AccountsIInv, NEW u \in Users, SignedIn(u)
    PROVE  users[u] # Absent
  BY RowKinds DEF SignedIn, Accepted, AccountsIInv, TablesInv, GrantsFitRoles, Exists, Roles

\* A request that only reads, and decides what it will write.
LEMMA ReadingStep ==
    ASSUME AccountsIInv, NEW r \in Requests,
           \/ bootstrap_admin(r) \/ validate_removal(r) \/ Refused(r)
           \/ \E u \in Users : authenticate_login(r, u) \/ change_own_password(r, u)
           \/ \E actor, u \in Users : \E row \in Rows : create_user(r, actor, u, row)
           \/ \E actor, u \in Users, op \in {"update", "delete", "reset"} : read_target(r, op, actor, u)
           \/ \E role \in Roles, enable \in BOOLEAN, libs \in SUBSET Libraries :
                validate_update(r, role, enable, libs)
    PROVE  AccountsIInv' /\ OwnerKept
<1>1. UNCHANGED <<tables, stream>>
  BY DEF bootstrap_admin, validate_removal, Refused, authenticate_login, change_own_password,
         create_user, read_target, validate_update
<1>2. TablesInv' /\ UsersMoveOn /\ StreamsInv' /\ OwnerKept /\ users' = users
  BY <1>1, TablesStay DEF tables, AccountsIInv, TablesInv, OwnerKept
<1>3. /\ users \in [Users -> AnyRow] /\ request \in [Requests -> RequestRecord]
      /\ request[r] \in RequestRecord /\ RequestFits(request[r], users)
  BY DEF AccountsIInv, TablesInv, RequestsInv
<1>4. \A role : role = "owner" => \A other : ~ user_management_level(other) > user_management_level(role)
  BY DEF user_management_level
<1>5. \E q \in RequestRecord : request' = [request EXCEPT ![r] = q] /\ RequestFits(q, users)
  <2>1. CASE bootstrap_admin(r)
    <3> DEFINE q == [RequestIdle EXCEPT !.pc = "insert", !.op = "bootstrap", !.next = OwnerRow]
    <3>1. request' = [request EXCEPT ![r] = q]
      BY <2>1 DEF bootstrap_admin, OwnerRow
    <3>2. /\ q \in RequestRecord
          /\ q.pc = "insert" /\ q.op = "bootstrap" /\ q.next = OwnerRow
      BY FixedRequests, RowKinds DEF RequestRecord
    <3>3. RequestFits(q, users)
      BY <3>2, RowKinds DEF RequestFits
    <3>. QED BY <3>1, <3>2, <3>3
  <2>2. CASE validate_removal(r)
    <3> DEFINE q == [request[r] EXCEPT !.pc = "write"]
    <3>1. /\ request' = [request EXCEPT ![r] = q]
          /\ request[r].pc = "validate" /\ request[r].op \in {"delete", "reset"}
          /\ request[r].seen.role # "owner"
      BY <1>4, <2>2, <1>3 DEF validate_removal, validate_user_management_scope
    <3>2. /\ q \in RequestRecord /\ q.pc = "write" /\ q.op = request[r].op
          /\ q.user = request[r].user /\ q.next = request[r].next
      BY <1>3 DEF RequestRecord
    <3>3. RequestFits(q, users)
      <4>. HIDE DEF q
      <4>. QED BY <1>3, <3>1, <3>2, RowKinds DEF RequestFits, is_admin
    <3>. QED BY <3>1, <3>2, <3>3
  <2>3. CASE Refused(r)
    BY <2>3, FixedRequests DEF Refused, Reply
  <2>4. ASSUME NEW u \in Users, authenticate_login(r, u)
        PROVE  \E q \in RequestRecord : request' = [request EXCEPT ![r] = q] /\ RequestFits(q, users)
    <3> DEFINE q == [RequestIdle EXCEPT !.pc = "session", !.user = u]
    <3>1. request' = [request EXCEPT ![r] = q]
      BY <2>4 DEF authenticate_login
    <3>2. q \in RequestRecord /\ q.pc = "session" /\ q.user = u
      BY FixedRequests DEF RequestRecord
    <3>3. RequestFits(q, users)
      BY <3>2 DEF RequestFits
    <3>. QED BY <3>1, <3>2, <3>3
  <2>5. ASSUME NEW u \in Users, change_own_password(r, u)
        PROVE  \E q \in RequestRecord : request' = [request EXCEPT ![r] = q] /\ RequestFits(q, users)
    <3> DEFINE q == [RequestIdle EXCEPT !.pc = "write", !.op = "change", !.user = u]
    <3>1. request' = [request EXCEPT ![r] = q] /\ users[u] # Absent
      BY <2>5, SignedInExists DEF change_own_password
    <3>2. q \in RequestRecord /\ q.pc = "write" /\ q.op = "change" /\ q.user = u /\ q.next = Absent
      BY FixedRequests DEF RequestRecord
    <3>3. RequestFits(q, users)
      <4>. HIDE DEF q
      <4>. QED BY <3>1, <3>2, RowKinds DEF RequestFits, is_admin
    <3>. QED BY <3>1, <3>2, <3>3
  <2>6. ASSUME NEW actor \in Users, NEW u \in Users, NEW row \in Rows, create_user(r, actor, u, row)
        PROVE  \E q \in RequestRecord : request' = [request EXCEPT ![r] = q] /\ RequestFits(q, users)
    <3> DEFINE new == [row EXCEPT !.libs = granted(row.role, row.libs)]
               q == [RequestIdle EXCEPT !.pc = "insert", !.op = "create",
                                        !.actor = actor, !.user = u, !.next = new]
    <3>1. request' = [request EXCEPT ![r] = q] /\ row.role \in {"admin", "viewer"}
      BY <2>6 DEF create_user, validate_role_assignment, Rows, Roles
    <3>2. granted(row.role, row.libs) \subseteq Libraries
      BY DEF granted, Rows
    <3>3. /\ new \in Rows /\ new.role = row.role
          /\ is_admin(new.role) => new.libs = {}
      BY <3>2 DEF Rows, granted
    <3>4. /\ q \in RequestRecord
          /\ q.pc = "insert" /\ q.op = "create" /\ q.user = u /\ q.next = new
      <4>. HIDE DEF new
      <4>. QED BY <3>3, FixedRequests, RowKinds DEF RequestRecord
    <3>5. RequestFits(q, users)
      <4>. HIDE DEF q, new
      <4>. QED BY <3>1, <3>3, <3>4 DEF RequestFits
    <3>. QED BY <3>1, <3>4, <3>5
  <2>7. ASSUME NEW actor \in Users, NEW u \in Users, NEW op \in {"update", "delete", "reset"},
               read_target(r, op, actor, u)
        PROVE  \E q \in RequestRecord : request' = [request EXCEPT ![r] = q] /\ RequestFits(q, users)
    <3> DEFINE q == [RequestIdle EXCEPT !.pc = "validate", !.op = op,
                                        !.actor = actor, !.user = u, !.seen = users[u]]
    <3>1. request' = [request EXCEPT ![r] = q] /\ users[u] # Absent /\ users[u] \in AnyRow
      BY <1>3, <2>7, RowKinds DEF read_target, Exists, Roles
    <3>2. /\ q \in RequestRecord /\ q.pc = "validate" /\ q.op = op
          /\ q.user = u /\ q.seen = users[u] /\ q.next = Absent
      BY <3>1, FixedRequests DEF RequestRecord
    <3>3. RequestFits(q, users)
      <4>. HIDE DEF q
      <4>. QED BY <3>1, <3>2 DEF RequestFits
    <3>. QED BY <3>1, <3>2, <3>3
  <2>8. ASSUME NEW role \in Roles, NEW enable \in BOOLEAN, NEW libs \in SUBSET Libraries,
               validate_update(r, role, enable, libs)
        PROVE  \E q \in RequestRecord : request' = [request EXCEPT ![r] = q] /\ RequestFits(q, users)
    <3> DEFINE row == [role |-> role, enabled |-> enable, libs |-> granted(role, libs)]
               q == [request[r] EXCEPT !.pc = "write", !.next = row]
    <3>1. /\ request' = [request EXCEPT ![r] = q]
          /\ request[r].pc = "validate" /\ request[r].op = "update"
          /\ request[r].seen.role # "owner" /\ role \in {"admin", "viewer"}
      BY <1>3, <1>4, <2>8
         DEF validate_update, validate_user_management_scope, validate_role_assignment, Roles
    <3>2. /\ row \in AnyRow /\ row.role = role
          /\ is_admin(row.role) => row.libs = {}
      BY DEF AnyRow, Rows, granted
    <3>3. /\ q \in RequestRecord /\ q.pc = "write" /\ q.op = "update"
          /\ q.user = request[r].user /\ q.next = row
      <4>. HIDE DEF row
      <4>. QED BY <1>3, <3>1, <3>2 DEF RequestRecord
    <3>4. RequestFits(q, users)
      <4>. HIDE DEF q, row
      <4>. QED BY <1>3, <3>1, <3>2, <3>3 DEF RequestFits
    <3>. QED BY <3>1, <3>3, <3>4
  <2>. QED BY <2>1, <2>2, <2>3, <2>4, <2>5, <2>6, <2>7, <2>8
<1>6. RequestsInv'
  BY <1>2, <1>5, OneRequestMoves DEF AccountsIInv
<1>. QED BY <1>2, <1>6 DEF AccountsIInv

\* A request that writes is answered, or goes on with a session.
LEMMA RequestAnswered ==
    ASSUME AccountsIInv, UsersMoveOn, NEW r \in Requests, Reply(r)
    PROVE  RequestsInv'
  BY FixedRequests, OneRequestMoves DEF Reply, AccountsIInv

LEMMA InsertOwnerStep ==
    ASSUME AccountsIInv, NEW r \in Requests, NEW u \in Users, insert_owner(r, u)
    PROVE  AccountsIInv' /\ OwnerKept
<1>1. /\ users[u] = Absent /\ users \in [Users -> AnyRow]
      /\ UNCHANGED <<libraries, creds, signals, stream>>
      /\ request[r].next = OwnerRow
  BY DEF insert_owner, AccountsIInv, TablesInv, RequestsInv, RequestFits
<1>2. CASE \E v \in Users : users[v].role = "owner"
  <2>1. Reply(r) /\ UNCHANGED <<tables, stream>>
    BY <1>1, <1>2 DEF insert_owner, tables
  <2>2. TablesInv' /\ UsersMoveOn /\ StreamsInv' /\ OwnerKept
    BY <2>1, TablesStay DEF tables, AccountsIInv, TablesInv, OwnerKept
  <2>. QED BY <2>1, <2>2, RequestAnswered DEF AccountsIInv
<1>3. CASE ~ \E v \in Users : users[v].role = "owner"
  <2> DEFINE q == [RequestIdle EXCEPT !.pc = "session", !.user = u]
  <2>1. /\ users' = [users EXCEPT ![u] = OwnerRow]
        /\ request' = [request EXCEPT ![r] = q]
    BY <1>1, <1>3 DEF insert_owner
  <2>2. \A c \in Credentials : creds[c].status = "live" => creds[c].user # u
    BY <1>1, RowKinds DEF AccountsIInv, TablesInv, GrantsFitRoles, Exists, Roles
  <2>3. TablesInv' /\ UsersMoveOn
    <3>1. /\ TablesInv /\ OwnerRow \in AnyRow /\ OwnerRow # Absent
          /\ OwnerRow.enabled /\ OwnerRow.libs = {} /\ OwnerRow.libs \subseteq libraries
          /\ creds' \in [Credentials -> CredentialRow]
          /\ signals' \subseteq Users \union Credentials
      BY <1>1, RowKinds DEF AccountsIInv, TablesInv
    <3>2. \A c \in Credentials : creds'[c].status = "live" => creds'[c] = creds[c] /\ creds[c].user # u
      BY <1>1, <2>2
    <3>. QED BY <1>1, <1>3, <2>1, <3>1, <3>2, UserChanges
  <2>4. q \in RequestRecord /\ q.pc = "session" /\ q.user = u
    BY FixedRequests DEF RequestRecord
  <2>5. RequestsInv'
    <3>1. RequestFits(q, users')
      BY <2>4 DEF RequestFits
    <3>. HIDE DEF q
    <3>. QED BY <2>1, <2>3, <2>4, <3>1, OneRequestMoves DEF AccountsIInv
  <2>6. SignalledChange
    BY <1>1, <2>1, RowKinds DEF SignalledChange
  <2>. QED BY <1>1, <1>3, <2>3, <2>5, <2>6, StreamsHear DEF AccountsIInv, OwnerKept
<1>. QED BY <1>2, <1>3

LEMMA CreateSessionStep ==
    ASSUME AccountsIInv, NEW r \in Requests, NEW c \in Credentials, create_session_for_user(r, c)
    PROVE  AccountsIInv' /\ OwnerKept
<1> DEFINE u == request[r].user
           row == [status |-> "live", user |-> u]
<1>1. /\ u \in Users /\ Reply(r) /\ creds[c].status = "new"
      /\ UNCHANGED <<users, libraries, signals, stream>>
  BY DEF create_session_for_user, AccountsIInv, RequestsInv, RequestFits
<1>2. UsersMoveOn /\ OwnerKept
  BY <1>1 DEF UsersMoveOn, OwnerKept, AccountsIInv, TablesInv
<1>3. CASE ~ Exists(u)
  <2>1. UNCHANGED tables
    BY <1>1, <1>3 DEF create_session_for_user, tables
  <2>. QED BY <1>1, <1>2, <2>1, TablesStay, RequestAnswered DEF AccountsIInv
<1>4. CASE Exists(u)
  <2>1. creds' = [creds EXCEPT ![c] = row] /\ row \in CredentialRow /\ row.status = "live" /\ row.user = u
    BY <1>1, <1>4 DEF create_session_for_user, CredentialRow
  <2>. HIDE DEF row, u
  <2>2. /\ creds' \in [Credentials -> CredentialRow]
        /\ \A d \in Credentials : creds'[d] = IF d = c THEN row ELSE creds[d]
    BY <2>1 DEF AccountsIInv, TablesInv
  <2>3. TablesInv'
    BY <1>1, <1>4, <2>1, <2>2 DEF AccountsIInv, TablesInv, OneOwner, GrantsFitRoles, Exists
  <2>4. SignalledChange
    BY <1>1, <2>1, <2>2 DEF SignalledChange
  <2>. QED BY <1>1, <1>2, <2>3, <2>4, StreamsHear, RequestAnswered DEF AccountsIInv
<1>. QED BY <1>3, <1>4

LEMMA InsertUserStep ==
    ASSUME AccountsIInv, NEW r \in Requests, insert_user(r)
    PROVE  AccountsIInv' /\ OwnerKept
<1> DEFINE u == request[r].user
           row == request[r].next
<1>1. /\ u \in Users /\ Reply(r)
      /\ row \in AnyRow /\ row.role \in {"admin", "viewer"}
      /\ is_admin(row.role) => row.libs = {}
      /\ UNCHANGED <<libraries, creds, stream>>
  BY DEF insert_user, AccountsIInv, RequestsInv, RequestFits, RequestRecord
<1>2. CASE ~ (users[u] = Absent /\ row.libs \subseteq libraries)
  <2>1. UNCHANGED tables
    BY <1>1, <1>2 DEF insert_user, tables
  <2>. QED BY <1>1, <2>1, TablesStay, RequestAnswered
           DEF AccountsIInv, OwnerKept, tables, TablesInv
<1>3. CASE users[u] = Absent /\ row.libs \subseteq libraries
  <2>1. users' = [users EXCEPT ![u] = row] /\ notify({s \in {u} : row.libs # {}})
    BY <1>3 DEF insert_user
  <2>. HIDE DEF row, u
  <2>2. /\ signals' \subseteq Users \union Credentials
        /\ NoneCloses \/ signals \subseteq signals'
    BY <1>1, <2>1, NotifyKeeps DEF AccountsIInv, TablesInv
  <2>3. \A c \in Credentials : creds[c].status = "live" => creds[c].user # u
    BY <1>3, RowKinds DEF AccountsIInv, TablesInv, GrantsFitRoles, Exists, Roles
  <2>4. TablesInv' /\ UsersMoveOn
    BY <1>1, <1>3, <2>1, <2>2, <2>3, RowKinds, UserChanges DEF AccountsIInv, TablesInv
  <2>5. SignalledChange
    BY <1>1, <1>3, <2>1, <2>2, RowKinds DEF SignalledChange, AccountsIInv, TablesInv
  <2>6. OwnerKept
    BY <1>1, <1>3, <2>1, RowKinds DEF OwnerKept, AccountsIInv, TablesInv
  <2>. QED BY <1>1, <2>4, <2>5, <2>6, StreamsHear, RequestAnswered DEF AccountsIInv
<1>. QED BY <1>2, <1>3

LEMMA OfUserCredentials ==
    ASSUME NEW u
    PROVE  /\ OfUser(u) \subseteq Credentials
           /\ \A c \in Credentials : c \in OfUser(u) <=> creds[c].user = u /\ creds[c].status = "live"
  BY DEF OfUser

LEMMA UpdateUserStep ==
    ASSUME AccountsIInv, NEW r \in Requests, update_user(r)
    PROVE  AccountsIInv' /\ OwnerKept
<1> DEFINE u == request[r].user
           row == request[r].next
           ended == IF row.enabled THEN {} ELSE OfUser(u)
<1>1. /\ u \in Users /\ Reply(r)
      /\ row \in AnyRow /\ row.role \in {"admin", "viewer"}
      /\ is_admin(row.role) => row.libs = {}
      /\ users[u].role # "owner" /\ users[u] \in AnyRow
      /\ UNCHANGED <<libraries, stream>>
  BY DEF update_user, AccountsIInv, RequestsInv, RequestFits, RequestRecord, TablesInv
<1>2. CASE ~ (Exists(u) /\ row.libs \subseteq libraries)
  <2>1. UNCHANGED tables
    BY <1>1, <1>2 DEF update_user, tables
  <2>. QED BY <1>1, <2>1, TablesStay, RequestAnswered
           DEF AccountsIInv, OwnerKept, tables, TablesInv
<1>3. CASE Exists(u) /\ row.libs \subseteq libraries
  <2>1. /\ users' = [users EXCEPT ![u] = row]
        /\ creds' = End(ended)
        /\ notify(authorization_signals(u, users[u], row) \union ended)
    BY <1>3 DEF update_user
  <2>2. row \in Rows /\ users[u] \in Rows /\ row # Absent
    BY <1>1, <1>3, RowKinds DEF Exists, Roles
  <2>3. users[u] # row => u \in authorization_signals(u, users[u], row)
    BY <2>2 DEF authorization_signals, Rows
  <2>4. ended \subseteq Credentials /\ authorization_signals(u, users[u], row) \subseteq Users
    BY <1>1, OfUserCredentials DEF authorization_signals
  <2>. HIDE DEF row, u, ended
  <2>5. /\ signals' \subseteq Users \union Credentials
        /\ NoneCloses \/ (signals \subseteq signals'
              /\ authorization_signals(u, users[u], row) \union ended \subseteq signals')
    BY <2>1, <2>4, NotifyKeeps DEF AccountsIInv, TablesInv
  <2>6. /\ creds' \in [Credentials -> CredentialRow]
        /\ \A c \in Credentials : /\ c \notin ended => creds'[c] = creds[c]
                                  /\ c \in ended => creds'[c].status = "ended"
    BY <2>1, EndKeeps DEF AccountsIInv
  <2>7. TablesInv' /\ UsersMoveOn
    <3>1. row.role # "owner" /\ row.role \in Roles /\ TablesInv
      BY <1>1 DEF Roles, AccountsIInv
    <3>2. \A c \in Credentials : creds'[c].status = "live" => creds'[c] = creds[c]
      BY <2>6
    <3>. QED BY <1>1, <1>3, <2>1, <2>2, <2>5, <2>6, <3>1, <3>2, UserChanges
  <2>8. SignalledChange
    BY <2>1, <2>3, <2>5, <2>6 DEF SignalledChange, AccountsIInv, TablesInv
  <2>9. OwnerKept
    BY <1>1, <2>1 DEF OwnerKept, AccountsIInv, TablesInv
  <2>. QED BY <1>1, <2>7, <2>8, <2>9, StreamsHear, RequestAnswered DEF AccountsIInv
<1>. QED BY <1>2, <1>3

LEMMA DeleteUserStep ==
    ASSUME AccountsIInv, NEW r \in Requests, delete_user(r)
    PROVE  AccountsIInv' /\ OwnerKept
<1> DEFINE u == request[r].user
<1>1. /\ u \in Users /\ Reply(r) /\ users[u].role # "owner"
      /\ UNCHANGED <<libraries, stream>>
  BY DEF delete_user, AccountsIInv, RequestsInv, RequestFits
<1>2. CASE ~ Exists(u)
  <2>1. UNCHANGED tables
    BY <1>1, <1>2 DEF delete_user, tables
  <2>. QED BY <1>1, <2>1, TablesStay, RequestAnswered
           DEF AccountsIInv, OwnerKept, tables, TablesInv
<1>3. CASE Exists(u)
  <2> DEFINE ended == OfUser(u)
  <2>1. /\ users' = [users EXCEPT ![u] = Deleted]
        /\ creds' = End(ended)
        /\ notify({u} \union (ended \ Native))
    BY <1>3 DEF delete_user
  <2>2. /\ ended \subseteq Credentials
        /\ \A c \in Credentials : c \in ended <=> creds[c].user = u /\ creds[c].status = "live"
    BY OfUserCredentials
  <2>. HIDE DEF u, ended
  <2>3. /\ signals' \subseteq Users \union Credentials
        /\ NoneCloses \/ (signals \subseteq signals' /\ {u} \union (ended \ Native) \subseteq signals')
    BY <1>1, <2>1, <2>2, NotifyKeeps DEF AccountsIInv, TablesInv
  <2>4. /\ creds' \in [Credentials -> CredentialRow]
        /\ \A c \in Credentials : /\ c \notin ended => creds'[c] = creds[c]
                                  /\ c \in ended => creds'[c].status = "ended"
    BY <2>1, EndKeeps DEF AccountsIInv
  <2>5. /\ Deleted \in AnyRow /\ Deleted # Absent /\ Deleted.role # "owner"
        /\ ~ is_admin(Deleted.role) /\ Deleted.libs \subseteq libraries
    BY RowKinds DEF is_admin
  <2>6. \A c \in Credentials : creds'[c].status = "live" => creds'[c] = creds[c] /\ creds[c].user # u
    BY <2>2, <2>4
  <2>7. TablesInv' /\ UsersMoveOn
    BY <1>1, <2>1, <2>3, <2>4, <2>5, <2>6, UserChanges DEF AccountsIInv
  <2>8. SignalledChange
    BY <2>1, <2>2, <2>3, <2>4 DEF SignalledChange, AccountsIInv, TablesInv
  <2>9. OwnerKept
    BY <1>1, <2>1 DEF OwnerKept, AccountsIInv, TablesInv
  <2>. QED BY <1>1, <2>7, <2>8, <2>9, StreamsHear, RequestAnswered DEF AccountsIInv
<1>. QED BY <1>2, <1>3

LEMMA ResetPasswordStep ==
    ASSUME AccountsIInv, NEW r \in Requests, reset_user_password(r)
    PROVE  AccountsIInv' /\ OwnerKept
<1> DEFINE u == request[r].user
           ended == OfUser(u)
<1>1. /\ Reply(r) /\ UNCHANGED <<users, libraries, stream>>
      /\ OwnerKept
  BY DEF reset_user_password, OwnerKept, AccountsIInv, TablesInv
<1>2. CASE ~ Exists(u)
  <2>1. UNCHANGED tables
    BY <1>1, <1>2 DEF reset_user_password, tables
  <2>. QED BY <1>1, <2>1, TablesStay, RequestAnswered DEF AccountsIInv
<1>3. CASE Exists(u)
  <2>1. creds' = End(ended) /\ notify(ended) /\ ended \subseteq Credentials
    BY <1>3, OfUserCredentials DEF reset_user_password
  <2>. HIDE DEF u, ended
  <2>2. /\ signals' \subseteq Users \union Credentials
        /\ NoneCloses \/ (signals \subseteq signals' /\ ended \subseteq signals')
    BY <2>1, NotifyKeeps DEF AccountsIInv, TablesInv
  <2>3. TablesInv' /\ UsersMoveOn /\ SignalledChange
    BY <1>1, <2>1, <2>2, CredentialsEnd DEF AccountsIInv
  <2>. QED BY <1>1, <2>3, StreamsHear, RequestAnswered DEF AccountsIInv
<1>. QED BY <1>2, <1>3

LEMMA ReplaceSessionsStep ==
    ASSUME AccountsIInv, NEW r \in Requests, NEW c \in Credentials, replace_sessions(r, c)
    PROVE  AccountsIInv' /\ OwnerKept
<1> DEFINE u == request[r].user
           ended == OfUser(u)
           row == [status |-> "live", user |-> u]
<1>1. /\ u \in Users /\ Reply(r) /\ UNCHANGED <<users, libraries, stream>>
      /\ creds[c].status = "new"
      /\ OwnerKept /\ UsersMoveOn
  BY DEF replace_sessions, OwnerKept, UsersMoveOn, AccountsIInv, TablesInv, RequestsInv, RequestFits
<1>2. CASE ~ Exists(u)
  <2>1. UNCHANGED tables
    BY <1>1, <1>2 DEF replace_sessions, tables
  <2>. QED BY <1>1, <2>1, TablesStay, RequestAnswered DEF AccountsIInv
<1>3. CASE Exists(u)
  <2>1. /\ creds' = [End(ended) EXCEPT ![c] = row] /\ notify(ended)
        /\ ended \subseteq Credentials
        /\ row \in CredentialRow /\ row.status = "live" /\ row.user = u
    BY <1>1, <1>3, OfUserCredentials DEF replace_sessions, CredentialRow
  <2>. HIDE DEF u, ended, row
  <2>2. /\ signals' \subseteq Users \union Credentials
        /\ NoneCloses \/ (signals \subseteq signals' /\ ended \subseteq signals')
    BY <2>1, NotifyKeeps DEF AccountsIInv, TablesInv
  <2>3. /\ creds' \in [Credentials -> CredentialRow] /\ creds'[c] = row
        /\ \A d \in Credentials \ {c} : /\ d \notin ended => creds'[d] = creds[d]
                                        /\ d \in ended => creds'[d].status = "ended"
    BY <2>1, EndKeeps DEF AccountsIInv
  <2>4. TablesInv'
    BY <1>1, <1>3, <2>1, <2>2, <2>3
       DEF AccountsIInv, TablesInv, OneOwner, GrantsFitRoles, Exists
  <2>5. SignalledChange
    BY <1>1, <2>1, <2>2, <2>3 DEF SignalledChange
  <2>. QED BY <1>1, <2>4, <2>5, StreamsHear, RequestAnswered DEF AccountsIInv
<1>. QED BY <1>2, <1>3

\* Credentials end by themselves.
LEMMA CredentialStep ==
    ASSUME AccountsIInv, NEW c \in Credentials, logout(c) \/ revoke_disabled(c)
    PROVE  AccountsIInv' /\ OwnerKept
<1>1. /\ UNCHANGED <<users, libraries, request, stream>> /\ OwnerKept
      /\ \E ended \in SUBSET Credentials : creds' = End(ended) /\ notify(ended)
  <2>1. OfUser(creds[c].user) \intersect Native \subseteq Credentials
    BY OfUserCredentials
  <2>. QED BY <2>1 DEF logout, revoke_disabled, OwnerKept, AccountsIInv, TablesInv
<1>2. PICK ended \in SUBSET Credentials : creds' = End(ended) /\ notify(ended)
  BY <1>1
<1>3. /\ signals' \subseteq Users \union Credentials
      /\ NoneCloses \/ (signals \subseteq signals' /\ ended \subseteq signals')
  BY <1>2, NotifyKeeps DEF AccountsIInv, TablesInv
<1>4. TablesInv' /\ UsersMoveOn /\ SignalledChange
  BY <1>1, <1>2, <1>3, CredentialsEnd DEF AccountsIInv
<1>. QED BY <1>1, <1>4, StreamsHear, NoRequestMoves DEF AccountsIInv

\* One stream moves, and the tables do not.
LEMMA OneStreamMoves ==
    ASSUME AccountsIInv, NEW s \in Streams, NEW t \in StreamRecord,
           stream' = [stream EXCEPT ![s] = t], StreamFits(t), UNCHANGED <<tables, request>>
    PROVE  AccountsIInv' /\ OwnerKept
<1>1. TablesInv' /\ UsersMoveOn /\ OwnerKept
  BY TablesStay DEF OwnerKept, tables, AccountsIInv, TablesInv
<1>2. RequestsInv'
  BY <1>1, NoRequestMoves DEF AccountsIInv
<1>3. \A q \in Streams : stream'[q] = IF q = s THEN t ELSE stream[q]
  BY DEF AccountsIInv, StreamsInv
<1>4. stream' \in [Streams -> StreamRecord]
  BY DEF AccountsIInv, StreamsInv
<1>5. ASSUME NEW q \in Streams PROVE StreamFits(stream[q])'
  <2>1. StreamFits(stream'[q])
    BY <1>3 DEF AccountsIInv, StreamsInv
  <2>. QED BY <2>1 DEF StreamFits, IsCurrent, Accepted, tables
<1>. QED BY <1>1, <1>2, <1>4, <1>5 DEF AccountsIInv, StreamsInv

LEMMA FixedStreams ==
    /\ StreamIdle \in StreamRecord /\ StreamIdle.pc = "idle" /\ StreamIdle.tries = 0
    /\ StreamClosed \in StreamRecord /\ StreamClosed.pc = "closed"
    /\ StreamFits(StreamIdle) /\ StreamFits(StreamClosed)
<1>1. StreamIdle \in StreamRecord /\ StreamIdle.pc = "idle" /\ StreamIdle.tries = 0
  BY RowKinds DEF StreamIdle, StreamRecord
<1>2. StreamClosed \in StreamRecord /\ StreamClosed.pc = "closed"
  BY <1>1 DEF StreamClosed, StreamRecord
<1>. QED BY <1>1, <1>2 DEF StreamFits

LEMMA StreamMoves ==
    ASSUME AccountsIInv, NEW s \in Streams, StreamStep(s)
    PROVE  AccountsIInv' /\ OwnerKept
<1> DEFINE t == stream[s]
<1> DEFINE Moves == \E q \in StreamRecord : StreamFits(q) /\ stream' = [stream EXCEPT ![s] = q]
<1>0. t \in StreamRecord /\ StreamFits(t)
  BY DEF AccountsIInv, StreamsInv
<1>1. ASSUME NEW c \in Credentials, events(s, c)
      PROVE  Moves
  <2> DEFINE u == creds[c].user
             q == [StreamIdle EXCEPT !.pc = "auth", !.cred = c, !.user = u, !.seen = users[u]]
  <2>1. /\ stream' = [stream EXCEPT ![s] = q]
        /\ u \in Users /\ users[u] \in AnyRow /\ creds[c].status = "live"
    BY <1>1 DEF events, Accepted, AccountsIInv, TablesInv
  <2>2. q \in StreamRecord /\ q.pc = "auth" /\ q.cred = c /\ q.user = u /\ q.tries = 0
    BY <2>1, FixedStreams DEF StreamRecord
  <2>3. StreamFits(q)
    <3>. HIDE DEF q
    <3>. QED BY <2>1, <2>2 DEF StreamFits
  <2>. QED BY <2>1, <2>2, <2>3
<1>2. ASSUME subscribe(s) PROVE Moves
  <2> DEFINE n == t.tries + 1
             q == [t EXCEPT !.pc = "subscribed", !.tries = n]
  <2>0. t.pc = "auth" /\ stream' = [stream EXCEPT ![s] = q]
    BY <1>2 DEF subscribe
  <2>1. n \in 0 .. 3
    BY <1>0, <2>0 DEF StreamFits, StreamRecord
  <2>2. /\ q \in StreamRecord /\ q.pc = "subscribed" /\ q.cred = t.cred /\ q.user = t.user
    <3>. HIDE DEF n
    <3>. QED BY <1>0, <2>1 DEF StreamRecord
  <2>3. StreamFits(q)
    <3>. HIDE DEF q
    <3>. QED BY <1>0, <2>0, <2>1, <2>2 DEF StreamFits
  <2>. QED BY <2>0, <2>1, <2>2, <2>3
<1>3. ASSUME revalidate(s) PROVE Moves
  <2> DEFINE now_ == users[t.user]
             open == [t EXCEPT !.pc = "open"]
             again == [t EXCEPT !.pc = "auth", !.seen = now_, !.closing = FALSE]
  <2>1. t.pc = "subscribed" /\ t.user \in Users /\ now_ \in AnyRow
    BY <1>0, <1>3 DEF revalidate, StreamFits, AccountsIInv, TablesInv
  <2>2. \/ stream' = [stream EXCEPT ![s] = StreamClosed]
        \/ /\ stream' = [stream EXCEPT ![s] = open]
           /\ Accepted(t.cred) /\ t.seen = now_
        \/ /\ stream' = [stream EXCEPT ![s] = again]
           /\ t.tries < 3
    BY <1>3 DEF revalidate, same_authorization_snapshot
  <2>3. /\ open \in StreamRecord /\ open.pc = "open" /\ open.cred = t.cred
        /\ open.user = t.user /\ open.seen = t.seen
        /\ again \in StreamRecord /\ again.pc = "auth" /\ again.cred = t.cred
        /\ again.user = t.user /\ again.tries = t.tries
    BY <1>0, <2>1 DEF StreamRecord
  <2>4. /\ Accepted(t.cred) /\ t.seen = now_ => StreamFits(open)
        /\ t.tries < 3 => StreamFits(again)
    <3>. HIDE DEF open, again
    <3>. QED BY <1>0, <2>1, <2>3 DEF StreamFits, IsCurrent
  <2>. HIDE DEF open, again
  <2>. QED BY <2>2, <2>3, <2>4, FixedStreams
<1>4. ASSUME close_stream(s) PROVE Moves
  BY <1>4, FixedStreams DEF close_stream
<1>5. UNCHANGED <<tables, request>>
  BY DEF StreamStep, events, subscribe, revalidate, close_stream
<1>. QED BY <1>1, <1>2, <1>3, <1>4, <1>5, OneStreamMoves DEF StreamStep

\* Streams that are told to close fit whatever happens to what they hold.
LEMMA ToldToClose ==
    ASSUME NEW t \in StreamRecord
    PROVE  /\ [t EXCEPT !.closing = TRUE] \in StreamRecord
           /\ [t EXCEPT !.closing = TRUE].closing
           /\ [t EXCEPT !.closing = TRUE].pc = t.pc
           /\ [t EXCEPT !.closing = TRUE].cred = t.cred
           /\ [t EXCEPT !.closing = TRUE].user = t.user
           /\ [t EXCEPT !.closing = TRUE].tries = t.tries
  BY DEF StreamRecord

LEMMA HasMissed ==
    ASSUME NEW t \in StreamRecord
    PROVE  /\ [t EXCEPT !.missed = TRUE] \in StreamRecord
           /\ [t EXCEPT !.missed = TRUE].missed
           /\ [t EXCEPT !.missed = TRUE].pc = t.pc
           /\ [t EXCEPT !.missed = TRUE].cred = t.cred
           /\ [t EXCEPT !.missed = TRUE].user = t.user
           /\ [t EXCEPT !.missed = TRUE].tries = t.tries
  BY DEF StreamRecord

LEMMA ExpireStep ==
    ASSUME AccountsIInv, NEW c \in Credentials, expire(c)
    PROVE  AccountsIInv' /\ OwnerKept
<1>1. /\ creds' = End({c}) /\ UNCHANGED <<users, libraries, request, signals>>
      /\ OwnerKept
  BY DEF expire, OwnerKept, AccountsIInv, TablesInv
<1>2. TablesInv' /\ UsersMoveOn
  BY <1>1, CredentialsEnd DEF AccountsIInv, TablesInv
<1>3. /\ \A d \in Credentials : d # c => creds'[d] = creds[d]
      /\ creds'[c].status = "ended"
  BY <1>1, EndKeeps DEF AccountsIInv
<1>4. ASSUME NEW s \in Streams
      PROVE  stream'[s] \in StreamRecord /\ StreamFits(stream[s])'
  <2>1. /\ stream[s] \in StreamRecord /\ StreamFits(stream[s])
        /\ stream'[s] = IF stream[s].cred = c /\ stream[s].pc = "open"
                        THEN [stream[s] EXCEPT !.closing = TRUE] ELSE stream[s]
    BY DEF expire, AccountsIInv, StreamsInv
  <2>2. CASE stream[s].cred = c /\ stream[s].pc = "open"
    <3> DEFINE q == [stream[s] EXCEPT !.closing = TRUE]
    <3>1. /\ q \in StreamRecord /\ q.closing /\ q.pc = "open" /\ q.cred = c
          /\ q.user = stream[s].user /\ stream'[s] = q
      BY <2>1, <2>2, ToldToClose
    <3>. HIDE DEF q
    <3>. QED BY <1>3, <2>1, <2>2, <3>1 DEF StreamFits
  <2>3. CASE ~ (stream[s].cred = c /\ stream[s].pc = "open")
    BY <1>1, <1>3, <2>1, <2>3 DEF StreamFits, IsCurrent, Accepted
  <2>. QED BY <2>2, <2>3
<1>5. StreamsInv'
  BY <1>4 DEF expire, StreamsInv
<1>. QED BY <1>1, <1>2, <1>5, NoRequestMoves DEF AccountsIInv

LEMMA PublishStep ==
    ASSUME AccountsIInv, NEW sig \in Users \union Credentials, publish_invalidated(sig)
    PROVE  AccountsIInv' /\ OwnerKept
<1>1. /\ UNCHANGED <<users, libraries, creds, request>> /\ signals' = signals \ {sig}
      /\ OwnerKept /\ UsersMoveOn
  BY DEF publish_invalidated, OwnerKept, UsersMoveOn, AccountsIInv, TablesInv
<1>2. TablesInv'
  BY <1>1 DEF AccountsIInv, TablesInv, OneOwner, GrantsFitRoles, Exists
<1>3. ASSUME NEW s \in Streams
      PROVE  stream'[s] \in StreamRecord /\ StreamFits(stream[s])'
  <2>1. /\ stream[s] \in StreamRecord /\ StreamFits(stream[s])
        /\ stream'[s] = IF /\ stream[s].pc \in {"subscribed", "open"}
                           /\ sig \in {stream[s].user, stream[s].cred}
                        THEN [stream[s] EXCEPT !.closing = TRUE] ELSE stream[s]
    BY DEF publish_invalidated, AccountsIInv, StreamsInv
  <2>2. CASE stream[s].pc \in {"subscribed", "open"} /\ sig \in {stream[s].user, stream[s].cred}
    <3> DEFINE q == [stream[s] EXCEPT !.closing = TRUE]
    <3>1. /\ q \in StreamRecord /\ q.closing /\ q.pc = stream[s].pc /\ q.cred = stream[s].cred
          /\ q.user = stream[s].user /\ q.tries = stream[s].tries /\ stream'[s] = q
      BY <2>1, <2>2, ToldToClose
    <3>. HIDE DEF q
    <3>. QED BY <1>1, <2>1, <3>1 DEF StreamFits
  <2>3. CASE ~ (stream[s].pc \in {"subscribed", "open"} /\ sig \in {stream[s].user, stream[s].cred})
    BY <1>1, <2>1, <2>3 DEF StreamFits, IsCurrent, Accepted
  <2>. QED BY <2>2, <2>3
<1>4. StreamsInv'
  BY <1>3 DEF publish_invalidated, StreamsInv
<1>. QED BY <1>1, <1>2, <1>4, NoRequestMoves DEF AccountsIInv

\* Losing signals leaves the tables and the requests as they are.
LEMMA SignalsGo ==
    ASSUME AccountsIInv, NEW lost, signals' = signals \ lost,
           UNCHANGED <<users, libraries, creds, request>>
    PROVE  TablesInv' /\ RequestsInv' /\ OwnerKept
<1>1. OwnerKept /\ UsersMoveOn
  BY DEF OwnerKept, UsersMoveOn, AccountsIInv, TablesInv
<1>2. TablesInv'
  BY DEF AccountsIInv, TablesInv, OneOwner, GrantsFitRoles, Exists
<1>. QED BY <1>1, <1>2, NoRequestMoves DEF AccountsIInv

LEMMA ListenerSubscribesStep ==
    ASSUME AccountsIInv, NEW lost, listener_subscribes(lost)
    PROVE  AccountsIInv' /\ OwnerKept
<1>1. TablesInv' /\ RequestsInv' /\ OwnerKept
  BY SignalsGo DEF listener_subscribes
<1>2. ASSUME NEW s \in Streams
      PROVE  stream'[s] \in StreamRecord /\ StreamFits(stream[s])'
  <2>1. /\ stream[s] \in StreamRecord /\ StreamFits(stream[s]) /\ creds' = creds
        /\ stream'[s] = IF stream[s].pc \in {"subscribed", "open"}
                        THEN [stream[s] EXCEPT !.closing = TRUE] ELSE stream[s]
    BY DEF listener_subscribes, AccountsIInv, StreamsInv
  <2>2. CASE stream[s].pc \in {"subscribed", "open"}
    <3> DEFINE q == [stream[s] EXCEPT !.closing = TRUE]
    <3>1. /\ q \in StreamRecord /\ q.closing /\ q.pc = stream[s].pc /\ q.cred = stream[s].cred
          /\ q.user = stream[s].user /\ q.tries = stream[s].tries /\ stream'[s] = q
      BY <2>1, <2>2, ToldToClose
    <3>. HIDE DEF q
    <3>. QED BY <2>1, <3>1 DEF StreamFits
  <2>3. CASE stream[s].pc \notin {"subscribed", "open"}
    BY <2>1, <2>3 DEF StreamFits
  <2>. QED BY <2>2, <2>3
<1>3. StreamsInv'
  BY <1>2 DEF listener_subscribes, StreamsInv
<1>. QED BY <1>1, <1>3 DEF AccountsIInv

\* A stream whose signal is lost has missed it, or did not need it.
LEMMA ListenerReconnectsStep ==
    ASSUME AccountsIInv, NEW lost, listener_reconnects(lost)
    PROVE  AccountsIInv' /\ OwnerKept
<1>1. TablesInv' /\ RequestsInv' /\ OwnerKept
  BY SignalsGo DEF listener_reconnects
<1>2. ASSUME NEW s \in Streams
      PROVE  stream'[s] \in StreamRecord /\ StreamFits(stream[s])'
  <2> DEFINE Misses == /\ stream[s].pc = "open" /\ ~ IsCurrent(stream[s])
                       /\ lost \intersect {stream[s].user, stream[s].cred} # {}
  <2>1. /\ stream[s] \in StreamRecord /\ StreamFits(stream[s])
        /\ creds' = creds /\ users' = users /\ signals' = signals \ lost
        /\ stream'[s] = IF Misses THEN [stream[s] EXCEPT !.missed = TRUE] ELSE stream[s]
    BY DEF listener_reconnects, AccountsIInv, StreamsInv
  <2>2. CASE Misses
    <3> DEFINE q == [stream[s] EXCEPT !.missed = TRUE]
    <3>1. /\ q \in StreamRecord /\ q.missed /\ q.pc = stream[s].pc /\ q.cred = stream[s].cred
          /\ q.user = stream[s].user /\ q.tries = stream[s].tries /\ stream'[s] = q
      BY <2>1, <2>2, HasMissed
    <3>. HIDE DEF q
    <3>. QED BY <2>1, <3>1 DEF StreamFits
  <2>3. CASE ~ Misses
    <3>1. stream'[s] = stream[s] /\ (IsCurrent(stream[s]) => IsCurrent(stream[s])')
      BY <2>1, <2>3 DEF IsCurrent, Accepted
    <3>2. /\ stream[s].pc = "open" /\ ~ stream[s].closing /\ ~ stream[s].missed =>
             IsCurrent(stream[s])' \/ stream[s].user \in signals' \/ stream[s].cred \in signals'
      BY <2>1, <2>3, <3>1 DEF StreamFits
    <3>. QED BY <2>1, <3>1, <3>2 DEF StreamFits
  <2>. QED BY <2>2, <2>3
<1>3. StreamsInv'
  BY <1>2 DEF listener_reconnects, StreamsInv
<1>. QED BY <1>1, <1>3 DEF AccountsIInv

LEMMA LibraryStep ==
    ASSUME AccountsIInv, NEW l \in Libraries, delete_library_grants(l)
    PROVE  AccountsIInv' /\ OwnerKept
<1>1. /\ UNCHANGED <<creds, request, stream>>
      /\ libraries' = libraries \ {l}
      /\ users' = [u \in Users |-> [users[u] EXCEPT !.libs = @ \ {l}]]
      /\ notify({u \in Users : l \in users[u].libs})
  BY DEF delete_library_grants
<1>2. /\ signals' \subseteq Users \union Credentials
      /\ NoneCloses \/ (signals \subseteq signals' /\ {u \in Users : l \in users[u].libs} \subseteq signals')
  BY <1>1, NotifyKeeps DEF AccountsIInv, TablesInv
<1>3. ASSUME NEW u \in Users
      PROVE  /\ users'[u] \in AnyRow
             /\ users'[u].role = users[u].role /\ users'[u].enabled = users[u].enabled
             /\ users'[u].libs = users[u].libs \ {l}
             /\ l \notin users[u].libs => users'[u] = users[u]
  <2>1. users'[u] = [users[u] EXCEPT !.libs = users[u].libs \ {l}] /\ users[u] \in AnyRow
    BY <1>1 DEF AccountsIInv, TablesInv
  <2>2. CASE users[u] \in Rows
    <3>1. /\ users'[u] \in Rows
          /\ users'[u].role = users[u].role /\ users'[u].enabled = users[u].enabled
          /\ users'[u].libs = users[u].libs \ {l}
      BY <2>1, <2>2 DEF Rows
    <3>2. l \notin users[u].libs => users'[u] = users[u]
      <4>1. SUFFICES ASSUME l \notin users[u].libs PROVE users'[u] = users[u]
        OBVIOUS
      <4>2. users[u].libs \ {l} = users[u].libs
        BY <4>1
      <4>. QED BY <2>1, <2>2, <4>2 DEF Rows
    <3>. QED BY <3>1, <3>2 DEF AnyRow
  <2>3. CASE users[u] \in {Absent, Deleted}
    <3>1. users[u].libs = {} /\ users[u].libs \ {l} = {}
      BY <2>3, RowKinds
    <3>2. users'[u] = users[u]
      BY <2>1, <2>3, <3>1 DEF Absent, Deleted
    <3>. QED BY <2>1, <3>1, <3>2
  <2>. QED BY <2>1, <2>2, <2>3 DEF AnyRow
<1>4. UsersMoveOn /\ OwnerKept
  <2>1. \A u \in Users : users[u] # Absent => users[u].role # "none"
    BY DEF AccountsIInv, TablesInv, AnyRow, Rows, Roles, Absent, Deleted
  <2>. QED BY <1>3, <2>1, RowKinds DEF UsersMoveOn, OwnerKept, AccountsIInv, TablesInv
<1>5. TablesInv'
  <2>1. users' \in [Users -> AnyRow]
    BY <1>1, <1>3
  <2>2. OneOwner'
    BY <1>3 DEF AccountsIInv, TablesInv, OneOwner
  <2>3. GrantsFitRoles'
    <3>1. \A u \in Users : /\ is_admin(users'[u].role) => users'[u].libs = {}
                           /\ users'[u].libs \subseteq libraries'
      BY <1>1, <1>3 DEF AccountsIInv, TablesInv, GrantsFitRoles
    <3>2. \A c \in Credentials : creds'[c].status = "live" => users'[creds'[c].user].role \in Roles
      BY <1>1, <1>3 DEF AccountsIInv, TablesInv, GrantsFitRoles, Exists
    <3>. QED BY <3>1, <3>2 DEF GrantsFitRoles, Exists
  <2>. QED BY <1>1, <1>2, <1>3, <2>1, <2>2, <2>3 DEF AccountsIInv, TablesInv
<1>6. SignalledChange
  BY <1>1, <1>2, <1>3 DEF SignalledChange
<1>. QED BY <1>1, <1>4, <1>5, <1>6, StreamsHear, NoRequestMoves DEF AccountsIInv

LEMMA AccountsInitially == AccountsInit => AccountsIInv
<1> SUFFICES ASSUME AccountsInit PROVE AccountsIInv
  OBVIOUS
<1>1. users \in [Users -> AnyRow] /\ creds \in [Credentials -> CredentialRow]
  BY DEF AccountsInit, AnyRow, NoCredential, CredentialRow
<1>2. OneOwner /\ \A u \in Users : users[u].role = "owner" => users[u].enabled
  BY RowKinds DEF AccountsInit, OneOwner
<1>3. GrantsFitRoles
  <2>1. \A u \in Users : is_admin(users[u].role) => users[u].libs = {}
    BY RowKinds DEF AccountsInit, is_admin
  <2>2. \A u \in Users : users[u].libs \subseteq libraries
    BY DEF AccountsInit, Rows, Absent
  <2>3. \A c \in Credentials : creds[c].status = "live" => Exists(creds[c].user)
    BY RowKinds DEF AccountsInit, Exists, NoCredential
  <2>. QED BY <2>1, <2>2, <2>3 DEF GrantsFitRoles
<1>4. \A c \in Credentials : creds[c].status = "live" => creds[c].user \in Users
  BY DEF AccountsInit, NoCredential
<1>5. RequestsInv
  BY FixedRequests DEF AccountsInit, RequestsInv
<1>6. StreamsInv
  BY FixedStreams DEF AccountsInit, StreamsInv
<1>. QED BY <1>1, <1>2, <1>3, <1>4, <1>5, <1>6 DEF AccountsIInv, TablesInv, AccountsInit

LEMMA AccountsStep ==
    ASSUME AccountsIInv, [AccountsNext]_accountsVars
    PROVE  AccountsIInv' /\ OwnerKept
<1>1. ASSUME NEW r \in Requests, SignInStep(r) \/ ManageStep(r)
      PROVE  AccountsIInv' /\ OwnerKept
  BY <1>1, ReadingStep, InsertOwnerStep, CreateSessionStep, InsertUserStep, UpdateUserStep,
     DeleteUserStep, ResetPasswordStep, ReplaceSessionsStep DEF SignInStep, ManageStep
<1>2. ASSUME NEW c \in Credentials, logout(c) \/ revoke_disabled(c) \/ expire(c)
      PROVE  AccountsIInv' /\ OwnerKept
  BY <1>2, CredentialStep, ExpireStep
<1>3. CASE UNCHANGED accountsVars
  <2>1. UNCHANGED tables /\ stream' = stream /\ request' = request
    BY <1>3 DEF accountsVars, tables
  <2>2. OwnerKept
    BY <2>1 DEF tables, OwnerKept, AccountsIInv, TablesInv
  <2>. QED BY <2>1, <2>2, TablesStay, NoRequestMoves DEF AccountsIInv
<1>4. ASSUME NEW lost \in SUBSET signals, listener_subscribes(lost) \/ listener_reconnects(lost)
      PROVE  AccountsIInv' /\ OwnerKept
  BY <1>4, ListenerSubscribesStep, ListenerReconnectsStep
<1>. QED BY <1>1, <1>2, <1>3, <1>4, StreamMoves, PublishStep, LibraryStep DEF AccountsNext

\* There is one owner at most, grants fit the roles, credentials belong to
\* users that exist, and no request carries anything it could not write,
\* whatever requests overlap (create_user, update_user, delete_user).
THEOREM AccountsStayConsistent == AccountsSpec => []AccountsInv
<1>1. AccountsIInv /\ [AccountsNext]_accountsVars => AccountsIInv'
  BY AccountsStep
<1>2. AccountsIInv => AccountsInv
  BY AccountsIInvImplies
<1>. QED BY AccountsInitially, <1>1, <1>2, PTL DEF AccountsSpec

\* Whatever signals are lost: an open stream has the authorization its user has
\* now, or is about to be told to close, unless its signal was lost while the
\* listener's recv reconnected by itself (authenticate_and_subscribe, the triggers
\* on the tables, run_postgres_revision_listener).
THEOREM StreamsStayCurrent == AccountsSpec => []StreamsAreCurrent
<1>1. AccountsIInv /\ [AccountsNext]_accountsVars => AccountsIInv'
  BY AccountsStep
<1>2. AccountsIInv => StreamsAreCurrent
  BY AccountsIInvImplies
<1>. QED BY AccountsInitially, <1>1, <1>2, PTL DEF AccountsSpec

\* No interleaving of requests takes the owner's role or disables the owner
\* (validate_user_management_scope, without a lock on what it has read).
THEOREM OwnerAlwaysStays == AccountsSpec => OwnerStays
<1>1. AccountsIInv /\ [AccountsNext]_accountsVars => AccountsIInv'
  BY AccountsStep
<1>2. AccountsIInv /\ [AccountsNext]_accountsVars =>
        [\A u \in Users : users[u].role = "owner" =>
            users'[u].role = "owner" /\ users'[u].enabled]_accountsVars
  BY AccountsStep DEF OwnerKept
<1>. QED BY AccountsInitially, <1>1, <1>2, PTL DEF AccountsSpec, OwnerStays

-----------------------------------------------------------------------------
(* What TLC explores: one part moves, from a selection of initial states.  *)

SignInIInv == AccountsIInv /\ NativeIInv /\ LimitIInv

LEMMA SignInInitially == Init => SignInIInv
<1> SUFFICES ASSUME Init PROVE SignInIInv
  OBVIOUS
<1>1. NativeIInv /\ LimitIInv
  BY NativeInitially, LimitInitially DEF Init
<1>2. AccountsInit \/ ( /\ libraries = Libraries /\ users = [u \in Users |-> Absent]
                        /\ creds = [c \in Credentials |-> NoCredential]
                        /\ request = [r \in Requests |-> RequestIdle]
                        /\ stream = [s \in Streams |-> StreamIdle]
                        /\ signals = {} )
  BY DEF Init
<1>3. ASSUME /\ libraries = Libraries /\ users = [u \in Users |-> Absent]
             /\ creds = [c \in Credentials |-> NoCredential]
             /\ request = [r \in Requests |-> RequestIdle]
             /\ stream = [s \in Streams |-> StreamIdle]
             /\ signals = {}
      PROVE  AccountsInit
  BY <1>3 DEF AccountsInit, NoCredential
<1>4. AccountsInit
  BY <1>2, <1>3
<1>. QED BY <1>1, <1>4, AccountsInitially DEF SignInIInv

LEMMA SignInStepKeeps ==
    ASSUME SignInIInv, [Next]_vars
    PROVE  /\ SignInIInv'
           /\ [AccountsNext]_accountsVars /\ [NativeNext]_nativeVars /\ [LimitNext]_limitVars
<1>1. [AccountsNext]_accountsVars /\ [NativeNext]_nativeVars /\ [LimitNext]_limitVars
  BY DEF Next, vars
<1>. QED BY <1>1, AccountsStep, NativeStep, LimitStep DEF SignInIInv

\* The tables of the three parts fit together in every state the run explores,
\* for any number of users, credentials, requests, tokens, keys and attempts.
THEOREM SignInFits == Spec => []SignInInv
<1>1. SignInIInv => SignInInv
  BY AccountsIInvImplies DEF SignInIInv, SignInInv, NativeIInv, LimitIInv
<1>2. SignInIInv /\ [Next]_vars => SignInIInv'
  BY SignInStepKeeps
<1>. QED BY SignInInitially, <1>1, <1>2, PTL DEF Spec
=============================================================================
