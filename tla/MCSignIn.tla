------------------------------ MODULE MCSignIn ------------------------------
(***************************************************************************)
(* Accounts, the refresh tokens of native sessions and the limit on failed *)
(* sign-ins, for TLC.  The three share no state, so a behaviour moves one  *)
(* of them: interleaving them would only multiply their states.  Accounts  *)
(* are explored in turn with overlapping requests, starting without native *)
(* sessions, and with a request and a stream, starting without one of the  *)
(* users.                                                                  *)
(***************************************************************************)
EXTENDS TLC, Accounts, NativeSessions, AuthRateLimit

VARIABLE part

vars == <<part, accountsVars, nativeVars, limitVars>>

Init ==
    /\ NativeInit /\ LimitInit
    /\ \/ /\ part = "accounts" /\ AccountsInit
          /\ LET idle == {r \in Requests : request[r] = RequestIdle} IN
             \/ /\ idle = Requests /\ \A s \in Streams : stream[s] = StreamClosed
                /\ \A c \in Native : creds[c] = NoCredential
             \/ /\ Cardinality(idle) = 1 /\ \A s \in Streams : stream[s] = StreamIdle
                /\ \E u \in Users : users[u] = Absent
       \/ /\ part \in {"native", "limit"}
          /\ libraries = Libraries /\ users = [u \in Users |-> Absent]
          /\ creds = [c \in Credentials |-> NoCredential]
          /\ request = [r \in Requests |-> RequestIdle]
          /\ stream = [s \in Streams |-> StreamIdle]
          /\ signals = {}

Next ==
    \/ part = "accounts" /\ AccountsNext /\ UNCHANGED <<part, nativeVars, limitVars>>
    \/ part = "native" /\ NativeNext /\ UNCHANGED <<part, accountsVars, limitVars>>
    \/ part = "limit" /\ LimitNext /\ UNCHANGED <<part, accountsVars, nativeVars>>

MCSymmetry == UNION {Permutations(S) : S \in {Users, Requests}}

Spec == Init /\ [][Next]_vars

\* The tables of the three parts fit together, whatever requests overlap: one
\* owner at most and grants that fit the roles, every refresh token that was
\* exchanged remembered for as long as it could be presented, and a limiter
\* that keeps to its size.
SignInInv == AccountsInv /\ ExchangedTokensAreRemembered /\ LimiterInv

=============================================================================
