------------------------- MODULE ScanRegistryProofs -------------------------
(***************************************************************************)
(* RegistryInv is an inductive invariant of ScanRegistry, for any number   *)
(* of libraries, workers, requests, handles and languages.                 *)
(***************************************************************************)
EXTENDS ScanRegistry, TLAPS

\* Updating a field keeps a record in its type.
LEMMA WorkerUpdate ==
    /\ IdleWorker \in WorkerType
    /\ \A a \in WorkerType :
          /\ \A p \in WorkerPcs : [a EXCEPT !.pc = p] \in WorkerType
          /\ \A l \in Libraries : [a EXCEPT !.lib = l] \in WorkerType
          /\ \A h \in Handles \union {NoHandle} : [a EXCEPT !.handle = h] \in WorkerType
          /\ \A n \in Languages : [a EXCEPT !.language = n] \in WorkerType
  BY LanguagesAssumption DEF WorkerType, IdleWorker, WorkerPcs

LEMMA RequestUpdate ==
    /\ Start \in RequestType
    /\ \A a \in RequestType :
          /\ \A p \in RequestPcs : [a EXCEPT !.pc = p] \in RequestType
          /\ \A l \in Libraries : [a EXCEPT !.lib = l] \in RequestType
          /\ \A h \in Handles : [a EXCEPT !.handle = h] \in RequestType
          /\ [a EXCEPT !.woken = TRUE] \in RequestType
  BY DEF RequestType, Start, RequestPcs

LEMMA HandleUpdate ==
    /\ NewHandle \in HandleType
    /\ \A a \in HandleType :
          /\ [a EXCEPT !.cancel = TRUE] \in HandleType
          /\ [a EXCEPT !.finished = TRUE] \in HandleType
  BY DEF HandleType, NewHandle

LEMMA JobUpdate ==
    /\ \A w \in Workers : [status |-> "running", owner |-> w] \in JobType
    /\ \A s \in {"none", "pending", "deleted"} :
          [status |-> s, owner |-> NoWorker] \in JobType
  BY DEF JobType

\* Every step keeps the types.
LEMMA TypeOKKept ==
    ASSUME RegistryInv, Next
    PROVE  TypeOK'
<1> USE WorkerUpdate, RequestUpdate, HandleUpdate, JobUpdate DEF RegistryInv, TypeOK
<1>0. /\ \A w \in Workers : worker[w].pc # "idle" => worker[w].lib \in Libraries
      /\ \A w \in Workers : worker[w].language \in Languages
      /\ \A r \in Requests : request[r].pc # "start" => request[r].lib \in Libraries
  BY DEF Registrations, Waits, Deletions, WorkerType
<1>1. ASSUME NEW l \in Libraries, enqueue_library_scan(l)
      PROVE  TypeOK'
  BY <1>1 DEF enqueue_library_scan, EnqueuedScan, WorkerPcs, RequestPcs
<1>2. ASSUME NEW l \in Libraries, LoseLease(l)
      PROVE  TypeOK'
  <2>1. scanJob' \in [Libraries -> JobType]
    BY <1>2 DEF LoseLease
  <2>. QED BY <1>2, <2>1 DEF LoseLease
<1>3. ASSUME NEW w \in Workers, NEW l \in Libraries, claim(w, l)
      PROVE  TypeOK'
  BY <1>3 DEF claim, WorkerPcs, RequestPcs
<1>4. ASSUME NEW w \in Workers, NEW h \in Handles, register_scan(w, h)
      PROVE  TypeOK'
  BY <1>4 DEF register_scan, WorkerPcs, RequestPcs
<1>5. ASSUME NEW w \in Workers, RegisterRefused(w)
      PROVE  TypeOK'
  BY <1>5 DEF RegisterRefused, WorkerPcs, RequestPcs
<1>6. ASSUME NEW w \in Workers, LoadLibrary(w)
      PROVE  TypeOK'
  BY <1>0, <1>6 DEF LoadLibrary, WorkerPcs, RequestPcs
<1>7. ASSUME NEW w \in Workers, CommitMetadata(w)
      PROVE  TypeOK'
  BY <1>0, <1>7 DEF CommitMetadata, WorkerPcs, RequestPcs
<1>8. ASSUME NEW w \in Workers, EndScan(w)
      PROVE  TypeOK'
  <2>1. scanJob' \in [Libraries -> JobType]
    BY <1>0, <1>8 DEF EndScan, Returned
  <2>2. worker' \in [Workers -> WorkerType]
    BY <1>8 DEF EndScan, WorkerPcs
  <2>. QED BY <1>8, <2>1, <2>2 DEF EndScan
<1>9. ASSUME NEW w \in Workers, FinishRemove(w)
      PROVE  TypeOK'
  BY <1>9 DEF FinishRemove, WorkerPcs, RequestPcs
<1>10. ASSUME NEW w \in Workers, FinishFlag(w)
      PROVE  TypeOK'
  BY <1>10 DEF FinishFlag, WorkerPcs, RequestPcs
<1>11. ASSUME NEW w \in Workers, FinishNotify(w)
      PROVE  TypeOK'
  BY <1>11 DEF FinishNotify, WorkerPcs, RequestPcs
<1>12. ASSUME NEW r \in Requests, NEW l \in Libraries, begin_delete(r, l)
      PROVE  TypeOK'
  BY <1>12 DEF begin_delete, WorkerPcs, RequestPcs
<1>13. ASSUME NEW r \in Requests, NEW l \in Libraries, BeginLanguageChange(r, l)
      PROVE  TypeOK'
  BY <1>13 DEF BeginLanguageChange, WorkerPcs, RequestPcs
<1>14. ASSUME NEW r \in Requests, active_scan(r)
      PROVE  TypeOK'
  <2> DEFINE h == active[request[r].lib]
  <2>1. h \in Handles \union {NoHandle}
    BY <1>0, <1>14 DEF active_scan
  <2>2. CASE h = NoHandle
    <3>1. handle' = handle /\ request' = [request EXCEPT ![r].pc = "commit"]
      BY <1>14, <2>2 DEF active_scan
    <3>. QED BY <1>14, <3>1 DEF active_scan, RequestPcs
  <2>3. CASE h # NoHandle
    <3>1. handle' = [handle EXCEPT ![h] = Stopped(h)]
          /\ request' = [request EXCEPT ![r].pc = "load", ![r].handle = h]
      BY <1>14, <2>3 DEF active_scan
    <3>2. Stopped(h) \in HandleType
      BY <2>1, <2>3 DEF Stopped
    <3>. QED BY <1>14, <2>1, <2>3, <3>1, <3>2 DEF active_scan, RequestPcs
  <2>. QED BY <2>2, <2>3
<1>15. ASSUME NEW r \in Requests, LoadFinished(r)
      PROVE  TypeOK'
  BY <1>15 DEF LoadFinished, WorkerPcs, RequestPcs
<1>16. ASSUME NEW r \in Requests, Subscribe(r)
      PROVE  TypeOK'
  BY <1>16 DEF Subscribe, WorkerPcs, RequestPcs
<1>17. ASSUME NEW r \in Requests, Woken(r)
      PROVE  TypeOK'
  BY <1>17 DEF Woken, WorkerPcs, RequestPcs
<1>18. ASSUME NEW r \in Requests, Timeout(r)
      PROVE  TypeOK'
  BY <1>18 DEF Timeout, Leave, WorkerPcs, RequestPcs
<1>19. ASSUME NEW r \in Requests, delete_library(r)
      PROVE  TypeOK'
  BY <1>19 DEF delete_library, Leave, WorkerPcs, RequestPcs
<1>20. ASSUME NEW r \in Requests, update_library(r)
      PROVE  TypeOK'
  <2>1. EnqueuedScan(request[r].lib) \in JobType
    <3>1. request[r].lib \in Libraries
      BY <1>0, <1>20 DEF update_library
    <3>. QED BY <3>1 DEF EnqueuedScan
  <2>2. scanJob' \in [Libraries -> JobType]
    BY <1>20, <2>1 DEF update_library
  <2>3. language' \in [Libraries -> Languages]
    BY <1>20 DEF update_library
  <2>4. request' \in [Requests -> RequestType] /\ deleting' \subseteq Libraries
    BY <1>20 DEF update_library, Leave, RequestPcs
  <2>. QED BY <1>20, <2>2, <2>3, <2>4 DEF update_library
<1>21. ASSUME NEW r \in Requests, UpdateRefused(r)
      PROVE  TypeOK'
  BY <1>21 DEF UpdateRefused, Leave, WorkerPcs, RequestPcs
<1>22. ASSUME NEW w \in Workers, retry_or_fail(w)
      PROVE  TypeOK'
  <2>1. scanJob' \in [Libraries -> JobType]
    BY <1>0, <1>22 DEF retry_or_fail, Returned
  <2>. QED BY <1>22, <2>1 DEF retry_or_fail
<1>. QED BY <1>1, <1>2, <1>3, <1>4, <1>5, <1>6, <1>7, <1>8, <1>9, <1>10, <1>11, <1>12,
   <1>13, <1>14, <1>15, <1>16, <1>17, <1>18, <1>19, <1>20, <1>21, <1>22 DEF Next, Step,
   Scanning, Proceed

\* What a request finds in the registry, and that it disturbs no flag but one.
LEMMA LookupFinds ==
    ASSUME RegistryInv, NEW r \in Requests, active_scan(r)
    PROVE  /\ active' = active /\ deleting' = deleting /\ worker' = worker
           /\ \A h \in Handles : handle'[h].finished = handle[h].finished
           /\ \A q \in Requests \ {r} : request'[q] = request[q]
           /\ request[r].pc = "lookup" /\ request[r].lib \in Libraries
           /\ request'[r].lib = request[r].lib /\ request'[r].woken = FALSE
           /\ \/ /\ request'[r].pc = "commit"
                 /\ active[request[r].lib] = NoHandle
              \/ /\ request'[r].pc = "load"
                 /\ request'[r].handle = active[request[r].lib]
                 /\ request'[r].handle \in Handles
<1> DEFINE h == active[request[r].lib]
<1>1. /\ active' = active /\ deleting' = deleting /\ worker' = worker
      /\ request[r].pc = "lookup" /\ request[r].lib \in Libraries
      /\ request[r].woken = FALSE
  BY DEF active_scan, RegistryInv, Waits, TypeOK, RequestType
<1>2. h \in Handles \union {NoHandle}
  BY <1>1 DEF RegistryInv, TypeOK
<1>3. CASE h = NoHandle
  <2>1. handle' = handle /\ request' = [request EXCEPT ![r].pc = "commit"]
    BY <1>3 DEF active_scan
  <2>. QED BY <1>1, <1>3, <2>1 DEF RegistryInv, TypeOK, RequestType
<1>4. CASE h # NoHandle
  <2>1. /\ handle' = [handle EXCEPT ![h] = Stopped(h)]
        /\ request' = [request EXCEPT ![r].pc = "load", ![r].handle = h]
    BY <1>4 DEF active_scan
  <2>2. \A g \in Handles : handle'[g].finished = handle[g].finished
    BY <1>2, <1>4, <2>1 DEF Stopped, RegistryInv, TypeOK, HandleType
  <2>. QED BY <1>1, <1>2, <1>4, <2>1, <2>2 DEF RegistryInv, TypeOK, RequestType
<1>. QED BY <1>3, <1>4

\* Every step keeps the map and the workers' handles together.
LEMMA RegistrationsKept ==
    ASSUME RegistryInv, Next
    PROVE  Registrations'
<1> USE ActorsAssumption, LanguagesAssumption DEF RegistryInv
<1>1. ASSUME NEW l \in Libraries, enqueue_library_scan(l)
      PROVE  Registrations'
  BY <1>1 DEF enqueue_library_scan, EnqueuedScan, Registered, Registrations, TypeOK, HandleType,
     WorkerType, RequestType
<1>2. ASSUME NEW l \in Libraries, LoseLease(l)
      PROVE  Registrations'
  BY <1>2 DEF LoseLease, Registered, Registrations, TypeOK, HandleType, WorkerType,
     RequestType
<1>3. ASSUME NEW w \in Workers, NEW l \in Libraries, claim(w, l)
      PROVE  Registrations'
  BY <1>3 DEF claim, IdleWorker, Registered, Registrations, TypeOK, HandleType,
     WorkerType, RequestType
<1>4. ASSUME NEW w \in Workers, NEW h \in Handles, register_scan(w, h)
      PROVE  Registrations'
  BY <1>4 DEF register_scan, MayRegister, Unheld, NewHandle, Registered,
     Registrations, TypeOK, HandleType, WorkerType, RequestType
<1>5. ASSUME NEW w \in Workers, RegisterRefused(w)
      PROVE  Registrations'
  BY <1>5 DEF RegisterRefused, Registered, Registrations,
     TypeOK, HandleType, WorkerType, RequestType
<1>6. ASSUME NEW w \in Workers, LoadLibrary(w)
      PROVE  Registrations'
  <2>1. /\ worker'[w].pc = "scanning" /\ worker[w].pc = "registered"
        /\ worker'[w].lib = worker[w].lib /\ worker'[w].handle = worker[w].handle
        /\ \A v \in Workers \ {w} : worker'[v] = worker[v]
    BY <1>6 DEF LoadLibrary, TypeOK, WorkerType
  <2>2. \A v \in Workers :
          /\ worker'[v].lib = worker[v].lib /\ worker'[v].handle = worker[v].handle
          /\ worker'[v].pc \in Registered <=> worker[v].pc \in Registered
          /\ worker'[v].pc \in {"idle", "claimed", "finished"}
                <=> worker[v].pc \in {"idle", "claimed", "finished"}
          /\ worker'[v].pc = "idle" <=> worker[v].pc = "idle"
          /\ worker'[v].pc = "flagged" <=> worker[v].pc = "flagged"
    BY <2>1 DEF Registered
  <2>3. active' = active /\ handle' = handle
    BY <1>6 DEF LoadLibrary
  <2>. QED BY <2>2, <2>3 DEF Registrations
<1>7. ASSUME NEW w \in Workers, CommitMetadata(w)
      PROVE  Registrations'
  BY <1>7 DEF CommitMetadata, Registered, Registrations, TypeOK, HandleType,
     WorkerType, RequestType
<1>8. ASSUME NEW w \in Workers, EndScan(w)
      PROVE  Registrations'
  BY <1>8 DEF EndScan, Returned, Registered, Registrations, TypeOK, HandleType,
     WorkerType, RequestType
<1>9. ASSUME NEW w \in Workers, FinishRemove(w)
      PROVE  Registrations'
  BY <1>9 DEF FinishRemove, Registered, Registrations, TypeOK, HandleType, WorkerType,
     RequestType
<1>10. ASSUME NEW w \in Workers, FinishFlag(w)
      PROVE  Registrations'
  BY <1>10 DEF FinishFlag, Registered, Registrations, TypeOK, HandleType, WorkerType,
     RequestType
<1>11. ASSUME NEW w \in Workers, FinishNotify(w)
      PROVE  Registrations'
  BY <1>11 DEF FinishNotify, Registered, Registrations, TypeOK,
     HandleType, WorkerType, RequestType
<1>12. ASSUME NEW r \in Requests, NEW l \in Libraries, begin_delete(r, l)
      PROVE  Registrations'
  BY <1>12 DEF begin_delete, Registered, Registrations, TypeOK, HandleType,
     WorkerType, RequestType
<1>13. ASSUME NEW r \in Requests, NEW l \in Libraries, BeginLanguageChange(r, l)
      PROVE  Registrations'
  BY <1>13 DEF BeginLanguageChange, Registered, Registrations, TypeOK, HandleType,
     WorkerType, RequestType
<1>14. ASSUME NEW r \in Requests, active_scan(r)
      PROVE  Registrations'
  <2>1. /\ active' = active /\ worker' = worker
        /\ \A h \in Handles : handle'[h].finished = handle[h].finished
    BY <1>14, LookupFinds
  <2>2. /\ \A l \in Libraries : active[l] # NoHandle => active[l] \in Handles
        /\ \A w \in Workers : worker[w].handle # NoHandle => worker[w].handle \in Handles
    BY DEF TypeOK, WorkerType
  <2>. QED BY <2>1, <2>2 DEF Registrations
<1>15. ASSUME NEW r \in Requests, LoadFinished(r)
      PROVE  Registrations'
  BY <1>15 DEF LoadFinished, Registered, Registrations, TypeOK, HandleType,
     WorkerType, RequestType
<1>16. ASSUME NEW r \in Requests, Subscribe(r)
      PROVE  Registrations'
  BY <1>16 DEF Subscribe, Registered, Registrations, TypeOK, HandleType, WorkerType,
     RequestType
<1>17. ASSUME NEW r \in Requests, Woken(r)
      PROVE  Registrations'
  BY <1>17 DEF Woken, Registered, Registrations, TypeOK, HandleType, WorkerType,
     RequestType
<1>18. ASSUME NEW r \in Requests, Timeout(r)
      PROVE  Registrations'
  BY <1>18 DEF Timeout, Leave, Start, Registered, Registrations, TypeOK, HandleType,
     WorkerType, RequestType
<1>19. ASSUME NEW r \in Requests, delete_library(r)
      PROVE  Registrations'
  BY <1>19 DEF delete_library, Leave, Start, Registered, Registrations, TypeOK,
     HandleType, WorkerType, RequestType
<1>20. ASSUME NEW r \in Requests, update_library(r)
      PROVE  Registrations'
  BY <1>20 DEF update_library, EnqueuedScan, Leave, Start, LanguageMayChange, Registered,
     Registrations, TypeOK, HandleType, WorkerType, RequestType
<1>21. ASSUME NEW r \in Requests, UpdateRefused(r)
      PROVE  Registrations'
  BY <1>21 DEF UpdateRefused, Leave, Start, Registered, Registrations, TypeOK,
     HandleType, WorkerType, RequestType
<1>22. ASSUME NEW w \in Workers, retry_or_fail(w)
      PROVE  Registrations'
  BY <1>22 DEF retry_or_fail, Returned, IdleWorker, Registered, Registrations, TypeOK, HandleType,
     WorkerType, RequestType
<1>. QED BY <1>1, <1>2, <1>3, <1>4, <1>5, <1>6, <1>7, <1>8, <1>9, <1>10, <1>11, <1>12,
   <1>13, <1>14, <1>15, <1>16, <1>17, <1>18, <1>19, <1>20, <1>21, <1>22 DEF Next, Step,
   Scanning, Proceed

\* Every step keeps what a waiting request holds.
LEMMA WaitsKept ==
    ASSUME RegistryInv, Next
    PROVE  Waits'
<1> USE ActorsAssumption, LanguagesAssumption DEF RegistryInv
<1>1. ASSUME NEW l \in Libraries, enqueue_library_scan(l)
      PROVE  Waits'
  BY <1>1 DEF enqueue_library_scan, EnqueuedScan, Registered, Waits, Registrations, TypeOK,
     HandleType, WorkerType, RequestType, Requests
<1>2. ASSUME NEW l \in Libraries, LoseLease(l)
      PROVE  Waits'
  BY <1>2 DEF LoseLease, Registered, Waits, Registrations, TypeOK, HandleType,
     WorkerType, RequestType, Requests
<1>3. ASSUME NEW w \in Workers, NEW l \in Libraries, claim(w, l)
      PROVE  Waits'
  BY <1>3 DEF claim, IdleWorker, Registered, Waits, Registrations, TypeOK, HandleType,
     WorkerType, RequestType, Requests
<1>4. ASSUME NEW w \in Workers, NEW h \in Handles, register_scan(w, h)
      PROVE  Waits'
  BY <1>4 DEF register_scan, MayRegister, Unheld, NewHandle, Registered, Waits,
     Registrations, TypeOK, HandleType, WorkerType, RequestType, Requests
<1>5. ASSUME NEW w \in Workers, RegisterRefused(w)
      PROVE  Waits'
  BY <1>5 DEF RegisterRefused, Registered, Waits, Registrations,
     TypeOK, HandleType, WorkerType, RequestType, Requests
<1>6. ASSUME NEW w \in Workers, LoadLibrary(w)
      PROVE  Waits'
  BY <1>6 DEF LoadLibrary, Registered, Waits, Registrations, TypeOK, HandleType,
     WorkerType, RequestType, Requests
<1>7. ASSUME NEW w \in Workers, CommitMetadata(w)
      PROVE  Waits'
  BY <1>7 DEF CommitMetadata, Registered, Waits, Registrations, TypeOK, HandleType,
     WorkerType, RequestType, Requests
<1>8. ASSUME NEW w \in Workers, EndScan(w)
      PROVE  Waits'
  BY <1>8 DEF EndScan, Returned, Registered, Waits, Registrations, TypeOK, HandleType,
     WorkerType, RequestType, Requests
<1>9. ASSUME NEW w \in Workers, FinishRemove(w)
      PROVE  Waits'
  BY <1>9 DEF FinishRemove, Registered, Waits, Registrations, TypeOK, HandleType,
     WorkerType, RequestType, Requests
<1>10. ASSUME NEW w \in Workers, FinishFlag(w)
      PROVE  Waits'
  BY <1>10 DEF FinishFlag, Registered, Waits, Registrations, TypeOK, HandleType,
     WorkerType, RequestType, Requests
<1>11. ASSUME NEW w \in Workers, FinishNotify(w)
      PROVE  Waits'
  BY <1>11 DEF FinishNotify, Registered, Waits, Registrations, TypeOK,
     HandleType, WorkerType, RequestType, Requests
<1>12. ASSUME NEW r \in Requests, NEW l \in Libraries, begin_delete(r, l)
      PROVE  Waits'
  BY <1>12 DEF begin_delete, Registered, Waits, Registrations, TypeOK, HandleType,
     WorkerType, RequestType, Requests
<1>13. ASSUME NEW r \in Requests, NEW l \in Libraries, BeginLanguageChange(r, l)
      PROVE  Waits'
  BY <1>13 DEF BeginLanguageChange, Registered, Waits, Registrations, TypeOK,
     HandleType, WorkerType, RequestType, Requests
<1>14. ASSUME NEW r \in Requests, active_scan(r)
      PROVE  Waits'
  BY <1>14, LookupFinds DEF Waits
<1>15. ASSUME NEW r \in Requests, LoadFinished(r)
      PROVE  Waits'
  BY <1>15 DEF LoadFinished, Registered, Waits, Registrations, TypeOK, HandleType,
     WorkerType, RequestType, Requests
<1>16. ASSUME NEW r \in Requests, Subscribe(r)
      PROVE  Waits'
  BY <1>16 DEF Subscribe, Registered, Waits, Registrations, TypeOK, HandleType,
     WorkerType, RequestType, Requests
<1>17. ASSUME NEW r \in Requests, Woken(r)
      PROVE  Waits'
  BY <1>17 DEF Woken, Registered, Waits, Registrations, TypeOK, HandleType,
     WorkerType, RequestType, Requests
<1>18. ASSUME NEW r \in Requests, Timeout(r)
      PROVE  Waits'
  BY <1>18 DEF Timeout, Leave, Start, Registered, Waits, Registrations, TypeOK,
     HandleType, WorkerType, RequestType, Requests
<1>19. ASSUME NEW r \in Requests, delete_library(r)
      PROVE  Waits'
  BY <1>19 DEF delete_library, Leave, Start, Registered, Waits, Registrations, TypeOK,
     HandleType, WorkerType, RequestType, Requests
<1>20. ASSUME NEW r \in Requests, update_library(r)
      PROVE  Waits'
  BY <1>20 DEF update_library, EnqueuedScan, Leave, Start, LanguageMayChange, Registered, Waits,
     Registrations, TypeOK, HandleType, WorkerType, RequestType, Requests
<1>21. ASSUME NEW r \in Requests, UpdateRefused(r)
      PROVE  Waits'
  BY <1>21 DEF UpdateRefused, Leave, Start, Registered, Waits, Registrations, TypeOK,
     HandleType, WorkerType, RequestType, Requests
<1>22. ASSUME NEW w \in Workers, retry_or_fail(w)
      PROVE  Waits'
  BY <1>22 DEF retry_or_fail, Returned, IdleWorker, Registered, Waits, Registrations, TypeOK,
     HandleType, WorkerType, RequestType, Requests
<1>. QED BY <1>1, <1>2, <1>3, <1>4, <1>5, <1>6, <1>7, <1>8, <1>9, <1>10, <1>11, <1>12,
   <1>13, <1>14, <1>15, <1>16, <1>17, <1>18, <1>19, <1>20, <1>21, <1>22 DEF Next, Step,
   Scanning, Proceed

\* Every step keeps what a deletion relies on.
LEMMA DeletionsKept ==
    ASSUME RegistryInv, Next
    PROVE  Deletions'
<1> USE ActorsAssumption, LanguagesAssumption DEF RegistryInv
<1>1. ASSUME NEW l \in Libraries, enqueue_library_scan(l)
      PROVE  Deletions'
  BY <1>1 DEF enqueue_library_scan, EnqueuedScan, Registered, Deletions, Waits, Registrations,
     TypeOK, HandleType, WorkerType, RequestType, Requests
<1>2. ASSUME NEW l \in Libraries, LoseLease(l)
      PROVE  Deletions'
  BY <1>2 DEF LoseLease, Registered, Deletions, Waits, Registrations, TypeOK,
     HandleType, WorkerType, RequestType, Requests
<1>3. ASSUME NEW w \in Workers, NEW l \in Libraries, claim(w, l)
      PROVE  Deletions'
  BY <1>3 DEF claim, IdleWorker, Registered, Deletions, Waits, Registrations, TypeOK,
     HandleType, WorkerType, RequestType, Requests
<1>4. ASSUME NEW w \in Workers, NEW h \in Handles, register_scan(w, h)
      PROVE  Deletions'
  BY <1>4 DEF register_scan, MayRegister, Unheld, NewHandle, Registered, Deletions,
     Waits, Registrations, TypeOK, HandleType, WorkerType, RequestType, Requests
<1>5. ASSUME NEW w \in Workers, RegisterRefused(w)
      PROVE  Deletions'
  BY <1>5 DEF RegisterRefused, Registered, Deletions, Waits,
     Registrations, TypeOK, HandleType, WorkerType, RequestType, Requests
<1>6. ASSUME NEW w \in Workers, LoadLibrary(w)
      PROVE  Deletions'
  BY <1>6 DEF LoadLibrary, Registered, Deletions, Waits, Registrations, TypeOK,
     HandleType, WorkerType, RequestType, Requests
<1>7. ASSUME NEW w \in Workers, CommitMetadata(w)
      PROVE  Deletions'
  BY <1>7 DEF CommitMetadata, Registered, Deletions, Waits, Registrations, TypeOK,
     HandleType, WorkerType, RequestType, Requests
<1>8. ASSUME NEW w \in Workers, EndScan(w)
      PROVE  Deletions'
  BY <1>8 DEF EndScan, Returned, Registered, Deletions, Waits, Registrations, TypeOK,
     HandleType, WorkerType, RequestType, Requests
<1>9. ASSUME NEW w \in Workers, FinishRemove(w)
      PROVE  Deletions'
  BY <1>9 DEF FinishRemove, Registered, Deletions, Waits, Registrations, TypeOK,
     HandleType, WorkerType, RequestType, Requests
<1>10. ASSUME NEW w \in Workers, FinishFlag(w)
      PROVE  Deletions'
  BY <1>10 DEF FinishFlag, Registered, Deletions, Waits, Registrations, TypeOK,
     HandleType, WorkerType, RequestType, Requests
<1>11. ASSUME NEW w \in Workers, FinishNotify(w)
      PROVE  Deletions'
  BY <1>11 DEF FinishNotify, Registered, Deletions, Waits, Registrations,
     TypeOK, HandleType, WorkerType, RequestType, Requests
<1>12. ASSUME NEW r \in Requests, NEW l \in Libraries, begin_delete(r, l)
      PROVE  Deletions'
  BY <1>12 DEF begin_delete, Registered, Deletions, Waits, Registrations, TypeOK,
     HandleType, WorkerType, RequestType, Requests
<1>13. ASSUME NEW r \in Requests, NEW l \in Libraries, BeginLanguageChange(r, l)
      PROVE  Deletions'
  BY <1>13 DEF BeginLanguageChange, Registered, Deletions, Waits, Registrations,
     TypeOK, HandleType, WorkerType, RequestType, Requests
<1>14. ASSUME NEW r \in Requests, active_scan(r)
      PROVE  Deletions'
  <2>1. active' = active /\ deleting' = deleting
    BY <1>14, LookupFinds
  <2>2. \A q \in Requests : /\ request'[q].pc # "start" <=> request[q].pc # "start"
                            /\ request'[q].lib = request[q].lib
    BY <1>14, LookupFinds
  <2>3. \A q \in Requests \ {r} : request'[q] = request[q]
    BY <1>14, LookupFinds
  <2>4. /\ request'[r].pc # "lookup" =>
              active[request[r].lib] \in {NoHandle, request'[r].handle}
        /\ request'[r].pc = "commit" => active[request[r].lib] = NoHandle
    BY <1>14, LookupFinds
  <2>. QED BY <2>1, <2>2, <2>3, <2>4 DEF Deletions, Requests
<1>15. ASSUME NEW r \in Requests, LoadFinished(r)
      PROVE  Deletions'
  BY <1>15 DEF LoadFinished, Registered, Deletions, Waits, Registrations, TypeOK,
     HandleType, WorkerType, RequestType, Requests
<1>16. ASSUME NEW r \in Requests, Subscribe(r)
      PROVE  Deletions'
  BY <1>16 DEF Subscribe, Registered, Deletions, Waits, Registrations, TypeOK,
     HandleType, WorkerType, RequestType, Requests
<1>17. ASSUME NEW r \in Requests, Woken(r)
      PROVE  Deletions'
  BY <1>17 DEF Woken, Registered, Deletions, Waits, Registrations, TypeOK, HandleType,
     WorkerType, RequestType, Requests
<1>18. ASSUME NEW r \in Requests, Timeout(r)
      PROVE  Deletions'
  BY <1>18 DEF Timeout, Leave, Start, Registered, Deletions, Waits, Registrations,
     TypeOK, HandleType, WorkerType, RequestType, Requests
<1>19. ASSUME NEW r \in Requests, delete_library(r)
      PROVE  Deletions'
  BY <1>19 DEF delete_library, Leave, Start, Registered, Deletions, Waits,
     Registrations, TypeOK, HandleType, WorkerType, RequestType, Requests
<1>20. ASSUME NEW r \in Requests, update_library(r)
      PROVE  Deletions'
  BY <1>20 DEF update_library, EnqueuedScan, Leave, Start, LanguageMayChange, Registered, Deletions,
     Waits, Registrations, TypeOK, HandleType, WorkerType, RequestType, Requests
<1>21. ASSUME NEW r \in Requests, UpdateRefused(r)
      PROVE  Deletions'
  BY <1>21 DEF UpdateRefused, Leave, Start, Registered, Deletions, Waits,
     Registrations, TypeOK, HandleType, WorkerType, RequestType, Requests
<1>22. ASSUME NEW w \in Workers, retry_or_fail(w)
      PROVE  Deletions'
  BY <1>22 DEF retry_or_fail, Returned, IdleWorker, Registered, Deletions, Waits, Registrations,
     TypeOK, HandleType, WorkerType, RequestType, Requests
<1>. QED BY <1>1, <1>2, <1>3, <1>4, <1>5, <1>6, <1>7, <1>8, <1>9, <1>10, <1>11, <1>12,
   <1>13, <1>14, <1>15, <1>16, <1>17, <1>18, <1>19, <1>20, <1>21, <1>22 DEF Next, Step,
   Scanning, Proceed

\* Every step keeps the loaded language current under the fence.
LEMMA LoadedLanguageKept ==
    ASSUME RegistryInv, Next
    PROVE  LoadedLanguage'
<1> USE ActorsAssumption, LanguagesAssumption DEF RegistryInv
<1>1. ASSUME NEW l \in Libraries, enqueue_library_scan(l)
      PROVE  LoadedLanguage'
  BY <1>1 DEF enqueue_library_scan, EnqueuedScan, LoadedLanguage, TypeOK,
     Owns, WorkerType, JobType
<1>2. ASSUME NEW l \in Libraries, LoseLease(l)
      PROVE  LoadedLanguage'
  BY <1>2 DEF LoseLease, LoadedLanguage, TypeOK,
     Owns, WorkerType, JobType
<1>3. ASSUME NEW w \in Workers, NEW l \in Libraries, claim(w, l)
      PROVE  LoadedLanguage'
  BY <1>3 DEF claim, IdleWorker, LoadedLanguage, TypeOK,
     Owns, WorkerType, JobType
<1>4. ASSUME NEW w \in Workers, NEW h \in Handles, register_scan(w, h)
      PROVE  LoadedLanguage'
  BY <1>4 DEF register_scan, MayRegister, Unheld, NewHandle, LoadedLanguage, TypeOK,
     Owns, WorkerType, JobType
<1>5. ASSUME NEW w \in Workers, RegisterRefused(w)
      PROVE  LoadedLanguage'
  BY <1>5 DEF RegisterRefused, LoadedLanguage, TypeOK,
     Owns, WorkerType, JobType
<1>6. ASSUME NEW w \in Workers, LoadLibrary(w)
      PROVE  LoadedLanguage'
  BY <1>6 DEF LoadLibrary, LoadedLanguage, TypeOK,
     Owns, WorkerType, JobType
<1>7. ASSUME NEW w \in Workers, CommitMetadata(w)
      PROVE  LoadedLanguage'
  BY <1>7 DEF CommitMetadata, LoadedLanguage, TypeOK,
     Owns, WorkerType, JobType
<1>8. ASSUME NEW w \in Workers, EndScan(w)
      PROVE  LoadedLanguage'
  <2>1. \A v \in Workers : worker'[v].pc = "scanning" => worker'[v] = worker[v] /\ v # w
    BY <1>8 DEF EndScan, TypeOK, WorkerType
  <2>2. \A v \in Workers \ {w} : scanJob'[worker[v].lib] = [status |-> "running", owner |-> v]
            => scanJob[worker[v].lib] = [status |-> "running", owner |-> v]
    <3>1. CASE scanJob' = scanJob
      BY <3>1
    <3>2. CASE /\ Owns(w)
               /\ scanJob' = [scanJob EXCEPT ![worker[w].lib] = [status |-> "none", owner |-> NoWorker]]
      BY <3>2 DEF TypeOK, JobType, WorkerType
    <3>. QED BY <1>8, <3>1, <3>2 DEF EndScan, Returned
  <2>3. language' = language
    BY <1>8 DEF EndScan
  <2>. QED BY <2>1, <2>2, <2>3 DEF LoadedLanguage, Owns
<1>9. ASSUME NEW w \in Workers, FinishRemove(w)
      PROVE  LoadedLanguage'
  BY <1>9 DEF FinishRemove, LoadedLanguage, TypeOK, Owns, WorkerType, JobType
<1>10. ASSUME NEW w \in Workers, FinishFlag(w)
      PROVE  LoadedLanguage'
  BY <1>10 DEF FinishFlag, LoadedLanguage, TypeOK,
     Owns, WorkerType, JobType
<1>11. ASSUME NEW w \in Workers, FinishNotify(w)
      PROVE  LoadedLanguage'
  BY <1>11 DEF FinishNotify, LoadedLanguage, TypeOK,
     Owns, WorkerType, JobType
<1>12. ASSUME NEW r \in Requests, NEW l \in Libraries, begin_delete(r, l)
      PROVE  LoadedLanguage'
  BY <1>12 DEF begin_delete, LoadedLanguage, TypeOK,
     Owns, WorkerType, JobType
<1>13. ASSUME NEW r \in Requests, NEW l \in Libraries, BeginLanguageChange(r, l)
      PROVE  LoadedLanguage'
  BY <1>13 DEF BeginLanguageChange, LoadedLanguage, TypeOK,
     Owns, WorkerType, JobType
<1>14. ASSUME NEW r \in Requests, active_scan(r)
      PROVE  LoadedLanguage'
  BY <1>14 DEF active_scan, Stopped, LoadedLanguage, TypeOK,
     Owns, WorkerType, JobType
<1>15. ASSUME NEW r \in Requests, LoadFinished(r)
      PROVE  LoadedLanguage'
  BY <1>15 DEF LoadFinished, LoadedLanguage, TypeOK,
     Owns, WorkerType, JobType
<1>16. ASSUME NEW r \in Requests, Subscribe(r)
      PROVE  LoadedLanguage'
  BY <1>16 DEF Subscribe, LoadedLanguage, TypeOK,
     Owns, WorkerType, JobType
<1>17. ASSUME NEW r \in Requests, Woken(r)
      PROVE  LoadedLanguage'
  BY <1>17 DEF Woken, LoadedLanguage, TypeOK,
     Owns, WorkerType, JobType
<1>18. ASSUME NEW r \in Requests, Timeout(r)
      PROVE  LoadedLanguage'
  BY <1>18 DEF Timeout, Leave, Start, LoadedLanguage, TypeOK,
     Owns, WorkerType, JobType
<1>19. ASSUME NEW r \in Requests, delete_library(r)
      PROVE  LoadedLanguage'
  BY <1>19 DEF delete_library, Leave, Start, LoadedLanguage, TypeOK,
     Owns, WorkerType, JobType
<1>20. ASSUME NEW r \in Requests, update_library(r)
      PROVE  LoadedLanguage'
  BY <1>20 DEF update_library, EnqueuedScan, Leave, Start, LanguageMayChange, LoadedLanguage, TypeOK,
     Owns, WorkerType, JobType
<1>21. ASSUME NEW r \in Requests, UpdateRefused(r)
      PROVE  LoadedLanguage'
  BY <1>21 DEF UpdateRefused, Leave, Start, LoadedLanguage, TypeOK,
     Owns, WorkerType, JobType
<1>22. ASSUME NEW w \in Workers, retry_or_fail(w)
      PROVE  LoadedLanguage'
  BY <1>22 DEF retry_or_fail, Returned, IdleWorker, LoadedLanguage, TypeOK,
     Owns, WorkerType, JobType
<1>. QED BY <1>1, <1>2, <1>3, <1>4, <1>5, <1>6, <1>7, <1>8, <1>9, <1>10, <1>11, <1>12,
   <1>13, <1>14, <1>15, <1>16, <1>17, <1>18, <1>19, <1>20, <1>21, <1>22 DEF Next, Step,
   Scanning, Proceed

\* The registry invariant holds in every reachable state.
THEOREM RegistryInvariant == Spec => []RegistryInv
<1>1. Init => RegistryInv
  <2> SUFFICES ASSUME Init PROVE RegistryInv
    OBVIOUS
  <2>1. TypeOK
    BY WorkerUpdate, RequestUpdate, HandleUpdate, JobUpdate, LanguagesAssumption
       DEF Init, TypeOK, NoScan
  <2>2. Registrations /\ LoadedLanguage
    BY ActorsAssumption DEF Init, Registrations, LoadedLanguage, IdleWorker, Registered
  <2>3. Waits /\ Deletions
    BY DEF Init, Waits, Deletions, Start, Requests
  <2>. QED BY <2>1, <2>2, <2>3 DEF RegistryInv
<1>2. RegistryInv /\ UNCHANGED vars => RegistryInv'
  BY DEF vars, RegistryInv, TypeOK, Registrations, Waits, Deletions, LoadedLanguage,
     Owns
<1>3. RegistryInv /\ [Next]_vars => RegistryInv'
  BY <1>2, TypeOKKept, RegistrationsKept, WaitsKept, DeletionsKept, LoadedLanguageKept
     DEF RegistryInv
<1>. QED BY <1>1, <1>3, PTL DEF Spec

\* No library is deleted under a scan executing in the process.
THEOREM DeletionWaitsForScan == Spec => []NoDeleteUnderScan
<1>1. RegistryInv => NoDeleteUnderScan
  BY ActorsAssumption DEF RegistryInv, TypeOK, Registrations, Waits, Deletions,
     NoDeleteUnderScan, ScanRuntime, Registered, WorkerType, Requests
<1>. QED BY <1>1, RegistryInvariant, PTL

\* A process executes at most one scan of a library.
THEOREM ScanRuntimesAreExclusive == Spec => []OneScanRuntime
<1>1. RegistryInv => OneScanRuntime
  BY ActorsAssumption DEF RegistryInv, TypeOK, Registrations, OneScanRuntime,
     ScanRuntime, Registered, WorkerType
<1>. QED BY <1>1, RegistryInvariant, PTL

\* No scan ever commits metadata in a language the library no longer has.
THEOREM CommitsAreCurrent == Spec => CommitsUseCurrentLanguage
<1>1. RegistryInv /\ [Next]_vars =>
        [\A l \in Libraries : catalog'[l] # catalog[l] => catalog'[l] = language[l]]_vars
  <2> SUFFICES ASSUME RegistryInv, Next, NEW l \in Libraries, catalog'[l] # catalog[l]
               PROVE  catalog'[l] = language[l]
    OBVIOUS
  <2>1. PICK w \in Workers : CommitMetadata(w)
    BY DEF Next, Step, Scanning, Proceed, enqueue_library_scan, LoseLease, claim,
       register_scan, RegisterRefused, LoadLibrary, EndScan, FinishRemove, FinishFlag,
       FinishNotify, begin_delete, BeginLanguageChange, active_scan, LoadFinished,
       Subscribe, Woken, Timeout, delete_library, update_library, UpdateRefused,
       retry_or_fail
  <2>. QED BY <2>1 DEF CommitMetadata, RegistryInv, TypeOK, Registrations,
              LoadedLanguage, WorkerType
<1>. QED BY <1>1, RegistryInvariant, PTL DEF Spec, CommitsUseCurrentLanguage
=============================================================================
