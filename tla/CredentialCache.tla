---------------------------- MODULE CredentialCache ----------------------------
(***************************************************************************)
(* DynamicCredentialCache::get_or_refresh with the fetch closure of        *)
(* DynamicAuth::resolve_dynamic: a cache of short-lived credentials in     *)
(* which calls for one key share one refresh.                              *)
(*                                                                         *)
(* A member of Calls is one call of get_or_refresh.  What it runs while it *)
(* holds the mutex is one action.  The Notify a refreshing call puts into  *)
(* inflight is named by that call, which is the only one to signal it.     *)
(* A credential is the time it has left, 0 once expired.                   *)
(***************************************************************************)
EXTENDS Integers

CONSTANTS
    Calls,            \* the calls of get_or_refresh
    KeyOf,            \* the AuthCacheKey of each call
    MaxLifetime,      \* bound: the longest lifetime a source hands out
    RefreshWindow,    \* refresh_window
    AllowFallback,    \* allow_still_valid_fallback
    MultiThreaded,    \* other threads run between unlock and notified()
    Droppable,        \* the calls whose future may be dropped at an await
    None              \* no credential

Keys == {KeyOf[c] : c \in Calls}
Credentials == 0 .. MaxLifetime

ASSUME CallsAssumption ==
    /\ KeyOf \in [Calls -> Keys] /\ Droppable \subseteq Calls
    /\ None \notin Calls /\ None \notin Int
ASSUME SettingsAssumption ==
    /\ MaxLifetime \in Nat /\ RefreshWindow \in Nat
    /\ AllowFallback \in BOOLEAN /\ MultiThreaded \in BOOLEAN

VARIABLES
    credentials,      \* CacheState.credentials
    inflight,         \* CacheState.inflight: the call whose Notify is there
    pc,               \* where each call is
    held,             \* the Notify a waiting call has cloned
    fallback,         \* the credential cloned before the refresh
    result            \* what the fetch, then the call, came to; None: an error

vars == <<credentials, inflight, pc, held, fallback, result>>

(* lock and store wait for the mutex; a call that holds a Notify has not    *)
(* created its notified() future yet; notify is past the unlock.            *)
Places ==
    {"idle", "lock", "holding", "waiting", "fetching", "store", "notify", "done", "dropped"}

TypeOK ==
    /\ credentials \in [Keys -> Credentials \cup {None}]
    /\ inflight \in [Keys -> Calls \cup {None}]
    /\ pc \in [Calls -> Places]
    /\ held \in [Calls -> Calls \cup {None}]
    /\ fallback \in [Calls -> Credentials \cup {None}]
    /\ result \in [Calls -> Credentials \cup {None}]

Init ==
    /\ credentials = [k \in Keys |-> None]
    /\ inflight = [k \in Keys |-> None]
    /\ pc = [c \in Calls |-> "idle"]
    /\ held = [c \in Calls |-> None]
    /\ fallback = [c \in Calls |-> None]
    /\ result = [c \in Calls |-> None]

-----------------------------------------------------------------------------
IsFresh(credential) == credential # None /\ credential > RefreshWindow

StillValid(credential) == IF credential # None /\ credential > 0 THEN credential ELSE None

Goto(c, place) == pc' = [pc EXCEPT ![c] = place]

Call(c) ==
    /\ pc[c] = "idle"
    /\ Goto(c, "lock")
    /\ UNCHANGED <<credentials, inflight, held, fallback, result>>

(* The first locked section: a fresh credential is returned ...             *)
ReturnCached(c) ==
    /\ pc[c] = "lock"
    /\ IsFresh(credentials[KeyOf[c]])
    /\ result' = [result EXCEPT ![c] = credentials[KeyOf[c]]]
    /\ Goto(c, "done")
    /\ UNCHANGED <<credentials, inflight, held, fallback>>

(* ... a refresh in flight is waited for ...                                *)
JoinRefresh(c) ==
    /\ pc[c] = "lock"
    /\ ~IsFresh(credentials[KeyOf[c]])
    /\ inflight[KeyOf[c]] # None
    /\ held' = [held EXCEPT ![c] = inflight[KeyOf[c]]]
    /\ Goto(c, IF MultiThreaded THEN "holding" ELSE "waiting")
    /\ UNCHANGED <<credentials, inflight, fallback, result>>

(* Mutant: two calls may start a refresh.                                   *)
StartRefreshUnregistered(c) ==
    /\ pc[c] = "lock"
    /\ ~IsFresh(credentials[KeyOf[c]])
    /\ inflight[KeyOf[c]] = None
    /\ fallback' = [fallback EXCEPT ![c] = StillValid(credentials[KeyOf[c]])]
    /\ Goto(c, "fetching")
    /\ UNCHANGED <<credentials, inflight, held, result>>

(* ... and otherwise this call refreshes.                                   *)
StartRefresh(c) ==
    /\ pc[c] = "lock"
    /\ ~IsFresh(credentials[KeyOf[c]])
    /\ inflight[KeyOf[c]] = None
    /\ inflight' = [inflight EXCEPT ![KeyOf[c]] = c]
    /\ fallback' = [fallback EXCEPT ![c] = StillValid(credentials[KeyOf[c]])]
    /\ Goto(c, "fetching")
    /\ UNCHANGED <<credentials, held, result>>

(* notified() registers the call: a notify_waiters before this is missed.   *)
Register(c) ==
    /\ pc[c] = "holding"
    /\ Goto(c, "waiting")
    /\ UNCHANGED <<credentials, inflight, held, fallback, result>>

(* The source answers with a credential that has not expired, or the        *)
(* callback fails, times out, or sees the request's own lifecycle end.      *)
FetchEnds(c) ==
    /\ pc[c] = "fetching"
    /\ \E credential \in (Credentials \ {0}) \cup {None} :
        result' = [result EXCEPT ![c] = credential]
    /\ Goto(c, "store")
    /\ UNCHANGED <<credentials, inflight, held, fallback>>

(* What the call will return: the fallback is not looked at again.          *)
Outcome(c) == IF result[c] = None /\ AllowFallback THEN fallback[c] ELSE result[c]

(* The second locked section.                                               *)
Store(c) ==
    /\ pc[c] = "store"
    /\ credentials' = IF result[c] = None THEN credentials
                      ELSE [credentials EXCEPT ![KeyOf[c]] = result[c]]
    /\ inflight' = [inflight EXCEPT ![KeyOf[c]] = None]
    /\ result' = [result EXCEPT ![c] = Outcome(c)]
    /\ Goto(c, "notify")
    /\ UNCHANGED <<held, fallback>>

(* Mutant: notify_one, or a call that returns on error without notifying.   *)
NotifyNobody(c) ==
    /\ pc[c] = "notify"
    /\ Goto(c, "done")
    /\ UNCHANGED <<credentials, inflight, held, fallback, result>>

(* notify_waiters sends every registered waiter back to the lock.           *)
Notify(c) ==
    /\ pc[c] = "notify"
    /\ pc' = [d \in Calls |->
                IF d = c THEN "done"
                ELSE IF pc[d] = "waiting" /\ held[d] = c THEN "lock" ELSE pc[d]]
    /\ UNCHANGED <<credentials, inflight, held, fallback, result>>

(* The caller drops the request, or a select around the call (its token,    *)
(* its credential stage limit) does.  No handler runs.                      *)
Drop(c) ==
    /\ c \in Droppable
    /\ pc[c] \in {"lock", "waiting", "fetching", "store"}
    /\ Goto(c, "dropped")
    /\ UNCHANGED <<credentials, inflight, held, fallback, result>>

Age(credential) ==
    IF credential \in Int /\ credential > 0 THEN credential - 1 ELSE credential

Tick ==
    /\ \E k \in Keys : credentials[k] # Age(credentials[k])
    /\ credentials' = [k \in Keys |-> Age(credentials[k])]
    /\ fallback' = [c \in Calls |-> Age(fallback[c])]
    /\ result' = [c \in Calls |-> IF pc[c] \in {"done", "dropped"} THEN result[c]
                                  ELSE Age(result[c])]
    /\ UNCHANGED <<inflight, pc, held>>

-----------------------------------------------------------------------------
Step(c) ==
    \/ ReturnCached(c) \/ JoinRefresh(c) \/ StartRefresh(c) \/ Register(c)
    \/ FetchEnds(c) \/ Store(c) \/ Notify(c)

Next == (\E c \in Calls : Call(c) \/ Step(c) \/ Drop(c)) \/ Tick

Spec == Init /\ [][Next]_vars

(* The runtime polls every call, tokio's mutex is fair, and callback_timeout*)
(* ends every fetch.                                                        *)
FairSpec == Spec /\ \A c \in Calls : WF_vars(Step(c))

-----------------------------------------------------------------------------
Refreshing(c) == pc[c] \in {"fetching", "store"}

(* For one key one refresh is in flight: the call that refreshes is the one *)
(* whose Notify is in inflight, and an entry belongs to a call that still   *)
(* refreshes, or was dropped while it did.                                  *)
SingleFlight ==
    /\ \A c \in Calls : Refreshing(c) => inflight[KeyOf[c]] = c
    /\ \A k \in Keys : inflight[k] # None
        => KeyOf[inflight[k]] = k
           /\ (Refreshing(inflight[k]) \/ pc[inflight[k]] = "dropped")

(* No refresh duplicates a successful one: while a call refreshes, however  *)
(* long it takes, no fresh credential appears for its key, and the fallback *)
(* it cloned before the fetch is still the cached one.                      *)
RefreshIsNeeded ==
    \A c \in Calls : Refreshing(c)
        => /\ ~IsFresh(credentials[KeyOf[c]])
           /\ fallback[c] # None => fallback[c] = credentials[KeyOf[c]]

(* On a single-threaded runtime, and as long as no future is dropped, every *)
(* waiter waits for a call that is going to wake it.                        *)
WaitersWatched ==
    ~MultiThreaded /\ Droppable = {}
        => \A c \in Calls : pc[c] = "waiting"
            => held[c] \in Calls /\ pc[held[c]] \in {"fetching", "store", "notify"}

(* Every call of get_or_refresh comes to a result.                          *)
CallsAnswered ==
    \A c \in Calls : pc[c] = "lock" ~> pc[c] \in {"done", "dropped"}

=============================================================================
