------------------------- MODULE CredentialCacheProofs -------------------------
(***************************************************************************)
(* Proofs that the credential cache refreshes a key once at a time and     *)
(* only when needed, and that waiters are watched, for any set of calls    *)
(* and keys, any lifetimes and any refresh window.                         *)
(***************************************************************************)
EXTENDS CredentialCache, TLAPS

(* Where the awaits of the two runtimes differ, and who can be dropped.     *)
PlacesUsed ==
    \A c \in Calls : /\ pc[c] = "holding" => MultiThreaded
                     /\ pc[c] = "dropped" => c \in Droppable

Inv == TypeOK /\ PlacesUsed /\ SingleFlight /\ RefreshIsNeeded /\ WaitersWatched

(* Ageing keeps a credential a credential, never makes it fresh, and keeps  *)
(* None apart.                                                              *)
LEMMA AgeFacts ==
    ASSUME NEW x \in Credentials \cup {None}
    PROVE  /\ Age(x) \in Credentials \cup {None}
           /\ x # None => Age(x) # None
           /\ x = None => Age(x) = None
           /\ ~IsFresh(x) => ~IsFresh(Age(x))
BY CallsAssumption, SettingsAssumption DEF Age, Credentials, IsFresh

(* A still valid credential is the cached one.                              *)
LEMMA StillValidFacts ==
    ASSUME NEW x \in Credentials \cup {None}
    PROVE  /\ StillValid(x) \in Credentials \cup {None}
           /\ StillValid(x) # None => StillValid(x) = x
BY DEF StillValid

(* The cache starts empty and idle.                                         *)
LEMMA InvInit == Init => Inv
BY CallsAssumption DEF Init, Inv, TypeOK, Places, PlacesUsed, SingleFlight, RefreshIsNeeded,
       WaitersWatched, Refreshing

(* Every step keeps the types.                                              *)
LEMMA TypeStep == TypeOK /\ [Next]_vars => TypeOK'
<1> SUFFICES ASSUME TypeOK, [Next]_vars PROVE TypeOK'
    OBVIOUS
<1> USE CallsAssumption DEF TypeOK, Places, Goto
<1>1. ASSUME NEW c \in Calls, Call(c) \/ Step(c) \/ Drop(c) PROVE TypeOK'
    <2>0. KeyOf[c] \in Keys
        BY DEF Keys
    <2>1. CASE Call(c) \/ Register(c) \/ Drop(c)
        BY <2>1 DEF Call, Register, Drop
    <2>2. CASE ReturnCached(c)
        BY <2>0, <2>2 DEF ReturnCached
    <2>3. CASE JoinRefresh(c)
        BY <2>0, <2>3 DEF JoinRefresh
    <2>4. CASE StartRefresh(c)
        BY <2>0, <2>4, StillValidFacts DEF StartRefresh
    <2>5. CASE FetchEnds(c)
        BY <2>5 DEF FetchEnds
    <2>6. CASE Store(c)
        BY <2>0, <2>6 DEF Store, Outcome
    <2>7. CASE Notify(c)
        BY <2>7 DEF Notify
    <2>8. QED
        BY <1>1, <2>1, <2>2, <2>3, <2>4, <2>5, <2>6, <2>7 DEF Step
<1>2. CASE Tick
    BY <1>2, AgeFacts DEF Tick
<1>3. CASE UNCHANGED vars
    BY <1>3 DEF vars
<1>4. QED
    BY <1>1, <1>2, <1>3 DEF Next

(* Every step of a call keeps the rest of the invariant.                    *)
LEMMA CallStep ==
    ASSUME Inv, TypeOK', NEW c \in Calls, Call(c) \/ Step(c) \/ Drop(c)
    PROVE  PlacesUsed' /\ SingleFlight' /\ RefreshIsNeeded' /\ WaitersWatched'
<1>0. KeyOf[c] \in Keys /\ \A d \in Calls : KeyOf[d] \in Keys
    BY DEF Keys
<1> USE <1>0, CallsAssumption
    DEF Inv, TypeOK, PlacesUsed, SingleFlight, RefreshIsNeeded, WaitersWatched, Refreshing, Goto
<1>1. CASE Call(c)
    BY <1>1 DEF Call
<1>2. CASE ReturnCached(c)
    BY <1>2 DEF ReturnCached
<1>3. CASE JoinRefresh(c)
    BY <1>3 DEF JoinRefresh
<1>4. CASE StartRefresh(c)
    BY <1>4, StillValidFacts DEF StartRefresh
<1>5. CASE Register(c)
    BY <1>5 DEF Register
<1>6. CASE FetchEnds(c)
    BY <1>6 DEF FetchEnds
<1>7. CASE Store(c)
    BY <1>7 DEF Store
<1>8. CASE Notify(c)
    BY <1>8 DEF Notify
<1>9. CASE Drop(c)
    BY <1>9 DEF Drop
<1>10. QED
    BY <1>1, <1>2, <1>3, <1>4, <1>5, <1>6, <1>7, <1>8, <1>9 DEF Step

(* Every step preserves the invariant.                                      *)
LEMMA InvStep == Inv /\ [Next]_vars => Inv'
<1> SUFFICES ASSUME Inv, [Next]_vars PROVE Inv'
    OBVIOUS
<1>1. TypeOK'
    BY TypeStep DEF Inv
<1>2. ASSUME NEW c \in Calls, Call(c) \/ Step(c) \/ Drop(c) PROVE Inv'
    BY <1>1, <1>2, CallStep DEF Inv
<1>3. CASE Tick
    <2>0. \A d \in Calls : KeyOf[d] \in Keys
        BY DEF Keys
    <2>1. PlacesUsed' /\ SingleFlight' /\ WaitersWatched'
        BY <1>3 DEF Tick, Inv, PlacesUsed, SingleFlight, WaitersWatched, Refreshing
    <2>2. RefreshIsNeeded'
        BY <1>3, <2>0, AgeFacts DEF Tick, Inv, TypeOK, RefreshIsNeeded, Refreshing
    <2>3. QED
        BY <1>1, <2>1, <2>2 DEF Inv
<1>4. CASE UNCHANGED vars
    BY <1>1, <1>4 DEF vars, Inv, PlacesUsed, SingleFlight, RefreshIsNeeded, WaitersWatched, Refreshing
<1>5. QED
    BY <1>2, <1>3, <1>4 DEF Next

(* The invariant holds in every state of every cache.                       *)
THEOREM CacheInvariant == Spec => []Inv
BY InvInit, InvStep, PTL DEF Spec

(* The state of the cache and of its calls keeps its types.                 *)
THEOREM CacheTypeCorrect == Spec => []TypeOK
<1>1. Inv => TypeOK
    BY DEF Inv
<1>2. QED
    BY <1>1, CacheInvariant, PTL

(* One refresh per key at a time, whoever is dropped.                       *)
THEOREM OneRefreshPerKey == Spec => []SingleFlight
<1>1. Inv => SingleFlight
    BY DEF Inv
<1>2. QED
    BY <1>1, CacheInvariant, PTL

(* A refresh never runs beside a fresh credential for its key.              *)
THEOREM RefreshesAreNeeded == Spec => []RefreshIsNeeded
<1>1. Inv => RefreshIsNeeded
    BY DEF Inv
<1>2. QED
    BY <1>1, CacheInvariant, PTL

(* Without drops, a single-threaded runtime leaves no waiter behind.        *)
THEOREM NoWaiterLeftBehind == Spec => []WaitersWatched
<1>1. Inv => WaitersWatched
    BY DEF Inv
<1>2. QED
    BY <1>1, CacheInvariant, PTL

=============================================================================
