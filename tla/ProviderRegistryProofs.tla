----------------------- MODULE ProviderRegistryProofs -----------------------
(***************************************************************************)
(* The registry's guarantees for any callers, programs, definitions and    *)
(* nesting of resolvers.                                                   *)
(***************************************************************************)
EXTENDS ProviderRegistry, TLAPS

\* What the variables look like: functions on the callers.
Shape ==
    /\ pc \in [Callers -> Steps]
    /\ todo = [c \in Callers |-> todo[c]]
    /\ held = [c \in Callers |-> held[c]]
    /\ returned = [c \in Callers |-> returned[c]]
    /\ seen = [c \in Callers |-> seen[c]]

\* A guard is held exactly between the copy and its release.
GuardsAreScoped == readers = {c \in Callers : pc[c] = "cloned"}

\* A call is at a step of its own kind, and the map is among those it saw.
CallsAreOnTrack ==
    \A c \in Callers :
        /\ pc[c] = "write" => Call(c).fn \in WriteCalls
        /\ pc[c] = "read" => Call(c).fn \in ReadCalls
        /\ pc[c] \in {"select", "cloned", "resolver"} => Call(c).fn \in BuildCalls
        /\ pc[c] # "idle" => registrations \in seen[c]

\* A copy is what the selection answers on some map the build has seen.
CopiesWereRegistered ==
    \A c \in Callers : pc[c] \in {"cloned", "resolver"} =>
        \E map \in seen[c] : Selected(map, Call(c)) = Answer(Ok, held[c])

IInv == Shape /\ GuardsAreScoped /\ CallsAreOnTrack /\ CopiesWereRegistered /\ FiledUnderItsKey

\* A write files what it inserts under the definition's own key and leaves
\* the rest of the map as it was (register, replace, remove,
\* remove_product).
LEMMA WrittenKeepsKeys ==
    ASSUME NEW map, NEW call,
           \A key \in DOMAIN map : Identity(map[key]).key = key
    PROVE  \A key \in DOMAIN Written(map, call).map : Identity(Written(map, call).map[key]).key = key
<1>1. CASE call.fn \in {"register", "replace"}
  <2> DEFINE key == Identity(call.draft).key
  <2>1. Written(map, call).map \in {map, Insert(map, key, call.draft)}
    BY <1>1 DEF Written, WrittenAt
  <2>2. \A k \in DOMAIN Insert(map, key, call.draft) : Identity(Insert(map, key, call.draft)[k]).key = k
    BY DEF Insert
  <2> QED BY <2>1, <2>2
<1>2. CASE call.fn \notin {"register", "replace"}
  <2>1. Written(map, call).map = Drop(map, Removed(map, call))
    BY <1>2 DEF Written
  <2>2. \A k \in DOMAIN Drop(map, Removed(map, call)) :
            k \in DOMAIN map /\ Drop(map, Removed(map, call))[k] = map[k]
    BY DEF Drop
  <2> QED BY <2>1, <2>2
<1> QED BY <1>1, <1>2

\* A selection that succeeds answers a registration and nothing else
\* (build_deployment, build_product_deployment).
LEMMA SelectedIsAnAnswer ==
    ASSUME NEW map, NEW call, Selected(map, call).status = Ok
    PROVE  Selected(map, call) = Answer(Ok, Selected(map, call).value)
BY Zenon DEF Selected, Refused, Answer, Ok

\* The registry starts empty and every caller idle.
LEMMA InitIInv == RegistryInit => IInv
BY ProgramsAreComplete DEF RegistryInit, IInv, Shape, GuardsAreScoped, CallsAreOnTrack, CopiesWereRegistered,
       FiledUnderItsKey, Steps

\* Every step of every caller keeps the invariant.
LEMMA StepIInv ==
    ASSUME IInv, NEW c \in Callers, RegistryStep(c)
    PROVE  IInv'
<1> USE DEF IInv
<1>1. CASE Enter(c)
  <2>1. Shape'
    BY Zenon, <1>1 DEF Shape, Enter, Admit, Return, Goto, Steps
  <2>2. GuardsAreScoped'
    BY <1>1 DEF Shape, GuardsAreScoped, Enter, Admit, Return, Goto
  <2>3. CallsAreOnTrack'
    BY <1>1 DEF Shape, CallsAreOnTrack, Enter, Admit, Return, Goto, Call
  <2>4. CopiesWereRegistered'
    BY <1>1 DEF Shape, CopiesWereRegistered, Enter, Admit, Return, Goto, Call
  <2>5. FiledUnderItsKey'
    BY <1>1 DEF FiledUnderItsKey, Enter
  <2> QED BY <2>1, <2>2, <2>3, <2>4, <2>5
<1>2. CASE Write(c)
  <2> DEFINE written == Written(registrations, Call(c))
  <2>0. Commit(c, written)
    BY <1>2 DEF Write
  <2>1. Shape'
    BY Zenon, <1>2, <2>0 DEF Shape, Write, Commit, Return, Goto, Steps
  <2>2. GuardsAreScoped'
    BY <1>2, <2>0 DEF Shape, GuardsAreScoped, Write, Commit, Return, Goto
  <2>3. CallsAreOnTrack'
    BY <1>2, <2>0 DEF Shape, CallsAreOnTrack, Write, Commit, Return, Goto, Call
  <2>4. CopiesWereRegistered'
    BY <1>2, <2>0 DEF Shape, CopiesWereRegistered, Write, Commit, Return, Goto, Call
  <2>5. FiledUnderItsKey'
    BY <1>2, <2>0, WrittenKeepsKeys DEF FiledUnderItsKey, Commit
  <2> QED BY <2>1, <2>2, <2>3, <2>4, <2>5
<1>3. CASE Read(c)
  <2>1. Shape'
    BY Zenon, <1>3 DEF Shape, Read, Return, Goto, Steps
  <2>2. GuardsAreScoped'
    BY <1>3 DEF Shape, GuardsAreScoped, Read, Return, Goto
  <2>3. CallsAreOnTrack'
    BY <1>3 DEF Shape, CallsAreOnTrack, Read, Return, Goto, Call
  <2>4. CopiesWereRegistered'
    BY <1>3 DEF Shape, CopiesWereRegistered, Read, Return, Goto, Call
  <2>5. FiledUnderItsKey'
    BY <1>3 DEF FiledUnderItsKey, Read
  <2> QED BY <2>1, <2>2, <2>3, <2>4, <2>5
<1>4. CASE Select(c)
  <2> DEFINE selected == Selected(registrations, Call(c))
  <2>1. Shape'
    BY <1>4 DEF Shape, Select, Return, Goto, Steps
  <2>2. GuardsAreScoped'
    BY <1>4 DEF Shape, GuardsAreScoped, Select, Return, Goto
  <2>3. CallsAreOnTrack'
    BY <1>4 DEF Shape, CallsAreOnTrack, Select, Return, Goto, Call
  <2>4. CopiesWereRegistered'
    <3>1. CASE selected.status = Ok
      <4>1. selected = Answer(Ok, selected.value) /\ registrations \in seen[c]
        BY <1>4, <3>1, SelectedIsAnAnswer DEF Select, CallsAreOnTrack
      <4> QED
        BY <1>4, <3>1, <4>1 DEF Shape, CopiesWereRegistered, Select, Goto, Call
    <3>2. CASE selected.status # Ok
      BY Zenon, <1>4, <3>2 DEF Shape, CopiesWereRegistered, Select, Return, Goto, Call
    <3> QED BY <3>1, <3>2
  <2>5. FiledUnderItsKey'
    BY <1>4 DEF FiledUnderItsKey, Select
  <2> QED BY <2>1, <2>2, <2>3, <2>4, <2>5
<1>5. CASE Release(c)
  <2>1. Shape'
    BY <1>5 DEF Shape, Release, Goto, Steps
  <2>2. GuardsAreScoped'
    BY <1>5 DEF Shape, GuardsAreScoped, Release, Goto
  <2>3. CallsAreOnTrack'
    BY <1>5 DEF Shape, CallsAreOnTrack, Release, Goto, Call
  <2>4. CopiesWereRegistered'
    BY <1>5 DEF Shape, CopiesWereRegistered, Release, Goto, Call
  <2>5. FiledUnderItsKey'
    BY <1>5 DEF FiledUnderItsKey, Release
  <2> QED BY <2>1, <2>2, <2>3, <2>4, <2>5
<1>6. CASE Compile(c)
  <2>1. Shape'
    BY Zenon, <1>6 DEF Shape, Compile, Return, Goto, Steps
  <2>2. GuardsAreScoped'
    BY <1>6 DEF Shape, GuardsAreScoped, Compile, Return, Goto
  <2>3. CallsAreOnTrack'
    BY <1>6 DEF Shape, CallsAreOnTrack, Compile, Return, Goto, Call
  <2>4. CopiesWereRegistered'
    BY <1>6 DEF Shape, CopiesWereRegistered, Compile, Return, Goto, Call
  <2>5. FiledUnderItsKey'
    BY <1>6 DEF FiledUnderItsKey, Compile
  <2> QED BY <2>1, <2>2, <2>3, <2>4, <2>5
<1> QED BY <1>1, <1>2, <1>3, <1>4, <1>5, <1>6 DEF RegistryStep

\* So does the whole next-state relation, and a stuttering step.
LEMMA NextIInv == IInv /\ [RegistryNext]_registryVars => IInv'
<1> SUFFICES ASSUME IInv, [RegistryNext]_registryVars PROVE IInv'
  OBVIOUS
<1>1. CASE RegistryNext
  BY <1>1, StepIInv DEF RegistryNext
<1>2. CASE UNCHANGED registryVars
  BY <1>2 DEF registryVars, IInv, Shape, GuardsAreScoped, CallsAreOnTrack, CopiesWereRegistered,
              FiledUnderItsKey, Call
<1> QED BY <1>1, <1>2

\* The inductive invariant holds in every reachable state of the registry.
THEOREM RegistryInvariant == RegistrySpec => []IInv
BY InitIInv, NextIInv, PTL DEF RegistrySpec

\* Every registration is filed under the key of its own definition, whatever
\* is registered, replaced and removed in whatever order.
THEOREM KeysTheorem == RegistrySpec => []FiledUnderItsKey
<1>1. IInv => FiledUnderItsKey
  BY DEF IInv
<1> QED BY <1>1, RegistryInvariant, PTL

\* The registry never runs a resolver, or anything a resolver calls, under
\* the lock of the build it runs for.
THEOREM GuardTheorem == RegistrySpec => []NoGuardInUserCode
<1>1. IInv => NoGuardInUserCode
  BY DEF IInv, GuardsAreScoped, NoGuardInUserCode, Running
<1> QED BY <1>1, RegistryInvariant, PTL

\* What a call that is running answers is its outcome on one map it saw.
LEMMA AnswerOfStep ==
    ASSUME IInv, NEW c \in Callers, RegistryStep(c), pc[c] # "idle",
           returned'[c] # returned[c]
    PROVE  \E map \in seen[c] : returned'[c] = Append(returned[c],
               [call |-> Call(c), answer |-> Outcome(map, Call(c))])
<1> USE DEF IInv
<1>0. pc[c] # "idle" => registrations \in seen[c]
  BY DEF CallsAreOnTrack
<1>1. CASE Write(c)
  <2>1. returned'[c] = Append(returned[c], [call |-> Call(c), answer |-> Written(registrations, Call(c)).answer])
    BY <1>1 DEF Shape, Write, Commit, Return
  <2>2. Outcome(registrations, Call(c)) = Written(registrations, Call(c)).answer
    <3>1. Call(c).fn \in WriteCalls
      BY <1>1 DEF Write, CallsAreOnTrack
    <3> QED BY <3>1 DEF Outcome, WriteCalls, ReadCalls
  <2> QED BY <1>0, <2>1, <2>2
<1>2. CASE Read(c)
  <2>1. returned'[c] = Append(returned[c], [call |-> Call(c), answer |-> Looked(registrations, Call(c))])
    BY <1>2 DEF Shape, Read, Return
  <2>2. Outcome(registrations, Call(c)) = Looked(registrations, Call(c))
    BY <1>2 DEF Read, CallsAreOnTrack, Outcome, WriteCalls, ReadCalls
  <2> QED BY <1>0, <2>1, <2>2
<1>3. CASE Select(c)
  <2>1. Selected(registrations, Call(c)).status # Ok
    BY <1>3 DEF Select
  <2>2. returned'[c] = Append(returned[c], [call |-> Call(c), answer |-> Selected(registrations, Call(c))])
    BY <1>3, <2>1 DEF Shape, Select, Return
  <2>3. Call(c).fn \in BuildCalls
    BY <1>3 DEF Select, CallsAreOnTrack
  <2>4. Outcome(registrations, Call(c)) = Selected(registrations, Call(c))
    BY <2>1, <2>3 DEF Outcome, BuildOutcome, WriteCalls, ReadCalls, BuildCalls
  <2> QED BY <1>0, <2>2, <2>4
<1>4. CASE Compile(c)
  <2>1. returned'[c] = Append(returned[c], [call |-> Call(c), answer |-> Built(The(held[c]), Call(c))])
    BY <1>4 DEF Shape, Compile, Return
  <2>2. PICK map \in seen[c] : Selected(map, Call(c)) = Answer(Ok, held[c])
    BY <1>4 DEF Compile, CopiesWereRegistered
  <2>3. Call(c).fn \in BuildCalls
    BY <1>4 DEF Compile, CallsAreOnTrack
  <2>4. BuildOutcome(map, Call(c)) = Built(The(held[c]), Call(c))
    BY <2>2 DEF BuildOutcome, Answer
  <2>5. Outcome(map, Call(c)) = Built(The(held[c]), Call(c))
    BY <2>3, <2>4 DEF Outcome, WriteCalls, ReadCalls, BuildCalls
  <2> QED BY <2>1, <2>2, <2>5
<1>5. ~Enter(c) /\ ~Release(c)
  BY DEF Enter, Release
<1> QED BY <1>1, <1>2, <1>3, <1>4, <1>5 DEF RegistryStep

\* Calls are atomic: a call answers what the whole call would answer on one
\* of the maps there were while it ran, and leaves a map in which every
\* registration is filed under its own key.
THEOREM AtomicityTheorem == RegistrySpec => AnswersAreAtomic
<1>1. IInv /\ IInv' /\ [RegistryNext]_registryVars
        => [FiledUnderItsKey' /\ \A c \in Callers : AnswersAtomically(c)]_registryVars
  <2> SUFFICES ASSUME IInv, RegistryNext, NEW d \in Callers,
                      returned'[d] # returned[d], pc[d] # "idle"
               PROVE  \E map \in seen[d] : returned'[d] = Append(returned[d],
                          [call |-> Call(d), answer |-> Outcome(map, Call(d))])
    BY DEF Steps, AnswersAtomically, IInv
  <2>1. PICK c \in Callers : RegistryStep(c)
    BY DEF RegistryNext
  <2>2. c = d
    BY <2>1 DEF IInv, Shape, RegistryStep, Enter, Admit, Write, Commit, Read, Select, Release,
                Compile, Return
  <2> QED BY <2>1, <2>2, AnswerOfStep
<1> QED BY <1>1, RegistryInvariant, PTL DEF RegistrySpec, AnswersAreAtomic
=============================================================================
