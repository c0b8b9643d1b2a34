-------------------------- MODULE ProviderRegistry --------------------------
(***************************************************************************)
(* The provider registry (provider/registry.rs): a map from provider and   *)
(* product to registrations behind a read-write lock, shared by every      *)
(* clone.  Callers run programs, sequences of calls.  A build copies the   *)
(* registered definition under the read lock, releases it, and only then   *)
(* resolves the credential: the resolver is the caller's own code and may  *)
(* call the registry again.  Such inner calls are the program of a caller  *)
(* of its own, hosted by the caller whose resolver makes them.             *)
(*                                                                         *)
(* A write section calls nothing outside the registry, so it is one step,  *)
(* and no panic can poison the lock.  What a definition compiles to is a   *)
(* parameter; ProviderClient gives it.                                     *)
(***************************************************************************)
EXTENDS Answers

CONSTANTS
    Callers,                    \* the threads that call the registry
    Hosted,                     \* the callers that run inside a resolver
    Host(_),                    \* the caller whose resolver runs a hosted one
    Programs,                   \* functions from callers to sequences of calls
    Identity(_),                \* a draft's validation answer, key and protocol
    Compiled(_, _, _)           \* the runtime of a draft, a deployment and a secret

\* Every program gives every caller its calls.
ASSUME ProgramsAreComplete == \A program \in Programs : program = [c \in Callers |-> program[c]]

VARIABLES
    registrations,      \* from <<provider, product>> keys to drafts
    readers,            \* the callers that hold a read guard
    todo,               \* per caller, the calls left; the first one is running
    pc,                 \* per caller, the step of the running call
    held,               \* per caller, the draft a build copied, if any
    returned,           \* per caller, the calls that returned and their results
    seen                \* history: the maps there were while the call runs

registryVars == <<registrations, readers, todo, pc, held, returned, seen>>

WriteCalls == {"register", "replace", "remove", "remove_product"}
ReadCalls == {"get", "get_product"}
BuildCalls == {"build_deployment", "build_product_deployment"}

Call(c) == Head(todo[c])

\* A hosted caller runs while its host is inside the resolver, and the
\* resolver returns when the calls it made have.
Running(c) == c \in Hosted => pc[Host(c)] = "resolver"
Finished(c) == todo[c] = <<>> /\ pc[c] = "idle"

RegistryInit ==
    /\ \E program \in Programs : todo = program
    /\ registrations = <<>>
    /\ readers = {}
    /\ pc = [c \in Callers |-> "idle"]
    /\ held = [c \in Callers |-> {}]
    /\ returned = [c \in Callers |-> <<>>]
    /\ seen = [c \in Callers |-> {}]

(***************************************************************************)
(* The sequential specification: the answer of a call and its effect on    *)
(* the map.  An answer is an Ok or an error, and what the call returns.    *)
(***************************************************************************)
Answer(status, value) == [status |-> status, value |-> value]
Refused(reason) == Answer(<<"registry", reason>>, {})

ProviderKeys(map, provider) == {key \in DOMAIN map : key[1] = provider}
Only(map, keys) == IF Cardinality(keys) = 1 THEN {map[The(keys)]} ELSE {}

Drop(map, keys) == [key \in DOMAIN map \ keys |-> map[key]]
Insert(map, key, draft) == [k \in DOMAIN map \cup {key} |-> IF k = key THEN draft ELSE map[k]]

\* The key that remove and remove_product take out: none when the provider
\* has several products.
Removed(map, call) ==
    LET keys == ProviderKeys(map, call.provider)
    IN  IF call.fn = "remove_product" THEN {<<call.provider, call.product>>} \cap DOMAIN map
        ELSE IF Cardinality(keys) = 1 THEN keys ELSE {}

WrittenAt(map, call, key) ==
    IF (call.fn = "register") = (key \in DOMAIN map)
    THEN [map |-> map, answer |-> Refused(IF call.fn = "register" THEN "DuplicateRegistration"
                                          ELSE "RegistrationNotFound")]
    ELSE [map |-> Insert(map, key, call.draft),
          answer |-> Answer(Ok, {IF call.fn = "register" THEN call.draft ELSE map[key]})]

Written(map, call) ==
    IF call.fn \in {"register", "replace"} THEN WrittenAt(map, call, Identity(call.draft).key)
    ELSE [map |-> Drop(map, Removed(map, call)),
          answer |-> Answer(Ok, {map[k] : k \in Removed(map, call)})]

Looked(map, call) ==
    Answer(Ok, IF call.fn = "get_product"
               THEN {map[k] : k \in {<<call.provider, call.product>>} \cap DOMAIN map}
               ELSE Only(map, ProviderKeys(map, call.provider)))

\* The registration a build selects, or why it selects none.
Selected(map, call) ==
    LET keys == IF call.fn = "build_product_deployment"
                THEN {<<call.provider, call.product>>} \cap DOMAIN map
                ELSE ProviderKeys(map, call.provider)
    IN  IF keys = {} THEN Refused("RegistrationNotFound")
        ELSE IF Cardinality(keys) > 1 THEN Refused("AmbiguousProductSelection")
        ELSE Answer(Ok, {map[The(keys)]})

\* The identity checks that follow the compilation; a product build compares
\* with the normalised provider of the key.
CheckedIdentity(compiled, expected) ==
    IF compiled.status # Ok THEN Answer(compiled.status, {})
    ELSE IF compiled.provider # expected THEN Refused("FactoryProviderMismatch")
    ELSE Answer(Ok, compiled.value)

Built(draft, call) ==
    CheckedIdentity(Compiled(draft, call.deployment, call.secret),
        IF call.fn = "build_product_deployment" THEN Identity(draft).key[1]
        ELSE Identity(draft).provider)

BuildOutcome(map, call) ==
    LET selected == Selected(map, call)
    IN  IF selected.status # Ok THEN selected ELSE Built(The(selected.value), call)

(***************************************************************************)
(* The steps of a call                                                     *)
(***************************************************************************)
Goto(c, step) == pc' = [pc EXCEPT ![c] = step]

Return(c, answer) ==
    /\ Goto(c, "idle")
    /\ todo' = [todo EXCEPT ![c] = Tail(@)]
    /\ returned' = [returned EXCEPT ![c] = Append(@, [call |-> Call(c), answer |-> answer])]

\* What is decided before the lock is taken: a definition must build and its
\* provider have a normal form, and a deployment name the selected provider.
Admission(call) ==
    IF call.fn \in {"register", "replace"} THEN Identity(call.draft).status
    ELSE IF call.fn \in BuildCalls /\ call.deployment.provider # call.provider
         THEN <<"registry", "FactoryProviderMismatch">>
    ELSE Ok

Admit(c, admission) ==
    IF admission # Ok THEN Return(c, Answer(admission, {}))
    ELSE /\ Goto(c, IF Call(c).fn \in WriteCalls THEN "write"
                    ELSE IF Call(c).fn \in ReadCalls THEN "read" ELSE "select")
         /\ UNCHANGED <<todo, returned>>

Enter(c) ==
    /\ pc[c] = "idle" /\ todo[c] # <<>> /\ Running(c)
    /\ Call(c).fn \in WriteCalls \cup ReadCalls \cup BuildCalls
    /\ seen' = [seen EXCEPT ![c] = {registrations}]
    /\ Admit(c, Admission(Call(c)))
    /\ UNCHANGED <<registrations, readers, held>>

\* register, replace, remove and remove_product, under the write lock.
Commit(c, written) ==
    /\ registrations' = written.map
    /\ Return(c, written.answer)
    /\ seen' = [d \in Callers |->
                   IF d # c /\ pc[d] # "idle" THEN seen[d] \cup {written.map} ELSE seen[d]]

Write(c) ==
    /\ pc[c] = "write" /\ readers = {}
    /\ Commit(c, Written(registrations, Call(c)))
    /\ UNCHANGED <<readers, held>>

\* get and get_product, under the read lock.
Read(c) ==
    /\ pc[c] = "read"
    /\ Return(c, Looked(registrations, Call(c)))
    /\ UNCHANGED <<registrations, readers, held, seen>>

\* The selection takes the read guard; an early return drops it.
Select(c) ==
    /\ pc[c] = "select"
    /\ LET selected == Selected(registrations, Call(c))
       IN  IF selected.status = Ok
           THEN /\ readers' = readers \cup {c}
                /\ held' = [held EXCEPT ![c] = selected.value]
                /\ Goto(c, "cloned")
                /\ UNCHANGED <<todo, returned>>
           ELSE Return(c, selected) /\ UNCHANGED <<readers, held>>
    /\ UNCHANGED <<registrations, seen>>

\* Mutant: the guard lives as long as the build.
KeepGuard(c) ==
    /\ pc[c] = "cloned"
    /\ Goto(c, "resolver")
    /\ UNCHANGED <<registrations, readers, todo, held, returned, seen>>

\* The end of the guard's scope; compilation starts with the resolver.
Release(c) ==
    /\ pc[c] = "cloned"
    /\ readers' = readers \ {c}
    /\ Goto(c, "resolver")
    /\ UNCHANGED <<registrations, todo, held, returned, seen>>

\* Mutant: the registration is looked up again by its key after the resolver.
CompileLatest(c) ==
    /\ pc[c] = "resolver"
    /\ \A d \in Hosted : Host(d) = c => Finished(d)
    /\ LET key == Identity(The(held[c])).key
       IN  Return(c, Built(IF key \in DOMAIN registrations THEN registrations[key] ELSE The(held[c]),
                           Call(c)))
    /\ held' = [held EXCEPT ![c] = {}]
    /\ UNCHANGED <<registrations, readers, seen>>

\* The resolver returned; the runtime is built from the copy.
Compile(c) ==
    /\ pc[c] = "resolver"
    /\ \A d \in Hosted : Host(d) = c => Finished(d)
    /\ Return(c, Built(The(held[c]), Call(c)))
    /\ held' = [held EXCEPT ![c] = {}]
    /\ UNCHANGED <<registrations, readers, seen>>

RegistryStep(c) ==
    Enter(c) \/ Write(c) \/ Read(c) \/ Select(c) \/ Release(c) \/ Compile(c)

RegistryNext == \E c \in Callers : RegistryStep(c)

RegistrySpec == RegistryInit /\ [][RegistryNext]_registryVars

(***************************************************************************)
(* Properties                                                              *)
(***************************************************************************)
Steps == {"idle", "write", "read", "select", "cloned", "resolver"}

Outcome(map, call) ==
    CASE call.fn \in WriteCalls -> Written(map, call).answer
      [] call.fn \in ReadCalls -> Looked(map, call)
      [] OTHER -> BuildOutcome(map, call)

\* Every registration is filed under the key its own definition normalises
\* to (registry.rs registration_key, replace): a product is never built from
\* the definition of another.
FiledUnderItsKey == \A key \in DOMAIN registrations : Identity(registrations[key]).key = key

\* No caller holds the lock while code of the caller's own runs: the read
\* guard of a build ends before the credential resolver starts
\* (registry.rs build_deployment), so a resolver may use the registry.
NoGuardInUserCode ==
    /\ \A c \in readers : pc[c] = "cloned"
    /\ \A c \in Hosted : ~Running(c) \/ Host(c) \notin readers

\* Calls are atomic: whatever other callers, and the resolver, register,
\* replace and remove meanwhile, a call answers what the whole call would
\* answer on one of the maps there were while it ran, and the map it leaves
\* files every registration under its own key.
AnswersAtomically(c) ==
    (returned'[c] # returned[c] /\ pc[c] \in Steps \ {"idle"}) =>
        \E map \in seen[c] : returned'[c] = Append(returned[c],
            [call |-> Call(c), answer |-> Outcome(map, Call(c))])

AnswersAreAtomic ==
    [][FiledUnderItsKey' /\ \A c \in Callers : AnswersAtomically(c)]_registryVars
=============================================================================
