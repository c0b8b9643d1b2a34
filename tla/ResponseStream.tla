--------------------------- MODULE ResponseStream ---------------------------
(***************************************************************************)
(* SseMachineStream (protocol/response_stream.rs): the driver that pulls   *)
(* SSE events, feeds them to a protocol machine and yields the machine's   *)
(* events one per poll.  The consumer polls until None, as a caller of     *)
(* Client::stream may; beside it, collector and outcome follow what        *)
(* Client::complete makes of the same items.                               *)
(*                                                                         *)
(* The machine is a parameter: MachineAccept(m, w) is the machine after    *)
(* accept(w), with the events of that call in m.out and its failure in     *)
(* m.error; MachineFinish(m) likewise for finish, which emits exactly one  *)
(* event when it succeeds; m.terminal is the structured terminal.  The SSE *)
(* decoder below is any source of the wire events of one feed that may     *)
(* end, fail or stay pending at any point (module SseDecoder models it).   *)
(***************************************************************************)
EXTENDS Integers, Sequences, Collector

CONSTANTS
  MachineAccept(_, _),
  MachineFinish(_),
  Feeds,                  \* by name: the machines a stream may start with, the SSE
                          \* events its source may yield and, as a bound, how many
  MaxEventsPerPoll        \* sse.max_events_per_poll

ASSUME StreamAssumption == (\A f \in DOMAIN Feeds : Feeds[f].max \in Nat) /\ MaxEventsPerPoll \in Nat \ {0}

VARIABLES
  machine,            \* the protocol machine
  pending,            \* SseMachineStream.pending
  terminal,           \* SseMachineStream.terminal
  polling,            \* inside the loop of one poll_next call
  events_processed,   \* local of that call
  wake,               \* the task: "due" (running, or woken), "registered" with
                      \* the upstream's waker, or "none" (nobody will wake it)
  source,             \* the SSE decoder: its feed, and "open", "ended" or "failed"
  wire,               \* history: events the source yielded
  delivered,          \* history: items poll_next returned
  exhausted,          \* poll_next returned None
  collector,          \* the Collector of complete()
  outcome             \* what complete() returns: "none" while it collects

vars == <<machine, pending, terminal, polling, events_processed, wake, source,
          wire, delivered, exhausted, collector, outcome>>

Init ==
  /\ source \in [state : {"open"}, feed : DOMAIN Feeds]
  /\ machine \in Feeds[source.feed].machines
  /\ pending = <<>>
  /\ terminal = FALSE
  /\ polling = FALSE
  /\ events_processed = 0
  /\ wake = "due"
  /\ wire = <<>>
  /\ delivered = <<>>
  /\ exhausted = FALSE
  /\ collector = NewCollector
  /\ outcome = "none"

(* poll_next returns Ready(Some(item)).  complete() hands an event to its  *)
(* collector and returns the first error of either; the consumer polls on. *)
Yield(item) ==
  /\ delivered' = Append(delivered, item)
  /\ polling' = FALSE
  /\ events_processed' = 0
  /\ collector' = IF outcome = "none" /\ item.ev # "Err"
                  THEN CollectorAccept(collector, item)
                  ELSE collector
  /\ outcome' = CASE outcome # "none" -> outcome
                  [] outcome = "none" /\ item.ev = "Err" -> item.error
                  [] outcome = "none" /\ item.ev # "Err" ->
                       IF collector'.error = NoError THEN "none" ELSE "rejected"
  /\ UNCHANGED exhausted

Ready == wake = "due" /\ ~polling /\ ~exhausted

(* Mutant: the queue is emptied from its newer end.                        *)
PopNewest ==
  /\ Ready
  /\ pending # <<>>
  /\ Yield(pending[Len(pending)])
  /\ pending' = SubSeq(pending, 1, Len(pending) - 1)
  /\ UNCHANGED <<machine, terminal, wake, source, wire>>

(* A poll with queued events returns the first one.                        *)
PopPending ==
  /\ Ready
  /\ pending # <<>>
  /\ Yield(Head(pending))
  /\ pending' = Tail(pending)
  /\ UNCHANGED <<machine, terminal, wake, source, wire>>

(* A poll after the end returns None: complete() finishes the message.     *)
PollTerminal ==
  /\ Ready
  /\ pending = <<>> /\ terminal
  /\ exhausted' = TRUE
  /\ LET error == CollectorFinish(collector, machine.terminal.format)
     IN  outcome' = CASE outcome # "none" -> outcome
                      [] outcome = "none" /\ error # NoError -> error
                      [] outcome = "none" /\ error = NoError -> "message"
  /\ UNCHANGED <<machine, pending, terminal, polling, events_processed, wake, source,
                 wire, delivered, collector>>

(* Any other poll enters the loop.                                         *)
EnterLoop ==
  /\ Ready
  /\ pending = <<>> /\ ~terminal
  /\ polling' = TRUE
  /\ events_processed' = 0
  /\ UNCHANGED <<machine, pending, terminal, wake, source, wire, delivered, exhausted, collector,
                 outcome>>

(* Mutant: the budget is used up and nobody is told to poll again.         *)
YieldBudgetUnwoken ==
  /\ polling
  /\ events_processed >= MaxEventsPerPoll
  /\ polling' = FALSE
  /\ events_processed' = 0
  /\ wake' = "none"
  /\ UNCHANGED <<machine, pending, terminal, source, wire, delivered, exhausted, collector,
                 outcome>>

(* The budget of one poll is used up: wake_by_ref, then Pending.           *)
YieldBudget ==
  /\ polling
  /\ events_processed >= MaxEventsPerPoll
  /\ polling' = FALSE
  /\ events_processed' = 0
  /\ wake' = "due"
  /\ UNCHANGED <<machine, pending, terminal, source, wire, delivered, exhausted, collector,
                 outcome>>

InBudget == polling /\ events_processed < MaxEventsPerPoll

(* The source yields an event and the machine accepts or refuses it.       *)
SourceYields(w) ==
  LET next  == MachineAccept(machine, w)
      queue == pending \o next.out
  IN  /\ InBudget
      /\ source.state = "open" /\ Len(wire) < Feeds[source.feed].max
      /\ wire' = Append(wire, w)
      /\ machine' = next
      /\ CASE next.error # NoError ->
                /\ terminal' = TRUE
                /\ Yield(Err(next.error))
                /\ UNCHANGED pending
           [] next.error = NoError /\ queue # <<>> ->
                /\ Yield(Head(queue))
                /\ pending' = Tail(queue)
                /\ UNCHANGED terminal
           [] next.error = NoError /\ queue = <<>> ->
                /\ events_processed' = events_processed + 1
                /\ UNCHANGED <<pending, terminal, polling, delivered, exhausted, collector,
                               outcome>>
      /\ UNCHANGED <<wake, source>>

(* The source fails: a transport or framing error.                         *)
SourceFails ==
  /\ InBudget
  /\ source.state = "open"
  /\ source' = [source EXCEPT !.state = "failed"]
  /\ terminal' = TRUE
  /\ Yield(Err("transport"))
  /\ UNCHANGED <<machine, pending, wake, wire>>

(* The source ends: the machine says whether the stream was complete.      *)
SourceEnds ==
  LET next  == MachineFinish(machine)
      queue == pending \o next.out
  IN  /\ InBudget
      /\ source.state = "open"
      /\ source' = [source EXCEPT !.state = "ended"]
      /\ terminal' = TRUE
      /\ machine' = next
      /\ IF next.error # NoError
         THEN Yield(Err(next.error)) /\ UNCHANGED pending
         ELSE Yield(Head(queue)) /\ pending' = Tail(queue)
      /\ UNCHANGED <<wake, wire>>

(* The source has nothing yet; it keeps the task's waker.                  *)
SourcePending ==
  /\ InBudget
  /\ source.state = "open"
  /\ polling' = FALSE
  /\ events_processed' = 0
  /\ wake' = "registered"
  /\ UNCHANGED <<machine, pending, terminal, source, wire, delivered, exhausted, collector,
                 outcome>>

SourceWakes ==
  /\ wake = "registered"
  /\ wake' = "due"
  /\ UNCHANGED <<machine, pending, terminal, polling, events_processed, source, wire,
                 delivered, exhausted, collector, outcome>>

(* Nothing happens to a task that is done, or that nobody will wake.       *)
Idle == (exhausted \/ wake = "none") /\ UNCHANGED vars

Poll == PopPending \/ PollTerminal \/ EnterLoop

Loop ==
  \/ YieldBudget
  \/ \E w \in Feeds[source.feed].events : SourceYields(w)
  \/ SourceFails
  \/ SourceEnds
  \/ SourcePending

Next == Poll \/ Loop \/ SourceWakes \/ Idle

Spec == Init /\ [][Next]_vars

(* The executor runs a task that was woken, and a running poll runs to its *)
(* end.  Nothing makes the upstream wake a waiting task.                   *)
FairSpec == Spec /\ WF_vars(Poll) /\ WF_vars(Loop)

-----------------------------------------------------------------------------
(* What the machine emits for a whole sequence of wire events, read        *)
(* straight through without polls, queue or budget: the events of every    *)
(* accept up to a failure, then the failure.                               *)
Run(initial) ==
  FoldLeft(LAMBDA run, w :
             LET next == MachineAccept(run.machine, w)
             IN  CASE run.machine.error # NoError -> run
                   [] run.machine.error = NoError /\ next.error # NoError ->
                        [machine |-> next, items |-> Append(run.items, Err(next.error))]
                   [] OTHER -> [machine |-> next, items |-> run.items \o next.out],
           [machine |-> initial, items |-> <<>>], wire)

Straight(initial) ==
  LET run  == Run(initial)
      last == MachineFinish(run.machine)
  IN  CASE source.state = "failed" -> Append(run.items, Err("transport"))
        [] source.state = "ended" /\ last.error # NoError -> Append(run.items, Err(last.error))
        [] source.state = "ended" /\ last.error = NoError -> run.items \o last.out
        [] OTHER -> run.items

(* However the polls of poll_next fall between arrivals, budget yields and *)
(* pending returns, the consumer gets exactly what the machine emitted, in *)
(* order, with nothing lost, doubled or overtaken by an error; what is not *)
(* yet delivered is queued.                                                *)
DeliversWhatTheMachineEmits ==
  \E initial \in Feeds[source.feed].machines : delivered \o pending = Straight(initial)

(* The consumer is never stranded: again and again it has been given None, *)
(* or it waits with its waker held by the upstream.  A poll that stops at  *)
(* its event budget must therefore wake itself.                            *)
NeverStranded == []<>(exhausted \/ wake = "registered")
=============================================================================
