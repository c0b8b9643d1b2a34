---------------------------- MODULE UsageDetails ----------------------------
(***************************************************************************)
(* Token counters: domain/usage.rs, and the two protocols' ways of reading *)
(* them (openai_chat/response/usage.rs and the usage functions of          *)
(* anthropic_messages/response/machine.rs).  A counter is a u64 or Unknown *)
(* (never zero for absent); MaxCount stands for u64::MAX.                  *)
(***************************************************************************)
EXTENDS Integers

CONSTANT MaxCount

ASSUME MaxCountAssumption == MaxCount \in Nat

Unknown == -1

Counters == {"input", "output", "total", "cached", "write", "reasoning"}

Known(c) == c # Unknown

AnyKnown(d) == \E f \in Counters : Known(d[f])

CompleteCore(d) == \A f \in {"input", "output", "total"} : Known(d[f])

(* checked_add: Unknown stands for the overflow.                           *)
CheckedAdd(a, b) == IF a + b > MaxCount THEN Unknown ELSE a + b

(* a is a subset count of b, when both are known.                          *)
Within(a, b) == Known(a) /\ Known(b) => a <= b

ValidRelationships(d) ==
  /\ CompleteCore(d) => CheckedAdd(d.input, d.output) = d.total
  /\ IF \A f \in {"input", "cached", "write"} : Known(d[f])
     THEN LET sum == CheckedAdd(d.cached, d.write) IN Known(sum) /\ sum <= d.input
     ELSE Within(d.cached, d.input) /\ Within(d.write, d.input)
  /\ Within(d.reasoning, d.output)

(* merge_token_count of every field.                                       *)
MergeConflicts(previous, next) ==
  \E f \in Counters : Known(previous[f]) /\ Known(next[f]) /\ previous[f] # next[f]

MergeFields(previous, next) ==
  [f \in Counters |-> IF Known(previous[f]) THEN previous[f] ELSE next[f]]

(* merge_usage_details: the merged details, which public event to emit     *)
(* ("unchanged", "p1" or "detailed") and whether it failed.  previous is   *)
(* <<>> before the first snapshot.                                         *)
MergeUsageDetails(previous, next) ==
  LET base    == IF previous = <<>> THEN [f \in Counters |-> Unknown] ELSE previous[1]
      merged  == MergeFields(base, next)
      failed  == \/ ~ValidRelationships(next)
                 \/ previous # <<>> /\ (MergeConflicts(base, next) \/ ~ValidRelationships(merged))
      outcome == CASE merged = base -> "unchanged"
                   [] ~CompleteCore(base) /\ CompleteCore(merged) -> "p1"
                   [] OTHER -> "detailed"
  IN  [merged |-> merged, outcome |-> outcome, failed |-> failed]

-----------------------------------------------------------------------------
(* OpenAI: parse_usage_details.  Negative counters were refused before     *)
(* this point; the lenient policy drops a reasoning count above output.    *)
ParsedUsage(wire, dropInconsistentReasoning) ==
  IF /\ dropInconsistentReasoning
     /\ Known(wire.output) /\ Known(wire.reasoning)
     /\ wire.reasoning > wire.output
  THEN [wire EXCEPT !.reasoning = Unknown]
  ELSE wire

-----------------------------------------------------------------------------
(* Anthropic: snapshots [input, output, write, read, thinking].            *)
SnapshotFields == {"input", "output", "write", "read", "thinking"}

EmptySnapshot == [f \in SnapshotFields |-> Unknown]

StableFields == {"input", "write", "read"}

(* merge_stable_count and merge_cumulative_count refuse a change, or only  *)
(* a decrease.                                                             *)
SnapshotConflicts(previous, next, allowGrowth) ==
  \E f \in SnapshotFields :
    /\ Known(previous[f]) /\ Known(next[f])
    /\ \/ next[f] < previous[f]
       \/ f \in StableFields /\ next[f] > previous[f] /\ ~allowGrowth

(* Mutant: the first report of a counter stays.                            *)
MergeSnapshotFirst(previous, next) ==
  [f \in SnapshotFields |-> IF Known(previous[f]) THEN previous[f] ELSE next[f]]

MergeSnapshot(previous, next) ==
  [f \in SnapshotFields |-> IF Known(next[f]) THEN next[f] ELSE previous[f]]

(* usage_details: input is the sum of the three input counters, when all   *)
(* three are known.                                                        *)
SnapshotOverflows(s) ==
  /\ \A f \in StableFields : Known(s[f])
  /\ s.input + s.write + s.read > MaxCount

SnapshotDetails(s) ==
  [input     |-> IF \A f \in StableFields : Known(s[f])
                 THEN s.input + s.write + s.read
                 ELSE Unknown,
   output    |-> s.output,
   total     |-> Unknown,
   cached    |-> s.read,
   write     |-> s.write,
   reasoning |-> s.thinking]
=============================================================================
