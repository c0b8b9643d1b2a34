---------------------------- MODULE MachineSteps ----------------------------
(***************************************************************************)
(* How both protocol machines are written.  A machine m carries the events *)
(* of the current call in m.out and its failure in m.error, the Result of  *)
(* SseEventMachine::accept and finish; the events of a call that fails are *)
(* dropped with it.                                                        *)
(***************************************************************************)
EXTENDS Integers, Collector

Fail(m, kind) == [m EXCEPT !.error = kind, !.out = <<>>]

Emit(m, events) == [m EXCEPT !.out = @ \o events]

(* The ? operator: the rest of a handler runs only if nothing failed.      *)
Then(m, Op(_)) == IF m.error = NoError THEN Op(m) ELSE m
=============================================================================
