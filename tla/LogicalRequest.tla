---------------------------- MODULE LogicalRequest ----------------------------
(***************************************************************************)
(* What one logical request promises its caller and its observer, however  *)
(* many attempts it takes: at most MaxAttempts HTTP requests, none of them *)
(* after the caller holds an event, success only after a request was sent, *)
(* and one closing lifecycle event when it ends.                           *)
(***************************************************************************)
EXTENDS Naturals

CONSTANT MaxAttempts

VARIABLES
    sent,       \* HTTP requests sent
    seen,       \* the caller holds at least one event
    closings,   \* closing lifecycle events recorded
    status      \* "none" while the request runs, then how it ended

vars == <<sent, seen, closings, status>>

Init == sent = 0 /\ seen = FALSE /\ closings = 0 /\ status = "none"

Send ==
    /\ status = "none" /\ ~seen /\ sent < MaxAttempts
    /\ sent' = sent + 1
    /\ UNCHANGED <<seen, closings, status>>

Deliver ==
    /\ status = "none" /\ sent > 0
    /\ seen' = TRUE
    /\ UNCHANGED <<sent, closings, status>>

Complete ==
    /\ status = "none" /\ sent > 0
    /\ seen' = TRUE /\ closings' = closings + 1 /\ status' = "Completed"
    /\ UNCHANGED sent

Close ==
    /\ status = "none"
    /\ closings' = closings + 1
    /\ status' \in {"Failed", "Cancelled", "TimedOut"}
    /\ UNCHANGED <<sent, seen>>

(* The caller drops the request before it holds a stream.                   *)
Abandon ==
    /\ status = "none" /\ ~seen
    /\ status' = "Abandoned"
    /\ UNCHANGED <<sent, seen, closings>>

Next == Send \/ Deliver \/ Complete \/ Close \/ Abandon

Spec == Init /\ [][Next]_vars

=============================================================================
