---------------------------- MODULE MCRequestRunner ----------------------------
(***************************************************************************)
(* Instances of RequestRunner for TLC.  Durations are one to three clock    *)
(* units: enough for a stage to run out before, with and after the overall *)
(* deadline, for a server delay above its cap, and for the total-wait cap  *)
(* to refuse a retry that the attempt limit would allow.  One control asks *)
(* for more attempts and more waiting than the client allows.              *)
(***************************************************************************)
EXTENDS RequestRunner

MCClientPolicy ==
    [max_attempts |-> 3, minimum_attempt_budget |-> 1,
     credential |-> 1, response_header |-> 1, first_event |-> 2, idle_stream |-> 1,
     base_delay |-> 1, max_delay |-> 2, server_delay_cap |-> 2, max_total_wait |-> 3]

MCControls ==
    {[MCClientPolicy EXCEPT !.max_attempts = 2, !.minimum_attempt_budget = 2],
     [MCClientPolicy EXCEPT !.max_total_wait = 1, !.first_event = 1],
     [MCClientPolicy EXCEPT !.max_attempts = 4, !.max_total_wait = 4]}

MCTimeouts == {None, 0, 3, 4}

MCServerDelays == {None, 1, 3}

=============================================================================
