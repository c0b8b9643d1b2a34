--------------------------- MODULE MCCredentialCache ---------------------------
(***************************************************************************)
(* Four calls, three of them for one key: one can refresh, one wait for it *)
(* and one come later, while the fourth uses the other key.  A lifetime of *)
(* two units with a window of one gives a credential that is fresh, one    *)
(* that is only still valid, and one that has expired.                     *)
(***************************************************************************)
EXTENDS CredentialCache

CONSTANTS c1, c2, c3, c4, k1, k2

MCCalls == {c1, c2, c3, c4}

MCKeyOf == [c \in MCCalls |-> IF c = c4 THEN k2 ELSE k1]

(* For liveness: three calls that all compete for one key.                  *)
MCLiveCalls == {c1, c2, c3}

MCLiveKeyOf == [c \in MCLiveCalls |-> k1]

=============================================================================
