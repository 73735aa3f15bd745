------------------------------ MODULE NvStore ------------------------------
(***************************************************************************)
(* What the storage of the variables promises its user: at all times       *)
(* either the original or the modified contents are available, and a write *)
(* reported as done has been done.                                         *)
(***************************************************************************)
CONSTANTS Values, None

VARIABLES
  cur,   \* contents a reader finds, now or after a reset
  req,   \* contents being written, or None
  out    \* how the last write ended: "none", "ok" or "failed"

vars == <<cur, req, out>>

Init == cur \in Values /\ req = None /\ out = "none"

Submit(v) == req = None /\ req' = v /\ UNCHANGED <<cur, out>>

\* The modified contents replace the original ones in one step.
Apply == req # None /\ cur' = req /\ UNCHANGED <<req, out>>

Acknowledge == req # None /\ cur = req /\ req' = None /\ out' = "ok" /\ UNCHANGED cur

\* A reset, an error or a refusal ends the write; it may still have been applied.
Fail == req # None /\ req' = None /\ out' = "failed" /\ cur' \in {cur, req}

Next == (\E v \in Values : Submit(v)) \/ Apply \/ Acknowledge \/ Fail

Spec == Init /\ [][Next]_vars
=============================================================================
