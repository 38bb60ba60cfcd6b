---------------------------- MODULE BackendPromise ----------------------------
(***************************************************************************)
(* What the block store takes a backend to be, for one block: a Put is     *)
(* atomic.  It leaves the whole block under the address, or, cut short,    *)
(* nothing new.  Only calls for the block that overlap may show it torn,   *)
(* and then it is never missing again, and may yet become whole.  A fault  *)
(* of the storage point may do anything to the block.                      *)
(***************************************************************************)
EXTENDS Integers

CONSTANT Writers

VARIABLES held,        \* what is under the address: "none", "good" or "torn"
          busy,        \* the callers whose Put did not find the block
          overlapped,  \* two of their calls were under way at once
          faults       \* calls cut short, and faults of the storage point
vars == <<held, busy, overlapped, faults>>

Init == held = "none" /\ busy = {} /\ overlapped = FALSE /\ faults = 0

Call(w) ==
  /\ held = "none" /\ w \notin busy
  /\ busy' = busy \cup {w}
  /\ overlapped' = (overlapped \/ busy # {})
  /\ UNCHANGED <<held, faults>>

Takes(w) ==
  /\ w \in busy /\ busy' = busy \ {w}
  /\ \/ held' = "good"
     \/ overlapped /\ held' = "torn"
  /\ UNCHANGED <<overlapped, faults>>

(* A call that fails took nothing back; only another call or a fault makes *)
(* it fail.                                                                *)
Fails(w) ==
  /\ w \in busy /\ busy' = busy \ {w}
  /\ \/ faults' = faults + 1
     \/ overlapped /\ UNCHANGED faults
  /\ UNCHANGED <<held, overlapped>>

(* A call still writes to the file that another has renamed.               *)
Mends ==
  /\ held = "torn" /\ overlapped /\ busy # {}
  /\ held' = "good"
  /\ UNCHANGED <<busy, overlapped, faults>>

Fault ==
  /\ busy' = {}
  /\ held' \in {"none", "good", "torn"}
  /\ faults' = faults + 1
  /\ UNCHANGED overlapped

Next == (\E w \in Writers : Call(w) \/ Takes(w) \/ Fails(w)) \/ Mends \/ Fault

Spec == Init /\ [][Next]_vars
=============================================================================
