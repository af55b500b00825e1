------------------------------ MODULE Adapter ------------------------------
(* What every adapter shares: the ceiling on skipping, in internal/adapter. *)
EXTENDS Naturals

CONSTANT MinRecords   \* SkipCeilingMinRecords

ASSUME MinRecordsAssumption == MinRecords \in Nat

(* A page that was skipped for more than its half is not noise. *)
SkipCeilingExceeded(seen, passed) ==
    seen >= MinRecords /\ 2 * passed > seen
=============================================================================
