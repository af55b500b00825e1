------------------------------- MODULE Ledger -------------------------------
(***************************************************************************)
(* What the pipeline promises its operator: the audit log is a ledger of   *)
(* routing decisions.  Dispatching an event owes one row to every          *)
(* destination it was routed to (or one row saying that it was routed      *)
(* nowhere); a debt is paid with exactly one row, or is missing for a      *)
(* stated reason: the write of the row failed and was logged, or the       *)
(* process died while the decision was in memory.  Nothing else changes    *)
(* the ledger.                                                             *)
(*                                                                         *)
(* Pipeline implements this specification (Pipeline!LedgerSpec): owed is   *)
(* read off the pollers, queues and workers, rows off the audit table.     *)
(***************************************************************************)
EXTENDS Naturals

CONSTANTS
    Keys,        \* the <<event, output>> pairs an audit row can be about
    Decisions    \* the sets of Keys one dispatched event can owe rows to

VARIABLES
    owed,        \* owed[k]: decisions about k that have no row yet
    rows,        \* rows[k]: rows of the audit table about k
    gaps         \* the keys some decision about which will never have a row

vars == <<owed, rows, gaps>>

Init ==
    /\ owed = [k \in Keys |-> 0]
    /\ rows = [k \in Keys |-> 0]
    /\ gaps = {}

(* One event is accepted and routed: each of its destinations is owed a row. *)
Decide(d) ==
    /\ owed' = [k \in Keys |-> IF k \in d THEN owed[k] + 1 ELSE owed[k]]
    /\ UNCHANGED <<rows, gaps>>

(* The outcome of one decision is known and its row is written. *)
Settle(k) ==
    /\ owed[k] > 0
    /\ owed' = [owed EXCEPT ![k] = @ - 1]
    /\ rows' = [rows EXCEPT ![k] = @ + 1]
    /\ UNCHANGED gaps

(* The outcome is known and the row could not be written. *)
Miss(k) ==
    /\ owed[k] > 0
    /\ owed' = [owed EXCEPT ![k] = @ - 1]
    /\ gaps' = gaps \cup {k}
    /\ UNCHANGED rows

(* The process dies: what was owed is lost, what was written is kept. *)
Lose ==
    /\ gaps' = gaps \cup {k \in Keys : owed[k] > 0}
    /\ owed' = [k \in Keys |-> 0]
    /\ UNCHANGED rows

Next ==
    \/ \E d \in Decisions : Decide(d)
    \/ \E k \in Keys : Settle(k) \/ Miss(k)
    \/ Lose

Spec == Init /\ [][Next]_vars
=============================================================================
