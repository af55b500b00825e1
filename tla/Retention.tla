------------------------------ MODULE Retention ------------------------------
(***************************************************************************)
(* internal/store/store.go and the sweeper of internal/pipeline: what the  *)
(* store remembers of events, and for how long.  The clock counts parts of *)
(* a millisecond, Ms to one, because the store keeps milliseconds.  A row  *)
(* has the time at which it was written and the stamp that it is kept      *)
(* under; an id that is seen again keeps its first row.                    *)
(***************************************************************************)
EXTENDS Integers

CONSTANTS
    Events,      \* event ids of one adapter
    Ms,          \* parts of a millisecond
    MaxTime      \* bound on the clock

ASSUME RetentionAssumption == Ms \in Nat \ {0} /\ MaxTime \in Nat

VARIABLES
    now,         \* the clock
    seen,        \* the rows of table seen
    audit,       \* the rows of table audit
    sweeping,    \* the sweeper waits, or is about to sweep "seen" or "audit"
    began        \* the time it took for this sweep

rowVars == <<seen, audit>>
sweepVars == <<sweeping, began>>
retentionVars == <<now, rowVars, sweepVars>>

-----------------------------------------------------------------------------
StampNano(t) ==       \* mutant: RFC3339Nano, where "5.5Z" sorts before "5Z"
    ((t \div Ms) * Ms) + ((t + Ms - 1) % Ms)
(* tsFormat, whose text sorts as the time does. *)
Stamp(t) == t \div Ms

Row(e) == [id |-> e, at |-> now, stamp |-> Stamp(now)]

RetentionInit ==
    /\ now = 0
    /\ seen = {} /\ audit = {}
    /\ sweeping = "wait" /\ began = 0

(* mutant: DO UPDATE, so that an event that comes again stays new for longer *)
MarkSeenAgain(e) ==
    /\ seen' = {r \in seen : r.id # e}
               \cup (IF \E r \in seen : r.id = e
                     THEN {[r EXCEPT !.stamp = Stamp(now)] : r \in {q \in seen : q.id = e}}
                     ELSE {Row(e)})
    /\ UNCHANGED <<now, audit, sweepVars>>
(* MarkSeen of an id that is new; one that is not changes nothing. *)
MarkSeen(e) ==
    /\ \A r \in seen : r.id # e
    /\ seen' = seen \cup {Row(e)}
    /\ UNCHANGED <<now, audit, sweepVars>>

(* Audit, without the columns that retention does not look at. *)
Audit(e) ==
    /\ audit' = audit \cup {Row(e)}
    /\ UNCHANGED <<now, seen, sweepVars>>

Tick ==
    /\ now < MaxTime
    /\ now' = now + 1
    /\ UNCHANGED <<rowVars, sweepVars>>

(* sweep: at the start and at every tick of the sweeper, *)
BeginSweep ==
    /\ sweeping = "wait"
    /\ sweeping' = "seen"
    /\ began' = now
    /\ UNCHANGED <<now, rowVars>>

Kept(rows, retention) == {r \in rows : r.stamp >= Stamp(began - retention)}

(* the dedupe entries *)
SweepSeen(retention) ==
    /\ sweeping = "seen"
    /\ seen' = Kept(seen, retention)
    /\ sweeping' = "audit"
    /\ UNCHANGED <<now, audit, began>>

SweepsAudit(retention) == retention > 0

(* and the audit rows, unless they are kept for ever. *)
SweepAudit(retention) ==
    /\ sweeping = "audit"
    /\ audit' = IF SweepsAudit(retention) THEN Kept(audit, retention) ELSE audit
    /\ sweeping' = "wait"
    /\ UNCHANGED <<now, seen, began>>

(* Either may fail, and is not tried again before the next sweep. *)
SweepFails ==
    /\ sweeping # "wait"
    /\ sweeping' = IF sweeping = "seen" THEN "audit" ELSE "wait"
    /\ UNCHANGED <<now, rowVars, began>>

=============================================================================
