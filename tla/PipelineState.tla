--------------------------- MODULE PipelineState ---------------------------
(***************************************************************************)
(* internal/pipeline/pipeline.go: one goroutine per adapter polls,         *)
(* deduplicates, routes and enqueues; one goroutine per output takes       *)
(* events off a bounded channel and delivers them; a sweeper forgets old   *)
(* dedupe entries; Run shuts all of them down.  The SQLite store (cursors, *)
(* dedupe entries, audit rows) survives a crash, everything else does not. *)
(*                                                                         *)
(* An action is one step between two points where another goroutine, the   *)
(* store or a signal can intervene: a store call, a lock, a channel        *)
(* operation, a call to an adapter or an output, a timer.                  *)
(***************************************************************************)
EXTENDS Naturals, Sequences, FiniteSets

CONSTANTS
    Sources,        \* the adapters, one poller goroutine each
    Outputs,        \* the destinations, one worker goroutine each
    Names,          \* output names: of Outputs, and others rules mention
    NoOutput,       \* the "" of an audit row about an event no rule matched
    Events,         \* event ids
    Feed,           \* Feed[s]: the events source s will ever produce, in order
    PageLimit,      \* PageLimit[s]: most records one Poll of s returns
    Backloggers,    \* the adapters that implement Backlogger
    StuckAt,        \* StuckAt[s]: positions where s returns its cursor unmoved
    Route,          \* Route[e]: what Router.Route answers for e, names only
    Buffer,         \* Buffer[o]: capacity of the channel of o
    MaxAttempts,    \* MaxAttempts[o]: delivery attempts before giving up
    Rejecting,      \* the outputs whose Send may return ErrPermanent: webhooks
    MaxEagerPages,  \* maxEagerPages
    MaxFaults,      \* bound: store calls that fail
    MaxSweeps,      \* bound: sweeps that remove something
    MaxRestarts,    \* bound: times the program is started again
    MayCrash        \* whether a restart may follow a crash, or only an exit

ASSUME SourcesAssumption ==
    /\ IsFiniteSet(Sources)
    /\ Feed \in [Sources -> Seq(Events)]
    /\ PageLimit \in [Sources -> Nat \ {0}]
    /\ Backloggers \subseteq Sources
    /\ StuckAt \in [Sources -> SUBSET Nat]
ASSUME OutputsAssumption ==
    /\ IsFiniteSet(Outputs)
    /\ Outputs \subseteq Names
    /\ NoOutput \notin Names
    /\ Buffer \in [Outputs -> Nat \ {0}]
    /\ MaxAttempts \in [Outputs -> Nat \ {0}]
    /\ Rejecting \subseteq Outputs
ASSUME RouteAssumption ==
    /\ Events # {}
    /\ Route \in [Events -> Seq(Names)]
    /\ \A e \in Events : \A i, j \in DOMAIN Route[e] :
            Route[e][i] = Route[e][j] => i = j
ASSUME BoundsAssumption ==
    /\ MaxEagerPages \in Nat \ {0}
    /\ MaxFaults \in Nat
    /\ MaxSweeps \in Nat
    /\ MaxRestarts \in Nat
    /\ MayCrash \in BOOLEAN

VARIABLES
    \* the store
    cursor,       \* cursor[s]: the stored cursor, a position in Feed[s]
    seen,         \* the dedupe entries, <<source, event>>
    audit,        \* audit[<<e, n>>]: the audit rows about e at output n
    \* main and shutdown
    main,         \* "running", "draining" (channels closed), "stopped"
    cancelled,    \* the context of Run is cancelled
    stopping,     \* drainCtx is cancelled: the drain window has closed
    sweeper,      \* "running" or "done"
    \* pollers
    pc,           \* pc[s]: where the poller of s is
    at,           \* at[s]: the cursor the poller holds
    next,         \* next[s]: the cursor the last Poll returned
    page,         \* page[s]: the events of the page not dispatched yet
    more,         \* more[s]: Backlog() of the last successful Poll
    pages,        \* pages[s]: pages of the eager drain so far, 0 outside one
    targets,      \* targets[s]: names Head(page[s]) still has to go to
    tracked,      \* tracked[s]: queued.tracked of the enqueue under way
    \* outputs and workers
    queue,        \* queue[o]: the channel
    outstanding,  \* outstanding[o]: dest.outstanding
    wpc,          \* wpc[o]: where the worker of o is
    held,         \* held[o]: the item the worker took off the channel
    attempt,      \* attempt[o]: the delivery attempt under way
    verdict,      \* verdict[o]: the audit row about to be written
    \* bookkeeping of the model, not of the program
    faults, sweeps, restarts,
    gaps,         \* keys of decisions whose row was lost: write failed, crash
    exposed       \* <<s, e>> that went out unmarked or whose mark was swept

storeVars == <<cursor, seen, audit>>
mainVars  == <<main, cancelled, stopping, sweeper>>
pollVars  == <<pc, at, next, page, more, pages, targets, tracked>>
workVars  == <<wpc, held, attempt, verdict>>
destVars  == <<queue, outstanding>>
bookVars  == <<faults, sweeps, restarts, gaps, exposed>>
vars == <<storeVars, mainVars, pollVars, workVars, destVars, bookVars>>

-----------------------------------------------------------------------------
Status == {"delivered", "failed", "dropped"}

Cause == {"", "no matching rule", "no such output", "queue full",
          "shut down before delivery", "shut down mid-delivery",
          "shut down between attempts", "permanent", "exhausted"}

Row == [status : Status, attempts : Nat, cause : Cause]

Dropped(n, why) == [status |-> "dropped", attempts |-> n, cause |-> why]

Item == [event : Events, tracked : BOOLEAN]

TrackedItems == [event : Events, tracked : {TRUE}]
ItemsOf(e)   == [event : {e}, tracked : BOOLEAN]

(* Where the items of S are in a channel. *)
Positions(q, S) == {i \in DOMAIN q : q[i] \in S}

(* What a worker between two receives holds. *)
NoItem == [event |-> CHOOSE e \in Events : TRUE, tracked |-> FALSE]
NoRow  == Dropped(0, "")

Key == Events \X (Names \cup {NoOutput})

(* dispatch's targets; an event no rule matched goes to the empty name. *)
TargetsOf(e) == IF Route[e] = <<>> THEN <<NoOutput>> ELSE Route[e]

KeysOf(e) == {<<e, TargetsOf(e)[i]>> : i \in DOMAIN TargetsOf(e)}

Dispatching(s) == pc[s] \in {"target", "track", "offer", "wait"}

(* dest.behind *)
Behind(o) == outstanding[o] > 0

HasRoomOver(o) == Len(queue[o]) <= Buffer[o]       \* mutant: off by one
HasRoomUnder(o) == Len(queue[o]) + 1 < Buffer[o]   \* mutant: off by one

HasRoom(o) == Len(queue[o]) < Buffer[o]

(* A page of a backlog, and every page of a drain, waits on a full queue. *)
Block(s) == more[s] \/ pages[s] > 0

MayFail == faults < MaxFaults

(* mutant: only attempts are audited, drops are not *)
AuditAttempts(k, row) ==
    /\ audit' = IF row.attempts > 0 THEN [audit EXCEPT ![k] = Append(@, row)]
                                    ELSE audit
    /\ UNCHANGED <<faults, gaps>>

(* The row is appended, or the write fails and only the log says so. *)
Audit(k, row) ==
    \/ /\ audit' = [audit EXCEPT ![k] = Append(@, row)]
       /\ UNCHANGED <<faults, gaps>>
    \/ /\ MayFail
       /\ faults' = faults + 1
       /\ gaps' = gaps \cup {k}
       /\ UNCHANGED audit

=============================================================================
