------------------------------ MODULE Pipeline ------------------------------
(***************************************************************************)
(* Run of pipeline.go: the pollers, the workers and the sweeper together,  *)
(* their shutdown, and the program being started again on the same store.  *)
(***************************************************************************)
EXTENDS Poller, Worker, Integers

(* Run, sweep and the world outside. *)

(* SIGINT or SIGTERM. *)
Cancel ==
    /\ main = "running"
    /\ ~cancelled
    /\ cancelled' = TRUE
    /\ UNCHANGED <<storeVars, main, stopping, sweeper, pollVars, workVars,
                   destVars, bookVars>>

(* A sweep removes the entries older than the retention, whatever they are. *)
Sweep ==
    /\ sweeper = "running"
    /\ ~cancelled
    /\ sweeps < MaxSweeps
    /\ sweeps' = sweeps + 1
    /\ \E old \in (SUBSET seen) \ {{}} :
          /\ seen' = seen \ old
          /\ exposed' = exposed \cup old
    /\ UNCHANGED <<cursor, audit, mainVars, pollVars, workVars, destVars,
                   faults, restarts, gaps>>

StopSweeper ==
    /\ sweeper = "running"
    /\ cancelled
    /\ sweeper' = "done"
    /\ UNCHANGED <<storeVars, main, cancelled, stopping, pollVars, workVars,
                   destVars, bookVars>>

(* mutant: the channels are closed when the first poller returns *)
PollersGoneOne == sweeper = "done" /\ \E s \in Sources : pc[s] = "done"
PollersGone == sweeper = "done" /\ \A s \in Sources : pc[s] = "done"

(* pollers.Wait() returns: no one is left to send, the channels are closed. *)
CloseQueues ==
    /\ main = "running"
    /\ PollersGone
    /\ main' = "draining"
    /\ UNCHANGED <<storeVars, cancelled, stopping, sweeper, pollVars, workVars,
                   destVars, bookVars>>

DrainTimeout ==
    /\ main = "draining"
    /\ ~stopping
    /\ stopping' = TRUE
    /\ UNCHANGED <<storeVars, main, cancelled, sweeper, pollVars, workVars,
                   destVars, bookVars>>

(* workers.Wait() returns, and with it Run. *)
Finish ==
    /\ main = "draining"
    /\ \A o \in Outputs : wpc[o] = "done"
    /\ main' = "stopped"
    /\ UNCHANGED <<storeVars, cancelled, stopping, sweeper, pollVars, workVars,
                   destVars, bookVars>>

-----------------------------------------------------------------------------
(* Decisions in memory: an event the poller still has to hand to n, an item *)
(* of the channel of n, the item its worker has not written the row of.     *)
PollersOwing(k) ==
    {s \in Sources : /\ Dispatching(s)
                     /\ Ev(s) = k[1]
                     /\ \E i \in DOMAIN targets[s] : targets[s][i] = k[2]}

Queued(k) == Positions(queue[k[2]], ItemsOf(k[1]))

InHand(k) ==
    /\ wpc[k[2]] \in {"got", "send", "backoff", "audit"}
    /\ held[k[2]].event = k[1]

Owed(k) ==
    Cardinality(PollersOwing(k))
    + IF k[2] \in Outputs
      THEN Cardinality(Queued(k)) + (IF InHand(k) THEN 1 ELSE 0)
      ELSE 0

(* The process starts again: after Run returned, or after a crash, which   *)
(* takes with it every decision whose row was not written.                 *)
Restart ==
    /\ restarts < MaxRestarts
    /\ main = "stopped" \/ MayCrash
    /\ restarts' = restarts + 1
    /\ gaps' = gaps \cup {k \in Key : Owed(k) > 0}
    /\ main' = "running"
    /\ cancelled' = FALSE
    /\ stopping' = FALSE
    /\ sweeper' = "running"
    /\ pc' = [s \in Sources |-> "start"]
    /\ at' = [s \in Sources |-> 0]
    /\ next' = [s \in Sources |-> 0]
    /\ page' = [s \in Sources |-> <<>>]
    /\ more' = [s \in Sources |-> FALSE]
    /\ pages' = [s \in Sources |-> 0]
    /\ targets' = [s \in Sources |-> <<>>]
    /\ tracked' = [s \in Sources |-> FALSE]
    /\ queue' = [o \in Outputs |-> <<>>]
    /\ outstanding' = [o \in Outputs |-> 0]
    /\ wpc' = [o \in Outputs |-> "recv"]
    /\ held' = [o \in Outputs |-> NoItem]
    /\ attempt' = [o \in Outputs |-> 0]
    /\ verdict' = [o \in Outputs |-> NoRow]
    /\ UNCHANGED <<storeVars, faults, sweeps, exposed>>

(* Run has returned and nothing starts the program again. *)
Stopped == main = "stopped" /\ UNCHANGED vars

Init ==
    /\ main = "running"
    /\ cancelled = FALSE
    /\ stopping = FALSE
    /\ sweeper = "running"
    /\ pc = [s \in Sources |-> "start"]
    /\ at = [s \in Sources |-> 0]
    /\ next = [s \in Sources |-> 0]
    /\ page = [s \in Sources |-> <<>>]
    /\ more = [s \in Sources |-> FALSE]
    /\ pages = [s \in Sources |-> 0]
    /\ targets = [s \in Sources |-> <<>>]
    /\ tracked = [s \in Sources |-> FALSE]
    /\ queue = [o \in Outputs |-> <<>>]
    /\ outstanding = [o \in Outputs |-> 0]
    /\ wpc = [o \in Outputs |-> "recv"]
    /\ held = [o \in Outputs |-> NoItem]
    /\ attempt = [o \in Outputs |-> 0]
    /\ verdict = [o \in Outputs |-> NoRow]
    /\ cursor = [s \in Sources |-> 0]
    /\ seen = {}
    /\ audit = [k \in Key |-> <<>>]
    /\ faults = 0
    /\ sweeps = 0
    /\ restarts = 0
    /\ gaps = {}
    /\ exposed = {}

Dispatch(s) ==
    \/ MarkNew(s) \/ MarkDuplicate(s) \/ MarkFails(s)
    \/ DropUnroutable(s) \/ Check(s) \/ Track(s)
    \/ Enqueue(s) \/ DropFull(s) \/ Wait(s) \/ GiveUp(s)

Poller(s) ==
    \/ StartPoller(s) \/ CallPoll(s) \/ PollOK(s) \/ PollFails(s)
    \/ Dispatch(s) \/ Save(s) \/ Pause(s) \/ Tick(s) \/ StopPoller(s)

Worker(o) ==
    \/ Receive(o) \/ StopWorker(o) \/ Begin(o) \/ SendDecides(o)
    \/ SendFails(o) \/ Backoff(o) \/ RecordVerdict(o) \/ Settle(o)

Main == StopSweeper \/ CloseQueues \/ DrainTimeout \/ Finish

Next ==
    \/ \E s \in Sources : Poller(s)
    \/ \E o \in Outputs : Worker(o)
    \/ Main
    \/ Cancel \/ Sweep \/ Restart \/ Stopped

Spec == Init /\ [][Next]_vars

(* Every goroutine runs on; adapter, store and output calls return, being   *)
(* bounded by client timeouts and busy_timeout; timers fire.  One call is   *)
(* taken at its word: a write of the stdout output has no timeout, and one  *)
(* to a pipe that nobody reads keeps its worker.  select picks              *)
(* at random among what is ready, so a poller that keeps coming back to its *)
(* tick with the context cancelled stops, and Go serves blocked senders of  *)
(* a channel in order, so one that keeps finding room in turn gets it.      *)
Fairness ==
    /\ \A s \in Sources : /\ WF_vars(Poller(s))
                          /\ SF_vars(StopPoller(s))
                          /\ SF_vars(pc[s] = "wait" /\ Enqueue(s))
    /\ \A o \in Outputs : WF_vars(Worker(o))
    /\ WF_vars(Main)

FairSpec == Spec /\ Fairness

-----------------------------------------------------------------------------
(* Properties. *)

StoreType ==
    /\ cursor \in [Sources -> Nat]
    /\ seen \subseteq Sources \X Events
    /\ audit \in [Key -> Seq(Row)]

MainType ==
    /\ main \in {"running", "draining", "stopped"}
    /\ cancelled \in BOOLEAN
    /\ stopping \in BOOLEAN
    /\ sweeper \in {"running", "done"}

PollType ==
    /\ pc \in [Sources -> {"start", "poll", "fetch", "mark", "target", "track",
                           "offer", "wait", "pause", "tick", "done"}]
    /\ at \in [Sources -> Nat]
    /\ next \in [Sources -> Nat]
    /\ page \in [Sources -> Seq(Events)]
    /\ more \in [Sources -> BOOLEAN]
    /\ pages \in [Sources -> 0..(MaxEagerPages - 1)]
    /\ targets \in [Sources -> Seq(Names \cup {NoOutput})]
    /\ tracked \in [Sources -> BOOLEAN]

DestType ==
    /\ queue \in [Outputs -> Seq(Item)]
    /\ \A o \in Outputs : Len(queue[o]) <= Buffer[o]
    /\ outstanding \in [Outputs -> Int]

WorkType ==
    /\ wpc \in [Outputs -> {"recv", "got", "send", "backoff", "audit",
                            "settle", "done"}]
    /\ held \in [Outputs -> Item]
    /\ attempt \in [Outputs -> Nat]
    /\ \A o \in Outputs :
          /\ attempt[o] <= MaxAttempts[o]
          /\ wpc[o] = "backoff" => attempt[o] < MaxAttempts[o]
    /\ verdict \in [Outputs -> Row]

BookType ==
    /\ faults \in Nat
    /\ sweeps \in Nat
    /\ restarts \in Nat
    /\ gaps \subseteq Key
    /\ exposed \subseteq Sources \X Events

(* Every variable is of its type; queues, attempts and eager pages stay     *)
(* within Buffer, MaxAttempts and MaxEagerPages.                            *)
TypeOK ==
    /\ StoreType /\ MainType /\ PollType
    /\ DestType /\ WorkType /\ BookType

(* The items of an output that were counted and not settled yet: by a      *)
(* poller between track and its enqueue, in the channel, with the worker.  *)
PollersTracking(o) ==
    {s \in Sources : pc[s] \in {"offer", "wait"} /\ tracked[s] /\ Dst(s) = o}

QueuedTracked(o) == Positions(queue[o], TrackedItems)

(* dest.outstanding is exactly the number of those items, whoever drops,    *)
(* delivers or gives up, and with any number of pollers on one output: it   *)
(* is never negative and never stays above zero for an item that is gone,   *)
(* which would leave the output in blocking mode forever.                   *)
OutstandingExact ==
    \A o \in Outputs :
        outstanding[o] = Cardinality(PollersTracking(o))
                         + Cardinality(QueuedTracked(o))
                         + (IF held[o].tracked THEN 1 ELSE 0)

(* Channels are closed only when no goroutine is left that could send, and  *)
(* a Run that returns leaves nothing in a channel, nothing counted and no   *)
(* decision without its row, whichever way the drain window went.           *)
ShutdownLeavesNothing ==
    /\ main # "running" => \A s \in Sources : pc[s] = "done"
    /\ main = "stopped" =>
          /\ \A o \in Outputs : queue[o] = <<>> /\ outstanding[o] = 0
          /\ \A k \in Key : Owed(k) = 0

(* The stored cursor never runs ahead of dispatch: every record behind it   *)
(* was marked seen, or is one of those known to have gone out unmarked or   *)
(* to have been swept.  A restart therefore never steps over a record.      *)
CursorCovered ==
    \A s \in Sources : \A i \in 1..cursor[s] :
        <<s, Feed[s][i]>> \in seen \cup exposed

(* Every record behind the stored cursor has, for each destination it       *)
(* routes to, an audit row or a decision still in memory; the exceptions    *)
(* are the rows known to be lost to a failed write or a crash.              *)
CursorAccounted ==
    \A s \in Sources : \A i \in 1..cursor[s] : \A k \in KeysOf(Feed[s][i]) :
        audit[k] # <<>> \/ k \in gaps \/ Owed(k) > 0

(* Dedupe is per adapter and survives restarts and crashes: as long as its  *)
(* record was marked and not swept, an event gets no more rows for one      *)
(* destination than there are adapters that carry it.                       *)
AtMostOncePerSource ==
    \A k \in Key :
        LET carriers == {s \in Sources : \E i \in DOMAIN Feed[s] : Feed[s][i] = k[1]}
        IN (\A s \in carriers : <<s, k[1]>> \notin exposed)
               => Len(audit[k]) + Owed(k) <= Cardinality(carriers)

(* Two adapters may share an output: neither drops behind its own backlog: no *)
(* event of one is dropped while the output still delivers a backlog of the *)
(* events that only this one carries.                                       *)
Own(s) == {e \in Events : \A t \in Sources :
             (\E i \in DOMAIN Feed[t] : Feed[t][i] = e) <=> t = s}
Delivering(s, o) ==
    \/ \E i \in DOMAIN queue[o] : queue[o][i].tracked /\ queue[o][i].event \in Own(s)
    \/ held[o].tracked /\ held[o].event \in Own(s)
OwnBacklogFirst ==
    [][\A s \in Sources : DropFull(s) => ~Delivering(s, Dst(s))]_vars

(* A drain cannot spin.  After an eager page it goes on to another only if  *)
(* that page moved the cursor, wherever the drain began, and only by way of *)
(* the pause: an adapter that reports a backlog and stays where it is, or   *)
(* that fails, is asked again at the tick and not before.                   *)
EagerPagesMove ==
    [][\A s \in Sources : pages[s] > 0 =>
          /\ pc[s] # "pause" /\ pc'[s] = "pause" => at'[s] # at[s]
          /\ pc[s] # "poll" /\ pc'[s] = "poll" => pc[s] = "pause"]_vars

(* Steps that the worker of o takes at most, with what is queued for it     *)
(* now, until it is back at an empty channel or done.                       *)
WorkLeft(o) ==
    (2 * MaxAttempts[o] + 3) * Len(queue[o])
    + CASE wpc[o] = "got"     -> 2 * MaxAttempts[o] + 3
        [] wpc[o] = "send"    -> 2 * (MaxAttempts[o] - attempt[o]) + 4
        [] wpc[o] = "backoff" -> 2 * (MaxAttempts[o] - attempt[o]) + 3
        [] wpc[o] = "audit"   -> 3
        [] wpc[o] = "settle"  -> 2
        [] wpc[o] = "recv"    -> 1
        [] OTHER              -> 0

(* Work runs out: each step of a worker leaves it with fewer to take, and   *)
(* once the channels are closed nobody gives it more.  So a poller blocked  *)
(* on a full channel, and a Run that waits for its workers, wait for a      *)
(* number of steps that is known beforehand.                                *)
WorkRunsOut ==
    [][restarts' = restarts =>
          \A o \in Outputs :
             /\ wpc'[o] # wpc[o] => WorkLeft(o)' < WorkLeft(o)
             /\ main # "running" => WorkLeft(o)' <= WorkLeft(o)]_vars

(* Where a poller is on its way to the tick: the pages it may still drain,  *)
(* the way to the next page, the rest of the page, of the event, of the     *)
(* enqueue.                                                                 *)
WayToPage(l) ==
    IF l \in {"start", "pause"} THEN 3
    ELSE IF l = "poll" THEN 2 ELSE IF l = "fetch" THEN 1 ELSE 0

WayToEnqueue(l) ==
    IF l = "target" THEN 3 ELSE IF l = "track" THEN 2 ELSE IF l = "offer" THEN 1 ELSE 0

WayLeft(s) ==
    <<MaxEagerPages - pages[s], WayToPage(pc[s]), Len(page[s]),
      IF pc[s] = "mark" THEN 1 ELSE 0, Len(targets[s]), WayToEnqueue(pc[s])>>

(* a comes before b in the order of tuples. *)
Before(a, b) == \E i \in DOMAIN a : a[i] < b[i] /\ \A j \in 1..(i - 1) : a[j] = b[j]

(* A poller cannot go round without the tick: whatever the adapter reports, *)
(* the store fails and the channels hold, every step it takes brings it     *)
(* further on its way back to poll's select.                                *)
PollsReturn ==
    [][restarts' = restarts =>
          \A s \in Sources :
             \/ UNCHANGED <<pc[s], page[s], targets[s]>>
             \/ "tick" \in {pc[s], pc'[s]}
             \/ Before(WayLeft(s)', WayLeft(s))]_vars

(* Pipeline keeps the ledger of Ledger.tla. *)
Books == INSTANCE Ledger WITH
            Keys <- Key,
            Decisions <- {KeysOf(e) : e \in Events},
            owed <- [k \in Key |-> Owed(k)],
            rows <- [k \in Key |-> Len(audit[k])],
            gaps <- gaps

LedgerSpec == Books!Spec

(* Every decision gets its row in the end, or is a known gap: no event is   *)
(* left in a queue, with a blocked poller or with a worker forever.         *)
DecisionsSettle == \A k \in Key : Owed(k) > 0 ~> Owed(k) = 0

(* A signal leads to Run returning, however full the queues and slow the    *)
(* outputs, unless the process dies first.                                  *)
ShutdownCompletes == cancelled ~> (main = "stopped" \/ ~cancelled)

(* An eager drain hands control back to the tick. *)
DrainsEnd == \A s \in Sources : pc[s] = "pause" ~> pc[s] = "tick"

(* What comments and docs say and the code does not do. *)

(* pipeline.go: while the output of a backlog is still delivering it, every *)
(* enqueue to it waits instead of dropping, whichever poller it comes from. *)
BehindNeverDrops ==
    [][\A s \in Sources : DropFull(s) => outstanding[Dst(s)] = 0]_vars

=============================================================================
