------------------------------- MODULE Worker -------------------------------
(***************************************************************************)
(* work and deliver of pipeline.go: the goroutine of one output.  It takes *)
(* one item at a time off the channel, attempts it until an outcome is     *)
(* terminal, writes the audit row and, if the item was counted in          *)
(* outstanding, settles it.                                                *)
(***************************************************************************)
EXTENDS PipelineState

(* Workers: work, deliver. *)

WGoto(o, l) == wpc' = [wpc EXCEPT ![o] = l]

Receive(o) ==
    /\ wpc[o] = "recv"
    /\ queue[o] # <<>>
    /\ held' = [held EXCEPT ![o] = Head(queue[o])]
    /\ queue' = [queue EXCEPT ![o] = Tail(@)]
    /\ WGoto(o, "got")
    /\ UNCHANGED <<storeVars, mainVars, pollVars, attempt, verdict,
                   outstanding, bookVars>>

MayLeave(o) == main = "draining" /\ queue[o] = <<>>

(* The range over the channel ends when it is closed and empty. *)
StopWorker(o) ==
    /\ wpc[o] = "recv"
    /\ MayLeave(o)
    /\ WGoto(o, "done")
    /\ UNCHANGED <<storeVars, mainVars, pollVars, held, attempt, verdict,
                   destVars, bookVars>>

(* The outcome is known; the row is still to be written. *)
Decide(o, row) ==
    /\ verdict' = [verdict EXCEPT ![o] = row]
    /\ WGoto(o, "audit")

(* After the drain window what is left is read but not attempted. *)
Begin(o) ==
    /\ wpc[o] = "got"
    /\ IF stopping
       THEN /\ Decide(o, Dropped(0, "shut down before delivery"))
            /\ UNCHANGED attempt
       ELSE /\ WGoto(o, "send")
            /\ attempt' = [attempt EXCEPT ![o] = 1]
            /\ UNCHANGED verdict
    /\ UNCHANGED <<storeVars, mainVars, pollVars, held, destVars, bookVars>>

(* Send returns nil or ErrPermanent, whatever the state of the context. *)
SendDecides(o) ==
    /\ wpc[o] = "send"
    /\ \/ Decide(o, [status |-> "delivered", attempts |-> attempt[o], cause |-> ""])
       \/ /\ o \in Rejecting
          /\ Decide(o, [status |-> "failed", attempts |-> attempt[o],
                        cause |-> "permanent"])
    /\ UNCHANGED <<storeVars, mainVars, pollVars, held, attempt, destVars, bookVars>>

(* Send returns another error: shutdown, the last attempt, or a backoff. *)
SendFails(o) ==
    /\ wpc[o] = "send"
    /\ \/ /\ stopping
          /\ Decide(o, Dropped(attempt[o], "shut down mid-delivery"))
       \/ /\ ~stopping
          /\ attempt[o] = MaxAttempts[o]
          /\ Decide(o, [status |-> "failed", attempts |-> MaxAttempts[o],
                        cause |-> "exhausted"])
       \/ /\ ~stopping
          /\ attempt[o] < MaxAttempts[o]
          /\ WGoto(o, "backoff")
          /\ UNCHANGED verdict
    /\ UNCHANGED <<storeVars, mainVars, pollVars, held, attempt, destVars, bookVars>>

NextAttemptSame(o) == attempt[o]   \* mutant: attempts are not counted
NextAttempt(o) == attempt[o] + 1

(* The backoff elapses, or the end of the drain window interrupts it. *)
Backoff(o) ==
    /\ wpc[o] = "backoff"
    /\ \/ /\ WGoto(o, "send")
          /\ attempt' = [attempt EXCEPT ![o] = NextAttempt(o)]
          /\ UNCHANGED verdict
       \/ /\ stopping
          /\ Decide(o, Dropped(attempt[o], "shut down between attempts"))
          /\ UNCHANGED attempt
    /\ UNCHANGED <<storeVars, mainVars, pollVars, held, destVars, bookVars>>

RecordVerdict(o) ==
    /\ wpc[o] = "audit"
    /\ Audit(<<held[o].event, o>>, verdict[o])
    /\ WGoto(o, "settle")
    /\ UNCHANGED <<cursor, seen, mainVars, pollVars, held, attempt, verdict,
                   destVars, sweeps, restarts, exposed>>

Settled(o) == IF held[o].tracked THEN outstanding[o] - 1 ELSE outstanding[o]

(* Every path of the worker's loop ends here. *)
Settle(o) ==
    /\ wpc[o] = "settle"
    /\ outstanding' = [outstanding EXCEPT ![o] = Settled(o)]
    /\ held' = [held EXCEPT ![o] = NoItem]
    /\ attempt' = [attempt EXCEPT ![o] = 0]
    /\ verdict' = [verdict EXCEPT ![o] = NoRow]
    /\ WGoto(o, "recv")
    /\ UNCHANGED <<storeVars, mainVars, pollVars, queue, bookVars>>

=============================================================================
