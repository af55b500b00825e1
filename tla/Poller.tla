------------------------------- MODULE Poller -------------------------------
(***************************************************************************)
(* poll, pollOnce, drain and dispatch of pipeline.go: the goroutine of one *)
(* adapter.  A poll returns a page; its events are deduplicated, routed    *)
(* and enqueued one destination at a time; then the cursor is saved and    *)
(* the poller waits for the tick, or for a short pause when a backlog is   *)
(* being drained.                                                          *)
(***************************************************************************)
EXTENDS PipelineState

(* Pollers: poll, pollOnce, drain. *)

Goto(s, l) == pc' = [pc EXCEPT ![s] = l]

(* poll reads the stored cursor; an error leaves it at the beginning. *)
StartPoller(s) ==
    /\ pc[s] = "start"
    /\ Goto(s, "poll")
    /\ \/ /\ ~cancelled
          /\ at' = [at EXCEPT ![s] = cursor[s]]
          /\ UNCHANGED faults
       \/ /\ cancelled \/ MayFail
          /\ at' = [at EXCEPT ![s] = 0]
          /\ faults' = IF cancelled THEN faults ELSE faults + 1
    /\ UNCHANGED <<storeVars, mainVars, next, page, more, pages, targets,
                   tracked, workVars, destVars, sweeps, restarts, gaps, exposed>>

(* Adapter.Poll is called; it looks at the context before it starts. *)
CallPoll(s) ==
    /\ pc[s] = "poll"
    /\ ~cancelled
    /\ Goto(s, "fetch")
    /\ UNCHANGED <<storeVars, mainVars, at, next, page, more, pages, targets,
                   tracked, workVars, destVars, bookVars>>

(* Poll returns n records, however many the source has by now. *)
PollOK(s) ==
    /\ pc[s] = "fetch"
    /\ Goto(s, "mark")
    /\ \E n \in 0..PageLimit[s] :
          /\ at[s] + n <= Len(Feed[s])
          /\ page' = [page EXCEPT ![s] = SubSeq(Feed[s], at[s] + 1, at[s] + n)]
          /\ next' = [next EXCEPT ![s] = IF at[s] \in StuckAt[s]
                                         THEN at[s] ELSE at[s] + n]
          /\ more' = [more EXCEPT ![s] = s \in Backloggers /\ n = PageLimit[s]]
    /\ UNCHANGED <<storeVars, mainVars, at, pages, targets, tracked,
                   workVars, destVars, bookVars>>

(* mutant: a failed poll is tried again at once *)
PollFailsAgain(s) ==
    /\ \/ pc[s] = "fetch"
       \/ pc[s] = "poll" /\ cancelled
    /\ Goto(s, "poll")
    /\ UNCHANGED <<storeVars, mainVars, at, next, page, more, pages, targets,
                   tracked, workVars, destVars, bookVars>>

(* Poll fails, at once when the context is already cancelled: the cursor  *)
(* stays and an eager drain ends (guard 2).                                *)
PollFails(s) ==
    /\ \/ pc[s] = "fetch"
       \/ pc[s] = "poll" /\ cancelled
    /\ Goto(s, "tick")
    /\ more' = [more EXCEPT ![s] = FALSE]
    /\ pages' = [pages EXCEPT ![s] = 0]
    /\ UNCHANGED <<storeVars, mainVars, at, next, page, targets, tracked,
                   workVars, destVars, bookVars>>

NextPageSame(s) == pages[s]        \* mutant: pages are not counted
NextPage(s) == pages[s] + 1

(* mutant: no guard 1 *)
DrainsOnUnmoved(s) == more[s] /\ NextPage(s) < MaxEagerPages

(* drain's loop: whether another page follows at once.  guard 1 ends it on *)
(* a page that left the cursor where it was, except on the first one.      *)
DrainsOn(s) ==
    /\ more[s]
    /\ NextPage(s) < MaxEagerPages
    /\ pages[s] = 0 \/ next[s] # at[s]

PageDoneEarly(s) == TRUE           \* mutant: saved before dispatch
PageDone(s) == page[s] = <<>>

(* The page is dispatched.  A cursor that moved is saved, which a cancelled *)
(* context refuses; the poller goes on with the new one either way.         *)
Save(s) ==
    /\ pc[s] = "mark"
    /\ PageDone(s)
    /\ \/ /\ next[s] = at[s]
          /\ UNCHANGED <<cursor, faults>>
       \/ /\ next[s] # at[s]
          /\ ~cancelled
          /\ cursor' = [cursor EXCEPT ![s] = next[s]]
          /\ UNCHANGED faults
       \/ /\ next[s] # at[s]
          /\ cancelled \/ MayFail
          /\ faults' = IF cancelled THEN faults ELSE faults + 1
          /\ UNCHANGED cursor
    /\ at' = [at EXCEPT ![s] = next[s]]
    /\ IF DrainsOn(s)
       THEN /\ Goto(s, "pause")
            /\ pages' = [pages EXCEPT ![s] = NextPage(s)]
            /\ UNCHANGED more
       ELSE /\ Goto(s, "tick")
            /\ pages' = [pages EXCEPT ![s] = 0]
            /\ more' = [more EXCEPT ![s] = FALSE]
    /\ UNCHANGED <<seen, audit, mainVars, next, page, targets, tracked,
                   workVars, destVars, sweeps, restarts, gaps, exposed>>

(* The pause between eager pages ends by itself, or on shutdown. *)
Pause(s) ==
    /\ pc[s] = "pause"
    /\ \/ /\ Goto(s, "poll")
          /\ UNCHANGED <<more, pages>>
       \/ /\ cancelled
          /\ Goto(s, "tick")
          /\ more' = [more EXCEPT ![s] = FALSE]
          /\ pages' = [pages EXCEPT ![s] = 0]
    /\ UNCHANGED <<storeVars, mainVars, at, next, page, targets, tracked,
                   workVars, destVars, bookVars>>

(* poll's select: the tick, *)
Tick(s) ==
    /\ pc[s] = "tick"
    /\ Goto(s, "poll")
    /\ UNCHANGED <<storeVars, mainVars, at, next, page, more, pages, targets,
                   tracked, workVars, destVars, bookVars>>

(* or the context.  With both ready select takes either. *)
StopPoller(s) ==
    /\ pc[s] = "tick"
    /\ cancelled
    /\ Goto(s, "done")
    /\ UNCHANGED <<storeVars, mainVars, at, next, page, more, pages, targets,
                   tracked, workVars, destVars, bookVars>>

-----------------------------------------------------------------------------
(* dispatch: the events of a page, one destination after the other. *)

Ev(s)  == Head(page[s])
Dst(s) == Head(targets[s])

(* The head of the page becomes a decision, one debt per target. *)
Accept(s) ==
    /\ Goto(s, "target")
    /\ targets' = [targets EXCEPT ![s] = TargetsOf(Ev(s))]
    /\ UNCHANGED page

(* The head of targets is dealt with; after the last one, the next event. *)
Advance(s) ==
    /\ targets' = [targets EXCEPT ![s] = Tail(@)]
    /\ tracked' = [tracked EXCEPT ![s] = FALSE]
    /\ IF Tail(targets[s]) = <<>>
       THEN /\ Goto(s, "mark")
            /\ page' = [page EXCEPT ![s] = Tail(@)]
       ELSE /\ Goto(s, "target")
            /\ UNCHANGED page

IsNewAlways(s) == TRUE             \* mutant: no dedupe
IsNew(s) == <<s, Ev(s)>> \notin seen

MarkNew(s) ==
    /\ pc[s] = "mark"
    /\ page[s] # <<>>
    /\ ~cancelled
    /\ IsNew(s)
    /\ seen' = seen \cup {<<s, Ev(s)>>}
    /\ Accept(s)
    /\ UNCHANGED <<cursor, audit, mainVars, at, next, more, pages, tracked,
                   workVars, destVars, bookVars>>

MarkDuplicate(s) ==
    /\ pc[s] = "mark"
    /\ page[s] # <<>>
    /\ ~cancelled
    /\ ~IsNew(s)
    /\ page' = [page EXCEPT ![s] = Tail(@)]
    /\ UNCHANGED <<storeVars, mainVars, pc, at, next, more, pages, targets,
                   tracked, workVars, destVars, bookVars>>

(* "dedupe check failed, delivering anyway": always so once cancelled. *)
MarkFails(s) ==
    /\ pc[s] = "mark"
    /\ page[s] # <<>>
    /\ cancelled \/ MayFail
    /\ faults' = IF cancelled THEN faults ELSE faults + 1
    /\ exposed' = exposed \cup {<<s, Ev(s)>>}
    /\ Accept(s)
    /\ UNCHANGED <<storeVars, mainVars, at, next, more, pages, tracked,
                   workVars, destVars, sweeps, restarts, gaps>>

(* No rule matched, or the name is not an output: a drop and nothing else. *)
DropUnroutable(s) ==
    /\ pc[s] = "target"
    /\ Dst(s) \notin Outputs
    /\ Audit(<<Ev(s), Dst(s)>>,
             Dropped(0, IF Dst(s) = NoOutput THEN "no matching rule"
                                             ELSE "no such output"))
    /\ Advance(s)
    /\ UNCHANGED <<cursor, seen, mainVars, at, next, more, pages,
                   workVars, destVars, sweeps, restarts, exposed>>

TracksBlocked(s) == Block(s)       \* mutant: behind() is not asked
Tracks(s) == Block(s) \/ Behind(Dst(s))

(* block || d.behind(), under the lock of the output *)
Check(s) ==
    /\ pc[s] = "target"
    /\ Dst(s) \in Outputs
    /\ tracked' = [tracked EXCEPT ![s] = Tracks(s)]
    /\ Goto(s, IF Tracks(s) THEN "track" ELSE "offer")
    /\ UNCHANGED <<storeVars, mainVars, at, next, page, more, pages, targets,
                   workVars, destVars, bookVars>>

RaisedFlag(o) == 1                 \* mutant: a flag where a count is needed
Raised(o) == outstanding[o] + 1

(* d.track(), under the lock again: another goroutine may have come between *)
Track(s) ==
    /\ pc[s] = "track"
    /\ outstanding' = [outstanding EXCEPT ![Dst(s)] = Raised(Dst(s))]
    /\ Goto(s, "offer")
    /\ UNCHANGED <<storeVars, mainVars, at, next, page, more, pages, targets,
                   tracked, workVars, queue, bookVars>>

(* The send on the channel, of the first select or of the second. *)
Enqueue(s) ==
    /\ pc[s] \in {"offer", "wait"}
    /\ HasRoom(Dst(s))
    /\ queue' = [queue EXCEPT ![Dst(s)] =
                    Append(@, [event |-> Ev(s), tracked |-> tracked[s]])]
    /\ Advance(s)
    /\ UNCHANGED <<storeVars, mainVars, at, next, more, pages,
                   workVars, outstanding, bookVars>>

(* The queue is full.  Live polling drops, *)
DropFull(s) ==
    /\ pc[s] = "offer"
    /\ ~HasRoom(Dst(s))
    /\ ~tracked[s]
    /\ Audit(<<Ev(s), Dst(s)>>, Dropped(0, "queue full"))
    /\ Advance(s)
    /\ UNCHANGED <<cursor, seen, mainVars, at, next, more, pages,
                   workVars, destVars, sweeps, restarts, exposed>>

(* backpressure waits, *)
Wait(s) ==
    /\ pc[s] = "offer"
    /\ ~HasRoom(Dst(s))
    /\ tracked[s]
    /\ Goto(s, "wait")
    /\ UNCHANGED <<storeVars, mainVars, at, next, page, more, pages, targets,
                   tracked, workVars, destVars, bookVars>>

GivenUp(o) == outstanding[o] - 1

(* and shutdown ends the wait. *)
GiveUp(s) ==
    /\ pc[s] = "wait"
    /\ cancelled
    /\ outstanding' = [outstanding EXCEPT ![Dst(s)] = GivenUp(Dst(s))]
    /\ Audit(<<Ev(s), Dst(s)>>, Dropped(0, "shut down before delivery"))
    /\ Advance(s)
    /\ UNCHANGED <<cursor, seen, mainVars, at, next, more, pages,
                   workVars, queue, sweeps, restarts, exposed>>

=============================================================================
