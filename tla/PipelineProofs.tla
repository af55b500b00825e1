--------------------------- MODULE PipelineProofs ---------------------------
(***************************************************************************)
(* Proofs about Pipeline, for any sets of adapters and outputs, any feeds, *)
(* routes, buffers and bounds: outstanding is exact, the cursor is never   *)
(* ahead of dispatch, a drain moves, shutdown leaves nothing in a channel, *)
(* no poller drops behind a backlog of its own, neither a worker nor a     *)
(* poller has more to do than its measure says.                            *)
(***************************************************************************)
EXTENDS Pipeline, TLAPS, FiniteSetTheorems, SequenceTheorems

(* What the program counters say about the data: a poller in dispatch has  *)
(* an event and a target, one that is enqueueing has an output for it, one *)
(* that waits was counted, and an idle worker holds nothing.               *)
PollControl ==
    \A s \in Sources :
        /\ Dispatching(s) => page[s] # <<>> /\ targets[s] # <<>>
        /\ pc[s] \in {"track", "offer", "wait"} => Dst(s) \in Outputs
        /\ pc[s] \in {"track", "wait"} => tracked[s]

WorkControl ==
    \A o \in Outputs : wpc[o] \in {"recv", "done"} => held[o] = NoItem

IInv == TypeOK /\ PollControl /\ WorkControl

-----------------------------------------------------------------------------
(* Every event has a target, its own empty name if nothing else. *)
LEMMA TargetsOfType ==
    ASSUME NEW e \in Events
    PROVE  /\ TargetsOf(e) \in Seq(Names \cup {NoOutput})
           /\ TargetsOf(e) # <<>>
  <1>1. Route[e] \in Seq(Names)
    BY RouteAssumption
  <1>2. CASE Route[e] = <<>>
    BY <1>2 DEF TargetsOf
  <1>3. CASE Route[e] # <<>>
    <2>1. Route[e] \in Seq(Names \cup {NoOutput})
      BY <1>1
    <2> QED BY <2>1, <1>3 DEF TargetsOf
  <1> QED BY <1>2, <1>3

LEMMA NoItemType == NoItem \in Item /\ ~NoItem.tracked
  BY RouteAssumption DEF NoItem, Item

LEMMA NoRowType == NoRow \in Row
  BY DEF NoRow, Dropped, Row, Status, Cause

LEMMA TypeInit == Init => IInv
  <1> SUFFICES ASSUME Init PROVE IInv
    OBVIOUS
  <1>1. StoreType
    BY DEF StoreType, Init
  <1>2. MainType /\ BookType
    BY DEF MainType, BookType, Init
  <1>3. PollType
    BY BoundsAssumption DEF PollType, Init
  <1>4. DestType
    BY OutputsAssumption DEF DestType, Init
  <1>5. WorkType
    BY OutputsAssumption, NoItemType, NoRowType DEF WorkType, Init
  <1>6. PollControl /\ WorkControl
    BY DEF PollControl, WorkControl, Dispatching, Init
  <1> QED BY <1>1, <1>2, <1>3, <1>4, <1>5, <1>6 DEF IInv, TypeOK

(* A part of the invariant speaks of one group of variables only. *)
LEMMA Frame ==
    ASSUME IInv
    PROVE  /\ UNCHANGED storeVars => StoreType'
           /\ UNCHANGED mainVars => MainType'
           /\ UNCHANGED pollVars => PollType' /\ PollControl'
           /\ UNCHANGED destVars => DestType'
           /\ UNCHANGED workVars => WorkType' /\ WorkControl'
           /\ UNCHANGED bookVars => BookType'
  <1> USE DEF IInv, TypeOK
  <1>1. UNCHANGED storeVars => StoreType'
    BY DEF storeVars, StoreType
  <1>2. UNCHANGED mainVars => MainType'
    BY DEF mainVars, MainType
  <1>3. UNCHANGED pollVars => PollType'
    BY DEF pollVars, PollType
  <1>4. UNCHANGED pollVars => PollControl'
    BY DEF pollVars, PollControl, Dispatching, Dst
  <1>5. UNCHANGED destVars => DestType'
    BY DEF destVars, DestType
  <1>6. UNCHANGED workVars => WorkType'
    BY DEF workVars, WorkType
  <1>7. UNCHANGED workVars => WorkControl'
    BY DEF workVars, WorkControl
  <1>8. UNCHANGED bookVars => BookType'
    BY DEF bookVars, BookType
  <1> QED BY <1>1, <1>2, <1>3, <1>4, <1>5, <1>6, <1>7, <1>8

LEMMA NoPages == 0 \in 0..(MaxEagerPages - 1)
  BY BoundsAssumption

(* The poller actions outside dispatch. *)
LEMMA PollStep ==
    ASSUME IInv, NEW s \in Sources,
           StartPoller(s) \/ CallPoll(s) \/ PollOK(s) \/ PollFails(s)
           \/ Save(s) \/ Pause(s) \/ Tick(s) \/ StopPoller(s)
    PROVE  IInv'
  <1> USE DEF IInv, TypeOK, Goto
  <1>1. CASE StartPoller(s)
    <2>1. PollType'
      <3>1. pc' \in [Sources -> {"start", "poll", "fetch", "mark", "target", "track",
                                "offer", "wait", "pause", "tick", "done"}]
        BY <1>1 DEF StartPoller, PollType
      <3>2. at' \in [Sources -> Nat]
        <4>1. cursor \in [Sources -> Nat] /\ at \in [Sources -> Nat]
          BY DEF PollType, StoreType
        <4>2. at' = [at EXCEPT ![s] = cursor[s]] \/ at' = [at EXCEPT ![s] = 0]
          BY <1>1 DEF StartPoller
        <4> QED BY <4>1, <4>2
      <3>3. PollType /\ UNCHANGED <<next, page, more, pages, targets, tracked>>
        BY <1>1 DEF StartPoller
      <3> QED BY <3>1, <3>2, <3>3 DEF PollType
    <2>2. PollControl'
      BY <1>1 DEF StartPoller, PollControl, PollType, Dispatching, Dst
    <2>3. BookType'
      BY <1>1 DEF StartPoller, BookType
    <2> QED BY <1>1, <2>1, <2>2, <2>3, Frame DEF StartPoller
  <1>2. CASE CallPoll(s)
    <2>1. PollType'
      BY <1>2 DEF CallPoll, PollType
    <2>2. PollControl'
      BY <1>2 DEF CallPoll, PollControl, PollType, Dispatching, Dst
    <2> QED BY <1>2, <2>1, <2>2, Frame DEF CallPoll
  <1>3. CASE PollOK(s)
    <2>1. PollType'
      <3>1. PICK n \in 0..PageLimit[s] :
              /\ at[s] + n <= Len(Feed[s])
              /\ page' = [page EXCEPT ![s] = SubSeq(Feed[s], at[s] + 1, at[s] + n)]
              /\ next' = [next EXCEPT ![s] = IF at[s] \in StuckAt[s]
                                             THEN at[s] ELSE at[s] + n]
              /\ more' = [more EXCEPT ![s] = s \in Backloggers /\ n = PageLimit[s]]
        BY <1>3 DEF PollOK
      <3>2. n \in Nat /\ at[s] \in Nat /\ Feed[s] \in Seq(Events)
        BY SourcesAssumption DEF PollType
      <3>3. SubSeq(Feed[s], at[s] + 1, at[s] + n) \in Seq(Events)
        BY <3>1, <3>2
      <3>4. page' \in [Sources -> Seq(Events)]
        BY <3>1, <3>3 DEF PollType
      <3>5. next' \in [Sources -> Nat]
        BY <3>1, <3>2 DEF PollType
      <3>6. more' \in [Sources -> BOOLEAN]
        BY <3>1 DEF PollType
      <3> QED BY <1>3, <3>4, <3>5, <3>6 DEF PollOK, PollType
    <2>2. PollControl'
      BY <1>3 DEF PollOK, PollControl, PollType, Dispatching, Dst
    <2> QED BY <1>3, <2>1, <2>2, Frame DEF PollOK
  <1>4. CASE PollFails(s)
    <2>1. PollType'
      BY <1>4, NoPages DEF PollFails, PollType
    <2>2. PollControl'
      BY <1>4 DEF PollFails, PollControl, PollType, Dispatching, Dst
    <2> QED BY <1>4, <2>1, <2>2, Frame DEF PollFails
  <1>5. CASE Save(s)
    <2>1. PollType'
      <3>1. ASSUME DrainsOn(s) PROVE pages' \in [Sources -> 0..(MaxEagerPages - 1)]
        <4>1. NextPage(s) \in 0..(MaxEagerPages - 1)
          BY <3>1, BoundsAssumption DEF DrainsOn, NextPage, PollType
        <4> QED BY <1>5, <3>1, <4>1 DEF Save, PollType
      <3>2. ASSUME ~DrainsOn(s) PROVE pages' \in [Sources -> 0..(MaxEagerPages - 1)]
        BY <1>5, <3>2, NoPages DEF Save, PollType
      <3>3. pages' \in [Sources -> 0..(MaxEagerPages - 1)]
        BY <3>1, <3>2
      <3>4. pc' \in [Sources -> {"start", "poll", "fetch", "mark", "target", "track",
                                "offer", "wait", "pause", "tick", "done"}]
        <4>1. pc' = [pc EXCEPT ![s] = "pause"] \/ pc' = [pc EXCEPT ![s] = "tick"]
          BY <1>5 DEF Save
        <4> QED BY <4>1 DEF PollType
      <3>5. at' \in [Sources -> Nat] /\ more' \in [Sources -> BOOLEAN]
        BY <1>5 DEF Save, PollType
      <3>6. PollType /\ UNCHANGED <<next, page, targets, tracked>>
        BY <1>5 DEF Save
      <3> QED BY <3>3, <3>4, <3>5, <3>6 DEF PollType
    <2>2. PollControl'
      BY <1>5 DEF Save, PollControl, PollType, Dispatching, Dst
    <2>3. StoreType'
      BY <1>5 DEF Save, StoreType, PollType
    <2>4. BookType'
      BY <1>5 DEF Save, BookType
    <2> QED BY <1>5, <2>1, <2>2, <2>3, <2>4, Frame DEF Save
  <1>6. CASE Pause(s)
    <2>1. PollType'
      <3>1. CASE Goto(s, "poll") /\ UNCHANGED <<more, pages>>
        BY <1>6, <3>1 DEF Pause, PollType
      <3>2. CASE /\ Goto(s, "tick")
                 /\ more' = [more EXCEPT ![s] = FALSE]
                 /\ pages' = [pages EXCEPT ![s] = 0]
        BY <1>6, <3>2, NoPages DEF Pause, PollType
      <3> QED BY <1>6, <3>1, <3>2 DEF Pause
    <2>2. PollControl'
      BY <1>6 DEF Pause, PollControl, PollType, Dispatching, Dst
    <2> QED BY <1>6, <2>1, <2>2, Frame DEF Pause
  <1>7. CASE Tick(s)
    <2>1. PollType'
      BY <1>7 DEF Tick, PollType
    <2>2. PollControl'
      BY <1>7 DEF Tick, PollControl, PollType, Dispatching, Dst
    <2> QED BY <1>7, <2>1, <2>2, Frame DEF Tick
  <1>8. CASE StopPoller(s)
    <2>1. PollType'
      BY <1>8 DEF StopPoller, PollType
    <2>2. PollControl'
      BY <1>8 DEF StopPoller, PollControl, PollType, Dispatching, Dst
    <2> QED BY <1>8, <2>1, <2>2, Frame DEF StopPoller
  <1> QED BY <1>1, <1>2, <1>3, <1>4, <1>5, <1>6, <1>7, <1>8

(* Writing a row keeps the store and the bookkeeping well typed. *)
LEMMA AuditType ==
    ASSUME IInv, NEW k \in Key, NEW row \in Row, Audit(k, row),
           UNCHANGED <<cursor, seen, sweeps, restarts, exposed>>
    PROVE  StoreType' /\ BookType'
  <1>1. Append(audit[k], row) \in Seq(Row)
    BY DEF IInv, TypeOK, StoreType
  <1>2. StoreType'
    BY <1>1 DEF Audit, IInv, TypeOK, StoreType
  <1>3. BookType'
    BY DEF Audit, MayFail, IInv, TypeOK, BookType
  <1> QED BY <1>2, <1>3

(* Taking the head of the page and of the targets. *)
LEMMA HeadsType ==
    ASSUME IInv, NEW s \in Sources
    PROVE  /\ page[s] # <<>> => /\ Ev(s) \in Events
                               /\ Tail(page[s]) \in Seq(Events)
           /\ targets[s] # <<>> => /\ Dst(s) \in Names \cup {NoOutput}
                                  /\ Tail(targets[s]) \in Seq(Names \cup {NoOutput})
  BY DEF IInv, TypeOK, PollType, Ev, Dst

LEMMA AcceptStep ==
    ASSUME IInv, NEW s \in Sources, page[s] # <<>>, Accept(s),
           UNCHANGED <<at, next, more, pages, tracked>>
    PROVE  PollType' /\ PollControl'
  <1>1. /\ TargetsOf(Ev(s)) \in Seq(Names \cup {NoOutput})
        /\ TargetsOf(Ev(s)) # <<>>
    BY HeadsType, TargetsOfType
  <1>2. PollType'
    BY <1>1 DEF Accept, Goto, IInv, TypeOK, PollType
  <1>3. PollControl'
    BY <1>1 DEF Accept, Goto, IInv, TypeOK, PollType, PollControl, Dispatching, Dst
  <1> QED BY <1>2, <1>3

LEMMA AdvanceStep ==
    ASSUME IInv, NEW s \in Sources, Dispatching(s), Advance(s),
           UNCHANGED <<at, next, more, pages>>
    PROVE  PollType' /\ PollControl'
  <1>1. /\ page[s] # <<>> /\ targets[s] # <<>>
        /\ Tail(targets[s]) \in Seq(Names \cup {NoOutput})
        /\ Tail(page[s]) \in Seq(Events)
    BY HeadsType DEF IInv, PollControl
  <1>2. CASE Tail(targets[s]) = <<>>
    <2>1. PollType'
      BY <1>1, <1>2 DEF Advance, Goto, IInv, TypeOK, PollType
    <2>2. PollControl'
      BY <1>1, <1>2 DEF Advance, Goto, IInv, TypeOK, PollType, PollControl, Dispatching, Dst
    <2> QED BY <2>1, <2>2
  <1>3. CASE Tail(targets[s]) # <<>>
    <2>1. PollType'
      BY <1>1, <1>3 DEF Advance, Goto, IInv, TypeOK, PollType
    <2>2. PollControl'
      BY <1>1, <1>3 DEF Advance, Goto, IInv, TypeOK, PollType, PollControl, Dispatching, Dst
    <2> QED BY <2>1, <2>2
  <1> QED BY <1>2, <1>3

(* The actions of dispatch. *)
LEMMA DispatchStep ==
    ASSUME IInv, NEW s \in Sources, Dispatch(s)
    PROVE  IInv'
  <1> USE DEF IInv, TypeOK
  <1> DEFINE k == <<Ev(s), Dst(s)>>
  <1>k. Dispatching(s) => k \in Key /\ Dst(s) \in Names \cup {NoOutput}
    BY HeadsType DEF PollControl, Key
  <1>1. CASE MarkNew(s)
    <2>1. PollType' /\ PollControl'
      BY <1>1, AcceptStep DEF MarkNew
    <2>2. StoreType'
      BY <1>1, HeadsType DEF MarkNew, StoreType
    <2> QED BY <1>1, <2>1, <2>2, Frame DEF MarkNew
  <1>2. CASE MarkDuplicate(s)
    <2>1. PollType'
      BY <1>2, HeadsType DEF MarkDuplicate, PollType
    <2>2. PollControl'
      BY <1>2 DEF MarkDuplicate, PollType, PollControl, Dispatching, Dst
    <2> QED BY <1>2, <2>1, <2>2, Frame DEF MarkDuplicate
  <1>3. CASE MarkFails(s)
    <2>1. PollType' /\ PollControl'
      BY <1>3, AcceptStep DEF MarkFails
    <2>2. BookType'
      BY <1>3, HeadsType DEF MarkFails, BookType
    <2> QED BY <1>3, <2>1, <2>2, Frame DEF MarkFails
  <1>4. CASE DropUnroutable(s)
    <2>1. Dispatching(s)
      BY <1>4 DEF DropUnroutable, Dispatching
    <2>2. PollType' /\ PollControl'
      BY <1>4, <2>1, AdvanceStep DEF DropUnroutable
    <2>3. PICK row \in Row : Audit(k, row)
      BY <1>4 DEF DropUnroutable, Dropped, Row, Status, Cause
    <2>4. StoreType' /\ BookType'
      BY <1>4, <1>k, <2>1, <2>3, AuditType DEF DropUnroutable
    <2> QED BY <1>4, <2>2, <2>4, Frame DEF DropUnroutable
  <1>5. CASE Check(s)
    <2>1. Tracks(s) \in BOOLEAN
      BY DEF Tracks, Block, Behind, PollType
    <2>2. PollType'
      BY <1>5, <2>1 DEF Check, Goto, PollType
    <2>3. PollControl'
      BY <1>5, <2>1 DEF Check, Goto, PollType, PollControl, Dispatching, Dst
    <2> QED BY <1>5, <2>2, <2>3, Frame DEF Check
  <1>6. CASE Track(s)
    <2>1. PollType'
      BY <1>6 DEF Track, Goto, PollType
    <2>2. PollControl'
      BY <1>6 DEF Track, Goto, PollType, PollControl, Dispatching, Dst
    <2>3. DestType'
      BY <1>6 DEF Track, Raised, DestType, PollControl
    <2> QED BY <1>6, <2>1, <2>2, <2>3, Frame DEF Track
  <1>7. CASE Enqueue(s)
    <2>1. Dispatching(s) /\ Dst(s) \in Outputs
      BY <1>7 DEF Enqueue, Dispatching, PollControl
    <2>2. PollType' /\ PollControl'
      BY <1>7, <2>1, AdvanceStep DEF Enqueue
    <2> DEFINE x == [event |-> Ev(s), tracked |-> tracked[s]]
    <2>3. x \in Item
      BY <2>1, HeadsType DEF Item, PollType, PollControl
    <2>4. /\ queue[Dst(s)] \in Seq(Item)
          /\ Len(queue[Dst(s)]) < Buffer[Dst(s)]
          /\ Buffer[Dst(s)] \in Nat
      BY <1>7, <2>1, OutputsAssumption DEF Enqueue, HasRoom, DestType
    <2>5. /\ Append(queue[Dst(s)], x) \in Seq(Item)
          /\ Len(Append(queue[Dst(s)], x)) <= Buffer[Dst(s)]
      BY <2>3, <2>4
    <2>6. DestType'
      BY <1>7, <2>1, <2>5 DEF Enqueue, DestType
    <2> QED BY <1>7, <2>2, <2>6, Frame DEF Enqueue
  <1>8. CASE DropFull(s)
    <2>1. Dispatching(s)
      BY <1>8 DEF DropFull, Dispatching
    <2>2. PollType' /\ PollControl'
      BY <1>8, <2>1, AdvanceStep DEF DropFull
    <2>3. PICK row \in Row : Audit(k, row)
      BY <1>8 DEF DropFull, Dropped, Row, Status, Cause
    <2>4. StoreType' /\ BookType'
      BY <1>8, <1>k, <2>1, <2>3, AuditType DEF DropFull
    <2> QED BY <1>8, <2>2, <2>4, Frame DEF DropFull
  <1>9. CASE Wait(s)
    <2>1. PollType'
      BY <1>9 DEF Wait, Goto, PollType
    <2>2. PollControl'
      BY <1>9 DEF Wait, Goto, PollType, PollControl, Dispatching, Dst
    <2> QED BY <1>9, <2>1, <2>2, Frame DEF Wait
  <1>10. CASE GiveUp(s)
    <2>1. Dispatching(s) /\ Dst(s) \in Outputs
      BY <1>10 DEF GiveUp, Dispatching, PollControl
    <2>2. PollType' /\ PollControl'
      BY <1>10, <2>1, AdvanceStep DEF GiveUp
    <2>3. PICK row \in Row : Audit(k, row)
      BY <1>10 DEF GiveUp, Dropped, Row, Status, Cause
    <2>4. StoreType' /\ BookType'
      BY <1>10, <1>k, <2>1, <2>3, AuditType DEF GiveUp
    <2>5. GivenUp(Dst(s)) \in Int
      BY <2>1 DEF GivenUp, DestType
    <2>6. DestType'
      BY <1>10, <2>5 DEF GiveUp, DestType
    <2> QED BY <1>10, <2>2, <2>4, <2>6, Frame DEF GiveUp
  <1> QED BY <1>1, <1>2, <1>3, <1>4, <1>5, <1>6, <1>7, <1>8, <1>9, <1>10 DEF Dispatch

(* The actions of a worker. *)
LEMMA WorkStep ==
    ASSUME IInv, NEW o \in Outputs, Worker(o)
    PROVE  IInv'
  <1> USE DEF IInv, TypeOK, WGoto
  <1>m. MaxAttempts[o] \in Nat \ {0} /\ attempt[o] \in Nat /\ attempt[o] <= MaxAttempts[o]
    BY OutputsAssumption DEF WorkType
  <1>1. CASE Receive(o)
    <2>0. /\ queue[o] \in Seq(Item) /\ queue[o] # <<>>
          /\ Len(queue[o]) <= Buffer[o] /\ Buffer[o] \in Nat
      BY <1>1, OutputsAssumption DEF Receive, DestType
    <2>1. /\ Head(queue[o]) \in Item
          /\ Tail(queue[o]) \in Seq(Item)
          /\ Len(Tail(queue[o])) <= Buffer[o]
      BY <2>0
    <2>2. DestType'
      BY <1>1, <2>1 DEF Receive, DestType
    <2>3. WorkType'
      BY <1>1, <2>1 DEF Receive, WorkType
    <2>4. WorkControl'
      BY <1>1 DEF Receive, WorkType, WorkControl
    <2> QED BY <1>1, <2>2, <2>3, <2>4, Frame DEF Receive
  <1>2. CASE StopWorker(o)
    <2>1. WorkType'
      BY <1>2 DEF StopWorker, WorkType
    <2>2. WorkControl'
      BY <1>2 DEF StopWorker, WorkType, WorkControl
    <2> QED BY <1>2, <2>1, <2>2, Frame DEF StopWorker
  <1>3. CASE Begin(o)
    <2>1. Dropped(0, "shut down before delivery") \in Row
      BY DEF Dropped, Row, Status, Cause
    <2>2. WorkType'
      <3>1. CASE stopping
        BY <1>3, <2>1, <3>1 DEF Begin, Decide, WorkType
      <3>2. CASE ~stopping
        <4>1. 1 \in Nat /\ 1 <= MaxAttempts[o]
          BY <1>m
        <4> QED BY <1>3, <3>2, <4>1 DEF Begin, WorkType
      <3> QED BY <3>1, <3>2
    <2>3. WorkControl'
      BY <1>3 DEF Begin, Decide, WorkType, WorkControl
    <2> QED BY <1>3, <2>2, <2>3, Frame DEF Begin
  <1>4. CASE SendDecides(o)
    <2>1. PICK row \in Row : Decide(o, row)
      BY <1>4, <1>m DEF SendDecides, Row, Status, Cause
    <2>2. WorkType'
      BY <1>4, <2>1 DEF SendDecides, Decide, WorkType
    <2>3. WorkControl'
      BY <1>4, <2>1 DEF SendDecides, Decide, WorkType, WorkControl
    <2> QED BY <1>4, <2>2, <2>3, Frame DEF SendDecides
  <1>5. CASE SendFails(o)
    <2>1. CASE \E row \in Row : Decide(o, row)
      <3>1. WorkType'
        BY <1>5, <2>1 DEF SendFails, Decide, WorkType
      <3>2. WorkControl'
        BY <1>5, <2>1 DEF SendFails, Decide, WorkType, WorkControl
      <3> QED BY <1>5, <3>1, <3>2, Frame DEF SendFails
    <2>2. CASE attempt[o] < MaxAttempts[o] /\ WGoto(o, "backoff") /\ UNCHANGED verdict
      <3>1. WorkType'
        BY <1>5, <2>2 DEF SendFails, WorkType
      <3>2. WorkControl'
        BY <1>5, <2>2 DEF SendFails, WorkType, WorkControl
      <3> QED BY <1>5, <3>1, <3>2, Frame DEF SendFails
    <2> QED BY <1>5, <1>m, <2>1, <2>2 DEF SendFails, Dropped, Row, Status, Cause
  <1>6. CASE Backoff(o)
    <2>1. CASE /\ WGoto(o, "send") /\ UNCHANGED verdict
               /\ attempt' = [attempt EXCEPT ![o] = attempt[o] + 1]
      <3>0. attempt[o] < MaxAttempts[o]
        BY <1>6 DEF Backoff, WorkType
      <3>1. attempt[o] + 1 \in Nat /\ attempt[o] + 1 <= MaxAttempts[o]
        BY <1>m, <3>0
      <3>2. WorkType'
        BY <1>6, <2>1, <3>1 DEF Backoff, WorkType
      <3>3. WorkControl'
        BY <1>6, <2>1 DEF Backoff, WorkType, WorkControl
      <3> QED BY <1>6, <3>2, <3>3, Frame DEF Backoff
    <2>2. CASE UNCHANGED attempt /\ \E row \in Row : Decide(o, row)
      <3>1. WorkType'
        BY <1>6, <2>2 DEF Backoff, Decide, WorkType
      <3>2. WorkControl'
        BY <1>6, <2>2 DEF Backoff, Decide, WorkType, WorkControl
      <3> QED BY <1>6, <3>1, <3>2, Frame DEF Backoff
    <2> QED BY <1>6, <1>m, <2>1, <2>2 DEF Backoff, NextAttempt, Dropped, Row, Status, Cause
  <1>7. CASE RecordVerdict(o)
    <2>1. verdict[o] \in Row
      BY DEF WorkType
    <2>2. WorkType'
      BY <1>7 DEF RecordVerdict, WorkType
    <2>3. WorkControl'
      BY <1>7 DEF RecordVerdict, WorkType, WorkControl
    <2>4. <<held[o].event, o>> \in Key
      BY OutputsAssumption DEF WorkType, Item, Key
    <2>5. StoreType' /\ BookType'
      BY <1>7, <2>1, <2>4, AuditType DEF RecordVerdict
    <2> QED BY <1>7, <2>2, <2>3, <2>5, Frame DEF RecordVerdict
  <1>8. CASE Settle(o)
    <2>1. WorkType'
      BY <1>8, <1>m, NoItemType, NoRowType DEF Settle, WorkType
    <2>2. WorkControl'
      BY <1>8 DEF Settle, WorkType, WorkControl
    <2>3. DestType'
      BY <1>8 DEF Settle, Settled, DestType
    <2> QED BY <1>8, <2>1, <2>2, <2>3, Frame DEF Settle
  <1> QED BY <1>1, <1>2, <1>3, <1>4, <1>5, <1>6, <1>7, <1>8 DEF Worker

(* The actions of Run, the sweeper and the world outside. *)
LEMMA RunStep ==
    ASSUME IInv, Main \/ Cancel \/ Sweep \/ Restart \/ Stopped
    PROVE  IInv'
  <1> USE DEF IInv, TypeOK
  <1>1. CASE Main \/ Cancel
    <2> USE DEF Main, Cancel, StopSweeper, CloseQueues, DrainTimeout, Finish
    <2>1. MainType'
      BY <1>1 DEF MainType
    <2> QED BY <1>1, <2>1, Frame
  <1>2. CASE Sweep
    <2>1. StoreType'
      BY <1>2 DEF Sweep, StoreType
    <2>2. BookType'
      BY <1>2 DEF Sweep, StoreType, BookType
    <2> QED BY <1>2, <2>1, <2>2, Frame DEF Sweep
  <1>3. CASE Restart
    <2>0. StoreType'
      BY <1>3, Frame DEF Restart
    <2>1. MainType'
      BY <1>3 DEF Restart, MainType
    <2>6. BookType'
      <3> DEFINE lost == {k \in Key : Owed(k) > 0}
      <3>1. lost \subseteq Key
        OBVIOUS
      <3>2. /\ gaps' = gaps \cup lost
            /\ restarts' = restarts + 1
            /\ UNCHANGED <<faults, sweeps, exposed>>
        BY <1>3 DEF Restart
      <3> HIDE DEF lost
      <3> QED BY <3>1, <3>2 DEF BookType
    <2>2. PollType'
      BY <1>3, NoPages DEF Restart, PollType
    <2>3. DestType'
      BY <1>3, OutputsAssumption DEF Restart, DestType
    <2>4. WorkType'
      BY <1>3, OutputsAssumption, NoItemType, NoRowType DEF Restart, WorkType
    <2>5. PollControl' /\ WorkControl'
      BY <1>3 DEF Restart, PollControl, WorkControl, Dispatching
    <2> QED BY <2>0, <2>1, <2>2, <2>3, <2>4, <2>5, <2>6
  <1>4. CASE Stopped
    BY <1>4, Frame DEF Stopped, vars
  <1> QED BY <1>1, <1>2, <1>3, <1>4

LEMMA StepIInv == IInv /\ [Next]_vars => IInv'
  <1> SUFFICES ASSUME IInv, [Next]_vars PROVE IInv'
    OBVIOUS
  <1>1. CASE \E s \in Sources : Poller(s)
    BY <1>1, PollStep, DispatchStep DEF Poller
  <1>2. CASE \E o \in Outputs : Worker(o)
    BY <1>2, WorkStep
  <1>3. CASE Main \/ Cancel \/ Sweep \/ Restart \/ Stopped
    BY <1>3, RunStep
  <1>4. CASE UNCHANGED vars
    BY <1>4, Frame DEF vars, IInv, TypeOK
  <1> QED BY <1>1, <1>2, <1>3, <1>4 DEF Next

LEMMA Inductive == Spec => []IInv
  BY TypeInit, StepIInv, PTL DEF Spec

(* Every variable keeps its type, no channel holds more than its buffer, no *)
(* delivery more attempts than allowed and no drain more pages than the cap.*)
THEOREM TypeCorrect == Spec => []TypeOK
  <1>1. IInv => TypeOK
    BY DEF IInv
  <1> QED BY <1>1, Inductive, PTL

-----------------------------------------------------------------------------
(* Counting the items of a set in a channel. *)

LEMMA PositionsFinite ==
    ASSUME NEW q \in Seq(Item), NEW S
    PROVE  /\ IsFiniteSet(Positions(q, S))
           /\ Cardinality(Positions(q, S)) \in Nat
  <1>1. DOMAIN q = 1..Len(q) /\ Len(q) \in Nat
    OBVIOUS
  <1>2. IsFiniteSet(1..Len(q))
    BY <1>1, FS_Interval
  <1>3. Positions(q, S) \in SUBSET (1..Len(q))
    BY <1>1 DEF Positions
  <1> QED BY <1>2, <1>3, FS_Subset, FS_CardinalityType

LEMMA PositionsAppend ==
    ASSUME NEW q \in Seq(Item), NEW x \in Item, NEW S
    PROVE  Cardinality(Positions(Append(q, x), S)) =
             Cardinality(Positions(q, S)) + (IF x \in S THEN 1 ELSE 0)
  <1> DEFINE n == Len(q) + 1
             P == Positions(q, S)
  <1>1. /\ Len(q) \in Nat
        /\ DOMAIN q = 1..Len(q)
        /\ DOMAIN Append(q, x) = 1..n
        /\ Append(q, x)[n] = x
        /\ \A i \in 1..Len(q) : Append(q, x)[i] = q[i]
    BY AppendProperties
  <1>2. n \notin P
    BY <1>1 DEF Positions
  <1>3. IsFiniteSet(P) /\ Cardinality(P) \in Nat
    BY PositionsFinite
  <1>4. CASE x \in S
    <2>1. Positions(Append(q, x), S) = P \cup {n}
      BY <1>1, <1>4 DEF Positions
    <2> QED BY <1>2, <1>3, <1>4, <2>1, FS_AddElement
  <1>5. CASE x \notin S
    <2>1. Positions(Append(q, x), S) = P
      BY <1>1, <1>5 DEF Positions
    <2> QED BY <1>3, <1>5, <2>1
  <1> QED BY <1>4, <1>5

LEMMA PositionsTail ==
    ASSUME NEW q \in Seq(Item), q # <<>>, NEW S
    PROVE  Cardinality(Positions(q, S)) =
             Cardinality(Positions(Tail(q), S)) + (IF Head(q) \in S THEN 1 ELSE 0)
  <1> DEFINE P == Positions(Tail(q), S)
             R == Positions(q, S) \ {1}
             f == [i \in P |-> i + 1]
  <1>1. /\ Len(q) \in Nat \ {0}
        /\ DOMAIN q = 1..Len(q)
        /\ Tail(q) \in Seq(Item)
        /\ DOMAIN Tail(q) = 1..(Len(q) - 1)
        /\ Head(q) = q[1]
        /\ \A i \in 1..(Len(q) - 1) : Tail(q)[i] = q[i + 1]
    BY HeadTailProperties
  <1>2. /\ IsFiniteSet(P) /\ Cardinality(P) \in Nat
        /\ IsFiniteSet(Positions(q, S)) /\ Cardinality(Positions(q, S)) \in Nat
    BY <1>1, PositionsFinite
  <1>3. f \in Bijection(P, R)
    <2>1. P \subseteq 1..(Len(q) - 1) /\ R \subseteq 2..Len(q)
      BY <1>1 DEF Positions
    <2>2. \A i \in P : i + 1 \in R
      BY <1>1, <2>1 DEF Positions
    <2>3. \A j \in R : j - 1 \in P /\ f[j - 1] = j
      BY <1>1, <2>1 DEF Positions
    <2>4. f \in [P -> R]
      BY <2>2
    <2>5. \A i, j \in P : f[i] = f[j] => i = j
      BY <2>1
    <2> QED BY <2>3, <2>4, <2>5 DEF Bijection, Injection, Surjection, IsInjective
  <1>4. Cardinality(R) = Cardinality(P)
    BY <1>2, <1>3, FS_Bijection DEF ExistsBijection
  <1>5. 1 \in Positions(q, S) <=> Head(q) \in S
    BY <1>1 DEF Positions
  <1> HIDE DEF P, R, f
  <1>6. Cardinality(R) = IF 1 \in Positions(q, S)
                         THEN Cardinality(Positions(q, S)) - 1
                         ELSE Cardinality(Positions(q, S))
    BY <1>2, FS_RemoveElement DEF R
  <1>7. Cardinality(P) = IF Head(q) \in S
                         THEN Cardinality(Positions(q, S)) - 1
                         ELSE Cardinality(Positions(q, S))
    BY <1>4, <1>5, <1>6
  <1> QED BY <1>2, <1>7 DEF P

-----------------------------------------------------------------------------
(* dest.outstanding. *)

Tracking(s, o) == pc[s] \in {"offer", "wait"} /\ tracked[s] /\ Dst(s) = o

Hand(o) == IF held[o].tracked THEN 1 ELSE 0

(* What a step of s does not touch of the other pollers. *)
Others(s) ==
    \A r \in Sources \ {s} : /\ pc'[r] = pc[r]
                             /\ tracked'[r] = tracked[r]
                             /\ targets'[r] = targets[r]

LEMMA TrackingFinite ==
    ASSUME NEW o
    PROVE  /\ IsFiniteSet(PollersTracking(o))
           /\ Cardinality(PollersTracking(o)) \in Nat
  <1>1. PollersTracking(o) \in SUBSET Sources
    BY DEF PollersTracking
  <1> QED BY <1>1, SourcesAssumption, FS_Subset, FS_CardinalityType

(* The number of pollers tracking o follows what s does. *)
LEMMA TrackingMoves ==
    ASSUME NEW s \in Sources, NEW o, Others(s)
    PROVE  Cardinality(PollersTracking(o))' =
             Cardinality(PollersTracking(o))
             + (IF Tracking(s, o)' THEN 1 ELSE 0)
             - (IF Tracking(s, o) THEN 1 ELSE 0)
  <1> DEFINE A == PollersTracking(o) \ {s}
  <1>1. /\ Tracking(s, o) => PollersTracking(o) = A \cup {s}
        /\ ~Tracking(s, o) => PollersTracking(o) = A
    BY DEF PollersTracking, Tracking
  <1>2. /\ Tracking(s, o)' => PollersTracking(o)' = A \cup {s}
        /\ ~Tracking(s, o)' => PollersTracking(o)' = A
    BY DEF PollersTracking, Tracking, Others, Dst
  <1>3. IsFiniteSet(A) /\ Cardinality(A) \in Nat /\ s \notin A
    BY TrackingFinite, FS_RemoveElement, FS_CardinalityType
  <1> HIDE DEF A
  <1>4. Cardinality(A \cup {s}) = Cardinality(A) + 1
    BY <1>3, FS_AddElement
  <1>5. Cardinality(PollersTracking(o)) =
          Cardinality(A) + (IF Tracking(s, o) THEN 1 ELSE 0)
    BY <1>1, <1>3, <1>4
  <1>6. Cardinality(PollersTracking(o))' =
          Cardinality(A) + (IF Tracking(s, o)' THEN 1 ELSE 0)
    BY <1>2, <1>3, <1>4
  <1> QED BY <1>3, <1>5, <1>6

LEMMA OutstandingInit == Init => OutstandingExact
  <1> SUFFICES ASSUME Init, NEW o \in Outputs
               PROVE  outstanding[o] = Cardinality(PollersTracking(o))
                                       + Cardinality(QueuedTracked(o))
                                       + (IF held[o].tracked THEN 1 ELSE 0)
    BY DEF OutstandingExact
  <1>1. PollersTracking(o) = {}
    BY DEF PollersTracking, Init
  <1>2. QueuedTracked(o) = {}
    BY DEF QueuedTracked, Positions, Init
  <1>3. ~held[o].tracked
    BY NoItemType DEF Init
  <1> QED BY <1>1, <1>2, <1>3, FS_EmptySet DEF Init

(* A poller step that puts nothing in a channel. *)
LEMMA OutstandingPoller ==
    ASSUME IInv, OutstandingExact, NEW s \in Sources, Others(s),
           UNCHANGED <<queue, held>>,
           \A o \in Outputs :
               outstanding'[o] = outstanding[o]
                                 + (IF Tracking(s, o)' THEN 1 ELSE 0)
                                 - (IF Tracking(s, o) THEN 1 ELSE 0)
    PROVE  OutstandingExact'
  <1> SUFFICES ASSUME NEW o \in Outputs
               PROVE  (outstanding[o] = Cardinality(PollersTracking(o))
                                        + Cardinality(QueuedTracked(o))
                                        + (IF held[o].tracked THEN 1 ELSE 0))'
    BY DEF OutstandingExact
  <1>1. outstanding[o] = Cardinality(PollersTracking(o))
                         + Cardinality(QueuedTracked(o)) + Hand(o)
    BY DEF OutstandingExact, Hand
  <1>2. QueuedTracked(o)' = QueuedTracked(o)
    BY DEF QueuedTracked
  <1>3. Hand(o)' = Hand(o) /\ Hand(o) \in Nat
    BY DEF Hand
  <1>4. /\ Cardinality(PollersTracking(o)) \in Nat
        /\ Cardinality(QueuedTracked(o)) \in Nat
    BY TrackingFinite, PositionsFinite DEF QueuedTracked, IInv, TypeOK, DestType
  <1>5. (outstanding[o] = Cardinality(PollersTracking(o))
                          + Cardinality(QueuedTracked(o)) + Hand(o))'
    BY <1>1, <1>2, <1>3, <1>4, TrackingMoves
  <1> QED BY <1>5 DEF Hand

(* The steps of a poller that neither track, enqueue nor give up. *)
LEMMA OutstandingQuiet ==
    ASSUME IInv, OutstandingExact, NEW s \in Sources, Others(s),
           UNCHANGED destVars, UNCHANGED held,
           \A o \in Outputs : Tracking(s, o)' <=> Tracking(s, o)
    PROVE  OutstandingExact'
  <1>1. \A o \in Outputs :
           outstanding'[o] = outstanding[o]
                             + (IF Tracking(s, o)' THEN 1 ELSE 0)
                             - (IF Tracking(s, o) THEN 1 ELSE 0)
    <2> TAKE o \in Outputs
    <2>1. outstanding'[o] = outstanding[o] /\ outstanding[o] \in Int
      BY DEF destVars, IInv, TypeOK, DestType
    <2>2. CASE Tracking(s, o)
      BY <2>1, <2>2
    <2>3. CASE ~Tracking(s, o)
      BY <2>1, <2>3
    <2> QED BY <2>2, <2>3
  <1> QED BY <1>1, OutstandingPoller DEF destVars

LEMMA OutstandingPoll ==
    ASSUME IInv, OutstandingExact, NEW s \in Sources,
           StartPoller(s) \/ CallPoll(s) \/ PollOK(s) \/ PollFails(s)
           \/ Save(s) \/ Pause(s) \/ Tick(s) \/ StopPoller(s)
    PROVE  OutstandingExact'
  <1> USE DEF StartPoller, CallPoll, PollOK, PollFails, Save, Pause, Tick,
              StopPoller, Goto
  <1>1. Others(s)
    BY DEF Others, IInv, TypeOK, PollType
  <1>2. UNCHANGED destVars /\ UNCHANGED held
    BY DEF workVars
  <1>3. pc[s] \notin {"offer", "wait"} /\ pc'[s] \notin {"offer", "wait"}
    BY DEF IInv, TypeOK, PollType
  <1>4. \A o \in Outputs : Tracking(s, o)' <=> Tracking(s, o)
    BY <1>3 DEF Tracking
  <1> QED BY <1>1, <1>2, <1>4, OutstandingQuiet

(* Accept and Advance leave the poller outside its enqueue. *)
LEMMA DispatchMoves ==
    ASSUME IInv, NEW s \in Sources
    PROVE  /\ Accept(s) /\ UNCHANGED tracked
                => Others(s) /\ \A o \in Outputs : ~Tracking(s, o)'
           /\ Advance(s)
                => Others(s) /\ \A o \in Outputs : ~Tracking(s, o)'
  BY DEF Accept, Advance, Goto, Others, Tracking, IInv, TypeOK, PollType

LEMMA OutstandingEnqueue ==
    ASSUME IInv, OutstandingExact, NEW s \in Sources, Enqueue(s)
    PROVE  OutstandingExact'
  <1> DEFINE d == Dst(s)
             x == [event |-> Ev(s), tracked |-> tracked[s]]
  <1>1. Dispatching(s) /\ d \in Outputs
    BY DEF Enqueue, Dispatching, IInv, PollControl
  <1>2. x \in Item /\ (x \in TrackedItems <=> tracked[s])
    BY <1>1, HeadsType DEF Item, TrackedItems, IInv, TypeOK, PollType, PollControl
  <1>3. Others(s) /\ \A o \in Outputs : ~Tracking(s, o)'
    BY DispatchMoves DEF Enqueue
  <1>4. /\ UNCHANGED <<outstanding, held>>
        /\ queue' = [queue EXCEPT ![d] = Append(@, x)]
        /\ queue \in [Outputs -> Seq(Item)]
    BY DEF Enqueue, workVars, IInv, TypeOK, DestType
  <1> SUFFICES ASSUME NEW o \in Outputs
               PROVE  (outstanding[o] = Cardinality(PollersTracking(o))
                                        + Cardinality(QueuedTracked(o))
                                        + (IF held[o].tracked THEN 1 ELSE 0))'
    BY DEF OutstandingExact
  <1>5. Tracking(s, o) <=> o = d /\ tracked[s]
    BY DEF Tracking, Enqueue
  <1>6. Cardinality(QueuedTracked(o))' =
          Cardinality(QueuedTracked(o)) + (IF o = d /\ tracked[s] THEN 1 ELSE 0)
    <2>1. CASE o = d
      <3>1. queue'[o] = Append(queue[o], x)
        BY <1>4, <2>1
      <3>2. Cardinality(QueuedTracked(o))' = Cardinality(Positions(Append(queue[o], x), TrackedItems))
        BY <3>1 DEF QueuedTracked
      <3> HIDE DEF x
      <3> QED BY <1>2, <1>4, <2>1, <3>2, PositionsAppend DEF QueuedTracked
    <2>2. CASE o # d
      BY <1>4, <2>2, PositionsFinite DEF QueuedTracked
    <2> QED BY <2>1, <2>2
  <1>7. /\ Cardinality(PollersTracking(o)) \in Nat
        /\ Cardinality(QueuedTracked(o)) \in Nat
        /\ Hand(o) \in Nat
    BY <1>4, TrackingFinite, PositionsFinite DEF QueuedTracked, Hand
  <1>8. outstanding[o] = Cardinality(PollersTracking(o))
                         + Cardinality(QueuedTracked(o)) + Hand(o)
    BY DEF OutstandingExact, Hand
  <1>9. Cardinality(PollersTracking(o))' =
          Cardinality(PollersTracking(o)) - (IF Tracking(s, o) THEN 1 ELSE 0)
    BY <1>3, <1>7, TrackingMoves
  <1>10. outstanding'[o] = outstanding[o] /\ Hand(o)' = Hand(o)
    BY <1>4 DEF Hand
  <1>11. outstanding'[o] = Cardinality(PollersTracking(o))'
                          + Cardinality(QueuedTracked(o))' + Hand(o)'
    BY <1>5, <1>6, <1>7, <1>8, <1>9, <1>10
  <1> QED BY <1>11 DEF Hand

LEMMA OutstandingDispatch ==
    ASSUME IInv, OutstandingExact, NEW s \in Sources, Dispatch(s)
    PROVE  OutstandingExact'
  <1>1. CASE MarkNew(s) \/ MarkDuplicate(s) \/ MarkFails(s)
    <2>1. Others(s)
      BY <1>1, DispatchMoves DEF MarkNew, MarkDuplicate, MarkFails, Others
    <2>2. \A o \in Outputs : Tracking(s, o)' <=> Tracking(s, o)
      BY <1>1, DispatchMoves DEF MarkNew, MarkDuplicate, MarkFails, Tracking
    <2>3. UNCHANGED destVars /\ UNCHANGED held
      BY <1>1 DEF MarkNew, MarkDuplicate, MarkFails, workVars
    <2> QED BY <2>1, <2>2, <2>3, OutstandingQuiet
  <1>2. CASE DropUnroutable(s) \/ DropFull(s)
    <2>1. Others(s) /\ \A o \in Outputs : ~Tracking(s, o)'
      BY <1>2, DispatchMoves DEF DropUnroutable, DropFull
    <2>2. \A o \in Outputs : ~Tracking(s, o)
      BY <1>2 DEF DropUnroutable, DropFull, Tracking
    <2>3. UNCHANGED destVars /\ UNCHANGED held
      BY <1>2 DEF DropUnroutable, DropFull, workVars
    <2> QED BY <2>1, <2>2, <2>3, OutstandingQuiet
  <1>3. CASE Check(s)
    <2>1. /\ tracked' = [tracked EXCEPT ![s] = Tracks(s)]
          /\ pc' = [pc EXCEPT ![s] = IF Tracks(s) THEN "track" ELSE "offer"]
          /\ UNCHANGED <<targets, destVars, held>>
          /\ pc[s] = "target"
      BY <1>3 DEF Check, Goto, workVars
    <2>2. tracked'[s] = Tracks(s) /\ pc'[s] = IF Tracks(s) THEN "track" ELSE "offer"
      BY <2>1 DEF IInv, TypeOK, PollType
    <2>3. Others(s)
      BY <2>1 DEF Others, IInv, TypeOK, PollType
    <2>4. \A o \in Outputs : ~Tracking(s, o) /\ ~Tracking(s, o)'
      BY <2>1, <2>2 DEF Tracking
    <2> QED BY <2>1, <2>3, <2>4, OutstandingQuiet
  <1>4. CASE Wait(s)
    <2>1. Others(s)
      BY <1>4 DEF Wait, Goto, Others, IInv, TypeOK, PollType
    <2>2. \A o \in Outputs : Tracking(s, o)' <=> Tracking(s, o)
      BY <1>4 DEF Wait, Goto, Tracking, Dst, IInv, TypeOK, PollType
    <2>3. UNCHANGED destVars /\ UNCHANGED held
      BY <1>4 DEF Wait, workVars
    <2> QED BY <2>1, <2>2, <2>3, OutstandingQuiet
  <1>5. CASE Track(s)
    <2>1. /\ pc[s] = "track" /\ tracked[s] /\ Dst(s) \in Outputs
          /\ pc' = [pc EXCEPT ![s] = "offer"]
          /\ outstanding' = [outstanding EXCEPT ![Dst(s)] = Raised(Dst(s))]
          /\ UNCHANGED <<tracked, targets, queue, held>>
      BY <1>5 DEF Track, Goto, workVars, IInv, PollControl
    <2>2. Others(s) /\ pc'[s] = "offer"
      BY <2>1 DEF Others, IInv, TypeOK, PollType
    <2>3. \A o \in Outputs : ~Tracking(s, o) /\ (Tracking(s, o)' <=> o = Dst(s))
      BY <2>1, <2>2 DEF Tracking, Dst
    <2>4. \A o \in Outputs :
             outstanding'[o] = outstanding[o] + (IF o = Dst(s) THEN 1 ELSE 0)
      BY <2>1 DEF Raised, IInv, TypeOK, DestType
    <2>5. \A o \in Outputs :
             outstanding'[o] = outstanding[o]
                               + (IF Tracking(s, o)' THEN 1 ELSE 0)
                               - (IF Tracking(s, o) THEN 1 ELSE 0)
      BY <2>3, <2>4 DEF IInv, TypeOK, DestType
    <2> QED BY <2>1, <2>2, <2>5, OutstandingPoller
  <1>6. CASE Enqueue(s)
    BY <1>6, OutstandingEnqueue
  <1>7. CASE GiveUp(s)
    <2>1. /\ pc[s] = "wait" /\ tracked[s] /\ Dst(s) \in Outputs
          /\ outstanding' = [outstanding EXCEPT ![Dst(s)] = GivenUp(Dst(s))]
          /\ Advance(s)
          /\ UNCHANGED <<queue, held>>
      BY <1>7 DEF GiveUp, workVars, IInv, PollControl
    <2>2. Others(s) /\ \A o \in Outputs : ~Tracking(s, o)'
      BY <2>1, DispatchMoves
    <2>3. \A o \in Outputs : Tracking(s, o) <=> o = Dst(s)
      BY <2>1 DEF Tracking
    <2>4. \A o \in Outputs :
             outstanding'[o] = outstanding[o] - (IF o = Dst(s) THEN 1 ELSE 0)
      BY <2>1 DEF GivenUp, IInv, TypeOK, DestType
    <2>5. \A o \in Outputs :
             outstanding'[o] = outstanding[o]
                               + (IF Tracking(s, o)' THEN 1 ELSE 0)
                               - (IF Tracking(s, o) THEN 1 ELSE 0)
      BY <2>2, <2>3, <2>4 DEF IInv, TypeOK, DestType
    <2> QED BY <2>1, <2>2, <2>5, OutstandingPoller
  <1> QED BY <1>1, <1>2, <1>3, <1>4, <1>5, <1>6, <1>7 DEF Dispatch

(* The steps of a worker. *)
LEMMA OutstandingWork ==
    ASSUME IInv, OutstandingExact, NEW o \in Outputs, Worker(o)
    PROVE  OutstandingExact'
  <1> USE DEF WGoto
  <1> DEFINE N(d) == Cardinality(PollersTracking(d))
             Q(d) == Cardinality(QueuedTracked(d))
  <1>n. \A d \in Outputs : /\ N(d) \in Nat /\ Q(d) \in Nat /\ Hand(d) \in Nat
                          /\ outstanding[d] \in Int
                          /\ outstanding[d] = N(d) + Q(d) + Hand(d)
    BY TrackingFinite, PositionsFinite
       DEF QueuedTracked, Hand, OutstandingExact, IInv, TypeOK, DestType
  <1>p. UNCHANGED pollVars
    BY DEF Worker, Receive, StopWorker, Begin, SendDecides, SendFails, Backoff,
           RecordVerdict, Settle
  <1>q. \A d : N(d)' = N(d)
    BY <1>p DEF pollVars, PollersTracking, Dst
  <1> SUFFICES ASSUME NEW d \in Outputs
               PROVE  outstanding'[d] = N(d)' + Q(d)' + Hand(d)'
    BY DEF OutstandingExact, Hand
  <1>1. CASE Receive(o)
    <2>1. /\ UNCHANGED outstanding
          /\ queue \in [Outputs -> Seq(Item)] /\ held \in [Outputs -> Item]
          /\ held' = [held EXCEPT ![o] = Head(queue[o])]
          /\ queue' = [queue EXCEPT ![o] = Tail(@)]
          /\ queue[o] # <<>> /\ held[o] = NoItem
      BY <1>1 DEF Receive, IInv, TypeOK, DestType, WorkType, WorkControl
    <2>2. CASE d = o
      <3>1. Q(d)' = Cardinality(Positions(Tail(queue[o]), TrackedItems))
        BY <2>1, <2>2 DEF QueuedTracked
      <3>2. Head(queue[o]) \in Item
        BY <2>1
      <3>3. Hand(d)' = IF Head(queue[o]) \in TrackedItems THEN 1 ELSE 0
        BY <2>1, <2>2, <3>2 DEF Hand, Item, TrackedItems
      <3>4. Hand(d) = 0
        BY <2>1, <2>2, NoItemType DEF Hand
      <3>5. Q(d) = Q(d)' + Hand(d)'
        BY <2>1, <2>2, <3>1, <3>3, PositionsTail DEF QueuedTracked
      <3>6. Tail(queue[o]) \in Seq(Item)
        BY <2>1
      <3>7. Q(d)' \in Nat
        BY <3>1, <3>6, PositionsFinite
      <3> QED BY <1>n, <1>q, <2>1, <3>3, <3>4, <3>5, <3>7, SMTT(20)
    <2>3. CASE d # o
      BY <1>n, <1>q, <2>1, <2>3 DEF QueuedTracked, Hand
    <2> QED BY <2>2, <2>3
  <1>2. CASE Settle(o)
    <2>1. /\ outstanding' = [outstanding EXCEPT ![o] = Settled(o)]
          /\ held' = [held EXCEPT ![o] = NoItem]
          /\ UNCHANGED queue /\ held \in [Outputs -> Item]
          /\ outstanding \in [Outputs -> Int]
      BY <1>2 DEF Settle, IInv, TypeOK, DestType, WorkType
    <2>2. Q(d)' = Q(d)
      BY <2>1 DEF QueuedTracked
    <2>3. CASE d = o
      <3>1. Hand(d)' = 0
        BY <2>1, <2>3, NoItemType DEF Hand
      <3>2. outstanding'[d] = outstanding[d] - Hand(d)
        BY <1>n, <2>1, <2>3 DEF Settled, Hand
      <3> QED BY <1>n, <1>q, <2>2, <3>1, <3>2
    <2>4. CASE d # o
      BY <1>n, <1>q, <2>1, <2>2, <2>4 DEF Hand
    <2> QED BY <2>3, <2>4
  <1>3. CASE ~Receive(o) /\ ~Settle(o)
    <2>1. UNCHANGED <<outstanding, queue, held>>
      BY <1>3 DEF Worker, StopWorker, Begin, SendDecides, SendFails, Backoff,
                  RecordVerdict, destVars
    <2> QED BY <1>n, <1>q, <2>1 DEF QueuedTracked, Hand
  <1> QED BY <1>1, <1>2, <1>3

LEMMA OutstandingRun ==
    ASSUME IInv, OutstandingExact, Main \/ Cancel \/ Sweep \/ Restart \/ Stopped
    PROVE  OutstandingExact'
  <1>1. CASE UNCHANGED <<pollVars, destVars, workVars>>
    BY <1>1 DEF pollVars, destVars, workVars, OutstandingExact,
                PollersTracking, QueuedTracked, Dst
  <1>2. CASE Restart
    <2> SUFFICES ASSUME NEW o \in Outputs
                 PROVE  (outstanding[o] = Cardinality(PollersTracking(o))
                                          + Cardinality(QueuedTracked(o))
                                          + (IF held[o].tracked THEN 1 ELSE 0))'
      BY DEF OutstandingExact
    <2>1. PollersTracking(o)' = {}
      BY <1>2 DEF PollersTracking, Restart
    <2>2. QueuedTracked(o)' = {}
      BY <1>2 DEF QueuedTracked, Positions, Restart
    <2>3. ~held'[o].tracked /\ outstanding'[o] = 0
      BY <1>2, NoItemType DEF Restart
    <2> QED BY <2>1, <2>2, <2>3, FS_EmptySet
  <1> QED BY <1>1, <1>2 DEF Main, StopSweeper, CloseQueues, DrainTimeout, Finish,
                            Cancel, Sweep, Stopped, vars

(* The backpressure counter of every output is exactly the number of items  *)
(* counted and not settled, with any number of adapters, outputs, faults    *)
(* and restarts.                                                            *)
THEOREM OutstandingCorrect == Spec => []OutstandingExact
  <1>1. IInv /\ OutstandingExact /\ [Next]_vars => OutstandingExact'
    <2> SUFFICES ASSUME IInv, OutstandingExact, [Next]_vars PROVE OutstandingExact'
      OBVIOUS
    <2>1. CASE \E s \in Sources : Poller(s)
      BY <2>1, OutstandingPoll, OutstandingDispatch DEF Poller
    <2>2. CASE \E o \in Outputs : Worker(o)
      BY <2>2, OutstandingWork
    <2>3. CASE Main \/ Cancel \/ Sweep \/ Restart \/ Stopped
      BY <2>3, OutstandingRun
    <2>4. CASE UNCHANGED vars
      BY <2>4 DEF vars, pollVars, destVars, workVars, OutstandingExact,
                  PollersTracking, QueuedTracked, Dst
    <2> QED BY <2>1, <2>2, <2>3, <2>4 DEF Next
  <1> QED BY OutstandingInit, <1>1, Inductive, PTL DEF Spec

-----------------------------------------------------------------------------
(* Cursors, pages and drains. *)

(* e is a record of s. *)
Carries(s, e) == \E i \in DOMAIN Feed[s] : Feed[s][i] = e

(* What was marked, or is known to be out unmarked or to have been swept. *)
Noted == seen \cup exposed

(* The events of a page are records of their adapter. *)
Carried(s) == \A j \in DOMAIN page[s] : Carries(s, page[s][j])

(* Both cursors, the stored one and the poller's, are behind dispatch. *)
CursorsBehind(s) ==
    /\ at[s] <= Len(Feed[s])
    /\ cursor[s] <= Len(Feed[s])
    /\ \A i \in 1..Len(Feed[s]) :
          i <= at[s] \/ i <= cursor[s] => <<s, Feed[s][i]>> \in Noted

(* From the cursor to the next one, what is not dispatched yet is still in  *)
(* the page, at its place from the end.                                     *)
Reading(s) == pc[s] \in {"mark", "target", "track", "offer", "wait"}

PageAhead(s) ==
    Reading(s) =>
        /\ at[s] <= next[s] /\ next[s] <= Len(Feed[s])
        /\ \A i \in 1..Len(Feed[s]) :
              at[s] < i /\ i <= next[s] =>
                  \/ <<s, Feed[s][i]>> \in Noted
                  \/ \E j \in DOMAIN page[s] : /\ i + Len(page[s]) = next[s] + j
                                               /\ page[s][j] = Feed[s][i]

HeadNoted(s) == Dispatching(s) => <<s, Ev(s)>> \in Noted

(* Outside of a drain no page of one is counted. *)
Uncounted(s) == pc[s] \in {"start", "tick"} => pages[s] = 0

Behaves(s) ==
    Carried(s) /\ CursorsBehind(s) /\ PageAhead(s) /\ HeadNoted(s) /\ Uncounted(s)

SInv == \A s \in Sources : Behaves(s)

-----------------------------------------------------------------------------
(* The facts of IInv about one poller, as numbers and sequences. *)
LEMMA PollerType ==
    ASSUME IInv, NEW s \in Sources
    PROVE  /\ Feed[s] \in Seq(Events) /\ Len(Feed[s]) \in Nat
           /\ DOMAIN Feed[s] = 1..Len(Feed[s])
           /\ at[s] \in Nat /\ next[s] \in Nat /\ cursor[s] \in Nat /\ pages[s] \in Nat
           /\ page[s] \in Seq(Events) /\ Len(page[s]) \in Nat
           /\ DOMAIN page[s] = 1..Len(page[s])
  <1>1. Feed[s] \in Seq(Events) /\ page[s] \in Seq(Events)
    BY SourcesAssumption DEF IInv, TypeOK, PollType
  <1>2. at[s] \in Nat /\ next[s] \in Nat /\ cursor[s] \in Nat
    BY DEF IInv, TypeOK, PollType, StoreType
  <1>3. pages[s] \in 0..(MaxEagerPages - 1)
    BY DEF IInv, TypeOK, PollType
  <1>4. pages[s] \in Nat
    BY <1>3, BoundsAssumption
  <1> QED BY <1>1, <1>2, <1>4

(* Nothing is taken back from Noted: a sweep moves entries to exposed. *)
LEMMA NotedGrows ==
    ASSUME [Next]_vars
    PROVE  Noted \subseteq Noted'
  <1>1. CASE \E s \in Sources : Poller(s)
    <2>1. PICK s \in Sources : Poller(s)
      BY <1>1
    <2>2. CASE MarkNew(s) \/ MarkFails(s)
      BY <2>2 DEF MarkNew, MarkFails, storeVars, bookVars, Noted
    <2>3. CASE ~MarkNew(s) /\ ~MarkFails(s)
      <3>1. UNCHANGED <<seen, exposed>>
        BY <2>1, <2>3
           DEF Poller, Dispatch, StartPoller, CallPoll, PollOK, PollFails, Save, Pause, Tick,
               StopPoller, MarkDuplicate, DropUnroutable, Check, Track, Enqueue, DropFull,
               Wait, GiveUp, storeVars, bookVars
      <3> QED BY <3>1 DEF Noted
    <2> QED BY <2>2, <2>3
  <1>2. CASE \E o \in Outputs : Worker(o)
    BY <1>2 DEF Worker, Receive, StopWorker, Begin, SendDecides, SendFails, Backoff,
                RecordVerdict, Settle, storeVars, bookVars, Noted
  <1>3. CASE Main \/ Cancel \/ Restart \/ Stopped \/ UNCHANGED vars
    BY <1>3 DEF Main, StopSweeper, CloseQueues, DrainTimeout, Finish, Cancel, Restart,
                Stopped, vars, storeVars, bookVars, Noted
  <1>4. CASE Sweep
    BY <1>4 DEF Sweep, Noted
  <1> QED BY <1>1, <1>2, <1>3, <1>4 DEF Next

(* What s depends on. *)
Same(s) == /\ pc'[s] = pc[s] /\ at'[s] = at[s] /\ next'[s] = next[s]
           /\ page'[s] = page[s] /\ pages'[s] = pages[s] /\ cursor'[s] = cursor[s]

LEMMA BehavesOn ==
    ASSUME NEW s \in Sources, Behaves(s), Same(s), Noted \subseteq Noted'
    PROVE  Behaves(s)'
  <1> USE DEF Behaves, Same
  <1>1. Carried(s)' /\ Uncounted(s)'
    BY DEF Carried, Carries, Uncounted
  <1>2. CursorsBehind(s)'
    BY DEF CursorsBehind
  <1>3. PageAhead(s)'
    BY DEF PageAhead, Reading
  <1>4. HeadNoted(s)'
    BY DEF HeadNoted, Dispatching, Ev
  <1> QED BY <1>1, <1>2, <1>3, <1>4

(* A step of one poller is none of another. *)
LEMMA OthersSame ==
    ASSUME IInv, NEW s \in Sources, Poller(s), NEW r \in Sources, r # s
    PROVE  Same(r)
  <1>1. /\ DOMAIN pc = Sources /\ DOMAIN at = Sources /\ DOMAIN next = Sources
        /\ DOMAIN page = Sources /\ DOMAIN pages = Sources /\ DOMAIN cursor = Sources
    BY DEF IInv, TypeOK, PollType, StoreType
  <1>2. CASE StartPoller(s) \/ CallPoll(s) \/ PollOK(s) \/ PollFails(s)
             \/ Save(s) \/ Pause(s) \/ Tick(s) \/ StopPoller(s)
    BY <1>1, <1>2 DEF StartPoller, CallPoll, PollOK, PollFails, Save, Pause, Tick,
                      StopPoller, Goto, Same, storeVars
  <1>3. CASE Dispatch(s)
    BY <1>1, <1>3 DEF Dispatch, MarkNew, MarkDuplicate, MarkFails, DropUnroutable, Check,
                      Track, Enqueue, DropFull, Wait, GiveUp, Accept, Advance, Goto, Same,
                      storeVars
  <1> QED BY <1>2, <1>3 DEF Poller

(* An element that is not the first keeps its place from the end. *)
LEMMA TailKeeps ==
    ASSUME NEW T, NEW p \in Seq(T), p # <<>>, NEW n \in Nat, NEW i \in Nat,
           NEW j \in Nat, j \in DOMAIN p, j # 1, i + Len(p) = n + j
    PROVE  /\ j - 1 \in DOMAIN Tail(p)
           /\ Tail(p)[j - 1] = p[j]
           /\ i + Len(Tail(p)) = n + (j - 1)
  <1>1. /\ Len(p) \in Nat \ {0} /\ DOMAIN p = 1..Len(p)
        /\ Len(Tail(p)) = Len(p) - 1 /\ DOMAIN Tail(p) = 1..(Len(p) - 1)
        /\ \A m \in 1..(Len(p) - 1) : Tail(p)[m] = p[m + 1]
    BY HeadTailProperties
  <1>2. j - 1 \in 1..(Len(p) - 1) /\ (j - 1) + 1 = j
    BY <1>1
  <1>3. i + (Len(p) - 1) = n + (j - 1)
    BY <1>1
  <1> QED BY <1>1, <1>2, <1>3

(* The event at the head of the page is dispatched. *)
LEMMA PageShortens ==
    ASSUME IInv, NEW s \in Sources, Behaves(s), Reading(s), Noted \subseteq Noted',
           page[s] # <<>>, <<s, Ev(s)>> \in Noted', page'[s] = Tail(page[s]),
           at'[s] = at[s], next'[s] = next[s]
    PROVE  Carried(s)' /\ PageAhead(s)'
  <1>1. /\ page[s] \in Seq(Events) /\ Len(page[s]) \in Nat /\ DOMAIN page[s] = 1..Len(page[s])
        /\ at[s] \in Nat /\ next[s] \in Nat /\ Len(Feed[s]) \in Nat
    BY PollerType
  <1>2. /\ Len(page[s]) \in Nat \ {0}
        /\ page'[s] \in Seq(Events)
        /\ Len(page'[s]) = Len(page[s]) - 1
        /\ DOMAIN page'[s] = 1..(Len(page[s]) - 1)
        /\ Ev(s) = page[s][1]
        /\ \A i \in 1..(Len(page[s]) - 1) : page'[s][i] = page[s][i + 1]
    BY <1>1, HeadTailProperties DEF Ev
  <1>3. Carried(s)'
    <2> SUFFICES ASSUME NEW j \in 1..(Len(page[s]) - 1) PROVE Carries(s, page'[s][j])
      BY <1>2 DEF Carried, Carries
    <2>1. j + 1 \in DOMAIN page[s] /\ page'[s][j] = page[s][j + 1]
      BY <1>1, <1>2
    <2> QED BY <2>1 DEF Behaves, Carried
  <1>4. PageAhead(s)'
    <2>1. at[s] <= next[s] /\ next[s] <= Len(Feed[s])
      BY DEF Behaves, PageAhead
    <2> SUFFICES ASSUME NEW i \in 1..Len(Feed[s]), at[s] < i, i <= next[s],
                        <<s, Feed[s][i]>> \notin Noted'
                 PROVE  \E j \in DOMAIN page'[s] : /\ i + Len(page'[s]) = next[s] + j
                                                  /\ page'[s][j] = Feed[s][i]
      BY <2>1 DEF PageAhead
    <2>2. PICK j \in DOMAIN page[s] : /\ i + Len(page[s]) = next[s] + j
                                     /\ page[s][j] = Feed[s][i]
      BY DEF Behaves, PageAhead
    <2>3. j # 1
      BY <1>2, <2>2
    <2>4. i \in Nat /\ i + Len(page[s]) = next[s] + j
      BY <1>1, <2>2
    <2>5. \E m \in DOMAIN Tail(page[s]) : /\ i + Len(Tail(page[s])) = next[s] + m
                                         /\ Tail(page[s])[m] = page[s][j]
      <3>1. PICK p \in Seq(Events) : p = page[s]
        BY <1>1
      <3>2. PICK n \in Nat : n = next[s]
        BY <1>1
      <3>3. PICK k \in Nat : k = j
        BY <1>1
      <3>4. PICK h \in Nat : h = i
        BY <2>4
      <3>5. p # <<>> /\ k \in DOMAIN p /\ k # 1 /\ h + Len(p) = n + k
        BY <2>3, <2>4, <3>1, <3>2, <3>3, <3>4
      <3>6. /\ k - 1 \in DOMAIN Tail(p) /\ Tail(p)[k - 1] = p[k]
            /\ h + Len(Tail(p)) = n + (k - 1)
        BY <3>5, TailKeeps
      <3> QED BY <3>1, <3>2, <3>3, <3>4, <3>6
    <2> QED BY <2>2, <2>5
  <1> QED BY <1>3, <1>4

(* What a step of s leaves alone while it dispatches. *)
Inside(s) == /\ at'[s] = at[s] /\ next'[s] = next[s] /\ pages'[s] = pages[s]
             /\ cursor'[s] = cursor[s]

(* A step inside dispatch that keeps the page. *)
LEMMA PageKept ==
    ASSUME IInv, NEW s \in Sources, Behaves(s), Reading(s), Inside(s),
           Noted \subseteq Noted', page'[s] = page[s],
           Dispatching(s)' => <<s, Ev(s)>> \in Noted', pc'[s] \notin {"start", "tick"}
    PROVE  Behaves(s)'
  <1> USE DEF Behaves, Inside
  <1>1. Carried(s)' /\ Uncounted(s)'
    BY DEF Carried, Carries, Uncounted
  <1>2. CursorsBehind(s)'
    BY DEF CursorsBehind
  <1>3. PageAhead(s)'
    BY DEF PageAhead
  <1>4. HeadNoted(s)'
    BY DEF HeadNoted, Ev
  <1> QED BY <1>1, <1>2, <1>3, <1>4

(* And one that takes its head off. *)
LEMMA PageTaken ==
    ASSUME IInv, NEW s \in Sources, Behaves(s), Reading(s), Inside(s),
           Noted \subseteq Noted', page[s] # <<>>, page'[s] = Tail(page[s]),
           <<s, Ev(s)>> \in Noted', pc'[s] = "mark"
    PROVE  Behaves(s)'
  <1>1. Carried(s)' /\ PageAhead(s)'
    BY PageShortens DEF Inside
  <1>2. Uncounted(s)'
    BY DEF Behaves, Inside, Uncounted
  <1>3. CursorsBehind(s)'
    BY DEF Behaves, Inside, CursorsBehind
  <1>4. HeadNoted(s)'
    BY DEF HeadNoted, Dispatching
  <1> QED BY <1>1, <1>2, <1>3, <1>4 DEF Behaves

LEMMA BehavesDispatch ==
    ASSUME IInv, NEW s \in Sources, Behaves(s), Dispatch(s), Noted \subseteq Noted'
    PROVE  Behaves(s)'
  <1>1. /\ DOMAIN pc = Sources /\ DOMAIN page = Sources
    BY DEF IInv, TypeOK, PollType
  <1>2. Inside(s)
    BY DEF Dispatch, MarkNew, MarkDuplicate, MarkFails, DropUnroutable, Check, Track,
           Enqueue, DropFull, Wait, GiveUp, storeVars, Inside
  <1>3. Reading(s)
    BY DEF Dispatch, MarkNew, MarkDuplicate, MarkFails, DropUnroutable, Check, Track,
           Enqueue, DropFull, Wait, GiveUp, Reading
  <1>4. CASE MarkNew(s) \/ MarkFails(s)
    <2>1. pc'[s] = "target" /\ page'[s] = page[s]
      BY <1>1, <1>4 DEF MarkNew, MarkFails, Accept, Goto
    <2>2. <<s, Ev(s)>> \in Noted'
      BY <1>4 DEF MarkNew, MarkFails, Noted
    <2> QED BY <1>2, <1>3, <2>1, <2>2, PageKept
  <1>5. CASE MarkDuplicate(s)
    <2>1. pc'[s] = "mark" /\ page[s] # <<>> /\ page'[s] = Tail(page[s])
      BY <1>1, <1>5 DEF MarkDuplicate
    <2>2. <<s, Ev(s)>> \in Noted'
      BY <1>5 DEF MarkDuplicate, IsNew, Noted
    <2> QED BY <1>2, <1>3, <2>1, <2>2, PageTaken
  <1>6. CASE Check(s) \/ Track(s) \/ Wait(s)
    <2>1. pc'[s] \notin {"start", "tick"} /\ page'[s] = page[s] /\ Dispatching(s)
      BY <1>1, <1>6 DEF Check, Track, Wait, Goto, Dispatching
    <2>2. <<s, Ev(s)>> \in Noted'
      BY <2>1 DEF Behaves, HeadNoted
    <2> QED BY <1>2, <1>3, <2>1, <2>2, PageKept
  <1>7. CASE DropUnroutable(s) \/ Enqueue(s) \/ DropFull(s) \/ GiveUp(s)
    <2>1. Advance(s) /\ Dispatching(s)
      BY <1>7 DEF DropUnroutable, Enqueue, DropFull, GiveUp, Dispatching
    <2>2. <<s, Ev(s)>> \in Noted' /\ page[s] # <<>>
      BY <2>1 DEF Behaves, HeadNoted, IInv, PollControl
    <2>3. CASE pc'[s] = "mark" /\ page'[s] = Tail(page[s])
      BY <1>2, <1>3, <2>2, <2>3, PageTaken
    <2>4. CASE pc'[s] = "target" /\ page'[s] = page[s]
      BY <1>2, <1>3, <2>2, <2>4, PageKept
    <2> QED BY <1>1, <2>1, <2>3, <2>4 DEF Advance, Goto
  <1> QED BY <1>4, <1>5, <1>6, <1>7 DEF Dispatch

(* The records a poll returns. *)
LEMMA PageOf ==
    ASSUME NEW T, NEW f \in Seq(T), NEW a \in Nat, NEW n \in Nat, a + n <= Len(f)
    PROVE  /\ Len(SubSeq(f, a + 1, a + n)) = n
           /\ DOMAIN SubSeq(f, a + 1, a + n) = 1..n
           /\ \A j \in 1..n : SubSeq(f, a + 1, a + n)[j] = f[a + j]
  <1>1. Len(SubSeq(f, a + 1, a + n)) = n
    OBVIOUS
  <1>2. DOMAIN SubSeq(f, a + 1, a + n) = 1..n
    OBVIOUS
  <1>3. \A j \in 1..n : SubSeq(f, a + 1, a + n)[j] = f[a + j]
    OBVIOUS
  <1> QED BY <1>1, <1>2, <1>3

(* The actions around dispatch. *)
LEMMA BehavesPoll ==
    ASSUME IInv, NEW s \in Sources, Behaves(s), Noted \subseteq Noted',
           StartPoller(s) \/ CallPoll(s) \/ PollOK(s) \/ PollFails(s)
           \/ Save(s) \/ Pause(s) \/ Tick(s) \/ StopPoller(s)
    PROVE  Behaves(s)'
  <1>1. /\ DOMAIN pc = Sources /\ DOMAIN at = Sources /\ DOMAIN next = Sources
        /\ DOMAIN page = Sources /\ DOMAIN pages = Sources /\ DOMAIN cursor = Sources
    BY DEF IInv, TypeOK, PollType, StoreType
  <1>2. /\ Len(Feed[s]) \in Nat /\ at[s] \in Nat /\ next[s] \in Nat /\ cursor[s] \in Nat
        /\ pages[s] \in Nat /\ Feed[s] \in Seq(Events)
    BY PollerType
  <1>3. Carried(s) /\ CursorsBehind(s) /\ PageAhead(s) /\ HeadNoted(s) /\ Uncounted(s)
    BY DEF Behaves
  <1>4. CASE StartPoller(s)
    <2>1. /\ pc[s] = "start" /\ pc'[s] = "poll" /\ page'[s] = page[s]
          /\ pages'[s] = pages[s] /\ cursor'[s] = cursor[s]
          /\ at'[s] = cursor[s] \/ at'[s] = 0
      BY <1>1, <1>4 DEF StartPoller, Goto, storeVars
    <2>2. Carried(s)' /\ Uncounted(s)'
      BY <1>3, <2>1 DEF Carried, Carries, Uncounted
    <2>3. CursorsBehind(s)'
      BY <1>2, <1>3, <2>1 DEF CursorsBehind
    <2>4. PageAhead(s)' /\ HeadNoted(s)'
      BY <2>1 DEF PageAhead, HeadNoted, Reading, Dispatching
    <2> QED BY <2>2, <2>3, <2>4 DEF Behaves
  <1>5. CASE CallPoll(s) \/ PollFails(s) \/ Pause(s) \/ Tick(s) \/ StopPoller(s)
    <2>1. /\ pc'[s] \in {"fetch", "tick", "poll", "done"} /\ page'[s] = page[s]
          /\ pc'[s] = "tick" => pages'[s] = 0
          /\ cursor'[s] = cursor[s] /\ at'[s] = at[s]
      BY <1>1, <1>5 DEF CallPoll, PollFails, Pause, Tick, StopPoller, Goto, storeVars
    <2>2. Carried(s)' /\ Uncounted(s)'
      BY <1>3, <2>1 DEF Carried, Carries, Uncounted
    <2>3. CursorsBehind(s)'
      BY <1>3, <2>1 DEF CursorsBehind
    <2>4. PageAhead(s)' /\ HeadNoted(s)'
      BY <2>1 DEF PageAhead, HeadNoted, Reading, Dispatching
    <2> QED BY <2>2, <2>3, <2>4 DEF Behaves
  <1>6. CASE PollOK(s)
    <2>1. PICK n \in 0..PageLimit[s] :
            /\ at[s] + n <= Len(Feed[s])
            /\ page'[s] = SubSeq(Feed[s], at[s] + 1, at[s] + n)
            /\ next'[s] = IF at[s] \in StuckAt[s] THEN at[s] ELSE at[s] + n
      BY <1>1, <1>6 DEF PollOK
    <2>2. /\ pc'[s] = "mark" /\ at'[s] = at[s] /\ cursor'[s] = cursor[s]
          /\ pages'[s] = pages[s]
      BY <1>1, <1>6 DEF PollOK, Goto, storeVars
    <2>3. n \in Nat
      BY <2>1, SourcesAssumption
    <2>4. /\ Len(page'[s]) = n /\ DOMAIN page'[s] = 1..n
          /\ \A j \in 1..n : page'[s][j] = Feed[s][at[s] + j]
      <3>1. PICK a \in Nat : a = at[s]
        BY <1>2
      <3>2. PICK f \in Seq(Events) : f = Feed[s]
        BY <1>2
      <3>3. a + n <= Len(f) /\ page'[s] = SubSeq(f, a + 1, a + n)
        BY <2>1, <3>1, <3>2
      <3>4. /\ Len(SubSeq(f, a + 1, a + n)) = n
            /\ DOMAIN SubSeq(f, a + 1, a + n) = 1..n
            /\ \A j \in 1..n : SubSeq(f, a + 1, a + n)[j] = f[a + j]
        BY <2>3, <3>3, PageOf
      <3> QED BY <3>1, <3>2, <3>3, <3>4
    <2>5. Carried(s)'
      <3> SUFFICES ASSUME NEW j \in 1..n PROVE Carries(s, page'[s][j])
        BY <2>4 DEF Carried, Carries
      <3>1. at[s] + j \in DOMAIN Feed[s]
        BY <1>2, <2>1, <2>3
      <3> QED BY <2>4, <3>1 DEF Carries
    <2>6. PageAhead(s)'
      <3>1. at[s] <= next'[s] /\ next'[s] <= Len(Feed[s])
        BY <1>2, <1>3, <2>1, <2>3 DEF CursorsBehind
      <3> SUFFICES ASSUME NEW i \in 1..Len(Feed[s]), at[s] < i, i <= next'[s]
                   PROVE  \E j \in 1..n : i + n = next'[s] + j /\ page'[s][j] = Feed[s][i]
        BY <2>2, <2>4, <3>1 DEF PageAhead
      <3>2. next'[s] = at[s] + n
        BY <1>2, <2>1, <2>3
      <3>3. i - at[s] \in 1..n /\ at[s] + (i - at[s]) = i
        BY <1>2, <2>3, <3>2
      <3>4. page'[s][i - at[s]] = Feed[s][i]
        BY <2>4, <3>3
      <3>5. i + n = next'[s] + (i - at[s])
        BY <1>2, <2>3, <3>2
      <3> QED BY <3>3, <3>4, <3>5
    <2>7. CursorsBehind(s)' /\ Uncounted(s)'
      BY <1>3, <2>2 DEF CursorsBehind, Uncounted
    <2>8. HeadNoted(s)'
      BY <2>2 DEF HeadNoted, Dispatching
    <2> QED BY <2>5, <2>6, <2>7, <2>8 DEF Behaves
  <1>7. CASE Save(s)
    <2>1. /\ pc[s] = "mark" /\ page[s] = <<>> /\ page'[s] = <<>>
          /\ at'[s] = next[s]
          /\ cursor'[s] = cursor[s] \/ cursor'[s] = next[s]
          /\ pc'[s] \in {"pause", "tick"}
      BY <1>1, <1>7 DEF Save, PageDone, Goto
    <2>2. pc'[s] = "tick" => pages'[s] = 0
      BY <1>1, <1>7 DEF Save, Goto
    <2>3. /\ at[s] <= next[s] /\ next[s] <= Len(Feed[s])
          /\ \A i \in 1..Len(Feed[s]) :
                at[s] < i /\ i <= next[s] => <<s, Feed[s][i]>> \in Noted
      BY <1>3, <2>1 DEF PageAhead, Reading
    <2>4. CursorsBehind(s)'
      BY <1>2, <1>3, <2>1, <2>3 DEF CursorsBehind
    <2>6. Carried(s)' /\ Uncounted(s)'
      BY <2>1, <2>2 DEF Carried, Uncounted
    <2>7. PageAhead(s)' /\ HeadNoted(s)'
      BY <2>1 DEF PageAhead, HeadNoted, Reading, Dispatching
    <2> QED BY <2>4, <2>6, <2>7 DEF Behaves
  <1> QED BY <1>4, <1>5, <1>6, <1>7

LEMMA BehavesInit == Init => SInv
  <1> SUFFICES ASSUME Init, NEW s \in Sources PROVE Behaves(s)
    BY DEF SInv
  <1>1. /\ pc[s] = "start" /\ at[s] = 0 /\ cursor[s] = 0 /\ pages[s] = 0 /\ page[s] = <<>>
        /\ Len(Feed[s]) \in Nat
    BY SourcesAssumption DEF Init
  <1>2. Carried(s) /\ Uncounted(s)
    BY <1>1 DEF Carried, Uncounted
  <1>3. CursorsBehind(s)
    BY <1>1 DEF CursorsBehind
  <1>4. PageAhead(s) /\ HeadNoted(s)
    BY <1>1 DEF PageAhead, HeadNoted, Reading, Dispatching
  <1> QED BY <1>2, <1>3, <1>4 DEF Behaves

LEMMA StepSInv == IInv /\ SInv /\ [Next]_vars => SInv'
  <1> SUFFICES ASSUME IInv, SInv, [Next]_vars, NEW s \in Sources PROVE Behaves(s)'
    BY DEF SInv
  <1>1. Behaves(s) /\ Noted \subseteq Noted'
    BY NotedGrows DEF SInv
  <1>2. CASE Same(s)
    BY <1>1, <1>2, BehavesOn
  <1>3. CASE \E r \in Sources : Poller(r)
    <2>1. PICK r \in Sources : Poller(r)
      BY <1>3
    <2>2. CASE r = s
      BY <1>1, <2>1, <2>2, BehavesPoll, BehavesDispatch DEF Poller
    <2>3. CASE r # s
      BY <1>1, <2>1, <2>3, OthersSame, BehavesOn
    <2> QED BY <2>2, <2>3
  <1>4. CASE \E o \in Outputs : Worker(o)
    <2>1. Same(s)
      BY <1>4 DEF Worker, Receive, StopWorker, Begin, SendDecides, SendFails, Backoff,
                  RecordVerdict, Settle, storeVars, pollVars, Same
    <2> QED BY <1>2, <2>1
  <1>5. CASE Main \/ Cancel \/ Sweep \/ Stopped \/ UNCHANGED vars
    <2>1. Same(s)
      BY <1>5 DEF Main, StopSweeper, CloseQueues, DrainTimeout, Finish, Cancel, Sweep,
                  Stopped, vars, storeVars, pollVars, Same
    <2> QED BY <1>2, <2>1
  <1>6. CASE Restart
    <2>1. /\ pc'[s] = "start" /\ at'[s] = 0 /\ cursor'[s] = cursor[s] /\ pages'[s] = 0
          /\ page'[s] = <<>>
      BY <1>6 DEF Restart, storeVars
    <2>2. Carried(s)' /\ Uncounted(s)'
      BY <2>1 DEF Carried, Uncounted
    <2>3. CursorsBehind(s)'
      BY <1>1, <2>1, PollerType DEF Behaves, CursorsBehind
    <2>4. PageAhead(s)' /\ HeadNoted(s)'
      BY <2>1 DEF PageAhead, HeadNoted, Reading, Dispatching
    <2> QED BY <2>2, <2>3, <2>4 DEF Behaves
  <1> QED BY <1>3, <1>4, <1>5, <1>6 DEF Next

LEMMA SafetyInductive == Spec => [](IInv /\ SInv)
  BY TypeInit, StepIInv, BehavesInit, StepSInv, PTL DEF Spec

(* The stored cursor never runs ahead of dispatch, whatever fails and       *)
(* whenever the process dies: a restart never steps over a record.          *)
THEOREM CursorCoveredCorrect == Spec => []CursorCovered
  <1>1. IInv /\ SInv => CursorCovered
    <2> SUFFICES ASSUME IInv, SInv, NEW s \in Sources, NEW i \in 1..cursor[s]
                 PROVE  <<s, Feed[s][i]>> \in seen \cup exposed
      BY DEF CursorCovered
    <2>1. CursorsBehind(s)
      BY DEF SInv, Behaves
    <2>2. i \in 1..Len(Feed[s]) /\ i <= cursor[s]
      BY <2>1, PollerType DEF CursorsBehind
    <2> QED BY <2>1, <2>2 DEF CursorsBehind, Noted
  <1> QED BY <1>1, SafetyInductive, PTL

(* A poller enters the pause only by a save that drains on, and a poll in a *)
(* drain only from the pause.                                               *)
LEMMA EagerStep ==
    ASSUME IInv, SInv, NEW s \in Sources, Poller(s), pages[s] > 0
    PROVE  /\ pc[s] # "pause" /\ pc'[s] = "pause" => at'[s] # at[s]
           /\ pc[s] # "poll" /\ pc'[s] = "poll" => pc[s] = "pause"
  <1>1. DOMAIN pc = Sources /\ DOMAIN at = Sources
    BY DEF IInv, TypeOK, PollType
  <1>2. pc[s] \notin {"start", "tick"}
    BY DEF SInv, Behaves, Uncounted
  <1>3. CASE Save(s)
    <2>1. at'[s] = next[s] /\ pc'[s] \in {"pause", "tick"}
      BY <1>1, <1>3 DEF Save, Goto
    <2>2. pc'[s] = "pause" => next[s] # at[s]
      <3>1. pages[s] # 0
        BY PollerType
      <3> QED BY <1>1, <1>3, <3>1 DEF Save, Goto, DrainsOn
    <2> QED BY <2>1, <2>2
  <1>4. CASE Dispatch(s)
    <2>1. pc'[s] \notin {"pause", "poll"} \/ pc'[s] = pc[s]
      BY <1>1, <1>4 DEF Dispatch, MarkNew, MarkDuplicate, MarkFails, DropUnroutable, Check,
                        Track, Enqueue, DropFull, Wait, GiveUp, Accept, Advance, Goto
    <2> QED BY <2>1
  <1>5. CASE CallPoll(s) \/ PollOK(s) \/ PollFails(s) \/ Pause(s)
    <2>1. /\ pc'[s] \in {"fetch", "mark", "tick", "poll"}
          /\ pc'[s] = "poll" => pc[s] = "pause"
      BY <1>1, <1>5 DEF CallPoll, PollOK, PollFails, Pause, Goto
    <2> QED BY <2>1
  <1>6. CASE StartPoller(s) \/ Tick(s) \/ StopPoller(s)
    BY <1>2, <1>6 DEF StartPoller, Tick, StopPoller
  <1> QED BY <1>3, <1>4, <1>5, <1>6 DEF Poller

(* A drain goes on after an eager page only if that page moved the cursor,  *)
(* wherever it began, and asks for the next one only after the pause: it    *)
(* cannot spin on an adapter that stays where it is, or that fails.         *)
THEOREM EagerCorrect == Spec => EagerPagesMove
  <1> DEFINE Moves(s) == pages[s] > 0 =>
                /\ pc[s] # "pause" /\ pc'[s] = "pause" => at'[s] # at[s]
                /\ pc[s] # "poll" /\ pc'[s] = "poll" => pc[s] = "pause"
  <1>1. IInv /\ SInv /\ [Next]_vars => [\A s \in Sources : Moves(s)]_vars
    <2> SUFFICES ASSUME IInv, SInv, Next, NEW s \in Sources PROVE Moves(s)
      OBVIOUS
    <2>1. CASE \E r \in Sources : Poller(r)
      <3>1. PICK r \in Sources : Poller(r)
        BY <2>1
      <3>2. CASE r = s
        BY <3>1, <3>2, EagerStep
      <3>3. CASE r # s
        BY <3>1, <3>3, OthersSame DEF Same
      <3> QED BY <3>2, <3>3
    <2>2. CASE \E o \in Outputs : Worker(o)
      BY <2>2 DEF Worker, Receive, StopWorker, Begin, SendDecides, SendFails, Backoff,
                  RecordVerdict, Settle, pollVars
    <2>3. CASE Main \/ Cancel \/ Sweep \/ Stopped
      BY <2>3 DEF Main, StopSweeper, CloseQueues, DrainTimeout, Finish, Cancel, Sweep,
                  Stopped, vars, pollVars
    <2>4. CASE Restart
      BY <2>4 DEF Restart
    <2> QED BY <2>1, <2>2, <2>3, <2>4 DEF Next
  <1> QED BY <1>1, SafetyInductive, PTL DEF Spec, EagerPagesMove

-----------------------------------------------------------------------------
(* Shutdown: the pollers are gone before the channels close, a worker stops *)
(* at a closed and empty channel, Run returns after the last of them.       *)
RunInv ==
    /\ main # "running" => \A s \in Sources : pc[s] = "done"
    /\ \A o \in Outputs : wpc[o] = "done" => main # "running" /\ queue[o] = <<>>
    /\ main = "stopped" => \A o \in Outputs : wpc[o] = "done"

LEMMA RunInit == Init => RunInv
  BY DEF Init, RunInv

(* A poller that moves is not done, so Run is still running. *)
LEMMA PollerAlive ==
    ASSUME RunInv, NEW s \in Sources, Poller(s)
    PROVE  main = "running" /\ UNCHANGED main /\ UNCHANGED wpc
  <1>1. pc[s] # "done" /\ UNCHANGED main /\ UNCHANGED wpc
    BY DEF Poller, Dispatch, StartPoller, CallPoll, PollOK, PollFails, Save, Pause, Tick,
           StopPoller, MarkNew, MarkDuplicate, MarkFails, DropUnroutable, Check, Track,
           Enqueue, DropFull, Wait, GiveUp, mainVars, workVars
  <1> QED BY <1>1 DEF RunInv

LEMMA WorkerAlive ==
    ASSUME IInv, RunInv, NEW o \in Outputs, Worker(o)
    PROVE  RunInv'
  <1>1. DOMAIN wpc = Outputs /\ DOMAIN queue = Outputs
    BY DEF IInv, TypeOK, WorkType, DestType
  <1>2. /\ wpc[o] # "done" /\ UNCHANGED <<main, pc>>
        /\ \A d \in Outputs \ {o} : wpc'[d] = wpc[d] /\ queue'[d] = queue[d]
        /\ wpc'[o] = "done" => main = "draining" /\ queue[o] = <<>> /\ UNCHANGED queue
    <2>1. CASE Receive(o)
      BY <1>1, <2>1 DEF Receive, WGoto, mainVars, pollVars
    <2>2. CASE StopWorker(o)
      BY <1>1, <2>2 DEF StopWorker, MayLeave, WGoto, mainVars, pollVars, destVars
    <2>3. CASE Begin(o) \/ SendDecides(o) \/ SendFails(o) \/ Backoff(o)
               \/ RecordVerdict(o) \/ Settle(o)
      BY <1>1, <2>3 DEF Begin, SendDecides, SendFails, Backoff, RecordVerdict, Settle, Decide,
                        WGoto, mainVars, pollVars, destVars
    <2> QED BY <2>1, <2>2, <2>3 DEF Worker
  <1>3. main # "stopped"
    BY <1>2 DEF RunInv
  <1>4. \A d \in Outputs : (wpc[d] = "done" => main # "running" /\ queue[d] = <<>>)'
    <2> TAKE d \in Outputs
    <2>1. CASE d = o
      BY <1>2, <2>1
    <2>2. CASE d # o
      BY <1>2, <2>2 DEF RunInv
    <2> QED BY <2>1, <2>2
  <1> QED BY <1>2, <1>3, <1>4 DEF RunInv

LEMMA StepRunInv == IInv /\ RunInv /\ [Next]_vars => RunInv'
  <1> SUFFICES ASSUME IInv, RunInv, [Next]_vars PROVE RunInv'
    OBVIOUS
  <1>1. CASE \E s \in Sources : Poller(s)
    BY <1>1, PollerAlive DEF RunInv
  <1>2. CASE \E o \in Outputs : Worker(o)
    BY <1>2, WorkerAlive
  <1>3. CASE Main
    BY <1>3 DEF Main, StopSweeper, CloseQueues, DrainTimeout, Finish, PollersGone,
                pollVars, workVars, destVars, RunInv
  <1>4. CASE Cancel \/ Sweep \/ Stopped \/ UNCHANGED vars
    BY <1>4 DEF Cancel, Sweep, Stopped, vars, mainVars, pollVars, workVars, destVars, RunInv
  <1>5. CASE Restart
    BY <1>5 DEF Restart, RunInv
  <1> QED BY <1>1, <1>2, <1>3, <1>4, <1>5 DEF Next

LEMMA RunInductive == Spec => [](IInv /\ OutstandingExact /\ RunInv)
  <1>1. Spec => [](IInv /\ RunInv)
    BY TypeInit, StepIInv, RunInit, StepRunInv, PTL DEF Spec
  <1> QED BY <1>1, OutstandingCorrect, PTL

(* No channel closes under a poller, and a Run that returns leaves nothing  *)
(* in a channel, nothing counted and no decision without its row.           *)
THEOREM ShutdownCorrect == Spec => []ShutdownLeavesNothing
  <1>1. IInv /\ OutstandingExact /\ RunInv => ShutdownLeavesNothing
    <2> SUFFICES ASSUME IInv, OutstandingExact, RunInv PROVE ShutdownLeavesNothing
      OBVIOUS
    <2>1. main # "running" => \A s \in Sources : pc[s] = "done"
      BY DEF RunInv
    <2>2. ASSUME main = "stopped", NEW o \in Outputs
          PROVE  queue[o] = <<>> /\ outstanding[o] = 0 /\ wpc[o] = "done"
      <3>1. wpc[o] = "done" /\ queue[o] = <<>> /\ held[o] = NoItem
        BY <2>2 DEF RunInv, IInv, WorkControl
      <3>2. PollersTracking(o) = {}
        BY <2>1, <2>2 DEF PollersTracking
      <3>3. QueuedTracked(o) = {}
        BY <3>1 DEF QueuedTracked, Positions
      <3>4. outstanding[o] = 0 + 0 + 0
        BY <3>1, <3>2, <3>3, FS_EmptySet, NoItemType DEF OutstandingExact
      <3> QED BY <3>1, <3>4
    <2>3. ASSUME main = "stopped", NEW k \in Key PROVE Owed(k) = 0
      <3>1. PollersOwing(k) = {}
        BY <2>1, <2>3 DEF PollersOwing, Dispatching
      <3>2. k[2] \in Outputs => Queued(k) = {} /\ ~InHand(k)
        BY <2>2, <2>3 DEF Queued, Positions, InHand
      <3> QED BY <3>1, <3>2, FS_EmptySet DEF Owed
    <2> QED BY <2>1, <2>2, <2>3 DEF ShutdownLeavesNothing
  <1> QED BY <1>1, RunInductive, PTL

-----------------------------------------------------------------------------
(* A poller about to drop is not behind a backlog of its own: the check     *)
(* found none, and only its own events could have made one since.           *)
OwnInv ==
    \A s \in Sources :
        pc[s] = "offer" /\ ~tracked[s] => ~Delivering(s, Dst(s))

LEMMA OwnInit == Init => OwnInv
  BY DEF Init, OwnInv

(* Nothing counted at o, so nothing tracked in its channel or with its      *)
(* worker.                                                                  *)
LEMMA NotBehind ==
    ASSUME IInv, OutstandingExact, NEW o \in Outputs, ~Behind(o), NEW s
    PROVE  ~Delivering(s, o)
  <1> DEFINE N == Cardinality(PollersTracking(o))
             Q == Cardinality(QueuedTracked(o))
  <1>1. N \in Nat /\ Q \in Nat /\ Hand(o) \in Nat /\ IsFiniteSet(QueuedTracked(o))
    BY TrackingFinite, PositionsFinite DEF QueuedTracked, Hand, IInv, TypeOK, DestType
  <1>2. outstanding[o] = N + Q + Hand(o) /\ outstanding[o] \in Int
    BY DEF OutstandingExact, Hand, IInv, TypeOK, DestType
  <1> HIDE DEF N, Q
  <1>3. Q = 0 /\ Hand(o) = 0
    BY <1>1, <1>2 DEF Behind
  <1>4. QueuedTracked(o) = {}
    BY <1>1, <1>3, FS_EmptySet DEF Q
  <1>5. ~held[o].tracked
    BY <1>3 DEF Hand
  <1>6. \A i \in DOMAIN queue[o] : queue[o][i] \in Item
    BY DEF IInv, TypeOK, DestType
  <1>7. \A i \in DOMAIN queue[o] : ~queue[o][i].tracked
    BY <1>4, <1>6 DEF QueuedTracked, Positions, TrackedItems, Item
  <1> QED BY <1>5, <1>7 DEF Delivering

(* What another poller enqueues is a record of that one. *)
LEMMA OthersEnqueue ==
    ASSUME IInv, SInv, NEW r \in Sources, Enqueue(r), NEW s \in Sources, r # s,
           NEW o \in Outputs, ~Delivering(s, o)
    PROVE  ~Delivering(s, o)'
  <1> DEFINE x == [event |-> Ev(r), tracked |-> tracked[r]]
  <1>1. /\ UNCHANGED held /\ queue \in [Outputs -> Seq(Item)]
        /\ queue' = [queue EXCEPT ![Dst(r)] = Append(@, x)]
        /\ Dispatching(r)
    BY DEF Enqueue, workVars, Dispatching, IInv, TypeOK, DestType
  <1>2. x.event \notin Own(s)
    <2>1. page[r] # <<>> /\ page[r] \in Seq(Events)
      BY <1>1 DEF IInv, TypeOK, PollType, PollControl
    <2>2. 1 \in DOMAIN page[r] /\ Ev(r) = page[r][1]
      BY <2>1 DEF Ev
    <2>3. Carries(r, Ev(r))
      BY <2>2 DEF SInv, Behaves, Carried
    <2> QED BY <2>3 DEF Own, Carries
  <1>3. CASE o = Dst(r)
    <2>1. queue'[o] = Append(queue[o], x) /\ queue[o] \in Seq(Item)
      BY <1>1, <1>3
    <2>2. \A i \in DOMAIN queue'[o] :
              (i \in DOMAIN queue[o] /\ queue'[o][i] = queue[o][i]) \/ queue'[o][i] = x
      BY <2>1
    <2> HIDE DEF x
    <2> QED BY <1>1, <1>2, <2>2 DEF Delivering, Own
  <1>4. CASE o # Dst(r)
    BY <1>1, <1>4 DEF Delivering, Own
  <1> QED BY <1>3, <1>4

(* A worker moves its items on and adds none. *)
LEMMA WorkersDeliver ==
    ASSUME IInv, NEW w \in Outputs, Worker(w), NEW s, NEW o \in Outputs, ~Delivering(s, o)
    PROVE  ~Delivering(s, o)'
  <1>1. /\ queue \in [Outputs -> Seq(Item)] /\ DOMAIN held = Outputs
    BY DEF IInv, TypeOK, DestType, WorkType
  <1>2. CASE Receive(w) /\ w = o
    <2>1. /\ queue[o] \in Seq(Item) /\ queue[o] # <<>>
          /\ held'[o] = Head(queue[o]) /\ queue'[o] = Tail(queue[o])
      BY <1>1, <1>2 DEF Receive
    <2>2. /\ 1 \in DOMAIN queue[o] /\ held'[o] = queue[o][1]
          /\ \A i \in DOMAIN queue'[o] : /\ i + 1 \in DOMAIN queue[o]
                                         /\ queue'[o][i] = queue[o][i + 1]
      BY <2>1
    <2> QED BY <2>2 DEF Delivering, Own
  <1>3. CASE Settle(w) /\ w = o
    <2>1. held'[o] = NoItem /\ UNCHANGED queue
      BY <1>1, <1>3 DEF Settle
    <2> QED BY <2>1, NoItemType DEF Delivering, Own
  <1>4. CASE w # o \/ (~Receive(w) /\ ~Settle(w))
    <2>1. held'[o] = held[o] /\ queue'[o] = queue[o]
      BY <1>1, <1>4 DEF Worker, Receive, StopWorker, Begin, SendDecides, SendFails, Backoff,
                        RecordVerdict, Settle, destVars
    <2> QED BY <2>1 DEF Delivering, Own
  <1> QED BY <1>2, <1>3, <1>4

LEMMA OwnStays ==
    ASSUME NEW s, NEW o, ~Delivering(s, o), UNCHANGED <<queue, held>>
    PROVE  ~Delivering(s, o)'
  BY DEF Delivering, Own

LEMMA OthersPoller ==
    ASSUME IInv, NEW s \in Sources, Poller(s)
    PROVE  Others(s)
  <1>1. DOMAIN pc = Sources /\ DOMAIN tracked = Sources /\ DOMAIN targets = Sources
    BY DEF IInv, TypeOK, PollType
  <1>2. CASE StartPoller(s) \/ CallPoll(s) \/ PollOK(s) \/ PollFails(s)
             \/ Save(s) \/ Pause(s) \/ Tick(s) \/ StopPoller(s)
    BY <1>1, <1>2 DEF StartPoller, CallPoll, PollOK, PollFails, Save, Pause, Tick,
                      StopPoller, Goto, Others
  <1>3. CASE Dispatch(s)
    BY <1>1, <1>3 DEF Dispatch, MarkNew, MarkDuplicate, MarkFails, DropUnroutable, Check,
                      Track, Enqueue, DropFull, Wait, GiveUp, Accept, Advance, Goto, Others
  <1> QED BY <1>2, <1>3 DEF Poller

(* Of the poller's own steps only the check brings it to an untracked offer. *)
LEMMA OwnPoller ==
    ASSUME IInv, OutstandingExact, NEW s \in Sources, Poller(s),
           pc'[s] = "offer", ~tracked'[s]
    PROVE  ~Delivering(s, Dst(s))'
  <1>1. DOMAIN pc = Sources /\ DOMAIN tracked = Sources
    BY DEF IInv, TypeOK, PollType
  <1>2. Check(s)
    <2>1. CASE StartPoller(s) \/ CallPoll(s) \/ PollOK(s) \/ PollFails(s)
               \/ Save(s) \/ Pause(s) \/ Tick(s) \/ StopPoller(s)
      <3>1. pc'[s] # "offer"
        BY <1>1, <2>1 DEF StartPoller, CallPoll, PollOK, PollFails, Save, Pause, Tick,
                          StopPoller, Goto
      <3> QED BY <3>1
    <2>2. CASE MarkNew(s) \/ MarkDuplicate(s) \/ MarkFails(s) \/ Wait(s)
      <3>1. pc'[s] # "offer"
        BY <1>1, <2>2 DEF MarkNew, MarkDuplicate, MarkFails, Wait, Accept, Goto
      <3> QED BY <3>1
    <2>3. CASE DropUnroutable(s) \/ Enqueue(s) \/ DropFull(s) \/ GiveUp(s)
      <3>1. pc'[s] # "offer"
        BY <1>1, <2>3 DEF DropUnroutable, Enqueue, DropFull, GiveUp, Advance, Goto
      <3> QED BY <3>1
    <2>4. CASE Track(s)
      <3>1. tracked'[s]
        BY <2>4 DEF Track, IInv, PollControl
      <3> QED BY <3>1
    <2> QED BY <2>1, <2>2, <2>3, <2>4 DEF Poller, Dispatch
  <1>3. /\ Dst(s) \in Outputs /\ ~Behind(Dst(s))
        /\ UNCHANGED <<targets, queue, held>>
    BY <1>1, <1>2 DEF Check, Tracks, destVars, workVars
  <1>4. ~Delivering(s, Dst(s))
    BY <1>3, NotBehind
  <1> QED BY <1>3, <1>4 DEF Delivering, Own, Dst

LEMMA StepOwnInv == IInv /\ OutstandingExact /\ SInv /\ OwnInv /\ [Next]_vars => OwnInv'
  <1> SUFFICES ASSUME IInv, OutstandingExact, SInv, OwnInv, [Next]_vars,
                      NEW s \in Sources, pc'[s] = "offer", ~tracked'[s]
               PROVE  ~Delivering(s, Dst(s))'
    BY DEF OwnInv
  <1>1. ASSUME pc'[s] = pc[s], tracked'[s] = tracked[s], targets'[s] = targets[s]
        PROVE  ~Delivering(s, Dst(s)) /\ Dst(s)' = Dst(s) /\ Dst(s) \in Outputs
    BY <1>1 DEF OwnInv, Dst, IInv, PollControl
  <1>2. CASE Poller(s)
    BY <1>2, OwnPoller
  <1>3. CASE \E r \in Sources \ {s} : Poller(r)
    <2>1. PICK r \in Sources : Poller(r) /\ r # s
      BY <1>3
    <2>2. Others(r)
      BY <2>1, OthersPoller
    <2>3. pc'[s] = pc[s] /\ tracked'[s] = tracked[s] /\ targets'[s] = targets[s]
      BY <2>1, <2>2 DEF Others
    <2>4. PICK o \in Outputs : o = Dst(s) /\ ~Delivering(s, o) /\ o = Dst(s)'
      BY <1>1, <2>3
    <2>5. ~Delivering(s, o)'
      <3>1. CASE Enqueue(r)
        BY <2>1, <2>4, <3>1, OthersEnqueue
      <3>2. CASE ~Enqueue(r)
        <4>1. UNCHANGED <<queue, held>>
          BY <2>1, <3>2
             DEF Poller, Dispatch, StartPoller, CallPoll, PollOK, PollFails, Save, Pause, Tick,
                 StopPoller, MarkNew, MarkDuplicate, MarkFails, DropUnroutable, Check, Track,
                 DropFull, Wait, GiveUp, destVars, workVars
        <4> QED BY <2>4, <4>1, OwnStays
      <3> QED BY <3>1, <3>2
    <2> QED BY <2>4, <2>5
  <1>4. CASE \E w \in Outputs : Worker(w)
    <2>1. PICK w \in Outputs : Worker(w)
      BY <1>4
    <2>2. UNCHANGED <<pc, tracked, targets>>
      BY <2>1 DEF Worker, Receive, StopWorker, Begin, SendDecides, SendFails, Backoff,
                  RecordVerdict, Settle, pollVars
    <2>3. PICK o \in Outputs : o = Dst(s) /\ ~Delivering(s, o) /\ o = Dst(s)'
      BY <1>1, <2>2
    <2>4. ~Delivering(s, o)'
      BY <2>1, <2>3, WorkersDeliver
    <2> QED BY <2>3, <2>4
  <1>5. CASE Main \/ Cancel \/ Sweep \/ Stopped \/ UNCHANGED vars
    <2>1. UNCHANGED <<pc, tracked, targets, queue, held>>
      BY <1>5 DEF Main, StopSweeper, CloseQueues, DrainTimeout, Finish, Cancel, Sweep,
                  Stopped, vars, pollVars, destVars, workVars
    <2>2. PICK o \in Outputs : o = Dst(s) /\ ~Delivering(s, o) /\ o = Dst(s)'
      BY <1>1, <2>1
    <2>3. ~Delivering(s, o)'
      BY <2>1, <2>2, OwnStays
    <2> QED BY <2>2, <2>3
  <1>6. CASE Restart
    <2>1. pc'[s] = "start"
      BY <1>6 DEF Restart
    <2> QED BY <2>1
  <1>7. CASE \E r \in Sources : Poller(r)
    BY <1>2, <1>3, <1>7
  <1> QED BY <1>4, <1>5, <1>6, <1>7 DEF Next

LEMMA OwnInductive == Spec => [](IInv /\ OutstandingExact /\ SInv /\ OwnInv)
  <1>1. Spec => [](IInv /\ OutstandingExact /\ SInv)
    BY SafetyInductive, OutstandingCorrect, PTL
  <1> QED BY <1>1, OwnInit, StepOwnInv, PTL DEF Spec

(* However many adapters share an output, none drops for a full queue while *)
(* the output still delivers a backlog of the events only it carries.       *)
THEOREM OwnBacklogCorrect == Spec => OwnBacklogFirst
  <1>1. IInv /\ OwnInv /\ [Next]_vars
           => [\A s \in Sources : DropFull(s) => ~Delivering(s, Dst(s))]_vars
    BY DEF OwnInv, DropFull
  <1> QED BY <1>1, OwnInductive, PTL DEF Spec, OwnBacklogFirst

-----------------------------------------------------------------------------
(* Ends of work and of polls: a measure that every step lowers.  The        *)
(* measure of a worker is a number, so its proof is arithmetic about the    *)
(* items in the channel; that of a poller is compared as a tuple, because   *)
(* how long the next page will be is not known before it is polled.         *)

(* What a step of the worker of o leaves of the other outputs. *)
LEMMA OthersWork ==
    ASSUME IInv, NEW o \in Outputs, Worker(o), NEW d \in Outputs, d # o
    PROVE  UNCHANGED <<wpc[d], queue[d], attempt[d]>>
  <1>1. DOMAIN wpc = Outputs /\ DOMAIN queue = Outputs /\ DOMAIN attempt = Outputs
    BY DEF IInv, TypeOK, WorkType, DestType
  <1> QED BY <1>1 DEF Worker, Receive, StopWorker, Begin, SendDecides, SendFails, Backoff,
                      RecordVerdict, Settle, Decide, WGoto, destVars

LEMMA WorkerShrinks ==
    ASSUME IInv, NEW o \in Outputs, Worker(o)
    PROVE  WorkLeft(o)' < WorkLeft(o)
  <1>1. PICK m \in Nat \ {0}, a \in Nat, n \in Nat :
            /\ m = MaxAttempts[o] /\ a = attempt[o] /\ a <= m
            /\ n = Len(queue[o])
    <2>1. /\ MaxAttempts[o] \in Nat \ {0} /\ attempt[o] \in Nat
          /\ attempt[o] <= MaxAttempts[o] /\ Len(queue[o]) \in Nat
      BY OutputsAssumption DEF IInv, TypeOK, WorkType, DestType
    <2> QED BY <2>1
  <1>w. PICK w \in Nat : w = (2 * m + 3) * n
    OBVIOUS
  <1>t. DOMAIN wpc = Outputs /\ DOMAIN queue = Outputs /\ DOMAIN attempt = Outputs
    BY DEF IInv, TypeOK, WorkType, DestType
  <1>2. CASE Receive(o)
    <2>1. wpc[o] = "recv" /\ wpc'[o] = "got" /\ queue'[o] = Tail(queue[o])
      BY <1>t, <1>2 DEF Receive, WGoto
    <2>2. n \in Nat \ {0} /\ Len(queue'[o]) = n - 1
      <3>1. queue[o] \in Seq(Item) /\ queue[o] # <<>>
        BY <1>2 DEF Receive, IInv, TypeOK, DestType
      <3> QED BY <1>1, <2>1, <3>1
    <2>3. WorkLeft(o) = w + 1
      BY <1>1, <1>w, <2>1 DEF WorkLeft
    <2>4. WorkLeft(o)' = (2 * m + 3) * (n - 1) + (2 * m + 3)
      BY <1>1, <1>w, <2>1, <2>2 DEF WorkLeft
    <2>5. (2 * m + 3) * (n - 1) + (2 * m + 3) = w
      <3>1. PICK t \in Nat : t = 2 * m + 3
        BY <1>1
      <3>2. t * (n - 1) + t = t * n
        BY <2>2
      <3> QED BY <1>w, <3>1, <3>2
    <2> QED BY <1>1, <2>3, <2>4, <2>5
  <1>3. ASSUME queue'[o] = queue[o], NEW x \in Int, NEW y \in Int,
               WorkLeft(o) = w + x, WorkLeft(o)' = w + y, y < x
        PROVE  WorkLeft(o)' < WorkLeft(o)
    BY <1>3
  <1>4. CASE StopWorker(o)
    <2>1. wpc[o] = "recv" /\ wpc'[o] = "done" /\ queue'[o] = queue[o]
      BY <1>t, <1>4 DEF StopWorker, WGoto, destVars
    <2>2. WorkLeft(o) = w + 1 /\ WorkLeft(o)' = w + 0
      BY <1>1, <1>w, <2>1 DEF WorkLeft
    <2> QED BY <1>3, <2>1, <2>2
  <1>5. CASE Begin(o)
    <2>1. /\ wpc[o] = "got" /\ queue'[o] = queue[o]
          /\ wpc'[o] = "audit" \/ (wpc'[o] = "send" /\ attempt'[o] = 1)
      BY <1>t, <1>5 DEF Begin, Decide, WGoto, destVars
    <2>2. WorkLeft(o) = w + (2 * m + 3)
      BY <1>1, <1>w, <2>1 DEF WorkLeft
    <2>3. CASE wpc'[o] = "audit"
      <3>1. WorkLeft(o)' = w + 3
        BY <1>1, <1>w, <2>1, <2>3 DEF WorkLeft
      <3> QED BY <1>1, <2>2, <3>1
    <2>4. CASE wpc'[o] = "send" /\ attempt'[o] = 1
      <3>1. WorkLeft(o)' = w + (2 * (m - 1) + 4)
        BY <1>1, <1>w, <2>1, <2>4 DEF WorkLeft
      <3> QED BY <1>1, <2>2, <3>1
    <2> QED BY <2>1, <2>3, <2>4
  <1>6. CASE SendDecides(o) \/ SendFails(o)
    <2>1. /\ wpc[o] = "send" /\ queue'[o] = queue[o]
          /\ \/ wpc'[o] = "audit"
             \/ wpc'[o] = "backoff" /\ attempt'[o] = a
      BY <1>1, <1>t, <1>6 DEF SendDecides, SendFails, Decide, WGoto, destVars
    <2>2. WorkLeft(o) = w + (2 * (m - a) + 4)
      BY <1>1, <1>w, <2>1 DEF WorkLeft
    <2>a. 2 * (m - a) \in Nat
      BY <1>1
    <2>3. CASE wpc'[o] = "audit"
      <3>1. WorkLeft(o)' = w + 3
        BY <1>1, <1>w, <2>1, <2>3 DEF WorkLeft
      <3> QED BY <1>3, <2>1, <2>2, <2>a, <3>1
    <2>4. CASE wpc'[o] = "backoff" /\ attempt'[o] = a
      <3>1. WorkLeft(o)' = w + (2 * (m - a) + 3)
        BY <1>1, <1>w, <2>1, <2>4 DEF WorkLeft
      <3> QED BY <1>3, <2>1, <2>2, <2>a, <3>1
    <2> QED BY <2>1, <2>3, <2>4
  <1>7. CASE Backoff(o)
    <2>1. /\ wpc[o] = "backoff" /\ queue'[o] = queue[o] /\ a < m
          /\ \/ wpc'[o] = "audit"
             \/ wpc'[o] = "send" /\ attempt'[o] = a + 1
      BY <1>1, <1>t, <1>7
         DEF Backoff, NextAttempt, Decide, WGoto, destVars, IInv, TypeOK, WorkType
    <2>2. WorkLeft(o) = w + (2 * (m - a) + 3)
      BY <1>1, <1>w, <2>1 DEF WorkLeft
    <2>a. /\ 2 * (m - a) \in Nat \ {0} /\ 2 * (m - (a + 1)) \in Nat
          /\ 2 * (m - (a + 1)) = 2 * (m - a) - 2
      BY <1>1, <2>1
    <2>3. CASE wpc'[o] = "audit"
      <3>1. WorkLeft(o)' = w + 3
        BY <1>1, <1>w, <2>1, <2>3 DEF WorkLeft
      <3> QED BY <1>3, <2>1, <2>2, <2>a, <3>1
    <2>4. CASE wpc'[o] = "send" /\ attempt'[o] = a + 1
      <3>1. WorkLeft(o)' = w + (2 * (m - (a + 1)) + 4)
        BY <1>1, <1>w, <2>1, <2>4 DEF WorkLeft
      <3> QED BY <1>3, <2>1, <2>2, <2>a, <3>1
    <2> QED BY <2>1, <2>3, <2>4
  <1>8. CASE RecordVerdict(o)
    <2>1. wpc[o] = "audit" /\ wpc'[o] = "settle" /\ queue'[o] = queue[o]
      BY <1>t, <1>8 DEF RecordVerdict, WGoto, destVars
    <2>2. WorkLeft(o) = w + 3 /\ WorkLeft(o)' = w + 2
      BY <1>1, <1>w, <2>1 DEF WorkLeft
    <2> QED BY <1>3, <2>1, <2>2
  <1>9. CASE Settle(o)
    <2>1. wpc[o] = "settle" /\ wpc'[o] = "recv" /\ queue'[o] = queue[o]
      BY <1>t, <1>9 DEF Settle, WGoto
    <2>2. WorkLeft(o) = w + 2 /\ WorkLeft(o)' = w + 1
      BY <1>1, <1>w, <2>1 DEF WorkLeft
    <2> QED BY <1>3, <2>1, <2>2
  <1> QED BY <1>2, <1>4, <1>5, <1>6, <1>7, <1>8, <1>9 DEF Worker

(* The amount of work is a number. *)
LEMMA WorkLeftType == ASSUME IInv, NEW o \in Outputs PROVE WorkLeft(o) \in Int
  <1>1. /\ MaxAttempts[o] \in Nat /\ attempt[o] \in Nat /\ Len(queue[o]) \in Nat
        /\ wpc[o] \in {"recv", "got", "send", "backoff", "audit", "settle", "done"}
    BY OutputsAssumption DEF IInv, TypeOK, WorkType, DestType
  <1>2. PICK m \in Nat, a \in Nat, n \in Nat :
            m = MaxAttempts[o] /\ a = attempt[o] /\ n = Len(queue[o])
    BY <1>1
  <1>w. PICK w \in Nat : w = (2 * m + 3) * n
    OBVIOUS
  <1>3. PICK b \in Int : b = 2 * (m - a)
    OBVIOUS
  <1>4. WorkLeft(o) \in {w + (2 * m + 3), w + (b + 4), w + (b + 3),
                         w + 3, w + 2, w + 1, w + 0}
    BY <1>1, <1>2, <1>w, <1>3 DEF WorkLeft
  <1> QED BY <1>4

(* Each step of a worker leaves it with fewer to take, and a closed channel *)
(* gets no more: a drain is as long as it was when it began, at most.       *)
THEOREM WorkersRunOut == Spec => WorkRunsOut
  <1> DEFINE Runs(o) ==
        /\ wpc'[o] # wpc[o] => WorkLeft(o)' < WorkLeft(o)
        /\ main # "running" => WorkLeft(o)' <= WorkLeft(o)
  <1>a. IInv => \A o \in Outputs : WorkLeft(o) \in Int
    BY WorkLeftType
  <1>b. (IInv => \A o \in Outputs : WorkLeft(o) \in Int)'
    BY <1>a, PTL
  <1>1. IInv /\ RunInv /\ [Next]_vars
            => [restarts' = restarts => \A o \in Outputs : Runs(o)]_vars
    <2> SUFFICES ASSUME IInv, RunInv, Next, restarts' = restarts, NEW o \in Outputs
                 PROVE  Runs(o)
      OBVIOUS
    <2>1. WorkLeft(o) \in Int /\ WorkLeft(o)' \in Int
      BY StepIInv, <1>a, <1>b
    <2>2. CASE UNCHANGED <<wpc[o], queue[o], attempt[o]>>
      <3>1. WorkLeft(o)' = WorkLeft(o)
        BY <2>2 DEF WorkLeft
      <3> QED BY <2>1, <2>2, <3>1
    <2>3. CASE \E s \in Sources : Poller(s)
      BY <2>3, PollerAlive
    <2>4. CASE Worker(o)
      BY <2>1, <2>4, WorkerShrinks
    <2>5. CASE \E d \in Outputs \ {o} : Worker(d)
      <3>1. UNCHANGED <<wpc[o], queue[o], attempt[o]>>
        BY <2>5, OthersWork
      <3> QED BY <2>2, <3>1
    <2>6. CASE Main \/ Cancel \/ Sweep \/ Stopped
      <3>1. UNCHANGED <<wpc, queue, attempt>>
        BY <2>6 DEF Main, StopSweeper, CloseQueues, DrainTimeout, Finish, Cancel, Sweep,
                    Stopped, vars, workVars, destVars
      <3> QED BY <2>2, <3>1
    <2>7. CASE Restart
      <3>1. restarts' # restarts
        BY <2>7 DEF Restart, IInv, TypeOK, BookType
      <3> QED BY <3>1
    <2> QED BY <2>3, <2>4, <2>5, <2>6, <2>7 DEF Next
  <1> QED BY <1>1, RunInductive, PTL DEF Spec, WorkRunsOut
(* The first component that differs decides between two tuples of six. *)
LEMMA BeforeBy ==
    ASSUME NEW a1, NEW a2, NEW a3, NEW a4, NEW a5, NEW a6,
           NEW b1, NEW b2, NEW b3, NEW b4, NEW b5, NEW b6,
           \/ a1 < b1
           \/ a1 = b1 /\ a2 < b2
           \/ a1 = b1 /\ a2 = b2 /\ a3 < b3
           \/ a1 = b1 /\ a2 = b2 /\ a3 = b3 /\ a4 < b4
           \/ a1 = b1 /\ a2 = b2 /\ a3 = b3 /\ a4 = b4 /\ a5 < b5
           \/ a1 = b1 /\ a2 = b2 /\ a3 = b3 /\ a4 = b4 /\ a5 = b5 /\ a6 < b6
    PROVE  Before(<<a1, a2, a3, a4, a5, a6>>, <<b1, b2, b3, b4, b5, b6>>)
  <1> DEFINE a == <<a1, a2, a3, a4, a5, a6>>
             b == <<b1, b2, b3, b4, b5, b6>>
  <1>1. DOMAIN a = 1..6
    OBVIOUS
  <1>2. /\ a[1] = a1 /\ a[2] = a2 /\ a[3] = a3 /\ a[4] = a4 /\ a[5] = a5 /\ a[6] = a6
        /\ b[1] = b1 /\ b[2] = b2 /\ b[3] = b3 /\ b[4] = b4 /\ b[5] = b5 /\ b[6] = b6
    OBVIOUS
  <1> HIDE DEF a, b
  <1>3. \E i \in 1..6 : a[i] < b[i] /\ \A j \in 1..(i - 1) : a[j] = b[j]
    <2>1. CASE a1 < b1
      <3>1. \A j \in 1..(1 - 1) : a[j] = b[j]
        OBVIOUS
      <3> QED BY <1>2, <2>1, <3>1
    <2>2. CASE a1 = b1 /\ a2 < b2
      <3>1. \A j \in 1..(2 - 1) : a[j] = b[j]
        BY <1>2, <2>2
      <3> QED BY <1>2, <2>2, <3>1
    <2>3. CASE a1 = b1 /\ a2 = b2 /\ a3 < b3
      <3>1. \A j \in 1..(3 - 1) : a[j] = b[j]
        BY <1>2, <2>3
      <3> QED BY <1>2, <2>3, <3>1
    <2>4. CASE a1 = b1 /\ a2 = b2 /\ a3 = b3 /\ a4 < b4
      <3>1. \A j \in 1..(4 - 1) : a[j] = b[j]
        BY <1>2, <2>4
      <3> QED BY <1>2, <2>4, <3>1
    <2>5. CASE a1 = b1 /\ a2 = b2 /\ a3 = b3 /\ a4 = b4 /\ a5 < b5
      <3>1. \A j \in 1..(5 - 1) : a[j] = b[j]
        BY <1>2, <2>5
      <3> QED BY <1>2, <2>5, <3>1
    <2>6. CASE a1 = b1 /\ a2 = b2 /\ a3 = b3 /\ a4 = b4 /\ a5 = b5 /\ a6 < b6
      <3>1. \A j \in 1..(6 - 1) : a[j] = b[j]
        BY <1>2, <2>6
      <3> QED BY <1>2, <2>6, <3>1
    <2> QED BY <2>1, <2>2, <2>3, <2>4, <2>5, <2>6
  <1>4. Before(a, b)
    BY <1>1, <1>3 DEF Before
  <1> QED BY <1>4 DEF a, b

(* The head of the targets is dealt with: the event, or the page, is shorter. *)
LEMMA AdvanceShortens ==
    ASSUME IInv, NEW s \in Sources, Dispatching(s), Advance(s), UNCHANGED pages
    PROVE  Before(WayLeft(s)', WayLeft(s))
  <1>1. /\ page[s] \in Seq(Events) /\ page[s] # <<>>
        /\ targets[s] \in Seq(Names \cup {NoOutput}) /\ targets[s] # <<>>
    BY DEF IInv, TypeOK, PollType, PollControl
  <1>2. /\ Len(Tail(page[s])) < Len(page[s])
        /\ Len(Tail(targets[s])) < Len(targets[s])
    BY <1>1
  <1>3. DOMAIN pc = Sources /\ DOMAIN page = Sources /\ DOMAIN targets = Sources
    BY DEF IInv, TypeOK, PollType
  <1>4. /\ pc[s] \notin {"start", "pause", "poll", "fetch", "mark"}
        /\ pc'[s] \notin {"start", "pause", "poll", "fetch"}
    BY <1>3 DEF Advance, Goto, Dispatching
  <1>5. WayToPage(pc'[s]) = WayToPage(pc[s])
    BY <1>4 DEF WayToPage
  <1>6. CASE Tail(targets[s]) = <<>>
    <2>1. Len(page'[s]) < Len(page[s])
      BY <1>2, <1>3, <1>6 DEF Advance
    <2> QED BY <1>5, <2>1, BeforeBy DEF WayLeft
  <1>7. CASE Tail(targets[s]) # <<>>
    <2>1. /\ page'[s] = page[s] /\ pc'[s] = "target"
          /\ Len(targets'[s]) < Len(targets[s])
      BY <1>2, <1>3, <1>7 DEF Advance, Goto
    <2> QED BY <1>4, <1>5, <2>1, BeforeBy DEF WayLeft
  <1> QED BY <1>6, <1>7

(* Each step of a poller but those from the tick and to it is one on its way. *)
LEMMA PollerReturns ==
    ASSUME IInv, NEW s \in Sources, Poller(s)
    PROVE  "tick" \in {pc[s], pc'[s]} \/ Before(WayLeft(s)', WayLeft(s))
  <1>1. /\ DOMAIN pc = Sources /\ DOMAIN page = Sources /\ DOMAIN targets = Sources
        /\ DOMAIN pages = Sources
    BY DEF IInv, TypeOK, PollType
  <1>2. CASE StartPoller(s) \/ CallPoll(s) \/ PollOK(s)
    <2>1. /\ pages' = pages
          /\ <<pc[s], pc'[s]>> \in {<<"start", "poll">>, <<"poll", "fetch">>, <<"fetch", "mark">>}
      BY <1>1, <1>2 DEF StartPoller, CallPoll, PollOK, Goto
    <2>2. WayToPage(pc'[s]) < WayToPage(pc[s])
      BY <2>1 DEF WayToPage
    <2> QED BY <2>1, <2>2, BeforeBy DEF WayLeft
  <1>3. CASE PollFails(s) \/ Tick(s) \/ StopPoller(s)
    BY <1>1, <1>3 DEF PollFails, Tick, StopPoller, Goto
  <1>4. CASE Save(s)
    <2>1. \/ pc'[s] = "tick"
          \/ pages'[s] = pages[s] + 1 /\ pages[s] + 1 < MaxEagerPages
      BY <1>1, <1>4 DEF Save, DrainsOn, NextPage, Goto
    <2>2. pages[s] \in Nat /\ MaxEagerPages \in Nat
      BY BoundsAssumption DEF IInv, TypeOK, PollType
    <2>3. CASE pages'[s] = pages[s] + 1 /\ pages[s] + 1 < MaxEagerPages
      <3>1. MaxEagerPages - pages'[s] < MaxEagerPages - pages[s]
        BY <2>2, <2>3
      <3> QED BY <3>1, BeforeBy DEF WayLeft
    <2> QED BY <2>1, <2>3
  <1>5. CASE Pause(s)
    <2>1. \/ pc'[s] = "tick"
          \/ pages' = pages /\ pc[s] = "pause" /\ pc'[s] = "poll"
      BY <1>1, <1>5 DEF Pause, Goto
    <2>2. CASE pages' = pages /\ pc[s] = "pause" /\ pc'[s] = "poll"
      <3>1. WayToPage(pc'[s]) < WayToPage(pc[s])
        BY <2>2 DEF WayToPage
      <3> QED BY <2>2, <3>1, BeforeBy DEF WayLeft
    <2> QED BY <2>1, <2>2
  <1>6. CASE MarkNew(s) \/ MarkFails(s)
    <2>1. pages' = pages /\ page' = page /\ pc[s] = "mark" /\ pc'[s] = "target"
      BY <1>1, <1>6 DEF MarkNew, MarkFails, Accept, Goto
    <2>2. WayToPage(pc'[s]) = WayToPage(pc[s])
      BY <2>1 DEF WayToPage
    <2> QED BY <2>1, <2>2, BeforeBy DEF WayLeft
  <1>7. CASE MarkDuplicate(s)
    <2>1. pages' = pages /\ pc' = pc /\ page'[s] = Tail(page[s])
      BY <1>1, <1>7 DEF MarkDuplicate
    <2>2. Len(page'[s]) < Len(page[s])
      <3>1. page[s] \in Seq(Events) /\ page[s] # <<>>
        BY <1>7 DEF MarkDuplicate, IInv, TypeOK, PollType
      <3> QED BY <2>1, <3>1
    <2> QED BY <2>1, <2>2, BeforeBy DEF WayLeft
  <1>8. CASE Check(s) \/ Track(s) \/ Wait(s)
    <2>1. /\ pages' = pages /\ page' = page /\ targets' = targets
          /\ <<pc[s], pc'[s]>> \in {<<"target", "track">>, <<"target", "offer">>,
                                    <<"track", "offer">>, <<"offer", "wait">>}
      BY <1>1, <1>8 DEF Check, Track, Wait, Goto
    <2>2. /\ WayToPage(pc'[s]) = WayToPage(pc[s])
          /\ WayToEnqueue(pc'[s]) < WayToEnqueue(pc[s])
          /\ pc[s] # "mark" /\ pc'[s] # "mark"
      BY <2>1 DEF WayToPage, WayToEnqueue
    <2> QED BY <2>1, <2>2, BeforeBy DEF WayLeft
  <1>9. CASE DropUnroutable(s) \/ Enqueue(s) \/ DropFull(s) \/ GiveUp(s)
    <2>1. Dispatching(s) /\ Advance(s) /\ UNCHANGED pages
      BY <1>9 DEF DropUnroutable, Enqueue, DropFull, GiveUp, Dispatching
    <2> QED BY <2>1, AdvanceShortens
  <1> QED BY <1>2, <1>3, <1>4, <1>5, <1>6, <1>7, <1>8, <1>9 DEF Poller, Dispatch

(* Whatever the adapter, the store and the channels do, no poller goes round *)
(* without coming back to its tick: each step brings it nearer.              *)
THEOREM PollersReturn == Spec => PollsReturn
  <1> DEFINE Returns(s) ==
        \/ UNCHANGED <<pc[s], page[s], targets[s]>>
        \/ "tick" \in {pc[s], pc'[s]}
        \/ Before(WayLeft(s)', WayLeft(s))
  <1>1. IInv /\ [Next]_vars => [restarts' = restarts => \A s \in Sources : Returns(s)]_vars
    <2> SUFFICES ASSUME IInv, Next, restarts' = restarts, NEW s \in Sources
                 PROVE  Returns(s)
      OBVIOUS
    <2>1. CASE Poller(s)
      BY <2>1, PollerReturns
    <2>2. CASE \E r \in Sources \ {s} : Poller(r)
      <3>1. PICK r \in Sources \ {s} : Poller(r)
        BY <2>2
      <3> QED BY <3>1, OthersSame, OthersPoller DEF Same, Others
    <2>3. CASE \/ \E o \in Outputs : Worker(o)
               \/ Main \/ Cancel \/ Sweep \/ Stopped
      <3>1. UNCHANGED pollVars
        BY <2>3 DEF Worker, Receive, StopWorker, Begin, SendDecides, SendFails, Backoff,
                    RecordVerdict, Settle, Main, StopSweeper, CloseQueues, DrainTimeout,
                    Finish, Cancel, Sweep, Stopped, vars
      <3> QED BY <3>1 DEF pollVars
    <2>4. CASE Restart
      <3>1. restarts' # restarts
        BY <2>4 DEF Restart, IInv, TypeOK, BookType
      <3> QED BY <3>1
    <2> QED BY <2>1, <2>2, <2>3, <2>4 DEF Next
  <1> QED BY <1>1, Inductive, PTL DEF Spec, PollsReturn
=============================================================================
