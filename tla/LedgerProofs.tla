---------------------------- MODULE LedgerProofs ----------------------------
(***************************************************************************)
(* Proofs that Pipeline keeps the ledger of Ledger.tla, for any values of  *)
(* its constants, and of what follows for the audit table: nothing behind  *)
(* a cursor is unaccounted for, and nothing is recorded twice.             *)
(***************************************************************************)
EXTENDS PipelineProofs

(* A poller has at most one decision about each destination to hand out. *)
TInv ==
    \A s \in Sources : \A i, j \in DOMAIN targets[s] :
        targets[s][i] = targets[s][j] => i = j

LEMMA TargetsDistinct ==
    ASSUME NEW e \in Events, NEW i \in DOMAIN TargetsOf(e), NEW j \in DOMAIN TargetsOf(e),
           TargetsOf(e)[i] = TargetsOf(e)[j]
    PROVE  i = j
  <1>1. CASE Route[e] = <<>>
    BY <1>1 DEF TargetsOf
  <1>2. CASE Route[e] # <<>>
    BY <1>2, RouteAssumption DEF TargetsOf
  <1> QED BY <1>1, <1>2

(* The head of a sequence without repetition is not in its tail. *)
LEMMA DistinctTail ==
    ASSUME NEW T, NEW q \in Seq(T), q # <<>>,
           \A i, j \in DOMAIN q : q[i] = q[j] => i = j
    PROVE  /\ \A i, j \in DOMAIN Tail(q) : Tail(q)[i] = Tail(q)[j] => i = j
           /\ \A i \in DOMAIN Tail(q) : Tail(q)[i] # Head(q)
           /\ \A x : (\E i \in DOMAIN q : q[i] = x)
                       <=> x = Head(q) \/ \E i \in DOMAIN Tail(q) : Tail(q)[i] = x
  <1>1. /\ Len(q) \in Nat \ {0} /\ DOMAIN q = 1..Len(q)
        /\ DOMAIN Tail(q) = 1..(Len(q) - 1) /\ Head(q) = q[1]
        /\ \A i \in 1..(Len(q) - 1) : Tail(q)[i] = q[i + 1]
    BY HeadTailProperties
  <1>2. \A i \in DOMAIN Tail(q) : i + 1 \in DOMAIN q /\ i + 1 # 1 /\ Tail(q)[i] = q[i + 1]
    BY <1>1
  <1>3. ASSUME NEW i \in DOMAIN Tail(q), NEW j \in DOMAIN Tail(q), Tail(q)[i] = Tail(q)[j]
        PROVE  i = j
    <2>1. i + 1 = j + 1
      BY <1>2, <1>3
    <2> QED BY <1>1, <2>1
  <1>4. \A i \in DOMAIN Tail(q) : Tail(q)[i] # Head(q)
    BY <1>1, <1>2
  <1>5. ASSUME NEW i \in DOMAIN q, i # 1
        PROVE  i - 1 \in DOMAIN Tail(q) /\ Tail(q)[i - 1] = q[i]
    BY <1>1, <1>5
  <1>6. 1 \in DOMAIN q
    BY <1>1
  <1>7. \A x : (\E i \in DOMAIN q : q[i] = x)
                 <=> x = Head(q) \/ \E i \in DOMAIN Tail(q) : Tail(q)[i] = x
    BY <1>1, <1>2, <1>5, <1>6
  <1> QED BY <1>3, <1>4, <1>7

LEMMA TInit == Init => TInv
  BY DEF Init, TInv

LEMMA StepTInv == IInv /\ TInv /\ [Next]_vars => TInv'
  <1> SUFFICES ASSUME IInv, TInv, [Next]_vars, NEW s \in Sources
               PROVE  \A i, j \in DOMAIN targets'[s] :
                         targets'[s][i] = targets'[s][j] => i = j
    BY DEF TInv
  <1>1. DOMAIN targets = Sources
    BY DEF IInv, TypeOK, PollType
  <1>2. CASE targets'[s] = targets[s]
    BY <1>2 DEF TInv
  <1>3. CASE \E r \in Sources : Poller(r)
    <2>1. PICK r \in Sources : Poller(r)
      BY <1>3
    <2>2. CASE r = s /\ (MarkNew(s) \/ MarkFails(s))
      <3>1. targets'[s] = TargetsOf(Ev(s)) /\ page[s] # <<>>
        BY <1>1, <2>2 DEF MarkNew, MarkFails, Accept
      <3> QED BY <3>1, HeadsType, TargetsDistinct
    <2>3. CASE r = s /\ (DropUnroutable(s) \/ Enqueue(s) \/ DropFull(s) \/ GiveUp(s))
      <3>1. targets'[s] = Tail(targets[s]) /\ Dispatching(s)
        BY <1>1, <2>3 DEF DropUnroutable, Enqueue, DropFull, GiveUp, Advance, Dispatching
      <3>2. PICK q \in Seq(Names \cup {NoOutput}) : q = targets[s] /\ q # <<>>
        BY <3>1 DEF IInv, TypeOK, PollType, PollControl
      <3>3. \A i, j \in DOMAIN q : q[i] = q[j] => i = j
        BY <3>2 DEF TInv
      <3>4. \A i, j \in DOMAIN Tail(q) : Tail(q)[i] = Tail(q)[j] => i = j
        BY <3>2, <3>3, DistinctTail
      <3> QED BY <3>1, <3>2, <3>4
    <2>4. CASE r # s
      BY <1>2, <2>1, <2>4, OthersPoller DEF Others
    <2>5. CASE r = s /\ ~(\/ MarkNew(s) \/ MarkFails(s) \/ DropUnroutable(s)
                          \/ Enqueue(s) \/ DropFull(s) \/ GiveUp(s))
      <3>1. UNCHANGED targets
        BY <2>1, <2>5 DEF Poller, Dispatch, StartPoller, CallPoll, PollOK, PollFails, Save,
                          Pause, Tick, StopPoller, MarkDuplicate, Check, Track, Wait
      <3> QED BY <1>2, <3>1
    <2> QED BY <2>2, <2>3, <2>4, <2>5
  <1>4. CASE \E o \in Outputs : Worker(o)
    BY <1>2, <1>4 DEF Worker, Receive, StopWorker, Begin, SendDecides, SendFails, Backoff,
                      RecordVerdict, Settle, pollVars
  <1>5. CASE Main \/ Cancel \/ Sweep \/ Stopped \/ UNCHANGED vars
    BY <1>2, <1>5 DEF Main, StopSweeper, CloseQueues, DrainTimeout, Finish, Cancel, Sweep,
                      Stopped, vars, pollVars
  <1>6. CASE Restart
    BY <1>6 DEF Restart
  <1> QED BY <1>3, <1>4, <1>5, <1>6 DEF Next

-----------------------------------------------------------------------------
(* Owed(k), in two numbers: the pollers that still have the decision to     *)
(* hand out, and what the channel and the worker of the output hold of it.  *)
Owing(s, k) ==
    /\ Dispatching(s)
    /\ Ev(s) = k[1]
    /\ \E i \in DOMAIN targets[s] : targets[s][i] = k[2]

Pollers(k) == Cardinality(PollersOwing(k))

Beyond(k) ==
    IF k[2] \in Outputs
    THEN Cardinality(Queued(k)) + (IF InHand(k) THEN 1 ELSE 0)
    ELSE 0

LEMMA OwedIs == \A k : Owed(k) = Pollers(k) + Beyond(k)
  BY DEF Owed, Pollers, Beyond

LEMMA OwedType ==
    ASSUME IInv, NEW k \in Key
    PROVE  Pollers(k) \in Nat /\ Beyond(k) \in Nat /\ Owed(k) \in Nat
  <1>1. PollersOwing(k) \in SUBSET Sources
    BY DEF PollersOwing
  <1>2. Pollers(k) \in Nat
    BY <1>1, SourcesAssumption, FS_Subset, FS_CardinalityType DEF Pollers
  <1>3. Beyond(k) \in Nat
    <2>1. CASE k[2] \in Outputs
      <3>1. queue[k[2]] \in Seq(Item)
        BY <2>1 DEF IInv, TypeOK, DestType
      <3>2. Cardinality(Queued(k)) \in Nat
        BY <3>1, PositionsFinite DEF Queued
      <3> QED BY <2>1, <3>2 DEF Beyond
    <2>2. CASE k[2] \notin Outputs
      BY <2>2 DEF Beyond
    <2> QED BY <2>1, <2>2
  <1> QED BY <1>2, <1>3, OwedIs

Elsewhere(s) ==
    \A r \in Sources \ {s} : /\ pc'[r] = pc[r]
                             /\ page'[r] = page[r]
                             /\ targets'[r] = targets[r]

LEMMA ElsewherePoller ==
    ASSUME IInv, NEW s \in Sources, Poller(s)
    PROVE  Elsewhere(s)
  BY OthersPoller, OthersSame DEF Others, Same, Elsewhere

(* The pollers owing k follow what s does. *)
LEMMA OwingMoves ==
    ASSUME NEW s \in Sources, NEW k, Elsewhere(s)
    PROVE  Pollers(k)' = Pollers(k) + (IF Owing(s, k)' THEN 1 ELSE 0)
                                    - (IF Owing(s, k) THEN 1 ELSE 0)
  <1> DEFINE A == PollersOwing(k) \ {s}
  <1>1. /\ Owing(s, k) => PollersOwing(k) = A \cup {s}
        /\ ~Owing(s, k) => PollersOwing(k) = A
    BY DEF PollersOwing, Owing
  <1>2. /\ Owing(s, k)' => PollersOwing(k)' = A \cup {s}
        /\ ~Owing(s, k)' => PollersOwing(k)' = A
    BY DEF PollersOwing, Owing, Elsewhere, Dispatching, Ev
  <1>3. IsFiniteSet(A) /\ Cardinality(A) \in Nat /\ s \notin A
    <2>1. A \in SUBSET Sources
      BY DEF PollersOwing
    <2> QED BY <2>1, SourcesAssumption, FS_Subset, FS_CardinalityType
  <1> HIDE DEF A
  <1>4. Cardinality(A \cup {s}) = Cardinality(A) + 1
    BY <1>3, FS_AddElement
  <1>5. Pollers(k) = Cardinality(A) + (IF Owing(s, k) THEN 1 ELSE 0)
    <2>1. CASE Owing(s, k)
      BY <1>1, <1>4, <2>1 DEF Pollers
    <2>2. CASE ~Owing(s, k)
      BY <1>1, <1>3, <2>2 DEF Pollers
    <2> QED BY <2>1, <2>2
  <1>6. Pollers(k)' = Cardinality(A) + (IF Owing(s, k)' THEN 1 ELSE 0)
    BY <1>2, <1>3, <1>4 DEF Pollers
  <1> QED BY <1>3, <1>5, <1>6

(* The ledger, one step at a time: nothing changes, *)
Still ==
    /\ \A k \in Key : Owed(k)' = Owed(k)
    /\ UNCHANGED <<audit, gaps>>

(* an event is accepted, *)
Accepts(e) ==
    /\ \A k \in Key : Owed(k)' = Owed(k) + (IF k \in KeysOf(e) THEN 1 ELSE 0)
    /\ UNCHANGED <<audit, gaps>>

(* or one decision gets its row, or misses it. *)
Pays(d) ==
    /\ d \in Key
    /\ Owed(d) > 0
    /\ \A k \in Key : Owed(k)' = Owed(k) - (IF k = d THEN 1 ELSE 0)
    /\ \E row \in Row : Audit(d, row)

(* A poller step that puts nothing in a channel. *)
LEMMA OwedPoller ==
    ASSUME IInv, NEW s \in Sources, Elsewhere(s), UNCHANGED <<queue, wpc, held>>,
           NEW k \in Key
    PROVE  Owed(k)' = Owed(k) + (IF Owing(s, k)' THEN 1 ELSE 0)
                              - (IF Owing(s, k) THEN 1 ELSE 0)
  <1>1. Beyond(k)' = Beyond(k)
    BY DEF Beyond, Queued, InHand
  <1>2. Pollers(k) \in Nat /\ Beyond(k) \in Nat
    BY OwedType
  <1>3. Owed(k) = Pollers(k) + Beyond(k) /\ Owed(k)' = Pollers(k)' + Beyond(k)'
    BY DEF Owed, Pollers, Beyond
  <1> DEFINE a == IF Owing(s, k)' THEN 1 ELSE 0
             b == IF Owing(s, k) THEN 1 ELSE 0
  <1>4. a \in Nat /\ b \in Nat /\ Pollers(k)' = Pollers(k) + a - b
    BY OwingMoves
  <1> HIDE DEF a, b
  <1>5. Owed(k)' = Owed(k) + a - b
    BY <1>1, <1>2, <1>3, <1>4
  <1> QED BY <1>5 DEF a, b

(* A step that leaves what s owes as it was. *)
LEMMA OwedStill ==
    ASSUME IInv, NEW s \in Sources, Elsewhere(s), UNCHANGED <<queue, wpc, held>>,
           UNCHANGED <<audit, gaps>>, \A k \in Key : Owing(s, k)' <=> Owing(s, k)
    PROVE  Still
  <1> SUFFICES ASSUME NEW k \in Key PROVE Owed(k)' = Owed(k)
    BY DEF Still
  <1>1. Owed(k) \in Nat
    BY OwedType
  <1>2. CASE Owing(s, k)
    BY <1>1, <1>2, OwedPoller
  <1>3. CASE ~Owing(s, k)
    BY <1>1, <1>3, OwedPoller
  <1> QED BY <1>2, <1>3

(* The actions of a poller outside its targets. *)
LEMMA StillPoll ==
    ASSUME IInv, NEW s \in Sources,
           \/ StartPoller(s) \/ CallPoll(s) \/ PollOK(s) \/ PollFails(s)
           \/ Save(s) \/ Pause(s) \/ Tick(s) \/ StopPoller(s)
           \/ MarkDuplicate(s) \/ Check(s) \/ Track(s) \/ Wait(s)
    PROVE  Still
  <1>1. Elsewhere(s)
    BY ElsewherePoller DEF Poller, Dispatch
  <1>2. UNCHANGED <<queue, wpc, held>> /\ UNCHANGED <<audit, gaps>>
    BY DEF StartPoller, CallPoll, PollOK, PollFails, Save, Pause, Tick, StopPoller,
           MarkDuplicate, Check, Track, Wait, destVars, workVars, storeVars, bookVars
  <1>3. DOMAIN pc = Sources
    BY DEF IInv, TypeOK, PollType
  <1>4. CASE Check(s) \/ Track(s) \/ Wait(s)
    <2>1. Dispatching(s) /\ Dispatching(s)' /\ UNCHANGED <<page, targets>>
      BY <1>3, <1>4 DEF Check, Track, Wait, Goto, Dispatching
    <2>2. \A k \in Key : Owing(s, k)' <=> Owing(s, k)
      BY <2>1 DEF Owing, Ev
    <2> QED BY <1>1, <1>2, <2>2, OwedStill
  <1>5. CASE ~(Check(s) \/ Track(s) \/ Wait(s))
    <2>1. ~Dispatching(s)
      BY <1>5 DEF StartPoller, CallPoll, PollOK, PollFails, Save, Pause, Tick, StopPoller,
                  MarkDuplicate, Dispatching
    <2>2. ~Dispatching(s)'
      BY <1>3, <1>5 DEF StartPoller, CallPoll, PollOK, PollFails, Save, Pause, Tick,
                        StopPoller, MarkDuplicate, Goto, Dispatching
    <2>3. \A k \in Key : Owing(s, k)' <=> Owing(s, k)
      BY <2>1, <2>2 DEF Owing
    <2> QED BY <1>1, <1>2, <2>3, OwedStill
  <1> QED BY <1>4, <1>5

(* An accepted event is owed to each of its targets. *)
LEMMA AcceptOwes ==
    ASSUME IInv, NEW s \in Sources, MarkNew(s) \/ MarkFails(s)
    PROVE  Ev(s) \in Events /\ Accepts(Ev(s))
  <1>1. Elsewhere(s)
    BY ElsewherePoller DEF Poller, Dispatch
  <1>2. UNCHANGED <<queue, wpc, held>> /\ UNCHANGED <<audit, gaps>>
    BY DEF MarkNew, MarkFails, destVars, workVars, storeVars, bookVars
  <1>3. /\ pc[s] = "mark" /\ pc'[s] = "target" /\ page' = page /\ page[s] # <<>>
        /\ targets'[s] = TargetsOf(Ev(s))
    BY DEF MarkNew, MarkFails, Accept, Goto, IInv, TypeOK, PollType
  <1>4. Ev(s) \in Events
    BY <1>3, HeadsType
  <1>5. ASSUME NEW k \in Key
        PROVE  ~Owing(s, k) /\ (Owing(s, k)' <=> k \in KeysOf(Ev(s)))
    <2>1. ~Owing(s, k)
      BY <1>3 DEF Owing, Dispatching
    <2>2. Owing(s, k)' <=> /\ Ev(s) = k[1]
                           /\ \E i \in DOMAIN TargetsOf(Ev(s)) : TargetsOf(Ev(s))[i] = k[2]
      BY <1>3 DEF Owing, Dispatching, Ev
    <2>3. k = <<k[1], k[2]>>
      BY DEF Key
    <2>4. k \in KeysOf(Ev(s))
             <=> \E i \in DOMAIN TargetsOf(Ev(s)) : k = <<Ev(s), TargetsOf(Ev(s))[i]>>
      BY DEF KeysOf
    <2> QED BY <2>1, <2>2, <2>3, <2>4
  <1>6. ASSUME NEW k \in Key
        PROVE  Owed(k)' = Owed(k) + (IF k \in KeysOf(Ev(s)) THEN 1 ELSE 0)
    <2>1. Owed(k)' = Owed(k) + (IF Owing(s, k)' THEN 1 ELSE 0)
                             - (IF Owing(s, k) THEN 1 ELSE 0)
      BY <1>1, <1>2, OwedPoller
    <2>2. Owed(k) \in Nat
      BY OwedType
    <2>3. CASE Owing(s, k)'
      BY <1>5, <2>1, <2>2, <2>3
    <2>4. CASE ~Owing(s, k)'
      BY <1>5, <2>1, <2>2, <2>4
    <2> QED BY <2>3, <2>4
  <1> QED BY <1>2, <1>4, <1>6 DEF Accepts

(* Handing out the head of the targets is one decision less to hand out. *)
LEMMA AdvanceOwes ==
    ASSUME IInv, TInv, NEW s \in Sources, Dispatching(s), Advance(s)
    PROVE  /\ <<Ev(s), Dst(s)>> \in Key
           /\ \A k \in Key : /\ Owing(s, k) <=> Owing(s, k)' \/ k = <<Ev(s), Dst(s)>>
                             /\ ~(Owing(s, k)' /\ k = <<Ev(s), Dst(s)>>)
  <1>1. /\ page[s] # <<>> /\ targets[s] # <<>> /\ Ev(s) \in Events
        /\ Dst(s) \in Names \cup {NoOutput}
    BY HeadsType DEF IInv, PollControl
  <1>2. <<Ev(s), Dst(s)>> \in Key
    BY <1>1 DEF Key
  <1>3. PICK q \in Seq(Names \cup {NoOutput}) : q = targets[s] /\ q # <<>>
    BY <1>1 DEF IInv, TypeOK, PollType
  <1>4. \A i, j \in DOMAIN q : q[i] = q[j] => i = j
    BY <1>3 DEF TInv
  <1>5. /\ \A i \in DOMAIN Tail(q) : Tail(q)[i] # Head(q)
        /\ \A x : (\E i \in DOMAIN q : q[i] = x)
                    <=> x = Head(q) \/ \E i \in DOMAIN Tail(q) : Tail(q)[i] = x
    <2>1. q # <<>>
      BY <1>3
    <2> QED BY <1>4, <2>1, DistinctTail, Zenon
  <1>6. /\ targets'[s] = Tail(q) /\ Dst(s) = Head(q)
        /\ IF Tail(q) = <<>> THEN pc'[s] = "mark"
                             ELSE pc'[s] = "target" /\ page'[s] = page[s]
    BY <1>3 DEF Advance, Goto, Dst, IInv, TypeOK, PollType
  <1> SUFFICES ASSUME NEW k \in Key
               PROVE  /\ Owing(s, k) <=> Owing(s, k)' \/ k = <<Ev(s), Dst(s)>>
                      /\ ~(Owing(s, k)' /\ k = <<Ev(s), Dst(s)>>)
    BY <1>2
  <1>7. k = <<Ev(s), Dst(s)>> <=> Ev(s) = k[1] /\ k[2] = Head(q)
    BY <1>6 DEF Key
  <1>8. Owing(s, k) <=> Ev(s) = k[1] /\ \E i \in DOMAIN q : q[i] = k[2]
    BY <1>3 DEF Owing
  <1>9. CASE Tail(q) = <<>>
    <2>1. ~Owing(s, k)'
      BY <1>6, <1>9 DEF Owing, Dispatching
    <2>2. ~\E i \in DOMAIN Tail(q) : Tail(q)[i] = k[2]
      BY <1>9
    <2> QED BY <1>5, <1>7, <1>8, <2>1, <2>2
  <1>10. CASE Tail(q) # <<>>
    <2>1. Owing(s, k)' <=> Ev(s) = k[1] /\ \E i \in DOMAIN Tail(q) : Tail(q)[i] = k[2]
      BY <1>6, <1>10 DEF Owing, Dispatching, Ev
    <2> QED BY <1>5, <1>7, <1>8, <2>1
  <1> QED BY <1>9, <1>10

(* The drops: the decision is settled by its row, or its row is missed. *)
LEMMA DropPays ==
    ASSUME IInv, TInv, NEW s \in Sources, DropUnroutable(s) \/ DropFull(s) \/ GiveUp(s)
    PROVE  Pays(<<Ev(s), Dst(s)>>)
  <1> DEFINE d == <<Ev(s), Dst(s)>>
  <1>1. Elsewhere(s)
    BY ElsewherePoller DEF Poller, Dispatch
  <1>2. Dispatching(s) /\ Advance(s) /\ UNCHANGED <<queue, wpc, held>>
    BY DEF DropUnroutable, DropFull, GiveUp, Dispatching, destVars, workVars
  <1>3. /\ d \in Key
        /\ \A k \in Key : /\ Owing(s, k) <=> Owing(s, k)' \/ k = d
                          /\ ~(Owing(s, k)' /\ k = d)
    BY <1>2, AdvanceOwes
  <1>4. \E row \in Row : Audit(d, row)
    BY DEF DropUnroutable, DropFull, GiveUp, Dropped, Row, Status, Cause
  <1> HIDE DEF d
  <1>5. ASSUME NEW k \in Key
        PROVE  Owed(k)' = Owed(k) - (IF k = d THEN 1 ELSE 0)
    <2>1. Owed(k)' = Owed(k) + (IF Owing(s, k)' THEN 1 ELSE 0)
                             - (IF Owing(s, k) THEN 1 ELSE 0)
      BY <1>1, <1>2, OwedPoller
    <2>2. Owed(k) \in Nat
      BY OwedType
    <2>3. CASE k = d
      <3>1. Owing(s, k) /\ ~Owing(s, k)'
        BY <1>3, <2>3
      <3> QED BY <2>1, <2>2, <2>3, <3>1
    <2>4. CASE k # d /\ Owing(s, k)
      <3>1. Owing(s, k)'
        BY <1>3, <2>4
      <3> QED BY <2>1, <2>2, <2>4, <3>1
    <2>5. CASE k # d /\ ~Owing(s, k)
      <3>1. ~Owing(s, k)'
        BY <1>3, <2>5
      <3> QED BY <2>1, <2>2, <2>5, <3>1
    <2> QED BY <2>3, <2>4, <2>5
  <1>6. Owed(d) > 0
    <2>1. Owing(s, d)
      BY <1>3
    <2>2. s \in PollersOwing(d)
      BY <2>1 DEF Owing, PollersOwing
    <2>3. PollersOwing(d) \in SUBSET Sources
      BY DEF PollersOwing
    <2>4. IsFiniteSet(PollersOwing(d))
      BY <2>3, SourcesAssumption, FS_Subset
    <2>5. Pollers(d) # 0
      BY <2>2, <2>4, FS_EmptySet DEF Pollers
    <2>6. Pollers(d) \in Nat /\ Beyond(d) \in Nat /\ Owed(d) = Pollers(d) + Beyond(d)
      BY <1>3, OwedType, OwedIs
    <2> QED BY <2>5, <2>6
  <1>7. Pays(d)
    BY <1>3, <1>4, <1>5, <1>6 DEF Pays
  <1> QED BY <1>7 DEF d

(* The send on a channel moves a decision on. *)
LEMMA EnqueueStill ==
    ASSUME IInv, TInv, NEW s \in Sources, Enqueue(s)
    PROVE  Still
  <1> DEFINE d == <<Ev(s), Dst(s)>>
             x == [event |-> Ev(s), tracked |-> tracked[s]]
  <1>1. Elsewhere(s)
    BY ElsewherePoller DEF Poller, Dispatch
  <1>2. /\ Dispatching(s) /\ Advance(s) /\ UNCHANGED <<wpc, held>> /\ UNCHANGED <<audit, gaps>>
        /\ queue' = [queue EXCEPT ![Dst(s)] = Append(@, x)]
        /\ Dst(s) \in Outputs
    BY DEF Enqueue, Dispatching, workVars, storeVars, bookVars, IInv, PollControl
  <1>3. /\ d \in Key
        /\ \A k \in Key : /\ Owing(s, k) <=> Owing(s, k)' \/ k = d
                          /\ ~(Owing(s, k)' /\ k = d)
    BY <1>2, AdvanceOwes
  <1>4. x \in Item /\ queue \in [Outputs -> Seq(Item)] /\ tracked[s] \in BOOLEAN
    BY <1>2, HeadsType DEF Item, IInv, TypeOK, PollType, DestType, PollControl
  <1> SUFFICES ASSUME NEW k \in Key PROVE Owed(k)' = Owed(k)
    BY <1>2 DEF Still
  <1>5. /\ Pollers(k) \in Nat /\ Beyond(k) \in Nat /\ Owed(k) = Pollers(k) + Beyond(k)
        /\ Owed(k)' = Pollers(k)' + Beyond(k)'
    BY OwedType DEF Owed, Pollers, Beyond
  <1>6. Pollers(k)' = Pollers(k) - (IF k = d THEN 1 ELSE 0)
    <2>1. Pollers(k)' = Pollers(k) + (IF Owing(s, k)' THEN 1 ELSE 0)
                                   - (IF Owing(s, k) THEN 1 ELSE 0)
      BY <1>1, OwingMoves
    <2>2. CASE k = d
      <3>1. Owing(s, k) /\ ~Owing(s, k)'
        BY <1>3, <2>2
      <3> QED BY <1>5, <2>1, <2>2, <3>1
    <2>3. CASE k # d /\ Owing(s, k)
      <3>1. Owing(s, k)'
        BY <1>3, <2>3
      <3> QED BY <1>5, <2>1, <2>3, <3>1
    <2>4. CASE k # d /\ ~Owing(s, k)
      <3>1. ~Owing(s, k)'
        BY <1>3, <2>4
      <3> QED BY <1>5, <2>1, <2>4, <3>1
    <2> QED BY <2>2, <2>3, <2>4
  <1>7. Beyond(k)' = Beyond(k) + (IF k = d THEN 1 ELSE 0)
    <2>1. InHand(k)' <=> InHand(k)
      BY <1>2 DEF InHand
    <2>2. CASE k[2] = Dst(s)
      <3>1. queue'[k[2]] = Append(queue[k[2]], x) /\ queue[k[2]] \in Seq(Item)
        BY <1>2, <1>4, <2>2
      <3>2. x \in ItemsOf(k[1]) <=> k = d
        BY <1>4, <2>2 DEF ItemsOf, Key
      <3>3. PICK q \in Seq(Item) : q = queue[k[2]]
        BY <3>1
      <3>4. /\ Queued(k) = Positions(q, ItemsOf(k[1]))
            /\ Queued(k)' = Positions(Append(q, x), ItemsOf(k[1]))
        BY <3>1, <3>3 DEF Queued
      <3> HIDE DEF x, d
      <3>5. /\ Cardinality(Positions(Append(q, x), ItemsOf(k[1]))) =
                  Cardinality(Positions(q, ItemsOf(k[1])))
                  + (IF x \in ItemsOf(k[1]) THEN 1 ELSE 0)
            /\ Cardinality(Positions(q, ItemsOf(k[1]))) \in Nat
        BY <1>4, PositionsAppend, PositionsFinite
      <3>6. Cardinality(Queued(k))' = Cardinality(Queued(k)) + (IF k = d THEN 1 ELSE 0)
        BY <3>2, <3>4, <3>5
      <3>7. Cardinality(Queued(k)) \in Nat
        BY <3>4, <3>5
      <3>8. /\ Beyond(k) = Cardinality(Queued(k)) + (IF InHand(k) THEN 1 ELSE 0)
            /\ Beyond(k)' = Cardinality(Queued(k))' + (IF InHand(k)' THEN 1 ELSE 0)
        BY <1>2, <2>2 DEF Beyond
      <3>9. CASE InHand(k)
        BY <2>1, <3>6, <3>7, <3>8, <3>9
      <3>10. CASE ~InHand(k)
        BY <2>1, <3>6, <3>7, <3>8, <3>10
      <3> QED BY <3>9, <3>10
    <2>3. CASE k[2] # Dst(s)
      <3>1. k[2] \in Outputs => queue'[k[2]] = queue[k[2]]
        BY <1>2, <2>3
      <3>2. k # d
        BY <2>3
      <3>3. Beyond(k)' = Beyond(k)
        BY <2>1, <3>1 DEF Beyond, Queued
      <3> QED BY <1>5, <3>2, <3>3
    <2> QED BY <2>2, <2>3
  <1> HIDE DEF d
  <1>8. CASE k = d
    BY <1>5, <1>6, <1>7, <1>8
  <1>9. CASE k # d
    BY <1>5, <1>6, <1>7, <1>9
  <1> QED BY <1>8, <1>9

-----------------------------------------------------------------------------
(* A worker step changes what is owed only by what it does to its channel   *)
(* and to its hand.                                                         *)
LEMMA OwedWorker ==
    ASSUME NEW k \in Key, UNCHANGED <<pc, page, targets>>
    PROVE  /\ Pollers(k)' = Pollers(k)
           /\ Owed(k)' = Pollers(k) + Beyond(k)'
  BY DEF Pollers, PollersOwing, Dispatching, Ev, Owed, Beyond

LEMMA OwedSame ==
    ASSUME NEW k \in Key, UNCHANGED <<pc, page, targets>>, Beyond(k)' = Beyond(k)
    PROVE  Owed(k)' = Owed(k)
  BY OwedWorker, OwedIs

(* Taking an item off the channel moves its decision on. *)
LEMMA ReceiveStill ==
    ASSUME IInv, NEW o \in Outputs, Receive(o)
    PROVE  Still
  <1>1. /\ UNCHANGED <<pc, page, targets>> /\ UNCHANGED <<audit, gaps>>
        /\ wpc[o] = "recv" /\ queue[o] # <<>>
        /\ wpc' = [wpc EXCEPT ![o] = "got"]
        /\ held' = [held EXCEPT ![o] = Head(queue[o])]
        /\ queue' = [queue EXCEPT ![o] = Tail(@)]
    BY DEF Receive, WGoto, pollVars, storeVars, bookVars
  <1>2. /\ queue \in [Outputs -> Seq(Item)] /\ DOMAIN wpc = Outputs /\ DOMAIN held = Outputs
    BY DEF IInv, TypeOK, DestType, WorkType
  <1> SUFFICES ASSUME NEW k \in Key PROVE Beyond(k)' = Beyond(k)
    BY <1>1, OwedSame DEF Still
  <1>3. CASE k[2] # o
    <2>1. k[2] \in Outputs => /\ queue'[k[2]] = queue[k[2]] /\ wpc'[k[2]] = wpc[k[2]]
                              /\ held'[k[2]] = held[k[2]]
      BY <1>1, <1>2, <1>3
    <2>2. k[2] \in Outputs => Queued(k)' = Queued(k) /\ (InHand(k)' <=> InHand(k))
      BY <2>1 DEF Queued, InHand
    <2> QED BY <2>2 DEF Beyond
  <1>4. CASE k[2] = o
    <2>1. PICK q \in Seq(Item) : q = queue[o] /\ q # <<>>
      BY <1>1, <1>2
    <2>2. /\ queue'[o] = Tail(q) /\ held'[o] = Head(q) /\ wpc'[o] = "got"
      BY <1>1, <1>2, <2>1
    <2>3. Head(q) \in Item
      BY <2>1
    <2>4. ~InHand(k) /\ (InHand(k)' <=> Head(q).event = k[1])
      BY <1>1, <1>4, <2>2 DEF InHand
    <2>5. Head(q) \in ItemsOf(k[1]) <=> Head(q).event = k[1]
      BY <2>3 DEF Item, ItemsOf
    <2>6. /\ Queued(k) = Positions(q, ItemsOf(k[1]))
          /\ Queued(k)' = Positions(Tail(q), ItemsOf(k[1]))
      BY <1>4, <2>1, <2>2 DEF Queued
    <2>7. /\ Cardinality(Positions(q, ItemsOf(k[1]))) =
                Cardinality(Positions(Tail(q), ItemsOf(k[1])))
                + (IF Head(q) \in ItemsOf(k[1]) THEN 1 ELSE 0)
      BY <2>1, PositionsTail
    <2>8. Tail(q) \in Seq(Item)
      BY <2>1
    <2>9. Cardinality(Positions(Tail(q), ItemsOf(k[1]))) \in Nat
      BY <2>8, PositionsFinite
    <2>10. /\ Beyond(k) = Cardinality(Queued(k)) + (IF InHand(k) THEN 1 ELSE 0)
           /\ Beyond(k)' = Cardinality(Queued(k)') + (IF InHand(k)' THEN 1 ELSE 0)
      BY <1>4 DEF Beyond
    <2>11. CASE Head(q).event = k[1]
      BY <2>4, <2>5, <2>6, <2>7, <2>9, <2>10, <2>11
    <2>12. CASE Head(q).event # k[1]
      BY <2>4, <2>5, <2>6, <2>7, <2>9, <2>10, <2>12
    <2> QED BY <2>11, <2>12
  <1> QED BY <1>3, <1>4

(* Nor does it while it attempts the item, or when it settles it. *)
LEMMA WorkerStill ==
    ASSUME IInv, NEW o \in Outputs, Worker(o), ~RecordVerdict(o)
    PROVE  Still
  <1>1. DOMAIN wpc = Outputs /\ DOMAIN held = Outputs
    BY DEF IInv, TypeOK, WorkType
  <1>2. CASE Receive(o)
    BY <1>2, ReceiveStill
  <1>3. CASE StopWorker(o) \/ Begin(o) \/ SendDecides(o) \/ SendFails(o) \/ Backoff(o)
             \/ Settle(o)
    <2>1. /\ UNCHANGED <<pc, page, targets, queue>> /\ UNCHANGED <<audit, gaps>>
          /\ \A d \in Outputs \ {o} : wpc'[d] = wpc[d] /\ held'[d] = held[d]
      BY <1>1, <1>3 DEF StopWorker, Begin, SendDecides, SendFails, Backoff, Settle, Decide,
                        WGoto, pollVars, destVars, storeVars, bookVars
    <2>2. \/ /\ wpc[o] \in {"got", "send", "backoff", "audit"}
             /\ wpc'[o] \in {"got", "send", "backoff", "audit"}
             /\ held'[o] = held[o]
          \/ /\ wpc[o] \notin {"got", "send", "backoff", "audit"}
             /\ wpc'[o] \notin {"got", "send", "backoff", "audit"}
      <3>1. CASE StopWorker(o) \/ Settle(o)
        BY <1>1, <3>1 DEF StopWorker, Settle, WGoto
      <3>2. CASE Begin(o) \/ SendDecides(o) \/ SendFails(o) \/ Backoff(o)
        BY <1>1, <3>2 DEF Begin, SendDecides, SendFails, Backoff, Decide, WGoto
      <3> QED BY <1>3, <3>1, <3>2
    <2> SUFFICES ASSUME NEW k \in Key PROVE Beyond(k)' = Beyond(k)
      BY <2>1, OwedSame DEF Still
    <2>3. k[2] \in Outputs => (InHand(k)' <=> InHand(k))
      <3>1. CASE k[2] = o
        BY <2>2, <3>1 DEF InHand
      <3>2. CASE k[2] # o
        BY <2>1, <3>2 DEF InHand
      <3> QED BY <3>1, <3>2
    <2>4. Queued(k)' = Queued(k)
      BY <2>1 DEF Queued
    <2> QED BY <2>3, <2>4 DEF Beyond
  <1> QED BY <1>2, <1>3 DEF Worker

(* The row of what the worker holds settles one decision. *)
LEMMA RecordPays ==
    ASSUME IInv, NEW o \in Outputs, RecordVerdict(o)
    PROVE  Pays(<<held[o].event, o>>)
  <1> DEFINE d == <<held[o].event, o>>
  <1>1. /\ UNCHANGED <<pc, page, targets, queue, held>>
        /\ wpc[o] = "audit" /\ wpc' = [wpc EXCEPT ![o] = "settle"] /\ DOMAIN wpc = Outputs
        /\ \E row \in Row : Audit(d, row)
    BY DEF RecordVerdict, WGoto, pollVars, destVars, IInv, TypeOK, WorkType
  <1>2. d \in Key
    BY OutputsAssumption DEF IInv, TypeOK, WorkType, Item, Key
  <1>3. ASSUME NEW k \in Key
        PROVE  Beyond(k)' = Beyond(k) - (IF k = d THEN 1 ELSE 0)
    <2>1. CASE k[2] = o
      <3>1. (InHand(k) <=> k = d) /\ ~InHand(k)'
        BY <1>1, <2>1 DEF InHand, Key
      <3>2. Queued(k)' = Queued(k)
        BY <1>1 DEF Queued
      <3>3. Cardinality(Queued(k)) \in Nat
        BY <2>1, PositionsFinite DEF Queued, IInv, TypeOK, DestType
      <3> HIDE DEF d
      <3>4. /\ Beyond(k) = Cardinality(Queued(k)) + (IF InHand(k) THEN 1 ELSE 0)
            /\ Beyond(k)' = Cardinality(Queued(k)') + (IF InHand(k)' THEN 1 ELSE 0)
        BY <2>1 DEF Beyond
      <3>5. CASE k = d
        BY <3>1, <3>2, <3>3, <3>4, <3>5
      <3>6. CASE k # d
        BY <3>1, <3>2, <3>3, <3>4, <3>6
      <3> QED BY <3>5, <3>6
    <2>2. CASE k[2] # o
      <3>1. Beyond(k)' = Beyond(k)
        BY <1>1, <2>2 DEF Beyond, Queued, InHand
      <3>2. k # d
        BY <2>2
      <3> QED BY <3>1, <3>2, OwedType
    <2> QED BY <2>1, <2>2
  <1> HIDE DEF d
  <1>4. ASSUME NEW k \in Key
        PROVE  Owed(k)' = Owed(k) - (IF k = d THEN 1 ELSE 0)
    <2>1. /\ Owed(k) = Pollers(k) + Beyond(k) /\ Owed(k)' = Pollers(k) + Beyond(k)'
          /\ Pollers(k) \in Nat /\ Beyond(k) \in Nat
      BY <1>1, OwedIs, OwedWorker, OwedType
    <2>2. CASE k = d
      BY <1>3, <2>1, <2>2
    <2>3. CASE k # d
      BY <1>3, <2>1, <2>3
    <2> QED BY <2>2, <2>3
  <1>5. Owed(d) > 0
    <2>1. /\ Owed(d) = Pollers(d) + Beyond(d) /\ Pollers(d) \in Nat /\ Beyond(d) \in Nat
      BY <1>2, OwedIs, OwedType
    <2>2. Cardinality(Queued(d)) \in Nat
      BY PositionsFinite DEF d, Queued, IInv, TypeOK, DestType
    <2>3. Beyond(d) = Cardinality(Queued(d)) + 1
      BY <1>1 DEF d, Beyond, InHand
    <2> QED BY <2>1, <2>2, <2>3
  <1>6. Pays(d)
    BY <1>1, <1>2, <1>4, <1>5 DEF Pays
  <1> QED BY <1>6 DEF d

(* A restart: what was owed is lost. *)
Loses ==
    /\ \A k \in Key : Owed(k)' = 0
    /\ gaps' = gaps \cup {k \in Key : Owed(k) > 0}
    /\ UNCHANGED audit

LEMMA RestartLoses ==
    ASSUME Restart
    PROVE  Loses
  <1>1. ASSUME NEW k \in Key PROVE Owed(k)' = 0
    <2>1. PollersOwing(k)' = {}
      BY DEF Restart, PollersOwing, Dispatching
    <2>2. k[2] \in Outputs => Queued(k)' = {} /\ ~InHand(k)'
      BY DEF Restart, Queued, Positions, InHand
    <2> QED BY <2>1, <2>2, FS_EmptySet DEF Owed
  <1>2. UNCHANGED audit
    BY DEF Restart, storeVars
  <1>3. gaps' = gaps \cup {k \in Key : Owed(k) > 0}
    BY DEF Restart
  <1> QED BY <1>1, <1>2, <1>3 DEF Loses

LEMMA RunStill ==
    ASSUME Main \/ Cancel \/ Sweep \/ Stopped \/ UNCHANGED vars
    PROVE  Still
  <1>1. UNCHANGED <<pc, page, targets, queue, wpc, held>> /\ UNCHANGED <<audit, gaps>>
    BY DEF Main, StopSweeper, CloseQueues, DrainTimeout, Finish, Cancel, Sweep, Stopped,
           vars, pollVars, destVars, workVars, storeVars, bookVars
  <1>2. \A k \in Key : Owed(k)' = Owed(k)
    BY <1>1 DEF Owed, PollersOwing, Dispatching, Ev, Queued, InHand
  <1> QED BY <1>1, <1>2 DEF Still

(* What a step does to the marks: none, the mark or the exposure of an      *)
(* accepted event, or a sweep.                                              *)
Marks(s) ==
    \/ <<s, Ev(s)>> \notin seen /\ seen' = seen \cup {<<s, Ev(s)>>} /\ UNCHANGED exposed
    \/ exposed' = exposed \cup {<<s, Ev(s)>>} /\ UNCHANGED seen

Sweeps == \E old \in SUBSET seen : seen' = seen \ old /\ exposed' = exposed \cup old

(* Every step of the pipeline is one of the ledger, or none. *)
LEMMA Effects ==
    ASSUME IInv, TInv, [Next]_vars
    PROVE  \/ Still /\ (UNCHANGED <<seen, exposed>> \/ Sweeps)
           \/ \E s \in Sources : /\ pc[s] = "mark" /\ page[s] # <<>> /\ Ev(s) \in Events
                                /\ Accepts(Ev(s)) /\ Marks(s)
           \/ \E k \in Key : Pays(k) /\ UNCHANGED <<seen, exposed>>
           \/ Loses /\ UNCHANGED <<seen, exposed>>
  <1>1. CASE \E s \in Sources : Poller(s)
    <2>1. PICK s \in Sources : Poller(s)
      BY <1>1
    <2>2. CASE MarkNew(s) \/ MarkFails(s)
      <3>1. Marks(s)
        BY <2>2 DEF MarkNew, MarkFails, IsNew, bookVars, storeVars, Marks
      <3>2. Accepts(Ev(s)) /\ Ev(s) \in Events
        BY <2>2, AcceptOwes
      <3>3. pc[s] = "mark" /\ page[s] # <<>>
        BY <2>2 DEF MarkNew, MarkFails
      <3> QED BY <3>1, <3>2, <3>3
    <2>3. CASE DropUnroutable(s) \/ DropFull(s) \/ GiveUp(s)
      <3>1. UNCHANGED <<seen, exposed>>
        BY <2>3 DEF DropUnroutable, DropFull, GiveUp
      <3>2. Pays(<<Ev(s), Dst(s)>>)
        BY <2>3, DropPays
      <3> QED BY <3>1, <3>2 DEF Pays
    <2>4. CASE ~(\/ MarkNew(s) \/ MarkFails(s) \/ DropUnroutable(s)
                 \/ DropFull(s) \/ GiveUp(s))
      <3>1. UNCHANGED <<seen, exposed>>
        BY <2>1, <2>4 DEF Poller, Dispatch, StartPoller, CallPoll, PollOK, PollFails, Save,
                          Pause, Tick, StopPoller, MarkDuplicate, Check, Track, Enqueue, Wait,
                          storeVars, bookVars
      <3>2. Still
        BY <2>1, <2>4, StillPoll, EnqueueStill DEF Poller, Dispatch
      <3> QED BY <3>1, <3>2
    <2> QED BY <2>2, <2>3, <2>4
  <1>2. CASE \E o \in Outputs : Worker(o)
    <2>1. PICK o \in Outputs : Worker(o)
      BY <1>2
    <2>2. UNCHANGED <<seen, exposed>>
      BY <2>1 DEF Worker, Receive, StopWorker, Begin, SendDecides, SendFails, Backoff,
                  RecordVerdict, Settle, storeVars, bookVars
    <2>3. CASE RecordVerdict(o)
      <3>1. Pays(<<held[o].event, o>>)
        BY <2>3, RecordPays
      <3> QED BY <2>2, <3>1 DEF Pays
    <2>4. CASE ~RecordVerdict(o)
      BY <2>1, <2>2, <2>4, WorkerStill
    <2> QED BY <2>3, <2>4
  <1>3. CASE Main \/ Cancel \/ Stopped \/ UNCHANGED vars
    <2>1. UNCHANGED <<seen, exposed>>
      BY <1>3 DEF Main, StopSweeper, CloseQueues, DrainTimeout, Finish, Cancel, Stopped, vars,
                  storeVars, bookVars
    <2> QED BY <1>3, <2>1, RunStill
  <1>4. CASE Sweep
    <2>1. Sweeps
      BY <1>4 DEF Sweep, Sweeps
    <2> QED BY <1>4, <2>1, RunStill
  <1>5. CASE Restart
    <2>1. UNCHANGED <<seen, exposed>>
      BY <1>5 DEF Restart, storeVars
    <2> QED BY <1>5, <2>1, RestartLoses
  <1> QED BY <1>1, <1>2, <1>3, <1>4, <1>5 DEF Next

-----------------------------------------------------------------------------
(* The refinement. *)
Owes == [k \in Key |-> Owed(k)]
Rows == [k \in Key |-> Len(audit[k])]

LEMMA OwedInit == ASSUME Init, NEW k \in Key PROVE Owed(k) = 0
  <1>1. PollersOwing(k) = {}
    BY DEF Init, PollersOwing, Dispatching
  <1>2. k[2] \in Outputs => Queued(k) = {} /\ ~InHand(k)
    BY DEF Init, Queued, Positions, InHand
  <1> QED BY <1>1, <1>2, FS_EmptySet DEF Owed

LEMMA LedgerInit == Init => Books!Init
  <1> SUFFICES ASSUME Init PROVE Books!Init
    OBVIOUS
  <1>1. Owes = [k \in Key |-> 0]
    BY OwedInit DEF Owes
  <1>2. Rows = [k \in Key |-> 0]
    BY DEF Init, Rows
  <1>3. gaps = {}
    BY DEF Init
  <1> QED BY <1>1, <1>2, <1>3 DEF Books!Init, Owes, Rows

LEMMA LedgerPays ==
    ASSUME IInv, NEW d \in Key, Pays(d)
    PROVE  Books!Settle(d) \/ Books!Miss(d)
  <1>1. Owed(d) > 0 /\ Owes[d] > 0
    BY DEF Pays, Owes
  <1>2. Owes' = [Owes EXCEPT ![d] = @ - 1]
    <2>1. \A k \in Key : Owes'[k] = [Owes EXCEPT ![d] = @ - 1][k]
      <3> TAKE k \in Key
      <3>1. Owes'[k] = Owed(k) - (IF k = d THEN 1 ELSE 0) /\ Owes[k] = Owed(k)
        BY DEF Pays, Owes
      <3>2. Owed(k) \in Nat
        BY OwedType
      <3>3. CASE k = d
        BY <3>1, <3>3 DEF Owes
      <3>4. CASE k # d
        BY <3>1, <3>2, <3>4 DEF Owes
      <3> QED BY <3>3, <3>4
    <2> QED BY <2>1 DEF Owes
  <1>3. PICK row \in Row : Audit(d, row)
    BY DEF Pays
  <1>4. audit \in [Key -> Seq(Row)]
    BY DEF IInv, TypeOK, StoreType
  <1>5. CASE audit' = [audit EXCEPT ![d] = Append(@, row)] /\ UNCHANGED gaps
    <2>1. Rows' = [Rows EXCEPT ![d] = @ + 1]
      <3>1. \A k \in Key : Rows'[k] = [Rows EXCEPT ![d] = @ + 1][k]
        <4> TAKE k \in Key
        <4>1. CASE k = d
          <5>1. audit[d] \in Seq(Row) /\ audit'[d] = Append(audit[d], row)
            BY <1>4, <1>5
          <5>2. Len(audit'[d]) = Len(audit[d]) + 1
            BY <5>1
          <5> QED BY <4>1, <5>2 DEF Rows
        <4>2. CASE k # d
          BY <1>4, <1>5, <4>2 DEF Rows
        <4> QED BY <4>1, <4>2
      <3> QED BY <3>1 DEF Rows
    <2> QED BY <1>1, <1>2, <1>5, <2>1 DEF Books!Settle, Owes, Rows
  <1>6. CASE gaps' = gaps \cup {d} /\ UNCHANGED audit
    <2>1. UNCHANGED Rows
      BY <1>6 DEF Rows
    <2> QED BY <1>1, <1>2, <1>6, <2>1 DEF Books!Miss, Owes, Rows
  <1> QED BY <1>3, <1>5, <1>6 DEF Audit

LEMMA LedgerStep ==
    ASSUME IInv, TInv, [Next]_vars
    PROVE  [Books!Next]_(Books!vars)
  <1>1. CASE Still
    <2>1. UNCHANGED Owes /\ UNCHANGED Rows /\ UNCHANGED gaps
      BY <1>1 DEF Still, Owes, Rows
    <2> QED BY <2>1 DEF Books!vars, Owes, Rows
  <1>2. CASE \E s \in Sources : Ev(s) \in Events /\ Accepts(Ev(s))
    <2>1. PICK e \in Events : Accepts(e)
      BY <1>2
    <2>2. Owes' = [k \in Key |-> IF k \in KeysOf(e) THEN Owes[k] + 1 ELSE Owes[k]]
      <3>1. ASSUME NEW k \in Key
            PROVE  Owes'[k] = IF k \in KeysOf(e) THEN Owes[k] + 1 ELSE Owes[k]
        <4>1. Owes'[k] = Owed(k) + (IF k \in KeysOf(e) THEN 1 ELSE 0) /\ Owes[k] = Owed(k)
          BY <2>1 DEF Accepts, Owes
        <4>2. Owed(k) \in Nat
          BY OwedType
        <4> QED BY <4>1, <4>2
      <3> QED BY <3>1 DEF Owes
    <2>3. UNCHANGED Rows /\ UNCHANGED gaps
      BY <2>1 DEF Accepts, Rows
    <2>4. Books!Decide(KeysOf(e))
      BY <2>2, <2>3 DEF Books!Decide, Owes, Rows
    <2> QED BY <2>4 DEF Books!Next
  <1>3. CASE \E k \in Key : Pays(k)
    BY <1>3, LedgerPays DEF Books!Next
  <1>4. CASE Loses
    <2>1. Owes' = [k \in Key |-> 0]
      BY <1>4 DEF Loses, Owes
    <2>2. {k \in Key : Owes[k] > 0} = {k \in Key : Owed(k) > 0}
      BY DEF Owes
    <2>3. gaps' = gaps \cup {k \in Key : Owes[k] > 0} /\ UNCHANGED Rows
      BY <1>4, <2>2 DEF Loses, Rows
    <2>4. Books!Lose
      BY <2>1, <2>3 DEF Books!Lose, Owes, Rows
    <2> QED BY <2>4 DEF Books!Next
  <1> QED BY <1>1, <1>2, <1>3, <1>4, Effects

LEMMA LedgerInductive == Spec => [](IInv /\ TInv)
  BY TypeInit, StepIInv, TInit, StepTInv, PTL DEF Spec

(* The pipeline keeps the ledger: every decision of a page is owed to each  *)
(* destination, and is settled by one row, missed for a failed write or     *)
(* lost with the process; no row comes from anywhere else.                  *)
THEOREM LedgerCorrect == Spec => LedgerSpec
  <1>1. IInv /\ TInv /\ [Next]_vars => [Books!Next]_(Books!vars)
    BY LedgerStep
  <1> QED BY LedgerInit, <1>1, LedgerInductive, PTL DEF Spec, LedgerSpec, Books!Spec

-----------------------------------------------------------------------------
(* What the ledger says of the records behind a cursor: each record that    *)
(* was noted has, for each destination, a row, a gap or a debt.             *)
Accounted(k) == audit[k] # <<>> \/ k \in gaps \/ Owed(k) > 0

NotedAccounted == \A x \in Noted : \A k \in KeysOf(x[2]) : Accounted(k)

(* Only records are noted, by the adapter that carries them. *)
NotedCarried == \A x \in Noted : x \in Sources \X Events /\ Carries(x[1], x[2])

LEMMA KeysOfType ==
    ASSUME NEW e \in Events
    PROVE  /\ KeysOf(e) \subseteq Key
           /\ \A k \in KeysOf(e) : k[1] = e
  <1>1. \A i \in DOMAIN TargetsOf(e) : TargetsOf(e)[i] \in Names \cup {NoOutput}
    BY TargetsOfType
  <1> QED BY <1>1 DEF KeysOf, Key

(* No step of the ledger loses track of a decision. *)
LEMMA AccountedStays ==
    ASSUME IInv, NEW k \in Key, Accounted(k),
           \/ Still
           \/ \E e \in Events : Accepts(e)
           \/ \E d \in Key : Pays(d)
           \/ Loses
    PROVE  Accounted(k)'
  <1>1. Owed(k) \in Nat
    BY OwedType
  <1>2. CASE Still
    BY <1>2 DEF Still, Accounted
  <1>3. CASE \E e \in Events : Accepts(e)
    <2>1. PICK e \in Events : Accepts(e)
      BY <1>3
    <2>2. Owed(k)' >= Owed(k) /\ UNCHANGED <<audit, gaps>>
      BY <1>1, <2>1 DEF Accepts
    <2>3. Owed(k) > 0 => Owed(k)' > 0
      <3>1. Owed(k)' = Owed(k) + (IF k \in KeysOf(e) THEN 1 ELSE 0)
        BY <2>1 DEF Accepts
      <3> QED BY <1>1, <3>1
    <2> QED BY <2>2, <2>3 DEF Accounted
  <1>4. CASE \E d \in Key : Pays(d)
    <2>1. PICK d \in Key : Pays(d)
      BY <1>4
    <2>2. PICK row \in Row : Audit(d, row)
      BY <2>1 DEF Pays
    <2>3. audit \in [Key -> Seq(Row)]
      BY DEF IInv, TypeOK, StoreType
    <2>4. CASE k = d
      <3>1. CASE audit' = [audit EXCEPT ![d] = Append(@, row)]
        <4>1. audit'[k] = Append(audit[k], row) /\ audit[k] \in Seq(Row)
          BY <2>3, <2>4, <3>1
        <4>2. audit'[k] # <<>>
          BY <4>1
        <4> QED BY <4>2 DEF Accounted
      <3>2. CASE gaps' = gaps \cup {d}
        BY <2>4, <3>2 DEF Accounted
      <3> QED BY <2>2, <3>1, <3>2 DEF Audit
    <2>5. CASE k # d
      <3>1. Owed(k)' = Owed(k)
        BY <1>1, <2>1, <2>5 DEF Pays
      <3>2. audit'[k] = audit[k] /\ gaps \subseteq gaps'
        BY <2>2, <2>3, <2>5 DEF Audit
      <3> QED BY <3>1, <3>2 DEF Accounted
    <2> QED BY <2>4, <2>5
  <1>5. CASE Loses
    BY <1>5 DEF Loses, Accounted
  <1> QED BY <1>2, <1>3, <1>4, <1>5

LEMMA NotedInit == Init => NotedAccounted /\ NotedCarried
  BY DEF Init, NotedAccounted, NotedCarried, Noted

LEMMA StepNoted ==
    IInv /\ SInv /\ TInv /\ NotedAccounted /\ NotedCarried /\ [Next]_vars
        => NotedAccounted' /\ NotedCarried'
  <1> SUFFICES ASSUME IInv, SInv, TInv, NotedAccounted, NotedCarried, [Next]_vars
               PROVE  NotedAccounted' /\ NotedCarried'
    OBVIOUS
  <1>1. ASSUME NEW x \in Noted
        PROVE  /\ x \in Sources \X Events /\ Carries(x[1], x[2])
               /\ \A k \in KeysOf(x[2]) : Accounted(k)'
    <2>1. x \in Sources \X Events /\ Carries(x[1], x[2])
      BY <1>1 DEF NotedCarried
    <2>2. \A k \in KeysOf(x[2]) : k \in Key /\ Accounted(k)
      BY <1>1, <2>1, KeysOfType DEF NotedAccounted
    <2>3. \/ Still
          \/ \E e \in Events : Accepts(e)
          \/ \E d \in Key : Pays(d)
          \/ Loses
      BY Effects
    <2>4. \A k \in KeysOf(x[2]) : Accounted(k)'
      BY <2>2, <2>3, AccountedStays
    <2> QED BY <2>1, <2>4
  <1>2. CASE Noted' \subseteq Noted
    BY <1>1, <1>2 DEF NotedAccounted, NotedCarried, Carries
  <1>3. CASE \E s \in Sources : /\ pc[s] = "mark" /\ page[s] # <<>> /\ Ev(s) \in Events
                               /\ Accepts(Ev(s)) /\ Marks(s)
    <2>1. PICK s \in Sources : /\ pc[s] = "mark" /\ page[s] # <<>> /\ Ev(s) \in Events
                               /\ Accepts(Ev(s)) /\ Marks(s)
      BY <1>3
    <2>2. PICK e \in Events : e = Ev(s)
      BY <2>1
    <2>3. Noted' = Noted \cup {<<s, e>>}
      BY <2>1, <2>2 DEF Marks, Noted
    <2>4. Carries(s, e)
      <3>1. page[s] \in Seq(Events) /\ page[s] # <<>>
        BY <2>1 DEF IInv, TypeOK, PollType
      <3>2. 1 \in DOMAIN page[s] /\ Ev(s) = page[s][1]
        BY <3>1 DEF Ev
      <3> QED BY <2>2, <3>2 DEF SInv, Behaves, Carried
    <2>5. ASSUME NEW k \in KeysOf(e) PROVE Accounted(k)'
      <3>1. k \in Key
        BY KeysOfType
      <3>2. Owed(k)' = Owed(k) + 1 /\ Owed(k) \in Nat
        BY <2>1, <2>2, <3>1, OwedType DEF Accepts
      <3>3. Owed(k)' > 0
        BY <3>2
      <3> QED BY <3>3 DEF Accounted
    <2>6. NotedCarried'
      BY <1>1, <2>3, <2>4 DEF NotedCarried, Carries
    <2>7. NotedAccounted'
      BY <1>1, <2>3, <2>5 DEF NotedAccounted
    <2> QED BY <2>6, <2>7
  <1>4. CASE UNCHANGED <<seen, exposed>> \/ Sweeps
    <2>1. Noted' \subseteq Noted
      BY <1>4 DEF Sweeps, Noted
    <2> QED BY <1>2, <2>1
  <1> QED BY <1>3, <1>4, Effects

LEMMA NotedInductive ==
    Spec => [](IInv /\ SInv /\ TInv /\ NotedAccounted /\ NotedCarried)
  <1>1. Spec => [](IInv /\ SInv /\ TInv)
    BY SafetyInductive, LedgerInductive, PTL
  <1> QED BY <1>1, NotedInit, StepNoted, PTL DEF Spec

(* Every record behind a stored cursor has, for each destination it routes  *)
(* to, an audit row, a decision in memory or a known gap, after any crash.  *)
THEOREM CursorAccountedCorrect == Spec => []CursorAccounted
  <1>1. IInv /\ SInv /\ NotedAccounted => CursorAccounted
    <2> SUFFICES ASSUME IInv, SInv, NotedAccounted, NEW s \in Sources,
                        NEW i \in 1..cursor[s], NEW k \in KeysOf(Feed[s][i])
                 PROVE  audit[k] # <<>> \/ k \in gaps \/ Owed(k) > 0
      BY DEF CursorAccounted
    <2>1. CursorsBehind(s)
      BY DEF SInv, Behaves
    <2>2. i \in 1..Len(Feed[s]) /\ i <= cursor[s]
      BY <2>1, PollerType DEF CursorsBehind
    <2>3. <<s, Feed[s][i]>> \in Noted
      BY <2>1, <2>2 DEF CursorsBehind
    <2> QED BY <2>3 DEF NotedAccounted, Accounted
  <1> QED BY <1>1, NotedInductive, PTL

-----------------------------------------------------------------------------
(* What it says of duplicates: while no record of an event is exposed, the  *)
(* event has no more rows and debts for a destination than marks.           *)
Markers(e) == {s \in Sources : <<s, e>> \in seen}

Bill(k) == Len(audit[k]) + Owed(k)

OnePerMark ==
    \A k \in Key : (\A s \in Sources : <<s, k[1]>> \notin exposed)
                       => Bill(k) <= Cardinality(Markers(k[1]))

LEMMA MarkersFinite ==
    ASSUME NEW e
    PROVE  IsFiniteSet(Markers(e)) /\ Cardinality(Markers(e)) \in Nat
  <1>1. Markers(e) \in SUBSET Sources
    BY DEF Markers
  <1> QED BY <1>1, SourcesAssumption, FS_Subset, FS_CardinalityType

LEMMA OnePerMarkInit == Init => OnePerMark
  <1> SUFFICES ASSUME Init, NEW k \in Key PROVE Bill(k) <= Cardinality(Markers(k[1]))
    BY DEF OnePerMark
  <1>1. audit[k] = <<>>
    BY DEF Init
  <1>2. Owed(k) = 0
    BY OwedInit
  <1>3. Bill(k) = 0
    BY <1>1, <1>2 DEF Bill
  <1> QED BY <1>3, MarkersFinite

(* Only an accepted event adds to a bill. *)
LEMMA BillMoves ==
    ASSUME IInv, NEW k \in Key
    PROVE  /\ Bill(k) \in Nat
           /\ Still \/ (\E d \in Key : Pays(d)) \/ Loses
                => Bill(k)' \in Int /\ Bill(k)' <= Bill(k)
           /\ \A e \in Events : Accepts(e)
                => Bill(k)' = Bill(k) + (IF k \in KeysOf(e) THEN 1 ELSE 0)
  <1>1. Owed(k) \in Nat /\ Len(audit[k]) \in Nat /\ audit \in [Key -> Seq(Row)]
    BY OwedType DEF IInv, TypeOK, StoreType
  <1>2. Bill(k) = Len(audit[k]) + Owed(k) /\ Bill(k)' = Len(audit'[k]) + Owed(k)'
    BY DEF Bill
  <1>3. ASSUME Still PROVE Bill(k)' \in Int /\ Bill(k)' <= Bill(k)
    BY <1>1, <1>2, <1>3 DEF Still
  <1>4. ASSUME Loses PROVE Bill(k)' \in Int /\ Bill(k)' <= Bill(k)
    BY <1>1, <1>2, <1>4 DEF Loses
  <1>5. ASSUME NEW d \in Key, Pays(d) PROVE Bill(k)' \in Int /\ Bill(k)' <= Bill(k)
    <2>1. PICK row \in Row : Audit(d, row)
      BY <1>5 DEF Pays
    <2>2. Owed(d) > 0 /\ Owed(k)' = Owed(k) - (IF k = d THEN 1 ELSE 0)
      BY <1>5 DEF Pays
    <2>3. CASE k = d
      <3>1. Len(audit'[k]) = Len(audit[k]) + 1 \/ Len(audit'[k]) = Len(audit[k])
        <4>1. CASE audit' = [audit EXCEPT ![d] = Append(@, row)]
          <5>1. audit'[k] = Append(audit[k], row) /\ audit[k] \in Seq(Row)
            BY <1>1, <2>3, <4>1
          <5> QED BY <5>1
        <4>2. CASE UNCHANGED audit
          BY <4>2
        <4> QED BY <2>1, <4>1, <4>2 DEF Audit
      <3>2. Owed(k)' = Owed(k) - 1
        BY <2>2, <2>3
      <3> QED BY <1>1, <1>2, <3>1, <3>2
    <2>4. CASE k # d
      <3>1. audit'[k] = audit[k]
        BY <1>1, <2>1, <2>4 DEF Audit
      <3>2. Owed(k)' = Owed(k)
        BY <1>1, <2>2, <2>4
      <3> QED BY <1>1, <1>2, <3>1, <3>2
    <2> QED BY <2>3, <2>4
  <1>6. ASSUME NEW e \in Events, Accepts(e)
        PROVE  Bill(k)' = Bill(k) + (IF k \in KeysOf(e) THEN 1 ELSE 0)
    <2>1. /\ Owed(k)' = Owed(k) + (IF k \in KeysOf(e) THEN 1 ELSE 0)
          /\ audit' = audit
      BY <1>6 DEF Accepts
    <2>2. CASE k \in KeysOf(e)
      BY <1>1, <1>2, <2>1, <2>2
    <2>3. CASE k \notin KeysOf(e)
      BY <1>1, <1>2, <2>1, <2>3
    <2> QED BY <2>2, <2>3
  <1>7. Bill(k) \in Nat
    BY <1>1, <1>2
  <1> QED BY <1>3, <1>4, <1>5, <1>6, <1>7

LEMMA StepOnePerMark == IInv /\ TInv /\ OnePerMark /\ [Next]_vars => OnePerMark'
  <1> SUFFICES ASSUME IInv, TInv, OnePerMark, [Next]_vars, NEW k \in Key,
                      \A s \in Sources : <<s, k[1]>> \notin exposed'
               PROVE  Bill(k)' <= Cardinality(Markers(k[1]))'
    BY DEF OnePerMark
  <1> DEFINE C == Cardinality(Markers(k[1]))
  <1>1. C \in Nat /\ Bill(k) \in Nat
    BY MarkersFinite, BillMoves
  <1>2. CASE Still /\ (UNCHANGED <<seen, exposed>> \/ Sweeps)
    <2>1. Markers(k[1])' = Markers(k[1]) /\ \A s \in Sources : <<s, k[1]>> \notin exposed
      BY <1>2 DEF Sweeps, Markers
    <2>2. Bill(k) <= C
      BY <2>1 DEF OnePerMark
    <2>3. Bill(k)' \in Int /\ Bill(k)' <= Bill(k) /\ C' = C
      BY <1>2, <2>1, BillMoves
    <2> QED BY <1>1, <2>2, <2>3
  <1>3. CASE ((\E d \in Key : Pays(d)) \/ Loses) /\ UNCHANGED <<seen, exposed>>
    <2>1. Markers(k[1])' = Markers(k[1]) /\ \A s \in Sources : <<s, k[1]>> \notin exposed
      BY <1>3 DEF Markers
    <2>2. Bill(k) <= C
      BY <2>1 DEF OnePerMark
    <2>3. Bill(k)' \in Int /\ Bill(k)' <= Bill(k) /\ C' = C
      BY <1>3, <2>1, BillMoves
    <2> QED BY <1>1, <2>2, <2>3
  <1>4. CASE \E s \in Sources : Ev(s) \in Events /\ Accepts(Ev(s)) /\ Marks(s)
    <2>1. PICK s \in Sources : Ev(s) \in Events /\ Accepts(Ev(s)) /\ Marks(s)
      BY <1>4
    <2>2. PICK e \in Events : e = Ev(s)
      BY <2>1
    <2>3. Bill(k)' = Bill(k) + (IF k \in KeysOf(e) THEN 1 ELSE 0)
      BY <2>1, <2>2, BillMoves
    <2>4. k \in KeysOf(e) => k[1] = e
      BY KeysOfType
    <2>5. CASE k[1] # e
      <3>1. Markers(k[1])' = Markers(k[1]) /\ \A r \in Sources : <<r, k[1]>> \notin exposed
        BY <2>1, <2>2, <2>5 DEF Marks, Markers
      <3>2. Bill(k) <= C
        BY <3>1 DEF OnePerMark
      <3>3. C' = C
        BY <3>1
      <3>4. Bill(k)' = Bill(k)
        BY <1>1, <2>3, <2>4, <2>5
      <3> QED BY <3>2, <3>3, <3>4
    <2>6. CASE k[1] = e
      <3>1. /\ <<s, e>> \notin seen /\ seen' = seen \cup {<<s, e>>}
            /\ \A r \in Sources : <<r, k[1]>> \notin exposed
        BY <2>1, <2>2, <2>6 DEF Marks
      <3>2. Markers(e)' = Markers(e) \cup {s} /\ s \notin Markers(e)
        BY <3>1 DEF Markers
      <3>3. Cardinality(Markers(e) \cup {s}) = Cardinality(Markers(e)) + 1
        BY <3>2, MarkersFinite, FS_AddElement
      <3>4. Bill(k) <= C
        BY <3>1 DEF OnePerMark
      <3>5. C' = C + 1
        BY <2>6, <3>2, <3>3
      <3> HIDE DEF C
      <3>6. CASE k \in KeysOf(e)
        BY <1>1, <2>3, <3>4, <3>5, <3>6 DEF C
      <3>7. CASE k \notin KeysOf(e)
        BY <1>1, <2>3, <3>4, <3>5, <3>7 DEF C
      <3> QED BY <3>6, <3>7
    <2> QED BY <2>5, <2>6
  <1> QED BY <1>2, <1>3, <1>4, Effects

LEMMA MarksInductive ==
    Spec => [](IInv /\ TInv /\ OnePerMark /\ NotedCarried)
  <1>1. Spec => [](IInv /\ TInv /\ NotedCarried)
    BY NotedInductive, PTL
  <1> QED BY <1>1, OnePerMarkInit, StepOnePerMark, PTL DEF Spec

(* As long as its record was marked and not swept, an event gets no more    *)
(* rows for one destination than there are adapters that carry it, through  *)
(* restarts, crashes and failed writes.                                     *)
THEOREM AtMostOnceCorrect == Spec => []AtMostOncePerSource
  <1>1. IInv /\ OnePerMark /\ NotedCarried => AtMostOncePerSource
    <2> SUFFICES ASSUME IInv, OnePerMark, NotedCarried, NEW k \in Key,
                        \A s \in {r \in Sources : Carries(r, k[1])} :
                            <<s, k[1]>> \notin exposed
                 PROVE  Len(audit[k]) + Owed(k)
                          <= Cardinality({r \in Sources : Carries(r, k[1])})
      BY DEF AtMostOncePerSource, Carries
    <2> DEFINE carriers == {r \in Sources : Carries(r, k[1])}
    <2>1. \A s \in Sources : <<s, k[1]>> \in Noted => s \in carriers
      BY DEF NotedCarried
    <2>2. \A s \in Sources : <<s, k[1]>> \notin exposed
      BY <2>1 DEF Noted
    <2>3. Bill(k) <= Cardinality(Markers(k[1]))
      BY <2>2 DEF OnePerMark
    <2>4. Markers(k[1]) \in SUBSET carriers
      BY <2>1 DEF Markers, Noted
    <2>5. carriers \in SUBSET Sources
      OBVIOUS
    <2>6. IsFiniteSet(carriers) /\ Cardinality(carriers) \in Nat
      BY <2>5, SourcesAssumption, FS_Subset, FS_CardinalityType
    <2>7. Cardinality(Markers(k[1])) <= Cardinality(carriers)
      BY <2>4, <2>6, FS_Subset
    <2>8. Bill(k) \in Nat /\ Cardinality(Markers(k[1])) \in Nat
      BY BillMoves, MarkersFinite
    <2> QED BY <2>3, <2>6, <2>7, <2>8 DEF Bill
  <1> QED BY <1>1, MarksInductive, PTL
=============================================================================
