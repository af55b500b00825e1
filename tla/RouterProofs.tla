----------------------------- MODULE RouterProofs -----------------------------
(***************************************************************************)
(* What Router.Route returns is correct for every list of rules and every  *)
(* event.  The invariant says of the steps taken so far what RouteCorrect  *)
(* says of all of them: an entry before <<i, j>> is covered by a target,   *)
(* a target was first chosen before <<i, j>>, and the order of the targets *)
(* is the order of those first choices.                                    *)
(*                                                                         *)
(* The second half is about Intake: a record on its way to the router.     *)
(* The event is always the normal form of a record that was usable, and    *)
(* what it says is traced back to what the record reports.                 *)
(***************************************************************************)
EXTENDS Intake, TLAPS

(* Entry b of the route of rule a was looked at already. *)
Past(a, b) == Before(a, b, i, j)

Covered ==
    \A a \in DOMAIN rules : \A b \in DOMAIN rules[a].route :
        Fires(a) /\ Past(a, b) =>
            \E k \in DOMAIN targets : targets[k].output = rules[a].route[b]

Placed ==
    \A k \in DOMAIN targets :
        \E a \in DOMAIN rules : \E b \in DOMAIN rules[a].route :
            /\ FirstChosen(targets[k].output, a, b)
            /\ targets[k].rule = Label(a)
            /\ Past(a, b)

RInv == TypeOK /\ Covered /\ Placed /\ InOrder

(* A rule of the list is a rule, and positions in it are numbers. *)
LEMMA RuleType ==
    ASSUME TypeOK, NEW a \in DOMAIN rules
    PROVE  /\ a \in Nat /\ 1 <= a /\ a <= Len(rules)
           /\ rules[a].name \in Labels
           /\ rules[a].route \in Seq(Outputs)
           /\ DOMAIN rules[a].route = 1..Len(rules[a].route)
           /\ Len(rules[a].route) \in Nat
<1>1. a \in Nat /\ 1 <= a /\ a <= Len(rules) /\ rules[a] \in Rule
  BY DEF TypeOK
<1>2. rules[a].name \in Labels /\ rules[a].route \in Seq(Outputs)
  BY <1>1 DEF Rule
<1> QED
  BY <1>1, <1>2

(* Entries of routes are pairs of positive numbers, and so is <<i, j>>. *)
LEMMA EntryType ==
    ASSUME TypeOK
    PROVE  /\ i \in Nat /\ j \in Nat /\ 1 <= i /\ 1 <= j
           /\ \A a \in DOMAIN rules :
                 /\ a \in Nat /\ 1 <= a /\ a <= Len(rules)
                 /\ \A b \in DOMAIN rules[a].route :
                       b \in Nat /\ 1 <= b /\ b <= Len(rules[a].route)
<1>1. i \in Nat /\ j \in Nat /\ 1 <= i /\ 1 <= j
  BY DEF TypeOK
<1> QED
  BY <1>1, RuleType

(* An output is first chosen at one entry. *)
LEMMA FirstUnique ==
    ASSUME TypeOK, NEW p, NEW a, NEW b, NEW c, NEW d,
           FirstChosen(p, a, b), FirstChosen(p, c, d)
    PROVE  a = c /\ b = d
<1>1. /\ a \in DOMAIN rules /\ b \in DOMAIN rules[a].route
      /\ c \in DOMAIN rules /\ d \in DOMAIN rules[c].route
  BY DEF FirstChosen, Chosen
<1>2. a \in Nat /\ b \in Nat /\ c \in Nat /\ d \in Nat
  BY <1>1, EntryType
<1>3. ~Before(c, d, a, b) /\ ~Before(a, b, c, d)
  BY <1>1 DEF FirstChosen
<1> QED
  BY <1>2, <1>3 DEF Before

(* Labels are of their type. *)
LEMMA LabelType ==
    ASSUME TypeOK, NEW a \in DOMAIN rules
    PROVE  Label(a) \in [name : Labels, index : Nat]
<1>1. rules[a].name \in Labels
  BY RuleType
<1>2. a - 1 \in Nat
  BY RuleType
<1> QED
  BY <1>1, <1>2 DEF Label

LEMMA RInit == Init => RInv
<1> SUFFICES ASSUME Init PROVE RInv
  OBVIOUS
<1>1. TypeOK
  <2>1. rules \in Seq(Rule) /\ Len(rules) \in Nat
    BY RuleListsAssumption DEF Init
  <2>2. i \in DOMAIN rules => rules[i] \in Rule
    BY <2>1
  <2>3. i \in DOMAIN rules => rules[i].route \in Seq(Outputs)
    BY <2>2 DEF Rule
  <2>4. i \in DOMAIN rules => j <= Len(rules[i].route) + 1
    BY <2>3 DEF Init
  <2> QED
    BY <2>1, <2>4 DEF Init, TypeOK
<1>2. Covered
  <2>1. \A a \in DOMAIN rules : \A b \in DOMAIN rules[a].route : ~Past(a, b)
    BY <1>1, RuleType DEF Init, Past, Before
  <2> QED
    BY <2>1 DEF Covered
<1>3. Placed /\ InOrder
  BY DEF Init, Placed, InOrder
<1> QED
  BY <1>1, <1>2, <1>3 DEF RInv

(* The router moves past entry j of rule i without a new target: nothing to *)
(* cover there, or an output that is listed.                                *)
LEMMA MovesOn ==
    ASSUME RInv, UNCHANGED <<rules, ev, targets>>, TypeOK',
           i \in DOMAIN rules,
           \A a \in DOMAIN rules : \A b \in DOMAIN rules[a].route :
               /\ Past(a, b) => Past(a, b)'
               /\ Fires(a) /\ Past(a, b)' /\ ~Past(a, b) =>
                     \E k \in DOMAIN targets : targets[k].output = rules[a].route[b]
    PROVE  RInv'
<1>1. Covered'
  BY DEF RInv, Covered, Fires
<1>2. Placed'
  <2>1. \A k \in DOMAIN targets :
            \E a \in DOMAIN rules : \E b \in DOMAIN rules[a].route :
                /\ FirstChosen(targets[k].output, a, b)
                /\ targets[k].rule = Label(a)
                /\ Past(a, b)'
    BY DEF RInv, Placed
  <2>2. \A p, a, b : FirstChosen(p, a, b)' <=> FirstChosen(p, a, b)
    BY DEF FirstChosen, Chosen, Fires, Before
  <2> QED
    BY <2>1, <2>2 DEF Placed, Label
<1>3. InOrder'
  BY DEF RInv, InOrder, FirstChosen, Chosen, Fires, Before
<1> QED
  BY <1>1, <1>2, <1>3 DEF RInv

(* One step of Route or the next call keeps the invariant. *)
LEMMA RStep == RInv /\ [Next]_vars => RInv'
<1> SUFFICES ASSUME RInv, [Next]_vars PROVE RInv'
  OBVIOUS
<1>t. TypeOK
  BY DEF RInv
<1>n. /\ i \in Nat /\ j \in Nat /\ 1 <= i /\ 1 <= j
      /\ \A a \in DOMAIN rules :
            /\ a \in Nat /\ 1 <= a /\ a <= Len(rules)
            /\ \A b \in DOMAIN rules[a].route :
                  b \in Nat /\ 1 <= b /\ b <= Len(rules[a].route)
  BY <1>t, EntryType
<1>1. CASE Skip
  <2>1. TypeOK'
    BY <1>t, <1>1 DEF Skip, TypeOK
  <2>2. \A a \in DOMAIN rules : \A b \in DOMAIN rules[a].route :
            /\ Past(a, b) => Past(a, b)'
            /\ Past(a, b)' /\ ~Past(a, b) => a = i
    BY <1>n, <1>1 DEF Skip, Past, Before
  <2> QED
    BY <1>1, <2>1, <2>2, MovesOn DEF Skip
<1>2. CASE NextRule
  <2>1. TypeOK'
    BY <1>t, <1>2 DEF NextRule, TypeOK
  <2>2. \A a \in DOMAIN rules : \A b \in DOMAIN rules[a].route :
            /\ Past(a, b) => Past(a, b)'
            /\ ~(Past(a, b)' /\ ~Past(a, b))
    BY <1>n, <1>2, RuleType, <1>t DEF NextRule, Past, Before
  <2> QED
    BY <1>2, <2>1, <2>2, MovesOn DEF NextRule
<1>3. CASE Choose
  <2> DEFINE o == rules[i].route[j]
  <2>0. i \in DOMAIN rules /\ Fires(i) /\ j \in DOMAIN rules[i].route
    BY <1>3 DEF Choose
  <2>1. o \in Outputs
    BY <1>t, <2>0, RuleType
  <2>2. \A a \in DOMAIN rules : \A b \in DOMAIN rules[a].route :
            /\ Past(a, b) => Past(a, b)'
            /\ Past(a, b)' /\ ~Past(a, b) => a = i /\ b = j
    BY <1>n, <1>3 DEF Choose, Past, Before
  <2>3. CASE Listed(o)
    <3>1. UNCHANGED targets
      BY <1>3, <2>3 DEF Choose
    <3>2. TypeOK'
      <4>1. /\ rules' = rules /\ ev' = ev /\ i' = i /\ j' = j + 1
            /\ rules \in Seq(Rule) /\ ev \in Events /\ targets \in Seq(Target)
            /\ i \in 1..(Len(rules) + 1) /\ j \in Nat \ {0}
        BY <1>t, <1>3 DEF Choose, TypeOK
      <4>2. j <= Len(rules[i].route) /\ Len(rules[i].route) \in Nat
        BY <1>t, <2>0, RuleType
      <4> QED
        BY <3>1, <4>1, <4>2 DEF TypeOK
    <3> QED
      BY <1>3, <2>2, <2>3, <3>1, <3>2, MovesOn DEF Choose, Listed
  <2>4. CASE ~Listed(o)
    <3> DEFINE new == [output |-> o, rule |-> Label(i)]
    <3>1. targets' = Append(targets, new)
      BY <1>3, <2>4 DEF Choose
    <3>2. new \in Target
      BY <1>t, <2>0, <2>1, LabelType DEF Target
    <3>3. TypeOK'
      <4>1. targets' \in Seq(Target)
        BY <1>t, <3>1, <3>2 DEF TypeOK
      <4>2. /\ rules' = rules /\ ev' = ev /\ i' = i /\ j' = j + 1
            /\ rules \in Seq(Rule) /\ ev \in Events
            /\ i \in 1..(Len(rules) + 1) /\ j \in Nat \ {0}
        BY <1>t, <1>3 DEF Choose, TypeOK
      <4>3. j <= Len(rules[i].route) /\ Len(rules[i].route) \in Nat
        BY <1>t, <2>0, RuleType
      <4> QED
        BY <4>1, <4>2, <4>3 DEF TypeOK
    <3>4. /\ targets \in Seq(Target)
          /\ DOMAIN targets' = DOMAIN targets \cup {Len(targets) + 1}
          /\ \A k \in DOMAIN targets : targets'[k] = targets[k]
          /\ targets'[Len(targets) + 1] = new
          /\ \A k \in DOMAIN targets : k \in Nat /\ k < Len(targets) + 1
      BY <1>t, <3>1, <3>2 DEF TypeOK
    <3>5. FirstChosen(o, i, j)
      <4>1. Chosen(o, i, j)
        BY <2>0 DEF Chosen
      <4>2. ASSUME NEW c \in DOMAIN rules, NEW d \in DOMAIN rules[c].route,
                   Chosen(o, c, d), Before(c, d, i, j)
            PROVE  FALSE
        BY <2>4, <4>2 DEF RInv, Covered, Past, Chosen, Listed
      <4> QED
        BY <4>1, <4>2 DEF FirstChosen
    <3>6. \A p, a, b : FirstChosen(p, a, b)' <=> FirstChosen(p, a, b)
      BY <1>3 DEF Choose, FirstChosen, Chosen, Fires, Before
    <3>7. Covered'
      <4> SUFFICES ASSUME NEW a \in DOMAIN rules, NEW b \in DOMAIN rules[a].route,
                          Fires(a), Past(a, b)'
                   PROVE  \E k \in DOMAIN targets' :
                              targets'[k].output = rules[a].route[b]
        BY <1>3 DEF Choose, Covered, Fires
      <4>1. CASE Past(a, b)
        BY <4>1, <3>4 DEF RInv, Covered
      <4>2. CASE ~Past(a, b)
        BY <4>2, <2>2, <3>4
      <4> QED
        BY <4>1, <4>2
    <3>8. Placed'
      <4> SUFFICES ASSUME NEW k \in DOMAIN targets'
                   PROVE  \E a \in DOMAIN rules : \E b \in DOMAIN rules[a].route :
                              /\ FirstChosen(targets'[k].output, a, b)
                              /\ targets'[k].rule = Label(a)
                              /\ Before(a, b, i', j')
        <5>1. rules' = rules /\ \A a : Label(a)' = Label(a)
          BY <1>3 DEF Choose, Label
        <5>2. \A a, b : Past(a, b)' <=> Before(a, b, i', j')
          BY <5>1 DEF Past, Before
        <5> QED
          BY <3>6, <5>1, <5>2 DEF Placed
      <4>1. CASE k \in DOMAIN targets
        <5>1. PICK a \in DOMAIN rules : \E b \in DOMAIN rules[a].route :
                    /\ FirstChosen(targets[k].output, a, b)
                    /\ targets[k].rule = Label(a)
                    /\ Past(a, b)
          BY <4>1 DEF RInv, Placed
        <5>2. \A b \in DOMAIN rules[a].route :
                    Past(a, b) => Before(a, b, i', j')
          BY <2>2 DEF Past, Before
        <5> QED
          BY <3>4, <4>1, <5>1, <5>2
      <4>2. CASE k = Len(targets) + 1
        <5>1. Before(i, j, i', j')
          BY <1>n, <1>3 DEF Choose, Past, Before
        <5> QED
          BY <4>2, <2>0, <3>4, <3>5, <5>1
      <4> QED
        BY <4>1, <4>2, <3>4
    <3>9. InOrder'
      <4> SUFFICES ASSUME NEW k \in DOMAIN targets', NEW l \in DOMAIN targets',
                          k < l,
                          NEW a \in DOMAIN rules, NEW c \in DOMAIN rules,
                          NEW b \in DOMAIN rules[a].route,
                          NEW d \in DOMAIN rules[c].route,
                          FirstChosen(targets'[k].output, a, b),
                          FirstChosen(targets'[l].output, c, d)
                   PROVE  Before(a, b, c, d)
        BY <1>3, <3>6 DEF Choose, InOrder, Before
      <4>0. k \in DOMAIN targets
        BY <3>4
      <4>1. CASE l \in DOMAIN targets
        BY <4>0, <4>1, <3>4 DEF RInv, InOrder
      <4>2. CASE l = Len(targets) + 1
        <5>1. PICK a1 \in DOMAIN rules : \E b1 \in DOMAIN rules[a1].route :
                    FirstChosen(targets[k].output, a1, b1) /\ Past(a1, b1)
          BY <4>0 DEF RInv, Placed
        <5>2. PICK b1 \in DOMAIN rules[a1].route :
                    FirstChosen(targets[k].output, a1, b1) /\ Past(a1, b1)
          BY <5>1
        <5>3. a1 = a /\ b1 = b
          BY <1>t, <3>4, <4>0, <5>2, FirstUnique
        <5>4. c = i /\ d = j
          BY <1>t, <3>4, <3>5, <4>2, FirstUnique
        <5> QED
          BY <5>2, <5>3, <5>4 DEF Past
      <4> QED
        BY <4>1, <4>2, <3>4
    <3> QED
      BY <3>3, <3>7, <3>8, <3>9 DEF RInv
  <2> QED
    BY <2>3, <2>4
<1>4. CASE Call
  <2>1. TypeOK'
    BY <1>t, <1>4 DEF Call, TypeOK, Target
  <2>2. Covered'
    <3>1. \A a \in DOMAIN rules : \A b \in DOMAIN rules[a].route : ~Past(a, b)'
      BY <1>n, <1>4 DEF Call, Past, Before
    <3> QED
      BY <1>4, <3>1 DEF Call, Covered
  <2>3. Placed' /\ InOrder'
    BY <1>4 DEF Call, Placed, InOrder
  <2> QED
    BY <2>1, <2>2, <2>3 DEF RInv
<1>5. CASE UNCHANGED vars
  <2>1. TypeOK'
    BY <1>t, <1>5 DEF vars, TypeOK
  <2>2. Covered'
    BY <1>5 DEF vars, RInv, Covered, Past, Before, Fires
  <2>3. Placed'
    <3>1. \A p, a, b : FirstChosen(p, a, b)' <=> FirstChosen(p, a, b)
      BY <1>5 DEF vars, FirstChosen, Chosen, Fires, Before
    <3>2. \A a, b : Past(a, b)' <=> Past(a, b)
      BY <1>5 DEF vars, Past, Before
    <3>3. \A a : Label(a)' = Label(a)
      BY <1>5 DEF vars, Label
    <3> QED
      BY <1>5, <3>1, <3>2, <3>3 DEF vars, RInv, Placed
  <2>4. InOrder'
    BY <1>5 DEF vars, RInv, InOrder, Before, FirstChosen, Chosen, Fires
  <2> QED
    BY <2>1, <2>2, <2>3, <2>4 DEF RInv
<1> QED
  BY <1>1, <1>2, <1>3, <1>4, <1>5 DEF Next

(* What the invariant says once every rule has been looked at. *)
LEMMA RConclusion == RInv => RouteCorrect
<1> SUFFICES ASSUME RInv, Returned PROVE Complete /\ Labelled /\ InOrder /\ Once
  BY DEF RouteCorrect
<1>1. \A a \in DOMAIN rules : \A b \in DOMAIN rules[a].route : Past(a, b)
  <2>1. i > Len(rules)
    BY DEF RInv, TypeOK, Returned
  <2> QED
    BY <2>1, EntryType DEF RInv, Past, Before
<1>2. Complete
  BY <1>1 DEF RInv, Covered, Complete
<1>3. Labelled
  BY DEF RInv, Placed, Labelled
<1>4. Once
  <2> SUFFICES ASSUME NEW k \in DOMAIN targets, NEW l \in DOMAIN targets,
                      targets[k].output = targets[l].output, k < l
               PROVE  FALSE
    BY DEF Once, RInv, TypeOK
  <2>1. PICK a \in DOMAIN rules : \E b \in DOMAIN rules[a].route :
            FirstChosen(targets[k].output, a, b)
    BY DEF RInv, Placed
  <2>2. PICK b \in DOMAIN rules[a].route : FirstChosen(targets[k].output, a, b)
    BY <2>1
  <2>3. Before(a, b, a, b)
    BY <2>2 DEF RInv, InOrder
  <2> QED
    BY <2>3, EntryType DEF Before, RInv
<1> QED
  BY <1>2, <1>3, <1>4 DEF RInv

(* For every list of rules and every event, Route returns the union of the  *)
(* routes of the matching rules, each output once, in the order and under   *)
(* the label of the first rule that chose it.                               *)
THEOREM RouterCorrect == Spec => []RouteCorrect
<1>1. Init => RInv
  BY RInit
<1>2. RInv /\ [Next]_vars => RInv'
  BY RStep
<1>3. RInv => RouteCorrect
  BY RConclusion
<1> QED
  BY <1>1, <1>2, <1>3, PTL DEF Spec

-----------------------------------------------------------------------------
(* Records and what becomes of them. *)

(* The event that is routed is that of the record taken in last. *)
IntakeInv ==
    /\ rec \in Records
    /\ Usable(rec)
    /\ ev = Normal(rec)

(* Taking in and routing a record are steps of the router. *)
LEMMA IntakeRoutes == IntakeSpec => Spec
<1>1. IntakeInit => Init
  BY DEF IntakeInit
<1>2. [IntakeNext]_intakeVars => [Next]_vars
  BY DEF IntakeNext, Take, Next, intakeVars
<1> QED
  BY <1>1, <1>2, PTL DEF IntakeSpec, Spec

LEMMA IntakeKept == IntakeSpec => []IntakeInv
<1>1. IntakeInit => IntakeInv
  BY DEF IntakeInit, IntakeInv, Accepted
<1>2. IntakeInv /\ [IntakeNext]_intakeVars => IntakeInv'
  <2> SUFFICES ASSUME IntakeInv, [IntakeNext]_intakeVars PROVE IntakeInv'
    OBVIOUS
  <2>1. CASE Take
    BY <2>1 DEF Take, IntakeInv, Accepted
  <2>2. CASE UNCHANGED <<rec, ev>>
    BY <2>2 DEF IntakeInv
  <2> QED
    BY <2>1, <2>2 DEF IntakeNext, Skip, Choose, NextRule, intakeVars, vars
<1> QED
  BY <1>1, <1>2, PTL DEF IntakeSpec

(* Annotate changes the tags and nothing else, and never takes one away. *)
LEMMA AnnotateKeeps ==
    ASSUME NEW e, KnownFields \subseteq DOMAIN e
    PROVE  /\ Annotate(e).spn = e.spn
           /\ Annotate(e).severity = e.severity
           /\ Annotate(e).tags =
                 IF OutOfRange(e) THEN Merge([k \in KnownTags |-> "true"], e.tags) ELSE e.tags
BY DEF Annotate, KnownFields, ZeroEvent

LEMMA MergeDomain ==
    ASSUME NEW f, NEW g
    PROVE  /\ DOMAIN Merge(f, g) = DOMAIN f \cup DOMAIN g
           /\ \A k \in DOMAIN f : Merge(f, g)[k] = f[k]
           /\ \A k \in DOMAIN g \ DOMAIN f : Merge(f, g)[k] = g[k]
BY DEF Merge

(* The tags that a record itself brings. *)
OwnTags(r) == Value(r, "tags")

(* The event of a file record: its SPN is that of the record, and its tags  *)
(* are the tags and the unknown fields of the record, and fleetnorm's own.  *)
LEMMA FileEvent ==
    ASSUME NEW r
    PROVE  /\ FromFile(r).spn = Value(r, "spn")
           /\ FromFile(r).tags =
                 IF OutOfRange(FromFile(r))
                 THEN Merge([k \in KnownTags |-> "true"], WithExtra(r, OwnTags(r)))
                 ELSE WithExtra(r, OwnTags(r))
<1> DEFINE e == WithDefaults(Unmarshalled(r))
           t == [e EXCEPT !.occurred_at = Utc(@), !.received_at = Utc(@),
                          !.tags = WithExtra(r, @)]
<1>1. /\ DOMAIN e = KnownFields
      /\ e["spn"] = Value(r, "spn")
      /\ e["tags"] = OwnTags(r)
  BY DEF WithDefaults, Unmarshalled, FileDefaults, KnownFields, ZeroEvent, OwnTags
<1> HIDE DEF e
<1>2. DOMAIN t = KnownFields /\ t.spn = e["spn"] /\ t.tags = WithExtra(r, e["tags"])
  BY <1>1 DEF KnownFields, ZeroEvent
<1>3. FromFile(r) = Annotate(t)
  BY DEF FromFile, e
<1> HIDE DEF t
<1>4. /\ FromFile(r).spn = t.spn
      /\ FromFile(r).tags =
            IF OutOfRange(t) THEN Merge([k \in KnownTags |-> "true"], t.tags) ELSE t.tags
  BY <1>2, <1>3, AnnotateKeeps
<1>5. OutOfRange(FromFile(r)) <=> OutOfRange(t)
  BY <1>4 DEF OutOfRange
<1> QED
  BY <1>1, <1>2, <1>4, <1>5

(* The event of a feed record. *)
LEMMA FeedEvent ==
    ASSUME NEW r
    PROVE  /\ FromFeed(r).spn = SPNOf(r)
           /\ FromFeed(r).severity = SeverityOf(r)
           /\ FromFeed(r).tags =
                 IF OutOfRange(FromFeed(r))
                 THEN Merge([k \in KnownTags |-> "true"], FeedTags(r))
                 ELSE FeedTags(r)
<1> DEFINE t == [schema_version |-> "0.1.0", event_id |-> r.id, source |-> Name,
              source_type |-> "tsp", occurred_at |-> Utc(r.occurred_at),
              received_at |-> "utc", severity |-> SeverityOf(r),
              spn |-> SPNOf(r), fmi |-> FMIOf(r), occurrence_count |-> r.count,
              vin |-> IF HasVIN(r) THEN The(r.device).vin ELSE r.device_id,
              unit_id |-> IF r.device = {} THEN "" ELSE The(r.device).name,
              location |-> {}, tags |-> FeedTags(r)]
<1>1. /\ KnownFields \subseteq DOMAIN t
      /\ t.spn = SPNOf(r) /\ t.severity = SeverityOf(r) /\ t.tags = FeedTags(r)
  BY DEF KnownFields, ZeroEvent
<1>2. FromFeed(r) = Annotate(t)
  BY DEF FromFeed
<1> HIDE DEF t
<1>3. /\ FromFeed(r).spn = t.spn
      /\ FromFeed(r).severity = t.severity
      /\ FromFeed(r).tags =
            IF OutOfRange(t) THEN Merge([k \in KnownTags |-> "true"], t.tags) ELSE t.tags
  BY <1>1, <1>2, AnnotateKeeps
<1>4. OutOfRange(FromFeed(r)) <=> OutOfRange(t)
  BY <1>3 DEF OutOfRange
<1> QED
  BY <1>1, <1>3, <1>4

(* What an adapter of the feed writes is in a namespace of its own. *)
LEMMA FeedTagNames ==
    ASSUME NEW r
    PROVE  /\ TagSPNOutOfRange \notin DOMAIN FeedTags(r)
           /\ r.severity = "" /\ SeverityOf(r) # "medium" =>
                 "geotab.severity_derived" \in DOMAIN FeedTags(r)
<1>1. DOMAIN FeedTags(r) \subseteq
        {"geotab.source_id", "geotab.severity_absent", "geotab.severity_derived",
         "geotab.severity_raw", "geotab.diagnostic_code", "geotab.failure_mode_code",
         "geotab.vin_fallback"}
  BY DEF FeedTags, Merge, When
<1>2. r.severity = "" /\ SeverityOf(r) # "medium" =>
        "geotab.severity_derived" \in DOMAIN FeedTags(r)
  BY DEF FeedTags, Merge, When
<1> QED
  BY <1>1, <1>2 DEF TagSPNOutOfRange

(* An SPN of the event is one that the record reports as an SPN. *)
LEMMA OnlyReportedSPNs ==
    ASSUME NEW r \in Records, NEW n \in Normal(r).spn
    PROVE  n \in ReportedSPN(r)
<1>1. CASE r.form = "geotab"
  <2>1. n \in SPNOf(r)
    BY <1>1, FeedEvent DEF Normal
  <2>2. r \in FeedRecords
    BY <1>1, RecordsAssumption DEF Records
  <2>3. \A c, d \in r.diagnostic : c = d
    BY <2>2, RecordsAssumption
  <2> QED
    BY <1>1, <2>1, <2>3 DEF SPNOf, ReportedSPN
<1>2. CASE r.form # "geotab"
  <2>1. n \in Value(r, "spn")
    BY <1>2, FileEvent DEF Normal
  <2>2. Keys(r, "spn") # {}
    BY <2>1 DEF Value, ZeroEvent
  <2>3. PICK k : k = The(Keys(r, "spn"))
    OBVIOUS
  <2>4. k \in Keys(r, "spn")
    BY <2>2, <2>3 DEF The
  <2>5. n \in Fields(r)[k]
    BY <2>1, <2>2, <2>3 DEF Value
  <2> QED
    BY <1>2, <2>4, <2>5 DEF ReportedSPN, Keys
<1> QED
  BY <1>1, <1>2

-----------------------------------------------------------------------------
(* The theorems about Intake. *)

LEMMA SPNConclusion == RouteCorrect /\ IntakeInv => OnlyReportedSPNRoutes
<1> SUFFICES ASSUME RouteCorrect, IntakeInv, Returned, NEW k \in DOMAIN targets
             PROVE  \E a \in DOMAIN rules :
                       /\ targets[k].rule = Label(a)
                       /\ \E b \in DOMAIN rules[a].route :
                              rules[a].route[b] = targets[k].output
                       /\ rules[a].match.spn # {} =>
                             \E n \in ReportedSPN(rec) : Contains(rules[a].match.spn, n)
  BY DEF OnlyReportedSPNRoutes
<1>1. PICK a \in DOMAIN rules : \E b \in DOMAIN rules[a].route :
            FirstChosen(targets[k].output, a, b) /\ targets[k].rule = Label(a)
  BY DEF RouteCorrect, Labelled
<1>2. PICK b \in DOMAIN rules[a].route :
            FirstChosen(targets[k].output, a, b) /\ targets[k].rule = Label(a)
  BY <1>1
<1>3. Fires(a) /\ rules[a].route[b] = targets[k].output
  BY <1>2 DEF FirstChosen, Chosen
<1>4. ASSUME rules[a].match.spn # {}
      PROVE  \E n \in ReportedSPN(rec) : Contains(rules[a].match.spn, n)
  <2>1. PICK n \in ev.spn : Contains(rules[a].match.spn, n)
    BY <1>3, <1>4 DEF Fires, Holds, SPNHolds
  <2>2. n \in ReportedSPN(rec)
    BY <2>1, OnlyReportedSPNs DEF IntakeInv
  <2> QED
    BY <2>1, <2>2
<1> QED
  BY <1>2, <1>3, <1>4

(* A rule about SPNs only ever sends an event whose source reported one of  *)
(* them as an SPN, whatever the rules and the records: the label of a       *)
(* target is that of a rule that matched, and normalize of both adapters    *)
(* puts no number in spn that was not there as one.                         *)
THEOREM OnlyReportedSPNsRoute == IntakeSpec => []OnlyReportedSPNRoutes
BY IntakeRoutes, RouterCorrect, IntakeKept, SPNConclusion, PTL

(* A field that the schema does not know is a tag of the event, with the    *)
(* value that the owner's own tag of the name gives it, if there is one.    *)
LEMMA FieldsConclusion == IntakeInv => FieldsSurvive
<1> SUFFICES ASSUME IntakeInv, rec.form # "geotab",
                    NEW k \in DOMAIN Fields(rec) \
                                (KnownFields \cup {t \in KnownTags : OutOfRange(ev)})
             PROVE  /\ k \in DOMAIN ev.tags
                    /\ ev.tags[k] =
                          IF k \in DOMAIN Value(rec, "tags")
                          THEN Value(rec, "tags")[k] ELSE TagValue(rec, k)
  BY DEF FieldsSurvive
<1> DEFINE own == WithExtra(rec, OwnTags(rec))
<1>1. /\ ev = FromFile(rec)
      /\ ev.tags = IF OutOfRange(ev) THEN Merge([t \in KnownTags |-> "true"], own) ELSE own
  BY FileEvent DEF IntakeInv, Normal
<1>2. k \in DOMAIN Extra(rec) /\ Extra(rec)[k] = TagValue(rec, k)
  BY DEF Extra
<1>3. /\ k \in DOMAIN own
      /\ own[k] = IF k \in DOMAIN OwnTags(rec) THEN OwnTags(rec)[k] ELSE TagValue(rec, k)
  BY <1>2 DEF WithExtra, Merge
<1> HIDE DEF own
<1>4. k \in DOMAIN ev.tags /\ ev.tags[k] = own[k]
  <2>1. CASE OutOfRange(ev)
    <3>1. k \notin DOMAIN [t \in KnownTags |-> "true"]
      BY <2>1
    <3> QED
      BY <1>1, <1>3, <2>1, <3>1 DEF Merge
  <2>2. CASE ~OutOfRange(ev)
    BY <1>1, <1>3, <2>2
  <2> QED
    BY <2>1, <2>2
<1> QED
  BY <1>3, <1>4 DEF OwnTags

(* What a record of a file says beyond the schema is in the tags of its     *)
(* event, and never takes the place of a tag its owner wrote.               *)
THEOREM FieldsDoSurvive == IntakeSpec => []FieldsSurvive
BY IntakeKept, FieldsConclusion, PTL

LEMMA SeverityConclusion == IntakeInv => SeverityNotLowered
<1> SUFFICES ASSUME IntakeInv, rec.form = "geotab", rec.severity \notin DOMAIN SeverityMap
             PROVE  /\ ev.severity \in {"medium", "high", "critical"}
                    /\ ev.severity # "medium" => "geotab.severity_derived" \in DOMAIN ev.tags
  BY DEF SeverityNotLowered
<1>1. ev = FromFeed(rec) /\ ev.severity = SeverityOf(rec)
  BY FeedEvent DEF IntakeInv, Normal
<1>2. SeverityOf(rec) \in {"medium", "critical"}
  BY DEF SeverityOf, LampSeverity
<1>3. DOMAIN FeedTags(rec) \subseteq DOMAIN ev.tags
  BY <1>1, FeedEvent DEF Merge
<1>4. SeverityOf(rec) # "medium" => rec.severity = ""
  BY DEF SeverityOf
<1> QED
  BY <1>1, <1>2, <1>3, <1>4, FeedTagNames

(* A fault of the feed without a severity that is known is never made less  *)
(* than medium, and only a lamp makes it more, which the event then says.   *)
THEOREM SeverityIsNotLowered == IntakeSpec => []SeverityNotLowered
BY IntakeKept, SeverityConclusion, PTL

LEMMA PrefixConclusion == IntakeInv => PrefixIsOurs
<1> SUFFICES ASSUME IntakeInv PROVE PrefixIsOurs
  OBVIOUS
<1>1. \A n \in ev.spn : n \in ReportedSPN(rec)
  BY OnlyReportedSPNs DEF IntakeInv
<1> DEFINE own == IF rec.form = "geotab" THEN FeedTags(rec) ELSE WithExtra(rec, OwnTags(rec))
<1>2. ev.tags = IF OutOfRange(ev) THEN Merge([k \in KnownTags |-> "true"], own) ELSE own
  BY FeedEvent, FileEvent DEF IntakeInv, Normal
<1>3. TagSPNOutOfRange \in DOMAIN own => Brought(rec, TagSPNOutOfRange)
  <2>1. CASE rec.form = "geotab"
    BY <2>1, FeedTagNames
  <2>2. CASE rec.form # "geotab"
    <3>1. DOMAIN own = DOMAIN OwnTags(rec) \cup DOMAIN Extra(rec)
      BY <2>2, MergeDomain DEF WithExtra
    <3>2. DOMAIN Extra(rec) \subseteq DOMAIN Fields(rec)
      BY DEF Extra
    <3> QED
      BY <2>2, <3>1, <3>2 DEF Brought, OwnTags
  <2> QED
    BY <2>1, <2>2
<1> HIDE DEF own
<1>4. OutOfRange(ev) => TagSPNOutOfRange \in DOMAIN ev.tags
  BY <1>2 DEF KnownTags, Merge
<1>5. ASSUME NEW k \in DOMAIN ev.tags \cap Reserved
      PROVE  k = TagSPNOutOfRange /\ (OutOfRange(ev) \/ Brought(rec, k))
  <2>1. k = TagSPNOutOfRange
    BY DEF IntakeInv, Usable, Valid, ReservedKept, KnownTags
  <2> QED
    BY <1>2, <1>3, <2>1
<1> QED
  BY <1>1, <1>4, <1>5 DEF PrefixIsOurs, OutOfRange

(* A number out of range is kept and told, and a tag of fleetnorm's prefix  *)
(* says nothing else, unless the record brought it along under that name.   *)
THEOREM PrefixStaysOurs == IntakeSpec => []PrefixIsOurs
BY IntakeKept, PrefixConclusion, PTL
=============================================================================
