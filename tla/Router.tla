-------------------------------- MODULE Router --------------------------------
(***************************************************************************)
(* internal/router/router.go: Route walks the rules in order and, for each *)
(* one that matches the event, its route in order; an output that is not a *)
(* target yet becomes one, under the label of the rule.  The loops are     *)
(* steps here, so that what they establish is an inductive invariant.      *)
(*                                                                         *)
(* Strings and tag values are atoms, "" is the unset string of Go.  A nil  *)
(* *int is {}, one that points to n is {n}; a tag that an event does not   *)
(* carry is not in the domain of its tags.                                 *)
(***************************************************************************)
EXTENDS Naturals, Sequences

CONSTANTS
    Outputs,     \* output names
    Labels,      \* rule names, "" among them
    Matches,     \* the match parts of rules
    Events,      \* what the router may be asked about
    RuleLists    \* the rules a router may be built from, validated by config

Rule == [name : Labels, match : Matches, route : Seq(Outputs)]

ASSUME RuleListsAssumption == RuleLists \subseteq Seq(Rule)

VARIABLES
    rules,       \* the rules of this router
    ev,          \* the event Route was called with
    i, j,        \* the rule, and the entry of its route, looked at next
    targets      \* the targets so far

vars == <<rules, ev, i, j, targets>>

-----------------------------------------------------------------------------
Exact == {"vin", "unit_id", "source", "source_type"}

(* SPNSet.Contains: inclusive ranges, a number n is the range n to n. *)
Contains(set, spn) == \E r \in set : r.lo <= spn /\ spn <= r.hi

(* Absent is neither zero nor a wildcard. *)
SPNHolds(m, e) == m.spn = {} \/ \E n \in e.spn : Contains(m.spn, n)

FMIHolds(m, e) == m.fmi = {} \/ m.fmi = e.fmi

TagsHold(m, e) ==
    \A k \in DOMAIN m.tags : k \in DOMAIN e.tags /\ e.tags[k] = m.tags[k]

(* matches: conditions are ANDed, what is not set is not a condition. *)
Holds(m, e) ==
    /\ \A f \in Exact : m[f] = "" \/ m[f] = e[f]
    /\ m.severity = {} \/ e.severity \in m.severity
    /\ SPNHolds(m, e)
    /\ FMIHolds(m, e)
    /\ TagsHold(m, e)

Fires(a) == Holds(rules[a].match, ev)

(* New, RuleLabel: the name, or the position for a rule without one. *)
Label(a) == [name |-> rules[a].name,
             index |-> IF rules[a].name = "" THEN a - 1 ELSE 0]

Target == [output : Outputs, rule : [name : Labels, index : Nat]]

(* mutant: a target is looked for under its label as well *)
ListedByRule(o) ==
    \E k \in DOMAIN targets : targets[k] = [output |-> o, rule |-> Label(i)]

Listed(o) == \E k \in DOMAIN targets : targets[k].output = o

-----------------------------------------------------------------------------
Init ==
    /\ rules \in RuleLists
    /\ ev \in Events
    /\ i = 1
    /\ j = 1
    /\ targets = <<>>

Skip ==
    /\ i \in DOMAIN rules
    /\ ~Fires(i)
    /\ i' = i + 1
    /\ j' = 1
    /\ UNCHANGED <<rules, ev, targets>>

Choose ==
    /\ i \in DOMAIN rules
    /\ Fires(i)
    /\ j \in DOMAIN rules[i].route
    /\ LET o == rules[i].route[j]
       IN targets' = IF Listed(o) THEN targets
                     ELSE Append(targets, [output |-> o, rule |-> Label(i)])
    /\ j' = j + 1
    /\ UNCHANGED <<rules, ev, i>>

NextRule ==
    /\ i \in DOMAIN rules
    /\ Fires(i)
    /\ j \notin DOMAIN rules[i].route
    /\ i' = i + 1
    /\ j' = 1
    /\ UNCHANGED <<rules, ev, targets>>

Returned == i \notin DOMAIN rules

(* Route is called for another event. *)
Call ==
    /\ Returned
    /\ ev' \in Events
    /\ i' = 1
    /\ j' = 1
    /\ targets' = <<>>
    /\ UNCHANGED rules

Next == Skip \/ Choose \/ NextRule \/ Call

Spec == Init /\ [][Next]_vars

-----------------------------------------------------------------------------
(* Properties. *)

TypeOK ==
    /\ rules \in Seq(Rule)
    /\ ev \in Events
    /\ i \in 1..(Len(rules) + 1)
    /\ j \in Nat \ {0}
    /\ i \in DOMAIN rules => j <= Len(rules[i].route) + 1
    /\ targets \in Seq(Target)

(* Entry b of the route of rule a is reached and names o. *)
Chosen(o, a, b) ==
    /\ a \in DOMAIN rules
    /\ b \in DOMAIN rules[a].route
    /\ Fires(a)
    /\ rules[a].route[b] = o

Before(a, b, c, d) == a < c \/ (a = c /\ b < d)

(* It is the first entry that does. *)
FirstChosen(o, a, b) ==
    /\ Chosen(o, a, b)
    /\ \A c \in DOMAIN rules : \A d \in DOMAIN rules[c].route :
            Chosen(o, c, d) => ~Before(c, d, a, b)

(* policy.md: an event goes to the union of what every matching rule names. *)
Complete ==
    \A a \in DOMAIN rules : \A b \in DOMAIN rules[a].route :
        Fires(a) => \E k \in DOMAIN targets : targets[k].output = rules[a].route[b]

(* A target names an output that some rule chose, with the label of the     *)
(* first rule that chose it.                                                *)
Labelled ==
    \A k \in DOMAIN targets :
        \E a \in DOMAIN rules : \E b \in DOMAIN rules[a].route :
            /\ FirstChosen(targets[k].output, a, b)
            /\ targets[k].rule = Label(a)

(* Targets come in the order in which they were first chosen, *)
InOrder ==
    \A k, l \in DOMAIN targets : k < l =>
        \A a, c \in DOMAIN rules :
            \A b \in DOMAIN rules[a].route : \A d \in DOMAIN rules[c].route :
                /\ FirstChosen(targets[k].output, a, b)
                /\ FirstChosen(targets[l].output, c, d)
                => Before(a, b, c, d)

(* and each is there once, which is what the pipeline assumes of its routes *)
(* when it owes one audit row per destination.                              *)
Once ==
    \A k, l \in DOMAIN targets : targets[k].output = targets[l].output => k = l

(* What Route returns is the union of the routes of the rules that match,   *)
(* each output once, in the order and under the label of its first rule.    *)
RouteCorrect == Returned => Complete /\ Labelled /\ InOrder /\ Once

===============================================================================
