------------------------------ MODULE MCIntake ------------------------------
(* Small instances of Intake for TLC. *)
EXTENDS Intake

AnyMatch == [vin |-> "", unit_id |-> "", source |-> "", source_type |-> "",
             severity |-> {}, spn |-> {}, fmi |-> {}, tags |-> <<>>]

(* One match per kind of condition, and one with two conditions. *)
SomeMatches ==
    {AnyMatch,
     [AnyMatch EXCEPT !.vin = "v1"],
     [AnyMatch EXCEPT !.severity = {"high", "critical"}],
     [AnyMatch EXCEPT !.spn = {[lo |-> 0, hi |-> 1], [lo |-> 3, hi |-> 3]}],
     [AnyMatch EXCEPT !.fmi = {0}],
     [AnyMatch EXCEPT !.tags = "trailer" :> ""],
     [AnyMatch EXCEPT !.source_type = "tsp", !.spn = {[lo |-> 3, hi |-> 4]}]}

TwoOutputs == {"shop", "console"}
TwoLabels == {"", "urgent"}

SomeRoutes == {<<"shop">>, <<"console", "shop">>, <<"shop", "shop">>}

SomeRules ==
    {[name |-> n, match |-> m, route |-> r] :
        n \in TwoLabels, m \in SomeMatches, r \in SomeRoutes}

TwoRules ==
    {<<a, b>> : a \in {r \in SomeRules : r.name = "" /\ r.route # <<"shop", "shop">>},
                b \in {r \in SomeRules : r.name = "urgent"}}

(* The largest SPN is 3 here. *)
Names == {"fleetnorm.spn_out_of_range", "fleetnorm.mine"}

JSONBare == [event_id |-> "e", vin |-> "v1", occurred_at |-> "offset",
             severity |-> "high"]
JSONRecords ==
    {[form |-> "json", fields |-> f] :
        f \in {JSONBare,
               [spn |-> {3}, fmi |-> {0}, trailer |-> ""] @@ JSONBare,
               [spn |-> {4}, trailer |-> "t1", tags |-> "trailer" :> ""] @@ JSONBare,
               [spn |-> {0}, tags |-> "fleetnorm.spn_out_of_range" :> "true"] @@ JSONBare,
               ("fleetnorm.spn_out_of_range" :> "no") @@ [spn |-> {4}, source |-> ""] @@ JSONBare,
               [tags |-> "fleetnorm.mine" :> "true"] @@ JSONBare,
               [fmi |-> {32}] @@ JSONBare,
               [SPN |-> {3}] @@ JSONBare,
               [event_id |-> "e", VIN |-> "v1", occurred_at |-> "offset", severity |-> "high"],
               [vin |-> "v1"]}}

CSVRow == [event_id |-> "e", vin |-> "v2", occurred_at |-> "utc",
           severity |-> "info", spn |-> "", lat |-> "", lon |-> "", trailer |-> ""]
CSVRecords ==
    {[form |-> "csv", cells |-> CSVRow, parsed |-> <<>>],
     [form |-> "csv", cells |-> [CSVRow EXCEPT !.spn = "3", !.trailer = "t1"],
      parsed |-> [spn |-> {3}]],
     [form |-> "csv", cells |-> [CSVRow EXCEPT !.spn = "high"], parsed |-> <<>>],
     [form |-> "csv", cells |-> [SPN |-> "3"] @@ CSVRow, parsed |-> <<>>],
     [form |-> "csv", cells |-> [CSVRow EXCEPT !.lat = "9"], parsed |-> [lat |-> 9]],
     [form |-> "csv", cells |-> [CSVRow EXCEPT !.lat = "9", !.lon = "9"],
      parsed |-> [lat |-> 9, lon |-> 9]]}

Cases == [VIN |-> "vin", SPN |-> "spn"]

SomeFileRecords == JSONRecords \cup CSVRecords

Bare == [form |-> "geotab", id |-> "f", occurred_at |-> "utc", severity |-> "",
         lamps |-> {}, count |-> {}, diagnostic |-> {}, failure |-> {},
         device |-> {}, device_id |-> "b1"]
SPN(n) == {[code |-> {n}, kind |-> "SuspectParameter"]}

SomeFeedRecords ==
    {Bare,
     [Bare EXCEPT !.device_id = ""],
     [Bare EXCEPT !.lamps = {"red"}, !.diagnostic = SPN(3), !.failure = {0}],
     [Bare EXCEPT !.lamps = {"amber"}, !.diagnostic = SPN(4), !.count = {2}],
     [Bare EXCEPT !.diagnostic = {[code |-> {3}, kind |-> "Sid"]}, !.failure = {32}],
     [Bare EXCEPT !.diagnostic = {[code |-> {}, kind |-> "SuspectParameter"]}],
     [Bare EXCEPT !.severity = "None", !.device = {[vin |-> "v1", name |-> "7"]}],
     [Bare EXCEPT !.severity = "Grave", !.device = {[vin |-> "", name |-> "7"]}]}
=============================================================================
