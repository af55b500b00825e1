-------------------------------- MODULE Intake --------------------------------
(***************************************************************************)
(* One source record on its way to its outputs: normalize of the adapter   *)
(* it comes from (internal/adapter/file/file.go, geotab/geotab.go), with   *)
(* Annotate and Validate of Event, then Route of Router.  What happens to  *)
(* pages, lookups and cursors is in FileAdapter and GeotabFeed.            *)
(*                                                                         *)
(* A JSON record is a function of the keys it has.  A CSV row has a cell   *)
(* for each column, "" when empty, and the values of the cells that parse. *)
(* A Geotab record comes with what its references resolved to, {} for      *)
(* nothing.  lamp_status, odometer_km, description and raw are left out,   *)
(* and so are the tags that a feed record's other properties become.       *)
(***************************************************************************)
EXTENDS Router, Event, TLC

CONSTANTS
    Name,        \* the name of the adapter
    Respelled,   \* Respelled[k]: the field that the key k is in other letters, as VIN is vin
    FileRecords, \* [form, fields] for JSON and [form, cells, parsed] for CSV
    FeedRecords  \* [form, id, occurred_at, severity, lamps, count,
                 \*  diagnostic, failure, device, device_id]

(* What a record refers to is one diagnostic or none. *)
ASSUME RecordsAssumption ==
    /\ \A r \in FileRecords : r.form \in {"json", "csv"}
    /\ \A r \in FeedRecords : /\ r.form = "geotab"
                             /\ \A c, d \in r.diagnostic : c = d

VARIABLE rec     \* the record taken in last

intakeVars == <<rec, vars>>

Records == FileRecords \cup FeedRecords

When(holds, key, value) == [k \in {x \in {key} : holds} |-> value]
The(S) == CHOOSE x \in S : TRUE

-----------------------------------------------------------------------------
(* The file adapter. *)

(* An event none of whose fields is set. *)
ZeroEvent ==
    [schema_version |-> "", event_id |-> "", vin |-> "", occurred_at |-> "none",
     received_at |-> "none", source |-> "", source_type |-> "", severity |-> "",
     unit_id |-> "", spn |-> {}, fmi |-> {}, occurrence_count |-> {},
     location |-> {}, tags |-> <<>>]

KnownFields == DOMAIN ZeroEvent

(* encoding/json: the keys that set a field, in any case of their letters. *)
Sets(k, f) == k = f \/ (k \in DOMAIN Respelled /\ Respelled[k] = f)

Typed == {"spn", "fmi", "occurrence_count", "lat", "lon", "location", "tags"}

Filled(r) == {k \in DOMAIN r.cells : r.cells[k] # ""}

(* csvDoc: a cell of a typed column has to parse; one of a column that only *)
(* json takes for it is a string, which no typed field takes; and lat comes *)
(* with lon: together                                                       *)
CsvReads(r) ==
    /\ Filled(r) \cap Typed \subseteq DOMAIN r.parsed
    /\ \A k \in Filled(r) \cap DOMAIN Respelled : Respelled[k] \notin Typed
    /\ "lat" \in Filled(r) <=> "lon" \in Filled(r)

(* they become the location.  An empty cell is an absent field. *)
CsvFields(r) ==
    Merge(When("lat" \in Filled(r), "location",
               {[lat |-> r.parsed.lat, lon |-> r.parsed.lon]}),
          [k \in Filled(r) \ {"lat", "lon"} |->
              IF k \in Typed THEN r.parsed[k] ELSE r.cells[k]])

Fields(r) == IF r.form = "csv" THEN CsvFields(r) ELSE r.fields

FileDefaults ==
    [schema_version |-> "0.1.0", source |-> Name, source_type |-> "file",
     received_at |-> "utc"]

Utc(t) == IF t = "none" THEN t ELSE "utc"

(* tagValue: what is no string keeps its text. *)
TagValue(r, k) ==
    IF k \in DOMAIN Respelled /\ Respelled[k] \in Typed
    THEN ToString(Fields(r)[k]) ELSE Fields(r)[k]

Extra(r) == [k \in DOMAIN Fields(r) \ KnownFields |-> TagValue(r, k)]

ExtraBeats(r, tags) == Merge(Extra(r), tags) \* mutant: it beats an explicit tag
(* An unknown field becomes a tag; an explicit tag of its name wins. *)
WithExtra(r, tags) == Merge(tags, Extra(r))

(* The keys of the record that set a field: one, or none. *)
Keys(r, f) == {k \in DOMAIN Fields(r) : Sets(k, f)}
Value(r, f) == IF Keys(r, f) = {} THEN ZeroEvent[f] ELSE Fields(r)[The(Keys(r, f))]

(* A record has a field in one spelling only: of two the last would count. *)
ASSUME SpellingAssumption ==
    /\ DOMAIN Respelled \cap KnownFields = {}
    /\ \A k \in DOMAIN Respelled : Respelled[k] \in KnownFields
    /\ \A r \in FileRecords : (r.form = "csv" => CsvReads(r)) =>
          \A f \in KnownFields : \A a, b \in Keys(r, f) : a = b

Unmarshalled(r) == [f \in KnownFields |-> Value(r, f)]

(* A field that is absent and one that is written empty are the same here. *)
WithDefaults(e) ==
    [k \in KnownFields |->
        IF k \in DOMAIN FileDefaults /\ e[k] = ZeroEvent[k] THEN FileDefaults[k] ELSE e[k]]

(* normalize, without its checks. *)
FromFile(r) ==
    Annotate([WithDefaults(Unmarshalled(r)) EXCEPT
                  !.occurred_at = Utc(@), !.received_at = Utc(@),
                  !.tags = WithExtra(r, @)])

-----------------------------------------------------------------------------
(* The geotab adapter. *)

SeverityMap == [Critical |-> "critical", Warning |-> "medium",
                None |-> "info", Unknown |-> "medium"]

LampsLower(lamps) ==                         \* mutant: no lamp is no matter
    IF "red" \in lamps THEN "critical" ELSE IF lamps = {} THEN "info" ELSE "medium"

(* Of the lamps that are on only the red one raises the default. *)
LampSeverity(lamps) == IF "red" \in lamps THEN "critical" ELSE "medium"

SeverityOf(r) ==
    IF r.severity \in DOMAIN SeverityMap THEN SeverityMap[r.severity]
    ELSE IF r.severity = "" THEN LampSeverity(r.lamps)
    ELSE "medium"

CodeOfAny(r) == UNION {d.code : d \in r.diagnostic}  \* mutant: the type is ignored
(* A code is an SPN only in a diagnostic of this one type. *)
SPNOf(r) ==
    UNION {d.code : d \in {d \in r.diagnostic : d.kind = "SuspectParameter"}}

CodeOf(r) == UNION {d.code : d \in r.diagnostic} \ SPNOf(r)

FMIOf(r) == r.failure \cap (0..31)

HasVIN(r) == \E d \in r.device : d.vin # ""

(* What the source did not say is told from what it said. *)
FeedTags(r) ==
    LET derived == r.severity = "" /\ SeverityOf(r) # "medium"
        unknown == r.severity \notin DOMAIN SeverityMap \cup {""}
    IN Merge(When(TRUE, "geotab.source_id", r.id),
       Merge(When(r.severity = "", "geotab.severity_absent", "true"),
       Merge(When(derived, "geotab.severity_derived", "lamp"),
       Merge(When(unknown, "geotab.severity_raw", r.severity),
       Merge(When(CodeOf(r) # {}, "geotab.diagnostic_code", ToString(The(CodeOf(r)))),
       Merge(When(r.failure # FMIOf(r), "geotab.failure_mode_code", ToString(The(r.failure))),
             When(~HasVIN(r) /\ r.device_id # "", "geotab.vin_fallback", "device_id")))))))

FromFeed(r) ==
    Annotate([schema_version |-> "0.1.0", event_id |-> r.id, source |-> Name,
              source_type |-> "tsp", occurred_at |-> Utc(r.occurred_at),
              received_at |-> "utc", severity |-> SeverityOf(r),
              spn |-> SPNOf(r), fmi |-> FMIOf(r), occurrence_count |-> r.count,
              vin |-> IF HasVIN(r) THEN The(r.device).vin ELSE r.device_id,
              unit_id |-> IF r.device = {} THEN "" ELSE The(r.device).name,
              location |-> {}, tags |-> FeedTags(r)])

-----------------------------------------------------------------------------
Normal(r) == IF r.form = "geotab" THEN FromFeed(r) ELSE FromFile(r)

Usable(r) ==
    /\ r.form = "csv" => CsvReads(r)
    /\ r.form = "geotab" => r.id # ""
    /\ Valid(Normal(r))

Accepted == {r \in Records : Usable(r)}

(* What a router may be asked about: the value of Events. *)
Emitted == {Normal(r) : r \in Accepted}

IntakeInit == rec \in Accepted /\ ev = Normal(rec) /\ Init

(* The next record that is not skipped. *)
Take ==
    /\ rec' \in Accepted
    /\ ev' = Normal(rec')
    /\ Call

IntakeNext ==
    \/ (Skip \/ Choose \/ NextRule) /\ UNCHANGED rec
    \/ Take

IntakeSpec == IntakeInit /\ [][IntakeNext]_intakeVars

-----------------------------------------------------------------------------
(* Properties. *)

(* The SPNs that a source itself reports as such: a field of that name, in  *)
(* any case, or the code of a diagnostic that says it is one.               *)
ReportedSPN(r) ==
    IF r.form = "geotab"
    THEN {n \in UNION {d.code : d \in r.diagnostic} :
              \A d \in r.diagnostic : d.kind = "SuspectParameter"}
    ELSE UNION {Fields(r)[k] : k \in {k \in DOMAIN Fields(r) : Sets(k, "spn")}}

(* A rule about SPNs only sends an event whose source reported one of them  *)
(* as an SPN: not one that reported nothing, nor one with a code of another *)
(* numbering scheme, nor one whose number was changed on the way.           *)
OnlyReportedSPNRoutes ==
    Returned =>
        \A k \in DOMAIN targets : \E a \in DOMAIN rules :
            /\ targets[k].rule = Label(a)
            /\ \E b \in DOMAIN rules[a].route : rules[a].route[b] = targets[k].output
            /\ rules[a].match.spn # {} =>
                  \E n \in ReportedSPN(rec) : Contains(rules[a].match.spn, n)

(* docs/schema.md: what the schema has no field for is in the tags, and an  *)
(* owner's own tag is never overwritten by it.  Only the tag that fleetnorm *)
(* puts on a number out of range takes the place of what had its name.      *)
FieldsSurvive ==
    rec.form # "geotab" =>
        \A k \in DOMAIN Fields(rec) \ (KnownFields \cup {t \in KnownTags : OutOfRange(ev)}) :
            /\ k \in DOMAIN ev.tags
            /\ ev.tags[k] = IF k \in DOMAIN Value(rec, "tags")
                            THEN Value(rec, "tags")[k] ELSE TagValue(rec, k)

(* docs/adapters.md: absence is no evidence of a minor fault: of a record   *)
(* with no severity, or one that is not known, no event is below medium,    *)
(* and one above it is told from what the source reported.                  *)
SeverityNotLowered ==
    rec.form = "geotab" /\ rec.severity \notin DOMAIN SeverityMap =>
        /\ ev.severity \in {"medium", "high", "critical"}
        /\ ev.severity # "medium" => "geotab.severity_derived" \in DOMAIN ev.tags

(* The record itself has a tag, or a field, of that name. *)
Brought(r, k) ==
    /\ r.form # "geotab"
    /\ \/ k \in DOMAIN Fields(r)
       \/ k \in DOMAIN Value(r, "tags")

(* docs/schema.md: the number out of range is kept and the tag says so, and *)
(* a tag of the reserved namespace says nothing else, unless the record     *)
(* brought it along under that very name.                                   *)
PrefixIsOurs ==
    /\ \A n \in ev.spn : n \in ReportedSPN(rec)
    /\ (\E n \in ev.spn : n > MaxSPN) => TagSPNOutOfRange \in DOMAIN ev.tags
    /\ \A k \in DOMAIN ev.tags \cap Reserved :
            \/ k = TagSPNOutOfRange /\ (\E n \in ev.spn : n > MaxSPN)
            \/ k = TagSPNOutOfRange /\ Brought(rec, k)
===============================================================================
