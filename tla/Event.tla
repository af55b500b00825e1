-------------------------------- MODULE Event --------------------------------
(***************************************************************************)
(* internal/event/event.go: what makes an event valid, and the tags that   *)
(* fleetnorm writes itself.  An event is a record with every field of the  *)
(* type: "" is an unset string, {} a nil pointer and {n} one to n; a time  *)
(* is "none", "utc" or "offset"; tags are a function of their keys.        *)
(***************************************************************************)
EXTENDS Integers

CONSTANTS
    MaxSPN,       \* maxSPN, the 19 bit ceiling
    Reserved      \* the tag keys with the prefix fleetnorm.

TagSPNOutOfRange == "fleetnorm.spn_out_of_range"
KnownTags == {TagSPNOutOfRange}

ASSUME EventAssumption == MaxSPN \in Nat /\ KnownTags \subseteq Reserved

Severities == {"info", "low", "medium", "high", "critical"}
SourceTypes == {"oem", "tsp", "file"}

-----------------------------------------------------------------------------
InRange(x, lo, hi) == \A n \in x : lo <= n /\ n <= hi

ReservedKept(tags) == DOMAIN tags \cap Reserved \subseteq KnownTags

(* Validate; degrees of a location are whole here. *)
Valid(e) ==
    /\ "" \notin {e.schema_version, e.event_id, e.vin, e.source}
    /\ e.occurred_at = "utc" /\ e.received_at = "utc"
    /\ e.source_type \in SourceTypes
    /\ e.severity \in Severities
    /\ \A n \in e.spn \cup e.occurrence_count : n >= 0
    /\ InRange(e.fmi, 0, 31)
    /\ InRange({l.lat : l \in e.location}, -90, 90)
    /\ InRange({l.lon : l \in e.location}, -180, 180)
    /\ ReservedKept(e.tags)

(* Both functions; where they differ it is the first that counts. *)
Merge(f, g) ==
    [k \in DOMAIN f \cup DOMAIN g |-> IF k \in DOMAIN f THEN f[k] ELSE g[k]]

OutOfRangeFrom(e) == \E n \in e.spn : n >= MaxSPN     \* mutant: off by one
OutOfRange(e) == \E n \in e.spn : n > MaxSPN

(* Annotate tags the number and never clamps it. *)
Annotate(e) ==
    IF OutOfRange(e)
    THEN [e EXCEPT !.tags = Merge([k \in KnownTags |-> "true"], @)]
    ELSE e

===============================================================================
