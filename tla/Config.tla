------------------------------- MODULE Config -------------------------------
(***************************************************************************)
(* internal/config/config.go: a file is decoded, completed with the        *)
(* defaults, given its secrets and validated, once, at startup.            *)
(*                                                                         *)
(* An adapter, an output, a match or the store is a function of the fields *)
(* that are written; a name or a path that is written as "" is one that is *)
(* not, as the code never tells the two apart.  Durations are whole units  *)
(* of the clock, and a secret is the value of its variable in the          *)
(* environment env.                                                        *)
(***************************************************************************)
EXTENDS Event, Sequences

CONSTANTS
    DefaultPollInterval, DefaultTimeout, DefaultMaxAttempts, DefaultBuffer,
    DefaultDedupeRetention, DefaultAuditRetention, DefaultGeotabServer,
    DefaultGeotabResultsLimit, DefaultGeotabCacheRefresh,
    MaxGeotabResultsLimit, MinGeotabPollInterval

Defaults == {DefaultTimeout, DefaultMaxAttempts, DefaultBuffer, DefaultDedupeRetention,
             DefaultAuditRetention, DefaultGeotabResultsLimit, DefaultGeotabCacheRefresh}

ASSUME ConfigAssumption ==
    /\ Defaults \subseteq Nat \ {0}
    /\ MinGeotabPollInterval \in Nat \ {0}
    /\ DefaultPollInterval \in Nat /\ DefaultPollInterval >= MinGeotabPollInterval
    /\ MaxGeotabResultsLimit \in Nat /\ DefaultGeotabResultsLimit <= MaxGeotabResultsLimit
    /\ DefaultGeotabServer # ""

-----------------------------------------------------------------------------
Has(entry, field) == field \in DOMAIN entry
Get(entry, field, zero) == IF Has(entry, field) THEN entry[field] ELSE zero
Type(entry) == Get(entry, "type", "")

Each(Op(_), s) == [i \in DOMAIN s |-> Op(s[i])]
AllOf(Op(_), s) == \A i \in DOMAIN s : Op(s[i])

FileFields == {"path", "strict"}
GeotabFields == {"server", "database", "username_env", "password_env", "seed_from",
                 "results_limit", "cache_refresh"}
WebhookFields == {"url", "secret_env", "timeout", "max_attempts", "backoff"}

(* The types of the struct: the keys that an entry may have, and the numbers *)
(* and durations among their values.                                         *)
Numbers == {"poll_interval", "results_limit", "cache_refresh", "buffer", "timeout",
            "max_attempts", "dedupe_retention"}
EntryType(entry, fields) ==
    /\ DOMAIN entry \subseteq fields
    /\ \A f \in DOMAIN entry \cap Numbers : entry[f] \in Int
    /\ Has(entry, "audit_retention") => entry.audit_retention \in Int
ListType(s) == s \in Seq({s[i] : i \in DOMAIN s})

FileType(f) ==
    /\ ListType(f.adapters) /\ ListType(f.outputs) /\ ListType(f.rules)
    /\ \A i \in DOMAIN f.adapters :
          EntryType(f.adapters[i], {"type", "name", "poll_interval"} \cup FileFields \cup GeotabFields)
    /\ \A i \in DOMAIN f.outputs :
          EntryType(f.outputs[i], {"type", "name", "buffer"} \cup WebhookFields)
    /\ EntryType(f.store, {"dedupe_retention", "audit_retention"})

(* UnmarshalYAML of spn and seed_from; wellFormed stands for the syntax,    *)
(* the known keys and the types, which the decoder checks.                  *)
RangeDecodes(r) == 0 <= r.lo /\ r.lo <= r.hi
SeedDecodes(a) == Get(a, "seed_from", 0) >= 0
Decodes(file) ==
    /\ file.wellFormed
    /\ AllOf(LAMBDA r : AllOf(RangeDecodes, Get(r.match, "spn", <<>>)), file.rules)
    /\ AllOf(SeedDecodes, file.adapters)

-----------------------------------------------------------------------------
(* What the code sees of an entry: a number or a duration of 0 is not there. *)
(* strict, seed_from, fmi and audit_retention are pointers, which tell a     *)
(* zero that is written from a field that is not.                            *)
Written(entry) ==
    [f \in {g \in DOMAIN entry : g \in Numbers => entry[g] # 0} |-> entry[f]]

(* applyDefaults: what is not there takes its default. *)
NoFields == [f \in {} |-> ""]

AdapterDefaults(a) ==
    Merge(Merge(Written(a), [poll_interval |-> DefaultPollInterval]),
          CASE Type(a) = "file" -> [strict |-> TRUE]
            [] Type(a) = "geotab" -> [server |-> DefaultGeotabServer,
                                      results_limit |-> DefaultGeotabResultsLimit,
                                      cache_refresh |-> DefaultGeotabCacheRefresh]
            [] OTHER -> NoFields)

OutputDefaults(o) ==
    Merge(Merge(Written(o), [buffer |-> DefaultBuffer]),
          IF Type(o) = "webhook"
          THEN [timeout |-> DefaultTimeout, max_attempts |-> DefaultMaxAttempts,
                backoff |-> "exponential"]
          ELSE NoFields)

StoreDefaultsZero(s) ==      \* mutant: an audit_retention of zero is a missing one
    [dedupe_retention |-> Get(Written(s), "dedupe_retention", DefaultDedupeRetention),
     audit_retention |-> IF Get(s, "audit_retention", 0) = 0
                         THEN DefaultAuditRetention ELSE s.audit_retention]
StoreDefaults(s) ==
    Merge(Written(s), [dedupe_retention |-> DefaultDedupeRetention,
                       audit_retention |-> DefaultAuditRetention])

(* resolveSecrets: the field is what a variable holds, if it holds anything. *)
Resolve(entry, env, name, field) ==
    IF Has(entry, name) /\ env[entry[name]] # ""
    THEN Merge(entry, [f \in {field} |-> env[entry[name]]])
    ELSE entry

AdapterSecrets(a, env) ==
    IF Type(a) = "geotab"
    THEN Resolve(Resolve(a, env, "username_env", "username"), env, "password_env", "password")
    ELSE a

OutputSecrets(o, env) ==
    IF Type(o) = "webhook" THEN Resolve(o, env, "secret_env", "secret") ELSE o

Complete(file, env) ==
    [adapters |-> Each(LAMBDA a : AdapterSecrets(AdapterDefaults(a), env), file.adapters),
     outputs |-> Each(LAMBDA o : OutputSecrets(OutputDefaults(o), env), file.outputs),
     rules |-> file.rules,
     store |-> StoreDefaults(file.store)]

-----------------------------------------------------------------------------
(* Validate, which reports every problem: a file is valid when there is none. *)
GeotabValid(a) ==
    /\ {"database", "username", "password", "seed_from"} \subseteq DOMAIN a
    /\ a.results_limit \in 0..MaxGeotabResultsLimit
    /\ a.cache_refresh > 0
    /\ a.poll_interval >= MinGeotabPollInterval

(* A field of one type is not written under another. *)
Placed(entry, fields, type) == DOMAIN entry \cap fields # {} => Type(entry) = type

AdapterValid(a) ==
    /\ Has(a, "name")
    /\ a.poll_interval > 0
    /\ \/ Type(a) = "file" /\ Has(a, "path")
       \/ Type(a) = "geotab" /\ GeotabValid(a)
    /\ Placed(a, FileFields, "file")
    /\ Placed(a, GeotabFields, "geotab")

SignedOrNot(o) == TRUE                  \* mutant: an empty secret signs nothing
(* A secret that is asked for is there. *)
Signed(o) == Has(o, "secret_env") => Has(o, "secret")

WebhookValid(o) ==
    /\ Has(o, "url")
    /\ o.url.parses /\ o.url.scheme \in {"http", "https"} /\ o.url.host # ""
    /\ Signed(o)
    /\ o.timeout > 0
    /\ o.max_attempts >= 1
    /\ o.backoff = "exponential"

OutputValid(o) ==
    /\ Has(o, "name")
    /\ o.buffer > 0
    /\ \/ Type(o) = "stdout" /\ Placed(o, WebhookFields, "webhook")
       \/ Type(o) = "webhook" /\ WebhookValid(o)

MatchValid(match) ==
    /\ Get(match, "severity", {}) \subseteq Severities
    /\ Has(match, "source_type") => match.source_type \in SourceTypes
    /\ Has(match, "fmi") => match.fmi \in 0..31
    /\ "" \notin Get(match, "tags", {})

RuleValid(r, outputs) ==
    /\ r.route # <<>>
    /\ \A i \in DOMAIN r.route : r.route[i] \in {outputs[j].name : j \in DOMAIN outputs}
    /\ MatchValid(r.match)

NamesFree(s) == TRUE                    \* mutant: the second of a name is accepted
NamesDiffer(s) == \A i, j \in DOMAIN s : s[i].name = s[j].name => i = j

StoreValid(s) == s.dedupe_retention > 0 /\ s.audit_retention >= 0

ConfigValid(c) ==
    /\ c.adapters # <<>> /\ c.outputs # <<>> /\ c.rules # <<>>
    /\ AllOf(AdapterValid, c.adapters) /\ NamesDiffer(c.adapters)
    /\ AllOf(OutputValid, c.outputs) /\ NamesDiffer(c.outputs)
    /\ AllOf(LAMBDA r : RuleValid(r, c.outputs), c.rules)
    /\ StoreValid(c.store)

(* parse *)
Loads(file, env) == Decodes(file) /\ ConfigValid(Complete(file, env))

=============================================================================
