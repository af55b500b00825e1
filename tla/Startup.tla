------------------------------- MODULE Startup -------------------------------
(***************************************************************************)
(* cmd/fleetnorm/main.go: a configuration is loaded, the store opened and  *)
(* the adapters, the outputs and the pipeline built from it, one by one,   *)
(* with the checks that each constructor makes again; then the pipeline    *)
(* runs, and its sweeper uses the retentions of the file.  The next start  *)
(* finds the same store and may be given another file.                     *)
(***************************************************************************)
EXTENDS Config, Retention

CONSTANTS
    Files,           \* what the file may say
    Environments     \* what the environment may hold

ASSUME FilesAssumption == \A f \in Files : f.wellFormed => FileType(f)

VARIABLES
    phase,       \* what run does next
    failure,     \* why the last start ended, "none" if it did not fail
    file,        \* the file as it is written
    cfg,         \* config.Config
    sources,     \* the adapters built so far, with their intervals
    dests        \* the outputs built so far, with their queues

vars == <<phase, failure, file, cfg, sources, dests, retentionVars>>

-----------------------------------------------------------------------------
NoFile == [wellFormed |-> FALSE, adapters |-> <<>>, outputs |-> <<>>, rules |-> <<>>,
           store |-> <<>>]

StartupInit ==
    /\ phase = "down" /\ failure = "none"
    /\ file = NoFile /\ cfg = NoFile
    /\ sources = <<>> /\ dests = <<>>
    /\ RetentionInit

(* run goes on, or returns an error. *)
GoOn(next, why) ==
    /\ phase' = IF why = "none" THEN next ELSE "down"
    /\ failure' = why
    /\ UNCHANGED retentionVars

Forget(why) ==
    IF why = "none" THEN UNCHANGED <<file, cfg>> ELSE file' = NoFile /\ cfg' = NoFile

(* config.Load *)
Load ==
    /\ phase = "down"
    /\ \E f \in Files, env \in Environments :
          IF Loads(f, env)
          THEN GoOn("store", "none") /\ file' = f /\ cfg' = Complete(f, env)
          ELSE GoOn("store", "config") /\ Forget("config")
    /\ sources' = <<>> /\ dests' = <<>>

(* store.Open, of any path. *)
Open ==
    /\ phase = "store"
    /\ \E why \in {"none", "store"} : GoOn("sources", why) /\ Forget(why)
    /\ UNCHANGED <<sources, dests>>

(* file.New, geotab.New and New of pipeline, webhook.New: an error, or none. *)
FileError(a, there) ==
    CASE ~Has(a, "name") -> "source"
      [] ~there -> "path"                  \* missing, or a directory
      [] OTHER -> "none"

GeotabError(a) ==
    IF \/ ~({"name", "database", "username", "password", "seed_from"} \subseteq DOMAIN a)
       \/ a.results_limit > MaxGeotabResultsLimit
    THEN "source" ELSE "none"

WebhookError(o) ==
    IF ~Has(o, "name") \/ ~Has(o, "url") THEN "destination"
    ELSE IF o.url.parses /\ o.url.scheme \in {"http", "https"} THEN "none" ELSE "destination"

PipelineError ==
    IF \/ sources = <<>> \/ dests = <<>>
       \/ \E i, j \in DOMAIN dests : i # j /\ dests[i].name = dests[j].name
       \/ \E i \in DOMAIN dests : dests[i].buffer <= 0 \/ dests[i].max_attempts <= 0
    THEN "pipeline" ELSE "none"

(* What is built takes these fields; a limit that makes no sense is replaced. *)
Take(entry, fields) == [f \in fields |-> Get(entry, f, "")]
Positive(x, default) == IF x > 0 THEN x ELSE default

FileSource(a) == Take(a, {"type", "name", "poll_interval", "path", "strict"})
GeotabSource(a) ==
    [Take(a, {"type", "name", "poll_interval", "server", "database", "username",
              "password", "seed_from", "results_limit", "cache_refresh"})
     EXCEPT !.results_limit = Positive(@, DefaultGeotabResultsLimit)]

StdoutDest(o) == Merge(Take(o, {"type", "name", "buffer"}), [max_attempts |-> 1])
WebhookDest(o) ==
    [Take(o, {"type", "name", "buffer", "max_attempts", "url", "secret", "timeout"})
     EXCEPT !.timeout = Positive(@, DefaultTimeout)]

(* buildSources; what it has built when one fails is dropped. *)
BuildSource ==
    /\ phase = "sources"
    /\ LET a == cfg.adapters[Len(sources) + 1]
           last == Len(sources) + 1 = Len(cfg.adapters)
       IN \E there \in BOOLEAN :
            LET why == IF Type(a) = "file" THEN FileError(a, there) ELSE GeotabError(a)
            IN /\ GoOn(IF last THEN "dests" ELSE "sources", why)
               /\ Forget(why)
               /\ sources' = Append(sources, IF Type(a) = "file" THEN FileSource(a)
                                         ELSE GeotabSource(a))
    /\ UNCHANGED dests

(* buildDestinations *)
BuildDest ==
    /\ phase = "dests"
    /\ LET o == cfg.outputs[Len(dests) + 1]
           last == Len(dests) + 1 = Len(cfg.outputs)
           why == IF Type(o) = "stdout" THEN "none" ELSE WebhookError(o)
       IN /\ GoOn(IF last THEN "pipeline" ELSE "dests", why)
          /\ Forget(why)
          /\ dests' = Append(dests, IF Type(o) = "stdout" THEN StdoutDest(o) ELSE WebhookDest(o))
    /\ UNCHANGED sources

NewPipeline ==
    /\ phase = "pipeline"
    /\ GoOn("running", PipelineError)
    /\ UNCHANGED <<file, cfg, sources, dests>>

(* poll: a ticker that does not go forward panics. *)
Panics == \E i \in DOMAIN sources : sources[i].poll_interval <= 0

Running ==
    /\ phase = "running"
    /\ \/ \E e \in Events : MarkSeen(e) \/ Audit(e)
       \/ BeginSweep \/ SweepFails
       \/ SweepSeen(cfg.store.dedupe_retention)
       \/ SweepAudit(cfg.store.audit_retention)
    /\ UNCHANGED <<phase, failure, file, cfg, sources, dests>>

(* Time passes, whether it runs or not. *)
Later == Tick /\ UNCHANGED <<phase, failure, file, cfg, sources, dests>>

(* It is stopped, or killed, at any moment; the store stays. *)
Stop ==
    /\ phase # "down"
    /\ phase' = "down" /\ failure' = "none"
    /\ file' = NoFile /\ cfg' = NoFile
    /\ sources' = <<>> /\ dests' = <<>>
    /\ sweeping' = "wait" /\ began' = 0
    /\ UNCHANGED <<now, rowVars>>

StartupNext ==
    \/ Load \/ Open \/ BuildSource \/ BuildDest \/ NewPipeline
    \/ Running \/ Later \/ Stop

StartupSpec == StartupInit /\ [][StartupNext]_vars

-----------------------------------------------------------------------------
(* Properties. *)

(* config.go: a config that loads is a config that runs.  Once a file is    *)
(* accepted, only the world can end the start: the store or a path.  No     *)
(* constructor refuses what was accepted, no poller panics for it, and no   *)
(* rule leads to an output that is not there.                               *)
ConfigRuns ==
    /\ failure \in {"none", "config", "store", "path"}
    /\ phase = "running" =>
          /\ ~Panics
          /\ \A i \in DOMAIN cfg.rules : \A j \in DOMAIN cfg.rules[i].route :
                cfg.rules[i].route[j] \in {dests[k].name : k \in DOMAIN dests}

(* What is written is what runs, FALSE and an audit_retention of 0 among    *)
(* it, and every field is read by the constructor of its entry; what is not *)
(* written runs as the default of its type.  A number or a duration of 0    *)
(* counts as not written (see Written): the default takes its place without *)
(* a word, where config.go has its defaults "applied when a field is        *)
(* omitted".                                                                *)
Secrets == {"username_env", "password_env", "secret_env"}
Honoured(entry, built, defaults) ==
    /\ \A f \in DOMAIN Written(entry) \ (Secrets \cup {"backoff"}) :
          Has(built, f) /\ built[f] = entry[f]
    /\ \A f \in (DOMAIN built \cap DOMAIN defaults) \ DOMAIN Written(entry) :
          built[f] = defaults[f]

Bare(entry) == [type |-> Type(entry)]       \* an entry that says no more than its type
AdapterKept(a, source) == Honoured(a, source, AdapterDefaults(Bare(a)))
OutputKept(o, dest) == Honoured(o, dest, OutputDefaults(Bare(o)))

IntentKept ==
    phase = "running" =>
        /\ \A i \in DOMAIN file.adapters : AdapterKept(file.adapters[i], sources[i])
        /\ \A i \in DOMAIN file.outputs : OutputKept(file.outputs[i], dests[i])
        /\ Honoured(file.store, cfg.store, StoreDefaults(NoFields))

(* An output for which a secret is named signs every delivery, and an       *)
(* adapter of a feed has its credentials: a variable that is empty stops    *)
(* the start instead.                                                       *)
NeverUnsigned ==
    phase = "running" =>
        /\ \A i \in DOMAIN file.outputs :
              Has(file.outputs[i], "secret_env") => dests[i].secret # ""
        /\ \A i \in DOMAIN sources :
              sources[i].type = "geotab" => "" \notin {sources[i].username, sources[i].password}

(* What the store forgets is older than the retention of the file: an event *)
(* that comes again inside the window is never taken for a new one, and no  *)
(* evidence is deleted early, nor any when audit_retention is 0.            *)
OnlyExpired ==
    /\ \A r \in seen \ seen' : now - r.at > cfg.store.dedupe_retention
    /\ \A r \in audit \ audit' :
          cfg.store.audit_retention > 0 /\ now - r.at > cfg.store.audit_retention

(* A sweep that succeeds leaves nothing behind that was older than the      *)
(* retention by a millisecond when it began, counted from the first time    *)
(* that an id was seen.                                                     *)
Thorough ==
    /\ SweepSeen(cfg.store.dedupe_retention) =>
          \A r \in seen' : began - r.at < cfg.store.dedupe_retention + Ms
    /\ SweepAudit(cfg.store.audit_retention) /\ cfg.store.audit_retention > 0 =>
          \A r \in audit' : began - r.at < cfg.store.audit_retention + Ms

(* Only what has expired is taken, and by a sweep all of it. *)
SweepExact == [][OnlyExpired /\ Thorough]_vars
=============================================================================
