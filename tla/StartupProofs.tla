---------------------------- MODULE StartupProofs ----------------------------
(***************************************************************************)
(* A config that loads is a config that runs, for every file of the right  *)
(* types and every environment, and the sweeper deletes what the retention *)
(* of the file says, for every clock.                                      *)
(***************************************************************************)
EXTENDS Startup, TLAPS

-----------------------------------------------------------------------------
(* Lists, and functions that have the domain of one. *)
LEMMA ListDomain ==
    ASSUME NEW s, ListType(s)
    PROVE  Len(s) \in Nat /\ DOMAIN s = 1..Len(s)
  BY DEF ListType

LEMMA MapList ==
    ASSUME NEW s, ListType(s), NEW t, t = [i \in DOMAIN s |-> t[i]]
    PROVE  Len(t) = Len(s) /\ DOMAIN t = 1..Len(s) /\ Len(s) \in Nat
<1>1. Len(s) \in Nat /\ DOMAIN s = 1..Len(s)
  BY ListDomain
<1>2. t = [i \in 1..Len(s) |-> t[i]]
  BY <1>1
<1>3. t \in Seq({t[i] : i \in 1..Len(s)})
  BY <1>1, <1>2
<1>4. DOMAIN t = 1..Len(s)
  BY <1>2
<1>5. DOMAIN t = 1..Len(t) /\ Len(t) \in Nat
  BY <1>3
<1> QED
  BY <1>1, <1>4, <1>5

LEMMA AppendList ==
    ASSUME NEW s, ListType(s), NEW x
    PROVE  /\ ListType(Append(s, x)) /\ Len(Append(s, x)) = Len(s) + 1
           /\ DOMAIN Append(s, x) = 1..(Len(s) + 1)
           /\ \A i \in 1..Len(s) : Append(s, x)[i] = s[i]
           /\ Append(s, x)[Len(s) + 1] = x
<1> DEFINE S == {s[i] : i \in DOMAIN s}
           t == Append(s, x)
<1>1. s \in Seq(S \cup {x}) /\ x \in S \cup {x}
  <2>1. s \in Seq(S)
    BY DEF ListType
  <2> QED
    BY <2>1
<1>2. /\ t \in Seq(S \cup {x}) /\ Len(t) = Len(s) + 1 /\ Len(s) \in Nat
      /\ \A i \in 1..Len(s) : t[i] = s[i]
      /\ t[Len(s) + 1] = x
  BY <1>1
<1> HIDE DEF t
<1>3. DOMAIN t = 1..(Len(s) + 1)
  BY <1>2
<1>4. t \in Seq({t[i] : i \in DOMAIN t})
  <2>1. t = [i \in 1..(Len(s) + 1) |-> t[i]]
    BY <1>2, <1>3
  <2> QED
    BY <1>2, <1>3, <2>1
<1> QED
  BY <1>2, <1>3, <1>4 DEF t, ListType

LEMMA NoList == ListType(<<>>) /\ Len(<<>>) = 0 /\ DOMAIN <<>> = {}
  BY DEF ListType

-----------------------------------------------------------------------------
(* Defaults and secrets leave alone what is written. *)
LEMMA ResolveKeeps ==
    ASSUME NEW e, NEW env, NEW name, NEW field
    PROVE  /\ DOMAIN e \subseteq DOMAIN Resolve(e, env, name, field)
           /\ DOMAIN Resolve(e, env, name, field) \subseteq DOMAIN e \cup {field}
           /\ \A f \in DOMAIN e : Resolve(e, env, name, field)[f] = e[f]
           /\ field \notin DOMAIN e /\ field \in DOMAIN Resolve(e, env, name, field) =>
                 Resolve(e, env, name, field)[field] # ""
<1>1. CASE Has(e, name) /\ env[e[name]] # ""
  <2> DEFINE d == [f \in {field} |-> env[e[name]]]
             r == Resolve(e, env, name, field)
  <2>1. r = Merge(e, d)
    BY <1>1 DEF Resolve
  <2>2. DOMAIN d = {field} /\ d[field] # ""
    BY <1>1
  <2> HIDE DEF d, r
  <2>3. /\ DOMAIN r = DOMAIN e \cup {field}
        /\ \A f \in DOMAIN e : r[f] = e[f]
        /\ field \notin DOMAIN e => r[field] = d[field]
    BY <2>1, <2>2 DEF Merge, Has
  <2> QED
    BY <2>2, <2>3 DEF r
<1>2. CASE ~(Has(e, name) /\ env[e[name]] # "")
  BY <1>2 DEF Resolve
<1> QED
  BY <1>1, <1>2

LEMMA NoFieldsDomain == DOMAIN NoFields = {}
  BY DEF NoFields

(* What the code sees of an entry: its fields, but for the numbers that are 0. *)
LEMMA WrittenFields ==
    ASSUME NEW keys, NEW e, EntryType(e, keys), NEW w, w = Written(e)
    PROVE  /\ DOMAIN w \subseteq DOMAIN e /\ DOMAIN e \ Numbers \subseteq DOMAIN w
           /\ \A f \in DOMAIN w : w[f] = e[f]
           /\ \A f \in DOMAIN w \cap Numbers : w[f] \in Int \ {0}
           /\ EntryType(w, keys) /\ Type(w) = Type(e)
<1>1. /\ DOMAIN w = {g \in DOMAIN e : g \in Numbers => e[g] # 0}
      /\ \A f \in DOMAIN w : w[f] = e[f]
  BY DEF Written
<1>2. "type" \notin Numbers /\ "audit_retention" \notin Numbers
  BY DEF Numbers
<1>3. DOMAIN e \subseteq keys /\ \A f \in DOMAIN e \cap Numbers : e[f] \in Int
  BY DEF EntryType
<1>4. Has(w, "audit_retention") => w.audit_retention \in Int
  <2>1. Has(e, "audit_retention") => e["audit_retention"] \in Int
    BY DEF EntryType
  <2> QED
    BY <1>1, <2>1 DEF Has
<1>5. EntryType(w, keys)
  BY <1>1, <1>3, <1>4 DEF EntryType
<1>6. Type(w) = Type(e)
  BY <1>1, <1>2 DEF Type, Get, Has
<1> QED
  BY <1>1, <1>3, <1>5, <1>6

LEMMA BareFields ==
    ASSUME NEW e
    PROVE  /\ Type(Bare(e)) = Type(e)
           /\ DOMAIN Written(Bare(e)) = {"type"}
  BY DEF Bare, Written, Numbers, Type, Get, Has

(* A secret that was resolved is not empty. *)
Filled(entry, field) == Has(entry, field) => entry[field] # ""

(* The entry of an adapter once it has its defaults and its secrets. *)
AdapterKeys == {"type", "name", "poll_interval"} \cup FileFields \cup GeotabFields
Completed(e, env) == AdapterSecrets(AdapterDefaults(e), env)

LEMMA AdapterDefaulted ==
    ASSUME NEW e, EntryType(e, AdapterKeys), NEW w, w = Written(e),
           NEW d, d = AdapterDefaults(e), NEW b, b = AdapterDefaults(Bare(e))
    PROVE  /\ DOMAIN w \subseteq DOMAIN d /\ DOMAIN d \subseteq AdapterKeys
           /\ \A f \in DOMAIN w : d[f] = w[f]
           /\ \A f \in DOMAIN b \ (DOMAIN w \cup {"type"}) : f \in DOMAIN d /\ d[f] = b[f]
           /\ "poll_interval" \in DOMAIN d /\ d["poll_interval"] \in Int
           /\ "results_limit" \in DOMAIN d => d["results_limit"] # 0
           /\ Type(d) = Type(e)
<1> DEFINE p == [poll_interval |-> DefaultPollInterval]
           rest == CASE Type(e) = "file" -> [strict |-> TRUE]
                     [] Type(e) = "geotab" -> [server |-> DefaultGeotabServer,
                                               results_limit |-> DefaultGeotabResultsLimit,
                                               cache_refresh |-> DefaultGeotabCacheRefresh]
                     [] OTHER -> NoFields
           m == Merge(w, p)
           u == Written(Bare(e))
           n == Merge(u, p)
<1>0. /\ EntryType(w, AdapterKeys) /\ Type(w) = Type(e)
      /\ \A f \in DOMAIN w \cap Numbers : w[f] \in Int \ {0}
  BY WrittenFields
<1>1. d = Merge(m, rest)
  BY DEF AdapterDefaults
<1>2. b = Merge(n, rest) /\ DOMAIN u = {"type"}
  BY BareFields DEF AdapterDefaults
<1>3. DOMAIN p = {"poll_interval"} /\ p["poll_interval"] \in Int
  <2>1. DefaultPollInterval \in Nat
    BY ConfigAssumption
  <2> QED
    BY <2>1
<1>4. /\ DOMAIN rest \subseteq {"strict", "server", "results_limit", "cache_refresh"}
      /\ "results_limit" \in DOMAIN rest => rest["results_limit"] # 0
  <2>1. CASE Type(e) = "file"
    BY <2>1
  <2>2. CASE Type(e) = "geotab"
    <3>1. DefaultGeotabResultsLimit # 0
      BY ConfigAssumption DEF Defaults
    <3> QED
      BY <2>2, <3>1
  <2>3. CASE Type(e) \notin {"file", "geotab"}
    BY <2>3, NoFieldsDomain
  <2> QED
    BY <2>1, <2>2, <2>3
<1> HIDE DEF p, rest, u
<1>5. /\ DOMAIN m = DOMAIN w \cup {"poll_interval"}
      /\ \A f \in DOMAIN w : m[f] = w[f]
      /\ "poll_interval" \notin DOMAIN w => m["poll_interval"] = p["poll_interval"]
  BY <1>3 DEF Merge, Has
<1>6. DOMAIN n = {"type", "poll_interval"} /\ n["poll_interval"] = p["poll_interval"]
  BY <1>2, <1>3 DEF Merge, Has
<1> HIDE DEF m, n
<1>7. /\ DOMAIN d = DOMAIN m \cup DOMAIN rest
      /\ \A f \in DOMAIN m : d[f] = m[f]
      /\ \A f \in DOMAIN rest : f \notin DOMAIN m => d[f] = rest[f]
  BY <1>1 DEF Merge, Has
<1>8. /\ DOMAIN b = DOMAIN n \cup DOMAIN rest
      /\ \A f \in DOMAIN n : b[f] = n[f]
      /\ \A f \in DOMAIN rest : f \notin DOMAIN n => b[f] = rest[f]
  BY <1>2 DEF Merge, Has
<1>9. \A f \in DOMAIN b \ (DOMAIN w \cup {"type"}) : f \in DOMAIN d /\ d[f] = b[f]
  <2> SUFFICES ASSUME NEW f \in DOMAIN b, f \notin DOMAIN w, f # "type"
               PROVE  f \in DOMAIN d /\ d[f] = b[f]
    OBVIOUS
  <2>1. CASE f = "poll_interval"
    BY <1>5, <1>6, <1>7, <1>8, <2>1
  <2>2. CASE f # "poll_interval"
    BY <1>5, <1>6, <1>7, <1>8, <2>2
  <2> QED
    BY <2>1, <2>2
<1>10. d["poll_interval"] \in Int /\ "poll_interval" \in DOMAIN d
  <2>1. "poll_interval" \in DOMAIN w => w["poll_interval"] \in Int
    BY <1>0 DEF Numbers
  <2> QED
    BY <1>3, <1>5, <1>7, <2>1
<1>11. "results_limit" \in DOMAIN d => d["results_limit"] # 0
  <2>1. "results_limit" \in DOMAIN w => w["results_limit"] # 0
    BY <1>0 DEF Numbers
  <2> QED
    BY <1>4, <1>5, <1>7, <2>1
<1>12. DOMAIN d \subseteq AdapterKeys
  BY <1>0, <1>4, <1>5, <1>7 DEF EntryType, AdapterKeys, FileFields, GeotabFields
<1>13. Type(d) = Type(e)
  <2>1. /\ "type" \in DOMAIN d <=> "type" \in DOMAIN w
        /\ "type" \in DOMAIN w => d["type"] = w["type"]
    BY <1>4, <1>5, <1>7
  <2> QED
    BY <1>0, <2>1 DEF Type, Get, Has
<1> QED
  BY <1>5, <1>7, <1>9, <1>10, <1>11, <1>12, <1>13

LEMMA AdapterCompleted ==
    ASSUME NEW e, NEW env, EntryType(e, AdapterKeys), NEW v, v = Written(e),
           NEW b, b = AdapterDefaults(Bare(e))
    PROVE  /\ DOMAIN v \subseteq DOMAIN Completed(e, env)
           /\ DOMAIN Completed(e, env) \subseteq AdapterKeys \cup {"username", "password"}
           /\ \A f \in DOMAIN v : Completed(e, env)[f] = v[f]
           /\ \A f \in DOMAIN b \ (DOMAIN v \cup {"type"}) :
                 f \in DOMAIN Completed(e, env) /\ Completed(e, env)[f] = b[f]
           /\ Has(Completed(e, env), "results_limit") => Completed(e, env)["results_limit"] # 0
           /\ Has(Completed(e, env), "poll_interval")
           /\ Completed(e, env)["poll_interval"] \in Int
           /\ Type(Completed(e, env)) = Type(e)
           /\ Filled(Completed(e, env), "username") /\ Filled(Completed(e, env), "password")
<1> DEFINE d == AdapterDefaults(e)
           u == Resolve(d, env, "username_env", "username")
           w == Resolve(u, env, "password_env", "password")
<1>0. "username" \notin AdapterKeys /\ "password" \notin AdapterKeys
  BY DEF AdapterKeys, FileFields, GeotabFields
<1>1. /\ DOMAIN v \subseteq DOMAIN d /\ DOMAIN d \subseteq AdapterKeys
      /\ \A f \in DOMAIN v : d[f] = v[f]
      /\ \A f \in DOMAIN b \ (DOMAIN v \cup {"type"}) : f \in DOMAIN d /\ d[f] = b[f]
      /\ "poll_interval" \in DOMAIN d /\ d["poll_interval"] \in Int /\ Type(d) = Type(e)
      /\ "results_limit" \in DOMAIN d => d["results_limit"] # 0
  BY AdapterDefaulted
<1>2. Completed(e, env) = IF Type(d) = "geotab" THEN w ELSE d
  BY DEF Completed, AdapterSecrets
<1> HIDE DEF d
<1>3. /\ DOMAIN d \subseteq DOMAIN u /\ DOMAIN u \subseteq DOMAIN d \cup {"username"}
      /\ \A f \in DOMAIN d : u[f] = d[f]
      /\ "username" \notin DOMAIN d /\ "username" \in DOMAIN u => u["username"] # ""
  <2>1. CASE Has(d, "username_env") /\ env[d["username_env"]] # ""
    BY <2>1 DEF u, Resolve, Merge, Has
  <2>2. CASE ~(Has(d, "username_env") /\ env[d["username_env"]] # "")
    BY <2>2 DEF u, Resolve
  <2> QED
    BY <2>1, <2>2
<1> HIDE DEF u
<1>4. /\ DOMAIN u \subseteq DOMAIN w /\ DOMAIN w \subseteq DOMAIN u \cup {"password"}
      /\ \A f \in DOMAIN u : w[f] = u[f]
      /\ "password" \notin DOMAIN u /\ "password" \in DOMAIN w => w["password"] # ""
  <2>1. CASE Has(u, "password_env") /\ env[u["password_env"]] # ""
    BY <2>1 DEF w, Resolve, Merge, Has
  <2>2. CASE ~(Has(u, "password_env") /\ env[u["password_env"]] # "")
    BY <2>2 DEF w, Resolve
  <2> QED
    BY <2>1, <2>2
<1> HIDE DEF w
<1>5. CASE Type(d) = "geotab"
  <2>1. Completed(e, env) = w
    BY <1>2, <1>5
  <2>2. /\ DOMAIN d \subseteq DOMAIN w
        /\ DOMAIN w \subseteq AdapterKeys \cup {"username", "password"}
        /\ \A f \in DOMAIN d : w[f] = d[f]
        /\ "results_limit" \in DOMAIN w => "results_limit" \in DOMAIN d
    BY <1>1, <1>3, <1>4
  <2>3. "type" \in DOMAIN w <=> "type" \in DOMAIN d
    BY <1>3, <1>4
  <2>4. Type(w) = Type(d)
    BY <2>2, <2>3 DEF Type, Get, Has
  <2>5. /\ "username" \in DOMAIN w => w["username"] # ""
        /\ "password" \in DOMAIN w => w["password"] # ""
    <3>1. "username" \notin DOMAIN d /\ "password" \notin DOMAIN d
      BY <1>0, <1>1
    <3>2. "password" \notin DOMAIN u
      BY <1>3, <3>1
    <3>3. "username" \in DOMAIN w => "username" \in DOMAIN u
      BY <1>4
    <3> QED
      BY <1>3, <1>4, <3>1, <3>2, <3>3
  <2> QED
    BY <1>1, <2>1, <2>2, <2>4, <2>5 DEF Has, Filled
<1>6. CASE Type(d) # "geotab"
  BY <1>0, <1>1, <1>2, <1>6 DEF Has, Filled
<1> QED
  BY <1>5, <1>6

(* The entry of an output, in the same way. *)
OutputKeys == {"type", "name", "buffer"} \cup WebhookFields
CompletedOutput(e, env) == OutputSecrets(OutputDefaults(e), env)

LEMMA PositiveDefaults ==
    /\ DefaultBuffer \in Int /\ DefaultTimeout \in Int /\ DefaultMaxAttempts \in Int
    /\ DefaultDedupeRetention \in Int /\ DefaultAuditRetention \in Int
<1>1. Defaults \subseteq Nat \ {0}
  BY ConfigAssumption
<1> QED
  BY <1>1 DEF Defaults

LEMMA OutputDefaulted ==
    ASSUME NEW e, EntryType(e, OutputKeys), NEW w, w = Written(e),
           NEW o, o = OutputDefaults(e), NEW b, b = OutputDefaults(Bare(e))
    PROVE  /\ DOMAIN w \subseteq DOMAIN o /\ DOMAIN o \subseteq OutputKeys
           /\ \A f \in DOMAIN w : o[f] = w[f]
           /\ \A f \in DOMAIN b \ (DOMAIN w \cup {"type"}) : f \in DOMAIN o /\ o[f] = b[f]
           /\ "buffer" \in DOMAIN o /\ o["buffer"] \in Int
           /\ \A f \in {"timeout", "max_attempts"} \cap DOMAIN o : o[f] \in Int
           /\ "type" \in DOMAIN o <=> "type" \in DOMAIN w
           /\ Type(e) = "webhook" => "max_attempts" \in DOMAIN o
<1> DEFINE p == [buffer |-> DefaultBuffer]
           rest == IF Type(e) = "webhook"
                   THEN [timeout |-> DefaultTimeout, max_attempts |-> DefaultMaxAttempts,
                         backoff |-> "exponential"]
                   ELSE NoFields
           m == Merge(w, p)
           u == Written(Bare(e))
           n == Merge(u, p)
<1>0. /\ EntryType(w, OutputKeys) /\ Type(w) = Type(e)
      /\ \A f \in DOMAIN w \cap Numbers : w[f] \in Int
  BY WrittenFields
<1>1. o = Merge(m, rest)
  BY DEF OutputDefaults
<1>2. b = Merge(n, rest) /\ DOMAIN u = {"type"}
  BY BareFields DEF OutputDefaults
<1>3. DOMAIN p = {"buffer"} /\ p["buffer"] \in Int
  BY PositiveDefaults
<1>4. /\ DOMAIN rest \subseteq {"timeout", "max_attempts", "backoff"}
      /\ \A f \in {"timeout", "max_attempts"} \cap DOMAIN rest : rest[f] \in Int
      /\ Type(e) = "webhook" => "max_attempts" \in DOMAIN rest
  <2>1. CASE Type(e) = "webhook"
    BY <2>1, PositiveDefaults
  <2>2. CASE Type(e) # "webhook"
    BY <2>2, NoFieldsDomain
  <2> QED
    BY <2>1, <2>2
<1> HIDE DEF p, rest, u
<1>5. /\ DOMAIN m = DOMAIN w \cup {"buffer"}
      /\ \A f \in DOMAIN w : m[f] = w[f]
      /\ "buffer" \notin DOMAIN w => m["buffer"] = p["buffer"]
  BY <1>3 DEF Merge, Has
<1>6. DOMAIN n = {"type", "buffer"} /\ n["buffer"] = p["buffer"]
  BY <1>2, <1>3 DEF Merge, Has
<1> HIDE DEF m, n
<1>7. /\ DOMAIN o = DOMAIN m \cup DOMAIN rest
      /\ \A f \in DOMAIN m : o[f] = m[f]
      /\ \A f \in DOMAIN rest : f \notin DOMAIN m => o[f] = rest[f]
  BY <1>1 DEF Merge, Has
<1>8. /\ DOMAIN b = DOMAIN n \cup DOMAIN rest
      /\ \A f \in DOMAIN n : b[f] = n[f]
      /\ \A f \in DOMAIN rest : f \notin DOMAIN n => b[f] = rest[f]
  BY <1>2 DEF Merge, Has
<1>9. \A f \in DOMAIN b \ (DOMAIN w \cup {"type"}) : f \in DOMAIN o /\ o[f] = b[f]
  <2> SUFFICES ASSUME NEW f \in DOMAIN b, f \notin DOMAIN w, f # "type"
               PROVE  f \in DOMAIN o /\ o[f] = b[f]
    OBVIOUS
  <2>1. CASE f = "buffer"
    BY <1>5, <1>6, <1>7, <1>8, <2>1
  <2>2. CASE f # "buffer"
    BY <1>5, <1>6, <1>7, <1>8, <2>2
  <2> QED
    BY <2>1, <2>2
<1>10. \A f \in DOMAIN w \cap {"buffer", "timeout", "max_attempts"} : w[f] \in Int
  BY <1>0 DEF Numbers
<1>11. "buffer" \in DOMAIN o /\ o["buffer"] \in Int
  BY <1>3, <1>5, <1>7, <1>10
<1>12. \A f \in {"timeout", "max_attempts"} \cap DOMAIN o : o[f] \in Int
  BY <1>4, <1>5, <1>7, <1>10
<1>13. DOMAIN o \subseteq OutputKeys
  BY <1>0, <1>4, <1>5, <1>7 DEF EntryType, OutputKeys, WebhookFields
<1>14. "type" \in DOMAIN o <=> "type" \in DOMAIN w
  BY <1>4, <1>5, <1>7
<1>15. Type(e) = "webhook" => "max_attempts" \in DOMAIN o
  BY <1>4, <1>7
<1>16. DOMAIN w \subseteq DOMAIN o /\ \A f \in DOMAIN w : o[f] = w[f]
  BY <1>5, <1>7
<1> QED
  BY <1>9, <1>11, <1>12, <1>13, <1>14, <1>15, <1>16

LEMMA OutputCompleted ==
    ASSUME NEW e, NEW env, EntryType(e, OutputKeys), NEW w, w = Written(e),
           NEW b, b = OutputDefaults(Bare(e))
    PROVE  /\ DOMAIN w \subseteq DOMAIN CompletedOutput(e, env)
           /\ DOMAIN CompletedOutput(e, env) \subseteq OutputKeys \cup {"secret"}
           /\ \A f \in DOMAIN w : CompletedOutput(e, env)[f] = w[f]
           /\ \A f \in DOMAIN b \ (DOMAIN w \cup {"type"}) :
                 f \in DOMAIN CompletedOutput(e, env) /\ CompletedOutput(e, env)[f] = b[f]
           /\ Has(CompletedOutput(e, env), "buffer")
           /\ CompletedOutput(e, env)["buffer"] \in Int
           /\ \A f \in {"timeout", "max_attempts"} \cap DOMAIN CompletedOutput(e, env) :
                 CompletedOutput(e, env)[f] \in Int
           /\ Type(CompletedOutput(e, env)) = Type(e)
           /\ Type(e) = "webhook" => Has(CompletedOutput(e, env), "max_attempts")
           /\ Filled(CompletedOutput(e, env), "secret")
<1> DEFINE d == OutputDefaults(e)
           s == Resolve(d, env, "secret_env", "secret")
           c == CompletedOutput(e, env)
<1>0. "secret" \notin OutputKeys /\ {"type", "buffer", "timeout", "max_attempts"} \subseteq OutputKeys
  BY DEF OutputKeys, WebhookFields
<1>1. /\ DOMAIN w \subseteq DOMAIN d /\ DOMAIN d \subseteq OutputKeys
      /\ \A f \in DOMAIN w : d[f] = w[f]
      /\ \A f \in DOMAIN b \ (DOMAIN w \cup {"type"}) : f \in DOMAIN d /\ d[f] = b[f]
      /\ "buffer" \in DOMAIN d /\ d["buffer"] \in Int
      /\ \A f \in {"timeout", "max_attempts"} \cap DOMAIN d : d[f] \in Int
      /\ "type" \in DOMAIN d <=> "type" \in DOMAIN w
      /\ Type(e) = "webhook" => "max_attempts" \in DOMAIN d
  BY OutputDefaulted
<1>2. c = IF Type(d) = "webhook" THEN s ELSE d
  BY DEF CompletedOutput, OutputSecrets
<1> HIDE DEF d
<1>3. /\ DOMAIN d \subseteq DOMAIN s /\ DOMAIN s \subseteq DOMAIN d \cup {"secret"}
      /\ \A f \in DOMAIN d : s[f] = d[f]
      /\ "secret" \notin DOMAIN d /\ "secret" \in DOMAIN s => s["secret"] # ""
  <2>1. CASE Has(d, "secret_env") /\ env[d["secret_env"]] # ""
    BY <2>1 DEF s, Resolve, Merge, Has
  <2>2. CASE ~(Has(d, "secret_env") /\ env[d["secret_env"]] # "")
    BY <2>2 DEF s, Resolve
  <2> QED
    BY <2>1, <2>2
<1> HIDE DEF s, c
<1>4. /\ DOMAIN d \subseteq DOMAIN c /\ DOMAIN c \subseteq DOMAIN d \cup {"secret"}
      /\ \A f \in DOMAIN d : c[f] = d[f]
      /\ "secret" \notin DOMAIN d /\ "secret" \in DOMAIN c => c["secret"] # ""
  BY <1>2, <1>3
<1>5. /\ DOMAIN w \subseteq DOMAIN c /\ \A f \in DOMAIN w : c[f] = w[f]
      /\ \A f \in DOMAIN b \ (DOMAIN w \cup {"type"}) : f \in DOMAIN c /\ c[f] = b[f]
  BY <1>1, <1>4
<1>6. DOMAIN c \subseteq OutputKeys \cup {"secret"}
  BY <1>1, <1>4
<1>7. "buffer" \in DOMAIN c /\ c["buffer"] \in Int
  BY <1>1, <1>4
<1>8. \A f \in {"timeout", "max_attempts"} \cap DOMAIN c : c[f] \in Int
  BY <1>1, <1>4
<1>9. "secret" \in DOMAIN c => c["secret"] # ""
  BY <1>0, <1>1, <1>4
<1>10. "type" \in DOMAIN c <=> "type" \in DOMAIN w
  BY <1>1, <1>4
<1>11. Type(c) = Type(e)
  <2>1. Type(c) = Type(w)
    BY <1>5, <1>10 DEF Type, Get, Has
  <2> QED
    BY <2>1, WrittenFields
<1>12. Type(e) = "webhook" => "max_attempts" \in DOMAIN c
  BY <1>1, <1>4
<1> QED
  BY <1>5, <1>6, <1>7, <1>8, <1>9, <1>11, <1>12 DEF c, Has, Filled

-----------------------------------------------------------------------------
(* What Validate accepts, the constructors accept; what they build has the  *)
(* values of the entry.                                                     *)
SourceOf(a) == IF Type(a) = "file" THEN FileSource(a) ELSE GeotabSource(a)
DestOf(o) == IF Type(o) = "stdout" THEN StdoutDest(o) ELSE WebhookDest(o)

LEMMA AdapterRuns ==
    ASSUME NEW a, AdapterValid(a), a.poll_interval \in Int, Has(a, "poll_interval")
    PROVE  /\ Type(a) = "file" => \A there \in BOOLEAN : FileError(a, there) \in {"none", "path"}
           /\ Type(a) # "file" => GeotabError(a) = "none"
           /\ ~(SourceOf(a).poll_interval <= 0)
<1>1. Has(a, "name") /\ (Type(a) = "file" \/ (Type(a) = "geotab" /\ GeotabValid(a)))
  BY DEF AdapterValid
<1>2. ASSUME NEW there \in BOOLEAN PROVE FileError(a, there) \in {"none", "path"}
  <2>1. CASE there
    BY <1>1, <2>1 DEF FileError
  <2>2. CASE ~there
    BY <1>1, <2>2 DEF FileError
  <2> QED
    BY <2>1, <2>2
<1>3. ASSUME Type(a) # "file" PROVE GeotabError(a) = "none"
  <2>1. GeotabValid(a)
    BY <1>1, <1>3
  <2>2. {"name", "database", "username", "password", "seed_from"} \subseteq DOMAIN a
    BY <1>1, <2>1 DEF GeotabValid, Has
  <2>3. ~(a.results_limit > MaxGeotabResultsLimit)
    <3>1. MaxGeotabResultsLimit \in Nat
      BY ConfigAssumption
    <3> QED
      BY <2>1, <3>1 DEF GeotabValid
  <2> QED
    BY <2>2, <2>3 DEF GeotabError
<1>4. SourceOf(a).poll_interval = a.poll_interval
  BY DEF SourceOf, FileSource, GeotabSource, Take, Get, Has
<1>5. a.poll_interval > 0
  BY DEF AdapterValid
<1> QED
  BY <1>2, <1>3, <1>4, <1>5

LEMMA OutputRuns ==
    ASSUME NEW o, OutputValid(o), Has(o, "buffer"), o["buffer"] \in Int,
           \A f \in {"timeout", "max_attempts"} \cap DOMAIN o : o[f] \in Int,
           Type(o) = "webhook" => Has(o, "max_attempts")
    PROVE  /\ Type(o) # "stdout" => WebhookError(o) = "none"
           /\ DestOf(o).name = o.name
           /\ ~(DestOf(o).buffer <= 0)
           /\ ~(DestOf(o).max_attempts <= 0)
<1>1. Has(o, "name") /\ o.buffer > 0 /\ (Type(o) = "stdout" \/ (Type(o) = "webhook" /\ WebhookValid(o)))
  BY DEF OutputValid
<1>2. ASSUME Type(o) # "stdout" PROVE WebhookError(o) = "none"
  BY <1>1, <1>2 DEF WebhookError, WebhookValid
<1>3. CASE Type(o) = "stdout"
  <2> DEFINE t == Take(o, {"type", "name", "buffer"})
             d == StdoutDest(o)
  <2>1. DOMAIN t = {"type", "name", "buffer"} /\ t["name"] = o["name"] /\ t["buffer"] = o["buffer"]
    BY <1>1 DEF Take, Get, Has
  <2>2. d = Merge(t, [max_attempts |-> 1])
    BY DEF StdoutDest
  <2> HIDE DEF t, d
  <2>3. d["name"] = o["name"] /\ d["buffer"] = o["buffer"] /\ d["max_attempts"] = 1
    BY <2>1, <2>2 DEF Merge, Has
  <2>4. DestOf(o) = d
    BY <1>3 DEF DestOf, d
  <2> QED
    BY <1>1, <1>2, <2>3, <2>4
<1>4. CASE Type(o) = "webhook" /\ WebhookValid(o)
  <2>1. DestOf(o) = WebhookDest(o)
    BY <1>4 DEF DestOf
  <2>2. /\ WebhookDest(o).name = o.name /\ WebhookDest(o).buffer = o.buffer
        /\ WebhookDest(o).max_attempts = o.max_attempts
    BY <1>1, <1>4 DEF WebhookDest, Take, Get, Has
  <2>3. o.max_attempts >= 1 /\ o["max_attempts"] \in Int
    BY <1>4 DEF WebhookValid, Has
  <2> QED
    BY <1>1, <1>2, <2>1, <2>2, <2>3
<1> QED
  BY <1>1, <1>3, <1>4

LEMMA AdapterHonoured ==
    ASSUME NEW e, NEW env, EntryType(e, AdapterKeys), NEW a, a = Completed(e, env),
           AdapterValid(a)
    PROVE  /\ AdapterKept(e, SourceOf(a))
           /\ SourceOf(a).type = "geotab" =>
                 "" \notin {SourceOf(a).username, SourceOf(a).password}
<1>0. PICK w, b : w = Written(e) /\ b = AdapterDefaults(Bare(e))
  OBVIOUS
<1>1. /\ DOMAIN w \subseteq DOMAIN a
      /\ \A f \in DOMAIN w : a[f] = w[f]
      /\ \A f \in DOMAIN b \ (DOMAIN w \cup {"type"}) : f \in DOMAIN a /\ a[f] = b[f]
      /\ "results_limit" \in DOMAIN a => a["results_limit"] # 0
      /\ Filled(a, "username") /\ Filled(a, "password")
      /\ Type(a) = Type(e)
  <2> DEFINE c == Completed(e, env)
  <2>1. /\ DOMAIN w \subseteq DOMAIN c
        /\ \A f \in DOMAIN w : c[f] = w[f]
        /\ \A f \in DOMAIN b \ (DOMAIN w \cup {"type"}) : f \in DOMAIN c /\ c[f] = b[f]
        /\ Has(c, "results_limit") => c["results_limit"] # 0
        /\ Filled(c, "username") /\ Filled(c, "password")
        /\ Type(c) = Type(e)
    BY <1>0, AdapterCompleted
  <2> QED
    BY <2>1 DEF Has
<1>2. /\ DOMAIN w \subseteq AdapterKeys
      /\ \A f \in DOMAIN w : w[f] = e[f]
      /\ Type(w) = Type(e)
  BY <1>0, WrittenFields DEF EntryType
<1>3. /\ Type(a) = "file" \/ (Type(a) = "geotab" /\ GeotabValid(a))
      /\ DOMAIN a \cap FileFields # {} => Type(a) = "file"
      /\ DOMAIN a \cap GeotabFields # {} => Type(a) = "geotab"
  BY DEF AdapterValid, Placed
<1>4. "type" \in DOMAIN w
  BY <1>1, <1>2, <1>3 DEF Type, Get, Has
<1>5. ASSUME NEW s, DOMAIN w \ Secrets \subseteq DOMAIN s,
             \A f \in DOMAIN s \cap DOMAIN a : s[f] = a[f]
      PROVE  AdapterKept(e, s)
  <2>1. \A f \in DOMAIN w \ (Secrets \cup {"backoff"}) : f \in DOMAIN s /\ s[f] = e[f]
    BY <1>1, <1>2, <1>5
  <2>2. \A f \in (DOMAIN s \cap DOMAIN b) \ DOMAIN w : s[f] = b[f]
    BY <1>1, <1>4, <1>5
  <2> QED
    BY <1>0, <2>1, <2>2 DEF AdapterKept, Honoured, Has
<1>6. CASE Type(a) = "file"
  <2> DEFINE s == FileSource(a)
  <2>1. DOMAIN w \subseteq {"type", "name", "poll_interval", "path", "strict"}
    BY <1>1, <1>2, <1>3, <1>6 DEF AdapterKeys, FileFields
  <2>2. /\ DOMAIN s = {"type", "name", "poll_interval", "path", "strict"}
        /\ \A f \in DOMAIN s \cap DOMAIN a : s[f] = a[f]
        /\ s["type"] = "file"
    BY <1>6 DEF FileSource, Take, Type, Get, Has
  <2>3. SourceOf(a) = s
    BY <1>6 DEF SourceOf
  <2> HIDE DEF s
  <2> QED
    BY <1>5, <2>1, <2>2, <2>3
<1>7. CASE Type(a) = "geotab" /\ GeotabValid(a)
  <2> DEFINE Keys == {"type", "name", "poll_interval", "server", "database", "username",
                      "password", "seed_from", "results_limit", "cache_refresh"}
             s == GeotabSource(a)
  <2>1. DOMAIN w \ Secrets \subseteq Keys
    BY <1>1, <1>2, <1>3, <1>7 DEF AdapterKeys, GeotabFields, FileFields, Secrets
  <2>2. /\ DOMAIN s = Keys
        /\ \A f \in (Keys \cap DOMAIN a) \ {"results_limit"} : s[f] = a[f]
    BY DEF GeotabSource, Take, Get, Has
  <2>3. "results_limit" \in DOMAIN a => s["results_limit"] = a["results_limit"]
    <3> SUFFICES ASSUME "results_limit" \in DOMAIN a
                 PROVE  s["results_limit"] = a["results_limit"]
      OBVIOUS
    <3>1. a["results_limit"] \in 0..MaxGeotabResultsLimit /\ a["results_limit"] # 0
      BY <1>1, <1>7 DEF GeotabValid
    <3>2. a["results_limit"] > 0
      <4>1. MaxGeotabResultsLimit \in Nat
        BY ConfigAssumption
      <4> QED
        BY <3>1, <4>1
    <3>3. s["results_limit"] = Positive(a["results_limit"], DefaultGeotabResultsLimit)
      BY DEF GeotabSource, Take, Get, Has
    <3> QED
      BY <3>2, <3>3 DEF Positive
  <2>4. SourceOf(a) = s
    BY <1>7 DEF SourceOf
  <2>5. {"username", "password"} \subseteq DOMAIN a
    BY <1>7 DEF GeotabValid
  <2> HIDE DEF s
  <2>6. \A f \in DOMAIN s \cap DOMAIN a : s[f] = a[f]
    BY <2>2, <2>3
  <2>7. "" \notin {s["username"], s["password"]}
    BY <1>1, <2>2, <2>5 DEF Filled, Has
  <2> QED
    BY <1>5, <2>1, <2>2, <2>4, <2>6, <2>7
<1> QED
  BY <1>3, <1>6, <1>7

LEMMA OutputHonoured ==
    ASSUME NEW e, NEW env, EntryType(e, OutputKeys), NEW o, o = CompletedOutput(e, env),
           OutputValid(o)
    PROVE  /\ OutputKept(e, DestOf(o))
           /\ Has(e, "secret_env") => DestOf(o).secret # ""
<1>0. PICK w, b : w = Written(e) /\ b = OutputDefaults(Bare(e))
  OBVIOUS
<1>1. /\ DOMAIN w \subseteq DOMAIN o
      /\ \A f \in DOMAIN w : o[f] = w[f]
      /\ \A f \in DOMAIN b \ (DOMAIN w \cup {"type"}) : f \in DOMAIN o /\ o[f] = b[f]
      /\ Filled(o, "secret")
      /\ \A f \in {"timeout", "max_attempts"} \cap DOMAIN o : o[f] \in Int
      /\ Type(o) = Type(e)
  <2> DEFINE c == CompletedOutput(e, env)
  <2>1. /\ DOMAIN w \subseteq DOMAIN c
        /\ \A f \in DOMAIN w : c[f] = w[f]
        /\ \A f \in DOMAIN b \ (DOMAIN w \cup {"type"}) : f \in DOMAIN c /\ c[f] = b[f]
        /\ Filled(c, "secret")
        /\ \A f \in {"timeout", "max_attempts"} \cap DOMAIN c : c[f] \in Int
        /\ Type(c) = Type(e)
    BY <1>0, OutputCompleted
  <2> QED
    BY <2>1 DEF Has
<1>2. /\ DOMAIN w \subseteq OutputKeys
      /\ \A f \in DOMAIN w : w[f] = e[f]
      /\ Type(w) = Type(e)
      /\ "secret_env" \in DOMAIN e => "secret_env" \in DOMAIN w
  BY <1>0, WrittenFields DEF EntryType, Numbers
<1>3. \/ Type(o) = "stdout" /\ (DOMAIN o \cap WebhookFields # {} => Type(o) = "webhook")
      \/ Type(o) = "webhook" /\ WebhookValid(o)
  BY DEF OutputValid, Placed
<1>4. "type" \in DOMAIN w
  BY <1>1, <1>2, <1>3 DEF Type, Get, Has
<1>5. ASSUME NEW s, DOMAIN w \ (Secrets \cup {"backoff"}) \subseteq DOMAIN s,
             \A f \in DOMAIN s \cap DOMAIN o : s[f] = o[f]
      PROVE  OutputKept(e, s)
  <2>1. \A f \in DOMAIN w \ (Secrets \cup {"backoff"}) : f \in DOMAIN s /\ s[f] = e[f]
    BY <1>1, <1>2, <1>5
  <2>2. \A f \in (DOMAIN s \cap DOMAIN b) \ DOMAIN w : s[f] = b[f]
    BY <1>1, <1>4, <1>5
  <2> QED
    BY <1>0, <2>1, <2>2 DEF OutputKept, Honoured, Has
<1>6. CASE Type(o) = "stdout" /\ (DOMAIN o \cap WebhookFields # {} => Type(o) = "webhook")
  <2> DEFINE t == Take(o, {"type", "name", "buffer"})
             d == StdoutDest(o)
  <2>1. DOMAIN o \cap WebhookFields = {} /\ DOMAIN w \subseteq {"type", "name", "buffer"}
    BY <1>1, <1>2, <1>6 DEF OutputKeys
  <2>2. /\ DOMAIN t = {"type", "name", "buffer"}
        /\ \A f \in DOMAIN t \cap DOMAIN o : t[f] = o[f]
    BY DEF Take, Get, Has
  <2>3. d = Merge(t, [max_attempts |-> 1])
    BY DEF StdoutDest
  <2> HIDE DEF t, d
  <2>4. /\ DOMAIN d = {"type", "name", "buffer", "max_attempts"}
        /\ \A f \in DOMAIN t : d[f] = t[f]
    BY <2>2, <2>3 DEF Merge, Has
  <2>5. "max_attempts" \notin DOMAIN o
    BY <2>1 DEF WebhookFields
  <2>6. \A f \in DOMAIN d \cap DOMAIN o : d[f] = o[f]
    BY <2>2, <2>4, <2>5
  <2>7. DestOf(o) = d
    BY <1>6 DEF DestOf, d
  <2>8. ~Has(e, "secret_env")
    BY <1>2, <2>1 DEF Has
  <2> QED
    BY <1>5, <2>1, <2>4, <2>6, <2>7, <2>8
<1>7. CASE Type(o) = "webhook" /\ WebhookValid(o)
  <2> DEFINE Keys == {"type", "name", "buffer", "max_attempts", "url", "secret", "timeout"}
             d == WebhookDest(o)
  <2>1. DOMAIN w \ (Secrets \cup {"backoff"}) \subseteq Keys
    BY <1>2 DEF OutputKeys, WebhookFields, Secrets
  <2>2. /\ DOMAIN d = Keys
        /\ \A f \in (Keys \cap DOMAIN o) \ {"timeout"} : d[f] = o[f]
    BY DEF WebhookDest, Take, Get, Has
  <2>3. "timeout" \in DOMAIN o => d["timeout"] = o["timeout"]
    <3> SUFFICES ASSUME "timeout" \in DOMAIN o PROVE d["timeout"] = o["timeout"]
      OBVIOUS
    <3>1. o["timeout"] > 0
      BY <1>7 DEF WebhookValid
    <3>2. d["timeout"] = Positive(o["timeout"], DefaultTimeout)
      BY DEF WebhookDest, Take, Get, Has
    <3> QED
      BY <3>1, <3>2 DEF Positive
  <2>4. DestOf(o) = d
    BY <1>7 DEF DestOf
  <2>5. "secret_env" \in DOMAIN o => "secret" \in DOMAIN o
    BY <1>7 DEF WebhookValid, Signed, Has
  <2> HIDE DEF d
  <2>6. \A f \in DOMAIN d \cap DOMAIN o : d[f] = o[f]
    BY <2>2, <2>3
  <2>7. "secret_env" \in DOMAIN e => d["secret"] # ""
    BY <1>1, <1>2, <2>2, <2>5 DEF Filled, Has
  <2> QED
    BY <1>5, <2>1, <2>2, <2>4, <2>6, <2>7 DEF Has
<1> QED
  BY <1>3, <1>6, <1>7

(* What is known of a configuration that was loaded. *)
LEMMA LoadedConfig ==
    ASSUME NEW f \in Files, NEW env, Loads(f, env), NEW c, c = Complete(f, env)
    PROVE  /\ Len(c.adapters) \in Nat \ {0} /\ DOMAIN c.adapters = 1..Len(c.adapters)
           /\ DOMAIN f.adapters = DOMAIN c.adapters
           /\ \A i \in DOMAIN c.adapters :
                 /\ AdapterValid(c.adapters[i])
                 /\ EntryType(f.adapters[i], AdapterKeys)
                 /\ c.adapters[i] = Completed(f.adapters[i], env)
           /\ Len(c.outputs) \in Nat \ {0} /\ DOMAIN c.outputs = 1..Len(c.outputs)
           /\ DOMAIN f.outputs = DOMAIN c.outputs
           /\ \A i \in DOMAIN c.outputs :
                 /\ OutputValid(c.outputs[i])
                 /\ EntryType(f.outputs[i], OutputKeys)
                 /\ c.outputs[i] = CompletedOutput(f.outputs[i], env)
           /\ NamesDiffer(c.outputs)
           /\ \A i \in DOMAIN c.rules : \A j \in DOMAIN c.rules[i].route :
                 c.rules[i].route[j] \in {c.outputs[k].name : k \in DOMAIN c.outputs}
           /\ EntryType(f.store, {"dedupe_retention", "audit_retention"})
           /\ c.store = StoreDefaults(f.store)
           /\ StoreValid(c.store)
<1>1. FileType(f)
  BY FilesAssumption DEF Loads, Decodes
<1>2. ConfigValid(c)
  BY DEF Loads
<1>3. /\ c.adapters = [i \in DOMAIN f.adapters |-> Completed(f.adapters[i], env)]
      /\ c.outputs = [i \in DOMAIN f.outputs |-> CompletedOutput(f.outputs[i], env)]
      /\ c.store = StoreDefaults(f.store)
  BY DEF Complete, Each, Completed, CompletedOutput
<1>4. ListType(f.adapters) /\ ListType(f.outputs)
  BY <1>1 DEF FileType
<1>5. Len(c.adapters) = Len(f.adapters) /\ DOMAIN c.adapters = 1..Len(f.adapters)
  <2> DEFINE t == c.adapters
  <2>1. t = [i \in DOMAIN f.adapters |-> t[i]]
    BY <1>3
  <2> HIDE DEF t
  <2>2. Len(t) = Len(f.adapters) /\ DOMAIN t = 1..Len(f.adapters)
    BY <1>4, <2>1, MapList
  <2> QED
    BY <2>2 DEF t
<1>6. Len(c.outputs) = Len(f.outputs) /\ DOMAIN c.outputs = 1..Len(f.outputs)
  <2> DEFINE t == c.outputs
  <2>1. t = [i \in DOMAIN f.outputs |-> t[i]]
    BY <1>3
  <2> HIDE DEF t
  <2>2. Len(t) = Len(f.outputs) /\ DOMAIN t = 1..Len(f.outputs)
    BY <1>4, <2>1, MapList
  <2> QED
    BY <2>2 DEF t
<1>7. /\ Len(f.adapters) \in Nat /\ DOMAIN f.adapters = 1..Len(f.adapters)
      /\ Len(f.outputs) \in Nat /\ DOMAIN f.outputs = 1..Len(f.outputs)
  BY <1>4, ListDomain
<1>8. Len(f.adapters) # 0 /\ Len(f.outputs) # 0
  <2>1. c.adapters # <<>> /\ c.outputs # <<>>
    BY <1>2 DEF ConfigValid
  <2>2. Len(f.adapters) = 0 => c.adapters = <<>>
    BY <1>3, <1>7
  <2>3. Len(f.outputs) = 0 => c.outputs = <<>>
    BY <1>3, <1>7
  <2> QED
    BY <2>1, <2>2, <2>3
<1>9. /\ \A i \in DOMAIN c.adapters : AdapterValid(c.adapters[i])
      /\ \A i \in DOMAIN c.outputs : OutputValid(c.outputs[i])
      /\ NamesDiffer(c.outputs) /\ StoreValid(c.store)
      /\ \A i \in DOMAIN c.rules : RuleValid(c.rules[i], c.outputs)
  BY <1>2 DEF ConfigValid, AllOf
<1>10. \A i \in DOMAIN c.rules : \A j \in DOMAIN c.rules[i].route :
          c.rules[i].route[j] \in {c.outputs[k].name : k \in DOMAIN c.outputs}
  BY <1>9 DEF RuleValid
<1>11. /\ \A i \in DOMAIN f.adapters : EntryType(f.adapters[i], AdapterKeys)
       /\ \A i \in DOMAIN f.outputs : EntryType(f.outputs[i], OutputKeys)
       /\ EntryType(f.store, {"dedupe_retention", "audit_retention"})
  BY <1>1 DEF FileType, AdapterKeys, OutputKeys
<1>12. /\ \A i \in DOMAIN f.adapters : c.adapters[i] = Completed(f.adapters[i], env)
       /\ \A i \in DOMAIN f.outputs : c.outputs[i] = CompletedOutput(f.outputs[i], env)
  BY <1>3
<1> QED
  BY <1>3, <1>5, <1>6, <1>7, <1>8, <1>9, <1>10, <1>11, <1>12

(* The store of a file: its retentions are whole, and are what was written. *)
LEMMA StoreRuns ==
    ASSUME NEW s, EntryType(s, {"dedupe_retention", "audit_retention"}),
           NEW c, c = StoreDefaults(s)
    PROVE  /\ c.dedupe_retention \in Int /\ c.audit_retention \in Int
           /\ Honoured(s, c, StoreDefaults(NoFields))
<1> DEFINE d == [dedupe_retention |-> DefaultDedupeRetention,
                 audit_retention |-> DefaultAuditRetention]
           none == Written(NoFields)
<1>0. PICK w, b : w = Written(s) /\ b = StoreDefaults(NoFields)
  OBVIOUS
<1>1. c = Merge(w, d) /\ b = Merge(none, d) /\ DOMAIN none = {}
  BY <1>0, NoFieldsDomain DEF StoreDefaults, Written
<1>2. /\ DOMAIN d = {"dedupe_retention", "audit_retention"}
      /\ d["dedupe_retention"] \in Int /\ d["audit_retention"] \in Int
  BY PositiveDefaults
<1>3. /\ \A f \in DOMAIN w : w[f] = s[f]
      /\ EntryType(w, {"dedupe_retention", "audit_retention"})
  BY <1>0, WrittenFields
<1> HIDE DEF d, none
<1>4. /\ DOMAIN c = DOMAIN w \cup DOMAIN d
      /\ \A f \in DOMAIN w : c[f] = w[f]
      /\ \A f \in DOMAIN d : f \notin DOMAIN w => c[f] = d[f]
  BY <1>1 DEF Merge, Has
<1>5. DOMAIN b = DOMAIN d /\ \A f \in DOMAIN d : b[f] = d[f]
  BY <1>1 DEF Merge, Has
<1>6. /\ "dedupe_retention" \in DOMAIN w => w["dedupe_retention"] \in Int
      /\ "audit_retention" \in DOMAIN w => w["audit_retention"] \in Int
  BY <1>3 DEF EntryType, Numbers, Has
<1>7. c["dedupe_retention"] \in Int /\ c["audit_retention"] \in Int
  BY <1>2, <1>4, <1>6
<1>8. /\ \A f \in DOMAIN w : f \in DOMAIN c /\ c[f] = s[f]
      /\ \A f \in (DOMAIN c \cap DOMAIN b) \ DOMAIN w : c[f] = b[f]
  BY <1>3, <1>4, <1>5
<1>9. Honoured(s, c, StoreDefaults(NoFields))
  BY <1>0, <1>8 DEF Honoured, Has
<1> QED
  BY <1>7, <1>9

-----------------------------------------------------------------------------
(* The invariant of a start: while there is a configuration, it is that of  *)
(* a file that was accepted, and what is built so far is built from its     *)
(* first entries, one by one.                                               *)
Phases == {"down", "store", "sources", "dests", "pipeline", "running"}

Chosen ==
    phase # "down" =>
        \E f \in Files : \E env \in Environments :
            file = f /\ Loads(f, env) /\ cfg = Complete(f, env)

Built ==
    phase # "down" =>
        /\ \A i \in DOMAIN sources :
              i \in DOMAIN cfg.adapters /\ sources[i] = SourceOf(cfg.adapters[i])
        /\ \A i \in DOMAIN dests :
              i \in DOMAIN cfg.outputs /\ dests[i] = DestOf(cfg.outputs[i])

Progress ==
    /\ phase = "store" => Len(sources) = 0 /\ Len(dests) = 0
    /\ phase = "sources" => Len(sources) < Len(cfg.adapters) /\ Len(dests) = 0
    /\ phase = "dests" => Len(sources) = Len(cfg.adapters) /\ Len(dests) < Len(cfg.outputs)
    /\ phase \in {"pipeline", "running"} =>
          Len(sources) = Len(cfg.adapters) /\ Len(dests) = Len(cfg.outputs)

StartInv ==
    /\ phase \in Phases
    /\ failure \in {"none", "config", "store", "path"}
    /\ sweeping \in {"wait", "seen", "audit"}
    /\ sweeping # "wait" => phase = "running"
    /\ ListType(sources) /\ ListType(dests)
    /\ Chosen /\ Built /\ Progress

(* What a start has in hand: LoadedConfig, of the state. *)
LEMMA InHand ==
    ASSUME StartInv, phase # "down"
    PROVE  \E env \in Environments : file \in Files /\ Loads(file, env) /\ cfg = Complete(file, env)
  BY DEF StartInv, Chosen

LEMMA EntriesRun ==
    ASSUME StartInv, phase # "down"
    PROVE  /\ Len(cfg.adapters) \in Nat \ {0} /\ DOMAIN cfg.adapters = 1..Len(cfg.adapters)
           /\ Len(cfg.outputs) \in Nat \ {0} /\ DOMAIN cfg.outputs = 1..Len(cfg.outputs)
           /\ \A i \in DOMAIN cfg.adapters :
                 LET a == cfg.adapters[i]
                 IN /\ Type(a) = "file" =>
                          \A there \in BOOLEAN : FileError(a, there) \in {"none", "path"}
                    /\ Type(a) # "file" => GeotabError(a) = "none"
                    /\ ~(SourceOf(a).poll_interval <= 0)
           /\ \A i \in DOMAIN cfg.outputs :
                 LET o == cfg.outputs[i]
                 IN /\ Type(o) # "stdout" => WebhookError(o) = "none"
                    /\ DestOf(o).name = o.name
                    /\ ~(DestOf(o).buffer <= 0)
                    /\ ~(DestOf(o).max_attempts <= 0)
<1>1. PICK env \in Environments : file \in Files /\ Loads(file, env) /\ cfg = Complete(file, env)
  BY InHand
<1>2. /\ Len(cfg.adapters) \in Nat \ {0} /\ DOMAIN cfg.adapters = 1..Len(cfg.adapters)
      /\ Len(cfg.outputs) \in Nat \ {0} /\ DOMAIN cfg.outputs = 1..Len(cfg.outputs)
  BY <1>1, LoadedConfig
<1>3. ASSUME NEW i \in DOMAIN cfg.adapters, NEW a, a = cfg.adapters[i]
      PROVE  /\ Type(a) = "file" =>
                    \A there \in BOOLEAN : FileError(a, there) \in {"none", "path"}
             /\ Type(a) # "file" => GeotabError(a) = "none"
             /\ ~(SourceOf(a).poll_interval <= 0)
  <2>1. PICK e : /\ AdapterValid(a) /\ EntryType(e, AdapterKeys) /\ a = Completed(e, env)
    BY <1>1, <1>3, LoadedConfig
  <2>2. Has(a, "poll_interval") /\ a["poll_interval"] \in Int
    BY <2>1, AdapterCompleted
  <2> QED
    BY <2>1, <2>2, AdapterRuns
<1>4. ASSUME NEW i \in DOMAIN cfg.outputs, NEW o, o = cfg.outputs[i]
      PROVE  /\ Type(o) # "stdout" => WebhookError(o) = "none"
             /\ DestOf(o).name = o.name
             /\ ~(DestOf(o).buffer <= 0)
             /\ ~(DestOf(o).max_attempts <= 0)
  <2>1. PICK e : OutputValid(o) /\ EntryType(e, OutputKeys) /\ o = CompletedOutput(e, env)
    BY <1>1, <1>4, LoadedConfig
  <2>2. /\ Has(o, "buffer") /\ o["buffer"] \in Int
        /\ \A f \in {"timeout", "max_attempts"} \cap DOMAIN o : o[f] \in Int
        /\ Type(o) = "webhook" => Has(o, "max_attempts")
    BY <2>1, OutputCompleted
  <2> QED
    BY <2>1, <2>2, OutputRuns
<1> QED
  BY <1>2, <1>3, <1>4

(* A start that ends, for whatever reason, leaves nothing to be said. *)
LEMMA Down ==
    ASSUME StartInv, phase' = "down", sweeping' \in {"wait", "seen", "audit"},
           failure' \in {"none", "config", "store", "path"}, sweeping' = "wait",
           ListType(sources'), ListType(dests')
    PROVE  StartInv'
  BY DEF StartInv, Phases, Chosen, Built, Progress

(* A start that goes on with the same file. *)
LEMMA SameFile ==
    ASSUME StartInv, phase # "down", file' = file, cfg' = cfg
    PROVE  Chosen'
  BY DEF StartInv, Chosen

LEMMA StartInit == StartupInit => StartInv
<1> SUFFICES ASSUME StartupInit PROVE StartInv
  OBVIOUS
<1>1. phase = "down" /\ failure = "none" /\ sources = <<>> /\ dests = <<>> /\ sweeping = "wait"
  BY DEF StartupInit, RetentionInit
<1>2. ListType(sources) /\ ListType(dests)
  BY <1>1, NoList
<1> QED
  BY <1>1, <1>2 DEF StartInv, Phases, Chosen, Built, Progress

LEMMA LoadStep == StartInv /\ Load => StartInv'
<1> SUFFICES ASSUME StartInv, Load PROVE StartInv'
  OBVIOUS
<1>1. /\ phase = "down" /\ sources' = <<>> /\ dests' = <<>>
      /\ sweeping' = sweeping /\ sweeping = "wait"
  BY DEF Load, GoOn, StartInv, retentionVars, sweepVars
<1>2. ListType(sources') /\ ListType(dests') /\ Len(sources') = 0 /\ Len(dests') = 0
      /\ DOMAIN sources' = {} /\ DOMAIN dests' = {}
  BY <1>1, NoList
<1>3. PICK f \in Files, env \in Environments :
          IF Loads(f, env)
          THEN GoOn("store", "none") /\ file' = f /\ cfg' = Complete(f, env)
          ELSE GoOn("store", "config") /\ Forget("config")
  BY DEF Load
<1>4. CASE Loads(f, env)
  <2>1. phase' = "store" /\ failure' = "none" /\ file' = f /\ cfg' = Complete(f, env)
    BY <1>3, <1>4 DEF GoOn
  <2>2. Chosen'
    BY <1>4, <2>1 DEF Chosen
  <2>3. Built' /\ Progress'
    BY <1>2, <2>1 DEF Built, Progress
  <2> QED
    BY <1>1, <1>2, <2>1, <2>2, <2>3 DEF StartInv, Phases
<1>5. CASE ~Loads(f, env)
  <2>1. phase' = "down" /\ failure' = "config"
    BY <1>3, <1>5 DEF GoOn
  <2> QED
    BY <1>1, <1>2, <2>1, Down
<1> QED
  BY <1>4, <1>5

LEMMA OpenStep == StartInv /\ Open => StartInv'
<1> SUFFICES ASSUME StartInv, Open PROVE StartInv'
  OBVIOUS
<1>1. /\ phase = "store" /\ sources' = sources /\ dests' = dests
      /\ sweeping' = sweeping /\ sweeping = "wait" /\ ListType(sources) /\ ListType(dests)
      /\ Len(sources) = 0 /\ Len(dests) = 0
  BY DEF Open, GoOn, StartInv, retentionVars, sweepVars, Progress
<1>2. PICK why \in {"none", "store"} : GoOn("sources", why) /\ Forget(why)
  BY DEF Open
<1>3. CASE why = "none"
  <2>1. phase' = "sources" /\ failure' = "none" /\ file' = file /\ cfg' = cfg
    BY <1>2, <1>3 DEF GoOn, Forget
  <2>2. Chosen'
    BY <1>1, <2>1, SameFile
  <2>3. Len(cfg.adapters) \in Nat \ {0}
    BY <1>1, EntriesRun
  <2>4. Built'
    BY <1>1, <2>1 DEF StartInv, Built
  <2>5. Progress'
    BY <1>1, <2>1, <2>3 DEF Progress
  <2> QED
    BY <1>1, <2>1, <2>2, <2>4, <2>5 DEF StartInv, Phases
<1>4. CASE why = "store"
  <2>1. phase' = "down" /\ failure' = "store"
    BY <1>2, <1>4 DEF GoOn
  <2> QED
    BY <1>1, <2>1, Down
<1> QED
  BY <1>2, <1>3, <1>4

LEMMA BuildSourceStep == StartInv /\ BuildSource => StartInv'
<1> SUFFICES ASSUME StartInv, BuildSource PROVE StartInv'
  OBVIOUS
<1> DEFINE n == Len(sources)
<1>1. /\ phase = "sources" /\ dests' = dests
      /\ sweeping' = sweeping /\ sweeping = "wait" /\ ListType(sources) /\ ListType(dests)
      /\ n < Len(cfg.adapters) /\ Len(dests) = 0
  BY DEF BuildSource, GoOn, StartInv, retentionVars, sweepVars, Progress
<1>2. n \in Nat /\ DOMAIN sources = 1..n /\ Len(dests) \in Nat /\ DOMAIN dests = {}
  <2>1. n \in Nat /\ DOMAIN sources = 1..n /\ Len(dests) \in Nat /\ DOMAIN dests = 1..Len(dests)
    BY <1>1, ListDomain
  <2> QED
    BY <1>1, <2>1
<1>3. /\ Len(cfg.adapters) \in Nat /\ DOMAIN cfg.adapters = 1..Len(cfg.adapters)
      /\ Len(cfg.outputs) \in Nat \ {0}
  BY <1>1, EntriesRun
<1>4. PICK a : a = cfg.adapters[n + 1]
  OBVIOUS
<1>p. PICK there \in BOOLEAN : \E why :
          /\ why = IF Type(a) = "file" THEN FileError(a, there) ELSE GeotabError(a)
          /\ GoOn(IF n + 1 = Len(cfg.adapters) THEN "dests" ELSE "sources", why)
          /\ Forget(why)
          /\ sources' = Append(sources, SourceOf(a))
  BY <1>4 DEF BuildSource, SourceOf
<1>5. PICK why :
          /\ why = IF Type(a) = "file" THEN FileError(a, there) ELSE GeotabError(a)
          /\ GoOn(IF n + 1 = Len(cfg.adapters) THEN "dests" ELSE "sources", why)
          /\ Forget(why)
          /\ sources' = Append(sources, SourceOf(a))
  BY <1>p
<1>6. n + 1 \in DOMAIN cfg.adapters
  BY <1>1, <1>2, <1>3
<1>7. why \in {"none", "path"}
  <2>1. /\ Type(a) = "file" => FileError(a, there) \in {"none", "path"}
        /\ Type(a) # "file" => GeotabError(a) = "none"
    BY <1>1, <1>4, <1>6, EntriesRun
  <2> QED
    BY <1>5, <2>1
<1>8. /\ ListType(sources') /\ Len(sources') = n + 1 /\ DOMAIN sources' = 1..(n + 1)
      /\ \A i \in 1..n : sources'[i] = sources[i]
      /\ sources'[n + 1] = SourceOf(a)
  BY <1>1, <1>5, AppendList
<1>9. CASE why = "path"
  <2>1. phase' = "down" /\ failure' = "path"
    BY <1>5, <1>9 DEF GoOn
  <2> QED
    BY <1>1, <1>8, <2>1, Down
<1>10. CASE why = "none"
  <2>1. /\ phase' = IF n + 1 = Len(cfg.adapters) THEN "dests" ELSE "sources"
        /\ failure' = "none" /\ file' = file /\ cfg' = cfg
    BY <1>5, <1>10 DEF GoOn, Forget
  <2>2. Chosen'
    BY <1>1, <2>1, SameFile
  <2>3. Built'
    <3>1. \A i \in 1..n : i \in DOMAIN cfg.adapters /\ sources[i] = SourceOf(cfg.adapters[i])
      BY <1>1, <1>2 DEF StartInv, Built
    <3>2. \A i \in 1..(n + 1) :
              i \in DOMAIN cfg.adapters /\ sources'[i] = SourceOf(cfg.adapters[i])
      <4> SUFFICES ASSUME NEW i \in 1..(n + 1)
                   PROVE  i \in DOMAIN cfg.adapters /\ sources'[i] = SourceOf(cfg.adapters[i])
        OBVIOUS
      <4>1. CASE i \in 1..n
        BY <1>8, <3>1, <4>1
      <4>2. CASE i = n + 1
        BY <1>4, <1>6, <1>8, <4>2
      <4> QED
        BY <1>2, <4>1, <4>2
    <3> QED
      BY <1>1, <1>2, <1>8, <2>1, <3>2 DEF Built
  <2>4. Progress'
    BY <1>1, <1>2, <1>3, <1>8, <2>1 DEF Progress
  <2> QED
    BY <1>1, <1>8, <2>1, <2>2, <2>3, <2>4 DEF StartInv, Phases
<1> QED
  BY <1>7, <1>9, <1>10

LEMMA BuildDestStep == StartInv /\ BuildDest => StartInv'
<1> SUFFICES ASSUME StartInv, BuildDest PROVE StartInv'
  OBVIOUS
<1> DEFINE n == Len(dests)
<1>1. /\ phase = "dests" /\ sources' = sources
      /\ sweeping' = sweeping /\ sweeping = "wait" /\ ListType(sources) /\ ListType(dests)
      /\ n < Len(cfg.outputs) /\ Len(sources) = Len(cfg.adapters)
  BY DEF BuildDest, GoOn, StartInv, retentionVars, sweepVars, Progress
<1>2. n \in Nat /\ DOMAIN dests = 1..n
  BY <1>1, ListDomain
<1>3. Len(cfg.outputs) \in Nat /\ DOMAIN cfg.outputs = 1..Len(cfg.outputs)
  BY <1>1, EntriesRun
<1>4. PICK o : o = cfg.outputs[n + 1]
  OBVIOUS
<1>5. PICK why :
          /\ why = IF Type(o) = "stdout" THEN "none" ELSE WebhookError(o)
          /\ GoOn(IF n + 1 = Len(cfg.outputs) THEN "pipeline" ELSE "dests", why)
          /\ Forget(why)
          /\ dests' = Append(dests, DestOf(o))
  BY <1>4 DEF BuildDest, DestOf
<1>6. n + 1 \in DOMAIN cfg.outputs
  BY <1>1, <1>2, <1>3
<1>7. why = "none"
  <2>1. Type(o) # "stdout" => WebhookError(o) = "none"
    BY <1>1, <1>4, <1>6, EntriesRun
  <2> QED
    BY <1>5, <2>1
<1>8. /\ ListType(dests') /\ Len(dests') = n + 1 /\ DOMAIN dests' = 1..(n + 1)
      /\ \A i \in 1..n : dests'[i] = dests[i]
      /\ dests'[n + 1] = DestOf(o)
  BY <1>1, <1>5, AppendList
<1>9. /\ phase' = IF n + 1 = Len(cfg.outputs) THEN "pipeline" ELSE "dests"
      /\ failure' = "none" /\ file' = file /\ cfg' = cfg
  BY <1>5, <1>7 DEF GoOn, Forget
<1>10. Chosen'
  BY <1>1, <1>9, SameFile
<1>11. Built'
  <2>1. \A i \in 1..n : i \in DOMAIN cfg.outputs /\ dests[i] = DestOf(cfg.outputs[i])
    BY <1>1, <1>2 DEF StartInv, Built
  <2>2. \A i \in 1..(n + 1) : i \in DOMAIN cfg.outputs /\ dests'[i] = DestOf(cfg.outputs[i])
    <3> SUFFICES ASSUME NEW i \in 1..(n + 1)
                 PROVE  i \in DOMAIN cfg.outputs /\ dests'[i] = DestOf(cfg.outputs[i])
      OBVIOUS
    <3>1. CASE i \in 1..n
      BY <1>8, <2>1, <3>1
    <3>2. CASE i = n + 1
      BY <1>4, <1>6, <1>8, <3>2
    <3> QED
      BY <1>2, <3>1, <3>2
  <2>3. \A i \in DOMAIN sources :
            i \in DOMAIN cfg.adapters /\ sources[i] = SourceOf(cfg.adapters[i])
    BY <1>1 DEF StartInv, Built
  <2> QED
    BY <1>1, <1>8, <1>9, <2>2, <2>3 DEF Built
<1>12. Progress'
  BY <1>1, <1>2, <1>3, <1>8, <1>9 DEF Progress
<1> QED
  BY <1>1, <1>8, <1>9, <1>10, <1>11, <1>12 DEF StartInv, Phases

(* What is built when all of it is built. *)
LEMMA AllBuilt ==
    ASSUME StartInv, phase \in {"pipeline", "running"}
    PROVE  /\ DOMAIN sources = DOMAIN cfg.adapters /\ DOMAIN dests = DOMAIN cfg.outputs
           /\ Len(sources) \in Nat \ {0} /\ Len(dests) \in Nat \ {0}
           /\ \A i \in DOMAIN sources : sources[i] = SourceOf(cfg.adapters[i])
           /\ \A i \in DOMAIN dests : dests[i] = DestOf(cfg.outputs[i])
<1>1. /\ Len(sources) = Len(cfg.adapters) /\ Len(dests) = Len(cfg.outputs)
      /\ ListType(sources) /\ ListType(dests) /\ phase # "down"
  BY DEF StartInv, Progress
<1>2. DOMAIN sources = 1..Len(sources) /\ DOMAIN dests = 1..Len(dests)
  BY <1>1, ListDomain
<1>3. /\ Len(cfg.adapters) \in Nat \ {0} /\ DOMAIN cfg.adapters = 1..Len(cfg.adapters)
      /\ Len(cfg.outputs) \in Nat \ {0} /\ DOMAIN cfg.outputs = 1..Len(cfg.outputs)
  BY <1>1, EntriesRun
<1> QED
  BY <1>1, <1>2, <1>3 DEF StartInv, Built

LEMMA NoPipelineError ==
    ASSUME StartInv, phase = "pipeline"
    PROVE  PipelineError = "none"
<1>1. sources # <<>> /\ dests # <<>>
  BY AllBuilt, NoList
<1>2. PICK env \in Environments : file \in Files /\ Loads(file, env) /\ cfg = Complete(file, env)
  BY InHand
<1>3. NamesDiffer(cfg.outputs)
  BY <1>2, LoadedConfig
<1>4. \A i \in DOMAIN dests : /\ i \in DOMAIN cfg.outputs
                              /\ dests[i].name = cfg.outputs[i].name
                              /\ ~(dests[i].buffer <= 0)
                              /\ ~(dests[i].max_attempts <= 0)
  <2> SUFFICES ASSUME NEW i \in DOMAIN dests
               PROVE  /\ i \in DOMAIN cfg.outputs
                      /\ dests[i].name = cfg.outputs[i].name
                      /\ ~(dests[i].buffer <= 0)
                      /\ ~(dests[i].max_attempts <= 0)
    OBVIOUS
  <2>1. PICK o : o = cfg.outputs[i]
    OBVIOUS
  <2>2. i \in DOMAIN cfg.outputs /\ dests[i] = DestOf(o)
    BY <2>1, AllBuilt
  <2>3. /\ DestOf(o).name = o.name
        /\ ~(DestOf(o).buffer <= 0)
        /\ ~(DestOf(o).max_attempts <= 0)
    BY <2>1, <2>2, EntriesRun
  <2> QED
    BY <2>1, <2>2, <2>3
<1>5. \A i, j \in DOMAIN dests : i # j => dests[i].name # dests[j].name
  BY <1>3, <1>4 DEF NamesDiffer
<1> QED
  BY <1>1, <1>4, <1>5 DEF PipelineError

LEMMA NewPipelineStep == StartInv /\ NewPipeline => StartInv'
<1> SUFFICES ASSUME StartInv, NewPipeline PROVE StartInv'
  OBVIOUS
<1>1. /\ phase = "pipeline" /\ phase' = "running" /\ failure' = "none"
      /\ UNCHANGED <<file, cfg, sources, dests, sweeping>>
  BY NoPipelineError DEF NewPipeline, GoOn, retentionVars, sweepVars
<1>2. Chosen'
  BY <1>1, SameFile
<1> QED
  BY <1>1, <1>2 DEF StartInv, Phases, Built, Progress

LEMMA RestStep == StartInv /\ (Running \/ Later \/ Stop \/ UNCHANGED vars) => StartInv'
<1> SUFFICES ASSUME StartInv, Running \/ Later \/ Stop \/ UNCHANGED vars PROVE StartInv'
  OBVIOUS
<1>1. CASE Running
  <2>1. phase = "running" /\ UNCHANGED <<phase, failure, file, cfg, sources, dests>>
    BY <1>1 DEF Running
  <2>2. sweeping' \in {"wait", "seen", "audit"}
    <3>1. CASE \E e \in Events : MarkSeen(e) \/ Audit(e)
      BY <3>1 DEF MarkSeen, Audit, sweepVars, StartInv
    <3>2. CASE BeginSweep \/ SweepFails \/ SweepSeen(cfg.store.dedupe_retention)
               \/ SweepAudit(cfg.store.audit_retention)
      BY <3>2 DEF BeginSweep, SweepFails, SweepSeen, SweepAudit
    <3> QED
      BY <1>1, <3>1, <3>2 DEF Running
  <2>3. Chosen'
    BY <2>1, SameFile
  <2> QED
    BY <2>1, <2>2, <2>3 DEF StartInv, Built, Progress
<1>2. CASE Later \/ UNCHANGED vars
  <2>1. UNCHANGED <<phase, failure, file, cfg, sources, dests, sweeping>>
    BY <1>2 DEF Later, Tick, vars, retentionVars, sweepVars
  <2> QED
    BY <2>1 DEF StartInv, Chosen, Built, Progress
<1>3. CASE Stop
  <2>1. /\ phase' = "down" /\ failure' = "none" /\ sweeping' = "wait"
        /\ ListType(sources') /\ ListType(dests')
    BY <1>3, NoList DEF Stop
  <2> QED
    BY <2>1, Down
<1> QED
  BY <1>1, <1>2, <1>3

LEMMA StartAlways == StartupSpec => []StartInv
<1>1. StartInv /\ [StartupNext]_vars => StartInv'
  BY LoadStep, OpenStep, BuildSourceStep, BuildDestStep, NewPipelineStep, RestStep
     DEF StartupNext
<1> QED
  BY StartInit, <1>1, PTL DEF StartupSpec

(* A config that loads is a config that runs, whatever the file says and    *)
(* the environment holds: no constructor refuses it, no ticker panics and   *)
(* no rule leads nowhere.                                                   *)
THEOREM ConfigsRun == StartupSpec => []ConfigRuns
<1>1. StartInv => ConfigRuns
  <2> SUFFICES ASSUME StartInv PROVE ConfigRuns
    OBVIOUS
  <2>1. failure \in {"none", "config", "store", "path"}
    BY DEF StartInv
  <2>2. ASSUME phase = "running" PROVE ~Panics
    <3> SUFFICES ASSUME NEW i \in DOMAIN sources PROVE ~(sources[i].poll_interval <= 0)
      BY DEF Panics
    <3>1. PICK a : a = cfg.adapters[i]
      OBVIOUS
    <3>2. sources[i] = SourceOf(a) /\ i \in DOMAIN cfg.adapters
      BY <2>2, <3>1, AllBuilt
    <3>3. ~(SourceOf(a).poll_interval <= 0)
      BY <2>2, <3>1, <3>2, EntriesRun
    <3> QED
      BY <3>2, <3>3
  <2>3. ASSUME phase = "running", NEW i \in DOMAIN cfg.rules, NEW j \in DOMAIN cfg.rules[i].route
        PROVE  cfg.rules[i].route[j] \in {dests[k].name : k \in DOMAIN dests}
    <3>1. PICK env \in Environments :
              file \in Files /\ Loads(file, env) /\ cfg = Complete(file, env)
      BY <2>3, InHand
    <3>2. PICK k \in DOMAIN cfg.outputs : cfg.rules[i].route[j] = cfg.outputs[k].name
      BY <3>1, LoadedConfig
    <3>3. PICK o : o = cfg.outputs[k]
      OBVIOUS
    <3>4. k \in DOMAIN dests /\ dests[k] = DestOf(o)
      BY <2>3, <3>3, AllBuilt
    <3>5. DestOf(o).name = o.name
      BY <2>3, <3>3, EntriesRun
    <3> QED
      BY <3>2, <3>3, <3>4, <3>5
  <2> QED
    BY <2>1, <2>2, <2>3 DEF ConfigRuns
<1> QED
  BY StartAlways, <1>1, PTL

(* What is written is what runs, and no field is lost on the way from the   *)
(* file: a default runs where nothing was written, and where a number or a  *)
(* duration was written as 0, which is what the code takes for nothing.     *)
THEOREM IntentIsKept == StartupSpec => []IntentKept
<1>1. StartInv => IntentKept
  <2> SUFFICES ASSUME StartInv, phase = "running"
               PROVE  /\ \A i \in DOMAIN file.adapters : AdapterKept(file.adapters[i], sources[i])
                      /\ \A i \in DOMAIN file.outputs : OutputKept(file.outputs[i], dests[i])
                      /\ Honoured(file.store, cfg.store, StoreDefaults(NoFields))
    BY DEF IntentKept
  <2>1. PICK env \in Environments :
            file \in Files /\ Loads(file, env) /\ cfg = Complete(file, env)
    BY InHand
  <2>2. ASSUME NEW i \in DOMAIN file.adapters PROVE AdapterKept(file.adapters[i], sources[i])
    <3>1. PICK e, a : e = file.adapters[i] /\ a = cfg.adapters[i]
      OBVIOUS
    <3>2. EntryType(e, AdapterKeys) /\ a = Completed(e, env) /\ AdapterValid(a)
      BY <2>1, <2>2, <3>1, LoadedConfig
    <3>3. sources[i] = SourceOf(a)
      BY <2>1, <2>2, <3>1, LoadedConfig, AllBuilt
    <3> QED
      BY <3>1, <3>2, <3>3, AdapterHonoured
  <2>3. ASSUME NEW i \in DOMAIN file.outputs PROVE OutputKept(file.outputs[i], dests[i])
    <3>1. PICK e, o : e = file.outputs[i] /\ o = cfg.outputs[i]
      OBVIOUS
    <3>2. EntryType(e, OutputKeys) /\ o = CompletedOutput(e, env) /\ OutputValid(o)
      BY <2>1, <2>3, <3>1, LoadedConfig
    <3>3. dests[i] = DestOf(o)
      BY <2>1, <2>3, <3>1, LoadedConfig, AllBuilt
    <3> QED
      BY <3>1, <3>2, <3>3, OutputHonoured
  <2>4. Honoured(file.store, cfg.store, StoreDefaults(NoFields))
    BY <2>1, LoadedConfig, StoreRuns
  <2> QED
    BY <2>2, <2>3, <2>4
<1> QED
  BY StartAlways, <1>1, PTL

(* A secret that is asked for is there, whatever the environment holds.     *)
THEOREM SecretsAreThere == StartupSpec => []NeverUnsigned
<1>1. StartInv => NeverUnsigned
  <2> SUFFICES ASSUME StartInv, phase = "running"
               PROVE  /\ \A i \in DOMAIN file.outputs :
                            Has(file.outputs[i], "secret_env") => dests[i].secret # ""
                      /\ \A i \in DOMAIN sources :
                            sources[i].type = "geotab" =>
                               "" \notin {sources[i].username, sources[i].password}
    BY DEF NeverUnsigned
  <2>1. PICK env \in Environments :
            file \in Files /\ Loads(file, env) /\ cfg = Complete(file, env)
    BY InHand
  <2>2. ASSUME NEW i \in DOMAIN file.outputs, Has(file.outputs[i], "secret_env")
        PROVE  dests[i].secret # ""
    <3>1. PICK e, o : e = file.outputs[i] /\ o = cfg.outputs[i]
      OBVIOUS
    <3>2. EntryType(e, OutputKeys) /\ o = CompletedOutput(e, env) /\ OutputValid(o)
      BY <2>1, <2>2, <3>1, LoadedConfig
    <3>3. dests[i] = DestOf(o)
      BY <2>1, <2>2, <3>1, LoadedConfig, AllBuilt
    <3> QED
      BY <2>2, <3>1, <3>2, <3>3, OutputHonoured
  <2>3. ASSUME NEW i \in DOMAIN sources, sources[i].type = "geotab"
        PROVE  "" \notin {sources[i].username, sources[i].password}
    <3>1. PICK e, a : e = file.adapters[i] /\ a = cfg.adapters[i]
      OBVIOUS
    <3>2. i \in DOMAIN cfg.adapters /\ sources[i] = SourceOf(a)
      BY <2>3, <3>1, AllBuilt
    <3>3. EntryType(e, AdapterKeys) /\ a = Completed(e, env) /\ AdapterValid(a)
      BY <2>1, <3>1, <3>2, LoadedConfig
    <3> QED
      BY <2>3, <3>2, <3>3, AdapterHonoured
  <2> QED
    BY <2>2, <2>3
<1> QED
  BY StartAlways, <1>1, PTL

-----------------------------------------------------------------------------
(* The rows of the store.  A row is kept under the millisecond that it was  *)
(* written in, so that a comparison of stamps is one of times, to within    *)
(* the parts of a millisecond.                                              *)
Stamped(r) == r.at \in Int /\ r.stamp = Stamp(r.at)

RowInv ==
    /\ now \in Nat /\ began \in Nat /\ began <= now
    /\ \A r \in seen : Stamped(r)
    /\ \A r \in audit : Stamped(r)

LEMMA StampOrder ==
    ASSUME NEW a \in Int, NEW b \in Int
    PROVE  /\ Stamp(a) < Stamp(b) => a < b
           /\ Stamp(a) >= Stamp(b) => b - a < Ms
           /\ Stamp(a) \in Int
<1> DEFINE p == Stamp(a)
           q == Stamp(b)
<1>1. /\ p \in Int /\ Ms * p <= a /\ a < Ms * p + Ms
      /\ q \in Int /\ Ms * q <= b /\ b < Ms * q + Ms /\ Ms \in Nat \ {0}
  BY RetentionAssumption DEF Stamp
<1> HIDE DEF p, q
<1>2. ASSUME p < q PROVE a < b
  <2>1. p + 1 <= q /\ Ms * (p + 1) = Ms * p + Ms
    BY <1>1, <1>2
  <2>2. Ms * (p + 1) <= Ms * q
    BY <1>1, <2>1
  <2> QED
    BY <1>1, <2>1, <2>2
<1>3. ASSUME p >= q PROVE b - a < Ms
  <2>1. Ms * q <= Ms * p
    BY <1>1, <1>3
  <2> QED
    BY <1>1, <2>1
<1> QED
  BY <1>1, <1>2, <1>3 DEF p, q

LEMMA RowStep == RowInv /\ [StartupNext]_vars => RowInv'
<1> SUFFICES ASSUME RowInv, [StartupNext]_vars PROVE RowInv'
  OBVIOUS
<1>1. ASSUME NEW e \in Events, MarkSeen(e) \/ Audit(e) PROVE RowInv'
  <2>1. Stamped(Row(e))
    BY DEF Stamped, Row, RowInv
  <2>2. /\ \A r \in seen' : r \in seen \/ r = Row(e)
        /\ \A r \in audit' : r \in audit \/ r = Row(e)
        /\ now' = now /\ began' = began
    BY <1>1 DEF MarkSeen, Audit, sweepVars
  <2> QED
    BY <2>1, <2>2 DEF RowInv, Stamped
<1>2. CASE BeginSweep
  BY <1>2 DEF BeginSweep, RowInv, rowVars, Stamped
<1>3. ASSUME NEW d, SweepSeen(d) \/ SweepAudit(d) PROVE RowInv'
  <2>1. seen' \subseteq seen /\ audit' \subseteq audit /\ now' = now /\ began' = began
    BY <1>3 DEF SweepSeen, SweepAudit, Kept
  <2> QED
    BY <2>1 DEF RowInv, Stamped
<1>4. CASE Later
  <2>1. now' = now + 1 /\ began' = began /\ seen' = seen /\ audit' = audit
    BY <1>4 DEF Later, Tick, rowVars, sweepVars
  <2> QED
    BY <2>1 DEF RowInv, Stamped
<1>5. CASE SweepFails \/ Stop
  <2>1. now' = now /\ began' \in {began, 0} /\ seen' = seen /\ audit' = audit
    BY <1>5 DEF SweepFails, Stop, rowVars
  <2> QED
    BY <2>1 DEF RowInv, Stamped
<1>6. CASE Load \/ Open \/ BuildSource \/ BuildDest \/ NewPipeline \/ UNCHANGED vars
  <2>1. UNCHANGED retentionVars
    <3>1. CASE Load
      BY <3>1 DEF Load, GoOn
    <3>2. CASE Open
      BY <3>2 DEF Open, GoOn
    <3>3. CASE BuildSource
      BY <3>3 DEF BuildSource, GoOn
    <3>4. CASE BuildDest
      BY <3>4 DEF BuildDest, GoOn
    <3>5. CASE NewPipeline
      BY <3>5 DEF NewPipeline, GoOn
    <3> QED
      BY <1>6, <3>1, <3>2, <3>3, <3>4, <3>5 DEF vars
  <2>2. UNCHANGED <<now, began, seen, audit>>
    BY <2>1 DEF retentionVars, rowVars, sweepVars
  <2> QED
    BY <2>2 DEF RowInv, Stamped
<1> QED
  BY <1>1, <1>2, <1>3, <1>4, <1>5, <1>6 DEF StartupNext, Running

LEMMA RowAlways == StartupSpec => []RowInv
<1>1. StartupInit => RowInv
  BY DEF StartupInit, RetentionInit, RowInv
<1> QED
  BY <1>1, RowStep, PTL DEF StartupSpec

(* Rows that a sweep leaves out, and rows that it keeps. *)
LEMMA KeptRows ==
    ASSUME RowInv, NEW rows, \A r \in rows : Stamped(r), NEW d \in Int
    PROVE  /\ \A r \in rows \ Kept(rows, d) : now - r.at > d
           /\ \A r \in Kept(rows, d) : began - r.at < d + Ms
<1>1. now \in Nat /\ began \in Nat /\ began <= now /\ Ms \in Nat
  BY RetentionAssumption DEF RowInv
<1>2. ASSUME NEW r \in rows
      PROVE  /\ ~(r.stamp >= Stamp(began - d)) => now - r.at > d
             /\ r.stamp >= Stamp(began - d) => began - r.at < d + Ms
  <2>1. PICK a \in Int : a = r.at
    BY <1>2 DEF Stamped
  <2>2. PICK b \in Int : b = began - d
    BY <1>1
  <2>3. r.stamp = Stamp(a)
    BY <1>2, <2>1 DEF Stamped
  <2>4. /\ Stamp(a) \in Int /\ Stamp(b) \in Int
        /\ Stamp(a) < Stamp(b) => a < b
        /\ Stamp(a) >= Stamp(b) => b - a < Ms
    BY StampOrder
  <2>5. ~(Stamp(a) >= Stamp(b)) => a < b
    BY <2>4
  <2>6. a < b => now - a > d
    BY <1>1, <2>2
  <2>7. b - a < Ms => began - a < d + Ms
    BY <1>1, <2>2
  <2> QED
    BY <2>1, <2>2, <2>3, <2>4, <2>5, <2>6, <2>7
<1> QED
  BY <1>2 DEF Kept

(* A sweep runs with the retentions of the file. *)
LEMMA SweepInHand ==
    ASSUME StartInv, sweeping # "wait"
    PROVE  cfg.store.dedupe_retention \in Int /\ cfg.store.audit_retention \in Int
<1>1. PICK env \in Environments : file \in Files /\ Loads(file, env) /\ cfg = Complete(file, env)
  BY InHand DEF StartInv
<1>2. PICK s, c : s = file.store /\ c = cfg.store
  OBVIOUS
<1>3. EntryType(s, {"dedupe_retention", "audit_retention"}) /\ c = StoreDefaults(s)
  BY <1>1, <1>2, LoadedConfig
<1> QED
  BY <1>2, <1>3, StoreRuns

(* What the store forgets is older than the retention of the file, whatever *)
(* the moment within a millisecond at which it was written.                 *)
LEMMA OnlyExpiredIsSwept == StartupSpec => [][OnlyExpired]_vars
<1>1. StartInv /\ RowInv /\ [StartupNext]_vars => [OnlyExpired]_vars
  <2> SUFFICES ASSUME StartInv, RowInv, [StartupNext]_vars PROVE OnlyExpired
    OBVIOUS
  <2>1. CASE Running /\ SweepSeen(cfg.store.dedupe_retention)
    <3>1. PICK d \in Int : d = cfg.store.dedupe_retention
      BY <2>1, SweepInHand DEF SweepSeen
    <3>2. audit' = audit /\ seen' = Kept(seen, d)
      BY <2>1, <3>1 DEF SweepSeen
    <3>3. \A r \in seen \ Kept(seen, d) : now - r.at > d
      BY KeptRows DEF RowInv
    <3> QED
      BY <3>1, <3>2, <3>3 DEF OnlyExpired
  <2>2. CASE Running /\ SweepAudit(cfg.store.audit_retention)
    <3>1. PICK d \in Int : d = cfg.store.audit_retention
      BY <2>2, SweepInHand DEF SweepAudit
    <3>2. seen' = seen /\ audit' = IF d > 0 THEN Kept(audit, d) ELSE audit
      BY <2>2, <3>1 DEF SweepAudit, SweepsAudit
    <3>3. \A r \in audit \ Kept(audit, d) : now - r.at > d
      BY KeptRows DEF RowInv
    <3> QED
      BY <3>1, <3>2, <3>3 DEF OnlyExpired
  <2>3. CASE ~(Running /\ \/ SweepSeen(cfg.store.dedupe_retention)
                          \/ SweepAudit(cfg.store.audit_retention))
    <3>1. seen \subseteq seen' /\ audit \subseteq audit'
      <4>1. CASE Running
        BY <2>3, <4>1 DEF Running, MarkSeen, Audit, BeginSweep, SweepFails, rowVars
      <4>2. CASE Load
        BY <4>2 DEF Load, GoOn, retentionVars, rowVars
      <4>3. CASE Open
        BY <4>3 DEF Open, GoOn, retentionVars, rowVars
      <4>4. CASE BuildSource
        BY <4>4 DEF BuildSource, GoOn, retentionVars, rowVars
      <4>5. CASE BuildDest
        BY <4>5 DEF BuildDest, GoOn, retentionVars, rowVars
      <4>6. CASE NewPipeline
        BY <4>6 DEF NewPipeline, GoOn, retentionVars, rowVars
      <4>7. CASE Later \/ Stop \/ UNCHANGED vars
        BY <4>7 DEF Later, Tick, Stop, vars, retentionVars, rowVars
      <4> QED
        BY <4>1, <4>2, <4>3, <4>4, <4>5, <4>6, <4>7 DEF StartupNext
    <3> QED
      BY <3>1 DEF OnlyExpired
  <2> QED
    BY <2>1, <2>2, <2>3
<1> QED
  BY StartAlways, RowAlways, <1>1, PTL DEF StartupSpec

(* A sweep that succeeds leaves nothing behind that had expired by a        *)
(* millisecond when it began.                                               *)
LEMMA SweepsAreThorough == StartupSpec => [][Thorough]_vars
<1>1. StartInv /\ RowInv => [Thorough]_vars
  <2> SUFFICES ASSUME StartInv, RowInv PROVE Thorough
    OBVIOUS
  <2>1. ASSUME SweepSeen(cfg.store.dedupe_retention)
        PROVE  \A r \in seen' : began - r.at < cfg.store.dedupe_retention + Ms
    <3>1. PICK d \in Int : d = cfg.store.dedupe_retention
      BY <2>1, SweepInHand DEF SweepSeen
    <3>2. seen' = Kept(seen, d)
      BY <2>1, <3>1 DEF SweepSeen
    <3>3. \A r \in Kept(seen, d) : began - r.at < d + Ms
      BY KeptRows DEF RowInv
    <3> QED
      BY <3>1, <3>2, <3>3
  <2>2. ASSUME SweepAudit(cfg.store.audit_retention), cfg.store.audit_retention > 0
        PROVE  \A r \in audit' : began - r.at < cfg.store.audit_retention + Ms
    <3>1. PICK d \in Int : d = cfg.store.audit_retention
      BY <2>2, SweepInHand DEF SweepAudit
    <3>2. audit' = Kept(audit, d)
      BY <2>2, <3>1 DEF SweepAudit, SweepsAudit
    <3>3. \A r \in Kept(audit, d) : began - r.at < d + Ms
      BY KeptRows DEF RowInv
    <3> QED
      BY <3>1, <3>2, <3>3
  <2> QED
    BY <2>1, <2>2 DEF Thorough
<1> QED
  BY StartAlways, RowAlways, <1>1, PTL

(* A sweep takes all that has expired, and nothing takes anything else.     *)
THEOREM SweepsAreExact == StartupSpec => SweepExact
  BY OnlyExpiredIsSwept, SweepsAreThorough, PTL DEF SweepExact
=============================================================================
