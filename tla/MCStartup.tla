------------------------------ MODULE MCStartup ------------------------------
(* A small instance of Startup for TLC: every file that differs from a     *)
(* working one in one entry, which is written in every way.                *)
EXTENDS Startup, TLC
CONSTANTS e1

Http(scheme, host) == [parses |-> TRUE, scheme |-> scheme, host |-> host]

File == [type |-> "file", name |-> "a", path |-> "p"]
Geotab == [type |-> "geotab", name |-> "g", database |-> "d", username_env |-> "USER",
           password_env |-> "PASS", seed_from |-> 0]
Stdout == [type |-> "stdout", name |-> "o"]
Webhook == [type |-> "webhook", name |-> "w", url |-> Http("https", "h")]
Rule == [route |-> <<"o">>, match |-> <<>>]

(* An entry with one more field, with another value of one, or without one. *)
With(entry, field, values) == {(field :> v) @@ entry : v \in values}
Without(entry) == {[f \in DOMAIN entry \ {g} |-> entry[f]] : g \in DOMAIN entry}

AnyAdapter(a) ==
    {a} \cup Without(a)
    \cup With(a, "type", {"fiel"}) \cup With(a, "name", {"b"})
    \cup With(a, "poll_interval", {-1, 0, 1, 2, 3}) \cup With(a, "strict", BOOLEAN)
    \cup With(a, "path", {"q"}) \cup With(a, "server", {"my23"})
    \cup With(a, "username_env", {"UNSET"}) \cup With(a, "password_env", {"UNSET"})
    \cup With(a, "seed_from", {-1, 0, 4}) \cup With(a, "results_limit", {-1, 0, 1, 6, 7})
    \cup With(a, "cache_refresh", {-1, 0, 1})

AnyOutput(o) ==
    {o} \cup Without(o)
    \cup With(o, "type", {"stdin"}) \cup With(o, "buffer", {-1, 0, 1})
    \cup With(o, "url", {Http("http", "h"), Http("ftp", "h"), Http("https", ""),
                         [parses |-> FALSE, scheme |-> "", host |-> ""]})
    \cup With(o, "secret_env", {"KEY", "UNSET"}) \cup With(o, "timeout", {-1, 0, 1})
    \cup With(o, "max_attempts", {-1, 0, 1}) \cup With(o, "backoff", {"exponential", "linear"})

AnyMatch ==
    {<<>>} \cup With(<<>>, "severity", {{"high"}, {"high", "urgent"}})
    \cup With(<<>>, "source_type", {"oem", "bus"}) \cup With(<<>>, "fmi", {-1, 0, 31, 32})
    \cup With(<<>>, "tags", {{"t"}, {""}})
    \cup With(<<>>, "spn", {<<[lo |-> 0, hi |-> 0]>>, <<[lo |-> 2, hi |-> 1]>>,
                            <<[lo |-> 1, hi |-> 1], [lo |-> -1, hi |-> 1]>>})

AnyRule ==
    [route : {<<"w", "o">>}, match : AnyMatch]
    \cup [route : {<<>>, <<"z">>, <<"o", "z">>}, match : {<<>>}]

AnyStore ==
    {<<>>} \cup With(<<>>, "dedupe_retention", {-1, 0, 1, 2, 3})
    \cup With(<<>>, "audit_retention", {-1, 0, 1, 3})

Working == [wellFormed |-> TRUE, adapters |-> <<File, Geotab>>,
            outputs |-> <<Stdout, Webhook>>, rules |-> <<Rule>>, store |-> <<>>]

MCFiles ==
    {Working, [Working EXCEPT !.wellFormed = FALSE], [Working EXCEPT !.adapters = <<>>],
     [Working EXCEPT !.outputs = <<>>], [Working EXCEPT !.rules = <<>>]}
    \cup {[Working EXCEPT !.adapters = <<File, a>>] : a \in AnyAdapter(Geotab)}
    \cup {[Working EXCEPT !.adapters = <<a>>] : a \in AnyAdapter(File)}
    \cup {[Working EXCEPT !.adapters = <<File, (("name" :> "a") @@ Geotab)>>]}
    \cup {[Working EXCEPT !.outputs = <<Stdout, o>>] : o \in AnyOutput(Webhook)}
    \cup {[Working EXCEPT !.outputs = <<o>>] : o \in AnyOutput(Stdout)}
    \cup {[Working EXCEPT !.outputs = <<Stdout, (("name" :> "o") @@ Webhook)>>]}
    \cup {[Working EXCEPT !.rules = <<Rule, r>>] : r \in AnyRule}
    \cup {[Working EXCEPT !.store = s] : s \in AnyStore}

Exported == [v \in {"USER", "PASS", "KEY", "UNSET"} |-> IF v = "UNSET" THEN "" ELSE "k"]
MCEnvironments == {Exported, [Exported EXCEPT !["PASS"] = ""]}
==============================================================================
