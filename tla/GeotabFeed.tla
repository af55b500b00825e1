---------------------------- MODULE GeotabFeed ----------------------------
(***************************************************************************)
(* The geotab adapter and the poller that calls it.  The server keeps a    *)
(* feed of records and sends a record again when it changes.  A poll asks  *)
(* for the page after the cursor, looks up what the page refers to, one    *)
(* type of entity at a time and through the cache, and makes events of     *)
(* what it can use; the rest it skips and audits, up to a ceiling.  A      *)
(* cursor is the number of records of the feed up to it.                   *)
(*                                                                         *)
(* The sessions and requests are those of GeotabClient: here a request is  *)
(* answered or fails.  The end of a poll, the dispatch of its page and the *)
(* save of its cursor are one action, as in FileAdapter.                   *)
(***************************************************************************)
EXTENDS Adapter, GeotabCache, Integers, FiniteSets

CONSTANTS
    Records,      \* what the server may send
    Types,        \* the types of entity a record refers to
    Sites,        \* those where a sentinel can stand for an entity
    Diagnostic,   \* the type whose entity gives the SPN
    Ids, NoId,    \* names of entities and of records; none
    Shape,        \* Shape[id]: "ordinary", or the sentinel: "none", "value", "unknown"
    Negative,     \* the diagnostics whose code is an SPN below zero
    Limit,        \* results_limit
    Seed,         \* seed_from: a date, or a time back from the poll
    Sliding,      \* whether it is the latter
    MaxFeed, MaxRestarts   \* bounds: records sent, restarts

Key == Types \X Ids

ASSUME FeedAssumption ==
    /\ Records \subseteq [form : {"object", "other"}, id : Ids \cup {NoId},
                          version : Ids \cup {NoId}, content : Ids,
                          ref : [Types -> Ids \cup {NoId}], valid : BOOLEAN]
    /\ Sites \subseteq Types /\ Diagnostic \in Types \ Sites
    /\ NoId \notin Ids
    /\ Shape \in [Ids -> {"ordinary", "none", "value", "unknown"}]
    /\ Negative \subseteq Ids
    /\ Limit \in Nat \ {0}
    /\ Seed \in Nat /\ Sliding \in BOOLEAN
    /\ MaxFeed \in Nat /\ MaxRestarts \in Nat

(* The server gives a new version to what changed, and none is like a hash. *)
ASSUME VersionAssumption ==
    \A r, s \in Records : r.version # NoId =>
        /\ r.version # s.content
        /\ r.id = s.id /\ r.version = s.version => r.content = s.content

VARIABLES
    feed,        \* the server: its records and their dates
    cursor,      \* the stored cursor
    at,          \* the one the poller holds
    backlog,     \* what Backlog answers
    pc,          \* "idle", "enrich", "fetch" or "put"
    first, last, \* the page is what the feed has from first to last
    todo,        \* types still to be resolved
    asking,      \* names the server is asked for
    fetched,     \* names the server knew, still to be put in the cache
    resolved,    \* names that were resolved for this page
    \* bookkeeping of the model, not of the program
    seeded,      \* the date that the last cold start asked for
    tried,       \* names that the server was asked for, for this page
    delivered,   \* the records whose events were new to the pipeline
    skipped,     \* positions of skipped records
    restarts

serverVars == <<feed, clock>>
pageVars == <<first, last, seeded>>
lookupVars == <<todo, asking, fetched, resolved, tried>>
outVars == <<cursor, delivered, skipped>>
vars == <<serverVars, cacheVars, at, backlog, pc, pageVars, lookupVars, outVars, restarts>>

NoCursor == -1

-----------------------------------------------------------------------------
(* What a record is made of. *)

(* Other types have names that only look like sentinels. *)
SentinelAt(t, id) == IF t \in Sites THEN Shape[id] ELSE "ordinary"

(* Types of the references of r that have an entity behind them. *)
Looked(r) == {t \in Types : r.ref[t] # NoId /\ SentinelAt(t, r.ref[t]) = "ordinary"}

Name(r, t) == <<t, r.ref[t]>>

(* mutant: the id of the record alone *)
EventIdBare(r) == <<r.id, NoId>>
(* A revision is named by its version, or by what it says. *)
EventId(r) == <<r.id, IF r.version # NoId THEN r.version ELSE r.content>>

(* What the lookups did not find costs a field, and is named on the event. *)
Unresolved(r) == {t \in Looked(r) : Name(r, t) \notin resolved}

(* An event has to have an id and be valid; an SPN must not be negative. *)
Usable(r) ==
    /\ r.form = "object" /\ r.id # NoId /\ r.valid
    /\ ~(Name(r, Diagnostic) \in resolved /\ r.ref[Diagnostic] \in Negative)

-----------------------------------------------------------------------------
Init ==
    /\ feed = <<>> /\ clock = 0
    /\ entries = <<>> /\ order = <<>>
    /\ cursor = NoCursor /\ at = NoCursor
    /\ backlog = FALSE
    /\ pc = "idle"
    /\ first = 0 /\ last = 0 /\ seeded = 0
    /\ todo = {} /\ asking = {} /\ fetched = {} /\ resolved = {} /\ tried = {}
    /\ delivered = {} /\ skipped = {}
    /\ restarts = 0

(* A record is sent when it is new and when it has changed.  What is sent  *)
(* while a poll is under way is not in its page: it might as well have     *)
(* been sent after it, and so it is.                                       *)
Publish ==
    /\ pc = "idle"
    /\ Len(feed) < MaxFeed
    /\ \E r \in Records :
          /\ feed # <<>> => feed[Len(feed)].record # r
          /\ feed' = Append(feed, [record |-> r, date |-> clock])
    /\ UNCHANGED <<clock, cacheVars, at, backlog, pc, pageVars, lookupVars, outVars, restarts>>

(* Time passes between polls, and while the server is asked. *)
Tick ==
    /\ pc \in {"idle", "fetch"}
    /\ clock < MaxClock
    /\ clock' = clock + 1
    /\ UNCHANGED <<feed, cacheVars, at, backlog, pc, pageVars, lookupVars, outVars, restarts>>

-----------------------------------------------------------------------------
(* Poll. *)

(* What a poll knows of its page goes with it. *)
Leave ==
    /\ pc' = "idle"
    /\ first' = 0 /\ last' = 0
    /\ todo' = {} /\ asking' = {} /\ fetched' = {} /\ resolved' = {} /\ tried' = {}

Least(a, b) == IF a < b THEN a ELSE b

SeedDate == IF ~Sliding THEN Seed ELSE IF clock < Seed THEN 0 ELSE clock - Seed

Page == {feed[i].record : i \in (first + 1)..last}
Objects == {r \in Page : r.form = "object"}
(* mutant: what enrich asks for is not what normalize explains *)
WantedAll(t) == {Name(r, t) : r \in {q \in Objects : q.ref[t] # NoId}}
Wanted(t) == {Name(r, t) : r \in {q \in Objects : t \in Looked(q)}}

(* A cold start goes by the date, every other poll by the cursor. *)
From(n) ==
    IF at = NoCursor
    THEN \A i \in DOMAIN feed : i <= n <=> feed[i].date < SeedDate
    ELSE n = at

GetFeed ==
    /\ pc = "idle"
    /\ \E n \in 0..Len(feed) : From(n) /\ first' = n
    /\ last' = Least(first' + Limit, Len(feed))
    /\ seeded' = IF at = NoCursor THEN SeedDate ELSE seeded
    /\ UNCHANGED <<serverVars, cacheVars, at, asking, fetched, outVars, restarts>>
    /\ backlog' = FALSE
    /\ todo' = {t \in Types : Wanted(t)' # {}}
    /\ resolved' = {} /\ tried' = {}
    /\ pc' = "enrich"

(* No answer, or one without toVersion. *)
GetFeedFails ==
    /\ pc = "idle"
    /\ backlog' = FALSE
    /\ UNCHANGED <<serverVars, cacheVars, at, pc, pageVars, lookupVars, outVars, restarts>>

Misses(t) == {k \in Wanted(t) : ~Fresh(k)}

(* Resolve, when the cache has it all. *)
ResolveCached(t) ==
    /\ pc = "enrich" /\ t \in todo
    /\ Misses(t) = {}
    /\ todo' = todo \ {t}
    /\ resolved' = resolved \cup Wanted(t)
    /\ UNCHANGED <<serverVars, cacheVars, at, backlog, pc, pageVars, asking, fetched, tried,
                   outVars, restarts>>

(* Resolve, when the server has to be asked for the rest, in one request.  *)
Ask(t) ==
    /\ pc = "enrich" /\ t \in todo
    /\ Misses(t) # {}
    /\ todo' = todo \ {t}
    /\ resolved' = resolved \cup (Wanted(t) \ Misses(t))
    /\ asking' = Misses(t)
    /\ tried' = tried \cup Misses(t)
    /\ pc' = "fetch"
    /\ UNCHANGED <<serverVars, cacheVars, at, backlog, pageVars, fetched, outVars, restarts>>

(* The server leaves out what it does not know. *)
Fetch ==
    /\ pc = "fetch"
    /\ fetched' \in SUBSET asking
    /\ resolved' = resolved \cup fetched'
    /\ asking' = {}
    /\ pc' = IF fetched' = {} THEN "enrich" ELSE "put"
    /\ UNCHANGED <<serverVars, cacheVars, at, backlog, pageVars, todo, tried, outVars, restarts>>

(* mutant: a lookup that fails ends the poll *)
FetchFailsPoll ==
    /\ pc = "fetch"
    /\ Leave
    /\ UNCHANGED <<serverVars, cacheVars, at, backlog, seeded, outVars, restarts>>

FetchFails ==
    /\ pc = "fetch"
    /\ asking' = {}
    /\ pc' = "enrich"
    /\ UNCHANGED <<serverVars, cacheVars, at, backlog, pageVars, todo, fetched, resolved, tried,
                   outVars, restarts>>

PutFetched ==
    /\ pc = "put"
    /\ \E k \in fetched :
          /\ Put(k)
          /\ fetched' = fetched \ {k}
    /\ pc' = IF fetched' = {} THEN "enrich" ELSE "put"
    /\ UNCHANGED <<serverVars, at, backlog, pageVars, todo, asking, resolved, tried, outVars, restarts>>

Good == {i \in (first + 1)..last : Usable(feed[i].record)}
Bad == ((first + 1)..last) \ Good

Passes == ~SkipCeilingExceeded(last - first, Cardinality(Bad))

(* mutant: a page is full of events, not of records *)
FullOfEvents == Cardinality(Good) >= Limit
FullPage == last - first >= Limit

(* MarkSeen: of two events with one id, the first one counts. *)
New(E) == {r \in E : \A d \in delivered : EventId(d) # EventId(r)}

(* toVersion is saved if it differs, or the write fails. *)
Save ==
    \/ last # at /\ cursor' = last
    \/ UNCHANGED cursor

NextCursorAtEnd == Len(feed)    \* mutant: the newest version of the server
NextCursor == last

PollOK ==
    /\ pc = "enrich" /\ todo = {}
    /\ Passes
    /\ delivered' = delivered \cup New({feed[i].record : i \in Good})
    /\ skipped' = skipped \cup Bad
    /\ backlog' = FullPage
    /\ at' = NextCursor
    /\ Save
    /\ Leave
    /\ UNCHANGED <<serverVars, cacheVars, seeded, restarts>>

CeilingFails ==
    /\ pc = "enrich" /\ todo = {}
    /\ ~Passes
    /\ Leave
    /\ UNCHANGED <<serverVars, cacheVars, at, backlog, seeded, outVars, restarts>>

(* The program starts again, with an empty cache, from the stored cursor or *)
(* from the seed if it cannot be read.                                      *)
Restart ==
    /\ restarts < MaxRestarts
    /\ restarts' = restarts + 1
    /\ at' \in {cursor, NoCursor}
    /\ backlog' = FALSE
    /\ entries' = <<>> /\ order' = <<>>
    /\ Leave
    /\ UNCHANGED <<serverVars, seeded, outVars>>

Poll ==
    \/ GetFeed \/ PollOK
    \/ \E t \in Types : ResolveCached(t) \/ Ask(t)
    \/ Fetch \/ FetchFails \/ PutFetched
    \/ CeilingFails

Next == Publish \/ Tick \/ Poll \/ GetFeedFails \/ Restart

Spec == Init /\ [][Next]_vars

(* The poller polls on, every request ends, and the feed can be read now   *)
(* and then.  Nothing is assumed of the lookups: they may all fail.        *)
Fairness == WF_vars(Poll) /\ SF_vars(GetFeed)

LiveSpec == Spec /\ Fairness

-----------------------------------------------------------------------------
(* Properties. *)

TypeOK ==
    /\ feed \in Seq([record : Records, date : 0..MaxClock]) /\ Len(feed) <= MaxFeed
    /\ clock \in 0..MaxClock
    /\ DOMAIN entries \subseteq Key /\ \A k \in DOMAIN entries : entries[k] \in 0..clock
    /\ order \in Seq(Key)
    /\ cursor \in {NoCursor} \cup 0..Len(feed) /\ at \in {NoCursor} \cup 0..Len(feed)
    /\ backlog \in BOOLEAN
    /\ pc \in {"idle", "enrich", "fetch", "put"}
    /\ first \in 0..Len(feed) /\ last \in first..Len(feed) /\ last - first <= Limit
    /\ seeded \in 0..MaxClock + Seed
    /\ todo \subseteq Types
    /\ asking \subseteq tried /\ fetched \subseteq resolved
    /\ resolved \subseteq Key /\ tried \subseteq Key
    /\ skipped \subseteq 1..Len(feed)
    /\ restarts \in 0..MaxRestarts

(* docs/adapters.md: a reference is named as unresolved because a lookup    *)
(* was tried and failed, and a sentinel is neither looked up nor named.  So *)
(* what enrich asks for and what normalize explains agree: of a new event, *)
(* the unresolved references are those the server was asked for in vain.    *)
LookupsExplained ==
    [][PollOK => \A r \in {feed[i].record : i \in Good} :
          Unresolved(r) = {t \in Types : Name(r, t) \in tried \ resolved}]_vars

Handled(i) ==
    \/ i \in skipped \/ feed[i].date < seeded
    \/ \E r \in delivered : EventId(r) = EventId(feed[i].record)

(* No cursor, held or stored, is past a record that was neither delivered  *)
(* nor skipped nor older than the date a cold start asked for.             *)
CursorAccounted ==
    \A i \in DOMAIN feed : i <= at \/ i <= cursor => Handled(i)

(* docs/adapters.md: a revision that changed anything survives dedupe.  The *)
(* record behind a cursor was delivered as it is, not as it was before.     *)
RevisionsSurvive ==
    \A i \in DOMAIN feed :
        i <= at /\ i \notin skipped /\ feed[i].date >= seeded =>
            \E r \in delivered : r.id = feed[i].record.id
                                /\ r.content = feed[i].record.content

(* A successful poll without a backlog has left nothing behind, however    *)
(* much of the page was unusable.                                          *)
BacklogTold == [][PollOK /\ ~backlog' => at' >= Len(feed)]_vars

(* A page with more unusable records than the ceiling lets pass, perhaps:  *)
(* whether the diagnostic of one is resolved decides it.                   *)
Doubtful(r) == r.form # "object" \/ r.id = NoId \/ ~r.valid \/ r.ref[Diagnostic] \in Negative
Stuck ==
    \E n \in 0..Len(feed) :
        LET page == (n + 1)..Least(n + Limit, Len(feed))
        IN  From(n) /\ SkipCeilingExceeded(Cardinality(page),
                           Cardinality({i \in page : Doubtful(feed[i].record)}))

(* docs/adapters.md: a failed lookup never drops an event.  Nor does it     *)
(* hold one up: the feed is read to its end although every lookup may fail, *)
(* unless the ceiling stops it.                                             *)
FeedIsRead ==
    \A i \in 1..MaxFeed : i <= Len(feed) ~> (i <= at \/ []Stuck)
=============================================================================
