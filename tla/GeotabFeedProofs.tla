------------------------- MODULE GeotabFeedProofs -------------------------
(***************************************************************************)
(* The safety of GeotabFeed, for any records, any sizes of page and cache, *)
(* and lookups that fail in any way.                                       *)
(***************************************************************************)
EXTENDS GeotabFeed, TLAPS

Entry == [record : Records, date : 0..MaxClock]

(* The parts of TypeOK that the actions disturb together. *)
FeedType == feed \in Seq(Entry) /\ Len(feed) <= MaxFeed /\ clock \in 0..MaxClock
PollType ==
    /\ cursor \in {NoCursor} \cup 0..Len(feed) /\ at \in {NoCursor} \cup 0..Len(feed)
    /\ backlog \in BOOLEAN
    /\ pc \in {"idle", "enrich", "fetch", "put"}
    /\ seeded \in 0..MaxClock + Seed
    /\ skipped \subseteq 1..Len(feed)
    /\ restarts \in 0..MaxRestarts
PageType ==
    /\ first \in 0..Len(feed) /\ last \in first..Len(feed) /\ last - first <= Limit
LookupType ==
    /\ todo \subseteq Types
    /\ asking \subseteq tried /\ fetched \subseteq resolved
    /\ resolved \subseteq Key /\ tried \subseteq Key
CacheType ==
    /\ DOMAIN entries \subseteq Key /\ \A k \in DOMAIN entries : entries[k] \in 0..clock
    /\ order \in Seq(Key)

LEMMA Parts ==
    TypeOK <=> FeedType /\ CacheType /\ PollType /\ PageType /\ LookupType
BY DEF TypeOK, FeedType, CacheType, PollType, PageType, LookupType, Entry

(* What TypeOK does not say: names are asked for, and put, only while the  *)
(* poll is at it.  Without that the next page would inherit them.          *)
Quiet ==
    /\ pc # "fetch" => asking = {}
    /\ pc # "put" => fetched = {}

Typing == TypeOK /\ CacheListed /\ Quiet

(* Numbers, and what the feed consists of. *)
LEMMA Numbers ==
    ASSUME TypeOK
    PROVE  /\ MaxFeed \in Nat /\ MaxClock \in Nat /\ MaxRestarts \in Nat
           /\ Limit \in Nat /\ Limit >= 1 /\ Seed \in Nat
           /\ CacheSize \in Nat /\ CacheSize >= 1
           /\ clock \in Nat /\ clock <= MaxClock
           /\ Len(feed) \in Nat /\ DOMAIN feed = 1..Len(feed)
           /\ \A i \in 1..Len(feed) :
                 /\ feed[i].record \in Records
                 /\ feed[i].date \in Nat /\ feed[i].date <= MaxClock
           /\ first \in Nat /\ last \in Nat /\ first <= last /\ last <= Len(feed)
           /\ at \in Int /\ cursor \in Int /\ at <= Len(feed) /\ cursor <= Len(feed)
<1>1. feed \in Seq(Entry)
  BY DEF TypeOK, Entry
<1>2. \A i \in 1..Len(feed) : feed[i] \in Entry
  BY <1>1
<1> QED
  BY <1>1, <1>2, FeedAssumption, CacheAssumption DEF TypeOK, Entry, NoCursor

(* Seeds are dates. *)
LEMMA Seeds ==
    ASSUME TypeOK
    PROVE  seeded \in Nat /\ SeedDate \in Nat
<1>1. seeded \in Nat /\ clock \in Nat
  BY FeedAssumption, CacheAssumption DEF TypeOK
<1> QED
  BY <1>1, FeedAssumption DEF SeedDate

(* Records have the fields that FeedAssumption gives them. *)
LEMMA Fields ==
    ASSUME NEW r \in Records
    PROVE  \A t \in Types : r.ref[t] \in Ids \cup {NoId}
BY FeedAssumption

(* What is looked up is a key. *)
LEMMA WantedType ==
    ASSUME TypeOK, NEW t \in Types
    PROVE  Wanted(t) \subseteq Key
<1>1. \A r \in Page : r \in Records
  BY Numbers DEF Page
<1>2. ASSUME NEW r \in Objects, t \in Looked(r)
      PROVE  Name(r, t) \in Key
  <2>1. r \in Records
    BY <1>1 DEF Objects
  <2>2. r.ref[t] \in Ids
    BY <1>2, <2>1, Fields DEF Looked
  <2> QED
    BY <2>2 DEF Name, Key
<1> QED
  BY <1>2 DEF Wanted

-----------------------------------------------------------------------------
(* The cache. *)

NamesIn(q) == {q[i] : i \in DOMAIN q}
Distinct(q) == \A i, j \in DOMAIN q : q[i] = q[j] => i = j

(* Without its head a list has the other names, each once. *)
LEMMA TailDistinct ==
    ASSUME NEW S, NEW q \in Seq(S), Len(q) > 0, Distinct(q)
    PROVE  /\ Tail(q) \in Seq(S) /\ Len(Tail(q)) = Len(q) - 1
           /\ NamesIn(Tail(q)) = NamesIn(q) \ {Head(q)}
           /\ Distinct(Tail(q))
<1>1. Len(q) \in Nat /\ DOMAIN q = 1..Len(q) /\ Head(q) = q[1]
  OBVIOUS
<1>2. /\ Tail(q) \in Seq(S) /\ Len(Tail(q)) = Len(q) - 1
      /\ \A i \in 1..(Len(q) - 1) : Tail(q)[i] = q[i + 1]
  OBVIOUS
<1>3. DOMAIN Tail(q) = 1..(Len(q) - 1)
  BY <1>1, <1>2
<1>4. \A i \in 1..(Len(q) - 1) : i \in Nat /\ i + 1 \in 1..Len(q) /\ i + 1 # 1
  BY <1>1
<1>5. ASSUME NEW i \in DOMAIN Tail(q), NEW j \in DOMAIN Tail(q), Tail(q)[i] = Tail(q)[j]
      PROVE  i = j
  <2>1. i + 1 = j + 1
    BY <1>1, <1>2, <1>3, <1>4, <1>5 DEF Distinct
  <2> QED
    BY <1>3, <1>4, <2>1
<1>6. ASSUME NEW i \in DOMAIN Tail(q)
      PROVE  Tail(q)[i] \in NamesIn(q) \ {Head(q)}
  <2>1. Tail(q)[i] = q[i + 1] /\ i + 1 \in DOMAIN q /\ 1 \in DOMAIN q /\ i + 1 # 1
    BY <1>1, <1>2, <1>3, <1>4
  <2>2. q[i + 1] # q[1]
    BY <2>1 DEF Distinct
  <2> QED
    BY <1>1, <2>1, <2>2 DEF NamesIn
<1>7. ASSUME NEW i \in DOMAIN q, q[i] # Head(q)
      PROVE  q[i] \in NamesIn(Tail(q))
  <2>1. i # 1 /\ i \in 1..Len(q)
    BY <1>1, <1>7
  <2>2. i - 1 \in 1..(Len(q) - 1) /\ (i - 1) + 1 = i
    BY <1>1, <2>1
  <2>3. Tail(q)[i - 1] = q[i]
    BY <1>2, <2>2
  <2> QED
    BY <1>3, <2>2, <2>3 DEF NamesIn
<1>8. NamesIn(Tail(q)) = NamesIn(q) \ {Head(q)}
  BY <1>6, <1>7 DEF NamesIn
<1>9. Distinct(Tail(q))
  BY <1>5 DEF Distinct
<1> QED
  BY <1>2, <1>8, <1>9

(* A new name at its end leaves a list with each name once. *)
LEMMA AppendDistinct ==
    ASSUME NEW S, NEW q \in Seq(S), NEW k \in S, Distinct(q), k \notin NamesIn(q)
    PROVE  /\ Append(q, k) \in Seq(S) /\ Len(Append(q, k)) = Len(q) + 1
           /\ NamesIn(Append(q, k)) = NamesIn(q) \cup {k}
           /\ Distinct(Append(q, k))
<1> DEFINE r == Append(q, k)
<1>1. Len(q) \in Nat /\ DOMAIN q = 1..Len(q)
  OBVIOUS
<1>2. /\ r \in Seq(S) /\ Len(r) = Len(q) + 1
      /\ \A i \in 1..Len(q) : r[i] = q[i]
      /\ r[Len(q) + 1] = k
  OBVIOUS
<1>3. DOMAIN r = 1..(Len(q) + 1)
  BY <1>2
<1> HIDE DEF r
<1>4. \A i \in DOMAIN r : i \in DOMAIN q \/ i = Len(q) + 1
  BY <1>1, <1>3
<1>5. \A i \in DOMAIN q : i \in DOMAIN r /\ r[i] = q[i] /\ r[i] # k
  BY <1>1, <1>2, <1>3 DEF NamesIn
<1>6. Len(q) + 1 \in DOMAIN r
  BY <1>1, <1>3
<1>7. NamesIn(r) = NamesIn(q) \cup {k}
  BY <1>2, <1>4, <1>5, <1>6 DEF NamesIn
<1>8. Distinct(r)
  <2> SUFFICES ASSUME NEW i \in DOMAIN r, NEW j \in DOMAIN r, r[i] = r[j]
               PROVE  i = j
    BY DEF Distinct
  <2>1. CASE i \in DOMAIN q /\ j \in DOMAIN q
    <3>1. q[i] = q[j]
      BY <1>5, <2>1
    <3> QED
      BY <2>1, <3>1 DEF Distinct
  <2>2. CASE i \notin DOMAIN q \/ j \notin DOMAIN q
    <3>1. r[i] = k /\ r[j] = k
      BY <1>2, <1>4, <2>2
    <3> QED
      BY <1>4, <1>5, <3>1
  <2> QED
    BY <2>1, <2>2
<1> QED
  BY <1>2, <1>7, <1>8 DEF r

(* CacheListed in these words. *)
LEMMA Listed ==
    CacheListed <=> Len(order) <= CacheSize /\ DOMAIN entries = NamesIn(order) /\ Distinct(order)
BY DEF CacheListed, NamesIn, Distinct

(* A put keeps the list of names and the entries together. *)
LEMMA PutListed ==
    ASSUME order \in Seq(Key), CacheListed, NEW k \in Key, Put(k)
    PROVE  /\ CacheListed'
           /\ order' \in Seq(Key)
           /\ DOMAIN entries' \subseteq DOMAIN entries \cup {k}
           /\ \A n \in DOMAIN entries' : entries'[n] = IF n = k THEN clock ELSE entries[n]
<1>1. CASE k \in DOMAIN entries
  <2>1. entries' = [entries EXCEPT ![k] = clock] /\ order' = order
    BY <1>1 DEF Put
  <2>2. DOMAIN entries' = DOMAIN entries
    BY <2>1
  <2>3. CacheListed'
    BY <2>1, <2>2 DEF CacheListed
  <2>4. \A n \in DOMAIN entries' : entries'[n] = IF n = k THEN clock ELSE entries[n]
    BY <2>1, <2>2
  <2> QED
    BY <2>1, <2>2, <2>3, <2>4
<1>2. CASE k \notin DOMAIN entries
  <2> DEFINE rest == IF Full THEN Tail(order) ELSE order
  <2>1. /\ entries' = [n \in Kept \cup {k} |-> IF n = k THEN clock ELSE entries[n]]
        /\ order' = Append(rest, k)
    BY <1>2 DEF Put
  <2>2. /\ Len(order) \in Nat /\ Len(order) <= CacheSize /\ CacheSize \in Nat /\ CacheSize >= 1
        /\ DOMAIN entries = NamesIn(order) /\ Distinct(order)
    BY Listed, CacheAssumption
  <2>3. /\ rest \in Seq(Key) /\ Len(rest) < CacheSize
        /\ NamesIn(rest) = Kept /\ Distinct(rest)
    <3>1. CASE Full
      <4>1. Len(order) = CacheSize /\ Len(order) > 0
        BY <2>2, <3>1 DEF Full
      <4> QED
        BY <2>2, <3>1, <4>1, TailDistinct DEF Kept
    <3>2. CASE ~Full
      BY <2>2, <3>2 DEF Full, Kept
    <3> QED
      BY <3>1, <3>2
  <2> HIDE DEF rest
  <2>4. Kept \subseteq DOMAIN entries
    BY DEF Kept
  <2>5. k \notin NamesIn(rest)
    BY <1>2, <2>3, <2>4
  <2>6. /\ order' \in Seq(Key) /\ Len(order') = Len(rest) + 1
        /\ NamesIn(order') = Kept \cup {k} /\ Distinct(order')
    BY <2>1, <2>3, <2>5, AppendDistinct
  <2>7. DOMAIN entries' = Kept \cup {k}
    BY <2>1
  <2>8. Len(order') <= CacheSize
    <3>1. Len(rest) \in Nat
      BY <2>3
    <3> QED
      BY <2>2, <2>3, <2>6, <3>1
  <2>9. CacheListed'
    BY <2>6, <2>7, <2>8 DEF CacheListed, NamesIn, Distinct
  <2> QED
    BY <2>1, <2>4, <2>6, <2>7, <2>9
<1> QED
  BY <1>1, <1>2

-----------------------------------------------------------------------------
(* Types. *)

LEMMA TypingInit == Init => Typing
<1> SUFFICES ASSUME Init PROVE Typing
  OBVIOUS
<1>1. CacheListed /\ CacheType
  BY CacheAssumption DEF Init, CacheListed, CacheType
<1>2. MaxFeed \in Nat /\ MaxClock \in Nat /\ Seed \in Nat /\ Limit \in Nat /\ MaxRestarts \in Nat
  BY FeedAssumption, CacheAssumption
<1>3. FeedType
  BY <1>2 DEF Init, FeedType
<1>4. PollType /\ PageType
  <2>1. Len(feed) = 0
    BY DEF Init
  <2>2. PollType
    <3>1. /\ cursor \in {NoCursor} /\ at \in {NoCursor} /\ backlog \in BOOLEAN
          /\ pc = "idle" /\ skipped = {}
      BY DEF Init
    <3>2. seeded \in 0..MaxClock + Seed /\ restarts \in 0..MaxRestarts
      BY <1>2 DEF Init
    <3> QED
      BY <3>1, <3>2 DEF PollType
  <2>3. PageType
    BY <1>2, <2>1 DEF Init, PageType
  <2> QED
    BY <2>2, <2>3
<1>5. LookupType
  BY DEF Init, LookupType
<1> QED
  BY <1>1, <1>3, <1>4, <1>5, Parts DEF Init, Typing, Quiet

(* A poll that ends, however it does, leaves nothing of its page. *)
LEMMA LeaveType ==
    ASSUME TypeOK, Leave, UNCHANGED feed
    PROVE  /\ pc' = "idle"
           /\ PageType' /\ LookupType' /\ Quiet'
BY Numbers DEF Leave, PageType, LookupType, Quiet

(* A page from f of a feed of n with a limit of l. *)
LEMMA LeastWithin ==
    ASSUME NEW f \in Nat, NEW l \in Nat, NEW n \in Nat, f <= n
    PROVE  Least(f + l, n) \in f..n /\ Least(f + l, n) - f <= l
BY DEF Least

(* The page that was asked for is a part of the feed, not over the limit.  *)
LEMMA PageRead ==
    ASSUME TypeOK, GetFeed
    PROVE  /\ UNCHANGED feed
           /\ From(first') /\ first' \in 0..Len(feed)
           /\ last' = Least(first' + Limit, Len(feed))
           /\ PageType'
           /\ seeded' \in 0..MaxClock + Seed
<1>1. /\ UNCHANGED feed /\ From(first') /\ first' \in 0..Len(feed)
      /\ last' = Least(first' + Limit, Len(feed))
  BY DEF GetFeed, serverVars
<1>2. PageType'
  <2>1. first' \in Nat /\ first' <= Len(feed) /\ Len(feed) \in Nat /\ Limit \in Nat
    BY <1>1, Numbers
  <2>2. last' \in first'..Len(feed) /\ last' - first' <= Limit
    BY <1>1, <2>1, LeastWithin
  <2> QED
    BY <1>1, <2>1, <2>2 DEF PageType
<1>3. SeedDate \in 0..MaxClock + Seed
  BY FeedAssumption, Numbers DEF SeedDate
<1>4. seeded' \in 0..MaxClock + Seed
  BY <1>3 DEF GetFeed, TypeOK
<1> QED
  BY <1>1, <1>2, <1>4

LEMMA TypingNext == Typing /\ [Next]_vars => Typing'
<1> SUFFICES ASSUME Typing, [Next]_vars PROVE Typing'
  OBVIOUS
<1> USE DEF serverVars, cacheVars, pageVars, lookupVars, outVars
<1>0. /\ TypeOK /\ CacheListed /\ Quiet
      /\ FeedType /\ CacheType /\ PollType /\ PageType /\ LookupType
  BY Parts DEF Typing
<1> USE <1>0
<1>n. /\ clock \in Nat /\ MaxClock \in Nat /\ MaxRestarts \in Nat /\ CacheSize \in Nat
      /\ first \in Nat /\ last \in Nat /\ last <= Len(feed) /\ Len(feed) \in Nat
  BY Numbers
<1>a. ASSUME UNCHANGED cacheVars, UNCHANGED clock
      PROVE  CacheListed' /\ CacheType'
  BY <1>a DEF CacheListed, CacheType
<1>b. ASSUME UNCHANGED serverVars
      PROVE  FeedType'
  BY <1>b DEF FeedType
<1>c. ASSUME FeedType', CacheType', PollType', PageType', LookupType', CacheListed', Quiet'
      PROVE  Typing'
  BY <1>c, Parts DEF Typing, TypeOK, FeedType, CacheType, PollType, PageType, LookupType, Entry
<1>1. CASE Publish
  <2>1. PICK r \in Records : feed' = Append(feed, [record |-> r, date |-> clock])
    BY <1>1 DEF Publish
  <2>2. [record |-> r, date |-> clock] \in Entry
    BY DEF Entry, FeedType
  <2>3. feed' \in Seq(Entry) /\ Len(feed') = Len(feed) + 1
    BY <2>1, <2>2 DEF FeedType
  <2>4. FeedType'
    <3>1. Len(feed) < MaxFeed /\ UNCHANGED clock
      BY <1>1 DEF Publish
    <3> QED
      BY <2>3, <3>1, Numbers DEF FeedType
  <2>5. PollType'
    <3>1. UNCHANGED <<cursor, at, backlog, pc, seeded, skipped, restarts>>
      BY <1>1 DEF Publish
    <3>n. Len(feed) \in Nat
      BY Numbers
    <3>2. 0..Len(feed) \subseteq 0..Len(feed') /\ 1..Len(feed) \subseteq 1..Len(feed')
      BY <2>3, <3>n
    <3> QED
      BY <3>1, <3>2 DEF PollType
  <2>6. PageType'
    <3>1. UNCHANGED <<first, last>>
      BY <1>1 DEF Publish
    <3> QED
      BY <2>3, <3>1, Numbers DEF PageType
  <2>7. LookupType' /\ Quiet'
    BY <1>1 DEF Publish, LookupType, Quiet
  <2> QED
    BY <1>1, <1>a, <1>c, <2>4, <2>5, <2>6, <2>7 DEF Publish
<1>2. CASE Tick
  <2>1. CacheListed' /\ CacheType'
    <3>1. clock' = clock + 1 /\ UNCHANGED <<entries, order>>
      BY <1>2 DEF Tick
    <3> QED
      BY <1>n, <3>1 DEF CacheListed, CacheType
  <2>2. FeedType'
    <3>1. clock' = clock + 1 /\ clock < MaxClock /\ UNCHANGED feed
      BY <1>2 DEF Tick
    <3> QED
      BY <1>n, <3>1 DEF FeedType
  <2>3. PollType' /\ PageType'
    BY <1>2 DEF Tick, PollType, PageType
  <2>4. LookupType' /\ Quiet'
    BY <1>2 DEF Tick, LookupType, Quiet
  <2> QED
    BY <1>c, <2>1, <2>2, <2>3, <2>4
<1>3. CASE GetFeed
  <2>1. PollType'
    BY <1>3, PageRead DEF GetFeed, PollType
  <2>2. LookupType' /\ Quiet'
    BY <1>3 DEF GetFeed, LookupType, Quiet
  <2> QED
    BY <1>3, <1>a, <1>b, <1>c, <2>1, <2>2, PageRead DEF GetFeed
<1>4. CASE GetFeedFails
  BY <1>4, <1>a, <1>b, <1>c
     DEF GetFeedFails, PollType, PageType, LookupType, Quiet
<1>5. ASSUME NEW t \in Types, ResolveCached(t) PROVE Typing'
  <2>1. LookupType' /\ Quiet'
    BY <1>5, WantedType DEF ResolveCached, LookupType, Quiet
  <2>2. PollType' /\ PageType'
    BY <1>5 DEF ResolveCached, PollType, PageType
  <2> QED
    BY <1>5, <1>a, <1>b, <1>c, <2>1, <2>2 DEF ResolveCached
<1>6. ASSUME NEW t \in Types, Ask(t) PROVE Typing'
  <2>1. Misses(t) \subseteq Key /\ Wanted(t) \subseteq Key
    BY WantedType DEF Misses
  <2>2. LookupType' /\ Quiet'
    BY <1>6, <2>1 DEF Ask, LookupType, Quiet
  <2>3. PollType' /\ PageType'
    BY <1>6 DEF Ask, PollType, PageType
  <2> QED
    BY <1>6, <1>a, <1>b, <1>c, <2>2, <2>3 DEF Ask
<1>7. CASE Fetch
  <2>1. LookupType' /\ Quiet'
    BY <1>7 DEF Fetch, LookupType, Quiet
  <2>2. PollType' /\ PageType'
    BY <1>7 DEF Fetch, PollType, PageType
  <2> QED
    BY <1>7, <1>a, <1>b, <1>c, <2>1, <2>2 DEF Fetch
<1>8. CASE FetchFails
  <2>1. LookupType' /\ Quiet'
    BY <1>8 DEF FetchFails, LookupType, Quiet
  <2>2. PollType' /\ PageType'
    BY <1>8 DEF FetchFails, PollType, PageType
  <2> QED
    BY <1>8, <1>a, <1>b, <1>c, <2>1, <2>2 DEF FetchFails
<1>9. CASE PutFetched
  <2>1. PICK k \in fetched : Put(k) /\ fetched' = fetched \ {k}
    BY <1>9 DEF PutFetched
  <2>2. k \in Key
    BY DEF LookupType
  <2>3. clock' = clock
    BY <1>9 DEF PutFetched
  <2>4. CacheListed' /\ order' \in Seq(Key) /\ DOMAIN entries' \subseteq Key
    BY <2>1, <2>2, PutListed DEF CacheType
  <2>5. \A n \in DOMAIN entries' : entries'[n] \in 0..clock'
    BY <1>n, <2>1, <2>2, <2>3, PutListed DEF CacheType
  <2>6. LookupType' /\ Quiet'
    BY <1>9, <2>1 DEF PutFetched, LookupType, Quiet
  <2>7. PollType' /\ PageType'
    BY <1>9 DEF PutFetched, PollType, PageType
  <2>8. CacheType'
    BY <2>4, <2>5 DEF CacheType
  <2> QED
    BY <1>9, <1>b, <1>c, <2>4, <2>6, <2>7, <2>8 DEF PutFetched
<1>10. CASE PollOK
  <2>1. at' = last /\ cursor' \in {last, cursor}
    BY <1>10 DEF PollOK, NextCursor, Save
  <2>2. (first + 1)..last \subseteq 1..Len(feed) /\ last \in 0..Len(feed)
    BY <1>n
  <2>3. skipped' \subseteq 1..Len(feed)
    BY <1>10, <2>2 DEF PollOK, Bad, PollType
  <2>4. backlog' \in BOOLEAN
    BY <1>10 DEF PollOK, FullPage
  <2>5. PageType' /\ LookupType' /\ Quiet' /\ pc' = "idle"
    BY <1>10, LeaveType DEF PollOK
  <2>6. PollType'
    <3>1. UNCHANGED <<feed, seeded, restarts>>
      BY <1>10 DEF PollOK
    <3> QED
      BY <2>1, <2>2, <2>3, <2>4, <2>5, <3>1 DEF PollType
  <2> QED
    BY <1>10, <1>a, <1>b, <1>c, <2>5, <2>6 DEF PollOK
<1>11. CASE CeilingFails
  <2>1. PageType' /\ LookupType' /\ Quiet' /\ pc' = "idle"
    BY <1>11, LeaveType DEF CeilingFails
  <2>2. PollType'
    BY <1>11, <2>1 DEF CeilingFails, PollType
  <2> QED
    BY <1>11, <1>a, <1>b, <1>c, <2>1, <2>2 DEF CeilingFails
<1>12. CASE Restart
  <2>1. PageType' /\ LookupType' /\ Quiet' /\ pc' = "idle"
    BY <1>12, LeaveType DEF Restart
  <2>2. PollType'
    <3>1. at' \in {cursor, NoCursor} /\ cursor' = cursor /\ feed' = feed
      BY <1>12 DEF Restart
    <3>2. restarts' \in 0..MaxRestarts
      <4>1. restarts < MaxRestarts /\ restarts' = restarts + 1
        BY <1>12 DEF Restart
      <4> QED
        BY <1>n, <4>1 DEF PollType
    <3>3. backlog' = FALSE /\ seeded' = seeded /\ skipped' = skipped
      BY <1>12 DEF Restart
    <3> QED
      BY <2>1, <3>1, <3>2, <3>3 DEF PollType
  <2>3. entries' = <<>> /\ order' = <<>>
    BY <1>12 DEF Restart
  <2>4. CacheListed' /\ CacheType'
    BY <2>3, CacheAssumption DEF CacheListed, CacheType
  <2> QED
    BY <1>12, <1>b, <1>c, <2>1, <2>2, <2>4 DEF Restart
<1>13. CASE UNCHANGED vars
  BY <1>13, <1>a, <1>b, <1>c DEF vars, PollType, PageType, LookupType, Quiet
<1> QED
  BY <1>1, <1>2, <1>3, <1>4, <1>5, <1>6, <1>7, <1>8, <1>9, <1>10, <1>11, <1>12, <1>13
     DEF Next, Poll

LEMMA TypingHolds == Spec => []Typing
BY TypingInit, TypingNext, PTL DEF Spec

(* TypeOK: the types, and the bounds that a page is in the feed and what   *)
(* is asked for and put is part of what was tried and found.               *)
THEOREM Typed == Spec => []TypeOK
BY TypingHolds, PTL DEF Typing

(* CacheListed: whatever the order in which entities come, the list of     *)
(* names and the entries agree, and the cache keeps to its size.           *)
THEOREM CacheIsListed == Spec => []CacheListed
BY TypingHolds, PTL DEF Typing

-----------------------------------------------------------------------------
(* What is behind a cursor.                                                *)
(* A page begins where everything was handled, and ends where the limit or *)
(* the feed does; and the date of the last cold start is not later than    *)
(* that of a cold start now, so that it covers what the stored cursor does. *)
PageBegins == pc # "idle" => \A i \in 1..first : Handled(i)
PageEnds == pc # "idle" => last = Least(first + Limit, Len(feed))
SeedPassed == seeded <= SeedDate

Accounted ==
    CursorAccounted /\ PageBegins /\ PageEnds /\ SeedPassed /\ delivered \subseteq Records

(* What was handled stays so: nothing is taken back. *)
LEMMA HandledKept ==
    ASSUME TypeOK, NEW i \in 1..Len(feed), Handled(i), feed'[i] = feed[i],
           skipped \subseteq skipped', delivered \subseteq delivered',
           seeded' \in Nat, seeded <= seeded'
    PROVE  Handled(i)'
<1>1. feed[i].date \in Nat /\ seeded \in Nat
  BY Numbers, Seeds
<1>2. CASE i \in skipped
  BY <1>2 DEF Handled
<1>3. CASE feed[i].date < seeded
  <2>1. feed'[i].date < seeded'
    BY <1>1, <1>3
  <2> QED
    BY <2>1 DEF Handled
<1>4. CASE \E r \in delivered : EventId(r) = EventId(feed[i].record)
  BY <1>4 DEF Handled, EventId
<1> QED
  BY <1>2, <1>3, <1>4 DEF Handled

(* A step that moves neither the cursors nor the page takes nothing back.  *)
LEMMA AccountedKept ==
    ASSUME TypeOK, Accounted,
           UNCHANGED <<feed, at, cursor, first, last, delivered, skipped, seeded>>,
           pc' = pc \/ pc # "idle" \/ pc' = "idle", SeedDate <= SeedDate', SeedDate' \in Nat
    PROVE  Accounted'
<1> USE Numbers
<1>1. \A i : Handled(i)' = Handled(i)
  BY DEF Handled, EventId
<1>2. CursorAccounted'
  BY <1>1 DEF Accounted, CursorAccounted
<1>3. PageBegins' /\ PageEnds'
  BY <1>1 DEF Accounted, PageBegins, PageEnds, Least
<1>4. SeedPassed'
  <2>1. seeded <= SeedDate
    BY DEF Accounted, SeedPassed
  <2> QED
    BY <2>1, Seeds DEF SeedPassed
<1> QED
  BY <1>2, <1>3, <1>4 DEF Accounted

(* A poll that succeeds handles its page: what is usable has an event of   *)
(* its id, and the rest is skipped.                                        *)
LEMMA PollHandlesPage ==
    ASSUME TypeOK, Accounted, PollOK
    PROVE  /\ UNCHANGED <<feed, seeded, clock>> /\ at' = last /\ pc' = "idle"
           /\ skipped \subseteq skipped' /\ delivered \subseteq delivered'
           /\ delivered' \subseteq Records
           /\ \A i \in 1..last : Handled(i)'
<1> USE Numbers
<1>1. /\ UNCHANGED <<feed, seeded, clock>> /\ at' = last /\ pc' = "idle" /\ pc # "idle"
      /\ skipped' = skipped \cup Bad
      /\ delivered' = delivered \cup New({feed[i].record : i \in Good})
  BY DEF PollOK, NextCursor, Leave, serverVars
<1>2. Good \subseteq 1..Len(feed)
  BY DEF Good
<1>3. delivered' \subseteq Records
  BY <1>1, <1>2 DEF New, Accounted
<1>4. ASSUME NEW i \in 1..last PROVE Handled(i)'
  <2>1. CASE i <= first
    <3>1. i \in 1..first /\ i \in 1..Len(feed)
      BY <2>1
    <3>2. Handled(i)
      BY <1>1, <3>1 DEF Accounted, PageBegins
    <3> QED
      BY <1>1, <3>1, <3>2, HandledKept, Seeds
  <2>2. CASE i \in Bad
    BY <1>1, <2>2 DEF Handled
  <2>3. CASE i \in Good
    <3> DEFINE r == feed[i].record
    <3>1. \E d \in delivered' : EventId(d) = EventId(r)
      BY <1>1, <2>3 DEF New
    <3> QED
      BY <1>1, <3>1 DEF Handled, EventId
  <2>4. i <= first \/ i \in Bad \/ i \in Good
    BY DEF Bad
  <2> QED
    BY <2>1, <2>2, <2>3, <2>4
<1> QED
  BY <1>1, <1>3, <1>4

LEMMA AccountedInit == Init => Accounted
<1> SUFFICES ASSUME Init PROVE Accounted
  OBVIOUS
<1>1. SeedPassed
  BY FeedAssumption DEF Init, SeedPassed, SeedDate
<1>2. CursorAccounted /\ PageBegins /\ PageEnds
  BY DEF Init, CursorAccounted, PageBegins, PageEnds
<1> QED
  BY <1>1, <1>2 DEF Init, Accounted

LEMMA AccountedNext == Typing /\ Accounted /\ [Next]_vars => Accounted'
<1> SUFFICES ASSUME Typing, Accounted, [Next]_vars PROVE Accounted'
  OBVIOUS
<1>0. TypeOK
  BY DEF Typing
<1> USE <1>0, Numbers
<1> USE DEF serverVars, cacheVars, pageVars, lookupVars, outVars
<1>s. SeedDate \in Nat /\ seeded \in Nat
  BY Seeds
<1>k. ASSUME UNCHANGED clock
      PROVE  SeedDate' = SeedDate
  BY <1>k DEF SeedDate
<1>1. CASE Publish
  <2>1. PICK r \in Records : feed' = Append(feed, [record |-> r, date |-> clock])
    BY <1>1 DEF Publish
  <2>2. feed \in Seq(Entry)
    BY DEF TypeOK, Entry
  <2>3. /\ Len(feed') = Len(feed) + 1 /\ DOMAIN feed' = 1..(Len(feed) + 1)
        /\ \A i \in 1..Len(feed) : feed'[i] = feed[i]
    BY <2>1, <2>2
  <2>4. /\ UNCHANGED <<clock, at, cursor, delivered, skipped, seeded>>
        /\ pc = "idle" /\ pc' = "idle"
    BY <1>1 DEF Publish
  <2>5. \A i \in 1..Len(feed) : Handled(i) => Handled(i)'
    BY <1>s, <2>3, <2>4, HandledKept, SMTT(20)
  <2>6. CursorAccounted'
    BY <2>3, <2>4, <2>5 DEF Accounted, CursorAccounted
  <2> QED
    BY <1>k, <2>4, <2>6 DEF Accounted, PageBegins, PageEnds, SeedPassed
<1>2. CASE Tick
  <2>1. SeedDate' \in Nat /\ SeedDate <= SeedDate'
    BY <1>2, SMTT(20) DEF Tick, SeedDate
  <2> QED
    BY <1>2, <2>1, AccountedKept DEF Tick
<1>3. CASE GetFeed
  <2>1. /\ UNCHANGED <<feed, clock, at, cursor, delivered, skipped>>
        /\ seeded' = IF at = NoCursor THEN SeedDate ELSE seeded
    BY <1>3 DEF GetFeed
  <2>2. seeded' \in Nat /\ seeded <= seeded' /\ seeded' <= SeedDate
    BY <1>s, <2>1 DEF Accounted, SeedPassed
  <2>3. \A i \in 1..Len(feed) : Handled(i) => Handled(i)'
    BY <2>1, <2>2, HandledKept
  <2>4. CursorAccounted'
    BY <2>1, <2>3 DEF Accounted, CursorAccounted
  <2>5. ASSUME NEW i \in 1..first' PROVE Handled(i)'
    <3>1. i \in 1..Len(feed)
      BY <1>3, PageRead, SMTT(20)
    <3>2. From(first') /\ first' \in 0..Len(feed)
      BY <1>3, PageRead
    <3>3. CASE at = NoCursor
      <4>1. feed[i].date < SeedDate
        BY <3>1, <3>2, <3>3 DEF From
      <4> QED
        BY <2>1, <3>3, <4>1 DEF Handled
    <3>4. CASE at # NoCursor
      <4>1. i <= at
        BY <3>2, <3>4 DEF From
      <4> QED
        BY <2>3, <3>1, <4>1 DEF Accounted, CursorAccounted
    <3> QED
      BY <3>3, <3>4
  <2>6. PageEnds'
    BY <1>3, PageRead DEF PageEnds, Least
  <2> QED
    BY <1>k, <2>1, <2>2, <2>4, <2>5, <2>6 DEF Accounted, PageBegins, SeedPassed
<1>4. CASE GetFeedFails
  BY <1>4, <1>k, <1>s, AccountedKept DEF GetFeedFails
<1>5. ASSUME NEW t \in Types, ResolveCached(t) PROVE Accounted'
  BY <1>5, <1>k, <1>s, AccountedKept DEF ResolveCached
<1>6. ASSUME NEW t \in Types, Ask(t) PROVE Accounted'
  BY <1>6, <1>k, <1>s, AccountedKept DEF Ask
<1>7. CASE Fetch
  BY <1>7, <1>k, <1>s, AccountedKept DEF Fetch
<1>8. CASE FetchFails
  BY <1>8, <1>k, <1>s, AccountedKept DEF FetchFails
<1>9. CASE PutFetched
  BY <1>9, <1>k, <1>s, AccountedKept DEF PutFetched
<1>10. CASE PollOK
  <2>1. \A i \in 1..Len(feed) : Handled(i) => Handled(i)'
    BY <1>10, <1>s, PollHandlesPage, HandledKept, SMTT(20)
  <2>2. cursor' \in {last, cursor}
    BY <1>10 DEF PollOK, Save
  <2>3. CursorAccounted'
    <3> SUFFICES ASSUME NEW i \in 1..Len(feed), i <= at' \/ i <= cursor'
                 PROVE  Handled(i)'
      BY <1>10, PollHandlesPage DEF CursorAccounted
    <3>1. CASE i <= last
      BY <1>10, <3>1, PollHandlesPage
    <3>2. CASE ~(i <= last)
      <4>1. i <= cursor
        BY <1>10, <2>2, <3>2, PollHandlesPage
      <4> QED
        BY <2>1, <4>1 DEF Accounted, CursorAccounted
    <3> QED
      BY <3>1, <3>2
  <2> QED
    BY <1>10, <1>k, <2>3, PollHandlesPage DEF Accounted, PageBegins, PageEnds, SeedPassed
<1>11. CASE CeilingFails
  <2>1. /\ UNCHANGED <<feed, clock, at, cursor, delivered, skipped, seeded>>
        /\ pc' = "idle"
    BY <1>11 DEF CeilingFails, Leave
  <2>2. CursorAccounted'
    BY <2>1 DEF Accounted, CursorAccounted, Handled, EventId
  <2> QED
    BY <1>k, <2>1, <2>2 DEF Accounted, PageBegins, PageEnds, SeedPassed
<1>12. CASE Restart
  <2>1. /\ UNCHANGED <<feed, clock, cursor, delivered, skipped, seeded>>
        /\ pc' = "idle" /\ at' \in {cursor, NoCursor}
    BY <1>12 DEF Restart, Leave
  <2>2. \A i \in 1..Len(feed) : ~(i <= NoCursor)
    BY DEF NoCursor
  <2>3. CursorAccounted'
    BY <2>1, <2>2 DEF Accounted, CursorAccounted, Handled, EventId
  <2> QED
    BY <1>k, <2>1, <2>3 DEF Accounted, PageBegins, PageEnds, SeedPassed
<1>13. CASE UNCHANGED vars
  BY <1>13, <1>k, <1>s, AccountedKept DEF vars
<1> QED
  BY <1>1, <1>2, <1>3, <1>4, <1>5, <1>6, <1>7, <1>8, <1>9, <1>10, <1>11, <1>12, <1>13
     DEF Next, Poll

LEMMA AccountedHolds == Spec => []Accounted
BY AccountedInit, AccountedNext, TypingHolds, PTL DEF Spec

(* CursorAccounted: no cursor gets past a record that was neither delivered *)
(* nor skipped nor older than the seed, whatever fails and restarts.        *)
THEOREM CursorsAreAccounted == Spec => []CursorAccounted
BY AccountedHolds, PTL DEF Accounted

(* RevisionsSurvive: what is behind the cursor was delivered as it is, given *)
(* that a version stands for one content and is never like a hash.           *)
THEOREM RevisionsDoSurvive == Spec => []RevisionsSurvive
<1>1. Typing /\ Accounted => RevisionsSurvive
  <2> SUFFICES ASSUME Typing, Accounted, NEW i \in DOMAIN feed,
                      i <= at, i \notin skipped, feed[i].date >= seeded
               PROVE  \E r \in delivered : r.id = feed[i].record.id
                                         /\ r.content = feed[i].record.content
    BY DEF RevisionsSurvive
  <2> DEFINE q == feed[i].record
  <2>1. TypeOK /\ q \in Records /\ feed[i].date \in Nat
    BY Numbers DEF Typing
  <2>2. seeded \in Nat
    BY <2>1, Seeds
  <2>3. PICK r \in delivered : EventId(r) = EventId(q)
    BY <2>1, <2>2 DEF Accounted, CursorAccounted, Handled
  <2>4. r \in Records
    BY DEF Accounted
  <2>5. r.id = q.id
    BY <2>3 DEF EventId
  <2>6. (IF r.version # NoId THEN r.version ELSE r.content)
          = (IF q.version # NoId THEN q.version ELSE q.content)
    BY <2>3 DEF EventId
  <2>7. r.content = q.content
    BY <2>1, <2>4, <2>5, <2>6, VersionAssumption
  <2> QED
    BY <2>5, <2>7
<1> QED
  BY <1>1, TypingHolds, AccountedHolds, PTL

(* A page that is not full ends where the feed does. *)
LEMMA ShortPageEnds ==
    ASSUME TypeOK, last = Least(first + Limit, Len(feed)), ~FullPage
    PROVE  last >= Len(feed)
<1>1. CASE first + Limit < Len(feed)
  BY <1>1, Numbers, SMTT(20) DEF FullPage, Least
<1>2. CASE ~(first + Limit < Len(feed))
  BY <1>2, Numbers DEF Least
<1> QED
  BY <1>1, <1>2

(* BacklogTold: a poll that succeeds and reports no backlog has read the   *)
(* feed to its end.                                                        *)
THEOREM BacklogIsTold == Spec => BacklogTold
<1>1. Typing /\ Accounted /\ [Next]_vars => [PollOK /\ ~backlog' => at' >= Len(feed)]_vars
  <2> SUFFICES ASSUME Typing, Accounted, PollOK, ~backlog'
               PROVE  at' >= Len(feed)
    OBVIOUS
  <2>1. TypeOK /\ last = Least(first + Limit, Len(feed)) /\ at' = last
    BY DEF Typing, Accounted, PageEnds, PollOK, NextCursor
  <2>2. ~FullPage
    BY DEF PollOK
  <2>3. last >= Len(feed)
    BY <2>1, <2>2, ShortPageEnds
  <2> QED
    BY <2>1, <2>3
<1> QED
  BY <1>1, TypingHolds, AccountedHolds, PTL DEF Spec, BacklogTold

-----------------------------------------------------------------------------
(* What the lookups explain.                                               *)
(* Of the types that are done, every name was found or asked for; and what *)
(* was asked for is a name that the page wants.                            *)
TypesDone == pc # "idle" => \A t \in Types \ todo : Wanted(t) \subseteq resolved \cup tried
TriedWanted == pc # "idle" => \A k \in tried : \E t \in Types : k \in Wanted(t)

Lookups == TypesDone /\ TriedWanted

(* The names that a page wants do not change while it is read. *)
LEMMA WantedKept ==
    ASSUME UNCHANGED <<feed, first, last>>
    PROVE  \A t : Wanted(t)' = Wanted(t)
BY DEF Wanted, Objects, Page, Looked, Name

LEMMA LookupsNext == Typing /\ Lookups /\ [Next]_vars => Lookups'
<1> SUFFICES ASSUME Typing, Lookups, [Next]_vars PROVE Lookups'
  OBVIOUS
<1> USE DEF serverVars, cacheVars, pageVars, lookupVars, outVars
<1>1. CASE Publish
  BY <1>1 DEF Publish, Lookups, TypesDone, TriedWanted
<1>2. CASE Tick
  BY <1>2, WantedKept DEF Tick, Lookups, TypesDone, TriedWanted
<1>3. CASE GetFeed
  <2>1. todo' = {t \in Types : Wanted(t)' # {}} /\ tried' = {}
    BY <1>3 DEF GetFeed
  <2> QED
    BY <2>1 DEF Lookups, TypesDone, TriedWanted
<1>4. CASE GetFeedFails
  BY <1>4, WantedKept DEF GetFeedFails, Lookups, TypesDone, TriedWanted
<1>5. ASSUME NEW t \in Types, ResolveCached(t) PROVE Lookups'
  BY <1>5, WantedKept DEF ResolveCached, Lookups, TypesDone, TriedWanted
<1>6. ASSUME NEW t \in Types, Ask(t) PROVE Lookups'
  <2>1. /\ todo' = todo \ {t} /\ tried' = tried \cup Misses(t)
        /\ resolved' = resolved \cup (Wanted(t) \ Misses(t))
        /\ pc # "idle" /\ Misses(t) \subseteq Wanted(t)
    BY <1>6 DEF Ask, Misses
  <2>2. \A u : Wanted(u)' = Wanted(u)
    BY <1>6, WantedKept DEF Ask
  <2> QED
    BY <2>1, <2>2 DEF Lookups, TypesDone, TriedWanted
<1>7. CASE Fetch
  BY <1>7, WantedKept DEF Fetch, Lookups, TypesDone, TriedWanted
<1>8. CASE FetchFails
  BY <1>8, WantedKept DEF FetchFails, Lookups, TypesDone, TriedWanted
<1>9. CASE PutFetched
  BY <1>9, WantedKept DEF PutFetched, Lookups, TypesDone, TriedWanted
<1>10. CASE PollOK \/ CeilingFails \/ Restart
  BY <1>10 DEF PollOK, CeilingFails, Restart, Leave, Lookups, TypesDone, TriedWanted
<1>11. CASE UNCHANGED vars
  BY <1>11, WantedKept DEF vars, Lookups, TypesDone, TriedWanted
<1> QED
  BY <1>1, <1>2, <1>3, <1>4, <1>5, <1>6, <1>7, <1>8, <1>9, <1>10, <1>11 DEF Next, Poll

(* LookupsExplained: what an event says was not found is what the server   *)
(* was asked for in vain, sentinels and evictions notwithstanding.         *)
THEOREM LookupsAreExplained == Spec => LookupsExplained
<1>1. Init => Lookups
  BY DEF Init, Lookups, TypesDone, TriedWanted
<1>2. Typing /\ Lookups /\ [Next]_vars => Lookups'
  BY LookupsNext
<1>3. Typing /\ Lookups /\ [Next]_vars =>
        [PollOK => \A r \in {feed[i].record : i \in Good} :
            Unresolved(r) = {t \in Types : Name(r, t) \in tried \ resolved}]_vars
  <2> SUFFICES ASSUME Typing, Lookups, PollOK, NEW i \in Good
               PROVE  Unresolved(feed[i].record)
                         = {t \in Types : Name(feed[i].record, t) \in tried \ resolved}
    OBVIOUS
  <2> DEFINE r == feed[i].record
  <2>1. pc # "idle" /\ todo = {}
    BY DEF PollOK
  <2>2. r \in Objects
    BY DEF Good, Usable, Objects, Page
  <2>3. ASSUME NEW t \in Unresolved(r)
        PROVE  t \in Types /\ Name(r, t) \in tried \ resolved
    <3>1. t \in Looked(r) /\ t \in Types /\ Name(r, t) \notin resolved
      BY DEF Unresolved, Looked
    <3>2. Name(r, t) \in Wanted(t)
      BY <2>2, <3>1 DEF Wanted
    <3> QED
      BY <2>1, <3>1, <3>2 DEF Lookups, TypesDone
  <2>4. ASSUME NEW t \in Types, Name(r, t) \in tried \ resolved
        PROVE  t \in Unresolved(r)
    <3>1. PICK u \in Types : Name(r, t) \in Wanted(u)
      BY <2>1, <2>4 DEF Lookups, TriedWanted
    <3>2. PICK q \in Objects : u \in Looked(q) /\ Name(r, t) = Name(q, u)
      BY <3>1 DEF Wanted
    <3>3. t = u /\ r.ref[t] = q.ref[t]
      BY <3>2 DEF Name
    <3>4. t \in Looked(r)
      BY <3>2, <3>3 DEF Looked
    <3> QED
      BY <2>4, <3>4 DEF Unresolved
  <2> HIDE DEF r
  <2>5. Unresolved(r) = {t \in Types : Name(r, t) \in tried \ resolved}
    BY <2>3, <2>4
  <2> QED
    BY <2>5 DEF r
<1> QED
  BY <1>1, <1>2, <1>3, TypingHolds, PTL DEF Spec, LookupsExplained
=============================================================================
