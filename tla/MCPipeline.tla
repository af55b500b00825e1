----------------------------- MODULE MCPipeline -----------------------------
(* Small instances of Pipeline for TLC. *)
EXTENDS Pipeline, TLC

CONSTANTS s1, s2, out1, out2, ghost, none, e1, e2, e3

TwoRecords == s1 :> <<e1, e2>>
(* Two adapters: s1 has a backlog, s2 is live; they share the first output. *)
TwoFeeds == s1 :> <<e1, e2>> @@ s2 :> <<e3>>
(* Both carry e3; s1 returns e2 again. *)
BacklogAndLive == s1 :> <<e1, e2, e3, e2>> @@ s2 :> <<e3>>

OnePerPage == [s \in Sources |-> 1]
TwoPerPage == [s \in Sources |-> 2]
(* s1 may return two records, of which the second page is full or not. *)
BacklogPages == s1 :> 2 @@ s2 :> 1

NeverStuck == [s \in Sources |-> {}]
(* The cursor of s1 does not move past its first record. *)
StuckAtOne == s1 :> {1}

(* Everything goes to the first output, *)
AllToOne == [e \in Events |-> <<out1>>]
(* but for one event, to a name no destination has, *)
Misrouted == [AllToOne EXCEPT ![e2] = <<ghost>>]
(* or to both outputs. *)
Split == [AllToOne EXCEPT ![e1] = <<out1, out2>>]

SmallBuffers == [o \in Outputs |-> 1]
OneAttempt  == [o \in Outputs |-> 1]
TwoAttempts == [o \in Outputs |-> 2]
=============================================================================
