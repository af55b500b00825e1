--------------------------- MODULE MCGeotabFeed ---------------------------
(* Small instances of GeotabFeed for TLC. *)
EXTENDS GeotabFeed, TLC

CONSTANTS diagnostic, controller, a, d1, c1, any, odd, was, is, none

Shapes ==
    any :> "value" @@ odd :> "unknown" @@ [i \in Ids \ {any, odd} |-> "ordinary"]

Record(id, content, d, c) ==
    [form |-> "object", id |-> id, version |-> none, content |-> content,
     ref |-> diagnostic :> d @@ controller :> c, valid |-> TRUE]

(* A fault in two revisions, and something that is not a record.  The       *)
(* diagnostic of the first has the shape of a sentinel, and its controller  *)
(* is one; the diagnostic of the second has a negative code.               *)
ThreeRecords ==
    { Record(a, was, any, odd), Record(a, is, d1, c1),
      [Record(none, was, none, none) EXCEPT !.form = "other"] }
=============================================================================
