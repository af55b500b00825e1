---------------------------- MODULE FileAdapter ----------------------------
(***************************************************************************)
(* internal/adapter/file and the poller that calls it.  The file belongs   *)
(* to its owner, who appends, repairs and rewrites it while it is polled.  *)
(* Every poll reads the whole file and returns the records after the       *)
(* cursor, which counts the records already returned.  One that cannot be  *)
(* used fails the poll in strict mode and is skipped and audited in        *)
(* lenient mode, up to a ceiling.                                          *)
(*                                                                         *)
(* A poll, the dispatch of its page and the save of its cursor are one     *)
(* action; a crash in between is a save that fails and then a restart.     *)
(***************************************************************************)
EXTENDS Adapter, Sequences, FiniteSets

CONSTANTS
    MaxWrites,    \* bound: times the owner appends to or shortens the file
    MaxRestarts   \* bound: times the program is started again

ASSUME FileAssumption ==
    /\ MaxWrites \in Nat
    /\ MaxRestarts \in Nat

VARIABLES
    strict,      \* whether the adapter is strict
    csv,         \* whether the file is CSV; it is JSON otherwise
    file,        \* its records: "usable", "bad", or "torn" while half written
    at,          \* the cursor the poller holds
    cursor,      \* the stored cursor
    skips,       \* skips[r]: audit rows about the skipped record r
    \* bookkeeping of the model, not of the program
    generation,  \* times the file was shortened; <<generation, i>> is a record
    atGen,       \* the generation that at counts in
    cursorGen,   \* the generation that cursor counts in
    returned,    \* the records of this generation returned as events
    skipped,     \* the records of this generation deliberately skipped
    missed,      \* those a poll took for records of an earlier generation
    writes, restarts

ownerVars == <<file, generation, writes>>
storeVars == <<cursor, cursorGen, skips>>
pollVars == <<at, atGen, returned, skipped, missed>>
vars == <<strict, csv, ownerVars, storeVars, pollVars, restarts>>

-----------------------------------------------------------------------------
Record == (0..MaxWrites) \X (1..MaxWrites)

Init ==
    /\ strict \in BOOLEAN
    /\ csv \in BOOLEAN
    /\ file = <<>>
    /\ at = 0 /\ atGen = 0
    /\ cursor = 0 /\ cursorGen = 0
    /\ skips = [r \in Record |-> 0]
    /\ generation = 0
    /\ returned = {}
    /\ skipped = {}
    /\ missed = {}
    /\ writes = 0
    /\ restarts = 0

(* The owner of the file. *)

Torn == \E i \in DOMAIN file : file[i] = "torn"

AppendRecord ==
    /\ writes < MaxWrites
    /\ ~Torn
    /\ \E q \in {"usable", "bad", "torn"} : file' = Append(file, q)
    /\ writes' = writes + 1
    /\ UNCHANGED <<strict, csv, generation, storeVars, pollVars, restarts>>

Complete ==
    /\ \E i \in DOMAIN file :
          /\ file[i] = "torn"
          /\ \E q \in {"usable", "bad"} : file' = [file EXCEPT ![i] = q]
    /\ UNCHANGED <<strict, csv, generation, writes, storeVars, pollVars, restarts>>

Repair ==
    /\ \E i \in DOMAIN file :
          /\ file[i] = "bad"
          /\ file' = [file EXCEPT ![i] = "usable"]
    /\ UNCHANGED <<strict, csv, generation, writes, storeVars, pollVars, restarts>>

(* The file is rewritten: it starts again with fewer records.  What is      *)
(* appended next may come before the next poll or after it.                 *)
Shorten ==
    /\ writes < MaxWrites
    /\ \E n \in 0..(Len(file) - 1) : file' = SubSeq(file, 1, n)
    /\ generation' = generation + 1
    /\ writes' = writes + 1
    /\ returned' = {}
    /\ skipped' = {}
    /\ missed' = {}
    /\ UNCHANGED <<strict, csv, storeVars, at, atGen, restarts>>

-----------------------------------------------------------------------------
(* Poll. *)

(* A half-written value is a syntax error in JSON, and a row in CSV. *)
Readable == csv \/ ~Torn

OffsetKept == at                           \* mutant: no test for a shorter file
(* A file with fewer records than the cursor is another one: from the top. *)
Offset == IF at > Len(file) THEN 0 ELSE at

Batch == (Offset + 1)..Len(file)

(* What normalize can make of the records of the page. *)
Normalizable(good) ==
    \A i \in Batch : /\ file[i] = "usable" => i \in good
                     /\ file[i] = "bad" => i \notin good

(* One more audit row for each of S; a row that cannot be written is logged. *)
Rows(S) == [r \in Record |-> IF r \in S THEN skips[r] + 1 ELSE skips[r]]

NamesOf(S) == {<<generation, i>> : i \in S}

(* The cursor counts in a file that is gone, and the one that is there now  *)
(* has as many records: nothing tells the poll that they are others.        *)
Mistaken == atGen # generation /\ at <= Len(file)

(* A cursor that moved is saved, or the write fails and the poller goes on *)
(* with it.  "" is 0 too, so a 0 can be saved over it.                     *)
Save(p) ==
    \/ /\ p # at \/ p = 0
       /\ cursor' = p /\ cursorGen' = generation
    \/ UNCHANGED <<cursor, cursorGen>>

Passes(good) ==
    IF strict THEN Batch \subseteq good
    ELSE ~SkipCeilingExceeded(Cardinality(Batch), Cardinality(Batch \ good))

PollOK ==
    /\ Readable
    /\ \E good \in SUBSET Batch :
          /\ Normalizable(good)
          /\ Passes(good)
          /\ returned' = returned \cup NamesOf(good)
          /\ skipped' = skipped \cup NamesOf(Batch \ good)
          /\ \E written \in SUBSET (Batch \ good) : skips' = Rows(NamesOf(written))
    /\ missed' = IF Mistaken THEN missed \cup NamesOf(1..at) ELSE missed
    /\ at' = Len(file)
    /\ atGen' = generation
    /\ Save(Len(file))
    /\ UNCHANGED <<strict, csv, ownerVars, restarts>>

(* mutant: the skips are reported before the ceiling is looked at *)
PollFailsReported ==
    /\ \/ UNCHANGED skips
       \/ /\ Readable /\ ~strict
          /\ \E good \in SUBSET Batch :
                /\ Normalizable(good)
                /\ ~Passes(good)
                /\ skips' = Rows(NamesOf(Batch \ good))
    /\ UNCHANGED <<strict, csv, ownerVars, cursor, cursorGen, pollVars, restarts>>

(* Unreadable, an unusable record in strict mode, or too many of them; or  *)
(* the file cannot be opened, which can happen at any poll.  The poller    *)
(* keeps its cursor and nothing is reported, stored or audited.            *)
PollFails == UNCHANGED vars

(* The program starts again, from the stored cursor if it can be read. *)
Restart ==
    /\ restarts < MaxRestarts
    /\ restarts' = restarts + 1
    /\ \/ at' = cursor /\ atGen' = cursorGen
       \/ at' = 0 /\ atGen' = generation
    /\ UNCHANGED <<strict, csv, ownerVars, storeVars, returned, skipped, missed>>

Next ==
    \/ AppendRecord \/ Complete \/ Repair \/ Shorten
    \/ PollOK \/ PollFails
    \/ Restart

Spec == Init /\ [][Next]_vars

(* The file is polled while it can be read; its owner finishes what they    *)
(* are writing and repairs what a failed poll tells them about.             *)
Fairness == WF_vars(PollOK) /\ WF_vars(Complete) /\ WF_vars(Repair)

LiveSpec == Spec /\ Fairness

-----------------------------------------------------------------------------
(* Properties. *)

TypeOK ==
    /\ strict \in BOOLEAN /\ csv \in BOOLEAN
    /\ file \in Seq({"usable", "bad", "torn"})
    /\ at \in Nat /\ cursor \in Nat
    /\ atGen \in 0..generation /\ cursorGen \in 0..generation
    /\ skips \in [Record -> Nat]
    /\ returned \subseteq Record /\ skipped \subseteq Record /\ missed \subseteq Record
    /\ writes \in 0..MaxWrites
    /\ generation \in Nat /\ generation + Len(file) <= writes
    /\ restarts \in 0..MaxRestarts

Handled(r) == r \in returned \/ (~strict /\ r \in skipped)

(* A poll leaves a record of the file, as it is then, behind unhandled only *)
(* if it or one before took the record for one of an earlier file: its      *)
(* cursor counted there, and the file was rewritten and had grown to the    *)
(* cursor again between two polls.  Otherwise every record behind a cursor  *)
(* was returned or, in lenient mode, deliberately skipped, whatever the     *)
(* owner writes and whichever cursor the program starts from.               *)
MissedOnlyRewritten ==
    [][PollOK => \A i \in 1..at' :
          Handled(<<generation, i>>)' \/ <<generation, i>> \in missed']_vars

(* A skipped record has at most one audit row, however often the poll that meets it *)
(* is repeated, and one more for each time the program starts again.        *)
SkipsAuditedOnce == \A r \in Record : skips[r] <= 1 + restarts

(* Every record is returned or skipped in the end, unless it is taken out   *)
(* of the file first, or a poll takes it for one of a file that was         *)
(* rewritten: no bad record blocks the rest for good, and a file that is    *)
(* shorter than the cursor is read again.                                   *)
RecordsAccounted ==
    \A i \in 1..MaxWrites :
        i <= Len(file) ~>
            (i > Len(file) \/ Handled(<<generation, i>>)
                           \/ <<generation, i>> \in missed)

(* What the docs say and the code does not do. *)

(* docs/adapters.md: a cursor only advances past events that were returned  *)
(* or records that were deliberately skipped, never past records nobody has *)
(* looked at; and the file adapter of all adapters in strict mode past      *)
(* nothing but events.                                                      *)
NeverPast ==
    [][PollOK => \A i \in 1..at' : Handled(<<generation, i>>)']_vars
=============================================================================
