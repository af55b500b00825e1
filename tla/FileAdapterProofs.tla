------------------------- MODULE FileAdapterProofs -------------------------
(***************************************************************************)
(* The cursors of FileAdapter, for files of any length and any number of   *)
(* writes and restarts.  What a cursor means depends on the file it counts *)
(* in: in this one, everything up to it was handled, or missed by a poll   *)
(* whose cursor counted in one that is gone; such a cursor means nothing.  *)
(***************************************************************************)
EXTENDS FileAdapter, TLAPS

Accounted(i) == Handled(<<generation, i>>) \/ <<generation, i>> \in missed

CountsIn(p, g) ==
    g = generation => p <= Len(file) /\ \A i \in 1..p : Accounted(i)

CursorsCount == CountsIn(at, atGen) /\ CountsIn(cursor, cursorGen)

(* Numbers and lengths are what they should be. *)
LEMMA Numbers ==
    ASSUME TypeOK
    PROVE  /\ MaxWrites \in Nat /\ MaxRestarts \in Nat /\ restarts \in Nat
           /\ writes \in Nat /\ writes <= MaxWrites
           /\ generation \in Nat /\ atGen \in Nat /\ cursorGen \in Nat
           /\ atGen <= generation /\ cursorGen <= generation
           /\ at \in Nat /\ cursor \in Nat
           /\ Len(file) \in Nat /\ DOMAIN file = 1..Len(file)
           /\ generation + Len(file) <= MaxWrites
BY FileAssumption DEF TypeOK

(* What names a record of the file is a record. *)
LEMMA NamesAreRecords ==
    ASSUME TypeOK, NEW S \in SUBSET Batch
    PROVE  /\ NamesOf(S) \subseteq Record
           /\ \A i \in S : i \in Nat /\ Offset < i /\ i <= Len(file)
<1>1. Offset \in Nat
  BY Numbers DEF Offset
<1>2. \A i \in S : i \in Nat /\ Offset < i /\ i <= Len(file)
  BY <1>1, Numbers DEF Batch
<1>3. \A i \in S : <<generation, i>> \in Record
  BY <1>1, <1>2, Numbers DEF Record
<1> QED
  BY <1>2, <1>3 DEF NamesOf

(* The owner's writes keep the types, and say what they do to the length. *)
LEMMA OwnerWrites ==
    ASSUME TypeOK, AppendRecord \/ Complete \/ Repair \/ Shorten
    PROVE  /\ file' \in Seq({"usable", "bad", "torn"})
           /\ AppendRecord => Len(file') = Len(file) + 1
           /\ Complete \/ Repair => Len(file') = Len(file)
           /\ Shorten => Len(file') \in Nat /\ Len(file') < Len(file)
<1> USE Numbers
<1>1. file \in Seq({"usable", "bad", "torn"})
  BY DEF TypeOK
<1>2. CASE AppendRecord
  <2>1. PICK q \in {"usable", "bad", "torn"} : file' = Append(file, q)
    BY <1>2 DEF AppendRecord
  <2>2. /\ file' \in Seq({"usable", "bad", "torn"})
        /\ Len(file') = Len(file) + 1
    BY <1>1, <2>1
  <2>3. ~Complete /\ ~Repair /\ ~Shorten
    BY <1>2 DEF AppendRecord, Complete, Repair, Shorten, TypeOK
  <2> QED
    BY <2>2, <2>3
<1>3. CASE Complete \/ Repair
  <2>1. PICK i \in DOMAIN file : \E q \in {"usable", "bad"} :
           file' = [file EXCEPT ![i] = q]
    BY <1>3 DEF Complete, Repair
  <2>2. /\ file' \in Seq({"usable", "bad", "torn"})
        /\ Len(file') = Len(file)
    BY <1>1, <2>1
  <2>3. ~AppendRecord /\ ~Shorten
    BY <1>3 DEF AppendRecord, Complete, Repair, Shorten, TypeOK
  <2> QED
    BY <2>2, <2>3
<1>4. CASE Shorten
  <2>1. PICK n \in 0..(Len(file) - 1) : file' = SubSeq(file, 1, n)
    BY <1>4 DEF Shorten
  <2>2. /\ file' \in Seq({"usable", "bad", "torn"})
        /\ Len(file') = n
    BY <1>1, <2>1
  <2>4. Len(file') \in Nat /\ Len(file') < Len(file)
    <3>1. n \in Nat /\ n < Len(file)
      OBVIOUS
    <3> QED
      BY <2>2, <3>1
  <2>3. ~AppendRecord /\ ~Complete /\ ~Repair
    <3>1. generation' = generation + 1
      BY <1>4 DEF Shorten
    <3>2. AppendRecord \/ Complete \/ Repair => generation' = generation
      BY DEF AppendRecord, Complete, Repair
    <3> QED
      BY <3>1, <3>2
  <2> QED
    BY <2>2, <2>3, <2>4
<1> QED
  BY <1>2, <1>3, <1>4

-----------------------------------------------------------------------------
(* Types. *)

LEMMA TypeInit == Init => TypeOK
BY FileAssumption DEF Init, TypeOK, Record

(* The audit rows of a poll are added to those there are. *)
LEMMA RowsType ==
    ASSUME TypeOK, NEW S
    PROVE  /\ Rows(S) \in [Record -> Nat]
           /\ \A r \in Record : r \in S => Rows(S)[r] = skips[r] + 1
           /\ \A r \in Record : r \notin S => Rows(S)[r] = skips[r]
BY DEF TypeOK, Rows

LEMMA TypeNext == TypeOK /\ [Next]_vars => TypeOK'
<1> SUFFICES ASSUME TypeOK, [Next]_vars PROVE TypeOK'
  OBVIOUS
<1> USE Numbers
<1>1. CASE AppendRecord
  <2>1. generation + Len(file') <= writes'
    BY <1>1, OwnerWrites DEF AppendRecord, TypeOK
  <2> QED
    BY <1>1, <2>1, OwnerWrites, SMTT(20)
       DEF AppendRecord, TypeOK, storeVars, pollVars
<1>2. CASE Complete
  BY <1>2, OwnerWrites DEF Complete, TypeOK, storeVars, pollVars
<1>3. CASE Repair
  BY <1>3, OwnerWrites DEF Repair, TypeOK, storeVars, pollVars
<1>4. CASE Shorten
  <2>1. generation' = generation + 1 /\ writes' = writes + 1 /\ writes < MaxWrites
    BY <1>4 DEF Shorten
  <2>2. Len(file') \in Nat /\ Len(file') < Len(file)
    BY <1>4, OwnerWrites
  <2>3. generation' \in Nat /\ generation' + Len(file') <= writes'
    BY <2>1, <2>2 DEF TypeOK
  <2> QED
    BY <1>4, <2>1, <2>3, OwnerWrites DEF Shorten, TypeOK, storeVars
<1>5. CASE PollOK
  <2>1. PICK good \in SUBSET Batch :
           /\ returned' = returned \cup NamesOf(good)
           /\ skipped' = skipped \cup NamesOf(Batch \ good)
           /\ \E written \in SUBSET (Batch \ good) : skips' = Rows(NamesOf(written))
    BY <1>5 DEF PollOK
  <2>m. missed' \subseteq Record
    <3>1. Mistaken => NamesOf(1..at) \subseteq Record
      BY DEF Mistaken, NamesOf, Record
    <3> QED
      BY <1>5, <3>1 DEF PollOK, TypeOK
  <2>2. returned' \subseteq Record /\ skipped' \subseteq Record
    <3>1. NamesOf(good) \subseteq Record /\ NamesOf(Batch \ good) \subseteq Record
      BY NamesAreRecords
    <3> QED
      BY <2>1, <3>1 DEF TypeOK
  <2>3. skips' \in [Record -> Nat]
    BY <2>1, RowsType
  <2>4. cursor' \in Nat /\ cursorGen' \in 0..generation
    BY <1>5 DEF PollOK, Save, TypeOK
  <2>5. at' \in Nat /\ atGen' \in 0..generation
    BY <1>5 DEF PollOK
  <2> QED
    BY <1>5, <2>m, <2>2, <2>3, <2>4, <2>5 DEF PollOK, TypeOK, ownerVars
<1>6. CASE PollFails
  BY <1>6 DEF PollFails, vars, ownerVars, storeVars, pollVars, TypeOK
<1>7. CASE Restart
  BY <1>7 DEF Restart, ownerVars, storeVars, TypeOK
<1>8. CASE UNCHANGED vars
  BY <1>8 DEF vars, ownerVars, storeVars, pollVars, TypeOK
<1> QED
  BY <1>1, <1>2, <1>3, <1>4, <1>5, <1>6, <1>7, <1>8 DEF Next

(* TypeOK: the types, and the bound that records have names. *)
THEOREM Typed == Spec => []TypeOK
<1> QED
  BY TypeInit, TypeNext, PTL DEF Spec

-----------------------------------------------------------------------------
(* What a cursor counts. *)

(* A write of the owner leaves a cursor right: one that counts in the file *)
(* is within what is appended to, and counts nowhere once it is shortened. *)
LEMMA OwnerKeepsCursors ==
    ASSUME TypeOK, CursorsCount, AppendRecord \/ Complete \/ Repair \/ Shorten
    PROVE  CursorsCount'
<1> USE Numbers
<1>1. CASE Shorten
  <2>1. /\ generation' = generation + 1
        /\ UNCHANGED <<at, atGen, cursor, cursorGen>>
    BY <1>1 DEF Shorten, storeVars
  <2>2. atGen' # generation' /\ cursorGen' # generation'
    BY <2>1
  <2> QED
    BY <2>2 DEF CursorsCount, CountsIn
<1>2. CASE AppendRecord \/ Complete \/ Repair
  <2>1. UNCHANGED <<strict, generation, at, atGen, cursor, cursorGen,
                    returned, skipped, missed>>
    BY <1>2 DEF AppendRecord, Complete, Repair, storeVars, pollVars
  <2>2. Len(file') \in Nat /\ Len(file) <= Len(file')
    BY <1>2, OwnerWrites
  <2> QED
    BY <2>1, <2>2 DEF CursorsCount, CountsIn, Accounted, Handled
<1> QED
  BY <1>1, <1>2

(* A poll that succeeds accounts for the whole file: what is before the    *)
(* offset was accounted for before, or is missed now, and what is behind   *)
(* it is good or skipped.                                                  *)
LEMMA PollAccountsAll ==
    ASSUME TypeOK, CountsIn(at, atGen), PollOK
    PROVE  /\ \A i \in 1..Len(file) : Accounted(i)'
           /\ at' = Len(file) /\ atGen' = generation
           /\ UNCHANGED <<strict, file, generation>>
           /\ returned \subseteq returned' /\ skipped \subseteq skipped'
           /\ missed \subseteq missed'
<1> USE Numbers
<1>1. PICK good \in SUBSET Batch :
         /\ Passes(good)
         /\ returned' = returned \cup NamesOf(good)
         /\ skipped' = skipped \cup NamesOf(Batch \ good)
  BY DEF PollOK
<1>2. /\ at' = Len(file) /\ atGen' = generation
      /\ UNCHANGED <<strict, file, generation>>
  BY DEF PollOK, ownerVars
<1>m. missed' = IF Mistaken THEN missed \cup NamesOf(1..at) ELSE missed
  BY DEF PollOK
<1>3. ASSUME NEW i \in 1..Len(file)
      PROVE  Accounted(i)'
  <2>1. CASE i \in good
    BY <1>1, <1>2, <2>1 DEF NamesOf, Handled, Accounted
  <2>2. CASE i \in Batch \ good
    <3>1. ~strict
      BY <1>1, <2>2 DEF Passes
    <3>2. <<generation, i>> \in skipped'
      BY <1>1, <2>2 DEF NamesOf
    <3> QED
      BY <1>2, <3>1, <3>2 DEF Handled, Accounted
  <2>3. CASE i \notin Batch
    <3>1. i <= at /\ at <= Len(file)
      BY <2>3 DEF Batch, Offset
    <3>2. CASE atGen = generation
      <4>1. Accounted(i)
        BY <3>1, <3>2 DEF CountsIn
      <4> QED
        BY <1>1, <1>2, <1>m, <4>1 DEF Handled, Accounted
    <3>3. CASE atGen # generation
      <4>1. Mistaken /\ i \in 1..at
        BY <3>1, <3>3 DEF Mistaken
      <4>2. <<generation, i>> \in missed'
        BY <1>m, <4>1 DEF NamesOf
      <4> QED
        BY <1>2, <4>2 DEF Accounted
    <3> QED
      BY <3>2, <3>3
  <2> QED
    BY <2>1, <2>2, <2>3
<1> QED
  BY <1>1, <1>2, <1>m, <1>3

LEMMA CursorsNext ==
    TypeOK /\ CursorsCount /\ [Next]_vars => CursorsCount'
<1> SUFFICES ASSUME TypeOK, CursorsCount, [Next]_vars PROVE CursorsCount'
  OBVIOUS
<1> USE Numbers
<1>1. CASE AppendRecord \/ Complete \/ Repair \/ Shorten
  BY <1>1, OwnerKeepsCursors
<1>2. CASE PollOK
  <2>1. CountsIn(at, atGen) /\ CountsIn(cursor, cursorGen)
    BY DEF CursorsCount
  <2>2. CountsIn(at, atGen)'
    BY <1>2, <2>1, PollAccountsAll DEF CountsIn
  <2>3. CASE UNCHANGED <<cursor, cursorGen>>
    <3>1. UNCHANGED <<strict, file, generation>>
      BY <1>2, <2>1, PollAccountsAll
    <3>2. /\ returned \subseteq returned' /\ skipped \subseteq skipped'
          /\ missed \subseteq missed'
      BY <1>2, <2>1, PollAccountsAll
    <3>3. CountsIn(cursor, cursorGen)'
      BY <2>1, <2>3, <3>1, <3>2 DEF CountsIn, Accounted, Handled
    <3> QED
      BY <2>2, <3>3 DEF CursorsCount
  <2>4. CASE cursor' = Len(file) /\ cursorGen' = generation
    BY <1>2, <2>1, <2>2, <2>4, PollAccountsAll DEF CursorsCount, CountsIn
  <2> QED
    BY <1>2, <2>3, <2>4 DEF PollOK, Save
<1>3. CASE Restart
  <2>1. /\ UNCHANGED <<strict, file, generation, cursor, cursorGen,
                    returned, skipped, missed>>
        /\ \/ at' = cursor /\ atGen' = cursorGen
           \/ at' = 0 /\ atGen' = generation
    BY <1>3 DEF Restart, ownerVars, storeVars
  <2> QED
    BY <2>1 DEF CursorsCount, CountsIn, Accounted, Handled
<1>4. CASE PollFails \/ UNCHANGED vars
  BY <1>4 DEF PollFails, vars, ownerVars, storeVars, pollVars,
              CursorsCount, CountsIn, Accounted, Handled
<1> QED
  BY <1>1, <1>2, <1>3, <1>4 DEF Next

(* MissedOnlyRewritten: whatever the owner of the file writes and however  *)
(* often the program starts again, a record left behind a cursor was       *)
(* returned, skipped in lenient mode, or taken by a poll for a record of a *)
(* file that had been rewritten since its cursor was set.                  *)
THEOREM OnlyRewrittenIsMissed == Spec => MissedOnlyRewritten
<1>1. Init => CursorsCount
  BY FileAssumption DEF Init, CursorsCount, CountsIn
<1>2. TypeOK /\ CursorsCount /\ [Next]_vars => CursorsCount'
  BY CursorsNext
<1>3. TypeOK /\ CursorsCount /\ [Next]_vars =>
         [PollOK => \A i \in 1..at' :
             Handled(<<generation, i>>)' \/ <<generation, i>> \in missed']_vars
  BY PollAccountsAll DEF CursorsCount, Accounted
<1> QED
  BY <1>1, <1>2, <1>3, Typed, PTL DEF Spec, MissedOnlyRewritten

-----------------------------------------------------------------------------
(* How often a skip is audited.                                            *)

(* A cursor that counts in this file is not beyond its end. *)
WithinFile ==
    /\ atGen = generation => at <= Len(file)
    /\ cursorGen = generation => cursor <= Len(file)

(* The record is behind the poller: it was, or could have been, reported   *)
(* since the program started.                                              *)
Behind(g, i) ==
    g < generation \/ (g = generation /\ atGen = generation /\ i <= at)

SkipCount ==
    \A g \in 0..MaxWrites : \A i \in 1..MaxWrites :
        skips[<<g, i>>] <= restarts + (IF Behind(g, i) THEN 1 ELSE 0)

LEMMA SkipCountNext ==
    TypeOK /\ WithinFile /\ SkipCount /\ [Next]_vars => WithinFile' /\ SkipCount'
<1> SUFFICES ASSUME TypeOK, WithinFile, SkipCount, [Next]_vars
             PROVE  WithinFile' /\ SkipCount'
  OBVIOUS
<1>n. /\ restarts \in Nat /\ generation \in Nat /\ atGen \in Nat /\ cursorGen \in Nat
      /\ atGen <= generation /\ cursorGen <= generation
      /\ at \in Nat /\ cursor \in Nat /\ Len(file) \in Nat
  BY Numbers
<1>0. \A g \in 0..MaxWrites : \A i \in 1..MaxWrites : skips[<<g, i>>] \in Nat
  BY DEF TypeOK, Record
<1>1. CASE AppendRecord \/ Complete \/ Repair
  <2>0. UNCHANGED <<generation, at, atGen, cursor, cursorGen, skips, restarts>>
    BY <1>1 DEF AppendRecord, Complete, Repair, storeVars, pollVars
  <2>1. Len(file') = Len(file) + 1 \/ Len(file') = Len(file)
    BY <1>1, OwnerWrites
  <2>2. WithinFile'
    BY <1>n, <2>0, <2>1 DEF WithinFile
  <2>3. SkipCount'
    BY <2>0 DEF SkipCount, Behind
  <2> QED
    BY <2>2, <2>3
<1>2. CASE Shorten
  <2>1. /\ generation' = generation + 1
        /\ UNCHANGED <<at, atGen, cursor, cursorGen, skips, restarts>>
    BY <1>2 DEF Shorten, storeVars
  <2>2. atGen' # generation' /\ cursorGen' # generation'
    BY <1>n, <2>1
  <2>3. WithinFile'
    BY <2>2 DEF WithinFile
  <2>4. ASSUME NEW g \in 0..MaxWrites, NEW i \in 1..MaxWrites
        PROVE  skips'[<<g, i>>] <= restarts' + (IF Behind(g, i)' THEN 1 ELSE 0)
    <3>1. Behind(g, i) => Behind(g, i)'
      BY <1>n, <2>1 DEF Behind
    <3>2. skips[<<g, i>>] <= restarts + (IF Behind(g, i) THEN 1 ELSE 0)
      BY DEF SkipCount
    <3>3. skips[<<g, i>>] \in Nat
      BY <1>0
    <3> QED
      BY <1>n, <2>1, <3>1, <3>2, <3>3
  <2> QED
    BY <2>3, <2>4 DEF SkipCount
<1>3. CASE PollOK
  <2>1. PICK written \in SUBSET Batch : skips' = Rows(NamesOf(written))
    BY <1>3 DEF PollOK
  <2>2. /\ at' = Len(file) /\ atGen' = generation
        /\ UNCHANGED <<file, generation, restarts>>
    BY <1>3 DEF PollOK, ownerVars
  <2>3. WithinFile'
    BY <1>3, <2>2 DEF PollOK, Save, WithinFile
  <2>4. ASSUME NEW g \in 0..MaxWrites, NEW i \in 1..MaxWrites
        PROVE  skips'[<<g, i>>] <= restarts + (IF Behind(g, i)' THEN 1 ELSE 0)
    <3>1. <<g, i>> \in Record
      BY DEF Record
    <3>2. CASE <<g, i>> \in NamesOf(written)
      <4>1. g = generation /\ i \in written
        BY <3>2 DEF NamesOf
      <4>2. Offset < i /\ i <= Len(file)
        BY <4>1, NamesAreRecords
      <4>a. skips[<<g, i>>] <= restarts + (IF Behind(g, i) THEN 1 ELSE 0)
        BY DEF SkipCount
      <4>b. skips[<<g, i>>] \in Nat
        BY <1>0
      <4>3. ~Behind(g, i)
        BY <1>n, <4>1, <4>2 DEF Behind, Offset, WithinFile
      <4>4. skips'[<<g, i>>] = skips[<<g, i>>] + 1
        BY <2>1, <3>1, <3>2, RowsType
      <4>5. Behind(g, i)'
        BY <1>n, <2>2, <4>1, <4>2 DEF Behind
      <4> QED
        BY <1>n, <4>3, <4>4, <4>5, <4>a, <4>b
    <3>3. CASE <<g, i>> \notin NamesOf(written)
      <4>1. skips'[<<g, i>>] = skips[<<g, i>>]
        BY <2>1, <3>1, <3>3, RowsType
      <4>2. Behind(g, i) => Behind(g, i)'
        BY <1>n, <2>2 DEF Behind, WithinFile
      <4>3. skips[<<g, i>>] <= restarts + (IF Behind(g, i) THEN 1 ELSE 0)
        BY DEF SkipCount
      <4>4. skips[<<g, i>>] \in Nat
        BY <1>0
      <4> QED
        BY <1>n, <4>1, <4>2, <4>3, <4>4
    <3> QED
      BY <3>2, <3>3
  <2> QED
    BY <2>2, <2>3, <2>4 DEF SkipCount
<1>4. CASE Restart
  <2>1. /\ restarts' = restarts + 1
        /\ UNCHANGED <<file, generation, cursor, cursorGen, skips>>
        /\ \/ at' = cursor /\ atGen' = cursorGen
           \/ at' = 0 /\ atGen' = generation
    BY <1>4 DEF Restart, ownerVars, storeVars
  <2>2. WithinFile'
    BY <2>1 DEF WithinFile
  <2>3. ASSUME NEW g \in 0..MaxWrites, NEW i \in 1..MaxWrites
        PROVE  skips'[<<g, i>>] <= restarts' + (IF Behind(g, i)' THEN 1 ELSE 0)
    <3>1. skips[<<g, i>>] <= restarts + (IF Behind(g, i) THEN 1 ELSE 0)
      BY DEF SkipCount
    <3>2. skips[<<g, i>>] \in Nat /\ restarts \in Nat
      BY <1>0, <1>n
    <3>3. skips[<<g, i>>] <= restarts + 1
      BY <3>1, <3>2
    <3> QED
      BY <2>1, <3>2, <3>3
  <2>4. SkipCount'
    BY <2>3 DEF SkipCount
  <2> QED
    BY <2>2, <2>4
<1>5. CASE PollFails \/ UNCHANGED vars
  BY <1>5 DEF PollFails, vars, ownerVars, storeVars, pollVars,
              WithinFile, SkipCount, Behind
<1> QED
  BY <1>1, <1>2, <1>3, <1>4, <1>5 DEF Next

(* SkipsAuditedOnce: for any file, and whatever its owner does, a record   *)
(* that is skipped has one audit row per start of the program, at most.    *)
THEOREM SkipsAreAuditedOnce == Spec => []SkipsAuditedOnce
<1>1. Init => WithinFile /\ SkipCount
  BY FileAssumption DEF Init, WithinFile, SkipCount, Behind, Record
<1>2. TypeOK /\ SkipCount => SkipsAuditedOnce
  <2> SUFFICES ASSUME TypeOK, SkipCount, NEW r \in Record
               PROVE  skips[r] <= 1 + restarts
    BY DEF SkipsAuditedOnce
  <2>1. PICK g \in 0..MaxWrites, i \in 1..MaxWrites : r = <<g, i>>
    BY DEF Record
  <2>2. skips[r] \in Nat
    BY DEF TypeOK
  <2>3. skips[r] <= restarts + (IF Behind(g, i) THEN 1 ELSE 0)
    BY <2>1 DEF SkipCount
  <2>4. restarts \in Nat
    BY Numbers
  <2>5. skips[r] <= restarts + 1
    BY <2>2, <2>3, <2>4
  <2> QED
    BY <2>2, <2>4, <2>5
<1> QED
  BY <1>1, <1>2, SkipCountNext, Typed, PTL DEF Spec
=============================================================================
