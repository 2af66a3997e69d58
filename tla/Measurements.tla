---------------------------- MODULE Measurements ----------------------------
(***************************************************************************)
(* data/measurements/build.py: six lists in the file are loaded into an    *)
(* in-memory database whose keys reject duplicates, checked for rows that  *)
(* cite a run that is not there, and copied table by table over the        *)
(* Parquet files of the last build.                                        *)
(*                                                                         *)
(* Of a table only the run_ids its rows cite are kept, and whether two of  *)
(* its rows have one key: nothing else decides what the script does.       *)
(* run_id is part of every primary key, so it is never NULL and the        *)
(* NOT IN of line 223 means what it says.  One COPY is a single step:      *)
(* DuckDB writes an existing target through a temporary file.              *)
(***************************************************************************)
EXTENDS Naturals, Sequences

CONSTANTS Order,      \* the tables in the order of lines 218 and 230
          RunIds      \* run identifiers

Tables == {Order[n] : n \in 1..Len(Order)}

ASSUME OrderAssumption == /\ Order \in Seq(STRING) /\ Len(Order) > 0
                          /\ Order[1] = "run"

VARIABLES source,       \* the lists in build.py
          disk,         \* run_ids in the Parquet file of each table
          phase,        \* which loop of the script runs
          k,            \* its position in Order
          interrupted,  \* the last build to write a file did not end
          shrunk        \* a row of table "run" was deleted at some time

vars == <<source, disk, phase, k, interrupted, shrunk>>

List == [ids : SUBSET RunIds, twice : BOOLEAN]

TypeOK == /\ source \in [Tables -> List]
          /\ disk \in [Tables -> SUBSET RunIds]
          /\ phase \in {"idle", "insert", "verify", "copy"}
          /\ k \in 1..Len(Order)
          /\ interrupted \in BOOLEAN /\ shrunk \in BOOLEAN

\* Every row of t cites a row of "run"; line 221 exempts "run" itself.
Refers(ids, t) == t = "run" \/ ids[t] \subseteq ids["run"]

Ids(lists) == [t \in Tables |-> lists[t].ids]

\* The committed files: those of a build that ended.
Init == /\ source \in [Tables -> {l \in List : ~l.twice}]
        /\ disk = Ids(source)
        /\ \A t \in Tables : Refers(disk, t)
        /\ phase = "idle" /\ k = 1 /\ interrupted = FALSE
        /\ shrunk = FALSE

\* Mutant: the loop runs one table too far.
AdvanceTooFar(p) == IF k <= Len(Order)
                      THEN phase' = phase /\ k' = k + 1
                      ELSE phase' = p /\ k' = 1

\* Go round the loop for each table of Order, then enter phase p.
Advance(p) == IF k < Len(Order)
                THEN phase' = phase /\ k' = k + 1
                ELSE phase' = p /\ k' = 1

Exit == phase' = "idle" /\ k' = 1

\* A maintainer rewrites one list.  The script reads its lists when it starts,
\* so an edit during a build is an edit after it.
Edit(t) == /\ phase = "idle"
           /\ \E l \in List :
                /\ source' = [source EXCEPT ![t] = l]
                /\ shrunk' =
                     (shrunk \/ (t = "run" /\ ~(source[t].ids \subseteq l.ids)))
           /\ UNCHANGED <<disk, phase, k, interrupted>>

Start == /\ phase = "idle"
         /\ phase' = "insert"
         /\ UNCHANGED <<source, disk, k, interrupted, shrunk>>

\* Mutant: INSERT OR IGNORE.
InsertOrIgnore == /\ phase = "insert"
                  /\ Advance("verify")
                  /\ UNCHANGED <<source, disk, interrupted, shrunk>>

\* A duplicate key raises out of executemany, which ends the script.
Insert == /\ phase = "insert"
          /\ IF source[Order[k]].twice THEN Exit ELSE Advance("verify")
          /\ UNCHANGED <<source, disk, interrupted, shrunk>>

\* Mutant: line 227 prints instead of exiting.
VerifyPrints == /\ phase = "verify"
                /\ Advance("copy")
                /\ UNCHANGED <<source, disk, interrupted, shrunk>>

Verify == /\ phase = "verify"
          /\ IF Refers(Ids(source), Order[k]) THEN Advance("copy") ELSE Exit
          /\ UNCHANGED <<source, disk, interrupted, shrunk>>

\* Mutants: the copy adds to the old file, and the tables are copied in the
\* reverse order.
CopyAppends == /\ phase = "copy"
               /\ disk' = [disk EXCEPT ![Order[k]] = @ \cup source[Order[k]].ids]
               /\ Advance("idle")
               /\ interrupted' = (k < Len(Order))
               /\ UNCHANGED <<source, shrunk>>

CopyReversed ==
  LET t == Order[Len(Order) + 1 - k]
  IN  /\ phase = "copy"
      /\ disk' = [disk EXCEPT ![t] = source[t].ids]
      /\ Advance("idle")
      /\ interrupted' = (k < Len(Order))
      /\ UNCHANGED <<source, shrunk>>

Copy == /\ phase = "copy"
        /\ disk' = [disk EXCEPT ![Order[k]] = source[Order[k]].ids]
        /\ Advance("idle")
        /\ interrupted' = (k < Len(Order))
        /\ UNCHANGED <<source, shrunk>>

\* A signal, a full disk or an unwritable directory ends it at any step.
Crash == /\ phase # "idle"
         /\ Exit
         /\ UNCHANGED <<source, disk, interrupted, shrunk>>

Next == (\E t \in Tables : Edit(t)) \/ Start \/ Insert \/ Verify \/ Copy \/ Crash

Spec == Init /\ [][Next]_vars
-----------------------------------------------------------------------------
(* Properties *)

\* No list has a duplicate key or cites a missing run.
ListsAreSound == \A t \in Tables : ~source[t].twice /\ Refers(Ids(source), t)

\* "fails rather than writing" (data/measurements/README.md:32): a file is
\* replaced only when all the lists, also those of tables copied later, are
\* sound.
WritesOnlyChecked == [][disk' # disk => ListsAreSound]_vars

\* The files on disk agree with one another unless a build was cut short.
DiskAgrees == ~interrupted => \A t \in Tables : Refers(disk, t)

\* As long as runs are only ever added, they agree at every moment, in the
\* middle of a copy and after any crash: run.parquet is written first.
DiskAlwaysAgrees == ~shrunk => \A t \in Tables : Refers(disk, t)

\* A build that ends has replaced all the files, whatever a crashed one before
\* it had left half done.
EndedBuildIsWhole ==
  [][interrupted /\ ~interrupted' => disk' = Ids(source)]_vars
=============================================================================
