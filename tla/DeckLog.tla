------------------------------- MODULE DeckLog -------------------------------
(***************************************************************************)
(* scripts/create_changelog_entry.exs: a run is asked for a date and       *)
(* copies the newest deck log to it, stamps an existing one, or writes a   *)
(* first template.  The copy is made with File.cp! and then rewritten in   *)
(* place; each of the writes empties the file before it fills it.  A run   *)
(* cut short in a write or between the two leaves a log that every later   *)
(* run takes for a finished one.                                           *)
(*                                                                         *)
(* Stems are eight digits, compared as strings: that is the order of the   *)
(* dates, which are numbers here.  Of a log the style and date of its      *)
(* heading, its Date: line and whether its end is there are kept; time     *)
(* stamps are not, nothing reads them.                                     *)
(***************************************************************************)
EXTENDS Naturals, FiniteSets

CONSTANTS Dates,      \* the stems that validate as a date
          Bad,        \* a stem that does not
          Styles,     \* heading styles the maintainers use
          Placeholder,\* "%%DATE%%"
          Missing,    \* a line that has not been written
          Crashes     \* TRUE: a run may be cut short

\* The style the script writes and looks for (lines 129 and 157).
ScriptStyle == "# V-Sekai Deck Log - "

\* Of any set of dates one is the newest: a stem has eight digits.
ASSUME DatesAssumption == /\ Dates \subseteq Nat
                          /\ \A D \in SUBSET Dates : D # {} =>
                               \E d \in D : \A e \in D : e <= d
                          /\ Bad \notin Dates /\ Placeholder \notin Dates
                          /\ Missing \notin Dates /\ Missing \notin Styles
                          /\ Missing # Placeholder
                          /\ ScriptStyle \in Styles
                          /\ Crashes \in BOOLEAN

VARIABLES logs,     \* the deck logs, by date
          asked,    \* the stem of this run, or of the last one
          text,     \* what it is writing, or wrote last
          pc,       \* where the run is
          result,   \* how the last run ended
          hand,     \* the dates whose log the maintainers have written
          cut       \* the dates at which a run was cut short in making a log

vars == <<logs, asked, text, pc, result, hand, cut>>

Log == [style : Styles \cup {Missing}, heading : Dates \cup {Missing},
        dateLine : Dates \cup {Placeholder, Missing}, whole : BOOLEAN]

\* File.write! and File.cp! under way (lines 136, 142 and 162).
Writing == pc \in {"template", "copy", "rewrite"}

TypeOK == /\ DOMAIN logs \subseteq Dates
          /\ \A d \in DOMAIN logs : logs[d] \in Log
          /\ asked \in Dates \cup {Bad}
          /\ text \in Log
          /\ pc \in {"idle", "decide", "template", "copy", "update", "rewrite"}
          /\ result \in {"none", "touched", "created", "invalid", "crashed"}
          /\ hand \subseteq Dates /\ cut \subseteq Dates

\* A log under its own date, as the template and the maintainers write it.
Written(d, style, dateLine) ==
  [style |-> style, heading |-> d, dateLine |-> dateLine, whole |-> TRUE]

Empty == [style |-> Missing, heading |-> Missing, dateLine |-> Missing, whole |-> FALSE]

\* What is in a file before all of the text is: nothing, a part of the heading,
\* the heading, the lines up to the date, or all of it.
Prefixes(log) == {Empty,
                  [log EXCEPT !.heading = Missing, !.dateLine = Missing, !.whole = FALSE],
                  [log EXCEPT !.dateLine = Missing, !.whole = FALSE],
                  [log EXCEPT !.whole = FALSE],
                  log}

Init == /\ \E D \in SUBSET Dates, style \in Styles :
             /\ logs = [d \in D |-> Written(d, style, d)]
             /\ hand = D
        /\ asked = Bad /\ text = Empty
        /\ pc = "idle" /\ result = "none" /\ cut = {}

\* find_latest_deck_log_file: the greatest stem in any year's directory.
Latest == CHOOSE d \in DOMAIN logs : \A e \in DOMAIN logs : e <= d

\* The logs with this one under that date.
Put(date, log) == [d \in DOMAIN logs \cup {date} |-> IF d = date THEN log ELSE logs[d]]

Ends(how) == pc' = "idle" /\ result' = how

Run(stem) == /\ pc = "idle"
             /\ asked' = stem
             /\ IF stem \in Dates
                  THEN pc' = "decide" /\ UNCHANGED result
                  ELSE Ends("invalid")
             /\ UNCHANGED <<logs, text, hand, cut>>

TouchAsked == /\ pc = "decide"
              /\ asked \in DOMAIN logs
              /\ Ends("touched")
              /\ UNCHANGED <<logs, asked, text, hand, cut>>

TouchLatest == /\ pc = "decide"
               /\ asked \notin DOMAIN logs
               /\ logs # << >>
               /\ asked <= Latest
               /\ Ends("touched")
               /\ UNCHANGED <<logs, asked, text, hand, cut>>

\* The file is there, and empty, before the text is.
Opens(new, phase) == /\ logs' = Put(asked, Empty)
                     /\ text' = new
                     /\ pc' = phase
                     /\ UNCHANGED <<asked, result, hand, cut>>

\* Mutant: the template keeps a placeholder in its heading.
TemplateUndated == /\ pc = "decide"
                   /\ logs = << >>
                   /\ Opens(Written(Placeholder, ScriptStyle, Placeholder), "template")

CreateTemplate == /\ pc = "decide"
                  /\ logs = << >>
                  /\ Opens(Written(asked, ScriptStyle, asked), "template")

\* Mutants: no test that the log exists, or no comparison with the newest date.
CopyUnguarded == /\ pc = "decide"
                 /\ logs # << >>
                 /\ Opens(logs[Latest], "copy")

CopyOlder == /\ pc = "decide"
             /\ logs # << >>
             /\ asked \notin DOMAIN logs
             /\ Opens(logs[Latest], "copy")

\* File.cp! of the newest log; it is found twice, at lines 64 and 86.
Copy == /\ pc = "decide"
        /\ logs # << >>
        /\ asked > Latest
        /\ Opens(logs[Latest], "copy")

\* The placeholders, and the heading if it has the script's style.  A Date:
\* line that already names a date has no placeholder.
Dated(log) == [log EXCEPT !.dateLine = IF @ = Placeholder THEN asked ELSE @,
                          !.heading = IF log.style = ScriptStyle THEN asked ELSE @]

\* File.write! of the copy that was read back and replaced in.
Update == /\ pc = "update"
          /\ Opens(Dated(logs[asked]), "rewrite")

\* The write is done; a copy is read back next, the others end the run.
Save == /\ Writing
        /\ logs' = Put(asked, text)
        /\ IF pc = "copy" THEN pc' = "update" /\ UNCHANGED result
                          ELSE Ends("created")
        /\ UNCHANGED <<asked, text, hand, cut>>

\* The run is killed, or a call raises; of a write under way a part is done.
Crash == /\ Crashes
         /\ pc # "idle"
         /\ Ends("crashed")
         /\ IF Writing
              THEN \E part \in Prefixes(text) : logs' = Put(asked, part)
              ELSE UNCHANGED logs
         /\ cut' = IF pc = "decide" THEN cut ELSE cut \cup {asked}
         /\ UNCHANGED <<asked, text, hand>>

\* A maintainer writes up a log between two runs, and may leave a placeholder
\* in it for the log that will be made from it.
Edit(d) == /\ pc = "idle"
           /\ d \in DOMAIN logs
           /\ \E style \in Styles, dateLine \in {d, Placeholder} :
                logs' = Put(d, Written(d, style, dateLine))
           /\ hand' = hand \cup {d}
           /\ UNCHANGED <<asked, text, pc, result, cut>>

Script == TouchAsked \/ TouchLatest \/ CreateTemplate \/ Copy \/ Update \/ Save \/ Crash

Next == \/ \E stem \in Dates \cup {Bad} : Run(stem)
        \/ Script
        \/ \E d \in Dates : Edit(d)

Spec == Init /\ [][Next]_vars
-----------------------------------------------------------------------------
(* Properties *)

\* No run, cut short or not, changes a log that was there when it started:
\* it adds the asked one or nothing (lines 59-61 and 75-79), and rewrites only
\* what it added.
PastUntouched ==
  [][pc # "idle" => \A d \in DOMAIN logs :
       /\ d \in DOMAIN logs'
       /\ (pc = "decide" \/ d # asked) => logs'[d] = logs[d]]_vars

\* "Ensuring H1 title is updated" (line 153): after a run that created a log,
\* its heading names the date asked for.
HeadingUpdated == result = "created" /\ pc = "idle" =>
                    logs[asked].heading = asked

\* The logs that no run is making.
Settled == DOMAIN logs \ (IF pc \in {"idle", "decide"} THEN {} ELSE {asked})

\* What a run that was cut short has spoiled is never repaired by a run and goes
\* on by copies, but only forward: a log that is not whole has such a run at its
\* own date or before it, and one with a placeholder in it is that run's own or
\* the maintainers' (lines 59-61, 72 and 142-162).
SpoiledByCutRuns ==
  \A d \in Settled :
    /\ ~logs[d].whole => \E c \in cut : c <= d
    /\ logs[d].dateLine = Placeholder => d \in cut \cup hand
=============================================================================
