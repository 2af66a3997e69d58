---------------------------- MODULE DeckLogProofs ----------------------------
(***************************************************************************)
(* For any dates and any headings no run harms a log that was there, also  *)
(* when it is cut short in the middle of a write, and what such a run has  *)
(* spoiled is found at its own date or after it, nowhere else.             *)
(***************************************************************************)
EXTENDS DeckLog, TLAPS

\* A run past its first check has a date, and one that makes a log has a file.
IInv == /\ TypeOK
        /\ logs = [d \in DOMAIN logs |-> logs[d]]
        /\ pc # "idle" => asked \in Dates
        /\ pc \notin {"idle", "decide"} => asked \in DOMAIN logs

\* The newest log is one of the logs.
LEMMA LatestIsThere ==
  ASSUME TypeOK, logs = [d \in DOMAIN logs |-> logs[d]], logs # << >>
  PROVE  Latest \in DOMAIN logs /\ \A e \in DOMAIN logs : e <= Latest
<1>1. DOMAIN logs # {}
  OBVIOUS
<1>2. \E d \in DOMAIN logs : \A e \in DOMAIN logs : e <= d
  BY <1>1, DatesAssumption DEF TypeOK
<1> QED
  BY <1>2 DEF Latest

\* Putting a log under a date keeps the others and the shape of the logs.
LEMMA PutShape ==
  ASSUME IInv, NEW d \in Dates, NEW log \in Log, logs' = Put(d, log)
  PROVE  /\ DOMAIN logs' = DOMAIN logs \cup {d} /\ DOMAIN logs' \subseteq Dates
         /\ logs' = [e \in DOMAIN logs' |-> logs'[e]]
         /\ \A e \in DOMAIN logs' : logs'[e] \in Log
         /\ logs'[d] = log
         /\ \A e \in DOMAIN logs : e # d => logs'[e] = logs[e]
BY DEF Put, IInv, TypeOK

\* The text of a written log, of an empty file and of a part is that of a log.
LEMMA WrittenIsLog ==
  ASSUME NEW d \in Dates, NEW style \in Styles, NEW dateLine \in {d, Placeholder}
  PROVE  /\ Written(d, style, dateLine) \in Log
         /\ Written(d, style, dateLine).whole
         /\ Written(d, style, dateLine).dateLine = dateLine
BY DEF Written, Log

LEMMA EmptyIsLog == Empty \in Log
BY DEF Empty, Log

LEMMA PrefixIsLog ==
  ASSUME NEW log \in Log, NEW part \in Prefixes(log)
  PROVE  part \in Log
<1>1. CASE part = Empty
  BY <1>1, EmptyIsLog
<1>2. CASE part = [log EXCEPT !.heading = Missing, !.dateLine = Missing, !.whole = FALSE]
  BY <1>2 DEF Log
<1>3. CASE part = [log EXCEPT !.dateLine = Missing, !.whole = FALSE]
  BY <1>3 DEF Log
<1>4. CASE part = [log EXCEPT !.whole = FALSE]
  BY <1>4 DEF Log
<1> QED
  BY <1>1, <1>2, <1>3, <1>4 DEF Prefixes

\* The text that the rewrite makes of a log.
LEMMA DatedLog ==
  ASSUME NEW log \in Log, asked \in Dates
  PROVE  /\ Dated(log) \in Log
         /\ Dated(log).whole = log.whole
         /\ Dated(log).dateLine # Placeholder
<1>1. Dated(log).dateLine = IF log.dateLine = Placeholder THEN asked ELSE log.dateLine
  BY DEF Dated, Log
<1>2. Dated(log) \in Log /\ Dated(log).whole = log.whole
  BY DEF Dated, Log
<1> QED
  BY <1>1, <1>2, DatesAssumption DEF Log

\* The copy is of a log that was there, to a date after all of them.
LEMMA CopyAdds ==
  ASSUME IInv, Copy
  PROVE  /\ asked \in Dates /\ asked \notin DOMAIN logs
         /\ Latest \in DOMAIN logs /\ Latest < asked /\ logs[Latest] \in Log
<1>1. Latest \in DOMAIN logs /\ \A e \in DOMAIN logs : e <= Latest
  BY LatestIsThere DEF IInv, Copy
<1>2. asked \in Dates /\ DOMAIN logs \subseteq Nat /\ asked \in Nat /\ asked > Latest
  BY DatesAssumption DEF IInv, TypeOK, Copy
<1> QED
  BY <1>1, <1>2 DEF IInv, TypeOK

\* What each of the three writes begins with.
LEMMA WriteBegins ==
  ASSUME IInv, CreateTemplate \/ Copy \/ Update
  PROVE  /\ logs' = Put(asked, Empty) /\ asked' = asked /\ asked \in Dates
         /\ result' = result /\ hand' = hand /\ cut' = cut
         /\ pc' \in {"template", "copy", "rewrite"}
         /\ text' \in Log
<1>1. asked \in Dates
  BY DEF IInv, CreateTemplate, Copy, Update
<1>2. CASE CreateTemplate
  BY <1>1, <1>2, WrittenIsLog, DatesAssumption DEF CreateTemplate, Opens
<1>3. CASE Copy
  BY <1>1, <1>3, CopyAdds DEF Copy, Opens
<1>4. CASE Update
  <2>1. logs[asked] \in Log
    BY <1>4 DEF IInv, TypeOK, Update
  <2> QED
    BY <1>1, <1>4, <2>1, DatedLog DEF Update, Opens
<1> QED
  BY <1>2, <1>3, <1>4

\* The logs that maintainers have written.
LEMMA InitIInv == Init => IInv
<1> SUFFICES ASSUME Init PROVE IInv
  OBVIOUS
<1>1. PICK D \in SUBSET Dates, style \in Styles :
        logs = [d \in D |-> Written(d, style, d)] /\ hand = D
  BY DEF Init
<1>2. DOMAIN logs = D /\ \A d \in D : logs[d] = Written(d, style, d)
  BY <1>1
<1>3. \A d \in D : logs[d] \in Log
  BY <1>2, WrittenIsLog
<1>4. logs = [d \in DOMAIN logs |-> logs[d]]
  BY <1>1, <1>2
<1> QED
  BY <1>1, <1>2, <1>3, <1>4, EmptyIsLog DEF Init, IInv, TypeOK

\* Every step of a run, a crash and an edit keeps the invariant.
LEMMA NextIInv == IInv /\ [Next]_vars => IInv'
<1> SUFFICES ASSUME IInv, [Next]_vars PROVE IInv'
  OBVIOUS
<1>1. ASSUME NEW stem \in Dates \cup {Bad}, Run(stem) PROVE IInv'
  BY <1>1, DatesAssumption DEF IInv, TypeOK, Run, Ends
<1>2. CASE TouchAsked \/ TouchLatest
  BY <1>2 DEF IInv, TypeOK, TouchAsked, TouchLatest, Ends
<1>3. CASE CreateTemplate \/ Copy \/ Update
  <2>1. /\ logs' = Put(asked, Empty) /\ asked' = asked /\ asked \in Dates
        /\ result' = result /\ hand' = hand /\ cut' = cut
        /\ pc' \in {"template", "copy", "rewrite"} /\ text' \in Log
    BY <1>3, WriteBegins
  <2> QED
    BY <2>1, PutShape, EmptyIsLog DEF IInv, TypeOK
<1>4. CASE Save
  <2>1. /\ logs' = Put(asked, text) /\ UNCHANGED <<asked, text, hand, cut>>
        /\ asked \in Dates /\ text \in Log
    BY <1>4 DEF Save, Writing, IInv, TypeOK
  <2>2. pc' \in {"update", "idle"} /\ result' \in {result, "created"}
    BY <1>4 DEF Save, Ends
  <2> QED
    BY <2>1, <2>2, PutShape DEF IInv, TypeOK
<1>5. CASE Crash
  <2>1. asked \in Dates /\ text \in Log
    BY <1>5 DEF Crash, IInv, TypeOK
  <2>2. /\ pc' = "idle" /\ result' = "crashed" /\ UNCHANGED <<asked, text, hand>>
        /\ cut' \subseteq Dates
    BY <1>5, <2>1 DEF Crash, Ends, IInv, TypeOK
  <2>3. CASE Writing
    <3>1. PICK part \in Prefixes(text) : logs' = Put(asked, part)
      BY <1>5, <2>3 DEF Crash
    <3>2. part \in Log
      BY <2>1, PrefixIsLog
    <3> QED
      BY <2>1, <2>2, <3>1, <3>2, PutShape DEF IInv, TypeOK
  <2>4. CASE logs' = logs
    BY <2>2, <2>4 DEF IInv, TypeOK
  <2> QED
    BY <1>5, <2>3, <2>4 DEF Crash
<1>6. ASSUME NEW d \in Dates, Edit(d) PROVE IInv'
  <2>1. PICK style \in Styles, dateLine \in {d, Placeholder} :
          logs' = Put(d, Written(d, style, dateLine))
    BY <1>6 DEF Edit
  <2>2. /\ pc = "idle" /\ UNCHANGED <<asked, text, pc, result, cut>>
        /\ hand' = hand \cup {d}
    BY <1>6 DEF Edit
  <2>3. Written(d, style, dateLine) \in Log
    BY WrittenIsLog
  <2> QED
    BY <2>1, <2>2, <2>3, PutShape DEF IInv, TypeOK
<1>7. CASE UNCHANGED vars
  BY <1>7 DEF vars, IInv, TypeOK
<1> QED
  BY <1>1, <1>2, <1>3, <1>4, <1>5, <1>6, <1>7 DEF Next, Script

\* The variables keep their types.
THEOREM LogTypes == Spec => []TypeOK
<1>1. IInv => TypeOK
  BY DEF IInv
<1> QED
  BY <1>1, InitIInv, NextIInv, PTL DEF Spec

\* No run changes a log that was there when it started, whatever it is asked
\* for and wherever it is cut short (create_changelog_entry.exs:59-79, 142).
THEOREM LogPastUntouched == Spec => PastUntouched
<1> DEFINE Untouched == pc # "idle" => \A d \in DOMAIN logs :
                          /\ d \in DOMAIN logs'
                          /\ (pc = "decide" \/ d # asked) => logs'[d] = logs[d]
<1>1. IInv /\ [Next]_vars => [Untouched]_vars
  <2> SUFFICES ASSUME IInv, Next, pc # "idle", NEW d \in DOMAIN logs
               PROVE  /\ d \in DOMAIN logs'
                      /\ (pc = "decide" \/ d # asked) => logs'[d] = logs[d]
    OBVIOUS
  <2>1. CASE CreateTemplate \/ Copy \/ Update
    <3>1. logs' = Put(asked, Empty) /\ asked \in Dates
      BY <2>1, WriteBegins
    <3>2. pc = "decide" => d # asked
      BY <2>1, CopyAdds DEF CreateTemplate, Update
    <3> QED
      BY <3>1, <3>2, PutShape, EmptyIsLog
  <2>2. CASE Save
    <3>1. logs' = Put(asked, text) /\ pc # "decide" /\ asked \in Dates /\ text \in Log
      BY <2>2 DEF Save, Writing, IInv, TypeOK
    <3> QED
      BY <3>1, PutShape
  <2>3. CASE Crash
    <3>1. CASE Writing
      <4>1. PICK part \in Prefixes(text) : logs' = Put(asked, part)
        BY <2>3, <3>1 DEF Crash
      <4>2. part \in Log /\ asked \in Dates /\ pc # "decide"
        BY <3>1, PrefixIsLog DEF Writing, IInv, TypeOK
      <4> QED
        BY <4>1, <4>2, PutShape
    <3> QED
      BY <2>3, <3>1 DEF Crash
  <2>4. CASE TouchAsked \/ TouchLatest
    BY <2>4 DEF TouchAsked, TouchLatest
  <2> QED
    BY <2>1, <2>2, <2>3, <2>4 DEF Next, Script, Run, Edit
<1> QED
  BY <1>1, InitIInv, NextIInv, PTL DEF Spec, PastUntouched
-----------------------------------------------------------------------------
(* What cut runs spoil *)

\* A run has been cut short at this date or before it.
CutBefore(d) == \E c \in cut : c <= d

\* The logs say it of themselves, and the run under way of what it writes: a
\* text that is not whole comes from an older log, and only a copy may still
\* have a placeholder in it.
SpoilInv == /\ SpoiledByCutRuns
            /\ Writing /\ ~text.whole => CutBefore(asked)
            /\ pc \in {"template", "rewrite"} => text.dateLine # Placeholder
            /\ pc = "update" /\ ~logs[asked].whole => CutBefore(asked)

\* The maintainers' logs are whole.
LEMMA InitSpoil == Init => SpoilInv
<1> SUFFICES ASSUME Init PROVE SpoiledByCutRuns
  BY DEF Init, SpoilInv, Writing
<1>1. PICK D \in SUBSET Dates, style \in Styles :
        logs = [d \in D |-> Written(d, style, d)] /\ hand = D
  BY DEF Init
<1>2. \A d \in DOMAIN logs : d \in hand /\ logs[d].whole
  BY <1>1, WrittenIsLog
<1> QED
  BY <1>2 DEF SpoiledByCutRuns, Settled

\* A copy is newer than its source, so that what it takes over goes forward.
LEMMA NextSpoil == IInv /\ SpoilInv /\ [Next]_vars => SpoilInv'
<1> SUFFICES ASSUME IInv, SpoilInv, [Next]_vars PROVE SpoilInv'
  OBVIOUS
<1> USE DEF CutBefore
<1>1. ASSUME NEW stem \in Dates \cup {Bad}, Run(stem) PROVE SpoilInv'
  BY <1>1 DEF SpoilInv, SpoiledByCutRuns, Settled, Writing, Run, Ends
<1>2. CASE TouchAsked \/ TouchLatest
  BY <1>2 DEF SpoilInv, SpoiledByCutRuns, Settled, Writing, TouchAsked, TouchLatest, Ends
<1>3. CASE CreateTemplate \/ Copy \/ Update
  <2>1. /\ logs' = Put(asked, Empty) /\ asked' = asked /\ asked \in Dates
        /\ hand' = hand /\ cut' = cut /\ pc' \in {"template", "copy", "rewrite"}
    BY <1>3, WriteBegins
  <2>2. SpoiledByCutRuns'
    <3>1. pc = "decide" => asked \notin DOMAIN logs
      BY <1>3, CopyAdds DEF CreateTemplate, Update
    <3>2. pc \in {"decide", "update"}
      BY <1>3 DEF CreateTemplate, Copy, Update
    <3>3. /\ DOMAIN logs' = DOMAIN logs \cup {asked}
          /\ \A d \in DOMAIN logs : d # asked => logs'[d] = logs[d]
      BY <2>1, PutShape, EmptyIsLog
    <3>4. Settled' = (DOMAIN logs \cup {asked}) \ {asked}
      BY <2>1, <3>3 DEF Settled
    <3>5. Settled = DOMAIN logs \ {asked}
      BY <3>1, <3>2 DEF Settled
    <3>6. Settled' = Settled /\ \A d \in Settled : logs'[d] = logs[d]
      BY <3>3, <3>4, <3>5
    <3> QED
      BY <2>1, <3>6 DEF SpoilInv, SpoiledByCutRuns
  <2>3. ~text'.whole => CutBefore(asked)
    <3>1. CASE CreateTemplate
      BY <2>1, <3>1, WrittenIsLog, DatesAssumption DEF CreateTemplate, Opens
    <3>2. CASE Copy
      <4>1. /\ text' = logs[Latest] /\ Latest \in Settled
            /\ Latest < asked /\ Latest \in Nat /\ asked \in Nat /\ cut \subseteq Nat
        BY <2>1, <3>2, CopyAdds, DatesAssumption DEF Copy, Opens, Settled, IInv, TypeOK
      <4>2. ~logs[Latest].whole => \E c \in cut : c <= Latest
        BY <4>1 DEF SpoilInv, SpoiledByCutRuns
      <4> QED
        BY <4>1, <4>2
    <3>3. CASE Update
      <4>1. logs[asked] \in Log /\ text' = Dated(logs[asked]) /\ pc = "update"
        BY <3>3 DEF Update, Opens, IInv, TypeOK
      <4> QED
        BY <2>1, <4>1, DatedLog DEF SpoilInv
    <3> QED
      BY <1>3, <3>1, <3>2, <3>3
  <2>4. pc' \in {"template", "rewrite"} => text'.dateLine # Placeholder
    <3>1. CASE CreateTemplate
      BY <2>1, <3>1, WrittenIsLog, DatesAssumption DEF CreateTemplate, Opens
    <3>2. CASE Copy
      BY <3>2 DEF Copy, Opens
    <3>3. CASE Update
      <4>1. logs[asked] \in Log /\ text' = Dated(logs[asked])
        BY <3>3 DEF Update, Opens, IInv, TypeOK
      <4> QED
        BY <2>1, <4>1, DatedLog
    <3> QED
      BY <1>3, <3>1, <3>2, <3>3
  <2> QED
    BY <2>1, <2>2, <2>3, <2>4 DEF SpoilInv
<1>4. CASE Save
  <2>1. /\ logs' = Put(asked, text) /\ UNCHANGED <<asked, text, hand, cut>>
        /\ Writing /\ asked \in Dates /\ text \in Log /\ asked \in DOMAIN logs
    BY <1>4 DEF Save, Writing, IInv, TypeOK
  <2>2. /\ DOMAIN logs' = DOMAIN logs /\ logs'[asked] = text
        /\ \A d \in DOMAIN logs : d # asked => logs'[d] = logs[d]
    BY <2>1, PutShape
  <2>3. Settled = DOMAIN logs \ {asked}
    BY <2>1 DEF Settled, Writing
  <2>4. CASE pc = "copy"
    <3>1. pc' = "update" /\ Settled' = Settled
      BY <1>4, <2>1, <2>2, <2>3, <2>4 DEF Save, Settled
    <3> QED
      BY <2>1, <2>2, <2>3, <3>1 DEF SpoilInv, SpoiledByCutRuns, Writing
  <2>5. CASE pc # "copy"
    <3>1. pc' = "idle" /\ text.dateLine # Placeholder
      BY <1>4, <2>1, <2>5 DEF Save, Ends, Writing, SpoilInv
    <3>2. Settled' = DOMAIN logs
      BY <2>2, <3>1 DEF Settled
    <3> QED
      BY <2>1, <2>2, <2>3, <3>1, <3>2 DEF SpoilInv, SpoiledByCutRuns, Writing
  <2> QED
    BY <2>4, <2>5
<1>5. CASE Crash
  <2>1. pc' = "idle" /\ asked' = asked /\ hand' = hand /\ pc # "idle" /\ asked \in Dates
    BY <1>5 DEF Crash, Ends, IInv
  <2>2. CASE pc = "decide"
    BY <1>5, <2>1, <2>2 DEF Crash, Writing, SpoilInv, SpoiledByCutRuns, Settled
  <2>3. CASE pc # "decide"
    <3>1. cut' = cut \cup {asked} /\ asked <= asked
      BY <1>5, <2>1, <2>3, DatesAssumption DEF Crash
    <3>2. /\ DOMAIN logs' = DOMAIN logs
          /\ \A d \in DOMAIN logs : d # asked => logs'[d] = logs[d]
      <4>1. CASE Writing
        <5>1. PICK part \in Prefixes(text) : logs' = Put(asked, part)
          BY <1>5, <4>1 DEF Crash
        <5>2. part \in Log /\ asked \in DOMAIN logs
          BY <2>1, <2>3, PrefixIsLog DEF IInv, TypeOK
        <5> QED
          BY <2>1, <5>1, <5>2, PutShape
      <4> QED
        BY <1>5, <4>1 DEF Crash
    <3>3. Settled' = DOMAIN logs /\ Settled = DOMAIN logs \ {asked}
      BY <2>1, <2>3, <3>2 DEF Settled
    <3>4. SpoiledByCutRuns'
      BY <2>1, <3>1, <3>2, <3>3 DEF SpoilInv, SpoiledByCutRuns
    <3> QED
      BY <2>1, <3>4 DEF SpoilInv, Writing
  <2> QED
    BY <2>2, <2>3
<1>6. ASSUME NEW d \in Dates, Edit(d) PROVE SpoilInv'
  <2>1. PICK style \in Styles, dateLine \in {d, Placeholder} :
          logs' = Put(d, Written(d, style, dateLine))
    BY <1>6 DEF Edit
  <2>2. /\ pc = "idle" /\ pc' = "idle" /\ d \in DOMAIN logs
        /\ cut' = cut /\ hand' = hand \cup {d}
    BY <1>6 DEF Edit
  <2>3. /\ DOMAIN logs' = DOMAIN logs /\ logs'[d].whole
        /\ \A e \in DOMAIN logs : e # d => logs'[e] = logs[e]
    <3>1. Written(d, style, dateLine) \in Log /\ Written(d, style, dateLine).whole
      BY WrittenIsLog
    <3>2. /\ DOMAIN logs' = DOMAIN logs \cup {d}
          /\ logs'[d] = Written(d, style, dateLine)
          /\ \A e \in DOMAIN logs : e # d => logs'[e] = logs[e]
      BY <2>1, <3>1, PutShape
    <3> QED
      BY <2>2, <3>1, <3>2
  <2>4. Settled' = DOMAIN logs /\ Settled = DOMAIN logs
    BY <2>2, <2>3 DEF Settled
  <2>5. SpoiledByCutRuns'
    BY <2>2, <2>3, <2>4 DEF SpoilInv, SpoiledByCutRuns
  <2> QED
    BY <2>2, <2>5 DEF SpoilInv, Writing
<1>7. CASE UNCHANGED vars
  BY <1>7 DEF vars, SpoilInv, SpoiledByCutRuns, Settled, Writing
<1> QED
  BY <1>1, <1>2, <1>3, <1>4, <1>5, <1>6, <1>7 DEF Next, Script

\* What cut runs have spoiled lies at the date of one of them or after it
\* (create_changelog_entry.exs:59-61, 72 and 142-162).
THEOREM LogSpoiledForward == Spec => []SpoiledByCutRuns
<1>1. SpoilInv => SpoiledByCutRuns
  BY DEF SpoilInv
<1> QED
  BY <1>1, InitIInv, NextIInv, InitSpoil, NextSpoil, PTL DEF Spec
=============================================================================
