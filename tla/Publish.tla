------------------------------ MODULE Publish ------------------------------
(***************************************************************************)
(* .github/workflows/publish.yml: each push to main renders the site and   *)
(* deploys it to GitHub Pages.  The runs share one concurrency group with  *)
(* cancel-in-progress: GitHub keeps one run and at most one behind it, and *)
(* a new push cancels the one and replaces the other.                      *)
(***************************************************************************)
EXTENDS Naturals

CONSTANT MaxPushes    \* bound on the pushes to main

ASSUME PushAssumption == MaxPushes \in Nat

VARIABLES pushed,     \* the version of main, counted in pushes
          waiting,    \* the versions queued in the group
          running,    \* runs under way: [version, step, cancelled]
          site,       \* the version that GitHub Pages shows
          failed      \* the newest version a run of which has failed, or 0

pubVars == <<pushed, waiting, running, site, failed>>

PubTypeOK ==
  /\ pushed \in 0..MaxPushes /\ site \in 0..pushed /\ failed \in 0..pushed
  /\ waiting \subseteq 1..pushed
  /\ running \subseteq [version : 1..pushed, step : {"render", "deploy"},
                        cancelled : BOOLEAN]

PubInit == pushed = 0 /\ site = 0 /\ waiting = {} /\ running = {} /\ failed = 0

\* Mutant: a push made while a run is under way starts none.
PushDropped == /\ pushed < MaxPushes
               /\ pushed' = pushed + 1
               /\ waiting' = IF running = {} THEN {pushed + 1} ELSE waiting
               /\ UNCHANGED <<running, site, failed>>

PushMain == /\ pushed < MaxPushes
            /\ pushed' = pushed + 1
            /\ waiting' = {pushed + 1}
            /\ running' = {[r EXCEPT !.cancelled = TRUE] : r \in running}
            /\ UNCHANGED <<site, failed>>

\* Mutant: no concurrency group.
StartAtOnce == /\ \E v \in waiting :
                    /\ waiting' = waiting \ {v}
                    /\ running' = running \cup {[version |-> v, step |-> "render",
                                                 cancelled |-> FALSE]}
               /\ UNCHANGED <<pushed, site, failed>>

\* A run checks out the version of its own push, once the group is free.
Start == /\ running = {}
         /\ \E v \in waiting :
              /\ waiting' = waiting \ {v}
              /\ running' = {[version |-> v, step |-> "render",
                              cancelled |-> FALSE]}
         /\ UNCHANGED <<pushed, site, failed>>

Render == /\ \E r \in running :
               /\ r.step = "render" /\ ~r.cancelled
               /\ running' = (running \ {r}) \cup {[r EXCEPT !.step = "deploy"]}
          /\ UNCHANGED <<pushed, waiting, site, failed>>

\* The push to gh-pages; a cancellation may come too late to stop it.
Deploy == /\ \E r \in running :
               /\ r.step = "deploy"
               /\ site' = r.version
               /\ running' = running \ {r}
          /\ UNCHANGED <<pushed, waiting, failed>>

Cancel == /\ \E r \in running : r.cancelled /\ running' = running \ {r}
          /\ UNCHANGED <<pushed, waiting, site, failed>>

\* An install, the render or the deploy fails; nothing retries it.
Fail == /\ \E r \in running : running' = running \ {r} /\ failed' = r.version
        /\ UNCHANGED <<pushed, waiting, site>>

PubNext == PushMain \/ Start \/ Render \/ Deploy \/ Cancel \/ Fail

\* GitHub gives each run a runner and works off its steps; nobody has to push.
PubSpec == PubInit /\ [][PubNext]_pubVars /\ WF_pubVars(Start \/ Render \/ Deploy \/ Cancel)
-----------------------------------------------------------------------------
(* Properties *)

\* The site never goes back to an older version, though pushes replace one
\* another and a run that is cancelled in mid-deploy may still deploy
\* (publish.yml:7-9).
NeverOlder == [][site' >= site]_pubVars

\* A group with nothing to do has published the last push, unless just that
\* push's run has failed: no run before it, cancelled or failed, and no push
\* that was replaced while it waited is to blame (publish.yml:7-9).
QuietIsLatest == waiting = {} /\ running = {} => site = pushed \/ failed = pushed

\* Once the pushes stop, the site shows the last of them, unless just that
\* push's run has failed: nothing cancels it, and no cancelled or failed run
\* before it is in its way (publish.yml:7-9).
CatchesUp == <>[](site = pushed \/ failed = pushed)
=============================================================================
