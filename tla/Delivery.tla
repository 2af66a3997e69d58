------------------------------ MODULE Delivery ------------------------------
(***************************************************************************)
(* From a branch to the published listing and back: the pull request gate  *)
(* (MergeGate) and the publication (Publish) together.  A merge is a push  *)
(* to main, which starts a run of publish.yml; the listing that the run    *)
(* deploys (pages/rfd.qmd) is where RFD 2000 sends the next author for an  *)
(* unused serial.  So authors choose from a site that is behind main, by   *)
(* the merges whose runs are waiting, under way, cancelled or failed.      *)
(***************************************************************************)
EXTENDS MergeGate, Publish

VARIABLE trees    \* main after each of its pushes

deliveryVars == <<vars, pubVars, trees>>

DeliveryInit == Init /\ PubInit /\ trees = [v \in {0} |-> FirstTree]

\* What the listing shows.
Listing == trees[site].dirs

\* "the next unused serial under that digit", by the listing.
TakesNext(a) == LET serials == {d.num[2] : d \in Listing}
                IN  a.name.num[2] \notin serials /\ a.name.num[2] - 1 \in serials

\* The author reads the listing when he names the folder, or names it again.
Author(p) == /\ \/ Branch(p)
                \/ Push(p)
             /\ TakesNext(adds'[p]) \/ (state[p] = "open"
                                          /\ adds'[p].name = adds[p].name)
             /\ UNCHANGED <<pubVars, trees>>

Gate(p) == /\ Open(p) \/ UpdateBranch(p) \/ RunNumbers(p) \/ RunOther(p)
           /\ UNCHANGED <<pubVars, trees>>

\* Mutant: a merge that publish.yml is not told of.
LandUnseen == /\ (\E p \in PRs : Merge(p)) \/ MergeOther
              /\ trees' = [v \in 0..pushed + 1 |-> IF v > pushed THEN main' ELSE trees[v]]
              /\ UNCHANGED pubVars

\* A merge is a push to main.
Land == /\ (\E p \in PRs : Merge(p)) \/ MergeOther
        /\ PushMain
        /\ trees' = [v \in 0..pushed' |-> IF v > pushed THEN main' ELSE trees[v]]

Publication == /\ Start \/ Render \/ Deploy \/ Cancel \/ Fail
               /\ UNCHANGED <<vars, trees>>

DeliveryNext == \/ \E p \in PRs : Author(p) \/ Gate(p)
                \/ Land
                \/ Publication

\* As in Publish: runs are worked off; nobody has to push, test or merge.
DeliverySpec == /\ DeliveryInit /\ [][DeliveryNext]_deliveryVars
                /\ WF_pubVars(Start \/ Render \/ Deploy \/ Cancel)
-----------------------------------------------------------------------------
(* Properties *)

\* A number, once listed, is listed with that folder for good: no deploy takes
\* the folder off the listing, and none brings another folder with its number,
\* whatever authors chose from an older listing (publish.yml:7-9 and RFD 2000,
\* index.md:47-50).
ListedNumbersStay ==
  [][/\ Listing \subseteq Listing'
     /\ \A d \in Listed(trees[site]), e \in Listed(trees'[site']) :
          d.num = e.num => d = e]_deliveryVars

\* Whenever no run is under way or waiting, the listing shows every RFD that has
\* merged, unless the last push's own run has failed.
QuietIsListed ==
  waiting = {} /\ running = {} /\ (failed = pushed => failed = 0)
    => \A p \in PRs : state[p] = "merged" => adds[p].name \in Listing

\* In the end the listing shows every RFD that has merged, unless the last
\* push's own run has failed.
MergedIsListed == <>[](\/ failed = pushed /\ failed > 0
                       \/ \A p \in PRs : state[p] = "merged" => adds[p].name \in Listing)
=============================================================================
