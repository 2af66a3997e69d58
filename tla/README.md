# Verification of the multiplayer-fabric manuals

The repository is a manual: decision records (RFDs), deck logs, measurements
and the website made of them. What it executes is small and scattered: the
gates that keep the record consistent, the scripts that write to it, the
pipeline that publishes it, and the C and C++ probes behind the numbers that
some RFDs cite. This directory holds TLA+ models of those programs, TLC
configurations that check them on small instances, and TLAPS proofs for every
value of the constants.

Run `tlc -config X.cfg M` for the pairs listed under [Runs](#runs), and
`tlapm M.tla` for the eight modules whose names end in `Proofs`.

## Components

| Component | Source | State | Operations | What is hard | What makes it right |
|---|---|---|---|---|---|
| Ring probe | `rfd/2060-…/probe.c` 132–176 | two shared words, two loops | store, spin, load, reply, stop | two processes without a lock or a time limit; loss of either; unchecked `fork` | each sample times its own round trip; both processes end |
| Socketpair probe | `probe.c` 100–130 | two queues, who holds which descriptor | write, read, close, exit | end of file depends on every copy of a descriptor; SIGPIPE; early exits | one message in flight; nobody is left blocked; only measured samples are printed |
| Measurement store | `data/measurements/build.py` | lists in the script, six Parquet files | insert, verify, copy | crash between the copies; faults found late; reruns | files agree with one another; nothing unchecked is written |
| Deck log creator | `scripts/create_changelog_entry.exs` | files under `changelog/` | touch, template, copy, rewrite | copy and rewrite are two writes, and each empties the file first; edits by hand between runs | logs that are there stay as they are; what a cut run spoils is not carried to earlier dates |
| RFD number check | `scripts/check-rfd-numbers.py` | none: a verdict on a tree | check, self-test | filters and early exits before the checks | it accepts a tree exactly if the directories and links it looks at follow RFD 2000; the self-test notices a lost check |
| Pull request gate | `.github/workflows/checks.yml`, RFD 2015 | main, branches, verdicts | open, push, update, run, merge | two pull requests choose one serial; verdicts grow stale | main always passes the check |
| Publication | `.github/workflows/publish.yml` | waiting and running runs, the site | push, start, render, deploy, cancel | cancellation during a deploy; starvation; failures | never older; in the end the latest |
| Page filter | `scripts/decision-meta.py` | none: sources in, navigation out | scan, identify, relate, put on top | one process per page; pages known by title; a status that is read twice | relations are symmetric; a superseded page and its successor list each other; each page has its trail |
| FoundationDB publisher | `rfd/2061-…/fdbpub.c` | a topic and watches in the database, the program's counts | commit, watch, publish, wait, hold, append | unknown commits, lost watches, the watch limit, a wait without a time limit | samples stand for what happened; the printed limit is the database's; it ends |

Five more are not modelled, for the reasons given under
[Not modelled](#not-modelled).

How they interact: an author's pull request passes the gate, which runs the
number check on the merge commit; a merge is a push to main, which starts a
publication; publication renders every page and runs the page filter once for
each. Authors choose the next serial from the published listing. The probes
produce the numbers that maintainers enter in the lists of `build.py` by hand.
`Delivery` composes the gate and the publication along this circle.

## Modules

`RoundTrip` is the abstract promise of a transport probe: requests go out one
at a time, an answer follows its request, and a sample follows its answer.

`ShmRing` has one action per shared access of `probe_shm_ring`. The two empty
loop bodies are one stuttering action, `Spin`, so that TLC's deadlock check
stays on and a process stuck in a spin shows as a liveness failure, as it would
on the machine. Each word has one writer, which between its store and the
answer only spins; a late store and a delayed store are then one behaviour, and
the words are sequentially consistent without loss. The clock and the payload
are left out: a sample is the index of the element that was written. `req <-
IF req = Stop THEN Iters` maps the ring to `RoundTrip`.

`UnixPair` has one action per system call of `probe_unix`. A queue is a pair of
counters; `holders` says which process has which end open, for end of file and
broken pipe are decided by it. On `SOCK_STREAM` a write to a closed end raises
SIGPIPE, which nobody ignores; on `SOCK_SEQPACKET` Linux returns -1 without a
signal. Both types are initial states.

`Measurements` follows the script table by table. Of a table it keeps which
runs its rows cite and whether two rows have one key. One `COPY` is a step:
DuckDB replaces an existing file through a temporary one. `Edit` is a
maintainer between builds, `Crash` ends a build anywhere.

`DeckLog` keeps of a log the style and date of its heading, its `Date:` line and
whether its end is there. Stems are compared as strings of eight digits, which is
the order of dates. `CreateTemplate`, `Copy` and `Update` open a file, which
empties it, and `Save` ends the write; a `Crash` in between leaves any of
`Prefixes` of the text, and the next run takes that for a log. `Edit` lets a
maintainer leave a placeholder in a log for the next one, or write up what a cut
run has left. `hand` and `cut` are history variables: the logs that maintainers
have written, and the dates at which a run was cut short.

`RfdRules` is `check()` and `self_test()` as operators on a tree, with the rule
of RFD 2000 beside them, written without looking at how the script goes about
it. A name has one of four forms, for the script has three expressions for names:
the filter of line 31, the rule of a directory name, and the links of line 94.
`Listed` and `Followed` are what it looks at. A problem is its kind and the
place, not its wording. `RfdCheck` is the
command; `MergeGate` uses the same operators for the job `rfd-numbers`.

`MergeGate` models a pull request from its branch to its merge. `Event` is the
part of every change of a head commit that `checks.yml` decides: the new run
checks out the merge with main of that moment, the run before it is cancelled,
and no verdict of it is left. `Merge` is the ruleset; `MergeOther` is a merge
without an RFD, which leaves every open branch behind. GitHub is external, taken
from how the workflow and RFD 2015 use it.

`Publish` models the concurrency group: one run at a time and one waiting. A
cancelled run may stop at any step, and a deploy may win against its
cancellation.

`Delivery` puts the two together: `Land` is a merge and the push to main that it
is, in one step, and `trees` remembers main after each push. `Listing` is what
`pages/rfd.qmd` shows of the version that is deployed. `Author` is a branch or an
amendment whose number is the next unused one *of that listing*, which is where
RFD 2000 sends an author, or the one it had.

`PageGraph` starts from any sources, also those with shared titles and pages
that are not UTF-8, and `Render` is one run of the filter. Two runs share
nothing but the sources. `Out` joins the links of the text and of the front
matter; `MetaLine` and `Trail` are what is put on top. `Curly` titles are those
that Pandoc changes before the filter compares them.

`FdbPub` has one action per round of each loop of `fdbpub.c`; the round of part
2 is three, for a watch may fire or fail between its steps. `Commit` is a
transaction: done, or an error after which it is in the database or not. The
database's own steps are `Fire` and `Lapse`; its faults are counted and bounded.
FoundationDB is external: that a watch is refused at once when there are too
many is taken from lines 131-134, which look for the error right after the
commit.

Operators under a `Mutant` comment are variants of the definition after them
with a plausible mistake. No specification uses them; they show that the
property named for them in `PROJECT.json` would notice.

## Runs

| Run | Configuration on module | Instance | Shows |
|---|---|---|---|
| ring | `ShmRing.cfg` on `ShmRing` | 6 round trips, kills, failed fork | the words are where the two loops are (`IInv`), only measured samples are printed, the double load is stable, `RoundTrip` is implemented, and a probe that does not end has lost a process |
| pair | `UnixPair.cfg` on `UnixPair` | 4 round trips, faults, both types | counters and open ends are where the two loops are (`IInv`), one message in flight, `RoundTrip` is implemented, a probe that loses nobody is complete, a loss blocks nobody |
| pair_garbage | `UnixPairGarbage.cfg` on `UnixPair` | 2 round trips, faults | **violation**: unwritten samples are printed |
| store | `Measurements.cfg` on `MCMeasurements` | 3 tables, 2 runs, any edit, crashes | completed builds are whole and agree; a fault in any table stops all files; while runs are only added, files agree at every moment |
| log | `DeckLog.cfg` on `MCDeckLog` | 3 dates, both heading styles, crashes within a write | no run changes a log that was there; a log that is not whole follows a cut run, and an undated one is such a run's own or a maintainer's |
| log_heading | `DeckLogHeading.cfg` on `MCDeckLog` | the same, no crashes | **violation**: a copy keeps the old heading |
| check_rule | `RfdCheck.cfg` on `MCRfdCheck` | up to 2 of 7 directories, 2 numbers | accepted exactly if the directories and links that are looked at follow the rule; five checks are watched by the self-test |
| delivery | `Delivery.cfg` on `MCDelivery` | 2 pull requests, 3 additions, 3 pushes, failures, cancellation | main follows the rule and becomes what was tested; a number that is listed stays listed, with its folder and no other; verdicts are verdicts on the merge; the site never goes back, and lists what has merged, in the end and whenever no run is pending, unless the last run failed |
| gate_prek | `MergeGatePrek.cfg` on `MCMergeGate` | `prek` required | **violation**: a failing number check merges |
| pages | `PageGraph.cfg` on `PageGraph` | 3 pages, all graphs, statuses and titles | related pages are related both ways, also beside pages that share a title; a superseded page and its successor list each other; a page misses its trail for three reasons only |
| pages_titles | `PageGraphTitles.cfg` on `PageGraph` | the same | **violation**: no trail on a page with an apostrophe |
| fdb | `FdbPub.cfg` on `FdbPub` | 3 commits, 3 wake-ups, 4 watches with a limit of 2, 3 faults | the position of the program fixes counters, watches and topic (`IInv`), so that samples stand for commits that took effect; without faults they stand for wake-ups; the printed limit is the database's; the program ends but for one case |

Why the bounds are enough. The probes repeat one round trip whose state differs
only by a counter, so that a few cover the first, a middle and the last one;
their safety is proved for every count. Three tables hold a parent, a child and
a child after it; two runs let a row cite one that stays and one that goes.
Three dates put a request before, at and after the newest log, and let a spoiled
one be copied twice. Two directories
are what a duplicate serial needs, and each other check concerns one; the
equivalence is proved for every tree. Two pull requests are what a race needs;
the invariant is proved for any number. Three additions are one serial under two
slugs and the serial after it. Three pushes are what it takes for a run under
way, one waiting behind it and one that replaces the waiting one; the order of
versions is proved for any number. `PageGraph` has two content pages and a hub,
which is what a relation and its filter need. Part 3 of `FdbPub` tries two
watches more than the limit, and two lost watches free two places, so that both
ends of its loop are reached; its safety is proved for every bound. Three faults let every tick of part 1 fail,
which is the case that `Ends` excepts. The constants of the code (300 commits,
100 wake-ups, 12000 watches, a limit of 10000) repeat these rounds.

Deadlock is checked except where the modelled program ends.

Some properties are conditional where the code really allows the other case:
`DiskAgrees` and `DiskAlwaysAgrees` on the history variables `interrupted` and
`shrunk`, `CatchesUp` and `MergedIsListed` on `failed`, the two termination
properties of the probes on a lost process, `SpoiledByCutRuns` on the histories
`cut` and `hand`, `TrailUnlessLost` on a title, a plain one, and readable pages, `SamplesAreWakeups` on a database
without faults (a watch that failed is counted too, lines 98-101 and 107-109),
`Symmetric` on pages whose title is their own, and `Ends` on a wait that no
publish can end: not one tick took effect, and the first wake-up writes the
value that an earlier run has left. That a deleted run and a crash together
leave orphans on disk is a reachable state of `Measurements`.

The violation runs are findings, listed with the line they contradict in
`PROJECT.json`. `log_heading` and `pages_titles` show in the repository as it
stands: no log begins with the heading the script looks for, and RFD 2057 is
one of several pages with an apostrophe in the title. `gate_prek` takes the
required check from the text of RFD 2015; `delivery` is the same workflow with
the number check required.

## Fairness

`ShmRing` and `UnixPair`: weak fairness of each process, which is the promise
of a preemptive scheduler to a runnable process. It is all that is assumed: a
kill is never fair, and neither is its absence. `build.py` line 200 records the
ring not finishing within eight minutes on one shared processor, where each
spin burns a whole time slice: fairness says it would, not when.

`Delivery` and `Publish`: weak fairness of the runs' steps together, since
GitHub gives each run a runner and works through its steps; pushes, authors,
jobs and merges are not fair. `CatchesUp` and `MergedIsListed` need that pushes
end, which the bound gives. A failure is never fair: the properties allow the
site to stay behind only when the last push's run failed.

`FdbPub`: weak fairness of the program's thread, and of the database firing a
watch whose value has changed, which is what FoundationDB promises; faults are
not fair.

The other models state safety only.

## Proofs

Every invariant and action property of the passing runs is also a theorem, for
every value of the constants that the assumptions allow. Of some properties
that a violation run refutes it is proved under which condition they hold: that
names the cause.

**`ShmRingProofs`**, from `RingAssumption` (`Stop` above `Iters`, which is
`UINT64_MAX` above 20000). `ReportIsMeasured` and `LoadIsStable` are not
inductive: they need to know how far apart the two words can be at each place
of the two loops. `IInv` says so: the parent's position fixes `req` and bounds
`rsp` between `i - 1` and `i`, the child's fixes its copy. From it follow
`RingInvariant`, `RingReports`, `RingLoads` and, action by action,
`RingImplements`. `RingNeverStuck` is the safety behind `EndsUnlessLost`: the
two never wait for each other.

**`UnixPairProofs`**, from `PairAssumption`. The invariant has two parts.
`Alternate` orders the four counters, `i <= answered <= taken <= sent`, each at
most one apart as the position of its process says; `PairOneInFlight` and
`PairImplements` follow. `Holding` says who has which end open at each place, so
that the two `close()` calls of lines 109 and 117 come before any wait that
hangs on them. With both, `PairNeverStuck`: whatever is killed, nobody waits
for a process that is gone or that waits itself, which is the safety behind
`ParentReturns` and `NoOrphan`. `PairReportsUnlessLost` adds, for a machine
without faults, that no end is closed before the last answer (`Complete`): a
lost process is the only way to the finding of `pair_garbage`.

**`RfdCheckProofs`**, from `NothingAssumption` and `RowsAssumption` (no set of
rows is the value that stands for a missing file). `CheckIsRule` holds for all
trees, and says for which of their directories and links the gate answers: those
that pass the filter of line 31, and those that line 94 finds. Each kind of problem is
empty exactly if one conjunct of the rule holds; the serial check needs an
argument, as it reports the later of two names in sorted order and sees only
valid names. `CommandIsExact` carries it to the exit code. `SelfTestReach` says
what the self-test is worth: `FixtureRejected` lists the six defects that a tree
of one directory can be rejected for, and going through the eight fixtures, a
`check()` that made only the checks of a set `K` would pass exactly if `K` has
`rfd:`, `title:`, citation, link and row. The organization check has two
fixtures, but the `rfd:` check rejects both. `SelfTestIsWatched` follows.

**`DeliveryProofs`**, from `GateAssumption` and `PushAssumption`.

Of the gate, where the ruleset is `Strict` and requires `rfd-numbers`:
`MainFollowsRule` is not inductive, as a merge makes main what an earlier run has
seen. `VerdictsStand` is what carries it: a good verdict is a verdict on the tree
checked out, and while the branch is up to date that tree is the one a merge
makes. `MainStaysValid` holds for any number of pull requests and additions, and
with it `VerdictsAreCurrent` and, as an action property, `ChangesAreTested`.
`GateTypes` needs no ruleset: `Typed` adds to the types that main has an
`ALIASES.md`, which the first tree has as it passes the check, and
`MergedIsTree` says that a merge makes a tree of a tree.

Of the publication: the group holds one run and one waiting push, the versions
of the site, the run and the waiting push are in order, and neither of the two
is a version that has failed (`InOrder`); a deploy is then never older than the
site (`SiteNeverOlder`). `LatestIsKept` adds where the last push is as long as
it is not published: waiting, or the run that nothing has cancelled, or failed.
So a group with nothing to do has published it (`QuietGroupIsLatest`), which is
the safety behind `CatchesUp`.

Of the composition: every step of it is a step of each part or none, so it
implements both (`DeliveryImplementsGate`, `DeliveryImplementsPublish`, the
latter with its fairness), and what they promise holds in it. `ListedNumbersHold`
joins them: older trees never change and each is within the later ones
(`Growing`, `Nested`), so that a deploy, which is never older, adds folders only
(`ListingOnlyGrows`); and in main, which passes the check, no two listed folders
have one number (`CheckedAreApart`), so that no folder it adds takes a number
that was listed (`ListingIsApart`). `QuietListingIsComplete` adds that what has
merged is in main (`MergedIsIn`).

**`MeasurementsProofs`**, from `OrderAssumption`, for any list of tables that
begins with `run`. `LoopInv` says what each loop has established for the tables
it has passed, and that once the copies are past the first one the run file is
that of the lists. `GrowInv` adds that without deletions the run file on disk
never names a run the lists have lost, which is what a crash between builds
needs. `StoreAlwaysAgrees` and `StoreWritesOnlyChecked` follow. `CopyInv` counts
the tables that are copied: only the last copy clears `interrupted`, and then
all are (`StoreAgrees`, `StoreIsWhole`).

**`DeckLogProofs`**, from `DatesAssumption`, which says that of any set of dates
one is the newest, as dates have eight digits. `IInv` adds to the types that a
run which copies or rewrites has a log to do it with. `LogPastUntouched` follows:
a write begins at a date without a log and stays there. `SpoiledByCutRuns` is not
inductive, as it does not speak of the log that is being made. `SpoilInv` adds
that a text which is not whole was copied from an older log, itself spoiled by a
run cut at its date or before it, and that only a copy can have a placeholder;
`LogSpoiledForward` follows, for any headings. Nothing is proved of
`HeadingUpdated`, which `log_heading` refutes.

**`PageGraphProofs`**, from `PagesAssumption`. A page whose title is its own and
that finds a page by its title has found itself, so its list is its own; the
relation of two content pages is symmetric by the two unions
(`RelatedIsSymmetric`), and a dated status is among the links
(`SupersededIsListed`). The titles of the other pages do not matter.
`TrailIsLostThreeWays` is exact about the trail of such a page, as the run
`pages` checks it (`TrailUnlessLost`): it is missing
if the page has no title, Pandoc changes the title or a page of the project
cannot be read, and only then. `EveryPlainPageHasTrail` draws from it that the
changed titles are all there is to the finding of `pages_titles`.

**`FdbPubProofs`**, from `FdbAssumption`. None of the properties is inductive.
`IInv` says what each position of the program fixes: how far the counters are
(`Positions`), that part 2 has given its watch back wherever it has ended, so
that part 3 starts with none (`Places`), what the topic holds when a watch
reads it and when it is published (`TopicFollows`), and that a wait follows a
publish which took effect and has no sample yet (`PublishedBefore`), without
which a wake-up could be counted for a commit that failed. That no sample is
(`SamplesTookEffect`) is a part of it. `PublisherHoldsLimit` and
`PublisherWakeups` follow; the first needs the
cardinality of a set of watches, from `FiniteSetTheorems`. `PublisherWaits` is
the safety behind `Ends`, with its one exception (`WaitCanEnd`), and
`PublisherComplete` says what a run without faults has measured
(`WithoutFaults`).

What stays with TLC is liveness, which is out of the prover's reach:
`EndsUnlessLost`, `CompletesUnlessLost`, `ParentReturns`, `NoOrphan`,
`CatchesUp`, `MergedIsListed` and `Ends`. For each of them the theorems have
the safety behind it: that no process waits for one that does not come, or that
a state in which nothing more happens is a good one. That the fair steps do
lead there is checked on the instances.

## Limits of the models

- The front-matter expressions of the number check match anywhere in the file;
  the model takes the first match as given and does not say where it stood.
- A pull request adds one RFD; it cannot edit the script, the workflow or
  another RFD.
- Runs of one script do not overlap, and DuckDB, Git, GitHub, Pandoc and the
  kernel are as the comments in the modules describe them.
- Authors of `Delivery` read the listing when they name a folder; what they
  decide without it is covered by the theorems on `MergeGate`, where they choose
  freely.
- A FoundationDB commit whose outcome is unknown is decided at once, and nobody
  else writes the keys of the probe.
- Texts, formats, sizes and times are left out; of the metadata line, that it is
  there.

What the code does that no run refutes: a deck log run cut short in a write
(lines 136, 142 and 162) leaves an empty or unfinished log, and between its copy
and its rewrite an undated one; a rerun only touches it (lines 59-61) and a
later date copies it and reports a new log, of which `SpoiledByCutRuns` says how
far it goes; a run for a date before the newest log succeeds without that log
(lines 75-79); the date that replaces `%%DATE%%` is that of the stem (line 150),
where lines 9-10 speak of today's; a directory such as `201-zone` is dropped by
the filter of line 31 of the number check, and a link to a name with fewer than
four digits or an upper-case slug is not found by line 94, so that such a link
may be broken and `GateExact` answers for the others only; the self-test's
docstring speaks of each check (lines 8-9), but only `rfd:`, `title:`, citation,
link and row have a self-test fixture that no other check rejects; one page that
is not UTF-8 takes the navigation from every page (`decision-meta.py` line 103);
a listing page under `pages/` would count as a content page if another page
linked to its source (line 201, against the comment of lines 195-197); the two
processes of the ring spin for ever once the other is lost, for neither loop has
a time limit (`probe.c` lines 154 and 166); and `fdbpub.c` prints "hit the try
cap" also when a transaction could not be created (lines 123 and 138).

## Not modelled

- `scripts/check_tropes.sh`: one pass over lines with no state beyond the file
  at hand, and no workflow runs it. What could be wrong is in its regular
  expressions, which a model of the control does not tell apart.
- `rfd/2067-…/pointget.c`: one transaction after another, without watches or
  shared state; its commits and unchecked errors are those of `FdbPub`.
- `rfd/2062-…/rollback.cpp`: the state that is saved, run and restored is the
  emulator's, which is not in the repository.
- `rfd/2065-…/wire.c`: a sequential computation of byte counts over generated
  frames, nothing of which is sent or lost.
- The io_uring, memfd and UDP parts of `rfd/2060-…/probe.c`, and `probe.sh`: a
  few system calls each, of which it is printed whether they worked.
- Site sources: content.

Left for later: the front matter and the body of an `index.md` apart in
`RfdRules`.
