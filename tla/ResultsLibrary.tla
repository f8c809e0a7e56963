-------------------------- MODULE ResultsLibrary --------------------------
(***************************************************************************)
(* What the evaluation page reads (internal/evalweb): the list of runs, kept  *)
(* by scans that hold no lock while they walk, with the live jobs laid over    *)
(* it; the analysed report of a run, kept by the stamp of its results; and the  *)
(* changes made through the page.  One run stands for all: a job creates it,    *)
(* appends results to it, and ends.                                            *)
(***************************************************************************)
EXTENDS Naturals, FiniteSets

CONSTANTS Listers, Readers,         \* requests of the list, of the report
          MaxResults, MaxClients    \* bounds: results, and how many of the requests there are at all

VARIABLES
  disk,        \* the run's directory
  job,         \* the job: none, running, over (its end not yet announced), done
  generation,  \* bumped by every change the server makes
  index,       \* the last list, the generation it reflects, when its scan started
  scans,       \* how many scans have started: the clock
  scanning,    \* who holds the scan lock
  refreshing,  \* a background scan is under way
  lister,      \* the requests that need the list
  analysis,    \* by the stamp of the results, the analyses in flight
  cache,       \* the report that is kept
  reader       \* the requests of the report

list == <<generation, index, scans, scanning, refreshing, lister>>
report == <<analysis, cache, reader>>
vars == <<disk, job, list, report>>

\* The background scan is a lister of its own.
Lister == Listers \cup {"refresher"}
NoList == [state |-> "absent"]
\* The size of the results, for their size and time.  Results are only appended, so the
\* analysis a request may join is the one of the highest stamp; the others were replaced.
Stamps == 0..MaxResults
Absent == [state |-> "absent", results |-> 0, name |-> 0, status |-> "none"]

----------------------------------------------------------------------------
(* What a scan makes of the directory.                                      *)

\* A run that is recorded as running has lost its process, unless a live job says so.
Recorded(status) == IF status = "running" THEN "interrupted" ELSE status

Summarize(d) ==
  IF d.state = "absent" THEN Absent ELSE [d EXCEPT !.status = Recorded(@)]

\* overlayJobs: the run of a live job is running, whatever the scan found.
Overlay(run) ==
  IF run.state = "present" /\ job = "running" THEN [run EXCEPT !.status = "running"] ELSE run

----------------------------------------------------------------------------
(* The job that writes the run.                                             *)

\* The directory, its metadata, the generation and the job, in one critical section.
StartJob ==
  /\ job = "none"
  /\ disk' = [state |-> "present", results |-> 0, name |-> 0, status |-> "running"]
  /\ job' = "running"
  /\ generation' = generation + 1
  /\ UNCHANGED <<index, scans, scanning, refreshing, lister, report>>

AppendResult ==
  /\ job = "running" /\ disk.results < MaxResults
  /\ disk' = [disk EXCEPT !.results = @ + 1]
  /\ UNCHANGED <<job, list, report>>

JobEnds ==
  /\ job = "running"
  /\ job' = "over"
  /\ disk' = [disk EXCEPT !.status = "done"]
  /\ UNCHANGED <<list, report>>

Invalidate ==
  /\ job = "over" /\ job' = "done"
  /\ generation' = generation + 1
  /\ UNCHANGED <<disk, index, scans, scanning, refreshing, lister, report>>

----------------------------------------------------------------------------
(* The list: index, rescan, and the requests that use it.                   *)

\* What the server had told of when the request began.
Known == [over |-> job = "done", name |-> disk.name,
          deleted |-> \E l \in Listers : lister[l].place = "done" /\ lister[l].wants = "delete",
          results |-> disk.results]

Resting == [place |-> "idle", wants |-> "answered", forced |-> FALSE, requested |-> 0, run |-> Absent,
            walked |-> 0, known |-> [over |-> FALSE, name |-> 0, deleted |-> FALSE, results |-> 0]]
At(l, place) == lister' = [lister EXCEPT ![l].place = place]
\* A scan that ends: what it was for is forgotten; a request goes on, the refresher rests.
Scanned(l, run) ==
  lister' = [lister EXCEPT ![l] = IF l = "refresher" THEN Resting
                                  ELSE [@ EXCEPT !.place = "overlay", !.run = run,
                                                 !.walked = 0, !.requested = 0]]
Dirty == index.scanned # generation

\* index: the list is used as it is, or waited for.  A list past its time is used while
\* one scan runs behind it.
Waits(force) == force \/ Dirty \/ index.run.state = "none"
Index(l, force, wants) ==
  /\ lister[l].place = "idle"
  /\ \E behind \in IF Waits(force) \/ refreshing THEN {FALSE} ELSE BOOLEAN :
       /\ refreshing' = (refreshing \/ behind)
       /\ lister' =
            [lister EXCEPT
               ![l] = [place |-> IF Waits(force) THEN "lock" ELSE "overlay", wants |-> wants,
                       forced |-> force, walked |-> 0,
                       run |-> IF Waits(force) THEN Absent ELSE index.run,
                       requested |-> IF Waits(force) THEN scans ELSE 0,
                       known |-> Known],
               !["refresher"] =
                  IF behind THEN [@ EXCEPT !.place = "lock", !.requested = scans] ELSE @]
  /\ UNCHANGED <<disk, job, generation, index, scans, scanning, report>>

Lock(l) ==
  /\ lister[l].place = "lock" /\ scanning = "nobody"
  /\ scanning' = l
  /\ At(l, "decide")
  /\ UNCHANGED <<disk, job, generation, index, scans, refreshing, report>>

\* A scan that started after the request was made serves it too.
Share(l) ==
  /\ lister[l].place = "decide"
  /\ index.run.state # "none" /\ index.started > lister[l].requested /\ ~Dirty
  /\ Scanned(l, index.run)
  /\ scanning' = "nobody"
  /\ refreshing' = (refreshing /\ l # "refresher")
  /\ UNCHANGED <<disk, job, generation, index, scans, report>>

Rescan(l) ==
  /\ lister[l].place = "decide"
  /\ index.run.state = "none" \/ index.started <= lister[l].requested \/ Dirty
  /\ scans' = scans + 1
  /\ lister' = [lister EXCEPT ![l].place = "walk", ![l].walked = generation]
  /\ UNCHANGED <<disk, job, generation, index, scanning, refreshing, report>>

\* The walk meets no error that ends it (index.go:101-104): it skips what it cannot read.
Discover(l) ==
  /\ lister[l].place = "walk"
  /\ lister' = [lister EXCEPT ![l].place = "store", ![l].run = Summarize(disk)]
  /\ UNCHANGED <<disk, job, generation, index, scans, scanning, refreshing, report>>

\* Faulty variant: the list counts as up to date with what changed during the walk.
StoreAsCurrent(l) ==
  /\ lister[l].place = "store"
  /\ index' = [run |-> lister[l].run, scanned |-> generation, started |-> scans]
  /\ scanning' = "nobody"
  /\ Scanned(l, lister[l].run)
  /\ refreshing' = (refreshing /\ l # "refresher")
  /\ UNCHANGED <<disk, job, generation, scans, report>>
Store(l) ==
  /\ lister[l].place = "store"
  /\ index' = [run |-> lister[l].run, scanned |-> lister[l].walked, started |-> scans]
  /\ scanning' = "nobody"
  /\ Scanned(l, lister[l].run)
  /\ refreshing' = (refreshing /\ l # "refresher")
  /\ UNCHANGED <<disk, job, generation, scans, report>>

OverlayJobs(l) ==
  /\ lister[l].place = "overlay"
  /\ lister' = [lister EXCEPT ![l].place = lister[l].wants, ![l].run = Overlay(lister[l].run)]
  /\ UNCHANGED <<disk, job, generation, index, scans, scanning, refreshing, report>>

----------------------------------------------------------------------------
(* Changes through the page: on a run that is listed, and is not running.   *)

Refused(l) == lister[l].run.state = "absent" \/ lister[l].run.status = "running"

LibraryRefused(l) ==
  /\ lister[l].place \in {"rename", "delete"} /\ Refused(l)
  /\ lister' = [lister EXCEPT ![l] = [Resting EXCEPT !.place = "refused"]]
  /\ UNCHANGED <<disk, job, generation, index, scans, scanning, refreshing, report>>

\* The reports are dropped: they name the run.
Rename(l) ==
  /\ lister[l].place = "rename" /\ ~Refused(l)
  /\ IF disk.state = "present"
     THEN disk' = [disk EXCEPT !.name = @ + 1]
     ELSE UNCHANGED disk
  /\ generation' = generation + 1 /\ cache' = NoList
  /\ lister' = [lister EXCEPT ![l] = [Resting EXCEPT !.place = "done", !.wants = lister[l].wants]]
  /\ UNCHANGED <<job, index, scans, scanning, refreshing, analysis, reader>>

\* The directory goes first, without a lock; the list is told afterwards.
Delete(l) ==
  /\ lister[l].place = "delete" /\ ~Refused(l)
  /\ disk' = Absent
  /\ At(l, "deleted")
  /\ UNCHANGED <<job, generation, index, scans, scanning, refreshing, report>>

Deleted(l) ==
  /\ lister[l].place = "deleted"
  /\ generation' = generation + 1 /\ cache' = NoList
  /\ lister' = [lister EXCEPT ![l] = [Resting EXCEPT !.place = "done", !.wants = lister[l].wants]]
  /\ UNCHANGED <<disk, job, index, scans, scanning, refreshing, analysis, reader>>

----------------------------------------------------------------------------
(* Reports.                                                                 *)

Away == [place |-> "idle", asked |-> 0, got |-> 0]
NoAnalysis == [state |-> "none", results |-> 0, for |-> {}]

\* The analysis that a reader waits for: the one under way, or a new one.
Joined(a, r) == IF a.state = "none" THEN [state |-> "read", results |-> 0, for |-> {r}]
                ELSE [a EXCEPT !.for = @ \cup {r}]

\* A reader is a request, or the background that warms the newest runs.  The stamp of the
\* results decides: what is kept, what is under way, or a new analysis, which takes the
\* place of one of an older stamp; that one goes on.
Ladder(r) ==
  /\ reader[r].place = "idle" /\ disk.state = "present"
  /\ IF cache.state = "kept" /\ cache.stamp = disk.results
     THEN /\ reader' = [reader EXCEPT ![r] = [place |-> "answered", asked |-> disk.results,
                                              got |-> cache.results]]
          /\ UNCHANGED analysis
     ELSE /\ reader' = [reader EXCEPT ![r] = [place |-> "wait", asked |-> disk.results, got |-> 0]]
          /\ analysis' = [analysis EXCEPT ![disk.results] = Joined(@, r)]
  /\ UNCHANGED <<disk, job, list, cache>>

\* It runs on whoever goes away.
Analyze(n) ==
  /\ analysis[n].state = "read" /\ disk.state = "present"
  /\ analysis' = [analysis EXCEPT ![n].state = "store", ![n].results = disk.results]
  /\ UNCHANGED <<disk, job, list, cache, reader>>

\* Replaced or not, it stores what it read, over a later report if one came first, and
\* after the reports were dropped if they were.
Analyzed(n) ==
  /\ analysis[n].state = "store"
  /\ cache' = [state |-> "kept", stamp |-> n, results |-> analysis[n].results]
  /\ reader' = [r \in Readers |->
                  IF r \in analysis[n].for
                  THEN [reader[r] EXCEPT !.place = "answered", !.got = analysis[n].results]
                  ELSE reader[r]]
  /\ analysis' = [analysis EXCEPT ![n] = NoAnalysis]
  /\ UNCHANGED <<disk, job, list>>

\* The run was deleted meanwhile.
AnalysisFails(n) ==
  /\ analysis[n].state = "read" /\ disk.state = "absent"
  /\ reader' = [r \in Readers |-> IF r \in analysis[n].for THEN Away ELSE reader[r]]
  /\ analysis' = [analysis EXCEPT ![n] = NoAnalysis]
  /\ UNCHANGED <<disk, job, list, cache>>

\* A reader goes away, answered or not, and may ask again.
Leave(r) ==
  /\ reader[r].place \notin {"idle", "none"}
  /\ reader' = [reader EXCEPT ![r] = Away]
  /\ analysis' = [n \in Stamps |-> [analysis[n] EXCEPT !.for = @ \ {r}]]
  /\ UNCHANGED <<disk, job, list, cache>>

----------------------------------------------------------------------------
Init ==
  /\ disk = Absent /\ job = "none"
  /\ generation = 0 /\ scans = 0 /\ scanning = "nobody" /\ refreshing = FALSE
  /\ index = [run |-> [Absent EXCEPT !.state = "none"], scanned |-> 0, started |-> 0]
  /\ \E here \in SUBSET (Listers \cup Readers) :   \* bounds the requests
       /\ Cardinality(here) = MaxClients
       /\ lister = [l \in Lister |-> [Resting EXCEPT !.place = IF l \in Listers \ here THEN "none" ELSE @]]
       /\ reader = [r \in Readers |-> [Away EXCEPT !.place = IF r \notin here THEN "none" ELSE @]]
  /\ analysis = [n \in Stamps |-> NoAnalysis]
  /\ cache = NoList

Next ==
  \/ StartJob \/ AppendResult \/ JobEnds \/ Invalidate
  \/ \E l \in Listers : \E force \in BOOLEAN : Index(l, force, "answered")
  \/ \E l \in Listers : \E wants \in {"rename", "delete"} : Index(l, FALSE, wants)
  \/ \E l \in Lister : Lock(l) \/ Share(l) \/ Rescan(l) \/ Discover(l) \/ Store(l)
  \/ \E l \in Listers : OverlayJobs(l) \/ LibraryRefused(l) \/ Rename(l) \/ Delete(l) \/ Deleted(l)
  \/ \E r \in Readers : Ladder(r) \/ Leave(r)
  \/ \E n \in Stamps : Analyze(n) \/ AnalysisFails(n) \/ Analyzed(n)

Spec == Init /\ [][Next]_vars

----------------------------------------------------------------------------
\* A list that was asked for after the server had made a change shows the change, and a
\* forced one shows every result that was there (server.go:104-168).
ListShowsChanges ==
  \A l \in Listers : lister[l].place = "answered" =>
    LET run == lister[l].run known == lister[l].known
    IN /\ known.deleted => run.state = "absent"
       /\ run.state = "present" /\ known.over => run.status = "done"
       /\ run.state = "present" => run.name >= known.name
       /\ run.state = "present" /\ lister[l].forced => run.results >= known.results

\* No run is renamed or deleted under a job that writes it.
LiveRunsStay ==
  job = "running" => disk.state = "present" /\ disk.name = 0

\* A report is at least as new as the results that were there when it was asked for, and
\* what is kept is as new as its stamp, whichever analysis stored it last.
ReportsAreCurrent ==
  /\ \A r \in Readers : reader[r].place = "answered" => reader[r].got >= reader[r].asked
  /\ cache.state = "kept" => cache.results >= cache.stamp

LibraryIsCurrent == ListShowsChanges /\ LiveRunsStay /\ ReportsAreCurrent
=============================================================================
