---------------------------- MODULE ScreenProofs ----------------------------
(***************************************************************************)
(* Theorems of what a person sees and works with, the terminal and the     *)
(* pages of the evaluation, for every value of the constants.  Each part   *)
(* is an instance, and rests on nothing of another.                        *)
(***************************************************************************)
EXTENDS Integers, Sequences, FiniteSets, TLAPS, FiniteSetTheorems, SequenceTheorems, WellFoundedInduction

\* The pages of a transcript (Browser).
CONSTANTS ReaderAgents, ReaderPage, ReaderCalls, ReaderViews
VARIABLES calls, length, views, view, reads
Reader == INSTANCE Browser
  WITH Agents <- ReaderAgents, Page <- ReaderPage, MaxCalls <- ReaderCalls, MaxViews <- ReaderViews

\* The jobs of the evaluation page (EvalJob).
CONSTANTS EvalJobs, EvalTasks, EvalEvents, EvalCancels
VARIABLES jobStatus, cancelled, announcing, pc, at, tasks, verdict, outbox, boxes, events, client
Job == INSTANCE EvalJob
  WITH Jobs <- EvalJobs, Tasks <- EvalTasks, MaxEvents <- EvalEvents, Cancels <- EvalCancels,
       status <- jobStatus

\* The results that the evaluation page shows (ResultsLibrary).
CONSTANTS LibraryListers, LibraryReaders, LibraryResults, LibraryClients
VARIABLES directory, writer, listGeneration, index, scans, scanning, refreshing, lister, analysis,
          cache, reader
Library == INSTANCE ResultsLibrary
  WITH Listers <- LibraryListers, Readers <- LibraryReaders, MaxResults <- LibraryResults,
       MaxClients <- LibraryClients, disk <- directory, job <- writer,
       generation <- listGeneration

\* The terminal and the feed of the session (Terminal).
CONSTANTS TalkAgents, TalkManager, TalkRevision, TalkMessages, TalkLooks, TalkBehind
VARIABLES life, ended, mail, messages, feed, pending, working, agentsKnown, stopping, talkStatus,
          looks
Screen == INSTANCE Terminal
  WITH Agents <- TalkAgents, Manager <- TalkManager, MaxRevision <- TalkRevision,
       MaxMessages <- TalkMessages, MaxLooks <- TalkLooks, MaxBehind <- TalkBehind,
       known <- agentsKnown, status <- talkStatus

----------------------------------------------------------------------------
(* The pages of a transcript (Browser).                                    *)
\* A page has room for something (transcriptPage, reasoningPage).
PageAssumption == ReaderPage \in Nat \ {0}

ViewRecord ==
  [id : Nat, agent : ReaderAgents, reasoning : BOOLEAN, loading : BOOLEAN,
   entries : Seq(Nat), earlierEntries : BOOLEAN, outputs : Seq(Nat), earlierOutputs : BOOLEAN]

BrowserTypes ==
  /\ calls \in [ReaderAgents -> Nat] /\ length \in [ReaderAgents -> Nat] /\ views \in Nat
  /\ view # Reader!NoView => view \in ViewRecord /\ view.id \in 1..views
  /\ reads \subseteq [view : Nat, agent : ReaderAgents, before : Nat, least : Nat]

\* The numbers of an unbroken stretch of what there is.
Stretch(s, top, earlier) ==
  /\ Reader!Contiguous(s) /\ \A i \in 1..Len(s) : s[i] \in 1..top
  /\ s # <<>> => (earlier <=> s[1] > 1)

\* The view under way has one read, which asks for the page before what it has.
ReadsInv ==
  /\ \A r \in reads : r.view <= views /\ r.least <= calls[r.agent]
  /\ \A r \in reads : Reader!Current(r) =>
       /\ view.loading /\ r.agent = view.agent
       /\ r.before # 0 => /\ view.outputs # <<>> /\ r.before = view.outputs[1]
                          /\ r.before > 1 /\ r.before <= r.least
  /\ \A q, r \in reads : Reader!Current(q) /\ Reader!Current(r) => q = r

BrowserInv ==
  /\ BrowserTypes /\ ReadsInv
  /\ view # Reader!NoView => /\ Stretch(view.entries, length[view.agent], view.earlierEntries)
                             /\ Stretch(view.outputs, calls[view.agent], view.earlierOutputs)

----------------------------------------------------------------------------
\* The last page of what there is, or the one before a position.
LEMMA PageFits ==
  ASSUME PageAssumption, NEW top \in Nat, NEW before \in Nat, before = 0 \/ (1 < before /\ before <= top),
         NEW end, end = IF before = 0 THEN top ELSE before - 1
  PROVE  /\ Reader!Before(top, before).entries \in Seq(Nat) /\ Reader!Before(top, before).earlier \in BOOLEAN
         /\ Stretch(Reader!Before(top, before).entries, end, Reader!Before(top, before).earlier)
         /\ end > 0 => /\ Reader!Before(top, before).entries # <<>>
                       /\ Reader!Before(top, before).entries[Len(Reader!Before(top, before).entries)] = end
<1> DEFINE start == IF end >= ReaderPage THEN end - ReaderPage + 1 ELSE 1
           pages == [i \in 1..end + 1 - start |-> start + i - 1]
<1>1. end \in Nat /\ start \in Nat /\ start >= 1 /\ start <= end + 1 /\ (end > 0 => start <= end)
  BY DEF PageAssumption
<1>2. Reader!Before(top, before) = [entries |-> pages, earlier |-> start > 1]
  <2>1. (IF before = 0 THEN top ELSE Reader!Least(top, before - 1)) = end
    BY DEF Reader!Least
  <2> QED
    BY <2>1 DEF Reader!Before
<1>3. Reader!Before(top, before).entries = pages /\ Reader!Before(top, before).earlier = (start > 1)
  BY <1>2
<1> HIDE DEF start
<1>4. /\ pages \in Seq(Nat) /\ Len(pages) = end + 1 - start
      /\ \A i \in 1..end + 1 - start : pages[i] = start + i - 1
  BY <1>1
<1> HIDE DEF pages
<1>5. Stretch(pages, end, start > 1)
  <2>1. \A i \in 1..Len(pages) : pages[i] \in 1..end
    BY <1>1, <1>4
  <2>2. \A i \in 1..Len(pages) - 1 : pages[i + 1] = pages[i] + 1
    BY <1>1, <1>4
  <2>3. pages # <<>> => pages[1] = start
    <3>1. pages # <<>> => 1 \in 1..Len(pages)
      BY <1>4
    <3> QED
      BY <1>1, <1>4, <3>1
  <2> QED
    BY <2>1, <2>2, <2>3 DEF Stretch, Reader!Contiguous
<1>6. end > 0 => pages # <<>> /\ pages[Len(pages)] = end
  BY <1>1, <1>4
<1> QED
  BY <1>3, <1>4, <1>5, <1>6

LEMMA PageBeforeFits ==
  ASSUME PageAssumption, NEW top \in Nat, NEW before \in Nat, 1 < before, before <= top
  PROVE  /\ Reader!Before(top, before).entries \in Seq(Nat) /\ Reader!Before(top, before).earlier \in BOOLEAN
         /\ Stretch(Reader!Before(top, before).entries, before - 1, Reader!Before(top, before).earlier)
         /\ Reader!Before(top, before).entries # <<>>
         /\ Reader!Before(top, before).entries[Len(Reader!Before(top, before).entries)] = before - 1
<1>1. before - 1 = (IF before = 0 THEN top ELSE before - 1) /\ before - 1 > 0
  OBVIOUS
<1> QED
  BY <1>1, PageFits

\* A page and what comes after it.
LEMMA PagesJoin ==
  ASSUME NEW p \in Seq(Nat), NEW s \in Seq(Nat), NEW top \in Nat, NEW earlier, NEW was,
         s # <<>>, s[1] > 1, Stretch(s, top, was), Stretch(p, s[1] - 1, earlier),
         p # <<>>, p[Len(p)] = s[1] - 1
  PROVE  p \o s \in Seq(Nat) /\ Stretch(p \o s, top, earlier)
<1>1. /\ p \o s \in Seq(Nat) /\ Len(p \o s) = Len(p) + Len(s) /\ Len(p) \in Nat /\ Len(s) \in Nat
      /\ Len(p) >= 1 /\ Len(s) >= 1
      /\ \A i \in 1..Len(p) : (p \o s)[i] = p[i]
      /\ \A i \in Len(p) + 1..Len(p) + Len(s) : (p \o s)[i] = s[i - Len(p)]
  OBVIOUS
<1>2. s[1] \in 1..top
  BY <1>1 DEF Stretch
<1>3. ASSUME NEW i \in 1..Len(p \o s) PROVE (p \o s)[i] \in 1..top
  <2>1. CASE i <= Len(p)
    BY <1>1, <1>2, <2>1 DEF Stretch
  <2>2. CASE i > Len(p)
    BY <1>1, <2>2 DEF Stretch
  <2> QED
    BY <1>1, <2>1, <2>2
<1>4. ASSUME NEW i \in 1..Len(p \o s) - 1 PROVE (p \o s)[i + 1] = (p \o s)[i] + 1
  <2>1. CASE i < Len(p)
    BY <1>1, <2>1 DEF Stretch, Reader!Contiguous
  <2>2. CASE i = Len(p)
    BY <1>1, <1>2, <2>2
  <2>3. CASE i > Len(p)
    <3>1. i - Len(p) \in 1..Len(s) - 1
      BY <1>1, <2>3
    <3>2. s[(i - Len(p)) + 1] = s[i - Len(p)] + 1
      BY <3>1 DEF Stretch, Reader!Contiguous
    <3> QED
      BY <1>1, <2>3, <3>2
  <2> QED
    BY <1>1, <2>1, <2>2, <2>3
<1>5. (p \o s)[1] = p[1]
  BY <1>1
<1> QED
  BY <1>1, <1>3, <1>4, <1>5 DEF Stretch, Reader!Contiguous

LEMMA MoreThere ==
  ASSUME NEW s \in Seq(Nat), NEW low \in Nat, NEW top \in Nat, low <= top, NEW earlier,
         Stretch(s, low, earlier)
  PROVE  Stretch(s, top, earlier)
  BY DEF Stretch

----------------------------------------------------------------------------
LEMMA BrowserInitially == Reader!Init => BrowserInv
  BY DEF Reader!Init, BrowserInv, BrowserTypes, ReadsInv, Reader!NoView, Reader!Current

LEMMA GrowKeeps == ASSUME BrowserInv, NEW a \in ReaderAgents, Reader!Grow(a) PROVE BrowserInv'
<1>1. /\ calls' \in [ReaderAgents -> Nat] /\ length' \in [ReaderAgents -> Nat]
      /\ \A b \in ReaderAgents : calls[b] <= calls'[b] /\ length[b] <= length'[b]
      /\ UNCHANGED <<views, view, reads>>
  BY DEF Reader!Grow, BrowserInv, BrowserTypes
<1>2. BrowserTypes'
  BY <1>1 DEF BrowserInv, BrowserTypes
<1>3. ReadsInv'
  BY <1>1 DEF BrowserInv, BrowserTypes, ReadsInv, Reader!Current
<1>4. ASSUME view # Reader!NoView
      PROVE  /\ Stretch(view.entries, length'[view.agent], view.earlierEntries)
             /\ Stretch(view.outputs, calls'[view.agent], view.earlierOutputs)
  <2>1. view \in ViewRecord
    BY <1>4 DEF BrowserInv, BrowserTypes
  <2>2. view.agent \in ReaderAgents /\ view.entries \in Seq(Nat) /\ view.outputs \in Seq(Nat)
    BY <2>1 DEF ViewRecord
  <2> QED
    BY <1>1, <1>4, <2>2, MoreThere DEF BrowserInv, BrowserTypes
<1> QED
  BY <1>1, <1>2, <1>3, <1>4 DEF BrowserInv

LEMMA OpenKeeps == ASSUME PageAssumption, BrowserInv, NEW a \in ReaderAgents, Reader!Open(a) PROVE BrowserInv'
<1> DEFINE page == Reader!Before(length[a], 0)
<1>1. /\ page.entries \in Seq(Nat) /\ page.earlier \in BOOLEAN
      /\ Stretch(page.entries, length[a], page.earlier)
  BY PageFits DEF BrowserInv, BrowserTypes
<1>2. /\ view' = [id |-> views + 1, agent |-> a, reasoning |-> FALSE, loading |-> FALSE,
                  entries |-> page.entries, earlierEntries |-> page.earlier,
                  outputs |-> <<>>, earlierOutputs |-> FALSE]
      /\ views' = views + 1 /\ UNCHANGED <<calls, length, reads>>
  BY DEF Reader!Open
<1> HIDE DEF page
<1>3. view' \in ViewRecord /\ view'.id = views + 1 /\ view'.agent = a
      /\ view'.entries = page.entries /\ view'.earlierEntries = page.earlier
      /\ view'.outputs = <<>> /\ view'.earlierOutputs = FALSE
  BY <1>1, <1>2 DEF ViewRecord, BrowserInv, BrowserTypes
<1>4. BrowserTypes'
  BY <1>2, <1>3 DEF BrowserInv, BrowserTypes
<1>5. ReadsInv'
  BY <1>2, <1>3 DEF BrowserInv, BrowserTypes, ReadsInv, Reader!Current
<1>6. Stretch(<<>>, calls[a], FALSE)
  BY DEF Stretch, Reader!Contiguous
<1> QED
  BY <1>1, <1>2, <1>3, <1>4, <1>5, <1>6 DEF BrowserInv

LEMMA LeaveKeeps == ASSUME BrowserInv, Reader!Leave PROVE BrowserInv'
  BY DEF Reader!Leave, BrowserInv, BrowserTypes, ReadsInv, Reader!Current

LEMMA EarlierEntriesKeeps == ASSUME PageAssumption, BrowserInv, Reader!EarlierEntries PROVE BrowserInv'
<1> DEFINE page == Reader!Before(length[view.agent], Head(view.entries))
<1>1. /\ view # Reader!NoView /\ view \in ViewRecord /\ view.id \in 1..views /\ view.agent \in ReaderAgents
      /\ view.entries \in Seq(Nat) /\ view.entries # <<>> /\ view.earlierEntries
      /\ length[view.agent] \in Nat
  BY DEF Reader!EarlierEntries, BrowserInv, BrowserTypes, ViewRecord
<1>2. /\ Stretch(view.entries, length[view.agent], view.earlierEntries)
      /\ Head(view.entries) = view.entries[1] /\ view.entries[1] > 1
      /\ view.entries[1] \in 1..length[view.agent]
  BY <1>1 DEF BrowserInv, Stretch
<1>3. /\ page.entries \in Seq(Nat) /\ page.earlier \in BOOLEAN
      /\ Stretch(page.entries, view.entries[1] - 1, page.earlier)
      /\ page.entries # <<>> /\ page.entries[Len(page.entries)] = view.entries[1] - 1
  <2> DEFINE before == view.entries[1]
  <2>1. before \in Nat /\ 1 < before /\ before <= length[view.agent] /\ before - 1 > 0
    BY <1>1, <1>2
  <2>2. page = Reader!Before(length[view.agent], before)
    BY <1>2
  <2> HIDE DEF page, before
  <2>3. /\ page.entries \in Seq(Nat) /\ page.earlier \in BOOLEAN
        /\ Stretch(page.entries, before - 1, page.earlier)
        /\ page.entries # <<>> /\ page.entries[Len(page.entries)] = before - 1
    BY <1>1, <2>1, <2>2, PageBeforeFits
  <2> QED
    BY <2>3 DEF before
<1>4. /\ view' = [view EXCEPT !.entries = page.entries \o view.entries,
                              !.earlierEntries = page.earlier]
      /\ UNCHANGED <<calls, length, views, reads>>
  BY DEF Reader!EarlierEntries
<1> HIDE DEF page
<1>5. /\ page.entries \o view.entries \in Seq(Nat)
      /\ Stretch(page.entries \o view.entries, length[view.agent], page.earlier)
  BY <1>1, <1>2, <1>3, PagesJoin
<1>6. /\ view' \in ViewRecord /\ view'.id = view.id /\ view'.agent = view.agent
      /\ view'.loading = view.loading /\ view' # Reader!NoView
      /\ view'.entries = page.entries \o view.entries /\ view'.earlierEntries = page.earlier
      /\ view'.outputs = view.outputs /\ view'.earlierOutputs = view.earlierOutputs
  BY <1>1, <1>3, <1>4, <1>5 DEF ViewRecord, Reader!NoView
<1>7. BrowserTypes'
  BY <1>1, <1>4, <1>6 DEF BrowserInv, BrowserTypes
<1>8. ReadsInv'
  BY <1>1, <1>4, <1>6 DEF BrowserInv, ReadsInv, Reader!Current
<1> QED
  BY <1>1, <1>4, <1>5, <1>6, <1>7, <1>8 DEF BrowserInv

\* A read of the page before `before`, for the view as it is but for what it shows.
LEMMA LoadKeeps ==
  ASSUME BrowserInv, view # Reader!NoView, NEW v, NEW before \in Nat, NEW shows \in BOOLEAN,
         v = [view EXCEPT !.reasoning = shows], Reader!Load(v, before),
         before # 0 => view.outputs # <<>> /\ before = view.outputs[1] /\ view.earlierOutputs,
         UNCHANGED <<calls, length, views>>
  PROVE  BrowserInv'
<1>1. /\ view \in ViewRecord /\ view.id \in 1..views /\ view.agent \in ReaderAgents
      /\ calls[view.agent] \in Nat
  BY DEF BrowserInv, BrowserTypes, ViewRecord
<1>2. /\ v \in ViewRecord /\ v.id = view.id /\ v.agent = view.agent /\ v.loading = view.loading
      /\ v.entries = view.entries /\ v.earlierEntries = view.earlierEntries
      /\ v.outputs = view.outputs /\ v.earlierOutputs = view.earlierOutputs
  BY <1>1 DEF ViewRecord
<1>3. view' = IF view.loading THEN v ELSE [v EXCEPT !.loading = TRUE]
  BY <1>2 DEF Reader!Load, Reader!MayLoad
<1>4. /\ view' \in ViewRecord /\ view'.id = view.id /\ view'.agent = view.agent
      /\ view'.entries = view.entries /\ view'.earlierEntries = view.earlierEntries
      /\ view'.outputs = view.outputs /\ view'.earlierOutputs = view.earlierOutputs
      /\ view'.loading = TRUE
  <2>1. CASE view.loading
    BY <1>1, <1>2, <1>3, <2>1 DEF ViewRecord
  <2>2. CASE ~view.loading
    BY <1>1, <1>2, <1>3, <2>2 DEF ViewRecord
  <2> QED
    BY <2>1, <2>2
<1>5. view' # Reader!NoView
  BY <1>1, <1>4 DEF Reader!NoView
<1> DEFINE r == [view |-> view.id, agent |-> view.agent, before |-> before,
                 least |-> calls[view.agent]]
<1>6. IF view.loading THEN reads' = reads ELSE reads' = reads \cup {r}
  BY <1>2 DEF Reader!Load, Reader!MayLoad
<1>7. r \in [view : Nat, agent : ReaderAgents, before : Nat, least : Nat]
  BY <1>1 DEF BrowserInv, BrowserTypes
<1>8. /\ r.view = view.id /\ r.agent = view.agent /\ r.before = before
      /\ r.least = calls[view.agent]
  OBVIOUS
<1> HIDE DEF r
<1>9. BrowserTypes'
  BY <1>1, <1>4, <1>6, <1>7 DEF BrowserInv, BrowserTypes
<1>10. before # 0 => before > 1 /\ before <= calls[view.agent]
  <2> SUFFICES ASSUME before # 0 PROVE before > 1 /\ before <= calls[view.agent]
    OBVIOUS
  <2>1. Stretch(view.outputs, calls[view.agent], view.earlierOutputs)
    BY DEF BrowserInv
  <2>2. view.outputs \in Seq(Nat) /\ view.outputs # <<>> /\ before = view.outputs[1]
    BY <1>1 DEF ViewRecord
  <2>3. 1 \in 1..Len(view.outputs)
    BY <2>2
  <2> QED
    BY <1>1, <2>1, <2>2, <2>3 DEF Stretch
<1>11. ReadsInv'
  <2>1. ASSUME NEW q \in reads' PROVE q \in reads \/ (q = r /\ ~view.loading)
    BY <1>6
  <2>2. ASSUME NEW q \in reads PROVE Reader!Current(q)' <=> Reader!Current(q)
    BY <1>4, <1>5 DEF Reader!Current
  <2>3. ~view.loading => \A q \in reads : ~Reader!Current(q)
    BY DEF BrowserInv, ReadsInv
  <2>4. ASSUME NEW q \in reads' PROVE q.view <= views' /\ q.least <= calls'[q.agent]
    BY <1>1, <1>8, <2>1 DEF BrowserInv, BrowserTypes, ReadsInv
  <2>5. ASSUME NEW q \in reads', Reader!Current(q)'
        PROVE  /\ view'.loading /\ q.agent = view'.agent
               /\ q.before # 0 => /\ view'.outputs # <<>> /\ q.before = view'.outputs[1]
                                  /\ q.before > 1 /\ q.before <= q.least
    <3>1. CASE q \in reads
      BY <1>4, <2>2, <2>5, <3>1 DEF BrowserInv, ReadsInv
    <3>2. CASE q = r
      BY <1>4, <1>8, <1>10, <3>2
    <3> QED
      BY <2>1, <3>1, <3>2
  <2>6. ASSUME NEW q \in reads', NEW p \in reads', Reader!Current(q)', Reader!Current(p)' PROVE q = p
    BY <2>1, <2>2, <2>3, <2>6 DEF BrowserInv, ReadsInv
  <2> QED
    BY <2>4, <2>5, <2>6 DEF ReadsInv
<1> QED
  BY <1>4, <1>5, <1>9, <1>11 DEF BrowserInv

LEMMA ToggleReasoningKeeps == ASSUME BrowserInv, Reader!ToggleReasoning PROVE BrowserInv'
<1> DEFINE v == [view EXCEPT !.reasoning = ~view.reasoning]
<1>1. view # Reader!NoView /\ view \in ViewRecord /\ view.id \in 1..views /\ view.reasoning \in BOOLEAN
  BY DEF Reader!ToggleReasoning, BrowserInv, BrowserTypes, ViewRecord
<1>2. /\ v.reasoning = ~view.reasoning /\ UNCHANGED <<calls, length, views>>
      /\ IF v.reasoning THEN Reader!Load(v, 0) ELSE view' = v /\ UNCHANGED reads
  BY <1>1 DEF Reader!ToggleReasoning, ViewRecord
<1>3. CASE v.reasoning
  <2>1. Reader!Load(v, 0)
    BY <1>2, <1>3
  <2> QED
    BY <1>1, <1>2, <2>1, LoadKeeps
<1>4. CASE ~v.reasoning
  <2>1. view' = v /\ UNCHANGED <<calls, length, views, reads>>
    BY <1>2, <1>4
  <2>2. /\ view' \in ViewRecord /\ view'.id = view.id /\ view'.agent = view.agent
        /\ view'.loading = view.loading
        /\ view'.entries = view.entries /\ view'.earlierEntries = view.earlierEntries
        /\ view'.outputs = view.outputs /\ view'.earlierOutputs = view.earlierOutputs
    BY <1>1, <2>1 DEF ViewRecord
  <2>3. view' # Reader!NoView
    BY <1>1, <2>2 DEF Reader!NoView
  <2>4. BrowserTypes' /\ ReadsInv'
    BY <1>1, <2>1, <2>2, <2>3 DEF BrowserInv, BrowserTypes, ReadsInv, Reader!Current
  <2> QED
    BY <1>1, <2>1, <2>2, <2>4 DEF BrowserInv
<1> QED
  BY <1>3, <1>4

LEMMA RefreshKeeps == ASSUME BrowserInv, Reader!Refresh PROVE BrowserInv'
<1>1. view # Reader!NoView /\ view \in ViewRecord /\ view.reasoning \in BOOLEAN
  BY DEF Reader!Refresh, BrowserInv, BrowserTypes, ViewRecord
<1>2. view = [view EXCEPT !.reasoning = view.reasoning]
  BY <1>1 DEF ViewRecord
<1> QED
  BY <1>1, <1>2, LoadKeeps DEF Reader!Refresh

LEMMA EarlierOutputsKeeps == ASSUME BrowserInv, Reader!EarlierOutputs PROVE BrowserInv'
<1>1. /\ view # Reader!NoView /\ view \in ViewRecord /\ view.reasoning \in BOOLEAN
      /\ view.outputs \in Seq(Nat) /\ view.outputs # <<>> /\ view.earlierOutputs
  BY DEF Reader!EarlierOutputs, BrowserInv, BrowserTypes, ViewRecord
<1>2. view = [view EXCEPT !.reasoning = view.reasoning]
  BY <1>1 DEF ViewRecord
<1>3. Head(view.outputs) = view.outputs[1] /\ view.outputs[1] \in Nat
  BY <1>1
<1> QED
  BY <1>1, <1>2, <1>3, LoadKeeps DEF Reader!EarlierOutputs

\* A read that ends, of the view that is shown or of another.
LEMMA ReadEnds ==
  ASSUME BrowserInv, NEW r \in reads, reads' = reads \ {r}, UNCHANGED <<calls, length, views>>,
         IF Reader!Current(r)
         THEN /\ view' \in ViewRecord /\ view'.id = view.id /\ view'.agent = view.agent
              /\ Stretch(view'.entries, length[view.agent], view'.earlierEntries)
              /\ Stretch(view'.outputs, calls[view.agent], view'.earlierOutputs)
         ELSE view' = view
  PROVE  BrowserInv'
<1>1. CASE Reader!Current(r)
  <2>1. view # Reader!NoView /\ view.id \in 1..views
    BY <1>1 DEF Reader!Current, BrowserInv, BrowserTypes
  <2>2. \A q \in reads' : q.view # view.id
    BY <1>1 DEF BrowserInv, ReadsInv, Reader!Current
  <2>3. view' # Reader!NoView
    BY <1>1, <2>1 DEF Reader!NoView
  <2>4. BrowserTypes'
    BY <1>1, <2>1 DEF BrowserInv, BrowserTypes
  <2>5. ReadsInv'
    BY <1>1, <2>2 DEF BrowserInv, ReadsInv, Reader!Current
  <2> QED
    BY <1>1, <2>4, <2>5 DEF BrowserInv
<1>2. CASE ~Reader!Current(r)
  BY <1>2 DEF BrowserInv, BrowserTypes, ReadsInv, Reader!Current
<1> QED
  BY <1>1, <1>2

LEMMA DeliverKeeps ==
  ASSUME PageAssumption, BrowserInv, NEW r \in reads, NEW top \in r.least..calls[r.agent], Reader!Deliver(r, top)
  PROVE  BrowserInv'
<1> DEFINE page == Reader!Before(top, r.before)
<1>1. /\ r.least \in Nat /\ r.before \in Nat /\ r.agent \in ReaderAgents /\ calls[r.agent] \in Nat
      /\ top \in Nat /\ r.least <= top /\ top <= calls[r.agent]
  BY DEF BrowserInv, BrowserTypes
<1>2. CASE ~Reader!Current(r)
  BY <1>2, ReadEnds DEF Reader!Deliver
<1>3. CASE Reader!Current(r)
  <2>1. /\ view # Reader!NoView /\ view \in ViewRecord /\ r.agent = view.agent
        /\ Stretch(view.entries, length[view.agent], view.earlierEntries)
        /\ Stretch(view.outputs, calls[view.agent], view.earlierOutputs)
        /\ r.before # 0 => /\ view.outputs # <<>> /\ r.before = view.outputs[1]
                           /\ r.before > 1 /\ r.before <= r.least
    BY <1>3 DEF Reader!Current, BrowserInv, BrowserTypes, ReadsInv
  <2>2. r.before = 0 \/ (1 < r.before /\ r.before <= top)
    BY <1>1, <2>1
  <2>3. view' = [view EXCEPT !.loading = FALSE, !.earlierOutputs = page.earlier,
                   !.outputs = IF r.before = 0 THEN page.entries ELSE page.entries \o view.outputs]
    BY <1>3 DEF Reader!Deliver
  <2>4. page.entries \in Seq(Nat) /\ page.earlier \in BOOLEAN
    BY <1>1, <2>2, PageFits
  <2>5. CASE r.before = 0
    <3>1. Stretch(page.entries, top, page.earlier)
      BY <1>1, <2>2, <2>5, PageFits
    <3>2. Stretch(page.entries, calls[view.agent], page.earlier)
      BY <1>1, <2>1, <2>4, <3>1, MoreThere
    <3> HIDE DEF page
    <3>3. /\ view' \in ViewRecord /\ view'.id = view.id /\ view'.agent = view.agent
          /\ view'.entries = view.entries /\ view'.earlierEntries = view.earlierEntries
          /\ view'.outputs = page.entries /\ view'.earlierOutputs = page.earlier
      BY <2>1, <2>3, <2>4, <2>5 DEF ViewRecord
    <3> QED
      BY <1>3, <2>1, <3>2, <3>3, ReadEnds DEF Reader!Deliver
  <2>6. CASE r.before # 0
    <3>1. /\ Stretch(page.entries, r.before - 1, page.earlier)
          /\ page.entries # <<>> /\ page.entries[Len(page.entries)] = r.before - 1
      BY <1>1, <2>2, <2>6, PageBeforeFits
    <3> HIDE DEF page
    <3>2. view.outputs \in Seq(Nat) /\ view.outputs[1] > 1
      BY <2>1, <2>6 DEF ViewRecord
    <3>3. /\ page.entries \o view.outputs \in Seq(Nat)
          /\ Stretch(page.entries \o view.outputs, calls[view.agent], page.earlier)
      BY <1>1, <2>1, <2>4, <2>6, <3>1, <3>2, PagesJoin
    <3>4. /\ view' \in ViewRecord /\ view'.id = view.id /\ view'.agent = view.agent
          /\ view'.entries = view.entries /\ view'.earlierEntries = view.earlierEntries
          /\ view'.outputs = page.entries \o view.outputs /\ view'.earlierOutputs = page.earlier
      BY <2>1, <2>3, <2>4, <2>6, <3>3 DEF ViewRecord
    <3> QED
      BY <1>3, <2>1, <3>3, <3>4, ReadEnds DEF Reader!Deliver
  <2> QED
    BY <2>5, <2>6
<1> QED
  BY <1>2, <1>3

LEMMA ReadFailsKeeps == ASSUME BrowserInv, NEW r \in reads, Reader!ReadFails(r) PROVE BrowserInv'
<1>1. CASE Reader!Current(r)
  <2>1. view \in ViewRecord /\ view' = [view EXCEPT !.loading = FALSE] /\ view # Reader!NoView
    BY <1>1 DEF Reader!ReadFails, Reader!Current, BrowserInv, BrowserTypes
  <2>2. /\ view' \in ViewRecord /\ view'.id = view.id /\ view'.agent = view.agent
        /\ view'.entries = view.entries /\ view'.earlierEntries = view.earlierEntries
        /\ view'.outputs = view.outputs /\ view'.earlierOutputs = view.earlierOutputs
    BY <2>1 DEF ViewRecord
  <2> QED
    BY <1>1, <2>1, <2>2, ReadEnds DEF Reader!ReadFails, BrowserInv
<1>2. CASE ~Reader!Current(r)
  BY <1>2, ReadEnds DEF Reader!ReadFails
<1> QED
  BY <1>1, <1>2

LEMMA BrowserStep == PageAssumption /\ BrowserInv /\ [Reader!Next]_(Reader!vars) => BrowserInv'
<1> SUFFICES ASSUME PageAssumption, BrowserInv, [Reader!Next]_(Reader!vars) PROVE BrowserInv'
  OBVIOUS
<1>1. CASE UNCHANGED Reader!vars
  BY <1>1 DEF Reader!vars, BrowserInv, BrowserTypes, ReadsInv, Reader!Current
<1> QED
  BY <1>1, GrowKeeps, OpenKeeps, LeaveKeeps, EarlierEntriesKeeps, ToggleReasoningKeeps,
     RefreshKeeps, EarlierOutputsKeeps, DeliverKeeps, ReadFailsKeeps DEF Reader!Next

LEMMA BrowserFits == BrowserInv => Reader!PagesFit
<1> SUFFICES ASSUME BrowserInv, view # Reader!NoView PROVE Reader!PagesFit
  BY DEF Reader!PagesFit
<1>1. view.entries \in Seq(Nat) /\ view.outputs \in Seq(Nat)
  BY DEF BrowserInv, BrowserTypes, ViewRecord
<1>2. DOMAIN view.entries = 1..Len(view.entries) /\ DOMAIN view.outputs = 1..Len(view.outputs)
  BY <1>1
<1>3. /\ Stretch(view.entries, length[view.agent], view.earlierEntries)
      /\ Stretch(view.outputs, calls[view.agent], view.earlierOutputs)
  BY DEF BrowserInv
<1>4. /\ \A i \in DOMAIN view.entries : view.entries[i] <= length[view.agent]
      /\ \A i \in DOMAIN view.outputs : view.outputs[i] <= calls[view.agent]
  <2>1. \A i \in DOMAIN view.entries : view.entries[i] \in 1..length[view.agent]
    BY <1>2, <1>3 DEF Stretch
  <2>2. \A i \in DOMAIN view.outputs : view.outputs[i] \in 1..calls[view.agent]
    BY <1>2, <1>3 DEF Stretch
  <2> QED
    BY <2>1, <2>2
<1> QED
  BY <1>3, <1>4 DEF Stretch, Reader!PagesFit

\* Whatever the person opens, refreshes or leaves while pages load, and in whatever order the
\* reads arrive, what is shown is one unbroken stretch of the agent shown (transcript.go,
\* reasoning.go).
THEOREM PagesAlwaysFit == ASSUME PageAssumption PROVE Reader!Spec => []Reader!PagesFit
<1> QED
  BY BrowserInitially, BrowserStep, BrowserFits, PTL DEF Reader!Spec

----------------------------------------------------------------------------
(* The jobs of the evaluation page (EvalJob).                              *)
\* The first job is the one followed (evalweb numbers jobs as they start).
JobsAssumption == 1 \in EvalJobs /\ EvalTasks \in Nat /\ EvalEvents \in Nat

Places == {"idle", "prepare", "task", "start_agent", "agent", "submitted", "start_grader",
           "grader", "result", "last", "ended"}
AtTask == {"start_agent", "agent", "submitted", "start_grader", "grader", "result"}
Over   == {"done", "cancelled"}
Verdicts == {"none", "errored", "submitted", "passed", "failed"}
EventRecord == [kind : {"job", "build", "phase", "progress", "result", "end"}, task : Nat]
TaskRecord ==
  [phase : {"queued", "starting", "working", "grading", "finished", "cancelled"},
   outcome : {"", "errored", "submitted", "passed", "failed"}]
ClientRecord ==
  [job : EvalJobs \cup {0}, place : {"away", "loop", "write", "done"}, got : Nat, seq : Nat,
   upto : Nat, over : BOOLEAN, told : BOOLEAN]

\* A job as it is, by itself: where it is and what its status says agree; what it passed is
\* settled and what it did not is not; its events tell of each finished task once, unless the
\* buffer is full, and of its end last.
Passed(p, a, i) == i < a \/ p \in {"last", "ended"}
TaskSettled(task, ca) ==
  \/ task.phase = "finished" /\ task.outcome # ""
  \/ task.phase = "cancelled" /\ ca
Unsettled(task) == task.phase # "finished" /\ task.outcome = ""
Tells(s, i) == {k \in DOMAIN s : s[k] = Job!Event("result", i)}
Once(s, i, finished) == IF finished THEN \E k \in Nat : Tells(s, i) = {k} ELSE Tells(s, i) = {}

Placed(st, ca, p, a) ==
  /\ st = "none" <=> p = "idle"
  /\ st \in Over <=> p = "ended"
  /\ p \in AtTask => a \in Job!Task
  /\ p \in {"idle", "prepare"} => a = 1
  /\ st = "none" => ~ca
TasksGood(ca, p, a, t, v, o) ==
  /\ v \in {"passed", "failed"} => p = "result" /\ a \in o
  /\ p \in {"start_grader", "grader"} => a \in o
  /\ \A i \in Job!Task : IF Passed(p, a, i) THEN TaskSettled(t[i], ca) ELSE Unsettled(t[i])
  /\ \A i \in Job!Task : t[i].outcome \in {"passed", "failed"} => i \in o
EventsGood(st, t, ev) ==
  /\ ev \in Seq(EventRecord) /\ Len(ev) <= EvalEvents
  /\ Len(ev) < EvalEvents => \A i \in Job!Task : Once(ev, i, t[i].phase = "finished")
  /\ st \notin Over => \A k \in 1..Len(ev) : ev[k].kind # "end"

Good(j) ==
  /\ Placed(jobStatus[j], cancelled[j], pc[j], at[j])
  /\ TasksGood(cancelled[j], pc[j], at[j], tasks[j], verdict[j], outbox[j])
  /\ EventsGood(jobStatus[j], tasks[j], events[j])

JobTypes ==
  /\ jobStatus \in [EvalJobs -> {"none", "running"} \cup Over]
  /\ cancelled \in [EvalJobs -> BOOLEAN]
  /\ announcing \subseteq {j \in EvalJobs : jobStatus[j] # "none"}
  /\ pc \in [EvalJobs -> Places] /\ at \in [EvalJobs -> 1..(EvalTasks + 1)]
  /\ tasks \in [EvalJobs -> [Job!Task -> TaskRecord]]
  /\ verdict \in [EvalJobs -> Verdicts]
  /\ outbox \in [EvalJobs -> SUBSET Job!Task]
  /\ boxes \subseteq [job : EvalJobs, task : Job!Task, which : {"agent", "grader"}]
  /\ DOMAIN events = EvalJobs /\ client \in ClientRecord

Alone == \A i, j \in EvalJobs : jobStatus[i] = "running" /\ jobStatus[j] = "running" => i = j

\* A container is of a task that was reached; one of the task under way is of this stage of it.
BoxGood(b, ca, p, a, o) ==
  /\ b.task <= a /\ p # "idle"
  /\ b.task = a => p \in {b.which, "result"}
  /\ ca \/ (p = b.which /\ a = b.task)
  /\ b.which = "grader" => b.task \in o
BoxesInv ==
  /\ \A b \in boxes : BoxGood(b, cancelled[b.job], pc[b.job], at[b.job], outbox[b.job])
  /\ \A b, c \in boxes : b.job = c.job /\ b.task = c.task => b = c

\* What a follower was told, or is about to be told, of the end is so.
EndsBy(s, n) == \A k \in 1..Len(s) : s[k].kind = "end" => k <= n
ClientInv ==
  /\ client.job \in {0, 1} /\ (client.place # "away" => client.job = 1 /\ jobStatus[1] # "none")
  /\ client.told => client.place = "done" /\ jobStatus[1] \in Over /\ EndsBy(events[1], client.got)
  /\ client.place = "write" /\ client.over =>
       jobStatus[1] \in Over /\ EndsBy(events[1], client.upto)

JobInv == JobTypes /\ (\A j \in EvalJobs : Good(j)) /\ Alone /\ BoxesInv /\ ClientInv

----------------------------------------------------------------------------
\* The instance counts as this module does.
LEMMA JobCounts == \A S : Job!Cardinality(S) = Cardinality(S)
  BY DEF Job!Cardinality, Cardinality

\* What the buffer takes, and what it drops.
Kept(s, e) == IF Len(s) < EvalEvents THEN Append(s, e) ELSE s
LEMMA KeptIs ==
  ASSUME JobsAssumption, NEW s \in Seq(EventRecord), NEW e \in EventRecord, Len(s) <= EvalEvents
  PROVE  /\ Kept(s, e) \in Seq(EventRecord) /\ Len(Kept(s, e)) <= EvalEvents
         /\ Len(s) \in Nat /\ Len(Kept(s, e)) \in Nat /\ Len(s) <= Len(Kept(s, e))
         /\ \A k \in 1..Len(s) : Kept(s, e)[k] = s[k]
         /\ \A k \in 1..Len(Kept(s, e)) : k <= Len(s) \/ (k = Len(s) + 1 /\ Kept(s, e)[k] = e)
         /\ Len(Kept(s, e)) < EvalEvents =>
              Len(Kept(s, e)) = Len(s) + 1 /\ Kept(s, e)[Len(s) + 1] = e
<1>1. CASE Len(s) < EvalEvents
  BY <1>1 DEF Kept, JobsAssumption
<1>2. CASE ~(Len(s) < EvalEvents)
  BY <1>2 DEF Kept, JobsAssumption
<1> QED
  BY <1>1, <1>2

\* An event that is no result changes no count; a result, its own.
LEMMA OnceStays ==
  ASSUME JobsAssumption, NEW s \in Seq(EventRecord), NEW e \in EventRecord, Len(s) <= EvalEvents,
         NEW i, e # Job!Event("result", i), NEW f \in BOOLEAN, Len(s) < EvalEvents => Once(s, i, f),
         Len(Kept(s, e)) < EvalEvents
  PROVE  Once(Kept(s, e), i, f)
<1>1. Len(s) < EvalEvents /\ Len(s) \in Nat /\ EvalEvents \in Nat
  BY KeptIs DEF JobsAssumption
<1>2. Tells(Kept(s, e), i) = Tells(s, i)
  BY <1>1 DEF Tells, Kept
<1> QED
  BY <1>1, <1>2 DEF Once

LEMMA OnceBecomes ==
  ASSUME JobsAssumption, NEW s \in Seq(EventRecord), NEW i \in Nat, Len(s) <= EvalEvents,
         Len(s) < EvalEvents => Once(s, i, FALSE), Len(Kept(s, Job!Event("result", i))) < EvalEvents
  PROVE  Once(Kept(s, Job!Event("result", i)), i, TRUE)
<1>1. Len(s) < EvalEvents /\ Len(s) \in Nat /\ EvalEvents \in Nat
  <2>1. Job!Event("result", i) \in EventRecord
    BY DEF Job!Event, EventRecord
  <2> QED
    BY <2>1, KeptIs DEF JobsAssumption
<1>2. Tells(s, i) = {}
  BY <1>1 DEF Once
<1>3. Tells(Kept(s, Job!Event("result", i)), i) = {Len(s) + 1}
  BY <1>1, <1>2 DEF Tells, Kept
<1> QED
  BY <1>1, <1>3 DEF Once

\* An event of another kind, while no task finishes, leaves the events good.
LEMMA EventsStayGood ==
  ASSUME JobsAssumption, NEW s, NEW st, NEW sn, NEW t \in [Job!Task -> TaskRecord],
         NEW u \in [Job!Task -> TaskRecord], NEW e \in EventRecord,
         EventsGood(st, t, s), e.kind # "result", sn \notin Over => st \notin Over /\ e.kind # "end",
         \A i \in Job!Task : u[i].phase = "finished" <=> t[i].phase = "finished"
  PROVE  EventsGood(sn, u, Kept(s, e))
<1> DEFINE r == Kept(s, e)
<1>1. s \in Seq(EventRecord) /\ Len(s) <= EvalEvents
  BY DEF EventsGood
<1>2. r \in Seq(EventRecord) /\ Len(r) <= EvalEvents
  BY <1>1, KeptIs
<1>3. ASSUME Len(r) < EvalEvents, NEW i \in Job!Task PROVE Once(r, i, u[i].phase = "finished")
  <2>1. Len(s) < EvalEvents => Once(s, i, t[i].phase = "finished")
    BY DEF EventsGood
  <2>2. e # Job!Event("result", i)
    BY DEF Job!Event
  <2>3. Once(r, i, t[i].phase = "finished")
    <3> DEFINE f == t[i].phase = "finished"
    <3>1. f \in BOOLEAN
      OBVIOUS
    <3> HIDE DEF f
    <3>2. Len(s) < EvalEvents => Once(s, i, f)
      BY <2>1 DEF f
    <3>3. Once(r, i, f)
      BY <1>1, <1>3, <2>2, <3>1, <3>2, OnceStays
    <3> QED
      BY <3>3 DEF f
  <2> QED
    BY <2>3 DEF Once
<1>4. ASSUME sn \notin Over, NEW k \in 1..Len(r) PROVE r[k].kind # "end"
  <2>1. \A l \in 1..Len(s) : s[l].kind # "end"
    BY <1>4 DEF EventsGood
  <2>2. Len(s) \in Nat /\ Len(r) \in Nat /\ (k <= Len(s) => k \in 1..Len(s))
    BY <1>1, KeptIs
  <2> QED
    BY <1>1, <1>4, <2>1, <2>2, KeptIs
<1> QED
  BY <1>2, <1>3, <1>4 DEF EventsGood

\* The result of the task that finishes.
LEMMA EventsOfResult ==
  ASSUME JobsAssumption, NEW s, NEW st, NEW t \in [Job!Task -> TaskRecord],
         NEW u \in [Job!Task -> TaskRecord], NEW a \in Job!Task,
         EventsGood(st, t, s), t[a].phase # "finished", u[a].phase = "finished",
         \A i \in Job!Task \ {a} : u[i] = t[i]
  PROVE  EventsGood(st, u, Kept(s, Job!Event("result", a)))
<1> DEFINE e == Job!Event("result", a)
           r == Kept(s, e)
<1>0. a \in Nat /\ e \in EventRecord /\ e.kind = "result"
  BY DEF Job!Event, EventRecord, Job!Task
<1>1. s \in Seq(EventRecord) /\ Len(s) <= EvalEvents
  BY DEF EventsGood
<1>2. r \in Seq(EventRecord) /\ Len(r) <= EvalEvents
  BY <1>0, <1>1, KeptIs
<1>3. ASSUME Len(r) < EvalEvents, NEW i \in Job!Task PROVE Once(r, i, u[i].phase = "finished")
  <2>1. Len(s) < EvalEvents => Once(s, i, t[i].phase = "finished")
    BY DEF EventsGood
  <2>2. CASE i = a
    <3>1. Len(s) < EvalEvents => Once(s, a, FALSE)
      BY <2>1, <2>2 DEF Once
    <3>2. Once(r, a, TRUE)
      BY <1>0, <1>1, <1>3, <3>1, OnceBecomes
    <3> QED
      BY <2>2, <3>2 DEF Once
  <2>3. CASE i # a
    <3> DEFINE f == t[i].phase = "finished"
    <3>1. f \in BOOLEAN /\ u[i] = t[i]
      BY <2>3
    <3> HIDE DEF f
    <3>2. e # Job!Event("result", i)
      BY <2>3 DEF Job!Event
    <3>3. Once(r, i, f)
      BY <1>0, <1>1, <1>3, <2>1, <3>1, <3>2, OnceStays DEF f
    <3> QED
      BY <3>1, <3>3 DEF f
  <2> QED
    BY <2>2, <2>3
<1>4. ASSUME st \notin Over, NEW k \in 1..Len(r) PROVE r[k].kind # "end"
  <2>1. \A l \in 1..Len(s) : s[l].kind # "end"
    BY <1>4 DEF EventsGood
  <2>2. Len(s) \in Nat /\ Len(r) \in Nat /\ (k <= Len(s) => k \in 1..Len(s))
    BY <1>0, <1>1, KeptIs
  <2> QED
    BY <1>0, <1>1, <2>1, <2>2, KeptIs
<1> QED
  BY <1>2, <1>3, <1>4 DEF EventsGood

\* Of a job that is over no end is told again.
LEMMA EndsStayBy ==
  ASSUME JobsAssumption, NEW s \in Seq(EventRecord), NEW e \in EventRecord, Len(s) <= EvalEvents,
         NEW n \in Nat, EndsBy(s, n), e.kind # "end"
  PROVE  EndsBy(Kept(s, e), n)
<1>1. SUFFICES ASSUME NEW k \in 1..Len(Kept(s, e)), Kept(s, e)[k].kind = "end" PROVE k <= n
  BY DEF EndsBy
<1>2. Len(s) \in Nat /\ Len(Kept(s, e)) \in Nat /\ (k <= Len(s) => k \in 1..Len(s))
  BY KeptIs
<1> QED
  BY <1>1, <1>2, KeptIs DEF EndsBy

----------------------------------------------------------------------------
\* No image: the buffer takes what it can of the build and of a result of every task.
Least(m, n) == IF m < n THEN m ELSE n
Failing(s) ==
  SubSeq(s \o <<Job!Event("build", 0)>> \o [i \in Job!Task |-> Job!Event("result", i)], 1,
         IF Len(s) + 1 + EvalTasks < EvalEvents THEN Len(s) + 1 + EvalTasks ELSE EvalEvents)

LEMMA FailingIs ==
  ASSUME JobsAssumption, NEW s \in Seq(EventRecord), Len(s) <= EvalEvents
  PROVE  LET n == Least(Len(s) + 1 + EvalTasks, EvalEvents)
         IN /\ Failing(s) \in Seq(EventRecord) /\ Len(Failing(s)) = n /\ n \in Nat /\ Len(s) <= n
            /\ \A k \in 1..n :
                 /\ k <= Len(s) => Failing(s)[k] = s[k]
                 /\ k = Len(s) + 1 => Failing(s)[k] = Job!Event("build", 0)
                 /\ k > Len(s) + 1 => Failing(s)[k] = Job!Event("result", k - Len(s) - 1)
<1> DEFINE n == Least(Len(s) + 1 + EvalTasks, EvalEvents)
           b == <<Job!Event("build", 0)>>
           c == [i \in 1..(EvalTasks) |-> Job!Event("result", i)]
           x == s \o b
           w == x \o c
<1>1. n \in Nat /\ n <= Len(s) + 1 + EvalTasks /\ Len(s) <= n /\ Len(s) \in Nat /\ EvalTasks \in Nat
  BY DEF Least, JobsAssumption
<1>2. b \in Seq(EventRecord) /\ Len(b) = 1 /\ b[1] = Job!Event("build", 0)
  BY DEF Job!Event, EventRecord
<1>3. c \in Seq(EventRecord) /\ Len(c) = EvalTasks /\ \A i \in 1..EvalTasks : c[i] = Job!Event("result", i)
  <2>1. \A i \in 1..EvalTasks : Job!Event("result", i) \in EventRecord
    BY DEF Job!Event, EventRecord
  <2> QED
    BY <1>1, <2>1
<1> HIDE DEF b, c
<1>8. /\ x \in Seq(EventRecord) /\ Len(x) = Len(s) + 1
      /\ \A k \in 1..Len(s) : x[k] = s[k]
      /\ x[Len(s) + 1] = b[1]
  <2>1. /\ x \in Seq(EventRecord) /\ Len(x) = Len(s) + Len(b)
        /\ \A i \in 1..(Len(s) + Len(b)) : x[i] = IF i <= Len(s) THEN s[i] ELSE b[i - Len(s)]
    BY <1>2, ConcatProperties
  <2>2. \A k \in 1..Len(s) : k \in 1..(Len(s) + Len(b)) /\ k <= Len(s)
    BY <1>1, <1>2
  <2>3. Len(s) + 1 \in 1..(Len(s) + Len(b)) /\ ~(Len(s) + 1 <= Len(s)) /\ Len(s) + 1 - Len(s) = 1
    BY <1>1, <1>2
  <2> QED
    BY <1>1, <1>2, <2>1, <2>2, <2>3
<1>9. Failing(s) = SubSeq(w, 1, n)
  BY DEF Failing, Least, Job!Task, b, c
<1> HIDE DEF x
<1>4. /\ w \in Seq(EventRecord) /\ Len(w) = Len(s) + 1 + EvalTasks
      /\ \A k \in 1..Len(s) : w[k] = s[k]
      /\ w[Len(s) + 1] = b[1]
      /\ \A i \in 1..EvalTasks : w[Len(s) + 1 + i] = c[i]
  <2>1. /\ w \in Seq(EventRecord) /\ Len(w) = Len(x) + Len(c)
        /\ \A k \in 1..Len(x) : w[k] = x[k]
        /\ \A i \in 1..Len(c) : w[Len(x) + i] = c[i]
    <3>1. /\ w \in Seq(EventRecord) /\ Len(w) = Len(x) + Len(c)
          /\ \A i \in 1..(Len(x) + Len(c)) : w[i] = IF i <= Len(x) THEN x[i] ELSE c[i - Len(x)]
      BY <1>3, <1>8, ConcatProperties
    <3>2. Len(x) \in Nat /\ Len(c) \in Nat
      BY <1>1, <1>3, <1>8
    <3>3. \A k \in 1..Len(x) : k \in 1..(Len(x) + Len(c)) /\ k <= Len(x)
      BY <3>2
    <3>4. \A i \in 1..Len(c) : /\ Len(x) + i \in 1..(Len(x) + Len(c)) /\ ~(Len(x) + i <= Len(x))
                               /\ Len(x) + i - Len(x) = i
      BY <3>2
    <3> QED
      BY <3>1, <3>3, <3>4
  <2>2. Len(s) + 1 \in 1..Len(x) /\ \A k \in 1..Len(s) : k \in 1..Len(x)
    BY <1>1, <1>8
  <2> QED
    BY <1>1, <1>3, <1>8, <2>1, <2>2
<1> HIDE DEF w, n
<1>6. Failing(s) \in Seq(EventRecord) /\ Len(Failing(s)) = n /\ \A k \in 1..n : Failing(s)[k] = w[k]
  BY <1>1, <1>4, <1>9
<1>7. ASSUME NEW k \in 1..n, k > Len(s) + 1 PROVE w[k] = Job!Event("result", k - Len(s) - 1)
  <2>1. k - Len(s) - 1 \in 1..EvalTasks /\ k = Len(s) + 1 + (k - Len(s) - 1)
    BY <1>1, <1>7
  <2> QED
    BY <1>3, <1>4, <2>1
<1> QED
  BY <1>1, <1>2, <1>4, <1>6, <1>7 DEF n

LEMMA EventsOfFailing ==
  ASSUME JobsAssumption, NEW s, NEW st, NEW sn, NEW t, NEW u, EventsGood(st, t, s),
         sn \notin Over => st \notin Over,
         \A i \in Job!Task : t[i].phase # "finished" /\ u[i].phase = "finished"
  PROVE  EventsGood(sn, u, Failing(s))
<1> DEFINE r == Failing(s)
<1>1. s \in Seq(EventRecord) /\ Len(s) <= EvalEvents /\ Len(s) \in Nat
  BY DEF EventsGood
<1>2. r \in Seq(EventRecord) /\ Len(r) = Least(Len(s) + 1 + EvalTasks, EvalEvents)
  BY <1>1, FailingIs
<1>3. ASSUME Len(r) < EvalEvents, NEW i \in Job!Task PROVE Tells(r, i) = {Len(s) + 1 + i}
  <2>1. Len(r) = Len(s) + 1 + EvalTasks /\ Len(s) < EvalEvents /\ i \in Nat /\ EvalTasks \in Nat
    BY <1>1, <1>2, <1>3 DEF Least, JobsAssumption, Job!Task
  <2>2. Tells(s, i) = {}
    BY <2>1 DEF EventsGood, Once
  <2>3. ASSUME NEW k \in 1..Len(r) PROVE r[k] = Job!Event("result", i) <=> k = Len(s) + 1 + i
    <3>1. CASE k <= Len(s)
      BY <1>1, <1>2, <2>1, <2>2, <3>1, FailingIs DEF Tells, Job!Task
    <3>2. CASE k = Len(s) + 1
      <4>1. r[k] = Job!Event("build", 0)
        BY <1>1, <1>2, <3>2, FailingIs
      <4> QED
        BY <1>1, <2>1, <3>2, <4>1 DEF Job!Event, Job!Task
    <3>3. CASE k > Len(s) + 1
      <4>1. r[k] = Job!Event("result", k - Len(s) - 1)
        BY <1>1, <1>2, <3>3, FailingIs
      <4> QED
        BY <1>1, <2>1, <3>3, <4>1 DEF Job!Event
    <3> QED
      BY <1>1, <2>1, <3>1, <3>2, <3>3
  <2>4. Len(s) + 1 + i \in 1..Len(r) /\ DOMAIN r = 1..Len(r)
    BY <1>1, <1>2, <2>1 DEF Job!Task
  <2> QED
    BY <2>3, <2>4 DEF Tells
<1>4. ASSUME sn \notin Over, NEW k \in 1..Len(r) PROVE r[k].kind # "end"
  <2>1. \A l \in 1..Len(s) : s[l].kind # "end"
    BY <1>4 DEF EventsGood
  <2>2. Len(r) \in Nat /\ EvalTasks \in Nat
    BY <1>1, <1>2, FailingIs DEF JobsAssumption
  <2>3. CASE k <= Len(s)
    BY <1>1, <1>2, <2>1, <2>2, <2>3, FailingIs
  <2>4. CASE k = Len(s) + 1
    <3>1. r[k] = Job!Event("build", 0)
      BY <1>1, <1>2, <2>2, <2>4, FailingIs
    <3> QED
      BY <3>1 DEF Job!Event
  <2>5. CASE k > Len(s) + 1
    <3>1. r[k] = Job!Event("result", k - Len(s) - 1)
      BY <1>1, <1>2, <2>2, <2>5, FailingIs
    <3> QED
      BY <3>1 DEF Job!Event
  <2> QED
    BY <1>1, <2>2, <2>3, <2>4, <2>5
<1>5. Len(r) <= EvalEvents
  BY <1>1, <1>2 DEF Least, JobsAssumption
<1>6. \A i \in Job!Task : Len(s) + 1 + i \in Nat
  BY <1>1 DEF Job!Task
<1> QED
  BY <1>2, <1>3, <1>4, <1>5, <1>6 DEF EventsGood, Once

----------------------------------------------------------------------------
(* The steps.                                                              *)
Same(i) ==
  /\ jobStatus'[i] = jobStatus[i] /\ cancelled'[i] = cancelled[i] /\ pc'[i] = pc[i] /\ at'[i] = at[i]
  /\ tasks'[i] = tasks[i] /\ verdict'[i] = verdict[i] /\ outbox'[i] = outbox[i]
  /\ events'[i] = events[i]

LEMMA OthersStay == ASSUME NEW i \in EvalJobs, Good(i), Same(i) PROVE Good(i)'
  BY DEF Good, Same

Resulted(t, a, v) == [t EXCEPT ![a] = [phase |-> "finished", outcome |-> Job!Outcome(v)]]
Phased(t, a, p) == [t EXCEPT ![a].phase = p]
LEMMA PhaseIs ==
  ASSUME NEW t \in [Job!Task -> TaskRecord], NEW a \in Job!Task,
         NEW p \in {"starting", "working", "grading", "cancelled"}
  PROVE  LET u == Phased(t, a, p)
         IN /\ u \in [Job!Task -> TaskRecord] /\ u[a].phase = p /\ u[a].outcome = t[a].outcome
            /\ \A i \in Job!Task \ {a} : u[i] = t[i]
<1>1. t[a] \in TaskRecord /\ DOMAIN t[a] = {"phase", "outcome"}
  BY DEF TaskRecord
<1>2. [t[a] EXCEPT !.phase = p] \in TaskRecord
  BY <1>1 DEF TaskRecord
<1> QED
  BY <1>1, <1>2 DEF Phased

\* The tasks of a job while one is under way, as the next one comes, and as the job is over.
LEMMA TasksStay ==
  ASSUME NEW ca, NEW cn, NEW p, NEW q, NEW a, NEW t, NEW u, NEW v, NEW w, NEW o, NEW r,
         TasksGood(ca, p, a, t, v, o), p \notin {"last", "ended"}, q \notin {"last", "ended"},
         ca => cn, o \subseteq r, w \in {"passed", "failed"} => q = "result" /\ a \in r,
         q \in {"start_grader", "grader"} => a \in r, a \in 1..(EvalTasks + 1),
         \A i \in Job!Task : u[i] = t[i] \/ (i = a /\ Unsettled(u[i]))
  PROVE  TasksGood(cn, q, a, u, w, r)
<1>1. ASSUME NEW i \in Job!Task
      PROVE  /\ IF Passed(q, a, i) THEN TaskSettled(u[i], cn) ELSE Unsettled(u[i])
             /\ u[i].outcome \in {"passed", "failed"} => i \in r
  <2>1. /\ a \in Nat /\ i \in Nat /\ (Passed(q, a, i) <=> Passed(p, a, i))
        /\ IF Passed(p, a, i) THEN TaskSettled(t[i], ca) ELSE Unsettled(t[i])
        /\ t[i].outcome \in {"passed", "failed"} => i \in o
    BY DEF Job!Task, Passed, TasksGood
  <2>2. CASE u[i] = t[i]
    BY <2>1, <2>2 DEF TaskSettled
  <2>3. CASE i = a /\ Unsettled(u[i])
    <3>1. ~Passed(q, a, i)
      BY <2>1, <2>3 DEF Passed
    <3>2. u[i].outcome = ""
      BY <2>3 DEF Unsettled
    <3> QED
      BY <2>3, <3>1, <3>2
  <2> QED
    BY <2>2, <2>3
<1> QED
  BY <1>1 DEF TasksGood

LEMMA UnderWay ==
  ASSUME NEW ca, NEW p, NEW a \in Job!Task, NEW t, NEW v, NEW o, TasksGood(ca, p, a, t, v, o),
         p \notin {"last", "ended"}
  PROVE  Unsettled(t[a])
<1>1. a \in Nat
  BY DEF Job!Task
<1> QED
  BY <1>1 DEF TasksGood, Passed

LEMMA TasksAdvance ==
  ASSUME JobsAssumption, NEW ca, NEW p, NEW a \in Job!Task, NEW t, NEW u, NEW v, NEW w, NEW o,
         TasksGood(ca, p, a, t, v, o), p \notin {"last", "ended"}, w \notin {"passed", "failed"},
         \A i \in Job!Task : i # a => u[i] = t[i], TaskSettled(u[a], ca),
         u[a].outcome \in {"passed", "failed"} => a \in o
  PROVE  TasksGood(ca, "task", a + 1, u, w, o)
<1>1. ASSUME NEW i \in Job!Task
      PROVE  /\ IF Passed("task", a + 1, i) THEN TaskSettled(u[i], ca) ELSE Unsettled(u[i])
             /\ u[i].outcome \in {"passed", "failed"} => i \in o
  <2>1. a \in Nat /\ i \in Nat
    BY DEF Job!Task
  <2>2. CASE i = a
    BY <2>1, <2>2 DEF Passed
  <2>3. CASE i # a
    BY <2>1, <2>3 DEF Passed, TasksGood
  <2> QED
    BY <2>2, <2>3
<1> QED
  BY <1>1 DEF TasksGood

\* The containers of a job that takes its step away from a container, or that does not.
LEMMA BoxesStay ==
  ASSUME BoxesInv, boxes' \subseteq boxes,
         \A b \in boxes' : BoxGood(b, cancelled'[b.job], pc'[b.job], at'[b.job], outbox'[b.job])
  PROVE  BoxesInv'
  BY DEF BoxesInv

LEMMA ClientStays ==
  ASSUME JobsAssumption, JobInv, UNCHANGED client,
         jobStatus[1] \in Over => jobStatus'[1] \in Over,
         jobStatus[1] # "none" => jobStatus'[1] # "none",
         jobStatus[1] \in Over =>
           \/ events'[1] = events[1]
           \/ \E e \in EventRecord : e.kind # "end" /\ events'[1] = Kept(events[1], e)
  PROVE  ClientInv'
<1>1. events[1] \in Seq(EventRecord) /\ Len(events[1]) <= EvalEvents
  BY DEF JobInv, Good, EventsGood, JobsAssumption
<1>2. ASSUME NEW n \in Nat, jobStatus[1] \in Over, EndsBy(events[1], n) PROVE EndsBy(events'[1], n)
  BY <1>1, <1>2, EndsStayBy
<1>3. client.got \in Nat /\ client.upto \in Nat
  BY DEF JobInv, JobTypes, ClientRecord
<1> QED
  BY <1>2, <1>3 DEF JobInv, ClientInv

LEMMA StartJobKeeps ==
  ASSUME JobsAssumption, JobInv, NEW j \in EvalJobs, Job!StartJob(j) PROVE JobInv'
<1> USE DEF JobsAssumption
<1>1. JobTypes /\ Good(j) /\ BoxesInv /\ ClientInv
  BY DEF JobInv
<1>2. /\ jobStatus'[j] = "running" /\ cancelled'[j] = cancelled[j] /\ pc'[j] = "prepare" /\ at'[j] = at[j]
      /\ tasks'[j] = tasks[j] /\ verdict'[j] = verdict[j] /\ outbox'[j] = outbox[j]
      /\ events'[j] = Kept(events[j], Job!Event("job", 0))
      /\ \A i \in EvalJobs \ {j} : Same(i)
  BY <1>1 DEF Job!StartJob, Job!Emit, Kept, Job!job, Job!run, JobTypes, Same, Over
<1>3. tasks[j] \in [Job!Task -> TaskRecord] /\ tasks'[j] = tasks[j]
  BY <1>1, <1>2 DEF JobTypes
<1>4. JobTypes'
  BY <1>1, <1>2, <1>3 DEF Job!StartJob, Job!Emit, Job!job, Job!run, JobTypes, Places, Over, Verdicts
<1>5. Good(j)'
  <2>1. Placed(jobStatus'[j], cancelled'[j], pc'[j], at'[j])
    BY <1>1, <1>2, <1>3 DEF Job!StartJob, Good, Placed, AtTask, Over, JobTypes, Job!Task
  <2>2. TasksGood(cancelled'[j], pc'[j], at'[j], tasks'[j], verdict'[j], outbox'[j])
    <3>1. /\ TasksGood(cancelled[j], pc[j], at[j], tasks[j], verdict[j], outbox[j])
          /\ at[j] \in 1..(EvalTasks + 1) /\ pc[j] \notin {"last", "ended"}
      BY <1>1 DEF Job!StartJob, Good, Placed, Over, JobTypes
    <3>2. /\ pc'[j] \notin {"last", "ended"} /\ (cancelled[j] => cancelled'[j])
          /\ outbox[j] \subseteq outbox'[j]
          /\ (verdict'[j] \in {"passed", "failed"} => pc'[j] = "result" /\ at[j] \in outbox'[j])
          /\ (pc'[j] \in {"start_grader", "grader"} => at[j] \in outbox'[j])
      BY <1>1, <1>2, <3>1 DEF Job!StartJob, TasksGood, Good, Placed
    <3>3. \A i \in Job!Task : tasks'[j][i] = tasks[j][i] \/
                          (i = at[j] /\ Unsettled(tasks'[j][i]))
      BY <1>2, <1>3
    <3> QED
      BY <1>2, <3>1, <3>2, <3>3, TasksStay
  <2>3. EventsGood(jobStatus'[j], tasks'[j], events'[j])
    <3>1. /\ Job!Event("job", 0) \in EventRecord /\ EventsGood(jobStatus[j], tasks[j], events[j])
          /\ \A i \in Job!Task : tasks'[j][i].phase = "finished" <=> tasks[j][i].phase = "finished"
      BY <1>1, <1>2, <1>3 DEF Job!Event, EventRecord, Good, Job!Task
    <3>2. jobStatus'[j] \notin Over => jobStatus[j] \notin Over
      BY <1>1, <1>2 DEF Job!StartJob, Good, Placed, Over
    <3> QED
      BY <1>2, <1>3, <3>1, <3>2, EventsStayGood DEF Job!Event
  <2> QED
    BY <2>1, <2>2, <2>3 DEF Good
<1>6. Alone'
  BY <1>1, <1>2 DEF Job!StartJob, JobInv, Alone, Same, Over
<1>7. BoxesInv'
  <2>1. ASSUME NEW b \in boxes, b.job = j
        PROVE  BoxGood(b, cancelled'[j], pc'[j], at'[j], outbox'[j])
    BY <1>1, <1>2, <1>3, <2>1 DEF Job!StartJob, BoxesInv, BoxGood, Good, Placed, JobTypes, Job!Task
  <2>2. boxes' = boxes /\ \A b \in boxes : b.job \in EvalJobs
    BY <1>1 DEF Job!StartJob, JobTypes
  <2> QED
    BY <1>1, <1>2, <2>1, <2>2, BoxesStay DEF BoxesInv, Same
<1>8. ClientInv'
  <2>1. client' = client /\ (jobStatus[1] \in Over => jobStatus'[1] \in Over)
        /\ (jobStatus[1] # "none" => jobStatus'[1] # "none")
    BY <1>1, <1>2 DEF Job!StartJob, Good, Placed, Same, Over
  <2> QED
    BY <1>1, <1>2, <2>1, ClientStays DEF Job!StartJob, Good, Placed, Same, Over, Job!Event, EventRecord
<1> QED
  BY <1>2, <1>4, <1>5, <1>6, <1>7, <1>8, OthersStay DEF JobInv

LEMMA CancelJobKeeps ==
  ASSUME JobsAssumption, JobInv, NEW j \in EvalJobs, Job!CancelJob(j) PROVE JobInv'
<1> USE DEF JobsAssumption
<1>1. JobTypes /\ Good(j) /\ BoxesInv /\ ClientInv
  BY DEF JobInv
<1>2. /\ jobStatus'[j] = jobStatus[j] /\ cancelled'[j] = TRUE /\ pc'[j] = pc[j] /\ at'[j] = at[j]
      /\ tasks'[j] = tasks[j] /\ verdict'[j] = verdict[j] /\ outbox'[j] = outbox[j]
      /\ events'[j] = events[j]
      /\ \A i \in EvalJobs \ {j} : Same(i)
  BY <1>1 DEF Job!CancelJob, Job!job, Job!run, JobTypes, Same, Over
<1>3. tasks[j] \in [Job!Task -> TaskRecord] /\ tasks'[j] = tasks[j]
  BY <1>1, <1>2 DEF JobTypes
<1>4. JobTypes'
  BY <1>1, <1>2, <1>3 DEF Job!CancelJob, Job!job, Job!run, JobTypes, Places, Over, Verdicts
<1>5. Good(j)'
  <2>1. Placed(jobStatus'[j], cancelled'[j], pc'[j], at'[j])
    BY <1>1, <1>2, <1>3 DEF Job!CancelJob, Good, Placed, AtTask, Over, JobTypes, Job!Task
  <2>2. TasksGood(cancelled'[j], pc'[j], at'[j], tasks'[j], verdict'[j], outbox'[j])
    BY <1>1, <1>2 DEF Job!CancelJob, Good, TasksGood, TaskSettled
  <2>3. EventsGood(jobStatus'[j], tasks'[j], events'[j])
    <3>1. \A i \in Job!Task : tasks'[j][i].phase = "finished" <=> tasks[j][i].phase = "finished"
      BY <1>1, <1>2, <1>3 DEF Job!CancelJob, Good, Unsettled
    <3>2. EventsGood(jobStatus[j], tasks[j], events[j]) /\ (jobStatus'[j] \notin Over <=> jobStatus[j] \notin Over)
      BY <1>1, <1>2 DEF Good
    <3> QED
      BY <1>2, <3>1, <3>2 DEF EventsGood, Once
  <2> QED
    BY <2>1, <2>2, <2>3 DEF Good
<1>6. Alone'
  BY <1>1, <1>2 DEF Job!CancelJob, JobInv, Alone, Same, Over
<1>7. BoxesInv'
  <2>1. ASSUME NEW b \in boxes, b.job = j
        PROVE  BoxGood(b, cancelled'[j], pc'[j], at'[j], outbox'[j])
    BY <1>1, <1>2, <1>3, <2>1 DEF Job!CancelJob, BoxesInv, BoxGood, Good, Placed, JobTypes, Job!Task
  <2>2. boxes' = boxes /\ \A b \in boxes : b.job \in EvalJobs
    BY <1>1 DEF Job!CancelJob, JobTypes
  <2> QED
    BY <1>1, <1>2, <2>1, <2>2, BoxesStay DEF BoxesInv, Same
<1>8. ClientInv'
  <2>1. client' = client /\ (jobStatus[1] \in Over => jobStatus'[1] \in Over)
        /\ (jobStatus[1] # "none" => jobStatus'[1] # "none")
    BY <1>1, <1>2 DEF Job!CancelJob, Good, Placed, Same, Over
  <2> QED
    BY <1>1, <1>2, <2>1, ClientStays DEF Job!CancelJob, Good, Placed, Same, Over, Job!Event, EventRecord
<1> QED
  BY <1>2, <1>4, <1>5, <1>6, <1>7, <1>8, OthersStay DEF JobInv

LEMMA CancelAnnouncedKeeps ==
  ASSUME JobsAssumption, JobInv, NEW j \in EvalJobs, Job!CancelAnnounced(j) PROVE JobInv'
<1> USE DEF JobsAssumption
<1>1. JobTypes /\ Good(j) /\ BoxesInv /\ ClientInv
  BY DEF JobInv
<1>2. /\ jobStatus'[j] = jobStatus[j] /\ cancelled'[j] = cancelled[j] /\ pc'[j] = pc[j] /\ at'[j] = at[j]
      /\ tasks'[j] = tasks[j] /\ verdict'[j] = verdict[j] /\ outbox'[j] = outbox[j]
      /\ events'[j] = Kept(events[j], Job!Event("job", 0))
      /\ \A i \in EvalJobs \ {j} : Same(i)
  BY <1>1 DEF Job!CancelAnnounced, Job!Emit, Kept, Job!job, Job!run, JobTypes, Same, Over
<1>3. tasks[j] \in [Job!Task -> TaskRecord] /\ tasks'[j] = tasks[j]
  BY <1>1, <1>2 DEF JobTypes
<1>4. JobTypes'
  BY <1>1, <1>2, <1>3 DEF Job!CancelAnnounced, Job!Emit, Job!job, Job!run, JobTypes, Places, Over, Verdicts
<1>5. Good(j)'
  <2>1. Placed(jobStatus'[j], cancelled'[j], pc'[j], at'[j])
    BY <1>1, <1>2, <1>3 DEF Job!CancelAnnounced, Good, Placed, AtTask, Over, JobTypes, Job!Task
  <2>2. TasksGood(cancelled'[j], pc'[j], at'[j], tasks'[j], verdict'[j], outbox'[j])
    BY <1>1, <1>2 DEF Job!CancelAnnounced, Good, TasksGood, TaskSettled
  <2>3. EventsGood(jobStatus'[j], tasks'[j], events'[j])
    <3>1. /\ Job!Event("job", 0) \in EventRecord /\ EventsGood(jobStatus[j], tasks[j], events[j])
          /\ \A i \in Job!Task : tasks'[j][i].phase = "finished" <=> tasks[j][i].phase = "finished"
      BY <1>1, <1>2, <1>3 DEF Job!Event, EventRecord, Good, Job!Task
    <3>2. jobStatus'[j] \notin Over => jobStatus[j] \notin Over
      BY <1>1, <1>2 DEF Job!CancelAnnounced, Good, Placed, Over
    <3> QED
      BY <1>2, <1>3, <3>1, <3>2, EventsStayGood DEF Job!Event
  <2> QED
    BY <2>1, <2>2, <2>3 DEF Good
<1>6. Alone'
  BY <1>1, <1>2 DEF Job!CancelAnnounced, JobInv, Alone, Same, Over
<1>7. BoxesInv'
  <2>1. ASSUME NEW b \in boxes, b.job = j
        PROVE  BoxGood(b, cancelled'[j], pc'[j], at'[j], outbox'[j])
    BY <1>1, <1>2, <1>3, <2>1 DEF Job!CancelAnnounced, BoxesInv, BoxGood, Good, Placed, JobTypes, Job!Task
  <2>2. boxes' = boxes /\ \A b \in boxes : b.job \in EvalJobs
    BY <1>1 DEF Job!CancelAnnounced, JobTypes
  <2> QED
    BY <1>1, <1>2, <2>1, <2>2, BoxesStay DEF BoxesInv, Same
<1>8. ClientInv'
  <2>1. client' = client /\ (jobStatus[1] \in Over => jobStatus'[1] \in Over)
        /\ (jobStatus[1] # "none" => jobStatus'[1] # "none")
    BY <1>1, <1>2 DEF Job!CancelAnnounced, Good, Placed, Same, Over
  <2> QED
    BY <1>1, <1>2, <2>1, ClientStays DEF Job!CancelAnnounced, Good, Placed, Same, Over, Job!Event, EventRecord
<1> QED
  BY <1>2, <1>4, <1>5, <1>6, <1>7, <1>8, OthersStay DEF JobInv

LEMMA PrepareContainersKeeps ==
  ASSUME JobsAssumption, JobInv, NEW j \in EvalJobs, Job!PrepareContainers(j) PROVE JobInv'
<1> USE DEF JobsAssumption
<1>1. JobTypes /\ Good(j) /\ BoxesInv /\ ClientInv
  BY DEF JobInv
<1>2. /\ jobStatus'[j] = jobStatus[j] /\ cancelled'[j] = cancelled[j] /\ pc'[j] = "task" /\ at'[j] = at[j]
      /\ tasks'[j] = tasks[j] /\ verdict'[j] = verdict[j] /\ outbox'[j] = outbox[j]
      /\ events'[j] = Kept(events[j], Job!Event("build", 0))
      /\ \A i \in EvalJobs \ {j} : Same(i)
  BY <1>1 DEF Job!PrepareContainers, Job!Goes, Job!Emit, Kept, Job!job, Job!run, JobTypes, Same, Over
<1>3. tasks[j] \in [Job!Task -> TaskRecord] /\ tasks'[j] = tasks[j]
  BY <1>1, <1>2 DEF JobTypes
<1>4. JobTypes'
  BY <1>1, <1>2, <1>3 DEF Job!PrepareContainers, Job!Goes, Job!Emit, Job!job, Job!run, JobTypes, Places, Over, Verdicts
<1>5. Good(j)'
  <2>1. Placed(jobStatus'[j], cancelled'[j], pc'[j], at'[j])
    BY <1>1, <1>2, <1>3 DEF Job!PrepareContainers, Good, Placed, AtTask, Over, JobTypes, Job!Task
  <2>2. TasksGood(cancelled'[j], pc'[j], at'[j], tasks'[j], verdict'[j], outbox'[j])
    <3>1. /\ TasksGood(cancelled[j], pc[j], at[j], tasks[j], verdict[j], outbox[j])
          /\ at[j] \in 1..(EvalTasks + 1) /\ pc[j] \notin {"last", "ended"}
      BY <1>1 DEF Job!PrepareContainers, Good, Placed, Over, JobTypes
    <3>2. /\ pc'[j] \notin {"last", "ended"} /\ (cancelled[j] => cancelled'[j])
          /\ outbox[j] \subseteq outbox'[j]
          /\ (verdict'[j] \in {"passed", "failed"} => pc'[j] = "result" /\ at[j] \in outbox'[j])
          /\ (pc'[j] \in {"start_grader", "grader"} => at[j] \in outbox'[j])
      BY <1>1, <1>2, <3>1 DEF Job!PrepareContainers, TasksGood, Good, Placed
    <3>3. \A i \in Job!Task : tasks'[j][i] = tasks[j][i] \/
                          (i = at[j] /\ Unsettled(tasks'[j][i]))
      BY <1>2, <1>3
    <3> QED
      BY <1>2, <3>1, <3>2, <3>3, TasksStay
  <2>3. EventsGood(jobStatus'[j], tasks'[j], events'[j])
    <3>1. /\ Job!Event("build", 0) \in EventRecord /\ EventsGood(jobStatus[j], tasks[j], events[j])
          /\ \A i \in Job!Task : tasks'[j][i].phase = "finished" <=> tasks[j][i].phase = "finished"
      BY <1>1, <1>2, <1>3 DEF Job!Event, EventRecord, Good, Job!Task
    <3>2. jobStatus'[j] \notin Over => jobStatus[j] \notin Over
      BY <1>1, <1>2 DEF Job!PrepareContainers, Good, Placed, Over
    <3> QED
      BY <1>2, <1>3, <3>1, <3>2, EventsStayGood DEF Job!Event
  <2> QED
    BY <2>1, <2>2, <2>3 DEF Good
<1>6. Alone'
  BY <1>1, <1>2 DEF Job!PrepareContainers, JobInv, Alone, Same, Over
<1>7. BoxesInv'
  <2>1. ASSUME NEW b \in boxes, b.job = j
        PROVE  BoxGood(b, cancelled'[j], pc'[j], at'[j], outbox'[j])
    BY <1>1, <1>2, <1>3, <2>1 DEF Job!PrepareContainers, BoxesInv, BoxGood, Good, Placed, JobTypes, Job!Task
  <2>2. boxes' = boxes /\ \A b \in boxes : b.job \in EvalJobs
    BY <1>1 DEF Job!PrepareContainers, JobTypes
  <2> QED
    BY <1>1, <1>2, <2>1, <2>2, BoxesStay DEF BoxesInv, Same
<1>8. ClientInv'
  <2>1. client' = client /\ (jobStatus[1] \in Over => jobStatus'[1] \in Over)
        /\ (jobStatus[1] # "none" => jobStatus'[1] # "none")
    BY <1>1, <1>2 DEF Job!PrepareContainers, Good, Placed, Same, Over
  <2> QED
    BY <1>1, <1>2, <2>1, ClientStays DEF Job!PrepareContainers, Good, Placed, Same, Over, Job!Event, EventRecord
<1> QED
  BY <1>2, <1>4, <1>5, <1>6, <1>7, <1>8, OthersStay DEF JobInv

LEMMA SkipKeeps ==
  ASSUME JobsAssumption, JobInv, NEW j \in EvalJobs, Job!Skip(j) PROVE JobInv'
<1> USE DEF JobsAssumption
<1>1. JobTypes /\ Good(j) /\ BoxesInv /\ ClientInv
  BY DEF JobInv
<1>2. /\ jobStatus'[j] = jobStatus[j] /\ cancelled'[j] = cancelled[j] /\ pc'[j] = pc[j] /\ at'[j] = at[j] + 1
      /\ tasks'[j] = Phased(tasks[j], at[j], "cancelled") /\ verdict'[j] = verdict[j] /\ outbox'[j] = outbox[j]
      /\ events'[j] = events[j]
      /\ \A i \in EvalJobs \ {j} : Same(i)
  BY <1>1 DEF Job!Skip, Job!Phase, Job!job, Job!run, JobTypes, Same, Over, Phased
<1>3. /\ at[j] \in Job!Task /\ tasks[j] \in [Job!Task -> TaskRecord]
      /\ tasks'[j] \in [Job!Task -> TaskRecord] /\ tasks'[j][at[j]].phase = "cancelled"
      /\ tasks'[j][at[j]].outcome = tasks[j][at[j]].outcome
      /\ \A i \in Job!Task \ {at[j]} : tasks'[j][i] = tasks[j][i]
  <2>1. at[j] \in Job!Task /\ tasks[j] \in [Job!Task -> TaskRecord]
    BY <1>1 DEF Job!Skip, JobTypes, Good, Placed, AtTask, Job!Task
  <2> QED
    BY <1>2, <2>1, PhaseIs
<1>11. Unsettled(tasks[j][at[j]]) /\ EventsGood(jobStatus[j], tasks[j], events[j])
  <2>1. /\ TasksGood(cancelled[j], pc[j], at[j], tasks[j], verdict[j], outbox[j])
        /\ pc[j] \notin {"last", "ended"}
    BY <1>1 DEF Job!Skip, Good
  <2> QED
    BY <1>1, <1>3, <2>1, UnderWay DEF Good
<1>12. Unsettled(tasks'[j][at[j]]) \/ (pc[j] = "task" /\ cancelled[j])
  BY <1>3, <1>11 DEF Unsettled, Job!Skip
<1>13. \A i \in Job!Task : tasks'[j][i].phase = "finished" <=> tasks[j][i].phase = "finished"
  <2>1. tasks'[j][at[j]].phase # "finished" /\ tasks[j][at[j]].phase # "finished"
    BY <1>3, <1>11 DEF Unsettled
  <2> QED
    BY <1>3, <2>1
<1>4. JobTypes'
  BY <1>1, <1>2, <1>3 DEF Job!Skip, Job!Phase, Job!job, Job!run, JobTypes, Places, Over, Verdicts
<1>5. Good(j)'
  <2>1. Placed(jobStatus'[j], cancelled'[j], pc'[j], at'[j])
    BY <1>1, <1>2, <1>3 DEF Job!Skip, Good, Placed, AtTask, Over, JobTypes, Job!Task
  <2>2. TasksGood(cancelled'[j], pc'[j], at'[j], tasks'[j], verdict'[j], outbox'[j])
    <3>1. /\ TasksGood(cancelled[j], pc[j], at[j], tasks[j], verdict[j], outbox[j])
          /\ pc[j] \in {"task", "result"}
      BY <1>1 DEF Job!Skip, Good
    <3>2. /\ \A i \in Job!Task : i # at[j] => tasks'[j][i] = tasks[j][i]
          /\ at[j] \in Job!Task => TaskSettled(tasks'[j][at[j]], cancelled[j])
          /\ tasks'[j][at[j]].outcome \in {"passed", "failed"} => at[j] \in outbox[j]
      <4>1. verdict[j] \in Verdicts /\ Unsettled(tasks[j][at[j]])
        BY <1>1, <1>11 DEF JobTypes
      <4>2. LET r == tasks'[j][at[j]]
            IN r.phase = "cancelled" /\ r.outcome = tasks[j][at[j]].outcome /\ cancelled[j]
        BY <1>1, <1>3 DEF Job!Skip
      <4> QED
        <5>1. TaskSettled(tasks'[j][at[j]], cancelled[j])
          BY <1>3, <4>1, <4>2 DEF TaskSettled, Verdicts
        <5>2. tasks'[j][at[j]].outcome \in {"passed", "failed"} => at[j] \in outbox[j]
          BY <1>3, <3>1, <4>1, <4>2 DEF Unsettled, TasksGood
        <5>3. \A i \in Job!Task : i # at[j] => tasks'[j][i] = tasks[j][i]
          BY <1>3
        <5> QED
          BY <5>1, <5>2, <5>3
    <3>3. verdict'[j] \notin {"passed", "failed"} /\ pc'[j] = "task" /\ at[j] \in Job!Task
      BY <1>1, <1>2, <1>3, <3>1 DEF Job!Skip, TasksGood
    <3> QED
      BY <1>2, <3>1, <3>2, <3>3, TasksAdvance
  <2>3. EventsGood(jobStatus'[j], tasks'[j], events'[j])
    <3>1. \A i \in Job!Task : tasks'[j][i].phase = "finished" <=> tasks[j][i].phase = "finished"
      BY <1>1, <1>2, <1>3, <1>13 DEF Job!Skip, Good, Unsettled
    <3>2. EventsGood(jobStatus[j], tasks[j], events[j]) /\ (jobStatus'[j] \notin Over <=> jobStatus[j] \notin Over)
      BY <1>1, <1>2 DEF Good
    <3> QED
      BY <1>2, <3>1, <3>2 DEF EventsGood, Once
  <2> QED
    BY <2>1, <2>2, <2>3 DEF Good
<1>6. Alone'
  BY <1>1, <1>2 DEF Job!Skip, JobInv, Alone, Same, Over
<1>7. BoxesInv'
  <2>1. ASSUME NEW b \in boxes, b.job = j
        PROVE  BoxGood(b, cancelled'[j], pc'[j], at'[j], outbox'[j])
    BY <1>1, <1>2, <1>3, <2>1 DEF Job!Skip, BoxesInv, BoxGood, Good, Placed, JobTypes, Job!Task
  <2>2. boxes' = boxes /\ \A b \in boxes : b.job \in EvalJobs
    BY <1>1 DEF Job!Skip, JobTypes
  <2> QED
    BY <1>1, <1>2, <2>1, <2>2, BoxesStay DEF BoxesInv, Same
<1>8. ClientInv'
  <2>1. client' = client /\ (jobStatus[1] \in Over => jobStatus'[1] \in Over)
        /\ (jobStatus[1] # "none" => jobStatus'[1] # "none")
    BY <1>1, <1>2 DEF Job!Skip, Good, Placed, Same, Over
  <2> QED
    BY <1>1, <1>2, <2>1, ClientStays DEF Job!Skip, Good, Placed, Same, Over, Job!Event, EventRecord
<1> QED
  BY <1>2, <1>4, <1>5, <1>6, <1>7, <1>8, OthersStay DEF JobInv

LEMMA StartTaskKeeps ==
  ASSUME JobsAssumption, JobInv, NEW j \in EvalJobs, Job!StartTask(j) PROVE JobInv'
<1> USE DEF JobsAssumption
<1>1. JobTypes /\ Good(j) /\ BoxesInv /\ ClientInv
  BY DEF JobInv
<1>2. /\ jobStatus'[j] = jobStatus[j] /\ cancelled'[j] = cancelled[j] /\ pc'[j] = "start_agent" /\ at'[j] = at[j]
      /\ tasks'[j] = Phased(tasks[j], at[j], "starting") /\ verdict'[j] = verdict[j] /\ outbox'[j] = outbox[j]
      /\ events'[j] = Kept(events[j], Job!Event("phase", at[j]))
      /\ \A i \in EvalJobs \ {j} : Same(i)
  BY <1>1 DEF Job!StartTask, Job!Goes, Job!Phase, Job!Emit, Kept, Job!job, Job!run, JobTypes, Same, Over, Phased
<1>3. /\ at[j] \in Job!Task /\ tasks[j] \in [Job!Task -> TaskRecord]
      /\ tasks'[j] \in [Job!Task -> TaskRecord] /\ tasks'[j][at[j]].phase = "starting"
      /\ tasks'[j][at[j]].outcome = tasks[j][at[j]].outcome
      /\ \A i \in Job!Task \ {at[j]} : tasks'[j][i] = tasks[j][i]
  <2>1. at[j] \in Job!Task /\ tasks[j] \in [Job!Task -> TaskRecord]
    BY <1>1 DEF Job!StartTask, JobTypes, Good, Placed, AtTask, Job!Task
  <2> QED
    BY <1>2, <2>1, PhaseIs
<1>11. Unsettled(tasks[j][at[j]]) /\ EventsGood(jobStatus[j], tasks[j], events[j])
  <2>1. /\ TasksGood(cancelled[j], pc[j], at[j], tasks[j], verdict[j], outbox[j])
        /\ pc[j] \notin {"last", "ended"}
    BY <1>1 DEF Job!StartTask, Good
  <2> QED
    BY <1>1, <1>3, <2>1, UnderWay DEF Good
<1>12. Unsettled(tasks'[j][at[j]]) \/ (pc[j] = "task" /\ cancelled[j])
  BY <1>3, <1>11 DEF Unsettled
<1>13. \A i \in Job!Task : tasks'[j][i].phase = "finished" <=> tasks[j][i].phase = "finished"
  <2>1. tasks'[j][at[j]].phase # "finished" /\ tasks[j][at[j]].phase # "finished"
    BY <1>3, <1>11 DEF Unsettled
  <2> QED
    BY <1>3, <2>1
<1>4. JobTypes'
  BY <1>1, <1>2, <1>3 DEF Job!StartTask, Job!Goes, Job!Phase, Job!Emit, Job!job, Job!run, JobTypes, Places, Over, Verdicts
<1>5. Good(j)'
  <2>1. Placed(jobStatus'[j], cancelled'[j], pc'[j], at'[j])
    BY <1>1, <1>2, <1>3 DEF Job!StartTask, Good, Placed, AtTask, Over, JobTypes, Job!Task
  <2>2. TasksGood(cancelled'[j], pc'[j], at'[j], tasks'[j], verdict'[j], outbox'[j])
    <3>1. /\ TasksGood(cancelled[j], pc[j], at[j], tasks[j], verdict[j], outbox[j])
          /\ at[j] \in 1..(EvalTasks + 1) /\ pc[j] \notin {"last", "ended"}
      BY <1>1 DEF Job!StartTask, Good, Placed, Over, JobTypes
    <3>2. /\ pc'[j] \notin {"last", "ended"} /\ (cancelled[j] => cancelled'[j])
          /\ outbox[j] \subseteq outbox'[j]
          /\ (verdict'[j] \in {"passed", "failed"} => pc'[j] = "result" /\ at[j] \in outbox'[j])
          /\ (pc'[j] \in {"start_grader", "grader"} => at[j] \in outbox'[j])
      BY <1>1, <1>2, <3>1 DEF Job!StartTask, TasksGood, Good, Placed
    <3>3. \A i \in Job!Task : tasks'[j][i] = tasks[j][i] \/
                          (i = at[j] /\ Unsettled(tasks'[j][i]))
      BY <1>2, <1>3, <1>12 DEF Job!StartTask
    <3> QED
      BY <1>2, <3>1, <3>2, <3>3, TasksStay
  <2>3. EventsGood(jobStatus'[j], tasks'[j], events'[j])
    <3>1. /\ Job!Event("phase", at[j]) \in EventRecord /\ EventsGood(jobStatus[j], tasks[j], events[j])
          /\ \A i \in Job!Task : tasks'[j][i].phase = "finished" <=> tasks[j][i].phase = "finished"
      BY <1>1, <1>2, <1>3, <1>13 DEF Job!Event, EventRecord, Good, Job!Task, Unsettled, Job!StartTask
    <3>2. jobStatus'[j] \notin Over => jobStatus[j] \notin Over
      BY <1>1, <1>2 DEF Job!StartTask, Good, Placed, Over
    <3> QED
      BY <1>2, <1>3, <3>1, <3>2, EventsStayGood DEF Job!Event
  <2> QED
    BY <2>1, <2>2, <2>3 DEF Good
<1>6. Alone'
  BY <1>1, <1>2 DEF Job!StartTask, JobInv, Alone, Same, Over
<1>7. BoxesInv'
  <2>1. ASSUME NEW b \in boxes, b.job = j
        PROVE  BoxGood(b, cancelled'[j], pc'[j], at'[j], outbox'[j])
    BY <1>1, <1>2, <1>3, <2>1 DEF Job!StartTask, BoxesInv, BoxGood, Good, Placed, JobTypes, Job!Task
  <2>2. boxes' = boxes /\ \A b \in boxes : b.job \in EvalJobs
    BY <1>1 DEF Job!StartTask, JobTypes
  <2> QED
    BY <1>1, <1>2, <2>1, <2>2, BoxesStay DEF BoxesInv, Same
<1>8. ClientInv'
  <2>1. client' = client /\ (jobStatus[1] \in Over => jobStatus'[1] \in Over)
        /\ (jobStatus[1] # "none" => jobStatus'[1] # "none")
    BY <1>1, <1>2 DEF Job!StartTask, Good, Placed, Same, Over
  <2> QED
    BY <1>1, <1>2, <2>1, ClientStays DEF Job!StartTask, Good, Placed, Same, Over, Job!Event, EventRecord, Job!Task
<1> QED
  BY <1>2, <1>4, <1>5, <1>6, <1>7, <1>8, OthersStay DEF JobInv

LEMMA ObserveKeeps ==
  ASSUME JobsAssumption, JobInv, NEW j \in EvalJobs, Job!Observe(j) PROVE JobInv'
<1> USE DEF JobsAssumption
<1>1. JobTypes /\ Good(j) /\ BoxesInv /\ ClientInv
  BY DEF JobInv
<1>2. /\ jobStatus'[j] = jobStatus[j] /\ cancelled'[j] = cancelled[j] /\ pc'[j] = pc[j] /\ at'[j] = at[j]
      /\ tasks'[j] = Phased(tasks[j], at[j], "working") /\ verdict'[j] = verdict[j] /\ outbox'[j] = outbox[j]
      /\ events'[j] = Kept(events[j], Job!Event("progress", at[j]))
      /\ \A i \in EvalJobs \ {j} : Same(i)
  BY <1>1 DEF Job!Observe, Job!Phase, Job!Emit, Kept, Job!job, Job!run, JobTypes, Same, Over, Phased
<1>3. /\ at[j] \in Job!Task /\ tasks[j] \in [Job!Task -> TaskRecord]
      /\ tasks'[j] \in [Job!Task -> TaskRecord] /\ tasks'[j][at[j]].phase = "working"
      /\ tasks'[j][at[j]].outcome = tasks[j][at[j]].outcome
      /\ \A i \in Job!Task \ {at[j]} : tasks'[j][i] = tasks[j][i]
  <2>1. at[j] \in Job!Task /\ tasks[j] \in [Job!Task -> TaskRecord]
    BY <1>1 DEF Job!Observe, JobTypes, Good, Placed, AtTask, Job!Task
  <2> QED
    BY <1>2, <2>1, PhaseIs
<1>11. Unsettled(tasks[j][at[j]]) /\ EventsGood(jobStatus[j], tasks[j], events[j])
  <2>1. /\ TasksGood(cancelled[j], pc[j], at[j], tasks[j], verdict[j], outbox[j])
        /\ pc[j] \notin {"last", "ended"}
    BY <1>1 DEF Job!Observe, Good
  <2> QED
    BY <1>1, <1>3, <2>1, UnderWay DEF Good
<1>12. Unsettled(tasks'[j][at[j]]) \/ (pc[j] = "task" /\ cancelled[j])
  BY <1>3, <1>11 DEF Unsettled
<1>13. \A i \in Job!Task : tasks'[j][i].phase = "finished" <=> tasks[j][i].phase = "finished"
  <2>1. tasks'[j][at[j]].phase # "finished" /\ tasks[j][at[j]].phase # "finished"
    BY <1>3, <1>11 DEF Unsettled
  <2> QED
    BY <1>3, <2>1
<1>4. JobTypes'
  BY <1>1, <1>2, <1>3 DEF Job!Observe, Job!Phase, Job!Emit, Job!job, Job!run, JobTypes, Places, Over, Verdicts
<1>5. Good(j)'
  <2>1. Placed(jobStatus'[j], cancelled'[j], pc'[j], at'[j])
    BY <1>1, <1>2, <1>3 DEF Job!Observe, Good, Placed, AtTask, Over, JobTypes, Job!Task
  <2>2. TasksGood(cancelled'[j], pc'[j], at'[j], tasks'[j], verdict'[j], outbox'[j])
    <3>1. /\ TasksGood(cancelled[j], pc[j], at[j], tasks[j], verdict[j], outbox[j])
          /\ at[j] \in 1..(EvalTasks + 1) /\ pc[j] \notin {"last", "ended"}
      BY <1>1 DEF Job!Observe, Good, Placed, Over, JobTypes
    <3>2. /\ pc'[j] \notin {"last", "ended"} /\ (cancelled[j] => cancelled'[j])
          /\ outbox[j] \subseteq outbox'[j]
          /\ (verdict'[j] \in {"passed", "failed"} => pc'[j] = "result" /\ at[j] \in outbox'[j])
          /\ (pc'[j] \in {"start_grader", "grader"} => at[j] \in outbox'[j])
      BY <1>1, <1>2, <3>1 DEF Job!Observe, TasksGood, Good, Placed
    <3>3. \A i \in Job!Task : tasks'[j][i] = tasks[j][i] \/
                          (i = at[j] /\ Unsettled(tasks'[j][i]))
      BY <1>2, <1>3, <1>12 DEF Job!Observe
    <3> QED
      BY <1>2, <3>1, <3>2, <3>3, TasksStay
  <2>3. EventsGood(jobStatus'[j], tasks'[j], events'[j])
    <3>1. /\ Job!Event("progress", at[j]) \in EventRecord /\ EventsGood(jobStatus[j], tasks[j], events[j])
          /\ \A i \in Job!Task : tasks'[j][i].phase = "finished" <=> tasks[j][i].phase = "finished"
      BY <1>1, <1>2, <1>3, <1>13 DEF Job!Event, EventRecord, Good, Job!Task, Unsettled, Job!Observe
    <3>2. jobStatus'[j] \notin Over => jobStatus[j] \notin Over
      BY <1>1, <1>2 DEF Job!Observe, Good, Placed, Over
    <3> QED
      BY <1>2, <1>3, <3>1, <3>2, EventsStayGood DEF Job!Event
  <2> QED
    BY <2>1, <2>2, <2>3 DEF Good
<1>6. Alone'
  BY <1>1, <1>2 DEF Job!Observe, JobInv, Alone, Same, Over
<1>7. BoxesInv'
  <2>1. ASSUME NEW b \in boxes, b.job = j
        PROVE  BoxGood(b, cancelled'[j], pc'[j], at'[j], outbox'[j])
    BY <1>1, <1>2, <1>3, <2>1 DEF Job!Observe, BoxesInv, BoxGood, Good, Placed, JobTypes, Job!Task
  <2>2. boxes' = boxes /\ \A b \in boxes : b.job \in EvalJobs
    BY <1>1 DEF Job!Observe, JobTypes
  <2> QED
    BY <1>1, <1>2, <2>1, <2>2, BoxesStay DEF BoxesInv, Same
<1>8. ClientInv'
  <2>1. client' = client /\ (jobStatus[1] \in Over => jobStatus'[1] \in Over)
        /\ (jobStatus[1] # "none" => jobStatus'[1] # "none")
    BY <1>1, <1>2 DEF Job!Observe, Good, Placed, Same, Over
  <2> QED
    BY <1>1, <1>2, <2>1, ClientStays DEF Job!Observe, Good, Placed, Same, Over, Job!Event, EventRecord, Job!Task
<1> QED
  BY <1>2, <1>4, <1>5, <1>6, <1>7, <1>8, OthersStay DEF JobInv

LEMMA StartAgentKeeps ==
  ASSUME JobsAssumption, JobInv, NEW j \in EvalJobs, Job!StartBox(j, "agent", "start_agent"), ~cancelled[j] PROVE JobInv'
<1> USE DEF JobsAssumption
<1>1. JobTypes /\ Good(j) /\ BoxesInv /\ ClientInv
  BY DEF JobInv
<1>2. /\ jobStatus'[j] = jobStatus[j] /\ cancelled'[j] = cancelled[j] /\ pc'[j] = "agent" /\ at'[j] = at[j]
      /\ tasks'[j] = tasks[j] /\ verdict'[j] = verdict[j] /\ outbox'[j] = outbox[j]
      /\ events'[j] = events[j]
      /\ \A i \in EvalJobs \ {j} : Same(i)
  BY <1>1 DEF Job!StartBox, Job!Goes, Job!Box, Job!job, Job!run, JobTypes, Same, Over
<1>3. tasks[j] \in [Job!Task -> TaskRecord] /\ tasks'[j] = tasks[j]
  BY <1>1, <1>2 DEF JobTypes
<1>9. Job!Box(j, "agent") \in [job : EvalJobs, task : Job!Task, which : {"agent", "grader"}]
      /\ Job!Box(j, "grader") \in [job : EvalJobs, task : Job!Task, which : {"agent", "grader"}]
  BY <1>1 DEF Job!StartBox, Good, Placed, AtTask, Job!Box
<1>4. JobTypes'
  BY <1>1, <1>2, <1>3, <1>9 DEF Job!StartBox, Job!Goes, Job!Box, Job!job, Job!run, JobTypes, Places, Over, Verdicts
<1>5. Good(j)'
  <2>1. Placed(jobStatus'[j], cancelled'[j], pc'[j], at'[j])
    BY <1>1, <1>2, <1>3 DEF Job!StartBox, Good, Placed, AtTask, Over, JobTypes, Job!Task
  <2>2. TasksGood(cancelled'[j], pc'[j], at'[j], tasks'[j], verdict'[j], outbox'[j])
    <3>1. /\ TasksGood(cancelled[j], pc[j], at[j], tasks[j], verdict[j], outbox[j])
          /\ at[j] \in 1..(EvalTasks + 1) /\ pc[j] \notin {"last", "ended"}
      BY <1>1 DEF Job!StartBox, Good, Placed, Over, JobTypes
    <3>2. /\ pc'[j] \notin {"last", "ended"} /\ (cancelled[j] => cancelled'[j])
          /\ outbox[j] \subseteq outbox'[j]
          /\ (verdict'[j] \in {"passed", "failed"} => pc'[j] = "result" /\ at[j] \in outbox'[j])
          /\ (pc'[j] \in {"start_grader", "grader"} => at[j] \in outbox'[j])
      BY <1>1, <1>2, <3>1 DEF Job!StartBox, TasksGood, Good, Placed
    <3>3. \A i \in Job!Task : tasks'[j][i] = tasks[j][i] \/
                          (i = at[j] /\ Unsettled(tasks'[j][i]))
      BY <1>2, <1>3
    <3> QED
      BY <1>2, <3>1, <3>2, <3>3, TasksStay
  <2>3. EventsGood(jobStatus'[j], tasks'[j], events'[j])
    <3>1. \A i \in Job!Task : tasks'[j][i].phase = "finished" <=> tasks[j][i].phase = "finished"
      BY <1>1, <1>2, <1>3 DEF Job!StartBox, Good, Unsettled
    <3>2. EventsGood(jobStatus[j], tasks[j], events[j]) /\ (jobStatus'[j] \notin Over <=> jobStatus[j] \notin Over)
      BY <1>1, <1>2 DEF Good
    <3> QED
      BY <1>2, <3>1, <3>2 DEF EventsGood, Once
  <2> QED
    BY <2>1, <2>2, <2>3 DEF Good
<1>6. Alone'
  BY <1>1, <1>2 DEF Job!StartBox, JobInv, Alone, Same, Over
<1>7. BoxesInv'
  <2> DEFINE n == Job!Box(j, "agent")
  <2>1. /\ boxes' = boxes \cup {n} /\ n.job = j /\ n.task = at[j] /\ n.which = "agent"
        /\ pc[j] = "start_agent" /\ \A b \in boxes : b.job \in EvalJobs
    BY <1>1 DEF Job!StartBox, Job!Box, JobTypes
  <2> HIDE DEF n
  <2>2. BoxGood(n, cancelled'[j], pc'[j], at'[j], outbox'[j])
    BY <1>1, <1>2, <2>1 DEF BoxGood, Good, TasksGood, JobTypes
  <2>3. ASSUME NEW b \in boxes, b.job = j
        PROVE  BoxGood(b, cancelled'[j], pc'[j], at'[j], outbox'[j]) /\ b.task # at[j]
    <3>1. BoxGood(b, cancelled[j], pc[j], at[j], outbox[j])
      BY <1>1, <2>3 DEF BoxesInv
    <3>2. b.which \in {"agent", "grader"}
      BY <1>1 DEF JobTypes
    <3> QED
      BY <1>1, <1>2, <2>1, <3>1, <3>2 DEF BoxGood
  <2>4. \A b \in boxes' : BoxGood(b, cancelled'[b.job], pc'[b.job], at'[b.job], outbox'[b.job])
    BY <1>1, <1>2, <2>1, <2>2, <2>3 DEF BoxesInv, Same
  <2>5. \A b, c \in boxes' : b.job = c.job /\ b.task = c.task => b = c
    BY <1>1, <2>1, <2>3 DEF BoxesInv
  <2> QED
    BY <2>4, <2>5 DEF BoxesInv
<1>8. ClientInv'
  <2>1. client' = client /\ (jobStatus[1] \in Over => jobStatus'[1] \in Over)
        /\ (jobStatus[1] # "none" => jobStatus'[1] # "none")
    BY <1>1, <1>2 DEF Job!StartBox, Good, Placed, Same, Over
  <2> QED
    BY <1>1, <1>2, <2>1, ClientStays DEF Job!StartBox, Good, Placed, Same, Over, Job!Event, EventRecord
<1> QED
  BY <1>2, <1>4, <1>5, <1>6, <1>7, <1>8, OthersStay DEF JobInv

LEMMA AgentUnstartedKeeps ==
  ASSUME JobsAssumption, JobInv, NEW j \in EvalJobs, Job!StartBox(j, "agent", "start_agent") /\ cancelled[j] PROVE JobInv'
<1> USE DEF JobsAssumption
<1>1. JobTypes /\ Good(j) /\ BoxesInv /\ ClientInv
  BY DEF JobInv
<1>2. /\ jobStatus'[j] = jobStatus[j] /\ cancelled'[j] = cancelled[j] /\ pc'[j] = "result" /\ at'[j] = at[j]
      /\ tasks'[j] = tasks[j] /\ verdict'[j] = verdict[j] /\ outbox'[j] = outbox[j]
      /\ events'[j] = events[j]
      /\ \A i \in EvalJobs \ {j} : Same(i)
  BY <1>1 DEF Job!StartBox, Job!Goes, Job!job, Job!run, JobTypes, Same, Over
<1>3. tasks[j] \in [Job!Task -> TaskRecord] /\ tasks'[j] = tasks[j]
  BY <1>1, <1>2 DEF JobTypes
<1>4. JobTypes'
  BY <1>1, <1>2, <1>3 DEF Job!StartBox, Job!Goes, Job!job, Job!run, JobTypes, Places, Over, Verdicts
<1>5. Good(j)'
  <2>1. Placed(jobStatus'[j], cancelled'[j], pc'[j], at'[j])
    BY <1>1, <1>2, <1>3 DEF Job!StartBox, Good, Placed, AtTask, Over, JobTypes, Job!Task
  <2>2. TasksGood(cancelled'[j], pc'[j], at'[j], tasks'[j], verdict'[j], outbox'[j])
    BY <1>1, <1>2 DEF Job!StartBox, Good, TasksGood, Passed
  <2>3. EventsGood(jobStatus'[j], tasks'[j], events'[j])
    <3>1. \A i \in Job!Task : tasks'[j][i].phase = "finished" <=> tasks[j][i].phase = "finished"
      BY <1>1, <1>2, <1>3 DEF Job!StartBox, Good, Unsettled
    <3>2. EventsGood(jobStatus[j], tasks[j], events[j]) /\ (jobStatus'[j] \notin Over <=> jobStatus[j] \notin Over)
      BY <1>1, <1>2 DEF Good
    <3> QED
      BY <1>2, <3>1, <3>2 DEF EventsGood, Once
  <2> QED
    BY <2>1, <2>2, <2>3 DEF Good
<1>6. Alone'
  BY <1>1, <1>2 DEF Job!StartBox, JobInv, Alone, Same, Over
<1>7. BoxesInv'
  <2>1. ASSUME NEW b \in boxes, b.job = j
        PROVE  BoxGood(b, cancelled'[j], pc'[j], at'[j], outbox'[j])
    BY <1>1, <1>2, <1>3, <2>1 DEF Job!StartBox, BoxesInv, BoxGood, Good, Placed, JobTypes, Job!Task
  <2>2. boxes' = boxes /\ \A b \in boxes : b.job \in EvalJobs
    BY <1>1 DEF Job!StartBox, JobTypes
  <2> QED
    BY <1>1, <1>2, <2>1, <2>2, BoxesStay DEF BoxesInv, Same
<1>8. ClientInv'
  <2>1. client' = client /\ (jobStatus[1] \in Over => jobStatus'[1] \in Over)
        /\ (jobStatus[1] # "none" => jobStatus'[1] # "none")
    BY <1>1, <1>2 DEF Job!StartBox, Good, Placed, Same, Over
  <2> QED
    BY <1>1, <1>2, <2>1, ClientStays DEF Job!StartBox, Good, Placed, Same, Over, Job!Event, EventRecord
<1> QED
  BY <1>2, <1>4, <1>5, <1>6, <1>7, <1>8, OthersStay DEF JobInv

LEMMA StartGraderKeeps ==
  ASSUME JobsAssumption, JobInv, NEW j \in EvalJobs, Job!StartBox(j, "grader", "start_grader"), ~cancelled[j] PROVE JobInv'
<1> USE DEF JobsAssumption
<1>1. JobTypes /\ Good(j) /\ BoxesInv /\ ClientInv
  BY DEF JobInv
<1>2. /\ jobStatus'[j] = jobStatus[j] /\ cancelled'[j] = cancelled[j] /\ pc'[j] = "grader" /\ at'[j] = at[j]
      /\ tasks'[j] = tasks[j] /\ verdict'[j] = verdict[j] /\ outbox'[j] = outbox[j]
      /\ events'[j] = events[j]
      /\ \A i \in EvalJobs \ {j} : Same(i)
  BY <1>1 DEF Job!StartBox, Job!Goes, Job!Box, Job!job, Job!run, JobTypes, Same, Over
<1>3. tasks[j] \in [Job!Task -> TaskRecord] /\ tasks'[j] = tasks[j]
  BY <1>1, <1>2 DEF JobTypes
<1>9. Job!Box(j, "agent") \in [job : EvalJobs, task : Job!Task, which : {"agent", "grader"}]
      /\ Job!Box(j, "grader") \in [job : EvalJobs, task : Job!Task, which : {"agent", "grader"}]
  BY <1>1 DEF Job!StartBox, Good, Placed, AtTask, Job!Box
<1>4. JobTypes'
  BY <1>1, <1>2, <1>3, <1>9 DEF Job!StartBox, Job!Goes, Job!Box, Job!job, Job!run, JobTypes, Places, Over, Verdicts
<1>5. Good(j)'
  <2>1. Placed(jobStatus'[j], cancelled'[j], pc'[j], at'[j])
    BY <1>1, <1>2, <1>3 DEF Job!StartBox, Good, Placed, AtTask, Over, JobTypes, Job!Task
  <2>2. TasksGood(cancelled'[j], pc'[j], at'[j], tasks'[j], verdict'[j], outbox'[j])
    <3>1. /\ TasksGood(cancelled[j], pc[j], at[j], tasks[j], verdict[j], outbox[j])
          /\ at[j] \in 1..(EvalTasks + 1) /\ pc[j] \notin {"last", "ended"}
      BY <1>1 DEF Job!StartBox, Good, Placed, Over, JobTypes
    <3>2. /\ pc'[j] \notin {"last", "ended"} /\ (cancelled[j] => cancelled'[j])
          /\ outbox[j] \subseteq outbox'[j]
          /\ (verdict'[j] \in {"passed", "failed"} => pc'[j] = "result" /\ at[j] \in outbox'[j])
          /\ (pc'[j] \in {"start_grader", "grader"} => at[j] \in outbox'[j])
      BY <1>1, <1>2, <3>1 DEF Job!StartBox, TasksGood, Good, Placed
    <3>3. \A i \in Job!Task : tasks'[j][i] = tasks[j][i] \/
                          (i = at[j] /\ Unsettled(tasks'[j][i]))
      BY <1>2, <1>3
    <3> QED
      BY <1>2, <3>1, <3>2, <3>3, TasksStay
  <2>3. EventsGood(jobStatus'[j], tasks'[j], events'[j])
    <3>1. \A i \in Job!Task : tasks'[j][i].phase = "finished" <=> tasks[j][i].phase = "finished"
      BY <1>1, <1>2, <1>3 DEF Job!StartBox, Good, Unsettled
    <3>2. EventsGood(jobStatus[j], tasks[j], events[j]) /\ (jobStatus'[j] \notin Over <=> jobStatus[j] \notin Over)
      BY <1>1, <1>2 DEF Good
    <3> QED
      BY <1>2, <3>1, <3>2 DEF EventsGood, Once
  <2> QED
    BY <2>1, <2>2, <2>3 DEF Good
<1>6. Alone'
  BY <1>1, <1>2 DEF Job!StartBox, JobInv, Alone, Same, Over
<1>7. BoxesInv'
  <2> DEFINE n == Job!Box(j, "grader")
  <2>1. /\ boxes' = boxes \cup {n} /\ n.job = j /\ n.task = at[j] /\ n.which = "grader"
        /\ pc[j] = "start_grader" /\ \A b \in boxes : b.job \in EvalJobs
    BY <1>1 DEF Job!StartBox, Job!Box, JobTypes
  <2> HIDE DEF n
  <2>2. BoxGood(n, cancelled'[j], pc'[j], at'[j], outbox'[j])
    BY <1>1, <1>2, <2>1 DEF BoxGood, Good, TasksGood, JobTypes
  <2>3. ASSUME NEW b \in boxes, b.job = j
        PROVE  BoxGood(b, cancelled'[j], pc'[j], at'[j], outbox'[j]) /\ b.task # at[j]
    <3>1. BoxGood(b, cancelled[j], pc[j], at[j], outbox[j])
      BY <1>1, <2>3 DEF BoxesInv
    <3>2. b.which \in {"agent", "grader"}
      BY <1>1 DEF JobTypes
    <3> QED
      BY <1>1, <1>2, <2>1, <3>1, <3>2 DEF BoxGood
  <2>4. \A b \in boxes' : BoxGood(b, cancelled'[b.job], pc'[b.job], at'[b.job], outbox'[b.job])
    BY <1>1, <1>2, <2>1, <2>2, <2>3 DEF BoxesInv, Same
  <2>5. \A b, c \in boxes' : b.job = c.job /\ b.task = c.task => b = c
    BY <1>1, <2>1, <2>3 DEF BoxesInv
  <2> QED
    BY <2>4, <2>5 DEF BoxesInv
<1>8. ClientInv'
  <2>1. client' = client /\ (jobStatus[1] \in Over => jobStatus'[1] \in Over)
        /\ (jobStatus[1] # "none" => jobStatus'[1] # "none")
    BY <1>1, <1>2 DEF Job!StartBox, Good, Placed, Same, Over
  <2> QED
    BY <1>1, <1>2, <2>1, ClientStays DEF Job!StartBox, Good, Placed, Same, Over, Job!Event, EventRecord
<1> QED
  BY <1>2, <1>4, <1>5, <1>6, <1>7, <1>8, OthersStay DEF JobInv

LEMMA GraderUnstartedKeeps ==
  ASSUME JobsAssumption, JobInv, NEW j \in EvalJobs, Job!StartBox(j, "grader", "start_grader") /\ cancelled[j] PROVE JobInv'
<1> USE DEF JobsAssumption
<1>1. JobTypes /\ Good(j) /\ BoxesInv /\ ClientInv
  BY DEF JobInv
<1>2. /\ jobStatus'[j] = jobStatus[j] /\ cancelled'[j] = cancelled[j] /\ pc'[j] = "result" /\ at'[j] = at[j]
      /\ tasks'[j] = tasks[j] /\ verdict'[j] = verdict[j] /\ outbox'[j] = outbox[j]
      /\ events'[j] = events[j]
      /\ \A i \in EvalJobs \ {j} : Same(i)
  BY <1>1 DEF Job!StartBox, Job!Goes, Job!job, Job!run, JobTypes, Same, Over
<1>3. tasks[j] \in [Job!Task -> TaskRecord] /\ tasks'[j] = tasks[j]
  BY <1>1, <1>2 DEF JobTypes
<1>4. JobTypes'
  BY <1>1, <1>2, <1>3 DEF Job!StartBox, Job!Goes, Job!job, Job!run, JobTypes, Places, Over, Verdicts
<1>5. Good(j)'
  <2>1. Placed(jobStatus'[j], cancelled'[j], pc'[j], at'[j])
    BY <1>1, <1>2, <1>3 DEF Job!StartBox, Good, Placed, AtTask, Over, JobTypes, Job!Task
  <2>2. TasksGood(cancelled'[j], pc'[j], at'[j], tasks'[j], verdict'[j], outbox'[j])
    BY <1>1, <1>2 DEF Job!StartBox, Good, TasksGood, Passed
  <2>3. EventsGood(jobStatus'[j], tasks'[j], events'[j])
    <3>1. \A i \in Job!Task : tasks'[j][i].phase = "finished" <=> tasks[j][i].phase = "finished"
      BY <1>1, <1>2, <1>3 DEF Job!StartBox, Good, Unsettled
    <3>2. EventsGood(jobStatus[j], tasks[j], events[j]) /\ (jobStatus'[j] \notin Over <=> jobStatus[j] \notin Over)
      BY <1>1, <1>2 DEF Good
    <3> QED
      BY <1>2, <3>1, <3>2 DEF EventsGood, Once
  <2> QED
    BY <2>1, <2>2, <2>3 DEF Good
<1>6. Alone'
  BY <1>1, <1>2 DEF Job!StartBox, JobInv, Alone, Same, Over
<1>7. BoxesInv'
  <2>1. ASSUME NEW b \in boxes, b.job = j
        PROVE  BoxGood(b, cancelled'[j], pc'[j], at'[j], outbox'[j])
    BY <1>1, <1>2, <1>3, <2>1 DEF Job!StartBox, BoxesInv, BoxGood, Good, Placed, JobTypes, Job!Task
  <2>2. boxes' = boxes /\ \A b \in boxes : b.job \in EvalJobs
    BY <1>1 DEF Job!StartBox, JobTypes
  <2> QED
    BY <1>1, <1>2, <2>1, <2>2, BoxesStay DEF BoxesInv, Same
<1>8. ClientInv'
  <2>1. client' = client /\ (jobStatus[1] \in Over => jobStatus'[1] \in Over)
        /\ (jobStatus[1] # "none" => jobStatus'[1] # "none")
    BY <1>1, <1>2 DEF Job!StartBox, Good, Placed, Same, Over
  <2> QED
    BY <1>1, <1>2, <2>1, ClientStays DEF Job!StartBox, Good, Placed, Same, Over, Job!Event, EventRecord
<1> QED
  BY <1>2, <1>4, <1>5, <1>6, <1>7, <1>8, OthersStay DEF JobInv

LEMMA AgentExitsKeeps ==
  ASSUME JobsAssumption, JobInv, NEW j \in EvalJobs, Job!AgentExits(j) PROVE JobInv'
<1> USE DEF JobsAssumption
<1>1. JobTypes /\ Good(j) /\ BoxesInv /\ ClientInv
  BY DEF JobInv
<1>2. /\ jobStatus'[j] = jobStatus[j] /\ cancelled'[j] = cancelled[j] /\ pc'[j] \in {"submitted", "result"} /\ at'[j] = at[j]
      /\ tasks'[j] = tasks[j] /\ verdict'[j] \in {"submitted", "errored"} /\ outbox'[j] \in {outbox[j], outbox[j] \cup {at[j]}}
      /\ events'[j] = events[j]
      /\ \A i \in EvalJobs \ {j} : Same(i)
  BY <1>1 DEF Job!AgentExits, Job!Goes, Job!job, Job!run, JobTypes, Same, Over
<1>3. tasks[j] \in [Job!Task -> TaskRecord] /\ tasks'[j] = tasks[j]
  BY <1>1, <1>2 DEF JobTypes
<1>9. at[j] \in Job!Task
  BY <1>1 DEF Job!AgentExits, Good, Placed, AtTask
<1>4. JobTypes'
  <2>1. outbox' \in [EvalJobs -> SUBSET Job!Task] /\ verdict' \in [EvalJobs -> Verdicts]
    BY <1>1, <1>9 DEF Job!AgentExits, JobTypes, Verdicts
  <2>2. /\ jobStatus' = jobStatus /\ cancelled' = cancelled /\ announcing' = announcing
        /\ pc' \in [EvalJobs -> Places] /\ at' = at /\ tasks' = tasks
        /\ boxes' \subseteq boxes /\ DOMAIN events' = EvalJobs /\ client' = client
    BY <1>1 DEF Job!AgentExits, Job!Goes, Job!job, Job!run, JobTypes, Places
  <2> QED
    BY <1>1, <2>1, <2>2 DEF JobTypes
<1>5. Good(j)'
  <2>1. Placed(jobStatus'[j], cancelled'[j], pc'[j], at'[j])
    BY <1>1, <1>2, <1>3 DEF Job!AgentExits, Good, Placed, AtTask, Over, JobTypes, Job!Task
  <2>2. TasksGood(cancelled'[j], pc'[j], at'[j], tasks'[j], verdict'[j], outbox'[j])
    <3>1. /\ TasksGood(cancelled[j], pc[j], at[j], tasks[j], verdict[j], outbox[j])
          /\ at[j] \in 1..(EvalTasks + 1) /\ pc[j] \notin {"last", "ended"}
      BY <1>1 DEF Job!AgentExits, Good, Placed, Over, JobTypes
    <3>2. /\ pc'[j] \notin {"last", "ended"} /\ (cancelled[j] => cancelled'[j])
          /\ outbox[j] \subseteq outbox'[j]
          /\ (verdict'[j] \in {"passed", "failed"} => pc'[j] = "result" /\ at[j] \in outbox'[j])
          /\ (pc'[j] \in {"start_grader", "grader"} => at[j] \in outbox'[j])
      BY <1>1, <1>2, <3>1 DEF Job!AgentExits, TasksGood, Good, Placed
    <3>3. \A i \in Job!Task : tasks'[j][i] = tasks[j][i] \/
                          (i = at[j] /\ Unsettled(tasks'[j][i]))
      BY <1>2, <1>3
    <3> QED
      BY <1>2, <3>1, <3>2, <3>3, TasksStay
  <2>3. EventsGood(jobStatus'[j], tasks'[j], events'[j])
    <3>1. \A i \in Job!Task : tasks'[j][i].phase = "finished" <=> tasks[j][i].phase = "finished"
      BY <1>1, <1>2, <1>3 DEF Job!AgentExits, Good, Unsettled
    <3>2. EventsGood(jobStatus[j], tasks[j], events[j]) /\ (jobStatus'[j] \notin Over <=> jobStatus[j] \notin Over)
      BY <1>1, <1>2 DEF Good
    <3> QED
      BY <1>2, <3>1, <3>2 DEF EventsGood, Once
  <2> QED
    BY <2>1, <2>2, <2>3 DEF Good
<1>6. Alone'
  BY <1>1, <1>2 DEF Job!AgentExits, JobInv, Alone, Same, Over
<1>7. BoxesInv'
  <2>1. boxes' \subseteq boxes /\ \A b \in boxes : b.job \in EvalJobs
    BY <1>1 DEF Job!AgentExits, JobTypes
  <2>2. ASSUME NEW b \in boxes', b.job = j
        PROVE  BoxGood(b, cancelled'[j], pc'[j], at'[j], outbox'[j])
    <3>1. b = [job |-> b.job, task |-> b.task, which |-> b.which] /\ b.task \in Job!Task
      BY <1>1, <2>1 DEF JobTypes
    <3>2. BoxGood(b, cancelled[j], pc[j], at[j], outbox[j])
      BY <1>1, <2>1, <2>2 DEF BoxesInv
    <3>3. b.job = j /\ b.task = at[j] => b.which # "agent"
      BY <2>2, <3>1 DEF Job!AgentExits, Job!Box
    <3> QED
      BY <1>1, <1>2, <2>2, <3>1, <3>2, <3>3 DEF Job!AgentExits, BoxGood, JobTypes, Job!Task
  <2> QED
    BY <1>1, <1>2, <2>1, <2>2, BoxesStay DEF BoxesInv, Same
<1>8. ClientInv'
  <2>1. client' = client /\ (jobStatus[1] \in Over => jobStatus'[1] \in Over)
        /\ (jobStatus[1] # "none" => jobStatus'[1] # "none")
    BY <1>1, <1>2 DEF Job!AgentExits, Good, Placed, Same, Over
  <2> QED
    BY <1>1, <1>2, <2>1, ClientStays DEF Job!AgentExits, Good, Placed, Same, Over, Job!Event, EventRecord
<1> QED
  BY <1>2, <1>4, <1>5, <1>6, <1>7, <1>8, OthersStay DEF JobInv

LEMMA AgentKilledKeeps ==
  ASSUME JobsAssumption, JobInv, NEW j \in EvalJobs, Job!BoxKilled(j, "agent") PROVE JobInv'
<1> USE DEF JobsAssumption
<1>1. JobTypes /\ Good(j) /\ BoxesInv /\ ClientInv
  BY DEF JobInv
<1>2. /\ jobStatus'[j] = jobStatus[j] /\ cancelled'[j] = cancelled[j] /\ pc'[j] = "result" /\ at'[j] = at[j]
      /\ tasks'[j] = tasks[j] /\ verdict'[j] = verdict[j] /\ outbox'[j] = outbox[j]
      /\ events'[j] = events[j]
      /\ \A i \in EvalJobs \ {j} : Same(i)
  BY <1>1 DEF Job!BoxKilled, Job!Goes, Job!job, Job!run, JobTypes, Same, Over
<1>3. tasks[j] \in [Job!Task -> TaskRecord] /\ tasks'[j] = tasks[j]
  BY <1>1, <1>2 DEF JobTypes
<1>4. JobTypes'
  BY <1>1, <1>2, <1>3 DEF Job!BoxKilled, Job!Goes, Job!job, Job!run, JobTypes, Places, Over, Verdicts
<1>5. Good(j)'
  <2>1. Placed(jobStatus'[j], cancelled'[j], pc'[j], at'[j])
    BY <1>1, <1>2, <1>3 DEF Job!BoxKilled, Good, Placed, AtTask, Over, JobTypes, Job!Task
  <2>2. TasksGood(cancelled'[j], pc'[j], at'[j], tasks'[j], verdict'[j], outbox'[j])
    <3>1. /\ TasksGood(cancelled[j], pc[j], at[j], tasks[j], verdict[j], outbox[j])
          /\ at[j] \in 1..(EvalTasks + 1) /\ pc[j] \notin {"last", "ended"}
      BY <1>1 DEF Job!BoxKilled, Good, Placed, Over, JobTypes
    <3>2. /\ pc'[j] \notin {"last", "ended"} /\ (cancelled[j] => cancelled'[j])
          /\ outbox[j] \subseteq outbox'[j]
          /\ (verdict'[j] \in {"passed", "failed"} => pc'[j] = "result" /\ at[j] \in outbox'[j])
          /\ (pc'[j] \in {"start_grader", "grader"} => at[j] \in outbox'[j])
      BY <1>1, <1>2, <3>1 DEF Job!BoxKilled, TasksGood, Good, Placed
    <3>3. \A i \in Job!Task : tasks'[j][i] = tasks[j][i] \/
                          (i = at[j] /\ Unsettled(tasks'[j][i]))
      BY <1>2, <1>3
    <3> QED
      BY <1>2, <3>1, <3>2, <3>3, TasksStay
  <2>3. EventsGood(jobStatus'[j], tasks'[j], events'[j])
    <3>1. \A i \in Job!Task : tasks'[j][i].phase = "finished" <=> tasks[j][i].phase = "finished"
      BY <1>1, <1>2, <1>3 DEF Job!BoxKilled, Good, Unsettled
    <3>2. EventsGood(jobStatus[j], tasks[j], events[j]) /\ (jobStatus'[j] \notin Over <=> jobStatus[j] \notin Over)
      BY <1>1, <1>2 DEF Good
    <3> QED
      BY <1>2, <3>1, <3>2 DEF EventsGood, Once
  <2> QED
    BY <2>1, <2>2, <2>3 DEF Good
<1>6. Alone'
  BY <1>1, <1>2 DEF Job!BoxKilled, JobInv, Alone, Same, Over
<1>7. BoxesInv'
  <2>1. boxes' \subseteq boxes /\ \A b \in boxes : b.job \in EvalJobs
    BY <1>1 DEF Job!BoxKilled, JobTypes
  <2>2. ASSUME NEW b \in boxes', b.job = j
        PROVE  BoxGood(b, cancelled'[j], pc'[j], at'[j], outbox'[j])
    <3>1. b = [job |-> b.job, task |-> b.task, which |-> b.which] /\ b.task \in Job!Task
      BY <1>1, <2>1 DEF JobTypes
    <3>2. BoxGood(b, cancelled[j], pc[j], at[j], outbox[j])
      BY <1>1, <2>1, <2>2 DEF BoxesInv
    <3>3. TRUE
      BY <2>2, <3>1 DEF Job!BoxKilled, Job!Box
    <3> QED
      BY <1>1, <1>2, <2>2, <3>1, <3>2, <3>3 DEF Job!BoxKilled, BoxGood, JobTypes, Job!Task
  <2> QED
    BY <1>1, <1>2, <2>1, <2>2, BoxesStay DEF BoxesInv, Same
<1>8. ClientInv'
  <2>1. client' = client /\ (jobStatus[1] \in Over => jobStatus'[1] \in Over)
        /\ (jobStatus[1] # "none" => jobStatus'[1] # "none")
    BY <1>1, <1>2 DEF Job!BoxKilled, Good, Placed, Same, Over
  <2> QED
    BY <1>1, <1>2, <2>1, ClientStays DEF Job!BoxKilled, Good, Placed, Same, Over, Job!Event, EventRecord
<1> QED
  BY <1>2, <1>4, <1>5, <1>6, <1>7, <1>8, OthersStay DEF JobInv

LEMMA GraderKilledKeeps ==
  ASSUME JobsAssumption, JobInv, NEW j \in EvalJobs, Job!BoxKilled(j, "grader") PROVE JobInv'
<1> USE DEF JobsAssumption
<1>1. JobTypes /\ Good(j) /\ BoxesInv /\ ClientInv
  BY DEF JobInv
<1>2. /\ jobStatus'[j] = jobStatus[j] /\ cancelled'[j] = cancelled[j] /\ pc'[j] = "result" /\ at'[j] = at[j]
      /\ tasks'[j] = tasks[j] /\ verdict'[j] = verdict[j] /\ outbox'[j] = outbox[j]
      /\ events'[j] = events[j]
      /\ \A i \in EvalJobs \ {j} : Same(i)
  BY <1>1 DEF Job!BoxKilled, Job!Goes, Job!job, Job!run, JobTypes, Same, Over
<1>3. tasks[j] \in [Job!Task -> TaskRecord] /\ tasks'[j] = tasks[j]
  BY <1>1, <1>2 DEF JobTypes
<1>4. JobTypes'
  BY <1>1, <1>2, <1>3 DEF Job!BoxKilled, Job!Goes, Job!job, Job!run, JobTypes, Places, Over, Verdicts
<1>5. Good(j)'
  <2>1. Placed(jobStatus'[j], cancelled'[j], pc'[j], at'[j])
    BY <1>1, <1>2, <1>3 DEF Job!BoxKilled, Good, Placed, AtTask, Over, JobTypes, Job!Task
  <2>2. TasksGood(cancelled'[j], pc'[j], at'[j], tasks'[j], verdict'[j], outbox'[j])
    <3>1. /\ TasksGood(cancelled[j], pc[j], at[j], tasks[j], verdict[j], outbox[j])
          /\ at[j] \in 1..(EvalTasks + 1) /\ pc[j] \notin {"last", "ended"}
      BY <1>1 DEF Job!BoxKilled, Good, Placed, Over, JobTypes
    <3>2. /\ pc'[j] \notin {"last", "ended"} /\ (cancelled[j] => cancelled'[j])
          /\ outbox[j] \subseteq outbox'[j]
          /\ (verdict'[j] \in {"passed", "failed"} => pc'[j] = "result" /\ at[j] \in outbox'[j])
          /\ (pc'[j] \in {"start_grader", "grader"} => at[j] \in outbox'[j])
      BY <1>1, <1>2, <3>1 DEF Job!BoxKilled, TasksGood, Good, Placed
    <3>3. \A i \in Job!Task : tasks'[j][i] = tasks[j][i] \/
                          (i = at[j] /\ Unsettled(tasks'[j][i]))
      BY <1>2, <1>3
    <3> QED
      BY <1>2, <3>1, <3>2, <3>3, TasksStay
  <2>3. EventsGood(jobStatus'[j], tasks'[j], events'[j])
    <3>1. \A i \in Job!Task : tasks'[j][i].phase = "finished" <=> tasks[j][i].phase = "finished"
      BY <1>1, <1>2, <1>3 DEF Job!BoxKilled, Good, Unsettled
    <3>2. EventsGood(jobStatus[j], tasks[j], events[j]) /\ (jobStatus'[j] \notin Over <=> jobStatus[j] \notin Over)
      BY <1>1, <1>2 DEF Good
    <3> QED
      BY <1>2, <3>1, <3>2 DEF EventsGood, Once
  <2> QED
    BY <2>1, <2>2, <2>3 DEF Good
<1>6. Alone'
  BY <1>1, <1>2 DEF Job!BoxKilled, JobInv, Alone, Same, Over
<1>7. BoxesInv'
  <2>1. boxes' \subseteq boxes /\ \A b \in boxes : b.job \in EvalJobs
    BY <1>1 DEF Job!BoxKilled, JobTypes
  <2>2. ASSUME NEW b \in boxes', b.job = j
        PROVE  BoxGood(b, cancelled'[j], pc'[j], at'[j], outbox'[j])
    <3>1. b = [job |-> b.job, task |-> b.task, which |-> b.which] /\ b.task \in Job!Task
      BY <1>1, <2>1 DEF JobTypes
    <3>2. BoxGood(b, cancelled[j], pc[j], at[j], outbox[j])
      BY <1>1, <2>1, <2>2 DEF BoxesInv
    <3>3. TRUE
      BY <2>2, <3>1 DEF Job!BoxKilled, Job!Box
    <3> QED
      BY <1>1, <1>2, <2>2, <3>1, <3>2, <3>3 DEF Job!BoxKilled, BoxGood, JobTypes, Job!Task
  <2> QED
    BY <1>1, <1>2, <2>1, <2>2, BoxesStay DEF BoxesInv, Same
<1>8. ClientInv'
  <2>1. client' = client /\ (jobStatus[1] \in Over => jobStatus'[1] \in Over)
        /\ (jobStatus[1] # "none" => jobStatus'[1] # "none")
    BY <1>1, <1>2 DEF Job!BoxKilled, Good, Placed, Same, Over
  <2> QED
    BY <1>1, <1>2, <2>1, ClientStays DEF Job!BoxKilled, Good, Placed, Same, Over, Job!Event, EventRecord
<1> QED
  BY <1>2, <1>4, <1>5, <1>6, <1>7, <1>8, OthersStay DEF JobInv

LEMMA UngradedKeeps ==
  ASSUME JobsAssumption, JobInv, NEW j \in EvalJobs, Job!Grade(j), cancelled[j] \/ at[j] \notin outbox[j] PROVE JobInv'
<1> USE DEF JobsAssumption
<1>1. JobTypes /\ Good(j) /\ BoxesInv /\ ClientInv
  BY DEF JobInv
<1>2. /\ jobStatus'[j] = jobStatus[j] /\ cancelled'[j] = cancelled[j] /\ pc'[j] = "result" /\ at'[j] = at[j]
      /\ tasks'[j] = tasks[j] /\ verdict'[j] = verdict[j] /\ outbox'[j] = outbox[j]
      /\ events'[j] = events[j]
      /\ \A i \in EvalJobs \ {j} : Same(i)
  BY <1>1 DEF Job!Grade, Job!Goes, Job!job, Job!run, JobTypes, Same, Over
<1>3. tasks[j] \in [Job!Task -> TaskRecord] /\ tasks'[j] = tasks[j]
  BY <1>1, <1>2 DEF JobTypes
<1>4. JobTypes'
  BY <1>1, <1>2, <1>3 DEF Job!Grade, Job!Goes, Job!job, Job!run, JobTypes, Places, Over, Verdicts
<1>5. Good(j)'
  <2>1. Placed(jobStatus'[j], cancelled'[j], pc'[j], at'[j])
    BY <1>1, <1>2, <1>3 DEF Job!Grade, Good, Placed, AtTask, Over, JobTypes, Job!Task
  <2>2. TasksGood(cancelled'[j], pc'[j], at'[j], tasks'[j], verdict'[j], outbox'[j])
    <3>1. /\ TasksGood(cancelled[j], pc[j], at[j], tasks[j], verdict[j], outbox[j])
          /\ at[j] \in 1..(EvalTasks + 1) /\ pc[j] \notin {"last", "ended"}
      BY <1>1 DEF Job!Grade, Good, Placed, Over, JobTypes
    <3>2. /\ pc'[j] \notin {"last", "ended"} /\ (cancelled[j] => cancelled'[j])
          /\ outbox[j] \subseteq outbox'[j]
          /\ (verdict'[j] \in {"passed", "failed"} => pc'[j] = "result" /\ at[j] \in outbox'[j])
          /\ (pc'[j] \in {"start_grader", "grader"} => at[j] \in outbox'[j])
      BY <1>1, <1>2, <3>1 DEF Job!Grade, TasksGood, Good, Placed
    <3>3. \A i \in Job!Task : tasks'[j][i] = tasks[j][i] \/
                          (i = at[j] /\ Unsettled(tasks'[j][i]))
      BY <1>2, <1>3
    <3> QED
      BY <1>2, <3>1, <3>2, <3>3, TasksStay
  <2>3. EventsGood(jobStatus'[j], tasks'[j], events'[j])
    <3>1. \A i \in Job!Task : tasks'[j][i].phase = "finished" <=> tasks[j][i].phase = "finished"
      BY <1>1, <1>2, <1>3 DEF Job!Grade, Good, Unsettled
    <3>2. EventsGood(jobStatus[j], tasks[j], events[j]) /\ (jobStatus'[j] \notin Over <=> jobStatus[j] \notin Over)
      BY <1>1, <1>2 DEF Good
    <3> QED
      BY <1>2, <3>1, <3>2 DEF EventsGood, Once
  <2> QED
    BY <2>1, <2>2, <2>3 DEF Good
<1>6. Alone'
  BY <1>1, <1>2 DEF Job!Grade, JobInv, Alone, Same, Over
<1>7. BoxesInv'
  <2>1. ASSUME NEW b \in boxes, b.job = j
        PROVE  BoxGood(b, cancelled'[j], pc'[j], at'[j], outbox'[j])
    BY <1>1, <1>2, <1>3, <2>1 DEF Job!Grade, BoxesInv, BoxGood, Good, Placed, JobTypes, Job!Task
  <2>2. boxes' = boxes /\ \A b \in boxes : b.job \in EvalJobs
    BY <1>1 DEF Job!Grade, JobTypes
  <2> QED
    BY <1>1, <1>2, <2>1, <2>2, BoxesStay DEF BoxesInv, Same
<1>8. ClientInv'
  <2>1. client' = client /\ (jobStatus[1] \in Over => jobStatus'[1] \in Over)
        /\ (jobStatus[1] # "none" => jobStatus'[1] # "none")
    BY <1>1, <1>2 DEF Job!Grade, Good, Placed, Same, Over
  <2> QED
    BY <1>1, <1>2, <2>1, ClientStays DEF Job!Grade, Good, Placed, Same, Over, Job!Event, EventRecord
<1> QED
  BY <1>2, <1>4, <1>5, <1>6, <1>7, <1>8, OthersStay DEF JobInv

LEMMA GradeKeeps ==
  ASSUME JobsAssumption, JobInv, NEW j \in EvalJobs, Job!Grade(j), ~cancelled[j], at[j] \in outbox[j] PROVE JobInv'
<1> USE DEF JobsAssumption
<1>1. JobTypes /\ Good(j) /\ BoxesInv /\ ClientInv
  BY DEF JobInv
<1>2. /\ jobStatus'[j] = jobStatus[j] /\ cancelled'[j] = cancelled[j] /\ pc'[j] = "start_grader" /\ at'[j] = at[j]
      /\ tasks'[j] = Phased(tasks[j], at[j], "grading") /\ verdict'[j] = verdict[j] /\ outbox'[j] = outbox[j]
      /\ events'[j] = Kept(events[j], Job!Event("phase", at[j]))
      /\ \A i \in EvalJobs \ {j} : Same(i)
  BY <1>1 DEF Job!Grade, Job!Goes, Job!Phase, Job!Emit, Kept, Job!job, Job!run, JobTypes, Same, Over, Phased
<1>3. /\ at[j] \in Job!Task /\ tasks[j] \in [Job!Task -> TaskRecord]
      /\ tasks'[j] \in [Job!Task -> TaskRecord] /\ tasks'[j][at[j]].phase = "grading"
      /\ tasks'[j][at[j]].outcome = tasks[j][at[j]].outcome
      /\ \A i \in Job!Task \ {at[j]} : tasks'[j][i] = tasks[j][i]
  <2>1. at[j] \in Job!Task /\ tasks[j] \in [Job!Task -> TaskRecord]
    BY <1>1 DEF Job!Grade, JobTypes, Good, Placed, AtTask, Job!Task
  <2> QED
    BY <1>2, <2>1, PhaseIs
<1>10. tasks' = [tasks EXCEPT ![j] = Phased(tasks[j], at[j], "grading")]
  BY <1>3 DEF Job!Grade, Job!Goes, Job!Phase, Job!Emit, Kept, Phased
<1>11. Unsettled(tasks[j][at[j]]) /\ EventsGood(jobStatus[j], tasks[j], events[j])
  <2>1. /\ TasksGood(cancelled[j], pc[j], at[j], tasks[j], verdict[j], outbox[j])
        /\ pc[j] \notin {"last", "ended"}
    BY <1>1 DEF Job!Grade, Good
  <2> QED
    BY <1>1, <1>3, <2>1, UnderWay DEF Good
<1>12. Unsettled(tasks'[j][at[j]]) \/ (pc[j] = "task" /\ cancelled[j])
  BY <1>3, <1>11 DEF Unsettled
<1>13. \A i \in Job!Task : tasks'[j][i].phase = "finished" <=> tasks[j][i].phase = "finished"
  <2>1. tasks'[j][at[j]].phase # "finished" /\ tasks[j][at[j]].phase # "finished"
    BY <1>3, <1>11 DEF Unsettled
  <2> QED
    BY <1>3, <2>1
<1>4. JobTypes'
  <2>1. tasks' \in [EvalJobs -> [Job!Task -> TaskRecord]]
    BY <1>1, <1>3, <1>10 DEF JobTypes
  <2>2. /\ jobStatus' = jobStatus /\ cancelled' = cancelled /\ announcing' = announcing
        /\ pc' \in [EvalJobs -> Places] /\ at' \in [EvalJobs -> 1..(EvalTasks + 1)]
        /\ verdict' \in [EvalJobs -> Verdicts] /\ outbox' = outbox /\ boxes' = boxes
        /\ DOMAIN events' = EvalJobs /\ client' = client
    BY <1>1, <1>3 DEF Job!Grade, Job!Goes, Job!Emit, Job!job, Job!run, JobTypes, Places, Verdicts, Job!Task
  <2> QED
    BY <1>1, <2>1, <2>2 DEF JobTypes
<1>5. Good(j)'
  <2>1. Placed(jobStatus'[j], cancelled'[j], pc'[j], at'[j])
    BY <1>1, <1>2, <1>3 DEF Job!Grade, Good, Placed, AtTask, Over, JobTypes, Job!Task
  <2>2. TasksGood(cancelled'[j], pc'[j], at'[j], tasks'[j], verdict'[j], outbox'[j])
    <3>1. /\ TasksGood(cancelled[j], pc[j], at[j], tasks[j], verdict[j], outbox[j])
          /\ at[j] \in 1..(EvalTasks + 1) /\ pc[j] \notin {"last", "ended"}
      BY <1>1 DEF Job!Grade, Good, Placed, Over, JobTypes
    <3>2. /\ pc'[j] \notin {"last", "ended"} /\ (cancelled[j] => cancelled'[j])
          /\ outbox[j] \subseteq outbox'[j]
          /\ (verdict'[j] \in {"passed", "failed"} => pc'[j] = "result" /\ at[j] \in outbox'[j])
          /\ (pc'[j] \in {"start_grader", "grader"} => at[j] \in outbox'[j])
      BY <1>1, <1>2, <3>1 DEF Job!Grade, TasksGood, Good, Placed
    <3>3. \A i \in Job!Task : tasks'[j][i] = tasks[j][i] \/
                          (i = at[j] /\ Unsettled(tasks'[j][i]))
      BY <1>2, <1>3, <1>12 DEF Job!Grade
    <3> QED
      BY <1>2, <3>1, <3>2, <3>3, TasksStay
  <2>3. EventsGood(jobStatus'[j], tasks'[j], events'[j])
    <3>1. /\ Job!Event("phase", at[j]) \in EventRecord /\ EventsGood(jobStatus[j], tasks[j], events[j])
          /\ \A i \in Job!Task : tasks'[j][i].phase = "finished" <=> tasks[j][i].phase = "finished"
      BY <1>1, <1>2, <1>3, <1>13 DEF Job!Event, EventRecord, Good, Job!Task, Unsettled, Job!Grade
    <3>2. jobStatus'[j] \notin Over => jobStatus[j] \notin Over
      BY <1>1, <1>2 DEF Job!Grade, Good, Placed, Over
    <3> QED
      BY <1>2, <1>3, <3>1, <3>2, EventsStayGood DEF Job!Event
  <2> QED
    BY <2>1, <2>2, <2>3 DEF Good
<1>6. Alone'
  BY <1>1, <1>2 DEF Job!Grade, JobInv, Alone, Same, Over
<1>7. BoxesInv'
  <2>1. ASSUME NEW b \in boxes, b.job = j
        PROVE  BoxGood(b, cancelled'[j], pc'[j], at'[j], outbox'[j])
    BY <1>1, <1>2, <1>3, <2>1 DEF Job!Grade, BoxesInv, BoxGood, Good, Placed, JobTypes, Job!Task
  <2>2. boxes' = boxes /\ \A b \in boxes : b.job \in EvalJobs
    BY <1>1 DEF Job!Grade, JobTypes
  <2> QED
    BY <1>1, <1>2, <2>1, <2>2, BoxesStay DEF BoxesInv, Same
<1>8. ClientInv'
  <2>1. client' = client /\ (jobStatus[1] \in Over => jobStatus'[1] \in Over)
        /\ (jobStatus[1] # "none" => jobStatus'[1] # "none")
    BY <1>1, <1>2 DEF Job!Grade, Good, Placed, Same, Over
  <2> QED
    BY <1>1, <1>2, <2>1, ClientStays DEF Job!Grade, Good, Placed, Same, Over, Job!Event, EventRecord, Job!Task
<1> QED
  BY <1>2, <1>4, <1>5, <1>6, <1>7, <1>8, OthersStay DEF JobInv

LEMMA GraderExitsKeeps ==
  ASSUME JobsAssumption, JobInv, NEW j \in EvalJobs, Job!GraderExits(j) PROVE JobInv'
<1> USE DEF JobsAssumption
<1>1. JobTypes /\ Good(j) /\ BoxesInv /\ ClientInv
  BY DEF JobInv
<1>2. /\ jobStatus'[j] = jobStatus[j] /\ cancelled'[j] = cancelled[j] /\ pc'[j] = "result" /\ at'[j] = at[j]
      /\ tasks'[j] = tasks[j] /\ verdict'[j] \in {"passed", "failed", "submitted"} /\ outbox'[j] = outbox[j]
      /\ events'[j] = events[j]
      /\ \A i \in EvalJobs \ {j} : Same(i)
  BY <1>1 DEF Job!GraderExits, Job!Goes, Job!job, Job!run, JobTypes, Same, Over
<1>3. tasks[j] \in [Job!Task -> TaskRecord] /\ tasks'[j] = tasks[j]
  BY <1>1, <1>2 DEF JobTypes
<1>4. JobTypes'
  BY <1>1, <1>2, <1>3 DEF Job!GraderExits, Job!Goes, Job!job, Job!run, JobTypes, Places, Over, Verdicts
<1>5. Good(j)'
  <2>1. Placed(jobStatus'[j], cancelled'[j], pc'[j], at'[j])
    BY <1>1, <1>2, <1>3 DEF Job!GraderExits, Good, Placed, AtTask, Over, JobTypes, Job!Task
  <2>2. TasksGood(cancelled'[j], pc'[j], at'[j], tasks'[j], verdict'[j], outbox'[j])
    <3>1. /\ TasksGood(cancelled[j], pc[j], at[j], tasks[j], verdict[j], outbox[j])
          /\ at[j] \in 1..(EvalTasks + 1) /\ pc[j] \notin {"last", "ended"}
      BY <1>1 DEF Job!GraderExits, Good, Placed, Over, JobTypes
    <3>2. /\ pc'[j] \notin {"last", "ended"} /\ (cancelled[j] => cancelled'[j])
          /\ outbox[j] \subseteq outbox'[j]
          /\ (verdict'[j] \in {"passed", "failed"} => pc'[j] = "result" /\ at[j] \in outbox'[j])
          /\ (pc'[j] \in {"start_grader", "grader"} => at[j] \in outbox'[j])
      BY <1>1, <1>2, <3>1 DEF Job!GraderExits, TasksGood, Good, Placed
    <3>3. \A i \in Job!Task : tasks'[j][i] = tasks[j][i] \/
                          (i = at[j] /\ Unsettled(tasks'[j][i]))
      BY <1>2, <1>3
    <3> QED
      BY <1>2, <3>1, <3>2, <3>3, TasksStay
  <2>3. EventsGood(jobStatus'[j], tasks'[j], events'[j])
    <3>1. \A i \in Job!Task : tasks'[j][i].phase = "finished" <=> tasks[j][i].phase = "finished"
      BY <1>1, <1>2, <1>3 DEF Job!GraderExits, Good, Unsettled
    <3>2. EventsGood(jobStatus[j], tasks[j], events[j]) /\ (jobStatus'[j] \notin Over <=> jobStatus[j] \notin Over)
      BY <1>1, <1>2 DEF Good
    <3> QED
      BY <1>2, <3>1, <3>2 DEF EventsGood, Once
  <2> QED
    BY <2>1, <2>2, <2>3 DEF Good
<1>6. Alone'
  BY <1>1, <1>2 DEF Job!GraderExits, JobInv, Alone, Same, Over
<1>7. BoxesInv'
  <2>1. boxes' \subseteq boxes /\ \A b \in boxes : b.job \in EvalJobs
    BY <1>1 DEF Job!GraderExits, JobTypes
  <2>2. ASSUME NEW b \in boxes', b.job = j
        PROVE  BoxGood(b, cancelled'[j], pc'[j], at'[j], outbox'[j])
    <3>1. b = [job |-> b.job, task |-> b.task, which |-> b.which] /\ b.task \in Job!Task
      BY <1>1, <2>1 DEF JobTypes
    <3>2. BoxGood(b, cancelled[j], pc[j], at[j], outbox[j])
      BY <1>1, <2>1, <2>2 DEF BoxesInv
    <3>3. b.job = j /\ b.task = at[j] => b.which # "grader"
      BY <2>2, <3>1 DEF Job!GraderExits, Job!Box
    <3> QED
      BY <1>1, <1>2, <2>2, <3>1, <3>2, <3>3 DEF Job!GraderExits, BoxGood, JobTypes, Job!Task
  <2> QED
    BY <1>1, <1>2, <2>1, <2>2, BoxesStay DEF BoxesInv, Same
<1>8. ClientInv'
  <2>1. client' = client /\ (jobStatus[1] \in Over => jobStatus'[1] \in Over)
        /\ (jobStatus[1] # "none" => jobStatus'[1] # "none")
    BY <1>1, <1>2 DEF Job!GraderExits, Good, Placed, Same, Over
  <2> QED
    BY <1>1, <1>2, <2>1, ClientStays DEF Job!GraderExits, Good, Placed, Same, Over, Job!Event, EventRecord
<1> QED
  BY <1>2, <1>4, <1>5, <1>6, <1>7, <1>8, OthersStay DEF JobInv

LEMMA JobEndsKeeps ==
  ASSUME JobsAssumption, JobInv, NEW j \in EvalJobs, Job!JobEnds(j) PROVE JobInv'
<1> USE DEF JobsAssumption
<1>1. JobTypes /\ Good(j) /\ BoxesInv /\ ClientInv
  BY DEF JobInv
<1>2. /\ jobStatus'[j] \in Over /\ cancelled'[j] = cancelled[j] /\ pc'[j] = "ended" /\ at'[j] = at[j]
      /\ tasks'[j] = tasks[j] /\ verdict'[j] = verdict[j] /\ outbox'[j] = outbox[j]
      /\ events'[j] = Kept(events[j], Job!Event("end", 0))
      /\ \A i \in EvalJobs \ {j} : Same(i)
  BY <1>1 DEF Job!JobEnds, Job!Goes, Job!Emit, Kept, Job!Ending, Job!Final, Job!job, Job!run, JobTypes, Same, Over
<1>3. tasks[j] \in [Job!Task -> TaskRecord] /\ tasks'[j] = tasks[j]
  BY <1>1, <1>2 DEF JobTypes
<1>4. JobTypes'
  BY <1>1, <1>2, <1>3 DEF Job!JobEnds, Job!Goes, Job!Emit, Job!Ending, Job!Final, Job!job, Job!run, JobTypes, Places, Over, Verdicts
<1>5. Good(j)'
  <2>1. Placed(jobStatus'[j], cancelled'[j], pc'[j], at'[j])
    BY <1>1, <1>2, <1>3 DEF Job!JobEnds, Job!Ending, Job!Final, Good, Placed, AtTask, Over, JobTypes, Job!Task
  <2>2. TasksGood(cancelled'[j], pc'[j], at'[j], tasks'[j], verdict'[j], outbox'[j])
    <3>1. /\ TasksGood(cancelled[j], pc[j], at[j], tasks[j], verdict[j], outbox[j])
          /\ pc'[j] \in {"last", "ended"} /\ pc[j] # "result"
      BY <1>1, <1>2 DEF Job!JobEnds, Job!Ending, Job!Final, Good
    <3>2. \A i \in Job!Task : /\ TaskSettled(tasks'[j][i], cancelled[j])
                              /\ tasks'[j][i].outcome \in {"passed", "failed"} => i \in outbox[j]
      <4>1. at[j] \in Nat /\ \A i \in Job!Task : i < at[j] \/ at[j] <= EvalTasks
        BY <1>1 DEF JobTypes, Job!Task
      <4>2. CASE pc[j] # "prepare" /\ \A i \in Job!Task : Passed(pc[j], at[j], i)
        BY <1>1, <1>2, <1>3, <3>1, <4>2 DEF Job!JobEnds, Job!Ending, Job!Final, TasksGood
      <4>3. CASE pc[j] = "prepare"
        BY <1>1, <1>3, <4>3 DEF Job!JobEnds, Job!Ending, Job!Final, TaskSettled
      <4>4. pc[j] = "prepare" \/ \A i \in Job!Task : Passed(pc[j], at[j], i)
        BY <1>1, <4>1 DEF Job!JobEnds, Job!Ending, Job!Final, Passed
      <4> QED
        BY <4>2, <4>3, <4>4
    <3> QED
      BY <1>2, <3>1, <3>2 DEF TasksGood, Passed
  <2>3. EventsGood(jobStatus'[j], tasks'[j], events'[j])
    <3>1. /\ Job!Event("end", 0) \in EventRecord /\ EventsGood(jobStatus[j], tasks[j], events[j])
          /\ \A i \in Job!Task : tasks'[j][i].phase = "finished" <=> tasks[j][i].phase = "finished"
      BY <1>1, <1>2, <1>3 DEF Job!Event, EventRecord, Good, Job!Task
    <3>2. jobStatus'[j] \notin Over => jobStatus[j] \notin Over
      BY <1>1, <1>2 DEF Job!JobEnds, Job!Ending, Job!Final, Good, Placed, Over
    <3> QED
      BY <1>2, <1>3, <3>1, <3>2, EventsStayGood DEF Job!Event
  <2> QED
    BY <2>1, <2>2, <2>3 DEF Good
<1>6. Alone'
  BY <1>1, <1>2 DEF Job!JobEnds, Job!Ending, Job!Final, JobInv, Alone, Same, Over
<1>7. BoxesInv'
  <2>1. ASSUME NEW b \in boxes, b.job = j
        PROVE  BoxGood(b, cancelled'[j], pc'[j], at'[j], outbox'[j])
    BY <1>1, <1>2, <1>3, <2>1 DEF Job!JobEnds, Job!Ending, Job!Final, BoxesInv, BoxGood, Good, Placed, JobTypes, Job!Task
  <2>2. boxes' = boxes /\ \A b \in boxes : b.job \in EvalJobs
    BY <1>1 DEF Job!JobEnds, Job!Ending, Job!Final, JobTypes
  <2> QED
    BY <1>1, <1>2, <2>1, <2>2, BoxesStay DEF BoxesInv, Same
<1>8. ClientInv'
  <2>1. client' = client /\ (jobStatus[1] \in Over => jobStatus'[1] \in Over)
        /\ (jobStatus[1] # "none" => jobStatus'[1] # "none")
    BY <1>1, <1>2 DEF Job!JobEnds, Job!Ending, Job!Final, Good, Placed, Same, Over
  <2> QED
    BY <1>1, <1>2, <2>1, ClientStays DEF Job!JobEnds, Job!Ending, Job!Final, Good, Placed, Same, Over, Job!Event, EventRecord
<1> QED
  BY <1>2, <1>4, <1>5, <1>6, <1>7, <1>8, OthersStay DEF JobInv

LEMMA ResultKeeps ==
  ASSUME JobsAssumption, JobInv, NEW j \in EvalJobs, Job!Result(j) PROVE JobInv'
<1> USE DEF JobsAssumption
<1>1. JobTypes /\ Good(j) /\ BoxesInv /\ ClientInv
  BY DEF JobInv
<1>2. /\ jobStatus'[j] = jobStatus[j] /\ cancelled'[j] = cancelled[j] /\ pc'[j] = "task" /\ at'[j] = at[j] + 1
      /\ tasks'[j] = Resulted(tasks[j], at[j], verdict[j]) /\ verdict'[j] = "none" /\ outbox'[j] = outbox[j]
      /\ events'[j] = Kept(events[j], Job!Event("result", at[j]))
      /\ \A i \in EvalJobs \ {j} : Same(i)
  BY <1>1 DEF Job!Result, Job!Emit, Job!Goes, Kept, Resulted, Job!job, Job!run, JobTypes, Same, Over
<1>3. /\ at[j] \in Job!Task /\ tasks[j] \in [Job!Task -> TaskRecord]
      /\ tasks'[j] \in [Job!Task -> TaskRecord]
      /\ tasks'[j][at[j]] = [phase |-> "finished", outcome |-> Job!Outcome(verdict[j])]
      /\ \A i \in Job!Task \ {at[j]} : tasks'[j][i] = tasks[j][i]
  <2>1. at[j] \in Job!Task /\ tasks[j] \in [Job!Task -> TaskRecord] /\ verdict[j] \in Verdicts
    BY <1>1 DEF Job!Result, JobTypes, Good, Placed, AtTask, Job!Task
  <2>2. [phase |-> "finished", outcome |-> Job!Outcome(verdict[j])] \in TaskRecord
    BY <2>1 DEF Job!Outcome, Verdicts, TaskRecord
  <2> QED
    BY <1>2, <2>1, <2>2 DEF Resulted
<1>10. tasks' = [tasks EXCEPT ![j] = Resulted(tasks[j], at[j], verdict[j])]
  BY <1>3 DEF Job!Result, Job!Emit, Job!Goes, Kept, Resulted, Phased
<1>11. Unsettled(tasks[j][at[j]]) /\ EventsGood(jobStatus[j], tasks[j], events[j])
  <2>1. /\ TasksGood(cancelled[j], pc[j], at[j], tasks[j], verdict[j], outbox[j])
        /\ pc[j] \notin {"last", "ended"}
    BY <1>1 DEF Job!Result, Job!Outcome, Good
  <2> QED
    BY <1>1, <1>3, <2>1, UnderWay DEF Good
<1>4. JobTypes'
  <2>1. tasks' \in [EvalJobs -> [Job!Task -> TaskRecord]]
    BY <1>1, <1>3, <1>10 DEF JobTypes
  <2>2. /\ jobStatus' = jobStatus /\ cancelled' = cancelled /\ announcing' = announcing
        /\ pc' \in [EvalJobs -> Places] /\ at' \in [EvalJobs -> 1..(EvalTasks + 1)]
        /\ verdict' \in [EvalJobs -> Verdicts] /\ outbox' = outbox /\ boxes' = boxes
        /\ DOMAIN events' = EvalJobs /\ client' = client
    BY <1>1, <1>3 DEF Job!Result, Job!Outcome, Job!Goes, Job!Emit, Job!job, Job!run, JobTypes, Places, Verdicts, Job!Task
  <2> QED
    BY <1>1, <2>1, <2>2 DEF JobTypes
<1>5. Good(j)'
  <2>1. Placed(jobStatus'[j], cancelled'[j], pc'[j], at'[j])
    BY <1>1, <1>2, <1>3 DEF Job!Result, Job!Outcome, Good, Placed, AtTask, Over, JobTypes, Job!Task
  <2>2. TasksGood(cancelled'[j], pc'[j], at'[j], tasks'[j], verdict'[j], outbox'[j])
    <3>1. /\ TasksGood(cancelled[j], pc[j], at[j], tasks[j], verdict[j], outbox[j])
          /\ pc[j] \in {"task", "result"}
      BY <1>1 DEF Job!Result, Job!Outcome, Good
    <3>2. /\ \A i \in Job!Task : i # at[j] => tasks'[j][i] = tasks[j][i]
          /\ at[j] \in Job!Task => TaskSettled(tasks'[j][at[j]], cancelled[j])
          /\ tasks'[j][at[j]].outcome \in {"passed", "failed"} => at[j] \in outbox[j]
      <4>1. verdict[j] \in Verdicts /\ Unsettled(tasks[j][at[j]])
        BY <1>1, <1>11 DEF JobTypes
      <4>2. LET r == tasks'[j][at[j]]
            IN /\ r.phase = "finished" /\ r.outcome # ""
               /\ r.outcome \in {"passed", "failed"} => r.outcome = verdict[j]
        <5>1. Job!Outcome(verdict[j]) # "" /\
              (Job!Outcome(verdict[j]) \in {"passed", "failed"} => Job!Outcome(verdict[j]) = verdict[j])
          BY <4>1 DEF Job!Outcome, Verdicts
        <5> DEFINE o == Job!Outcome(verdict[j])
        <5>2. tasks'[j][at[j]].phase = "finished" /\ tasks'[j][at[j]].outcome = o
          BY <1>3
        <5>3. o # "" /\ (o \in {"passed", "failed"} => o = verdict[j])
          BY <5>1
        <5> HIDE DEF o
        <5> QED
          BY <5>2, <5>3
      <4> QED
        <5>1. TaskSettled(tasks'[j][at[j]], cancelled[j])
          BY <1>3, <4>1, <4>2 DEF TaskSettled, Verdicts
        <5>2. tasks'[j][at[j]].outcome \in {"passed", "failed"} => at[j] \in outbox[j]
          BY <1>3, <3>1, <4>1, <4>2 DEF Unsettled, TasksGood
        <5>3. \A i \in Job!Task : i # at[j] => tasks'[j][i] = tasks[j][i]
          BY <1>3
        <5> QED
          BY <5>1, <5>2, <5>3
    <3>3. verdict'[j] \notin {"passed", "failed"} /\ pc'[j] = "task" /\ at[j] \in Job!Task
      BY <1>1, <1>2, <1>3, <3>1 DEF Job!Result, Job!Outcome, TasksGood
    <3> QED
      BY <1>2, <3>1, <3>2, <3>3, TasksAdvance
  <2>3. EventsGood(jobStatus'[j], tasks'[j], events'[j])
    <3>1. tasks[j][at[j]].phase # "finished" /\ EventsGood(jobStatus[j], tasks[j], events[j])
      BY <1>11 DEF Unsettled
    <3> QED
      BY <1>2, <1>3, <3>1, EventsOfResult
  <2> QED
    BY <2>1, <2>2, <2>3 DEF Good
<1>6. Alone'
  BY <1>1, <1>2 DEF Job!Result, Job!Outcome, JobInv, Alone, Same, Over
<1>7. BoxesInv'
  <2>1. ASSUME NEW b \in boxes, b.job = j
        PROVE  BoxGood(b, cancelled'[j], pc'[j], at'[j], outbox'[j])
    BY <1>1, <1>2, <1>3, <2>1 DEF Job!Result, Job!Outcome, BoxesInv, BoxGood, Good, Placed, JobTypes, Job!Task
  <2>2. boxes' = boxes /\ \A b \in boxes : b.job \in EvalJobs
    BY <1>1 DEF Job!Result, Job!Outcome, JobTypes
  <2> QED
    BY <1>1, <1>2, <2>1, <2>2, BoxesStay DEF BoxesInv, Same
<1>8. ClientInv'
  <2>1. client' = client /\ (jobStatus[1] \in Over => jobStatus'[1] \in Over)
        /\ (jobStatus[1] # "none" => jobStatus'[1] # "none")
    BY <1>1, <1>2 DEF Job!Result, Job!Outcome, Good, Placed, Same, Over
  <2> QED
    BY <1>1, <1>2, <2>1, ClientStays DEF Job!Result, Job!Outcome, Good, Placed, Same, Over, Job!Event, EventRecord, Job!Task
<1> QED
  BY <1>2, <1>4, <1>5, <1>6, <1>7, <1>8, OthersStay DEF JobInv

LEMMA PrepareFailsKeeps ==
  ASSUME JobsAssumption, JobInv, NEW j \in EvalJobs, Job!PrepareFails(j) PROVE JobInv'
<1> USE DEF JobsAssumption
<1>1. JobTypes /\ Good(j) /\ BoxesInv /\ ClientInv
  BY DEF JobInv
<1>2. /\ jobStatus'[j] = jobStatus[j] /\ cancelled'[j] = cancelled[j] /\ pc'[j] = "last" /\ at'[j] = at[j]
      /\ tasks'[j] = [i \in Job!Task |-> Job!Failed] /\ verdict'[j] = verdict[j] /\ outbox'[j] = outbox[j]
      /\ events'[j] = Failing(events[j])
      /\ \A i \in EvalJobs \ {j} : Same(i)
  BY <1>1 DEF Job!PrepareFails, Job!Goes, Failing, Least, Job!job, Job!run, JobTypes, Same, Over
<1>3. /\ tasks[j] \in [Job!Task -> TaskRecord] /\ tasks'[j] \in [Job!Task -> TaskRecord]
      /\ \A i \in Job!Task : tasks'[j][i].phase = "finished" /\ tasks'[j][i].outcome = "errored"
  <2>1. Job!Failed \in TaskRecord /\ Job!Failed.phase = "finished" /\ Job!Failed.outcome = "errored"
    BY DEF Job!Failed, TaskRecord
  <2> QED
    BY <1>1, <1>2, <2>1 DEF JobTypes
<1>4. JobTypes'
  BY <1>1, <1>2, <1>3 DEF Job!PrepareFails, Job!Goes, Failing, Least, Job!job, Job!run, JobTypes, Places, Over, Verdicts
<1>5. Good(j)'
  <2>1. Placed(jobStatus'[j], cancelled'[j], pc'[j], at'[j])
    BY <1>1, <1>2, <1>3 DEF Job!PrepareFails, Job!Failed, Good, Placed, AtTask, Over, JobTypes, Job!Task
  <2>2. TasksGood(cancelled'[j], pc'[j], at'[j], tasks'[j], verdict'[j], outbox'[j])
    <3>1. /\ TasksGood(cancelled[j], pc[j], at[j], tasks[j], verdict[j], outbox[j])
          /\ pc'[j] \in {"last", "ended"} /\ pc[j] # "result"
      BY <1>1, <1>2 DEF Job!PrepareFails, Job!Failed, Good
    <3>2. \A i \in Job!Task : /\ TaskSettled(tasks'[j][i], cancelled[j])
                              /\ tasks'[j][i].outcome \in {"passed", "failed"} => i \in outbox[j]
      <4>1. at[j] \in Nat /\ \A i \in Job!Task : i < at[j] \/ at[j] <= EvalTasks
        BY <1>1 DEF JobTypes, Job!Task
      <4>2. CASE pc[j] # "prepare" /\ \A i \in Job!Task : Passed(pc[j], at[j], i)
        BY <1>1, <1>2, <1>3, <3>1, <4>2 DEF Job!PrepareFails, Job!Failed, TasksGood
      <4>3. CASE pc[j] = "prepare"
        BY <1>1, <1>3, <4>3 DEF Job!PrepareFails, Job!Failed, TaskSettled
      <4>4. pc[j] = "prepare" \/ \A i \in Job!Task : Passed(pc[j], at[j], i)
        BY <1>1, <4>1 DEF Job!PrepareFails, Job!Failed, Passed
      <4> QED
        BY <4>2, <4>3, <4>4
    <3> QED
      BY <1>2, <3>1, <3>2 DEF TasksGood, Passed
  <2>3. EventsGood(jobStatus'[j], tasks'[j], events'[j])
    <3>1. \A i \in Job!Task : tasks[j][i].phase # "finished"
      <4>1. \A i \in Job!Task : i \in Nat /\ ~ (i < 1)
        BY DEF Job!Task
      <4>2. at[j] = 1 /\ pc[j] = "prepare"
        BY <1>1 DEF Job!PrepareFails, Good, Placed
      <4> QED
        BY <1>1, <4>1, <4>2 DEF Good, TasksGood, Passed, Unsettled
    <3>2. EventsGood(jobStatus[j], tasks[j], events[j]) /\ (jobStatus'[j] \notin Over <=> jobStatus[j] \notin Over)
      BY <1>1, <1>2 DEF Good
    <3> QED
      BY <1>2, <1>3, <3>1, <3>2, EventsOfFailing
  <2> QED
    BY <2>1, <2>2, <2>3 DEF Good
<1>6. Alone'
  BY <1>1, <1>2 DEF Job!PrepareFails, Job!Failed, JobInv, Alone, Same, Over
<1>7. BoxesInv'
  <2>1. ASSUME NEW b \in boxes, b.job = j
        PROVE  BoxGood(b, cancelled'[j], pc'[j], at'[j], outbox'[j])
    BY <1>1, <1>2, <1>3, <2>1 DEF Job!PrepareFails, Job!Failed, BoxesInv, BoxGood, Good, Placed, JobTypes, Job!Task
  <2>2. boxes' = boxes /\ \A b \in boxes : b.job \in EvalJobs
    BY <1>1 DEF Job!PrepareFails, Job!Failed, JobTypes
  <2> QED
    BY <1>1, <1>2, <2>1, <2>2, BoxesStay DEF BoxesInv, Same
<1>8. ClientInv'
  <2>1. client' = client /\ (jobStatus[1] \in Over => jobStatus'[1] \in Over)
        /\ (jobStatus[1] # "none" => jobStatus'[1] # "none")
    BY <1>1, <1>2 DEF Job!PrepareFails, Job!Failed, Good, Placed, Same, Over
  <2> QED
    BY <1>1, <1>2, <2>1, ClientStays DEF Job!PrepareFails, Job!Failed, Good, Placed, Same, Over, Job!Event, EventRecord
<1> QED
  BY <1>2, <1>4, <1>5, <1>6, <1>7, <1>8, OthersStay DEF JobInv

LEMMA BoxEndsKeeps == ASSUME JobsAssumption, JobInv, Job!BoxEnds PROVE JobInv'
<1> USE DEF JobsAssumption
<1>1. JobTypes /\ BoxesInv /\ ClientInv /\ Alone /\ \A i \in EvalJobs : Good(i)
  BY DEF JobInv
<1>2. /\ UNCHANGED <<jobStatus, cancelled, announcing, pc, at, tasks, verdict, outbox, events, client>>
      /\ boxes' \subseteq boxes
  BY DEF Job!BoxEnds, Job!job, Job!run
<1>3. BoxesInv'
  BY <1>1, <1>2 DEF BoxesInv
<1> QED
  BY <1>1, <1>2, <1>3 DEF JobInv, JobTypes, Good, Alone, ClientInv

LEMMA FollowKeeps == ASSUME JobsAssumption, JobInv, Job!Follow(1) PROVE JobInv'
<1> USE DEF JobsAssumption
<1>1. JobTypes /\ BoxesInv /\ ClientInv /\ Alone /\ \A i \in EvalJobs : Good(i)
  BY DEF JobInv
<1>2. /\ UNCHANGED <<jobStatus, cancelled, announcing, pc, at, tasks, verdict, outbox, boxes, events>>
      /\ client' \in ClientRecord
  BY <1>1 DEF Job!Follow, Job!job, Job!run, JobTypes, ClientRecord
<1>3. ClientInv'
  BY <1>1, <1>2 DEF Job!Follow, ClientInv, JobTypes, ClientRecord
<1> QED
  BY <1>1, <1>2, <1>3 DEF JobInv, JobTypes, Good, BoxesInv, Alone

LEMMA AfterKeeps == ASSUME JobsAssumption, JobInv, Job!After PROVE JobInv'
<1> USE DEF JobsAssumption
<1>1. JobTypes /\ BoxesInv /\ ClientInv /\ Alone /\ \A i \in EvalJobs : Good(i)
  BY DEF JobInv
<1>0. Len(events[1]) \in Nat
  BY <1>1 DEF Good, EventsGood
<1>2. /\ UNCHANGED <<jobStatus, cancelled, announcing, pc, at, tasks, verdict, outbox, boxes, events>>
      /\ client' \in ClientRecord
  BY <1>1, <1>0 DEF Job!After, Job!job, Job!run, ClientInv, JobTypes, ClientRecord
<1>3. ClientInv'
  <2>1. client.job = 1 /\ client'.place = "write" /\ client'.job = 1
        /\ client'.upto = Len(events[1]) /\ client'.told = client.told
        /\ (client'.over => jobStatus[1] # "running")
    BY <1>1 DEF Job!After, ClientInv, JobTypes, ClientRecord
  <2>2. ~client.told
    BY <1>1 DEF Job!After, ClientInv
  <2>3. jobStatus[1] \in Over \/ ~client'.over
    <3>1. jobStatus[1] # "none"
      BY <1>1 DEF Job!After, ClientInv
    <3> QED
      BY <1>1, <2>1, <3>1 DEF JobTypes, Over
  <2> QED
    <3>1. EndsBy(events[1], Len(events[1]))
      BY <1>0 DEF EndsBy
    <3>2. client'.job = 1 /\ ~client'.told /\ (client'.over => jobStatus'[1] \in Over)
          /\ client'.upto = Len(events'[1]) /\ events' = events /\ jobStatus'[1] # "none"
      BY <1>1, <1>2, <2>1, <2>2, <2>3 DEF Job!After, ClientInv
    <3> QED
      BY <2>1, <3>1, <3>2 DEF ClientInv
<1> QED
  BY <1>1, <1>2, <1>3 DEF JobInv, JobTypes, Good, BoxesInv, Alone

LEMMA HandleJobEventsKeeps == ASSUME JobsAssumption, JobInv, Job!HandleJobEvents PROVE JobInv'
<1> USE DEF JobsAssumption
<1>1. JobTypes /\ BoxesInv /\ ClientInv /\ Alone /\ \A i \in EvalJobs : Good(i)
  BY DEF JobInv
<1>2. /\ UNCHANGED <<jobStatus, cancelled, announcing, pc, at, tasks, verdict, outbox, boxes, events>>
      /\ client' \in ClientRecord
  BY <1>1 DEF Job!HandleJobEvents, Job!job, Job!run, JobTypes, ClientRecord
<1>3. ClientInv'
  BY <1>1, <1>2 DEF Job!HandleJobEvents, ClientInv, JobTypes, ClientRecord
<1> QED
  BY <1>1, <1>2, <1>3 DEF JobInv, JobTypes, Good, BoxesInv, Alone

LEMMA DisconnectKeeps == ASSUME JobsAssumption, JobInv, Job!Disconnect PROVE JobInv'
<1> USE DEF JobsAssumption
<1>1. JobTypes /\ BoxesInv /\ ClientInv /\ Alone /\ \A i \in EvalJobs : Good(i)
  BY DEF JobInv
<1>0. client.seq \in Nat /\ client.upto \in Nat /\ \A n \in client.seq..client.upto : n \in Nat
  BY <1>1 DEF JobTypes, ClientRecord
<1>2. /\ UNCHANGED <<jobStatus, cancelled, announcing, pc, at, tasks, verdict, outbox, boxes, events>>
      /\ client' \in ClientRecord
  <2>1. PICK n \in client.seq..client.upto :
               client' = [client EXCEPT !.got = n, !.upto = 0, !.seq = 0, !.over = FALSE,
                                        !.place = "away"]
    BY DEF Job!Disconnect
  <2>2. n \in Nat /\ client \in ClientRecord
    BY <1>0, <1>1 DEF JobTypes
  <2>3. client' \in ClientRecord
    BY <2>1, <2>2 DEF ClientRecord
  <2> QED
    BY <2>3 DEF Job!Disconnect, Job!job, Job!run
<1>3. ClientInv'
  BY <1>1, <1>2 DEF Job!Disconnect, ClientInv, JobTypes, ClientRecord
<1> QED
  BY <1>1, <1>2, <1>3 DEF JobInv, JobTypes, Good, BoxesInv, Alone

----------------------------------------------------------------------------
LEMMA JobInitially == ASSUME JobsAssumption, Job!Init PROVE JobInv
<1> USE DEF JobsAssumption
<1>1. JobTypes
  <2>1. tasks \in [EvalJobs -> [Job!Task -> TaskRecord]]
    BY DEF Job!Init, TaskRecord
  <2>2. client \in ClientRecord
    BY DEF Job!Init, ClientRecord
  <2>3. /\ jobStatus = [j \in EvalJobs |-> "none"] /\ cancelled = [j \in EvalJobs |-> FALSE]
        /\ announcing = {} /\ pc = [j \in EvalJobs |-> "idle"] /\ at = [j \in EvalJobs |-> 1]
        /\ verdict = [j \in EvalJobs |-> "none"] /\ outbox = [j \in EvalJobs |-> {}] /\ boxes = {}
    BY DEF Job!Init
  <2>4. DOMAIN events = EvalJobs
    BY DEF Job!Init
  <2> QED
    BY <2>1, <2>2, <2>3, <2>4 DEF JobTypes, Places, Verdicts
<1>2. ASSUME NEW j \in EvalJobs PROVE Good(j)
  <2>1. Placed(jobStatus[j], cancelled[j], pc[j], at[j])
    BY DEF Job!Init, Placed, Over, AtTask
  <2>2. TasksGood(cancelled[j], pc[j], at[j], tasks[j], verdict[j], outbox[j])
    <3>1. \A i \in Job!Task : tasks[j][i] = [phase |-> "queued", outcome |-> ""]
      BY DEF Job!Init
    <3>2. \A i \in Job!Task : i \in Nat /\ ~(i < 1)
      BY DEF Job!Task
    <3> QED
      BY <3>1, <3>2 DEF Job!Init, TasksGood, Passed, Unsettled
  <2>3. EventsGood(jobStatus[j], tasks[j], events[j])
    <3>1. /\ events[j] = <<>> /\ Len(events[j]) = 0 /\ events[j] \in Seq(EventRecord)
          /\ DOMAIN events[j] = {}
      <4>1. events[j] = <<>>
        BY DEF Job!Init
      <4> QED
        BY <4>1
    <3>2. \A i \in Job!Task : tasks[j][i].phase = "queued"
      BY DEF Job!Init
    <3> QED
      BY <3>1, <3>2 DEF EventsGood, Once, Tells
  <2> QED
    BY <2>1, <2>2, <2>3 DEF Good
<1>3. Alone /\ BoxesInv /\ ClientInv
  BY DEF Job!Init, Alone, BoxesInv, ClientInv
<1> QED
  BY <1>1, <1>2, <1>3 DEF JobInv

LEMMA RunningKeeps ==
  ASSUME JobsAssumption, JobInv, NEW j \in EvalJobs, Job!Running(j) PROVE JobInv'
<1>1. CASE Job!StartBox(j, "agent", "start_agent")
  <2>1. CASE cancelled[j]
    BY <1>1, <2>1, AgentUnstartedKeeps
  <2>2. CASE ~cancelled[j]
    BY <1>1, <2>2, StartAgentKeeps
  <2> QED
    BY <2>1, <2>2
<1>2. CASE Job!StartBox(j, "grader", "start_grader")
  <2>1. CASE cancelled[j]
    BY <1>2, <2>1, GraderUnstartedKeeps
  <2>2. CASE ~cancelled[j]
    BY <1>2, <2>2, StartGraderKeeps
  <2> QED
    BY <2>1, <2>2
<1>3. CASE Job!Grade(j)
  <2>1. CASE cancelled[j] \/ at[j] \notin outbox[j]
    BY <1>3, <2>1, UngradedKeeps
  <2>2. CASE ~cancelled[j] /\ at[j] \in outbox[j]
    BY <1>3, <2>2, GradeKeeps
  <2> QED
    BY <2>1, <2>2
<1> QED
  BY <1>1, <1>2, <1>3, PrepareContainersKeeps, PrepareFailsKeeps, SkipKeeps, StartTaskKeeps,
     ObserveKeeps, AgentExitsKeeps, AgentKilledKeeps, GraderExitsKeeps, GraderKilledKeeps,
     ResultKeeps, JobEndsKeeps DEF Job!Running

LEMMA JobStep == ASSUME JobsAssumption, JobInv, [Job!Next]_(Job!vars) PROVE JobInv'
<1>1. CASE UNCHANGED Job!vars
  BY <1>1 DEF Job!vars, Job!job, Job!run, JobInv, JobTypes, Good, Alone, BoxesInv, ClientInv
<1>2. CASE Job!Next
  BY <1>2, StartJobKeeps, CancelJobKeeps, CancelAnnouncedKeeps, RunningKeeps, BoxEndsKeeps,
     FollowKeeps, AfterKeeps, HandleJobEventsKeeps, DisconnectKeeps DEF Job!Next
<1> QED
  BY <1>1, <1>2

LEMMA JobFits == ASSUME JobsAssumption, JobInv PROVE Job!JobsAreHonest
<1> USE DEF JobsAssumption
<1>1. JobTypes /\ BoxesInv /\ ClientInv /\ Alone /\ \A j \in EvalJobs : Good(j)
  BY DEF JobInv
<1>2. Job!ContainersBelong
  <2>1. ASSUME NEW b \in boxes
        PROVE  /\ \/ cancelled[b.job]
                  \/ jobStatus[b.job] = "running" /\ pc[b.job] = b.which /\ at[b.job] = b.task
               /\ b.which = "grader" => b.task \in outbox[b.job]
    <3>1. BoxGood(b, cancelled[b.job], pc[b.job], at[b.job], outbox[b.job])
      BY <1>1 DEF BoxesInv
    <3>2. b.job \in EvalJobs /\ b.which \in {"agent", "grader"}
      BY <1>1 DEF JobTypes
    <3>3. /\ Placed(jobStatus[b.job], cancelled[b.job], pc[b.job], at[b.job])
          /\ jobStatus[b.job] \in {"none", "running"} \cup Over
      BY <1>1, <3>2 DEF Good, JobTypes
    <3>4. pc[b.job] = b.which => jobStatus[b.job] = "running"
      BY <3>2, <3>3 DEF Placed
    <3> QED
      BY <3>1, <3>4 DEF BoxGood
  <2> QED
    BY <1>1, <2>1 DEF Job!ContainersBelong, Alone, BoxesInv
<1>3. Job!TasksSettle
  <2>1. SUFFICES ASSUME NEW j \in EvalJobs, jobStatus[j] \in Over, NEW i \in Job!Task
        PROVE  /\ TaskSettled(tasks[j][i], cancelled[j])
               /\ tasks[j][i].outcome \in {"passed", "failed"} => i \in outbox[j]
               /\ Len(events[j]) < EvalEvents =>
                    Cardinality(Tells(events[j], i)) = IF tasks[j][i].phase = "finished" THEN 1 ELSE 0
    BY JobCounts DEF Job!TasksSettle, Over, TaskSettled, Tells
  <2>2. pc[j] = "ended" /\ TasksGood(cancelled[j], pc[j], at[j], tasks[j], verdict[j], outbox[j])
    BY <1>1, <2>1 DEF Good, Placed
  <2>3. ASSUME Len(events[j]) < EvalEvents
        PROVE  Cardinality(Tells(events[j], i)) = IF tasks[j][i].phase = "finished" THEN 1 ELSE 0
    <3>1. Once(events[j], i, tasks[j][i].phase = "finished")
      BY <1>1, <2>3 DEF Good, EventsGood
    <3>2. CASE tasks[j][i].phase = "finished"
      <4>1. PICK k \in Nat : Tells(events[j], i) = {k}
        BY <3>1, <3>2 DEF Once
      <4> QED
        BY <3>2, <4>1, FS_Singleton, JobCounts
    <3>3. CASE tasks[j][i].phase # "finished"
      BY <3>1, <3>3, FS_EmptySet, JobCounts DEF Once
    <3> QED
      BY <3>2, <3>3
  <2> QED
    BY <2>2, <2>3 DEF TasksGood, Passed
<1>4. Job!EndIsComplete
  <2>1. SUFFICES ASSUME client.told
        PROVE  /\ jobStatus[client.job] # "running"
               /\ \A k \in DOMAIN events[client.job] :
                    events[client.job][k].kind = "end" => k <= client.got
    BY DEF Job!EndIsComplete
  <2>2. client.job = 1 /\ jobStatus[1] \in Over /\ EndsBy(events[1], client.got)
    BY <1>1, <2>1 DEF ClientInv
  <2>3. DOMAIN events[1] = 1..Len(events[1])
    BY <1>1 DEF Good, EventsGood
  <2> QED
    BY <2>2, <2>3 DEF EndsBy, Over
<1> QED
  BY <1>2, <1>3, <1>4 DEF Job!JobsAreHonest

THEOREM JobsStayHonest == ASSUME JobsAssumption PROVE Job!Spec => []Job!JobsAreHonest
<1>1. Job!Init => JobInv
  BY JobInitially
<1>2. JobInv /\ [Job!Next]_(Job!vars) => JobInv'
  BY JobStep
<1>3. JobInv => Job!JobsAreHonest
  BY JobFits
<1> QED
  BY <1>1, <1>2, <1>3, PTL DEF Job!Spec

----------------------------------------------------------------------------
(* The results that the evaluation page shows (ResultsLibrary).            *)
\* The refresher is none of the requests, and nobody is not one of them.
ListersAssumption ==
  "refresher" \notin LibraryListers /\ "nobody" \notin LibraryListers /\ LibraryResults \in Nat

RunType == [state : {"none", "absent", "present"}, results : Nat, name : Nat,
            status : {"none", "running", "interrupted", "done"}]
KnownType == [over : BOOLEAN, name : Nat, deleted : BOOLEAN, results : Nat]
PlaceType == {"none", "idle", "lock", "decide", "walk", "store", "overlay", "answered", "rename",
              "delete", "deleted", "done", "refused"}
RequestType == [place : PlaceType, wants : {"answered", "rename", "delete"}, forced : BOOLEAN,
                requested : Nat, run : RunType, walked : Nat, known : KnownType]
LibraryTypes ==
  /\ directory \in RunType /\ writer \in {"none", "running", "over", "done"} /\ listGeneration \in Nat
  /\ index \in [run : RunType, scanned : Nat, started : Nat] /\ scans \in Nat
  /\ refreshing \in BOOLEAN /\ lister \in [Library!Lister -> RequestType]

\* The directory follows the job: it is there while the job runs, and once gone it stays away.
Directory ==
  /\ directory.state # "none" /\ (directory.state = "absent" => directory = Library!Absent)
  /\ directory.state = "present" => directory.status = IF writer = "running" THEN "running" ELSE "done"
  /\ writer = "running" => directory.state = "present" /\ directory.name = 0
Before ==
  writer = "none" =>
    /\ directory.state = "absent" /\ index.run.state # "present"
    /\ \A l \in Library!Lister : /\ lister[l].run.state # "present"
                                 /\ lister[l].place \notin {"deleted", "done"}
                                 /\ lister[l].known.name = 0 /\ lister[l].known.results = 0

\* A request was told that the run is gone only when it is.
Gone(w) == \E l \in LibraryListers : w[l].place = "done" /\ w[l].wants = "delete"
Deleting ==
  /\ \A l \in LibraryListers : /\ lister[l].place = "deleted" => directory.state = "absent"
                               /\ lister[l].place = "rename" => lister[l].wants = "rename"
  /\ Gone(lister) => directory.state = "absent"

\* One scan at a time, and none knows of a change that was not made.
Locked == \A l \in Library!Lister : lister[l].place \in {"decide", "walk", "store"} => scanning = l
Clocks ==
  /\ index.scanned <= listGeneration /\ index.started <= scans
  /\ \A l \in Library!Lister : lister[l].walked <= listGeneration

\* What a request knew is still so.
Heard(k, d, j, w) ==
  /\ k.deleted => Gone(w)
  /\ k.over => j = "done"
  /\ d.state = "present" => k.name <= d.name /\ k.results <= d.results

\* A request that changes the run found it at rest after the job had started.
Judged(p, j) ==
  /\ p.run.state # "none"
  /\ p.place \in {"rename", "delete"} /\ p.run.state = "present" /\ j = "running" =>
       p.run.status = "running"

\* A list that reflects the generation shows all that was announced.
Shows(run, d, j, w) ==
  run.state = "present" =>
    /\ ~Gone(w) /\ (j = "done" => run.status = "done") /\ run.name >= d.name
    /\ \A l \in LibraryListers : run.name >= w[l].known.name

\* The list that a request has shows what it knew.
Satisfied(p) ==
  p.place \in {"store", "overlay", "answered"} /\ p.run.state = "present" =>
    /\ ~p.known.deleted /\ (p.known.over => p.run.status = "done")
    /\ p.run.name >= p.known.name
    /\ p.forced => p.run.results >= p.known.results

\* A scan that started after a request read the results after it.
Timely(p, run, since) ==
  p.place \in {"lock", "decide"} /\ p.requested < since /\ run.state = "present" =>
    run.results >= p.known.results

ListInv ==
  /\ LibraryTypes /\ Directory /\ Before /\ Deleting /\ Locked /\ Clocks
  /\ \A l \in Library!Lister : Heard(lister[l].known, directory, writer, lister) /\ Judged(lister[l], writer)
  /\ index.scanned = listGeneration /\ index.run.state # "none" => Shows(index.run, directory, writer, lister)
  /\ \A l \in Library!Lister : lister[l].place = "store" /\ lister[l].walked = listGeneration =>
       Shows(lister[l].run, directory, writer, lister)
  /\ \A l \in LibraryListers : Satisfied(lister[l])
  /\ \A l \in LibraryListers : Timely(lister[l], index.run, index.started)
  /\ \A l \in LibraryListers : \A h \in Library!Lister : lister[h].place = "store" =>
       Timely(lister[l], lister[h].run, scans)

AnalysisType == [state : {"none", "read", "store"}, results : Nat, for : SUBSET LibraryReaders]
ReaderType == [place : {"none", "idle", "wait", "answered"}, asked : Nat, got : Nat]
\* What an analysis will tell its readers is as new as its stamp.
Fresh(n, a, d, w) ==
  /\ a.state = "read" /\ d.state = "present" => n <= d.results
  /\ a.state = "store" => n <= a.results
  /\ \A r \in a.for : w[r].place = "wait" /\ w[r].asked = n
ReportInv ==
  /\ analysis \in [Library!Stamps -> AnalysisType] /\ reader \in [LibraryReaders -> ReaderType]
  /\ cache \in {Library!NoList} \cup [state : {"kept"}, stamp : Nat, results : Nat]
  /\ writer = "none" => \A n \in Library!Stamps : analysis[n].state = "none"
  /\ \A n \in Library!Stamps : Fresh(n, analysis[n], directory, reader)
  /\ Library!ReportsAreCurrent

LibraryInv == ListInv /\ ReportInv

----------------------------------------------------------------------------
LEMMA Types ==
  ASSUME ListInv
  PROVE  /\ LibraryTypes /\ Directory /\ Before /\ Deleting /\ Locked /\ Clocks
         /\ lister \in [Library!Lister -> RequestType] /\ LibraryListers \subseteq Library!Lister /\ "refresher" \in Library!Lister
         /\ \A l \in Library!Lister : Heard(lister[l].known, directory, writer, lister) /\ Judged(lister[l], writer)
  BY DEF ListInv, LibraryTypes, Library!Lister

LEMMA RequestIs ==
  ASSUME NEW p \in RequestType
  PROVE  /\ p.place \in PlaceType /\ p.wants \in {"answered", "rename", "delete"}
         /\ p.forced \in BOOLEAN /\ p.requested \in Nat /\ p.walked \in Nat
         /\ p.run \in RunType /\ p.run.results \in Nat /\ p.run.name \in Nat
         /\ p.run.state \in {"none", "absent", "present"}
         /\ p.known \in KnownType /\ p.known.name \in Nat /\ p.known.results \in Nat
         /\ p.known.over \in BOOLEAN /\ p.known.deleted \in BOOLEAN
  BY DEF RequestType, RunType, KnownType

\* A request at rest.
Rest(place, wants) ==
  [place |-> place, wants |-> wants, forced |-> FALSE, requested |-> 0, run |-> Library!Absent, walked |-> 0,
   known |-> [over |-> FALSE, name |-> 0, deleted |-> FALSE, results |-> 0]]

LEMMA RestingIs ==
  ASSUME NEW place \in PlaceType, NEW wants \in {"answered", "rename", "delete"}
  PROVE  LET p == Rest(place, wants)
         IN /\ p \in RequestType /\ p.place = place /\ p.wants = wants
            /\ p.known = [over |-> FALSE, name |-> 0, deleted |-> FALSE, results |-> 0]
            /\ p.known.name = 0 /\ p.known.results = 0 /\ p.known.over = FALSE
            /\ p.known.deleted = FALSE /\ p.run = Library!Absent /\ p.walked = 0 /\ p.forced = FALSE
<1>1. Library!Absent \in RunType
  BY DEF Library!Absent, RunType
<1> QED
  BY <1>1 DEF Rest, RequestType, KnownType

LEMMA RefusedIs ==
  ASSUME NEW p, p = [Library!Resting EXCEPT !.place = "refused"]
  PROVE  p = Rest("refused", "answered")
  BY DEF Rest, Library!Resting

LEMMA DoneIs ==
  ASSUME NEW wants, NEW p, p = [Library!Resting EXCEPT !.place = "done", !.wants = wants]
  PROVE  p = Rest("done", wants)
  BY DEF Rest, Library!Resting

LEMMA AbsentIs == Library!Absent \in RunType /\ Library!Absent.state = "absent" /\ Library!Absent.name = 0 /\ Library!Absent.results = 0
  BY DEF Library!Absent, RunType

LEMMA ShowsOn ==
  ASSUME NEW run \in RunType, NEW d \in RunType, NEW e \in RunType, NEW j, NEW i,
         NEW w \in [Library!Lister -> RequestType], NEW v \in [Library!Lister -> RequestType],
         Shows(run, d, j, w), Gone(v) => Gone(w), i = "done" => j = "done", e.name <= d.name,
         \A k \in LibraryListers : \/ v[k].known.name <= w[k].known.name
                                   \/ v[k].known.name <= d.name
  PROVE  Shows(run, e, i, v)
<1>1. run.name \in Nat /\ d.name \in Nat /\ e.name \in Nat
  BY DEF RunType
<1>2. \A k \in LibraryListers : v[k].known.name \in Nat /\ w[k].known.name \in Nat
  BY RequestIs DEF Library!Lister
<1>3. SUFFICES ASSUME run.state = "present"
      PROVE  /\ ~Gone(v) /\ (i = "done" => run.status = "done") /\ run.name >= e.name
             /\ \A k \in LibraryListers : run.name >= v[k].known.name
  BY DEF Shows
<1>4. /\ ~Gone(w) /\ (j = "done" => run.status = "done") /\ run.name >= d.name
      /\ \A k \in LibraryListers : run.name >= w[k].known.name
  BY <1>3 DEF Shows
<1>5. \A k \in LibraryListers : run.name >= v[k].known.name
  BY <1>1, <1>2, <1>4
<1> QED
  BY <1>1, <1>4, <1>5

LEMMA HeardOn ==
  ASSUME NEW k \in KnownType, NEW d \in RunType, NEW e \in RunType, NEW j, NEW i, NEW w, NEW v,
         Heard(k, d, j, w), Gone(w) => Gone(v), j = "done" => i = "done",
         e.state = "present" => d.state = "present" /\ d.name <= e.name /\ d.results <= e.results
  PROVE  Heard(k, e, i, v)
<1>1. /\ k.name \in Nat /\ k.results \in Nat /\ d.name \in Nat /\ d.results \in Nat
      /\ e.name \in Nat /\ e.results \in Nat
  BY DEF KnownType, RunType
<1> QED
  BY <1>1 DEF Heard

\* One request moves (p), and perhaps a list is stored or the directory goes.
LEMMA Moved ==
  ASSUME ListInv, NEW l \in Library!Lister, NEW p \in RequestType, lister' = [lister EXCEPT ![l] = p],
         writer' = writer, listGeneration' = listGeneration, refreshing' \in BOOLEAN,
         directory' = directory \/ (directory' = Library!Absent /\ writer \notin {"none", "running"}),
         scans' \in Nat, scans <= scans',
         index' \in [run : RunType, scanned : Nat, started : Nat],
         index'.scanned <= listGeneration, index'.started <= scans',
         writer = "none" => index'.run.state # "present" /\ p.run.state # "present",
         index'.scanned = listGeneration /\ index'.run.state # "none" =>
           Shows(index'.run, directory, writer, lister),
         lister[l].place # "done", p.place # "done",
         p.place = "deleted" => directory'.state = "absent" /\ writer # "none",
         p.known = lister[l].known \/ (p.known.name = 0 /\ p.known.results = 0
                                       /\ ~p.known.over /\ ~p.known.deleted),
         p.place = "rename" => p.wants = "rename",
         Locked', p.walked <= listGeneration, Judged(p, writer),
         p.place = "store" /\ p.walked = listGeneration => Shows(p.run, directory, writer, lister),
         l \in LibraryListers => Satisfied(p) /\ Timely(p, index'.run, index'.started),
         \A k \in LibraryListers : k # l => Timely(lister[k], index'.run, index'.started),
         p.place = "store" => \A k \in LibraryListers : k # l => Timely(lister[k], p.run, scans'),
         l \in LibraryListers => \A h \in Library!Lister : h # l /\ lister[h].place = "store" =>
                            Timely(p, lister[h].run, scans'),
         scans' = scans \/ \A h \in Library!Lister : h # l => lister[h].place # "store"
  PROVE  ListInv'
<1>1. /\ LibraryTypes /\ lister' \in [Library!Lister -> RequestType] /\ LibraryListers \subseteq Library!Lister
      /\ lister'[l] = p /\ \A k \in Library!Lister : k # l => lister'[k] = lister[k]
  BY Types DEF LibraryTypes
<1>2. /\ directory \in RunType /\ directory' \in RunType /\ directory'.name <= directory.name
      /\ directory'.state = "present" => directory' = directory
  BY <1>1, AbsentIs DEF LibraryTypes, RunType
<1>3. Gone(lister') <=> Gone(lister)
  BY <1>1 DEF Gone
<1>4. LibraryTypes'
  BY <1>1, <1>2 DEF LibraryTypes
<1>5. Directory'
  BY Types, AbsentIs DEF Directory
<1>6. Before'
  <2>1. \A k \in Library!Lister : writer = "none" =>
          /\ lister'[k].run.state # "present" /\ lister'[k].place \notin {"deleted", "done"}
          /\ lister'[k].known.name = 0 /\ lister'[k].known.results = 0
    BY <1>1, Types DEF Before
  <2> QED
    BY <2>1, Types DEF Before
<1>7. Deleting'
  <2>1. \A k \in LibraryListers : /\ lister'[k].place = "deleted" => directory'.state = "absent"
                                  /\ lister'[k].place = "rename" => lister'[k].wants = "rename"
    BY <1>1, Types, AbsentIs DEF Deleting
  <2> QED
    BY <1>3, <2>1, Types, AbsentIs DEF Deleting
<1>8. Clocks'
  <2>1. \A k \in Library!Lister : lister'[k].walked <= listGeneration
    BY <1>1, Types DEF Clocks
  <2> QED
    BY <2>1 DEF Clocks
<1>9. ASSUME NEW k \in Library!Lister
      PROVE  Heard(lister'[k].known, directory', writer', lister') /\ Judged(lister'[k], writer')
  <2>1. Heard(lister[k].known, directory', writer', lister')
    <3>1. lister[k].known \in KnownType /\ Heard(lister[k].known, directory, writer, lister)
      BY <1>1, RequestIs, Types
    <3>2. directory'.state = "present" =>
            directory.state = "present" /\ directory.name <= directory'.name /\ directory.results <= directory'.results
      BY <1>2 DEF RunType
    <3>3. (writer = "done" => writer' = "done") /\ (Gone(lister) => Gone(lister'))
      BY <1>3
    <3> QED
      BY <1>2, <3>1, <3>2, <3>3, HeardOn
  <2>2. p.known.name = 0 /\ p.known.results = 0 /\ ~p.known.over /\ ~p.known.deleted =>
          Heard(p.known, directory', writer', lister')
    BY <1>2 DEF Heard, RunType
  <2> QED
    BY <1>1, <2>1, <2>2, Types
<1>10. ASSUME NEW run \in RunType, Shows(run, directory, writer, lister)
       PROVE  Shows(run, directory', writer', lister')
  <2>1. \A k \in LibraryListers : \/ lister'[k].known.name <= lister[k].known.name
                                  \/ lister'[k].known.name <= directory.name
    <3>1. SUFFICES ASSUME NEW k \in LibraryListers
          PROVE  \/ lister'[k].known.name <= lister[k].known.name
                 \/ lister'[k].known.name <= directory.name
      OBVIOUS
    <3>2. lister[k].known.name \in Nat /\ directory.name \in Nat
      <4>1. lister[k] \in RequestType
        BY <1>1, Types
      <4> QED
        BY <1>2, <4>1, RequestIs DEF RunType
    <3>3. CASE k = l
      <4>1. lister'[k].known = lister[k].known \/ lister'[k].known.name = 0
        BY <1>1, <3>3
      <4> QED
        BY <3>2, <4>1
    <3>4. CASE k # l
      BY <1>1, <3>2, <3>4
    <3> QED
      BY <3>3, <3>4
  <2>2. lister \in [Library!Lister -> RequestType] /\ (writer' = "done" => writer = "done")
    BY Types
  <2>3. Gone(lister') => Gone(lister)
    BY <1>3
  <2>4. SUFFICES ASSUME run.state = "present"
        PROVE  /\ ~Gone(lister') /\ (writer' = "done" => run.status = "done")
               /\ run.name >= directory'.name
               /\ \A k \in LibraryListers : run.name >= lister'[k].known.name
    BY DEF Shows
  <2>5. /\ ~Gone(lister) /\ (writer = "done" => run.status = "done") /\ run.name >= directory.name
        /\ \A k \in LibraryListers : run.name >= lister[k].known.name
    BY <1>10, <2>4 DEF Shows
  <2>6. run.name \in Nat /\ directory.name \in Nat /\ directory'.name \in Nat
    BY <1>2, <1>10 DEF RunType
  <2>7. run.name >= directory'.name
    BY <1>2, <2>5, <2>6
  <2>8. ASSUME NEW k \in LibraryListers PROVE run.name >= lister'[k].known.name
    <3>1. lister[k] \in RequestType /\ lister'[k] \in RequestType
      BY <1>1, <2>2
    <3>2. lister[k].known.name \in Nat /\ lister'[k].known.name \in Nat
      BY <3>1, RequestIs
    <3>3. run.name >= lister[k].known.name
      BY <2>5
    <3>4. \/ lister'[k].known.name <= lister[k].known.name
          \/ lister'[k].known.name <= directory.name
      BY <2>1
    <3> QED
      BY <2>5, <2>6, <3>2, <3>3, <3>4
  <2> QED
    BY <2>2, <2>3, <2>5, <2>7, <2>8
<1>11. index'.scanned = listGeneration' /\ index'.run.state # "none" =>
         Shows(index'.run, directory', writer', lister')
  <2>1. index'.run \in RunType
    OBVIOUS
  <2> QED
    BY <1>10, <2>1
<1>12. ASSUME NEW k \in Library!Lister, lister'[k].place = "store", lister'[k].walked = listGeneration'
       PROVE  Shows(lister'[k].run, directory', writer', lister')
  <2>1. lister'[k].run \in RunType
    BY <1>1, RequestIs
  <2>2. Shows(lister'[k].run, directory, writer, lister)
    BY <1>1, <1>12 DEF ListInv
  <2> QED
    BY <1>10, <2>1, <2>2
<1>13. ASSUME NEW k \in LibraryListers
       PROVE  Satisfied(lister'[k]) /\ Timely(lister'[k], index'.run, index'.started)
  BY <1>1 DEF ListInv
<1>14. ASSUME NEW k \in LibraryListers, NEW h \in Library!Lister, lister'[h].place = "store"
       PROVE  Timely(lister'[k], lister'[h].run, scans')
  <2>1. CASE k # l /\ h # l
    <3>1. lister[h].place = "store" /\ scans' = scans
      BY <1>1, <1>14, <2>1
    <3> QED
      BY <1>1, <2>1, <3>1 DEF ListInv
  <2>2. CASE k # l /\ h = l
    BY <1>1, <1>14, <2>2
  <2>3. CASE k = l /\ h # l
    BY <1>1, <1>14, <2>3
  <2>4. CASE k = l /\ h = l
    BY <1>1, <1>14, <2>4 DEF Timely
  <2> QED
    BY <2>1, <2>2, <2>3, <2>4
<1> QED
  BY <1>4, <1>5, <1>6, <1>7, <1>8, <1>9, <1>11, <1>12, <1>13, <1>14 DEF ListInv

\* What one request does to the rest of them.
LEMMA MovedLocked ==
  ASSUME ListersAssumption, ListInv, NEW l \in Library!Lister, NEW p \in RequestType,
         lister' = [lister EXCEPT ![l] = p],
         \/ scanning' = scanning /\ (p.place \in {"decide", "walk", "store"} => scanning = l)
         \/ scanning = l /\ p.place \notin {"decide", "walk", "store"}
         \/ scanning = "nobody" /\ scanning' = l
  PROVE  Locked'
<1>1. SUFFICES ASSUME NEW k \in Library!Lister, lister'[k].place \in {"decide", "walk", "store"}
      PROVE  scanning' = k
  BY DEF Locked
<1>2. lister'[l] = p /\ (k # l => lister'[k] = lister[k])
  BY Types
<1>3. k # l => scanning = k
  BY <1>1, <1>2, Types DEF Locked
<1>4. "nobody" \notin Library!Lister
  BY DEF Library!Lister, ListersAssumption
<1> QED
  BY <1>1, <1>2, <1>3, <1>4

\* A request that is given another place.
LEMMA PlaceIs ==
  ASSUME NEW p \in RequestType, NEW place \in PlaceType, NEW q, q = [p EXCEPT !.place = place]
  PROVE  /\ q \in RequestType /\ q.place = place /\ q.wants = p.wants /\ q.forced = p.forced
         /\ q.requested = p.requested /\ q.run = p.run /\ q.walked = p.walked /\ q.known = p.known
  BY DEF RequestType

LEMMA Others ==
  ASSUME ListInv, NEW l \in Library!Lister, scanning = l
  PROVE  \A h \in Library!Lister : h # l => lister[h].place # "store"
  BY Types DEF Locked

LEMMA ListSays ==
  ASSUME ListInv
  PROVE  /\ \A k \in LibraryListers : Satisfied(lister[k]) /\ Timely(lister[k], index.run, index.started)
         /\ index \in [run : RunType, scanned : Nat, started : Nat] /\ scans \in Nat
         /\ index.scanned <= listGeneration /\ index.started <= scans /\ scans <= scans
         /\ refreshing \in BOOLEAN /\ directory \in RunType /\ listGeneration \in Nat
         /\ (writer = "none" => index.run.state # "present" /\ directory.state = "absent"
                             /\ \A k \in Library!Lister : lister[k].run.state # "present")
         /\ (index.scanned = listGeneration /\ index.run.state # "none" =>
              Shows(index.run, directory, writer, lister))
         /\ \A k \in Library!Lister : lister[k] \in RequestType /\ lister[k].walked <= listGeneration
         /\ \A k \in LibraryListers : \A h \in Library!Lister : lister[h].place = "store" =>
              Timely(lister[k], lister[h].run, scans)
  BY Types DEF ListInv, LibraryTypes, Clocks, Before

LEMMA LockKeeps ==
  ASSUME ListersAssumption, ListInv, NEW l \in Library!Lister, Library!Lock(l)
  PROVE  ListInv'
<1> DEFINE p == [lister[l] EXCEPT !.place = "decide"]
<1>1. /\ lister[l].place = "lock" /\ scanning = "nobody" /\ scanning' = l
      /\ lister' = [lister EXCEPT ![l] = p]
      /\ UNCHANGED <<directory, writer, listGeneration, index, scans, refreshing>>
  BY DEF Library!Lock, Library!At
<1>2. /\ p \in RequestType /\ p.place = "decide" /\ p.run = lister[l].run
      /\ p.requested = lister[l].requested /\ p.known = lister[l].known /\ p.walked = lister[l].walked
  <2>1. lister[l] \in RequestType /\ "decide" \in PlaceType
    BY Types DEF PlaceType
  <2> QED
    BY <2>1, PlaceIs
<1> HIDE DEF p
<1>3. Locked'
  BY <1>1, <1>2, MovedLocked
<1>4. Judged(p, writer)
  BY <1>2, Types DEF Judged
<1>5. \A run, since : Satisfied(p) /\ (Timely(lister[l], run, since) => Timely(p, run, since))
  BY <1>1, <1>2 DEF Satisfied, Timely
<1> QED
  BY <1>1, <1>2, <1>3, <1>4, <1>5, ListSays, Moved

LEMMA RescanKeeps ==
  ASSUME ListersAssumption, ListInv, NEW l \in Library!Lister, Library!Rescan(l)
  PROVE  ListInv'
<1> DEFINE p == [lister[l] EXCEPT !.place = "walk", !.walked = listGeneration]
<1>1. /\ lister[l].place = "decide" /\ scans' = scans + 1 /\ lister' = [lister EXCEPT ![l] = p]
      /\ UNCHANGED <<directory, writer, listGeneration, index, scanning, refreshing>>
  <2>1. lister \in [Library!Lister -> RequestType]
    BY Types
  <2> QED
    BY <2>1 DEF Library!Rescan
<1>2. /\ p \in RequestType /\ p.place = "walk" /\ p.run = lister[l].run
      /\ p.known = lister[l].known /\ p.walked = listGeneration
  <2>1. lister[l] \in RequestType /\ listGeneration \in Nat
    BY Types DEF LibraryTypes
  <2> QED
    BY <2>1 DEF RequestType, PlaceType
<1> HIDE DEF p
<1>3. scanning = l
  BY <1>1, Types DEF Locked
<1>4. Locked'
  BY <1>1, <1>2, <1>3, MovedLocked
<1>5. Judged(p, writer)
  BY <1>2, Types DEF Judged
<1>6. \A run, since : Satisfied(p) /\ Timely(p, run, since)
  BY <1>2 DEF Satisfied, Timely
<1>7. /\ scans' \in Nat /\ scans <= scans' /\ index.started <= scans'
      /\ \A h \in Library!Lister : h # l => lister[h].place # "store"
  BY <1>1, <1>3, ListSays, Others
<1>8. listGeneration <= listGeneration
  BY ListSays
<1> QED
  BY <1>1, <1>2, <1>4, <1>5, <1>6, <1>7, <1>8, ListSays, Moved

\* What is read of the directory shows what was announced, and what every request knew.
LEMMA ReadShows ==
  ASSUME ListInv
  PROVE  LET run == Library!Summarize(directory)
         IN /\ run \in RunType /\ run.state \in {"absent", "present"}
            /\ Shows(run, directory, writer, lister)
            /\ \A k \in Library!Lister : run.state = "present" =>
                 /\ ~lister[k].known.deleted /\ (lister[k].known.over => run.status = "done")
                 /\ run.name >= lister[k].known.name /\ run.results >= lister[k].known.results
<1> DEFINE run == Library!Summarize(directory)
<1>1. directory \in RunType /\ directory.state # "none" /\ directory.name \in Nat /\ directory.results \in Nat
  BY Types DEF LibraryTypes, Directory, RunType
<1>2. /\ run \in RunType /\ run.state = directory.state
      /\ directory.state = "present" => /\ run.name = directory.name /\ run.results = directory.results
                                        /\ run.status = Library!Recorded(directory.status)
  <2>1. CASE directory.state = "absent"
    BY <2>1, AbsentIs DEF Library!Summarize
  <2>2. CASE directory.state = "present"
    <3>1. directory.status \in {"none", "running", "interrupted", "done"}
      BY <1>1 DEF RunType
    <3>2. Library!Recorded(directory.status) \in {"none", "running", "interrupted", "done"}
      BY <3>1 DEF Library!Recorded
    <3>3. run = [directory EXCEPT !.status = Library!Recorded(directory.status)]
      BY <2>2 DEF Library!Summarize
    <3> QED
      BY <1>1, <3>2, <3>3 DEF RunType
  <2> QED
    BY <1>1, <2>1, <2>2 DEF RunType
<1> HIDE DEF run
<1>3. writer = "done" /\ directory.state = "present" => Library!Recorded(directory.status) = "done"
  BY Types DEF Directory, Library!Recorded
<1>4. ASSUME NEW k \in Library!Lister, run.state = "present"
      PROVE  /\ ~lister[k].known.deleted /\ (lister[k].known.over => run.status = "done")
             /\ run.name >= lister[k].known.name /\ run.results >= lister[k].known.results
  <2>1. Heard(lister[k].known, directory, writer, lister) /\ directory.state = "present"
    BY <1>2, <1>4, Types
  <2>2. lister[k].known.name \in Nat /\ lister[k].known.results \in Nat
    BY Types, RequestIs
  <2>3. lister[k].known.name <= directory.name /\ lister[k].known.results <= directory.results
    BY <2>1 DEF Heard
  <2>4. ~lister[k].known.deleted /\ (lister[k].known.over => writer = "done")
    BY <2>1, Types DEF Heard, Deleting
  <2> QED
    BY <1>1, <1>2, <1>3, <2>1, <2>2, <2>3, <2>4
<1>5. Shows(run, directory, writer, lister)
  <2>1. run.state = "present" => ~Gone(lister)
    BY <1>2, Types DEF Deleting
  <2>2. run.state = "present" => \A k \in LibraryListers : run.name >= lister[k].known.name
    BY <1>4, Types
  <2> QED
    BY <1>1, <1>2, <1>3, <2>1, <2>2 DEF Shows
<1> QED
  BY <1>1, <1>2, <1>4, <1>5 DEF run, RunType

LEMMA DiscoverKeeps ==
  ASSUME ListersAssumption, ListInv, NEW l \in Library!Lister, Library!Discover(l)
  PROVE  ListInv'
<1> DEFINE run == Library!Summarize(directory)
           p == [lister[l] EXCEPT !.place = "store", !.run = run]
<1>1. /\ lister[l].place = "walk" /\ lister' = [lister EXCEPT ![l] = p]
      /\ UNCHANGED <<directory, writer, listGeneration, index, scans, scanning, refreshing>>
  <2>1. lister \in [Library!Lister -> RequestType]
    BY Types
  <2> QED
    BY <2>1 DEF Library!Discover
<1>2. run \in RunType /\ (writer = "none" => run.state # "present")
  <2>1. writer = "none" => run = Library!Absent
    BY Types DEF Before, Library!Summarize
  <2> QED
    BY <2>1, ReadShows, AbsentIs
<1>9. run.state # "none" /\ Shows(run, directory, writer, lister)
  BY ReadShows
<1>10. \A k \in Library!Lister : run.state = "present" =>
         /\ ~lister[k].known.deleted /\ (lister[k].known.over => run.status = "done")
         /\ run.name >= lister[k].known.name /\ run.results >= lister[k].known.results
  BY ReadShows
<1> HIDE DEF run
<1>3. /\ p \in RequestType /\ p.place = "store" /\ p.run = run /\ p.forced = lister[l].forced
      /\ p.known = lister[l].known /\ p.walked = lister[l].walked
  <2>1. lister[l] \in RequestType
    BY Types
  <2> QED
    BY <1>2, <2>1 DEF RequestType, PlaceType
<1> HIDE DEF p
<1>4. Locked'
  <2>1. scanning = l
    BY <1>1, Types DEF Locked
  <2> QED
    BY <1>1, <1>3, <2>1, MovedLocked
<1>5. Judged(p, writer)
  BY <1>3, <1>9 DEF Judged
<1>6. Satisfied(p) /\ Timely(p, index.run, index.started)
  BY <1>3, <1>10 DEF Satisfied, Timely
<1>7. \A k \in LibraryListers : Timely(lister[k], p.run, scans)
  BY <1>3, <1>10, Types DEF Timely
<1>8. \A h \in Library!Lister : Timely(p, lister[h].run, scans)
  BY <1>3 DEF Timely
<1> QED
  BY <1>1, <1>2, <1>3, <1>4, <1>5, <1>6, <1>7, <1>8, <1>9, ListSays, Moved

LEMMA OverlayJobsKeeps ==
  ASSUME ListersAssumption, ListInv, NEW l \in LibraryListers, Library!OverlayJobs(l)
  PROVE  ListInv'
<1> DEFINE run == Library!Overlay(lister[l].run)
           p == [lister[l] EXCEPT !.place = lister[l].wants, !.run = run]
<1>0. l \in Library!Lister /\ lister[l] \in RequestType
  BY Types
<1>1. /\ lister[l].place = "overlay" /\ lister' = [lister EXCEPT ![l] = p]
      /\ UNCHANGED <<directory, writer, listGeneration, index, scans, scanning, refreshing>>
  <2>1. lister \in [Library!Lister -> RequestType]
    BY Types
  <2> QED
    BY <2>1 DEF Library!OverlayJobs
<1>2. /\ run \in RunType /\ run.state = lister[l].run.state /\ run.name = lister[l].run.name
      /\ run.results = lister[l].run.results
      /\ run.status = lister[l].run.status \/ (run.status = "running" /\ writer = "running")
      /\ writer = "running" /\ run.state = "present" => run.status = "running"
  <2>1. lister[l].run \in RunType
    BY <1>0, RequestIs
  <2> QED
    BY <2>1 DEF Library!Overlay, RunType
<1> HIDE DEF run
<1>3. /\ p \in RequestType /\ p.place = lister[l].wants /\ p.run = run /\ p.forced = lister[l].forced
      /\ p.known = lister[l].known /\ p.walked = lister[l].walked /\ p.wants = lister[l].wants
      /\ p.place \in {"answered", "rename", "delete"}
  <2> DEFINE w == lister[l].wants
  <2>1. w \in PlaceType /\ w \in {"answered", "rename", "delete"}
    BY <1>0, RequestIs DEF PlaceType
  <2>2. p = [lister[l] EXCEPT !.place = w, !.run = run]
    OBVIOUS
  <2> HIDE DEF w, p
  <2>3. p \in RequestType /\ p.place = w /\ p.run = run /\ p.forced = lister[l].forced
        /\ p.known = lister[l].known /\ p.walked = lister[l].walked /\ p.wants = lister[l].wants
    BY <1>0, <1>2, <2>1, <2>2 DEF RequestType
  <2> QED
    BY <2>1, <2>3 DEF w
<1> HIDE DEF p
<1>4. Locked'
  BY <1>0, <1>1, <1>3, MovedLocked
<1>5. Judged(p, writer)
  BY <1>0, <1>2, <1>3, Types DEF Judged
<1>6. Satisfied(p)
  <2>1. Satisfied(lister[l]) /\ Heard(lister[l].known, directory, writer, lister)
    BY <1>0, ListSays, Types
  <2> QED
    BY <1>1, <1>2, <1>3, <2>1 DEF Satisfied, Heard
<1>7. \A r, since : Timely(p, r, since)
  BY <1>3 DEF Timely
<1> QED
  BY <1>0, <1>1, <1>2, <1>3, <1>4, <1>5, <1>6, <1>7, ListSays, Moved

LEMMA LibraryRefusedKeeps ==
  ASSUME ListersAssumption, ListInv, NEW l \in LibraryListers, Library!LibraryRefused(l)
  PROVE  ListInv'
<1> DEFINE p == [Library!Resting EXCEPT !.place = "refused"]
<1>0. l \in Library!Lister /\ lister[l] \in RequestType
  BY Types
<1>1. /\ lister[l].place \in {"rename", "delete"} /\ lister' = [lister EXCEPT ![l] = p]
      /\ UNCHANGED <<directory, writer, listGeneration, index, scans, scanning, refreshing>>
  BY DEF Library!LibraryRefused
<1>2. /\ p \in RequestType /\ p.place = "refused" /\ p.run = Library!Absent /\ p.walked = 0
      /\ p.known.name = 0 /\ p.known.results = 0 /\ p.known.over = FALSE /\ p.known.deleted = FALSE
  <2>0. p = [Library!Resting EXCEPT !.place = "refused"]
    OBVIOUS
  <2>1. p = Rest("refused", "answered")
    BY <2>0, RefusedIs
  <2>2. "refused" \in PlaceType
    BY DEF PlaceType
  <2> HIDE DEF p
  <2> QED
    BY <2>1, <2>2, RestingIs
<1> HIDE DEF p
<1>3. Locked'
  BY <1>0, <1>1, <1>2, MovedLocked
<1>4. Judged(p, writer) /\ Satisfied(p) /\ \A r, since : Timely(p, r, since)
  BY <1>2, AbsentIs DEF Judged, Satisfied, Timely
<1>5. p.walked <= listGeneration /\ p.run.state # "present"
  BY <1>2, ListSays, AbsentIs
<1> QED
  BY <1>0, <1>1, <1>2, <1>3, <1>4, <1>5, ListSays, Moved

\* Where a scan leaves a request.
LEMMA ScannedIs ==
  ASSUME ListersAssumption, ListInv, NEW l \in Library!Lister, NEW run \in RunType, Library!Scanned(l, run)
  PROVE  \E p \in RequestType :
           /\ lister' = [lister EXCEPT ![l] = p] /\ p.walked = 0
           /\ \/ /\ l \notin LibraryListers /\ p.place = "idle" /\ p.run = Library!Absent
                 /\ p.known.name = 0 /\ p.known.results = 0 /\ ~p.known.over /\ ~p.known.deleted
              \/ /\ l \in LibraryListers /\ p.place = "overlay" /\ p.run = run
                 /\ p.known = lister[l].known /\ p.forced = lister[l].forced
                 /\ p.wants = lister[l].wants
<1>1. lister[l] \in RequestType
  BY Types
<1>2. CASE l = "refresher"
  <2>1. Library!Resting = Rest("idle", "answered")
    BY DEF Rest, Library!Resting
  <2>2. "idle" \in PlaceType
    BY DEF PlaceType
  <2>3. /\ Library!Resting \in RequestType /\ Library!Resting.place = "idle" /\ Library!Resting.run = Library!Absent
        /\ Library!Resting.walked = 0 /\ Library!Resting.known.name = 0 /\ Library!Resting.known.results = 0
        /\ ~Library!Resting.known.over /\ ~Library!Resting.known.deleted
    BY <2>1, <2>2, RestingIs
  <2>4. lister' = [lister EXCEPT ![l] = Library!Resting] /\ l \notin LibraryListers
    BY <1>2 DEF Library!Scanned, ListersAssumption
  <2> QED
    BY <2>3, <2>4
<1>3. CASE l # "refresher"
  <2> DEFINE p == [lister[l] EXCEPT !.place = "overlay", !.run = run, !.walked = 0, !.requested = 0]
  <2>1. lister' = [lister EXCEPT ![l] = p] /\ l \in LibraryListers
    <3>1. lister \in [Library!Lister -> RequestType]
      BY Types
    <3> QED
      BY <1>3, <3>1 DEF Library!Scanned, Library!Lister
  <2>2. /\ p \in RequestType /\ p.place = "overlay" /\ p.run = run /\ p.walked = 0
        /\ p.known = lister[l].known /\ p.forced = lister[l].forced /\ p.wants = lister[l].wants
    BY <1>1 DEF RequestType, PlaceType
  <2> HIDE DEF p
  <2> QED
    BY <2>1, <2>2
<1> QED
  BY <1>2, <1>3

\* A scan ends: the request has a list that shows what it knew.
LEMMA ScanEnds ==
  ASSUME ListersAssumption, ListInv, NEW l \in Library!Lister, NEW run \in RunType, Library!Scanned(l, run), scanning = l,
         run.state # "none", writer = "none" => run.state # "present",
         lister[l].place # "done", refreshing' \in BOOLEAN,
         UNCHANGED <<directory, writer, listGeneration, scans>>,
         index' \in [run : RunType, scanned : Nat, started : Nat],
         index'.scanned <= listGeneration, index'.started <= scans,
         writer = "none" => index'.run.state # "present",
         index'.scanned = listGeneration /\ index'.run.state # "none" =>
           Shows(index'.run, directory, writer, lister),
         l \in LibraryListers /\ run.state = "present" =>
           /\ ~lister[l].known.deleted /\ (lister[l].known.over => run.status = "done")
           /\ run.name >= lister[l].known.name
           /\ lister[l].forced => run.results >= lister[l].known.results,
         \A k \in LibraryListers : k # l => Timely(lister[k], index'.run, index'.started)
  PROVE  ListInv'
<1>1. PICK p \in RequestType :
           /\ lister' = [lister EXCEPT ![l] = p] /\ p.walked = 0
           /\ \/ /\ l \notin LibraryListers /\ p.place = "idle" /\ p.run = Library!Absent
                 /\ p.known.name = 0 /\ p.known.results = 0 /\ ~p.known.over /\ ~p.known.deleted
              \/ /\ l \in LibraryListers /\ p.place = "overlay" /\ p.run = run
                 /\ p.known = lister[l].known /\ p.forced = lister[l].forced
                 /\ p.wants = lister[l].wants
  BY ScannedIs
<1>2. Locked'
  BY <1>1, MovedLocked
<1>3. Judged(p, writer) /\ (l \in LibraryListers => Satisfied(p)) /\ \A r, since : Timely(p, r, since)
  BY <1>1, AbsentIs DEF Judged, Satisfied, Timely
<1>4. p.walked <= listGeneration /\ (writer = "none" => p.run.state # "present")
  BY <1>1, ListSays, AbsentIs
<1> QED
  BY <1>1, <1>2, <1>3, <1>4, ListSays, Moved

LEMMA ShareKeeps ==
  ASSUME ListersAssumption, ListInv, NEW l \in Library!Lister, Library!Share(l)
  PROVE  ListInv'
<1>1. /\ lister[l].place = "decide" /\ index.run.state # "none" /\ index.started > lister[l].requested
      /\ index.scanned = listGeneration /\ Library!Scanned(l, index.run)
      /\ refreshing' = (refreshing /\ l # "refresher")
      /\ UNCHANGED <<directory, writer, listGeneration, index, scans>>
  BY DEF Library!Share, Library!Dirty
<1>2. scanning = l /\ index.run \in RunType /\ refreshing' \in BOOLEAN
  BY <1>1, Types, ListSays DEF Locked
<1>3. Shows(index.run, directory, writer, lister)
  BY <1>1, ListSays
<1>4. ASSUME l \in LibraryListers, index.run.state = "present"
      PROVE  /\ ~lister[l].known.deleted /\ (lister[l].known.over => index.run.status = "done")
             /\ index.run.name >= lister[l].known.name
             /\ lister[l].forced => index.run.results >= lister[l].known.results
  <2>1. Timely(lister[l], index.run, index.started) /\ Heard(lister[l].known, directory, writer, lister)
    BY <1>4, ListSays, Types
  <2>2. lister[l].requested < index.started
    BY <1>1, ListSays, RequestIs
  <2> QED
    BY <1>1, <1>3, <1>4, <2>1, <2>2 DEF Timely, Heard, Shows
<1>5. writer = "none" => index.run.state # "present"
  BY ListSays
<1> QED
  BY <1>1, <1>2, <1>3, <1>4, <1>5, ListSays, ScanEnds

LEMMA StoreKeeps ==
  ASSUME ListersAssumption, ListInv, NEW l \in Library!Lister, Library!Store(l)
  PROVE  ListInv'
<1> DEFINE run == lister[l].run
<1>1. /\ lister[l].place = "store" /\ Library!Scanned(l, run)
      /\ index' = [run |-> run, scanned |-> lister[l].walked, started |-> scans]
      /\ refreshing' = (refreshing /\ l # "refresher")
      /\ UNCHANGED <<directory, writer, listGeneration, scans>>
  BY DEF Library!Store
<1>2. scanning = l /\ run \in RunType /\ refreshing' \in BOOLEAN /\ lister[l].walked \in Nat
  BY <1>1, Types, ListSays, RequestIs DEF Locked
<1>3. /\ index' \in [run : RunType, scanned : Nat, started : Nat] /\ index'.run = run
      /\ index'.scanned = lister[l].walked /\ index'.started = scans
  BY <1>1, <1>2, ListSays
<1>4. index'.scanned = listGeneration => Shows(run, directory, writer, lister)
  BY <1>1, <1>3 DEF ListInv
<1>5. ASSUME l \in LibraryListers, run.state = "present"
      PROVE  /\ ~lister[l].known.deleted /\ (lister[l].known.over => run.status = "done")
             /\ run.name >= lister[l].known.name
             /\ lister[l].forced => run.results >= lister[l].known.results
  BY <1>1, <1>5, ListSays DEF Satisfied
<1>6. \A k \in LibraryListers : Timely(lister[k], run, scans)
  BY <1>1, ListSays
<1>7. run.state # "none" /\ (writer = "none" => run.state # "present") /\ lister[l].walked <= listGeneration
  BY Types, ListSays DEF Judged
<1> QED
  BY <1>1, <1>2, <1>3, <1>4, <1>5, <1>6, <1>7, ListSays, ScanEnds

LEMMA DeleteKeeps ==
  ASSUME ListersAssumption, ListInv, NEW l \in LibraryListers, Library!Delete(l)
  PROVE  ListInv'
<1> DEFINE p == [lister[l] EXCEPT !.place = "deleted"]
<1>0. l \in Library!Lister /\ lister[l] \in RequestType
  BY Types
<1>1. /\ lister[l].place = "delete" /\ ~Library!Refused(l) /\ directory' = Library!Absent
      /\ lister' = [lister EXCEPT ![l] = p]
      /\ UNCHANGED <<writer, listGeneration, index, scans, scanning, refreshing>>
  BY DEF Library!Delete, Library!At
<1>2. /\ p \in RequestType /\ p.place = "deleted" /\ p.run = lister[l].run
      /\ p.known = lister[l].known /\ p.walked = lister[l].walked
  <2>1. "deleted" \in PlaceType
    BY DEF PlaceType
  <2> QED
    BY <1>0, <2>1, PlaceIs
<1> HIDE DEF p
<1>3. writer \notin {"none", "running"}
  <2>1. lister[l].run.state = "present" /\ lister[l].run.status # "running"
    BY <1>0, <1>1, RequestIs, Types DEF Library!Refused, Judged
  <2> QED
    BY <1>0, <1>1, <2>1, Types, ListSays DEF Judged
<1>4. Locked'
  BY <1>0, <1>1, <1>2, MovedLocked
<1>5. Judged(p, writer) /\ Satisfied(p) /\ \A r, since : Timely(p, r, since)
  BY <1>0, <1>2, Types DEF Judged, Satisfied, Timely
<1> QED
  BY <1>0, <1>1, <1>2, <1>3, <1>4, <1>5, AbsentIs, ListSays, Moved

----------------------------------------------------------------------------
(* What the job does, and what is announced.                                *)

\* No list reflects a generation that has just begun.
LEMMA Elsewhere ==
  ASSUME ListInv, UNCHANGED <<lister, index, scans, scanning, refreshing>>, directory' \in RunType,
         writer' \in {"none", "running", "over", "done"},
         \/ listGeneration' = listGeneration + 1
         \/ listGeneration' = listGeneration /\ (writer' = "done" => writer = "done") /\ directory'.name <= directory.name,
         Directory', Before', Deleting',
         \A k \in Library!Lister : Heard(lister[k].known, directory', writer', lister) /\ Judged(lister[k], writer')
  PROVE  ListInv'
<1>1. lister \in [Library!Lister -> RequestType] /\ directory \in RunType /\ listGeneration \in Nat
  BY Types DEF LibraryTypes
<1>2. LibraryTypes' /\ Locked' /\ Clocks'
  <2>1. /\ index.scanned \in Nat /\ listGeneration' \in Nat /\ listGeneration <= listGeneration'
        /\ \A k \in Library!Lister : lister[k].walked \in Nat
    BY <1>1, ListSays, RequestIs
  <2> QED
    BY <1>1, <2>1, Types DEF LibraryTypes, Locked, Clocks
<1>3. ASSUME NEW run \in RunType, NEW g \in Nat, g <= listGeneration, g = listGeneration',
             g = listGeneration => Shows(run, directory, writer, lister)
      PROVE  Shows(run, directory', writer', lister)
  <2>1. listGeneration' = listGeneration /\ (writer' = "done" => writer = "done") /\ directory'.name <= directory.name
    BY <1>1, <1>3
  <2>2. \A k \in LibraryListers : lister[k].known.name <= lister[k].known.name
    BY <1>1, RequestIs, Types
  <2> QED
    BY <1>1, <1>3, <2>1, <2>2, ShowsOn
<1>4. index.scanned = listGeneration' /\ index.run.state # "none" => Shows(index.run, directory', writer', lister)
  <2>1. index.run \in RunType /\ index.scanned \in Nat /\ index.scanned <= listGeneration
    BY ListSays
  <2> QED
    BY <1>3, <2>1, ListSays
<1>5. ASSUME NEW k \in Library!Lister, lister[k].place = "store", lister[k].walked = listGeneration'
      PROVE  Shows(lister[k].run, directory', writer', lister)
  <2>1. lister[k].run \in RunType /\ lister[k].walked \in Nat /\ lister[k].walked <= listGeneration
    BY ListSays, RequestIs
  <2>2. lister[k].walked = listGeneration => Shows(lister[k].run, directory, writer, lister)
    BY <1>5 DEF ListInv
  <2> QED
    BY <1>3, <1>5, <2>1, <2>2
<1> QED
  BY <1>2, <1>4, <1>5, ListSays DEF ListInv

LEMMA WriterStartsKeeps == ASSUME ListInv, Library!StartJob PROVE ListInv'
<1>1. /\ writer = "none" /\ writer' = "running" /\ listGeneration' = listGeneration + 1
      /\ directory' = [state |-> "present", results |-> 0, name |-> 0, status |-> "running"]
      /\ UNCHANGED <<lister, index, scans, scanning, refreshing>>
  BY DEF Library!StartJob
<1>2. directory' \in RunType /\ Directory' /\ Before'
  BY <1>1 DEF RunType, Directory, Before
<1>3. Deleting'
  <2>1. \A k \in Library!Lister : lister[k].place \notin {"deleted", "done"}
    BY <1>1, Types DEF Before
  <2> QED
    BY <1>1, <2>1, Types DEF Deleting, Gone
<1>4. ASSUME NEW k \in Library!Lister
      PROVE  Heard(lister[k].known, directory', writer', lister) /\ Judged(lister[k], writer')
  BY <1>1, Types DEF Heard, Judged, Before
<1> QED
  BY <1>1, <1>2, <1>3, <1>4, Elsewhere

LEMMA AppendResultKeeps == ASSUME ListInv, Library!AppendResult PROVE ListInv'
<1>1. /\ writer = "running" /\ writer' = writer /\ listGeneration' = listGeneration
      /\ directory' = [directory EXCEPT !.results = @ + 1]
      /\ UNCHANGED <<lister, index, scans, scanning, refreshing>>
  BY DEF Library!AppendResult, Library!list
<1>2. directory \in RunType /\ directory.name \in Nat /\ directory.results \in Nat
  BY Types DEF LibraryTypes, RunType
<1>3. /\ directory' \in RunType /\ directory'.state = directory.state /\ directory'.name = directory.name
      /\ directory'.results = directory.results + 1 /\ directory'.status = directory.status
  <2> DEFINE n == directory.results + 1
  <2>1. n \in Nat /\ directory' = [directory EXCEPT !.results = n] /\ n = directory.results + 1
    BY <1>1, <1>2
  <2> HIDE DEF n
  <2> QED
    BY <1>2, <2>1 DEF RunType
<1>4. Directory' /\ Before'
  BY <1>1, <1>3, Types DEF Directory, Before
<1>5. Deleting'
  BY <1>1, <1>3, Types DEF Deleting
<1>6. ASSUME NEW k \in Library!Lister
      PROVE  Heard(lister[k].known, directory', writer', lister) /\ Judged(lister[k], writer')
  <2>1. lister[k].known \in KnownType /\ Heard(lister[k].known, directory, writer, lister)
    BY Types, RequestIs
  <2>2. directory.name <= directory'.name /\ directory.results <= directory'.results
    BY <1>2, <1>3
  <2>3. Heard(lister[k].known, directory', writer', lister)
    BY <1>1, <1>2, <1>3, <2>1, <2>2, HeardOn
  <2> QED
    BY <1>1, <2>3, Types
<1> QED
  BY <1>1, <1>2, <1>3, <1>4, <1>5, <1>6, Elsewhere

LEMMA WriterEndsKeeps == ASSUME ListInv, Library!JobEnds PROVE ListInv'
<1>1. /\ writer = "running" /\ writer' = "over" /\ listGeneration' = listGeneration
      /\ directory' = [directory EXCEPT !.status = "done"]
      /\ UNCHANGED <<lister, index, scans, scanning, refreshing>>
  BY DEF Library!JobEnds, Library!list
<1>2. directory \in RunType /\ directory.name \in Nat /\ directory.results \in Nat
  BY Types DEF LibraryTypes, RunType
<1>3. /\ directory' \in RunType /\ directory'.state = directory.state /\ directory'.name = directory.name
      /\ directory'.results = directory.results /\ directory'.status = "done"
  BY <1>1, <1>2 DEF RunType
<1>4. Directory' /\ Before'
  BY <1>1, <1>3, Types DEF Directory, Before
<1>5. Deleting'
  BY <1>1, <1>3, Types DEF Deleting
<1>6. ASSUME NEW k \in Library!Lister
      PROVE  Heard(lister[k].known, directory', writer', lister) /\ Judged(lister[k], writer')
  <2>1. lister[k].known \in KnownType /\ Heard(lister[k].known, directory, writer, lister)
    BY Types, RequestIs
  <2>2. directory.name <= directory'.name /\ directory.results <= directory'.results
    BY <1>2, <1>3
  <2>3. writer = "done" => writer' = "done"
    BY <1>1
  <2>4. Heard(lister[k].known, directory', writer', lister)
    BY <1>2, <1>3, <2>1, <2>2, <2>3, HeardOn
  <2> QED
    BY <1>1, <2>4, Types DEF Judged
<1> QED
  BY <1>1, <1>2, <1>3, <1>4, <1>5, <1>6, Elsewhere

LEMMA InvalidateKeeps == ASSUME ListInv, Library!Invalidate PROVE ListInv'
<1>1. /\ writer = "over" /\ writer' = "done" /\ listGeneration' = listGeneration + 1 /\ directory' = directory
      /\ UNCHANGED <<lister, index, scans, scanning, refreshing>>
  BY DEF Library!Invalidate
<1>2. directory \in RunType
  BY Types DEF LibraryTypes
<1>4. Directory' /\ Before' /\ Deleting'
  BY <1>1, Types DEF Directory, Before, Deleting
<1>6. ASSUME NEW k \in Library!Lister
      PROVE  Heard(lister[k].known, directory', writer', lister) /\ Judged(lister[k], writer')
  BY <1>1, Types DEF Heard, Judged
<1> QED
  BY <1>1, <1>2, <1>4, <1>6, Elsewhere

\* A change is announced: the request that made it is done, and every list is behind.
LEMMA Announced ==
  ASSUME ListInv, NEW l \in LibraryListers, lister[l].place \in {"rename", "deleted"},
         lister' = [lister EXCEPT ![l] = [Library!Resting EXCEPT !.place = "done", !.wants = lister[l].wants]],
         listGeneration' = listGeneration + 1, UNCHANGED <<writer, index, scans, scanning, refreshing>>,
         \/ directory' = directory
         \/ directory.state = "present" /\ directory' = [directory EXCEPT !.name = @ + 1],
         lister[l].place = "deleted" => directory' = directory,
         lister[l].place = "rename" => ~Library!Refused(l)
  PROVE  ListInv'
<1> DEFINE p == [Library!Resting EXCEPT !.place = "done", !.wants = lister[l].wants]
<1>0. /\ l \in Library!Lister /\ lister[l] \in RequestType /\ lister \in [Library!Lister -> RequestType]
      /\ directory \in RunType /\ directory.name \in Nat /\ directory.results \in Nat /\ listGeneration \in Nat
  BY Types DEF LibraryTypes, RunType
<1>1. /\ p \in RequestType /\ p.place = "done" /\ p.wants = lister[l].wants
      /\ p.known.name = 0 /\ p.known.results = 0 /\ p.known.over = FALSE /\ p.known.deleted = FALSE
      /\ p.run = Library!Absent /\ p.walked = 0
  <2>1. "done" \in PlaceType /\ lister[l].wants \in {"answered", "rename", "delete"}
    BY <1>0, RequestIs DEF PlaceType
  <2>0. p = [Library!Resting EXCEPT !.place = "done", !.wants = lister[l].wants]
    OBVIOUS
  <2>2. p = Rest("done", lister[l].wants)
    BY <2>0, DoneIs
  <2> HIDE DEF p
  <2> QED
    BY <2>1, <2>2, RestingIs
<1>2. lister' = [lister EXCEPT ![l] = p]
  OBVIOUS
<1> HIDE DEF p
<1>3. /\ lister' \in [Library!Lister -> RequestType] /\ lister'[l] = p
      /\ \A k \in Library!Lister : k # l => lister'[k] = lister[k]
  BY <1>0, <1>1, <1>2
<1>4. /\ directory' \in RunType /\ directory'.state = directory.state /\ directory'.status = directory.status
      /\ directory'.results = directory.results /\ directory.name <= directory'.name
  <2>1. CASE directory' = directory
    BY <1>0, <2>1
  <2>2. CASE directory' = [directory EXCEPT !.name = @ + 1]
    <3> DEFINE n == directory.name + 1
    <3>1. n \in Nat /\ directory' = [directory EXCEPT !.name = n] /\ directory.name <= n
      BY <1>0, <2>2
    <3> HIDE DEF n
    <3> QED
      BY <1>0, <3>1 DEF RunType
  <2> QED
    BY <2>1, <2>2
<1>5. writer # "none" /\ (directory' # directory => writer # "running")
  <2>1. CASE lister[l].place = "deleted"
    BY <1>0, <2>1, Types DEF Before
  <2>2. CASE lister[l].place = "rename"
    <3>1. lister[l].run.state = "present" /\ lister[l].run.status # "running"
      BY <1>0, <2>2, RequestIs, Types DEF Library!Refused, Judged
    <3> QED
      BY <1>0, <2>2, <3>1, Types, ListSays DEF Judged
  <2> QED
    BY <2>1, <2>2
<1>6. LibraryTypes'
  BY <1>0, <1>3, <1>4, Types DEF LibraryTypes
<1>7. Directory' /\ Before'
  <2>1. directory.state = "absent" => directory' = directory
    OBVIOUS
  <2> QED
    BY <1>4, <1>5, <2>1, Types DEF Directory, Before
<1>8. Gone(lister) => Gone(lister')
  <2>1. SUFFICES ASSUME NEW k \in LibraryListers, lister[k].place = "done", lister[k].wants = "delete"
        PROVE  Gone(lister')
    BY DEF Gone
  <2>2. lister'[k] = lister[k]
    BY <1>3, <2>1, Types
  <2> QED
    BY <2>1, <2>2 DEF Gone
<1>9. Deleting'
  <2>1. \A k \in LibraryListers : /\ lister'[k].place = "deleted" => directory'.state = "absent"
                                  /\ lister'[k].place = "rename" => lister'[k].wants = "rename"
    BY <1>1, <1>3, <1>4, Types DEF Deleting
  <2>2. ASSUME Gone(lister') PROVE directory'.state = "absent"
    <3>1. PICK k \in LibraryListers : lister'[k].place = "done" /\ lister'[k].wants = "delete"
      BY <2>2 DEF Gone
    <3>2. CASE k = l
      <4>1. lister[l].place = "deleted"
        BY <1>1, <1>3, <3>1, <3>2, Types DEF Deleting
      <4> QED
        BY <1>4, <4>1, Types DEF Deleting
    <3>3. CASE k # l
      <4>1. Gone(lister)
        BY <1>3, <3>1, <3>3, Types DEF Gone
      <4> QED
        BY <1>4, <4>1, Types DEF Deleting
    <3> QED
      BY <3>2, <3>3
  <2> QED
    BY <2>1, <2>2 DEF Deleting
<1>10. Locked'
  BY <1>1, <1>3, Types DEF Locked
<1>11. /\ index.scanned <= listGeneration /\ index.scanned \in Nat
       /\ \A k \in Library!Lister : lister'[k].walked \in Nat /\ lister'[k].walked <= listGeneration
  <2>1. ASSUME NEW k \in Library!Lister PROVE lister'[k].walked \in Nat /\ lister'[k].walked <= listGeneration
    <3>1. CASE k = l
      <4>1. lister'[k].walked = 0
        BY <1>1, <1>3, <3>1
      <4> QED
        BY <1>0, <4>1
    <3>2. CASE k # l
      <4>1. lister'[k] = lister[k] /\ lister[k] \in RequestType
        BY <1>0, <1>3, <3>2
      <4> QED
        BY <4>1, ListSays, RequestIs
    <3> QED
      BY <3>1, <3>2
  <2> QED
    BY <2>1, ListSays
<1>12. Clocks' /\ index.scanned # listGeneration' /\ \A k \in Library!Lister : lister'[k].walked # listGeneration'
  <2>1. ASSUME NEW n \in Nat, n <= listGeneration PROVE n <= listGeneration' /\ n # listGeneration'
    BY <1>0, <2>1
  <2> QED
    BY <1>11, <2>1, ListSays DEF Clocks
<1>13. ASSUME NEW k \in Library!Lister
       PROVE  Heard(lister'[k].known, directory', writer', lister') /\ Judged(lister'[k], writer')
  <2>1. CASE k = l
    <3>1. directory'.name \in Nat /\ directory'.results \in Nat
      BY <1>4 DEF RunType
    <3>2. Heard(p.known, directory', writer', lister')
      BY <1>1, <3>1 DEF Heard
    <3>3. Judged(p, writer')
      BY <1>1, AbsentIs DEF Judged
    <3> QED
      BY <1>3, <2>1, <3>2, <3>3
  <2>2. CASE k # l
    <3>1. lister[k].known \in KnownType
      BY <1>0, RequestIs
    <3>2. directory.results <= directory'.results
      BY <1>0, <1>4
    <3>3. Heard(lister[k].known, directory', writer', lister')
      BY <1>0, <1>4, <1>8, <3>1, <3>2, Types, HeardOn
    <3> QED
      BY <1>3, <2>2, <3>3, Types DEF Judged
  <2> QED
    BY <2>1, <2>2
<1>14. ASSUME NEW k \in LibraryListers
       PROVE  /\ Satisfied(lister'[k]) /\ Timely(lister'[k], index.run, index.started)
              /\ \A h \in Library!Lister : lister'[h].place = "store" =>
                   Timely(lister'[k], lister'[h].run, scans)
  <2>1. CASE k = l
    BY <1>1, <1>3, <2>1 DEF Satisfied, Timely
  <2>2. CASE k # l
    BY <1>1, <1>3, <2>2, ListSays, Types
  <2> QED
    BY <2>1, <2>2
<1> QED
  BY <1>6, <1>7, <1>9, <1>10, <1>12, <1>13, <1>14 DEF ListInv

LEMMA RenameKeeps == ASSUME ListInv, NEW l \in LibraryListers, Library!Rename(l) PROVE ListInv'
<1>1. /\ lister[l].place = "rename" /\ ~Library!Refused(l) /\ listGeneration' = listGeneration + 1
      /\ lister' = [lister EXCEPT ![l] = [Library!Resting EXCEPT !.place = "done", !.wants = lister[l].wants]]
      /\ UNCHANGED <<writer, index, scans, scanning, refreshing>>
      /\ \/ directory' = directory
         \/ directory.state = "present" /\ directory' = [directory EXCEPT !.name = @ + 1]
  BY DEF Library!Rename
<1> QED
  BY <1>1, Announced

LEMMA DeletedKeeps == ASSUME ListInv, NEW l \in LibraryListers, Library!Deleted(l) PROVE ListInv'
<1>1. /\ lister[l].place = "deleted" /\ listGeneration' = listGeneration + 1 /\ directory' = directory
      /\ lister' = [lister EXCEPT ![l] = [Library!Resting EXCEPT !.place = "done", !.wants = lister[l].wants]]
      /\ UNCHANGED <<writer, index, scans, scanning, refreshing>>
  BY DEF Library!Deleted
<1> QED
  BY <1>1, Announced

\* A request takes the list as it is, or goes for the lock; the refresher may do so behind it.
LEMMA IndexKeeps ==
  ASSUME ListersAssumption, ListInv, NEW l \in LibraryListers, NEW force \in BOOLEAN,
         NEW wants \in {"answered", "rename", "delete"}, Library!Index(l, force, wants)
  PROVE  ListInv'
<1> DEFINE p == [place |-> IF Library!Waits(force) THEN "lock" ELSE "overlay", wants |-> wants,
                 forced |-> force, walked |-> 0, run |-> IF Library!Waits(force) THEN Library!Absent ELSE index.run,
                 requested |-> IF Library!Waits(force) THEN scans ELSE 0, known |-> Library!Known]
           q == lister["refresher"]
<1>0. /\ l \in Library!Lister /\ l # "refresher" /\ "refresher" \in Library!Lister
      /\ lister \in [Library!Lister -> RequestType] /\ q \in RequestType
      /\ directory \in RunType /\ directory.name \in Nat /\ directory.results \in Nat /\ listGeneration \in Nat
      /\ LibraryListers \subseteq Library!Lister /\ \A k \in LibraryListers : k # "refresher"
  BY Types DEF LibraryTypes, RunType, ListersAssumption
<1>1. PICK behind \in BOOLEAN :
        /\ lister' = [lister EXCEPT ![l] = p,
                        !["refresher"] = IF behind
                                         THEN [@ EXCEPT !.place = "lock", !.requested = scans]
                                         ELSE @]
        /\ refreshing' = (refreshing \/ behind)
  BY DEF Library!Index
<1>2. /\ lister[l].place = "idle"
      /\ UNCHANGED <<directory, writer, listGeneration, index, scans, scanning>>
  BY DEF Library!Index
<1>3. /\ Library!Known \in KnownType /\ Library!Known.over = (writer = "done") /\ Library!Known.name = directory.name
      /\ Library!Known.deleted = Gone(lister) /\ Library!Known.results = directory.results
  BY <1>0 DEF Library!Known, KnownType, Gone
<1>4. /\ p \in RequestType /\ p.wants = wants /\ p.forced = force /\ p.walked = 0
      /\ p.known = Library!Known
      /\ p.place = (IF Library!Waits(force) THEN "lock" ELSE "overlay")
      /\ p.run = (IF Library!Waits(force) THEN Library!Absent ELSE index.run)
      /\ p.requested = (IF Library!Waits(force) THEN scans ELSE 0)
  <2>1. index.run \in RunType /\ scans \in Nat
    BY ListSays
  <2>2. (IF Library!Waits(force) THEN Library!Absent ELSE index.run) \in RunType
    BY <2>1, AbsentIs
  <2>3. (IF Library!Waits(force) THEN scans ELSE 0) \in Nat
    BY <2>1
  <2>4. (IF Library!Waits(force) THEN "lock" ELSE "overlay") \in PlaceType
    BY DEF PlaceType
  <2> QED
    BY <1>3, <2>2, <2>3, <2>4 DEF RequestType
<1> HIDE DEF p
<1>5. /\ lister'["refresher"] \in RequestType /\ lister'["refresher"].run = q.run
      /\ lister'["refresher"].walked = q.walked /\ lister'["refresher"].known = q.known
      /\ \/ lister'["refresher"] = q
         \/ lister'["refresher"].place = "lock"
  <2>1. scans \in Nat /\ "lock" \in PlaceType
    BY ListSays DEF PlaceType
  <2>2. lister'["refresher"] = IF behind THEN [q EXCEPT !.place = "lock", !.requested = scans] ELSE q
    BY <1>0, <1>1
  <2>3. ASSUME NEW r \in RequestType, r = [q EXCEPT !.place = "lock", !.requested = scans]
        PROVE  r.run = q.run /\ r.walked = q.walked /\ r.known = q.known /\ r.place = "lock"
    BY <1>0, <2>1, <2>3 DEF RequestType
  <2>4. [q EXCEPT !.place = "lock", !.requested = scans] \in RequestType
    BY <1>0, <2>1 DEF RequestType
  <2>5. CASE behind
    <3> DEFINE r == [q EXCEPT !.place = "lock", !.requested = scans]
    <3>1. r \in RequestType /\ r.run = q.run /\ r.walked = q.walked /\ r.known = q.known /\ r.place = "lock"
      BY <2>3, <2>4
    <3>2. lister'["refresher"] = r
      BY <2>2, <2>5
    <3> HIDE DEF r
    <3> QED
      BY <3>1, <3>2
  <2>6. CASE ~behind
    BY <1>0, <2>2, <2>6
  <2> QED
    BY <2>5, <2>6
<1>6. /\ lister'[l] = p /\ lister' \in [Library!Lister -> RequestType]
      /\ \A k \in LibraryListers : k # l => lister'[k] = lister[k]
  <2>1. lister' \in [Library!Lister -> RequestType]
    <3>1. \A k \in Library!Lister : lister'[k] \in RequestType
      BY <1>0, <1>1, <1>4, <1>5
    <3>2. lister' = [k \in Library!Lister |-> lister'[k]]
      BY <1>0, <1>1
    <3> QED
      BY <3>1, <3>2
  <2> QED
    BY <1>0, <1>1, <2>1
<1>7. \A k \in Library!Lister : k = l \/ lister'[k] = lister[k] \/ (k = "refresher" /\ lister'[k].place = "lock")
  BY <1>0, <1>5, <1>6 DEF Library!Lister
<1>8. Gone(lister') <=> Gone(lister)
  BY <1>0, <1>2, <1>4, <1>6 DEF Gone
<1>9. LibraryTypes'
  BY <1>1, <1>2, <1>6, Types DEF LibraryTypes
<1>10. Directory'
  BY <1>2, Types DEF Directory
<1>11. Before'
  <2>1. SUFFICES ASSUME writer = "none", NEW k \in Library!Lister
        PROVE  /\ lister'[k].run.state # "present" /\ lister'[k].place \notin {"deleted", "done"}
               /\ lister'[k].known.name = 0 /\ lister'[k].known.results = 0
    BY <1>2, Types DEF Before
  <2>2. /\ directory = Library!Absent /\ index.run.state # "present" /\ lister[k].run.state # "present"
        /\ lister[k].place \notin {"deleted", "done"}
        /\ lister[k].known.name = 0 /\ lister[k].known.results = 0
    BY <2>1, Types DEF Before, Directory
  <2>3. CASE k = l
    BY <1>3, <1>4, <1>6, <2>2, <2>3, AbsentIs
  <2>4. CASE k = "refresher"
    BY <1>5, <2>2, <2>4
  <2> QED
    BY <1>7, <2>2, <2>3, <2>4
<1>12. Deleting'
  <2>1. \A k \in LibraryListers : /\ lister'[k].place = "deleted" => directory'.state = "absent"
                                  /\ lister'[k].place = "rename" => lister'[k].wants = "rename"
    BY <1>2, <1>4, <1>6, Types DEF Deleting
  <2> QED
    BY <1>2, <1>8, <2>1, Types DEF Deleting
<1>13. Locked'
  <2>1. SUFFICES ASSUME NEW k \in Library!Lister, lister'[k].place \in {"decide", "walk", "store"}
        PROVE  scanning = k
    BY <1>2 DEF Locked
  <2>2. lister'[k] = lister[k]
    BY <1>4, <1>6, <1>7, <2>1
  <2> QED
    BY <2>1, <2>2, Types DEF Locked
<1>14. Clocks'
  <2>1. \A k \in Library!Lister : lister'[k].walked <= listGeneration
    BY <1>0, <1>4, <1>5, <1>6, <1>7, Types DEF Clocks
  <2> QED
    BY <1>2, <2>1, Types DEF Clocks
<1>15. ASSUME NEW k \in Library!Lister
       PROVE  Heard(lister'[k].known, directory', writer', lister') /\ Judged(lister'[k], writer')
  <2>1. CASE k = l
    <3>1. Heard(p.known, directory', writer', lister')
      <4>1. (Library!Known.deleted => Gone(lister')) /\ (Library!Known.over => writer' = "done")
        BY <1>2, <1>3, <1>8
      <4>2. directory' = directory /\ Library!Known.name <= directory.name /\ Library!Known.results <= directory.results
        BY <1>0, <1>2, <1>3
      <4> QED
        BY <1>4, <4>1, <4>2 DEF Heard
    <3>2. p.run.state # "none"
      BY <1>4, AbsentIs DEF Library!Waits
    <3> QED
      BY <1>4, <1>6, <2>1, <3>1, <3>2 DEF Judged
  <2>2. CASE k # l
    <3>1. Heard(lister[k].known, directory, writer, lister) /\ Judged(lister[k], writer)
      BY Types
    <3>2. Heard(lister[k].known, directory', writer', lister')
      BY <1>2, <1>8, <3>1 DEF Heard
    <3>3. CASE k = "refresher"
      BY <1>2, <1>5, <3>1, <3>2, <3>3 DEF Judged
    <3>4. CASE k # "refresher"
      BY <1>2, <1>7, <2>2, <3>1, <3>2, <3>4
    <3> QED
      BY <3>3, <3>4
  <2> QED
    BY <2>1, <2>2
<1>16. ASSUME NEW run \in RunType, Shows(run, directory, writer, lister)
       PROVE  Shows(run, directory', writer', lister')
  <2>1. \A k \in LibraryListers : \/ lister'[k].known.name <= lister[k].known.name
                                  \/ lister'[k].known.name <= directory.name
    <3>1. SUFFICES ASSUME NEW k \in LibraryListers
          PROVE  \/ lister'[k].known.name <= lister[k].known.name
                 \/ lister'[k].known.name <= directory.name
      OBVIOUS
    <3>2. lister[k].known.name \in Nat
      BY <1>0, RequestIs
    <3> QED
      BY <1>0, <1>3, <1>4, <1>6, <3>2
  <2>2. directory'.name <= directory.name /\ directory' \in RunType /\ (writer' = "done" => writer = "done")
    BY <1>0, <1>2
  <2> QED
    BY <1>0, <1>6, <1>8, <1>16, <2>1, <2>2, ShowsOn
<1>17. index'.scanned = listGeneration' /\ index'.run.state # "none" =>
         Shows(index'.run, directory', writer', lister')
  BY <1>2, <1>16, ListSays
<1>18. ASSUME NEW k \in Library!Lister, lister'[k].place = "store"
       PROVE  lister'[k] = lister[k]
  BY <1>4, <1>6, <1>7, <1>18
<1>19. ASSUME NEW k \in Library!Lister, lister'[k].place = "store", lister'[k].walked = listGeneration'
       PROVE  Shows(lister'[k].run, directory', writer', lister')
  <2>1. lister[k].run \in RunType
    BY <1>0, RequestIs
  <2>2. Shows(lister[k].run, directory, writer, lister)
    BY <1>2, <1>18, <1>19 DEF ListInv
  <2> QED
    BY <1>16, <1>18, <1>19, <2>1, <2>2
<1>20. Satisfied(p) /\ Timely(p, index.run, index.started) /\ \A run : Timely(p, run, scans)
  <2>1. index.started \in Nat /\ scans \in Nat /\ index.started <= scans
    BY ListSays
  <2>2. CASE Library!Waits(force)
    BY <1>4, <2>1, <2>2 DEF Satisfied, Timely
  <2>3. CASE ~Library!Waits(force)
    <3>1. ~force /\ index.scanned = listGeneration /\ index.run.state # "none"
      BY <2>3 DEF Library!Waits, Library!Dirty
    <3>2. Shows(index.run, directory, writer, lister)
      BY <3>1, ListSays
    <3>3. p.place = "overlay" /\ p.run = index.run /\ p.forced = FALSE
      BY <1>4, <2>3, <3>1
    <3> QED
      BY <1>3, <1>4, <3>2, <3>3 DEF Satisfied, Timely, Shows
  <2> QED
    BY <2>2, <2>3
<1>21. ASSUME NEW k \in LibraryListers
       PROVE  /\ Satisfied(lister'[k]) /\ Timely(lister'[k], index'.run, index'.started)
              /\ \A h \in Library!Lister : lister'[h].place = "store" =>
                   Timely(lister'[k], lister'[h].run, scans')
  BY <1>2, <1>6, <1>18, <1>20, ListSays
<1> QED
  BY <1>9, <1>10, <1>11, <1>12, <1>13, <1>14, <1>15, <1>17, <1>19, <1>21 DEF ListInv

----------------------------------------------------------------------------
(* Reports.                                                                 *)

LEMMA ListSame == ASSUME ListInv, UNCHANGED <<directory, writer, Library!list>> PROVE ListInv'
<1>1. UNCHANGED <<directory, writer, listGeneration, index, scans, scanning, refreshing, lister>>
  BY DEF Library!list
<1> QED
  BY <1>1 DEF ListInv, LibraryTypes, Directory, Before, Deleting, Locked, Clocks

\* The run is there only when a job has made it.
LEMMA RunIs ==
  ASSUME ListInv
  PROVE  /\ directory.state = "present" => writer # "none"
         /\ directory.results \in Nat
  BY Types DEF LibraryTypes, RunType, Before

LEMMA ReportIs ==
  ASSUME ReportInv
  PROVE  /\ analysis \in [Library!Stamps -> AnalysisType] /\ reader \in [LibraryReaders -> ReaderType]
         /\ cache \in {Library!NoList} \cup [state : {"kept"}, stamp : Nat, results : Nat]
         /\ writer = "none" => \A n \in Library!Stamps : analysis[n].state = "none"
         /\ \A n \in Library!Stamps : analysis[n] \in AnalysisType /\ Fresh(n, analysis[n], directory, reader)
         /\ Library!ReportsAreCurrent
         /\ \A r \in LibraryReaders : reader[r] \in ReaderType /\ reader[r].asked \in Nat
                               /\ reader[r].got \in Nat
  BY DEF ReportInv, ReaderType

LEMMA AnalysisIs ==
  ASSUME NEW a \in AnalysisType
  PROVE  a.results \in Nat /\ a.for \subseteq LibraryReaders /\ a.state \in {"none", "read", "store"}
  BY DEF AnalysisType

LEMMA StampIs == ASSUME LibraryResults \in Nat, NEW n \in Library!Stamps PROVE n \in Nat
  BY DEF Library!Stamps

\* What the list and the job do leaves the reports in order.
LEMMA ReportSurvives ==
  ASSUME LibraryResults \in Nat, ReportInv,
         analysis' = analysis, reader' = reader, cache' = cache \/ cache' = Library!NoList,
         writer' = "none" => writer = "none", directory.results \in Nat, directory'.results \in Nat,
         \A n \in Library!Stamps : analysis[n].state = "read" /\ directory'.state = "present" =>
           directory.state = "present" /\ directory.results <= directory'.results
  PROVE  ReportInv'
<1>1. cache' \in {Library!NoList} \cup [state : {"kept"}, stamp : Nat, results : Nat]
  BY ReportIs
<1>2. ASSUME NEW n \in Library!Stamps PROVE Fresh(n, analysis'[n], directory', reader')
  BY <1>2, ReportIs, StampIs DEF Fresh
<1>3. Library!ReportsAreCurrent'
  BY ReportIs DEF Library!ReportsAreCurrent, Library!NoList
<1> QED
  BY <1>1, <1>2, <1>3, ReportIs DEF ReportInv

LEMMA ReaderIs ==
  ASSUME NEW asked \in Nat, NEW got \in Nat, NEW place \in {"none", "idle", "wait", "answered"}
  PROVE  LET a == [place |-> place, asked |-> asked, got |-> got]
         IN a \in ReaderType /\ a.place = place /\ a.asked = asked /\ a.got = got
  BY DEF ReaderType

LEMMA AwayIs == Library!Away \in ReaderType /\ Library!Away.place = "idle"
  BY DEF Library!Away, ReaderType

LEMMA NoAnalysisIs ==
  Library!NoAnalysis \in AnalysisType /\ Library!NoAnalysis.state = "none" /\ Library!NoAnalysis.for = {}
  BY DEF Library!NoAnalysis, AnalysisType

\* One analysis moves on: the others are left as they were, with their readers.
LEMMA AnalysisMoves ==
  ASSUME ReportInv, NEW n \in Library!Stamps, NEW a \in AnalysisType,
         analysis' = [analysis EXCEPT ![n] = a],
         reader' \in [LibraryReaders -> ReaderType],
         \A k \in LibraryReaders : k \notin analysis[n].for /\ k \notin a.for => reader'[k] = reader[k],
         \A k \in a.for : k \in analysis[n].for \/ reader[k].place = "idle",
         cache' \in {Library!NoList} \cup [state : {"kept"}, stamp : Nat, results : Nat],
         UNCHANGED <<directory, writer>>, writer # "none", Fresh(n, a, directory', reader'), Library!ReportsAreCurrent'
  PROVE  ReportInv'
<1>1. /\ analysis' \in [Library!Stamps -> AnalysisType] /\ analysis'[n] = a
      /\ \A m \in Library!Stamps : m # n => analysis'[m] = analysis[m]
  BY ReportIs
<1>2. ASSUME NEW m \in Library!Stamps PROVE Fresh(m, analysis'[m], directory', reader')
  <2>1. CASE m = n
    BY <1>1, <2>1
  <2>2. CASE m # n
    <3>1. Fresh(m, analysis[m], directory, reader) /\ Fresh(n, analysis[n], directory, reader)
      BY ReportIs
    <3>2. ASSUME NEW k \in analysis[m].for
          PROVE  reader'[k].place = "wait" /\ reader'[k].asked = m
      <4>1. k \in LibraryReaders
        BY ReportIs, AnalysisIs
      <4>2. reader[k].place = "wait" /\ reader[k].asked = m
        BY <3>1 DEF Fresh
      <4>3. k \notin analysis[n].for
        BY <2>2, <3>1, <4>2 DEF Fresh
      <4>4. k \notin a.for
        BY <4>2, <4>3
      <4> QED
        BY <4>1, <4>2, <4>3, <4>4
    <3>3. analysis'[m] = analysis[m] /\ directory' = directory
      BY <1>1, <2>2
    <3> QED
      BY <3>1, <3>2, <3>3 DEF Fresh
  <2> QED
    BY <2>1, <2>2
<1> QED
  BY <1>1, <1>2 DEF ReportInv

LEMMA LadderKeeps ==
  ASSUME LibraryResults \in Nat, LibraryInv, NEW r \in LibraryReaders, Library!Ladder(r) PROVE LibraryInv'
<1>0. ListInv /\ ReportInv
  BY DEF LibraryInv
<1>1. /\ reader[r].place = "idle" /\ directory.state = "present"
      /\ UNCHANGED <<directory, writer, Library!list, cache>>
  BY DEF Library!Ladder
<1>2. directory.results \in Nat /\ writer # "none"
  BY <1>0, <1>1, RunIs
<1>3. \A n \in Library!Stamps : r \notin analysis[n].for
  BY <1>0, <1>1, ReportIs DEF Fresh
<1>4. SUFFICES ReportInv'
  BY <1>0, <1>1, ListSame DEF LibraryInv
<1>5. CASE cache.state = "kept" /\ cache.stamp = directory.results
  <2> DEFINE a == [place |-> "answered", asked |-> directory.results, got |-> cache.results]
  <2>1. reader' = [reader EXCEPT ![r] = a] /\ analysis' = analysis
    BY <1>5 DEF Library!Ladder
  <2>2. cache.results \in Nat /\ cache.results >= directory.results
    BY <1>0, <1>5, ReportIs DEF Library!ReportsAreCurrent, Library!NoList
  <2>3. a \in ReaderType /\ a.place = "answered" /\ a.asked = directory.results /\ a.got = cache.results
    BY <1>2, <2>2, ReaderIs
  <2> HIDE DEF a
  <2>4. /\ reader' \in [LibraryReaders -> ReaderType] /\ reader'[r] = a
        /\ \A k \in LibraryReaders : k # r => reader'[k] = reader[k]
    BY <1>0, <2>1, <2>3, ReportIs
  <2>5. ASSUME NEW n \in Library!Stamps PROVE Fresh(n, analysis'[n], directory', reader')
    <3>1. Fresh(n, analysis[n], directory, reader) /\ analysis[n].for \subseteq LibraryReaders /\ r \notin analysis[n].for
      BY <1>0, <1>3, ReportIs, AnalysisIs
    <3> QED
      BY <1>1, <2>1, <2>4, <3>1 DEF Fresh
  <2>6. Library!ReportsAreCurrent'
    BY <1>0, <1>1, <2>2, <2>3, <2>4, ReportIs DEF Library!ReportsAreCurrent
  <2> QED
    BY <1>0, <1>1, <2>1, <2>4, <2>5, <2>6, ReportIs DEF ReportInv
<1>6. CASE ~(cache.state = "kept" /\ cache.stamp = directory.results)
  <2> DEFINE a == [place |-> "wait", asked |-> directory.results, got |-> 0]
             n == directory.results
             b == Library!Joined(analysis[n], r)
  <2>1. reader' = [reader EXCEPT ![r] = a] /\ analysis' = [analysis EXCEPT ![n] = b]
    BY <1>6 DEF Library!Ladder
  <2>2. a \in ReaderType /\ a.place = "wait" /\ a.asked = n
    BY <1>2, ReaderIs
  <2> HIDE DEF a
  <2>3. /\ reader' \in [LibraryReaders -> ReaderType] /\ reader'[r] = a
        /\ \A k \in LibraryReaders : k # r => reader'[k] = reader[k]
    BY <1>0, <2>1, <2>2, ReportIs
  <2>4. Library!ReportsAreCurrent'
    BY <1>0, <1>1, <2>2, <2>3, ReportIs DEF Library!ReportsAreCurrent
  <2>5. CASE n \in Library!Stamps
    <3>1. analysis[n] \in AnalysisType /\ Fresh(n, analysis[n], directory, reader)
      BY <1>0, <2>5, ReportIs
    <3>2. /\ b \in AnalysisType /\ \A k \in b.for : k = r \/ k \in analysis[n].for
          /\ b.state = "read" \/ (b.state = analysis[n].state /\ b.results = analysis[n].results)
      <4>1. CASE analysis[n].state = "none"
        <5>1. b = [state |-> "read", results |-> 0, for |-> {r}]
          BY <4>1 DEF Library!Joined
        <5> HIDE DEF b
        <5> QED
          BY <5>1 DEF AnalysisType
      <4>2. CASE analysis[n].state # "none"
        <5>1. b = [analysis[n] EXCEPT !.for = @ \cup {r}]
          BY <4>2 DEF Library!Joined
        <5> HIDE DEF b, n
        <5> QED
          BY <3>1, <5>1 DEF AnalysisType
      <4> QED
        BY <4>1, <4>2
    <3> HIDE DEF b
    <3>3. ASSUME NEW k \in b.for PROVE reader'[k].place = "wait" /\ reader'[k].asked = n
      <4>1. k = r \/ (k \in analysis[n].for /\ k # r /\ k \in LibraryReaders)
        BY <1>3, <2>5, <3>1, <3>2, AnalysisIs
      <4> QED
        BY <2>2, <2>3, <3>1, <4>1 DEF Fresh
    <3>4. Fresh(n, b, directory', reader')
      <4>1. directory' = directory
        BY <1>1
      <4>2. b.state = "store" => n <= b.results
        BY <3>1, <3>2 DEF Fresh
      <4> QED
        BY <1>2, <3>3, <4>1, <4>2 DEF Fresh
    <3>5. \A k \in LibraryReaders : k \notin analysis[n].for /\ k \notin b.for => reader'[k] = reader[k]
      <4>1. r \in b.for
        <5>1. b.for = {r} \/ b.for = analysis[n].for \cup {r}
          BY <3>1 DEF b, Library!Joined, AnalysisType
        <5> QED
          BY <5>1
      <4> QED
        BY <2>3, <4>1
    <3>6. /\ UNCHANGED <<directory, writer>>
          /\ cache' \in {Library!NoList} \cup [state : {"kept"}, stamp : Nat, results : Nat]
      BY <1>0, <1>1, ReportIs
    <3>7. \A k \in b.for : k \in analysis[n].for \/ reader[k].place = "idle"
      BY <1>1, <3>2
    <3> HIDE DEF n
    <3> QED
      BY <1>0, <1>2, <2>1, <2>3, <2>4, <2>5, <3>2, <3>4, <3>5, <3>6, <3>7, AnalysisMoves
  <2>6. CASE n \notin Library!Stamps
    <3>1. analysis' = analysis
      BY <1>0, <2>1, <2>6, ReportIs
    <3>2. ASSUME NEW m \in Library!Stamps PROVE Fresh(m, analysis'[m], directory', reader')
      <4>1. Fresh(m, analysis[m], directory, reader) /\ analysis[m].for \subseteq LibraryReaders /\ r \notin analysis[m].for
        BY <1>0, <1>3, ReportIs, AnalysisIs
      <4> QED
        BY <1>1, <2>3, <3>1, <4>1 DEF Fresh
    <3> QED
      BY <1>0, <1>1, <2>3, <2>4, <3>1, <3>2, ReportIs DEF ReportInv
  <2> QED
    BY <2>5, <2>6
<1> QED
  BY <1>5, <1>6

LEMMA AnalyzeKeeps ==
  ASSUME LibraryResults \in Nat, LibraryInv, NEW n \in Library!Stamps, Library!Analyze(n) PROVE LibraryInv'
<1>0. ListInv /\ ReportInv
  BY DEF LibraryInv
<1> DEFINE b == [analysis[n] EXCEPT !.state = "store", !.results = directory.results]
<1>1. /\ analysis[n].state = "read" /\ directory.state = "present"
      /\ analysis' = [analysis EXCEPT ![n] = b]
      /\ UNCHANGED <<directory, writer, Library!list, cache, reader>>
  <2>1. analysis' = [analysis EXCEPT ![n].state = "store", ![n].results = directory.results]
    BY DEF Library!Analyze
  <2>2. analysis \in [Library!Stamps -> AnalysisType]
    BY <1>0, ReportIs
  <2> QED
    BY <2>1, <2>2 DEF Library!Analyze
<1>2. directory.results \in Nat /\ writer # "none"
  BY <1>0, <1>1, RunIs
<1>3. analysis[n] \in AnalysisType /\ Fresh(n, analysis[n], directory, reader)
  BY <1>0, ReportIs
<1>4. b \in AnalysisType /\ b.state = "store" /\ b.for = analysis[n].for /\ b.results = directory.results
  BY <1>2, <1>3 DEF AnalysisType
<1> HIDE DEF b
<1>5. Library!ReportsAreCurrent'
  BY <1>0, <1>1, ReportIs DEF Library!ReportsAreCurrent
<1>6. Fresh(n, b, directory', reader')
  BY <1>1, <1>3, <1>4 DEF Fresh
<1>7. reader' \in [LibraryReaders -> ReaderType]
      /\ cache' \in {Library!NoList} \cup [state : {"kept"}, stamp : Nat, results : Nat]
      /\ UNCHANGED <<directory, writer>>
      /\ \A k \in LibraryReaders : k \notin analysis[n].for /\ k \notin b.for => reader'[k] = reader[k]
  BY <1>0, <1>1, ReportIs
<1>8. \A k \in b.for : k \in analysis[n].for \/ reader[k].place = "idle"
  BY <1>4
<1>9. ReportInv'
  BY <1>0, <1>1, <1>2, <1>4, <1>5, <1>6, <1>7, <1>8, AnalysisMoves
<1> QED
  BY <1>0, <1>1, <1>9, ListSame DEF LibraryInv

LEMMA AnalyzedKeeps ==
  ASSUME LibraryResults \in Nat, LibraryInv, NEW n \in Library!Stamps, Library!Analyzed(n) PROVE LibraryInv'
<1>0. ListInv /\ ReportInv /\ n \in Nat
  BY StampIs DEF LibraryInv
<1>1. /\ analysis[n].state = "store" /\ analysis' = [analysis EXCEPT ![n] = Library!NoAnalysis]
      /\ cache' = [state |-> "kept", stamp |-> n, results |-> analysis[n].results]
      /\ reader' = [r \in LibraryReaders |->
                      IF r \in analysis[n].for
                      THEN [reader[r] EXCEPT !.place = "answered", !.got = analysis[n].results]
                      ELSE reader[r]]
      /\ UNCHANGED <<directory, writer, Library!list>>
  BY DEF Library!Analyzed
<1>2. analysis[n] \in AnalysisType /\ Fresh(n, analysis[n], directory, reader) /\ analysis[n].results \in Nat
  BY <1>0, ReportIs, AnalysisIs
<1>3. /\ cache' \in [state : {"kept"}, stamp : Nat, results : Nat]
      /\ cache'.state = "kept" /\ cache'.stamp = n /\ cache'.results = analysis[n].results
  BY <1>0, <1>1, <1>2
<1>4. ASSUME NEW r \in LibraryReaders
      PROVE  /\ reader'[r] \in ReaderType
             /\ reader'[r].place = "answered" => reader'[r].got >= reader'[r].asked
  <2>1. CASE r \in analysis[n].for
    <3>1. reader'[r] = [reader[r] EXCEPT !.place = "answered", !.got = analysis[n].results]
      BY <1>1, <2>1
    <3>2. /\ reader'[r] \in ReaderType /\ reader'[r].got = analysis[n].results
          /\ reader'[r].asked = reader[r].asked
      BY <1>0, <1>2, <3>1, ReportIs DEF ReaderType
    <3>3. reader[r].asked = n /\ n <= analysis[n].results
      BY <1>1, <1>2, <2>1 DEF Fresh
    <3> QED
      BY <1>0, <1>2, <3>2, <3>3
  <2>2. CASE r \notin analysis[n].for
    BY <1>0, <1>1, <2>2, ReportIs DEF Library!ReportsAreCurrent
  <2> QED
    BY <2>1, <2>2
<1>5. reader' \in [LibraryReaders -> ReaderType]
  BY <1>1, <1>4
<1>6. Library!ReportsAreCurrent'
  <2>1. cache'.results >= cache'.stamp
    BY <1>0, <1>1, <1>2, <1>3 DEF Fresh
  <2> QED
    BY <1>4, <2>1 DEF Library!ReportsAreCurrent
<1>7. writer # "none"
  BY <1>0, <1>1, ReportIs
<1>8. Fresh(n, Library!NoAnalysis, directory', reader')
  BY NoAnalysisIs DEF Fresh
<1>9. \A k \in LibraryReaders : k \notin analysis[n].for => reader'[k] = reader[k]
  BY <1>1
<1>10. UNCHANGED <<directory, writer>>
       /\ cache' \in {Library!NoList} \cup [state : {"kept"}, stamp : Nat, results : Nat]
  BY <1>1, <1>3
<1>11. ReportInv'
  BY <1>0, <1>1, <1>5, <1>6, <1>7, <1>8, <1>9, <1>10, NoAnalysisIs, AnalysisMoves
<1> QED
  BY <1>0, <1>1, <1>11, ListSame DEF LibraryInv

LEMMA AnalysisFailsKeeps ==
  ASSUME LibraryResults \in Nat, LibraryInv, NEW n \in Library!Stamps, Library!AnalysisFails(n) PROVE LibraryInv'
<1>0. ListInv /\ ReportInv
  BY DEF LibraryInv
<1>1. /\ analysis[n].state = "read" /\ analysis' = [analysis EXCEPT ![n] = Library!NoAnalysis]
      /\ reader' = [r \in LibraryReaders |-> IF r \in analysis[n].for THEN Library!Away ELSE reader[r]]
      /\ UNCHANGED <<directory, writer, Library!list, cache>>
  BY DEF Library!AnalysisFails
<1>2. ASSUME NEW r \in LibraryReaders
      PROVE  /\ reader'[r] \in ReaderType
             /\ reader'[r].place = "answered" => reader'[r].got >= reader'[r].asked
  BY <1>0, <1>1, AwayIs, ReportIs DEF Library!ReportsAreCurrent
<1>3. reader' \in [LibraryReaders -> ReaderType]
  BY <1>1, <1>2
<1>4. Library!ReportsAreCurrent'
  BY <1>0, <1>1, <1>2, ReportIs DEF Library!ReportsAreCurrent
<1>5. writer # "none"
  BY <1>0, <1>1, ReportIs
<1>6. Fresh(n, Library!NoAnalysis, directory', reader')
  BY NoAnalysisIs DEF Fresh
<1>7. \A k \in LibraryReaders : k \notin analysis[n].for => reader'[k] = reader[k]
  BY <1>1
<1>8. UNCHANGED <<directory, writer>>
      /\ cache' \in {Library!NoList} \cup [state : {"kept"}, stamp : Nat, results : Nat]
  BY <1>0, <1>1, ReportIs
<1>9. ReportInv'
  BY <1>0, <1>1, <1>3, <1>4, <1>5, <1>6, <1>7, <1>8, NoAnalysisIs, AnalysisMoves
<1> QED
  BY <1>0, <1>1, <1>9, ListSame DEF LibraryInv

LEMMA ReaderLeavesKeeps ==
  ASSUME LibraryResults \in Nat, LibraryInv, NEW r \in LibraryReaders, Library!Leave(r) PROVE LibraryInv'
<1>0. ListInv /\ ReportInv
  BY DEF LibraryInv
<1>1. /\ reader' = [reader EXCEPT ![r] = Library!Away]
      /\ analysis' = [n \in Library!Stamps |-> [analysis[n] EXCEPT !.for = @ \ {r}]]
      /\ UNCHANGED <<directory, writer, Library!list, cache>>
  BY DEF Library!Leave
<1>2. ASSUME NEW n \in Library!Stamps
      PROVE  /\ analysis'[n] \in AnalysisType /\ analysis'[n].state = analysis[n].state
             /\ analysis'[n].results = analysis[n].results
             /\ analysis'[n].for = analysis[n].for \ {r}
  <2>1. analysis[n] \in AnalysisType
    BY <1>0, ReportIs
  <2>2. analysis'[n] = [analysis[n] EXCEPT !.for = @ \ {r}]
    BY <1>1
  <2> QED
    BY <2>1, <2>2 DEF AnalysisType
<1>3. /\ reader' \in [LibraryReaders -> ReaderType] /\ reader'[r] = Library!Away
      /\ \A k \in LibraryReaders : k # r => reader'[k] = reader[k]
  BY <1>0, <1>1, AwayIs, ReportIs
<1>4. Library!ReportsAreCurrent'
  BY <1>0, <1>1, <1>3, AwayIs, ReportIs DEF Library!ReportsAreCurrent
<1>5. ASSUME NEW n \in Library!Stamps PROVE Fresh(n, analysis'[n], directory', reader')
  <2>1. Fresh(n, analysis[n], directory, reader) /\ analysis[n].for \subseteq LibraryReaders /\ directory' = directory
    BY <1>0, <1>1, ReportIs, AnalysisIs
  <2> QED
    BY <1>2, <1>3, <2>1 DEF Fresh
<1>6. analysis' \in [Library!Stamps -> AnalysisType]
  BY <1>1, <1>2
<1>7. ReportInv'
  BY <1>0, <1>1, <1>2, <1>3, <1>4, <1>5, <1>6, ReportIs DEF ReportInv
<1> QED
  BY <1>0, <1>1, <1>7, ListSame DEF LibraryInv

----------------------------------------------------------------------------
(* The whole of it.                                                         *)

LEMMA LibraryInitially == Library!Init => LibraryInv
<1> SUFFICES ASSUME Library!Init PROVE LibraryInv
  OBVIOUS
<1>1. PICK here \in SUBSET (LibraryListers \cup LibraryReaders) :
        /\ lister = [l \in Library!Lister |-> [Library!Resting EXCEPT !.place = IF l \in LibraryListers \ here THEN "none" ELSE @]]
        /\ reader = [r \in LibraryReaders |-> [Library!Away EXCEPT !.place = IF r \notin here THEN "none" ELSE @]]
  BY DEF Library!Init
<1>2. /\ directory = Library!Absent /\ writer = "none" /\ listGeneration = 0 /\ scans = 0 /\ scanning = "nobody"
      /\ refreshing = FALSE /\ analysis = [n \in Library!Stamps |-> Library!NoAnalysis] /\ cache = Library!NoList
      /\ index = [run |-> [Library!Absent EXCEPT !.state = "none"], scanned |-> 0, started |-> 0]
  BY DEF Library!Init
<1>3. ASSUME NEW l \in Library!Lister
      PROVE  /\ lister[l] \in RequestType /\ lister[l].place \in {"none", "idle"}
             /\ lister[l].run = Library!Absent /\ lister[l].walked = 0
             /\ lister[l].known = [over |-> FALSE, name |-> 0, deleted |-> FALSE, results |-> 0]
  <2>1. lister[l] = [Library!Resting EXCEPT !.place = IF l \in LibraryListers \ here THEN "none" ELSE @]
    BY <1>1
  <2>2. lister[l] = Rest("none", "answered") \/ lister[l] = Rest("idle", "answered")
    BY <2>1 DEF Rest, Library!Resting
  <2>3. "none" \in PlaceType /\ "idle" \in PlaceType
    BY DEF PlaceType
  <2>4. ASSUME NEW place \in {"none", "idle"}, lister[l] = Rest(place, "answered")
        PROVE  /\ lister[l] \in RequestType /\ lister[l].place = place
               /\ lister[l].run = Library!Absent /\ lister[l].walked = 0
               /\ lister[l].known = [over |-> FALSE, name |-> 0, deleted |-> FALSE, results |-> 0]
    <3> DEFINE p == Rest(place, "answered")
    <3>1. /\ p \in RequestType /\ p.place = place /\ p.run = Library!Absent /\ p.walked = 0
          /\ p.known = [over |-> FALSE, name |-> 0, deleted |-> FALSE, results |-> 0]
      BY <2>3, RestingIs
    <3> HIDE DEF p
    <3> QED
      BY <2>4, <3>1 DEF p
  <2> QED
    BY <2>2, <2>4
<1>4. LibraryTypes
  <2>1. lister = [l \in Library!Lister |-> lister[l]]
    BY <1>1
  <2>2. lister \in [Library!Lister -> RequestType]
    BY <1>3, <2>1
  <2> QED
    BY <1>2, <2>2, AbsentIs DEF LibraryTypes, Library!Absent, RunType
<1>5. Directory /\ Before /\ Locked /\ Clocks
  BY <1>2, <1>3, AbsentIs DEF Directory, Before, Locked, Clocks, Library!Absent
<1>6. Deleting
  BY <1>2, <1>3, AbsentIs DEF Deleting, Gone, Library!Lister
<1>7. ASSUME NEW l \in Library!Lister
      PROVE  /\ Heard(lister[l].known, directory, writer, lister) /\ Judged(lister[l], writer)
             /\ Satisfied(lister[l]) /\ lister[l].place # "store" /\ \A run, t : Timely(lister[l], run, t)
  BY <1>2, <1>3, AbsentIs DEF Heard, Judged, Satisfied, Timely
<1>8. index.run.state = "none"
  BY <1>2 DEF Library!Absent
<1>9. ListInv
  BY <1>4, <1>5, <1>6, <1>7, <1>8 DEF ListInv, Library!Lister
<1>10. reader \in [LibraryReaders -> ReaderType] /\ \A r \in LibraryReaders : reader[r].place \in {"none", "idle"}
  <2>1. ASSUME NEW r \in LibraryReaders PROVE reader[r] \in ReaderType /\ reader[r].place \in {"none", "idle"}
    <3>1. reader[r] = [Library!Away EXCEPT !.place = "none"] \/ reader[r] = Library!Away
      BY <1>1 DEF Library!Away
    <3> QED
      BY <3>1 DEF Library!Away, ReaderType
  <2> QED
    BY <1>1, <2>1
<1>11. ReportInv
  BY <1>2, <1>10, NoAnalysisIs DEF ReportInv, Library!ReportsAreCurrent, Library!NoList, Fresh
<1> QED
  BY <1>9, <1>11 DEF LibraryInv

LEMMA LibraryStep == ListersAssumption /\ LibraryInv /\ [Library!Next]_(Library!vars) => LibraryInv'
<1> SUFFICES ASSUME ListersAssumption, LibraryInv, [Library!Next]_(Library!vars) PROVE LibraryInv'
  OBVIOUS
<1>0. ListInv /\ ReportInv /\ directory.results \in Nat /\ LibraryResults \in Nat
  BY RunIs DEF LibraryInv, ListersAssumption
<1>1. ASSUME UNCHANGED Library!report, UNCHANGED <<directory, writer>>, ListInv' PROVE LibraryInv'
  <2>1. analysis' = analysis /\ cache' = cache /\ reader' = reader
    BY <1>1 DEF Library!report
  <2> QED
    BY <1>0, <1>1, <2>1, ReportSurvives DEF LibraryInv
<1>2. CASE Library!StartJob
  <2>1. /\ analysis' = analysis /\ cache' = cache /\ reader' = reader
        /\ writer = "none" /\ writer' = "running" /\ directory'.results = 0
    BY <1>2 DEF Library!StartJob, Library!report
  <2>2. \A n \in Library!Stamps : analysis[n].state = "none"
    BY <1>0, <2>1, ReportIs
  <2>3. ReportInv'
    BY <1>0, <2>1, <2>2, ReportSurvives
  <2> QED
    BY <1>0, <1>2, <2>3, WriterStartsKeeps DEF LibraryInv
<1>3. CASE Library!AppendResult
  <2>1. /\ analysis' = analysis /\ cache' = cache /\ reader' = reader /\ writer' = writer
        /\ directory' = [directory EXCEPT !.results = @ + 1]
    BY <1>3 DEF Library!AppendResult, Library!report
  <2>2. directory \in RunType
    BY <1>0, Types DEF LibraryTypes
  <2>3. directory'.state = directory.state /\ directory'.results = directory.results + 1
    BY <2>1, <2>2 DEF RunType
  <2>4. ReportInv'
    BY <1>0, <2>1, <2>3, ReportSurvives
  <2> QED
    BY <1>0, <1>3, <2>4, AppendResultKeeps DEF LibraryInv
<1>4. CASE Library!JobEnds
  <2>1. /\ analysis' = analysis /\ cache' = cache /\ reader' = reader /\ writer' = "over"
        /\ directory' = [directory EXCEPT !.status = "done"]
    BY <1>4 DEF Library!JobEnds, Library!report
  <2>2. directory \in RunType
    BY <1>0, Types DEF LibraryTypes
  <2>3. directory'.state = directory.state /\ directory'.results = directory.results
    BY <2>1, <2>2 DEF RunType
  <2>4. ReportInv'
    BY <1>0, <2>1, <2>3, ReportSurvives
  <2> QED
    BY <1>0, <1>4, <2>4, WriterEndsKeeps DEF LibraryInv
<1>5. CASE Library!Invalidate
  <2>1. /\ analysis' = analysis /\ cache' = cache /\ reader' = reader /\ writer' = "done" /\ directory' = directory
    BY <1>5 DEF Library!Invalidate, Library!report
  <2>2. ReportInv'
    BY <1>0, <2>1, ReportSurvives
  <2> QED
    BY <1>0, <1>5, <2>2, InvalidateKeeps DEF LibraryInv
<1>6. ASSUME NEW l \in LibraryListers, NEW force \in BOOLEAN, NEW wants \in {"answered", "rename", "delete"},
             Library!Index(l, force, wants)
      PROVE  LibraryInv'
  <2>1. UNCHANGED Library!report /\ UNCHANGED <<directory, writer>>
    BY <1>6 DEF Library!Index
  <2>2. ListInv'
    BY <1>0, <1>6, IndexKeeps
  <2> QED
    BY <1>1, <2>1, <2>2
<1>7. ASSUME NEW l \in Library!Lister, Library!Lock(l) \/ Library!Share(l) \/ Library!Rescan(l) \/ Library!Discover(l) \/ Library!Store(l)
      PROVE  LibraryInv'
  <2>1. UNCHANGED Library!report /\ UNCHANGED <<directory, writer>>
    BY <1>7 DEF Library!Lock, Library!Share, Library!Rescan, Library!Discover, Library!Store
  <2>2. ListInv'
    BY <1>0, <1>7, LockKeeps, ShareKeeps, RescanKeeps, DiscoverKeeps, StoreKeeps
  <2> QED
    BY <1>1, <2>1, <2>2
<1>8. ASSUME NEW l \in LibraryListers, Library!OverlayJobs(l) \/ Library!LibraryRefused(l)
      PROVE  LibraryInv'
  <2>1. UNCHANGED Library!report /\ UNCHANGED <<directory, writer>>
    BY <1>8 DEF Library!OverlayJobs, Library!LibraryRefused
  <2>2. ListInv'
    BY <1>0, <1>8, OverlayJobsKeeps, LibraryRefusedKeeps
  <2> QED
    BY <1>1, <2>1, <2>2
<1>9. ASSUME NEW l \in LibraryListers, Library!Rename(l) PROVE LibraryInv'
  <2>1. /\ analysis' = analysis /\ cache' = Library!NoList /\ reader' = reader /\ writer' = writer
        /\ directory' = directory \/ directory' = [directory EXCEPT !.name = @ + 1]
    BY <1>9 DEF Library!Rename
  <2>2. directory \in RunType
    BY <1>0, Types DEF LibraryTypes
  <2>3. directory'.state = directory.state /\ directory'.results = directory.results
    BY <2>1, <2>2 DEF RunType
  <2>4. ReportInv'
    BY <1>0, <2>1, <2>3, ReportSurvives
  <2> QED
    BY <1>0, <1>9, <2>4, RenameKeeps DEF LibraryInv
<1>10. ASSUME NEW l \in LibraryListers, Library!Delete(l) PROVE LibraryInv'
  <2>1. /\ analysis' = analysis /\ cache' = cache /\ reader' = reader /\ writer' = writer /\ directory' = Library!Absent
    BY <1>10 DEF Library!Delete, Library!report
  <2>2. ReportInv'
    BY <1>0, <2>1, AbsentIs, ReportSurvives
  <2> QED
    BY <1>0, <1>10, <2>2, DeleteKeeps DEF LibraryInv
<1>11. ASSUME NEW l \in LibraryListers, Library!Deleted(l) PROVE LibraryInv'
  <2>1. /\ analysis' = analysis /\ cache' = Library!NoList /\ reader' = reader /\ writer' = writer /\ directory' = directory
    BY <1>11 DEF Library!Deleted
  <2>2. ReportInv'
    BY <1>0, <2>1, ReportSurvives
  <2> QED
    BY <1>0, <1>11, <2>2, DeletedKeeps DEF LibraryInv
<1>12. CASE UNCHANGED Library!vars
  <2>1. UNCHANGED <<directory, writer, Library!list>> /\ UNCHANGED Library!report
    BY <1>12 DEF Library!vars
  <2>2. ListInv'
    BY <1>0, <2>1, ListSame
  <2> QED
    BY <1>1, <2>1, <2>2
<1>13. CASE \E l \in LibraryListers : \/ \E force \in BOOLEAN : Library!Index(l, force, "answered")
                                      \/ \E wants \in {"rename", "delete"} : Library!Index(l, FALSE, wants)
  BY <1>6, <1>13
<1>14. CASE \E l \in Library!Lister : Library!Lock(l) \/ Library!Share(l) \/ Library!Rescan(l) \/ Library!Discover(l) \/ Library!Store(l)
  BY <1>7, <1>14
<1>15. CASE \E l \in LibraryListers : Library!OverlayJobs(l) \/ Library!LibraryRefused(l) \/ Library!Rename(l) \/ Library!Delete(l) \/ Library!Deleted(l)
  BY <1>8, <1>9, <1>10, <1>11, <1>15
<1>16. CASE \E r \in LibraryReaders : Library!Ladder(r) \/ Library!Leave(r)
  BY <1>0, <1>16, LadderKeeps, ReaderLeavesKeeps
<1>17. CASE \E n \in Library!Stamps : Library!Analyze(n) \/ Library!AnalysisFails(n) \/ Library!Analyzed(n)
  BY <1>0, <1>17, AnalyzeKeeps, AnalysisFailsKeeps, AnalyzedKeeps
<1> QED
  BY <1>2, <1>3, <1>4, <1>5, <1>12, <1>13, <1>14, <1>15, <1>16, <1>17 DEF Library!Next

LEMMA LibraryFits == LibraryInv => Library!LibraryIsCurrent
<1> SUFFICES ASSUME LibraryInv PROVE Library!LibraryIsCurrent
  OBVIOUS
<1>0. ListInv /\ Library!ReportsAreCurrent
  BY DEF LibraryInv, ReportInv
<1>1. Library!LiveRunsStay
  BY <1>0, Types DEF Library!LiveRunsStay, Directory
<1>2. Library!ListShowsChanges
  <2>1. SUFFICES ASSUME NEW l \in LibraryListers, lister[l].place = "answered"
        PROVE  LET run == lister[l].run known == lister[l].known
               IN /\ known.deleted => run.state = "absent"
                  /\ run.state = "present" /\ known.over => run.status = "done"
                  /\ run.state = "present" => run.name >= known.name
                  /\ run.state = "present" /\ lister[l].forced => run.results >= known.results
    BY DEF Library!ListShowsChanges
  <2>2. Satisfied(lister[l]) /\ lister[l].run.state \in {"absent", "present"}
    BY <1>0, <2>1, ListSays, Types, RequestIs DEF Judged
  <2> QED
    BY <2>1, <2>2 DEF Satisfied
<1> QED
  BY <1>0, <1>1, <1>2 DEF Library!LibraryIsCurrent

THEOREM LibraryIsAlwaysCurrent == ASSUME ListersAssumption PROVE Library!Spec => []Library!LibraryIsCurrent
<1>1. LibraryInv /\ [Library!Next]_(Library!vars) => LibraryInv'
  BY LibraryStep
<1> QED
  BY <1>1, LibraryInitially, LibraryFits, PTL DEF Library!Spec

----------------------------------------------------------------------------
(* The terminal and the feed of the session (Terminal).                    *)
PeopleAssumption == TalkManager \in TalkAgents /\ IsFiniteSet(TalkAgents)

\* What makes a message count as queued, and what ends that.
Adds(e) == e.kind \in {"message", "queued"} \/ (e.kind = "reply" /\ e.from # TalkManager)
Clears(e) == e.kind \in {"consumed", "undelivered"}
In(id, box) == \E a \in TalkAgents : \E i \in DOMAIN box[a] : box[a][i] = id

States == {"", "idle", "running", "pause_requested", "paused", "interrupted", "stop_requested",
           "stopped", "failed"}
Kinds == {"state", "message", "queued", "consumed", "undelivered", "reply", "exited"}
Events == [kind : Kinds, agent : TalkAgents, id : Nat, state : States, from : TalkAgents]

TerminalTypes ==
  /\ life \in [TalkAgents -> [state : States, revision : Nat]]
  /\ mail \in [TalkAgents -> Seq(Nat)] /\ messages \in Nat
  /\ feed \in Seq(Events)

\* A message waits in one place, and what is told of messages is told of those there were.
MailPlaced ==
  /\ \A a, b \in TalkAgents : \A i \in DOMAIN mail[a] : \A j \in DOMAIN mail[b] :
       mail[a][i] = mail[b][j] => a = b /\ i = j
  /\ \A a \in TalkAgents : \A i \in DOMAIN mail[a] : mail[a][i] <= messages
  /\ \A i \in DOMAIN feed : Adds(feed[i]) \/ Clears(feed[i]) => feed[i].id <= messages

\* What is queued, corrected by what the feed will tell, is what waits.
Waiting(id) ==
  /\ id \in pending \/ \E i \in DOMAIN feed : Adds(feed[i]) /\ feed[i].id = id
  /\ \A i \in DOMAIN feed : feed[i].id = id => ~Clears(feed[i])
OverFor(id) ==
  /\ id \in pending => \E j \in DOMAIN feed : Clears(feed[j]) /\ feed[j].id = id
  /\ \A i \in DOMAIN feed : Adds(feed[i]) /\ feed[i].id = id =>
       \E j \in DOMAIN feed : j > i /\ Clears(feed[j]) /\ feed[j].id = id
Listens == talkStatus \notin {"closed", "quit"}
Corrected == Listens => \A id : (In(id, mail) => Waiting(id)) /\ (~In(id, mail) => OverFor(id))

TerminalInv == TerminalTypes /\ MailPlaced /\ Corrected

----------------------------------------------------------------------------
\* The instance counts as this module does.
LEMMA ScreenCounts == \A S : Screen!Cardinality(S) = Cardinality(S)
  BY DEF Screen!Cardinality, Cardinality
LEMMA ScreenFinite == \A S : Screen!IsFiniteSet(S) <=> IsFiniteSet(S)
  BY DEF Screen!IsFiniteSet, IsFiniteSet

\* A set of numbers has a least one: this stands for induction.
LEMMA LeastOf == ASSUME NEW S \in SUBSET Nat, S # {} PROVE \E m \in S : \A x \in S : m <= x
<1>1. PICK m \in S : \A x \in S : ~ (<<x, m>> \in OpToRel(<, Nat))
  BY NatLessThanWellFounded, WFMin
<1>2. ASSUME NEW x \in S PROVE m <= x
  <2>1. ~ (x < m)
    BY <1>1, Zenon DEF OpToRel
  <2> QED
    BY <2>1
<1> QED
  BY <1>2

LEMMA EventIs ==
  ASSUME NEW kind \in Kinds, NEW a \in TalkAgents, NEW id \in Nat
  PROVE  Screen!Event(kind, a, id) \in Events
BY DEF Screen!Event, Events, States

LEMMA StateEventIs ==
  ASSUME NEW a \in TalkAgents, NEW s \in States, NEW r \in Nat
  PROVE  /\ Screen!StateEvent(a, s, r) \in Events /\ ~Adds(Screen!StateEvent(a, s, r))
         /\ ~Clears(Screen!StateEvent(a, s, r))
BY DEF Screen!StateEvent, Screen!Event, Events, Kinds, Adds, Clears

LEMMA TerminalInitially == Screen!Init => TerminalInv
<1> SUFFICES ASSUME Screen!Init PROVE TerminalInv
  OBVIOUS
<1>1. TerminalTypes
  BY DEF Screen!Init, TerminalTypes, States
<1>2. feed = <<>> /\ pending = {} /\ \A a \in TalkAgents : mail[a] = <<>>
  BY DEF Screen!Init
<1>3. DOMAIN feed = {} /\ \A a \in TalkAgents : DOMAIN mail[a] = {}
  BY <1>2
<1> QED
  BY <1>1, <1>2, <1>3 DEF TerminalInv, MailPlaced, Corrected, Waiting, OverFor, In

\* The session moved: the feed grew by what the mailboxes did.
LEMMA Grows ==
  ASSUME TerminalInv, TerminalTypes', MailPlaced', Listens' => Listens,
         Len(feed) <= Len(feed'), \A i \in 1..Len(feed) : feed'[i] = feed[i],
         \A i \in DOMAIN feed' : i > Len(feed) =>
            /\ Adds(feed'[i]) => In(feed'[i].id, mail')
            /\ Clears(feed'[i]) => ~In(feed'[i].id, mail'),
         \A id : In(id, mail') /\ ~In(id, mail) =>
            /\ ~ (id <= messages)
            /\ \E i \in DOMAIN feed' : i > Len(feed) /\ Adds(feed'[i]) /\ feed'[i].id = id,
         \A id : In(id, mail) /\ ~In(id, mail') =>
            \E j \in DOMAIN feed' : j > Len(feed) /\ Clears(feed'[j]) /\ feed'[j].id = id,
         pending \subseteq pending', \A id \in pending' \ pending : In(id, mail')
  PROVE  TerminalInv'
<1>1. /\ DOMAIN feed = 1..Len(feed) /\ DOMAIN feed' = 1..Len(feed')
      /\ Len(feed) \in Nat /\ Len(feed') \in Nat
  BY DEF TerminalInv, TerminalTypes
<1>2. \A i \in DOMAIN feed : i \in DOMAIN feed' /\ feed'[i] = feed[i]
  BY <1>1
<1>3. \A i \in DOMAIN feed' : i \in DOMAIN feed \/ i > Len(feed)
  BY <1>1
<1>4. ASSUME Listens', NEW id, In(id, mail') PROVE Waiting(id)'
  <2>1. CASE In(id, mail)
    <3>1. Waiting(id)
      BY <1>4, <2>1 DEF TerminalInv, Corrected
    <3>2. id \in pending' \/ \E i \in DOMAIN feed' : Adds(feed'[i]) /\ feed'[i].id = id
      BY <1>2, <3>1 DEF Waiting
    <3>3. \A i \in DOMAIN feed' : feed'[i].id = id => ~Clears(feed'[i])
      BY <1>2, <1>3, <1>4, <3>1 DEF Waiting
    <3> QED
      BY <3>2, <3>3 DEF Waiting
  <2>2. CASE ~In(id, mail)
    <3>1. \A i \in DOMAIN feed' : feed'[i].id = id => ~Clears(feed'[i])
      <4> SUFFICES ASSUME NEW i \in DOMAIN feed', feed'[i].id = id, Clears(feed'[i]) PROVE FALSE
        OBVIOUS
      <4>1. CASE i \in DOMAIN feed
        <5>1. feed[i].id <= messages /\ feed[i].id = id
          BY <1>2, <4>1 DEF TerminalInv, MailPlaced
        <5> QED
          BY <1>4, <2>2, <5>1
      <4>2. CASE i > Len(feed)
        BY <1>4, <4>2
      <4> QED
        BY <1>3, <4>1, <4>2
    <3> QED
      BY <1>4, <2>2, <3>1 DEF Waiting
  <2> QED
    BY <2>1, <2>2
<1>5. ASSUME Listens', NEW id, ~In(id, mail') PROVE OverFor(id)'
  <2>1. CASE In(id, mail)
    <3>1. PICK j \in DOMAIN feed' : j > Len(feed) /\ Clears(feed'[j]) /\ feed'[j].id = id
      BY <1>5, <2>1
    <3>2. ASSUME NEW i \in DOMAIN feed', Adds(feed'[i]), feed'[i].id = id PROVE j > i
      <4>1. i \in DOMAIN feed
        BY <1>3, <1>5, <3>2
      <4> QED
        BY <1>1, <3>1, <4>1
    <3> QED
      BY <3>1, <3>2 DEF OverFor
  <2>2. CASE ~In(id, mail)
    <3>1. OverFor(id)
      BY <1>5, <2>2 DEF TerminalInv, Corrected
    <3>2. id \in pending' => id \in pending
      BY <1>5
    <3>3. ASSUME NEW i \in DOMAIN feed', Adds(feed'[i]), feed'[i].id = id
          PROVE  \E j \in DOMAIN feed' : j > i /\ Clears(feed'[j]) /\ feed'[j].id = id
      <4>1. i \in DOMAIN feed
        BY <1>3, <1>5, <3>3
      <4>2. PICK j \in DOMAIN feed : j > i /\ Clears(feed[j]) /\ feed[j].id = id
        BY <1>2, <3>1, <3>3, <4>1 DEF OverFor
      <4> QED
        BY <1>2, <4>2
    <3> QED
      BY <1>2, <3>1, <3>2, <3>3 DEF OverFor
  <2> QED
    BY <2>1, <2>2
<1> QED
  BY <1>4, <1>5 DEF TerminalInv, Corrected

\* What does not touch the mail or the feed.
LEMMA NothingTold ==
  ASSUME TerminalInv, UNCHANGED <<mail, messages, feed>>, life' \in [TalkAgents -> [state : States, revision : Nat]],
         UNCHANGED <<pending, talkStatus>> \/ talkStatus' \in {"closed", "quit"}
  PROVE  TerminalInv'
<1>1. TerminalTypes'
  BY DEF TerminalInv, TerminalTypes
<1>2. MailPlaced'
  BY DEF TerminalInv, MailPlaced
<1>3. Corrected'
  BY DEF TerminalInv, Corrected, Waiting, OverFor, Listens
<1> QED
  BY <1>1, <1>2, <1>3 DEF TerminalInv

LEMMA BecomesKeeps ==
  ASSUME TerminalInv, NEW a \in TalkAgents, NEW s \in States, Screen!Becomes(a, s),
         UNCHANGED <<mail, messages, pending, talkStatus>>
  PROVE  TerminalInv'
<1> DEFINE e == Screen!StateEvent(a, s, life[a].revision + 1)
<1>1. life[a].revision \in Nat /\ life[a] \in [state : States, revision : Nat]
  BY DEF TerminalInv, TerminalTypes
<1>2. e \in Events /\ ~Adds(e) /\ ~Clears(e)
  BY <1>1, StateEventIs
<1>3. feed \in Seq(Events) /\ feed' = Append(feed, e)
  BY DEF TerminalInv, TerminalTypes, Screen!Becomes
<1> HIDE DEF e
<1>4. /\ feed' \in Seq(Events) /\ Len(feed') = Len(feed) + 1 /\ Len(feed) \in Nat
      /\ DOMAIN feed' = 1..(Len(feed) + 1) /\ DOMAIN feed = 1..Len(feed)
      /\ feed'[Len(feed) + 1] = e /\ \A i \in 1..Len(feed) : feed'[i] = feed[i]
  BY <1>2, <1>3
<1>5. \A i \in DOMAIN feed' : i > Len(feed) => feed'[i] = e
  BY <1>4
<1>6. TerminalTypes'
  <2>1. life' \in [TalkAgents -> [state : States, revision : Nat]]
    BY <1>1 DEF TerminalInv, TerminalTypes, Screen!Becomes
  <2> QED
    BY <1>4, <2>1 DEF TerminalInv, TerminalTypes
<1>7. MailPlaced'
  BY <1>2, <1>4, <1>5 DEF TerminalInv, MailPlaced
<1>8. Listens' => Listens
  BY DEF Listens
<1> QED
  BY <1>2, <1>4, <1>5, <1>6, <1>7, <1>8, Grows

\* A message that is delivered: what is published tells of it, once the rest of the step is told.
LEMMA DeliversKeeps ==
  ASSUME TerminalInv, NEW b \in TalkAgents, Screen!Delivers(b), UNCHANGED life, talkStatus' = talkStatus,
         NEW more \in Seq(Events), feed' = feed \o more,
         \A i \in DOMAIN more : ~Clears(more[i]) /\ (Adds(more[i]) => more[i].id = messages + 1),
         \E i \in DOMAIN more : Adds(more[i]) /\ more[i].id = messages + 1,
         pending' = pending \/ pending' = pending \cup {messages + 1}
  PROVE  TerminalInv'
<1> DEFINE m == messages + 1
<1>0. /\ messages \in Nat /\ messages' = messages + 1 /\ mail' = [mail EXCEPT ![b] = Append(@, messages + 1)]
      /\ mail \in [TalkAgents -> Seq(Nat)] /\ feed \in Seq(Events)
  BY DEF TerminalInv, TerminalTypes, Screen!Delivers
<1>1. /\ feed' \in Seq(Events) /\ Len(feed') = Len(feed) + Len(more) /\ Len(feed) \in Nat /\ Len(more) \in Nat
      /\ DOMAIN feed' = 1..(Len(feed) + Len(more)) /\ DOMAIN feed = 1..Len(feed) /\ DOMAIN more = 1..Len(more)
      /\ \A i \in 1..Len(feed) : feed'[i] = feed[i]
      /\ \A i \in 1..Len(more) : feed'[Len(feed) + i] = more[i]
  BY <1>0
<1>2. ASSUME NEW i \in DOMAIN feed', i > Len(feed)
      PROVE  ~Clears(feed'[i]) /\ (Adds(feed'[i]) => feed'[i].id = m)
  <2>1. i - Len(feed) \in 1..Len(more) /\ feed'[i] = more[i - Len(feed)]
    <3>1. i - Len(feed) \in 1..Len(more) /\ Len(feed) + (i - Len(feed)) = i
      BY <1>1, <1>2
    <3> QED
      BY <1>1, <3>1
  <2> QED
    BY <1>1, <2>1
<1>3. \E i \in DOMAIN feed' : i > Len(feed) /\ Adds(feed'[i]) /\ feed'[i].id = m
  <2>1. PICK k \in DOMAIN more : Adds(more[k]) /\ more[k].id = m
    OBVIOUS
  <2>2. Len(feed) + k \in DOMAIN feed' /\ Len(feed) + k > Len(feed) /\ feed'[Len(feed) + k] = more[k]
    BY <1>1
  <2> QED
    BY <2>1, <2>2
<1>4. /\ \A a \in TalkAgents : a # b => mail'[a] = mail[a]
      /\ mail'[b] \in Seq(Nat) /\ mail[b] \in Seq(Nat) /\ Len(mail[b]) \in Nat
      /\ DOMAIN mail'[b] = 1..(Len(mail[b]) + 1) /\ DOMAIN mail[b] = 1..Len(mail[b])
      /\ mail'[b][Len(mail[b]) + 1] = m
      /\ \A i \in 1..Len(mail[b]) : mail'[b][i] = mail[b][i]
  BY <1>0
<1>15. ASSUME NEW a \in TalkAgents
       PROVE  /\ \A i \in DOMAIN mail[a] : i \in DOMAIN mail'[a] /\ mail'[a][i] = mail[a][i]
              /\ \A i \in DOMAIN mail'[a] :
                   (a = b /\ i = Len(mail[b]) + 1 /\ mail'[a][i] = m)
                     \/ (i \in DOMAIN mail[a] /\ mail'[a][i] = mail[a][i])
  <2>1. CASE a = b
    <3>1. ASSUME NEW i \in DOMAIN mail[b] PROVE i \in DOMAIN mail'[b] /\ mail'[b][i] = mail[b][i]
      <4>1. i \in 1..Len(mail[b])
        BY <1>4
      <4>2. i \in 1..(Len(mail[b]) + 1)
        BY <1>4, <4>1
      <4>3. i \in DOMAIN mail'[b]
        BY <1>4, <4>2, Zenon
      <4>4. mail'[b][i] = mail[b][i]
        BY <1>4, <4>1, Zenon
      <4> QED
        BY <4>3, <4>4
    <3>2. ASSUME NEW i \in DOMAIN mail'[b], i # Len(mail[b]) + 1
          PROVE  i \in DOMAIN mail[b] /\ mail'[b][i] = mail[b][i]
      <4>1. i \in 1..Len(mail[b])
        BY <1>4, <3>2
      <4> QED
        BY <1>4, <4>1
    <3> HIDE DEF m
    <3> QED
      BY <1>4, <2>1, <3>1, <3>2
  <2>2. CASE a # b
    <3>1. mail'[a] = mail[a]
      BY <1>4, <2>2
    <3> QED
      BY <2>2, <3>1
  <2> QED
    BY <2>1, <2>2
<1>5. In(m, mail')
  BY <1>4 DEF In
<1>6. \A id : In(id, mail) => In(id, mail')
  <2> SUFFICES ASSUME NEW id, NEW a \in TalkAgents, NEW i \in DOMAIN mail[a], mail[a][i] = id PROVE In(id, mail')
    BY DEF In
  <2>1. i \in DOMAIN mail'[a] /\ mail'[a][i] = id
    BY <1>15
  <2> QED
    BY <2>1 DEF In
<1>7. \A id : In(id, mail') => id = m \/ In(id, mail)
  <2> SUFFICES ASSUME NEW id, NEW a \in TalkAgents, NEW i \in DOMAIN mail'[a], mail'[a][i] = id, id # m
               PROVE  In(id, mail)
    BY DEF In
  <2>1. i \in DOMAIN mail[a] /\ mail[a][i] = id
    BY <1>15
  <2> QED
    BY <2>1 DEF In
<1>8. TerminalTypes'
  <2>1. mail' \in [TalkAgents -> Seq(Nat)]
    BY <1>0, <1>4
  <2> QED
    BY <1>0, <1>1, <2>1 DEF TerminalInv, TerminalTypes
<1>9. MailPlaced'
  <2>0. \A a \in TalkAgents : \A i \in DOMAIN mail[a] : mail[a][i] \in Nat /\ mail[a][i] <= messages
    BY <1>0 DEF TerminalInv, MailPlaced
  <2>1. ASSUME NEW a \in TalkAgents, NEW c \in TalkAgents, NEW i \in DOMAIN mail'[a], NEW j \in DOMAIN mail'[c],
               mail'[a][i] = mail'[c][j]
        PROVE  a = c /\ i = j
    <3>1. (a = b /\ i = Len(mail[b]) + 1 /\ mail'[a][i] = m) \/ (i \in DOMAIN mail[a] /\ mail'[a][i] = mail[a][i])
      BY <1>15
    <3>2. (c = b /\ j = Len(mail[b]) + 1 /\ mail'[c][j] = m) \/ (j \in DOMAIN mail[c] /\ mail'[c][j] = mail[c][j])
      BY <1>15
    <3>3. \A k \in Nat : k <= messages => k # m
      BY <1>0
    <3>4. CASE i \in DOMAIN mail[a] /\ mail'[a][i] = mail[a][i] /\ j \in DOMAIN mail[c] /\ mail'[c][j] = mail[c][j]
      <4>1. mail[a][i] = mail[c][j] /\ i \in DOMAIN mail[a] /\ j \in DOMAIN mail[c]
        BY <2>1, <3>4
      <4>2. \A x, y \in TalkAgents : \A k \in DOMAIN mail[x] : \A l \in DOMAIN mail[y] :
              mail[x][k] = mail[y][l] => x = y /\ k = l
        BY DEF TerminalInv, MailPlaced
      <4> QED
        BY <4>1, <4>2
    <3> QED
      BY <2>0, <2>1, <3>1, <3>2, <3>3, <3>4
  <2>2. ASSUME NEW a \in TalkAgents, NEW i \in DOMAIN mail'[a] PROVE mail'[a][i] <= messages'
    <3>1. mail'[a][i] = m \/ (i \in DOMAIN mail[a] /\ mail'[a][i] = mail[a][i])
      BY <1>15
    <3> QED
      BY <1>0, <2>0, <3>1
  <2>3. ASSUME NEW i \in DOMAIN feed', Adds(feed'[i]) \/ Clears(feed'[i]) PROVE feed'[i].id <= messages'
    <3>1. CASE i \in DOMAIN feed
      <4>1. feed'[i] = feed[i]
        BY <1>1, <3>1
      <4>2. feed[i].id <= messages
        BY <2>3, <3>1, <4>1 DEF TerminalInv, MailPlaced
      <4>3. feed[i] \in Events
        BY <1>0, <3>1
      <4>4. feed[i].id \in Nat
        BY <4>3 DEF Events
      <4> QED
        BY <1>0, <4>1, <4>2, <4>4
    <3>2. CASE i > Len(feed)
      BY <1>0, <1>2, <2>3, <3>2
    <3> QED
      BY <1>1, <3>1, <3>2
  <2> QED
    BY <2>1, <2>2, <2>3 DEF MailPlaced
<1>10. ASSUME NEW id, In(id, mail'), ~In(id, mail)
       PROVE  /\ ~ (id <= messages)
              /\ \E i \in DOMAIN feed' : i > Len(feed) /\ Adds(feed'[i]) /\ feed'[i].id = id
  <2>1. id = m
    BY <1>7, <1>10
  <2>2. ~ (m <= messages)
    BY <1>0
  <2> QED
    BY <1>3, <2>1, <2>2
<1>11. Listens' => Listens
  BY DEF Listens
<1>12. pending \subseteq pending' /\ \A id \in pending' \ pending : In(id, mail')
  BY <1>5
<1>13. \A i \in DOMAIN feed' : i > Len(feed) =>
            /\ Adds(feed'[i]) => In(feed'[i].id, mail')
            /\ Clears(feed'[i]) => ~In(feed'[i].id, mail')
  BY <1>2, <1>5
<1>14. Len(feed) <= Len(feed') /\ \A i \in 1..Len(feed) : feed'[i] = feed[i]
  BY <1>1
<1> QED
  BY <1>6, <1>8, <1>9, <1>10, <1>11, <1>12, <1>13, <1>14, Grows

\* An event about no message.
LEMMA OneEvent ==
  ASSUME TerminalInv, NEW e \in Events, feed' = Append(feed, e)
  PROVE  /\ feed' \in Seq(Events) /\ Len(feed') = Len(feed) + 1 /\ Len(feed) \in Nat
         /\ DOMAIN feed' = 1..(Len(feed) + 1) /\ DOMAIN feed = 1..Len(feed)
         /\ Len(feed) + 1 \in DOMAIN feed' /\ feed'[Len(feed) + 1] = e
         /\ \A i \in 1..Len(feed) : feed'[i] = feed[i]
         /\ \A i \in DOMAIN feed' : i > Len(feed) => feed'[i] = e
<1>1. feed \in Seq(Events)
  BY DEF TerminalInv, TerminalTypes
<1>2. /\ feed' \in Seq(Events) /\ Len(feed') = Len(feed) + 1 /\ Len(feed) \in Nat
      /\ DOMAIN feed' = 1..(Len(feed) + 1) /\ DOMAIN feed = 1..Len(feed)
      /\ feed'[Len(feed) + 1] = e /\ \A i \in 1..Len(feed) : feed'[i] = feed[i]
  BY <1>1
<1> QED
  BY <1>2

LEMMA ConsumesKeeps == ASSUME TerminalInv, NEW a \in TalkAgents, Screen!Consumes(a) PROVE TerminalInv'
<1> DEFINE id == Head(mail[a])
           e == Screen!Event("consumed", a, id)
<1>1. /\ mail[a] # <<>> /\ mail' = [mail EXCEPT ![a] = Tail(@)] /\ feed' = Append(feed, e)
      /\ UNCHANGED <<life, messages, pending, talkStatus>>
  BY DEF Screen!Consumes, Screen!ui, Screen!shown
<1>2. /\ mail \in [TalkAgents -> Seq(Nat)] /\ mail[a] \in Seq(Nat) /\ id \in Nat /\ Len(mail[a]) \in Nat
      /\ 1 \in DOMAIN mail[a] /\ mail[a][1] = id /\ DOMAIN mail[a] = 1..Len(mail[a])
      /\ mail'[a] = Tail(mail[a]) /\ mail'[a] \in Seq(Nat) /\ DOMAIN mail'[a] = 1..(Len(mail[a]) - 1)
      /\ \A i \in 1..(Len(mail[a]) - 1) : mail'[a][i] = mail[a][i + 1]
  BY <1>1 DEF TerminalInv, TerminalTypes
<1>3. e \in Events /\ Clears(e) /\ ~Adds(e) /\ e.id = id
  <2>1. e \in Events
    BY <1>2, EventIs DEF Kinds
  <2> QED
    BY <2>1 DEF Screen!Event, Clears, Adds
<1> HIDE DEF e
<1>4. /\ feed' \in Seq(Events) /\ Len(feed') = Len(feed) + 1 /\ Len(feed) \in Nat
      /\ DOMAIN feed' = 1..(Len(feed) + 1) /\ DOMAIN feed = 1..Len(feed)
      /\ Len(feed) + 1 \in DOMAIN feed' /\ feed'[Len(feed) + 1] = e
      /\ \A i \in 1..Len(feed) : feed'[i] = feed[i]
      /\ \A i \in DOMAIN feed' : i > Len(feed) => feed'[i] = e
  BY <1>1, <1>3, OneEvent
<1>5. \A c \in TalkAgents : c # a => mail'[c] = mail[c]
  BY <1>1, <1>2
<1>6. \A c \in TalkAgents : \A i \in DOMAIN mail'[c] : \E k \in DOMAIN mail[c] :
         mail'[c][i] = mail[c][k] /\ (c = a => k = i + 1) /\ (c # a => k = i)
  <2> SUFFICES ASSUME NEW c \in TalkAgents, NEW i \in DOMAIN mail'[c]
               PROVE  \E k \in DOMAIN mail[c] :
                        mail'[c][i] = mail[c][k] /\ (c = a => k = i + 1) /\ (c # a => k = i)
    OBVIOUS
  <2>1. CASE c = a
    <3>1. i \in 1..(Len(mail[a]) - 1)
      BY <1>2, <2>1
    <3>2. i + 1 \in DOMAIN mail[a] /\ mail'[a][i] = mail[a][i + 1]
      BY <1>2, <3>1
    <3> QED
      BY <2>1, <3>2
  <2>2. CASE c # a
    BY <1>5, <2>2
  <2> QED
    BY <2>1, <2>2
<1>7. \A x, y \in TalkAgents : \A k \in DOMAIN mail[x] : \A l \in DOMAIN mail[y] :
         mail[x][k] = mail[y][l] => x = y /\ k = l
  BY DEF TerminalInv, MailPlaced
<1>8. \A x : In(x, mail') => In(x, mail)
  BY <1>6 DEF In
<1>9. ~In(id, mail')
  <2> SUFFICES ASSUME NEW c \in TalkAgents, NEW i \in DOMAIN mail'[c], mail'[c][i] = id PROVE FALSE
    BY DEF In
  <2>1. PICK k \in DOMAIN mail[c] : mail[c][k] = id /\ (c = a => k = i + 1)
    BY <1>6
  <2>2. c = a /\ k = 1
    BY <1>2, <1>7, <2>1
  <2>3. i \in 1..(Len(mail[a]) - 1)
    BY <1>2, <2>2
  <2> QED
    BY <2>1, <2>2, <2>3
<1>10. \A x : In(x, mail) /\ ~In(x, mail') => x = id
  <2> SUFFICES ASSUME NEW x, NEW c \in TalkAgents, NEW k \in DOMAIN mail[c], mail[c][k] = x, x # id
               PROVE  In(x, mail')
    BY DEF In
  <2>1. CASE c # a
    BY <1>5, <2>1 DEF In
  <2>2. CASE c = a
    <3>1. k # 1 /\ k \in 1..Len(mail[a]) /\ Len(mail[a]) \in Nat
      BY <1>2, <2>2
    <3>2. k - 1 \in 1..(Len(mail[a]) - 1) /\ (k - 1) + 1 = k
      BY <3>1
    <3>3. k - 1 \in DOMAIN mail'[a] /\ mail'[a][k - 1] = x
      BY <1>2, <2>2, <3>2
    <3> QED
      BY <3>3 DEF In
  <2> QED
    BY <2>1, <2>2
<1>11. TerminalTypes'
  <2>1. mail' \in [TalkAgents -> Seq(Nat)]
    BY <1>1, <1>2
  <2> QED
    BY <1>1, <1>4, <2>1 DEF TerminalInv, TerminalTypes
<1>12. id <= messages
  BY <1>2 DEF TerminalInv, MailPlaced
<1>13. MailPlaced'
  <2>1. ASSUME NEW x \in TalkAgents, NEW y \in TalkAgents, NEW i \in DOMAIN mail'[x], NEW j \in DOMAIN mail'[y],
               mail'[x][i] = mail'[y][j]
        PROVE  x = y /\ i = j
    <3>1. PICK k \in DOMAIN mail[x] : mail'[x][i] = mail[x][k] /\ (x = a => k = i + 1) /\ (x # a => k = i)
      BY <1>6
    <3>2. PICK l \in DOMAIN mail[y] : mail'[y][j] = mail[y][l] /\ (y = a => l = j + 1) /\ (y # a => l = j)
      BY <1>6
    <3>3. x = y /\ k = l
      <4>1. mail[x][k] = mail[y][l]
        BY <2>1, <3>1, <3>2
      <4> QED
        BY <1>7, <4>1
    <3>4. CASE x = a
      <4>1. i \in 1..(Len(mail[a]) - 1) /\ j \in 1..(Len(mail[a]) - 1)
        BY <1>2, <3>3, <3>4
      <4> QED
        BY <3>1, <3>2, <3>3, <3>4, <4>1
    <3> QED
      BY <3>1, <3>2, <3>3, <3>4
  <2>2. \A c \in TalkAgents : \A i \in DOMAIN mail'[c] : mail'[c][i] <= messages'
    BY <1>1, <1>6 DEF TerminalInv, MailPlaced
  <2>3. ASSUME NEW i \in DOMAIN feed', Adds(feed'[i]) \/ Clears(feed'[i]) PROVE feed'[i].id <= messages'
    <3>1. CASE i \in DOMAIN feed
      BY <1>1, <1>4, <2>3, <3>1 DEF TerminalInv, MailPlaced
    <3>2. CASE i > Len(feed)
      BY <1>1, <1>3, <1>4, <1>12, <3>2
    <3> QED
      BY <1>4, <3>1, <3>2
  <2> QED
    BY <2>1, <2>2, <2>3 DEF MailPlaced
<1>14. \A x : In(x, mail) /\ ~In(x, mail') =>
         \E j \in DOMAIN feed' : j > Len(feed) /\ Clears(feed'[j]) /\ feed'[j].id = x
  BY <1>3, <1>4, <1>10
<1>15. Listens' => Listens
  BY <1>1 DEF Listens
<1>16. Len(feed) <= Len(feed')
  BY <1>4
<1>17. \A i \in DOMAIN feed' : i > Len(feed) =>
            /\ Adds(feed'[i]) => In(feed'[i].id, mail')
            /\ Clears(feed'[i]) => ~In(feed'[i].id, mail')
  BY <1>3, <1>4, <1>9
<1> QED
  BY <1>1, <1>4, <1>8, <1>11, <1>13, <1>14, <1>15, <1>16, <1>17, Grows

\* What is published of a message that is delivered.
LEMMA DeliveredIs ==
  ASSUME NEW b \in TalkAgents, NEW m \in Nat
  PROVE  /\ Screen!Delivered(b, m) \in Seq(Events) /\ DOMAIN Screen!Delivered(b, m) = {1, 2}
         /\ \A i \in DOMAIN Screen!Delivered(b, m) :
              /\ ~Clears(Screen!Delivered(b, m)[i]) /\ Adds(Screen!Delivered(b, m)[i]) /\ Screen!Delivered(b, m)[i].id = m
<1>1. Screen!Event("message", b, m) \in Events /\ Screen!Event("queued", b, m) \in Events
  BY EventIs DEF Kinds
<1>2. /\ Adds(Screen!Event("message", b, m)) /\ ~Clears(Screen!Event("message", b, m)) /\ Screen!Event("message", b, m).id = m
      /\ Adds(Screen!Event("queued", b, m)) /\ ~Clears(Screen!Event("queued", b, m)) /\ Screen!Event("queued", b, m).id = m
  BY DEF Adds, Clears, Screen!Event
<1>3. /\ Screen!Delivered(b, m) = <<Screen!Event("message", b, m), Screen!Event("queued", b, m)>>
  BY DEF Screen!Delivered
<1> HIDE DEF Adds, Clears
<1> QED
  BY <1>1, <1>2, <1>3

LEMMA WritesKeeps ==
  ASSUME TerminalInv, NEW a \in TalkAgents, NEW b \in TalkAgents, Screen!Writes(a, b) PROVE TerminalInv'
<1>1. /\ Screen!Delivers(b) /\ feed' = feed \o Screen!Delivered(b, messages + 1)
      /\ UNCHANGED <<life, pending, talkStatus>>
  BY DEF Screen!Writes, Screen!ui, Screen!shown
<1>2. messages + 1 \in Nat
  BY DEF TerminalInv, TerminalTypes
<1>3. /\ Screen!Delivered(b, messages + 1) \in Seq(Events) /\ 1 \in DOMAIN Screen!Delivered(b, messages + 1)
      /\ \A i \in DOMAIN Screen!Delivered(b, messages + 1) :
           /\ ~Clears(Screen!Delivered(b, messages + 1)[i]) /\ Adds(Screen!Delivered(b, messages + 1)[i])
           /\ Screen!Delivered(b, messages + 1)[i].id = messages + 1
  BY <1>2, DeliveredIs
<1> QED
  BY <1>1, <1>3, DeliversKeeps

LEMMA SendKeeps == ASSUME TerminalInv, PeopleAssumption, Screen!Send PROVE TerminalInv'
<1>1. /\ Screen!Delivers(TalkManager) /\ feed' = feed \o Screen!Delivered(TalkManager, messages + 1)
      /\ pending' = pending \cup {messages + 1} /\ UNCHANGED <<life, talkStatus>> /\ TalkManager \in TalkAgents
  BY DEF Screen!Send, PeopleAssumption
<1>2. messages + 1 \in Nat
  BY DEF TerminalInv, TerminalTypes
<1>3. /\ Screen!Delivered(TalkManager, messages + 1) \in Seq(Events) /\ 1 \in DOMAIN Screen!Delivered(TalkManager, messages + 1)
      /\ \A i \in DOMAIN Screen!Delivered(TalkManager, messages + 1) :
           /\ ~Clears(Screen!Delivered(TalkManager, messages + 1)[i]) /\ Adds(Screen!Delivered(TalkManager, messages + 1)[i])
           /\ Screen!Delivered(TalkManager, messages + 1)[i].id = messages + 1
  BY <1>1, <1>2, DeliveredIs
<1> QED
  BY <1>1, <1>3, DeliversKeeps

LEMMA RepliesKeeps == ASSUME TerminalInv, PeopleAssumption, NEW a \in TalkAgents, Screen!Replies(a) PROVE TerminalInv'
<1>0. /\ messages \in Nat /\ messages + 1 \in Nat /\ TalkManager \in TalkAgents /\ UNCHANGED <<life, pending, talkStatus>>
  BY DEF TerminalInv, TerminalTypes, PeopleAssumption, Screen!Replies, Screen!ui, Screen!shown
<1>1. CASE a = TalkManager
  <2> DEFINE e == Screen!Event("reply", a, messages + 1)
  <2>1. feed' = Append(feed, e) /\ messages' = messages + 1 /\ mail' = mail
    BY <1>1 DEF Screen!Replies
  <2>2. e \in Events /\ ~Adds(e) /\ ~Clears(e)
    <3>1. e \in Events
      BY <1>0, EventIs DEF Kinds
    <3> QED
      BY <1>1, <3>1 DEF Screen!Event, Adds, Clears
  <2> HIDE DEF e
  <2>3. /\ feed' \in Seq(Events) /\ Len(feed') = Len(feed) + 1 /\ Len(feed) \in Nat
        /\ DOMAIN feed' = 1..(Len(feed) + 1) /\ DOMAIN feed = 1..Len(feed)
        /\ \A i \in 1..Len(feed) : feed'[i] = feed[i]
        /\ \A i \in DOMAIN feed' : i > Len(feed) => feed'[i] = e
    BY <2>1, <2>2, OneEvent
  <2>4. TerminalTypes'
    BY <1>0, <2>1, <2>3 DEF TerminalInv, TerminalTypes
  <2>5. MailPlaced'
    <3>1. ASSUME NEW i \in DOMAIN feed', Adds(feed'[i]) \/ Clears(feed'[i]) PROVE feed'[i].id <= messages'
      <4>1. i \in DOMAIN feed /\ feed'[i] = feed[i]
        BY <2>2, <2>3, <3>1
      <4>2. feed[i].id <= messages /\ feed[i] \in Events
        BY <3>1, <4>1 DEF TerminalInv, TerminalTypes, MailPlaced
      <4>3. feed[i].id \in Nat
        BY <4>2 DEF Events
      <4> QED
        BY <1>0, <2>1, <4>1, <4>2, <4>3
    <3>2. ASSUME NEW c \in TalkAgents, NEW i \in DOMAIN mail[c] PROVE mail[c][i] <= messages'
      <4>1. mail[c][i] \in Nat /\ mail[c][i] <= messages
        BY DEF TerminalInv, TerminalTypes, MailPlaced
      <4> QED
        BY <1>0, <2>1, <4>1
    <3> QED
      BY <2>1, <3>1, <3>2 DEF TerminalInv, MailPlaced
  <2>6. Listens' => Listens
    BY <1>0 DEF Listens
  <2>7. Len(feed) <= Len(feed')
    BY <2>3
  <2> QED
    BY <1>0, <2>1, <2>2, <2>3, <2>4, <2>5, <2>6, <2>7, Grows
<1>2. CASE a # TalkManager
  <2> DEFINE m == messages + 1
             e == [Screen!Event("reply", TalkManager, m) EXCEPT !.from = a]
             f == Screen!Event("queued", TalkManager, m)
             more == <<e, f>>
  <2>1. Screen!Delivers(TalkManager) /\ feed' = feed \o more
    BY <1>2 DEF Screen!Replies
  <2>2. e \in Events /\ f \in Events
    <3>1. Screen!Event("reply", TalkManager, m) \in Events /\ f \in Events
      BY <1>0, EventIs DEF Kinds
    <3> QED
      BY <3>1 DEF Events
  <2>3. Adds(e) /\ ~Clears(e) /\ e.id = m /\ Adds(f) /\ ~Clears(f) /\ f.id = m
    BY <1>2 DEF Screen!Event, Adds, Clears
  <2> HIDE DEF e, f, Adds, Clears
  <2>4. /\ more \in Seq(Events) /\ DOMAIN more = {1, 2} /\ more[1] = e /\ more[2] = f
    BY <2>2
  <2> QED
    BY <1>0, <2>1, <2>3, <2>4, DeliversKeeps
<1> QED
  BY <1>1, <1>2

\* One sequence after another.
Joined(r, s, u) == r = s \o u
LEMMA JoinIs ==
  ASSUME NEW S, NEW s \in Seq(S), NEW u \in Seq(S), NEW r, Joined(r, s, u)
  PROVE  /\ r \in Seq(S) /\ Len(r) = Len(s) + Len(u) /\ Len(s) \in Nat /\ Len(u) \in Nat
         /\ DOMAIN r = 1..(Len(s) + Len(u)) /\ DOMAIN s = 1..Len(s) /\ DOMAIN u = 1..Len(u)
         /\ \A i \in 1..Len(s) : r[i] = s[i]
         /\ \A i \in 1..Len(u) : r[Len(s) + i] = u[i]
BY DEF Joined

\* The mail of the agents of S is gone, and the manager is told of it or not.
Emptied(S, told) ==
  /\ mail' \in [TalkAgents -> Seq(Nat)] /\ messages' = IF told THEN messages + 1 ELSE messages
  /\ \A c \in TalkAgents : \A i \in DOMAIN mail'[c] :
       (c \notin S /\ i \in DOMAIN mail[c] /\ mail'[c][i] = mail[c][i])
         \/ (told /\ c = TalkManager /\ i \notin DOMAIN mail[c] /\ i = Len(mail[c]) + 1 /\ mail'[c][i] = messages + 1)
  /\ \A c \in TalkAgents \ S : \A i \in DOMAIN mail[c] : i \in DOMAIN mail'[c] /\ mail'[c][i] = mail[c][i]
  /\ told => \E i \in DOMAIN mail'[TalkManager] : mail'[TalkManager][i] = messages + 1
\* What is published of it.
Reports(more, S, told) ==
  /\ \A i \in DOMAIN more :
       /\ Clears(more[i]) => \E c \in S : \E k \in DOMAIN mail[c] : mail[c][k] = more[i].id
       /\ Adds(more[i]) => told /\ more[i].id = messages + 1
  /\ \A c \in S : \A k \in DOMAIN mail[c] : \E i \in DOMAIN more : Clears(more[i]) /\ more[i].id = mail[c][k]
  /\ told => \E i \in DOMAIN more : Adds(more[i]) /\ more[i].id = messages + 1

LEMMA DiscardsKeeps ==
  ASSUME TerminalInv, PeopleAssumption, NEW S \in SUBSET TalkAgents, NEW told \in BOOLEAN,
         life' \in [TalkAgents -> [state : States, revision : Nat]], UNCHANGED <<pending, talkStatus>>,
         Emptied(S, told), NEW more \in Seq(Events), Joined(feed', feed, more), Reports(more, S, told)
  PROVE  TerminalInv'
<1> USE DEF Emptied, Reports, Joined
<1> DEFINE m == messages + 1
<1>0. /\ messages \in Nat /\ mail \in [TalkAgents -> Seq(Nat)] /\ feed \in Seq(Events) /\ TalkManager \in TalkAgents
      /\ messages' \in Nat /\ messages <= messages'
  BY DEF TerminalInv, TerminalTypes, PeopleAssumption
<1>1. /\ feed' \in Seq(Events) /\ Len(feed') = Len(feed) + Len(more) /\ Len(feed) \in Nat /\ Len(more) \in Nat
      /\ DOMAIN feed' = 1..(Len(feed) + Len(more)) /\ DOMAIN feed = 1..Len(feed) /\ DOMAIN more = 1..Len(more)
      /\ \A i \in 1..Len(feed) : feed'[i] = feed[i]
      /\ \A i \in 1..Len(more) : feed'[Len(feed) + i] = more[i]
  BY <1>0
<1>2. ASSUME NEW i \in DOMAIN feed', i > Len(feed)
      PROVE  i - Len(feed) \in DOMAIN more /\ feed'[i] = more[i - Len(feed)]
  <2>1. i - Len(feed) \in 1..Len(more) /\ Len(feed) + (i - Len(feed)) = i
    BY <1>1, <1>2
  <2> QED
    BY <1>1, <2>1
<1>3. ASSUME NEW i \in DOMAIN more
      PROVE  Len(feed) + i \in DOMAIN feed' /\ Len(feed) + i > Len(feed) /\ feed'[Len(feed) + i] = more[i]
  BY <1>1
<1>4. \A c \in TalkAgents : \A i \in DOMAIN mail[c] : mail[c][i] \in Nat /\ mail[c][i] <= messages
  BY <1>0 DEF TerminalInv, MailPlaced
<1>5. ~ (m <= messages) /\ \A c \in TalkAgents : \A i \in DOMAIN mail[c] : mail[c][i] # m
  BY <1>0, <1>4
<1>6. \A x, y \in TalkAgents : \A k \in DOMAIN mail[x] : \A l \in DOMAIN mail[y] :
         mail[x][k] = mail[y][l] => x = y /\ k = l
  BY DEF TerminalInv, MailPlaced
<1>17. \A c \in S : \A k \in DOMAIN mail[c] :
          \E i \in DOMAIN more : Clears(more[i]) /\ more[i].id = mail[c][k]
  OBVIOUS
<1>7. ASSUME NEW c \in S, NEW k \in DOMAIN mail[c] PROVE ~In(mail[c][k], mail')
  <2> SUFFICES ASSUME NEW d \in TalkAgents, NEW i \in DOMAIN mail'[d], mail'[d][i] = mail[c][k] PROVE FALSE
    BY DEF In
  <2>1. CASE d \notin S /\ i \in DOMAIN mail[d] /\ mail'[d][i] = mail[d][i]
    <3>1. mail[d][i] = mail[c][k]
      BY <2>1
    <3>2. d = c
      BY <1>6, <2>1, <3>1
    <3> QED
      BY <2>1, <3>2
  <2>2. CASE mail'[d][i] = m
    <3>1. c \in TalkAgents /\ mail[c][k] # m
      BY <1>5
    <3> QED
      BY <2>2, <3>1
  <2> QED
    BY <2>1, <2>2
<1>8. ASSUME NEW id, In(id, mail'), ~In(id, mail) PROVE told /\ id = m
  <2>1. PICK d \in TalkAgents : \E i \in DOMAIN mail'[d] : mail'[d][i] = id
    BY <1>8 DEF In
  <2>2. PICK i \in DOMAIN mail'[d] : mail'[d][i] = id
    BY <2>1
  <2>3. ~ (i \in DOMAIN mail[d] /\ mail'[d][i] = mail[d][i])
    BY <1>8, <2>2 DEF In
  <2> QED
    BY <2>2, <2>3
<1>9. ASSUME NEW id, In(id, mail), ~In(id, mail')
      PROVE  \E j \in DOMAIN feed' : j > Len(feed) /\ Clears(feed'[j]) /\ feed'[j].id = id
  <2>1. PICK d \in TalkAgents : \E i \in DOMAIN mail[d] : mail[d][i] = id
    BY <1>9 DEF In
  <2>2. PICK i \in DOMAIN mail[d] : mail[d][i] = id
    BY <2>1
  <2>3. d \in S
    BY <1>9, <2>2 DEF In
  <2>4. \E j \in DOMAIN more : Clears(more[j]) /\ more[j].id = mail[d][i]
    <3>1. \A k \in DOMAIN mail[d] :
            \E j \in DOMAIN more : Clears(more[j]) /\ more[j].id = mail[d][k]
      BY <1>17, <2>3
    <3> QED
      BY <3>1
  <2>5. PICK j \in DOMAIN more : Clears(more[j]) /\ more[j].id = id
    BY <2>2, <2>4
  <2>6. Len(feed) + j \in DOMAIN feed' /\ Len(feed) + j > Len(feed) /\ feed'[Len(feed) + j] = more[j]
    BY <1>3, <2>5
  <2> QED
    BY <2>5, <2>6
<1>10. told => In(m, mail') /\ \E j \in DOMAIN feed' : j > Len(feed) /\ Adds(feed'[j]) /\ feed'[j].id = m
  <2> SUFFICES ASSUME told PROVE In(m, mail') /\ \E j \in DOMAIN feed' : j > Len(feed) /\ Adds(feed'[j]) /\ feed'[j].id = m
    OBVIOUS
  <2>1. PICK j \in DOMAIN more : Adds(more[j]) /\ more[j].id = m
    OBVIOUS
  <2>2. In(m, mail')
    BY <1>0 DEF In
  <2>3. Len(feed) + j \in DOMAIN feed' /\ Len(feed) + j > Len(feed) /\ feed'[Len(feed) + j] = more[j]
    BY <1>3, <2>1
  <2>4. Adds(feed'[Len(feed) + j]) /\ feed'[Len(feed) + j].id = m
    BY <2>1, <2>3
  <2> HIDE DEF m
  <2> QED
    BY <2>2, <2>3, <2>4, Zenon
<1>11. ASSUME NEW i \in DOMAIN feed', i > Len(feed)
       PROVE  /\ Adds(feed'[i]) => In(feed'[i].id, mail')
              /\ Clears(feed'[i]) => ~In(feed'[i].id, mail')
              /\ Adds(feed'[i]) \/ Clears(feed'[i]) => feed'[i].id <= messages'
  <2> DEFINE e == more[i - Len(feed)]
  <2>1. i - Len(feed) \in DOMAIN more /\ feed'[i] = e
    BY <1>2, <1>11
  <2>2. CASE Adds(e)
    <3>1. told /\ e.id = m
      BY <2>1, <2>2
    <3>2. ~Clears(e)
      BY <2>2 DEF Adds, Clears
    <3>3. m <= messages'
      BY <1>0, <3>1
    <3> QED
      BY <1>10, <2>1, <3>1, <3>2, <3>3
  <2>3. CASE Clears(e)
    <3>1. PICK c \in S : \E k \in DOMAIN mail[c] : mail[c][k] = e.id
      BY <2>1, <2>3
    <3>2. PICK k \in DOMAIN mail[c] : mail[c][k] = e.id
      BY <3>1
    <3>3. ~In(e.id, mail')
      BY <1>7, <3>2
    <3>4. ~Adds(e)
      BY <2>3 DEF Adds, Clears
    <3>5. e.id \in Nat /\ e.id <= messages
      BY <1>4, <3>2
    <3> HIDE DEF e
    <3>6. \A x, y, z \in Nat : x <= y /\ y <= z => x <= z
      OBVIOUS
    <3>7. e.id <= messages'
      BY <1>0, <3>5, <3>6
    <3> QED
      BY <2>1, <3>3, <3>4, <3>7
  <2> QED
    BY <2>1, <2>2, <2>3
<1>12. TerminalTypes'
  BY <1>0, <1>1 DEF TerminalTypes
<1>13. MailPlaced'
  <2>1. ASSUME NEW x \in TalkAgents, NEW y \in TalkAgents, NEW i \in DOMAIN mail'[x], NEW j \in DOMAIN mail'[y],
               mail'[x][i] = mail'[y][j]
        PROVE  x = y /\ i = j
    <3>1. CASE i \in DOMAIN mail[x] /\ mail'[x][i] = mail[x][i] /\ j \in DOMAIN mail[y] /\ mail'[y][j] = mail[y][j]
      <4>1. mail[x][i] = mail[y][j]
        BY <2>1, <3>1
      <4> QED
        BY <1>6, <3>1, <4>1
    <3>2. CASE mail'[x][i] = m
      <4>1. ~ (j \in DOMAIN mail[y] /\ mail'[y][j] = mail[y][j])
        BY <1>5, <2>1, <3>2
      <4>2. ~ (i \in DOMAIN mail[x] /\ mail'[x][i] = mail[x][i])
        BY <1>5, <3>2
      <4>3. x = TalkManager /\ i = Len(mail[x]) + 1 /\ y = TalkManager /\ j = Len(mail[y]) + 1
        BY <4>1, <4>2
      <4> QED
        BY <4>3
    <3>3. CASE mail'[y][j] = m
      <4>1. mail'[x][i] = m
        BY <2>1, <3>3
      <4> QED
        BY <3>2, <4>1
    <3> QED
      BY <3>1, <3>2, <3>3
  <2>2. ASSUME NEW c \in TalkAgents, NEW i \in DOMAIN mail'[c] PROVE mail'[c][i] <= messages'
    <3>1. (i \in DOMAIN mail[c] /\ mail'[c][i] = mail[c][i]) \/ (told /\ mail'[c][i] = m)
      OBVIOUS
    <3> QED
      BY <1>0, <1>4, <3>1
  <2>3. ASSUME NEW i \in DOMAIN feed', Adds(feed'[i]) \/ Clears(feed'[i]) PROVE feed'[i].id <= messages'
    <3>1. CASE i \in DOMAIN feed
      <4>1. feed'[i] = feed[i] /\ feed[i] \in Events
        BY <1>0, <1>1, <3>1
      <4>2. feed[i].id <= messages /\ feed[i].id \in Nat
        BY <2>3, <3>1, <4>1 DEF TerminalInv, MailPlaced, Events
      <4> QED
        BY <1>0, <4>1, <4>2
    <3>2. CASE i > Len(feed)
      BY <1>11, <2>3, <3>2
    <3> QED
      BY <1>1, <3>1, <3>2
  <2> QED
    BY <2>1, <2>2, <2>3 DEF MailPlaced
<1>14. \A id : In(id, mail') /\ ~In(id, mail) =>
            /\ ~ (id <= messages)
            /\ \E i \in DOMAIN feed' : i > Len(feed) /\ Adds(feed'[i]) /\ feed'[i].id = id
  BY <1>5, <1>8, <1>10
<1>15. Listens' => Listens
  BY DEF Listens
<1>16. Len(feed) <= Len(feed') /\ \A i \in 1..Len(feed) : feed'[i] = feed[i]
  BY <1>1
<1> QED
  BY <1>9, <1>11, <1>12, <1>13, <1>14, <1>15, <1>16, Grows

Layout(q, p, d, e, l, n) ==
  /\ DOMAIN p = 1..l /\ DOMAIN q = 1..(l + n + 1) /\ q[l + n + 1] = e
  /\ \A i \in 1..l : q[i] = p[i]
  /\ \A i \in 1..n : q[l + i] = d[i]
Undelivered(d, a, n) ==
  DOMAIN mail[a] = 1..n /\ \A i \in 1..n : Clears(d[i]) /\ ~Adds(d[i]) /\ d[i].id = mail[a][i]
Spliced(q, p, d, e) == q = (p \o d) \o <<e>>

LEMMA SpliceIs ==
  ASSUME NEW S, NEW p \in Seq(S), NEW d \in Seq(S), NEW e \in S, NEW q, Spliced(q, p, d, e)
  PROVE  q \in Seq(S) /\ Len(p) \in Nat /\ Len(d) \in Nat /\ Layout(q, p, d, e, Len(p), Len(d))
<1>1. PICK r : r = p \o d
  OBVIOUS
<1>2. PICK u : u = <<e>>
  OBVIOUS
<1>3. u \in Seq(S) /\ Len(u) = 1 /\ u[1] = e
  BY <1>2
<1>4. Joined(r, p, d) /\ Joined(q, r, u)
  BY <1>1, <1>2 DEF Spliced, Joined
<1>5. /\ r \in Seq(S) /\ Len(r) = Len(p) + Len(d) /\ Len(p) \in Nat /\ Len(d) \in Nat
      /\ DOMAIN r = 1..(Len(p) + Len(d)) /\ DOMAIN p = 1..Len(p) /\ DOMAIN d = 1..Len(d)
      /\ \A i \in 1..Len(p) : r[i] = p[i]
      /\ \A i \in 1..Len(d) : r[Len(p) + i] = d[i]
  BY <1>4, JoinIs
<1>6. /\ q \in Seq(S) /\ DOMAIN q = 1..(Len(r) + Len(u))
      /\ \A i \in 1..Len(r) : q[i] = r[i]
      /\ \A i \in 1..Len(u) : q[Len(r) + i] = u[i]
  <2>1. r \in Seq(S) /\ u \in Seq(S) /\ Joined(q, r, u)
    BY <1>3, <1>4, <1>5
  <2> QED
    BY <2>1, JoinIs
<1>7. DOMAIN q = 1..(Len(p) + Len(d) + 1) /\ q[Len(p) + Len(d) + 1] = e
  BY <1>3, <1>5, <1>6
<1>8. \A i \in 1..Len(p) : q[i] = p[i]
  BY <1>5, <1>6
<1>9. \A i \in 1..Len(d) : Len(p) + i \in 1..Len(r) /\ q[Len(p) + i] = d[i]
  BY <1>5, <1>6
<1> QED
  BY <1>5, <1>6, <1>7, <1>8, <1>9 DEF Layout

LEMMA SplicedIs ==
  ASSUME NEW a \in TalkAgents, NEW n \in Nat, NEW l \in Nat, NEW p, NEW d, NEW e, NEW q,
         ~Adds(e), ~Clears(e), Undelivered(d, a, n), Layout(q, p, d, e, l, n)
  PROVE  /\ \A i \in DOMAIN p : i \in DOMAIN q /\ q[i] = p[i]
         /\ \A i \in DOMAIN q : \/ i \in DOMAIN p /\ q[i] = p[i]
                                \/ ~Adds(q[i]) /\ \E k \in DOMAIN mail[a] : mail[a][k] = q[i].id
                                \/ ~Adds(q[i]) /\ ~Clears(q[i])
         /\ \A k \in DOMAIN mail[a] : \E i \in DOMAIN q : Clears(q[i]) /\ q[i].id = mail[a][k]
<1>0. /\ DOMAIN mail[a] = 1..n /\ DOMAIN p = 1..l /\ DOMAIN q = 1..(l + n + 1) /\ q[l + n + 1] = e
      /\ \A i \in 1..n : Clears(d[i]) /\ ~Adds(d[i]) /\ d[i].id = mail[a][i]
      /\ \A i \in 1..l : q[i] = p[i]
      /\ \A i \in 1..n : q[l + i] = d[i]
  BY DEF Undelivered, Layout
<1>1. \A i \in DOMAIN p : i \in DOMAIN q /\ q[i] = p[i]
  BY <1>0
<1>2. ASSUME NEW i \in DOMAIN q
      PROVE  \/ i \in DOMAIN p /\ q[i] = p[i]
             \/ ~Adds(q[i]) /\ \E k \in DOMAIN mail[a] : mail[a][k] = q[i].id
             \/ ~Adds(q[i]) /\ ~Clears(q[i])
  <2>1. CASE i \in 1..l
    BY <1>0, <2>1
  <2>2. CASE i = l + n + 1
    BY <1>0, <2>2
  <2>3. CASE i \in (l + 1)..(l + n)
    <3>1. i - l \in 1..n /\ l + (i - l) = i
      BY <2>3
    <3>2. q[i] = d[i - l]
      BY <1>0, <3>1
    <3> QED
      BY <1>0, <3>1, <3>2
  <2> QED
    BY <1>0, <2>1, <2>2, <2>3
<1>3. ASSUME NEW k \in DOMAIN mail[a] PROVE \E i \in DOMAIN q : Clears(q[i]) /\ q[i].id = mail[a][k]
  <2>1. k \in 1..n /\ l + k \in DOMAIN q /\ q[l + k] = d[k]
    BY <1>0
  <2> QED
    BY <1>0, <2>1
<1> QED
  BY <1>1, <1>2, <1>3

\* A sequence that goes on with the mail of an agent, told as undelivered, and one event about no message.
LEMMA DrainedIs ==
  ASSUME NEW a \in TalkAgents, mail[a] \in Seq(Nat), NEW p \in Seq(Events), NEW e \in Events,
         ~Adds(e), ~Clears(e), NEW q, Spliced(q, p, Screen!Drained(a), e)
  PROVE  /\ q \in Seq(Events) /\ \A i \in DOMAIN p : i \in DOMAIN q /\ q[i] = p[i]
         /\ \A i \in DOMAIN q : \/ i \in DOMAIN p /\ q[i] = p[i]
                                \/ ~Adds(q[i]) /\ \E k \in DOMAIN mail[a] : mail[a][k] = q[i].id
                                \/ ~Adds(q[i]) /\ ~Clears(q[i])
         /\ \A k \in DOMAIN mail[a] : \E i \in DOMAIN q : Clears(q[i]) /\ q[i].id = mail[a][k]
<1> DEFINE n == Len(mail[a])
           d == Screen!Drained(a)
<1>1. n \in Nat /\ DOMAIN mail[a] = 1..n /\ \A i \in 1..n : mail[a][i] \in Nat
  OBVIOUS
<1>2. ASSUME NEW i \in 1..n
      PROVE  /\ Screen!Event("undelivered", a, mail[a][i]) \in Events /\ Clears(Screen!Event("undelivered", a, mail[a][i]))
             /\ ~Adds(Screen!Event("undelivered", a, mail[a][i])) /\ Screen!Event("undelivered", a, mail[a][i]).id = mail[a][i]
  <2>1. Screen!Event("undelivered", a, mail[a][i]) \in Events
    BY <1>1, EventIs DEF Kinds
  <2> QED
    BY <2>1 DEF Screen!Event, Clears, Adds
<1>3. d = [i \in 1..n |-> Screen!Event("undelivered", a, mail[a][i])]
  BY DEF Screen!Drained
<1>4. /\ d \in Seq(Events) /\ Len(d) = n
      /\ \A i \in 1..n : Clears(d[i]) /\ ~Adds(d[i]) /\ d[i].id = mail[a][i]
  <2> HIDE DEF n
  <2>1. d \in [1..n -> Events] /\ \A i \in 1..n : Clears(d[i]) /\ ~Adds(d[i]) /\ d[i].id = mail[a][i]
    BY <1>2, <1>3
  <2> HIDE DEF d
  <2> QED
    BY <1>1, <2>1
<1>5. Spliced(q, p, d, e)
  OBVIOUS
<1> HIDE DEF d, n
<1>6. q \in Seq(Events) /\ Len(p) \in Nat /\ Layout(q, p, d, e, Len(p), n)
  BY <1>4, <1>5, SpliceIs
<1> QED
  <2>1. Undelivered(d, a, n)
    BY <1>1, <1>4 DEF Undelivered
  <2> QED
    <3> DEFINE l == Len(p)
    <3>1. l \in Nat /\ n \in Nat /\ Layout(q, p, d, e, l, n)
      BY <1>1, <1>6
    <3> HIDE DEF l
    <3>2. /\ \A i \in DOMAIN p : i \in DOMAIN q /\ q[i] = p[i]
          /\ \A i \in DOMAIN q : \/ i \in DOMAIN p /\ q[i] = p[i]
                                 \/ ~Adds(q[i]) /\ \E k \in DOMAIN mail[a] : mail[a][k] = q[i].id
                                 \/ ~Adds(q[i]) /\ ~Clears(q[i])
          /\ \A k \in DOMAIN mail[a] : \E i \in DOMAIN q : Clears(q[i]) /\ q[i].id = mail[a][k]
      BY <2>1, <3>1, SplicedIs
    <3> QED
      BY <1>6, <3>2

\* What is published of agents interrupted one after the other.
LEMMA PublishedIs ==
  ASSUME NEW S \in SUBSET TalkAgents, NEW n \in Nat, NEW order \in [1..n -> S],
         life \in [TalkAgents -> [state : States, revision : Nat]], mail \in [TalkAgents -> Seq(Nat)]
  PROVE  /\ Screen!Published(order) \in Seq(Events)
         /\ \A i \in DOMAIN Screen!Published(order) :
              /\ ~Adds(Screen!Published(order)[i])
              /\ Clears(Screen!Published(order)[i]) =>
                   \E c \in S : \E k \in DOMAIN mail[c] : mail[c][k] = Screen!Published(order)[i].id
         /\ \A l \in 1..n : \A k \in DOMAIN mail[order[l]] :
              \E i \in DOMAIN Screen!Published(order) :
                 Clears(Screen!Published(order)[i]) /\ Screen!Published(order)[i].id = mail[order[l]][k]
<1> DEFINE E(i) == Screen!StateEvent(order[i], "interrupted", life[order[i]].revision + 1)
           F(f, i) == IF i = 0 THEN <<>> ELSE (f[i - 1] \o Screen!Drained(order[i])) \o <<E(i)>>
           Is(f, k) == f = [i \in 0..k |-> F(f, i)]
<1>1. Len(order) = n
  OBVIOUS
<1>2. \A k \in 0..n : \E f : Is(f, k)
  <2> DEFINE Bad == {k \in 0..n : ~ \E f : Is(f, k)}
  <2>1. SUFFICES ASSUME Bad # {} PROVE FALSE
    OBVIOUS
  <2>2. PICK m \in Bad : \A x \in Bad : m <= x
    <3>1. Bad \in SUBSET Nat
      <4> HIDE DEF Is
      <4> QED
        OBVIOUS
    <3> HIDE DEF Bad
    <3> QED
      BY <2>1, <3>1, LeastOf
  <2>3. CASE m = 0
    <3> DEFINE f == [i \in 0..0 |-> <<>>]
    <3>1. f = [i \in 0..0 |-> F(f, i)]
      OBVIOUS
    <3>2. Is(f, 0)
      BY <3>1
    <3> HIDE DEF Is
    <3> QED
      BY <2>3, <3>2
  <2>4. CASE m # 0
    <3>1. m \in 1..n /\ m - 1 \in 0..n /\ ~ (m <= m - 1)
      BY <2>4
    <3>2. m - 1 \notin Bad
      <4> HIDE DEF Bad
      <4> QED
        BY <2>2, <3>1
    <3>3. PICK f : Is(f, m - 1)
      <4> HIDE DEF Is
      <4> QED
        BY <3>1, <3>2
    <3> DEFINE g == [i \in 0..m |-> IF i = m THEN F(f, m) ELSE f[i]]
    <3>4. ASSUME NEW i \in 0..m PROVE g[i] = F(g, i)
      <4>1. CASE i = 0
        <5>1. 0 \in 0..(m - 1)
          BY <3>1
        <5>2. f[0] = <<>>
          BY <3>3, <5>1
        <5> QED
          BY <3>1, <4>1, <5>2
      <4>2. CASE i # 0 /\ i # m
        <5>1. i \in 0..(m - 1) /\ i - 1 \in 0..m /\ i - 1 # m
          BY <3>1, <4>2
        <5>2. f[i] = F(f, i)
          BY <3>3, <5>1
        <5>3. g[i] = f[i] /\ g[i - 1] = f[i - 1]
          BY <4>2, <5>1
        <5> HIDE DEF g
        <5> QED
          BY <4>2, <5>2, <5>3
      <4>3. CASE i = m
        <5>1. m - 1 \in 0..m /\ m - 1 # m
          BY <3>1
        <5>2. g[m] = F(f, m) /\ g[m - 1] = f[m - 1]
          BY <5>1
        <5> HIDE DEF g
        <5> QED
          BY <2>4, <4>3, <5>2
      <4> QED
        BY <4>1, <4>2, <4>3
    <3>5. Is(g, m)
      <4>1. DOMAIN g = 0..m /\ g = [i \in 0..m |-> g[i]]
        OBVIOUS
      <4> HIDE DEF g, F
      <4> QED
        BY <3>4, <4>1
    <3> HIDE DEF Is
    <3> QED
      BY <3>5
  <2> QED
    BY <2>3, <2>4
<1> DEFINE all == CHOOSE f : Is(f, n)
<1>3. all = [i \in 0..n |-> F(all, i)]
  <2>1. Is(all, n)
    <3>1. n \in 0..n
      OBVIOUS
    <3> HIDE DEF Is
    <3> QED
      BY <1>2, <3>1
  <2> QED
    BY <2>1
<1>4. Screen!Published(order) = all[n]
  BY <1>1, Zenon DEF Screen!Published
<1> HIDE DEF all
<1>5. all[0] = <<>> /\ \A i \in 1..n : all[i] = (all[i - 1] \o Screen!Drained(order[i])) \o <<E(i)>>
  <2>1. 0 \in 0..n /\ \A i \in 1..n : i \in 0..n /\ i # 0
    OBVIOUS
  <2>2. \A i \in 0..n : all[i] = F(all, i)
    BY <1>3
  <2> QED
    BY <2>1, <2>2
<1> HIDE DEF Is, F
<1>6. ASSUME NEW i \in 1..n
      PROVE  order[i] \in S /\ order[i] \in TalkAgents /\ mail[order[i]] \in Seq(Nat)
             /\ E(i) \in Events /\ ~Adds(E(i)) /\ ~Clears(E(i))
  <2>1. order[i] \in S /\ order[i] \in TalkAgents /\ mail[order[i]] \in Seq(Nat)
    OBVIOUS
  <2>2. "interrupted" \in States
    BY DEF States
  <2>3. life[order[i]] \in [state : States, revision : Nat]
    BY <2>1
  <2>4. life[order[i]].revision + 1 \in Nat
    BY <2>3
  <2> QED
    BY <2>1, <2>2, <2>4, StateEventIs
<1> HIDE DEF E
<1> DEFINE Told(s, k) ==
      /\ s \in Seq(Events)
      /\ \A i \in DOMAIN s :
           /\ ~Adds(s[i])
           /\ Clears(s[i]) => \E c \in S : \E j \in DOMAIN mail[c] : mail[c][j] = s[i].id
      /\ \A l \in 1..k : \A j \in DOMAIN mail[order[l]] :
           \E i \in DOMAIN s : Clears(s[i]) /\ s[i].id = mail[order[l]][j]
<1>7. Told(<<>>, 0)
  OBVIOUS
<1>8. ASSUME NEW k \in 1..n, Told(all[k - 1], k - 1) PROVE Told(all[k], k)
  <2> DEFINE p == all[k - 1]
             q == all[k]
             a == order[k]
  <2>1. a \in S /\ a \in TalkAgents /\ mail[a] \in Seq(Nat) /\ E(k) \in Events /\ ~Adds(E(k)) /\ ~Clears(E(k))
    BY <1>6
  <2>2. q = (p \o Screen!Drained(a)) \o <<E(k)>>
    BY <1>5
  <2>3. p \in Seq(Events)
    BY <1>8
  <2>4. /\ q \in Seq(Events) /\ \A i \in DOMAIN p : i \in DOMAIN q /\ q[i] = p[i]
        /\ \A i \in DOMAIN q : \/ i \in DOMAIN p /\ q[i] = p[i]
                               \/ ~Adds(q[i]) /\ \E j \in DOMAIN mail[a] : mail[a][j] = q[i].id
                               \/ ~Adds(q[i]) /\ ~Clears(q[i])
        /\ \A j \in DOMAIN mail[a] : \E i \in DOMAIN q : Clears(q[i]) /\ q[i].id = mail[a][j]
    <3> DEFINE e == E(k)
    <3>1. e \in Events /\ ~Adds(e) /\ ~Clears(e) /\ Spliced(q, p, Screen!Drained(a), e)
      BY <2>1, <2>2 DEF Spliced
    <3> HIDE DEF p, q, a, e, Told
    <3> QED
      BY <2>1, <2>3, <3>1, DrainedIs
  <2>5. /\ \A i \in DOMAIN p :
             /\ ~Adds(p[i])
             /\ Clears(p[i]) => \E c \in S : \E j \in DOMAIN mail[c] : mail[c][j] = p[i].id
        /\ \A l \in 1..(k - 1) : \A j \in DOMAIN mail[order[l]] :
             \E i \in DOMAIN p : Clears(p[i]) /\ p[i].id = mail[order[l]][j]
    BY <1>8
  <2> HIDE DEF p, q
  <2>6. ASSUME NEW i \in DOMAIN q
        PROVE  /\ ~Adds(q[i])
               /\ Clears(q[i]) => \E c \in S : \E j \in DOMAIN mail[c] : mail[c][j] = q[i].id
    <3>1. CASE i \in DOMAIN p /\ q[i] = p[i]
      BY <2>5, <3>1
    <3>2. CASE ~Adds(q[i]) /\ \E j \in DOMAIN mail[a] : mail[a][j] = q[i].id
      BY <2>1, <3>2
    <3>3. CASE ~Adds(q[i]) /\ ~Clears(q[i])
      BY <3>3
    <3> QED
      BY <2>4, <3>1, <3>2, <3>3
  <2>7. ASSUME NEW l \in 1..k, NEW j \in DOMAIN mail[order[l]]
        PROVE  \E i \in DOMAIN q : Clears(q[i]) /\ q[i].id = mail[order[l]][j]
    <3>1. CASE l = k
      BY <2>4, <3>1
    <3>2. CASE l # k
      <4>1. l \in 1..(k - 1)
        BY <3>2
      <4>2. PICK i \in DOMAIN p : Clears(p[i]) /\ p[i].id = mail[order[l]][j]
        BY <2>5, <4>1
      <4>3. i \in DOMAIN q /\ q[i] = p[i]
        BY <2>4, <4>2
      <4> QED
        BY <4>2, <4>3
    <3> QED
      BY <3>1, <3>2
  <2> QED
    BY <2>4, <2>6, <2>7 DEF q
<1> HIDE DEF Told
<1>9. Told(all[n], n)
  <2> DEFINE Bad == {k \in 0..n : ~Told(all[k], k)}
  <2>1. SUFFICES ASSUME Bad # {} PROVE FALSE
    <3>1. n \in 0..n
      OBVIOUS
    <3> QED
      BY <3>1
  <2>2. PICK m \in Bad : \A x \in Bad : m <= x
    <3>1. Bad \in SUBSET Nat
      OBVIOUS
    <3> HIDE DEF Bad
    <3> QED
      BY <2>1, <3>1, LeastOf
  <2>3. m # 0
    BY <1>5, <1>7
  <2>4. m \in 1..n /\ m - 1 \in 0..n /\ ~ (m <= m - 1)
    BY <2>3
  <2>5. m - 1 \notin Bad
    <3> HIDE DEF Bad
    <3> QED
      BY <2>2, <2>4
  <2>6. Told(all[m - 1], m - 1)
    BY <2>4, <2>5
  <2> QED
    BY <1>8, <2>4, <2>6
<1>10. Told(Screen!Published(order), n)
  BY <1>4, <1>9
<1> QED
  BY <1>10 DEF Told

LEMMA DrainedSeq ==
  ASSUME NEW a \in TalkAgents, mail[a] \in Seq(Nat) PROVE Screen!Drained(a) \in Seq(Events)
<1> DEFINE n == Len(mail[a])
<1>1. n \in Nat /\ \A i \in 1..n : mail[a][i] \in Nat
  OBVIOUS
<1>2. \A i \in 1..n : Screen!Event("undelivered", a, mail[a][i]) \in Events
  BY <1>1, EventIs DEF Kinds
<1>3. Screen!Drained(a) = [i \in 1..n |-> Screen!Event("undelivered", a, mail[a][i])]
  BY DEF Screen!Drained
<1> HIDE DEF n
<1> QED
  BY <1>1, <1>2, <1>3

LEMMA ExitsKeeps == ASSUME TerminalInv, PeopleAssumption, NEW a \in TalkAgents, Screen!Exits(a) PROVE TerminalInv'
<1> DEFINE m == messages + 1
           x == Screen!Event("exited", a, 0)
           d == Screen!Drained(a)
           tells == life[a].state = "failed" /\ a # TalkManager /\ Screen!Live(TalkManager)
<1>0. /\ messages \in Nat /\ m \in Nat /\ mail \in [TalkAgents -> Seq(Nat)] /\ mail[a] \in Seq(Nat)
      /\ feed \in Seq(Events) /\ TalkManager \in TalkAgents /\ mail[TalkManager] \in Seq(Nat)
      /\ life \in [TalkAgents -> [state : States, revision : Nat]]
  BY DEF TerminalInv, TerminalTypes, PeopleAssumption
<1>1. UNCHANGED <<life, pending, talkStatus>>
  BY DEF Screen!Exits, Screen!ui, Screen!shown
<1>2. life' \in [TalkAgents -> [state : States, revision : Nat]]
  BY <1>0, <1>1
<1>3. x \in Events /\ ~Adds(x) /\ ~Clears(x)
  <2>1. x \in Events
    BY EventIs DEF Kinds
  <2> QED
    BY <2>1 DEF Screen!Event, Adds, Clears
<1>4. d \in Seq(Events)
  BY <1>0, DrainedSeq
<1>5. \/ /\ tells /\ messages' = m /\ mail' = [mail EXCEPT ![a] = <<>>, ![TalkManager] = Append(@, m)]
         /\ feed' = ((feed \o d) \o <<x>>) \o Screen!Delivered(TalkManager, m)
      \/ /\ ~tells /\ messages' = messages /\ mail' = [mail EXCEPT ![a] = <<>>]
         /\ feed' = (feed \o d) \o <<x>>
  BY DEF Screen!Exits
<1> HIDE DEF x, d, m
<1>6. PICK u : u = <<x>>
  OBVIOUS
<1>7. u \in Seq(Events)
  BY <1>3, <1>6
<1>8. PICK q : q = d \o u
  OBVIOUS
<1>9. q \in Seq(Events) /\ (feed \o d) \o u = feed \o q /\ Spliced(q, <<>>, d, x)
  <2>1. q \in Seq(Events)
    BY <1>4, <1>7, <1>8
  <2>2. (feed \o d) \o u = feed \o (d \o u)
    BY <1>0, <1>4, <1>7, ConcatAssociative
  <2>3. <<>> \o d = d
    BY <1>4, ConcatEmptySeq
  <2> QED
    BY <1>6, <1>8, <2>1, <2>2, <2>3 DEF Spliced
<1>10. /\ \A i \in DOMAIN q : \/ ~Adds(q[i]) /\ \E k \in DOMAIN mail[a] : mail[a][k] = q[i].id
                              \/ ~Adds(q[i]) /\ ~Clears(q[i])
       /\ \A k \in DOMAIN mail[a] : \E i \in DOMAIN q : Clears(q[i]) /\ q[i].id = mail[a][k]
  <2>1. PICK z : z = <<>>
    OBVIOUS
  <2>2. z \in Seq(Events) /\ DOMAIN z = {}
    BY <2>1
  <2>3. Spliced(q, z, Screen!Drained(a), x)
    BY <1>9, <2>1 DEF d
  <2>4. /\ \A i \in DOMAIN q : \/ i \in DOMAIN z /\ q[i] = z[i]
                               \/ ~Adds(q[i]) /\ \E k \in DOMAIN mail[a] : mail[a][k] = q[i].id
                               \/ ~Adds(q[i]) /\ ~Clears(q[i])
        /\ \A k \in DOMAIN mail[a] : \E i \in DOMAIN q : Clears(q[i]) /\ q[i].id = mail[a][k]
    <3>1. mail[a] \in Seq(Nat) /\ z \in Seq(Events)
      BY <1>0, <2>2
    <3> QED
      BY <1>3, <2>3, <3>1, DrainedIs
  <2> QED
    BY <2>2, <2>4
<1> DEFINE S == {a}
<1>11. CASE ~tells
  <2>1. /\ messages' = messages /\ mail' = [mail EXCEPT ![a] = <<>>] /\ feed' = feed \o q
    BY <1>5, <1>6, <1>9, <1>11
  <2>2. /\ mail' \in [TalkAgents -> Seq(Nat)] /\ DOMAIN mail'[a] = {}
        /\ \A c \in TalkAgents : c # a => mail'[c] = mail[c]
    BY <1>0, <2>1
  <2>3. S \in SUBSET TalkAgents /\ \A c \in S : c = a
    OBVIOUS
  <2>4. /\ \A c \in TalkAgents : \A i \in DOMAIN mail'[c] : c \notin S /\ i \in DOMAIN mail[c] /\ mail'[c][i] = mail[c][i]
        /\ \A c \in TalkAgents \ S : \A i \in DOMAIN mail[c] : i \in DOMAIN mail'[c] /\ mail'[c][i] = mail[c][i]
    BY <2>2
  <2>5. \A i \in DOMAIN q :
           /\ Clears(q[i]) => \E c \in S : \E k \in DOMAIN mail[c] : mail[c][k] = q[i].id
           /\ ~Adds(q[i])
    BY <1>10
  <2>6. \A c \in S : \A k \in DOMAIN mail[c] : \E i \in DOMAIN q : Clears(q[i]) /\ q[i].id = mail[c][k]
    BY <1>10
  <2> HIDE DEF S
  <2> QED
    <3>1. Emptied(S, FALSE)
      BY <2>1, <2>2, <2>4 DEF Emptied
    <3>2. Reports(q, S, FALSE)
      BY <2>5, <2>6 DEF Reports
    <3>3. Joined(feed', feed, q)
      BY <2>1 DEF Joined
    <3> QED
      BY <1>1, <1>2, <1>9, <2>3, <3>1, <3>2, <3>3, DiscardsKeeps
<1>12. CASE tells
  <2>0. a # TalkManager
    BY <1>12
  <2>1. /\ messages' = m /\ mail' = [mail EXCEPT ![a] = <<>>, ![TalkManager] = Append(@, m)]
        /\ feed' = (feed \o q) \o Screen!Delivered(TalkManager, m)
    BY <1>5, <1>6, <1>9, <1>12
  <2>2. /\ mail' \in [TalkAgents -> Seq(Nat)] /\ DOMAIN mail'[a] = {} /\ mail'[TalkManager] = Append(mail[TalkManager], m)
        /\ \A c \in TalkAgents : c # a /\ c # TalkManager => mail'[c] = mail[c]
    <3>1. PICK l : l = Append(mail[TalkManager], m)
      OBVIOUS
    <3>2. l \in Seq(Nat)
      BY <1>0, <3>1
    <3>3. mail' = [mail EXCEPT ![a] = <<>>, ![TalkManager] = l]
      BY <1>0, <2>0, <2>1, <3>1
    <3>4. PICK g : g = [mail EXCEPT ![a] = <<>>]
      OBVIOUS
    <3>5. /\ g \in [TalkAgents -> Seq(Nat)] /\ g[a] = <<>>
          /\ \A c \in TalkAgents : c # a => g[c] = mail[c]
      <4>1. <<>> \in Seq(Nat)
        OBVIOUS
      <4> QED
        BY <1>0, <3>4, <4>1
    <3>6. mail' = [g EXCEPT ![TalkManager] = l]
      BY <3>3, <3>4
    <3>7. /\ mail' \in [TalkAgents -> Seq(Nat)] /\ mail'[TalkManager] = l
          /\ \A c \in TalkAgents : c # TalkManager => mail'[c] = g[c]
      <4>1. TalkManager \in TalkAgents
        BY <1>0
      <4> QED
        BY <3>2, <3>5, <3>6, <4>1
    <3> QED
      BY <2>0, <3>1, <3>5, <3>7
  <2>3. /\ Len(mail[TalkManager]) \in Nat /\ DOMAIN mail[TalkManager] = 1..Len(mail[TalkManager])
        /\ DOMAIN mail'[TalkManager] = 1..(Len(mail[TalkManager]) + 1)
        /\ mail'[TalkManager][Len(mail[TalkManager]) + 1] = m
        /\ \A i \in 1..Len(mail[TalkManager]) : mail'[TalkManager][i] = mail[TalkManager][i]
    BY <1>0, <2>2
  <2>4. S \in SUBSET TalkAgents /\ \A c \in S : c = a
    OBVIOUS
  <2>5. ASSUME NEW c \in TalkAgents, NEW i \in DOMAIN mail'[c]
        PROVE  \/ c \notin S /\ i \in DOMAIN mail[c] /\ mail'[c][i] = mail[c][i]
               \/ c = TalkManager /\ i \notin DOMAIN mail[c] /\ i = Len(mail[c]) + 1 /\ mail'[c][i] = m
    <3>1. CASE c = TalkManager
      <4>1. i \in 1..Len(mail[TalkManager]) \/ i = Len(mail[TalkManager]) + 1
        BY <2>3, <3>1
      <4>2. Len(mail[TalkManager]) + 1 \notin DOMAIN mail[TalkManager]
        BY <2>3
      <4> QED
        BY <2>0, <2>3, <3>1, <4>1, <4>2
    <3>2. CASE c # TalkManager
      BY <2>2, <3>2
    <3> QED
      BY <3>1, <3>2
  <2>6. \A c \in TalkAgents \ S : \A i \in DOMAIN mail[c] : i \in DOMAIN mail'[c] /\ mail'[c][i] = mail[c][i]
    <3>1. \A i \in DOMAIN mail[TalkManager] : i \in DOMAIN mail'[TalkManager] /\ mail'[TalkManager][i] = mail[TalkManager][i]
      BY <2>3
    <3> QED
      BY <2>2, <3>1
  <2>7. PICK v : v = Screen!Delivered(TalkManager, m)
    OBVIOUS
  <2>8. /\ v \in Seq(Events) /\ DOMAIN v = {1, 2}
        /\ \A i \in DOMAIN v : ~Clears(v[i]) /\ Adds(v[i]) /\ v[i].id = m
    BY <1>0, <2>7, DeliveredIs
  <2>9. PICK w : w = q \o v
    OBVIOUS
  <2>10. w \in Seq(Events) /\ feed' = feed \o w /\ Joined(w, q, v)
    <3>1. (feed \o q) \o v = feed \o (q \o v)
      <4>1. feed \in Seq(Events) /\ q \in Seq(Events) /\ v \in Seq(Events)
        BY <1>0, <1>9, <2>8
      <4> QED
        BY <4>1, ConcatAssociative
    <3> QED
      BY <1>9, <2>1, <2>7, <2>8, <2>9, <3>1 DEF Joined
  <2>11. /\ Len(q) \in Nat /\ Len(v) \in Nat /\ DOMAIN w = 1..(Len(q) + Len(v))
         /\ DOMAIN q = 1..Len(q) /\ DOMAIN v = 1..Len(v)
         /\ \A i \in 1..Len(q) : w[i] = q[i]
         /\ \A j \in 1..Len(v) : w[Len(q) + j] = v[j]
    <3>1. q \in Seq(Events) /\ v \in Seq(Events) /\ Joined(w, q, v)
      BY <1>9, <2>8, <2>10
    <3> QED
      BY <3>1, JoinIs
  <2>12. ASSUME NEW i \in DOMAIN w
         PROVE  /\ Clears(w[i]) => \E c \in S : \E k \in DOMAIN mail[c] : mail[c][k] = w[i].id
                /\ Adds(w[i]) => w[i].id = m
    <3>1. CASE i \in DOMAIN q
      <4>1. w[i] = q[i]
        BY <2>11, <3>1
      <4> QED
        BY <1>10, <3>1, <4>1
    <3>2. CASE i \notin DOMAIN q
      <4>1. i - Len(q) \in DOMAIN v /\ Len(q) + (i - Len(q)) = i
        BY <2>11, <3>2
      <4>2. w[i] = v[i - Len(q)]
        BY <2>11, <4>1
      <4> QED
        BY <2>8, <4>1, <4>2
    <3> QED
      BY <3>1, <3>2
  <2>13. \A c \in S : \A k \in DOMAIN mail[c] : \E i \in DOMAIN w : Clears(w[i]) /\ w[i].id = mail[c][k]
    <3> SUFFICES ASSUME NEW c \in S, NEW k \in DOMAIN mail[c]
                 PROVE  \E i \in DOMAIN w : Clears(w[i]) /\ w[i].id = mail[c][k]
      OBVIOUS
    <3>1. PICK i \in DOMAIN q : Clears(q[i]) /\ q[i].id = mail[c][k]
      BY <1>10
    <3>2. i \in DOMAIN w /\ w[i] = q[i]
      BY <2>11, <3>1
    <3> QED
      BY <3>1, <3>2
  <2>14. \E i \in DOMAIN w : Adds(w[i]) /\ w[i].id = m
    <3>1. 1 \in DOMAIN v /\ Len(q) + 1 \in DOMAIN w /\ w[Len(q) + 1] = v[1]
      BY <2>8, <2>11
    <3> QED
      BY <2>8, <3>1
  <2> HIDE DEF S
  <2>15. Emptied(S, TRUE)
    <3>1. mail' \in [TalkAgents -> Seq(Nat)] /\ messages' = messages + 1
      BY <2>1, <2>2 DEF m
    <3>2. \E i \in DOMAIN mail'[TalkManager] : mail'[TalkManager][i] = messages + 1
      BY <2>3 DEF m
    <3> QED
      BY <2>5, <2>6, <3>1, <3>2 DEF Emptied, m
  <2>16. Reports(w, S, TRUE)
    BY <2>12, <2>13, <2>14 DEF Reports, m
  <2>17. Joined(feed', feed, w)
    BY <2>10 DEF Joined
  <2> QED
    BY <1>1, <1>2, <2>4, <2>10, <2>15, <2>16, <2>17, DiscardsKeeps
<1> QED
  BY <1>11, <1>12

LEMMA InterruptsKeeps == ASSUME TerminalInv, PeopleAssumption, Screen!Interrupts PROVE TerminalInv'
<1> DEFINE S == {a \in TalkAgents : Screen!Live(a)}
           n == Cardinality(S)
<1>0. /\ messages \in Nat /\ mail \in [TalkAgents -> Seq(Nat)] /\ feed \in Seq(Events)
      /\ life \in [TalkAgents -> [state : States, revision : Nat]]
  BY DEF TerminalInv, TerminalTypes
<1>1. S \in SUBSET TalkAgents /\ n \in Nat
  <2>1. IsFiniteSet(S)
    BY FS_Subset, ScreenFinite DEF PeopleAssumption
  <2> QED
    BY <2>1, FS_CardinalityType
<1>2. PICK order \in [1..n -> S] :
        (\A a \in S : \E i \in DOMAIN order : order[i] = a) /\ feed' = feed \o Screen!Published(order)
  BY ScreenCounts DEF Screen!Interrupts
<1>3. /\ life' = [a \in TalkAgents |-> IF a \in S
           THEN [state |-> "interrupted", revision |-> life[a].revision + 1] ELSE life[a]]
      /\ mail' = [a \in TalkAgents |-> IF a \in S THEN <<>> ELSE mail[a]]
      /\ UNCHANGED <<messages, pending, talkStatus>>
  BY DEF Screen!Interrupts, Screen!ui, Screen!shown
<1> HIDE DEF S, n
<1>4. PICK more : more = Screen!Published(order)
  OBVIOUS
<1>5. /\ more \in Seq(Events)
      /\ \A i \in DOMAIN more :
           /\ ~Adds(more[i])
           /\ Clears(more[i]) => \E c \in S : \E k \in DOMAIN mail[c] : mail[c][k] = more[i].id
      /\ \A l \in 1..n : \A k \in DOMAIN mail[order[l]] :
           \E i \in DOMAIN more : Clears(more[i]) /\ more[i].id = mail[order[l]][k]
  BY <1>0, <1>1, <1>2, <1>4, PublishedIs
<1>6. life' \in [TalkAgents -> [state : States, revision : Nat]]
  <2>1. \A a \in TalkAgents : life[a] \in [state : States, revision : Nat] /\ life[a].revision + 1 \in Nat
    BY <1>0
  <2>2. "interrupted" \in States
    BY DEF States
  <2> QED
    BY <1>3, <2>1, <2>2
<1>7. Emptied(S, FALSE)
  <2>1. mail' \in [TalkAgents -> Seq(Nat)] /\ messages' = messages
    BY <1>0, <1>3
  <2>2. \A c \in S : DOMAIN mail'[c] = {}
    BY <1>1, <1>3
  <2>3. \A c \in TalkAgents : c \notin S => mail'[c] = mail[c]
    BY <1>3
  <2> QED
    BY <2>1, <2>2, <2>3 DEF Emptied
<1>8. Reports(more, S, FALSE)
  <2>1. ASSUME NEW c \in S, NEW k \in DOMAIN mail[c]
        PROVE  \E i \in DOMAIN more : Clears(more[i]) /\ more[i].id = mail[c][k]
    <3>1. PICK l \in 1..n : order[l] = c
      BY <1>2
    <3> QED
      BY <1>5, <3>1
  <2> QED
    BY <1>5, <2>1 DEF Reports
<1>9. Joined(feed', feed, more)
  BY <1>2, <1>4 DEF Joined
<1> QED
  BY <1>1, <1>3, <1>5, <1>6, <1>7, <1>8, <1>9, DiscardsKeeps

\* The terminal takes one event.
LEMMA TakesKeeps == ASSUME TerminalInv, Screen!Observe PROVE TerminalInv'
<1> DEFINE h == Head(feed)
           n == Len(feed)
<1>1. /\ UNCHANGED <<life, mail, messages>> /\ feed \in Seq(Events) /\ feed # <<>> /\ feed' = Tail(feed)
      /\ talkStatus \notin {"quit", "closed"}
  BY DEF Screen!Observe, Screen!Talking, Screen!session, TerminalInv, TerminalTypes
<1>2. /\ n \in Nat /\ n > 0 /\ DOMAIN feed = 1..n /\ 1 \in DOMAIN feed /\ feed[1] = h /\ h \in Events
      /\ feed' \in Seq(Events) /\ DOMAIN feed' = 1..(n - 1)
      /\ \A i \in 1..(n - 1) : feed'[i] = feed[i + 1]
  BY <1>1
<1>3. /\ Adds(h) => pending' = pending \cup {h.id}
      /\ Clears(h) => pending' = pending \ {h.id}
      /\ ~Adds(h) /\ ~Clears(h) => pending' = pending
  BY DEF Screen!Observe, Screen!ObserveState, Screen!Settled, Adds, Clears
<1> HIDE DEF h, n
<1>4. \A i \in DOMAIN feed' : i + 1 \in DOMAIN feed /\ feed'[i] = feed[i + 1]
  BY <1>2
<1>5. \A i \in DOMAIN feed : i # 1 => i - 1 \in DOMAIN feed' /\ feed'[i - 1] = feed[i]
  <2> SUFFICES ASSUME NEW i \in DOMAIN feed, i # 1 PROVE i - 1 \in DOMAIN feed' /\ feed'[i - 1] = feed[i]
    OBVIOUS
  <2>1. i - 1 \in 1..(n - 1) /\ (i - 1) + 1 = i
    BY <1>2
  <2> QED
    BY <1>2, <2>1
<1>6. TerminalTypes'
  BY <1>1, <1>2 DEF TerminalInv, TerminalTypes
<1>7. MailPlaced'
  <2>1. \A i \in DOMAIN feed' : Adds(feed'[i]) \/ Clears(feed'[i]) => feed'[i].id <= messages'
    BY <1>1, <1>4 DEF TerminalInv, MailPlaced
  <2> QED
    BY <1>1, <2>1 DEF TerminalInv, MailPlaced
<1>8. Listens
  BY <1>1 DEF Listens
<1>9. ASSUME NEW id, In(id, mail) PROVE Waiting(id)'
  <2>1. Waiting(id)
    BY <1>8, <1>9 DEF TerminalInv, Corrected
  <2>2. Clears(h) => h.id # id
    BY <1>2, <2>1 DEF Waiting
  <2>3. id \in pending' \/ \E i \in DOMAIN feed' : Adds(feed'[i]) /\ feed'[i].id = id
    <3>1. CASE id \in pending
      BY <1>3, <2>2, <3>1
    <3>2. CASE \E i \in DOMAIN feed : Adds(feed[i]) /\ feed[i].id = id
      <4>1. PICK i \in DOMAIN feed : Adds(feed[i]) /\ feed[i].id = id
        BY <3>2
      <4>2. CASE i = 1
        BY <1>2, <1>3, <4>1, <4>2
      <4>3. CASE i # 1
        BY <1>5, <4>1, <4>3
      <4> QED
        BY <4>2, <4>3
    <3> QED
      BY <2>1, <3>1, <3>2 DEF Waiting
  <2>4. \A i \in DOMAIN feed' : feed'[i].id = id => ~Clears(feed'[i])
    BY <1>4, <2>1 DEF Waiting
  <2> QED
    BY <2>3, <2>4 DEF Waiting
<1>10. ASSUME NEW id, ~In(id, mail) PROVE OverFor(id)'
  <2>1. OverFor(id)
    BY <1>8, <1>10 DEF TerminalInv, Corrected
  <2>2. ASSUME id \in pending' PROVE \E j \in DOMAIN feed' : Clears(feed'[j]) /\ feed'[j].id = id
    <3>1. CASE id \in pending
      <4>1. PICK j \in DOMAIN feed : Clears(feed[j]) /\ feed[j].id = id
        BY <2>1, <3>1 DEF OverFor
      <4>2. j # 1
        BY <1>2, <1>3, <2>2, <4>1
      <4> QED
        BY <1>5, <4>1, <4>2
    <3>2. CASE id \notin pending
      <4>1. Adds(h) /\ h.id = id
        BY <1>3, <2>2, <3>2
      <4>2. PICK j \in DOMAIN feed : j > 1 /\ Clears(feed[j]) /\ feed[j].id = id
        BY <1>2, <2>1, <4>1 DEF OverFor
      <4>3. j # 1
        BY <1>2, <4>2
      <4> QED
        BY <1>5, <4>2, <4>3
    <3> QED
      BY <3>1, <3>2
  <2>3. ASSUME NEW i \in DOMAIN feed', Adds(feed'[i]), feed'[i].id = id
        PROVE  \E j \in DOMAIN feed' : j > i /\ Clears(feed'[j]) /\ feed'[j].id = id
    <3>1. i + 1 \in DOMAIN feed /\ feed[i + 1] = feed'[i]
      BY <1>4
    <3>2. PICK j \in DOMAIN feed : j > i + 1 /\ Clears(feed[j]) /\ feed[j].id = id
      BY <2>1, <2>3, <3>1 DEF OverFor
    <3>3. j # 1 /\ j - 1 > i
      BY <1>2, <3>1, <3>2
    <3>4. j - 1 \in DOMAIN feed' /\ feed'[j - 1] = feed[j]
      BY <1>5, <3>2, <3>3
    <3> QED
      BY <3>2, <3>3, <3>4
  <2> QED
    BY <2>2, <2>3 DEF OverFor
<1> QED
  BY <1>1, <1>6, <1>7, <1>9, <1>10 DEF TerminalInv, Corrected, In

\* An agent changes its state.
LEMMA MovesKeeps ==
  ASSUME TerminalInv, NEW a \in TalkAgents, NEW from, NEW s \in States, Screen!Moves(a, from, s) \/ Screen!Controls(a, from, s)
  PROVE  TerminalInv'
<1>1. Screen!Becomes(a, s) /\ UNCHANGED <<mail, messages, pending, talkStatus>>
  BY DEF Screen!Moves, Screen!Controls, Screen!ui, Screen!shown
<1> QED
  BY <1>1, BecomesKeeps

LEMMA TerminalMoves == ASSUME TerminalInv, PeopleAssumption, Screen!Next PROVE TerminalInv'
<1>0. life \in [TalkAgents -> [state : States, revision : Nat]]
  BY DEF TerminalInv, TerminalTypes
<1>1. ASSUME NEW a \in TalkAgents, Screen!Wakes(a) \/ Screen!Rests(a) \/ Screen!Parks(a) PROVE TerminalInv'
  <2>1. "running" \in States /\ "idle" \in States /\ "paused" \in States
    BY DEF States
  <2> QED
    BY <1>1, <2>1, MovesKeeps DEF Screen!Wakes, Screen!Rests, Screen!Parks
<1>2. ASSUME NEW a \in TalkAgents, Screen!Pause(a) \/ Screen!Resume(a) \/ Screen!Terminate(a) PROVE TerminalInv'
  <2>1. "pause_requested" \in States /\ "running" \in States /\ "stop_requested" \in States
    BY DEF States
  <2> QED
    BY <1>2, <2>1, MovesKeeps DEF Screen!Pause, Screen!Resume, Screen!Terminate
<1>3. ASSUME NEW a \in TalkAgents, Screen!Ends(a) PROVE TerminalInv'
  <2>1. PICK s \in Screen!Exited : Screen!Becomes(a, s)
    BY <1>3 DEF Screen!Ends
  <2>2. s \in States
    BY DEF Screen!Exited, States
  <2>3. UNCHANGED <<mail, messages, pending, talkStatus>>
    BY <1>3 DEF Screen!Ends, Screen!ui, Screen!shown
  <2> QED
    BY <2>1, <2>2, <2>3, BecomesKeeps
<1>4. ASSUME Screen!InterruptFails \/ Screen!Stop \/ Screen!StopAnswered \/ Screen!ShowAgents PROVE TerminalInv'
  <2>1. UNCHANGED <<life, mail, messages, feed, pending, talkStatus>>
    BY <1>4 DEF Screen!InterruptFails, Screen!Stop, Screen!StopAnswered, Screen!ShowAgents, Screen!session, Screen!ui, Screen!shown
  <2> QED
    BY <1>0, <2>1, NothingTold
<1>5. ASSUME Screen!Quit \/ Screen!ObservationEnds PROVE TerminalInv'
  <2>1. UNCHANGED <<life, mail, messages, feed>> /\ talkStatus' \in {"closed", "quit"}
    BY <1>5 DEF Screen!Quit, Screen!ObservationEnds, Screen!session
  <2> QED
    BY <1>0, <2>1, NothingTold
<1> QED
  BY <1>1, <1>2, <1>3, <1>4, <1>5, ConsumesKeeps, RepliesKeeps, ExitsKeeps, WritesKeeps, InterruptsKeeps,
     SendKeeps, TakesKeeps DEF Screen!Next

LEMMA TerminalStep == PeopleAssumption /\ TerminalInv /\ [Screen!Next]_(Screen!vars) => TerminalInv'
<1> SUFFICES ASSUME PeopleAssumption, TerminalInv, [Screen!Next]_(Screen!vars) PROVE TerminalInv'
  OBVIOUS
<1>1. CASE UNCHANGED Screen!vars
  <2>1. UNCHANGED <<life, mail, messages, feed, pending, talkStatus>>
    BY <1>1 DEF Screen!vars, Screen!session, Screen!shown
  <2>2. life \in [TalkAgents -> [state : States, revision : Nat]]
    BY DEF TerminalInv, TerminalTypes
  <2> QED
    BY <2>1, <2>2, NothingTold
<1> QED
  BY <1>1, TerminalMoves

\* Nothing is left to be told: what is shown as queued is what waits.
LEMMA TerminalFits == TerminalInv => Screen!QueuedIsWhatWaits
<1> SUFFICES ASSUME TerminalInv, feed = <<>>, talkStatus \in {"live", "stopped"}
             PROVE  pending = UNION {{mail[a][i] : i \in DOMAIN mail[a]} : a \in TalkAgents}
  BY DEF Screen!QueuedIsWhatWaits
<1>1. DOMAIN feed = {} /\ Listens
  BY DEF Listens
<1>2. ASSUME NEW id PROVE id \in pending <=> In(id, mail)
  BY <1>1 DEF TerminalInv, Corrected, Waiting, OverFor
<1>3. ASSUME NEW id
      PROVE  In(id, mail) <=> id \in UNION {{mail[a][i] : i \in DOMAIN mail[a]} : a \in TalkAgents}
  BY DEF In
<1> QED
  BY <1>2, <1>3

=============================================================================
