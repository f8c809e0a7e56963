------------------------------ MODULE Browser ------------------------------
(***************************************************************************)
(* The transcript browser of the terminal (internal/tui: transcript.go,    *)
(* reasoning.go; agent/thread.go; Outputs of the projector).  The person   *)
(* pages back through an agent's history, which is read at once, and       *)
(* through its recorded reasoning, which a command reads and returns       *)
(* later, while the agent goes on and the person opens another agent,      *)
(* refreshes, or leaves.                                                   *)
(***************************************************************************)
EXTENDS Naturals, Sequences

CONSTANTS Agents,
          Page,       \* entries a page holds
          MaxCalls,   \* bound: model calls, and messages, of one agent
          MaxViews    \* bound: transcripts opened

VARIABLES
  calls,    \* [Agents -> Nat]: outputs the projection has observed
  length,   \* [Agents -> Nat]: messages of each thread
  views,    \* how many transcripts were opened
  view,     \* the transcript shown
  reads     \* the reads of reasoning whose result has not arrived

vars == <<calls, length, views, view, reads>>

Numbers == Seq(1 .. MaxCalls)
NoView  == [id |-> 0]

TypeOK ==
  /\ calls \in [Agents -> 0 .. MaxCalls] /\ length \in [Agents -> 1 .. MaxCalls]
  /\ views \in 0 .. MaxViews
  /\ view = NoView \/
     /\ view.id \in 1 .. views /\ view.agent \in Agents
     /\ view.entries \in Numbers /\ view.outputs \in Numbers
     /\ view.reasoning \in BOOLEAN /\ view.loading \in BOOLEAN
     /\ view.earlierEntries \in BOOLEAN /\ view.earlierOutputs \in BOOLEAN

Init ==
  /\ calls = [a \in Agents |-> 0] /\ length = [a \in Agents |-> 1]
  /\ views = 0 /\ view = NoView /\ reads = {}

-----------------------------------------------------------------------------
Least(a, b) == IF a < b THEN a ELSE b

(* The page that ends before a position, of the entries there are; zero,   *)
(* and a position past the end, mean the latest page.                      *)
Before(top, before) ==
  LET end   == IF before = 0 THEN top ELSE Least(top, before - 1)
      start == IF end >= Page THEN end - Page + 1 ELSE 1
  IN [entries |-> [i \in 1 .. end + 1 - start |-> start + i - 1], earlier |-> start > 1]

Grow(a) ==
  \/ /\ calls[a] < MaxCalls
     /\ calls' = [calls EXCEPT ![a] = @ + 1]
     /\ UNCHANGED <<length, views, view, reads>>
  \/ /\ length[a] < MaxCalls
     /\ length' = [length EXCEPT ![a] = @ + 1]
     /\ UNCHANGED <<calls, views, view, reads>>

(* /transcript, the keys that step to the next agent, and a refresh: a new *)
(* view of the history as it is now.                                       *)
Open(a) ==
  LET page == Before(length[a], 0) IN
  /\ views < MaxViews
  /\ view # NoView => a # view.agent \/ ~view.reasoning
  /\ views' = views + 1
  /\ view' = [id |-> views + 1, agent |-> a, reasoning |-> FALSE, loading |-> FALSE,
              entries |-> page.entries, earlierEntries |-> page.earlier,
              outputs |-> <<>>, earlierOutputs |-> FALSE]
  /\ UNCHANGED <<calls, length, reads>>

Leave ==
  /\ view # NoView
  /\ view' = NoView
  /\ UNCHANGED <<calls, length, views, reads>>

(* Up, at the top of the history: the page before the oldest entry shown.  *)
EarlierEntries ==
  /\ view # NoView
  /\ ~view.reasoning /\ view.earlierEntries /\ view.entries # <<>>
  /\ LET page == Before(length[view.agent], Head(view.entries))
     IN view' = [view EXCEPT !.entries = page.entries \o @, !.earlierEntries = page.earlier]
  /\ UNCHANGED <<calls, length, views, reads>>

(* loadReasoning: one read at a time for a view.                           *)
MayLoadAgain == TRUE
MayLoad == ~view.loading

Load(v, before) ==
  IF MayLoad
  THEN /\ view' = [v EXCEPT !.loading = TRUE]
       /\ reads' = reads \union
            {[view |-> v.id, agent |-> v.agent, before |-> before, least |-> calls[v.agent]]}
  ELSE view' = v /\ UNCHANGED reads

ToggleReasoning ==
  /\ view # NoView
  /\ LET v == [view EXCEPT !.reasoning = ~@]
     IN IF v.reasoning THEN Load(v, 0) ELSE view' = v /\ UNCHANGED reads
  /\ UNCHANGED <<calls, length, views>>

Refresh ==
  /\ view # NoView /\ view.reasoning
  /\ Load(view, 0)
  /\ UNCHANGED <<calls, length, views>>

EarlierOutputs ==
  /\ view # NoView
  /\ view.reasoning /\ view.earlierOutputs /\ view.outputs # <<>>
  /\ Load(view, Head(view.outputs))
  /\ UNCHANGED <<calls, length, views>>

CurrentAgent(r) == view # NoView /\ view.agent = r.agent
Current(r) == view # NoView /\ view.id = r.view

(* A read ran at some moment between the request and now, on the outputs   *)
(* there were, and its result arrives.                                     *)
Deliver(r, top) ==
  LET page == Before(top, r.before) IN
  /\ reads' = reads \ {r}
  /\ view' = IF ~Current(r) THEN view
       ELSE [view EXCEPT !.loading = FALSE, !.earlierOutputs = page.earlier,
               !.outputs = IF r.before = 0 THEN page.entries ELSE page.entries \o @]
  /\ UNCHANGED <<calls, length, views>>

ReadFails(r) ==
  /\ reads' = reads \ {r}
  /\ view' = IF Current(r) THEN [view EXCEPT !.loading = FALSE] ELSE view
  /\ UNCHANGED <<calls, length, views>>

Next ==
  \/ \E a \in Agents : Grow(a) \/ Open(a)
  \/ Leave \/ EarlierEntries \/ ToggleReasoning \/ Refresh \/ EarlierOutputs
  \/ \E r \in reads : ReadFails(r) \/ \E top \in r.least .. calls[r.agent] : Deliver(r, top)

Spec == Init /\ [][Next]_vars

-----------------------------------------------------------------------------
Contiguous(s) == \A i \in 1 .. Len(s) - 1 : s[i + 1] = s[i] + 1

(* What the browser shows is one unbroken stretch of the agent it shows,   *)
(* whatever the person does while a page loads: no call is shown twice,    *)
(* none is left out between two pages, and earlier pages are offered when  *)
(* there are some (finishReasoning and earlierTranscript).                 *)
PagesFit ==
  view # NoView =>
    /\ Contiguous(view.entries) /\ Contiguous(view.outputs)
    /\ \A i \in DOMAIN view.entries : view.entries[i] <= length[view.agent]
    /\ \A i \in DOMAIN view.outputs : view.outputs[i] <= calls[view.agent]
    /\ view.entries # <<>> => (view.earlierEntries <=> view.entries[1] > 1)
    /\ view.outputs # <<>> => (view.earlierOutputs <=> view.outputs[1] > 1)
=============================================================================
