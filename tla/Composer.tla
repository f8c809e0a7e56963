------------------------------ MODULE Composer ------------------------------
(***************************************************************************)
(* The composer of the terminal (internal/tui: attachments.go,             *)
(* filecompletion.go, completion.go, submit and sendDraft of tui.go): a    *)
(* draft the person keeps editing while two kinds of work about it run     *)
(* outside the update loop and answer later, the load of the files it      *)
(* mentions and the search of the file names that complete a mention.      *)
(***************************************************************************)
EXTENDS Integers, Sequences, FiniteSets

CONSTANTS Plain,      \* drafts that name no file
          Mentions,   \* drafts that name a file, the cursor at its end
          Commands,   \* drafts that begin a slash command
          MaxFound,   \* bound: names that complete a mention or a command
          MaxEdits,   \* bound: edits of the draft
          MaxJobs     \* bound: loads of attachments

VARIABLES
  text,        \* the draft
  edits,       \* how often it was edited
  accepts,     \* the session still takes messages
  job,         \* attachmentJob: the load whose result is wanted
  loads,       \* the loads whose result has not arrived
  jobs,        \* how many loads were started
  ended,       \* history: the loads the person cancelled
  posted,      \* history: what was sent, in order: a load, or 0 for a draft without files
  menu,        \* completion: the query, the line selected, dismissed or not
  search,      \* fileCompletion: the generation, key and result of a search
  searches     \* the searches whose result has not arrived

vars == <<text, edits, accepts, job, loads, jobs, ended, posted, menu, search, searches>>

Empty  == ""
NoJob  == [id |-> 0, draft |-> Empty]
NoKey  == Empty
Drafts == Plain \union Mentions \union Commands \union {Empty}

(* What completes a command is a matter of its text alone.                 *)
Fitting(d) == IF d \in Commands THEN MaxFound ELSE 0

TypeOK ==
  /\ text \in Drafts /\ edits \in 0 .. MaxEdits /\ accepts \in BOOLEAN
  /\ job = NoJob \/ job \in [id : 1 .. jobs, draft : Mentions]
  /\ loads \subseteq [id : 1 .. jobs, draft : Mentions]
  /\ menu \in [query : Drafts, selected : 0 .. MaxFound, dismissed : BOOLEAN]
  /\ search \in [generation : Nat, key : Mentions \union {NoKey},
                 found : 0 .. MaxFound, from : Nat, failed : BOOLEAN]

Init ==
  /\ text = Empty /\ edits = 0 /\ accepts = TRUE
  /\ job = NoJob /\ loads = {} /\ jobs = 0 /\ ended = {} /\ posted = <<>>
  /\ menu = [query |-> Empty, selected |-> 0, dismissed |-> FALSE]
  /\ search = [generation |-> 0, key |-> NoKey, found |-> 0, from |-> 0, failed |-> FALSE]
  /\ searches = {}

-----------------------------------------------------------------------------
(* The mention a search would complete: none while the menu is dismissed   *)
(* or files load.                                                          *)
Key(t, m, j) == IF t \in Mentions /\ ~m.dismissed /\ j = NoJob THEN t ELSE NoKey

FileMatches(t, m, j, s) ==
  IF Key(t, m, j) # NoKey /\ Key(t, m, j) = s.key THEN s.found ELSE 0

Matches(t, m, j, s) ==
  IF FileMatches(t, m, j, s) > 0 THEN FileMatches(t, m, j, s)
  ELSE IF m.dismissed THEN 0 ELSE Fitting(t)

Least(a, b) == IF a < b THEN a ELSE b

Kept(t, m, j, s) == m
Clamped(t, m, j, s) ==
  LET n == Matches(t, m, j, s)
  IN [m EXCEPT !.selected = Least(@, IF n = 0 THEN 0 ELSE n - 1)]

(* syncCompletion: a new text starts a new menu, and the line selected is  *)
(* one of the menu's.                                                      *)
Synced(t, m, j, s) ==
  LET fresh == IF m.query # t
               THEN [query |-> t, selected |-> 0, dismissed |-> FALSE] ELSE m
  IN Clamped(t, fresh, j, s)

(* Every update ends so: the menu follows the draft, and a search begins   *)
(* when the mention to complete is another one.                            *)
Settle(t, m, j, s, running) ==
  LET m2 == Synced(t, m, j, s)
      k  == Key(t, m2, j)
      g  == s.generation + 1
  IN /\ menu' = m2
     /\ IF k = s.key
        THEN search' = s /\ searches' = running
        ELSE /\ search' = [generation |-> g, key |-> k, found |-> 0, from |-> g, failed |-> FALSE]
             /\ searches' = IF k = NoKey THEN running
                            ELSE running \union {[generation |-> g, key |-> k]}

(* Every update starts so.                                                 *)
Current == Synced(text, menu, job, search)

-----------------------------------------------------------------------------
Edit(d) ==
  /\ edits < MaxEdits /\ d # text
  /\ text' = d /\ edits' = edits + 1
  /\ Settle(d, Current, job, search, searches)
  /\ UNCHANGED <<accepts, job, loads, jobs, ended, posted>>

(* The manager exits, or the feed of events ends.                          *)
SessionEnds ==
  /\ accepts
  /\ accepts' = FALSE
  /\ UNCHANGED <<text, edits, job, loads, jobs, ended, posted, menu, search, searches>>

(* Enter on a draft that names no file sends it, a command resets it; both *)
(* leave the composer empty. A session that ended keeps the draft.         *)
Submit ==
  /\ text \in Plain \union Commands
  /\ Matches(text, Current, job, search) = 0
  /\ text \in Plain => accepts /\ job = NoJob
  /\ text' = Empty
  /\ posted' = IF text \in Plain THEN Append(posted, 0) ELSE posted
  /\ Settle(Empty, Current, job, search, searches)
  /\ UNCHANGED <<edits, accepts, job, loads, jobs, ended>>

SubmitMentions ==
  /\ text \in Mentions /\ accepts /\ job = NoJob /\ jobs < MaxJobs
  /\ jobs' = jobs + 1
  /\ job' = [id |-> jobs + 1, draft |-> text]
  /\ loads' = loads \union {job'}
  /\ Settle(text, Current, job', search, searches)
  /\ UNCHANGED <<text, edits, accepts, ended, posted>>

(* Escape while files load: the load is cancelled, but its result, an      *)
(* error or not, still arrives.                                            *)
CancelLoad ==
  /\ job # NoJob
  /\ job' = NoJob
  /\ ended' = ended \union {job.id}
  /\ Settle(text, Current, NoJob, search, searches)
  /\ UNCHANGED <<text, edits, accepts, loads, jobs, posted>>

WantedText(load) == job = NoJob \/ job.draft = load.draft
Wanted(load) == job = load

(* The draft is compared with what it was when the load began: one that    *)
(* was edited and put back meanwhile is sent.                              *)
AttachmentsLoaded(load, failed) ==
  LET sent == text = load.draft /\ ~failed /\ accepts IN
  /\ loads' = loads \ {load}
  /\ IF Wanted(load)
     THEN /\ job' = NoJob
          /\ posted' = IF sent THEN Append(posted, load.id) ELSE posted
          /\ text' = IF sent THEN Empty ELSE text
     ELSE UNCHANGED <<job, posted, text>>
  /\ Settle(text', Current, job', search, searches)
  /\ UNCHANGED <<edits, accepts, jobs, ended>>

FreshKey(r) == r.key = search.key
Fresh(r) == r.generation = search.generation /\ r.key = search.key

(* A search ended: the names it found, or an error, among them that it was *)
(* cancelled by the next one.                                              *)
Searched(r, n, failed) ==
  /\ searches' = searches \ {r}
  /\ LET s == IF Fresh(r) /\ r.key = Key(text, Current, job)
              THEN [search EXCEPT !.found = n, !.from = r.generation, !.failed = failed]
              ELSE search
     IN /\ search' = s
        /\ menu' = Synced(text, Current, job, s)
  /\ UNCHANGED <<text, edits, accepts, job, loads, jobs, ended, posted>>

(* Up and down move the selected line around the menu.                     *)
MoveSelection(step) ==
  LET n == Matches(text, Current, job, search) IN
  /\ n > 0
  /\ menu' = [Current EXCEPT !.selected = (@ + step + n) % n]
  /\ UNCHANGED <<text, edits, accepts, job, loads, jobs, ended, posted, search, searches>>

(* Tab, or Enter on a mention that is not yet exact, replaces the mention  *)
(* by the selected name, candidates[selected].                             *)
Complete(d) ==
  /\ FileMatches(text, Current, job, search) > 0
  /\ edits < MaxEdits /\ d # text
  /\ text' = d /\ edits' = edits + 1
  /\ Settle(d, Current, job, search, searches)
  /\ UNCHANGED <<accepts, job, loads, jobs, ended, posted>>

Dismiss ==
  /\ Matches(text, Current, job, search) > 0 \/ Key(text, Current, job) # NoKey
  /\ Settle(text, [Current EXCEPT !.dismissed = TRUE], job, search, searches)
  /\ UNCHANGED <<text, edits, accepts, job, loads, jobs, ended, posted>>

-----------------------------------------------------------------------------
Next ==
  \/ \E d \in Drafts : Edit(d)
  \/ \E d \in Mentions : Complete(d)
  \/ Submit \/ SubmitMentions \/ CancelLoad \/ SessionEnds \/ Dismiss
  \/ \E load \in loads, failed \in BOOLEAN : AttachmentsLoaded(load, failed)
  \/ \E r \in searches, n \in 0 .. MaxFound, failed \in BOOLEAN :
       /\ failed => n = 0
       /\ Searched(r, n, failed)
  \/ \E step \in {-1, 1} : MoveSelection(step)

Spec == Init /\ [][Next]_vars

-----------------------------------------------------------------------------
(* However late the result of a load arrives, and whatever was submitted   *)
(* meanwhile, the same draft again among it: a load the person cancelled   *)
(* sends nothing, another sends its draft at most once, and nothing is     *)
(* sent that the person did not put in the composer, once more each time   *)
(* (finishAttachments, attachments.go; sendDraft, tui.go).                 *)
CancelledIsNotSent ==
  /\ \A i \in DOMAIN posted : posted[i] \notin ended
  /\ \A i, j \in DOMAIN posted : posted[i] = posted[j] /\ posted[i] # 0 => i = j
  /\ Len(posted) <= edits

(* What the menu offers fits the draft: the names and the error shown are  *)
(* those of the latest search, never of one that the next search replaced, *)
(* and the selected line exists whenever the menu has lines, so completing *)
(* never indexes past the names (finishFileCompletion, syncCompletion and  *)
(* completeFile).                                                          *)
MenuFits ==
  /\ search.from = search.generation
  /\ LET n == Matches(text, menu, job, search)
     IN n > 0 => menu.selected < n
=============================================================================
