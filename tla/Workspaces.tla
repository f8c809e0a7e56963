----------------------------- MODULE Workspaces -----------------------------
(***************************************************************************)
(* The workspace and the copies of it (harness/isolation.go), and what the *)
(* harness records of the calls that may change it (environment.go, the    *)
(* change log of auditbrief.go).  Implementors write in the workspace;     *)
(* auditors and experimenters, the checkers, each in a copy made when an   *)
(* assignment first uses it.  Assignments come and go while calls run.     *)
(* A checker's command that names the workspace in a form the rewrite of   *)
(* paths misses is left out: it writes in the workspace and not the copy.  *)
(*                                                                         *)
(* The content of a file is a number, larger the later it was written,     *)
(* with the assignment it was written under.                               *)
(***************************************************************************)
EXTENDS Naturals, FiniteSets, Sequences, SequencesExt, Functions

CONSTANTS
  Implementors, Checkers,    \* The agents.
  Subject,                   \* The implementation, and the check of it.
  Check,
  FileNames,
  MaxRuns,                   \* maxAuditRuns: the runs a brief lists.
  Commands,                  \* Those an implementor runs in its shell;
  NoCommand,                 \* a file tool runs none.
  MaxWrites, MaxAssigned, MaxDirs  \* Bounds: writes, assignments, copies made.

VARIABLES
  held,      \* The sole active assignment of each agent, if any.
  revision,  \* The last assignment's revision.
  due,       \* What the workspace held when each assignment was made.
  real,      \* The workspace.
  stamp,     \* The writes so far.
  call,      \* What each agent's call is at.
  lock,      \* isolation.mu: who makes a copy.
  copies,    \* isolation.copies.
  dirs,      \* The directories of copies on disk.
  removing,  \* Those a goroutine removes.
  closed,
  paths, runs, \* changeLog.
  owed       \* What was changed under an assignment that held throughout.

vars == <<held, revision, due, real, stamp, call, lock, copies, dirs, removing, closed, paths, runs, owed>>

Agents == Implementors \cup Checkers
None == [work |-> "none", rev |-> 0]
Idle == [pc |-> "idle"]
Live == {held[a] : a \in Agents} \ {None}

Init ==
  /\ held = [a \in Agents |-> None] /\ revision = 0 /\ due = << >>
  /\ real = [f \in FileNames |-> [at |-> 0, under |-> None]] /\ stamp = 0
  /\ call = [a \in Agents |-> Idle] /\ lock = "free"
  /\ copies = << >> /\ dirs = << >> /\ removing = {} /\ closed = FALSE
  /\ paths = {} /\ runs = << >> /\ owed = {}

-----------------------------------------------------------------------------
(* The ledger: an assignment is given, given up, or ends, whatever its     *)
(* holder's calls are doing.                                               *)

Assign(a) ==
  /\ held[a] = None /\ revision < MaxAssigned /\ ~closed
  /\ LET w == IF a \in Implementors THEN Subject ELSE Check
     IN /\ \A b \in Agents : held[b].work # w
        /\ held' = [held EXCEPT ![a] = [work |-> w, rev |-> revision + 1]]
  /\ revision' = revision + 1 /\ due' = Append(due, real)
  /\ UNCHANGED <<real, stamp, call, lock, copies, dirs, removing, closed, paths, runs, owed>>

Ends(a) ==
  /\ held[a] # None /\ held' = [held EXCEPT ![a] = None]
  /\ UNCHANGED <<revision, due, real, stamp, call, lock, copies, dirs, removing, closed, paths, runs, owed>>

-----------------------------------------------------------------------------
(* An implementor's call that may write: heldWrites.Call lets it through    *)
(* while its agent holds an active assignment, and then                     *)
(* environmentRecord.Call runs it and records what it changed.              *)

MayWrite(a) == held[a] # None

LetThrough(a) ==
  /\ call[a] = Idle /\ ~closed /\ stamp < MaxWrites /\ MayWrite(a)
  /\ call' = [call EXCEPT ![a] = [pc |-> "let through"]]
  /\ UNCHANGED <<held, revision, due, real, stamp, lock, copies, dirs, removing, closed, paths, runs, owed>>

Starts(a) ==
  /\ call[a].pc = "let through"
  /\ \E c \in Commands \cup {NoCommand} : call' = [call EXCEPT ![a] =
       [pc |-> "running", before |-> real, under |-> held[a], command |-> c, wrote |-> {}]]
  /\ UNCHANGED <<held, revision, due, real, stamp, lock, copies, dirs, removing, closed, paths, runs, owed>>

Writes(a, f) ==
  /\ call[a].pc = "running" /\ stamp < MaxWrites
  /\ stamp' = stamp + 1 /\ real' = [real EXCEPT ![f] = [at |-> stamp + 1, under |-> held[a]]]
  /\ call' = [call EXCEPT ![a].wrote = @ \cup {f}]
  /\ UNCHANGED <<held, revision, due, lock, copies, dirs, removing, closed, paths, runs, owed>>

\* snapshot and changedFiles: what differs from before, whoever wrote it.
Changed(before, after) == {f \in FileNames : before[f] # after[f]}

\* A workspace of more than snapshotLimit files is not scanned: nothing is known to have changed.
Returns(a) ==
  /\ call[a].pc = "running"
  /\ \E scanned \in BOOLEAN : call' = [call EXCEPT ![a] =
       [pc |-> "note", changed |-> IF scanned THEN Changed(@.before, real) ELSE {},
        under |-> IF held[a] = @.under THEN @.under ELSE None, command |-> @.command,
        wrote |-> IF scanned THEN @.wrote ELSE {}]]
  /\ UNCHANGED <<held, revision, due, real, stamp, lock, copies, dirs, removing, closed, paths, runs, owed>>

\* noteChanges, to the assignment the caller has by then.
NotesChanges(a) ==
  /\ call[a].pc = "note"
  /\ paths' = IF held[a] = None THEN paths ELSE paths \cup {<<held[a].work, f>> : f \in call[a].changed}
  /\ owed' = IF held[a] = call[a].under /\ held[a] # None
             THEN owed \cup {<<held[a].work, f>> : f \in call[a].wrote} ELSE owed
  /\ call' = [call EXCEPT ![a].pc = "run"]
  /\ UNCHANGED <<held, revision, due, real, stamp, lock, copies, dirs, removing, closed, runs>>

\* noteRun, of a shell's: a repeated command keeps its latest run, at the end of the list.
Latest(list, c) == SelectSeq(list, LAMBDA r : r # c)

NotesRun(a) ==
  /\ call[a].pc = "run"
  /\ runs' = IF held[a] = None \/ call[a].command = NoCommand THEN runs
             ELSE Append(Latest(runs, call[a].command), call[a].command)
  /\ call' = [call EXCEPT ![a] = Idle]
  /\ UNCHANGED <<held, revision, due, real, stamp, lock, copies, dirs, removing, closed, paths, owed>>

\* auditRuns: the last few.
AuditRuns == SubSeq(runs, IF Len(runs) > MaxRuns THEN Len(runs) - MaxRuns + 1 ELSE 1, Len(runs))

\* auditBrief: the files changed, as they are now.
AuditBrief == [f \in {g \in FileNames : <<Subject, g>> \in paths} |-> real[f]]

-----------------------------------------------------------------------------
(* A checker's call: isolatedTool.Call, and methodFiles.                   *)

\* copyKey.
KeyOfWork(w) == [w EXCEPT !.rev = 0]
Key(w) == w

\* The assignment is read, and then the copy is asked for.
Asks(a) ==
  /\ call[a] = Idle /\ held[a] # None /\ ~closed
  /\ call' = [call EXCEPT ![a] = [pc |-> "ask", under |-> held[a]]]
  /\ UNCHANGED <<held, revision, due, real, stamp, lock, copies, dirs, removing, closed, paths, runs, owed>>

Fails(a) == call' = [call EXCEPT ![a] = Idle]
Dead == {k \in DOMAIN copies : k \notin {Key(w) : w \in Live}}

\* copyFor: copies of assignments that ended go, and the caller's is found or
\* made, with the lock held while it is.
CopyFor(a) ==
  /\ call[a].pc = "ask" /\ lock = "free"
  /\ IF closed THEN Fails(a) /\ UNCHANGED <<lock, copies, dirs, removing>>
     ELSE LET kept == Restrict(copies, DOMAIN copies \ Dead)
              key == Key(call[a].under)
          IN /\ removing' = removing \cup {copies[k] : k \in Dead}
             /\ copies' = kept
             /\ IF key \in DOMAIN kept
                THEN /\ call' = [call EXCEPT ![a] = [pc |-> "in", under |-> @.under, dir |-> kept[key]]]
                     /\ UNCHANGED <<lock, dirs>>
                ELSE /\ lock' = a /\ Len(dirs) < MaxDirs
                     /\ dirs' = Append(dirs, [there |-> TRUE, files |-> << >>])
                     /\ call' = [call EXCEPT ![a] = [pc |-> "copying", under |-> @.under, dir |-> Len(dirs) + 1]]
  /\ UNCHANGED <<held, revision, due, real, stamp, closed, paths, runs, owed>>

\* copyTree: one file after another, while the workspace goes on changing.
CopyFile(a, f) ==
  /\ call[a].pc = "copying" /\ f \notin DOMAIN dirs[call[a].dir].files
  /\ dirs' = [dirs EXCEPT ![call[a].dir].files = [g \in DOMAIN @ \cup {f} |-> IF g = f THEN real[f] ELSE @[g]]]
  /\ UNCHANGED <<held, revision, due, real, stamp, call, lock, copies, removing, closed, paths, runs, owed>>

CopyFails(a) ==
  /\ call[a].pc = "copying" /\ Fails(a) /\ lock' = "free"
  /\ dirs' = [dirs EXCEPT ![call[a].dir].there = FALSE]
  /\ UNCHANGED <<held, revision, due, real, stamp, copies, removing, closed, paths, runs, owed>>

Copied(a) ==
  /\ call[a].pc = "copying" /\ DOMAIN dirs[call[a].dir].files = FileNames
  /\ LET key == Key(call[a].under)
     IN copies' = [k \in DOMAIN copies \cup {key} |-> IF k = key THEN call[a].dir ELSE copies[k]]
  /\ lock' = "free"
  /\ call' = [call EXCEPT ![a].pc = "in"]
  /\ UNCHANGED <<held, revision, due, real, stamp, dirs, removing, closed, paths, runs, owed>>

\* The tool writes in the copy, if the copy is still there.
WritesCopy(a, f) ==
  /\ call[a].pc = "in" /\ stamp < MaxWrites /\ dirs[call[a].dir].there
  /\ stamp' = stamp + 1
  /\ dirs' = [dirs EXCEPT ![call[a].dir].files[f] = [at |-> stamp + 1, under |-> call[a].under]]
  /\ UNCHANGED <<held, revision, due, real, call, lock, copies, removing, closed, paths, runs, owed>>

Leaves(a) ==
  /\ call[a].pc = "in" /\ Fails(a)
  /\ UNCHANGED <<held, revision, due, real, stamp, lock, copies, dirs, removing, closed, paths, runs, owed>>

Removes(d) ==
  /\ d \in removing /\ removing' = removing \ {d} /\ dirs' = [dirs EXCEPT ![d].there = FALSE]
  /\ UNCHANGED <<held, revision, due, real, stamp, call, lock, copies, closed, paths, runs, owed>>

Close ==
  /\ ~closed /\ lock = "free" /\ closed' = TRUE
  /\ dirs' = [d \in DOMAIN dirs |-> [dirs[d] EXCEPT !.there = @ /\ d \notin Range(copies)]]
  /\ copies' = << >>
  /\ UNCHANGED <<held, revision, due, real, stamp, call, lock, removing, paths, runs, owed>>

Next ==
  \/ \E a \in Agents : Assign(a) \/ Ends(a)
  \/ \E a \in Implementors : LetThrough(a) \/ Starts(a) \/ Returns(a) \/ NotesChanges(a) \/ NotesRun(a)
  \/ \E a \in Implementors, f \in FileNames : Writes(a, f)
  \/ \E a \in Checkers : Asks(a) \/ CopyFor(a) \/ CopyFails(a) \/ Copied(a) \/ Leaves(a)
  \/ \E a \in Checkers, f \in FileNames : CopyFile(a, f) \/ WritesCopy(a, f)
  \/ \E d \in DOMAIN dirs : Removes(d)
  \/ Close

Spec == Init /\ [][Next]_vars

-----------------------------------------------------------------------------
TypeOK ==
  /\ held \in [Agents -> [work : {"none", Subject, Check}, rev : 0..MaxAssigned]]
  /\ lock \in Checkers \cup {"free"} /\ stamp \in 0..MaxWrites

\* While an assignment lasts, its holder's calls act in one copy, which is
\* there; no other assignment's writes are in it, and it is no older than the
\* assignment itself: an auditor sees what was submitted to it (isolation's
\* comment, copyFor).
CopyIsOfItsAssignment ==
  \A a \in Checkers : call[a].pc = "in" =>
    LET d == dirs[call[a].dir]  w == call[a].under
    IN /\ (held[a] = w /\ ~closed) => d.there /\ call[a].dir \in Range(copies)
       /\ d.there => \A f \in FileNames : /\ d.files[f].under = w \/ d.files[f].under.work # Check
                                       /\ d.files[f].at >= due[w.rev][f].at

\* Two assignments never share a copy.
CopiesAreApart == \A k, l \in DOMAIN copies : copies[k] = copies[l] => k = l

\* A directory on disk is a copy in use, one being made or one being removed,
\* and none is left once the isolation is closed (remove, Close).
NothingIsLeftBehind ==
  /\ \A d \in DOMAIN dirs : dirs[d].there =>
       d \in Range(copies) \cup removing \/ \E a \in Checkers : call[a].pc = "copying" /\ call[a].dir = d
  /\ closed /\ removing = {} => \A d \in DOMAIN dirs : ~dirs[d].there

\* A brief names every file that was written under the implementation by a
\* call that was scanned, and began and was recorded under the same assignment, and each
\* command it lists stands there once (noteChanges, noteRun, auditRuns).
BriefMissesNothing ==
  /\ \A f \in FileNames : <<Subject, f>> \in owed => f \in DOMAIN AuditBrief
  /\ Len(AuditRuns) <= MaxRuns
  /\ \A i, j \in DOMAIN runs : runs[i] = runs[j] => i = j

WorkspacesHold == TypeOK /\ CopyIsOfItsAssignment /\ CopiesAreApart /\ NothingIsLeftBehind /\ BriefMissesNothing
=============================================================================
