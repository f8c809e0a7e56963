----------------------------- MODULE WriteCheck -----------------------------
(***************************************************************************)
(* The checks of what agents write (harness/writecheck.go, shellcheck.go,  *)
(* scratchlanguages.go).  After a write, or a command that changed files,  *)
(* the language server of each changed package is asked for its errors:    *)
(* the workspace's, or that of a project outside it, started when it is    *)
(* first needed.  Few of those run at once; the one used longest ago is    *)
(* closed for a new one, whoever may be asking it.                         *)
(*                                                                         *)
(* A project is one package; its content is a number, larger the later it  *)
(* was written, and either builds or does not.                             *)
(***************************************************************************)
EXTENDS Naturals, FiniteSets, Sequences, SequencesExt, Functions

CONSTANTS
  Writers, Runners,       \* Agents that write files, and that run commands.
  Primary, Scratch,       \* The workspace, and the projects outside it.
  MaxRoots,               \* maxScratchRoots.
  MaxWrites, MaxManagers  \* Bounds.

VARIABLES
  source,    \* The content of each project.
  stamp,
  managers, order, closed,  \* scratchLanguages.
  up,        \* The language managers that run; Primary is the workspace's own.
  leaving,   \* Those being closed in the background.
  started,
  check      \* What each agent's call is at.

vars == <<source, stamp, managers, order, closed, up, leaving, started, check>>

Agents == Writers \cup Runners
Roots == {Primary} \cup Scratch
Idle == [pc |-> "idle"]
Nobody == 0
Own == 1   \* The workspace's manager; the scratch ones are numbered on from it.

Init ==
  /\ source = [r \in Roots |-> [at |-> 0, bad |-> FALSE]] /\ stamp = 0
  /\ managers = << >> /\ order = << >> /\ closed = FALSE
  /\ up = {Own} /\ leaving = {} /\ started = Own
  /\ check = [a \in Agents |-> Idle]

languages == <<managers, order, closed, up, leaving, started>>

-----------------------------------------------------------------------------
(* What is written.                                                        *)

Check(list) == [pc |-> "own", todo |-> list, reports |-> << >>]

\* A write, checked for its own package if a language server handles such files.
Writes(a, r) ==
  /\ check[a] = Idle /\ stamp < MaxWrites
  /\ \E bad \in BOOLEAN : source' = [source EXCEPT ![r] = [at |-> stamp + 1, bad |-> bad]]
  /\ \E handled \in BOOLEAN :
       check' = [check EXCEPT ![a] = IF handled THEN Check(<<r>>) ELSE Idle]
  /\ stamp' = stamp + 1 /\ UNCHANGED languages

\* A command: the workspace is compared with what it was, and the targets the
\* command names outside it are looked at.
Runs(a) ==
  /\ check[a] = Idle /\ stamp < MaxWrites
  /\ check' = [check EXCEPT ![a] = [pc |-> "running", before |-> source[Primary].at]]
  /\ UNCHANGED <<source, stamp>> /\ UNCHANGED languages

CommandWrites(a, r) ==
  /\ check[a].pc = "running" /\ stamp < MaxWrites /\ stamp' = stamp + 1
  /\ \E bad \in BOOLEAN : source' = [source EXCEPT ![r] = [at |-> stamp + 1, bad |-> bad]]
  /\ UNCHANGED check /\ UNCHANGED languages

\* changedFiles and writeTargets: what changed in the workspace, and outside it what the
\* command names that is new enough, whoever wrote it.
Changed(a, named) == named \cup {r \in {Primary} : source[r].at # check[a].before}

RanCommand(a) ==
  /\ check[a].pc = "running"
  /\ \E named \in SUBSET {s \in Scratch : source[s].at > 0}, failed \in BOOLEAN :
       LET changed == Changed(a, named)
       IN check' = [check EXCEPT ![a] =
            IF failed \/ changed = {} THEN Idle ELSE Check(SetToSeq(changed))]
  /\ UNCHANGED <<source, stamp>> /\ UNCHANGED languages

-----------------------------------------------------------------------------
(* forPath: the manager of a project, the oldest making room for it.       *)

Touched(r) == Append(SelectSeq(order, LAMBDA s : s # r), r)
OldestUsed == IF Len(order) = MaxRoots THEN {Head(order)} ELSE {}

\* ForPath(r, m): what the lookup answers, and what it does.
ForPath(r, m) ==
  \/ r = Primary /\ m = Own /\ UNCHANGED languages
  \/ r # Primary /\ closed /\ m = Nobody /\ UNCHANGED languages
  \/ /\ r # Primary /\ ~closed /\ r \in DOMAIN managers /\ m = managers[r]
     /\ order' = Touched(r) /\ UNCHANGED <<managers, closed, up, leaving, started>>
  \/ r # Primary /\ ~closed /\ r \notin DOMAIN managers /\ m = Nobody /\ UNCHANGED languages
  \/ /\ r # Primary /\ ~closed /\ r \notin DOMAIN managers /\ started < MaxManagers /\ m = started + 1
     /\ LET out == OldestUsed
            kept == Restrict(managers, DOMAIN managers \ out)
        IN /\ managers' = [s \in DOMAIN kept \cup {r} |-> IF s = r THEN m ELSE kept[s]]
           /\ order' = Append(SelectSeq(order, LAMBDA s : s \notin out), r)
           /\ leaving' = leaving \cup {managers[s] : s \in out}
     /\ up' = up \cup {m} /\ started' = m /\ UNCHANGED closed

-----------------------------------------------------------------------------
(* checkPackage.                                                           *)

Answer(a, report) ==
  LET rest == Tail(check[a].todo)
  IN check' = [check EXCEPT ![a] =
       IF rest = << >> THEN [pc |-> "answered", reports |-> Append(@.reports, report)]
       ELSE [pc |-> "own", todo |-> rest, reports |-> Append(@.reports, report)]]
Nothing(r) == [of |-> r, says |-> "nothing"]

\* own: the manager the report depends on, if the file is one it covers.  The package may
\* import one of a project outside the workspace.
FindsOwn(a) ==
  /\ check[a].pc = "own"
  /\ LET r == Head(check[a].todo)
     IN \E m \in Nobody..MaxManagers :
          /\ ForPath(r, m)
          /\ \/ m \in {Nobody} \cup (Own + 1)..MaxManagers /\ Answer(a, Nothing(r))
             \/ /\ m # Nobody
                /\ \E imports \in {<< >>} \cup {<<s>> : s \in Scratch \ {r}} :
                     check' = [check EXCEPT ![a] =
                       [pc |-> "group", own |-> m, todo |-> @.todo, files |-> <<r>> \o imports,
                        groups |-> << >>, moved |-> FALSE, reports |-> @.reports]]
  /\ UNCHANGED <<source, stamp>>

\* add: each file is looked up anew.
Groups(a) ==
  /\ check[a].pc = "group"
  /\ LET c == check[a]  r == Head(c.files)  rest == Tail(c.files)
     IN \E m \in Nobody..MaxManagers :
          /\ ForPath(r, m)
          /\ check' = [check EXCEPT ![a] =
               [pc |-> IF rest = << >> THEN "ask" ELSE "group", own |-> c.own, todo |-> c.todo, files |-> rest,
                groups |-> IF m = Nobody THEN c.groups ELSE Append(c.groups, [manager |-> m, root |-> r]),
                moved |-> c.moved \/ (r = Head(c.todo) /\ m # c.own),
                errors |-> {}, saw |-> FALSE, reports |-> c.reports]]
  /\ UNCHANGED <<source, stamp>>

\* diagnose: no answer, one that is not ready by the deadline, or the errors
\* of what the server has analysed.
AskedNever(a, g) == FALSE
Asked(a, g) == g.manager = check[a].own

Asks(a) ==
  /\ check[a].pc = "ask" /\ check[a].groups # << >>
  /\ LET c == check[a]  g == Head(c.groups)  r == Head(c.todo)
         next(errors, saw) == check' = [check EXCEPT ![a].groups = Tail(@), ![a].errors = errors, ![a].saw = saw]
     IN \/ IF Asked(a, g) THEN Answer(a, Nothing(r)) ELSE next(c.errors, c.saw)
        \/ /\ g.manager \in up \ leaving
           /\ IF Asked(a, g) THEN Answer(a, [of |-> r, says |-> "not ready"])
              ELSE \E bad \in BOOLEAN : next(IF bad THEN c.errors \cup {g.root} ELSE c.errors, c.saw)
        \/ /\ g.manager \in up
           /\ next(IF source[g.root].bad THEN c.errors \cup {g.root} ELSE c.errors,
                   c.saw \/ (g.root = r /\ ~source[r].bad))
  /\ UNCHANGED <<source, stamp>> /\ UNCHANGED languages

Reports(a) ==
  /\ check[a].pc = "ask" /\ check[a].groups = << >>
  /\ Answer(a, [of |-> Head(check[a].todo), says |-> IF check[a].errors = {} THEN "clean" ELSE "errors",
                saw |-> check[a].saw, moved |-> check[a].moved])
  /\ UNCHANGED <<source, stamp>> /\ UNCHANGED languages

Returns(a) ==
  /\ check[a].pc = "answered" /\ check' = [check EXCEPT ![a] = Idle]
  /\ UNCHANGED <<source, stamp>> /\ UNCHANGED languages

-----------------------------------------------------------------------------
Gone(m) ==
  /\ m \in leaving /\ leaving' = leaving \ {m} /\ up' = up \ {m}
  /\ UNCHANGED <<source, stamp, managers, order, closed, started, check>>

\* Close: those in use, not those already leaving.
Close ==
  /\ ~closed /\ closed' = TRUE
  /\ up' = up \ Range(managers) /\ managers' = << >> /\ order' = << >>
  /\ UNCHANGED <<source, stamp, leaving, started, check>>

Next ==
  \/ \E a \in Runners : Runs(a) \/ RanCommand(a)
  \/ \E a \in Agents : FindsOwn(a) \/ Groups(a) \/ Asks(a) \/ Reports(a) \/ Returns(a)
  \/ \E a \in Writers, r \in Roots : Writes(a, r)
  \/ \E a \in Runners, r \in Roots : CommandWrites(a, r)
  \/ \E m \in leaving : Gone(m)
  \/ Close

Spec == Init /\ [][Next]_vars

-----------------------------------------------------------------------------
TypeOK ==
  /\ up \subseteq Own..MaxManagers /\ leaving \subseteq up
  /\ stamp \in 0..MaxWrites /\ Len(order) <= MaxRoots

\* Every server that runs is the workspace's, one in the table or one being
\* closed: none is forgotten (forPath, Close).
NoServerIsForgotten ==
  /\ up = {Own} \cup Range(managers) \cup leaving
  /\ ToSet(order) = DOMAIN managers /\ IsInjective(order)

Result(a) == IF check[a].pc = "answered" THEN ToSet(check[a].reports) ELSE {}

\* A report that says there are no errors comes of the project's server, which
\* had analysed the change, while the project kept that server (checkPackage).
AllClearIsSeen ==
  \A a \in Agents : \A r \in Result(a) : r.says = "clean" /\ ~r.moved => r.saw

\* Not so of a check whose server made room for another between its two
\* lookups: the file is then asked of a new one, whose answer is not required
\* to be of the change.  Not a property of a run; see README.md.
EveryAllClearIsSeen == \A a \in Agents : \A r \in Result(a) : r.says = "clean" => r.saw

WriteChecksHold == TypeOK /\ NoServerIsForgotten /\ AllClearIsSeen
=============================================================================
