------------------------------- MODULE Files -------------------------------
(***************************************************************************)
(* The file tools of agents that share a workspace (tool/files.go,            *)
(* tool/files_anchored.go): a reader/writer gate whose waits end with their   *)
(* context, reads that label the lines they show, edits that name lines by    *)
(* those labels or by their text, and a shell beside them that takes no lock.  *)
(* One file stands for all.                                                   *)
(***************************************************************************)
EXTENDS Diff, TLC

CONSTANTS Agents, Lines,          \* who; the text of a line
          MaxLength, MaxOps, MaxShell   \* bounds: of the file, of calls, of the shell's writes

VARIABLES
  mode,      \* how an edit names its lines: "text" or "anchors"
  file,      \* the lines on disk
  gate,      \* readers, writing, and how many writers are queued
  asleep,    \* who waits for the gate to change
  call,      \* the call of each agent
  labels,    \* the labels of the file, and the lines they were given for
  retired, issued,   \* labels that are not used again; how many there were
  shown,     \* what an agent was shown: a label and its line
  ops, shell, raced  \* bounds; the shell wrote during an edit

held == <<gate, asleep>>
names == <<labels, retired, issued, shown>>
vars == <<mode, file, held, call, names, ops, shell, raced>>

File == UNION {[1..n -> Lines] : n \in 0..MaxLength}
NoLabels == [text |-> <<>>, tags |-> <<>>]
Idle == [kind |-> "none", place |-> "idle"]

----------------------------------------------------------------------------
(* The gate.                                                                *)

\* A waiting writer holds back new readers.
Open(write) == ~gate.writing /\ (IF write THEN gate.readers = 0 ELSE gate.queued = 0)
Writes(kind) == kind # "read"
Signal == asleep' = {}

Begin(a, op) ==
  /\ call[a].place = "idle" /\ ops < MaxOps
  /\ ops' = ops + 1
  /\ call' = [call EXCEPT ![a] = op @@ [place |-> "acquire", text |-> <<>>]]
  /\ gate' = IF Writes(op.kind) THEN [gate EXCEPT !.queued = @ + 1] ELSE gate
  /\ UNCHANGED <<mode, file, asleep, names, shell, raced>>

At(a, place) == call' = [call EXCEPT ![a].place = place]
Acquire(a) ==
  /\ call[a].place = "acquire" /\ a \notin asleep
  /\ LET write == Writes(call[a].kind)
     IN IF Open(write)
        THEN /\ gate' = IF write THEN [gate EXCEPT !.queued = @ - 1, !.writing = TRUE]
                        ELSE [gate EXCEPT !.readers = @ + 1]
             /\ At(a, "read")
             /\ UNCHANGED asleep
        ELSE asleep' = asleep \cup {a} /\ UNCHANGED <<gate, call>>
  /\ UNCHANGED <<mode, file, names, ops, shell, raced>>

\* The context of a waiting call ends; readers it held back are woken.
GiveUp(a) ==
  /\ call[a].place = "acquire"
  /\ IF Writes(call[a].kind)
     THEN gate' = [gate EXCEPT !.queued = @ - 1] /\ Signal
     ELSE asleep' = asleep \ {a} /\ UNCHANGED gate
  /\ call' = [call EXCEPT ![a] = Idle]
  /\ UNCHANGED <<mode, file, names, ops, shell, raced>>

Release(a) ==
  /\ call[a].place = "release"
  /\ gate' = IF Writes(call[a].kind) THEN [gate EXCEPT !.writing = FALSE]
             ELSE [gate EXCEPT !.readers = @ - 1]
  /\ Signal
  /\ call' = [call EXCEPT ![a] = Idle]
  /\ raced' = [raced EXCEPT ![a] = FALSE]
  /\ UNCHANGED <<mode, file, names, ops, shell>>

----------------------------------------------------------------------------
(* Labels.                                                                  *)

Minted(n, k) == [i \in 1..n |-> issued + k + i]

\* reconcile: a line that goes on keeps its label, the others get new ones.
\* Faulty variant: labels stay where they were.
ReconcileByPlace(text) ==
  LET new == {j \in 1..Len(text) : j > Len(labels.tags)}
  IN [text |-> text, minted |-> Cardinality(new),
      tags |-> [j \in 1..Len(text) |->
                  IF j \in new THEN issued + Cardinality({k \in new : k <= j}) ELSE labels.tags[j]]]
Reconcile(text) ==
  LET match == MatchLines(labels.text, text)
      new == {j \in 1..Len(text) : match[j] = 0}
  IN [text |-> text, minted |-> Cardinality(new),
      tags |-> [j \in 1..Len(text) |->
                  IF j \in new THEN issued + Cardinality({k \in new : k <= j})
                  ELSE labels.tags[match[j]]]]

Tags(l) == {l.tags[i] : i \in 1..Len(l.tags)}
Keep(l) ==
  /\ labels' = [text |-> l.text, tags |-> l.tags]
  /\ retired' = retired \cup (Tags(labels) \ Tags(l))
  /\ issued' = issued + l.minted

\* labelsFor: labels follow what is read.
LabelsFor(text) == IF text = labels.text THEN labels @@ [minted |-> 0] ELSE Reconcile(text)

----------------------------------------------------------------------------
(* Reads and edits.                                                         *)

ReadText(a) ==
  /\ call[a].place = "read"
  /\ call' = [call EXCEPT ![a].text = file, ![a].place = "apply"]
  /\ UNCHANGED <<mode, file, held, names, ops, shell, raced>>

\* An unreadable file does not block a write.
ReadFails(a) ==
  /\ call[a].place = "read"
  /\ At(a, IF call[a].kind = "write" /\ mode = "text" THEN "apply" ELSE "release")
  /\ UNCHANGED <<mode, file, held, names, ops, shell, raced>>

\* read: what is shown bears the labels of what was read.
Read(a) ==
  /\ call[a].place = "apply" /\ call[a].kind = "read"
  /\ IF mode = "anchors"
     THEN LET l == LabelsFor(call[a].text)
          IN /\ Keep(l)
             /\ shown' = shown \cup {<<l.tags[i], l.text[i]>> : i \in 1..Len(l.text)}
     ELSE UNCHANGED names
  /\ At(a, "release")
  /\ UNCHANGED <<mode, file, held, ops, shell, raced>>

Changed(a, lines, labelled) ==
  /\ Len(lines) <= MaxLength
  /\ file' = lines
  /\ IF labelled.text = <<"none">> THEN UNCHANGED <<labels, retired, issued>> ELSE Keep(labelled)
  /\ At(a, "release")
Fails(a) == At(a, "release") /\ UNCHANGED <<file, labels, retired, issued>>

\* edit: the one occurrence of the old text.
Places(text, old) == {i \in 1..Len(text) : text[i] = old}
Replace(text, at, cut, new) ==
  SubSeq(text, 1, at - 1) \o new \o SubSeq(text, at + cut, Len(text))
Edit(a) ==
  /\ call[a].place = "apply" /\ call[a].kind = "edit" /\ mode = "text"
  /\ LET text == call[a].text  at == Places(text, call[a].old)
     IN \/ /\ Cardinality(at) = 1
           /\ Changed(a, Replace(text, Most(at), 1, call[a].new), [text |-> <<"none">>])
        \/ Fails(a)
  /\ UNCHANGED <<mode, held, shown, ops, shell, raced>>

\* editLines: replace the line of a label, or all from it to the line of a second one, or
\* insert next to it; a label that names no line any more is refused, and an end before the
\* start.  The labels follow what was read, whatever comes of the edit.
Splice(l, at, cut, new) ==
  [text |-> Replace(l.text, at, cut, new), minted |-> l.minted + Len(new),
   tags |-> Replace(l.tags, at, cut, Minted(Len(new), l.minted))]
Named(l, label) == {i \in 1..Len(l.tags) : l.tags[i] = label}
NoEnd == 0
EditLines(a) ==
  /\ call[a].place = "apply" /\ call[a].kind = "edit" /\ mode = "anchors"
  /\ LET l == LabelsFor(call[a].text)
         end == IF call[a].end = NoEnd THEN call[a].label ELSE call[a].end
     IN \/ \E first \in Named(l, call[a].label), last \in Named(l, end) :
             /\ first <= last
             /\ LET at == IF call[a].op = "insert_after" THEN first + 1 ELSE first
                    cut == IF call[a].op = "replace" THEN last - first + 1 ELSE 0
                    done == Splice(l, at, cut, call[a].new)
                IN Changed(a, done.text, done)
        \/ Keep(l) /\ At(a, "release") /\ UNCHANGED file
  /\ UNCHANGED <<mode, held, shown, ops, shell, raced>>

\* create: only a file that is empty; every line is new.
Create(a) ==
  /\ call[a].place = "apply" /\ call[a].kind = "write" /\ mode = "anchors"
  /\ \/ /\ call[a].text = <<>>
        /\ LET l == LabelsFor(<<>>)
           IN Changed(a, call[a].new, [text |-> call[a].new, minted |-> l.minted + Len(call[a].new),
                                       tags |-> Minted(Len(call[a].new), l.minted)])
     \/ Fails(a)
  /\ UNCHANGED <<mode, held, shown, ops, shell, raced>>

Write(a) ==
  /\ call[a].place = "apply" /\ call[a].kind = "write" /\ mode = "text"
  /\ Changed(a, call[a].new, [text |-> <<"none">>]) \/ Fails(a)
  /\ UNCHANGED <<mode, held, shown, ops, shell, raced>>

\* The shell, an editor or a formatter writes when it likes.
Shell ==
  /\ shell < MaxShell /\ shell' = shell + 1
  /\ \E lines \in File : lines # file /\ file' = lines
  /\ raced' = [a \in Agents |-> raced[a] \/ (call[a].place = "apply" /\ call[a].kind = "edit")]
  /\ UNCHANGED <<mode, held, call, names, ops>>

----------------------------------------------------------------------------
Init ==
  /\ mode \in {"text", "anchors"}
  /\ file \in [1..2 -> Lines]
  /\ gate = [readers |-> 0, writing |-> FALSE, queued |-> 0] /\ asleep = {}
  /\ call = [a \in Agents |-> Idle]
  /\ labels = NoLabels /\ retired = {} /\ issued = 0 /\ shown = {}
  /\ ops = 0 /\ shell = 0 /\ raced = [a \in Agents |-> FALSE]

Ops ==
  {[kind |-> "read"]}
  \cup [kind : {"write"}, new : {<<x>> : x \in Lines}]
  \cup IF mode = "text"
       THEN [kind : {"edit"}, old : Lines, new : {<<x>> : x \in Lines} \cup {<<>>}]
       ELSE [kind : {"edit"}, label : {s[1] : s \in shown}, op : {"replace"},
             end : {NoEnd} \cup {s[1] : s \in shown}, new : {<<x>> : x \in Lines} \cup {<<>>}]
            \cup [kind : {"edit"}, label : {s[1] : s \in shown}, end : {NoEnd},
                  op : {"insert_before", "insert_after"}, new : {<<x>> : x \in Lines}]

Next ==
  \/ \E a \in Agents : \E op \in Ops : Begin(a, op)
  \/ \E a \in Agents :
       Acquire(a) \/ GiveUp(a) \/ ReadText(a) \/ ReadFails(a) \/ Read(a) \/ Edit(a)
       \/ EditLines(a) \/ Create(a) \/ Write(a) \/ Release(a)
  \/ Shell

Spec == Init /\ [][Next]_vars

----------------------------------------------------------------------------
\* Nobody sleeps on a gate that would let it in, and writers exclude everyone
\* (files.go:157-227).
GateIsSound ==
  /\ \A a \in asleep : ~Open(Writes(call[a].kind))
  /\ gate.writing => gate.readers = 0
  /\ gate.queued = Cardinality({a \in Agents : call[a].place = "acquire" /\ Writes(call[a].kind)})

\* An edit is made from what is on disk, unless the shell wrote meanwhile: no agent undoes
\* what another wrote.
NoAgentIsOverwritten ==
  \A a \in Agents :
    call[a].place = "apply" /\ call[a].kind = "edit" /\ ~raced[a] => call[a].text = file

\* A label has meant one line's text since it was shown, and is on one line at most; one
\* that is retired is not in use (files_anchored.go:14-18).
LabelsMeanOneLine ==
  /\ \A i, j \in 1..Len(labels.tags) : labels.tags[i] = labels.tags[j] => i = j
  /\ \A s \in shown : \A i \in 1..Len(labels.tags) :
       labels.tags[i] = s[1] => labels.text[i] = s[2]
  /\ \A s, r \in shown : s[1] = r[1] => s[2] = r[2]
  /\ retired \cap Tags(labels) = {}

EditsAreHonest == GateIsSound /\ NoAgentIsOverwritten /\ LabelsMeanOneLine
=============================================================================
