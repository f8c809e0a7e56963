------------------------------ MODULE Streams ------------------------------
(***************************************************************************)
(* The streams of the terminal (internal/tui/streams.go, with addEntry,    *)
(* the updates of rows, renderTranscript and the freezing of the display): *)
(* every stream is a view of the same entries, with its own place and its  *)
(* own count of what has not been read.  An entry is one line here.        *)
(***************************************************************************)
EXTENDS Integers, Sequences, FiniteSets, SequencesExt

CONSTANTS Agents,      \* The agents, the manager among them.
          Manager,
          Heights,     \* Heights of the viewport.
          MaxEntries,  \* Bound: entries ever added.
          MaxChanges   \* Bound: changes of entries.

All == ""              \* The stream of all activity.
Names == Agents \cup {All}

VARIABLES
  entries,    \* The entries: their serials and the agents they concern.
  nextEntry,  \* The serial of the last.
  changes,    \* Bound: how often one changed.
  views,      \* The streams there are.
  unread,     \* Of each stream, the serials not read yet.
  position,   \* Of each stream that is not shown, the place it was left at.
  selected,   \* The stream on the screen.
  offset,     \* viewport.YOffset.
  height,     \* viewport.Height.
  frozen,     \* selecting: the screen is frozen, and these are the entries on it.
  covered,    \* The roster has the keyboard, or a preview hovers over the text.
  born,       \* History: the last entry when each stream came to be.
  seen,       \* History: the entries that were on the screen since they last changed.
  held        \* History: the entry the person scrolled each stream to.

vars == <<entries, nextEntry, changes, views, unread, position, selected, offset, height, frozen,
          covered, born, seen, held>>

Latest == [follow |-> TRUE, entry |-> 0, offset |-> 0]
Live == [on |-> FALSE, shown |-> <<>>]

Init ==
  /\ entries = <<>> /\ nextEntry = 0 /\ changes = 0 /\ unread = [s \in Names |-> {}]
  /\ views = {All, Manager} /\ born = [s \in Names |-> 0]
  /\ position = [s \in Names |-> Latest] /\ selected = Manager /\ offset = 0
  /\ height \in Heights /\ frozen = Live /\ covered = FALSE
  /\ seen = {} /\ held = [s \in Names |-> 0]

-----------------------------------------------------------------------------
InStream(e, s) == s = All \/ e.actors = {} \/ s \in e.actors
LinesOf(es, s) == SelectSeq(es, LAMBDA e : InStream(e, s))

Least(a, b) == IF a < b THEN a ELSE b
Most(a, b) == IF a > b THEN a ELSE b
Bottom(n) == Most(0, n - height)
AtBottom(es, s, at) == at >= Bottom(Len(LinesOf(es, s)))

\* What the viewport holds: a frozen screen is not drawn again.
Drawn == IF frozen.on THEN frozen.shown ELSE entries

\* streamPosition: at the bottom, or at an entry.
Place ==
  LET lines == LinesOf(Drawn, selected) IN
  [follow |-> AtBottom(Drawn, selected, offset),
   entry |-> IF offset < Len(lines) THEN lines[offset + 1].serial ELSE 0,
   offset |-> offset]

\* restoreStreamPosition: the bottom, or the line of that entry.
Restored(es, s, p) ==
  LET lines == LinesOf(es, s)
      there == {i \in DOMAIN lines : lines[i].serial = p.entry}
      row == IF there = {} THEN p.offset ELSE (CHOOSE i \in there : TRUE) - 1
  IN IF p.follow THEN Bottom(Len(lines)) ELSE Least(row, Bottom(Len(lines)))

\* renderTranscript keeps the place, or follows the end.
Rendered(es, follow) == Restored(es, selected, [Place EXCEPT !.follow = @ \/ follow])

Visible(f, c) == ~f.on /\ ~c

\* markStreamRead, as every update ends: what the person has before them in
\* one stream counts as read in the others too.
Marked(u, es, s, at) ==
  IF AtBottom(es, s, at) THEN [t \in Names |-> u[t] \ u[s]] ELSE u

\* The person sees what is at the bottom of a stream that follows.
Update(u, es, s, at, f, c, changed) ==
  /\ entries' = es /\ selected' = s /\ offset' = at /\ frozen' = f /\ covered' = c
  /\ unread' = IF Visible(f, c) THEN Marked(u, es, s, at) ELSE u
  /\ seen' = (seen \ changed) \cup
       IF Visible(f, c) /\ AtBottom(es, s, at) THEN {e.serial : e \in ToSet(LinesOf(es, s))} ELSE {}

\* ensureStream.
Ensure(names) ==
  /\ views' = views \cup names
  /\ born' = [s \in Names |-> IF s \in names \ views THEN nextEntry ELSE born[s]]

\* noteStreamEntry.
Noted(u, e) ==
  [s \in Names |-> IF s \in views \cup e.actors /\ InStream(e, s) THEN u[s] \cup {e.serial} ELSE u[s]]

Kept == held' = IF ~frozen.on /\ AtBottom(entries', selected', offset')
                THEN [held EXCEPT ![selected'] = 0] ELSE held

-----------------------------------------------------------------------------
(* What the session's events do.                                           *)

\* AgentStarted.
Started(a) ==
  /\ a \notin views /\ Ensure({a})
  /\ Update(unread, entries, selected, offset, frozen, covered, {})
  /\ UNCHANGED <<nextEntry, changes, position, height, held>>

\* addEntry: what the screen itself has to say concerns every stream, and some
\* of it is to be followed; the rest concerns those who wrote it or whom it went to.
Add(actors, follow) ==
  /\ nextEntry < MaxEntries /\ nextEntry' = nextEntry + 1 /\ Ensure(actors)
  /\ follow => actors = {}
  /\ LET e == [serial |-> nextEntry + 1, actors |-> actors]
         es == Append(entries, e)
         at == IF frozen.on THEN offset ELSE Rendered(es, follow /\ InStream(e, selected))
     IN Update(Noted(unread, e), es, selected, at, frozen, covered, {e.serial})
  /\ Kept /\ UNCHANGED <<changes, position, height>>

\* The result of a tool call, more of an output, or the message it became, which
\* gives its row another reader.
Change(i, actors) ==
  /\ entries[i].actors # {} /\ entries[i].actors \subseteq actors
  /\ changes < MaxChanges /\ changes' = changes + 1 /\ Ensure(actors)
  /\ LET e == [entries[i] EXCEPT !.actors = actors]
         es == [entries EXCEPT ![i] = e]
         at == IF frozen.on THEN offset ELSE Rendered(es, FALSE)
     IN Update(Noted(unread, e), es, selected, at, frozen, covered, {e.serial})
  /\ Kept /\ UNCHANGED <<nextEntry, position, height>>

-----------------------------------------------------------------------------
(* What the person does.                                                   *)

Others == UNCHANGED <<nextEntry, changes, views, born, height>>

\* selectStream: the place in the one stream is kept for the return.
Select(s) ==
  /\ s \in views \ {selected} /\ ~frozen.on
  /\ position' = [position EXCEPT ![selected] = Place]
  /\ Update(unread, entries, s, Restored(entries, s, position[s]), frozen, FALSE, {})
  /\ UNCHANGED held /\ Others

\* The viewport moves under a frozen screen too.
Scroll(d) ==
  /\ LET lines == LinesOf(Drawn, selected)
         at == Most(0, Least(offset + d, Bottom(Len(lines)))) IN
     /\ at # offset
     /\ Update(unread, entries, selected, at, frozen, covered, {})
     /\ held' = [held EXCEPT ![selected] =
                   IF AtBottom(Drawn, selected, at) THEN 0 ELSE lines[at + 1].serial]
  /\ UNCHANGED position /\ Others

\* F6, a hover, and their ends.
Cover ==
  /\ ~frozen.on /\ Update(unread, entries, selected, offset, frozen, ~covered, {})
  /\ UNCHANGED <<position, held>> /\ Others

\* F2: toggleSelection keeps what the screen shows, and later shows all again.
Freeze ==
  /\ ~frozen.on
  /\ Update(unread, entries, selected, offset, [on |-> TRUE, shown |-> entries], covered, {})
  /\ UNCHANGED <<position, held>> /\ Others
Thaw ==
  /\ frozen.on
  /\ Update(unread, entries, selected, Rendered(entries, FALSE), Live, covered, {})
  /\ held' = IF AtBottom(entries, selected, offset') THEN [held EXCEPT ![selected] = 0] ELSE held
  /\ UNCHANGED position /\ Others

\* /clear.
Clear ==
  /\ ~frozen.on /\ entries # <<>>
  /\ position' = [s \in Names |-> Latest]
  /\ Update([s \in Names |-> {}], <<>>, selected, 0, frozen, covered, {})
  /\ held' = [s \in Names |-> 0] /\ Others

Next ==
  \/ \E a \in Agents : Started(a)
  \/ \E actors \in SUBSET Agents, follow \in BOOLEAN : Add(actors, follow)
  \/ \E i \in DOMAIN entries, actors \in SUBSET Agents : Change(i, actors)
  \/ \E s \in Names : Select(s)
  \/ \E d \in {-1, 1} : Scroll(d)
  \/ Cover \/ Freeze \/ Thaw \/ Clear

Spec == Init /\ [][Next]_vars

-----------------------------------------------------------------------------
\* Nothing is missed: what a stream does not count as unread was on the screen
\* since it last changed, in some stream, or is a notice older than the stream
\* (noteStreamEntry, markStreamRead).
NothingMissed ==
  \A i \in DOMAIN entries, s \in views :
    InStream(entries[i], s) /\ entries[i].serial \notin unread[s] =>
      entries[i].serial \in seen \/ (entries[i].actors = {} /\ entries[i].serial <= born[s])

\* What a stream counts is there to be read in it, and none of it is on the
\* screen already.
UnreadIsReal ==
  /\ \A s \in Names \ views : unread[s] = {}
  /\ \A s \in views : unread[s] \subseteq {e.serial : e \in ToSet(LinesOf(entries, s))}
  /\ ~frozen.on /\ ~covered /\ AtBottom(entries, selected, offset) => unread[selected] = {}

\* A person who scrolled back keeps their place: whatever is added, changed or
\* inserted above, and whichever streams they visit meanwhile, the entry they
\* scrolled to stays at the top (streamPosition, restoreStreamPosition).
PlaceIsKept ==
  held[selected] # 0 /\ ~frozen.on => Place.entry = held[selected]

StreamsHold == NothingMissed /\ UnreadIsReal /\ PlaceIsKept
=============================================================================
