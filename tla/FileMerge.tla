----------------------------- MODULE FileMerge -----------------------------
(***************************************************************************)
(* edit_file where the model quotes what it replaces                         *)
(* (tool/files_merge.go): the quote is applied exactly, then ignoring white  *)
(* space, then, when it is close to one place only, as a three-way merge of  *)
(* the model's change into the real lines.  A line is a key, what it reads   *)
(* without white space, and a lead, its indentation.                         *)
(***************************************************************************)
EXTENDS Diff, TLC

CONSTANTS Keys, Blank,       \* what lines read; the key of a blank line
          MaxBody, MaxQuote, \* bounds: lines of the file, of a quote
          Slack, Part, Whole, \* 3, 4 and 5 in the code
          Common, Tried,      \* 32 and 12 in the code: see Offsets
          Enough             \* 16 characters in the code: here lines that are not blank

VARIABLES body,  \* the lines of the file
          last   \* the edit that was made and what came of it

vars == <<body, last>>

Words == Keys \cup {Blank}
Flush(ks) == [i \in DOMAIN ks |-> [key |-> ks[i], lead |-> 0]]
Quotes == UNION {[1..n -> Words] : n \in 0..MaxQuote}

KeysOf(lines) == [i \in 1..Len(lines) |-> lines[i].key]
Solid(ks) == {i \in 1..Len(ks) : ks[i] # Blank}
Cut(s, from, to) == SubSeq(s, from, to)
Match(a, b) == MatchLines(KeysOf(a), KeysOf(b))
Nth(S, n) == CHOOSE i \in S : Cardinality({j \in S : j <= i}) = n

----------------------------------------------------------------------------
(* Indentation: the quote's is shifted to the file's when one shift fits.   *)

Shifts(pairs) == {p[2].lead - p[1].lead : p \in pairs}
ShiftLine(line, by) ==
  IF line.key = Blank THEN line
  ELSE [line EXCEPT !.lead = IF @ + by < 0 THEN @ ELSE @ + by]
Reindent(pairs, lines, fromNew) ==
  IF Cardinality(Shifts(pairs)) # 1 THEN lines
  ELSE LET by == CHOOSE d \in Shifts(pairs) : TRUE
       IN [i \in 1..Len(lines) |-> IF i \in fromNew THEN ShiftLine(lines[i], by) ELSE lines[i]]

----------------------------------------------------------------------------
(* Where a quote is.                                                        *)

ExactPlaces(quote) ==
  IF quote = <<>> THEN {}
  ELSE {i \in 1..(Len(body) - Len(quote) + 1) : Cut(body, i, i + Len(quote) - 1) = quote}

\* The places whose lines that are not blank are those of the quote.
TolerantSpans(quote) ==
  LET want == SelectSeq(KeysOf(quote), LAMBDA k : k # Blank)
      have == SelectSeq(KeysOf(body), LAMBDA k : k # Blank)
      idx(n) == Nth(Solid(KeysOf(body)), n)
  IN IF want = <<>> THEN {}
     ELSE {<<idx(s), idx(s + Len(want) - 1)>> :
             s \in {t \in 1..(Len(have) - Len(want) + 1) :
                      Cut(have, t, t + Len(want) - 1) = want}}

\* Each line of the quote that is not blank with the line it matched.
PairsTolerant(quote, span) ==
  LET real == {i \in Solid(KeysOf(body)) : span[1] <= i}
      said == Solid(KeysOf(quote))
  IN {<<quote[i], body[Nth(real, Cardinality({j \in said : j <= i}))]>> : i \in said}

\* Without the blank lines that old has at the same edge.
TrimBlankEdges(old, new) ==
  LET blank(n, from) == \A i \in 1..n : old[from[1] + i].key = Blank /\ new[from[2] + i].key = Blank
      lead == Most({n \in 0..Least(Len(old), Len(new)) : blank(n, <<0, 0>>)})
      trail == Most({n \in 0..Least(Len(old) - lead, Len(new) - lead) :
                       blank(n, <<Len(old) - n, Len(new) - n>>)})
  IN Cut(new, lead + 1, Len(new) - trail)

\* The candidates: for each offset at which some line agrees, the span the alignment
\* around that offset gives, and how many lines it aligns.
Earliest(S) == CHOOSE i \in S : \A j \in S : i <= j
SpanOf(q, lo, match, first, final, n) ==
  [from |-> Most({1, lo + match[first] - first + 1}),
   to |-> Least(Len(body), lo + match[final] + Len(q) - final), matched |-> n]
Spans(q, lo, match, on) ==
  IF on = {} THEN {}
  ELSE {SpanOf(q, lo, match, Earliest(on), Most(on), Cardinality(on))}
Aligned(q, lo, match) == Spans(q, lo, match, {i \in Solid(q) : match[i] # 0})
Around(q, b, lo, hi) ==
  IF lo >= hi THEN {} ELSE Aligned(q, lo, MatchLines(Cut(b, lo + 1, hi), q))
\* The lines of the quote that agree at an offset vote for it, those the file has too often
\* do not, and the offsets with the most votes are tried, the first of equals.
Rare(q, b) == {i \in Solid(q) : Cardinality({j \in 1..Len(b) : b[j] = q[i]}) <= Common}
Votes(q, b) ==
  LET heard == Rare(q, b)
  IN [o \in (1 - Len(q))..(Len(b) - 1) |->
        Cardinality({i \in heard : i + o \in DOMAIN b /\ b[i + o] = q[i]})]
Preferred(votes, o, p) == votes[o] > votes[p] \/ (votes[o] = votes[p] /\ o < p)
Offsets(q, b) ==
  LET votes == Votes(q, b)
      voted == {o \in DOMAIN votes : votes[o] > 0}
  IN {o \in voted : Cardinality({p \in voted : Preferred(votes, p, o)}) < Tried}
BestOfSpan(all) ==
  {c \in all : \A d \in all : d.from = c.from /\ d.to = c.to => d.matched <= c.matched}
Candidates(q, b) ==
  BestOfSpan(UNION {Around(q, b, Most({0, o - Slack}), Least(Len(b), o + Len(q) + Slack)) :
                      o \in Offsets(q, b)})

\* The one place that is close enough, with no other that is as close.
Stray(c, quote) == LET d == c.to - c.from + 1 - Len(quote) IN IF d < 0 THEN -d ELSE d
Ahead(c, d, quote) ==
  \/ c.matched > d.matched
  \/ c.matched = d.matched /\ Stray(c, quote) < Stray(d, quote)
  \/ c.matched = d.matched /\ Stray(c, quote) = Stray(d, quote) /\ c.from <= d.from
Verdict(top, cands, quote) ==
  IF \/ top.matched * Whole < Cardinality(Solid(KeysOf(quote))) * Part
     \/ Stray(top, quote) > Slack
  THEN [status |-> "far"]
  ELSE IF \E c \in cands : c.matched = top.matched /\ (c.to < top.from \/ c.from > top.to)
  THEN [status |-> "ambiguous"]
  ELSE [status |-> "ok", span |-> <<top.from, top.to>>]
Nearest(cands, quote) ==
  IF cands = {} THEN [status |-> "far"]
  ELSE Verdict(CHOOSE c \in cands : \A d \in cands : Ahead(c, d, quote), cands, quote)
LocateQuote(quote) == Nearest(Candidates(KeysOf(quote), KeysOf(body)), quote)

Paired(quote, region, match) ==
  {<<quote[i], region[match[i]]>> : i \in {j \in Solid(KeysOf(quote)) : match[j] # 0}}
PairsAligned(quote, region) == Paired(quote, region, Match(region, quote))

----------------------------------------------------------------------------
(* merge3: the model's change, base to theirs, applied to ours.  Of a chunk  *)
(* that both changed, differently, ours stays and it is a conflict.          *)

Chunk(base, ours, theirs, wins) ==
  LET co == KeysOf(ours)  cb == KeysOf(base)  ct == KeysOf(theirs)
      model == [lines |-> theirs, new |-> 1..Len(theirs), conflict |-> FALSE]
      real == [lines |-> ours, new |-> {}, conflict |-> FALSE]
  IN IF co = cb THEN model ELSE IF ct = cb \/ co = ct THEN real
     ELSE IF wins THEN model ELSE [real EXCEPT !.conflict = TRUE]

Then(x, y) == [lines |-> x.lines \o y.lines, conflict |-> x.conflict \/ y.conflict,
               new |-> x.new \cup {Len(x.lines) + i : i \in y.new}]

Merged(base, ours, theirs, bo, bt, wins) ==
  LET step[i \in 1..(Len(base) + 1), j \in 1..(Len(ours) + 1), k \in 1..(Len(theirs) + 1)] ==
        LET anchors == {c \in i..Len(base) : bo[c] >= j /\ bt[c] >= k}
            b == CHOOSE c \in anchors : \A d \in anchors : c <= d
            anchor == IF theirs[bt[b]] # base[b]
                      THEN [lines |-> <<theirs[bt[b]]>>, new |-> {1}, conflict |-> FALSE]
                      ELSE [lines |-> <<ours[bo[b]]>>, new |-> {}, conflict |-> FALSE]
        IN IF anchors = {}
           THEN Chunk(Cut(base, i, Len(base)), Cut(ours, j, Len(ours)),
                      Cut(theirs, k, Len(theirs)), wins)
           ELSE Then(Then(Chunk(Cut(base, i, b - 1), Cut(ours, j, bo[b] - 1),
                                Cut(theirs, k, bt[b] - 1), wins), anchor),
                     step[b + 1, bo[b] + 1, bt[b] + 1])
  IN step[1, 1, 1]

\* Faulty variant: where both changed, the model's text wins.
Merge3Overwrites(base, ours, theirs) ==
  Merged(base, ours, theirs, Match(ours, base), Match(theirs, base), TRUE)
Merge3(base, ours, theirs) ==
  Merged(base, ours, theirs, Match(ours, base), Match(theirs, base), FALSE)

----------------------------------------------------------------------------
(* edit_file.                                                               *)

Refuse(stage) == [stage |-> stage, text |-> body]
Commit(stage, from, to, lines) ==
  [stage |-> stage, from |-> from, to |-> to,
   text |-> Cut(body, 1, from - 1) \o lines \o Cut(body, to + 1, Len(body))]

Respaced(old, span, block) ==
  Commit("whitespace", span[1], span[2],
         Reindent(PairsTolerant(old, span), block, 1..Len(block)))
ByWhitespace(old, new, spans) ==
  IF Cardinality(spans) > 1 THEN Refuse("ambiguous")
  ELSE Respaced(old, CHOOSE x \in spans : TRUE, TrimBlankEdges(old, new))

Replaced(span, region, lines) ==
  IF lines = region THEN Refuse("already present")
  ELSE Commit("merge", span[1], span[2], lines)
MergedIn(old, span, region, merge) ==
  IF merge.conflict THEN Refuse("conflict")
  ELSE Replaced(span, region, Reindent(PairsAligned(old, region), merge.lines, merge.new))
Into(old, new, span, region) == MergedIn(old, span, region, Merge3(old, region, new))
ByMerge(old, new, loc) ==
  IF loc.status = "ambiguous" THEN Refuse("ambiguous")
  ELSE IF loc.status = "far"
  THEN Refuse(IF Cardinality(TolerantSpans(new)) = 1 /\ Len(new) >= Enough
              THEN "already present" ELSE "not found")
  ELSE Into(old, new, loc.span, Cut(body, loc.span[1], loc.span[2]))

Exactly(old, new, exact) ==
  IF Cardinality(exact) > 1 THEN Refuse("ambiguous")
  ELSE LET at == Most(exact) IN Commit("exact", at, at + Len(old) - 1, new)
Result(old, new) ==
  IF ExactPlaces(old) # {} THEN Exactly(old, new, ExactPlaces(old))
  ELSE IF TolerantSpans(old) # {} THEN ByWhitespace(old, new, TolerantSpans(old))
  ELSE ByMerge(old, new, LocateQuote(old))

\* The write may still fail, and then nothing has changed.
EditMerge ==
  /\ last.stage = "none"
  /\ \E o, n \in Quotes :
       /\ o # <<>>
       /\ LET result == Result(Flush(o), Flush(n))
          IN \/ /\ body' = result.text
                /\ last' = [old |-> Flush(o), new |-> Flush(n), before |-> body] @@ result
             \/ UNCHANGED vars

\* The file may be indented as a whole.
Bodies ==
  {[i \in DOMAIN ks |-> [key |-> ks[i], lead |-> IF ks[i] = Blank THEN 0 ELSE lead]] :
     ks \in UNION {[1..n -> Words] : n \in 1..MaxBody}, lead \in {0, 1}}
Init == body \in Bodies /\ last = [stage |-> "none"]

Next == EditMerge
Spec == Init /\ [][Next]_vars

----------------------------------------------------------------------------
Edited == last.stage \in {"exact", "whitespace", "merge"}
Region == Cut(last.before, last.from, last.to)
Written == Cut(body, last.from, last.to + Len(body) - Len(last.before))
Occurs(s, t) ==
  \E at \in [1..Len(s) -> 1..Len(t)] :
    /\ \A i \in 1..Len(s) : t[at[i]] = s[i]
    /\ \A i, j \in 1..Len(s) : i < j => at[i] < at[j]

SolidOf(lines) == SelectSeq(KeysOf(lines), LAMBDA k : k # Blank)
Agreeing(quote, place) == Cardinality({i \in Solid(KeysOf(quote)) : Match(place, quote)[i] # 0})

\* The model's change is applied in one place: a line of the file that the quote got wrong
\* or left out is still there after a merge, and each line the model added is too; a quote
\* that was right but for white space gives the model's lines (files_merge.go:14-22, 546-550).
ChangeIsKept ==
  /\ last.stage = "merge" =>
       LET old == last.old  new == last.new
           real == Match(old, Region)  added == Match(old, new)
           wrong == SelectSeq([j \in 1..Len(Region) |-> <<real[j], Region[j]>>],
                              LAMBDA l : l[1] = 0)
           mine == SelectSeq([j \in 1..Len(new) |-> <<added[j], new[j]>>],
                             LAMBDA l : l[1] = 0)
       IN /\ Occurs([j \in 1..Len(wrong) |-> wrong[j][2].key], KeysOf(Written))
          /\ Occurs([j \in 1..Len(mine) |-> mine[j][2].key], KeysOf(Written))
  /\ last.stage \in {"exact", "whitespace"} => SolidOf(Written) = SolidOf(last.new)

\* A quote that fits two places alike changes neither: of an exact edit the file has no second
\* copy; of one but for white space, no second place that reads the same; and of a merge, no
\* place where more lines of the quote stand line for line than agree in the one that was
\* changed (files_merge.go:94-97, 137-145, 418-422).  The lines that the search leaves out as
\* too common do not count.
OnePlaceOnly ==
  LET old == last.old  before == last.before
      Places == {p \in (1..Len(before)) \X (1..Len(before)) : p[1] <= p[2]}
  IN /\ last.stage = "exact" => \A p \in Places :
          Cut(before, p[1], p[2]) = old => p[1] = last.from
     /\ last.stage = "whitespace" => \A p \in Places :
          SolidOf(Cut(before, p[1], p[2])) = SolidOf(old) => p[1] <= last.from /\ last.to <= p[2]
     /\ last.stage = "merge" =>
          LET votes == Votes(KeysOf(old), KeysOf(before))
              most == Most({votes[o] : o \in DOMAIN votes})
          IN most <= Agreeing(old, Region)

MergeKeepsReality == ChangeIsKept /\ OnePlaceOnly
=============================================================================
