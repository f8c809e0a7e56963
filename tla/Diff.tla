-------------------------------- MODULE Diff --------------------------------
(***************************************************************************)
(* matchLines (tool/files_anchored.go): the lines of b that continue a line  *)
(* of a.  A common beginning and a common end are matched as they stand, the  *)
(* middle by a longest common subsequence, unless it is too large.            *)
(***************************************************************************)
EXTENDS Integers, Sequences, FiniteSets

CONSTANT MaxCells   \* 2^21 in the code

Least(x, y) == IF x <= y THEN x ELSE y
Most(S) == CHOOSE x \in S : \A y \in S : y <= x

Prefix(a, b) ==
  Most({p \in 0..Least(Len(a), Len(b)) : \A i \in 1..p : a[i] = b[i]})
Suffix(a, b, p) ==
  Most({s \in 0..Least(Len(a) - p, Len(b) - p) :
          \A i \in 0..(s - 1) : a[Len(a) - i] = b[Len(b) - i]})

\* The pairs of the walk through the middle, past p and before the last s.
Middle(a, b, p, s) ==
  LET n == Len(a) - s  m == Len(b) - s
      t[i \in (p + 1)..(n + 1), j \in (p + 1)..(m + 1)] ==
        IF i > n \/ j > m THEN 0
        ELSE IF a[i] = b[j] THEN t[i + 1, j + 1] + 1
        ELSE IF t[i + 1, j] >= t[i, j + 1] THEN t[i + 1, j] ELSE t[i, j + 1]
      walk[i \in (p + 1)..(n + 1), j \in (p + 1)..(m + 1)] ==
        IF i > n \/ j > m THEN {}
        ELSE IF a[i] = b[j] THEN {<<i, j>>} \cup walk[i + 1, j + 1]
        ELSE IF t[i + 1, j] >= t[i, j + 1] THEN walk[i + 1, j] ELSE walk[i, j + 1]
  IN walk[p + 1, p + 1]

\* For each line of b the line of a it continues, or 0.
Joined(a, b, p, s, middle) ==
  [j \in 1..Len(b) |->
     IF j <= p THEN j
     ELSE IF j > Len(b) - s THEN j - Len(b) + Len(a)
     ELSE IF \E i \in 1..Len(a) : <<i, j>> \in middle
          THEN CHOOSE i \in 1..Len(a) : <<i, j>> \in middle ELSE 0]
Between(a, b, p, s) ==
  Joined(a, b, p, s,
         IF (Len(a) - p - s) * (Len(b) - p - s) \in 1..MaxCells THEN Middle(a, b, p, s) ELSE {})
After(a, b, p) == Between(a, b, p, Suffix(a, b, p))
MatchLines(a, b) == After(a, b, Prefix(a, b))
=============================================================================
