-------------------------- MODULE WorkLedgerProofs --------------------------
(***************************************************************************)
(* Machine-checked proofs about the publication of the work ledger, for    *)
(* every set of records and mutations of every size: the log, the store    *)
(* and the dispatcher agree (PublicationHolds), and a replay of the log is *)
(* LedgerReplay (ReplayIsAtomic).                                          *)
(***************************************************************************)
EXTENDS WorkLedger, WellFoundedInduction, TLAPS

----------------------------------------------------------------------------
(* The inductive invariant. *)

Change == UNION {[S -> Nat] : S \in SUBSET Record}
Event == [id : Nat, owned : BOOLEAN, change : Change]

\* The id of the last event of the last mutation that ended.
Published == minted - (Len(events) - visible)
Pending(id) == \E i \in 1..Len(events) : events[i].id = id
Tells == events[Len(events)].change

TypesInv ==
  /\ store \in [Record -> Nat] /\ minted \in Nat
  /\ events \in Seq(Event) /\ log \in Seq(Event) /\ batch \in Seq(Event)
  /\ visible \in Nat /\ visible <= Len(events) /\ sending \in Nat
  /\ failure \in BOOLEAN /\ ready \in BOOLEAN
  /\ dispatch \in {"waiting", "reading", "handling"}
  /\ dispatched \in Seq(Nat) /\ held \subseteq attempted

\* Events are pending in the order of their ids; those of the last mutation, which may not be
\* visible yet, are all there.
NumberedInv ==
  /\ \A i \in 1..Len(events) : events[i].id \in 1..minted
  /\ \A i, j \in 1..Len(events) : i < j => events[i].id < events[j].id
  /\ \A i \in visible + 1..Len(events) : events[i].id = minted - (Len(events) - i)

\* What is published next is an event of the mutation under way.
StagedInv ==
  /\ sending # 0 => ~failure /\ visible < Len(events) /\ visible < sending /\ sending <= Len(events) + 1
  /\ sending = 0 /\ ~failure => visible = Len(events)

\* The log holds the events in order, up to the next one to publish.
LoggedInv ==
  /\ \A i \in 1..Len(log) : log[i].id = i
  /\ sending # 0 => Len(log) = minted - (Len(events) + 1 - sending)
  /\ sending = 0 /\ ~failure => Len(log) = minted
  /\ Published <= Len(log)

\* A replay lacks what the last event of the mutation under way is about to tell.
LaggingInv ==
  /\ sending = 0 /\ ~failure => \A r \in Record : Replayed(log, r) = store[r]
  /\ sending = Len(events) + 1 => \A r \in Record : Replayed(log, r) = store[r]
  /\ sending # 0 /\ sending <= Len(events) =>
       /\ DOMAIN Tells # {} /\ DOMAIN Tells \subseteq Record
       /\ \A r \in DOMAIN Tells : Tells[r] = store[r] /\ Replayed(log, r) + 1 = store[r]
       /\ \A r \in Record \ DOMAIN Tells : Replayed(log, r) = store[r]
       /\ \A i \in visible + 1..Len(events) - 1 : events[i].change = Nothing

\* The dispatcher has handled the events up to some id, of mutations that ended.
DispatchedInv ==
  /\ HandledInOrder
  /\ Len(dispatched) <= Published
  /\ attempted \subseteq 1..Len(dispatched)
  /\ \A id \in 1..Len(dispatched) : id \in held <=> Pending(id)
  /\ \A id \in Len(dispatched) + 1..minted : Pending(id)

\* What it has read is in order and skips nothing; what of it was handled before is remembered.
BatchedInv ==
  /\ dispatch # "handling" => batch = <<>>
  /\ \A i \in 1..Len(batch) : batch[i].id \in 1..Published
  /\ \A i, j \in 1..Len(batch) : i < j => batch[i].id < batch[j].id
  /\ \A i \in 1..Len(batch) : batch[i].id <= Len(dispatched) => batch[i].id \in attempted
  /\ \A i \in 1..Len(batch) : \A id \in Len(dispatched) + 1..batch[i].id :
       \E j \in 1..Len(batch) : batch[j].id = id

WorkLedgerInv ==
  TypesInv /\ NumberedInv /\ StagedInv /\ LoggedInv /\ LaggingInv /\ DispatchedInv /\ BatchedInv

----------------------------------------------------------------------------
(* Operators. *)

\* A bounded set of positions that is not empty has a last one.
LEMMA Latest ==
  ASSUME NEW n \in Nat, NEW S, S \subseteq 1..n, S # {}
  PROVE  \E i \in S : \A j \in S : j <= i
<1> DEFINE T == {n - i : i \in S}
<1>1. T \subseteq Nat /\ T # {}
  <2>1. \A i \in S : n - i \in Nat
    OBVIOUS
  <2> QED
    BY <2>1
<1> HIDE DEF T
<1>2. PICK t \in T : \A u \in T : ~ (<<u, t>> \in OpToRel(<, Nat))
  BY <1>1, NatLessThanWellFounded, WFMin
<1>3. PICK i \in S : t = n - i
  BY DEF T
<1>4. ASSUME NEW j \in S PROVE j <= i
  <2>1. n - j \in T
    BY DEF T
  <2>2. ~ (n - j < n - i)
    <3>1. <<n - j, t>> \notin OpToRel(<, Nat)
      BY <1>2, <2>1
    <3>2. n - j \in Nat /\ n - i \in Nat
      OBVIOUS
    <3> QED
      BY <3>1, <3>2, <1>3, Zenon DEF OpToRel
  <2>3. i \in 1..n /\ j \in 1..n
    OBVIOUS
  <2> QED
    BY <2>2, <2>3
<1> QED
  BY <1>4

\* The last event that tells of a record is the one that counts.
LEMMA ReplayedAt ==
  ASSUME NEW l \in Seq(Event), NEW r, NEW k \in 1..Len(l), r \in DOMAIN l[k].change,
         \A j \in 1..Len(l) : r \in DOMAIN l[j].change => j <= k
  PROVE  Replayed(l, r) = l[k].change[r]
<1> DEFINE carrying == {i \in DOMAIN l : r \in DOMAIN l[i].change}
<1>1. k \in carrying /\ \A j \in carrying : j <= k
  OBVIOUS
<1>2. ASSUME NEW i \in carrying, \A j \in carrying : j <= i PROVE i = k
  BY <1>1, <1>2
<1>3. (CHOOSE i \in carrying : \A j \in carrying : j <= i) = k
  BY <1>1, <1>2
<1> QED
  BY <1>1, <1>3 DEF Replayed

\* Applying one more event: what it tells of a record replaces what was known.
LEMMA ReplayGrows ==
  ASSUME NEW l \in Seq(Event), NEW e \in Event, NEW r
  PROVE  Replayed(Append(l, e), r) = IF r \in DOMAIN e.change THEN e.change[r] ELSE Replayed(l, r)
<1> DEFINE n == Len(l)
           m == Append(l, e)
<1>1. m \in Seq(Event) /\ n \in Nat /\ Len(m) = n + 1 /\ m[n + 1] = e /\ \A i \in 1..n : m[i] = l[i]
  OBVIOUS
<1>2. CASE r \in DOMAIN e.change
  <2>1. n + 1 \in 1..Len(m) /\ r \in DOMAIN m[n + 1].change
        /\ \A j \in 1..Len(m) : r \in DOMAIN m[j].change => j <= n + 1
    BY <1>1, <1>2
  <2> HIDE DEF m
  <2>2. Replayed(m, r) = m[n + 1].change[r]
    BY <1>1, <2>1, ReplayedAt
  <2> QED
    BY <1>1, <1>2, <2>2 DEF m
<1>3. CASE r \notin DOMAIN e.change
  <2> DEFINE S == {i \in 1..n : r \in DOMAIN l[i].change}
  <2>1. CASE S = {}
    <3>1. \A i \in DOMAIN l : r \notin DOMAIN l[i].change
      BY <2>1, <1>1
    <3>2. \A i \in DOMAIN m : r \notin DOMAIN m[i].change
      BY <1>1, <1>3, <3>1
    <3> HIDE DEF m
    <3>3. Replayed(l, r) = 0 /\ Replayed(m, r) = 0
      BY <3>1, <3>2 DEF Replayed
    <3> QED
      BY <1>3, <3>3 DEF m
  <2>2. CASE S # {}
    <3>1. PICK k \in S : \A j \in S : j <= k
      <4>1. S \subseteq 1..n
        OBVIOUS
      <4> HIDE DEF S
      <4> QED
        BY <1>1, <2>2, <4>1, Latest
    <3>2. Replayed(l, r) = l[k].change[r]
      BY <3>1, ReplayedAt
    <3>3. k \in 1..Len(m) /\ r \in DOMAIN m[k].change
          /\ \A j \in 1..Len(m) : r \in DOMAIN m[j].change => j <= k
      BY <1>1, <1>3, <3>1
    <3> HIDE DEF m
    <3>4. Replayed(m, r) = m[k].change[r]
      BY <1>1, <3>3, ReplayedAt
    <3> QED
      BY <1>1, <1>3, <3>1, <3>2, <3>4 DEF m
  <2> QED
    BY <2>1, <2>2
<1> QED
  BY <1>2, <1>3

\* What a mutation appends.
LEMMA EventsOfType ==
  ASSUME minted \in Nat, NEW n \in Nat, NEW owned, NEW change \in Change
  PROVE  /\ EventsOf(n, owned, change) \in Seq(Event) /\ Len(EventsOf(n, owned, change)) = n
         /\ \A i \in 1..n : EventsOf(n, owned, change)[i] =
              [id |-> minted + i, owned |-> i \in owned,
               change |-> IF i = n THEN change ELSE Nothing]
<1>1. Nothing \in Change
  <2>1. Nothing \in [{} -> Nat]
    BY DEF Nothing
  <2> QED
    BY <2>1 DEF Change
<1>2. ASSUME NEW i \in 1..n
      PROVE [id |-> minted + i, owned |-> i \in owned, change |-> IF i = n THEN change ELSE Nothing]
              \in Event
  <2>1. minted + i \in Nat /\ (i \in owned) \in BOOLEAN
    OBVIOUS
  <2>2. (IF i = n THEN change ELSE Nothing) \in Change
    BY <1>1
  <2> QED
    BY <2>1, <2>2 DEF Event
<1> QED
  BY <1>2 DEF EventsOf

\* Removing an element of a sequence.
LEMMA Removal ==
  ASSUME NEW S, NEW s \in Seq(S), NEW k \in 1..Len(s)
  PROVE  /\ RemoveAt(s, k) \in Seq(S) /\ Len(RemoveAt(s, k)) = Len(s) - 1
         /\ \A j \in 1..Len(s) - 1 : RemoveAt(s, k)[j] = IF j < k THEN s[j] ELSE s[j + 1]
<1> DEFINE a == SubSeq(s, 1, k - 1)
           b == SubSeq(s, k + 1, Len(s))
<1>0. Len(s) \in Nat
  OBVIOUS
<1>1. a \in Seq(S) /\ Len(a) = k - 1 /\ \A j \in 1..k - 1 : a[j] = s[j]
  BY <1>0
<1>2. b \in Seq(S) /\ Len(b) = Len(s) - k /\ \A j \in 1..Len(s) - k : b[j] = s[k + j]
  BY <1>0
<1>3. RemoveAt(s, k) = a \o b
  BY DEF RemoveAt
<1> HIDE DEF a, b
<1>4. RemoveAt(s, k) \in Seq(S) /\ Len(RemoveAt(s, k)) = Len(s) - 1
  BY <1>0, <1>1, <1>2, <1>3
<1>5. ASSUME NEW j \in 1..Len(s) - 1
      PROVE  RemoveAt(s, k)[j] = IF j < k THEN s[j] ELSE s[j + 1]
  <2>1. CASE j < k
    BY <2>1, <1>0, <1>1, <1>2, <1>3
  <2>2. CASE j >= k
    <3>1. RemoveAt(s, k)[j] = b[j - (k - 1)]
      BY <2>2, <1>0, <1>1, <1>2, <1>3
    <3>2. j - (k - 1) \in 1..Len(s) - k
      BY <2>2, <1>0
    <3>3. b[j - (k - 1)] = s[k + (j - (k - 1))] /\ k + (j - (k - 1)) = j + 1
      BY <3>2, <1>2, <1>0
    <3> QED
      BY <2>2, <3>1, <3>3
  <2> QED
    BY <2>1, <2>2
<1> QED
  BY <1>4, <1>5

\* Joining two sequences.
LEMMA Joining ==
  ASSUME NEW S, NEW s \in Seq(S), NEW t \in Seq(S)
  PROVE  /\ s \o t \in Seq(S) /\ Len(s \o t) = Len(s) + Len(t)
         /\ \A i \in 1..Len(s) : (s \o t)[i] = s[i]
         /\ \A i \in Len(s) + 1..Len(s) + Len(t) : (s \o t)[i] = t[i - Len(s)]
  OBVIOUS

\* An acknowledged event leaves the pending ones, whose order stays.
LEMMA AcknowledgedDrops ==
  ASSUME TypesInv, NumberedInv, NEW k \in 1..Len(events), Acknowledged(events[k].id)
  PROVE  /\ sending = 0
         /\ events' \in Seq(Event) /\ Len(events') = Len(events) - 1
         /\ \A i \in 1..Len(events) - 1 : events'[i] = IF i < k THEN events[i] ELSE events[i + 1]
         /\ visible' = IF k <= visible THEN visible - 1 ELSE visible
<1>1. k \in PositionsOf(events[k].id)
  BY DEF PositionsOf
<1>2. PICK i \in PositionsOf(events[k].id) :
        events' = RemoveAt(events, i) /\ visible' = IF i <= visible THEN visible - 1 ELSE visible
  BY <1>1 DEF Acknowledged
<1>3. i \in 1..Len(events) /\ i = k
  <2>1. i \in 1..Len(events) /\ events[i].id = events[k].id
    BY <1>2 DEF PositionsOf
  <2>2. events[i].id \in Int /\ Len(events) \in Nat
    BY <2>1 DEF NumberedInv, TypesInv
  <2>3. ~ (i < k) /\ ~ (k < i)
    BY <2>1, <2>2 DEF NumberedInv
  <2> QED
    BY <2>1, <2>2, <2>3
<1> QED
  BY <1>2, <1>3, Removal DEF Acknowledged, TypesInv

----------------------------------------------------------------------------
(* The steps. *)

LEMMA InvInitially == Init => WorkLedgerInv
<1> SUFFICES ASSUME Init PROVE WorkLedgerInv
  OBVIOUS
<1> USE DEF Init
<1>1. TypesInv
  <2>1. store \in [Record -> Nat] /\ minted \in Nat
    OBVIOUS
  <2>2. events \in Seq(Event) /\ log \in Seq(Event) /\ batch \in Seq(Event) /\ dispatched \in Seq(Nat)
    OBVIOUS
  <2>3. visible \in Nat /\ visible <= Len(events) /\ sending \in Nat
    OBVIOUS
  <2>4. /\ failure \in BOOLEAN /\ ready \in BOOLEAN /\ held \subseteq attempted
        /\ dispatch \in {"waiting", "reading", "handling"}
    OBVIOUS
  <2> QED
    BY <2>1, <2>2, <2>3, <2>4 DEF TypesInv
<1>2. NumberedInv /\ StagedInv /\ LoggedInv
  BY DEF NumberedInv, StagedInv, LoggedInv, Published
<1>3. LaggingInv
  BY DEF LaggingInv, Replayed
<1>4. DispatchedInv
  BY DEF DispatchedInv, HandledInOrder, Published, Pending
<1>5. BatchedInv
  BY DEF BatchedInv
<1> QED
  BY <1>1, <1>2, <1>3, <1>4, <1>5 DEF WorkLedgerInv

\* A mutation that begins appends events nobody may see yet.
LEMMA MutateKeeps ==
  ASSUME WorkLedgerInv, NEW changed \in SUBSET Record, changed # {}, NEW n \in Nat, n > 0,
         NEW owned, Mutate(changed, n, owned)
  PROVE  WorkLedgerInv'
<1> DEFINE change == [r \in changed |-> store'[r]]
           added == EventsOf(n, owned, change)
           l == Len(events)
<1>1. TypesInv /\ NumberedInv /\ StagedInv /\ LoggedInv /\ LaggingInv /\ DispatchedInv /\ BatchedInv
  BY DEF WorkLedgerInv
<1>2. /\ sending = 0 /\ ~failure /\ visible = l /\ l \in Nat
      /\ minted' = minted + n /\ sending' = l + 1
      /\ UNCHANGED <<visible, failure, ready, log, dispatch, batch, attempted, dispatched, held>>
  BY <1>1 DEF Mutate, Mutable, StagedInv, TypesInv, dispatchVars
<1>3. /\ store' \in [Record -> Nat]
      /\ \A r \in changed : store'[r] = store[r] + 1
      /\ \A r \in Record \ changed : store'[r] = store[r]
  BY <1>1 DEF Mutate, TypesInv
<1>4. change \in Change /\ DOMAIN change = changed /\ \A r \in changed : change[r] = store'[r]
  <2>1. change \in [changed -> Nat]
    BY <1>3
  <2> QED
    BY <2>1 DEF Change
<1> HIDE DEF change
<1>5. /\ added \in Seq(Event) /\ Len(added) = n
      /\ \A i \in 1..n : added[i] = [id |-> minted + i, owned |-> i \in owned,
                                     change |-> IF i = n THEN change ELSE Nothing]
  BY <1>1, <1>4, EventsOfType DEF TypesInv
<1> HIDE DEF added
<1>6. /\ events' \in Seq(Event) /\ Len(events') = l + n
      /\ \A i \in 1..l : events'[i] = events[i]
      /\ \A i \in l + 1..l + n : events'[i] = added[i - l]
  <2>1. events' = events \o added
    BY DEF Mutate, added, change
  <2>2. events \in Seq(Event)
    BY <1>1 DEF TypesInv
  <2> QED
    BY <1>5, <2>1, <2>2, Joining
<1>7. /\ \A i \in l + 1..l + n : events'[i].id = minted + (i - l)
      /\ events'[l + n].change = change
      /\ \A i \in l + 1..l + n - 1 : events'[i].change = Nothing
  BY <1>2, <1>5, <1>6
<1>8. TypesInv'
  BY <1>1, <1>2, <1>3, <1>6 DEF TypesInv
<1>9. NumberedInv'
  <2>1. \A i \in 1..Len(events') : events'[i].id \in 1..minted'
    <3>1. ASSUME NEW i \in 1..l PROVE events'[i].id \in 1..minted + n
      <4>1. events[i].id \in 1..minted
        BY <1>1 DEF NumberedInv
      <4> QED
        BY <1>1, <1>6, <4>1 DEF TypesInv
    <3>2. ASSUME NEW i \in l + 1..l + n PROVE events'[i].id \in 1..minted + n
      BY <1>1, <1>2, <1>7, <3>2 DEF TypesInv
    <3> QED
      BY <1>2, <1>6, <3>1, <3>2
  <2>2. ASSUME NEW i \in 1..Len(events'), NEW j \in 1..Len(events'), i < j
        PROVE  events'[i].id < events'[j].id
    <3>1. CASE j <= l
      BY <1>1, <1>2, <1>6, <2>2, <3>1 DEF NumberedInv
    <3>2. CASE i <= l /\ j > l
      <4>1. events'[i].id \in 1..minted /\ events'[j].id = minted + (j - l)
        BY <1>1, <1>2, <1>6, <1>7, <2>2, <3>2 DEF NumberedInv
      <4>2. minted \in Nat /\ l \in Nat /\ j \in Nat
        BY <1>1, <1>2 DEF TypesInv
      <4>3. \A x \in 1..minted : x < minted + (j - l)
        BY <3>2, <4>2
      <4> QED
        BY <4>1, <4>3
    <3>3. CASE i > l
      <4>1. events'[i].id = minted + (i - l) /\ events'[j].id = minted + (j - l)
        BY <1>2, <1>6, <1>7, <2>2, <3>3
      <4> QED
        BY <1>1, <1>2, <2>2, <4>1 DEF TypesInv
    <3> QED
      BY <1>2, <3>1, <3>2, <3>3
  <2>3. \A i \in visible' + 1..Len(events') : events'[i].id = minted' - (Len(events') - i)
    BY <1>1, <1>2, <1>6, <1>7 DEF TypesInv
  <2> QED
    BY <2>1, <2>2, <2>3 DEF NumberedInv
<1>10. StagedInv'
  BY <1>2, <1>6 DEF StagedInv
<1>11. Published' = Published /\ Published = minted
  BY <1>1, <1>2, <1>6 DEF Published, TypesInv
<1>12. LoggedInv'
  <2>1. Len(log) = minted /\ Len(log) \in Nat /\ \A i \in 1..Len(log) : log[i].id = i
    BY <1>1, <1>2 DEF LoggedInv, TypesInv
  <2>2. minted' - (Len(events') + 1 - sending') = minted /\ sending' # 0
    BY <1>2, <1>6, <2>1
  <2> QED
    BY <1>2, <1>11, <2>1, <2>2 DEF LoggedInv
<1>13. LaggingInv'
  <2>1. \A r \in Record : Replayed(log', r) = store[r]
    BY <1>1, <1>2 DEF LaggingInv
  <2>2. Tells' = change
    BY <1>6, <1>7 DEF Tells
  <2>3. \A i \in visible' + 1..Len(events') - 1 : events'[i].change = Nothing
    BY <1>2, <1>6, <1>7
  <2>4. \A r \in changed : change[r] = store'[r] /\ Replayed(log', r) + 1 = store'[r]
    BY <1>3, <1>4, <2>1
  <2>5. \A r \in Record \ changed : Replayed(log', r) = store'[r]
    BY <1>3, <2>1
  <2>6. sending' # 0 /\ sending' <= Len(events') /\ sending' # Len(events') + 1
    BY <1>2, <1>6
  <2> QED
    BY <1>4, <2>2, <2>3, <2>4, <2>5, <2>6 DEF LaggingInv
<1>14. \A id \in 1..minted : Pending(id)' <=> Pending(id)
  <2>1. \A i \in l + 1..l + n : events'[i].id > minted
    BY <1>1, <1>2, <1>7 DEF TypesInv
  <2>2. ASSUME NEW id \in 1..minted, Pending(id) PROVE Pending(id)'
    <3>1. PICK i \in 1..l : events[i].id = id
      BY <2>2 DEF Pending
    <3>2. i \in 1..Len(events') /\ events'[i].id = id
      BY <1>2, <1>6, <3>1
    <3> QED
      BY <3>2 DEF Pending
  <2>3. ASSUME NEW id \in 1..minted, NEW i \in 1..Len(events'), events'[i].id = id PROVE Pending(id)
    <3>1. i \in 1..l
      <4>1. ~ (id > minted)
        BY <1>1 DEF TypesInv
      <4>2. i \notin l + 1..l + n
        BY <2>1, <2>3, <4>1
      <4> QED
        BY <1>2, <1>6, <4>2
    <3> QED
      BY <1>6, <2>3, <3>1 DEF Pending
  <2> QED
    BY <2>2, <2>3 DEF Pending
<1>15. DispatchedInv'
  <2>1. \A id \in minted + 1..minted + n : Pending(id)'
    <3>1. ASSUME NEW id \in minted + 1..minted + n
          PROVE  l + (id - minted) \in 1..Len(events') /\ events'[l + (id - minted)].id = id
      <4>1. PICK k \in 1..n : id = minted + k
        <5>1. id - minted \in 1..n /\ id = minted + (id - minted)
          BY <1>1, <3>1 DEF TypesInv
        <5> QED
          BY <5>1
      <4>2. l + (id - minted) = l + k /\ l + k \in l + 1..l + n
        BY <1>1, <1>2, <4>1 DEF TypesInv
      <4>3. events'[l + k].id = minted + (l + k - l)
        BY <1>7, <4>2
      <4> QED
        BY <1>1, <1>2, <1>6, <4>1, <4>2, <4>3 DEF TypesInv
    <3> QED
      BY <3>1 DEF Pending
  <2>2. Len(dispatched) <= minted /\ Len(dispatched) \in Nat
    BY <1>1, <1>11 DEF DispatchedInv, TypesInv
  <2>3. \A id \in Len(dispatched) + 1..minted' : Pending(id)'
    BY <1>1, <1>2, <1>14, <2>1, <2>2 DEF DispatchedInv, TypesInv
  <2>4. \A id \in 1..Len(dispatched) : id \in held <=> Pending(id)'
    BY <1>1, <1>2, <1>14, <2>2 DEF DispatchedInv, TypesInv
  <2> QED
    BY <1>1, <1>2, <1>11, <2>3, <2>4 DEF DispatchedInv, HandledInOrder
<1>16. BatchedInv'
  BY <1>1, <1>2, <1>11 DEF BatchedInv
<1> QED
  BY <1>8, <1>9, <1>10, <1>12, <1>13, <1>15, <1>16 DEF WorkLedgerInv

\* An event that is accepted is the next in the log; the last tells what the mutation changed.
LEMMA PublishKeeps ==
  ASSUME WorkLedgerInv, Publish
  PROVE  WorkLedgerInv'
<1> DEFINE e == events[sending]
<1>1. TypesInv /\ NumberedInv /\ StagedInv /\ LoggedInv /\ LaggingInv /\ DispatchedInv /\ BatchedInv
  BY DEF WorkLedgerInv
<1>2. /\ sending \in 1..Len(events) /\ sending' = sending + 1 /\ log' = Append(log, e)
      /\ UNCHANGED <<store, events, visible, failure, ready, minted, dispatch, batch, attempted,
                     dispatched, held>>
  BY DEF Publish, dispatchVars
<1>3. e \in Event /\ Len(events) \in Nat /\ Len(log) \in Nat /\ sending # 0
  BY <1>1, <1>2 DEF TypesInv
<1>4. ~failure /\ visible < sending /\ visible < Len(events)
  BY <1>1, <1>3 DEF StagedInv
<1>5. log' \in Seq(Event) /\ Len(log') = Len(log) + 1 /\ log'[Len(log) + 1] = e
      /\ \A i \in 1..Len(log) : log'[i] = log[i]
  BY <1>1, <1>2, <1>3 DEF TypesInv
<1>6. e.id = Len(log) + 1
  <2>1. e.id = minted - (Len(events) - sending)
    BY <1>1, <1>2, <1>4 DEF NumberedInv, TypesInv
  <2> QED
    BY <1>1, <1>2, <1>3, <2>1 DEF LoggedInv, TypesInv
<1>7. TypesInv'
  BY <1>1, <1>2, <1>5 DEF TypesInv
<1>8. NumberedInv' /\ StagedInv'
  BY <1>1, <1>2, <1>3, <1>4 DEF NumberedInv, StagedInv, TypesInv
<1>9. Published' = Published
  BY <1>2 DEF Published
<1>10. LoggedInv'
  <2>1. \A i \in 1..Len(log') : log'[i].id = i
    BY <1>1, <1>3, <1>5, <1>6 DEF LoggedInv
  <2>2. Len(log') = minted' - (Len(events') + 1 - sending')
    <3>1. Len(log) = minted - (Len(events) + 1 - sending)
      BY <1>1, <1>3 DEF LoggedInv
    <3>2. minted \in Int /\ sending \in Int
      BY <1>1 DEF TypesInv
    <3> QED
      BY <1>2, <1>3, <1>5, <3>1, <3>2
  <2>3. Published' <= Len(log')
    BY <1>1, <1>3, <1>5, <1>9 DEF LoggedInv, Published, TypesInv
  <2> QED
    BY <1>2, <1>3, <2>1, <2>2, <2>3 DEF LoggedInv
<1>11. LaggingInv'
  <2>1. \A r \in Record : Replayed(log', r) = IF r \in DOMAIN e.change THEN e.change[r]
                                              ELSE Replayed(log, r)
    BY <1>1, <1>2, <1>3, ReplayGrows DEF TypesInv
  <2>2. CASE sending = Len(events)
    <3>1. e.change = Tells
      BY <2>2 DEF Tells
    <3>2. \A r \in Record : Replayed(log', r) = store[r]
      BY <1>1, <1>3, <2>1, <2>2, <3>1 DEF LaggingInv
    <3> QED
      BY <1>2, <1>3, <2>2, <3>2 DEF LaggingInv, TypesInv
  <2>3. CASE sending < Len(events)
    <3>1. e.change = Nothing
      BY <1>1, <1>2, <1>3, <1>4, <2>3 DEF LaggingInv, TypesInv
    <3>2. \A r \in Record : Replayed(log', r) = Replayed(log, r)
      BY <2>1, <3>1 DEF Nothing
    <3>3. Tells' = Tells
      BY <1>2 DEF Tells
    <3> QED
      BY <1>1, <1>2, <1>3, <2>3, <3>2, <3>3 DEF LaggingInv
  <2> QED
    BY <1>2, <1>3, <2>2, <2>3
<1>12. DispatchedInv' /\ BatchedInv'
  BY <1>1, <1>2, <1>9 DEF DispatchedInv, BatchedInv, HandledInOrder, Pending
<1> QED
  BY <1>7, <1>8, <1>10, <1>11, <1>12 DEF WorkLedgerInv

LEMMA PublishFailsKeeps ==
  ASSUME WorkLedgerInv, PublishFails
  PROVE  WorkLedgerInv'
<1>1. TypesInv /\ NumberedInv /\ StagedInv /\ LoggedInv /\ LaggingInv /\ DispatchedInv /\ BatchedInv
  BY DEF WorkLedgerInv
<1>2. /\ sending' = 0 /\ failure' = TRUE
      /\ UNCHANGED <<store, events, visible, ready, minted, log, dispatch, batch, attempted,
                     dispatched, held>>
  BY DEF PublishFails, dispatchVars
<1>3. Published' = Published
  BY <1>2 DEF Published
<1>4. TypesInv' /\ NumberedInv' /\ StagedInv'
  BY <1>1, <1>2 DEF TypesInv, NumberedInv, StagedInv
<1>5. LoggedInv' /\ LaggingInv'
  BY <1>1, <1>2, <1>3 DEF LoggedInv, LaggingInv, TypesInv
<1>6. DispatchedInv' /\ BatchedInv'
  BY <1>1, <1>2, <1>3 DEF DispatchedInv, BatchedInv, HandledInOrder, Pending
<1> QED
  BY <1>4, <1>5, <1>6 DEF WorkLedgerInv

LEMMA EndMutationKeeps ==
  ASSUME WorkLedgerInv, EndMutation
  PROVE  WorkLedgerInv'
<1>1. TypesInv /\ NumberedInv /\ StagedInv /\ LoggedInv /\ LaggingInv /\ DispatchedInv /\ BatchedInv
  BY DEF WorkLedgerInv
<1>2. /\ sending > Len(events) /\ sending' = 0 /\ visible' = Len(events) /\ ready' = TRUE
      /\ UNCHANGED <<store, events, failure, minted, log, dispatch, batch, attempted,
                     dispatched, held>>
  BY DEF EndMutation, dispatchVars
<1>3. Len(events) \in Nat /\ sending = Len(events) + 1 /\ ~failure
  <2>1. Len(events) \in Nat /\ sending \in Nat
    BY <1>1 DEF TypesInv
  <2>2. sending # 0
    BY <1>2, <2>1
  <2> QED
    BY <1>1, <1>2, <2>1, <2>2 DEF StagedInv
<1>4. Published' = minted /\ Published <= minted /\ Published \in Int
  BY <1>1, <1>2, <1>3 DEF Published, TypesInv
<1>5. Len(log) = minted
  BY <1>1, <1>3 DEF LoggedInv, TypesInv
<1>6. TypesInv' /\ NumberedInv' /\ StagedInv'
  BY <1>1, <1>2, <1>3 DEF TypesInv, NumberedInv, StagedInv
<1>7. LoggedInv'
  BY <1>1, <1>2, <1>4, <1>5 DEF LoggedInv, TypesInv
<1>8. LaggingInv'
  BY <1>1, <1>2, <1>3 DEF LaggingInv
<1>9. DispatchedInv'
  <2>1. \A id : Pending(id)' <=> Pending(id)
    BY <1>2 DEF Pending
  <2>2. Len(dispatched) \in Nat /\ minted \in Nat
    BY <1>1 DEF TypesInv
  <2>3. Len(dispatched) <= minted
    BY <1>1, <1>4, <2>2 DEF DispatchedInv
  <2> QED
    BY <1>1, <1>2, <1>4, <2>1, <2>3 DEF DispatchedInv, HandledInOrder
<1>10. BatchedInv'
  BY <1>1, <1>2, <1>4 DEF BatchedInv, TypesInv
<1> QED
  BY <1>6, <1>7, <1>8, <1>9, <1>10 DEF WorkLedgerInv

\* Dropping an event the dispatcher may see changes nothing but that it is pending.
LEMMA DroppingKeeps ==
  ASSUME WorkLedgerInv, NEW id \in 1..Published, Pending(id), Acknowledged(id),
         UNCHANGED <<store, failure, minted, log, sending>>
  PROVE  /\ events' \in Seq(Event) /\ visible' \in Nat /\ visible' <= Len(events')
         /\ NumberedInv' /\ StagedInv' /\ LoggedInv' /\ LaggingInv'
         /\ Published' = Published
         /\ \A other : Pending(other)' <=> Pending(other) /\ other # id
<1> DEFINE l == Len(events)
<1>1. TypesInv /\ NumberedInv /\ StagedInv /\ LoggedInv /\ LaggingInv
  BY DEF WorkLedgerInv
<1>2. PICK k \in 1..l : events[k].id = id
  BY DEF Pending
<1>3. l \in Nat /\ k <= visible /\ k \in Nat
  <2>1. k > visible => events[k].id = minted - (l - k)
    <3>1. k > visible => k \in visible + 1..l
      BY <1>1 DEF TypesInv
    <3> QED
      BY <1>1, <3>1 DEF NumberedInv
  <2> QED
    BY <1>1, <1>2, <2>1 DEF Published, TypesInv
<1>4. /\ sending = 0
      /\ events' \in Seq(Event) /\ Len(events') = l - 1
      /\ \A i \in 1..l - 1 : events'[i] = IF i < k THEN events[i] ELSE events[i + 1]
      /\ visible' = visible - 1
  BY <1>1, <1>2, <1>3, AcknowledgedDrops
<1>5. visible' \in Nat /\ visible' <= Len(events')
  BY <1>1, <1>3, <1>4 DEF TypesInv
<1>6. NumberedInv'
  <2>1. \A i \in 1..Len(events') : events'[i].id \in 1..minted'
    BY <1>1, <1>3, <1>4 DEF NumberedInv
  <2>2. ASSUME NEW i \in 1..Len(events'), NEW j \in 1..Len(events'), i < j
        PROVE  events'[i].id < events'[j].id
    <3> DEFINE at(x) == IF x < k THEN x ELSE x + 1
    <3>1. at(i) \in 1..l /\ at(j) \in 1..l /\ at(i) < at(j)
      BY <1>3, <1>4, <2>2
    <3>2. events'[i] = events[at(i)] /\ events'[j] = events[at(j)]
      BY <1>3, <1>4
    <3> HIDE DEF at
    <3> QED
      BY <1>1, <3>1, <3>2 DEF NumberedInv
  <2>3. \A i \in visible' + 1..Len(events') : events'[i].id = minted' - (Len(events') - i)
    <3>1. ASSUME NEW i \in visible' + 1..Len(events')
          PROVE  events'[i] = events[i + 1] /\ i + 1 \in visible + 1..l
      BY <1>1, <1>3, <1>4 DEF TypesInv
    <3>2. ASSUME NEW i \in visible' + 1..Len(events')
          PROVE  events'[i].id = minted - (l - (i + 1))
      BY <1>1, <3>1 DEF NumberedInv
    <3> QED
      BY <1>1, <1>3, <1>4, <3>2 DEF TypesInv
  <2> QED
    BY <2>1, <2>2, <2>3 DEF NumberedInv
<1>7. StagedInv'
  BY <1>1, <1>3, <1>4 DEF StagedInv, TypesInv
<1>8. Published' = Published
  BY <1>1, <1>3, <1>4 DEF Published, TypesInv
<1>9. LoggedInv'
  BY <1>1, <1>4, <1>8 DEF LoggedInv
<1>10. LaggingInv'
  <2>1. sending' # Len(events') + 1
    BY <1>1, <1>3, <1>4
  <2> QED
    BY <1>1, <1>4, <2>1 DEF LaggingInv
<1>11. ASSUME NEW other PROVE Pending(other)' <=> Pending(other) /\ other # id
  <2>1. ASSUME NEW i \in 1..Len(events'), events'[i].id = other
        PROVE  Pending(other) /\ other # id
    <3>1. CASE i < k
      BY <1>1, <1>2, <1>3, <1>4, <2>1, <3>1 DEF NumberedInv, Pending
    <3>2. CASE i >= k
      <4>1. i + 1 \in 1..l /\ events[i + 1].id = other /\ k < i + 1
        BY <1>3, <1>4, <2>1, <3>2
      <4>2. events[k].id < events[i + 1].id /\ events[k].id \in Int
        BY <1>1, <1>2, <4>1 DEF NumberedInv, TypesInv
      <4> QED
        BY <1>2, <4>1, <4>2 DEF Pending
    <3> QED
      BY <1>3, <1>4, <3>1, <3>2
  <2>2. ASSUME NEW i \in 1..l, events[i].id = other, other # id PROVE Pending(other)'
    <3>1. i # k
      BY <1>2, <2>2
    <3>2. CASE i < k
      <4>1. i \in 1..Len(events') /\ events'[i] = events[i]
        BY <1>2, <1>3, <1>4, <3>2
      <4> QED
        BY <2>2, <4>1 DEF Pending
    <3>3. CASE i > k
      <4>1. i - 1 \in 1..Len(events') /\ events'[i - 1] = events[i]
        BY <1>2, <1>3, <1>4, <3>3
      <4> QED
        BY <2>2, <4>1 DEF Pending
    <3> QED
      BY <1>3, <3>1, <3>2, <3>3
  <2> QED
    BY <2>1, <2>2 DEF Pending
<1> QED
  BY <1>4, <1>5, <1>6, <1>7, <1>8, <1>9, <1>10, <1>11

\* The dispatcher's id of an event it holds is one it handled, of an event still pending.
LEMMA HeldArePending ==
  ASSUME WorkLedgerInv, NEW id \in held
  PROVE  id \in 1..Len(dispatched) /\ id \in 1..Published /\ Pending(id)
<1>1. id \in 1..Len(dispatched) /\ Pending(id)
  BY DEF WorkLedgerInv, TypesInv, DispatchedInv
<1>2. Published \in Int /\ Len(dispatched) \in Nat /\ Len(dispatched) <= Published
  BY DEF WorkLedgerInv, TypesInv, DispatchedInv, Published
<1> QED
  BY <1>1, <1>2

\* The next event of the batch was handled before, or is the first that was not.
LEMMA NextOfBatch ==
  ASSUME WorkLedgerInv, batch # <<>>, ~Attempted(Head(batch).id)
  PROVE  /\ Head(batch).id = Len(dispatched) + 1
         /\ Head(batch).id \in 1..Published
         /\ Pending(Head(batch).id)
<1> DEFINE id == Head(batch).id
           d == Len(dispatched)
<1>1. TypesInv /\ NumberedInv /\ DispatchedInv /\ BatchedInv
  BY DEF WorkLedgerInv
<1>2. batch \in Seq(Event) /\ Len(batch) \in Nat /\ 1 \in 1..Len(batch) /\ batch[1].id = id
      /\ d \in Nat
  BY <1>1 DEF TypesInv
<1>3. id \in 1..Published
  BY <1>1, <1>2 DEF BatchedInv
<1>4. d < id
  BY <1>1, <1>2, <1>3 DEF BatchedInv, Attempted
<1>5. id = d + 1
  <2>1. d + 1 \in d + 1..id
    BY <1>2, <1>3, <1>4
  <2>2. PICK j \in 1..Len(batch) : batch[j].id = d + 1
    BY <1>1, <1>2, <2>1 DEF BatchedInv
  <2>3. j # 1 => id < d + 1
    BY <1>1, <1>2, <2>2 DEF BatchedInv
  <2> QED
    BY <1>2, <1>3, <1>4, <2>2, <2>3
<1>6. Published <= minted /\ Published \in Int /\ minted \in Nat
  BY <1>1 DEF TypesInv, Published
<1>7. Pending(id)
  <2>1. id \in d + 1..minted
    BY <1>2, <1>3, <1>5, <1>6
  <2> QED
    BY <1>1, <2>1 DEF DispatchedInv
<1> QED
  BY <1>3, <1>5, <1>7

\* What follows the head of a batch is in order as well, and what was next has become handled.
LEMMA BatchShrinks ==
  ASSUME WorkLedgerInv, batch # <<>>, batch' = Tail(batch), Published' = Published,
         dispatch' = dispatch, dispatch = "handling", dispatched' \in Seq(Nat),
         \/ /\ Len(dispatched') = Len(dispatched) /\ attempted' = attempted
            /\ Attempted(Head(batch).id)
         \/ /\ Len(dispatched') = Len(dispatched) + 1 /\ Head(batch).id = Len(dispatched) + 1
            /\ attempted \subseteq attempted'
  PROVE  batch' \in Seq(Event) /\ BatchedInv'
<1> DEFINE d == Len(dispatched)
           n == Len(batch)
<1>1. TypesInv /\ BatchedInv
  BY DEF WorkLedgerInv
<1>2. /\ batch \in Seq(Event) /\ n \in Nat /\ n > 0 /\ d \in Nat
      /\ batch' \in Seq(Event) /\ Len(batch') = n - 1
      /\ \A i \in 1..n - 1 : batch'[i] = batch[i + 1]
      /\ Head(batch) = batch[1]
  BY <1>1 DEF TypesInv
<1>3. \A i \in 1..Len(batch') : i + 1 \in 1..n /\ batch'[i] = batch[i + 1]
  BY <1>2
<1>4. \A i \in 1..Len(batch') : batch'[i].id \in 1..Published'
  BY <1>1, <1>3 DEF BatchedInv
<1>5. \A i, j \in 1..Len(batch') : i < j => batch'[i].id < batch'[j].id
  <2>1. ASSUME NEW i \in 1..Len(batch'), NEW j \in 1..Len(batch'), i < j
        PROVE  batch'[i].id < batch'[j].id
    <3>1. i + 1 < j + 1
      BY <1>2, <2>1
    <3> QED
      BY <1>1, <1>3, <3>1 DEF BatchedInv
  <2> QED
    BY <2>1
<1>6. ASSUME NEW i \in 1..Len(batch') PROVE batch[1].id < batch[i + 1].id
  <2>1. 1 \in 1..n /\ 1 < i + 1
    BY <1>2
  <2> QED
    BY <1>1, <1>3, <2>1 DEF BatchedInv
<1>7. ASSUME NEW i \in 1..Len(batch'), batch'[i].id <= Len(dispatched')
      PROVE  batch'[i].id \in attempted'
  <2>1. batch[i + 1].id <= d
    <3>1. batch[i + 1].id \in Int /\ batch[1].id \in Int /\ batch[1].id < batch[i + 1].id
      BY <1>1, <1>2, <1>3, <1>6 DEF BatchedInv
    <3> QED
      BY <1>2, <1>3, <1>7, <3>1
  <2> QED
    BY <1>1, <1>3, <2>1 DEF BatchedInv
<1>8. ASSUME NEW i \in 1..Len(batch'), NEW id \in Len(dispatched') + 1..batch'[i].id
      PROVE  \E j \in 1..Len(batch') : batch'[j].id = id
  <2>1. batch'[i].id = batch[i + 1].id /\ id \in d + 1..batch[i + 1].id
    BY <1>2, <1>3
  <2>2. PICK j \in 1..n : batch[j].id = id
    BY <1>1, <1>3, <2>1 DEF BatchedInv
  <2>3. j # 1
    <3>1. batch[1].id \in Int /\ batch[1].id <= Len(dispatched') /\ Len(dispatched') \in Int
      <4>1. attempted \subseteq 1..d
        BY DEF WorkLedgerInv, DispatchedInv
      <4> QED
        BY <1>1, <1>2, <4>1 DEF Attempted, BatchedInv
    <3> QED
      BY <2>2, <3>1
  <2>4. j - 1 \in 1..Len(batch') /\ batch'[j - 1] = batch[j]
    BY <1>2, <2>2, <2>3
  <2> QED
    BY <2>2, <2>4
<1> QED
  BY <1>2, <1>4, <1>5, <1>7, <1>8 DEF BatchedInv

LEMMA HandleAndAcknowledgeKeeps ==
  ASSUME WorkLedgerInv, HandleAndAcknowledge
  PROVE  WorkLedgerInv'
<1> DEFINE id == Head(batch).id
           d == Len(dispatched)
<1>1. TypesInv /\ DispatchedInv /\ BatchedInv
  BY DEF WorkLedgerInv
<1>2. /\ dispatch = "handling" /\ batch # <<>> /\ ~Attempted(id) /\ Acknowledged(id)
      /\ dispatched' = Append(dispatched, id) /\ batch' = Tail(batch)
      /\ UNCHANGED <<store, failure, ready, sending, minted, log, dispatch, attempted, held>>
  BY DEF HandleAndAcknowledge
<1>3. id = d + 1 /\ id \in 1..Published /\ Pending(id) /\ d \in Nat
  BY <1>1, <1>2, NextOfBatch DEF TypesInv
<1> HIDE DEF id
<1>4. /\ events' \in Seq(Event) /\ visible' \in Nat /\ visible' <= Len(events')
      /\ NumberedInv' /\ StagedInv' /\ LoggedInv' /\ LaggingInv'
      /\ Published' = Published
      /\ \A other : Pending(other)' <=> Pending(other) /\ other # id
  BY <1>2, <1>3, DroppingKeeps
<1>5. /\ dispatched' \in Seq(Nat) /\ Len(dispatched') = d + 1 /\ dispatched'[d + 1] = id
      /\ \A i \in 1..d : dispatched'[i] = dispatched[i]
  BY <1>1, <1>2, <1>3 DEF TypesInv
<1>6. batch' \in Seq(Event) /\ BatchedInv'
  BY <1>2, <1>3, <1>4, <1>5, BatchShrinks DEF id
<1>7. TypesInv'
  BY <1>1, <1>2, <1>4, <1>5, <1>6 DEF TypesInv
<1>8. DispatchedInv'
  <2>1. ASSUME NEW i \in 1..d + 1 PROVE dispatched'[i] = i
    <3>1. CASE i = d + 1
      BY <1>3, <1>5, <3>1
    <3>2. CASE i # d + 1
      <4>1. i \in 1..d /\ i \in DOMAIN dispatched
        BY <1>1, <1>3, <3>2 DEF TypesInv
      <4> QED
        BY <1>1, <1>5, <4>1 DEF DispatchedInv, HandledInOrder
    <3> QED
      BY <3>1, <3>2
  <2>0. HandledInOrder'
    <3>1. DOMAIN dispatched' = 1..d + 1
      BY <1>3, <1>5
    <3> QED
      BY <2>1, <3>1 DEF HandledInOrder
  <2>2. Len(dispatched') <= Published'
    BY <1>3, <1>4, <1>5
  <2>3. attempted' \subseteq 1..Len(dispatched')
    BY <1>1, <1>2, <1>3, <1>5 DEF DispatchedInv
  <2>4. ASSUME NEW other \in 1..Len(dispatched') PROVE other \in held' <=> Pending(other)'
    <3>1. CASE other = id
      BY <1>1, <1>2, <1>3, <1>4, <3>1 DEF DispatchedInv, TypesInv
    <3>2. CASE other # id
      BY <1>1, <1>2, <1>3, <1>4, <1>5, <3>2 DEF DispatchedInv
    <3> QED
      BY <3>1, <3>2
  <2>5. \A other \in Len(dispatched') + 1..minted' : Pending(other)'
    BY <1>1, <1>2, <1>3, <1>4, <1>5 DEF DispatchedInv
  <2> QED
    BY <2>0, <2>2, <2>3, <2>4, <2>5 DEF DispatchedInv
<1> QED
  BY <1>4, <1>6, <1>7, <1>8 DEF WorkLedgerInv

LEMMA HandleAndHoldKeeps ==
  ASSUME WorkLedgerInv, HandleAndHold
  PROVE  WorkLedgerInv'
<1> DEFINE id == Head(batch).id
           d == Len(dispatched)
<1>1. TypesInv /\ NumberedInv /\ StagedInv /\ LoggedInv /\ LaggingInv /\ DispatchedInv /\ BatchedInv
  BY DEF WorkLedgerInv
<1>2. /\ dispatch = "handling" /\ batch # <<>> /\ ~Attempted(id)
      /\ dispatched' = Append(dispatched, id) /\ batch' = Tail(batch)
      /\ attempted' = attempted \cup {id} /\ held' = held \cup {id}
      /\ UNCHANGED <<store, events, visible, failure, sending, minted, log, ready, dispatch>>
  BY DEF HandleAndHold, storeVars
<1>3. id = d + 1 /\ id \in 1..Published /\ Pending(id) /\ d \in Nat
  BY <1>1, <1>2, NextOfBatch DEF TypesInv
<1>4. /\ Published' = Published /\ Tells' = Tells
      /\ \A other : Pending(other)' <=> Pending(other)
  BY <1>2 DEF Published, Pending, Tells
<1>5. /\ dispatched' \in Seq(Nat) /\ Len(dispatched') = d + 1 /\ dispatched'[d + 1] = id
      /\ \A i \in 1..d : dispatched'[i] = dispatched[i]
  BY <1>1, <1>2, <1>3 DEF TypesInv
<1>6. batch' \in Seq(Event) /\ BatchedInv'
  BY <1>2, <1>3, <1>4, <1>5, BatchShrinks
<1>7. TypesInv'
  BY <1>1, <1>2, <1>5, <1>6 DEF TypesInv
<1>8. NumberedInv' /\ StagedInv' /\ LoggedInv'
  BY <1>1, <1>2, <1>4 DEF NumberedInv, StagedInv, LoggedInv
<1>9. LaggingInv'
  BY <1>1, <1>2, <1>4 DEF LaggingInv
<1> HIDE DEF id
<1>10. DispatchedInv'
  <2>1. ASSUME NEW i \in 1..d + 1 PROVE dispatched'[i] = i
    <3>1. CASE i = d + 1
      BY <1>3, <1>5, <3>1
    <3>2. CASE i # d + 1
      <4>1. i \in 1..d /\ i \in DOMAIN dispatched
        BY <1>1, <1>3, <3>2 DEF TypesInv
      <4> QED
        BY <1>1, <1>5, <4>1 DEF DispatchedInv, HandledInOrder
    <3> QED
      BY <3>1, <3>2
  <2>0. HandledInOrder'
    <3>1. DOMAIN dispatched' = 1..d + 1
      BY <1>3, <1>5
    <3> QED
      BY <2>1, <3>1 DEF HandledInOrder
  <2>2. Len(dispatched') <= Published'
    BY <1>3, <1>4, <1>5
  <2>3. attempted' \subseteq 1..Len(dispatched')
    <3>1. attempted \subseteq 1..d
      BY <1>1 DEF DispatchedInv
    <3>2. 1..d \subseteq 1..d + 1 /\ id \in 1..d + 1
      BY <1>3
    <3>3. attempted' = attempted \cup {id}
      BY <1>2 DEF id
    <3> QED
      BY <1>5, <3>1, <3>2, <3>3
  <2>4. ASSUME NEW other \in 1..Len(dispatched') PROVE other \in held' <=> Pending(other)'
    <3>1. CASE other = id
      BY <1>2, <1>3, <1>4, <3>1
    <3>2. CASE other # id
      BY <1>1, <1>2, <1>3, <1>4, <1>5, <3>2 DEF DispatchedInv
    <3> QED
      BY <3>1, <3>2
  <2>5. \A other \in Len(dispatched') + 1..minted' : Pending(other)'
    BY <1>1, <1>2, <1>3, <1>4, <1>5 DEF DispatchedInv
  <2> QED
    BY <2>0, <2>2, <2>3, <2>4, <2>5 DEF DispatchedInv
<1> QED
  BY <1>6, <1>7, <1>8, <1>9, <1>10 DEF WorkLedgerInv

\* What the dispatcher does to itself alone.
LEMMA StoreStays ==
  ASSUME WorkLedgerInv, UNCHANGED storeVars
  PROVE  /\ NumberedInv' /\ StagedInv' /\ LoggedInv' /\ LaggingInv'
         /\ Published' = Published /\ \A id : Pending(id)' <=> Pending(id)
<1>1. NumberedInv /\ StagedInv /\ LoggedInv /\ LaggingInv
  BY DEF WorkLedgerInv
<1>2. UNCHANGED <<store, events, visible, failure, sending, minted, log>>
  BY DEF storeVars
<1>3. Published' = Published /\ Tells' = Tells /\ \A id : Pending(id)' <=> Pending(id)
  BY <1>2 DEF Published, Pending, Tells
<1>4. NumberedInv' /\ StagedInv' /\ LoggedInv'
  BY <1>1, <1>2, <1>3 DEF NumberedInv, StagedInv, LoggedInv
<1>5. LaggingInv'
  BY <1>1, <1>2, <1>3 DEF LaggingInv
<1> QED
  BY <1>3, <1>4, <1>5

LEMMA SkipKeeps ==
  ASSUME WorkLedgerInv, Skip
  PROVE  WorkLedgerInv'
<1>1. TypesInv /\ DispatchedInv
  BY DEF WorkLedgerInv
<1>2. /\ dispatch = "handling" /\ batch # <<>> /\ Attempted(Head(batch).id) /\ batch' = Tail(batch)
      /\ UNCHANGED <<storeVars, ready, dispatch, attempted, dispatched, held>>
  BY DEF Skip
<1>3. NumberedInv' /\ StagedInv' /\ LoggedInv' /\ LaggingInv' /\ Published' = Published
      /\ \A id : Pending(id)' <=> Pending(id)
  BY <1>2, StoreStays
<1>4. dispatched' \in Seq(Nat)
  BY <1>1, <1>2 DEF TypesInv
<1>5. batch' \in Seq(Event) /\ BatchedInv'
  BY <1>2, <1>3, <1>4, BatchShrinks
<1>6. TypesInv'
  BY <1>1, <1>2, <1>5 DEF TypesInv, storeVars
<1>7. DispatchedInv'
  BY <1>1, <1>2, <1>3 DEF DispatchedInv, HandledInOrder, storeVars
<1> QED
  BY <1>3, <1>5, <1>6, <1>7 DEF WorkLedgerInv

\* The dispatcher wakes, or has handled all it read.
LEMMA TurnKeeps ==
  ASSUME WorkLedgerInv, Wake \/ Tick \/ Drained
  PROVE  WorkLedgerInv'
<1>1. TypesInv /\ DispatchedInv /\ BatchedInv
  BY DEF WorkLedgerInv
<1>2. /\ ready' \in BOOLEAN /\ dispatch' \in {"waiting", "reading"} /\ batch = <<>>
      /\ UNCHANGED <<storeVars, batch, attempted, dispatched, held>>
  BY <1>1 DEF Wake, Tick, Drained, TypesInv, BatchedInv
<1>3. NumberedInv' /\ StagedInv' /\ LoggedInv' /\ LaggingInv' /\ Published' = Published
      /\ \A id : Pending(id)' <=> Pending(id)
  BY <1>2, StoreStays
<1>4. TypesInv'
  BY <1>1, <1>2 DEF TypesInv, storeVars
<1>5. DispatchedInv'
  BY <1>1, <1>2, <1>3 DEF DispatchedInv, HandledInOrder, storeVars
<1>6. BatchedInv'
  BY <1>2 DEF BatchedInv
<1> QED
  BY <1>3, <1>4, <1>5, <1>6 DEF WorkLedgerInv

\* What is read is all that is visible.
LEMMA ReadPendingKeeps ==
  ASSUME WorkLedgerInv, ReadPending
  PROVE  WorkLedgerInv'
<1> DEFINE d == Len(dispatched)
           l == Len(events)
<1>1. TypesInv /\ NumberedInv /\ DispatchedInv
  BY DEF WorkLedgerInv
<1>2. /\ batch' = SubSeq(events, 1, visible) /\ dispatch' = "handling"
      /\ UNCHANGED <<storeVars, ready, attempted, dispatched, held>>
  BY DEF ReadPending, PendingEvents
<1>3. NumberedInv' /\ StagedInv' /\ LoggedInv' /\ LaggingInv' /\ Published' = Published
      /\ \A id : Pending(id)' <=> Pending(id)
  BY <1>2, StoreStays
<1>4. /\ visible \in Nat /\ l \in Nat /\ visible <= l /\ d \in Nat /\ minted \in Nat
      /\ batch' \in Seq(Event) /\ Len(batch') = visible
      /\ \A i \in 1..visible : i \in 1..l /\ batch'[i] = events[i]
  BY <1>1, <1>2 DEF TypesInv
<1>5. TypesInv'
  BY <1>1, <1>2, <1>4 DEF TypesInv, storeVars
<1>6. DispatchedInv'
  BY <1>1, <1>2, <1>3 DEF DispatchedInv, HandledInOrder, storeVars
<1>7. \A i \in 1..visible : events[i].id \in 1..Published
  <2>1. ASSUME NEW i \in 1..visible PROVE events[i].id <= minted - (l - visible)
    <3>1. events[i].id \in 1..minted
      BY <1>1, <1>4 DEF NumberedInv
    <3>2. CASE visible = l
      BY <1>4, <3>1, <3>2
    <3>3. CASE visible < l
      <4>1. events[visible + 1].id = minted - (l - (visible + 1))
        BY <1>1, <1>4, <3>3 DEF NumberedInv
      <4>2. events[i].id < events[visible + 1].id
        BY <1>1, <1>4, <3>3 DEF NumberedInv
      <4> QED
        BY <1>4, <3>1, <4>1, <4>2
    <3> QED
      BY <1>4, <3>2, <3>3
  <2> QED
    BY <1>1, <1>4, <2>1 DEF NumberedInv, Published
<1>8. BatchedInv'
  <2>1. \A i \in 1..Len(batch') : batch'[i].id \in 1..Published'
    BY <1>3, <1>4, <1>7
  <2>2. \A i, j \in 1..Len(batch') : i < j => batch'[i].id < batch'[j].id
    BY <1>1, <1>4 DEF NumberedInv
  <2>3. ASSUME NEW i \in 1..Len(batch'), batch'[i].id <= Len(dispatched')
        PROVE  batch'[i].id \in attempted'
    <3>1. Pending(batch'[i].id)
      BY <1>4 DEF Pending
    <3>2. batch'[i].id \in 1..d
      BY <1>1, <1>2, <1>4, <2>3 DEF NumberedInv
    <3>3. batch'[i].id \in held
      BY <1>1, <3>1, <3>2 DEF DispatchedInv
    <3> QED
      BY <1>1, <1>2, <3>3 DEF TypesInv
  <2>4. ASSUME NEW i \in 1..Len(batch'), NEW id \in Len(dispatched') + 1..batch'[i].id
        PROVE  \E j \in 1..Len(batch') : batch'[j].id = id
    <3>1. events[i].id \in 1..minted /\ batch'[i] = events[i] /\ i \in 1..l
      BY <1>1, <1>4 DEF NumberedInv
    <3>2. id \in d + 1..minted
      BY <1>2, <1>4, <3>1
    <3>3. PICK j \in 1..l : events[j].id = id
      BY <1>1, <3>2 DEF DispatchedInv, Pending
    <3>4. j <= i
      BY <1>1, <3>1, <3>3 DEF NumberedInv
    <3>5. j \in 1..Len(batch') /\ batch'[j] = events[j]
      BY <1>4, <3>4
    <3> QED
      BY <3>3, <3>5
  <2> QED
    BY <1>2, <2>1, <2>2, <2>3, <2>4 DEF BatchedInv
<1> QED
  BY <1>3, <1>5, <1>6, <1>8 DEF WorkLedgerInv

\* An owner has read of an event, or its notice is retired: it is dropped, and, once the loop
\* takes the receipt, forgotten.
LEMMA OwnerKeeps ==
  ASSUME WorkLedgerInv, NEW id \in held, Consumed(id) \/ Retire(id)
  PROVE  WorkLedgerInv'
<1>1. TypesInv /\ DispatchedInv /\ BatchedInv
  BY DEF WorkLedgerInv
<1>2. /\ Acknowledged(id) /\ held' = held \ {id}
      /\ UNCHANGED <<store, failure, ready, sending, minted, log, dispatch, batch, dispatched>>
      /\ \/ attempted' = attempted
         \/ attempted' = attempted \ {id} /\ batch = <<>>
  BY <1>1 DEF Consumed, Retire, BatchedInv
<1>3. id \in 1..Len(dispatched) /\ id \in 1..Published /\ Pending(id)
  BY HeldArePending
<1>4. /\ events' \in Seq(Event) /\ visible' \in Nat /\ visible' <= Len(events')
      /\ NumberedInv' /\ StagedInv' /\ LoggedInv' /\ LaggingInv'
      /\ Published' = Published
      /\ \A other : Pending(other)' <=> Pending(other) /\ other # id
  BY <1>2, <1>3, DroppingKeeps
<1>5. TypesInv'
  <2>1. held' \subseteq attempted'
    BY <1>1, <1>2 DEF TypesInv
  <2> QED
    BY <1>1, <1>2, <1>4, <2>1 DEF TypesInv
<1>6. DispatchedInv'
  <2>1. attempted' \subseteq attempted /\ Len(dispatched) \in Nat
    BY <1>1, <1>2 DEF TypesInv
  <2>2. \A other \in 1..Len(dispatched) : other \in held' <=> Pending(other)'
    BY <1>1, <1>2, <1>4 DEF DispatchedInv
  <2>3. \A other \in Len(dispatched) + 1..minted : Pending(other)'
    BY <1>1, <1>3, <1>4, <2>1 DEF DispatchedInv
  <2> QED
    BY <1>1, <1>2, <1>4, <2>1, <2>2, <2>3 DEF DispatchedInv, HandledInOrder
<1>7. BatchedInv'
  <2>1. CASE attempted' = attempted
    BY <1>1, <1>2, <1>4, <2>1 DEF BatchedInv
  <2>2. CASE batch = <<>>
    BY <1>1, <1>2, <2>2 DEF BatchedInv
  <2> QED
    BY <1>2, <2>1, <2>2
<1> QED
  BY <1>4, <1>5, <1>6, <1>7 DEF WorkLedgerInv

\* Every step keeps the invariant.
THEOREM WorkLedgerStep == WorkLedgerInv /\ [Next]_vars => WorkLedgerInv'
<1> SUFFICES ASSUME WorkLedgerInv, [Next]_vars PROVE WorkLedgerInv'
  OBVIOUS
<1>1. CASE Mutation
  <2>1. ASSUME NEW changed \in (SUBSET Record) \ {{}}, NEW n \in 1..MaxEvents,
               NEW owned \in SUBSET (1..n), Mutate(changed, n, owned)
        PROVE  WorkLedgerInv'
    <3>1. changed \in SUBSET Record /\ changed # {} /\ n \in Nat /\ n > 0
      OBVIOUS
    <3> QED
      BY <2>1, <3>1, MutateKeeps
  <2> QED
    BY <1>1, <2>1, PublishKeeps, PublishFailsKeeps, EndMutationKeeps DEF Mutation
<1>2. CASE Dispatching
  BY <1>2, TurnKeeps, ReadPendingKeeps, HandleAndAcknowledgeKeeps, HandleAndHoldKeeps, SkipKeeps
     DEF Dispatching
<1>3. CASE Tick
  BY <1>3, TurnKeeps
<1>4. ASSUME NEW id \in held, Consumed(id) \/ Retire(id) PROVE WorkLedgerInv'
  BY <1>4, OwnerKeeps
<1>5. CASE UNCHANGED vars
  <2>1. UNCHANGED storeVars /\ UNCHANGED <<ready, dispatch, batch, attempted, dispatched, held>>
    BY <1>5 DEF vars, dispatchVars
  <2>2. NumberedInv' /\ StagedInv' /\ LoggedInv' /\ LaggingInv' /\ Published' = Published
        /\ \A id : Pending(id)' <=> Pending(id)
    BY <2>1, StoreStays
  <2>3. TypesInv'
    BY <2>1 DEF WorkLedgerInv, TypesInv, storeVars
  <2>4. DispatchedInv' /\ BatchedInv'
    BY <2>1, <2>2 DEF WorkLedgerInv, DispatchedInv, BatchedInv, HandledInOrder, storeVars
  <2> QED
    BY <2>2, <2>3, <2>4 DEF WorkLedgerInv
<1> QED
  BY <1>1, <1>2, <1>3, <1>4, <1>5 DEF Next

----------------------------------------------------------------------------
(* What follows. *)

\* The store, the log, the dispatcher and the owners agree wherever the invariant holds.
LEMMA InvIsEnough == WorkLedgerInv => PublicationHolds
<1> SUFFICES ASSUME WorkLedgerInv PROVE PublicationHolds
  OBVIOUS
<1>1. TypesInv /\ NumberedInv /\ LoggedInv /\ LaggingInv /\ DispatchedInv
  BY DEF WorkLedgerInv
<1>2. \A id \in ToSet(dispatched) : id \in 1..Len(dispatched)
  BY <1>1 DEF DispatchedInv, HandledInOrder, TypesInv, ToSet
<1>3. ReplayMatches
  BY <1>1 DEF ReplayMatches, LaggingInv, Replay, TypesInv
<1>4. DispatchedArePublished
  <2>1. ASSUME NEW id \in 1..Len(dispatched)
        PROVE  /\ \E i \in DOMAIN log : log[i].id = id
               /\ \A i \in visible + 1..Len(events) : events[i].id # id
    <3>1. Len(dispatched) \in Nat /\ Len(log) \in Nat /\ Published \in Int
          /\ Len(dispatched) <= Published /\ Published <= Len(log)
      BY <1>1 DEF TypesInv, DispatchedInv, LoggedInv, Published
    <3>2. id \in DOMAIN log /\ log[id].id = id
      BY <1>1, <3>1 DEF LoggedInv, TypesInv
    <3>3. \A i \in visible + 1..Len(events) : events[i].id > Published
      BY <1>1 DEF NumberedInv, Published, TypesInv
    <3> QED
      BY <3>1, <3>2, <3>3
  <2> QED
    BY <1>2, <2>1 DEF DispatchedArePublished
<1>5. HandledInOrder
  BY <1>1 DEF DispatchedInv
<1>6. HeldStayPending
  <2>1. \A id \in 1..Len(dispatched) : id \in held <=> \E i \in DOMAIN events : events[i].id = id
    BY <1>1 DEF DispatchedInv, Pending, TypesInv
  <2> QED
    BY <1>2, <2>1 DEF HeldStayPending
<1> QED
  BY <1>3, <1>4, <1>5, <1>6 DEF PublicationHolds

\* However mutations, publications that may fail, the dispatcher and the owners interleave, the
\* store, the log, the dispatcher and the owners see the same ledger.
THEOREM PublicationAlwaysHolds == Init /\ [][Next]_vars => []PublicationHolds
<1> QED
  BY InvInitially, WorkLedgerStep, InvIsEnough, PTL

\* A step of the ledger is a step of its replay, or none.
LEMMA ReplaySteps ==
  ASSUME WorkLedgerInv, WorkLedgerInv', [Next]_vars
  PROVE  [ReplayAtomic!Next]_(ReplayAtomic!vars)
<1>1. TypesInv /\ NumberedInv /\ StagedInv /\ LaggingInv /\ TypesInv' /\ LaggingInv'
  BY DEF WorkLedgerInv
<1>2. CASE UNCHANGED <<store, log, failure>>
  BY <1>2 DEF ReplayAtomic!vars, Replay
<1>3. CASE \E changed \in (SUBSET Record) \ {{}}, n \in 1..MaxEvents :
             \E owned \in SUBSET (1..n) : Mutate(changed, n, owned)
  <2>1. PICK changed \in (SUBSET Record) \ {{}} :
          /\ sending = 0 /\ ~failure /\ UNCHANGED <<log, failure>>
          /\ store' = [r \in Record |-> IF r \in changed THEN store[r] + 1 ELSE store[r]]
    BY <1>3 DEF Mutate, Mutable
  <2>2. Replay = store
    BY <1>1, <2>1 DEF LaggingInv, Replay, TypesInv
  <2>3. Replay' = Replay
    BY <2>1 DEF Replay
  <2>4. ReplayAtomic!Mutate(changed)
    BY <2>1, <2>2, <2>3 DEF ReplayAtomic!Mutate
  <2> QED
    BY <2>1, <2>4 DEF ReplayAtomic!Next
<1>4. sending # 0 /\ sending <= Len(events) => Replay # store
  <2>1. ASSUME sending # 0, sending <= Len(events), Replay = store PROVE FALSE
    <3>1. PICK r \in DOMAIN Tells : r \in Record /\ Replayed(log, r) + 1 = store[r]
      BY <1>1, <2>1 DEF LaggingInv
    <3>2. Replay[r] = Replayed(log, r) /\ store[r] \in Nat
      BY <1>1, <3>1 DEF Replay, TypesInv
    <3> QED
      BY <2>1, <3>1, <3>2
  <2> QED
    BY <2>1
<1>5. CASE Publish
  <2>1. /\ sending \in 1..Len(events) /\ sending # 0 /\ sending <= Len(events)
        /\ log' = Append(log, events[sending]) /\ sending' = sending + 1
        /\ UNCHANGED <<store, events, visible, failure>>
    BY <1>1, <1>5 DEF Publish, TypesInv
  <2>2. ~failure /\ visible < sending
    BY <1>1, <2>1 DEF StagedInv
  <2>3. CASE sending = Len(events)
    <3>1. \A r \in Record : Replayed(log', r) = store[r]
      BY <1>1, <2>1, <2>3 DEF LaggingInv
    <3>2. Replay' = store
      BY <1>1, <2>1, <3>1 DEF Replay, TypesInv
    <3>3. ReplayAtomic!Show
      BY <1>4, <2>1, <2>2, <3>2 DEF ReplayAtomic!Show
    <3> QED
      BY <3>3 DEF ReplayAtomic!Next
  <2>4. CASE sending < Len(events)
    <3>1. events[sending].change = Nothing /\ events[sending] \in Event
      BY <1>1, <2>1, <2>2, <2>4 DEF LaggingInv, TypesInv
    <3>2. \A r \in Record : Replayed(log', r) = Replayed(log, r)
      BY <1>1, <2>1, <3>1, ReplayGrows DEF Nothing, TypesInv
    <3>3. Replay' = Replay
      BY <3>2 DEF Replay
    <3> QED
      BY <2>1, <3>3 DEF ReplayAtomic!vars
  <2> QED
    BY <1>1, <2>1, <2>3, <2>4 DEF TypesInv
<1>6. CASE PublishFails
  <2>1. /\ sending \in 1..Len(events) /\ sending # 0 /\ sending <= Len(events) /\ failure' = TRUE
        /\ UNCHANGED <<store, log>>
    BY <1>1, <1>6 DEF PublishFails, TypesInv
  <2>2. ~failure
    BY <1>1, <2>1 DEF StagedInv
  <2>3. Replay' = Replay
    BY <2>1 DEF Replay
  <2>4. ReplayAtomic!Freeze
    BY <1>4, <2>1, <2>2, <2>3 DEF ReplayAtomic!Freeze
  <2> QED
    BY <2>4 DEF ReplayAtomic!Next
<1>7. EndMutation => UNCHANGED <<store, log, failure>>
  BY DEF EndMutation
<1>8. Dispatching \/ Tick => UNCHANGED <<store, log, failure>>
  BY DEF Dispatching, Tick, Wake, ReadPending, HandleAndAcknowledge, HandleAndHold, Skip, Drained,
         storeVars
<1>9. (\E id \in held : Consumed(id) \/ Retire(id)) => UNCHANGED <<store, log, failure>>
  BY DEF Consumed, Retire
<1>10. UNCHANGED vars => UNCHANGED <<store, log, failure>>
  BY DEF vars, storeVars
<1> QED
  BY <1>2, <1>3, <1>5, <1>6, <1>7, <1>8, <1>9, <1>10 DEF Next, Mutation

\* The log begins as a replay does.
LEMMA ReplayInitially == Init => ReplayAtomic!Init
  BY DEF Init, ReplayAtomic!Init, Replay, Replayed

\* A replay of the log sees each mutation whole or not at all, lags by no more than the mutation
\* being published, and stands still once a publication has failed.
THEOREM ReplayAlwaysAtomic == Init /\ [][Next]_vars => ReplayIsAtomic
<1> QED
  BY InvInitially, WorkLedgerStep, ReplayInitially, ReplaySteps, PTL
     DEF ReplayIsAtomic, ReplayAtomic!Spec
=============================================================================
