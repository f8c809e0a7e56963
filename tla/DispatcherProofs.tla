--------------------------- MODULE DispatcherProofs ---------------------------
(***************************************************************************)
(* Machine-checked proofs about Dispatcher, for any works, agents and      *)
(* scenarios: what the dispatcher promises at every moment follows from    *)
(* DispatchInv, which every step keeps.                                    *)
(***************************************************************************)
EXTENDS Dispatcher, FiniteSetTheorems, WellFoundedInduction, TLAPS

----------------------------------------------------------------------------
(* The event at hand, the numbers of events, and what a letter adds.        *)

\* A nonempty set of numbers has a least one.
LEMMA Smallest ==
  ASSUME NEW S \in SUBSET Nat, S # {}
  PROVE  \E n \in S : \A m \in S : n <= m
<1>1. PICK n \in S : \A m \in S : ~ (<<m, n>> \in OpToRel(<, Nat))
  BY NatLessThanWellFounded, WFMin
<1>2. ASSUME NEW m \in S PROVE n <= m
  <2>1. ~ (m < n)
    BY <1>1, Zenon DEF OpToRel
  <2> QED
    BY <2>1
<1> QED
  BY <1>2

\* The event at hand is one of the batch.
LEMMA HereIn == DispatchTypes /\ batch # {} => Here \in batch
<1> SUFFICES ASSUME DispatchTypes, batch # {} PROVE Here \in batch
  OBVIOUS
<1>1. \A e \in batch : e.id \in Nat
  BY DEF DispatchTypes
<1> DEFINE ids == {e.id : e \in batch}
<1>2. PICK n \in ids : \A m \in ids : n <= m
  BY <1>1, Smallest
<1>3. \E e \in batch : \A f \in batch : e.id <= f.id
  BY <1>2
<1> QED
  BY <1>3 DEF Here

\* While the batch stays, so does the event at hand.
LEMMA HereKept == batch' = batch => Here' = Here
  BY DEF Here

\* The cancellations of several works are numbered on from what was minted.
LEMMA EndingsNumbered ==
  ASSUME DispatchTypes, NEW S \in SUBSET Work
  PROVE  /\ Cardinality(S) \in Nat
         /\ \A e \in Endings(S) : /\ e.kind = "cancelled" /\ e.work \in S
                                  /\ e.id \in (minted + 1)..(minted + Cardinality(S))
<1>1. IsFiniteSet(S)
  BY FS_Subset, DispatcherAssumption
<1>2. ASSUME NEW x \in S PROVE Cardinality({y \in S : y >= x}) \in 1..Cardinality(S)
  <2> DEFINE T == {y \in S : y >= x}
  <2>1. IsFiniteSet(T) /\ Cardinality(T) <= Cardinality(S)
    BY <1>1, FS_Subset
  <2>2. x \in T
    BY DispatcherAssumption
  <2>3. Cardinality(T) # 0
    BY <2>1, <2>2, FS_EmptySet
  <2> QED
    BY <1>1, <2>1, <2>3, FS_CardinalityType
<1>3. Cardinality(S) \in Nat
  BY <1>1, FS_CardinalityType
<1>4. ASSUME NEW x \in S
      PROVE  LET e == Event("cancelled", x, manager, Cardinality({y \in S : y >= x})) IN
             /\ e.kind = "cancelled" /\ e.work \in S
             /\ e.id \in (minted + 1)..(minted + Cardinality(S))
  BY <1>2, <1>3 DEF Event, DispatchTypes
<1> QED
  BY <1>3, <1>4, Zenon DEF Endings, Event, DispatchTypes

\* What a letter about a work adds to the history.
LEMMA LetterTyped ==
  ASSUME DispatchTypes, NEW a, NEW w \in Work, NEW ids,
         NEW kind \in {"instruction", "revocation", "failure", "review", "verdict"},
         Deliver(a, Letter(kind, w, ids))
  PROVE  /\ letters' = [letters EXCEPT ![w] = @ \cup {[kind |-> kind, at |-> settles]}]
         /\ letters' \in [Work -> SUBSET [kind : {"instruction", "revocation", "failure",
            "review",
                                                  "verdict"}, at : Nat]]
<1>1. letters' = [letters EXCEPT ![w] = @ \cup {[kind |-> kind, at |-> settles]}]
  BY DispatcherAssumption DEF Deliver, Letter
<1>2. [kind |-> kind, at |-> settles] \in
        [kind : {"instruction", "revocation", "failure", "review", "verdict"}, at : Nat]
  BY DEF DispatchTypes
<1> QED
  BY <1>1, <1>2 DEF DispatchTypes

\* A work is assigned (AssignWork): the parts that need the step taken apart.
LEMMA AssignWorkParts ==
  ASSUME DispatchInv, NEW w \in Work, NEW a \in Worker, AssignWork(w, a)
  PROVE  DispatchTypes'
<1> USE DEF DispatchInv
<1>1. work' \in [Work -> WorkRecord]
  BY DEF AssignWork, Commit, DispatchTypes, WorkRecord, WorkState, Agent, Unassigned
<1>2. \A e \in events' \cup batch' : e.id \in 1..minted' /\ e.work \in Work
  BY DEF AssignWork, Commit, DispatchTypes, Event, Operated, place
<1> QED
  BY <1>1, <1>2 DEF AssignWork, Commit, DispatchTypes, Operated, place, memory

\* A work is assigned (AssignWork).
LEMMA AssignWorkKeeps ==
  ASSUME DispatchInv, NEW w \in Work, NEW a \in Worker, AssignWork(w, a)
  PROVE  DispatchInv'
<1>1. DispatchTypes'
  BY AssignWorkParts
<1>2. Placed'
  BY DispatcherAssumption, HereKept, HereIn DEF AssignWork, Commit, Operating, Operated,
     Event, Fresh, Unassigned, DispatchInv, Placed, DispatchTypes, ledgerVars, world, post,
     place, memory, history
<1>3. Known'
  BY DispatcherAssumption, HereKept, HereIn DEF AssignWork, Commit, Operating, Operated,
     Event, Fresh, Unassigned, DispatchInv, Known, DispatchTypes, WorkRecord, Placed, Live,
     Reported, ledgerVars, world, post, place, memory, history
<1>4. InstructedOnce'
  BY DispatcherAssumption, HereKept, HereIn DEF AssignWork, Commit, Operating, Operated,
     Event, Fresh, Unassigned, DispatchInv, InstructedOnce, DispatchTypes, Placed, Known,
     Reported, ledgerVars, world, post, place, memory, history
<1>5. Reported'
  BY DispatcherAssumption, HereKept, HereIn DEF AssignWork, Commit, Operating, Operated,
     Event, Fresh, Unassigned, DispatchInv, Reported, Placed, InstructedOnce,
     DispatchTypes, Known, ledgerVars, world, post, place, memory, history
<1>6. Contemporary'
  BY DispatcherAssumption, HereKept, HereIn DEF AssignWork, Commit, Operating, Operated,
     Event, Fresh, Unassigned, DispatchInv, Contemporary, Live, Current, Known,
     DispatchTypes, WorkRecord, Placed, ledgerVars, world, post, place, memory, history
<1>7. SettlesAlone'
  BY DispatcherAssumption, HereKept, HereIn DEF AssignWork, Commit, Operating, Operated,
     Event, Fresh, Unassigned, DispatchInv, SettlesAlone, Hiring, Live, Placed, GateShut,
     Interrupted, Fenced, DispatchTypes, WorkRecord, ledgerVars, world, post, place,
     memory, history
<1>8. AuditorsEmployed'
  BY DispatcherAssumption, HereKept, HereIn DEF AssignWork, Commit, Operating, Operated,
     Event, Fresh, Unassigned, DispatchInv, AuditorsEmployed, Placed, Known, DispatchTypes,
     WorkRecord, ledgerVars, world, post, place, memory, history
<1>9. InterruptionForgets'
  BY DispatcherAssumption, HereKept, HereIn DEF AssignWork, Commit, Operating, Operated,
     Event, Fresh, Unassigned, DispatchInv, InterruptionForgets, SettlesAlone,
     Contemporary, Live, Current, Known, DispatchTypes, WorkRecord, Placed, ledgerVars,
     world, post, place, memory, history
<1> QED
  BY <1>1, <1>2, <1>3, <1>4, <1>5, <1>6, <1>7, <1>8, <1>9 DEF DispatchInv

\* An auditor delivers (SubmitAudit): the parts that need the step taken apart.
LEMMA SubmitAuditParts ==
  ASSUME DispatchInv, NEW x \in Work, SubmitAudit(x)
  PROVE  DispatchTypes' /\ Known' /\ Contemporary'
<1> USE DEF DispatchInv
<1>1. PICK p \in Work : p = work[x].parent /\ work[p].state # "none" /\ work[x].state = "active"
  BY DispatcherAssumption DEF SubmitAudit, Known, DispatchTypes, WorkRecord
<1>2. work' = [work EXCEPT ![x].state = "done", ![p].state = "done"]
  BY <1>1 DEF SubmitAudit, Commit
<1>3. work' \in [Work -> WorkRecord]
  BY <1>1, <1>2 DEF DispatchTypes, WorkRecord, WorkState
<1>4. \A w \in Work : /\ work'[w].parent = work[w].parent /\ work'[w].kind = work[w].kind
                      /\ work'[w].state = IF w \in {x, p} THEN "done" ELSE work[w].state
  BY <1>1, <1>2 DEF DispatchTypes, WorkRecord
<1>5. \A w \in Work : Live(w)' => Live(w)
  BY <1>4 DEF Live
<1>6. born[p] = settles
  BY <1>1, DispatcherAssumption DEF Contemporary, Live
<1>7. /\ \A e \in events' \cup batch' : e.work = p \/ e \in events \cup batch
      /\ \A e \in events' \cup batch' : e.id \in 1..minted' /\ e.work \in Work
      /\ minted' = minted + 1
  BY <1>1 DEF SubmitAudit, Commit, Event, Operated, place, DispatchTypes
<1>8. UNCHANGED <<told, letters, delivered, failed, voicing, born, settles, telling, hired,
   life, notifying>> /\ inside' \subseteq inside
  BY DEF SubmitAudit, Operated, memory, history, place
<1>9. DispatchTypes'
  BY <1>3, <1>7, <1>8 DEF DispatchTypes
<1>10. Known'
  BY <1>1, <1>4, <1>7, <1>8 DEF Known
<1>11. Contemporary'
  BY <1>4, <1>5, <1>6, <1>7, <1>8 DEF Contemporary
<1> QED BY <1>9, <1>10, <1>11

\* An auditor delivers (SubmitAudit).
LEMMA SubmitAuditKeeps ==
  ASSUME DispatchInv, NEW w \in Work, SubmitAudit(w)
  PROVE  DispatchInv'
<1>1. DispatchTypes' /\ Known' /\ Contemporary'
  BY SubmitAuditParts
<1>2. Placed'
  BY DispatcherAssumption, HereKept, HereIn DEF SubmitAudit, Commit, Operating, Operated,
     Event, DispatchInv, Placed, DispatchTypes, ledgerVars, world, post, place, memory,
     history
<1>3. InstructedOnce'
  BY DispatcherAssumption, HereKept, HereIn DEF SubmitAudit, Commit, Operating, Operated,
     Event, DispatchInv, InstructedOnce, DispatchTypes, Placed, Known, Reported,
     ledgerVars, world, post, place, memory, history
<1>4. Reported'
  BY DispatcherAssumption, HereKept, HereIn DEF SubmitAudit, Commit, Operating, Operated,
     Event, DispatchInv, Reported, Placed, InstructedOnce, DispatchTypes, Known,
     ledgerVars, world, post, place, memory, history
<1>5. SettlesAlone'
  BY DispatcherAssumption, HereKept, HereIn DEF SubmitAudit, Commit, Operating, Operated,
     Event, DispatchInv, SettlesAlone, Hiring, Live, Placed, GateShut, Interrupted, Fenced,
     DispatchTypes, WorkRecord, ledgerVars, world, post, place, memory, history
<1>6. AuditorsEmployed'
  BY DispatcherAssumption, HereKept, HereIn DEF SubmitAudit, Commit, Operating, Operated,
     Event, DispatchInv, AuditorsEmployed, Placed, Known, DispatchTypes, WorkRecord,
     ledgerVars, world, post, place, memory, history
<1>7. InterruptionForgets'
  BY DispatcherAssumption, HereKept, HereIn DEF SubmitAudit, Commit, Operating, Operated,
     Event, DispatchInv, InterruptionForgets, SettlesAlone, Contemporary, Live, Current,
     Known, DispatchTypes, WorkRecord, Placed, ledgerVars, world, post, place, memory,
     history
<1> QED
  BY <1>1, <1>2, <1>3, <1>4, <1>5, <1>6, <1>7 DEF DispatchInv

\* A work is cancelled with its audit (Cancel): the parts that need the step taken apart.
LEMMA CancelParts ==
  ASSUME DispatchInv, NEW w \in Work, Cancel(w)
  PROVE  DispatchTypes' /\ Known' /\ Contemporary'
<1> USE DEF DispatchInv
<1> DEFINE closed == {w} \cup LiveAudits(w)
           p == work[w].parent
           n == Cardinality(closed)
           last == {Event("review", p, manager, n + 1)}
           m == IF p = NoWork THEN n ELSE n + 1
           ends == IF p = NoWork THEN Endings(closed) ELSE Endings(closed) \cup last
<1>1. closed \in SUBSET Work /\ (\A x \in closed : Live(x)) /\ Live(w)
  BY DEF Cancel, LiveAudits, Live
<1>2. p # NoWork => /\ p \in Work /\ work[p].state # "none" /\ born[p] = settles
                  /\ work[p].parent = NoWork
  BY <1>1 DEF DispatchTypes, WorkRecord, Known, Contemporary
<1>3. work' = [x \in Work |-> IF x \in closed THEN [work[x] EXCEPT !.state = "cancelled"]
                              ELSE IF x = p THEN [work[x] EXCEPT !.state = "needs_check"]
                              ELSE work[x]]
  BY DEF Cancel, Cancelled, Commit
<1>4. events' = events \cup ends /\ minted' = minted + m
  BY Zenon DEF Cancel, Cancelled, Commit
<1>5. UNCHANGED <<batch, told, letters, delivered, failed, voicing, born, settles, telling,
   hired, life, notifying>>
      /\ inside' \subseteq inside
  BY DEF Cancel, Operated, memory, history, place
<1>6. n \in Nat /\ \A e \in Endings(closed) : e.work \in closed /\ e.id \in (minted + 1)..(minted + n)
  BY <1>1, EndingsNumbered
<1> HIDE DEF closed, n
<1>7. work' \in [Work -> WorkRecord]
  BY <1>3 DEF DispatchTypes, WorkRecord, WorkState
<1>8. \A x \in Work : /\ work'[x].parent = work[x].parent /\ work'[x].kind = work[x].kind
  BY <1>3 DEF DispatchTypes, WorkRecord
<1>15. \A x \in Work : work'[x].state = IF x \in closed THEN "cancelled"
                                        ELSE IF x = p THEN "needs_check" ELSE work[x].state
  BY <1>3 DEF DispatchTypes, WorkRecord
<1>16. \A x \in Work : /\ work'[x].state = "none" <=> work[x].state = "none"
                       /\ Live(x)' => Live(x) \/ x = p
  BY <1>1, <1>2, <1>15, DispatcherAssumption DEF Live
<1>17. p # NoWork => work[w].kind = "audit" /\ work'[p].kind = "implementation"
  BY <1>2, <1>8 DEF Known, DispatchTypes, WorkRecord
<1>18. \A x \in Work : work[x].kind # "implementation" => work'[x].state \in {"active",
   "done", "cancelled"}
  BY <1>15, <1>17, <1>2, <1>8, DispatcherAssumption DEF Known
<1>9. minted' \in Nat /\ minted' >= minted /\ m \in Nat
  BY <1>4, <1>6 DEF DispatchTypes
<1>10. ASSUME NEW e \in ends
       PROVE  /\ e.id \in 1..minted'
              /\ e.work \in Work /\ born[e.work] = settles /\ work[e.work].state # "none"
  <2>1. CASE e \in Endings(closed)
    <3>1. e.work \in closed /\ e.id \in (minted + 1)..(minted + n) /\ minted \in Nat
      BY <1>6, <2>1 DEF DispatchTypes
    <3>2. Live(e.work) /\ e.work \in Work
      BY <1>1, <3>1
    <3> QED
      BY <1>4, <1>6, <3>1, <3>2 DEF Contemporary, Live
  <2>2. CASE e \in last /\ p # NoWork
    BY <1>2, <1>4, <1>6, <2>2 DEF Event, DispatchTypes
  <2> QED
    BY <1>10, <2>1, <2>2
<1> HIDE DEF m, ends
<1>11. DispatchTypes'
  BY <1>4, <1>5, <1>7, <1>9, <1>10 DEF DispatchTypes
<1>12. Known'
  BY <1>4, <1>5, <1>8, <1>10, <1>16, <1>18 DEF Known
<1>13. \A x \in Work : Live(x)' => born[x] = settles /\ (work[x].parent # NoWork => born[work[x].parent] = settles)
  BY <1>2, <1>8, <1>16, DispatcherAssumption DEF Contemporary
<1>14. Contemporary'
  BY <1>4, <1>5, <1>8, <1>10, <1>13 DEF Contemporary
<1> QED
  BY <1>11, <1>12, <1>14

\* A work is cancelled with its audit (Cancel).
LEMMA CancelKeeps ==
  ASSUME DispatchInv, NEW w \in Work, Cancel(w)
  PROVE  DispatchInv'
<1>1. DispatchTypes' /\ Known' /\ Contemporary'
  BY CancelParts
<1>2. Placed'
  BY DispatcherAssumption, HereKept, HereIn, EndingsNumbered DEF Cancel, Cancelled, Commit,
     Operating, Operated, Event, LiveAudits, DispatchInv, Placed, DispatchTypes,
     ledgerVars, world, post, place, memory, history
<1>3. InstructedOnce'
  BY DispatcherAssumption, HereKept, HereIn, EndingsNumbered DEF Cancel, Cancelled, Commit,
     Operating, Operated, Event, LiveAudits, DispatchInv, InstructedOnce, DispatchTypes,
     Placed, Known, Reported, ledgerVars, world, post, place, memory, history
<1>4. Reported'
  BY DispatcherAssumption, HereKept, HereIn, EndingsNumbered DEF Cancel, Cancelled, Commit,
     Operating, Operated, Event, LiveAudits, DispatchInv, Reported, Placed, InstructedOnce,
     DispatchTypes, Known, ledgerVars, world, post, place, memory, history
<1>5. SettlesAlone'
  BY DispatcherAssumption, HereKept, HereIn, EndingsNumbered DEF Cancel, Cancelled, Commit,
     Operating, Operated, Event, LiveAudits, DispatchInv, SettlesAlone, Hiring, Live,
     Placed, GateShut, Interrupted, Fenced, DispatchTypes, WorkRecord, ledgerVars, world,
     post, place, memory, history
<1>6. AuditorsEmployed'
  BY DispatcherAssumption, HereKept, HereIn, EndingsNumbered DEF Cancel, Cancelled, Commit,
     Operating, Operated, Event, LiveAudits, DispatchInv, AuditorsEmployed, Placed, Known,
     DispatchTypes, WorkRecord, ledgerVars, world, post, place, memory, history
<1>7. InterruptionForgets'
  BY DispatcherAssumption, HereKept, HereIn, EndingsNumbered DEF Cancel, Cancelled, Commit,
     Operating, Operated, Event, LiveAudits, DispatchInv, InterruptionForgets,
     SettlesAlone, Contemporary, Live, Current, Known, DispatchTypes, WorkRecord, Placed,
     ledgerVars, world, post, place, memory, history
<1> QED
  BY <1>1, <1>2, <1>3, <1>4, <1>5, <1>6, <1>7 DEF DispatchInv

\* Events for the owner become a letter (drain): the parts that need the step taken apart.
LEMMA DrainForOwnerParts ==
  ASSUME DispatchInv, DrainForOwner
  PROVE  DispatchTypes'
<1> USE DEF DispatchInv, DispatchTypes
<1>1. Here \in batch /\ Here.kind \in {"verdict", "review"}
  BY HereIn DEF DrainForOwner, Draining
<1>2. letters' \in [Work -> SUBSET [kind : {"instruction", "revocation", "failure",
   "review",
                                            "verdict"}, at : Nat]]
  BY <1>1, LetterTyped DEF DrainForOwner, NotifyOwner
<1>5. Here.id \in 1..minted /\ minted' = minted
  BY <1>1 DEF DispatchTypes, DrainForOwner, KeepEvent, ledgerVars
<1>6. notifying' = notifying \/ notifying' = notifying \cup {Here.id}
  BY DEF DrainForOwner, NotifyOwner
<1>3. notifying' \subseteq 1..minted'
  BY <1>5, <1>6 DEF DispatchTypes
<1>4. \A e \in events' \cup batch' : e.id \in 1..minted' /\ e.work \in Work
  BY DEF DrainForOwner, KeepEvent, Pass, ledgerVars
<1> QED
  BY <1>2, <1>3, <1>4 DEF DrainForOwner, KeepEvent, ledgerVars, world

\* Events for the owner become a letter (drain).
LEMMA DrainForOwnerKeeps ==
  ASSUME DispatchInv, DrainForOwner
  PROVE  DispatchInv'
<1>1. DispatchTypes'
  BY DrainForOwnerParts
<1>2. Placed'
  BY DispatcherAssumption, HereIn DEF DrainForOwner, Draining, KeepEvent, NotifyOwner,
     Deliver, Deliverable, Letter, Pass, DispatchInv, Placed, DispatchTypes, ledgerVars,
     world, post, place, memory, history
<1>3. Known'
  BY DispatcherAssumption, HereIn DEF DrainForOwner, Draining, KeepEvent, NotifyOwner,
     Deliver, Deliverable, Letter, Pass, DispatchInv, Known, DispatchTypes, WorkRecord,
     Placed, Live, Reported, ledgerVars, world, post, place, memory, history
<1>4. InstructedOnce'
  BY DispatcherAssumption, HereIn DEF DrainForOwner, Draining, KeepEvent, NotifyOwner,
     Deliver, Deliverable, Letter, Pass, DispatchInv, InstructedOnce, DispatchTypes,
     Placed, Known, Reported, ledgerVars, world, post, place, memory, history
<1>5. Reported'
  BY DispatcherAssumption, HereIn DEF DrainForOwner, Draining, KeepEvent, NotifyOwner,
     Deliver, Deliverable, Letter, Pass, DispatchInv, Reported, Placed, InstructedOnce,
     DispatchTypes, Known, ledgerVars, world, post, place, memory, history
<1>6. Contemporary'
  BY DispatcherAssumption, HereIn DEF DrainForOwner, Draining, KeepEvent, NotifyOwner,
     Deliver, Deliverable, Letter, Pass, DispatchInv, Contemporary, Live, Current, Known,
     DispatchTypes, WorkRecord, Placed, ledgerVars, world, post, place, memory, history
<1>7. SettlesAlone'
  BY DispatcherAssumption, HereIn DEF DrainForOwner, Draining, KeepEvent, NotifyOwner,
     Deliver, Deliverable, Letter, Pass, DispatchInv, SettlesAlone, Hiring, Live, Placed,
     GateShut, Interrupted, Fenced, DispatchTypes, WorkRecord, ledgerVars, world, post,
     place, memory, history
<1>8. AuditorsEmployed'
  BY DispatcherAssumption, HereIn DEF DrainForOwner, Draining, KeepEvent, NotifyOwner,
     Deliver, Deliverable, Letter, Pass, DispatchInv, AuditorsEmployed, Placed, Known,
     DispatchTypes, WorkRecord, ledgerVars, world, post, place, memory, history
<1>9. InterruptionForgets'
  BY DispatcherAssumption, HereIn DEF DrainForOwner, Draining, KeepEvent, NotifyOwner,
     Deliver, Deliverable, Letter, Pass, DispatchInv, InterruptionForgets, SettlesAlone,
     Contemporary, Live, Current, Known, DispatchTypes, WorkRecord, Placed, ledgerVars,
     world, post, place, memory, history
<1> QED
  BY <1>1, <1>2, <1>3, <1>4, <1>5, <1>6, <1>7, <1>8, <1>9 DEF DispatchInv

\* A cancellation is delivered (drain): the parts that need the step taken apart.
LEMMA DrainCancelledParts ==
  ASSUME DispatchInv, DrainCancelled
  PROVE  DispatchTypes' /\ InterruptionForgets'
<1> USE DEF DispatchInv
<1>1. Here \in batch /\ Here.work \in Work /\ born[Here.work] = settles
  BY HereIn DEF DrainCancelled, Draining, Contemporary, DispatchTypes
<1>2. \/ letters' = letters
      \/ letters' = [letters EXCEPT ![Here.work] = @ \cup {[kind |-> "revocation",
         at |-> settles]}]
  BY <1>1, LetterTyped DEF DrainCancelled
<1>3. \A w \in Work : \A l \in letters'[w] : l.at = born[w]
  BY <1>1, <1>2 DEF InterruptionForgets, DispatchTypes
<1>4. InterruptionForgets'
  BY <1>3 DEF DrainCancelled, InterruptionForgets, DropEvent, Acknowledge, Live, world
<1>5. letters' \in [Work -> SUBSET [kind : {"instruction", "revocation", "failure",
   "review",
                                            "verdict"}, at : Nat]]
  BY <1>1, LetterTyped DEF DrainCancelled, DispatchTypes
<1>6. DispatchTypes'
  BY <1>5 DEF DispatchTypes, DrainCancelled, DropEvent, Acknowledge, Pass, world
<1> QED
  BY <1>4, <1>6

\* A cancellation is delivered (drain).
LEMMA DrainCancelledKeeps ==
  ASSUME DispatchInv, DrainCancelled
  PROVE  DispatchInv'
<1>1. DispatchTypes' /\ InterruptionForgets'
  BY DrainCancelledParts
<1>2. Placed'
  BY DispatcherAssumption, HereIn DEF DrainCancelled, Draining, DropEvent, Acknowledge,
     Deliver, Deliverable, Letter, Pass, DispatchInv, Placed, DispatchTypes, ledgerVars,
     world, post, place, memory, history
<1>3. Known'
  BY DispatcherAssumption, HereIn DEF DrainCancelled, Draining, DropEvent, Acknowledge,
     Deliver, Deliverable, Letter, Pass, DispatchInv, Known, DispatchTypes, WorkRecord,
     Placed, Live, Reported, ledgerVars, world, post, place, memory, history
<1>4. InstructedOnce'
  BY DispatcherAssumption, HereIn DEF DrainCancelled, Draining, DropEvent, Acknowledge,
     Deliver, Deliverable, Letter, Pass, DispatchInv, InstructedOnce, DispatchTypes,
     Placed, Known, Reported, ledgerVars, world, post, place, memory, history
<1>5. Reported'
  BY DispatcherAssumption, HereIn DEF DrainCancelled, Draining, DropEvent, Acknowledge,
     Deliver, Deliverable, Letter, Pass, DispatchInv, Reported, Placed, InstructedOnce,
     DispatchTypes, Known, ledgerVars, world, post, place, memory, history
<1>6. Contemporary'
  BY DispatcherAssumption, HereIn DEF DrainCancelled, Draining, DropEvent, Acknowledge,
     Deliver, Deliverable, Letter, Pass, DispatchInv, Contemporary, Live, Current, Known,
     DispatchTypes, WorkRecord, Placed, ledgerVars, world, post, place, memory, history
<1>7. SettlesAlone'
  BY DispatcherAssumption, HereIn DEF DrainCancelled, Draining, DropEvent, Acknowledge,
     Deliver, Deliverable, Letter, Pass, DispatchInv, SettlesAlone, Hiring, Live, Placed,
     GateShut, Interrupted, Fenced, DispatchTypes, WorkRecord, ledgerVars, world, post,
     place, memory, history
<1>8. AuditorsEmployed'
  BY DispatcherAssumption, HereIn DEF DrainCancelled, Draining, DropEvent, Acknowledge,
     Deliver, Deliverable, Letter, Pass, DispatchInv, AuditorsEmployed, Placed, Known,
     DispatchTypes, WorkRecord, ledgerVars, world, post, place, memory, history
<1> QED
  BY <1>1, <1>2, <1>3, <1>4, <1>5, <1>6, <1>7, <1>8 DEF DispatchInv

\* An instruction is delivered (instruct): the parts that need the step taken apart.
LEMMA InstructParts ==
  ASSUME DispatchInv, Instruct
  PROVE  DispatchTypes'
<1> USE DEF DispatchInv
<1>1. Here \in batch /\ Here.work \in Work
  BY HereIn DEF Instruct, Placed, DispatchTypes
<1>2. letters' \in [Work -> SUBSET [kind : {"instruction", "revocation", "failure",
   "review",
                                            "verdict"}, at : Nat]]
  BY <1>1, LetterTyped DEF Instruct
<1> QED
  BY <1>1, <1>2 DEF DispatchTypes, Instruct, Acknowledge, Pass, world

\* An instruction is delivered (instruct).
LEMMA InstructKeeps ==
  ASSUME DispatchInv, Instruct
  PROVE  DispatchInv'
<1>1. DispatchTypes'
  BY InstructParts
<1>2. Placed'
  BY DispatcherAssumption, HereIn DEF Instruct, Deliver, Deliverable, Letter, Acknowledge,
     Pass, DispatchInv, Placed, DispatchTypes, ledgerVars, world, post, place, memory,
     history
<1>3. Known'
  BY DispatcherAssumption, HereIn DEF Instruct, Deliver, Deliverable, Letter, Acknowledge,
     Pass, DispatchInv, Known, DispatchTypes, WorkRecord, Placed, Live, Reported,
     ledgerVars, world, post, place, memory, history
<1>4. InstructedOnce'
  BY DispatcherAssumption, HereIn DEF Instruct, Deliver, Deliverable, Letter, Acknowledge,
     Pass, DispatchInv, InstructedOnce, DispatchTypes, Placed, Known, Reported, ledgerVars,
     world, post, place, memory, history
<1>5. Reported'
  BY DispatcherAssumption, HereIn DEF Instruct, Deliver, Deliverable, Letter, Acknowledge,
     Pass, DispatchInv, Reported, Placed, InstructedOnce, DispatchTypes, Known, ledgerVars,
     world, post, place, memory, history
<1>6. Contemporary'
  BY DispatcherAssumption, HereIn DEF Instruct, Deliver, Deliverable, Letter, Acknowledge,
     Pass, DispatchInv, Contemporary, Live, Current, Known, DispatchTypes, WorkRecord,
     Placed, ledgerVars, world, post, place, memory, history
<1>7. SettlesAlone'
  BY DispatcherAssumption, HereIn DEF Instruct, Deliver, Deliverable, Letter, Acknowledge,
     Pass, DispatchInv, SettlesAlone, Hiring, Live, Placed, GateShut, Interrupted, Fenced,
     DispatchTypes, WorkRecord, ledgerVars, world, post, place, memory, history
<1>8. AuditorsEmployed'
  BY DispatcherAssumption, HereIn DEF Instruct, Deliver, Deliverable, Letter, Acknowledge,
     Pass, DispatchInv, AuditorsEmployed, Placed, Known, DispatchTypes, WorkRecord,
     ledgerVars, world, post, place, memory, history
<1>9. InterruptionForgets'
  BY DispatcherAssumption, HereIn DEF Instruct, Deliver, Deliverable, Letter, Acknowledge,
     Pass, DispatchInv, InterruptionForgets, SettlesAlone, Contemporary, Live, Current,
     Known, DispatchTypes, WorkRecord, Placed, ledgerVars, world, post, place, memory,
     history
<1> QED
  BY <1>1, <1>2, <1>3, <1>4, <1>5, <1>6, <1>7, <1>8, <1>9 DEF DispatchInv

\* An audit that cannot be had is reported (assignAudit): the parts that need the step taken apart.
LEMMA AuditFailedParts ==
  ASSUME DispatchInv, AuditFailed
  PROVE  DispatchTypes' /\ InterruptionForgets'
<1> USE DEF DispatchInv
<1>1. Here \in batch /\ Here.kind = "review"
  BY HereIn DEF AuditFailed, Placed
<1>2. letters' \in [Work -> SUBSET [kind : {"instruction", "revocation", "failure",
   "review",
                                            "verdict"}, at : Nat]]
  BY <1>1, LetterTyped DEF AuditFailed, NotifyOwner, DispatchTypes
<1>5. Here.id \in 1..minted /\ minted' = minted
  BY <1>1 DEF DispatchTypes, AuditFailed, KeepEvent, ledgerVars
<1>6. notifying' = notifying \/ notifying' = notifying \cup {Here.id}
  BY DEF AuditFailed, NotifyOwner
<1>3. notifying' \subseteq 1..minted'
  BY <1>5, <1>6 DEF DispatchTypes
<1>4. \A e \in events' \cup batch' : e.id \in 1..minted' /\ e.work \in Work
  BY DEF AuditFailed, KeepEvent, Pass, ledgerVars, DispatchTypes
<1>7. DispatchTypes'
  BY <1>2, <1>3, <1>4 DEF AuditFailed, KeepEvent, ledgerVars, world, DispatchTypes
<1>8. \/ letters' = letters
      \/ letters' = [letters EXCEPT ![Here.work] = @ \cup {[kind |-> "review",
         at |-> settles]}]
  BY <1>1, LetterTyped DEF AuditFailed, NotifyOwner, DispatchTypes
<1>9. born[Here.work] = settles /\ Here.work \in Work
  BY <1>1 DEF Contemporary, DispatchTypes
<1>10. \A w \in Work : \A l \in letters'[w] : l.at = born[w]
  BY <1>8, <1>9 DEF InterruptionForgets, DispatchTypes
<1>11. InterruptionForgets'
  BY <1>10 DEF AuditFailed, InterruptionForgets, KeepEvent, ledgerVars, Live, world
<1> QED
  BY <1>7, <1>11

\* An audit that cannot be had is reported (assignAudit).
LEMMA AuditFailedKeeps ==
  ASSUME DispatchInv, AuditFailed
  PROVE  DispatchInv'
<1>1. DispatchTypes' /\ InterruptionForgets'
  BY AuditFailedParts
<1>2. Placed'
  BY DispatcherAssumption, HereIn DEF AuditFailed, KeepEvent, NotifyOwner, Deliver,
     Deliverable, Letter, Pass, DispatchInv, Placed, DispatchTypes, ledgerVars, world,
     post, place, memory, history
<1>3. Known'
  BY DispatcherAssumption, HereIn DEF AuditFailed, KeepEvent, NotifyOwner, Deliver,
     Deliverable, Letter, Pass, DispatchInv, Known, DispatchTypes, WorkRecord, Placed,
     Live, Reported, ledgerVars, world, post, place, memory, history
<1>4. InstructedOnce'
  BY DispatcherAssumption, HereIn DEF AuditFailed, KeepEvent, NotifyOwner, Deliver,
     Deliverable, Letter, Pass, DispatchInv, InstructedOnce, DispatchTypes, Placed, Known,
     Reported, ledgerVars, world, post, place, memory, history
<1>5. Reported'
  BY DispatcherAssumption, HereIn DEF AuditFailed, KeepEvent, NotifyOwner, Deliver,
     Deliverable, Letter, Pass, DispatchInv, Reported, Placed, InstructedOnce,
     DispatchTypes, Known, ledgerVars, world, post, place, memory, history
<1>6. Contemporary'
  BY DispatcherAssumption, HereIn DEF AuditFailed, KeepEvent, NotifyOwner, Deliver,
     Deliverable, Letter, Pass, DispatchInv, Contemporary, Live, Current, Known,
     DispatchTypes, WorkRecord, Placed, ledgerVars, world, post, place, memory, history
<1>7. SettlesAlone'
  BY DispatcherAssumption, HereIn DEF AuditFailed, KeepEvent, NotifyOwner, Deliver,
     Deliverable, Letter, Pass, DispatchInv, SettlesAlone, Hiring, Live, Placed, GateShut,
     Interrupted, Fenced, DispatchTypes, WorkRecord, ledgerVars, world, post, place,
     memory, history
<1>8. AuditorsEmployed'
  BY DispatcherAssumption, HereIn DEF AuditFailed, KeepEvent, NotifyOwner, Deliver,
     Deliverable, Letter, Pass, DispatchInv, AuditorsEmployed, Placed, Known,
     DispatchTypes, WorkRecord, ledgerVars, world, post, place, memory, history
<1> QED
  BY <1>1, <1>2, <1>3, <1>4, <1>5, <1>6, <1>7, <1>8 DEF DispatchInv

\* The ledger assigns the audit (assignAudit): the parts that need the step taken apart.
LEMMA AssignAuditParts ==
  ASSUME DispatchInv, AssignAudit
  PROVE  DispatchTypes' /\ Known' /\ Contemporary'
<1> USE DEF DispatchInv
<1>1. Here \in batch /\ Here.work \in Work /\ hired \in Auditor /\ born[Here.work] = settles
  BY HereIn DEF AssignAudit, Placed, DispatchTypes, Contemporary
<1>2. PICK x \in Work :
        /\ Fresh(x)
        /\ work' = [work EXCEPT ![Here.work].state = "checking",
                                ![x] = [state |-> "active", kind |-> "audit",
                                        assignee |-> hired, parent |-> Here.work]]
        /\ events' = {e \in events : e.id # Here.id} \cup {Event("assigned", x, manager, 1)}
        /\ minted' = minted + 1 /\ born' = [born EXCEPT ![x] = settles]
  BY Zenon DEF AssignAudit
<1>9. work[Here.work].state = "needs_check" /\ work[x].state = "none" /\ x # Here.work
  <2>1. work[Here.work].state = "needs_check"
    BY DEF AssignAudit
  <2>2. work[x].state = "none"
    BY <1>2 DEF Fresh
  <2>3. x # Here.work
    <3> SUFFICES ASSUME x = Here.work PROVE FALSE
      OBVIOUS
    <3>1. work[Here.work].state = "none"
      BY <2>2
    <3> QED
      BY ONLY <2>1, <3>1
  <2> QED
    BY ONLY <2>1, <2>2, <2>3
<1>3. work' \in [Work -> WorkRecord]
  <2> DEFINE checked == [work EXCEPT ![Here.work].state = "checking"]
             audit == [state |-> "active", kind |-> "audit", assignee |-> hired,
                parent |-> Here.work]
  <2>1. checked \in [Work -> WorkRecord]
    BY <1>1 DEF DispatchTypes, WorkRecord, WorkState
  <2>2. audit \in WorkRecord
    BY <1>1 DEF WorkRecord, WorkState, Agent
  <2>3. work' = [checked EXCEPT ![x] = audit]
    BY <1>2
  <2> HIDE DEF checked, audit
  <2> QED
    BY <2>1, <2>2, <2>3
<1>4. \A e \in events' \cup batch' : e.id \in 1..minted' /\ e.work \in Work
  BY <1>1, <1>2 DEF AssignAudit, DispatchTypes, Event, Pass
<1>5. DispatchTypes'
  BY <1>1, <1>2, <1>3, <1>4 DEF AssignAudit, DispatchTypes, post
<1>6. \A w \in Work : /\ w # x => born'[w] = born[w] /\ work'[w].parent = work[w].parent
                      /\ w = x => born'[w] = settles /\ work'[w].parent = Here.work
                      /\ w # x /\ Live(w)' => Live(w)
  BY <1>1, <1>2, <1>9 DEF DispatchTypes, Live, WorkRecord
<1>7. \A e \in events' \cup batch' : e.work = x \/ e \in events \cup batch
  BY <1>2 DEF AssignAudit, Pass, Event
<1>11. voicing' = voicing /\ settles' = settles /\ voicing = NoWork
  BY DEF AssignAudit, Placed
<1>12. ~Live(x) /\ \A e \in events \cup batch : e.work # x
  BY <1>9 DEF Live, Known
<1>14. \A w \in Work : work[w].parent # x
  BY <1>9 DEF Known
<1>13. \A w \in Work : Live(w)' => born'[w] = settles /\ (work'[w].parent # NoWork => born'[work'[w].parent] = settles)
  <2>1. SUFFICES ASSUME NEW w \in Work, Live(w)'
                 PROVE  born'[w] = settles /\ (work'[w].parent # NoWork => born'[work'[w].parent] = settles)
    OBVIOUS
  <2>2. CASE w = x
    BY <1>1, <1>6, <1>9, <2>2
  <2>3. CASE w # x
    <3>1. born[w] = settles /\ (work[w].parent # NoWork => work[w].parent \in Work /\ born[work[w].parent] = settles)
      BY <1>6, <2>1, <2>3 DEF Contemporary, DispatchTypes, WorkRecord
    <3> QED
      BY <1>6, <1>14, <2>3, <3>1
  <2> QED
    BY <2>2, <2>3
<1>8. Contemporary'
  BY <1>1, <1>6, <1>7, <1>11, <1>12, <1>13, <1>5 DEF Contemporary, DispatchTypes
<1>15. \A w \in Work :
         /\ work'[w].state = IF w = x THEN "active" ELSE IF w = Here.work THEN "checking"
                            ELSE work[w].state
         /\ work'[w].kind = IF w = x THEN "audit" ELSE work[w].kind
         /\ work'[w].parent = IF w = x THEN Here.work ELSE work[w].parent
  BY <1>1, <1>2, <1>9 DEF DispatchTypes, WorkRecord
<1>16. work[Here.work].kind = "implementation"
  BY <1>1, <1>9 DEF Known
<1>17. UNCHANGED <<told, letters, delivered, failed, voicing>>
  BY DEF AssignAudit
<1>18. Known'
  BY <1>1, <1>7, <1>9, <1>12, <1>14, <1>15, <1>16, <1>17 DEF Known
<1> QED
  BY <1>5, <1>8, <1>18

\* The ledger assigns the audit (assignAudit).
LEMMA AssignAuditKeeps ==
  ASSUME DispatchInv, AssignAudit
  PROVE  DispatchInv'
<1>1. DispatchTypes' /\ Known' /\ Contemporary'
  BY AssignAuditParts
<1>2. Placed'
  BY DispatcherAssumption, HereIn DEF AssignAudit, Fresh, Event, Pass, DispatchInv, Placed,
     DispatchTypes, ledgerVars, world, post, place, memory, history
<1>3. InstructedOnce'
  BY DispatcherAssumption, HereIn DEF AssignAudit, Fresh, Event, Pass, DispatchInv,
     InstructedOnce, DispatchTypes, Placed, Known, Reported, ledgerVars, world, post,
     place, memory, history
<1>4. Reported'
  BY DispatcherAssumption, HereIn DEF AssignAudit, Fresh, Event, Pass, DispatchInv,
     Reported, Placed, InstructedOnce, DispatchTypes, Known, ledgerVars, world, post,
     place, memory, history
<1>5. SettlesAlone'
  BY DispatcherAssumption, HereIn DEF AssignAudit, Fresh, Event, Pass, DispatchInv,
     SettlesAlone, Hiring, Live, Placed, GateShut, Interrupted, Fenced, DispatchTypes,
     WorkRecord, ledgerVars, world, post, place, memory, history
<1>6. AuditorsEmployed'
  BY DispatcherAssumption, HereIn DEF AssignAudit, Fresh, Event, Pass, DispatchInv,
     AuditorsEmployed, Placed, Known, DispatchTypes, WorkRecord, ledgerVars, world, post,
     place, memory, history
<1>7. InterruptionForgets'
  BY DispatcherAssumption, HereIn DEF AssignAudit, Fresh, Event, Pass, DispatchInv,
     InterruptionForgets, SettlesAlone, Contemporary, Live, Current, Known, DispatchTypes,
     WorkRecord, Placed, ledgerVars, world, post, place, memory, history
<1> QED
  BY <1>1, <1>2, <1>3, <1>4, <1>5, <1>6, <1>7 DEF DispatchInv

\* A receipt says a letter was read (observe): the parts that need the step taken apart.
LEMMA ConsumedParts ==
  ASSUME DispatchInv, Consumed
  PROVE  DispatchTypes'
<1> USE DEF DispatchInv
<1>1. notifying' \subseteq notifying /\ minted' = minted /\ events' \subseteq events /\ batch' = batch /\ work' = work
  BY DEF Consumed, Acknowledge, place
<1> QED BY <1>1 DEF Consumed, DispatchTypes, world, place, history

\* A receipt says a letter was read (observe).
LEMMA ConsumedKeeps ==
  ASSUME DispatchInv, Consumed
  PROVE  DispatchInv'
<1>1. DispatchTypes'
  BY ConsumedParts
<1>2. Placed'
  BY DispatcherAssumption, HereKept, HereIn DEF Consumed, Reading, Acknowledge,
     DispatchInv, Placed, DispatchTypes, ledgerVars, world, post, place, memory, history
<1>3. Known'
  BY DispatcherAssumption, HereKept, HereIn DEF Consumed, Reading, Acknowledge,
     DispatchInv, Known, DispatchTypes, WorkRecord, Placed, Live, Reported, ledgerVars,
     world, post, place, memory, history
<1>4. InstructedOnce'
  BY DispatcherAssumption, HereKept, HereIn DEF Consumed, Reading, Acknowledge,
     DispatchInv, InstructedOnce, DispatchTypes, Placed, Known, Reported, ledgerVars,
     world, post, place, memory, history
<1>5. Reported'
  BY DispatcherAssumption, HereKept, HereIn DEF Consumed, Reading, Acknowledge,
     DispatchInv, Reported, Placed, InstructedOnce, DispatchTypes, Known, ledgerVars,
     world, post, place, memory, history
<1>6. Contemporary'
  BY DispatcherAssumption, HereKept, HereIn DEF Consumed, Reading, Acknowledge,
     DispatchInv, Contemporary, Live, Current, Known, DispatchTypes, WorkRecord, Placed,
     ledgerVars, world, post, place, memory, history
<1>7. SettlesAlone'
  BY DispatcherAssumption, HereKept, HereIn DEF Consumed, Reading, Acknowledge,
     DispatchInv, SettlesAlone, Hiring, Live, Placed, GateShut, Interrupted, Fenced,
     DispatchTypes, WorkRecord, ledgerVars, world, post, place, memory, history
<1>8. AuditorsEmployed'
  BY DispatcherAssumption, HereKept, HereIn DEF Consumed, Reading, Acknowledge,
     DispatchInv, AuditorsEmployed, Placed, Known, DispatchTypes, WorkRecord, ledgerVars,
     world, post, place, memory, history
<1>9. InterruptionForgets'
  BY DispatcherAssumption, HereKept, HereIn DEF Consumed, Reading, Acknowledge,
     DispatchInv, InterruptionForgets, SettlesAlone, Contemporary, Live, Current, Known,
     DispatchTypes, WorkRecord, Placed, ledgerVars, world, post, place, memory, history
<1> QED
  BY <1>1, <1>2, <1>3, <1>4, <1>5, <1>6, <1>7, <1>8, <1>9 DEF DispatchInv

\* An instruction cannot be delivered (instruct): the parts that need the step taken apart.
LEMMA InstructFailsParts ==
  ASSUME DispatchInv, InstructFails
  PROVE  DispatchTypes'
<1> USE DEF DispatchInv
<1>1. Here \in batch /\ Here.work \in Work
  BY HereIn DEF InstructFails, Placed, DispatchTypes
<1> QED
  BY <1>1 DEF DispatchTypes, InstructFails, Pass, ledgerVars, world, post, history

\* An instruction cannot be delivered (instruct).
LEMMA InstructFailsKeeps ==
  ASSUME DispatchInv, InstructFails
  PROVE  DispatchInv'
<1>1. DispatchTypes'
  BY InstructFailsParts
<1>2. Placed'
  BY DispatcherAssumption, HereIn DEF InstructFails, Pass, DispatchInv, Placed,
     DispatchTypes, ledgerVars, world, post, place, memory, history
<1>3. Known'
  BY DispatcherAssumption, HereIn DEF InstructFails, Pass, DispatchInv, Known,
     DispatchTypes, WorkRecord, Placed, Live, Reported, ledgerVars, world, post, place,
     memory, history
<1>4. InstructedOnce'
  BY DispatcherAssumption, HereIn DEF InstructFails, Pass, DispatchInv, InstructedOnce,
     DispatchTypes, Placed, Known, Reported, ledgerVars, world, post, place, memory, history
<1>5. Reported'
  BY DispatcherAssumption, HereIn DEF InstructFails, Pass, DispatchInv, Reported, Placed,
     InstructedOnce, DispatchTypes, Known, ledgerVars, world, post, place, memory, history
<1>6. Contemporary'
  BY DispatcherAssumption, HereIn DEF InstructFails, Pass, DispatchInv, Contemporary, Live,
     Current, Known, DispatchTypes, WorkRecord, Placed, ledgerVars, world, post, place,
     memory, history
<1>7. SettlesAlone'
  BY DispatcherAssumption, HereIn DEF InstructFails, Pass, DispatchInv, SettlesAlone,
     Hiring, Live, Placed, GateShut, Interrupted, Fenced, DispatchTypes, WorkRecord,
     ledgerVars, world, post, place, memory, history
<1>8. AuditorsEmployed'
  BY DispatcherAssumption, HereIn DEF InstructFails, Pass, DispatchInv, AuditorsEmployed,
     Placed, Known, DispatchTypes, WorkRecord, ledgerVars, world, post, place, memory,
     history
<1>9. InterruptionForgets'
  BY DispatcherAssumption, HereIn DEF InstructFails, Pass, DispatchInv,
     InterruptionForgets, SettlesAlone, Contemporary, Live, Current, Known, DispatchTypes,
     WorkRecord, Placed, ledgerVars, world, post, place, memory, history
<1> QED
  BY <1>1, <1>2, <1>3, <1>4, <1>5, <1>6, <1>7, <1>8, <1>9 DEF DispatchInv

\* Failures found in the mail are reported once each.
LEMMA FailuresReported ==
  ASSUME DispatchInv, NEW ws \in SUBSET delivered, pc = "select", ReportFailures(ws),
         UNCHANGED <<ledgerVars, world, batch, hired, voicing, delivered, history>>,
            notifying' \subseteq notifying
  PROVE  DispatchTypes' /\ Reported' /\ Placed'
<1> USE DEF DispatchInv
<1>1. voicing = NoWork /\ telling = {} /\ batch = {} /\ hired = NoWork
  BY DEF Placed
<1>5. UNCHANGED <<told, letters, born, settles, voicing, hired, batch, events, work,
   minted, inside, life, delivered>>
  BY DEF ledgerVars, world, history
<1>2. telling' = ws \ failed /\ failed' = failed \cup ws
  BY DEF ReportFailures, Failures
<1>6. ASSUME NEW w \in telling' PROVE w \in failed' /\ told[w] = 0 /\ w # NoWork /\ w \in Work
  <2>1. w \in delivered /\ w \notin failed /\ w \in Work
    BY <1>2, <1>6 DEF DispatchTypes
  <2>2. ~ (told[w] > 0)
    BY <2>1 DEF Reported
  <2>3. told[w] \in Nat
    BY <2>1 DEF DispatchTypes
  <2> QED
    BY <1>2, <2>1, <2>2, <2>3, DispatcherAssumption
<1>3. Reported'
  BY <1>1, <1>2, <1>5, <1>6 DEF Reported, DispatchTypes
<1>4. DispatchTypes'
  BY <1>1, <1>2, <1>5 DEF DispatchTypes
<1> QED
  BY <1>1, <1>2, <1>3, <1>4, <1>5 DEF Placed, ReportFailures, Failures


\* A receipt says an instruction was returned (observe).
LEMMA UndeliveredKeeps ==
  ASSUME DispatchInv, Undelivered
  PROVE  DispatchInv'
<1>1. PICK ws \in SUBSET delivered : ReportFailures(ws)
  BY DEF Undelivered
<1>2. pc = "select" /\ notifying' \subseteq notifying
  BY DEF Undelivered, Reading
<1>3. DispatchTypes' /\ Reported' /\ Placed'
  BY <1>1, <1>2, FailuresReported DEF Undelivered
<1>4. Known'
  BY DispatcherAssumption, HereKept DEF Undelivered, Reading, ReportFailures, Failures,
     DispatchInv, Known, DispatchTypes, WorkRecord, Placed, Live, Reported, ledgerVars,
     world, post, place, memory, history
<1>5. InstructedOnce'
  BY DispatcherAssumption, HereKept DEF Undelivered, Reading, ReportFailures, Failures,
     DispatchInv, InstructedOnce, DispatchTypes, Placed, Known, Reported, ledgerVars,
     world, post, place, memory, history
<1>6. Contemporary'
  BY DispatcherAssumption, HereKept DEF Undelivered, Reading, ReportFailures, Failures,
     DispatchInv, Contemporary, Live, Current, Known, DispatchTypes, WorkRecord, Placed,
     ledgerVars, world, post, place, memory, history
<1>7. SettlesAlone'
  BY DispatcherAssumption, HereKept DEF Undelivered, Reading, ReportFailures, Failures,
     DispatchInv, SettlesAlone, Hiring, Live, Placed, GateShut, Interrupted, Fenced,
     DispatchTypes, WorkRecord, ledgerVars, world, post, place, memory, history
<1>8. AuditorsEmployed'
  BY DispatcherAssumption, HereKept DEF Undelivered, Reading, ReportFailures, Failures,
     DispatchInv, AuditorsEmployed, Placed, Known, DispatchTypes, WorkRecord, ledgerVars,
     world, post, place, memory, history
<1>9. InterruptionForgets'
  BY DispatcherAssumption, HereKept DEF Undelivered, Reading, ReportFailures, Failures,
     DispatchInv, InterruptionForgets, SettlesAlone, Contemporary, Live, Current, Known,
     DispatchTypes, WorkRecord, Placed, ledgerVars, world, post, place, memory, history
<1> QED
  BY <1>3, <1>4, <1>5, <1>6, <1>7, <1>8, <1>9 DEF DispatchInv

\* An agent exited (observe).
LEMMA AgentExitedKeeps ==
  ASSUME DispatchInv, AgentExited
  PROVE  DispatchInv'
<1>1. PICK ws \in SUBSET delivered : ReportFailures(ws)
  BY DEF AgentExited
<1>2. pc = "select" /\ notifying' \subseteq notifying
  BY DEF AgentExited, Reading
<1>3. DispatchTypes' /\ Reported' /\ Placed'
  BY <1>1, <1>2, FailuresReported DEF AgentExited
<1>4. Known'
  BY DispatcherAssumption, HereKept DEF AgentExited, Reading, ReportFailures, Failures,
     DispatchInv, Known, DispatchTypes, WorkRecord, Placed, Live, Reported, ledgerVars,
     world, post, place, memory, history
<1>5. InstructedOnce'
  BY DispatcherAssumption, HereKept DEF AgentExited, Reading, ReportFailures, Failures,
     DispatchInv, InstructedOnce, DispatchTypes, Placed, Known, Reported, ledgerVars,
     world, post, place, memory, history
<1>6. Contemporary'
  BY DispatcherAssumption, HereKept DEF AgentExited, Reading, ReportFailures, Failures,
     DispatchInv, Contemporary, Live, Current, Known, DispatchTypes, WorkRecord, Placed,
     ledgerVars, world, post, place, memory, history
<1>7. SettlesAlone'
  BY DispatcherAssumption, HereKept DEF AgentExited, Reading, ReportFailures, Failures,
     DispatchInv, SettlesAlone, Hiring, Live, Placed, GateShut, Interrupted, Fenced,
     DispatchTypes, WorkRecord, ledgerVars, world, post, place, memory, history
<1>8. AuditorsEmployed'
  BY DispatcherAssumption, HereKept DEF AgentExited, Reading, ReportFailures, Failures,
     DispatchInv, AuditorsEmployed, Placed, Known, DispatchTypes, WorkRecord, ledgerVars,
     world, post, place, memory, history
<1>9. InterruptionForgets'
  BY DispatcherAssumption, HereKept DEF AgentExited, Reading, ReportFailures, Failures,
     DispatchInv, InterruptionForgets, SettlesAlone, Contemporary, Live, Current, Known,
     DispatchTypes, WorkRecord, Placed, ledgerVars, world, post, place, memory, history
<1> QED
  BY <1>3, <1>4, <1>5, <1>6, <1>7, <1>8, <1>9 DEF DispatchInv

\* The invariant survives an operation of the ledger.
LEMMA OperationKeeps ==
  ASSUME DispatchInv, Operation
  PROVE  DispatchInv'
<1>1. CASE \E w \in Work : SubmitAudit(w)
  BY <1>1, SubmitAuditKeeps
<1>2. CASE \E w \in Work : Cancel(w)
  BY <1>2, CancelKeeps
<1>3. CASE \E w \in Work, a \in Worker : AssignWork(w, a)
  BY <1>3, AssignWorkKeeps
<1> USE DispatcherAssumption, HereIn, HereKept
    DEF DispatchInv, DispatchTypes, Placed, Known, InstructedOnce, Reported, Contemporary,
       SettlesAlone,
             AuditorsEmployed, InterruptionForgets,
        ledgerVars, world, post, place, memory, history,
        Live, Current, Hiring, GateShut, Interrupted, Fenced, WorkRecord, WorkState, Agent,
           Unassigned
<1>4. CASE \E a \in Agent : End(a)
  BY <1>4 DEF End
<1>5. CASE \E w \in Work : Submit(w)
  BY <1>5 DEF Submit, Commit, Operating, Operated, Event, Live, WorkRecord, WorkState,
     Hiring
<1> QED
  BY ONLY DispatchInv, Operation, <1>1, <1>2, <1>3, <1>4, <1>5 DEF Operation

\* The invariant survives the interruption.
LEMMA InterruptionKeeps ==
  ASSUME DispatchInv, Interruption
  PROVE  DispatchInv'
<1> USE DispatcherAssumption, HereIn, HereKept
    DEF DispatchInv, DispatchTypes, Placed, Known, InstructedOnce, Reported, Contemporary,
       SettlesAlone,
             AuditorsEmployed, InterruptionForgets,
        ledgerVars, world, post, place, memory, history,
        Live, Current, Hiring, GateShut, Interrupted, Fenced, WorkRecord, WorkState, Agent,
           Unassigned
<1>1. CASE Suspend
  BY <1>1 DEF Suspend
<1>2. CASE Fence
  BY <1>2 DEF Fence
<1>3. CASE AskSettle
  BY <1>3 DEF AskSettle, Hiring
<1>4. CASE ResumeInterrupted
  BY <1>4 DEF ResumeInterrupted
<1>5. CASE SendReturns
  BY <1>5 DEF SendReturns
<1>6. CASE \E a \in Agent : DiscardMail(a)
  BY <1>6 DEF DiscardMail
<1> QED
  BY ONLY DispatchInv, Interruption, <1>1, <1>2, <1>3, <1>4, <1>5, <1>6 DEF Interruption

\* The invariant survives the drain, up to the reports of failures.
LEMMA DeliveringKeeps ==
  ASSUME DispatchInv, Delivering
  PROVE  DispatchInv'
<1>1. CASE DrainForOwner
  BY <1>1, DrainForOwnerKeeps
<1>2. CASE DrainCancelled
  BY <1>2, DrainCancelledKeeps
<1>3. CASE Instruct
  BY <1>3, InstructKeeps
<1>4. CASE InstructFails
  BY <1>4, InstructFailsKeeps
<1> USE DispatcherAssumption, HereIn, HereKept
    DEF DispatchInv, DispatchTypes, Placed, Known, InstructedOnce, Reported, Contemporary,
       SettlesAlone,
             AuditorsEmployed, InterruptionForgets,
        ledgerVars, world, post, place, memory, history,
        Live, Current, Hiring, GateShut, Interrupted, Fenced, WorkRecord, WorkState, Agent,
           Unassigned
<1>5. CASE WakeUp
  BY <1>5 DEF WakeUp
<1>6. CASE Hold
  BY <1>6 DEF Hold
<1>7. CASE Drained
  BY <1>7 DEF Drained
<1>8. CASE DrainSuperseded
  BY <1>8 DEF DrainSuperseded, Draining, DropEvent, Acknowledge, Pass
<1>9. CASE DrainAttempted
  BY <1>9 DEF DrainAttempted, Draining, KeepEvent, Pass
<1>10. CASE DrainAssigned
  BY <1>10 DEF DrainAssigned, Draining, KeepEvent
<1>11. CASE Tell
  BY <1>11, SMTT(30) DEF Tell, Deliver, Deliverable, Letter
<1>12. CASE AllTold
  BY <1>12 DEF AllTold
<1>13. CASE \E w \in Work : TellSuperseded(w)
  BY <1>13 DEF TellSuperseded
<1>14. CASE \E w \in Work : TellBegins(w)
  BY <1>14 DEF TellBegins, Current, Live, WorkRecord
<1> QED
  BY ONLY DispatchInv, Delivering, <1>1, <1>2, <1>3, <1>4, <1>5, <1>6, <1>7, <1>8, <1>9,
     <1>10, <1>11, <1>12, <1>13, <1>14 DEF Delivering

\* The invariant survives an audit assigned for the owner.
LEMMA AuditingKeeps ==
  ASSUME DispatchInv, Auditing
  PROVE  DispatchInv'
<1>1. CASE AuditFailed
  BY <1>1, AuditFailedKeeps
<1>2. CASE AssignAudit
  BY <1>2, AssignAuditKeeps
<1> USE DispatcherAssumption, HereIn, HereKept
    DEF DispatchInv, DispatchTypes, Placed, Known, InstructedOnce, Reported, Contemporary,
       SettlesAlone,
             AuditorsEmployed, InterruptionForgets,
        ledgerVars, world, post, place, memory, history,
        Live, Current, Hiring, GateShut, Interrupted, Fenced, WorkRecord, WorkState, Agent,
           Unassigned
<1>3. CASE DrainReview
  BY <1>3 DEF DrainReview, Draining, KeepEvent
<1>4. CASE AuditNeedless
  BY <1>4 DEF AuditNeedless, DropEvent, Acknowledge, Pass
<1>5. CASE AuditRefused
  BY <1>5 DEF AuditRefused, Hiring, Agent
<1>6. CASE AuditBegins
  BY <1>6 DEF AuditBegins, GateShut, Interrupted, Fenced, Hiring, Agent
<1>7. CASE CreateAuditor
  BY <1>7 DEF CreateAuditor, Hiring, Agent
<1>8. CASE CreateFails
  BY <1>8 DEF CreateFails
<1>9. CASE Register
  BY <1>9 DEF Register, Hiring, Agent
<1>10. CASE RegisterFails
  BY <1>10 DEF RegisterFails, Dismiss, Hiring, Agent
<1>11. CASE AssignAuditFails
  BY <1>11 DEF AssignAuditFails, Dismiss, Hiring, Agent
<1> QED
  BY ONLY DispatchInv, Auditing, <1>1, <1>2, <1>3, <1>4, <1>5, <1>6, <1>7, <1>8, <1>9,
     <1>10, <1>11 DEF Auditing

\* The invariant survives receipts, exits and the drain of an interruption.
LEMMA ObservingKeeps ==
  ASSUME DispatchInv, Observing
  PROVE  DispatchInv'
<1>1. CASE Consumed
  BY <1>1, ConsumedKeeps
<1>2. CASE Undelivered
  BY <1>2, UndeliveredKeeps
<1>3. CASE AgentExited
  BY <1>3, AgentExitedKeeps
<1> USE DispatcherAssumption, HereIn, HereKept
    DEF DispatchInv, DispatchTypes, Placed, Known, InstructedOnce, Reported, Contemporary,
       SettlesAlone,
             AuditorsEmployed, InterruptionForgets,
        ledgerVars, world, post, place, memory, history,
        Live, Current, Hiring, GateShut, Interrupted, Fenced, WorkRecord, WorkState, Agent,
           Unassigned
<1>4. CASE Ignore
  BY <1>4 DEF Ignore
<1>5. CASE InterruptDrain
  BY <1>5, EndingsNumbered DEF InterruptDrain, Live
<1> QED
  BY ONLY DispatchInv, Observing, <1>1, <1>2, <1>3, <1>4, <1>5 DEF Observing

\* The invariant survives an agent reads its mail or exits.
LEMMA MailKeeps ==
  ASSUME DispatchInv, NEW a \in Agent, Consume(a) \/ Exit(a)
  PROVE  DispatchInv'
<1> USE DispatcherAssumption, HereIn, HereKept
    DEF DispatchInv, DispatchTypes, Placed, Known, InstructedOnce, Reported, Contemporary,
       SettlesAlone,
             AuditorsEmployed, InterruptionForgets,
        ledgerVars, world, post, place, memory, history,
        Live, Current, Hiring, GateShut, Interrupted, Fenced, WorkRecord, WorkState, Agent,
           Unassigned
<1>1. CASE Consume(a)
  BY <1>1 DEF Consume
<1>2. CASE Exit(a)
  BY <1>2 DEF Exit
<1> QED
  BY <1>1, <1>2

----------------------------------------------------------------------------
(* The theorems.                                                            *)

\* The invariant holds at the start.
LEMMA InitKeeps == Init => DispatchInv
  BY DispatcherAssumption
  DEF Init, DispatchInv, DispatchTypes, WorkRecord, WorkState, Agent, Unassigned, Placed,
     Known,
      InstructedOnce, Reported, Contemporary, Live, SettlesAlone, Hiring, AuditorsEmployed,
      InterruptionForgets

\* Every step keeps it.
LEMMA NextKeeps == DispatchInv /\ [Next]_vars => DispatchInv'
<1> SUFFICES ASSUME DispatchInv, [Next]_vars PROVE DispatchInv'
  OBVIOUS
<1>1. CASE Next
  BY <1>1, OperationKeeps, InterruptionKeeps, DeliveringKeeps, AuditingKeeps,
     ObservingKeeps, MailKeeps
  DEF Next, Dispatching
<1>2. CASE UNCHANGED vars
  BY <1>2, HereKept DEF vars, ledgerVars, world, post, place, memory, history, DispatchInv,
     DispatchTypes, Placed, Known, InstructedOnce, Reported, Contemporary, Live,
        SettlesAlone, Hiring,
     AuditorsEmployed, InterruptionForgets
<1> QED
  BY <1>1, <1>2

\* The inductive invariant of the dispatcher (session.go, operations.go, interrupt.go): what
\* it holds fits where it is, each assignment is tried once, what it reports failed and was
\* not reported, and all it speaks of dates from after the last interruption.
THEOREM DispatchInvariant == Spec => []DispatchInv
<1>1. Init => DispatchInv
  BY InitKeeps
<1>2. DispatchInv /\ [Next]_vars => DispatchInv'
  BY NextKeeps
<1> QED
  BY <1>1, <1>2, PTL DEF Spec

\* No failure of an assignee is told twice, whichever of a refused delivery, a returned
\* message and an exit reveals it first, and no auditor the workflow created idles.
THEOREM DispatchAlwaysTidy == Spec => []DispatchIsTidy
<1>1. DispatchInv => DispatchIsTidy
  BY DEF DispatchInv, Reported, DispatchIsTidy, ToldOnce
<1> QED
  BY <1>1, DispatchInvariant, PTL

\* The dispatcher never speaks of work that an interruption ended, and once one has
\* settled nothing is live or pending.
THEOREM InterruptionAlwaysForgets == Spec => []InterruptionForgets
<1>1. DispatchInv => InterruptionForgets
  BY DEF DispatchInv
<1> QED
  BY <1>1, DispatchInvariant, PTL
=============================================================================
