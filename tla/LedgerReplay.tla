---------------------------- MODULE LedgerReplay ----------------------------
(***************************************************************************)
(* What a reader of the accepted event log may see of the work ledger: the *)
(* records as they stand between two mutations, never in the middle of     *)
(* one.  The log lags by at most one mutation; if that mutation cannot be  *)
(* published, it never shows and no other follows it.                      *)
(***************************************************************************)
EXTENDS Integers

CONSTANT Record

VARIABLES
  live,     \* the version of each record in the store
  view,     \* the version the log's changes give
  frozen    \* a publication has failed

vars == <<live, view, frozen>>

Init ==
  /\ live = [r \in Record |-> 0]
  /\ view = live
  /\ frozen = FALSE

Mutate(changed) ==
  /\ ~frozen /\ view = live
  /\ live' = [r \in Record |-> IF r \in changed THEN live[r] + 1 ELSE live[r]]
  /\ UNCHANGED <<view, frozen>>

\* The mutation becomes visible whole.
Show == ~frozen /\ view # live /\ view' = live /\ UNCHANGED <<live, frozen>>

Freeze == ~frozen /\ view # live /\ frozen' = TRUE /\ UNCHANGED <<live, view>>

Next == Show \/ Freeze \/ \E changed \in (SUBSET Record) \ {{}} : Mutate(changed)

Spec == Init /\ [][Next]_vars
============================================================================
