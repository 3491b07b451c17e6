------------------------------ MODULE ScanPhases -----------------------------
(***************************************************************************)
(* What the worker pool promises the scan loop: work comes in batches, a   *)
(* batch visits each of its ranges exactly once, and nothing else happens  *)
(* to a range - no new collection, no new configuration, no next batch -   *)
(* before all of them were visited.  Threads, queues and the order of the  *)
(* visits do not appear.                                                   *)
(***************************************************************************)
EXTENDS Naturals

CONSTANTS Ranges

VARIABLES
  ranges,  \* the ranges of the current period
  kind,    \* what the batch in progress does, or "none"
  todo,    \* the ranges it has not visited yet
  walks,   \* successful walks of each range in this period
  broken   \* ranges with a walk that failed

phaseVars == <<ranges, kind, todo, walks, broken>>

Init ==
  /\ ranges = {} /\ kind = "none" /\ todo = {}
  /\ walks = [r \in Ranges |-> 0] /\ broken = {}

\* A new period: between batches only.
Collect ==
  /\ kind = "none"
  /\ ranges' \in SUBSET Ranges
  /\ walks' = [r \in Ranges |-> 0] /\ broken' = {}
  /\ UNCHANGED <<kind, todo>>

Begin ==
  /\ kind = "none" /\ ranges # {}
  /\ kind' \in {"walk", "migrate"}
  /\ todo' = ranges
  /\ UNCHANGED <<ranges, walks, broken>>

Visit(r) ==
  /\ r \in todo
  /\ todo' = todo \ {r}
  /\ \/ kind = "walk" /\ walks' = [walks EXCEPT ![r] = @ + 1] /\ broken' \in {broken, broken \cup {r}}
     \/ kind = "walk" /\ broken' = broken \cup {r} /\ UNCHANGED walks
     \/ kind = "migrate" /\ UNCHANGED <<walks, broken>>
  /\ UNCHANGED <<ranges, kind>>

\* The barrier at the end of a batch.
End ==
  /\ kind # "none" /\ todo = {}
  /\ kind' = "none"
  /\ UNCHANGED <<ranges, todo, walks, broken>>

Next == Collect \/ Begin \/ (\E r \in Ranges : Visit(r)) \/ End

Spec == Init /\ [][Next]_phaseVars
==============================================================================
