------------------------------- MODULE NudgeJobs -------------------------------
(***************************************************************************)
(* What nudge promises about a job, whatever the daemon, the disk and the  *)
(* clients do: it is accepted once, under an id no job had before, stays   *)
(* pending until something ends it, and once ended never comes back.  An   *)
(* edit ends one job and accepts another in a single step, so there is no  *)
(* moment with both of them pending, and none with neither.                *)
(***************************************************************************)
EXTENDS Naturals

CONSTANT MaxId   \* bound: ids handed out, a natural number

VARIABLE life

Ids == 1 .. MaxId

TypeOK == life \in [Ids -> {"unborn", "pending", "done"}]

Init == life = [i \in Ids |-> "unborn"]

\* Ids are handed out in order.
IsNext(i) ==
  /\ life[i] = "unborn"
  /\ \A k \in Ids : k < i => life[k] # "unborn"

Accept(i) ==
  /\ IsNext(i)
  /\ life' = [life EXCEPT ![i] = "pending"]

Swap(old, new) ==
  /\ life[old] = "pending"
  /\ IsNext(new)
  /\ life' = [life EXCEPT ![old] = "done", ![new] = "pending"]

\* Fired for the last time, cancelled, or dropped as stale; a pass may drop
\* several.
Retire(S) ==
  /\ \A i \in S : life[i] = "pending"
  /\ life' = [i \in Ids |-> IF i \in S THEN "done" ELSE life[i]]

Next ==
  \/ \E i \in Ids : Accept(i)
  \/ \E old, new \in Ids : Swap(old, new)
  \/ \E S \in SUBSET Ids : Retire(S)

Spec == Init /\ [][Next]_life
=============================================================================
