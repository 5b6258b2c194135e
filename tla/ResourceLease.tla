---------------------------- MODULE ResourceLease ----------------------------
(***************************************************************************)
(* What store.go promises of claims, without rows, tokens or clocks: a      *)
(* resource has at most one reader, a reader starts only on a free resource *)
(* and reads one resource at a time, and any reader may leave at any time   *)
(* (settled, expired, revoked or killed).  There is no step that passes a   *)
(* resource from one reader to another.                                     *)
(***************************************************************************)
CONSTANTS Resources, Readers

VARIABLE readers  \* readers[r]: who works on resource r now

Init == readers = [r \in Resources |-> {}]

Begin(w, r) ==
  /\ readers[r] = {}
  /\ \A s \in Resources : w \notin readers[s]
  /\ readers' = [readers EXCEPT ![r] = {w}]

\* Several readers leave at once when the process dies or the clock advances.
Leave ==
  /\ readers' \in [Resources -> SUBSET Readers]
  /\ \A r \in Resources : readers'[r] \subseteq readers[r]

Next == Leave \/ \E w \in Readers, r \in Resources : Begin(w, r)

Spec == Init /\ [][Next]_readers

=============================================================================
