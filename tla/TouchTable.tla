-------------------------------- MODULE TouchTable --------------------------------
(***************************************************************************)
(* What a client of the multi-touch interface relies on: a table with one  *)
(* contact per slot, which a report updates entry by entry.  An entry with *)
(* a tracking id other than 0 sets the slot's contact (-1 lifts it), one   *)
(* with an id of at least 0 moves it.  Nothing is promised after a report  *)
(* outside of the limits or an interference.                               *)
(***************************************************************************)
EXTENDS Integers, Sequences, FiniteSetsExt

CONSTANTS
    Slots,     \* the slots of the device
    Reports    \* the reports clients send: sequences of entries

VARIABLES
    touches,   \* [Slots -> [id, x, y]]
    last,      \* the report that was made last
    intact     \* the table can still be relied upon

vars == <<touches, last, intact>>

Untouched == [id |-> -1, x |-> 0, y |-> 0]

Init == touches = [s \in Slots |-> Untouched] /\ last = <<>> /\ intact = TRUE

\* Ids are of 15 bits, and -1.
Ids == -1..32767

Lawful(r) == \A i \in DOMAIN r : r[i].slot \in Slots /\ r[i].id \in Ids

\* The positions of the report's entries for slot s that set its contact, or
\* that move it.
Setting(r, s) == {i \in DOMAIN r : r[i].slot = s /\ r[i].id # 0}
Moving(r, s) == {i \in DOMAIN r : r[i].slot = s /\ r[i].id >= 0}

\* The value that the entries of r at the given positions leave in a field.
Latest(r, places, field, old) ==
    IF places = {} THEN old ELSE r[Max(places)][field]

\* For each slot the last entry that says something wins.
Updated(r) ==
    [s \in Slots |->
        [id |-> Latest(r, Setting(r, s), "id", touches[s].id),
         x |-> Latest(r, Moving(r, s), "x", touches[s].x),
         y |-> Latest(r, Moving(r, s), "y", touches[s].y)]]

Report(r) ==
    /\ last' = r
    /\ intact' = (intact /\ Lawful(r))
    /\ intact' => touches' = Updated(r)

\* A raw event, or a call that fails.
Interference == ~intact'

\* The device is removed.
Reset ==
    touches' = [s \in Slots |-> Untouched] /\ last' = <<>> /\ UNCHANGED intact

\* A request that is not a report.
Other == last' = <<>> /\ UNCHANGED <<touches, intact>>

Next == (\E r \in Reports : Report(r)) \/ Other \/ Interference \/ Reset

Spec == Init /\ [][Next]_vars
===================================================================================
