-------------------------- MODULE MCRoomInventory --------------------------
(* Instances of RoomInventory for TLC. *)
EXTENDS RoomInventory, TLC

Symmetry ==
    Permutations(Rooms) \cup Permutations(Hubs) \cup Permutations(Items)
    \cup Permutations(Keys) \cup Permutations(Requests)

(***************************************************************************)
(* All tables at once are too many states.  Three scenes say which of them *)
(* vary together; within a scene everything interleaves.                   *)
(***************************************************************************)
OnlyOps(ops) == \A q \in Requests : req[q].op \in ops \cup {"idle"}
NothingMeasured == RowsOf(labels) = {} /\ RowsOf(placements) = {}
OneLength == \E d \in Dims : RowsOf(rooms) \subseteq {d} /\ \A e \in Dims : d <= e

\* Rooms, labels, hubs and placements.
Measuring ==
    /\ RowsOf(items) = {} /\ RowsOf(seen) = {0}
    /\ OnlyOps({"editRoom", "removeRoom", "addLabel", "claim", "editHub", "removeHub"})

\* Rooms of one length, hubs, readings, and one request about items.
Tracking ==
    /\ NothingMeasured /\ OneLength /\ objects = {}
    /\ OnlyOps({"removeRoom", "claim", "editHub", "removeHub", "ingest", "gateway", "addItem",
                "editItem", "removeItem"})
    /\ \A q \in Requests : req[q].op = "editHub" => req[q].sum = Null
    /\ Cardinality({q \in Requests : req[q].op \in {"addItem", "editItem", "removeItem"}}) <= 1

\* Requests about items and pictures in one room.
Picturing ==
    /\ NothingMeasured /\ OneLength /\ Cardinality({r \in Rooms : rooms[r] # Null}) = 1
    /\ \A i \in Items : items[i] # Null => items[i].home = Null /\ items[i].seenAt <= 1
    /\ OnlyOps({"editItem", "removeItem", "putImage"})
    /\ \A q \in Requests : req[q].op = "editItem" => req[q].home = Null

\* A behaviour is followed until its second fault, that of Tracking until its first.
Scenes ==
    /\ Measuring \/ Tracking \/ Picturing
    /\ Cardinality(Faults) <= (IF Measuring \/ Picturing THEN 1 ELSE 0)

=============================================================================
