------------------------ MODULE RoomInventory_proofs ------------------------
(***************************************************************************)
(* Proofs about RoomInventory, for any rooms, hubs, items, labels, keys,   *)
(* lengths and distances, and any number of concurrent invocations.        *)
(***************************************************************************)
EXTENDS RoomInventory, TLAPS

-----------------------------------------------------------------------------
(***************************************************************************)
(* What an invocation holds, by its operation.                             *)
(***************************************************************************)
LEMMA Shapes ==
    ASSUME NEW r \in Request
    PROVE  /\ r.op \in {"idle", "editRoom", "removeRoom", "addLabel", "claim", "editHub", "removeHub",
                        "ingest", "gateway", "addItem", "editItem", "removeItem", "putImage"}
           /\ r.op = "idle" <=> r = Idle
           /\ r.op = "editRoom" =>
                r \in [op : {"editRoom"}, step : {"write"}, room : Rooms, was : Dims, dim : Dims]
           /\ r.op = "removeRoom" => r \in [op : {"removeRoom"}, step : {"write"}, room : Rooms]
           /\ r.op = "addLabel" =>
                r \in [op : {"addLabel"}, step : {"write"}, room : Rooms, dim : Dims, at : Spots]
           /\ r.op = "claim" => r \in [op : {"claim"}, step : {"write"}, room : Rooms]
           /\ r.op = "editHub" =>
                r \in [op : {"editHub"}, step : {"room", "write"}, hub : Hubs, was : Rooms, room : Rooms,
                       sum : Sums \cup {Null}, dim : Dims \cup {Null}]
           /\ r.op = "removeHub" => r \in [op : {"removeHub"}, step : {"write"}, hub : Hubs]
  BY DEF Request, Idle

LEMMA MoreShapes ==
    ASSUME NEW r \in Request
    PROVE  /\ r.op \in {"ingest", "gateway"} =>
                r \in [op : {"ingest", "gateway"}, step : {"write"}, hub : Hubs, room : Rooms, at : Times]
           /\ r.op = "addItem" =>
                r \in [op : {"addItem"}, step : {"hub", "seen", "write"}, room : Rooms,
                       home : Hubs \cup {Null}, seenBy : Hubs \cup {Null}, seenAt : 0..MaxTime]
           /\ r.op = "editItem" =>
                r \in [op : {"editItem"}, step : {"room", "hub", "write"}, item : Items, was : ItemRow,
                       room : Rooms, home : Hubs \cup {Null}]
           /\ r.op = "removeItem" =>
                r \in [op : {"removeItem"}, step : {"write", "object"}, item : Items, old : Keys \cup {Null}]
           /\ r.op = "putImage" =>
                r \in [op : {"putImage"}, step : {"object", "write", "delete"}, item : Items,
                       old : Keys \cup {Null}, key : Keys \cup {Null}]
  BY DEF Request, Idle

LEMMA NewRequests ==
    /\ Idle \in Request /\ Idle.op = "idle"
    /\ \A r \in Rooms, was \in Dims, d \in Dims :
         [op |-> "editRoom", step |-> "write", room |-> r, was |-> was, dim |-> d] \in Request
    /\ \A r \in Rooms : [op |-> "removeRoom", step |-> "write", room |-> r] \in Request
    /\ \A r \in Rooms, d \in Dims, at \in Spots :
         [op |-> "addLabel", step |-> "write", room |-> r, dim |-> d, at |-> at] \in Request
    /\ \A r \in Rooms : [op |-> "claim", step |-> "write", room |-> r] \in Request
    /\ \A h \in Hubs, was \in Rooms, r \in Rooms, sum \in Sums \cup {Null} :
         [op |-> "editHub", step |-> "room", hub |-> h, was |-> was, room |-> r, sum |-> sum, dim |-> Null]
           \in Request
    /\ \A h \in Hubs : [op |-> "removeHub", step |-> "write", hub |-> h] \in Request
    /\ \A op \in {"ingest", "gateway"}, h \in Hubs, r \in Rooms, at \in Times :
         [op |-> op, step |-> "write", hub |-> h, room |-> r, at |-> at] \in Request
  BY DEF Request, Idle

LEMMA NewItemRequests ==
    /\ \A step \in {"hub", "seen"}, r \in Rooms, home \in Hubs \cup {Null} :
         [op |-> "addItem", step |-> step, room |-> r, home |-> home, seenBy |-> Null, seenAt |-> 0] \in Request
    /\ \A i \in Items, was \in ItemRow, r \in Rooms, home \in Hubs \cup {Null} :
         [op |-> "editItem", step |-> "room", item |-> i, was |-> was, room |-> r, home |-> home] \in Request
    /\ \A i \in Items, k \in Keys \cup {Null} :
         /\ [op |-> "removeItem", step |-> "write", item |-> i, old |-> k] \in Request
         /\ [op |-> "putImage", step |-> "object", item |-> i, old |-> k, key |-> Null] \in Request
<1>1. 0 \in 0..MaxTime
  BY NumbersAssumption
<1> QED
  BY <1>1 DEF Request

\* One field after the other is filled in.
LEMMA Proceeds ==
    ASSUME NEW r \in Request
    PROVE  /\ r.op = "editHub" => \A d \in Dims : [r EXCEPT !.step = "write", !.dim = d] \in Request
           /\ r.op = "addItem" =>
                /\ [r EXCEPT !.step = "seen"] \in Request
                /\ \A h \in Hubs, at \in 0..MaxTime :
                     [r EXCEPT !.step = "write", !.seenBy = h, !.seenAt = at] \in Request
           /\ r.op = "editItem" =>
                [r EXCEPT !.step = "write"] \in Request /\ [r EXCEPT !.step = "hub"] \in Request
           /\ r.op = "removeItem" => [r EXCEPT !.step = "object"] \in Request
           /\ r.op = "putImage" =>
                /\ \A k \in Keys : [r EXCEPT !.step = "write", !.key = k] \in Request
                /\ [r EXCEPT !.step = "delete"] \in Request
<1>1. r.op = "editHub" => \A d \in Dims : [r EXCEPT !.step = "write", !.dim = d] \in Request
  <2>1. SUFFICES ASSUME r.op = "editHub", NEW d \in Dims, NEW e, e = [r EXCEPT !.step = "write", !.dim = d]
                 PROVE  e \in Request
    OBVIOUS
  <2>2. r \in [op : {"editHub"}, step : {"room", "write"}, hub : Hubs, was : Rooms, room : Rooms,
               sum : Sums \cup {Null}, dim : Dims \cup {Null}]
    BY <2>1, Shapes
  <2>3. e \in [op : {"editHub"}, step : {"room", "write"}, hub : Hubs, was : Rooms, room : Rooms,
               sum : Sums \cup {Null}, dim : Dims \cup {Null}]
    BY <2>1, <2>2
  <2> QED
    BY <2>3 DEF Request
<1>2. r.op = "addItem" =>
        /\ [r EXCEPT !.step = "seen"] \in Request
        /\ \A h \in Hubs, at \in 0..MaxTime :
             [r EXCEPT !.step = "write", !.seenBy = h, !.seenAt = at] \in Request
  <2>1. SUFFICES ASSUME r.op = "addItem", NEW e,
                        \/ e = [r EXCEPT !.step = "seen"]
                        \/ \E h \in Hubs, at \in 0..MaxTime :
                             e = [r EXCEPT !.step = "write", !.seenBy = h, !.seenAt = at]
                 PROVE  e \in Request
    OBVIOUS
  <2>2. r \in [op : {"addItem"}, step : {"hub", "seen", "write"}, room : Rooms,
               home : Hubs \cup {Null}, seenBy : Hubs \cup {Null}, seenAt : 0..MaxTime]
    BY <2>1, MoreShapes
  <2>3. e \in [op : {"addItem"}, step : {"hub", "seen", "write"}, room : Rooms,
               home : Hubs \cup {Null}, seenBy : Hubs \cup {Null}, seenAt : 0..MaxTime]
    BY <2>1, <2>2
  <2> QED
    BY <2>3 DEF Request
<1>3. r.op = "editItem" => [r EXCEPT !.step = "write"] \in Request /\ [r EXCEPT !.step = "hub"] \in Request
  <2>1. SUFFICES ASSUME r.op = "editItem", NEW s \in {"write", "hub"}, NEW e, e = [r EXCEPT !.step = s]
                 PROVE  e \in Request
    OBVIOUS
  <2>2. r \in [op : {"editItem"}, step : {"room", "hub", "write"}, item : Items, was : ItemRow,
               room : Rooms, home : Hubs \cup {Null}]
    BY <2>1, MoreShapes
  <2>3. e \in [op : {"editItem"}, step : {"room", "hub", "write"}, item : Items, was : ItemRow,
               room : Rooms, home : Hubs \cup {Null}]
    BY <2>1, <2>2
  <2> QED
    BY <2>3 DEF Request
<1>4. r.op = "removeItem" => [r EXCEPT !.step = "object"] \in Request
  <2>1. SUFFICES ASSUME r.op = "removeItem", NEW e, e = [r EXCEPT !.step = "object"]
                 PROVE  e \in Request
    OBVIOUS
  <2>2. r \in [op : {"removeItem"}, step : {"write", "object"}, item : Items, old : Keys \cup {Null}]
    BY <2>1, MoreShapes
  <2>3. e \in [op : {"removeItem"}, step : {"write", "object"}, item : Items, old : Keys \cup {Null}]
    BY <2>1, <2>2
  <2> QED
    BY <2>3 DEF Request
<1>5. r.op = "putImage" => /\ \A k \in Keys : [r EXCEPT !.step = "write", !.key = k] \in Request
                           /\ [r EXCEPT !.step = "delete"] \in Request
  <2>1. SUFFICES ASSUME r.op = "putImage", NEW e,
                        e = [r EXCEPT !.step = "delete"]
                          \/ \E k \in Keys : e = [r EXCEPT !.step = "write", !.key = k]
                 PROVE  e \in Request
    OBVIOUS
  <2>2. r \in [op : {"putImage"}, step : {"object", "write", "delete"}, item : Items,
               old : Keys \cup {Null}, key : Keys \cup {Null}]
    BY <2>1, MoreShapes
  <2>3. e \in [op : {"putImage"}, step : {"object", "write", "delete"}, item : Items,
               old : Keys \cup {Null}, key : Keys \cup {Null}]
    BY <2>1, <2>2
  <2> QED
    BY <2>3 DEF Request
<1> QED
  BY <1>1, <1>2, <1>3, <1>4, <1>5

-----------------------------------------------------------------------------
(***************************************************************************)
(* Types.                                                                  *)
(***************************************************************************)
LEMMA NullIsNothing ==
    /\ Null \notin Rooms /\ Null \notin Hubs /\ Null \notin Items /\ Null \notin Labels /\ Null \notin Keys
    /\ Null \notin Dims /\ Null \notin Sums
    /\ MaxTime \in Nat /\ Dims \subseteq Nat /\ Sums \subseteq Nat /\ Spots \subseteq Nat
<1>1. /\ Null \notin Rooms /\ Null \notin Hubs /\ Null \notin Items /\ Null \notin Labels /\ Null \notin Keys
  BY NullAssumption
<1>2. MaxTime \in Nat /\ Dims \subseteq Nat /\ Sums \subseteq Nat /\ Spots \subseteq Nat
  BY NumbersAssumption
<1>3. ASSUME Null \in Nat PROVE FALSE
  <2>1. \A n \in Nat : n \in Int
    OBVIOUS
  <2> QED
    BY <1>3, <2>1, NullAssumption
<1> QED
  BY <1>1, <1>2, <1>3

TablesTyped ==
    /\ rooms \in [Rooms -> Dims \cup {Null}]
    /\ labels \in [Labels -> LabelRow \cup {Null}]
    /\ hubs \in [Hubs -> Rooms \cup {Null}]
    /\ placements \in [Hubs -> Sums \cup {Null}]
    /\ seen \in [Hubs -> 0..MaxTime]
    /\ items \in [Items -> ItemRow \cup {Null}]
    /\ objects \subseteq Keys

\* What invocation q holds is replaced by e.
Turns(q, e) == req' = [req EXCEPT ![q] = e]

LEMMA Turned ==
    ASSUME req \in [Requests -> Request], NEW q \in Requests, NEW e \in Request, Turns(q, e)
    PROVE  /\ req' \in [Requests -> Request] /\ req'[q] = e
           /\ \A p \in Requests : p # q => req'[p] = req[p]
  BY DEF Turns

\* The steps of an invocation that leave the tables alone.
LEMMA ReadTyped ==
    ASSUME TypeOK, NEW q \in Requests, Reads(q)
    PROVE  UNCHANGED tables /\ \E e \in Request : Turns(q, e)
<1> USE NullIsNothing
<1>0. req[q] \in Request
  BY DEF TypeOK
<1>1. ASSUME NEW r \in Rooms, NEW d \in Dims, EditRoomRead(q, r, d)
      PROVE  UNCHANGED tables /\ \E e \in Request : Turns(q, e)
  <2>1. rooms[r] \in Dims
    BY <1>1 DEF EditRoomRead, TypeOK
  <2> QED
    BY <1>1, <2>1, NewRequests DEF EditRoomRead, Begin, Turns
<1>2. ASSUME NEW r \in Rooms, RemoveRoomCount(q, r) \/ ClaimRead(q, r)
      PROVE  UNCHANGED tables /\ \E e \in Request : Turns(q, e)
  BY <1>2, NewRequests DEF RemoveRoomCount, ClaimRead, Begin, Turns
<1>3. ASSUME NEW r \in Rooms, NEW at \in Spots, AddLabelRead(q, r, at)
      PROVE  UNCHANGED tables /\ \E e \in Request : Turns(q, e)
  <2>1. rooms[r] \in Dims
    BY <1>3 DEF AddLabelRead, TypeOK
  <2> QED
    BY <1>3, <2>1, NewRequests DEF AddLabelRead, Begin, Turns
<1>4. ASSUME NEW h \in Hubs, NEW r \in Rooms \cup {Null}, NEW sum \in Sums \cup {Null}, EditHubRead(q, h, r, sum)
      PROVE  UNCHANGED tables /\ \E e \in Request : Turns(q, e)
  <2>1. hubs[h] \in Rooms /\ (IF r = Null THEN hubs[h] ELSE r) \in Rooms
    BY <1>4 DEF EditHubRead, TypeOK
  <2> QED
    BY <1>4, <2>1, NewRequests DEF EditHubRead, Begin, Turns
<1>5. CASE EditHubRoom(q)
  <2>1. UNCHANGED tables /\ req[q].op = "editHub"
    BY <1>5 DEF EditHubRoom, At
  <2>2. CASE Done(q)
    BY <2>1, <2>2, NewRequests DEF Done, Turns
  <2>3. CASE rooms[req[q].room] # Null /\ req' = [req EXCEPT ![q].step = "write", ![q].dim = rooms[req[q].room]]
    <3>1. rooms[req[q].room] \in Dims
      BY <1>0, <2>1, <2>3, Shapes DEF TypeOK
    <3>2. PICK e \in Request : e = [req[q] EXCEPT !.step = "write", !.dim = rooms[req[q].room]]
      BY <1>0, <2>1, <3>1, Proceeds
    <3>3. Turns(q, e)
      BY <2>3, <3>2 DEF Turns, TypeOK
    <3> QED
      BY <2>1, <3>3
  <2> QED
    BY <1>5, <2>2, <2>3 DEF EditHubRoom
<1>6. ASSUME NEW h \in Hubs, RemoveHubRead(q, h)
      PROVE  UNCHANGED tables /\ \E e \in Request : Turns(q, e)
  BY <1>6, NewRequests DEF RemoveHubRead, Begin, Turns
<1>7. ASSUME NEW op \in {"ingest", "gateway"}, NEW h \in Hubs, NEW at \in Times,
             IngestRead(q, op, h, at)
      PROVE  UNCHANGED tables /\ \E e \in Request : Turns(q, e)
  <2>1. hubs[h] \in Rooms
    BY <1>7 DEF IngestRead, TypeOK
  <2> QED
    BY <1>7, <2>1, NewRequests DEF IngestRead, Begin, Turns
<1>8. ASSUME NEW r \in Rooms, NEW home \in Hubs \cup {Null}, AddItemRoom(q, r, home)
      PROVE  UNCHANGED tables /\ \E e \in Request : Turns(q, e)
  <2>1. PICK step \in {"hub", "seen"} : step = IF home = Null THEN "seen" ELSE "hub"
    OBVIOUS
  <2> QED
    BY <1>8, <2>1, NewItemRequests DEF AddItemRoom, Begin, Turns
<1>9. CASE AddItemHub(q)
  <2>1. UNCHANGED tables /\ req[q].op = "addItem"
    BY <1>9 DEF AddItemHub, At
  <2>2. PICK e \in Request : e = [req[q] EXCEPT !.step = "seen"]
    BY <1>0, <2>1, Proceeds
  <2> QED
    BY <1>9, <2>1, <2>2, NewRequests DEF AddItemHub, Done, Turns, TypeOK
<1>10. ASSUME NEW since \in Times, AddItemSeen(q, since)
       PROVE  UNCHANGED tables /\ \E e \in Request : Turns(q, e)
  <2>1. UNCHANGED tables /\ req[q].op = "addItem"
    BY <1>10 DEF AddItemSeen, At
  <2>2. CASE Done(q)
    BY <2>1, <2>2, NewRequests DEF Done, Turns
  <2>3. ASSUME NEW h \in Hubs,
               req' = [req EXCEPT ![q].step = "write", ![q].seenBy = h, ![q].seenAt = seen[h]]
        PROVE  \E e \in Request : Turns(q, e)
    <3>1. seen[h] \in 0..MaxTime
      BY DEF TypeOK
    <3>2. PICK e \in Request : e = [req[q] EXCEPT !.step = "write", !.seenBy = h, !.seenAt = seen[h]]
      BY <1>0, <2>1, <3>1, Proceeds
    <3>3. Turns(q, e)
      BY <2>3, <3>2 DEF Turns, TypeOK
    <3> QED
      BY <3>3
  <2> QED
    BY <1>10, <2>1, <2>2, <2>3 DEF AddItemSeen
<1>11. ASSUME NEW i \in Items, EditItemRead(q, i)
       PROVE  UNCHANGED tables /\ \E e \in Request : Turns(q, e)
  <2>1. items[i] \in ItemRow
    BY <1>11 DEF EditItemRead, TypeOK
  <2> QED
    BY <1>11, <2>1, NewItemRequests DEF EditItemRead, Begin, Turns
<1>12. CASE EditItemRoom(q) \/ EditItemHub(q)
  <2>1. UNCHANGED tables /\ req[q].op = "editItem"
    BY <1>12 DEF EditItemRoom, EditItemHub, At
  <2>2. PICK e \in Request : e = [req[q] EXCEPT !.step = "write"]
    BY <1>0, <2>1, Proceeds
  <2>3. PICK f \in Request : f = [req[q] EXCEPT !.step = "hub"]
    BY <1>0, <2>1, Proceeds
  <2> QED
    BY <1>12, <2>1, <2>2, <2>3, NewRequests DEF EditItemRoom, EditItemHub, Done, Turns, TypeOK
<1>13. ASSUME NEW i \in Items, RemoveItemRead(q, i) \/ PutImageRead(q, i)
       PROVE  UNCHANGED tables /\ \E e \in Request : Turns(q, e)
  <2>1. items[i].image \in Keys \cup {Null}
    BY <1>13 DEF RemoveItemRead, PutImageRead, TypeOK, ItemRow
  <2> QED
    BY <1>13, <2>1, NewItemRequests DEF RemoveItemRead, PutImageRead, Begin, Turns
<1> QED
  BY <1>1, <1>2, <1>3, <1>4, <1>5, <1>6, <1>7, <1>8, <1>9, <1>10, <1>11, <1>12, <1>13 DEF Reads

\* The rows an edit leaves have the types of the table.
LEMMA RowsTyped ==
    ASSUME NEW row \in ItemRow
    PROVE  /\ \A h \in Hubs : WithoutHub(row, h) \in ItemRow
           /\ \A r \in Rooms, home \in Hubs \cup {Null}, by \in Hubs \cup {Null}, at \in 0..MaxTime :
                [row EXCEPT !.room = r, !.home = home, !.seenBy = by, !.seenAt = at] \in ItemRow
           /\ \A k \in Keys \cup {Null} : [row EXCEPT !.image = k] \in ItemRow
           /\ \A h \in Hubs, at \in 0..MaxTime :
                [row EXCEPT !.seenBy = h, !.seenAt = at] \in ItemRow
  BY DEF ItemRow, WithoutHub

\* What a write leaves the tables, and the invocation, with.
LEMMA RoomWriteTyped ==
    ASSUME TypeOK, NEW q \in Requests, EditRoomWrite(q) \/ RemoveRoomWrite(q) \/ AddLabelWrite(q)
    PROVE  TablesTyped' /\ Turns(q, Idle)
<1> USE NullIsNothing
<1>0. req[q] \in Request
  BY DEF TypeOK
<1>1. CASE EditRoomWrite(q)
  <2>1. req[q].room \in Rooms /\ req[q].dim \in Dims
    BY <1>0, <1>1, Shapes DEF EditRoomWrite, At
  <2>2. rooms' \in [Rooms -> Dims \cup {Null}]
    BY <1>1, <2>1 DEF EditRoomWrite, TypeOK
  <2>3. placements' \in [Hubs -> Sums \cup {Null}]
    BY <1>1 DEF EditRoomWrite, TypeOK
  <2>4. labels' \in [Labels -> LabelRow \cup {Null}]
    BY <1>1 DEF EditRoomWrite, TypeOK
  <2> QED
    BY <1>1, <2>2, <2>3, <2>4 DEF EditRoomWrite, Done, Turns, TypeOK, TablesTyped
<1>2. CASE RemoveRoomWrite(q)
  <2>1. req[q].room \in Rooms
    BY <1>0, <1>2, Shapes DEF RemoveRoomWrite, At
  <2>2. rooms' \in [Rooms -> Dims \cup {Null}]
    BY <1>2, <2>1 DEF RemoveRoomWrite, TypeOK
  <2>3. labels' \in [Labels -> LabelRow \cup {Null}]
    BY <1>2 DEF RemoveRoomWrite, TypeOK
  <2> QED
    BY <1>2, <2>2, <2>3 DEF RemoveRoomWrite, Done, Turns, TypeOK, TablesTyped
<1>3. CASE AddLabelWrite(q)
  <2>1. req[q].room \in Rooms /\ req[q].at \in Spots
    BY <1>0, <1>3, Shapes DEF AddLabelWrite, At
  <2>2. [room |-> req[q].room, at |-> req[q].at] \in LabelRow
    BY <2>1 DEF LabelRow
  <2>3. labels' \in [Labels -> LabelRow \cup {Null}]
    BY <1>3, <2>2 DEF AddLabelWrite, Fresh, TypeOK
  <2> QED
    BY <1>3, <2>3 DEF AddLabelWrite, Done, Turns, TypeOK, TablesTyped
<1> QED
  BY <1>1, <1>2, <1>3

LEMMA HubWriteTyped ==
    ASSUME TypeOK, NEW q \in Requests,
           ClaimWrite(q) \/ EditHubWrite(q) \/ RemoveHubWrite(q) \/ IngestWrite(q) \/ GatewayIngestWrite(q)
    PROVE  TablesTyped' /\ Turns(q, Idle)
<1> USE NullIsNothing
<1>0. req[q] \in Request
  BY DEF TypeOK
<1>1. CASE ClaimWrite(q)
  <2>1. req[q].room \in Rooms
    BY <1>0, <1>1, Shapes DEF ClaimWrite, At
  <2>2. hubs' \in [Hubs -> Rooms \cup {Null}]
    BY <1>1, <2>1 DEF ClaimWrite, Fresh, TypeOK
  <2> QED
    BY <1>1, <2>2 DEF ClaimWrite, Done, Turns, TypeOK, TablesTyped
<1>2. CASE EditHubWrite(q)
  <2>1. req[q].hub \in Hubs /\ req[q].room \in Rooms /\ req[q].sum \in Sums \cup {Null}
    BY <1>0, <1>2, Shapes DEF EditHubWrite, At
  <2>2. hubs' \in [Hubs -> Rooms \cup {Null}]
    BY <1>2, <2>1 DEF EditHubWrite, TypeOK
  <2>3. placements[req[q].hub] \in Sums \cup {Null}
    BY <2>1 DEF TypeOK
  <2>4. placements' \in [Hubs -> Sums \cup {Null}]
    BY <1>2, <2>1, <2>3 DEF EditHubWrite, TypeOK
  <2> QED
    BY <1>2, <2>2, <2>4 DEF EditHubWrite, Done, Turns, TypeOK, TablesTyped
<1>3. CASE RemoveHubWrite(q)
  <2>1. req[q].hub \in Hubs
    BY <1>0, <1>3, Shapes DEF RemoveHubWrite, At
  <2>2. \A i \in Items : items[i] # Null => WithoutHub(items[i], req[q].hub) \in ItemRow
    BY <2>1, RowsTyped DEF TypeOK
  <2>3. items' \in [Items -> ItemRow \cup {Null}]
    BY <1>3, <2>2 DEF RemoveHubWrite
  <2>4. 0 \in 0..MaxTime
    OBVIOUS
  <2>5. /\ seen' \in [Hubs -> 0..MaxTime] /\ placements' \in [Hubs -> Sums \cup {Null}]
        /\ hubs' \in [Hubs -> Rooms \cup {Null}]
    BY <1>3, <2>1, <2>4 DEF RemoveHubWrite, TypeOK
  <2> QED
    BY <1>3, <2>3, <2>5 DEF RemoveHubWrite, Done, Turns, TypeOK, TablesTyped
<1>4. CASE IngestWrite(q) \/ GatewayIngestWrite(q)
  <2>1. req[q].hub \in Hubs /\ req[q].at \in 0..MaxTime
    BY <1>0, <1>4, MoreShapes DEF IngestWrite, GatewayIngestWrite, At, Times
  <2>2. \A i \in Items : SeenAnyTime(items[i], q) \in ItemRow \cup {Null}
    BY <2>1, RowsTyped DEF TypeOK, SeenAnyTime
  <2>7. \A i \in Items : SeenAt(items[i], q) \in ItemRow \cup {Null}
    BY <2>2 DEF TypeOK, SeenAt
  <2>3. items' \in [Items -> ItemRow \cup {Null}]
    BY <1>4, <2>2, <2>7 DEF IngestWrite, GatewayIngestWrite
  <2>4. seen[req[q].hub] \in 0..MaxTime
    BY <2>1 DEF TypeOK
  <2>5. LatestSeen(seen[req[q].hub], req[q].at) \in 0..MaxTime
    BY <2>1, <2>4 DEF LatestSeen
  <2>6. seen' \in [Hubs -> 0..MaxTime]
    BY <1>4, <2>1, <2>5 DEF IngestWrite, GatewayIngestWrite, TypeOK
  <2> QED
    BY <1>4, <2>3, <2>6 DEF IngestWrite, GatewayIngestWrite, Done, Turns, TypeOK, TablesTyped
<1> QED
  BY <1>1, <1>2, <1>3, <1>4

LEMMA ItemWriteTyped ==
    ASSUME TypeOK, NEW q \in Requests,
           AddItemWrite(q) \/ EditItemWrite(q) \/ RemoveItemWrite(q) \/ RemoveItemObject(q)
    PROVE  TablesTyped' /\ \E e \in Request : Turns(q, e)
<1> USE NullIsNothing
<1>0. req[q] \in Request
  BY DEF TypeOK
<1>1. CASE AddItemWrite(q)
  <2>1. NewItem(req[q]) \in ItemRow
    BY <1>0, <1>1, MoreShapes DEF AddItemWrite, At, NewItem, ItemRow
  <2>2. items' \in [Items -> ItemRow \cup {Null}]
    BY <1>1, <2>1 DEF AddItemWrite, Fresh, TypeOK
  <2> QED
    BY <1>1, <2>2, NewRequests DEF AddItemWrite, Done, Turns, TypeOK, TablesTyped
<1>2. CASE EditItemWrite(q)
  <2>1. /\ req[q].item \in Items /\ req[q].room \in Rooms /\ req[q].home \in Hubs \cup {Null}
        /\ req[q].was \in ItemRow
    BY <1>0, <1>2, MoreShapes DEF EditItemWrite, At
  <2>2. 0 \in 0..MaxTime
    OBVIOUS
  <2>3. SeenAfterEdit(req[q]).by \in Hubs \cup {Null} /\ SeenAfterEdit(req[q]).at \in 0..MaxTime
    BY <2>1, <2>2 DEF SeenAfterEdit, ItemRow
  <2>4. CASE items[req[q].item] = Null
    BY <1>2, <2>4, NewRequests DEF EditItemWrite, Done, Turns, TypeOK, TablesTyped
  <2>5. CASE items[req[q].item] # Null
    <3>1. items[req[q].item] \in ItemRow
      BY <2>1, <2>5 DEF TypeOK
    <3>2. PICK e \in ItemRow :
            e = [items[req[q].item] EXCEPT !.room = req[q].room, !.home = req[q].home,
                   !.seenBy = SeenAfterEdit(req[q]).by, !.seenAt = SeenAfterEdit(req[q]).at]
      BY <2>1, <2>3, <3>1, RowsTyped
    <3>3. items' = [items EXCEPT ![req[q].item] = e]
      BY <1>2, <2>5, <3>2 DEF EditItemWrite
    <3>4. items' \in [Items -> ItemRow \cup {Null}]
      BY <2>1, <3>3 DEF TypeOK
    <3> QED
      BY <1>2, <3>4, NewRequests DEF EditItemWrite, Done, Turns, TypeOK, TablesTyped
  <2> QED
    BY <2>4, <2>5
<1>3. CASE RemoveItemWrite(q)
  <2>1. req[q].item \in Items /\ req[q].op = "removeItem"
    BY <1>0, <1>3, MoreShapes DEF RemoveItemWrite, At
  <2>2. items' \in [Items -> ItemRow \cup {Null}]
    BY <1>3, <2>1 DEF RemoveItemWrite, TypeOK
  <2>3. PICK e \in Request : e = [req[q] EXCEPT !.step = "object"]
    BY <1>0, <2>1, Proceeds
  <2>4. Turns(q, e) \/ Turns(q, Idle)
    BY <1>3, <2>3 DEF RemoveItemWrite, Done, Turns, TypeOK
  <2> QED
    BY <1>3, <2>2, <2>4, NewRequests DEF RemoveItemWrite, TypeOK, TablesTyped
<1>4. CASE RemoveItemObject(q)
  BY <1>4, NewRequests DEF RemoveItemObject, DeleteOld, Done, Turns, TypeOK, TablesTyped
<1> QED
  BY <1>1, <1>2, <1>3, <1>4

LEMMA PictureWriteTyped ==
    ASSUME TypeOK, NEW q \in Requests, PutImageObject(q) \/ PutImageWrite(q) \/ PutImageDelete(q)
    PROVE  TablesTyped' /\ \E e \in Request : Turns(q, e)
<1> USE NullIsNothing
<1>0. req[q] \in Request /\ req[q].op = "putImage"
  BY DEF TypeOK, PutImageObject, PutImageWrite, PutImageDelete, At
<1>1. CASE PutImageObject(q)
  <2>1. PICK k \in NextKeys(q) :
          objects' = objects \cup {k} /\ req' = [req EXCEPT ![q].step = "write", ![q].key = k]
    BY <1>1 DEF PutImageObject
  <2>2. k \in Keys
    BY DEF NextKeys, Fresh
  <2>3. PICK e \in Request : e = [req[q] EXCEPT !.step = "write", !.key = k]
    BY <1>0, <2>2, Proceeds
  <2>4. Turns(q, e)
    BY <2>1, <2>3 DEF Turns, TypeOK
  <2> QED
    BY <1>1, <2>1, <2>2, <2>4 DEF PutImageObject, TypeOK, TablesTyped
<1>2. CASE PutImageWrite(q)
  <2>1. req[q].item \in Items /\ req[q].key \in Keys \cup {Null}
    BY <1>0, MoreShapes
  <2>2. items' \in [Items -> ItemRow \cup {Null}]
    <3>1. CASE items[req[q].item] = Null
      BY <1>2, <3>1 DEF PutImageWrite, TypeOK
    <3>2. CASE items[req[q].item] # Null
      <4>1. items[req[q].item] \in ItemRow
        BY <2>1, <3>2 DEF TypeOK
      <4>2. PICK e \in ItemRow : e = [items[req[q].item] EXCEPT !.image = req[q].key]
        BY <2>1, <4>1, RowsTyped
      <4>3. items' = [items EXCEPT ![req[q].item] = e]
        BY <1>2, <3>2, <4>2 DEF PutImageWrite
      <4> QED
        BY <2>1, <4>3 DEF TypeOK
    <3> QED
      BY <3>1, <3>2
  <2>3. PICK e \in Request : e = [req[q] EXCEPT !.step = "delete"]
    BY <1>0, Proceeds
  <2>4. Turns(q, e) \/ Turns(q, Idle)
    BY <1>2, <2>3 DEF PutImageWrite, Done, Turns, TypeOK
  <2> QED
    BY <1>2, <2>2, <2>4, NewRequests DEF PutImageWrite, TypeOK, TablesTyped
<1>3. CASE PutImageDelete(q)
  BY <1>3, NewRequests DEF PutImageDelete, DeleteOld, Done, Turns, TypeOK, TablesTyped
<1> QED
  BY <1>1, <1>2, <1>3

LEMMA TypeInit ==
    ASSUME Init
    PROVE  TypeOK
<1>1. 0 \in 0..MaxTime
  BY NumbersAssumption
<1> QED
  BY <1>1, NewRequests DEF Init, TypeOK

\* Every step of an invocation replaces what that invocation holds, and no other's.
LEMMA StepTurns ==
    ASSUME TypeOK, NEW q \in Requests, Reads(q) \/ Writes(q) \/ Fail(q)
    PROVE  TablesTyped' /\ \E e \in Request : Turns(q, e)
<1>1. TablesTyped
  BY DEF TypeOK, TablesTyped
<1>2. CASE Reads(q)
  BY <1>1, <1>2, ReadTyped DEF TablesTyped, tables
<1>3. CASE Writes(q)
  BY <1>3, RoomWriteTyped, HubWriteTyped, ItemWriteTyped, PictureWriteTyped, NewRequests DEF Writes
<1>4. CASE Fail(q)
  BY <1>1, <1>4, NewRequests DEF Fail, Done, Turns, TablesTyped, tables
<1> QED
  BY <1>2, <1>3, <1>4

LEMMA TypeStep ==
    ASSUME TypeOK, [Next]_vars
    PROVE  TypeOK'
<1>1. ASSUME NEW d \in Dims, AddRoom(d)
      PROVE  TypeOK'
  BY <1>1 DEF AddRoom, Fresh, TypeOK
<1>2. ASSUME NEW l \in Labels, RemoveLabel(l)
      PROVE  TypeOK'
  BY <1>2 DEF RemoveLabel, TypeOK
<1>3. ASSUME NEW q \in Requests, Reads(q) \/ Writes(q) \/ Fail(q)
      PROVE  TypeOK'
  <2>1. TablesTyped'
    BY <1>3, StepTurns
  <2>2. PICK e \in Request : Turns(q, e)
    BY <1>3, StepTurns
  <2>3. req' \in [Requests -> Request]
    BY <2>2, Turned DEF TypeOK
  <2> QED
    BY <2>1, <2>3 DEF TypeOK, TablesTyped
<1>4. CASE UNCHANGED vars
  BY <1>4 DEF vars, tables, TypeOK
<1> QED
  BY <1>1, <1>2, <1>3, <1>4 DEF Next

\* The rows of every table, and what every invocation holds, have the types the handlers give
\* them, in every reachable state.
THEOREM TypeCorrect == Spec => []TypeOK
<1>1. Init => TypeOK
  BY TypeInit
<1>2. TypeOK /\ [Next]_vars => TypeOK'
  BY TypeStep
<1> QED
  BY <1>1, <1>2, PTL DEF Spec

-----------------------------------------------------------------------------
(***************************************************************************)
(* Pictures.  A key that a row names is in R2 and named by that row alone; *)
(* an uploaded key is nobody's yet; a key about to be deleted is named by  *)
(* no row, and before that by the item of its invocation alone.            *)
(***************************************************************************)
Names(i, k) == items[i] # Null /\ items[i].image = k

\* Invocation r has uploaded k, deletes k next, or deletes k after its write.
Uploads(r, k) == r.op = "putImage" /\ r.step = "write" /\ r.key = k
Deletes(r, k) ==
    /\ (r.op = "removeItem" /\ r.step = "object") \/ (r.op = "putImage" /\ r.step = "delete")
    /\ r.old = k
MayDelete(r, k) ==
    /\ \/ r.op = "removeItem" /\ r.step = "write"
       \/ r.op = "putImage" /\ r.step \in {"object", "write"}
    /\ r.old = k

ImagesOK ==
    \A i \in Items, k \in Keys :
      Names(i, k) => k \in objects /\ \A j \in Items : Names(j, k) => j = i

UploadsOK ==
    \A q \in Requests, k \in Keys : Uploads(req[q], k) =>
      /\ k \in objects
      /\ \A i \in Items : ~Names(i, k)
      /\ \A p \in Requests : /\ ~Deletes(req[p], k) /\ ~MayDelete(req[p], k)
                             /\ Uploads(req[p], k) => p = q

DeletesOK ==
    \A q \in Requests, k \in Keys :
      /\ Deletes(req[q], k) => \A i \in Items : ~Names(i, k)
      /\ MayDelete(req[q], k) => \A i \in Items : Names(i, k) => i = req[q].item

PicturesOK == ImagesOK /\ UploadsOK /\ DeletesOK

IdleHolds(k) == ~Uploads(Idle, k) /\ ~Deletes(Idle, k) /\ ~MayDelete(Idle, k)

LEMMA IdleHoldsNothing ==
    ASSUME NEW k
    PROVE  IdleHolds(k)
  BY DEF IdleHolds, Idle, Uploads, Deletes, MayDelete

\* A step that names no key anew and uploads none, after which q holds e.
LEMMA NothingNamed ==
    ASSUME TypeOK, PicturesOK, NEW q \in Requests, NEW e \in Request, Turns(q, e),
           objects' = objects,
           \A i \in Items, k \in Keys : Names(i, k)' => Names(i, k),
           \A k \in Keys : /\ ~Uploads(e, k)
                           /\ Deletes(e, k) => /\ MayDelete(req[q], k)
                                               /\ \A i \in Items : ~Names(i, k)'
                           /\ MayDelete(e, k) => Names(e.item, k) /\ e.item \in Items
    PROVE  PicturesOK'
<1>1. req'[q] = e /\ \A p \in Requests : p # q => req'[p] = req[p]
  BY Turned DEF TypeOK
<1>2. ImagesOK'
  BY DEF PicturesOK, ImagesOK
<1>3. UploadsOK'
  <2>1. SUFFICES ASSUME NEW p \in Requests, NEW k \in Keys, Uploads(req'[p], k)
                 PROVE  /\ k \in objects'
                        /\ \A i \in Items : ~Names(i, k)'
                        /\ \A o \in Requests : /\ ~Deletes(req'[o], k) /\ ~MayDelete(req'[o], k)
                                               /\ Uploads(req'[o], k) => o = p
    BY DEF UploadsOK
  <2>2. p # q /\ Uploads(req[p], k)
    BY <1>1, <2>1
  <2>3. /\ k \in objects
        /\ \A i \in Items : ~Names(i, k)
        /\ \A o \in Requests : /\ ~Deletes(req[o], k) /\ ~MayDelete(req[o], k)
                               /\ Uploads(req[o], k) => o = p
    BY <2>2 DEF PicturesOK, UploadsOK
  <2>4. ~Deletes(e, k) /\ ~MayDelete(e, k)
    BY <2>3
  <2> QED
    BY <1>1, <2>3, <2>4
<1>4. DeletesOK'
  <2>1. SUFFICES ASSUME NEW p \in Requests, NEW k \in Keys
                 PROVE  /\ Deletes(req'[p], k) => \A i \in Items : ~Names(i, k)'
                        /\ MayDelete(req'[p], k) => \A i \in Items : Names(i, k)' => i = req'[p].item
    BY DEF DeletesOK
  <2>2. CASE p # q
    BY <1>1, <2>2 DEF PicturesOK, DeletesOK
  <2>3. CASE p = q
    <3>1. MayDelete(e, k) => \A i \in Items : Names(i, k) => i = e.item
      BY DEF PicturesOK, ImagesOK
    <3> QED
      BY <1>1, <2>3, <3>1
  <2> QED
    BY <2>2, <2>3
<1> QED
  BY <1>2, <1>3, <1>4 DEF PicturesOK

\* A new key is in no object, row or invocation.
LEMMA FreshKeys ==
    ASSUME TypeOK, NEW k \in Fresh(Keys)
    PROVE  /\ k \in Keys \ objects
           /\ \A i \in Items : ~Names(i, k)
           /\ \A p \in Requests : ~Uploads(req[p], k) /\ ~Deletes(req[p], k) /\ ~MayDelete(req[p], k)
<1>1. k \in Keys /\ k \notin Stored /\ k \notin InFlight
  BY DEF Fresh
<1>2. k \notin objects
  BY <1>1 DEF Stored
<1>3. ASSUME NEW i \in Items, Names(i, k)
      PROVE  FALSE
  <2>1. items[i] \in ItemRow /\ items[i] # Null /\ items[i].image = k
    BY <1>3 DEF Names, TypeOK
  <2>2. items[i] \in RowsOf(items)
    BY <2>1 DEF RowsOf, TypeOK
  <2>3. "image" \in DOMAIN items[i]
    BY <2>1 DEF ItemRow
  <2>4. k \in Fields(items[i])
    BY <2>1, <2>3 DEF Fields, IdFields
  <2> QED
    BY <1>1, <2>2, <2>4 DEF Stored
<1>4. ASSUME NEW p \in Requests
      PROVE  ~Uploads(req[p], k) /\ ~Deletes(req[p], k) /\ ~MayDelete(req[p], k)
  <2>1. req[p] \in Request
    BY DEF TypeOK
  <2>2. k \notin Fields(req[p])
    BY <1>1 DEF InFlight
  <2>3. ASSUME req[p].op = "putImage" PROVE req[p].key # k /\ req[p].old # k
    <3>1. "key" \in DOMAIN req[p] /\ "old" \in DOMAIN req[p]
      BY <2>1, <2>3, MoreShapes
    <3> QED
      BY <2>2, <3>1 DEF Fields, IdFields
  <2>4. ASSUME req[p].op = "removeItem" PROVE req[p].old # k
    <3>1. "old" \in DOMAIN req[p]
      BY <2>1, <2>4, MoreShapes
    <3> QED
      BY <2>2, <3>1 DEF Fields, IdFields
  <2> QED
    BY <2>3, <2>4 DEF Uploads, Deletes, MayDelete
<1> QED
  BY <1>1, <1>2, <1>3, <1>4

\* Writes that are not about pictures leave every picture where it was, or drop its row.
LEMMA ImagesKept ==
    ASSUME TypeOK, NEW q \in Requests,
           \/ RemoveHubWrite(q) \/ IngestWrite(q) \/ GatewayIngestWrite(q) \/ AddItemWrite(q) \/ EditItemWrite(q)
           \/ RemoveItemWrite(q)
    PROVE  \A i \in Items, k \in Keys : Names(i, k)' => Names(i, k)
<1>0. req[q] \in Request /\ items \in [Items -> ItemRow \cup {Null}]
  BY DEF TypeOK
<1> USE NullIsNothing
<1>1. CASE RemoveHubWrite(q)
  BY <1>0, <1>1 DEF RemoveHubWrite, WithoutHub, Names, ItemRow
<1>2. CASE IngestWrite(q) \/ GatewayIngestWrite(q)
  BY <1>0, <1>2 DEF IngestWrite, GatewayIngestWrite, SeenAt, SeenAnyTime, Names, ItemRow
<1>3. CASE AddItemWrite(q)
  BY <1>0, <1>3 DEF AddItemWrite, NewItem, Fresh, Names, ItemRow
<1>4. CASE EditItemWrite(q)
  <2>1. SUFFICES ASSUME NEW i \in Items, NEW k \in Keys, Names(i, k)'
                 PROVE  Names(i, k)
    OBVIOUS
  <2>2. CASE items' = items
    BY <2>1, <2>2 DEF Names
  <2>3. CASE items[req[q].item] # Null
    <3>1. req[q].item \in Items
      BY <1>0, <1>4, MoreShapes DEF EditItemWrite, At
    <3>2. items[req[q].item] \in ItemRow
      BY <1>0, <2>3, <3>1
    <3>3. PICK row : row = [items[req[q].item] EXCEPT !.room = req[q].room, !.home = req[q].home,
                    !.seenBy = SeenAfterEdit(req[q]).by, !.seenAt = SeenAfterEdit(req[q]).at]
      OBVIOUS
    <3>4. row.image = items[req[q].item].image
      BY <3>2, <3>3 DEF ItemRow
    <3>5. items' = [items EXCEPT ![req[q].item] = row]
      BY <1>4, <2>3, <3>3 DEF EditItemWrite
    <3> QED
      BY <1>0, <2>1, <2>3, <3>1, <3>4, <3>5 DEF Names
  <2> QED
    BY <1>4, <2>2, <2>3 DEF EditItemWrite
<1>5. CASE RemoveItemWrite(q)
  <2>1. req[q].item \in Items
    BY <1>0, <1>5, MoreShapes DEF RemoveItemWrite, At
  <2> QED
    BY <1>0, <1>5, <2>1 DEF RemoveItemWrite, Names
<1> QED
  BY <1>1, <1>2, <1>3, <1>4, <1>5

\* The steps that leave objects and pictures as they are.
LEMMA OthersPictures ==
    ASSUME TypeOK, PicturesOK, NEW q \in Requests,
           \/ EditRoomWrite(q) \/ RemoveRoomWrite(q) \/ AddLabelWrite(q) \/ ClaimWrite(q)
           \/ EditHubWrite(q) \/ RemoveHubWrite(q) \/ IngestWrite(q) \/ GatewayIngestWrite(q) \/ AddItemWrite(q)
           \/ EditItemWrite(q) \/ Fail(q)
    PROVE  PicturesOK'
<1>1. Turns(q, Idle)
  BY DEF EditRoomWrite, RemoveRoomWrite, AddLabelWrite, ClaimWrite, EditHubWrite, RemoveHubWrite,
         IngestWrite, GatewayIngestWrite, AddItemWrite, EditItemWrite, Fail, Done, Turns
<1>2. objects' = objects
  BY DEF EditRoomWrite, RemoveRoomWrite, AddLabelWrite, ClaimWrite, EditHubWrite, RemoveHubWrite,
         IngestWrite, GatewayIngestWrite, AddItemWrite, EditItemWrite, Fail, tables
<1>3. \A i \in Items, k \in Keys : Names(i, k)' => Names(i, k)
  <2>1. CASE RemoveHubWrite(q) \/ IngestWrite(q) \/ GatewayIngestWrite(q) \/ AddItemWrite(q) \/ EditItemWrite(q)
    BY <2>1, ImagesKept
  <2>2. CASE items' = items
    BY <2>2 DEF Names
  <2> QED
    BY <2>1, <2>2 DEF EditRoomWrite, RemoveRoomWrite, AddLabelWrite, ClaimWrite, EditHubWrite, Fail, tables
<1>4. Idle \in Request
  BY NewRequests
<1> QED
  BY <1>1, <1>2, <1>3, <1>4, IdleHoldsNothing, NothingNamed DEF IdleHolds

\* An invocation that goes on after a check is about the same thing.
LEMMA Advances ==
    ASSUME TypeOK, NEW q \in Requests,
           \/ EditHubRoom(q) \/ AddItemHub(q) \/ (\E since \in Times : AddItemSeen(q, since))
           \/ EditItemRoom(q) \/ EditItemHub(q)
    PROVE  /\ req'[q] = Idle \/ req'[q].op = req[q].op
           /\ req[q].op \in {"editHub", "addItem", "editItem"}
<1>0. req[q] \in Request
  BY DEF TypeOK
<1>1. /\ EditHubRoom(q) => req[q].op = "editHub"
      /\ AddItemHub(q) \/ (\E since \in Times : AddItemSeen(q, since)) => req[q].op = "addItem"
      /\ EditItemRoom(q) \/ EditItemHub(q) => req[q].op = "editItem"
  BY DEF EditHubRoom, AddItemHub, AddItemSeen, EditItemRoom, EditItemHub, At
<1>2. "op" \in DOMAIN req[q]
  BY <1>0, <1>1, Shapes, MoreShapes
<1>3. ASSUME EditHubRoom(q)
      PROVE  req'[q] = Idle \/ req'[q].op = req[q].op
  BY <1>2, <1>3 DEF EditHubRoom, Done, TypeOK
<1>4. ASSUME AddItemHub(q)
      PROVE  req'[q] = Idle \/ req'[q].op = req[q].op
  BY <1>2, <1>4 DEF AddItemHub, Done, TypeOK
<1>5. ASSUME NEW since \in Times, AddItemSeen(q, since)
      PROVE  req'[q] = Idle \/ req'[q].op = req[q].op
  <2>1. CASE Done(q)
    BY <2>1 DEF Done, TypeOK
  <2>2. ASSUME NEW h \in Hubs,
               req' = [req EXCEPT ![q].step = "write", ![q].seenBy = h, ![q].seenAt = seen[h]]
        PROVE  req'[q].op = req[q].op
    <3>1. req'[q] = [req[q] EXCEPT !.step = "write", !.seenBy = h, !.seenAt = seen[h]]
      BY <2>2 DEF TypeOK
    <3> QED
      BY <1>2, <3>1
  <2> QED
    BY <1>5, <2>1, <2>2 DEF AddItemSeen
<1>6. ASSUME EditItemRoom(q) \/ EditItemHub(q)
      PROVE  req'[q] = Idle \/ req'[q].op = req[q].op
  BY <1>2, <1>6 DEF EditItemRoom, EditItemHub, Done, TypeOK
<1>7. req'[q] = Idle \/ req'[q].op = req[q].op
  BY <1>3, <1>4, <1>5, <1>6
<1> QED
  BY <1>1, <1>7

\* A read holds at most a key that the item's row names.
LEMMA ReadPictures ==
    ASSUME TypeOK, PicturesOK, NEW q \in Requests, Reads(q)
    PROVE  PicturesOK'
<1> USE NullIsNothing
<1>0. req[q] \in Request
  BY DEF TypeOK
<1>1. UNCHANGED tables
  BY ReadTyped
<1>2. PICK e \in Request : Turns(q, e)
  BY ReadTyped
<1>3. objects' = objects /\ \A i \in Items, k \in Keys : Names(i, k)' => Names(i, k)
  BY <1>1 DEF tables, Names
<1>4. \A k \in Keys : /\ ~Uploads(e, k) /\ ~Deletes(e, k)
                      /\ MayDelete(e, k) => Names(e.item, k) /\ e.item \in Items
  <2>1. req'[q] = e
    BY <1>2, Turned DEF TypeOK
  <2>2. CASE \E i \in Items : RemoveItemRead(q, i) \/ PutImageRead(q, i)
    <3>1. PICK i \in Items : RemoveItemRead(q, i) \/ PutImageRead(q, i)
      BY <2>2
    <3>2. items[i] # Null
      BY <3>1 DEF RemoveItemRead, PutImageRead
    <3>3. CASE RemoveItemRead(q, i)
      <4>1. e = [op |-> "removeItem", step |-> "write", item |-> i, old |-> items[i].image]
        BY <2>1, <3>3 DEF RemoveItemRead, Begin, TypeOK
      <4> QED
        BY <3>2, <4>1 DEF Uploads, Deletes, MayDelete, Names
    <3>4. CASE PutImageRead(q, i)
      <4>1. e = [op |-> "putImage", step |-> "object", item |-> i, old |-> items[i].image, key |-> Null]
        BY <2>1, <3>4 DEF PutImageRead, Begin, TypeOK
      <4> QED
        BY <3>2, <4>1 DEF Uploads, Deletes, MayDelete, Names
    <3> QED
      BY <3>1, <3>3, <3>4
  <2>3. CASE ~\E i \in Items : RemoveItemRead(q, i) \/ PutImageRead(q, i)
    <3>1. e.op \notin {"putImage", "removeItem"}
      <4>1. CASE \/ \E r \in Rooms, d \in Dims : EditRoomRead(q, r, d)
                 \/ \E r \in Rooms : RemoveRoomCount(q, r)
                 \/ \E r \in Rooms, at \in Spots : AddLabelRead(q, r, at)
                 \/ \E r \in Rooms : ClaimRead(q, r)
        BY <2>1, <4>1 DEF EditRoomRead, RemoveRoomCount, AddLabelRead, ClaimRead, Begin, TypeOK
      <4>2. CASE \/ \E h \in Hubs, r \in Rooms \cup {Null}, sum \in Sums \cup {Null} :
                      EditHubRead(q, h, r, sum)
                 \/ \E h \in Hubs : RemoveHubRead(q, h)
                 \/ \E op \in {"ingest", "gateway"}, h \in Hubs, at \in Times : IngestRead(q, op, h, at)
                 \/ \E r \in Rooms, home \in Hubs \cup {Null} : AddItemRoom(q, r, home)
                 \/ \E i \in Items : EditItemRead(q, i)
        BY <2>1, <4>2 DEF EditHubRead, RemoveHubRead, IngestRead, AddItemRoom, EditItemRead, Begin, TypeOK
      <4>3. CASE EditHubRoom(q) \/ AddItemHub(q) \/ (\E since \in Times : AddItemSeen(q, since))
                   \/ EditItemRoom(q) \/ EditItemHub(q)
        BY <2>1, <4>3, Advances, NewRequests
      <4> QED
        BY <2>3, <4>1, <4>2, <4>3 DEF Reads
    <3> QED
      BY <3>1 DEF Uploads, Deletes, MayDelete
  <2> QED
    BY <2>2, <2>3
<1> QED
  BY <1>2, <1>3, <1>4, NothingNamed

\* The row goes; if it named a picture, that is now named by nothing.
LEMMA RemoveItemPictures ==
    ASSUME TypeOK, PicturesOK, NEW q \in Requests, RemoveItemWrite(q)
    PROVE  PicturesOK'
<1> USE NullIsNothing
<1>1. req[q] \in Request /\ At(q, "removeItem", "write")
  BY DEF TypeOK, RemoveItemWrite
<1>2. req[q].item \in Items /\ req[q].op = "removeItem"
  BY <1>1, MoreShapes DEF At
<1>3. PICK s \in Request : s = [req[q] EXCEPT !.step = "object"]
  BY <1>1, <1>2, Proceeds
<1>4. PICK e \in {Idle, s} : Turns(q, e)
  BY <1>3 DEF RemoveItemWrite, Done, Turns, TypeOK
<1>5. s.op = "removeItem" /\ s.step = "object" /\ s.old = req[q].old
  BY <1>1, <1>2, <1>3, MoreShapes
<1>6. \A i \in Items, k \in Keys : Names(i, k)' => Names(i, k) /\ i # req[q].item
  <2>1. \A i \in Items, k \in Keys : Names(i, k)' => Names(i, k)
    BY ImagesKept
  <2>2. \A i \in Items, k \in Keys : i = req[q].item => ~Names(i, k)'
    BY DEF RemoveItemWrite, Names, TypeOK
  <2> QED
    BY <2>1, <2>2
<1>7. ASSUME NEW k \in Keys, Deletes(s, k)
      PROVE  MayDelete(req[q], k) /\ \A i \in Items : ~Names(i, k)'
  <2>1. MayDelete(req[q], k)
    BY <1>1, <1>5, <1>7 DEF At, Deletes, MayDelete
  <2> QED
    BY <1>6, <2>1 DEF PicturesOK, DeletesOK
<1>8. \A k \in Keys : ~Uploads(s, k) /\ ~MayDelete(s, k)
  BY <1>5 DEF Uploads, MayDelete
<1>9. \A k \in Keys : /\ ~Uploads(e, k)
                      /\ Deletes(e, k) => /\ MayDelete(req[q], k)
                                          /\ \A i \in Items : ~Names(i, k)'
                      /\ ~MayDelete(e, k)
  BY <1>4, <1>7, <1>8, IdleHoldsNothing DEF IdleHolds
<1>10. objects' = objects /\ e \in Request
  BY <1>3, <1>4, NewRequests DEF RemoveItemWrite
<1> QED
  BY <1>4, <1>6, <1>9, <1>10, NothingNamed

\* Only a key that no row names, and that nobody has just uploaded, is deleted.
LEMMA DeletePictures ==
    ASSUME TypeOK, PicturesOK, NEW q \in Requests, RemoveItemObject(q) \/ PutImageDelete(q)
    PROVE  PicturesOK'
<1>1. /\ objects' = objects \ {req[q].old} /\ Turns(q, Idle) /\ items' = items
      /\ At(q, "removeItem", "object") \/ At(q, "putImage", "delete")
  BY DEF RemoveItemObject, PutImageDelete, DeleteOld, Done, Turns
<1>2. \A k \in Keys : k = req[q].old => Deletes(req[q], k)
  <2>1. CASE At(q, "removeItem", "object")
    BY <2>1 DEF Deletes, At
  <2>2. CASE At(q, "putImage", "delete")
    BY <2>2 DEF Deletes, At
  <2> QED
    BY <1>1, <2>1, <2>2
<1>3. \A i \in Items, k \in Keys : Names(i, k)' <=> Names(i, k)
  BY <1>1 DEF Names
<1>4. req'[q] = Idle /\ \A p \in Requests : p # q => req'[p] = req[p]
  BY <1>1, NewRequests, Turned DEF TypeOK
<1>5. ImagesOK'
  <2>1. SUFFICES ASSUME NEW i \in Items, NEW k \in Keys, Names(i, k)
                 PROVE  k \in objects' /\ \A j \in Items : Names(j, k) => j = i
    BY <1>3 DEF ImagesOK
  <2>2. k # req[q].old
    BY <1>2, <2>1 DEF PicturesOK, DeletesOK
  <2> QED
    BY <1>1, <2>1, <2>2 DEF PicturesOK, ImagesOK
<1>6. UploadsOK'
  <2>1. SUFFICES ASSUME NEW p \in Requests, NEW k \in Keys, Uploads(req'[p], k)
                 PROVE  /\ k \in objects'
                        /\ \A i \in Items : ~Names(i, k)
                        /\ \A o \in Requests : /\ ~Deletes(req'[o], k) /\ ~MayDelete(req'[o], k)
                                               /\ Uploads(req'[o], k) => o = p
    BY <1>3 DEF UploadsOK
  <2>2. p # q /\ Uploads(req[p], k)
    BY <1>4, <2>1, IdleHoldsNothing DEF IdleHolds
  <2>3. /\ k \in objects
        /\ \A i \in Items : ~Names(i, k)
        /\ \A o \in Requests : /\ ~Deletes(req[o], k) /\ ~MayDelete(req[o], k)
                               /\ Uploads(req[o], k) => o = p
    BY <2>2 DEF PicturesOK, UploadsOK
  <2>4. k # req[q].old
    BY <1>2, <2>3
  <2> QED
    BY <1>1, <1>4, <2>3, <2>4, IdleHoldsNothing DEF IdleHolds
<1>7. DeletesOK'
  BY <1>3, <1>4, IdleHoldsNothing DEF PicturesOK, DeletesOK, IdleHolds
<1> QED
  BY <1>5, <1>6, <1>7 DEF PicturesOK

\* The object is stored under a new key, which nothing refers to yet.
LEMMA UploadPictures ==
    ASSUME TypeOK, PicturesOK, NEW q \in Requests, PutImageObject(q)
    PROVE  PicturesOK'
<1>0. req[q] \in Request /\ req[q].op = "putImage" /\ req[q].step = "object"
  BY DEF TypeOK, PutImageObject, At
<1>1. PICK k \in Fresh(Keys) :
        objects' = objects \cup {k} /\ req' = [req EXCEPT ![q].step = "write", ![q].key = k]
  BY DEF PutImageObject, NextKeys
<1>2. /\ k \in Keys \ objects
      /\ \A i \in Items : ~Names(i, k)
      /\ \A p \in Requests : ~Uploads(req[p], k) /\ ~Deletes(req[p], k) /\ ~MayDelete(req[p], k)
  BY FreshKeys
<1>3. PICK e \in Request : e = [req[q] EXCEPT !.step = "write", !.key = k]
  BY <1>0, <1>2, Proceeds
<1>4. Turns(q, e)
  BY <1>1, <1>3 DEF Turns, TypeOK
<1>5. req'[q] = e /\ \A p \in Requests : p # q => req'[p] = req[p]
  BY <1>4, Turned DEF TypeOK
<1>6. /\ e.op = "putImage" /\ e.step = "write" /\ e.key = k
      /\ e.old = req[q].old /\ e.item = req[q].item
  BY <1>0, <1>3, MoreShapes
<1>7. \A j \in Keys : /\ Uploads(e, j) => j = k
                      /\ ~Deletes(e, j)
                      /\ MayDelete(e, j) => MayDelete(req[q], j)
  BY <1>0, <1>6 DEF Uploads, Deletes, MayDelete
<1>8. \A i \in Items, j \in Keys : Names(i, j)' <=> Names(i, j)
  BY DEF PutImageObject, Names
<1>9. ImagesOK'
  BY <1>1, <1>8 DEF PicturesOK, ImagesOK
<1>10. UploadsOK'
  <2>1. SUFFICES ASSUME NEW p \in Requests, NEW j \in Keys, Uploads(req'[p], j)
                 PROVE  /\ j \in objects'
                        /\ \A i \in Items : ~Names(i, j)
                        /\ \A o \in Requests : /\ ~Deletes(req'[o], j) /\ ~MayDelete(req'[o], j)
                                               /\ Uploads(req'[o], j) => o = p
    BY <1>8 DEF UploadsOK
  <2>2. CASE p = q
    <3>1. j = k
      BY <1>5, <1>7, <2>1, <2>2
    <3>2. \A o \in Requests : /\ ~Deletes(req'[o], k) /\ ~MayDelete(req'[o], k)
                              /\ Uploads(req'[o], k) => o = q
      BY <1>2, <1>5, <1>7
    <3> QED
      BY <1>1, <1>2, <2>2, <3>1, <3>2
  <2>3. CASE p # q
    <3>1. Uploads(req[p], j)
      BY <1>5, <2>1, <2>3
    <3>2. /\ j \in objects
          /\ \A i \in Items : ~Names(i, j)
          /\ \A o \in Requests : /\ ~Deletes(req[o], j) /\ ~MayDelete(req[o], j)
                                 /\ Uploads(req[o], j) => o = p
      BY <3>1 DEF PicturesOK, UploadsOK
    <3>3. j # k
      BY <1>2, <3>1
    <3> QED
      BY <1>1, <1>5, <1>7, <3>2, <3>3
  <2> QED
    BY <2>2, <2>3
<1>11. DeletesOK'
  <2>1. SUFFICES ASSUME NEW p \in Requests, NEW j \in Keys
                 PROVE  /\ Deletes(req'[p], j) => \A i \in Items : ~Names(i, j)
                        /\ MayDelete(req'[p], j) => \A i \in Items : Names(i, j) => i = req'[p].item
    BY <1>8 DEF DeletesOK
  <2>2. CASE p # q
    BY <1>5, <2>2 DEF PicturesOK, DeletesOK
  <2>3. CASE p = q
    BY <1>5, <1>6, <1>7, <2>3 DEF PicturesOK, DeletesOK
  <2> QED
    BY <2>2, <2>3
<1> QED
  BY <1>9, <1>10, <1>11 DEF PicturesOK

\* The row names the uploaded key; the one it named before is named by nothing now.
LEMMA NamePictures ==
    ASSUME TypeOK, PicturesOK, NEW q \in Requests, PutImageWrite(q)
    PROVE  PicturesOK'
<1> USE NullIsNothing
<1> DEFINE x == req[q].item
<1> DEFINE n == req[q].key
<1>0. req[q] \in Request /\ req[q].op = "putImage" /\ req[q].step = "write"
  BY DEF TypeOK, PutImageWrite, At
<1>1. x \in Items /\ n \in Keys \cup {Null}
  BY <1>0, MoreShapes
<1>2. PICK s \in Request : s = [req[q] EXCEPT !.step = "delete"]
  BY <1>0, Proceeds
<1>3. PICK e \in {Idle, s} : Turns(q, e)
  BY <1>2 DEF PutImageWrite, Done, Turns, TypeOK
<1>4. s.op = "putImage" /\ s.step = "delete" /\ s.old = req[q].old
  BY <1>0, <1>2, MoreShapes
<1>5. req'[q] = e /\ \A p \in Requests : p # q => req'[p] = req[p]
  <2>1. e \in Request
    BY <1>2, <1>3, NewRequests
  <2> QED
    BY <1>3, <2>1, Turned DEF TypeOK
<1>6. \A k \in Keys : /\ ~Uploads(e, k) /\ ~MayDelete(e, k)
                      /\ Deletes(e, k) => k = req[q].old /\ MayDelete(req[q], k)
  <2>1. \A k \in Keys : /\ ~Uploads(s, k) /\ ~MayDelete(s, k)
                        /\ Deletes(s, k) => k = req[q].old /\ MayDelete(req[q], k)
    BY <1>0, <1>4 DEF Uploads, Deletes, MayDelete
  <2> QED
    BY <1>3, <2>1, IdleHoldsNothing DEF IdleHolds
<1>7. objects' = objects
  BY DEF PutImageWrite
<1>8. \A i \in Items, k \in Keys : Names(i, k)' => IF i = x THEN k = n ELSE Names(i, k)
  <2>1. CASE items[x] = Null
    <3>1. items' = items
      BY <2>1 DEF PutImageWrite
    <3> QED
      BY <2>1, <3>1 DEF Names
  <2>2. CASE items[x] # Null
    <3>1. items[x] \in ItemRow
      BY <1>1, <2>2 DEF TypeOK
    <3>2. PICK row : row = [items[x] EXCEPT !.image = n]
      OBVIOUS
    <3>3. row.image = n
      BY <3>1, <3>2 DEF ItemRow
    <3>4. items' = [items EXCEPT ![x] = row]
      BY <2>2, <3>2 DEF PutImageWrite
    <3> QED
      BY <1>1, <3>3, <3>4 DEF Names, TypeOK
  <2> QED
    BY <2>1, <2>2
<1>9. \A k \in Keys : k = n => Uploads(req[q], k)
  BY <1>0 DEF Uploads
<1>10. \A k \in Keys : k = n =>
         /\ k \in objects /\ \A i \in Items : ~Names(i, k)
         /\ \A p \in Requests : /\ ~Deletes(req[p], k) /\ ~MayDelete(req[p], k)
                                /\ Uploads(req[p], k) => p = q
  BY <1>9 DEF PicturesOK, UploadsOK
<1> HIDE DEF x, n
<1>11. ImagesOK'
  <2>1. SUFFICES ASSUME NEW i \in Items, NEW k \in Keys, Names(i, k)'
                 PROVE  k \in objects /\ \A j \in Items : Names(j, k)' => j = i
    BY <1>7 DEF ImagesOK
  <2>2. CASE k = n
    BY <1>8, <1>10, <2>1, <2>2
  <2>3. CASE k # n
    BY <1>8, <2>1, <2>3 DEF PicturesOK, ImagesOK
  <2> QED
    BY <2>2, <2>3
<1>12. UploadsOK'
  <2>1. SUFFICES ASSUME NEW p \in Requests, NEW k \in Keys, Uploads(req'[p], k)
                 PROVE  /\ k \in objects
                        /\ \A i \in Items : ~Names(i, k)'
                        /\ \A o \in Requests : /\ ~Deletes(req'[o], k) /\ ~MayDelete(req'[o], k)
                                               /\ Uploads(req'[o], k) => o = p
    BY <1>7 DEF UploadsOK
  <2>2. p # q /\ Uploads(req[p], k)
    BY <1>5, <1>6, <2>1
  <2>3. /\ k \in objects
        /\ \A i \in Items : ~Names(i, k)
        /\ \A o \in Requests : /\ ~Deletes(req[o], k) /\ ~MayDelete(req[o], k)
                               /\ Uploads(req[o], k) => o = p
    BY <2>2 DEF PicturesOK, UploadsOK
  <2>4. k # n
    BY <1>10, <2>2
  <2>5. ~Deletes(e, k)
    BY <1>6, <2>3
  <2> QED
    BY <1>5, <1>6, <1>8, <2>3, <2>4, <2>5
<1>13. DeletesOK'
  <2>1. SUFFICES ASSUME NEW p \in Requests, NEW k \in Keys
                 PROVE  /\ Deletes(req'[p], k) => \A i \in Items : ~Names(i, k)'
                        /\ MayDelete(req'[p], k) => \A i \in Items : Names(i, k)' => i = req'[p].item
    BY DEF DeletesOK
  <2>2. CASE p # q
    <3>1. Deletes(req[p], k) => k # n /\ \A i \in Items : ~Names(i, k)
      BY <1>10 DEF PicturesOK, DeletesOK
    <3>2. MayDelete(req[p], k) => k # n /\ \A i \in Items : Names(i, k) => i = req[p].item
      BY <1>10 DEF PicturesOK, DeletesOK
    <3> QED
      BY <1>1, <1>5, <1>8, <2>2, <3>1, <3>2
  <2>3. CASE p = q
    <3>1. SUFFICES ASSUME Deletes(e, k) PROVE \A i \in Items : ~Names(i, k)'
      BY <1>5, <1>6, <2>3
    <3>2. MayDelete(req[q], k)
      BY <1>6, <3>1
    <3>3. k # n
      BY <1>10, <3>2
    <3>4. \A i \in Items : Names(i, k) => i = x
      BY <3>2 DEF PicturesOK, DeletesOK, x
    <3> QED
      BY <1>8, <3>3, <3>4
  <2> QED
    BY <2>2, <2>3
<1> QED
  BY <1>11, <1>12, <1>13 DEF PicturesOK

LEMMA PicturesInit ==
    ASSUME Init
    PROVE  PicturesOK
<1>1. \A i \in Items, k \in Keys : ~Names(i, k)
  BY DEF Init, Names
<1>2. \A q \in Requests : req[q] = Idle
  BY DEF Init
<1> QED
  BY <1>1, <1>2, IdleHoldsNothing DEF PicturesOK, ImagesOK, UploadsOK, DeletesOK, IdleHolds

LEMMA PicturesStep ==
    ASSUME TypeOK, PicturesOK, [Next]_vars
    PROVE  PicturesOK'
<1>1. CASE objects' = objects /\ items' = items /\ req' = req
  <2>1. \A i \in Items, k \in Keys : Names(i, k)' <=> Names(i, k)
    BY <1>1 DEF Names
  <2>2. ImagesOK'
    BY <1>1, <2>1 DEF PicturesOK, ImagesOK
  <2>3. UploadsOK'
    BY <1>1, <2>1 DEF PicturesOK, UploadsOK
  <2>4. DeletesOK'
    BY <1>1, <2>1 DEF PicturesOK, DeletesOK
  <2> QED
    BY <2>2, <2>3, <2>4 DEF PicturesOK
<1>2. CASE (\E d \in Dims : AddRoom(d)) \/ (\E l \in Labels : RemoveLabel(l)) \/ UNCHANGED vars
  BY <1>1, <1>2 DEF AddRoom, RemoveLabel, vars, tables
<1>3. ASSUME NEW q \in Requests, Reads(q) \/ Writes(q) \/ Fail(q)
      PROVE  PicturesOK'
  <2>1. CASE Reads(q)
    BY <2>1, ReadPictures
  <2>2. CASE Fail(q)
    BY <2>2, OthersPictures
  <2>3. CASE Writes(q)
    BY <2>3, OthersPictures, RemoveItemPictures, DeletePictures, UploadPictures, NamePictures DEF Writes
  <2> QED
    BY <1>3, <2>1, <2>2, <2>3
<1> QED
  BY <1>2, <1>3 DEF Next

-----------------------------------------------------------------------------
(***************************************************************************)
(* What an invocation has checked: a label's distance against the room,    *)
(* the sum of a placement against the length that was read.                *)
(***************************************************************************)
Checked(r) ==
    /\ r.op = "addLabel" => r.at <= r.dim
    /\ r.op = "editHub" /\ r.step = "write" => /\ r.dim # Null
                                               /\ r.sum # Null => Fits(r.sum, r.dim)

ChecksOK == \A q \in Requests : Checked(req[q])

LEMMA ReadChecks ==
    ASSUME TypeOK, ChecksOK, NEW q \in Requests, Reads(q)
    PROVE  Checked(req'[q])
<1>0. req[q] \in Request
  BY DEF TypeOK
<1>1. ASSUME NEW r \in Rooms, NEW at \in Spots, AddLabelRead(q, r, at)
      PROVE  Checked(req'[q])
  BY <1>1 DEF AddLabelRead, Begin, Checked, TypeOK
<1>2. ASSUME NEW h \in Hubs, NEW r \in Rooms \cup {Null}, NEW sum \in Sums \cup {Null}, EditHubRead(q, h, r, sum)
      PROVE  Checked(req'[q])
  BY <1>2 DEF EditHubRead, Begin, Checked, TypeOK
<1>3. CASE EditHubRoom(q)
  <2>1. CASE Done(q)
    BY <2>1 DEF Done, Idle, Checked, TypeOK
  <2>2. CASE /\ rooms[req[q].room] # Null
             /\ req[q].sum # Null => Fits(req[q].sum, rooms[req[q].room])
             /\ req' = [req EXCEPT ![q].step = "write", ![q].dim = rooms[req[q].room]]
    <3>1. req[q] \in [op : {"editHub"}, step : {"room", "write"}, hub : Hubs, was : Rooms, room : Rooms,
                      sum : Sums \cup {Null}, dim : Dims \cup {Null}]
      BY <1>0, <1>3, Shapes DEF EditHubRoom, At
    <3>2. PICK d : d = rooms[req[q].room]
      OBVIOUS
    <3>3. req'[q] = [req[q] EXCEPT !.step = "write", !.dim = d]
      BY <2>2, <3>2 DEF TypeOK
    <3>4. req'[q].op = "editHub" /\ req'[q].dim = d /\ req'[q].sum = req[q].sum
      BY <3>1, <3>3
    <3> QED
      BY <2>2, <3>2, <3>4 DEF Checked
  <2> QED
    BY <1>3, <2>1, <2>2 DEF EditHubRoom
<1>4. ASSUME req'[q].op \notin {"addLabel", "editHub"}
      PROVE  Checked(req'[q])
  BY <1>4 DEF Checked
<1>5. CASE AddItemHub(q) \/ (\E since \in Times : AddItemSeen(q, since)) \/ EditItemRoom(q) \/ EditItemHub(q)
  <2>1. req'[q] = Idle \/ req'[q].op = req[q].op
    BY <1>5, Advances
  <2>2. req[q].op \in {"addItem", "editItem"}
    BY <1>5 DEF AddItemHub, AddItemSeen, EditItemRoom, EditItemHub, At
  <2> QED
    BY <1>4, <2>1, <2>2, NewRequests
<1>6. CASE \/ \E r \in Rooms, d \in Dims : EditRoomRead(q, r, d)
           \/ \E r \in Rooms : RemoveRoomCount(q, r)
           \/ \E r \in Rooms : ClaimRead(q, r)
           \/ \E h \in Hubs : RemoveHubRead(q, h)
           \/ \E op \in {"ingest", "gateway"}, h \in Hubs, at \in Times : IngestRead(q, op, h, at)
  <2>1. req'[q].op \in {"editRoom", "removeRoom", "claim", "removeHub", "ingest", "gateway"}
    BY <1>6 DEF EditRoomRead, RemoveRoomCount, ClaimRead, RemoveHubRead, IngestRead, Begin, TypeOK
  <2> QED
    BY <1>4, <2>1
<1>7. CASE \/ \E r \in Rooms, home \in Hubs \cup {Null} : AddItemRoom(q, r, home)
           \/ \E i \in Items : EditItemRead(q, i)
           \/ \E i \in Items : RemoveItemRead(q, i)
           \/ \E i \in Items : PutImageRead(q, i)
  <2>1. req'[q].op \in {"addItem", "editItem", "removeItem", "putImage"}
    BY <1>7 DEF AddItemRoom, EditItemRead, RemoveItemRead, PutImageRead, Begin, TypeOK
  <2> QED
    BY <1>4, <2>1
<1> QED
  BY <1>1, <1>2, <1>3, <1>5, <1>6, <1>7 DEF Reads

\* A write ends the invocation, or moves it on to the object it has to delete.
LEMMA WriteEnds ==
    ASSUME TypeOK, NEW q \in Requests, Writes(q)
    PROVE  /\ req'[q] # req[q] /\ req[q].op # "idle"
           /\ req'[q] = Idle \/ req'[q].op \in {"removeItem", "putImage"}
<1>0. req[q] \in Request /\ Idle.op = "idle"
  BY NewRequests DEF TypeOK
<1>1. CASE \/ EditRoomWrite(q) \/ RemoveRoomWrite(q) \/ AddLabelWrite(q) \/ ClaimWrite(q)
           \/ EditHubWrite(q) \/ RemoveHubWrite(q) \/ IngestWrite(q) \/ GatewayIngestWrite(q) \/ AddItemWrite(q) \/ EditItemWrite(q)
  <2>1. req'[q] = Idle
    BY <1>1 DEF EditRoomWrite, RemoveRoomWrite, AddLabelWrite, ClaimWrite, EditHubWrite, RemoveHubWrite,
               IngestWrite, GatewayIngestWrite, AddItemWrite, EditItemWrite, Done, TypeOK
  <2>2. req[q].op # "idle"
    BY <1>1 DEF EditRoomWrite, RemoveRoomWrite, AddLabelWrite, ClaimWrite, EditHubWrite, RemoveHubWrite,
               IngestWrite, GatewayIngestWrite, AddItemWrite, EditItemWrite, At
  <2> QED
    BY <1>0, <2>1, <2>2
<1>2. CASE RemoveItemObject(q) \/ PutImageDelete(q)
  <2>1. req'[q] = Idle
    BY <1>2 DEF RemoveItemObject, PutImageDelete, DeleteOld, Done, TypeOK
  <2>2. req[q].op # "idle"
    BY <1>2 DEF RemoveItemObject, PutImageDelete, At
  <2> QED
    BY <1>0, <2>1, <2>2
<1>3. CASE RemoveItemWrite(q)
  <2>1. req[q].op = "removeItem" /\ req[q].step = "write"
    BY <1>3 DEF RemoveItemWrite, At
  <2>2. "op" \in DOMAIN req[q] /\ "step" \in DOMAIN req[q]
    BY <1>0, <2>1, MoreShapes
  <2>3. req'[q] = Idle \/ req'[q] = [req[q] EXCEPT !.step = "object"]
    BY <1>3 DEF RemoveItemWrite, Done, TypeOK
  <2> QED
    BY <1>0, <2>1, <2>2, <2>3
<1>4. CASE PutImageObject(q) \/ PutImageWrite(q)
  <2>1. req[q].op = "putImage" /\ req[q].step \in {"object", "write"}
    BY <1>4 DEF PutImageObject, PutImageWrite, At
  <2>2. req[q] \in [op : {"putImage"}, step : {"object", "write", "delete"}, item : Items,
                    old : Keys \cup {Null}, key : Keys \cup {Null}]
    BY <1>0, <2>1, MoreShapes
  <2>3. CASE PutImageObject(q)
    <3>1. PICK k : req' = [req EXCEPT ![q].step = "write", ![q].key = k]
      BY <2>3 DEF PutImageObject
    <3>2. req'[q] = [req[q] EXCEPT !.step = "write", !.key = k]
      BY <3>1 DEF TypeOK
    <3>3. req'[q].op = "putImage" /\ req'[q].step = "write" /\ req[q].step = "object"
      BY <2>2, <2>3, <3>2 DEF PutImageObject, At
    <3> QED
      BY <2>1, <3>3
  <2>4. CASE PutImageWrite(q)
    <3>1. req'[q] = Idle \/ req'[q] = [req[q] EXCEPT !.step = "delete"]
      BY <2>4 DEF PutImageWrite, Done, TypeOK
    <3>2. req[q].step = "write"
      BY <2>4 DEF PutImageWrite, At
    <3> QED
      BY <1>0, <2>1, <2>2, <3>1, <3>2
  <2> QED
    BY <1>4, <2>3, <2>4
<1> QED
  BY <1>1, <1>2, <1>3, <1>4 DEF Writes

LEMMA ChecksStep ==
    ASSUME TypeOK, ChecksOK, [Next]_vars
    PROVE  ChecksOK'
<1>1. CASE req' = req
  BY <1>1 DEF ChecksOK, Checked
<1>2. ASSUME NEW q \in Requests, Reads(q) \/ Writes(q) \/ Fail(q)
      PROVE  ChecksOK'
  <2>1. PICK e \in Request : Turns(q, e)
    BY <1>2, StepTurns
  <2>2. req'[q] = e /\ \A p \in Requests : p # q => req'[p] = req[p]
    BY <2>1, Turned DEF TypeOK
  <2>3. Checked(Idle)
    BY NewRequests DEF Checked
  <2>4. CASE Reads(q)
    BY <2>2, <2>4, ReadChecks DEF ChecksOK
  <2>5. CASE Writes(q)
    <3>1. e = Idle \/ e.op \in {"removeItem", "putImage"}
      BY <2>2, <2>5, WriteEnds
    <3>2. Checked(e)
      BY <2>3, <3>1 DEF Checked
    <3> QED
      BY <2>2, <3>2 DEF ChecksOK
  <2>6. CASE Fail(q)
    <3>1. e = Idle
      BY <2>2, <2>6 DEF Fail, Done, TypeOK
    <3> QED
      BY <2>2, <2>3, <3>1 DEF ChecksOK
  <2> QED
    BY <1>2, <2>4, <2>5, <2>6
<1> QED
  BY <1>1, <1>2 DEF Next, AddRoom, RemoveLabel, vars

-----------------------------------------------------------------------------
(***************************************************************************)
(* The inductive invariant.                                                *)
(***************************************************************************)
IInv == TypeOK /\ PicturesOK /\ ChecksOK

LEMMA InvInit ==
    ASSUME Init
    PROVE  IInv
<1>1. ChecksOK
  BY NewRequests DEF Init, ChecksOK, Checked
<1> QED
  BY <1>1, TypeInit, PicturesInit DEF IInv

LEMMA InvStep ==
    ASSUME IInv, [Next]_vars
    PROVE  IInv'
  BY TypeStep, PicturesStep, ChecksStep DEF IInv

THEOREM Invariant == Spec => []IInv
<1>1. Init => IInv
  BY InvInit
<1>2. IInv /\ [Next]_vars => IInv'
  BY InvStep
<1> QED
  BY <1>1, <1>2, PTL DEF Spec

\* A picture that an item's row names is in R2, in every reachable state: whatever uploads,
\* edits and removals of items overlap, fail or break off, and however many there are.
THEOREM StoredKeys == Spec => []StoredKeysNameObjects
<1>1. IInv => StoredKeysNameObjects
  <2>1. SUFFICES ASSUME IInv, NEW i \in Items, items[i] # Null, items[i].image # Null
                 PROVE  items[i].image \in objects
    BY DEF StoredKeysNameObjects, Named
  <2>2. items[i].image \in Keys
    BY <2>1 DEF IInv, TypeOK, ItemRow
  <2>3. Names(i, items[i].image)
    BY <2>1 DEF Names
  <2> QED
    BY <2>1, <2>2, <2>3 DEF IInv, PicturesOK, ImagesOK
<1> QED
  BY <1>1, Invariant, PTL

-----------------------------------------------------------------------------
(***************************************************************************)
(* Faults, one kind at a time.                                             *)
(***************************************************************************)
HubBad(h) == hubs[h] # Null /\ rooms[hubs[h]] = Null
PlacementBad(h) ==
    /\ placements[h] # Null
    /\ hubs[h] # Null => rooms[hubs[h]] # Null /\ ~Fits(placements[h], rooms[hubs[h]])
SeenBad(h) == seen[h] # 0 /\ hubs[h] = Null
LabelBad(l) ==
    /\ labels[l] # Null
    /\ rooms[labels[l].room] # Null => labels[l].at > rooms[labels[l].room]
Missing(h) == h # Null /\ hubs[h] = Null
ItemBad(i) ==
    /\ items[i] # Null
    /\ rooms[items[i].room] = Null \/ Missing(items[i].home) \/ Missing(items[i].seenBy)
HeldKey(k) == \E q \in Requests : k \in Held(q)
ObjectBad(k) == k \in objects /\ (\A i \in Items : ~Names(i, k)) /\ ~HeldKey(k)

\* f is a fault, of one of the six kinds.
AFault(f) ==
    \/ \E h \in Hubs : f = <<"hub", h>> /\ HubBad(h)
    \/ \E h \in Hubs : f = <<"placement", h>> /\ PlacementBad(h)
    \/ \E h \in Hubs : f = <<"seen", h>> /\ SeenBad(h)
    \/ \E l \in Labels : f = <<"label", l>> /\ LabelBad(l)
    \/ \E i \in Items : f = <<"item", i>> /\ ItemBad(i)
    \/ \E k \in Keys : f = <<"object", k>> /\ ObjectBad(k)

LEMMA FaultsAre == TypeOK => \A f : f \in Faults <=> AFault(f)
<1> SUFFICES ASSUME TypeOK, NEW f
             PROVE  f \in Faults <=> AFault(f)
  OBVIOUS
<1>1. f \in {<<"hub", h>> : h \in {g \in Hubs : hubs[g] # Null /\ rooms[hubs[g]] = Null}}
        <=> \E h \in Hubs : f = <<"hub", h>> /\ HubBad(h)
  BY DEF HubBad
<1>2. f \in {<<"placement", h>> : h \in {g \in Hubs : placements[g] # Null /\
               IF hubs[g] = Null THEN TRUE
               ELSE rooms[hubs[g]] # Null /\ ~Fits(placements[g], rooms[hubs[g]])}}
        <=> \E h \in Hubs : f = <<"placement", h>> /\ PlacementBad(h)
  BY DEF PlacementBad
<1>3. f \in {<<"seen", h>> : h \in {g \in Hubs : seen[g] # 0 /\ hubs[g] = Null}}
        <=> \E h \in Hubs : f = <<"seen", h>> /\ SeenBad(h)
  BY DEF SeenBad
<1>4. f \in {<<"label", l>> : l \in {m \in Labels : labels[m] # Null /\
               IF rooms[labels[m].room] = Null THEN TRUE ELSE labels[m].at > rooms[labels[m].room]}}
        <=> \E l \in Labels : f = <<"label", l>> /\ LabelBad(l)
  BY DEF LabelBad
<1>5. f \in {<<"item", i>> : i \in {j \in Items : items[j] # Null /\
               \/ rooms[items[j].room] = Null
               \/ \E h \in {items[j].home, items[j].seenBy} \ {Null} : hubs[h] = Null}}
        <=> \E i \in Items : f = <<"item", i>> /\ ItemBad(i)
  BY DEF ItemBad, Missing
<1>6. f \in {<<"object", k>> : k \in objects \ (Named \cup UNION {Held(q) : q \in Requests})}
        <=> \E k \in Keys : f = <<"object", k>> /\ ObjectBad(k)
  <2>1. \A k : k \in Named <=> \E i \in Items : Names(i, k)
    BY DEF Named, Names
  <2>2. \A k : k \in UNION {Held(q) : q \in Requests} <=> HeldKey(k)
    BY DEF HeldKey
  <2>3. objects \subseteq Keys
    BY DEF TypeOK
  <2> QED
    BY <2>1, <2>2, <2>3 DEF ObjectBad
<1> QED
  BY <1>1, <1>2, <1>3, <1>4, <1>5, <1>6 DEF Faults, AFault

LEMMA FaultsAreNext == (TypeOK => \A f : f \in Faults <=> AFault(f))'
<1>1. TypeOK => \A f : f \in Faults <=> AFault(f)
  BY FaultsAre
<1> QED
  BY <1>1, PTL

\* A step after which every table is as sound, and every object as well accounted for.
TablesSound ==
    /\ \A h \in Hubs : /\ HubBad(h)' => HubBad(h)
                       /\ PlacementBad(h)' => PlacementBad(h)
                       /\ SeenBad(h)' => SeenBad(h)
    /\ \A l \in Labels : LabelBad(l)' => LabelBad(l)
    /\ \A i \in Items : ItemBad(i)' => ItemBad(i)
ObjectsKept == \A k \in Keys : ObjectBad(k)' => ObjectBad(k)

LEMMA NoNewFaults ==
    ASSUME TypeOK, TypeOK', TablesSound
    PROVE  /\ \A f \in Faults' \ Faults : f[1] = "object"
           /\ ObjectsKept => Faults' \subseteq Faults
<1>1. SUFFICES ASSUME NEW f, f \in Faults', f \notin Faults
               PROVE  f[1] = "object" /\ ~ObjectsKept
  OBVIOUS
<1>2. ~AFault(f)
  BY <1>1, FaultsAre
<1>3. AFault(f)'
  BY <1>1, FaultsAreNext
<1>4. \E k \in Keys : f = <<"object", k>> /\ ObjectBad(k)' /\ ~ObjectBad(k)
  BY <1>2, <1>3 DEF AFault, TablesSound
<1> QED
  BY <1>4 DEF ObjectsKept

\* What nothing refers to.
LEMMA FreshRows ==
    ASSUME TypeOK
    PROVE  /\ \A r \in Fresh(Rooms) : /\ r \in Rooms /\ rooms[r] = Null
                                      /\ \A h \in Hubs : hubs[h] # r
                                      /\ \A l \in Labels : labels[l] # Null => labels[l].room # r
                                      /\ \A i \in Items : items[i] # Null => items[i].room # r
           /\ \A h \in Fresh(Hubs) : h \in Hubs /\ placements[h] = Null /\ seen[h] = 0
           /\ \A l \in Fresh(Labels) : l \in Labels
           /\ \A i \in Fresh(Items) : i \in Items /\ items[i] = Null
<1>1. ASSUME NEW r \in Fresh(Rooms)
      PROVE  /\ r \in Rooms /\ rooms[r] = Null
             /\ \A h \in Hubs : hubs[h] # r
             /\ \A l \in Labels : labels[l] # Null => labels[l].room # r
             /\ \A i \in Items : items[i] # Null => items[i].room # r
  <2>1. r \in Rooms /\ r \notin Stored
    BY <1>1 DEF Fresh
  <2>2. rooms[r] = Null
    BY <2>1 DEF Stored
  <2>3. ASSUME NEW h \in Hubs PROVE hubs[h] # r
    <3>1. r \notin RowsOf(hubs)
      BY <2>1 DEF Stored
    <3>2. r # Null
      BY <2>1, NullIsNothing
    <3> QED
      BY <3>1, <3>2 DEF RowsOf, TypeOK
  <2>4. ASSUME NEW l \in Labels, labels[l] # Null PROVE labels[l].room # r
    <3>1. labels[l] \in RowsOf(labels) /\ labels[l] \in LabelRow
      BY <2>4 DEF RowsOf, TypeOK
    <3>2. "room" \in DOMAIN labels[l]
      BY <3>1 DEF LabelRow
    <3>3. labels[l].room \in Fields(labels[l])
      BY <3>2 DEF Fields, IdFields
    <3> QED
      BY <2>1, <3>1, <3>3 DEF Stored
  <2>5. ASSUME NEW i \in Items, items[i] # Null PROVE items[i].room # r
    <3>1. items[i] \in RowsOf(items) /\ items[i] \in ItemRow
      BY <2>5 DEF RowsOf, TypeOK
    <3>2. "room" \in DOMAIN items[i]
      BY <3>1 DEF ItemRow
    <3>3. items[i].room \in Fields(items[i])
      BY <3>2 DEF Fields, IdFields
    <3> QED
      BY <2>1, <3>1, <3>3 DEF Stored
  <2> QED
    BY <2>1, <2>2, <2>3, <2>4, <2>5
<1>2. ASSUME NEW h \in Fresh(Hubs)
      PROVE  h \in Hubs /\ placements[h] = Null /\ seen[h] = 0
  BY <1>2 DEF Fresh, Stored
<1>3. \A l \in Fresh(Labels) : l \in Labels
  BY DEF Fresh
<1>4. ASSUME NEW i \in Fresh(Items)
      PROVE  i \in Items /\ items[i] = Null
  BY <1>4 DEF Fresh, Stored
<1> QED
  BY <1>1, <1>2, <1>3, <1>4

\* What has been read and is still so.
LEMMA StillSo ==
    ASSUME NEW q \in Requests, ~Stale(q)
    PROVE  /\ req[q].op = "editRoom" => rooms[req[q].room] = req[q].was
           /\ req[q].op = "removeRoom" => Usage(req[q].room) = {}
           /\ req[q].op = "addLabel" => rooms[req[q].room] = req[q].dim
           /\ req[q].op = "claim" => rooms[req[q].room] # Null
           /\ req[q].op = "editHub" => hubs[req[q].hub] = req[q].was /\ rooms[req[q].room] = req[q].dim
           /\ req[q].op \in {"ingest", "gateway"} => hubs[req[q].hub] = req[q].room
           /\ req[q].op = "addItem" => /\ rooms[req[q].room] # Null
                                       /\ ~Missing(req[q].home) /\ ~Missing(req[q].seenBy)
           /\ req[q].op = "editItem" => /\ items[req[q].item] = req[q].was
                                        /\ rooms[req[q].room] # Null /\ ~Missing(req[q].home)
           /\ req[q].op \in {"removeItem", "putImage"} =>
                items[req[q].item] # Null /\ items[req[q].item].image = req[q].old
  BY DEF Stale, Exists, Missing, ImageIs

\* A table that a step leaves alone.
LEMMA SameTables ==
    ASSUME UNCHANGED <<rooms, labels, hubs, placements, seen, items>>
    PROVE  TablesSound
  BY DEF TablesSound, HubBad, PlacementBad, SeenBad, LabelBad, ItemBad, Missing

\* Rows refer to ids of rooms.
LEMMA Referred ==
    ASSUME TypeOK
    PROVE  /\ \A h \in Hubs : hubs[h] # Null => hubs[h] \in Rooms
           /\ \A l \in Labels : labels[l] # Null => labels[l].room \in Rooms
           /\ \A i \in Items : items[i] # Null => items[i].room \in Rooms
  BY DEF TypeOK, LabelRow, ItemRow

\* A new room is referred to by nothing; a removed label refers to nothing.
LEMMA RoomsSound ==
    ASSUME TypeOK,
           \/ \E d \in Dims : AddRoom(d)
           \/ \E l \in Labels : RemoveLabel(l)
    PROVE  TablesSound
<1> USE NullIsNothing
<1>1. ASSUME NEW d \in Dims, AddRoom(d)
      PROVE  TablesSound
  <2>1. PICK r \in Fresh(Rooms) : rooms' = [rooms EXCEPT ![r] = d]
    BY <1>1 DEF AddRoom
  <2>2. /\ r \in Rooms /\ rooms[r] = Null
        /\ \A h \in Hubs : hubs[h] # r
        /\ \A l \in Labels : labels[l] # Null => labels[l].room # r
        /\ \A i \in Items : items[i] # Null => items[i].room # r
    BY FreshRows
  <2>3. \A s \in Rooms : s # r => rooms'[s] = rooms[s]
    BY <2>1 DEF TypeOK
  <2>4. UNCHANGED <<labels, hubs, placements, seen, items>>
    BY <1>1 DEF AddRoom
  <2>5. \A h \in Hubs : /\ HubBad(h)' => HubBad(h)
                        /\ PlacementBad(h)' => PlacementBad(h)
                        /\ SeenBad(h)' => SeenBad(h)
    BY <2>2, <2>3, <2>4, Referred DEF HubBad, PlacementBad, SeenBad
  <2>6. \A l \in Labels : LabelBad(l)' => LabelBad(l)
    BY <2>2, <2>3, <2>4, Referred DEF LabelBad
  <2>7. \A i \in Items : ItemBad(i)' => ItemBad(i)
    BY <2>2, <2>3, <2>4, Referred DEF ItemBad, Missing
  <2> QED
    BY <2>5, <2>6, <2>7 DEF TablesSound
<1>2. ASSUME NEW l \in Labels, RemoveLabel(l)
      PROVE  TablesSound
  <2>1. \A m \in Labels : labels'[m] = Null \/ labels'[m] = labels[m]
    BY <1>2 DEF RemoveLabel, TypeOK
  <2>2. UNCHANGED <<rooms, hubs, placements, seen, items>>
    BY <1>2 DEF RemoveLabel
  <2> QED
    BY <2>1, <2>2 DEF TablesSound, HubBad, PlacementBad, SeenBad, LabelBad, ItemBad, Missing
<1> QED
  BY <1>1, <1>2

\* New dimensions clear what was measured in the old ones, if the old ones are those read.
LEMMA EditRoomSound ==
    ASSUME TypeOK, NEW q \in Requests, EditRoomWrite(q), ~Stale(q)
    PROVE  TablesSound
<1> USE NullIsNothing
<1>1. PICK r \in Rooms, was \in Dims, dim \in Dims :
        r = req[q].room /\ was = req[q].was /\ dim = req[q].dim
  BY Shapes DEF EditRoomWrite, At, TypeOK
<1>2. rooms[r] = was /\ rooms[r] # Null
  BY <1>1, StillSo DEF EditRoomWrite, At
<1>3. rooms' = [rooms EXCEPT ![r] = dim]
  BY <1>1, <1>2 DEF EditRoomWrite
<1>4. /\ \A h \in Hubs : placements'[h] = IF was # dim /\ hubs[h] = r THEN Null ELSE placements[h]
      /\ \A l \in Labels : labels'[l] = IF was # dim /\ labels[l] # Null /\ labels[l].room = r
                                        THEN Null ELSE labels[l]
      /\ UNCHANGED <<hubs, seen, items>>
  BY <1>1 DEF EditRoomWrite, Measured
<1>5. \A s \in Rooms : (rooms'[s] = Null <=> rooms[s] = Null) /\ (s # r \/ was = dim => rooms'[s] = rooms[s])
  BY <1>1, <1>2, <1>3 DEF TypeOK
<1>6. ASSUME NEW h \in Hubs
      PROVE  /\ HubBad(h)' => HubBad(h)
             /\ PlacementBad(h)' => PlacementBad(h)
             /\ SeenBad(h)' => SeenBad(h)
  <2>1. hubs[h] = Null \/ hubs[h] \in Rooms
    BY DEF TypeOK
  <2>2. HubBad(h)' => HubBad(h)
    BY <1>4, <1>5, <2>1 DEF HubBad
  <2>3. SeenBad(h)' => SeenBad(h)
    BY <1>4 DEF SeenBad
  <2>4. PlacementBad(h)' => PlacementBad(h)
    <3>1. CASE hubs[h] = Null
      BY <1>4, <3>1 DEF PlacementBad
    <3>2. CASE hubs[h] \in Rooms /\ (hubs[h] # r \/ was = dim)
      <4>1. rooms'[hubs[h]] = rooms[hubs[h]] /\ placements'[h] = placements[h]
        BY <1>4, <1>5, <3>2
      <4> QED
        BY <1>4, <4>1 DEF PlacementBad
    <3>3. CASE hubs[h] = r /\ was # dim
      BY <1>4, <3>3 DEF PlacementBad
    <3> QED
      BY <2>1, <3>1, <3>2, <3>3
  <2> QED
    BY <2>2, <2>3, <2>4
<1>7. ASSUME NEW l \in Labels
      PROVE  LabelBad(l)' => LabelBad(l)
  <2>1. labels[l] = Null \/ labels[l].room \in Rooms
    BY DEF TypeOK, LabelRow
  <2>2. CASE labels[l] = Null
    BY <1>4, <2>2 DEF LabelBad
  <2>3. CASE labels[l].room \in Rooms /\ (labels[l].room # r \/ was = dim)
    <3>1. rooms'[labels[l].room] = rooms[labels[l].room] /\ labels'[l] = labels[l]
      BY <1>4, <1>5, <2>3
    <3> QED
      BY <3>1 DEF LabelBad
  <2>4. CASE labels[l] # Null /\ labels[l].room = r /\ was # dim
    BY <1>4, <2>4 DEF LabelBad
  <2> QED
    BY <2>1, <2>2, <2>3, <2>4
<1>8. ASSUME NEW i \in Items
      PROVE  ItemBad(i)' => ItemBad(i)
  <2>1. items[i] = Null \/ items[i].room \in Rooms
    BY DEF TypeOK, ItemRow
  <2> QED
    BY <1>4, <1>5, <2>1 DEF ItemBad, Missing
<1> QED
  BY <1>6, <1>7, <1>8 DEF TablesSound

\* A room that is still unused goes with its labels.
LEMMA RemoveRoomSound ==
    ASSUME TypeOK, NEW q \in Requests, RemoveRoomWrite(q), ~Stale(q)
    PROVE  TablesSound
<1> USE NullIsNothing
<1>1. PICK r \in Rooms : r = req[q].room
  BY Shapes DEF RemoveRoomWrite, At, TypeOK
<1>2. Usage(r) = {}
  BY <1>1, StillSo DEF RemoveRoomWrite, At
<1>3. /\ \A h \in Hubs : hubs[h] # r
      /\ \A i \in Items : items[i] # Null => items[i].room # r
  BY <1>2 DEF Usage
<1>4. /\ \A l \in Labels : labels'[l] = IF labels[l] # Null /\ labels[l].room = r THEN Null ELSE labels[l]
      /\ \A s \in Rooms : s # r => rooms'[s] = rooms[s]
      /\ UNCHANGED <<hubs, placements, seen, items>>
  BY <1>1 DEF RemoveRoomWrite, TypeOK
<1>5. \A h \in Hubs : /\ HubBad(h)' => HubBad(h)
                      /\ PlacementBad(h)' => PlacementBad(h)
                      /\ SeenBad(h)' => SeenBad(h)
  BY <1>3, <1>4, Referred DEF HubBad, PlacementBad, SeenBad
<1>6. \A l \in Labels : LabelBad(l)' => LabelBad(l)
  BY <1>4, Referred DEF LabelBad
<1>7. \A i \in Items : ItemBad(i)' => ItemBad(i)
  BY <1>3, <1>4, Referred DEF ItemBad, Missing
<1> QED
  BY <1>5, <1>6, <1>7 DEF TablesSound

\* A label's distance was checked against the length the room still has.
LEMMA AddLabelSound ==
    ASSUME TypeOK, ChecksOK, NEW q \in Requests, AddLabelWrite(q), ~Stale(q)
    PROVE  TablesSound
<1> USE NullIsNothing
<1>1. PICK r \in Rooms, at \in Spots, dim \in Dims :
        r = req[q].room /\ at = req[q].at /\ dim = req[q].dim
  BY Shapes DEF AddLabelWrite, At, TypeOK
<1>2. rooms[r] = dim /\ at <= dim
  BY <1>1, StillSo DEF AddLabelWrite, At, ChecksOK, Checked
<1>3. PICK l \in Fresh(Labels) : labels' = [labels EXCEPT ![l] = [room |-> r, at |-> at]]
  BY <1>1 DEF AddLabelWrite
<1>4. UNCHANGED <<rooms, hubs, placements, seen, items>>
  BY DEF AddLabelWrite
<1>5. \A h \in Hubs : /\ HubBad(h)' => HubBad(h)
                      /\ PlacementBad(h)' => PlacementBad(h)
                      /\ SeenBad(h)' => SeenBad(h)
  BY <1>4 DEF HubBad, PlacementBad, SeenBad
<1>6. ASSUME NEW m \in Labels
      PROVE  LabelBad(m)' => LabelBad(m)
  <2>1. CASE m # l
    BY <1>3, <1>4, <2>1 DEF LabelBad, TypeOK
  <2>2. CASE m = l
    <3>1. labels'[m].room = r /\ labels'[m].at = at
      BY <1>3, <2>2, FreshRows DEF TypeOK
    <3>2. ~(at > dim) /\ dim # Null
      BY <1>1, <1>2
    <3> QED
      BY <1>2, <1>4, <3>1, <3>2 DEF LabelBad
  <2> QED
    BY <2>1, <2>2
<1>7. \A i \in Items : ItemBad(i)' => ItemBad(i)
  BY <1>4 DEF ItemBad, Missing
<1> QED
  BY <1>5, <1>6, <1>7 DEF TablesSound

\* A hub is claimed into a room that is still there, and has no placement or reading yet.
LEMMA ClaimSound ==
    ASSUME TypeOK, NEW q \in Requests, ClaimWrite(q), ~Stale(q)
    PROVE  TablesSound
<1> USE NullIsNothing
<1>1. PICK r \in Rooms : r = req[q].room
  BY Shapes DEF ClaimWrite, At, TypeOK
<1>2. rooms[r] # Null
  BY <1>1, StillSo DEF ClaimWrite, At
<1>3. PICK h \in Fresh(Hubs) : hubs' = [hubs EXCEPT ![h] = r]
  BY <1>1 DEF ClaimWrite
<1>4. h \in Hubs /\ placements[h] = Null /\ seen[h] = 0
  BY FreshRows
<1>5. hubs'[h] = r /\ \A g \in Hubs : g # h => hubs'[g] = hubs[g]
  BY <1>3, <1>4 DEF TypeOK
<1>6. UNCHANGED <<rooms, labels, placements, seen, items>>
  BY DEF ClaimWrite
<1>7. ASSUME NEW g \in Hubs
      PROVE  /\ HubBad(g)' => HubBad(g)
             /\ PlacementBad(g)' => PlacementBad(g)
             /\ SeenBad(g)' => SeenBad(g)
  <2>1. CASE g = h
    BY <1>2, <1>4, <1>5, <1>6, <2>1 DEF HubBad, PlacementBad, SeenBad
  <2>2. CASE g # h
    BY <1>5, <1>6, <2>2 DEF HubBad, PlacementBad, SeenBad
  <2> QED
    BY <2>1, <2>2
<1>8. \A l \in Labels : LabelBad(l)' => LabelBad(l)
  BY <1>6 DEF LabelBad
<1>9. ASSUME NEW i \in Items
      PROVE  ItemBad(i)' => ItemBad(i)
  <2>1. CASE items[i] = Null
    BY <1>6, <2>1 DEF ItemBad
  <2>2. CASE items[i] # Null
    <3>1. items[i].home \in Hubs \cup {Null} /\ items[i].seenBy \in Hubs \cup {Null}
      BY <2>2 DEF TypeOK, ItemRow
    <3>2. \A g \in Hubs \cup {Null} : Missing(g)' => Missing(g)
      BY <1>1, <1>5 DEF Missing
    <3> QED
      BY <1>6, <3>1, <3>2 DEF ItemBad
  <2> QED
    BY <2>1, <2>2
<1> QED
  BY <1>7, <1>8, <1>9 DEF TablesSound

\* The placement fits the room the hub goes to, or goes when the hub moves.
LEMMA EditHubSound ==
    ASSUME TypeOK, ChecksOK, NEW q \in Requests, EditHubWrite(q), ~Stale(q)
    PROVE  TablesSound
<1> USE NullIsNothing
<1>1. PICK h \in Hubs, was \in Rooms, r \in Rooms, sum \in Sums \cup {Null}, dim \in Dims \cup {Null} :
        h = req[q].hub /\ was = req[q].was /\ r = req[q].room /\ sum = req[q].sum /\ dim = req[q].dim
  BY Shapes DEF EditHubWrite, At, TypeOK
<1>2. req[q].op = "editHub" /\ req[q].step = "write"
  BY DEF EditHubWrite, At
<1>3. hubs[h] = was /\ hubs[h] # Null /\ rooms[r] = dim
  BY <1>1, <1>2, StillSo
<1>4. Checked(req[q])
  BY DEF ChecksOK
<1>5. dim # Null
  BY <1>1, <1>2, <1>4 DEF Checked
<1>6. sum # Null => Fits(sum, dim)
  BY <1>1, <1>2, <1>4 DEF Checked
<1>7. /\ placements' = [placements EXCEPT ![h] = IF sum # Null THEN sum
                                                ELSE IF was # r THEN Null ELSE placements[h]]
      /\ hubs' = [hubs EXCEPT ![h] = r]
      /\ UNCHANGED <<rooms, labels, seen, items>>
  BY <1>1, <1>3 DEF EditHubWrite
<1>8. /\ hubs'[h] = r /\ \A g \in Hubs : g # h => hubs'[g] = hubs[g]
      /\ placements'[h] = IF sum # Null THEN sum ELSE IF was # r THEN Null ELSE placements[h]
      /\ \A g \in Hubs : g # h => placements'[g] = placements[g]
  BY <1>7 DEF TypeOK
<1>9. ASSUME NEW g \in Hubs
      PROVE  /\ HubBad(g)' => HubBad(g)
             /\ PlacementBad(g)' => PlacementBad(g)
             /\ SeenBad(g)' => SeenBad(g)
  <2>1. CASE g = h
    <3>1. ~HubBad(g)' /\ ~SeenBad(g)'
      BY <1>3, <1>5, <1>7, <1>8, <2>1 DEF HubBad, SeenBad
    <3>2. CASE sum # Null
      BY <1>3, <1>6, <1>7, <1>8, <2>1, <3>1, <3>2 DEF PlacementBad
    <3>3. CASE sum = Null
      <4>1. placements'[g] = Null \/ (placements'[g] = placements[g] /\ hubs'[g] = hubs[g])
        BY <1>3, <1>8, <2>1, <3>3
      <4> QED
        BY <1>7, <3>1, <4>1 DEF PlacementBad
    <3> QED
      BY <3>2, <3>3
  <2>2. CASE g # h
    BY <1>7, <1>8, <2>2 DEF HubBad, PlacementBad, SeenBad
  <2> QED
    BY <2>1, <2>2
<1>10. \A l \in Labels : LabelBad(l)' => LabelBad(l)
  BY <1>7 DEF LabelBad
<1>11. ASSUME NEW i \in Items
       PROVE  ItemBad(i)' => ItemBad(i)
  <2>1. CASE items[i] = Null
    BY <1>7, <2>1 DEF ItemBad
  <2>2. CASE items[i] # Null
    <3>1. items[i].home \in Hubs \cup {Null} /\ items[i].seenBy \in Hubs \cup {Null}
      BY <2>2 DEF TypeOK, ItemRow
    <3>2. \A g \in Hubs \cup {Null} : Missing(g)' => Missing(g)
      BY <1>1, <1>8 DEF Missing
    <3> QED
      BY <1>7, <3>1, <3>2 DEF ItemBad
  <2> QED
    BY <2>1, <2>2
<1> QED
  BY <1>9, <1>10, <1>11 DEF TablesSound

\* A hub goes with its placement, its readings and the references of items to it.
LEMMA RemoveHubSound ==
    ASSUME TypeOK, NEW q \in Requests, RemoveHubWrite(q)
    PROVE  TablesSound
<1> USE NullIsNothing
<1>1. PICK h \in Hubs : h = req[q].hub
  BY Shapes DEF RemoveHubWrite, At, TypeOK
<1>2. /\ hubs' = [hubs EXCEPT ![h] = Null]
      /\ placements' = [placements EXCEPT ![h] = Null]
      /\ seen' = [seen EXCEPT ![h] = 0]
      /\ \A i \in Items : items'[i] = IF items[i] = Null THEN Null ELSE WithoutHub(items[i], h)
      /\ UNCHANGED <<rooms, labels>>
  BY <1>1 DEF RemoveHubWrite
<1>3. /\ hubs'[h] = Null /\ placements'[h] = Null /\ seen'[h] = 0
      /\ \A g \in Hubs : g # h => hubs'[g] = hubs[g] /\ placements'[g] = placements[g] /\ seen'[g] = seen[g]
  BY <1>2 DEF TypeOK
<1>4. ASSUME NEW g \in Hubs
      PROVE  /\ HubBad(g)' => HubBad(g)
             /\ PlacementBad(g)' => PlacementBad(g)
             /\ SeenBad(g)' => SeenBad(g)
  <2>1. CASE g = h
    BY <1>3, <2>1 DEF HubBad, PlacementBad, SeenBad
  <2>2. CASE g # h
    BY <1>2, <1>3, <2>2 DEF HubBad, PlacementBad, SeenBad
  <2> QED
    BY <2>1, <2>2
<1>5. \A l \in Labels : LabelBad(l)' => LabelBad(l)
  BY <1>2 DEF LabelBad
<1>6. ASSUME NEW i \in Items
      PROVE  ItemBad(i)' => ItemBad(i)
  <2>1. CASE items[i] = Null
    BY <1>2, <2>1 DEF ItemBad
  <2>2. CASE items[i] # Null
    <3>1. items[i] \in ItemRow
      BY <2>2 DEF TypeOK
    <3>2. /\ items'[i].room = items[i].room
          /\ items'[i].home = IF items[i].home = h THEN Null ELSE items[i].home
          /\ items'[i].seenBy = IF items[i].seenBy = h THEN Null ELSE items[i].seenBy
      BY <1>2, <2>2, <3>1 DEF WithoutHub, ItemRow
    <3>3. items[i].home \in Hubs \cup {Null} /\ items[i].seenBy \in Hubs \cup {Null}
      BY <3>1 DEF ItemRow
    <3>4. \A g \in Hubs \cup {Null} : g # h => (Missing(g)' => Missing(g))
      BY <1>3 DEF Missing
    <3>5. (items'[i].home # Null /\ hubs'[items'[i].home] = Null) => Missing(items[i].home)
      BY <3>2, <3>3, <3>4 DEF Missing
    <3>6. (items'[i].seenBy # Null /\ hubs'[items'[i].seenBy] = Null) => Missing(items[i].seenBy)
      BY <3>2, <3>3, <3>4 DEF Missing
    <3> QED
      BY <1>2, <2>2, <3>2, <3>5, <3>6 DEF ItemBad, Missing
  <2> QED
    BY <2>1, <2>2
<1> QED
  BY <1>4, <1>5, <1>6 DEF TablesSound

\* A reading is kept by a hub that is still there.
LEMMA IngestSound ==
    ASSUME TypeOK, NEW q \in Requests, IngestWrite(q) \/ GatewayIngestWrite(q), ~Stale(q)
    PROVE  TablesSound
<1> USE NullIsNothing
<1>1. PICK h \in Hubs, r \in Rooms, at \in Times : h = req[q].hub /\ r = req[q].room /\ at = req[q].at
  BY MoreShapes DEF IngestWrite, GatewayIngestWrite, At, TypeOK
<1>2. hubs[h] = r
  BY <1>1, StillSo DEF IngestWrite, GatewayIngestWrite, At
<1>3. /\ \A g \in Hubs : g # h => seen'[g] = seen[g]
      /\ \A i \in Items : items'[i] \in {SeenAt(items[i], q), SeenAnyTime(items[i], q)}
      /\ UNCHANGED <<rooms, labels, hubs, placements>>
  BY <1>1 DEF IngestWrite, GatewayIngestWrite, TypeOK
<1>4. ASSUME NEW g \in Hubs
      PROVE  /\ HubBad(g)' => HubBad(g)
             /\ PlacementBad(g)' => PlacementBad(g)
             /\ SeenBad(g)' => SeenBad(g)
  BY <1>1, <1>2, <1>3 DEF HubBad, PlacementBad, SeenBad
<1>5. \A l \in Labels : LabelBad(l)' => LabelBad(l)
  BY <1>3 DEF LabelBad
<1>6. ASSUME NEW i \in Items
      PROVE  ItemBad(i)' => ItemBad(i)
  <2>1. CASE items'[i] = items[i]
    BY <1>3, <2>1 DEF ItemBad, Missing
  <2>2. CASE items[i] # Null /\ items'[i] = [items[i] EXCEPT !.seenBy = h, !.seenAt = at]
    <3>1. items[i] \in ItemRow
      BY <2>2 DEF TypeOK
    <3>2. /\ items'[i].room = items[i].room /\ items'[i].home = items[i].home
          /\ items'[i].seenBy = h
      BY <2>2, <3>1 DEF ItemRow
    <3> QED
      BY <1>1, <1>2, <1>3, <2>2, <3>2 DEF ItemBad, Missing
  <2> QED
    BY <1>1, <1>3, <2>1, <2>2 DEF SeenAt, SeenAnyTime
<1> QED
  BY <1>4, <1>5, <1>6 DEF TablesSound

\* A step that changes rows of items alone.
LEMMA ItemsSound ==
    ASSUME UNCHANGED <<rooms, labels, hubs, placements, seen>>,
           \A i \in Items : ItemBad(i)' => ItemBad(i)
    PROVE  TablesSound
  BY DEF TablesSound, HubBad, PlacementBad, SeenBad, LabelBad

\* An item's room, home hub and last hub are still there when its row is written.
LEMMA AddItemSound ==
    ASSUME TypeOK, NEW q \in Requests, AddItemWrite(q), ~Stale(q)
    PROVE  TablesSound
<1>1. PICK i \in Fresh(Items) : items' = [items EXCEPT ![i] = NewItem(req[q])]
  BY DEF AddItemWrite
<1>2. i \in Items
  BY FreshRows
<1>3. rooms[req[q].room] # Null /\ ~Missing(req[q].home) /\ ~Missing(req[q].seenBy)
  BY StillSo DEF AddItemWrite, At
<1>4. UNCHANGED <<rooms, labels, hubs, placements, seen>>
  BY DEF AddItemWrite
<1>5. PICK row : row = NewItem(req[q])
  OBVIOUS
<1>6. rooms[row.room] # Null /\ ~Missing(row.home) /\ ~Missing(row.seenBy)
  BY <1>3, <1>5 DEF NewItem
<1>7. ASSUME NEW j \in Items
      PROVE  ItemBad(j)' => ItemBad(j)
  <2>1. CASE j = i
    <3>1. items'[j] = row
      BY <1>1, <1>2, <1>5, <2>1 DEF TypeOK
    <3> QED
      BY <1>4, <1>6, <3>1 DEF ItemBad, Missing
  <2>2. CASE j # i
    <3>1. items'[j] = items[j]
      BY <1>1, <2>2 DEF TypeOK
    <3> QED
      BY <1>4, <3>1 DEF ItemBad, Missing
  <2> QED
    BY <2>1, <2>2
<1> QED
  BY <1>4, <1>7, ItemsSound

\* An edit writes back the hub that saw the item, which is still there if it was in the row.
LEMMA EditItemSound ==
    ASSUME TypeOK, NEW q \in Requests, EditItemWrite(q), ~Stale(q)
    PROVE  TablesSound
<1> USE NullIsNothing
<1>1. PICK i \in Items, was \in ItemRow, r \in Rooms, home \in Hubs \cup {Null} :
        i = req[q].item /\ was = req[q].was /\ r = req[q].room /\ home = req[q].home
  BY MoreShapes DEF EditItemWrite, At, TypeOK
<1>2. items[i] = was /\ rooms[r] # Null /\ ~Missing(home)
  BY <1>1, StillSo DEF EditItemWrite, At
<1>3. UNCHANGED <<rooms, labels, hubs, placements, seen>>
  BY DEF EditItemWrite
<1>4. PICK by, at : /\ by = SeenAfterEdit(req[q]).by /\ at = SeenAfterEdit(req[q]).at
                    /\ by = Null \/ by = was.seenBy
  BY <1>1 DEF SeenAfterEdit
<1>5. CASE items[i] = Null
  <2>1. items' = items
    BY <1>1, <1>5 DEF EditItemWrite
  <2> QED
    BY <1>3, <2>1, SameTables
<1>6. CASE items[i] # Null
  <2>1. PICK row : row = [items[i] EXCEPT !.room = r, !.home = home, !.seenBy = by, !.seenAt = at]
    OBVIOUS
  <2>2. row.room = r /\ row.home = home /\ row.seenBy = by
    BY <1>1, <1>2, <2>1 DEF ItemRow
  <2>3. items' = [items EXCEPT ![i] = row]
    BY <1>1, <1>4, <1>6, <2>1 DEF EditItemWrite
  <2>4. items'[i] = row /\ \A j \in Items : j # i => items'[j] = items[j]
    BY <1>1, <2>3 DEF TypeOK
  <2>5. Missing(by) => Missing(items[i].seenBy)
    BY <1>2, <1>4 DEF Missing
  <2>6. ASSUME NEW j \in Items
        PROVE  ItemBad(j)' => ItemBad(j)
    <3>1. CASE j = i
      <4>1. Missing(items[i].seenBy) => ItemBad(i)
        BY <1>6 DEF ItemBad
      <4>2. ItemBad(j)' => Missing(by)
        BY <1>2, <1>3, <2>2, <2>4, <3>1 DEF ItemBad, Missing
      <4> QED
        BY <2>5, <3>1, <4>1, <4>2
    <3>2. CASE j # i
      BY <1>3, <2>4, <3>2 DEF ItemBad, Missing
    <3> QED
      BY <3>1, <3>2
  <2> QED
    BY <1>3, <2>6, ItemsSound
<1> QED
  BY <1>5, <1>6

\* Removing an item, or naming its picture, disturbs no reference.
LEMMA PictureSound ==
    ASSUME TypeOK, NEW q \in Requests,
           RemoveItemWrite(q) \/ RemoveItemObject(q) \/ PutImageObject(q) \/ PutImageWrite(q) \/ PutImageDelete(q)
    PROVE  TablesSound
<1> USE NullIsNothing
<1>1. CASE RemoveItemObject(q) \/ PutImageObject(q) \/ PutImageDelete(q)
  BY <1>1, SameTables DEF RemoveItemObject, PutImageObject, PutImageDelete, DeleteOld
<1>2. CASE RemoveItemWrite(q)
  <2>1. \A i \in Items : items'[i] = Null \/ items'[i] = items[i]
    BY <1>2 DEF RemoveItemWrite, TypeOK
  <2>2. UNCHANGED <<rooms, labels, hubs, placements, seen>>
    BY <1>2 DEF RemoveItemWrite
  <2>3. \A i \in Items : ItemBad(i)' => ItemBad(i)
    BY <2>1, <2>2 DEF ItemBad, Missing
  <2> QED
    BY <2>2, <2>3, ItemsSound
<1>3. CASE PutImageWrite(q)
  <2>1. PICK i \in Items, key \in {req[q].key} : i = req[q].item
    BY <1>3, MoreShapes DEF PutImageWrite, At, TypeOK
  <2>2. UNCHANGED <<rooms, labels, hubs, placements, seen>>
    BY <1>3 DEF PutImageWrite
  <2>3. CASE items[i] = Null
    <3>1. items' = items
      BY <1>3, <2>1, <2>3 DEF PutImageWrite
    <3> QED
      BY <2>2, <3>1, SameTables
  <2>4. CASE items[i] # Null
    <3>1. PICK row : row = [items[i] EXCEPT !.image = key]
      OBVIOUS
    <3>2. items[i] \in ItemRow
      BY <2>4 DEF TypeOK
    <3>3. row.room = items[i].room /\ row.home = items[i].home /\ row.seenBy = items[i].seenBy
      BY <3>1, <3>2 DEF ItemRow
    <3>4. items' = [items EXCEPT ![i] = row]
      BY <1>3, <2>1, <2>4, <3>1 DEF PutImageWrite
    <3>5. items'[i] = row /\ \A j \in Items : j # i => items'[j] = items[j]
      BY <2>1, <3>4 DEF TypeOK
    <3>6. ASSUME NEW j \in Items
          PROVE  ItemBad(j)' => ItemBad(j)
      <4>1. CASE j = i
        BY <2>2, <2>4, <3>3, <3>5, <4>1 DEF ItemBad, Missing
      <4>2. CASE j # i
        BY <2>2, <3>5, <4>2 DEF ItemBad, Missing
      <4> QED
        BY <4>1, <4>2
    <3> QED
      BY <2>2, <3>6, ItemsSound
  <2> QED
    BY <2>3, <2>4
<1> QED
  BY <1>1, <1>2, <1>3

\* Every step but a write that another invocation has overtaken keeps the tables sound.
LEMMA StepSound ==
    ASSUME IInv, [Next]_vars, ~StaleWrite
    PROVE  TablesSound
<1> USE DEF IInv
<1>1. CASE (\E d \in Dims : AddRoom(d)) \/ (\E l \in Labels : RemoveLabel(l))
  BY <1>1, RoomsSound
<1>2. CASE UNCHANGED vars
  BY <1>2, SameTables DEF vars, tables
<1>3. ASSUME NEW q \in Requests, Reads(q) \/ Fail(q)
      PROVE  TablesSound
  BY <1>3, ReadTyped, SameTables DEF Fail, tables
<1>4. ASSUME NEW q \in Requests, Writes(q)
      PROVE  TablesSound
  <2>1. ~Stale(q)
    BY <1>4, WriteEnds DEF StaleWrite
  <2>2. CASE EditRoomWrite(q) \/ RemoveRoomWrite(q) \/ AddLabelWrite(q) \/ ClaimWrite(q)
    BY <2>1, <2>2, EditRoomSound, RemoveRoomSound, AddLabelSound, ClaimSound
  <2>3. CASE EditHubWrite(q) \/ RemoveHubWrite(q) \/ IngestWrite(q) \/ GatewayIngestWrite(q)
    BY <2>1, <2>3, EditHubSound, RemoveHubSound, IngestSound
  <2>4. CASE AddItemWrite(q) \/ EditItemWrite(q)
    BY <2>1, <2>4, AddItemSound, EditItemSound
  <2>5. CASE RemoveItemWrite(q) \/ RemoveItemObject(q) \/ PutImageObject(q) \/ PutImageWrite(q)
               \/ PutImageDelete(q)
    BY <2>5, PictureSound
  <2> QED
    BY <1>4, <2>2, <2>3, <2>4, <2>5 DEF Writes
<1> QED
  BY <1>1, <1>2, <1>3, <1>4 DEF Next

-----------------------------------------------------------------------------
(***************************************************************************)
(* Objects: an object that a step leaves unnamed and unheld was so before. *)
(***************************************************************************)
HeldIn(r) ==
    IF r.op = "removeItem" THEN {r.old}
    ELSE IF r.op # "putImage" THEN {}
    ELSE IF r.step = "write" THEN {r.old, r.key} ELSE {r.old}

LEMMA KeptBy ==
    ASSUME TypeOK, NEW q \in Requests, NEW e \in Request, Turns(q, e),
           \A k \in Keys : k \in objects' /\ (\A i \in Items : ~Names(i, k)') /\ k \notin HeldIn(e)
             => k \in objects /\ (\A i \in Items : ~Names(i, k)) /\ k \notin HeldIn(req[q])
    PROVE  ObjectsKept
<1>1. req'[q] = e /\ \A p \in Requests : p # q => req'[p] = req[p]
  BY Turned DEF TypeOK
<1>2. SUFFICES ASSUME NEW k \in Keys, ObjectBad(k)'
               PROVE  ObjectBad(k)
  BY DEF ObjectsKept
<1>3. \A p \in Requests : k \notin HeldIn(req'[p])
  BY <1>2 DEF ObjectBad, HeldKey, Held, HeldIn
<1>4. k \in objects /\ (\A i \in Items : ~Names(i, k)) /\ k \notin HeldIn(req[q])
  BY <1>1, <1>2, <1>3 DEF ObjectBad
<1>5. \A p \in Requests : k \notin HeldIn(req[p])
  BY <1>1, <1>3, <1>4
<1> QED
  BY <1>4, <1>5 DEF ObjectBad, HeldKey, Held, HeldIn

\* An invocation about anything else than pictures holds no key, and takes no key from a row.
LEMMA OthersKeep ==
    ASSUME TypeOK, NEW q \in Requests,
           \/ EditRoomWrite(q) \/ RemoveRoomWrite(q) \/ AddLabelWrite(q) \/ ClaimWrite(q)
           \/ EditHubWrite(q) \/ RemoveHubWrite(q) \/ IngestWrite(q) \/ GatewayIngestWrite(q) \/ AddItemWrite(q)
           \/ EditItemWrite(q)
    PROVE  ObjectsKept
<1> USE NullIsNothing
<1>0. req[q] \in Request /\ items \in [Items -> ItemRow \cup {Null}]
  BY DEF TypeOK
<1>1. Turns(q, Idle) /\ objects' = objects
  BY DEF EditRoomWrite, RemoveRoomWrite, AddLabelWrite, ClaimWrite, EditHubWrite, RemoveHubWrite,
         IngestWrite, GatewayIngestWrite, AddItemWrite, EditItemWrite, Done, Turns
<1>2. req[q].op \notin {"removeItem", "putImage"}
  BY DEF EditRoomWrite, RemoveRoomWrite, AddLabelWrite, ClaimWrite, EditHubWrite, RemoveHubWrite,
         IngestWrite, GatewayIngestWrite, AddItemWrite, EditItemWrite, At
<1>3. HeldIn(req[q]) = {}
  BY <1>2 DEF HeldIn
<1>4. \A i \in Items, k \in Keys : Names(i, k) => Names(i, k)'
  <2>1. CASE items' = items
    BY <2>1 DEF Names
  <2>2. CASE RemoveHubWrite(q)
    <3>1. PICK h \in Hubs : h = req[q].hub
      BY <1>0, <2>2, Shapes DEF RemoveHubWrite, At
    <3>2. ASSUME NEW i \in Items, items[i] # Null
          PROVE  items'[i] \in ItemRow /\ items'[i].image = items[i].image
      <4>1. items[i] \in ItemRow
        BY <1>0, <3>2
      <4>2. items'[i] = WithoutHub(items[i], h)
        BY <2>2, <3>1, <3>2 DEF RemoveHubWrite
      <4>3. WithoutHub(items[i], h) \in ItemRow
        BY <4>1, RowsTyped
      <4>4. WithoutHub(items[i], h).image = items[i].image
        BY <4>1 DEF WithoutHub, ItemRow
      <4> QED
        BY <4>2, <4>3, <4>4
    <3> QED
      BY <3>2, RowAssumption DEF Names
  <2>3. CASE IngestWrite(q) \/ GatewayIngestWrite(q)
    <3>1. PICK h \in Hubs, at \in 0..MaxTime : h = req[q].hub /\ at = req[q].at
      BY <1>0, <2>3, MoreShapes DEF IngestWrite, GatewayIngestWrite, At, Times
    <3>2. ASSUME NEW i \in Items, items[i] # Null
          PROVE  items'[i] \in ItemRow /\ items'[i].image = items[i].image
      <4>1. items[i] \in ItemRow
        BY <1>0, <3>2
      <4>2. items'[i] = items[i] \/ items'[i] = [items[i] EXCEPT !.seenBy = h, !.seenAt = at]
        BY <2>3, <3>1 DEF IngestWrite, GatewayIngestWrite, SeenAt, SeenAnyTime
      <4>3. [items[i] EXCEPT !.seenBy = h, !.seenAt = at] \in ItemRow
        BY <4>1, RowsTyped
      <4>4. [items[i] EXCEPT !.seenBy = h, !.seenAt = at].image = items[i].image
        BY <4>1 DEF ItemRow
      <4> QED
        BY <4>1, <4>2, <4>3, <4>4
    <3> QED
      BY <3>2, RowAssumption DEF Names
  <2>4. CASE AddItemWrite(q)
    BY <2>4 DEF AddItemWrite, Names
  <2>5. CASE EditItemWrite(q) /\ items' # items
    <3>1. PICK x \in Items : x = req[q].item
      BY <1>0, <2>5, MoreShapes DEF EditItemWrite, At
    <3>2. items[x] # Null
      BY <2>5, <3>1 DEF EditItemWrite
    <3>3. PICK row : row = [items[x] EXCEPT !.room = req[q].room, !.home = req[q].home,
                    !.seenBy = SeenAfterEdit(req[q]).by, !.seenAt = SeenAfterEdit(req[q]).at]
      OBVIOUS
    <3>4. items[x] \in ItemRow
      BY <1>0, <3>2
    <3>5. row.image = items[x].image
      BY <3>3, <3>4 DEF ItemRow
    <3>6. items' = [items EXCEPT ![x] = row]
      BY <2>5, <3>1, <3>2, <3>3 DEF EditItemWrite
    <3>7. row # Null
      <4>1. /\ req[q].was \in ItemRow /\ req[q].room \in Rooms /\ req[q].home \in Hubs \cup {Null}
        BY <1>0, <2>5, MoreShapes DEF EditItemWrite, At
      <4>2. 0 \in 0..MaxTime
        OBVIOUS
      <4>3. SeenAfterEdit(req[q]).by \in Hubs \cup {Null} /\ SeenAfterEdit(req[q]).at \in 0..MaxTime
        BY <4>1, <4>2 DEF SeenAfterEdit, ItemRow
      <4>4. row \in ItemRow
        BY <3>3, <3>4, <4>1, <4>3, RowsTyped
      <4> QED
        BY <4>4, RowAssumption
    <3> QED
      BY <1>0, <3>2, <3>5, <3>6, <3>7 DEF Names
  <2> QED
    BY <2>1, <2>2, <2>3, <2>4, <2>5 DEF EditRoomWrite, RemoveRoomWrite, AddLabelWrite, ClaimWrite, EditHubWrite
<1>5. Idle \in Request
  BY NewRequests
<1> QED
  BY <1>1, <1>3, <1>4, <1>5, KeptBy

\* A removed item's picture is left for the invocation to delete, if it is still the one it read.
LEMMA RemoveItemKeeps ==
    ASSUME TypeOK, NEW q \in Requests, RemoveItemWrite(q), ~Stale(q)
    PROVE  ObjectsKept
<1> USE NullIsNothing
<1>1. req[q] \in Request /\ req[q].op = "removeItem" /\ req[q].step = "write"
  BY DEF TypeOK, RemoveItemWrite, At
<1>2. PICK x \in Items, old \in Keys \cup {Null} : x = req[q].item /\ old = req[q].old
  BY <1>1, MoreShapes
<1>3. items[x] # Null /\ items[x].image = old
  BY <1>1, <1>2, StillSo
<1>4. PICK s \in Request : s = [req[q] EXCEPT !.step = "object"]
  BY <1>1, Proceeds
<1>5. s.op = "removeItem" /\ s.old = old
  BY <1>1, <1>2, <1>4, MoreShapes
<1>6. objects' = objects /\ items' = [items EXCEPT ![x] = Null]
  BY <1>2 DEF RemoveItemWrite
<1>7. \A i \in Items, k \in Keys : Names(i, k) => Names(i, k)' \/ k = old
  BY <1>3, <1>6 DEF Names, TypeOK
<1>8. HeldIn(req[q]) = {old} /\ HeldIn(s) = {old}
  BY <1>1, <1>2, <1>5 DEF HeldIn
<1>9. CASE old = Null
  <2>1. Turns(q, Idle) /\ Idle \in Request
    BY <1>2, <1>9, NewRequests DEF RemoveItemWrite, Done, Turns
  <2>2. \A k \in Keys : k # old
    BY <1>9
  <2> QED
    BY <1>6, <1>7, <1>8, <2>1, <2>2, KeptBy
<1>10. CASE old # Null
  <2>1. Turns(q, s)
    BY <1>2, <1>3, <1>4, <1>10 DEF RemoveItemWrite, Turns, TypeOK
  <2> QED
    BY <1>6, <1>7, <1>8, <2>1, KeptBy
<1> QED
  BY <1>9, <1>10

\* An object is deleted and forgotten in one step.
LEMMA DeleteKeeps ==
    ASSUME TypeOK, NEW q \in Requests, RemoveItemObject(q) \/ PutImageDelete(q)
    PROVE  ObjectsKept
<1>1. PICK old : /\ old = req[q].old /\ objects' = objects \ {old} /\ items' = items
                 /\ Turns(q, Idle)
  BY DEF RemoveItemObject, PutImageDelete, DeleteOld, Done, Turns
<1>2. HeldIn(req[q]) = {old}
  <2>1. CASE RemoveItemObject(q)
    BY <1>1, <2>1 DEF RemoveItemObject, At, HeldIn
  <2>2. CASE PutImageDelete(q)
    BY <1>1, <2>2 DEF PutImageDelete, At, HeldIn
  <2> QED
    BY <2>1, <2>2
<1>3. \A i \in Items, k \in Keys : Names(i, k) <=> Names(i, k)'
  BY <1>1 DEF Names
<1> QED
  BY <1>1, <1>2, <1>3, NewRequests, KeptBy

\* A new object is held by the invocation that stored it, until a row names it.
LEMMA UploadKeeps ==
    ASSUME TypeOK, NEW q \in Requests, PutImageObject(q)
    PROVE  ObjectsKept
<1>1. req[q] \in Request /\ req[q].op = "putImage" /\ req[q].step = "object"
  BY DEF TypeOK, PutImageObject, At
<1>2. PICK n \in Keys : objects' = objects \cup {n} /\ req' = [req EXCEPT ![q].step = "write", ![q].key = n]
  BY DEF PutImageObject, NextKeys, Fresh
<1>3. PICK e \in Request : e = [req[q] EXCEPT !.step = "write", !.key = n]
  BY <1>1, Proceeds
<1>4. Turns(q, e)
  BY <1>2, <1>3 DEF Turns, TypeOK
<1>5. e.op = "putImage" /\ e.step = "write" /\ e.key = n /\ e.old = req[q].old
  BY <1>1, <1>3, MoreShapes
<1>6. HeldIn(req[q]) = {req[q].old} /\ HeldIn(e) = {req[q].old, n}
  BY <1>1, <1>5 DEF HeldIn
<1>7. \A i \in Items, k \in Keys : Names(i, k) <=> Names(i, k)'
  BY DEF PutImageObject, Names
<1> QED
  BY <1>2, <1>4, <1>6, <1>7, KeptBy

\* The row names the new object, and the old one is still held.
LEMMA NameKeeps ==
    ASSUME TypeOK, NEW q \in Requests, PutImageWrite(q), ~Stale(q)
    PROVE  ObjectsKept
<1> USE NullIsNothing
<1>1. req[q] \in Request /\ req[q].op = "putImage" /\ req[q].step = "write"
  BY DEF TypeOK, PutImageWrite, At
<1>2. PICK x \in Items, old \in Keys \cup {Null}, n \in Keys \cup {Null} :
        x = req[q].item /\ old = req[q].old /\ n = req[q].key
  BY <1>1, MoreShapes
<1>3. items[x] # Null /\ items[x].image = old
  BY <1>1, <1>2, StillSo
<1>4. PICK s \in Request : s = [req[q] EXCEPT !.step = "delete"]
  BY <1>1, Proceeds
<1>5. s.op = "putImage" /\ s.step = "delete" /\ s.old = old
  BY <1>1, <1>2, <1>4, MoreShapes
<1>6. PICK row : row = [items[x] EXCEPT !.image = n]
  OBVIOUS
<1>7. items[x] \in ItemRow
  BY <1>3 DEF TypeOK
<1>8. row.image = n /\ row # Null
  <2>1. row.image = n
    BY <1>6, <1>7 DEF ItemRow
  <2>2. row \in ItemRow
    BY <1>2, <1>6, <1>7, RowsTyped
  <2> QED
    BY <2>1, <2>2, RowAssumption
<1>9. objects' = objects /\ items' = [items EXCEPT ![x] = row]
  BY <1>2, <1>3, <1>6 DEF PutImageWrite
<1>10. \A k \in Keys : /\ k = n => Names(x, k)'
                       /\ \A i \in Items : Names(i, k) => Names(i, k)' \/ k = old
  BY <1>3, <1>8, <1>9 DEF Names, TypeOK
<1>11. HeldIn(req[q]) = {old, n} /\ HeldIn(s) = {old}
  BY <1>1, <1>2, <1>5 DEF HeldIn
<1>12. CASE old = Null
  <2>1. Turns(q, Idle) /\ Idle \in Request
    BY <1>2, <1>12, NewRequests DEF PutImageWrite, Done, Turns
  <2>2. \A k \in Keys : k # old
    BY <1>12
  <2> QED
    BY <1>9, <1>10, <1>11, <2>1, <2>2, KeptBy
<1>13. CASE old # Null
  <2>1. Turns(q, s)
    BY <1>2, <1>4, <1>13 DEF PutImageWrite, Turns, TypeOK
  <2> QED
    BY <1>9, <1>10, <1>11, <2>1, KeptBy
<1> QED
  BY <1>12, <1>13

\* Reads hold nothing before, and leave objects and rows alone.
LEMMA ReadKeeps ==
    ASSUME TypeOK, NEW q \in Requests, Reads(q)
    PROVE  ObjectsKept
<1>1. UNCHANGED tables /\ \E e \in Request : Turns(q, e)
  BY ReadTyped
<1>2. req[q].op \notin {"removeItem", "putImage"}
  <2>1. CASE req[q] = Idle
    BY <2>1, NewRequests
  <2>2. CASE \/ EditHubRoom(q) \/ AddItemHub(q) \/ (\E since \in Times : AddItemSeen(q, since))
             \/ EditItemRoom(q) \/ EditItemHub(q)
    BY <2>2, Advances
  <2>3. CASE \/ \E r \in Rooms, d \in Dims : EditRoomRead(q, r, d)
             \/ \E r \in Rooms : RemoveRoomCount(q, r)
             \/ \E r \in Rooms, at \in Spots : AddLabelRead(q, r, at)
             \/ \E r \in Rooms : ClaimRead(q, r)
             \/ \E h \in Hubs, r \in Rooms \cup {Null}, sum \in Sums \cup {Null} :
                  EditHubRead(q, h, r, sum)
             \/ \E h \in Hubs : RemoveHubRead(q, h)
             \/ \E op \in {"ingest", "gateway"}, h \in Hubs, at \in Times : IngestRead(q, op, h, at)
             \/ \E r \in Rooms, home \in Hubs \cup {Null} : AddItemRoom(q, r, home)
             \/ \E i \in Items : EditItemRead(q, i)
             \/ \E i \in Items : RemoveItemRead(q, i)
             \/ \E i \in Items : PutImageRead(q, i)
    BY <2>1, <2>3 DEF EditRoomRead, RemoveRoomCount, AddLabelRead, ClaimRead, EditHubRead, RemoveHubRead,
                      IngestRead, AddItemRoom, EditItemRead, RemoveItemRead, PutImageRead, Begin
  <2> QED
    BY <2>2, <2>3 DEF Reads
<1>3. HeldIn(req[q]) = {}
  BY <1>2 DEF HeldIn
<1>4. objects' = objects /\ \A i \in Items, k \in Keys : Names(i, k) <=> Names(i, k)'
  BY <1>1 DEF tables, Names
<1> QED
  BY <1>1, <1>3, <1>4, KeptBy

\* Only a failure, or a write that another invocation has overtaken, forgets an object.
LEMMA StepKeeps ==
    ASSUME IInv, [Next]_vars, ~StaleWrite, \A q \in Requests : ~Fail(q)
    PROVE  ObjectsKept
<1> USE DEF IInv
<1>1. CASE (\E d \in Dims : AddRoom(d)) \/ (\E l \in Labels : RemoveLabel(l)) \/ UNCHANGED vars
  <2>1. objects' = objects /\ items' = items /\ req' = req
    BY <1>1 DEF AddRoom, RemoveLabel, vars, tables
  <2> QED
    BY <2>1 DEF ObjectsKept, ObjectBad, Names, HeldKey, Held
<1>2. ASSUME NEW q \in Requests, Reads(q)
      PROVE  ObjectsKept
  BY <1>2, ReadKeeps
<1>3. ASSUME NEW q \in Requests, Writes(q)
      PROVE  ObjectsKept
  <2>1. ~Stale(q)
    BY <1>3, WriteEnds DEF StaleWrite
  <2>2. CASE \/ EditRoomWrite(q) \/ RemoveRoomWrite(q) \/ AddLabelWrite(q) \/ ClaimWrite(q)
             \/ EditHubWrite(q) \/ RemoveHubWrite(q) \/ IngestWrite(q) \/ GatewayIngestWrite(q) \/ AddItemWrite(q)
             \/ EditItemWrite(q)
    BY <2>2, OthersKeep
  <2>3. CASE RemoveItemWrite(q) \/ RemoveItemObject(q) \/ PutImageObject(q) \/ PutImageWrite(q)
               \/ PutImageDelete(q)
    BY <2>1, <2>3, RemoveItemKeeps, DeleteKeeps, UploadKeeps, NameKeeps
  <2> QED
    BY <1>3, <2>2, <2>3 DEF Writes
<1> QED
  BY <1>1, <1>2, <1>3 DEF Next

\* Dangling references, measurements outside their room and forgotten objects arise only in the
\* write of an invocation whose reads another one has overtaken, or, for an object, in a failure:
\* what the handlers check and clean up is complete, for any number of rooms, hubs, items and
\* concurrent requests.
THEOREM Faultless == Spec => FaultsComeFromRaces
<1>1. IInv /\ [Next]_vars =>
        [\A f \in Faults' \ Faults :
           StaleWrite \/ (f[1] = "object" /\ \E q \in Requests : Fail(q))]_vars
  <2>1. SUFFICES ASSUME IInv, [Next]_vars, ~StaleWrite, NEW f \in Faults' \ Faults
                 PROVE  f[1] = "object" /\ \E q \in Requests : Fail(q)
    OBVIOUS
  <2>2. TypeOK /\ TypeOK'
    BY <2>1, InvStep DEF IInv
  <2>3. TablesSound
    BY <2>1, StepSound
  <2>4. f[1] = "object" /\ ~ObjectsKept
    BY <2>1, <2>2, <2>3, NoNewFaults
  <2> QED
    BY <2>1, <2>4, StepKeeps
<1> QED
  BY <1>1, Invariant, PTL DEF Spec, FaultsComeFromRaces

-----------------------------------------------------------------------------
(***************************************************************************)
(* The time an item was last seen.                                         *)
(***************************************************************************)
\* Item i stays as recent as it was, or moves to another room.
NotOlder(i) ==
    (items[i] # Null /\ items'[i] # Null /\ items'[i].seenAt < items[i].seenAt)
      => items'[i].room # items[i].room

LEMMA IngestNotOlder ==
    ASSUME TypeOK, NEW q \in Requests, IngestWrite(q), NEW i \in Items
    PROVE  NotOlder(i)
<1> USE NullIsNothing
<1>1. PICK h \in Hubs, at \in Times : h = req[q].hub /\ at = req[q].at
  BY MoreShapes DEF IngestWrite, At, TypeOK
<1>2. CASE items[i] = Null
  BY <1>2 DEF NotOlder
<1>3. CASE items[i] # Null
  <2>1. items[i] \in ItemRow
    BY <1>3 DEF TypeOK
  <2>2. items[i].seenAt \in Int /\ at \in Int
    BY <2>1 DEF ItemRow, Times
  <2>3. CASE items'[i] = items[i]
    BY <2>2, <2>3 DEF NotOlder
  <2>4. CASE items[i].seenAt <= at /\ items'[i] = [items[i] EXCEPT !.seenBy = h, !.seenAt = at]
    <3>1. items'[i].seenAt = at
      BY <2>1, <2>4 DEF ItemRow
    <3> QED
      BY <2>2, <2>4, <3>1 DEF NotOlder
  <2> QED
    BY <1>1, <2>3, <2>4 DEF IngestWrite, SeenAt, SeenAnyTime
<1> QED
  BY <1>2, <1>3

LEMMA EditItemNotOlder ==
    ASSUME TypeOK, NEW q \in Requests, EditItemWrite(q), ~Stale(q), NEW j \in Items
    PROVE  NotOlder(j)
<1> USE NullIsNothing
<1>1. PICK i \in Items, was \in ItemRow, r \in Rooms :
        i = req[q].item /\ was = req[q].was /\ r = req[q].room
  BY MoreShapes DEF EditItemWrite, At, TypeOK
<1>2. items[i] = was
  BY <1>1, StillSo DEF EditItemWrite, At
<1>3. PICK by, at : /\ by = SeenAfterEdit(req[q]).by /\ at = SeenAfterEdit(req[q]).at
                    /\ r = was.room => at = was.seenAt
  BY <1>1 DEF SeenAfterEdit
<1>4. \A k \in Items : items[k] # Null => items[k].seenAt \in Int
  BY DEF TypeOK, ItemRow
<1>5. CASE items[i] = Null \/ j # i
  <2>1. items'[j] = items[j]
    BY <1>1, <1>5 DEF EditItemWrite, TypeOK
  <2> QED
    BY <1>4, <2>1 DEF NotOlder
<1>6. CASE items[i] # Null /\ j = i
  <2>1. PICK row : row = [items[i] EXCEPT !.room = r, !.home = req[q].home, !.seenBy = by, !.seenAt = at]
    OBVIOUS
  <2>2. row.room = r /\ row.seenAt = at
    BY <1>1, <1>2, <2>1 DEF ItemRow
  <2>3. items'[j] = row
    BY <1>1, <1>3, <1>6, <2>1 DEF EditItemWrite, TypeOK
  <2> QED
    BY <1>2, <1>3, <1>4, <1>6, <2>2, <2>3 DEF NotOlder
<1> QED
  BY <1>5, <1>6

LEMMA OthersNotOlder ==
    ASSUME TypeOK, NEW q \in Requests, NEW i \in Items,
           \/ RemoveHubWrite(q) \/ AddItemWrite(q) \/ RemoveItemWrite(q) \/ PutImageWrite(q)
    PROVE  NotOlder(i)
<1> USE NullIsNothing
<1>1. items[i] # Null => items[i] \in ItemRow /\ items[i].seenAt \in Int
  BY DEF TypeOK, ItemRow
<1>2. CASE AddItemWrite(q)
  BY <1>2 DEF AddItemWrite, NotOlder
<1>3. CASE RemoveItemWrite(q)
  <2>1. items'[i] = Null \/ items'[i] = items[i]
    BY <1>3 DEF RemoveItemWrite, TypeOK
  <2> QED
    BY <1>1, <2>1 DEF NotOlder
<1>4. CASE RemoveHubWrite(q)
  <2>1. CASE items[i] = Null
    BY <2>1 DEF NotOlder
  <2>2. CASE items[i] # Null
    <3>1. items'[i].seenAt = items[i].seenAt
      BY <1>1, <1>4, <2>2 DEF RemoveHubWrite, WithoutHub, ItemRow
    <3> QED
      BY <1>1, <3>1 DEF NotOlder
  <2> QED
    BY <2>1, <2>2
<1>5. CASE PutImageWrite(q)
  <2>1. PICK x \in Items, key \in {req[q].key} : x = req[q].item
    BY <1>5, MoreShapes DEF PutImageWrite, At, TypeOK
  <2>2. CASE items[x] = Null \/ i # x
    <3>1. items'[i] = items[i]
      BY <1>5, <2>1, <2>2 DEF PutImageWrite, TypeOK
    <3> QED
      BY <1>1, <3>1 DEF NotOlder
  <2>3. CASE items[x] # Null /\ i = x
    <3>1. PICK row : row = [items[i] EXCEPT !.image = key]
      OBVIOUS
    <3>2. row.seenAt = items[i].seenAt
      BY <1>1, <2>3, <3>1 DEF ItemRow
    <3>3. items' = [items EXCEPT ![i] = row]
      BY <1>5, <2>1, <2>3, <3>1 DEF PutImageWrite
    <3>4. items'[i] = row
      BY <3>3 DEF TypeOK
    <3> QED
      BY <1>1, <2>3, <3>2, <3>4 DEF NotOlder
  <2> QED
    BY <2>2, <2>3
<1> QED
  BY <1>2, <1>3, <1>4, <1>5

\* The time an item was last seen goes back only when the item moves to another room, or in an
\* edit that writes back what it read before a reading arrived, or through a reading that a Local
\* Gateway had buffered; readings that pages post out of order, removals of hubs and uploads of
\* pictures never set it back.
THEOREM LastSeenForward == Spec => LastSeenGoesBackOnlyByRacesOrBuffers
<1>1. IInv /\ [Next]_vars =>
        [\A i \in Items :
           (items[i] # Null /\ items'[i] # Null /\ items'[i].seenAt < items[i].seenAt)
           => \/ items'[i].room # items[i].room
              \/ StaleWrite
              \/ \E q \in Requests : GatewayIngestWrite(q)]_vars
  <2>1. SUFFICES ASSUME IInv, [Next]_vars, ~StaleWrite, \A q \in Requests : ~GatewayIngestWrite(q),
                        NEW i \in Items
                 PROVE  NotOlder(i)
    BY DEF NotOlder
  <2>2. TypeOK
    BY <2>1 DEF IInv
  <2>3. CASE items' = items
    <3>1. items[i] # Null => items[i].seenAt \in Int
      BY <2>2 DEF TypeOK, ItemRow
    <3> QED
      BY <2>3, <3>1 DEF NotOlder
  <2>4. CASE (\E d \in Dims : AddRoom(d)) \/ (\E l \in Labels : RemoveLabel(l)) \/ UNCHANGED vars
    BY <2>3, <2>4 DEF AddRoom, RemoveLabel, vars, tables
  <2>5. ASSUME NEW q \in Requests, Reads(q) \/ Fail(q)
        PROVE  NotOlder(i)
    BY <2>2, <2>3, <2>5, ReadTyped DEF Fail, tables
  <2>6. ASSUME NEW q \in Requests, Writes(q)
        PROVE  NotOlder(i)
    <3>1. ~Stale(q)
      BY <2>1, <2>2, <2>6, WriteEnds DEF StaleWrite
    <3>2. CASE \/ EditRoomWrite(q) \/ RemoveRoomWrite(q) \/ AddLabelWrite(q) \/ ClaimWrite(q)
               \/ EditHubWrite(q) \/ RemoveItemObject(q) \/ PutImageObject(q) \/ PutImageDelete(q)
      BY <2>3, <3>2 DEF EditRoomWrite, RemoveRoomWrite, AddLabelWrite, ClaimWrite, EditHubWrite,
                        RemoveItemObject, PutImageObject, PutImageDelete, DeleteOld
    <3>3. CASE IngestWrite(q) \/ EditItemWrite(q)
      BY <2>2, <3>1, <3>3, IngestNotOlder, EditItemNotOlder
    <3>4. CASE RemoveHubWrite(q) \/ AddItemWrite(q) \/ RemoveItemWrite(q) \/ PutImageWrite(q)
      BY <2>2, <3>4, OthersNotOlder
    <3> QED
      BY <2>1, <2>6, <3>2, <3>3, <3>4 DEF Writes
  <2> QED
    BY <2>1, <2>4, <2>5, <2>6 DEF Next
<1> QED
  BY <1>1, Invariant, PTL DEF Spec, LastSeenGoesBackOnlyByRacesOrBuffers

=============================================================================
