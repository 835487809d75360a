--------------------------- MODULE RoomInventory ---------------------------
(***************************************************************************)
(* What a workspace keeps: rooms, labels, hubs with their placements,      *)
(* items and their pictures.  /api/room, /api/room/labels, /api/hubs,      *)
(* /api/gateways/claim, /api/items and /api/items/image, with the parts of *)
(* /api/mqtt/ingest and /api/gateways/ingest that write last-seen columns. *)
(*                                                                         *)
(* D1 has no foreign keys.  A handler checks with one statement what it    *)
(* writes with a later one (or a db.batch, which is atomic), and req[q]    *)
(* holds what it has read in between.  Pictures are in R2, outside any     *)
(* transaction.  A refused request leaves no trace and is no step.         *)
(*                                                                         *)
(* One workspace, one hardware and one tag: device_id and (owner, epc) are *)
(* UNIQUE.  One number stands for the two sides of a room, and the sum of  *)
(* two opposite distances for a placement.  Names, categories, positions   *)
(* on the screen and who may call what are left out.                       *)
(***************************************************************************)
EXTENDS Integers, FiniteSets

CONSTANTS
    Rooms, Hubs, Items, Labels,  \* ids of rows, random UUIDs
    Keys,       \* keys of R2 objects, with a random UUID in them
    Dims,       \* lengths a user enters for a room
    Sums,       \* sums of distances a user measures for a hub
    Spots,      \* distances from a wall a user enters for a label
    Requests,   \* concurrent invocations
    MaxTime,    \* bound on the times of readings
    Null

ASSUME NullAssumption ==
    /\ Null \notin Rooms \cup Hubs \cup Items \cup Labels \cup Keys
    /\ Null \notin Int
ASSUME NumbersAssumption ==
    /\ Dims \subseteq Nat \ {0}
    /\ Sums \subseteq Nat
    /\ Spots \subseteq Nat
    /\ MaxTime \in Nat

VARIABLES
    rooms,       \* rooms: length, Null without a row
    labels,      \* room_labels
    hubs,        \* hubs: room_id, Null without a row
    placements,  \* hub_placements: the sum that was measured
    seen,        \* tag_observations: last_seen_at of the tag by each hub, 0 without a row
    items,       \* items
    objects,     \* keys of the objects in R2
    req          \* local state of each invocation

tables == <<rooms, labels, hubs, placements, seen, items, objects>>
vars == <<tables, req>>

Times == 1..MaxTime
LabelRow == [room : Rooms, at : Spots]
ItemRow == [room : Rooms, home : Hubs \cup {Null},
            seenBy : Hubs \cup {Null}, seenAt : 0..MaxTime, image : Keys \cup {Null}]

ASSUME RowAssumption == Null \notin LabelRow \cup ItemRow

Idle == [op |-> "idle", step |-> "idle"]

\* What an invocation has read and been asked, one shape per handler.
Request ==
    {Idle}
    \cup [op : {"editRoom"}, step : {"write"}, room : Rooms, was : Dims, dim : Dims]
    \cup [op : {"removeRoom"}, step : {"write"}, room : Rooms]
    \cup [op : {"addLabel"}, step : {"write"}, room : Rooms, dim : Dims, at : Spots]
    \cup [op : {"claim"}, step : {"write"}, room : Rooms]
    \cup [op : {"editHub"}, step : {"room", "write"}, hub : Hubs, was : Rooms, room : Rooms,
          sum : Sums \cup {Null}, dim : Dims \cup {Null}]
    \cup [op : {"removeHub"}, step : {"write"}, hub : Hubs]
    \cup [op : {"ingest", "gateway"}, step : {"write"}, hub : Hubs, room : Rooms, at : Times]
    \cup [op : {"addItem"}, step : {"hub", "seen", "write"}, room : Rooms,
          home : Hubs \cup {Null}, seenBy : Hubs \cup {Null}, seenAt : 0..MaxTime]
    \cup [op : {"editItem"}, step : {"room", "hub", "write"}, item : Items, was : ItemRow,
          room : Rooms, home : Hubs \cup {Null}]
    \cup [op : {"removeItem"}, step : {"write", "object"}, item : Items, old : Keys \cup {Null}]
    \cup [op : {"putImage"}, step : {"object", "write", "delete"}, item : Items,
          old : Keys \cup {Null}, key : Keys \cup {Null}]

TypeOK ==
    /\ rooms \in [Rooms -> Dims \cup {Null}]
    /\ labels \in [Labels -> LabelRow \cup {Null}]
    /\ hubs \in [Hubs -> Rooms \cup {Null}]
    /\ placements \in [Hubs -> Sums \cup {Null}]
    /\ seen \in [Hubs -> 0..MaxTime]
    /\ items \in [Items -> ItemRow \cup {Null}]
    /\ objects \subseteq Keys
    /\ req \in [Requests -> Request]

Init ==
    /\ rooms = [r \in Rooms |-> Null]
    /\ labels = [l \in Labels |-> Null]
    /\ hubs = [h \in Hubs |-> Null]
    /\ placements = [h \in Hubs |-> Null]
    /\ seen = [h \in Hubs |-> 0]
    /\ items = [i \in Items |-> Null]
    /\ objects = {}
    /\ req = [q \in Requests |-> Idle]

(***************************************************************************)
(* Random ids: one that nothing stored and no invocation refers to.        *)
(***************************************************************************)
IdFields == {"room", "hub", "item", "home", "seenBy", "image", "old", "key"}
Fields(r) == {r[f] : f \in DOMAIN r \cap IdFields}
InFlight ==
    UNION {Fields(req[q]) : q \in Requests}
    \cup {req[q].was : q \in {p \in Requests : req[p].op = "editHub"}}
    \cup UNION {Fields(req[q].was) : q \in {p \in Requests : req[p].op = "editItem"}}
RowsOf(table) == {table[x] : x \in DOMAIN table} \ {Null}
Stored ==
    {r \in Rooms : rooms[r] # Null} \cup {l \in Labels : labels[l] # Null}
    \cup {h \in Hubs : hubs[h] # Null \/ placements[h] # Null \/ seen[h] # 0}
    \cup {i \in Items : items[i] # Null} \cup objects
    \cup RowsOf(hubs) \cup UNION {Fields(row) : row \in RowsOf(labels) \cup RowsOf(items)}
Fresh(S) == S \ (Stored \cup InFlight)

\* The answer is given; nothing is left of the invocation.
Done(q) == req' = [req EXCEPT ![q] = Idle]

\* An idle invocation receives its request, reads, and goes on.
Begin(q, record) ==
    /\ req[q] = Idle
    /\ req' = [req EXCEPT ![q] = record]

At(q, op, step) == req[q].op = op /\ req[q].step = step

(***************************************************************************)
(* Rooms and labels                                                        *)
(***************************************************************************)
AddRoom(d) ==
    /\ \E r \in Fresh(Rooms) : rooms' = [rooms EXCEPT ![r] = d]
    /\ UNCHANGED <<labels, hubs, placements, seen, items, objects, req>>

EditRoomRead(q, r, d) ==
    /\ rooms[r] # Null
    /\ Begin(q, [op |-> "editRoom", step |-> "write", room |-> r, was |-> rooms[r], dim |-> d])
    /\ UNCHANGED tables

\* The rows that go when the dimensions of room r change: what was measured in it.
Measured(r) == {h \in Hubs : hubs[h] = r}

\* New dimensions, compared with those read before, clear what was measured in the old ones.
EditRoomWrite(q) ==
    LET r == req[q].room
        changed == req[q].was # req[q].dim
    IN  /\ At(q, "editRoom", "write")
        /\ rooms' = IF rooms[r] = Null THEN rooms ELSE [rooms EXCEPT ![r] = req[q].dim]
        /\ placements' = [h \in Hubs |->
             IF changed /\ h \in Measured(r) THEN Null ELSE placements[h]]
        /\ labels' = [l \in Labels |->
             IF changed /\ labels[l] # Null /\ labels[l].room = r THEN Null ELSE labels[l]]
        /\ Done(q)
        /\ UNCHANGED <<hubs, seen, items, objects>>

\* Deviation: items are not counted.
HubsOf(r) == {h \in Hubs : hubs[h] = r}

\* The hubs and items that keep room r from being removed.
Usage(r) ==
    {h \in Hubs : hubs[h] = r} \cup {i \in Items : items[i] # Null /\ items[i].room = r}

RemoveRoomCount(q, r) ==
    /\ Usage(r) = {}
    /\ Begin(q, [op |-> "removeRoom", step |-> "write", room |-> r])
    /\ UNCHANGED tables

RemoveRoomWrite(q) ==
    LET r == req[q].room
    IN  /\ At(q, "removeRoom", "write")
        /\ labels' = [l \in Labels |->
             IF labels[l] # Null /\ labels[l].room = r THEN Null ELSE labels[l]]
        /\ rooms' = [rooms EXCEPT ![r] = Null]
        /\ Done(q)
        /\ UNCHANGED <<hubs, placements, seen, items, objects>>

AddLabelRead(q, r, at) ==
    /\ rooms[r] # Null
    /\ at <= rooms[r]
    /\ Begin(q, [op |-> "addLabel", step |-> "write", room |-> r, dim |-> rooms[r], at |-> at])
    /\ UNCHANGED tables

AddLabelWrite(q) ==
    /\ At(q, "addLabel", "write")
    /\ \E l \in Fresh(Labels) :
         labels' = [labels EXCEPT ![l] = [room |-> req[q].room, at |-> req[q].at]]
    /\ Done(q)
    /\ UNCHANGED <<rooms, hubs, placements, seen, items, objects>>

RemoveLabel(l) ==
    /\ labels[l] # Null
    /\ labels' = [labels EXCEPT ![l] = Null]
    /\ UNCHANGED <<rooms, hubs, placements, seen, items, objects, req>>

(***************************************************************************)
(* Hubs and placements                                                     *)
(***************************************************************************)
NoHub == \A h \in Hubs : hubs[h] = Null

\* The queries of Promise.all see the room at one time and the hub as late as the write.
ClaimRead(q, r) ==
    /\ rooms[r] # Null
    /\ Begin(q, [op |-> "claim", step |-> "write", room |-> r])
    /\ UNCHANGED tables

\* UNIQUE(device_id): one row per hardware, or the batch fails.
ClaimWrite(q) ==
    /\ At(q, "claim", "write")
    /\ NoHub
    /\ \E h \in Fresh(Hubs) : hubs' = [hubs EXCEPT ![h] = req[q].room]
    /\ Done(q)
    /\ UNCHANGED <<rooms, labels, placements, seen, items, objects>>

\* Room r' is Null when the request names none; sum is Null without a placement.
EditHubRead(q, h, r, sum) ==
    /\ hubs[h] # Null
    /\ Begin(q, [op |-> "editHub", step |-> "room", hub |-> h, was |-> hubs[h],
                 room |-> IF r = Null THEN hubs[h] ELSE r, sum |-> sum, dim |-> Null])
    /\ UNCHANGED tables

\* Distances to opposite walls add up to the room's length: within a tenth of it or 0.25.
Fits(sum, d) ==
    LET off == IF sum > d THEN sum - d ELSE d - sum
    IN  10 * off <= d \/ 4 * off <= 1

EditHubRoom(q) ==
    LET d == rooms[req[q].room]
    IN  /\ At(q, "editHub", "room")
        /\ IF d # Null /\ (req[q].sum # Null => Fits(req[q].sum, d))
           THEN req' = [req EXCEPT ![q].step = "write", ![q].dim = d]
           ELSE Done(q)
        /\ UNCHANGED tables

\* db.batch: a move drops the placement, an upsert stores the new one, then the hub's row.
EditHubWrite(q) ==
    LET h == req[q].hub
    IN  /\ At(q, "editHub", "write")
        /\ placements' = [placements EXCEPT ![h] =
             IF req[q].sum # Null THEN req[q].sum
             ELSE IF req[q].was # req[q].room THEN Null ELSE @]
        /\ hubs' = IF hubs[h] = Null THEN hubs ELSE [hubs EXCEPT ![h] = req[q].room]
        /\ Done(q)
        /\ UNCHANGED <<rooms, labels, seen, items, objects>>

RemoveHubRead(q, h) ==
    /\ hubs[h] # Null
    /\ Begin(q, [op |-> "removeHub", step |-> "write", hub |-> h])
    /\ UNCHANGED tables

\* An item's row without its references to hub h.
WithoutHub(row, h) ==
    [row EXCEPT !.home = IF @ = h THEN Null ELSE @, !.seenBy = IF @ = h THEN Null ELSE @]

RemoveHubWrite(q) ==
    LET h == req[q].hub
    IN  /\ At(q, "removeHub", "write")
        /\ items' = [i \in Items |->
             IF items[i] = Null THEN Null ELSE WithoutHub(items[i], h)]
        /\ seen' = [seen EXCEPT ![h] = 0]
        /\ placements' = [placements EXCEPT ![h] = Null]
        /\ hubs' = [hubs EXCEPT ![h] = Null]
        /\ Done(q)
        /\ UNCHANGED <<rooms, labels, objects>>

(***************************************************************************)
(* Readings, of an open page ("ingest") or of a Local Gateway ("gateway"): *)
(* the hub's row is read, then observation and item are written.           *)
(***************************************************************************)
IngestRead(q, op, h, at) ==
    /\ hubs[h] # Null
    /\ Begin(q, [op |-> op, step |-> "write", hub |-> h, room |-> hubs[h], at |-> at])
    /\ UNCHANGED tables

\* A Local Gateway's reading touches the items of its room, however late they were seen.
SeenAnyTime(row, q) ==
    IF row # Null /\ row.room = req[q].room
    THEN [row EXCEPT !.seenBy = req[q].hub, !.seenAt = req[q].at]
    ELSE row

\* A page's reading touches those of them that were not seen later.
SeenAt(row, q) ==
    IF row # Null /\ row.seenAt <= req[q].at THEN SeenAnyTime(row, q) ELSE row

\* Deviation: the times are added, like the counts.
SummedSeen(old, at) == old + at

\* MAX(last_seen_at, excluded.last_seen_at)
LatestSeen(old, at) == IF at > old THEN at ELSE old

IngestWrite(q) ==
    LET h == req[q].hub
    IN  /\ At(q, "ingest", "write")
        /\ seen' = [seen EXCEPT ![h] = LatestSeen(@, req[q].at)]
        /\ items' = [i \in Items |-> SeenAt(items[i], q)]
        /\ Done(q)
        /\ UNCHANGED <<rooms, labels, hubs, placements, objects>>

GatewayIngestWrite(q) ==
    LET h == req[q].hub
    IN  /\ At(q, "gateway", "write")
        /\ seen' = [seen EXCEPT ![h] = req[q].at]
        /\ items' = [i \in Items |-> SeenAnyTime(items[i], q)]
        /\ Done(q)
        /\ UNCHANGED <<rooms, labels, hubs, placements, objects>>

(***************************************************************************)
(* Items                                                                   *)
(***************************************************************************)
AddItemRoom(q, r, home) ==
    /\ rooms[r] # Null
    /\ Begin(q, [op |-> "addItem", step |-> IF home = Null THEN "seen" ELSE "hub",
                 room |-> r, home |-> home, seenBy |-> Null, seenAt |-> 0])
    /\ UNCHANGED tables

\* The home hub must stand in the item's room.
HomeIn(home, r) == home = Null \/ hubs[home] = r

AddItemHub(q) ==
    /\ At(q, "addItem", "hub")
    /\ IF HomeIn(req[q].home, req[q].room)
       THEN req' = [req EXCEPT ![q].step = "seen"] ELSE Done(q)
    /\ UNCHANGED tables

\* The latest observation by a hub of the room since the scan began, or since two minutes ago.
AddItemSeen(q, since) ==
    LET by == {h \in Hubs : hubs[h] = req[q].room /\ seen[h] >= since}
    IN  /\ At(q, "addItem", "seen")
        /\ IF by = {} THEN Done(q)
           ELSE \E h \in by :
                  /\ \A g \in by : seen[g] <= seen[h]
                  /\ req' = [req EXCEPT ![q].step = "write",
                                        ![q].seenBy = h, ![q].seenAt = seen[h]]
        /\ UNCHANGED tables

NewItem(r) ==
    [room |-> r.room, home |-> r.home, seenBy |-> r.seenBy, seenAt |-> r.seenAt, image |-> Null]

\* UNIQUE(owner_sub, tag_epc): a tag has one item, or the insert fails.
AddItemWrite(q) ==
    /\ At(q, "addItem", "write")
    /\ \A i \in Items : items[i] = Null
    /\ \E i \in Fresh(Items) : items' = [items EXCEPT ![i] = NewItem(req[q])]
    /\ Done(q)
    /\ UNCHANGED <<rooms, labels, hubs, placements, seen, objects>>

\* A manager sends room and home hub, a member only a name: then both stay as they were read.
EditItemRead(q, i) ==
    /\ items[i] # Null
    /\ \E r \in Rooms, home \in Hubs \cup {Null} :
         Begin(q, [op |-> "editItem", step |-> "room", item |-> i, was |-> items[i],
                   room |-> r, home |-> home])
    /\ UNCHANGED tables

EditItemRoom(q) ==
    /\ At(q, "editItem", "room")
    /\ IF rooms[req[q].room] # Null
       THEN req' = [req EXCEPT ![q].step = IF req[q].home = Null THEN "write" ELSE "hub"]
       ELSE Done(q)
    /\ UNCHANGED tables

EditItemHub(q) ==
    /\ At(q, "editItem", "hub")
    /\ IF HomeIn(req[q].home, req[q].room)
       THEN req' = [req EXCEPT ![q].step = "write"] ELSE Done(q)
    /\ UNCHANGED tables

\* Last-seen columns are written back as they were read, or cleared by a move.
SeenAfterEdit(r) ==
    IF r.room = r.was.room THEN [by |-> r.was.seenBy, at |-> r.was.seenAt]
    ELSE [by |-> Null, at |-> 0]

EditItemWrite(q) ==
    LET i == req[q].item
        last == SeenAfterEdit(req[q])
    IN  /\ At(q, "editItem", "write")
        /\ items' = IF items[i] = Null THEN items
                    ELSE [items EXCEPT ![i].room = req[q].room, ![i].home = req[q].home,
                                       ![i].seenBy = last.by, ![i].seenAt = last.at]
        /\ Done(q)
        /\ UNCHANGED <<rooms, labels, hubs, placements, seen, objects>>

RemoveItemRead(q, i) ==
    /\ items[i] # Null
    /\ Begin(q, [op |-> "removeItem", step |-> "write", item |-> i, old |-> items[i].image])
    /\ UNCHANGED tables

RemoveItemWrite(q) ==
    LET i == req[q].item
    IN  /\ At(q, "removeItem", "write")
        /\ items' = [items EXCEPT ![i] = Null]
        /\ IF items[i] = Null \/ req[q].old = Null THEN Done(q)
           ELSE req' = [req EXCEPT ![q].step = "object"]
        /\ UNCHANGED <<rooms, labels, hubs, placements, seen, objects>>

\* R2 forgets the object that was named when the row was read.
DeleteOld(q) ==
    /\ objects' = objects \ {req[q].old}
    /\ Done(q)
    /\ UNCHANGED <<rooms, labels, hubs, placements, seen, items>>

RemoveItemObject(q) == At(q, "removeItem", "object") /\ DeleteOld(q)

(***************************************************************************)
(* Pictures: the object is stored under a new key, then named by the row,  *)
(* then the object that the row named before is deleted.                   *)
(***************************************************************************)
PutImageRead(q, i) ==
    /\ items[i] # Null
    /\ Begin(q, [op |-> "putImage", step |-> "object", item |-> i,
                 old |-> items[i].image, key |-> Null])
    /\ UNCHANGED tables

\* Deviation: one key per item, without a UUID.
KeyOfItem(q) == IF req[q].old = Null THEN Fresh(Keys) ELSE {req[q].old}

NextKeys(q) == Fresh(Keys)

PutImageObject(q) ==
    /\ At(q, "putImage", "object")
    /\ \E k \in NextKeys(q) :
         /\ objects' = objects \cup {k}
         /\ req' = [req EXCEPT ![q].step = "write", ![q].key = k]
    /\ UNCHANGED <<rooms, labels, hubs, placements, seen, items>>

PutImageWrite(q) ==
    LET i == req[q].item
    IN  /\ At(q, "putImage", "write")
        /\ items' = IF items[i] = Null THEN items ELSE [items EXCEPT ![i].image = req[q].key]
        /\ IF req[q].old = Null THEN Done(q)
           ELSE req' = [req EXCEPT ![q].step = "delete"]
        /\ UNCHANGED <<rooms, labels, hubs, placements, seen, objects>>

PutImageDelete(q) == At(q, "putImage", "delete") /\ DeleteOld(q)

\* D1 or R2 fails, a constraint refuses the row, or the invocation is cut off.
Fail(q) ==
    /\ req[q] # Idle
    /\ Done(q)
    /\ UNCHANGED tables

Reads(q) ==
    \/ \E r \in Rooms, d \in Dims : EditRoomRead(q, r, d)
    \/ \E r \in Rooms : RemoveRoomCount(q, r)
    \/ \E r \in Rooms, at \in Spots : AddLabelRead(q, r, at)
    \/ \E r \in Rooms : ClaimRead(q, r)
    \/ \E h \in Hubs, r \in Rooms \cup {Null}, sum \in Sums \cup {Null} :
         EditHubRead(q, h, r, sum)
    \/ EditHubRoom(q)
    \/ \E h \in Hubs : RemoveHubRead(q, h)
    \/ \E op \in {"ingest", "gateway"}, h \in Hubs, at \in Times : IngestRead(q, op, h, at)
    \/ \E r \in Rooms, home \in Hubs \cup {Null} : AddItemRoom(q, r, home)
    \/ AddItemHub(q)
    \/ \E since \in Times : AddItemSeen(q, since)
    \/ \E i \in Items : EditItemRead(q, i)
    \/ EditItemRoom(q)
    \/ EditItemHub(q)
    \/ \E i \in Items : RemoveItemRead(q, i)
    \/ \E i \in Items : PutImageRead(q, i)

Writes(q) ==
    \/ EditRoomWrite(q)
    \/ RemoveRoomWrite(q)
    \/ AddLabelWrite(q)
    \/ ClaimWrite(q)
    \/ EditHubWrite(q)
    \/ RemoveHubWrite(q)
    \/ IngestWrite(q)
    \/ GatewayIngestWrite(q)
    \/ AddItemWrite(q)
    \/ EditItemWrite(q)
    \/ RemoveItemWrite(q)
    \/ RemoveItemObject(q)
    \/ PutImageObject(q)
    \/ PutImageWrite(q)
    \/ PutImageDelete(q)

Next ==
    \/ \E d \in Dims : AddRoom(d)
    \/ \E l \in Labels : RemoveLabel(l)
    \/ \E q \in Requests : Reads(q) \/ Writes(q) \/ Fail(q)

Spec == Init /\ [][Next]_vars

-----------------------------------------------------------------------------
(***************************************************************************)
(* Properties                                                              *)
(***************************************************************************)

\* The objects that invocation q will still name in a row, or delete.
Held(q) ==
    IF req[q].op = "removeItem" THEN {req[q].old}
    ELSE IF req[q].op # "putImage" THEN {}
    ELSE IF req[q].step = "write" THEN {req[q].old, req[q].key} ELSE {req[q].old}

Named == {items[i].image : i \in {j \in Items : items[j] # Null}}

\* What should not be there: references to rows that are gone, measurements that do not
\* fit their room, objects that no row names and no invocation is about to delete.
Faults ==
    {<<"hub", h>> : h \in {g \in Hubs : hubs[g] # Null /\ rooms[hubs[g]] = Null}}
    \cup {<<"placement", h>> : h \in {g \in Hubs : placements[g] # Null /\
           IF hubs[g] = Null THEN TRUE
           ELSE rooms[hubs[g]] # Null /\ ~Fits(placements[g], rooms[hubs[g]])}}
    \cup {<<"seen", h>> : h \in {g \in Hubs : seen[g] # 0 /\ hubs[g] = Null}}
    \cup {<<"label", l>> : l \in {m \in Labels : labels[m] # Null /\
           IF rooms[labels[m].room] = Null THEN TRUE ELSE labels[m].at > rooms[labels[m].room]}}
    \cup {<<"item", i>> : i \in {j \in Items : items[j] # Null /\
           \/ rooms[items[j].room] = Null
           \/ \E h \in {items[j].home, items[j].seenBy} \ {Null} : hubs[h] = Null}}
    \cup {<<"object", k>> : k \in objects \ (Named \cup UNION {Held(q) : q \in Requests})}

Exists(h) == h = Null \/ hubs[h] # Null
ImageIs(i, key) == items[i] # Null /\ items[i].image = key

\* What invocation q found when it read is no longer so.
Stale(q) ==
    LET r == req[q]
    IN  CASE r.op = "editRoom"   -> rooms[r.room] # r.was
          [] r.op = "removeRoom" -> Usage(r.room) # {}
          [] r.op = "addLabel"   -> rooms[r.room] # r.dim
          [] r.op = "claim"      -> rooms[r.room] = Null
          [] r.op = "editHub"    -> hubs[r.hub] # r.was \/ rooms[r.room] # r.dim
          [] r.op \in {"ingest", "gateway"} -> hubs[r.hub] # r.room
          [] r.op = "addItem"    -> rooms[r.room] = Null \/ ~Exists(r.home) \/ ~Exists(r.seenBy)
          [] r.op = "editItem"   -> \/ items[r.item] # r.was
                                    \/ rooms[r.room] = Null
                                    \/ ~Exists(r.home)
          [] r.op \in {"removeItem", "putImage"} -> ~ImageIs(r.item, r.old)
          [] OTHER -> FALSE

StaleWrite == \E q \in Requests : Stale(q) /\ req'[q] # req[q]

\* A picture that an item's row names is in R2, whatever uploads and removals overlap or
\* break off: the row is written after the object and old objects are deleted last.
StoredKeysNameObjects == Named \ {Null} \subseteq objects

\* The checks of every handler, and what it cleans up, are complete: a dangling reference,
\* a measurement outside its room or a forgotten object arises only in the write of an
\* invocation whose reads another one has overtaken, or, for an object, in a failure.
FaultsComeFromRaces ==
    [][\A f \in Faults' \ Faults :
         StaleWrite \/ (f[1] = "object" /\ \E q \in Requests : Fail(q))]_vars

\* The time an item was last seen goes back only when the item moves to another room, in an
\* edit that writes back what it read before a reading arrived, or through a reading that a
\* Local Gateway had buffered: its route, unlike that of the pages, compares no times.
LastSeenGoesBackOnlyByRacesOrBuffers ==
    [][\A i \in Items :
         (items[i] # Null /\ items'[i] # Null /\ items'[i].seenAt < items[i].seenAt)
         => \/ items'[i].room # items[i].room
            \/ StaleWrite
            \/ \E q \in Requests : GatewayIngestWrite(q)]_vars

=============================================================================
