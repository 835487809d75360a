--------------------------- MODULE Browser_proofs ---------------------------
(***************************************************************************)
(* Proofs about Browser, for any rooms, items, hubs and teams, any number  *)
(* of requests on their way, and answers in any order.                     *)
(***************************************************************************)
EXTENDS Browser, TLAPS

-----------------------------------------------------------------------------
(***************************************************************************)
(* Requests on their way, by what was asked.                               *)
(***************************************************************************)
LEMMA Shapes ==
    ASSUME NEW m \in Requests
    PROVE  /\ m.op \in {"rooms", "load", "team", "add", "hub", "drop", "edit", "createRoom", "saveRoom",
                        "removeRoom", "ingest", "locate"}
           /\ m.op = "rooms" => m \in [op : {"rooms"}, done : BOOLEAN, rows : SUBSET Rooms]
           /\ m.op = "load" =>
                m \in [op : {"load"}, done : BOOLEAN, list : Lists, room : Rooms, rows : SUBSET Row]
           /\ m.op = "team" => m \in [op : {"team"}, done : BOOLEAN, team : Teams \cup {Null}]
           /\ m.op = "add" => m \in [op : {"add"}, done : BOOLEAN, thing : Items, room : Rooms]
           /\ m.op = "hub" =>
                m \in [op : {"hub"}, done : BOOLEAN, thing : Hubs, room : RoomOrNull, from : RoomOrNull]
           /\ m.op = "drop" => m \in [op : {"drop"}, done : BOOLEAN, thing : Items, selected : ItemOrNull]
  BY DEF Requests

LEMMA MoreShapes ==
    ASSUME NEW m \in Requests
    PROVE  /\ m.op = "edit" =>
                m \in [op : {"edit"}, done : BOOLEAN, thing : Items, room : Rooms, from : RoomOrNull]
           /\ m.op \in {"createRoom", "saveRoom"} =>
                m \in [op : {"createRoom", "saveRoom"}, done : BOOLEAN, room : Rooms, from : RoomOrNull]
           /\ m.op = "removeRoom" =>
                m \in [op : {"removeRoom"}, done : BOOLEAN, room : Rooms, from : RoomOrNull, rooms : SUBSET Rooms]
           /\ m.op = "ingest" => m \in [op : {"ingest"}, done : BOOLEAN, lists : SUBSET Lists]
           /\ m.op = "locate" =>
                m \in [op : {"locate"}, done : BOOLEAN, item : Items, room : Rooms, found : BOOLEAN]
  BY DEF Requests

\* The request is dealt with; what was asked stays.
LEMMA Answered ==
    ASSUME NEW m \in Requests
    PROVE  /\ Done(m) \in Requests /\ Done(m).op = m.op
           /\ m.op = "load" =>
                /\ Done(m).list = m.list /\ Done(m).rows = m.rows
                /\ \A rows \in SUBSET Row : /\ [Done(m) EXCEPT !.rows = rows] \in Requests
                                            /\ [Done(m) EXCEPT !.rows = rows].op = "load"
                                            /\ [Done(m) EXCEPT !.rows = rows].list = m.list
                                            /\ [Done(m) EXCEPT !.rows = rows].rows = rows
           /\ m.op = "rooms" =>
                \A rows \in SUBSET Rooms : /\ [Done(m) EXCEPT !.rows = rows] \in Requests
                                           /\ [Done(m) EXCEPT !.rows = rows].op = "rooms"
           /\ m.op = "locate" =>
                /\ Done(m).item = m.item /\ Done(m).room = m.room
                /\ [m EXCEPT !.found = TRUE] \in Requests /\ [m EXCEPT !.found = TRUE].op = "locate"
                /\ [m EXCEPT !.found = TRUE].item = m.item /\ [m EXCEPT !.found = TRUE].room = m.room
<1>1. CASE m.op = "rooms"
  <2>1. m \in [op : {"rooms"}, done : BOOLEAN, rows : SUBSET Rooms]
    BY <1>1, Shapes
  <2>2. /\ Done(m) \in [op : {"rooms"}, done : BOOLEAN, rows : SUBSET Rooms]
        /\ \A rows \in SUBSET Rooms :
             [Done(m) EXCEPT !.rows = rows] \in [op : {"rooms"}, done : BOOLEAN, rows : SUBSET Rooms]
    BY <2>1 DEF Done
  <2>3. \A e \in [op : {"rooms"}, done : BOOLEAN, rows : SUBSET Rooms] : e \in Requests /\ e.op = "rooms"
    BY DEF Requests
  <2> QED
    BY <1>1, <2>2, <2>3
<1>2. CASE m.op = "load"
  <2>1. m \in [op : {"load"}, done : BOOLEAN, list : Lists, room : Rooms, rows : SUBSET Row]
    BY <1>2, Shapes
  <2>2. PICK d : d = Done(m)
    OBVIOUS
  <2>3. /\ d \in [op : {"load"}, done : BOOLEAN, list : Lists, room : Rooms, rows : SUBSET Row]
        /\ d.list = m.list /\ d.rows = m.rows
    BY <2>1, <2>2 DEF Done
  <2>4. ASSUME NEW rows \in SUBSET Row, NEW e, e = [d EXCEPT !.rows = rows]
        PROVE  /\ e \in [op : {"load"}, done : BOOLEAN, list : Lists, room : Rooms, rows : SUBSET Row]
               /\ e.list = m.list /\ e.rows = rows
    BY <2>3, <2>4
  <2>5. \A e \in [op : {"load"}, done : BOOLEAN, list : Lists, room : Rooms, rows : SUBSET Row] :
          e \in Requests /\ e.op = "load"
    BY DEF Requests
  <2> QED
    BY <1>2, <2>2, <2>3, <2>4, <2>5
<1>3. CASE m.op = "locate"
  <2>1. m \in [op : {"locate"}, done : BOOLEAN, item : Items, room : Rooms, found : BOOLEAN]
    BY <1>3, MoreShapes
  <2>2. ASSUME NEW e, e = Done(m) \/ e = [m EXCEPT !.found = TRUE]
        PROVE  /\ e \in [op : {"locate"}, done : BOOLEAN, item : Items, room : Rooms, found : BOOLEAN]
               /\ e.item = m.item /\ e.room = m.room
    BY <2>1, <2>2 DEF Done
  <2>3. \A e \in [op : {"locate"}, done : BOOLEAN, item : Items, room : Rooms, found : BOOLEAN] :
          e \in Requests /\ e.op = "locate"
    BY DEF Requests
  <2> QED
    BY <1>3, <2>2, <2>3
<1>4. CASE m.op \notin {"rooms", "load", "locate"}
  <2>1. Done(m).op = m.op
    BY Shapes, MoreShapes DEF Done
  <2>2. Done(m) \in Requests
    <3>1. CASE m.op \in {"team", "add", "hub", "drop"}
      <4>1. CASE m.op = "team"
        BY <4>1, Shapes DEF Done, Requests
      <4>2. CASE m.op = "add"
        BY <4>2, Shapes DEF Done, Requests
      <4>3. CASE m.op = "hub"
        BY <4>3, Shapes DEF Done, Requests
      <4>4. CASE m.op = "drop"
        BY <4>4, Shapes DEF Done, Requests
      <4> QED
        BY <3>1, <4>1, <4>2, <4>3, <4>4
    <3>2. CASE m.op \in {"edit", "createRoom", "saveRoom"}
      BY <3>2, MoreShapes DEF Done, Requests
    <3>3. CASE m.op \in {"removeRoom", "ingest"}
      BY <3>3, MoreShapes DEF Done, Requests
    <3> QED
      BY <1>4, <3>1, <3>2, <3>3, Shapes
  <2> QED
    BY <1>4, <2>1, <2>2
<1> QED
  BY <1>1, <1>2, <1>3, <1>4

LEMMA NewRequests ==
    /\ RoomsLoad \in Requests /\ RoomsLoad.op = "rooms"
    /\ \A x \in Items, r \in Rooms, a \in RoomOrNull :
         [op |-> "edit", done |-> FALSE, thing |-> x, room |-> r, from |-> a] \in Requests
    /\ \A x \in Items, r \in Rooms : [op |-> "add", done |-> FALSE, thing |-> x, room |-> r] \in Requests
    /\ \A x \in Items, s \in ItemOrNull :
         [op |-> "drop", done |-> FALSE, thing |-> x, selected |-> s] \in Requests
    /\ \A h \in Hubs, r \in RoomOrNull, a \in RoomOrNull :
         [op |-> "hub", done |-> FALSE, thing |-> h, room |-> r, from |-> a] \in Requests
    /\ \A o \in {"createRoom", "saveRoom"}, r \in Rooms, a \in RoomOrNull :
         [op |-> o, done |-> FALSE, room |-> r, from |-> a] \in Requests
    /\ \A r \in Rooms, a \in RoomOrNull, rs \in SUBSET Rooms :
         [op |-> "removeRoom", done |-> FALSE, room |-> r, from |-> a, rooms |-> rs] \in Requests
    /\ \A t \in Teams \cup {Null} : [op |-> "team", done |-> FALSE, team |-> t] \in Requests
    /\ \A ls \in SUBSET Lists : [op |-> "ingest", done |-> FALSE, lists |-> ls] \in Requests
    /\ \A x \in Items, r \in Rooms :
         [op |-> "locate", done |-> FALSE, item |-> x, room |-> r, found |-> FALSE] \in Requests
<1>1. RoomsLoad \in Requests /\ RoomsLoad.op = "rooms"
  BY DEF RoomsLoad, Requests
<1>2. /\ \A x \in Items, r \in Rooms, a \in RoomOrNull :
           [op |-> "edit", done |-> FALSE, thing |-> x, room |-> r, from |-> a] \in Requests
      /\ \A x \in Items, r \in Rooms : [op |-> "add", done |-> FALSE, thing |-> x, room |-> r] \in Requests
      /\ \A x \in Items, s \in ItemOrNull :
           [op |-> "drop", done |-> FALSE, thing |-> x, selected |-> s] \in Requests
  BY DEF Requests
<1>3. /\ \A h \in Hubs, r \in RoomOrNull, a \in RoomOrNull :
           [op |-> "hub", done |-> FALSE, thing |-> h, room |-> r, from |-> a] \in Requests
      /\ \A o \in {"createRoom", "saveRoom"}, r \in Rooms, a \in RoomOrNull :
           [op |-> o, done |-> FALSE, room |-> r, from |-> a] \in Requests
      /\ \A r \in Rooms, a \in RoomOrNull, rs \in SUBSET Rooms :
           [op |-> "removeRoom", done |-> FALSE, room |-> r, from |-> a, rooms |-> rs] \in Requests
  BY DEF Requests
<1>4. /\ \A t \in Teams \cup {Null} : [op |-> "team", done |-> FALSE, team |-> t] \in Requests
      /\ \A ls \in SUBSET Lists : [op |-> "ingest", done |-> FALSE, lists |-> ls] \in Requests
      /\ \A x \in Items, r \in Rooms :
           [op |-> "locate", done |-> FALSE, item |-> x, room |-> r, found |-> FALSE] \in Requests
  BY DEF Requests
<1> QED
  BY <1>1, <1>2, <1>3, <1>4

-----------------------------------------------------------------------------
(***************************************************************************)
(* Types.  What a list shows comes from an answer, so the answers on their *)
(* way are lists of that kind too: each thing once.                        *)
(***************************************************************************)
RowsOK(l, rows) ==
    /\ \A row \in rows : ListOf(row.id) = l
    /\ \A row, other \in rows : row.id = other.id => row = other
ShownOK(s) == s \in [Lists -> SUBSET Row] /\ \A l \in Lists : RowsOK(l, s[l])
NetOK(n) == n \subseteq Requests /\ \A m \in n : m.op = "load" => RowsOK(m.list, m.rows)

ServerOK == exists \subseteq Rooms /\ at \in [Things -> RoomOrNull]
PlaceOK ==
    /\ demo \in BOOLEAN
    /\ screen \in Screens
    /\ team \in Teams \cup {Null}
    /\ known \subseteq Rooms
ItemOK ==
    /\ selected \in ItemOrNull
    /\ editing \in Form \cup {Null}
    /\ locate \in {"idle", "searching", "found", "missing"}
    /\ estimate \in Form \cup {Null}
MqttOK == pending \subseteq Lists /\ timer \in BOOLEAN /\ owed \subseteq Lists
RoomOK == active \in RoomOrNull /\ ShownOK(shown) /\ NetOK(net)

TInv == /\ ServerOK /\ PlaceOK /\ ItemOK /\ MqttOK /\ RoomOK
        /\ ops \in 0..MaxOps /\ drifted \in BOOLEAN /\ strayed \in BOOLEAN

LEMMA TypeOKIs == TInv => TypeOK
  BY DEF TInv, ServerOK, PlaceOK, ItemOK, MqttOK, RoomOK, ShownOK, RowsOK, NetOK, TypeOK

LEMMA Choices ==
    /\ \A S : First(S) \in S \cup {Null}
    /\ \A S, x : Keep(x, S) \in S \cup {Null} /\ (x \in S => Keep(x, S) = x)
<1>1. ASSUME NEW S PROVE First(S) \in S \cup {Null}
  BY DEF First
<1> QED
  BY <1>1 DEF Keep

LEMMA ShownFacts ==
    ASSUME ShownOK(shown)
    PROVE  /\ Ids("items") \subseteq Items
           /\ Selected \in ItemOrNull
           /\ Null \notin Items
           /\ \A x \in Ids("items") : RoomShown(x) \in Rooms
<1>0. Null \notin Items
  BY NullAssumption
<1>1. "items" \in Lists /\ \A row \in shown["items"] : row \in Row /\ ListOf(row.id) = "items"
  BY DEF ShownOK, RowsOK, Lists
<1>2. Ids("items") \subseteq Items
  <2>1. \A x : ListOf(x) = "items" => x \in Items
    BY DEF ListOf
  <2> QED
    BY <1>1, <2>1 DEF Ids
<1>3. Selected \in ItemOrNull
  BY <1>2, Choices DEF Selected, ItemOrNull
<1>4. ASSUME NEW x \in Ids("items")
      PROVE  RoomShown(x) \in Rooms
  <2>1. PICK row \in shown["items"] : row.id = x
    BY DEF Ids
  <2>2. (CHOOSE r \in shown["items"] : r.id = x) \in shown["items"]
    BY <2>1
  <2> QED
    BY <1>1, <2>2 DEF RoomShown, Row
<1> QED
  BY <1>0, <1>2, <1>3, <1>4

\* Requests of lists carry no rows yet.
LEMMA LoadsOK ==
    ASSUME NEW n, NetOK(n), NEW ls \in SUBSET Lists, NEW r \in RoomOrNull
    PROVE  /\ NetOK(n \cup Loads(ls, r))
           /\ \A m \in Loads(ls, r) : m.op = "load"
<1>1. ASSUME NEW m \in Loads(ls, r)
      PROVE  m \in Requests /\ m.op = "load" /\ m.rows = {}
  <2>1. r \in Rooms /\ \E l \in ls :
          m = [op |-> "load", done |-> FALSE, list |-> l, room |-> r, rows |-> {}]
    BY <1>1 DEF Loads, RoomOrNull
  <2>2. m \in [op : {"load"}, done : BOOLEAN, list : Lists, room : Rooms, rows : SUBSET Row]
    BY <2>1
  <2> QED
    BY <2>1, <2>2 DEF Requests
<1>2. \A m \in Loads(ls, r) : RowsOK(m.list, m.rows)
  BY <1>1 DEF RowsOK
<1> QED
  BY <1>1, <1>2 DEF NetOK

LEMMA SubNet ==
    ASSUME NEW n, NetOK(n)
    PROVE  /\ \A k \in SUBSET n : NetOK(k)
           /\ \A m \in Requests : m.op # "load" => NetOK(n \cup {m})
  BY DEF NetOK

LEMMA Sends ==
    ASSUME NetOK(net), NEW m \in Requests, m.op # "load", Send(m)
    PROVE  NetOK(net')
  BY SubNet DEF Send

LEMMA Budgets ==
    ASSUME ops \in 0..MaxOps, Budget
    PROVE  ops' \in 0..MaxOps
  BY BoundsAssumption DEF Budget

LEMMA Shows ==
    ASSUME active \in RoomOrNull, NEW r \in RoomOrNull, NEW n, NetOK(n), NEW s, ShownOK(s), Show(r, n, s)
    PROVE  active' \in RoomOrNull /\ ShownOK(shown') /\ NetOK(net')
<1>1. active' = r /\ (shown' = s \/ shown' = [l \in Lists |-> {}])
  BY DEF Show
<1>2. ShownOK([l \in Lists |-> {}])
  BY DEF ShownOK, RowsOK
<1>3. net' = n \/ net' = n \cup Loads(Lists, r)
  BY DEF Show
<1>4. NetOK(net')
  BY <1>3, LoadsOK
<1> QED
  BY <1>1, <1>2, <1>4

LEMMA TypeInit ==
    ASSUME Init
    PROVE  TInv
<1>1. active \in RoomOrNull
  BY Choices DEF Init, RoomOrNull
<1>2. NetOK({})
  BY DEF NetOK
<1>3. net = {} \cup Loads(Lists, active)
  BY DEF Init
<1>4. NetOK(net)
  BY <1>1, <1>2, <1>3, LoadsOK
<1>5. ShownOK(shown)
  BY DEF Init, ShownOK, RowsOK
<1>6. at \in [Things -> RoomOrNull]
  BY PlacesAssumption DEF Init, Things, RoomOrNull
<1>7. ops \in 0..MaxOps
  BY BoundsAssumption DEF Init
<1> QED
  BY <1>1, <1>4, <1>5, <1>6, <1>7
     DEF Init, TInv, ServerOK, PlaceOK, ItemOK, MqttOK, RoomOK, ItemOrNull, Screens

\* Whatever the user does; Watch has the history.
LEMMA MovesTyped ==
    ASSUME TInv, NEW r \in Rooms, SwitchRoom(r) \/ PickRoom(r)
    PROVE  ServerOK' /\ PlaceOK' /\ ItemOK' /\ MqttOK' /\ RoomOK' /\ ops' \in 0..MaxOps
<1> USE DEF TInv
<1>1. Show(r, net, shown) /\ Budget /\ r \in RoomOrNull
  BY DEF SwitchRoom, PickRoom, RoomOrNull
<1>2. RoomOK'
  BY <1>1, Shows DEF RoomOK
<1>3. ServerOK' /\ PlaceOK' /\ MqttOK'
  BY DEF SwitchRoom, PickRoom, server, mqtt, ServerOK, PlaceOK, MqttOK
<1>4. ItemOK'
  BY DEF SwitchRoom, PickRoom, ForgetEstimate, ItemOK
<1> QED
  BY <1>1, <1>2, <1>3, <1>4, Budgets

LEMMA SendsTyped ==
    ASSUME TInv,
           \/ \E r \in Rooms : SaveItemChanges(r) \/ CreateRoom(r) \/ SaveRoom(r) \/ RemoveRoom(r)
           \/ \E x \in Items : AddItem(x) \/ RemoveItem(x)
           \/ \E h \in Hubs, r \in RoomOrNull : ChangeHub(h, r)
           \/ \E t \in Teams \cup {Null} : ChangeTeam(t)
    PROVE  ServerOK' /\ PlaceOK' /\ ItemOK' /\ MqttOK' /\ RoomOK' /\ ops' \in 0..MaxOps
<1> USE DEF TInv
<1>1. UNCHANGED <<server, page, mqtt>> /\ Budget
  BY DEF SaveItemChanges, CreateRoom, SaveRoom, RemoveRoom, AddItem, RemoveItem, ChangeHub, ChangeTeam
<1>2. active \in RoomOrNull /\ Selected \in ItemOrNull /\ known \in SUBSET Rooms
  BY ShownFacts DEF RoomOK, PlaceOK
<1>3. \E m \in Requests : m.op # "load" /\ Send(m)
  <2>1. ASSUME NEW r \in Rooms, SaveItemChanges(r)
        PROVE  \E m \in Requests : m.op # "load" /\ Send(m)
    <3>1. Selected \in Items
      BY <1>2, <2>1 DEF SaveItemChanges, ItemOrNull
    <3> QED
      BY <1>2, <2>1, <3>1, NewRequests DEF SaveItemChanges
  <2>2. ASSUME NEW r \in Rooms, CreateRoom(r) \/ SaveRoom(r) \/ RemoveRoom(r)
        PROVE  \E m \in Requests : m.op # "load" /\ Send(m)
    <3>1. CASE CreateRoom(r) \/ SaveRoom(r)
      BY <1>2, <3>1, NewRequests DEF CreateRoom, SaveRoom
    <3>2. CASE RemoveRoom(r)
      BY <1>2, <3>2, NewRequests DEF RemoveRoom
    <3> QED
      BY <2>2, <3>1, <3>2
  <2>3. ASSUME NEW x \in Items, AddItem(x)
        PROVE  \E m \in Requests : m.op # "load" /\ Send(m)
    <3>1. active \in Rooms
      BY <1>2, <2>3 DEF AddItem, RoomOrNull
    <3> QED
      BY <2>3, <3>1, NewRequests DEF AddItem
  <2>4. ASSUME NEW x \in Items, RemoveItem(x)
        PROVE  \E m \in Requests : m.op # "load" /\ Send(m)
    BY <1>2, <2>4, NewRequests DEF RemoveItem
  <2>5. ASSUME NEW h \in Hubs, NEW r \in RoomOrNull, ChangeHub(h, r)
        PROVE  \E m \in Requests : m.op # "load" /\ Send(m)
    BY <1>2, <2>5, NewRequests DEF ChangeHub
  <2>6. ASSUME NEW u \in Teams \cup {Null}, ChangeTeam(u)
        PROVE  \E m \in Requests : m.op # "load" /\ Send(m)
    BY <2>6, NewRequests DEF ChangeTeam
  <2> QED
    BY <2>1, <2>2, <2>3, <2>4, <2>5, <2>6
<1>4. NetOK(net')
  BY <1>3, Sends DEF RoomOK
<1>5. ServerOK' /\ PlaceOK' /\ ItemOK' /\ MqttOK'
  BY <1>1 DEF server, page, mqtt, ServerOK, PlaceOK, ItemOK, MqttOK
<1>6. active' = active /\ shown' = shown
  BY <1>1 DEF page
<1>7. RoomOK'
  BY <1>4, <1>6 DEF RoomOK
<1> QED
  BY <1>1, <1>5, <1>7, Budgets

LEMMA UserTyped ==
    ASSUME TInv, UserStep
    PROVE  ServerOK' /\ PlaceOK' /\ ItemOK' /\ MqttOK' /\ RoomOK' /\ ops' \in 0..MaxOps
<1> USE DEF TInv
<1>1. CASE \E s \in Screens : GoTo(s)
  <2>1. ItemOK' /\ PlaceOK' /\ ServerOK' /\ MqttOK'
    BY <1>1 DEF GoTo, ForgetEstimate, ItemOK, PlaceOK, ServerOK, MqttOK, server, mqtt
  <2>2. active' = active /\ shown' = shown /\ net' = net /\ Budget
    BY <1>1 DEF GoTo
  <2> QED
    BY <2>1, <2>2, Budgets DEF RoomOK
<1>2. ASSUME NEW x \in Items, SelectItem(x) \/ OpenItemEditor(x)
      PROVE  ServerOK' /\ PlaceOK' /\ ItemOK' /\ MqttOK' /\ RoomOK' /\ ops' \in 0..MaxOps
  <2>1. active' = active /\ shown' = shown /\ net' = net /\ Budget
    BY <1>2 DEF SelectItem, OpenItemEditor
  <2>2. PlaceOK' /\ ServerOK' /\ MqttOK'
    BY <1>2 DEF SelectItem, OpenItemEditor, PlaceOK, ServerOK, MqttOK, server, mqtt, Screens
  <2>3. x \in Ids("items") => [item |-> x, room |-> RoomShown(x)] \in Form
    BY ShownFacts DEF Form, RoomOK
  <2>4. ItemOK'
    BY <1>2, <2>3 DEF SelectItem, OpenItemEditor, ForgetEstimate, ItemOK, ItemOrNull
  <2> QED
    BY <2>1, <2>2, <2>4, Budgets DEF RoomOK
<1>3. CASE CancelEdit
  <2>1. active' = active /\ shown' = shown /\ net' = net /\ Budget
    BY <1>3 DEF CancelEdit
  <2>2. PlaceOK' /\ ServerOK' /\ MqttOK' /\ ItemOK'
    BY <1>3 DEF CancelEdit, PlaceOK, ServerOK, MqttOK, ItemOK, server, mqtt
  <2> QED
    BY <2>1, <2>2, Budgets DEF RoomOK
<1>4. CASE RunLocate
  <2>1. active' = active /\ shown' = shown /\ Budget
    BY <1>4 DEF RunLocate
  <2>2. PlaceOK' /\ ServerOK' /\ MqttOK' /\ ItemOK'
    BY <1>4 DEF RunLocate, PlaceOK, ServerOK, MqttOK, ItemOK, server, mqtt
  <2>3. Selected \in Items /\ active \in Rooms
    BY <1>4, ShownFacts DEF RunLocate, RoomOK, PlaceOK, ItemOrNull
  <2>4. NetOK(net')
    BY <1>4, <2>3, NewRequests, Sends DEF RunLocate, RoomOK
  <2> QED
    BY <2>1, <2>2, <2>4, Budgets DEF RoomOK
<1>5. CASE ToggleDemoMode
  <2>1. active' = active /\ shown' = shown /\ Budget
    BY <1>5 DEF ToggleDemoMode
  <2>2. PlaceOK' /\ ServerOK' /\ MqttOK'
    BY <1>5 DEF ToggleDemoMode, Disposed, PlaceOK, ServerOK, MqttOK, server, Screens
  <2>3. ItemOK'
    BY <1>5 DEF ToggleDemoMode, ForgetEstimate, ItemOK, ItemOrNull
  <2>4. NetOK(WithoutIngests)
    BY SubNet DEF WithoutIngests, RoomOK
  <2>5. net' = WithoutIngests \/ net' = WithoutIngests \cup Loads(Lists, active)
    BY <1>5 DEF ToggleDemoMode
  <2>6. NetOK(net')
    BY <2>4, <2>5, LoadsOK DEF RoomOK
  <2> QED
    BY <2>1, <2>2, <2>3, <2>6, Budgets DEF RoomOK
<1>6. CASE \E r \in Rooms : SwitchRoom(r) \/ PickRoom(r)
  BY <1>6, MovesTyped
<1> QED
  BY <1>1, <1>2, <1>3, <1>4, <1>5, <1>6, SendsTyped DEF UserStep

\* The page goes on with an answer.
LEMMA AnswerListTyped ==
    ASSUME TInv, NEW m \in net, AnswerLoad(m) \/ AnswerRooms(m) \/ AnswerTeam(m)
    PROVE  PlaceOK' /\ ItemOK' /\ MqttOK' /\ RoomOK'
<1> USE DEF TInv
<1>0. m \in Requests /\ NetOK(net \ {m})
  BY SubNet DEF RoomOK, NetOK
<1>1. CASE AnswerLoad(m)
  <2>1. m.list \in Lists /\ m.rows \in SUBSET Row /\ RowsOK(m.list, m.rows)
    BY <1>0, <1>1, Shapes DEF AnswerLoad, RoomOK, NetOK
  <2>2. shown' = [shown EXCEPT ![m.list] = m.rows]
    BY <1>1 DEF AnswerLoad
  <2>3. ShownOK(shown')
    BY <2>1, <2>2 DEF ShownOK, RoomOK
  <2>4. m.list = "items" => {row.id : row \in m.rows} \subseteq Items
    <3>1. \A x : ListOf(x) = "items" => x \in Items
      BY DEF ListOf
    <3> QED
      BY <2>1, <3>1 DEF RowsOK
  <2>5. selected' \in ItemOrNull
    BY <1>1, <2>4, Choices DEF AnswerLoad, ItemOrNull, ItemOK
  <2> QED
    BY <1>0, <1>1, <2>3, <2>5 DEF AnswerLoad, PlaceOK, ItemOK, MqttOK, RoomOK, mqtt
<1>2. CASE AnswerRooms(m)
  <2>1. m.rows \in SUBSET Rooms
    BY <1>0, <1>2, Shapes DEF AnswerRooms
  <2>2. Keep(active, m.rows) \in RoomOrNull
    BY <2>1, Choices DEF RoomOrNull
  <2>3. Show(Keep(active, m.rows), net \ {m}, shown)
    BY <1>2 DEF AnswerRooms
  <2>4. RoomOK'
    BY <1>0, <2>2, <2>3, Shows DEF RoomOK
  <2> QED
    BY <1>2, <2>1, <2>4 DEF AnswerRooms, PlaceOK, ItemOK, MqttOK, mqtt
<1>3. CASE AnswerTeam(m)
  <2>1. m.team \in Teams \cup {Null}
    BY <1>0, <1>3, Shapes DEF AnswerTeam
  <2>2. MqttOK'
    BY <1>3 DEF AnswerTeam, Disposed, MqttOK, mqtt
  <2>3. PICK n : n = (IF m.team = team THEN net ELSE WithoutIngests) \ {m}
    OBVIOUS
  <2>4. NetOK(n)
    BY <2>3, SubNet DEF WithoutIngests, RoomOK
  <2>5. net' = n \cup {RoomsLoad}
    BY <1>3, <2>3 DEF AnswerTeam
  <2>6. NetOK(net')
    BY <2>4, <2>5, NewRequests, SubNet
  <2> QED
    BY <1>3, <2>1, <2>2, <2>6 DEF AnswerTeam, PlaceOK, ItemOK, RoomOK
<1> QED
  BY <1>1, <1>2, <1>3

LEMMA AnswerItemTyped ==
    ASSUME TInv, NEW m \in net, AnswerAdd(m) \/ AnswerDrop(m) \/ AnswerEdit(m)
    PROVE  PlaceOK' /\ ItemOK' /\ MqttOK' /\ RoomOK'
<1> USE DEF TInv
<1>0. /\ m \in Requests /\ NetOK(net \ {m})
      /\ "items" \in Lists /\ shown \in [Lists -> SUBSET Row] /\ RowsOK("items", shown["items"])
  BY SubNet DEF RoomOK, NetOK, ShownOK, Lists
<1>1. ASSUME NEW rows \in SUBSET Row, RowsOK("items", rows)
      PROVE  ShownOK([shown EXCEPT !["items"] = rows])
  BY <1>0, <1>1 DEF ShownOK, RoomOK
<1>2. ASSUME NEW x \in Items, NEW r \in Rooms
      PROVE  [id |-> x, room |-> r] \in Row /\ ListOf(x) = "items"
  BY DEF Row, ListOf, Things
<1>3. CASE AnswerAdd(m)
  <2>1. m.thing \in Items /\ m.room \in Rooms
    BY <1>0, <1>3, Shapes DEF AnswerAdd
  <2>2. PICK new \in Row : new = [id |-> m.thing, room |-> m.room] /\ new.id = m.thing
    BY <1>2, <2>1
  <2>3. WithRow(new) \in SUBSET Row /\ RowsOK("items", WithRow(new))
    BY <1>0, <1>2, <2>1, <2>2 DEF WithRow, RowsOK
  <2>4. ShownOK(shown')
    BY <1>1, <1>3, <2>2, <2>3 DEF AnswerAdd
  <2> QED
    BY <1>0, <1>3, <2>1, <2>4 DEF AnswerAdd, PlaceOK, ItemOK, MqttOK, RoomOK, ItemOrNull, mqtt, Screens
<1>4. CASE AnswerDrop(m)
  <2>1. PICK rows \in SUBSET Row : rows = {row \in shown["items"] : row.id # m.thing}
    BY <1>0
  <2>2. RowsOK("items", rows)
    BY <1>0, <2>1 DEF RowsOK
  <2>3. shown' = [shown EXCEPT !["items"] = rows]
    BY <1>4, <2>1 DEF AnswerDrop
  <2>4. ShownOK(shown')
    BY <1>1, <2>2, <2>3
  <2>5. ItemOK'
    BY <1>4 DEF AnswerDrop, ForgetEstimate, ItemOK, ItemOrNull
  <2> QED
    BY <1>0, <1>4, <2>4, <2>5 DEF AnswerDrop, PlaceOK, MqttOK, RoomOK, mqtt
<1>5. CASE AnswerEdit(m)
  <2>1. m.thing \in Items /\ m.room \in Rooms
    BY <1>0, <1>5, MoreShapes DEF AnswerEdit
  <2>2. PICK new \in Row : new = [id |-> m.thing, room |-> m.room] /\ new.id = m.thing
    BY <1>2, <2>1
  <2>3. Replaced(new) \in SUBSET Row /\ RowsOK("items", Replaced(new))
    BY <1>0, <1>2, <2>1, <2>2 DEF Replaced, RowsOK
  <2>4. PICK s : s = [shown EXCEPT !["items"] = Replaced(new)]
    OBVIOUS
  <2>5. ShownOK(s)
    BY <1>1, <2>3, <2>4
  <2>6. PICK r \in RoomOrNull : r = IF m.room # m.from THEN m.room ELSE active
    BY <2>1 DEF RoomOK, RoomOrNull
  <2>7. Show(r, net \ {m}, s)
    BY <1>5, <2>2, <2>4, <2>6 DEF AnswerEdit
  <2>8. RoomOK'
    BY <1>0, <2>5, <2>7, Shows DEF RoomOK
  <2> QED
    BY <1>5, <2>8 DEF AnswerEdit, PlaceOK, ItemOK, MqttOK, mqtt
<1> QED
  BY <1>3, <1>4, <1>5

LEMMA AnswerRoomTyped ==
    ASSUME TInv, NEW m \in net, AnswerHub(m) \/ AnswerRoom(m)
    PROVE  PlaceOK' /\ ItemOK' /\ MqttOK' /\ RoomOK'
<1> USE DEF TInv
<1>0. m \in Requests /\ NetOK(net \ {m}) /\ active \in RoomOrNull /\ ShownOK(shown)
  BY SubNet DEF RoomOK, NetOK
<1>1. \A r \in RoomOrNull : NetOK((net \ {m}) \cup Loads({"hubs"}, r))
  BY <1>0, LoadsOK DEF Lists
<1>2. CASE AnswerHub(m)
  <2>1. m.room \in RoomOrNull /\ m.from \in RoomOrNull
    BY <1>0, <1>2, Shapes DEF AnswerHub
  <2>2. \/ Show(active, (net \ {m}) \cup Loads({"hubs"}, m.from), shown)
        \/ Show(m.room, net \ {m}, shown)
    BY <1>2 DEF AnswerHub
  <2>3. RoomOK'
    BY <1>0, <1>1, <2>1, <2>2, Shows DEF RoomOK
  <2> QED
    BY <1>2, <2>3 DEF AnswerHub, PlaceOK, ItemOK, MqttOK, mqtt
<1>3. CASE AnswerRoom(m)
  <2>1. UNCHANGED <<demo, screen, team, selected, editing, locate, estimate, mqtt>>
    BY <1>3 DEF AnswerRoom
  <2>2. CASE m.op = "createRoom"
    <3>1. m.room \in Rooms
      BY <1>0, <2>2, MoreShapes
    <3>2. known' = known \cup {m.room} /\ Show(m.room, net \ {m}, shown) /\ m.room \in RoomOrNull
      BY <1>3, <2>2, <3>1 DEF AnswerRoom, RoomOrNull
    <3>3. RoomOK'
      BY <1>0, <3>2, Shows DEF RoomOK
    <3> QED
      BY <2>1, <3>1, <3>2, <3>3 DEF PlaceOK, ItemOK, MqttOK, mqtt
  <2>3. CASE m.op = "saveRoom"
    <3>1. m.from \in RoomOrNull
      BY <1>0, <2>3, MoreShapes
    <3>2. known' = known /\ Show(active, (net \ {m}) \cup Loads({"hubs"}, m.from), shown)
      BY <1>3, <2>3 DEF AnswerRoom
    <3>3. RoomOK'
      BY <1>0, <1>1, <3>1, <3>2, Shows DEF RoomOK
    <3> QED
      BY <2>1, <3>2, <3>3 DEF PlaceOK, ItemOK, MqttOK, mqtt
  <2>4. CASE m.op = "removeRoom"
    <3>1. m.rooms \in SUBSET Rooms
      BY <1>0, <2>4, MoreShapes
    <3>2. First(m.rooms \ {m.room}) \in RoomOrNull
      BY <3>1, Choices DEF RoomOrNull
    <3>3. PICK r \in RoomOrNull : r = IF m.from = m.room THEN First(m.rooms \ {m.room}) ELSE active
      BY <1>0, <3>2
    <3>4. known' = m.rooms \ {m.room} /\ Show(r, net \ {m}, shown)
      BY <1>3, <2>4, <3>3 DEF AnswerRoom
    <3>5. RoomOK'
      BY <1>0, <3>4, Shows DEF RoomOK
    <3> QED
      BY <2>1, <3>1, <3>4, <3>5 DEF PlaceOK, ItemOK, MqttOK, mqtt
  <2> QED
    BY <1>3, <2>2, <2>3, <2>4 DEF AnswerRoom
<1> QED
  BY <1>2, <1>3

LEMMA AnswerTyped ==
    ASSUME TInv, NEW m \in net, Answer(m)
    PROVE  PlaceOK' /\ ItemOK' /\ MqttOK' /\ RoomOK' /\ ServerOK' /\ ops' \in 0..MaxOps
<1> USE DEF TInv
<1>0. m \in Requests /\ NetOK(net \ {m}) /\ active \in RoomOrNull /\ ShownOK(shown)
  BY SubNet DEF RoomOK, NetOK
<1>1. ServerOK' /\ ops' \in 0..MaxOps
  BY DEF Answer, server, ServerOK
<1>2. CASE AnswerMessage(m)
  <2>1. m.lists \in SUBSET Lists
    BY <1>0, <1>2, MoreShapes DEF AnswerMessage
  <2> QED
    BY <1>0, <1>1, <1>2, <2>1
       DEF AnswerMessage, PendingWith, page, PlaceOK, ItemOK, MqttOK, RoomOK
<1>3. CASE LocatePoll(m)
  <2>1. m.item \in Items /\ m.room \in Rooms /\ m.op = "locate"
    BY <1>0, <1>3, MoreShapes DEF LocatePoll
  <2>2. PICK e \in Requests : e = [m EXCEPT !.found = TRUE] /\ e.op = "locate"
    <3>1. m.op = "locate" => /\ [m EXCEPT !.found = TRUE] \in Requests
                             /\ [m EXCEPT !.found = TRUE].op = "locate"
      BY <1>0, Answered
    <3> QED
      BY <2>1, <3>1
  <2>3. net' = (net \ {m}) \cup {e}
    BY <1>3, <2>2 DEF LocatePoll, Swap
  <2>4. NetOK(net')
    BY <1>0, <2>2, <2>3, SubNet
  <2>5. [item |-> m.item, room |-> m.room] \in Form
    BY <2>1 DEF Form
  <2> QED
    BY <1>0, <1>1, <1>3, <2>4, <2>5 DEF LocatePoll, PlaceOK, ItemOK, MqttOK, RoomOK, mqtt
<1>4. CASE LocateEnd(m)
  BY <1>0, <1>1, <1>4 DEF LocateEnd, PlaceOK, ItemOK, MqttOK, RoomOK, mqtt
<1> QED
  BY <1>1, <1>2, <1>3, <1>4, AnswerListTyped, AnswerItemTyped, AnswerRoomTyped DEF Answer

LEMMA PageTyped ==
    ASSUME TInv, PageStep
    PROVE  ServerOK' /\ PlaceOK' /\ ItemOK' /\ MqttOK' /\ RoomOK' /\ ops' \in 0..MaxOps
<1> USE DEF TInv
<1>1. ASSUME NEW l \in Lists, Poll(l)
      PROVE  ServerOK' /\ PlaceOK' /\ ItemOK' /\ MqttOK' /\ RoomOK' /\ ops' \in 0..MaxOps
  <2>1. net' = net \cup Loads({l}, active) /\ UNCHANGED <<server, page, mqtt, ops>>
    BY <1>1 DEF Poll, PolledRoom
  <2>2. NetOK(net')
    BY <2>1, LoadsOK DEF RoomOK
  <2> QED
    BY <2>1, <2>2 DEF server, page, mqtt, ServerOK, PlaceOK, ItemOK, MqttOK, RoomOK
<1>2. ASSUME NEW tag \in BOOLEAN, Message(tag)
      PROVE  ServerOK' /\ PlaceOK' /\ ItemOK' /\ MqttOK' /\ RoomOK' /\ ops' \in 0..MaxOps
  <2>1. UNCHANGED <<server, page, mqtt>> /\ Budget
    BY <1>2 DEF Message
  <2>2. (IF tag THEN Lists ELSE {"hubs"}) \in SUBSET Lists
    BY DEF Lists
  <2>3. \E m \in Requests : m.op # "load" /\ Send(m)
    BY <1>2, <2>2, NewRequests DEF Message
  <2>4. NetOK(net')
    BY <2>3, Sends DEF RoomOK
  <2> QED
    BY <2>1, <2>4, Budgets DEF server, page, mqtt, ServerOK, PlaceOK, ItemOK, MqttOK, RoomOK
<1>3. CASE RefreshTimer
  <2>1. net' = net \cup Loads(pending, active) /\ UNCHANGED <<server, page, ops>>
    BY <1>3 DEF RefreshTimer
  <2>2. NetOK(net')
    BY <2>1, LoadsOK DEF RoomOK, MqttOK
  <2>3. MqttOK'
    BY <1>3 DEF RefreshTimer, MqttOK
  <2> QED
    BY <2>1, <2>2, <2>3 DEF server, page, ServerOK, PlaceOK, ItemOK, RoomOK
<1>4. ASSUME NEW m \in net, Fail(m)
      PROVE  ServerOK' /\ PlaceOK' /\ ItemOK' /\ MqttOK' /\ RoomOK' /\ ops' \in 0..MaxOps
  <2>1. net' = net \ {m} /\ NetOK(net')
    BY <1>4, SubNet DEF Fail, RoomOK
  <2>2. ops' \in 0..MaxOps
    BY <1>4, Budgets DEF Fail
  <2> QED
    BY <1>4, <2>1, <2>2 DEF Fail, server, mqtt, ServerOK, PlaceOK, ItemOK, MqttOK, RoomOK
<1> QED
  BY <1>1, <1>2, <1>3, <1>4, AnswerTyped DEF PageStep

\* A list as the server answers it: the things of one room.
LEMMA ListedOK ==
    ASSUME NEW l \in Lists, NEW r \in Rooms
    PROVE  Listed(l, r) \in SUBSET Row /\ RowsOK(l, Listed(l, r))
<1>1. \A row \in Listed(l, r) : row \in Row /\ ListOf(row.id) = l /\ row = [id |-> row.id, room |-> r]
  BY DEF Listed, Row
<1> QED
  BY <1>1 DEF RowsOK

LEMMA ServeTyped ==
    ASSUME TInv, Serve
    PROVE  ServerOK' /\ NetOK(net')
<1> USE DEF TInv
<1>1. PICK m \in net :
        \/ ServeLoad(m) \/ ServeRooms(m) \/ ServeTeam(m)
        \/ ServeThing(m) \/ ServeRoom(m) \/ ServeMessage(m)
  BY DEF Serve
<1>2. m \in Requests /\ NetOK(net \ {m})
  BY SubNet DEF RoomOK, NetOK
<1>3. CASE ServeLoad(m)
  <2>1. m.op = "load" /\ m.list \in Lists /\ m.room \in Rooms
    BY <1>2, <1>3, Shapes DEF ServeLoad
  <2>2. Listed(m.list, m.room) \in SUBSET Row /\ RowsOK(m.list, Listed(m.list, m.room))
    BY <2>1, ListedOK
  <2>3. PICK e \in Requests : /\ e = [Done(m) EXCEPT !.rows = Listed(m.list, m.room)]
                              /\ e.list = m.list /\ e.rows = Listed(m.list, m.room)
    <3>1. m.op = "load" => \A rows \in SUBSET Row : /\ [Done(m) EXCEPT !.rows = rows] \in Requests
                                                     /\ [Done(m) EXCEPT !.rows = rows].list = m.list
                                                     /\ [Done(m) EXCEPT !.rows = rows].rows = rows
      BY <1>2, Answered
    <3> QED
      BY <2>1, <2>2, <3>1
  <2>4. net' = (net \ {m}) \cup {e}
    BY <1>3, <2>3 DEF ServeLoad, Swap
  <2>5. NetOK(net')
    BY <1>2, <2>2, <2>3, <2>4 DEF NetOK
  <2> QED
    BY <1>3, <2>5 DEF ServeLoad, ServerOK, server
<1>4. CASE ServeRooms(m)
  <2>1. m.op = "rooms" /\ exists \in SUBSET Rooms
    BY <1>4 DEF ServeRooms, ServerOK
  <2>2. PICK e \in Requests : e = [Done(m) EXCEPT !.rows = exists] /\ e.op = "rooms"
    <3>1. m.op = "rooms" => \A rows \in SUBSET Rooms : /\ [Done(m) EXCEPT !.rows = rows] \in Requests
                                                        /\ [Done(m) EXCEPT !.rows = rows].op = "rooms"
      BY <1>2, Answered
    <3> QED
      BY <2>1, <3>1
  <2>3. net' = (net \ {m}) \cup {e}
    BY <1>4, <2>2 DEF ServeRooms, Swap
  <2>4. NetOK(net')
    BY <1>2, <2>2, <2>3, SubNet
  <2> QED
    BY <1>4, <2>4 DEF ServeRooms, ServerOK, server
<1>5. CASE ServeTeam(m) \/ ServeThing(m) \/ ServeRoom(m) \/ ServeMessage(m)
  <2>1. PICK e \in Requests : e = Done(m) /\ e.op = m.op
    BY <1>2, Answered
  <2>2. net' = (net \ {m}) \cup {e} /\ m.op # "load"
    BY <1>5, <2>1 DEF ServeTeam, ServeThing, ServeRoom, ServeMessage, Swap
  <2>3. NetOK(net')
    BY <1>2, <2>1, <2>2, SubNet
  <2>4. exists' \subseteq Rooms
    <3>1. CASE ServeTeam(m)
      BY <3>1 DEF ServeTeam, ServerOK
    <3>2. CASE ServeThing(m) \/ ServeMessage(m)
      BY <3>2 DEF ServeThing, ServeMessage, ServerOK, server
    <3>3. CASE ServeRoom(m)
      <4>1. m.op = "createRoom" => m.room \in Rooms
        BY <1>2, MoreShapes
      <4> QED
        BY <3>3, <4>1 DEF ServeRoom, ServerOK
    <3> QED
      BY <1>5, <3>1, <3>2, <3>3
  <2>5. at' \in [Things -> RoomOrNull]
    <3>1. CASE ServeTeam(m) \/ ServeRoom(m) \/ ServeMessage(m)
      BY <3>1 DEF ServeTeam, ServeRoom, ServeMessage, ServerOK, server
    <3>2. CASE ServeThing(m)
      <4>1. m.op \in {"add", "edit", "hub", "drop"}
        BY <3>2 DEF ServeThing
      <4>2. m.op # "drop" => m.room \in RoomOrNull
        BY <1>2, <4>1, Shapes, MoreShapes DEF RoomOrNull
      <4>3. (IF m.op = "drop" THEN Null ELSE m.room) \in RoomOrNull
        BY <4>2 DEF RoomOrNull
      <4> QED
        BY <3>2, <4>3 DEF ServeThing, ServerOK
    <3> QED
      BY <1>5, <3>1, <3>2
  <2> QED
    BY <2>3, <2>4, <2>5 DEF ServerOK
<1> QED
  BY <1>1, <1>3, <1>4, <1>5

LEMMA TypeStep ==
    ASSUME TInv, [Next]_vars
    PROVE  TInv'
<1>1. ASSUME NEW b, Watch(b)
      PROVE  drifted' \in BOOLEAN /\ strayed' \in BOOLEAN
  BY <1>1 DEF Watch
<1>2. CASE UserStep /\ Watch(FALSE)
  BY <1>1, <1>2, UserTyped DEF TInv
<1>3. CASE PageStep /\ Watch(TRUE)
  BY <1>1, <1>3, PageTyped DEF TInv
<1>4. CASE Serve /\ UNCHANGED <<drifted, strayed>>
  <2>1. UNCHANGED <<page, mqtt, ops>>
    BY <1>4 DEF Serve
  <2>2. PlaceOK' /\ ItemOK' /\ MqttOK' /\ active' = active /\ shown' = shown
    BY <2>1 DEF page, mqtt, TInv, PlaceOK, ItemOK, MqttOK
  <2> QED
    BY <1>4, <2>1, <2>2, ServeTyped DEF TInv, RoomOK
<1>5. ASSUME NEW x \in Things, NEW r \in RoomOrNull, OthersChange(x, r), UNCHANGED <<drifted, strayed>>
      PROVE  TInv'
  <2>1. UNCHANGED <<exists, page, mqtt, net>> /\ Budget
    BY <1>5 DEF OthersChange
  <2>2. PlaceOK' /\ ItemOK' /\ MqttOK' /\ RoomOK'
    BY <2>1 DEF page, mqtt, TInv, PlaceOK, ItemOK, MqttOK, RoomOK
  <2>3. ServerOK'
    BY <1>5 DEF OthersChange, TInv, ServerOK
  <2> QED
    BY <1>5, <2>1, <2>2, <2>3, Budgets DEF TInv
<1>6. CASE UNCHANGED vars
  BY <1>6 DEF vars, server, page, mqtt, TInv, ServerOK, PlaceOK, ItemOK, MqttOK, RoomOK
<1> QED
  BY <1>2, <1>3, <1>4, <1>5, <1>6 DEF Next

-----------------------------------------------------------------------------
\* Types: a Spec behaviour never leaves them.
THEOREM TypeSafe == Spec => []TInv
  BY TypeInit, TypeStep, PTL DEF Spec

\* The variables of the server and the page keep their types.
THEOREM TypeCorrect == Spec => []TypeOK
  BY TypeSafe, TypeOKIs, PTL

-----------------------------------------------------------------------------
(***************************************************************************)
(* The editor and the estimate.  While the estimate has not strayed, it    *)
(* and the one scan that may replace it are of the selected item in the    *)
(* active room, and there is neither outside the home screen: that is why  *)
(* a room chosen there takes no estimate along.                            *)
(***************************************************************************)
LocOK ==
    ~strayed =>
      /\ estimate # Null => ~demo /\ estimate = [item |-> Selected, room |-> active]
      /\ \A m \in net : m.op = "locate" =>
            ~demo /\ m.item = Selected /\ m.room = active /\ locate = "searching"
      /\ \A m, n \in net : m.op = "locate" /\ n.op = "locate" => m = n
      /\ screen # "home" => ~AtRisk

PInv == TInv /\ EditorKeepsItem /\ LocOK

\* n holds no scan that was not on its way already.
NoScan(n) == \A m \in n : m.op = "locate" => m \in net

LEMMA LoadOps ==
    ASSUME NEW ls, NEW r
    PROVE  \A m \in Loads(ls, r) : m.op = "load"
  BY DEF Loads

LEMMA Scanless ==
    ASSUME NEW n, NoScan(n)
    PROVE  /\ \A ls, r : NoScan(n \cup Loads(ls, r))
           /\ \A m : m.op # "locate" => NoScan(n \cup {m})
           /\ \A r, s : Show(r, n, s) => NoScan(net')
<1>1. ASSUME NEW ls, NEW r
      PROVE  NoScan(n \cup Loads(ls, r))
  BY LoadOps DEF NoScan
<1>2. ASSUME NEW r, NEW s, Show(r, n, s)
      PROVE  NoScan(net')
  <2>1. net' = n \/ net' = n \cup Loads(Lists, r)
    BY <1>2 DEF Show
  <2> QED
    BY <1>1, <2>1
<1> QED
  BY <1>1, <1>2 DEF NoScan

LEMMA SameSelected ==
    ASSUME demo' = demo, selected' = selected, shown' = shown
    PROVE  Selected' = Selected
  BY DEF Selected, Ids

\* What a step may do to the estimate that begins no scan and brings no result.
LEMMA EstimateStays ==
    ASSUME LocOK, NEW b \in BOOLEAN, Watch(b), NoScan(net'),
           estimate' = estimate \/ estimate' = Null,
           locate' = locate \/ locate' = "idle",
           Moved /\ ~b => estimate' = Null \/ strayed \/ ~AtRisk,
           demo' # demo => estimate' = Null /\ locate' = "idle",
           screen' = screen \/ screen' = "home" \/ (estimate' = Null /\ locate' = "idle")
    PROVE  LocOK'
<1> SUFFICES ASSUME ~strayed', AtRisk'
             PROVE  LocOK'
  BY DEF LocOK, AtRisk, Locating
<1>1. Locating' => Locating
  BY DEF Locating, NoScan
<1>2. AtRisk
  BY <1>1 DEF AtRisk
<1>3. /\ ~strayed
      /\ ~(Moved /\ b)
      /\ Locating => ~Moved /\ locate' # "idle"
  BY <1>2 DEF Watch
<1>4. CASE Locating
  <2>1. Selected' = Selected /\ active' = active /\ locate' = locate /\ demo' = demo
    BY <1>3, <1>4 DEF Moved
  <2>2. screen' = screen \/ screen' = "home"
    BY <1>3, <1>4
  <2>3. screen = "home"
    BY <1>2, <1>3 DEF LocOK
  <2>4. \A m \in net' : m.op = "locate" => m \in net
    BY DEF NoScan
  <2> QED
    BY <1>3, <2>1, <2>2, <2>3, <2>4 DEF LocOK
<1>5. CASE ~Locating
  <2>1. ~Locating'
    BY <1>1, <1>5
  <2>2. estimate' # Null /\ estimate' = estimate
    BY <2>1 DEF AtRisk
  <2>3. demo' = demo /\ ~Moved
    BY <1>2, <1>3, <2>2
  <2>4. screen = "home" /\ (screen' = screen \/ screen' = "home")
    BY <1>2, <1>3, <2>2 DEF LocOK
  <2>5. \A m \in net' : m.op # "locate"
    BY <2>1 DEF Locating
  <2> QED
    BY <1>3, <2>2, <2>3, <2>4, <2>5 DEF LocOK, Moved
<1> QED
  BY <1>4, <1>5

\* What a step may do to the editor.
LEMMA EditorStays ==
    ASSUME EditorKeepsItem, NEW b \in BOOLEAN, Watch(b),
           \/ editing' = Null
           \/ editing' = editing /\ (b \/ Selected' = Selected \/ demo' # demo)
           \/ demo' \/ Selected' = editing'.item
    PROVE  EditorKeepsItem'
<1> SUFFICES ASSUME editing' # Null, ~demo', Selected' # editing'.item
             PROVE  drifted'
  BY DEF EditorKeepsItem
<1>1. editing' = editing /\ (b \/ Selected' = Selected \/ demo' # demo)
  OBVIOUS
<1>2. CASE demo' # demo \/ (b /\ Selected' # Selected)
  BY <1>1, <1>2 DEF Watch
<1>3. CASE demo' = demo /\ Selected' = Selected
  BY <1>1, <1>3 DEF EditorKeepsItem, Watch
<1> QED
  BY <1>1, <1>2, <1>3

LEMMA UserKeeps ==
    ASSUME PInv, UserStep, Watch(FALSE)
    PROVE  EditorKeepsItem' /\ LocOK'
<1> USE DEF PInv
<1>0. /\ NoScan(net) /\ FALSE \in BOOLEAN /\ Null \notin Rooms
      /\ Ids("items") \subseteq Items /\ Null \notin Items
  BY ShownFacts, NullAssumption DEF NoScan, TInv, RoomOK
<1>1. ASSUME NEW r \in Rooms, SwitchRoom(r) \/ PickRoom(r)
      PROVE  EditorKeepsItem' /\ LocOK'
  <2>1. Show(r, net, shown)
    BY <1>1 DEF SwitchRoom, PickRoom
  <2>2. UNCHANGED <<demo, screen, selected, editing>>
    BY <1>1 DEF SwitchRoom, PickRoom
  <2>3. shown' = shown
    BY <1>0, <2>1 DEF Show
  <2>4. Selected' = Selected
    BY <2>2, <2>3, SameSelected
  <2>5. NoScan(net')
    BY <1>0, <2>1, Scanless
  <2>6. EditorKeepsItem'
    BY <1>0, <2>2, <2>4, EditorStays
  <2>7. /\ (locate' = locate /\ estimate' = estimate /\ screen # "home") \/ ForgetEstimate
        /\ screen # "home" => strayed \/ ~AtRisk
    BY <1>1 DEF SwitchRoom, PickRoom, ManagesRooms, On, LocOK
  <2>8. LocOK'
    BY <1>0, <2>2, <2>5, <2>7, EstimateStays DEF ForgetEstimate
  <2> QED
    BY <2>6, <2>8
<1>2. ASSUME NEW s \in Screens, GoTo(s)
      PROVE  EditorKeepsItem' /\ LocOK'
  <2>1. UNCHANGED <<demo, selected, shown, active, editing, net>>
    BY <1>2 DEF GoTo
  <2>2. Selected' = Selected /\ ~Moved /\ NoScan(net')
    BY <1>0, <2>1, SameSelected DEF Moved
  <2>3. EditorKeepsItem'
    BY <1>0, <2>1, <2>2, EditorStays
  <2>4. (screen' = "home" /\ locate' = locate /\ estimate' = estimate) \/ ForgetEstimate
    BY <1>2 DEF GoTo
  <2>5. LocOK'
    BY <1>0, <2>1, <2>2, <2>4, EstimateStays DEF ForgetEstimate
  <2> QED
    BY <2>3, <2>5
<1>3. ASSUME NEW x \in Items, SelectItem(x)
      PROVE  EditorKeepsItem' /\ LocOK'
  <2>1. editing' = Null /\ UNCHANGED <<demo, screen, net>> /\ ForgetEstimate
    BY <1>3 DEF SelectItem
  <2>2. NoScan(net')
    BY <1>0, <2>1
  <2>3. LocOK'
    BY <1>0, <2>1, <2>2, EstimateStays DEF ForgetEstimate
  <2> QED
    BY <1>0, <2>1, <2>3, EditorStays
<1>4. ASSUME NEW x \in Items, OpenItemEditor(x)
      PROVE  EditorKeepsItem' /\ LocOK'
  <2>1. /\ selected' = x /\ editing' = [item |-> x, room |-> RoomShown(x)]
        /\ screen' = "home" /\ UNCHANGED <<demo, active, shown, locate, estimate, net>>
        /\ x \in Ids("items") /\ (screen # "home" \/ x = Selected)
    BY <1>4 DEF OpenItemEditor, On
  <2>2. Selected' = IF demo THEN Null ELSE x
    <3>1. Ids("items")' = Ids("items")
      BY <2>1 DEF Ids
    <3>2. Keep(x, Ids("items")) = x
      BY <2>1, Choices
    <3> QED
      BY <2>1, <3>1, <3>2 DEF Selected
  <2>3. editing'.item = x
    BY <2>1
  <2>4. demo' \/ Selected' = editing'.item
    BY <2>1, <2>2, <2>3
  <2>5. EditorKeepsItem'
    BY <1>0, <2>4, EditorStays
  <2>6. Moved => screen # "home"
    BY <1>0, <2>1, <2>2 DEF Moved, Selected
  <2>7. screen # "home" => strayed \/ ~AtRisk
    BY DEF LocOK
  <2>8. NoScan(net')
    BY <1>0, <2>1
  <2>9. LocOK'
    BY <1>0, <2>1, <2>6, <2>7, <2>8, EstimateStays
  <2> QED
    BY <2>5, <2>9
<1>5. CASE CancelEdit
  <2>1. editing' = Null /\ UNCHANGED <<demo, screen, active, shown, selected, locate, estimate, net>>
    BY <1>5 DEF CancelEdit
  <2>2. Selected' = Selected /\ ~Moved /\ NoScan(net')
    BY <1>0, <2>1, SameSelected DEF Moved
  <2> QED
    BY <1>0, <2>1, <2>2, EditorStays, EstimateStays
<1>6. ASSUME \/ \E r \in Rooms : SaveItemChanges(r) \/ CreateRoom(r) \/ SaveRoom(r) \/ RemoveRoom(r)
             \/ \E x \in Items : AddItem(x) \/ RemoveItem(x)
             \/ \E h \in Hubs, r \in RoomOrNull : ChangeHub(h, r)
             \/ \E t \in Teams \cup {Null} : ChangeTeam(t)
      PROVE  EditorKeepsItem' /\ LocOK'
  <2>1. UNCHANGED page
    BY <1>6 DEF SaveItemChanges, CreateRoom, SaveRoom, RemoveRoom, AddItem, RemoveItem, ChangeHub, ChangeTeam
  <2>2. \E m : m.op # "locate" /\ Send(m)
    <3>1. ASSUME NEW r \in Rooms, SaveItemChanges(r) \/ CreateRoom(r) \/ SaveRoom(r) \/ RemoveRoom(r)
          PROVE  \E m : m.op # "locate" /\ Send(m)
      BY <3>1 DEF SaveItemChanges, CreateRoom, SaveRoom, RemoveRoom
    <3>2. ASSUME NEW x \in Items, AddItem(x) \/ RemoveItem(x)
          PROVE  \E m : m.op # "locate" /\ Send(m)
      BY <3>2 DEF AddItem, RemoveItem
    <3>3. ASSUME NEW h \in Hubs, NEW r \in RoomOrNull, ChangeHub(h, r)
          PROVE  \E m : m.op # "locate" /\ Send(m)
      BY <3>3 DEF ChangeHub
    <3>4. ASSUME NEW u \in Teams \cup {Null}, ChangeTeam(u)
          PROVE  \E m : m.op # "locate" /\ Send(m)
      BY <3>4 DEF ChangeTeam
    <3> QED
      BY <1>6, <3>1, <3>2, <3>3, <3>4
  <2>3. NoScan(net')
    BY <1>0, <2>2, Scanless DEF Send
  <2>4. Selected' = Selected /\ ~Moved /\ UNCHANGED <<demo, screen, editing, locate, estimate>>
    BY <2>1, SameSelected DEF page, Moved
  <2> QED
    BY <1>0, <2>3, <2>4, EditorStays, EstimateStays
<1>7. CASE RunLocate
  <2>1. /\ UNCHANGED <<demo, screen, active, shown, selected, editing>>
        /\ locate' = "searching" /\ estimate' = Null /\ ~demo /\ screen = "home"
        /\ locate # "searching"
    BY <1>7 DEF RunLocate, On
  <2>2. Selected' = Selected
    BY <2>1, SameSelected
  <2>3. EditorKeepsItem'
    BY <1>0, <2>1, <2>2, EditorStays
  <2>4. PICK m : /\ m = [op |-> "locate", done |-> FALSE, item |-> Selected, room |-> active, found |-> FALSE]
                 /\ net' = net \cup {m}
    BY <1>7 DEF RunLocate, Send
  <2>5. m.op = "locate" /\ m.item = Selected /\ m.room = active
    BY <2>4
  <2>6. AtRisk'
    BY <2>4, <2>5 DEF AtRisk, Locating
  <2>7. strayed => strayed'
    BY <2>6 DEF Watch
  <2>8. ASSUME ~strayed'
        PROVE  \A n \in net' : n.op = "locate" => n = m
    BY <2>1, <2>4, <2>7, <2>8 DEF LocOK
  <2> QED
    BY <2>1, <2>2, <2>3, <2>5, <2>8 DEF LocOK
<1>8. CASE ToggleDemoMode
  <2>1. demo' # demo /\ editing' = editing /\ screen' = "home" /\ ForgetEstimate
    BY <1>8 DEF ToggleDemoMode, TInv, PlaceOK
  <2>2. NoScan(WithoutIngests)
    BY DEF NoScan, WithoutIngests
  <2>3. net' = WithoutIngests \/ net' = WithoutIngests \cup Loads(Lists, active)
    BY <1>8 DEF ToggleDemoMode
  <2>4. NoScan(net')
    BY <2>2, <2>3, Scanless
  <2>5. LocOK'
    BY <1>0, <2>1, <2>4, EstimateStays DEF ForgetEstimate
  <2> QED
    BY <1>0, <2>1, <2>5, EditorStays
<1> QED
  BY <1>1, <1>2, <1>3, <1>4, <1>5, <1>6, <1>7, <1>8 DEF UserStep

\* An answer that is not of a scan.
LEMMA AnswerKeeps ==
    ASSUME PInv, Watch(TRUE), NEW m \in net,
           \/ AnswerLoad(m) \/ AnswerRooms(m) \/ AnswerTeam(m) \/ AnswerAdd(m) \/ AnswerDrop(m)
           \/ AnswerEdit(m) \/ AnswerHub(m) \/ AnswerRoom(m) \/ AnswerMessage(m)
    PROVE  EditorKeepsItem' /\ LocOK'
<1> USE DEF PInv
<1>1. NoScan(net \ {m}) /\ TRUE \in BOOLEAN
  BY DEF NoScan
<1>2. /\ demo' = demo
      /\ screen' = screen \/ screen' = "home"
      /\ editing' = editing \/ editing' = Null
      /\ (locate' = locate /\ estimate' = estimate) \/ ForgetEstimate
  <2>1. CASE AnswerLoad(m) \/ AnswerRooms(m) \/ AnswerTeam(m)
    BY <2>1 DEF AnswerLoad, AnswerRooms, AnswerTeam
  <2>2. CASE AnswerAdd(m) \/ AnswerDrop(m) \/ AnswerEdit(m)
    BY <2>2 DEF AnswerAdd, AnswerDrop, AnswerEdit
  <2>3. CASE AnswerHub(m) \/ AnswerRoom(m) \/ AnswerMessage(m)
    BY <2>3 DEF AnswerHub, AnswerRoom, AnswerMessage, page
  <2> QED
    BY <2>1, <2>2, <2>3
<1>3. NoScan(net')
  <2>1. CASE AnswerLoad(m) \/ AnswerAdd(m) \/ AnswerDrop(m) \/ AnswerMessage(m)
    BY <1>1, <2>1 DEF AnswerLoad, AnswerAdd, AnswerDrop, AnswerMessage
  <2>2. CASE AnswerRooms(m) \/ AnswerEdit(m)
    <3>1. \E r, s : Show(r, net \ {m}, s)
      BY <2>2 DEF AnswerRooms, AnswerEdit
    <3> QED
      BY <1>1, <3>1, Scanless
  <2>3. CASE AnswerHub(m) \/ AnswerRoom(m)
    <3>1. NoScan((net \ {m}) \cup Loads({"hubs"}, m.from))
      BY <1>1, Scanless
    <3>2. \E n, r, s : NoScan(n) /\ Show(r, n, s)
      BY <1>1, <2>3, <3>1 DEF AnswerHub, AnswerRoom
    <3> QED
      BY <3>2, Scanless
  <2>4. CASE AnswerTeam(m)
    <3>1. PICK n : n = (IF m.team = team THEN net ELSE WithoutIngests) \ {m}
      OBVIOUS
    <3>2. NoScan(n)
      BY <3>1 DEF NoScan, WithoutIngests
    <3>3. net' = n \cup {RoomsLoad}
      BY <2>4, <3>1 DEF AnswerTeam
    <3> QED
      BY <3>2, <3>3, Scanless, NewRequests
  <2> QED
    BY <2>1, <2>2, <2>3, <2>4
<1>4. EditorKeepsItem'
  BY <1>1, <1>2, EditorStays
<1>5. LocOK'
  BY <1>1, <1>2, <1>3, EstimateStays DEF ForgetEstimate
<1> QED
  BY <1>4, <1>5

\* The answers of a scan.
LEMMA ScanKeeps ==
    ASSUME PInv, Watch(TRUE), NEW m \in net, m.op = "locate",
           LocatePoll(m) \/ LocateEnd(m) \/ Fail(m)
    PROVE  EditorKeepsItem' /\ LocOK'
<1> USE DEF PInv
<1>1. UNCHANGED <<demo, screen, active, shown, selected, editing>>
  BY DEF LocatePoll, LocateEnd, Fail
<1>2. Selected' = Selected
  BY <1>1, SameSelected
<1>3. EditorKeepsItem'
  BY <1>1, <1>2, EditorStays
<1>4. AtRisk
  BY DEF AtRisk, Locating
<1>5. ASSUME ~strayed', AtRisk'
      PROVE  ~strayed
  BY <1>5 DEF Watch
<1>6. ASSUME ~AtRisk'
      PROVE  LocOK'
  BY <1>6 DEF LocOK, AtRisk, Locating
<1>7. ASSUME ~strayed', AtRisk'
      PROVE  LocOK'
  <2>1. /\ ~demo /\ screen = "home" /\ locate = "searching"
        /\ m.item = Selected /\ m.room = active
        /\ \A n \in net : n.op = "locate" => n = m
    BY <1>4, <1>5, <1>7 DEF LocOK
  <2>2. estimate # Null => estimate = [item |-> Selected, room |-> active]
    BY <1>5, <1>7 DEF LocOK
  <2>3. CASE LocatePoll(m)
    <3>1. m \in Requests
      BY DEF TInv, RoomOK, NetOK
    <3>2. PICK e : /\ e = [m EXCEPT !.found = TRUE]
                   /\ e.op = "locate" /\ e.item = m.item /\ e.room = m.room
      <4>1. /\ [m EXCEPT !.found = TRUE].op = "locate"
            /\ [m EXCEPT !.found = TRUE].item = m.item /\ [m EXCEPT !.found = TRUE].room = m.room
        BY <3>1, Answered
      <4> QED
        BY <4>1
    <3>3. net' = (net \ {m}) \cup {e} /\ locate' = locate /\ estimate' = [item |-> m.item, room |-> m.room]
      BY <2>3, <3>2 DEF LocatePoll, Swap
    <3>4. \A n \in net' : n.op = "locate" => n = e
      BY <2>1, <3>3
    <3> QED
      BY <1>1, <1>2, <2>1, <3>2, <3>3, <3>4 DEF LocOK
  <2>4. CASE LocateEnd(m) \/ Fail(m)
    <3>1. net' = net \ {m} /\ estimate' = estimate
      BY <2>4 DEF LocateEnd, Fail
    <3>2. \A n \in net' : n.op # "locate"
      BY <2>1, <3>1
    <3> QED
      BY <1>1, <1>2, <2>1, <2>2, <3>1, <3>2 DEF LocOK
  <2> QED
    BY <2>3, <2>4
<1> QED
  BY <1>3, <1>6, <1>7 DEF LocOK

LEMMA PageKeeps ==
    ASSUME PInv, PageStep, Watch(TRUE)
    PROVE  EditorKeepsItem' /\ LocOK'
<1> USE DEF PInv
<1>0. NoScan(net) /\ TRUE \in BOOLEAN
  BY DEF NoScan
<1>1. ASSUME UNCHANGED page, NoScan(net')
      PROVE  EditorKeepsItem' /\ LocOK'
  <2>1. Selected' = Selected /\ ~Moved /\ UNCHANGED <<demo, screen, editing, locate, estimate>>
    BY <1>1, SameSelected DEF page, Moved
  <2> QED
    BY <1>0, <1>1, <2>1, EditorStays, EstimateStays
<1>2. ASSUME NEW l \in Lists, Poll(l)
      PROVE  EditorKeepsItem' /\ LocOK'
  <2>1. UNCHANGED page /\ net' = net \cup Loads({l}, PolledRoom)
    BY <1>2 DEF Poll
  <2> QED
    BY <1>0, <1>1, <2>1, Scanless
<1>3. ASSUME NEW tag \in BOOLEAN, Message(tag)
      PROVE  EditorKeepsItem' /\ LocOK'
  <2>1. UNCHANGED page /\ \E m : m.op # "locate" /\ Send(m)
    BY <1>3 DEF Message
  <2> QED
    BY <1>0, <1>1, <2>1, Scanless DEF Send
<1>4. CASE RefreshTimer
  <2>1. UNCHANGED page /\ net' = net \cup Loads(pending, active)
    BY <1>4 DEF RefreshTimer
  <2> QED
    BY <1>0, <1>1, <2>1, Scanless
<1>5. ASSUME NEW m \in net, Answer(m)
      PROVE  EditorKeepsItem' /\ LocOK'
  <2>1. LocatePoll(m) \/ LocateEnd(m) => m.op = "locate"
    BY DEF LocatePoll, LocateEnd
  <2> QED
    BY <1>5, <2>1, AnswerKeeps, ScanKeeps DEF Answer
<1>6. ASSUME NEW m \in net, Fail(m)
      PROVE  EditorKeepsItem' /\ LocOK'
  <2>1. CASE m.op = "locate"
    BY <1>6, <2>1, ScanKeeps
  <2>2. CASE m.op # "locate"
    <3>1. UNCHANGED page /\ net' = net \ {m}
      BY <1>6, <2>2 DEF Fail, page
    <3>2. NoScan(net')
      BY <3>1 DEF NoScan
    <3> QED
      BY <1>1, <3>1, <3>2
  <2> QED
    BY <2>1, <2>2
<1> QED
  BY <1>2, <1>3, <1>4, <1>5, <1>6 DEF PageStep

\* The server leaves the page alone, and a scan that it has dealt with is the same scan.
LEMMA ServeKeeps ==
    ASSUME PInv, Serve, UNCHANGED <<drifted, strayed>>
    PROVE  EditorKeepsItem' /\ LocOK'
<1> USE DEF PInv
<1>1. UNCHANGED <<page, mqtt, ops>>
  BY DEF Serve
<1>2. Selected' = Selected /\ UNCHANGED <<demo, screen, active, editing, locate, estimate>>
  BY <1>1, SameSelected DEF page
<1>3. EditorKeepsItem'
  BY <1>2 DEF EditorKeepsItem
<1>4. PICK m \in net :
        \/ ServeLoad(m) \/ ServeRooms(m) \/ ServeTeam(m)
        \/ ServeThing(m) \/ ServeRoom(m) \/ ServeMessage(m)
  BY DEF Serve
<1>5. m \in Requests
  BY DEF TInv, RoomOK, NetOK
<1>6. PICK e : /\ net' = (net \ {m}) \cup {e} /\ e.op = m.op
               /\ m.op = "locate" => e.item = m.item /\ e.room = m.room
  <2>1. CASE ServeLoad(m) \/ ServeRooms(m)
    <3>1. CASE ServeLoad(m)
      <4>1. m.op = "load" /\ net' = (net \ {m}) \cup {[Done(m) EXCEPT !.rows = Listed(m.list, m.room)]}
        BY <3>1 DEF ServeLoad, Swap
      <4>2. Listed(m.list, m.room) \in SUBSET Row
        BY <1>5, <4>1, Shapes, ListedOK
      <4>3. m.op = "load" => \A rows \in SUBSET Row : [Done(m) EXCEPT !.rows = rows].op = "load"
        BY <1>5, Answered
      <4> QED
        BY <4>1, <4>2, <4>3
    <3>2. CASE ServeRooms(m)
      <4>1. m.op = "rooms" /\ net' = (net \ {m}) \cup {[Done(m) EXCEPT !.rows = exists]}
        BY <3>2 DEF ServeRooms, Swap
      <4>2. exists \in SUBSET Rooms
        BY DEF TInv, ServerOK
      <4>3. m.op = "rooms" => \A rows \in SUBSET Rooms : [Done(m) EXCEPT !.rows = rows].op = "rooms"
        BY <1>5, Answered
      <4> QED
        BY <4>1, <4>2, <4>3
    <3> QED
      BY <2>1, <3>1, <3>2
  <2>2. CASE ServeTeam(m) \/ ServeThing(m) \/ ServeRoom(m) \/ ServeMessage(m)
    <3>1. net' = (net \ {m}) \cup {Done(m)}
      BY <2>2 DEF ServeTeam, ServeThing, ServeRoom, ServeMessage, Swap
    <3>2. /\ Done(m).op = m.op
          /\ m.op = "locate" => Done(m).item = m.item /\ Done(m).room = m.room
      BY <1>5, Answered
    <3> QED
      BY <3>1, <3>2
  <2> QED
    BY <1>4, <2>1, <2>2
<1>7. AtRisk' => AtRisk
  BY <1>2, <1>6 DEF AtRisk, Locating
<1>8. LocOK'
  <2> SUFFICES ASSUME ~strayed
               PROVE  LocOK'
    BY DEF LocOK
  <2>1. estimate' # Null => ~demo' /\ estimate' = [item |-> Selected', room |-> active']
    BY <1>2 DEF LocOK
  <2>2. \A n \in net' : n.op = "locate" =>
          ~demo' /\ n.item = Selected' /\ n.room = active' /\ locate' = "searching"
    BY <1>2, <1>6 DEF LocOK
  <2>3. \A n, k \in net' : n.op = "locate" /\ k.op = "locate" => n = k
    BY <1>6 DEF LocOK
  <2>4. screen' # "home" => ~AtRisk'
    BY <1>2, <1>7 DEF LocOK
  <2> QED
    BY <2>1, <2>2, <2>3, <2>4 DEF LocOK
<1> QED
  BY <1>3, <1>8

LEMMA PageInit ==
    ASSUME Init
    PROVE  PInv
<1>1. net = Loads(Lists, active) /\ estimate = Null /\ editing = Null
  BY DEF Init
<1>2. \A m \in net : m.op = "load"
  BY <1>1, LoadOps
<1>3. ~AtRisk
  BY <1>1, <1>2 DEF AtRisk, Locating
<1> QED
  BY <1>1, <1>2, <1>3, TypeInit DEF PInv, EditorKeepsItem, LocOK

LEMMA PageNext ==
    ASSUME PInv, [Next]_vars
    PROVE  PInv'
<1>1. TInv'
  BY TypeStep DEF PInv
<1>2. ASSUME UNCHANGED <<page, net, drifted, strayed>>
      PROVE  EditorKeepsItem' /\ LocOK'
  <2>1. Selected' = Selected
    BY <1>2, SameSelected DEF page
  <2> QED
    BY <1>2, <2>1 DEF PInv, page, EditorKeepsItem, LocOK, AtRisk, Locating
<1>3. ASSUME NEW x \in Things, NEW r \in RoomOrNull, OthersChange(x, r), UNCHANGED <<drifted, strayed>>
      PROVE  EditorKeepsItem' /\ LocOK'
  BY <1>2, <1>3 DEF OthersChange
<1>4. CASE UNCHANGED vars
  BY <1>1, <1>2, <1>4 DEF vars, PInv
<1> QED
  BY <1>1, <1>3, <1>4, UserKeeps, PageKeeps, ServeKeeps DEF Next, PInv

THEOREM Invariant == Spec => []PInv
  BY PageInit, PageNext, PTL DEF Spec

\* NeemoApp.tsx:1348 saves the form to the selected item: the editor is open on that item, unless
\* an answer or demo mode has taken the selection away from under it.
THEOREM Editor == Spec => []EditorKeepsItem
<1>1. PInv => EditorKeepsItem
  BY DEF PInv
<1> QED
  BY <1>1, Invariant, PTL

\* An estimate on the map is of the selected item in the active room, unless an answer has moved
\* the selection or the room, or the scan outlived the user's turning away from it.
THEOREM Estimate == Spec => []EstimateKeepsPlace
<1>1. PInv => EstimateKeepsPlace
  BY DEF PInv, LocOK, EstimateKeepsPlace, EstimateShown
<1> QED
  BY <1>1, Invariant, PTL

=============================================================================
