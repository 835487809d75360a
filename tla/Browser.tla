------------------------------ MODULE Browser ------------------------------
(***************************************************************************)
(* A page of the application: the state of NeemoApp.tsx, the refreshes     *)
(* that TeamMqttMode.tsx asks for, and the server's answers.               *)
(*                                                                         *)
(* Handlers of one page run one at a time, but every await lets others in. *)
(* net holds the requests on their way: a record is the continuation of    *)
(* the handler that sent it, with what its closure captured, and done says *)
(* that the server has dealt with it.  Answers come in any order; the code *)
(* neither aborts a request nor compares an answer with what was asked     *)
(* last.  Equal requests that the server has not seen yet count as one.    *)
(*                                                                         *)
(* The lists of a room hold ids and rooms.  Effects that NeemoApp runs     *)
(* after a zero timeout run at once.  Labels of rooms, pictures, form      *)
(* fields, notices, the label scan (ScanIngest has its loop) and what a    *)
(* hub reports are left out.                                               *)
(***************************************************************************)
EXTENDS Integers, FiniteSets

CONSTANTS
    Rooms, Items, Hubs, Teams,
    Null,
    FirstPlaces,  \* where things are when the page is opened
    MaxNet,       \* bound: requests on their way when another is begun
    MaxOps        \* bound: what users, the broker and failures do

ASSUME NullAssumption == Null \notin Rooms \cup Items \cup Hubs \cup Teams
ASSUME PlacesAssumption ==
    FirstPlaces \subseteq [Items \cup Hubs -> Rooms \cup {Null}]
ASSUME BoundsAssumption == MaxNet \in Nat /\ MaxOps \in Nat

VARIABLES
    \* the server
    exists,    \* rooms of the user's workspace
    at,        \* room of an item or a hub, Null without a row
    \* the page
    demo,      \* demoMode
    screen,
    team,      \* team.id
    known,     \* rooms
    active,    \* activeRoomId
    shown,     \* items and hubs
    selected,  \* selectedItemId
    editing,   \* editItemForm while itemEditing: item it was filled from, and its room
    locate,    \* locateState
    estimate,  \* locationEstimate: item and room that were located
    pending,   \* pendingRefreshRef
    timer,     \* refreshTimerRef: whether one is set
    net,       \* requests on their way
    ops,       \* what has been done
    \* history
    owed,      \* lists a message is about whose storing was answered, not asked for since
    drifted,   \* the open editor lost its item without a user selecting another
    strayed    \* so did the estimate, or its scan outlived the selection

server == <<exists, at>>
page == <<demo, screen, team, known, active, shown, selected, editing, locate, estimate>>
mqtt == <<pending, timer, owed>>
vars == <<server, page, mqtt, net, ops, drifted, strayed>>

Screens == {"home", "log", "hubs", "account"}
Lists == {"items", "hubs"}
Things == Items \cup Hubs
ListOf(x) == IF x \in Items THEN "items" ELSE "hubs"
RoomOrNull == Rooms \cup {Null}
ItemOrNull == Items \cup {Null}
Row == [id : Things, room : Rooms]
Form == [item : Items, room : Rooms]

Requests ==
    [op : {"rooms"}, done : BOOLEAN, rows : SUBSET Rooms]
    \cup [op : {"load"}, done : BOOLEAN, list : Lists, room : Rooms, rows : SUBSET Row]
    \cup [op : {"team"}, done : BOOLEAN, team : Teams \cup {Null}]
    \cup [op : {"add"}, done : BOOLEAN, thing : Items, room : Rooms]
    \cup [op : {"hub"}, done : BOOLEAN, thing : Hubs, room : RoomOrNull, from : RoomOrNull]
    \cup [op : {"drop"}, done : BOOLEAN, thing : Items, selected : ItemOrNull]
    \cup [op : {"edit"}, done : BOOLEAN, thing : Items, room : Rooms, from : RoomOrNull]
    \cup [op : {"createRoom", "saveRoom"}, done : BOOLEAN, room : Rooms, from : RoomOrNull]
    \cup [op : {"removeRoom"}, done : BOOLEAN, room : Rooms, from : RoomOrNull, rooms : SUBSET Rooms]
    \cup [op : {"ingest"}, done : BOOLEAN, lists : SUBSET Lists]
    \cup [op : {"locate"}, done : BOOLEAN, item : Items, room : Rooms, found : BOOLEAN]

\* A list as the routes' GET answers it.
Listed(l, r) ==
    IF r \in exists THEN {[id |-> x, room |-> r] : x \in {y \in Things : ListOf(y) = l /\ at[y] = r}}
                    ELSE {}
Ids(l) == {row.id : row \in shown[l]}
RoomShown(x) == (CHOOSE row \in shown["items"] : row.id = x).room
\* The first of a list, in an order that does not change; Null without one.
First(S) == IF S = {} THEN Null ELSE CHOOSE x \in S : TRUE
Keep(x, S) == IF x \in S THEN x ELSE First(S)
\* selectedItem; a demo item is Null here.
Selected == IF demo THEN Null ELSE Keep(selected, Ids("items"))

EstimateShown == ~demo /\ estimate # Null /\ locate \in {"found", "searching"}

TypeOK ==
    /\ exists \subseteq Rooms
    /\ at \in [Things -> RoomOrNull]
    /\ demo \in BOOLEAN
    /\ screen \in Screens
    /\ team \in Teams \cup {Null}
    /\ known \subseteq Rooms
    /\ active \in RoomOrNull
    /\ shown \in [Lists -> SUBSET Row]
    /\ \A l \in Lists : \A row \in shown[l] : ListOf(row.id) = l
    /\ \A l \in Lists : \A row, other \in shown[l] : row.id = other.id => row = other
    /\ selected \in ItemOrNull
    /\ editing \in Form \cup {Null}
    /\ locate \in {"idle", "searching", "found", "missing"}
    /\ estimate \in Form \cup {Null}
    /\ pending \subseteq Lists
    /\ timer \in BOOLEAN
    /\ net \subseteq Requests
    /\ ops \in 0..MaxOps
    /\ owed \subseteq Lists
    /\ drifted \in BOOLEAN /\ strayed \in BOOLEAN

(***************************************************************************)
(* Requests.                                                               *)
(***************************************************************************)
\* refreshItems, refreshHubs of a room.
Loads(ls, r) ==
    IF r = Null THEN {}
    ELSE {[op |-> "load", done |-> FALSE, list |-> l, room |-> r, rows |-> {}] : l \in ls}
RoomsLoad == [op |-> "rooms", done |-> FALSE, rows |-> {}]

Saving(operations) == \E m \in net : m.op \in operations
ItemOps == {"edit", "drop"}
RoomOps == {"createRoom", "saveRoom", "removeRoom"}

\* Screen s is there to be used: only the Account screen is without a room.
On(s) == screen = s /\ (s = "account" \/ demo \/ known # {})

Budget == ops < MaxOps /\ ops' = ops + 1
Send(m) == Cardinality(net) < MaxNet /\ net' = net \cup {m}

\* setActiveRoomId(r) after the requests n: the effect on activeRoomId refreshes the
\* lists, which are s until the answers come.
Show(r, n, s) ==
    /\ active' = r
    /\ net' = n \cup (IF r # active /\ ~demo THEN Loads(Lists, r) ELSE {})
    /\ shown' = IF r = Null /\ ~demo THEN [l \in Lists |-> {}] ELSE s

\* setLocateState('idle'), setLocationEstimate(null).
ForgetEstimate == locate' = "idle" /\ estimate' = Null

\* refreshTeam and refreshRooms have answered, and the effect on activeRoomId has run.
Init ==
    /\ exists = Rooms /\ at \in FirstPlaces
    /\ demo = FALSE /\ screen = "home" /\ team \in Teams
    /\ known = Rooms /\ active = First(Rooms)
    /\ shown = [l \in Lists |-> {}]
    /\ selected = Null /\ editing = Null /\ locate = "idle" /\ estimate = Null
    /\ pending = {} /\ timer = FALSE
    /\ net = Loads(Lists, active)
    /\ ops = 0 /\ owed = {} /\ drifted = FALSE /\ strayed = FALSE

(***************************************************************************)
(* What the user does.                                                     *)
(***************************************************************************)
\* Deviation: another room is chosen and the estimate stays.
SwitchRoomOnly(r) ==
    /\ Budget /\ ~demo /\ r \in known \ {active} /\ Cardinality(net) < MaxNet
    /\ Show(r, net, shown)
    /\ UNCHANGED <<server, demo, screen, team, known, selected, editing, locate, estimate, mqtt>>
\* The switcher in the top bar.
SwitchRoom(r) ==
    /\ Budget /\ ~demo /\ r \in known \ {active} /\ Cardinality(net) < MaxNet
    /\ Show(r, net, shown)
    /\ ForgetEstimate
    /\ UNCHANGED <<server, demo, screen, team, known, selected, editing, mqtt>>

ManagesRooms == (On("hubs") /\ ~demo) \/ On("account")

\* The room lists of the Hubs screen and the Account screen.
PickRoom(r) ==
    /\ Budget /\ ManagesRooms /\ r \in known \ {active} /\ Cardinality(net) < MaxNet
    /\ Show(r, net, shown)
    /\ UNCHANGED <<server, demo, screen, team, known, selected, editing, locate, estimate, mqtt>>

GoTo(s) ==
    /\ Budget /\ s # screen
    /\ screen' = s
    /\ IF s # "home" THEN ForgetEstimate ELSE UNCHANGED <<locate, estimate>>
    /\ UNCHANGED <<server, demo, team, known, active, shown, selected, editing, mqtt, net>>

\* Deviation: selecting an item leaves the editor open.
SelectBehindEditor(x) ==
    /\ Budget /\ ~demo /\ On("home") /\ x \in Ids("items")
    /\ selected' = x /\ ForgetEstimate
    /\ UNCHANGED <<server, demo, screen, team, known, active, shown, editing, mqtt, net>>
SelectItem(x) ==
    /\ Budget /\ ~demo /\ On("home") /\ x \in Ids("items")
    /\ selected' = x /\ ForgetEstimate
    /\ editing' = Null
    /\ UNCHANGED <<server, demo, screen, team, known, active, shown, mqtt, net>>

\* From the details of the selected item, or from the Account screen's list of items.
OpenItemEditor(x) ==
    /\ Budget /\ x \in Ids("items")
    /\ On("account") \/ (On("home") /\ x = Selected /\ ~Saving(ItemOps))
    /\ selected' = x
    /\ editing' = [item |-> x, room |-> RoomShown(x)]
    /\ screen' = "home"
    /\ UNCHANGED <<server, demo, team, known, active, shown, locate, estimate, mqtt, net>>

CancelEdit ==
    /\ Budget /\ ~demo /\ On("home") /\ editing # Null
    /\ editing' = Null
    /\ UNCHANGED <<server, demo, screen, team, known, active, shown, selected, locate, estimate,
                   mqtt, net>>

\* The form goes to the selected item, with the room it was filled with or another.
SaveItemChanges(r) ==
    /\ Budget /\ ~demo /\ On("home") /\ editing # Null /\ Selected # Null
    /\ ~Saving(ItemOps)
    /\ r \in known \cup {editing.room}
    /\ Send([op |-> "edit", done |-> FALSE, thing |-> Selected, room |-> r, from |-> active])
    /\ UNCHANGED <<server, page, mqtt>>

\* Of a tag that no item has.
AddItem(x) ==
    /\ Budget /\ ~demo /\ On("log") /\ at[x] = Null /\ active # Null
    /\ Send([op |-> "add", done |-> FALSE, thing |-> x, room |-> active])
    /\ UNCHANGED <<server, page, mqtt>>

\* From the details or from the Account screen.
RemoveItem(x) ==
    /\ Budget /\ x \in Ids("items") /\ ~Saving(ItemOps)
    /\ On("account") \/ (On("home") /\ x = Selected)
    /\ Send([op |-> "drop", done |-> FALSE, thing |-> x, selected |-> Selected])
    /\ UNCHANGED <<server, page, mqtt>>

\* HubPairingFlow's claimHub, renameHub and saveHubPlacement, disconnectHub: the hub is in
\* room r afterwards, and refreshHubs is the one of the room that was active.
ChangeHub(h, r) ==
    /\ Budget /\ ~demo /\ On("hubs") /\ active \in known
    /\ \/ at[h] = Null /\ r = active /\ team # Null
       \/ h \in Ids("hubs") /\ r \in known \cup {Null}
    /\ Send([op |-> "hub", done |-> FALSE, thing |-> h, room |-> r, from |-> active])
    /\ UNCHANGED <<server, page, mqtt>>

\* Without a room, the form takes the place of every screen but Account.
CreateRoom(r) ==
    /\ Budget /\ r \notin exists /\ ~Saving(RoomOps)
    /\ ManagesRooms \/ (known = {} /\ ~demo)
    /\ Send([op |-> "createRoom", done |-> FALSE, room |-> r, from |-> active])
    /\ UNCHANGED <<server, page, mqtt>>

SaveRoom(r) ==
    /\ Budget /\ ManagesRooms /\ r \in known /\ ~Saving(RoomOps)
    /\ Send([op |-> "saveRoom", done |-> FALSE, room |-> r, from |-> active])
    /\ UNCHANGED <<server, page, mqtt>>

RemoveRoom(r) ==
    /\ Budget /\ ManagesRooms /\ r \in known /\ ~Saving(RoomOps)
    /\ Send([op |-> "removeRoom", done |-> FALSE, room |-> r, from |-> active, rooms |-> known])
    /\ UNCHANGED <<server, page, mqtt>>

\* Creating, joining, leaving or changing a team: after it the user is in team t.  Who opens
\* the page in a team is not asked to set one up on the first screen.
ChangeTeam(t) ==
    /\ Budget /\ On("account") /\ ~Saving({"team"})
    /\ Send([op |-> "team", done |-> FALSE, team |-> t])
    /\ UNCHANGED <<server, page, mqtt>>

RunLocate ==
    /\ Budget /\ ~demo /\ On("home")
    /\ Selected # Null /\ active \in known /\ shown["hubs"] # {} /\ locate # "searching"
    /\ Send([op |-> "locate", done |-> FALSE, item |-> Selected, room |-> active,
             found |-> FALSE])
    /\ locate' = "searching" /\ estimate' = Null
    /\ UNCHANGED <<server, demo, screen, team, known, active, shown, selected, editing, mqtt>>

\* TeamMqttMode is unmounted, or its effect is run again: what it waits for is ignored.
Disposed ==
    /\ pending' = {} /\ timer' = FALSE /\ owed' = {}
WithoutIngests == {m \in net : m.op # "ingest"}

ToggleDemoMode ==
    /\ Budget /\ Cardinality(net) < MaxNet
    /\ demo' = ~demo /\ screen' = "home" /\ selected' = Null
    /\ ForgetEstimate
    /\ Disposed
    /\ net' = WithoutIngests \cup (IF demo THEN Loads(Lists, active) ELSE {})
    /\ UNCHANGED <<server, team, known, active, shown, editing>>

(***************************************************************************)
(* Refreshes that nobody asks for by hand, and messages of the broker.     *)
(***************************************************************************)
\* Deviation: the interval keeps the room in which it was set up.
FirstRoom == First(known)
\* The effects set the intervals up again when activeRoomId changes.
PolledRoom == active

\* Every 15 seconds; the hubs every 10 seconds on their screen.  Bound: not while the list is
\* being loaded, so that a poll is overtaken only by what is begun after it.
Poll(l) ==
    /\ ~demo /\ active # Null
    /\ l = "items" \/ (l = "hubs" /\ screen = "hubs")
    /\ Cardinality(net) < MaxNet /\ \A m \in net : ~(m.op = "load" /\ m.list = l)
    /\ net' = net \cup Loads({l}, PolledRoom)
    /\ UNCHANGED <<server, page, mqtt, ops>>

\* A heartbeat, or a tag message: then the items are affected as well.
Message(tag) ==
    /\ Budget /\ ~demo /\ team # Null
    /\ Send([op |-> "ingest", done |-> FALSE,
             lists |-> IF tag THEN Lists ELSE {"hubs"}])
    /\ UNCHANGED <<server, page, mqtt>>

\* Deviation: what comes while a timer is set is not noted.
PendingUnlessTimer(ls) == IF timer THEN pending ELSE pending \cup ls
\* scheduleRefresh.
PendingWith(ls) == pending \cup ls

RefreshTimer ==
    /\ timer
    /\ timer' = FALSE /\ pending' = {} /\ owed' = owed \ pending
    /\ net' = net \cup Loads(pending, active)
    /\ UNCHANGED <<server, page, ops>>

(***************************************************************************)
(* The server deals with a request.                                        *)
(***************************************************************************)
Done(m) == [m EXCEPT !.done = TRUE]
Swap(m, answered) == net' = (net \ {m}) \cup {answered}
\* What has no row any more, or no room, is refused: Fail is the answer.
ServeLoad(m) ==
    /\ m.op = "load"
    /\ Swap(m, [Done(m) EXCEPT !.rows = Listed(m.list, m.room)])
    /\ UNCHANGED server
ServeRooms(m) ==
    /\ m.op = "rooms"
    /\ Swap(m, [Done(m) EXCEPT !.rows = exists])
    /\ UNCHANGED server
\* Another team has other rooms.
ServeTeam(m) ==
    /\ m.op = "team"
    /\ Swap(m, Done(m))
    /\ exists' \in IF m.team = team THEN {exists} ELSE SUBSET Rooms
    /\ UNCHANGED at
ServeThing(m) ==
    /\ \/ m.op = "add" /\ at[m.thing] = Null /\ m.room \in exists
       \/ m.op = "edit" /\ at[m.thing] # Null /\ m.room \in exists
       \/ m.op = "hub" /\ m.room \in exists
       \/ m.op = "hub" /\ at[m.thing] # Null /\ m.room = Null
       \/ m.op = "drop" /\ at[m.thing] # Null
    /\ Swap(m, Done(m))
    /\ at' = [at EXCEPT ![m.thing] = IF m.op = "drop" THEN Null ELSE m.room]
    /\ UNCHANGED exists
ServeRoom(m) ==
    /\ \/ m.op = "createRoom" /\ exists' = exists \cup {m.room}
       \/ m.op = "saveRoom" /\ m.room \in exists /\ UNCHANGED exists
       \/ /\ m.op = "removeRoom" /\ m.room \in exists
          /\ \A x \in Things : at[x] # m.room
          /\ exists' = exists \ {m.room}
    /\ Swap(m, Done(m))
    /\ UNCHANGED at
ServeMessage(m) ==
    /\ m.op \in {"ingest", "locate"}
    /\ Swap(m, Done(m))
    /\ UNCHANGED server

Serve ==
    /\ \E m \in net :
          /\ ~m.done
          /\ \/ ServeLoad(m) \/ ServeRooms(m) \/ ServeTeam(m)
             \/ ServeThing(m) \/ ServeRoom(m) \/ ServeMessage(m)
    /\ UNCHANGED <<page, mqtt, ops>>

\* Someone else moves or removes something, or adds it.
OthersChange(x, r) ==
    /\ Budget /\ r # at[x]
    /\ at' = [at EXCEPT ![x] = r]
    /\ UNCHANGED <<exists, page, mqtt, net>>

(***************************************************************************)
(* The page goes on with an answer.                                        *)
(***************************************************************************)
AnswerLoad(m) ==
    /\ m.op = "load"
    /\ shown' = [shown EXCEPT ![m.list] = m.rows]
    /\ selected' = IF m.list = "items" THEN Keep(selected, {row.id : row \in m.rows}) ELSE selected
    /\ net' = net \ {m}
    /\ UNCHANGED <<demo, screen, team, known, active, editing, locate, estimate, mqtt>>

AnswerRooms(m) ==
    /\ m.op = "rooms"
    /\ known' = m.rows
    /\ Show(Keep(active, m.rows), net \ {m}, shown)
    /\ UNCHANGED <<demo, screen, team, selected, editing, locate, estimate, mqtt>>

\* applyTeamResponse, which calls refreshRooms.
AnswerTeam(m) ==
    /\ m.op = "team"
    /\ team' = m.team
    /\ IF m.team = team THEN UNCHANGED mqtt ELSE Disposed
    /\ net' = ((IF m.team = team THEN net ELSE WithoutIngests) \ {m}) \cup {RoomsLoad}
    /\ UNCHANGED <<demo, screen, known, active, shown, selected, editing, locate, estimate>>

\* The answer's row is put in front of the others.
WithRow(row) == {other \in shown["items"] : other.id # row.id} \cup {row}
AnswerAdd(m) ==
    /\ m.op = "add"
    /\ shown' = [shown EXCEPT !["items"] = WithRow([id |-> m.thing, room |-> m.room])]
    /\ selected' = m.thing /\ screen' = "home"
    /\ net' = net \ {m}
    /\ UNCHANGED <<demo, team, known, active, editing, locate, estimate, mqtt>>

AnswerDrop(m) ==
    /\ m.op = "drop"
    /\ shown' = [shown EXCEPT !["items"] = {row \in @ : row.id # m.thing}]
    /\ IF m.selected = m.thing THEN selected' = Null /\ editing' = Null /\ ForgetEstimate
                               ELSE UNCHANGED <<selected, editing, locate, estimate>>
    /\ net' = net \ {m}
    /\ UNCHANGED <<demo, screen, team, known, active, mqtt>>

\* Deviation: the row that was saved is listed beside the old one.
Listing(row) == shown["items"] \cup {row}
\* It takes the old one's place, if that is still there.
Replaced(row) == {IF other.id = row.id THEN row ELSE other : other \in shown["items"]}
AnswerEdit(m) ==
    /\ m.op = "edit"
    /\ Show(IF m.room # m.from THEN m.room ELSE active, net \ {m},
            [shown EXCEPT !["items"] = Replaced([id |-> m.thing, room |-> m.room])])
    /\ editing' = Null
    /\ UNCHANGED <<demo, screen, team, known, selected, locate, estimate, mqtt>>

AnswerHub(m) ==
    /\ m.op = "hub"
    /\ IF m.room \in {Null, m.from}
       THEN Show(active, (net \ {m}) \cup Loads({"hubs"}, m.from), shown)
       ELSE Show(m.room, net \ {m}, shown)
    /\ UNCHANGED <<demo, screen, team, known, selected, editing, locate, estimate, mqtt>>

AnswerRoom(m) ==
    /\ \/ /\ m.op = "createRoom"
          /\ known' = known \cup {m.room}
          /\ Show(m.room, net \ {m}, shown)
       \/ /\ m.op = "saveRoom"
          /\ Show(active, (net \ {m}) \cup Loads({"hubs"}, m.from), shown)
          /\ UNCHANGED known
       \/ /\ m.op = "removeRoom"
          /\ known' = m.rooms \ {m.room}
          /\ Show(IF m.from = m.room THEN First(m.rooms \ {m.room}) ELSE active, net \ {m}, shown)
    /\ UNCHANGED <<demo, screen, team, selected, editing, locate, estimate, mqtt>>

AnswerMessage(m) ==
    /\ m.op = "ingest"
    /\ pending' = PendingWith(m.lists) /\ timer' = TRUE /\ owed' = owed \cup m.lists
    /\ net' = net \ {m}
    /\ UNCHANGED page

\* A poll of the scan that brings an estimate, and the last poll.
LocatePoll(m) ==
    /\ m.op = "locate"
    /\ estimate' = [item |-> m.item, room |-> m.room]
    /\ Swap(m, [m EXCEPT !.found = TRUE])
    /\ UNCHANGED <<demo, screen, team, known, active, shown, selected, editing, locate, mqtt>>
LocateEnd(m) ==
    /\ m.op = "locate"
    /\ locate' = IF m.found THEN "found" ELSE "missing"
    /\ net' = net \ {m}
    /\ UNCHANGED <<demo, screen, team, known, active, shown, selected, editing, estimate, mqtt>>

Answer(m) ==
    /\ m.done
    /\ \/ AnswerLoad(m) \/ AnswerRooms(m) \/ AnswerTeam(m) \/ AnswerAdd(m) \/ AnswerDrop(m)
       \/ AnswerEdit(m) \/ AnswerHub(m) \/ AnswerRoom(m) \/ AnswerMessage(m)
       \/ LocatePoll(m) \/ LocateEnd(m)
    /\ UNCHANGED <<server, ops>>

\* The request is refused or fails, or its answer is lost: an error is shown.
Fail(m) ==
    /\ IF m.op = "load" THEN Budget ELSE UNCHANGED ops
    /\ locate' = IF m.op = "locate" THEN "missing" ELSE locate
    /\ net' = net \ {m}
    /\ UNCHANGED <<server, demo, screen, team, known, active, shown, selected, editing, estimate, mqtt>>

(***************************************************************************)
(* The specification.  Watch keeps the history: the estimate strays when   *)
(* an answer moves the selection or the active room, or when the user      *)
(* turns away from a locate scan that is running; the editor drifts when   *)
(* an answer moves the selection or demo mode hides it.                    *)
(***************************************************************************)
Locating == \E m \in net : m.op = "locate"
AtRisk == estimate # Null \/ Locating
Moved == Selected' # Selected \/ active' # active

Watch(byAnswer) ==
    /\ strayed' = (/\ AtRisk'
                  /\ \/ strayed
                     \/ Moved /\ AtRisk /\ byAnswer
                     \/ Locating /\ (Moved \/ locate' = "idle"))
    /\ drifted' = (/\ editing' # Null /\ editing' = editing
                  /\ (drifted \/ (byAnswer /\ Selected' # Selected) \/ demo' # demo))

UserStep ==
    \/ \E r \in Rooms :
          SwitchRoom(r) \/ PickRoom(r) \/ SaveItemChanges(r) \/ CreateRoom(r) \/ SaveRoom(r)
          \/ RemoveRoom(r)
    \/ \E s \in Screens : GoTo(s)
    \/ \E x \in Items : SelectItem(x) \/ OpenItemEditor(x) \/ AddItem(x) \/ RemoveItem(x)
    \/ \E h \in Hubs, r \in RoomOrNull : ChangeHub(h, r)
    \/ \E t \in Teams \cup {Null} : ChangeTeam(t)
    \/ CancelEdit \/ RunLocate \/ ToggleDemoMode

PageStep ==
    \/ \E l \in Lists : Poll(l)
    \/ \E tag \in BOOLEAN : Message(tag)
    \/ RefreshTimer
    \/ \E m \in net : Answer(m) \/ Fail(m)

Next ==
    \/ UserStep /\ Watch(FALSE)
    \/ PageStep /\ Watch(TRUE)
    \/ /\ Serve \/ \E x \in Things, r \in RoomOrNull : OthersChange(x, r)
       /\ UNCHANGED <<drifted, strayed>>

Spec == Init /\ [][Next]_vars

(***************************************************************************)
(* Fairness: the event loop goes on, an interval fires again and again,    *)
(* and every request gets its answer or an error.                          *)
(***************************************************************************)
Load(l) == \E m \in net :
    /\ m.op = "load" /\ m.list = l
    /\ \/ ~m.done /\ ServeLoad(m) /\ UNCHANGED <<page, mqtt, ops, drifted, strayed>>
       \/ Answer(m) /\ Watch(TRUE)
OtherAnswer == \E m \in net :
    /\ m.op # "load"
    /\ Answer(m) \/ Fail(m)
    /\ Watch(TRUE)

Fairness ==
    /\ \A l \in Lists : WF_vars(Load(l))
    /\ WF_vars(OtherAnswer)
    /\ \A l \in Lists : SF_vars(Poll(l) /\ Watch(TRUE))
    /\ WF_vars(RefreshTimer /\ Watch(TRUE))
FairSpec == Spec /\ Fairness

(***************************************************************************)
(* Properties                                                              *)
(***************************************************************************)
\* The editor is open on the selected item, which is the one that Save overwrites
\* (NeemoApp.tsx:1348): selecting, removing and changing screens close it or take it along.
\* Only an answer, or demo mode, leaves it open on another item.
EditorKeepsItem ==
    editing # Null /\ ~demo /\ Selected # editing.item => drifted

\* The estimate on the map is of the selected item in the active room, unless an answer moved
\* the selection or a scan outlived it.
EstimateKeepsPlace ==
    EstimateShown => estimate = [item |-> Selected, room |-> active] \/ strayed

\* An estimate shown comes from the room that is selected: docs/NEEMO_MQTT_PRD.md:648.  The code
\* does not hold to it: choosing a room does not end the scan of the other.
LocatesInSelectedRoom == EstimateShown => estimate.room = active

\* Every message of which the page was told that it is stored is followed by a refresh of the
\* lists it is about, unless the page leaves the team or goes into demo mode first.
StoredIsAskedFor == \A l \in Lists : l \in owed ~> l \notin owed

\* Once nothing changes any more, the page comes to show the items of the active room, and on
\* their screen its hubs, whatever answers were late or lost.
Agrees(l) == shown[l] = Listed(l, active)
Settled == ~demo /\ active # Null =>
    Agrees("items") /\ (screen = "hubs" => Agrees("hubs"))
ListsSettle == <>[]Settled

=============================================================================
