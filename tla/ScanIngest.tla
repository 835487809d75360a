----------------------------- MODULE ScanIngest -----------------------------
(***************************************************************************)
(* The D1 tables behind RFID scans and the three Worker handlers that      *)
(* write them:                                                             *)
(*   - POST /api/mqtt/ingest   (app/api/mqtt/ingest/route.ts)              *)
(*   - POST and GET /api/scans (app/api/scans/route.ts, scan-results.ts)   *)
(*   - POST /api/gateways/claim, PATCH and DELETE /api/hubs                *)
(* A handler awaits D1 several times.  Every awaited statement, and every  *)
(* db.batch (one SQLite transaction), is one action; between two of them   *)
(* other handlers run, so what a handler has read may be stale when it     *)
(* writes.  One workspace is modelled.  The mqtt_gateways row that ingest  *)
(* also upserts feeds nothing in this module.                              *)
(***************************************************************************)
EXTENDS Integers, FiniteSets, FiniteSetsExt

CONSTANTS
    Bridges,      \* concurrent invocations of the ingest handler
    Starters,     \* concurrent invocations of the scan POST handler
    Scans,        \* UUIDs of scan_sessions rows
    Rooms,
    Hubs,         \* UUIDs of hubs rows
    Hardware,     \* MAC-derived hardware ids
    HardwareOf,   \* the hardware a hub row stands for (hubs.device_id)
    Tags,
    Items,        \* inventory rows, as [tag, room] records
    Messages,     \* what scanners publish, retained by the broker
    Null,
    ScanWindow,   \* SCAN_EXPIRY_MS
    OnlineWindow, \* HUB_ONLINE_WINDOW_MS
    ClockSkew,    \* MAX_CLOCK_SKEW_MS
    RetainedAge,  \* MAX_RETAINED_AGE_MS
    KeepFor,      \* the 24 h after which receipts and observations are pruned
    MaxClock      \* bound of the model's clock

ASSUME HardwareAssumption == HardwareOf \in [Hubs -> Hardware]
ASSUME MessagesAssumption ==
    Messages \subseteq [hardware : Hardware, tag : Tags \cup {Null},
                        seenAt : Nat, sequence : Nat, reads : Nat \ {0}]
ASSUME TagsAssumption == IsFiniteSet(Tags)
ASSUME ItemsAssumption == Items \subseteq [tag : Tags, room : Rooms]
ASSUME NullAssumption ==
    Null \notin Hubs \cup Scans \cup Rooms \cup Tags \cup Messages
ASSUME WindowsAssumption ==
    {ScanWindow, OnlineWindow, ClockSkew, RetainedAge, KeepFor, MaxClock} \subseteq Nat

VARIABLES
    clock,      \* Date.now()
    receipts,   \* mqtt_gateway_events: event id -> received_at
    discovered, \* mqtt_hub_discoveries.last_seen_at, per hardware id
    hubs,       \* hubs and hub_placements
    scans,      \* scan_sessions
    jobs,       \* hub_scan_jobs
    scanObs,    \* scan_tag_observations
    tagObs,     \* tag_observations
    itemSeen,   \* items.last_seen_hub_id, items.last_seen_at
    ingest,     \* local state of each ingest invocation
    start,      \* local state of each scan POST invocation
    poll,       \* each scan's client: its GET in flight, and whether it still polls
    counted,    \* history: how often an event's readings were added to tagObs
    acceptedAt  \* history: received_at of the last time an event was accepted

tables == <<receipts, discovered, hubs, scans, jobs, scanObs, tagObs, itemSeen>>
history == <<counted, acceptedAt>>
vars == <<clock, tables, ingest, start, poll, history>>

Never == -1    \* SQL NULL in a time column

(***************************************************************************)
(* Rows and requests                                                       *)
(***************************************************************************)
Time == Nat \cup {Never}
OpenStatus == {"queued", "scanning"}
FinalStatus == {"complete", "expired"}
ScanStatus == OpenStatus \cup FinalStatus
OpenJob == {"queued", "dispatched", "scanning"}

Obs == [reads : Nat, last : Time]
NoObs == [reads |-> 0, last |-> Never]
NoScan == [status |-> "none", room |-> Null, createdAt |-> Never,
           expiresAt |-> Never, completedAt |-> Never]
NoHub == [state |-> "unclaimed", room |-> Null, placed |-> FALSE, lastSeen |-> 0]
NoReadings == [h \in Hubs |-> [t \in Tags |-> NoObs]]
NoJob == [status |-> "none", reads |-> 0]

\* The id under which an event is received: a hash of the topic and of every
\* field of the body but readCount.
EventId(m) == <<m.hardware, m.tag, m.seenAt, m.sequence>>
EventIds == {EventId(m) : m \in Messages}

IngestIdle == [step |-> "idle", msg |-> Null, now |-> Never,
               hub |-> Null, room |-> Null, scan |-> Null]
StartIdle == [step |-> "idle", room |-> Null, now |-> Never, online |-> {}]
PollOff == [step |-> "off", row |-> NoScan, at |-> Never, status |-> "none"]
PollRest == [PollOff EXCEPT !.step = "rest"]

Claimed(h) == hubs[h].state = "claimed"
Exists(s) == scans[s].status # "none"

HubRow == [state : {"unclaimed", "claimed", "deleted"}, room : Rooms \cup {Null},
           placed : BOOLEAN, lastSeen : Nat]
ScanRow == [status : ScanStatus \cup {"none"}, room : Rooms \cup {Null},
            createdAt : Time, expiresAt : Time, completedAt : Time]
JobRow == [status : {"none", "scanning", "expired"}, reads : Nat]
ItemRow == [hub : Hubs \cup {Null}, at : Time]
IngestReq == [step : {"idle", "receipt", "hub", "scan", "batch"},
              msg : Messages \cup {Null}, now : Time, hub : Hubs \cup {Null},
              room : Rooms \cup {Null}, scan : Scans \cup {Null}]
StartReq == [step : {"idle", "hubs", "insert"}, room : Rooms \cup {Null},
             now : Time, online : SUBSET Hubs]
PollReq == [step : {"off", "rest", "jobs", "write"}, row : ScanRow,
            at : Time, status : ScanStatus \cup {"none"}]

TypeOK ==
    /\ clock \in Nat
    /\ receipts \in [EventIds -> Time]
    /\ discovered \in [Hardware -> Time]
    /\ hubs \in [Hubs -> HubRow]
    /\ scans \in [Scans -> ScanRow]
    /\ jobs \in [Scans -> [Hubs -> JobRow]]
    /\ scanObs \in [Scans -> [Hubs -> [Tags -> Obs]]]
    /\ tagObs \in [Hubs -> [Tags -> Obs]]
    /\ itemSeen \in [Items -> ItemRow]
    /\ ingest \in [Bridges -> IngestReq]
    /\ start \in [Starters -> StartReq]
    /\ poll \in [Scans -> PollReq]
    /\ counted \in [EventIds -> Nat]
    /\ acceptedAt \in [EventIds -> Time]

\* A workspace without scans and readings yet; some hubs are claimed and placed.
Init ==
    /\ clock = 0
    /\ receipts = [k \in EventIds |-> Never]
    /\ \E room \in [Hubs -> Rooms \cup {Null}] :
         /\ \A g, h \in Hubs : HardwareOf[g] = HardwareOf[h] /\ g # h
                             => Null \in {room[g], room[h]}
         /\ hubs = [h \in Hubs |-> IF room[h] = Null THEN NoHub ELSE
                       [state |-> "claimed", room |-> room[h],
                        placed |-> TRUE, lastSeen |-> 0]]
         /\ discovered = [d \in Hardware |->
                       IF \E h \in Hubs : HardwareOf[h] = d /\ room[h] # Null
                       THEN 0 ELSE Never]
    /\ scans = [s \in Scans |-> NoScan]
    /\ jobs = [s \in Scans |-> [h \in Hubs |-> NoJob]]
    /\ scanObs = [s \in Scans |-> NoReadings]
    /\ tagObs = NoReadings
    /\ itemSeen = [i \in Items |-> [hub |-> Null, at |-> Never]]
    /\ ingest = [b \in Bridges |-> IngestIdle]
    /\ start = [p \in Starters |-> StartIdle]
    /\ poll = [s \in Scans |-> PollOff]
    /\ counted = [k \in EventIds |-> 0]
    /\ acceptedAt = [k \in EventIds |-> Never]

Tick ==
    /\ clock < MaxClock
    /\ clock' = clock + 1
    /\ UNCHANGED <<tables, ingest, start, poll, history>>

(***************************************************************************)
(* POST /api/mqtt/ingest                                                   *)
(***************************************************************************)

\* The request arrives: Date.now() is read once, and seenAt must lie in the
\* accepted interval.  A message may arrive any number of times, in any order
\* and as late as that interval allows: it is retained by the broker and every
\* open page of the team posts it.
IngestReceive(b, m) ==
    /\ ingest[b].step = "idle"
    /\ m.seenAt =< clock + ClockSkew
    /\ m.seenAt >= clock - RetainedAge
    /\ ingest' = [ingest EXCEPT ![b] = [IngestIdle EXCEPT !.step = "receipt",
                                                          !.msg = m, !.now = clock]]
    /\ UNCHANGED <<clock, tables, start, poll, history>>

\* SELECT from mqtt_gateway_events: a known event is acknowledged as duplicate.
IngestFindReceipt(b) ==
    /\ ingest[b].step = "receipt"
    /\ ingest' = [ingest EXCEPT ![b] =
                    IF receipts[EventId(ingest[b].msg)] # Never
                    THEN IngestIdle
                    ELSE [ingest[b] EXCEPT !.step = "hub"]]
    /\ UNCHANGED <<clock, tables, start, poll, history>>

\* SELECT from hubs by device_id: no hub and heartbeats skip the scan lookup.
IngestFindHub(b) ==
    LET m == ingest[b].msg
        found == {h \in Hubs : Claimed(h) /\ HardwareOf[h] = m.hardware}
    IN  /\ ingest[b].step = "hub"
        /\ \/ /\ found = {}
              /\ ingest' = [ingest EXCEPT ![b].step = "batch"]
           \/ \E h \in found :
                ingest' = [ingest EXCEPT
                             ![b].step = IF m.tag = Null THEN "batch" ELSE "scan",
                             ![b].hub = h,
                             ![b].room = hubs[h].room]
        /\ UNCHANGED <<clock, tables, start, poll, history>>

\* Deviation: a scan is credited whatever its status.
ScansForAnyStatus(h, r, at) ==
    {s \in Scans : scans[s].room = r /\ scans[s].createdAt =< at /\ scans[s].expiresAt >= at}

\* The scans an observation made at `at` by hub h in room r may belong to.
ScansFor(h, r, at) ==
    {s \in Scans : /\ scans[s].room = r
                   /\ scans[s].status \in OpenStatus
                   /\ scans[s].createdAt =< at
                   /\ scans[s].expiresAt >= at
                   /\ jobs[s][h].status \in OpenJob}

\* ORDER BY created_at DESC LIMIT 1
Newest(S) == {s \in S : \A x \in S : scans[x].createdAt =< scans[s].createdAt}

IngestFindScan(b) ==
    LET found == ScansFor(ingest[b].hub, ingest[b].room, ingest[b].msg.seenAt)
    IN  /\ ingest[b].step = "scan"
        /\ \/ /\ found = {}
              /\ ingest' = [ingest EXCEPT ![b].step = "batch"]
           \/ \E s \in Newest(found) :
                ingest' = [ingest EXCEPT ![b].step = "batch", ![b].scan = s]
        /\ UNCHANGED <<clock, tables, start, poll, history>>

\* The primary key of mqtt_gateway_events admits the receipt.
\* Deviation: no such key.
AnyReceipt(id) == TRUE
ReceiptIsNew(id) == receipts[id] = Never

\* Deviation: receipts are pruned one tick early.
ReceiptsAfterEarly(id, now) ==
    [k \in EventIds |-> IF k = id THEN now
                        ELSE IF receipts[k] =< now - KeepFor THEN Never
                        ELSE receipts[k]]

\* The receipt is inserted, and receipts older than a day are deleted.
ReceiptsAfter(id, now) ==
    [k \in EventIds |-> IF k = id THEN now
                        ELSE IF receipts[k] < now - KeepFor THEN Never
                        ELSE receipts[k]]

\* Deviation: the last write wins.
LastWrite(t, u) == u
Later(t, u) == IF u > t THEN u ELSE t

\* INSERT ... ON CONFLICT DO UPDATE of an observation row.
Upsert(o, reads, at) ==
    [reads |-> o.reads + reads, last |-> Later(o.last, at)]

PruneObs(o, now) == IF o.last < now - KeepFor THEN NoObs ELSE o

\* Statements of the batch that store a tag reading of claimed hub h.
StoreReading(m, h, r, now) ==
    /\ tagObs' = [x \in Hubs |-> [t \in Tags |->
                    IF x = h /\ t = m.tag
                    THEN Upsert(PruneObs(tagObs[x][t], now), m.reads, m.seenAt)
                    ELSE PruneObs(tagObs[x][t], now)]]
    /\ itemSeen' = [i \in Items |->
                    IF i.room = r /\ i.tag = m.tag /\ itemSeen[i].at =< m.seenAt
                    THEN [hub |-> h, at |-> m.seenAt]
                    ELSE itemSeen[i]]

\* Deviation: a job counts messages, not the reads in them.
CreditScanOnce(s, h, m) ==
    /\ scans' = [scans EXCEPT ![s].status = "scanning"]
    /\ jobs' = [jobs EXCEPT ![s][h] =
                  IF @.status = "none" THEN @
                  ELSE [status |-> "scanning", reads |-> @.reads + 1]]
    /\ scanObs' = [scanObs EXCEPT ![s][h][m.tag] = Upsert(@, m.reads, m.seenAt)]

\* Statements that credit scan s: the session is set to 'scanning' whatever its
\* status has become, and so is the job if it still exists.
CreditScan(s, h, m) ==
    /\ scans' = [scans EXCEPT ![s].status = "scanning"]
    /\ jobs' = [jobs EXCEPT ![s][h] =
                  IF @.status = "none" THEN @
                  ELSE [status |-> "scanning", reads |-> @.reads + m.reads]]
    /\ scanObs' = [scanObs EXCEPT ![s][h][m.tag] = Upsert(@, m.reads, m.seenAt)]

\* db.batch: one transaction.  The receipt's primary key makes the whole batch
\* fail when the event was received in the meantime.
IngestBatch(b) ==
    LET r == ingest[b]
        id == EventId(r.msg)
    IN  /\ r.step = "batch"
        /\ ReceiptIsNew(id)
        /\ receipts' = ReceiptsAfter(id, r.now)
        /\ hubs' = IF r.hub # Null /\ Claimed(r.hub) /\ hubs[r.hub].lastSeen < r.msg.seenAt
                   THEN [hubs EXCEPT ![r.hub].lastSeen = r.msg.seenAt]
                   ELSE hubs
        /\ discovered' = [discovered EXCEPT ![r.msg.hardware] = Later(@, r.msg.seenAt)]
        /\ IF r.hub # Null /\ r.msg.tag # Null
           THEN StoreReading(r.msg, r.hub, r.room, r.now)
           ELSE UNCHANGED <<tagObs, itemSeen>>
        /\ IF r.scan # Null
           THEN CreditScan(r.scan, r.hub, r.msg)
           ELSE UNCHANGED <<scans, jobs, scanObs>>
        /\ counted' = IF r.hub # Null /\ r.msg.tag # Null
                      THEN [counted EXCEPT ![id] = @ + 1] ELSE counted
        /\ acceptedAt' = [acceptedAt EXCEPT ![id] = r.now]
        /\ ingest' = [ingest EXCEPT ![b] = IngestIdle]
        /\ UNCHANGED <<clock, start, poll>>

IngestDuplicate(b) ==
    /\ ingest[b].step = "batch"
    /\ ~ReceiptIsNew(EventId(ingest[b].msg))
    /\ ingest' = [ingest EXCEPT ![b] = IngestIdle]
    /\ UNCHANGED <<clock, tables, start, poll, history>>

\* A D1 error, or the invocation is evicted: the reply is 500 or none.
IngestFail(b) ==
    /\ ingest[b].step # "idle"
    /\ ingest' = [ingest EXCEPT ![b] = IngestIdle]
    /\ UNCHANGED <<clock, tables, start, poll, history>>

(***************************************************************************)
(* POST /api/scans                                                         *)
(***************************************************************************)

\* Bound: a scan is requested only if the clock can still reach its expiry.
StartReceive(p, r) ==
    /\ start[p].step = "idle"
    /\ clock + ScanWindow =< MaxClock
    /\ start' = [start EXCEPT ![p] = [step |-> "hubs", room |-> r,
                                      now |-> clock, online |-> {}]]
    /\ UNCHANGED <<clock, tables, ingest, poll, history>>

OnlineHubs(r, now) ==
    {h \in Hubs : /\ Claimed(h)
                  /\ hubs[h].room = r
                  /\ hubs[h].placed
                  /\ hubs[h].lastSeen >= now - OnlineWindow}

\* No online hub: 409.
StartReadHubs(p) ==
    LET online == OnlineHubs(start[p].room, start[p].now)
    IN  /\ start[p].step = "hubs"
        /\ start' = [start EXCEPT ![p] =
                       IF online = {} THEN StartIdle
                       ELSE [start[p] EXCEPT !.step = "insert", !.online = online]]
        /\ UNCHANGED <<clock, tables, ingest, poll, history>>

OpenScans(r) == {s \in Scans : scans[s].room = r /\ scans[s].status \in OpenStatus}

\* COALESCE(completed_at, now).  Deviations: no time is set; a malformed one is.
KeepCompleted(t, now) == t
UntypedCompleted(t, now) == Null
CompletedOr(t, now) == IF t = Never THEN now ELSE t

\* db.batch: the room's open scans and their jobs expire, observations of scans
\* older than a day go, and the new scan is inserted with a job per online hub.
\* Its client begins to poll.
StartInsert(p, s) ==
    LET r == start[p].room
        now == start[p].now
    IN  /\ start[p].step = "insert"
        /\ ~Exists(s)
        /\ scans' = [x \in Scans |->
                       IF x = s
                       THEN [status |-> "scanning", room |-> r, createdAt |-> now,
                             expiresAt |-> now + ScanWindow, completedAt |-> Never]
                       ELSE IF x \in OpenScans(r)
                       THEN [scans[x] EXCEPT !.status = "expired",
                                             !.completedAt = CompletedOr(@, now)]
                       ELSE scans[x]]
        /\ jobs' = [x \in Scans |-> [h \in Hubs |->
                      IF x = s /\ h \in start[p].online
                      THEN [status |-> "scanning", reads |-> 0]
                      ELSE IF x \in OpenScans(r) /\ jobs[x][h] # NoJob
                      THEN [jobs[x][h] EXCEPT !.status = "expired"]
                      ELSE jobs[x][h]]]
        /\ scanObs' = [x \in Scans |->
                         IF Exists(x) /\ scans[x].createdAt < now - KeepFor
                         THEN NoReadings ELSE scanObs[x]]
        /\ start' = [start EXCEPT ![p] = StartIdle]
        /\ poll' = [poll EXCEPT ![s] = PollRest]
        /\ UNCHANGED <<clock, receipts, discovered, hubs, tagObs, itemSeen, ingest,
                       history>>

StartFail(p) ==
    /\ start[p].step # "idle"
    /\ start' = [start EXCEPT ![p] = StartIdle]
    /\ UNCHANGED <<clock, tables, ingest, poll, history>>

(***************************************************************************)
(* GET /api/scans, polled by the client of scan s until the answer is      *)
(* final (runLocate and startTagScan of app/NeemoApp.tsx)                  *)
(***************************************************************************)
PollReadScan(s) ==
    /\ poll[s].step = "rest"
    /\ poll' = [poll EXCEPT ![s] = [step |-> "jobs", row |-> scans[s],
                                    at |-> clock, status |-> "none"]]
    /\ UNCHANGED <<clock, tables, ingest, start, history>>

\* updateScanStatus: the status that the jobs, the row read before and the time
\* call for.
StatusOf(s, row, now) ==
    LET rows == {h \in Hubs : jobs[s][h].status # "none"}
        readings == \E h \in rows : jobs[s][h].reads > 0
    IN  IF rows # {} /\ \A h \in rows : jobs[s][h].status = "complete"
        THEN "complete"
        ELSE IF now >= row.expiresAt THEN IF readings THEN "complete" ELSE "expired"
        ELSE IF readings \/ \E h \in rows : jobs[s][h].status \in {"dispatched", "scanning"}
             THEN "scanning"
        ELSE "queued"

MustWrite(status, row) ==
    \/ status # row.status
    \/ status \in FinalStatus /\ row.completedAt = Never

\* Deviation: the client does not take 'expired' for an answer.
AnsweredComplete(status) == IF status = "complete" THEN PollOff ELSE PollRest

\* The GET is answered: the client stops after a final status.
Answered(status) == IF status \in FinalStatus THEN PollOff ELSE PollRest

\* The clock is read after the row arrived and before the jobs do.
PollReadJobs(s) ==
    /\ poll[s].step = "jobs"
    /\ \E now \in poll[s].at .. clock :
         LET status == StatusOf(s, poll[s].row, now)
         IN  poll' = [poll EXCEPT ![s] =
                        IF MustWrite(status, poll[s].row)
                        THEN [poll[s] EXCEPT !.step = "write", !.at = now, !.status = status]
                        ELSE Answered(status)]
    /\ UNCHANGED <<clock, tables, ingest, start, history>>

\* UPDATE scan_sessions by id alone: whatever the row has become is overwritten.
PollWrite(s) ==
    LET status == poll[s].status
    IN  /\ poll[s].step = "write"
        /\ scans' = [scans EXCEPT
                       ![s].status = status,
                       ![s].completedAt = IF status \in FinalStatus THEN poll[s].at ELSE Never]
        /\ poll' = [poll EXCEPT ![s] = Answered(status)]
        /\ UNCHANGED <<clock, receipts, discovered, hubs, jobs, scanObs, tagObs, itemSeen,
                       ingest, start, history>>

\* The page is closed, or a GET fails, which ends the client's loop.
PollStop(s) ==
    /\ poll[s].step # "off"
    /\ poll' = [poll EXCEPT ![s] = PollOff]
    /\ UNCHANGED <<clock, tables, ingest, start, history>>

(***************************************************************************)
(* Hubs: claim, PATCH, DELETE                                              *)
(***************************************************************************)

\* UNIQUE(device_id) admits one hub row per hardware.  last_seen_at is copied
\* from the discovery row as it was read some time before.
HubClaim(h, r) ==
    /\ hubs[h].state = "unclaimed"
    /\ \A g \in Hubs : HardwareOf[g] = HardwareOf[h] => ~Claimed(g)
    /\ \E at \in 0 .. discovered[HardwareOf[h]] :
         hubs' = [hubs EXCEPT ![h] = [state |-> "claimed", room |-> r,
                                      placed |-> FALSE, lastSeen |-> at]]
    /\ UNCHANGED <<clock, receipts, discovered, scans, jobs, scanObs, tagObs, itemSeen,
                   ingest, start, poll, history>>

\* Sets the room, and deletes or upserts the placement.  PATCH decides between
\* them from a row it read earlier, so either may come with either room.
HubPatch(h, r) ==
    /\ Claimed(h)
    /\ \E placed \in BOOLEAN :
         hubs' = [hubs EXCEPT ![h].room = r, ![h].placed = placed]
    /\ UNCHANGED <<clock, receipts, discovered, scans, jobs, scanObs, tagObs, itemSeen,
                   ingest, start, poll, history>>

HubDelete(h) ==
    /\ Claimed(h)
    /\ hubs' = [hubs EXCEPT ![h] = [NoHub EXCEPT !.state = "deleted"]]
    /\ itemSeen' = [i \in Items |-> IF itemSeen[i].hub = h
                                    THEN [itemSeen[i] EXCEPT !.hub = Null]
                                    ELSE itemSeen[i]]
    /\ tagObs' = [tagObs EXCEPT ![h] = [t \in Tags |-> NoObs]]
    /\ jobs' = [s \in Scans |-> [jobs[s] EXCEPT ![h] = NoJob]]
    /\ UNCHANGED <<clock, receipts, discovered, scans, scanObs, ingest, start, poll, history>>

-----------------------------------------------------------------------------
IngestNext(b) ==
    \/ \E m \in Messages : IngestReceive(b, m)
    \/ IngestFindReceipt(b)
    \/ IngestFindHub(b)
    \/ IngestFindScan(b)
    \/ IngestBatch(b)
    \/ IngestDuplicate(b)
    \/ IngestFail(b)

StartNext(p) ==
    \/ \E r \in Rooms : StartReceive(p, r)
    \/ StartReadHubs(p)
    \/ \E s \in Scans : StartInsert(p, s)
    \/ StartFail(p)

PollNext(s) == PollReadScan(s) \/ PollReadJobs(s) \/ PollWrite(s) \/ PollStop(s)

HubNext(h) ==
    \/ \E r \in Rooms : HubClaim(h, r) \/ HubPatch(h, r)
    \/ HubDelete(h)

Next ==
    \/ Tick
    \/ \E b \in Bridges : IngestNext(b)
    \/ \E p \in Starters : StartNext(p)
    \/ \E s \in Scans : PollNext(s)
    \/ \E h \in Hubs : HubNext(h)

Spec == Init /\ [][Next]_vars

\* Time passes, and a client that polls goes on polling and is served.
Fairness ==
    /\ WF_vars(Tick)
    /\ \A s \in Scans : WF_vars(PollReadScan(s) \/ PollReadJobs(s) \/ PollWrite(s))

FairSpec == Spec /\ Fairness

(***************************************************************************)
(* Properties                                                              *)
(***************************************************************************)

\* An event that is not remembered, because its receipt was pruned or it never
\* came, was last accepted more than KeepFor ago.
ReceiptsCoverRetention ==
    \A k \in EventIds :
        IF receipts[k] = Never
        THEN acceptedAt[k] = Never \/ acceptedAt[k] + KeepFor < clock
        ELSE receipts[k] = acceptedAt[k]

\* However often an event is delivered, and by however many pages at once, its
\* readings are added at most once in any KeepFor of time.
CountedOncePerRetention ==
    [][\A k \in EventIds :
          counted'[k] # counted[k] =>
             /\ counted'[k] = counted[k] + 1
             /\ acceptedAt[k] = Never \/ acceptedAt[k] + KeepFor < clock]_vars

\* Nothing of scan s was pruned: no scan was started more than KeepFor after it.
ObservationsKept(s) ==
    \A x \in Scans : Exists(x) => scans[s].createdAt >= scans[x].createdAt - KeepFor

\* A job's reading_count is the sum of the read counts stored for its scan and
\* hub: the tables that progress and results are read from never disagree until
\* a later scan has the observations pruned.
JobCountsMatchObservations ==
    \A s \in Scans, h \in Hubs :
        jobs[s][h] # NoJob /\ ObservationsKept(s)
        => jobs[s][h].reads = MapThenSumSet(LAMBDA t : scanObs[s][h][t].reads, Tags)

\* Whatever handlers overwrite each other, a scan that is final carries the time
\* it became so.
FinalScansAreDated ==
    \A s \in Scans : scans[s].status \in FinalStatus => scans[s].completedAt # Never

\* Readings delivered late, twice or out of order never move a last-seen time
\* back while the row they belong to lives.
LastSeenNeverRegresses ==
    [][/\ \A h \in Hubs : Claimed(h) /\ Claimed(h)' => hubs'[h].lastSeen >= hubs[h].lastSeen
       /\ \A i \in Items : itemSeen'[i].at >= itemSeen[i].at
       /\ \A h \in Hubs, t \in Tags :
             \/ tagObs'[h][t].last >= tagObs[h][t].last
             \/ tagObs'[h][t] = NoObs
             \/ tagObs[h][t].last < clock - KeepFor]_vars

\* Once a scan is final no ingest picks it any more, though events for it may be
\* delivered for weeks.  It changes only by an ingest that had picked it before or
\* by a GET of its own client: nothing else adds a reading or a status.
FinalScansAreLeftAlone ==
    [][\A s \in Scans :
          scans[s].status \in FinalStatus =>
             /\ \A b \in Bridges : ingest'[b].scan = s => ingest[b].scan = s
             /\ \/ \E b \in Bridges : ingest[b].scan = s
                \/ poll[s].step = "write"
                \/ scans'[s].status = scans[s].status /\ scanObs'[s] \in {scanObs[s], NoReadings}]_vars

\* Every client that keeps polling is told a final status: the loop ends.
PollingEnds == \A s \in Scans : poll[s].step # "off" ~> poll[s].step = "off"

\* README.md:27, "one active scan per room".
OneActiveScan == \A r \in Rooms : Cardinality(OpenScans(r)) =< 1
=============================================================================
