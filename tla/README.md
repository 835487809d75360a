# Neemo: specifications and proofs

TLA+ modules about Neemo (`src/`): the Worker handlers that share the D1 database, the Local
Gateway and the browser pages that feed them, the demo mode, and the Wi-Fi part of a hub's
firmware. TLC checks each module on small instances; TLAPS proves every safety property that
holds for all instances. `PROJECT.json` lists
every run, every theorem, and the source lines of every definition.

## The system

Neemo locates RFID tags. Scanners (ESP32 Hubs) publish tag readings over MQTT. They reach
the cloud in two ways: a browser page connected to the team's MQTT namespace posts them to
`/api/mqtt/ingest`, or a Local Gateway on the home network buffers them and posts them to
`/api/gateways/ingest`. A Worker keeps everything in D1 (SQLite), and item pictures in R2.
Users share a workspace through teams.

A handler awaits D1 several times. One statement, and one `db.batch` (a transaction), is
atomic; between two of them any other handler may run, so **what a handler read may be stale
when it writes**. There are no foreign keys: only UNIQUE constraints and the conditions
written into statements protect the tables. This is what the modules are about.

| Component | State | Operations | Correct when |
|---|---|---|---|
| MQTT ingest (`app/api/mqtt/ingest`) | receipts, discoveries, observations, last-seen columns, job counts | POST | a retained message counts once however often it is delivered; times never go back |
| Scan sessions (`app/api/scans`, `lib/scan-results`) | scan_sessions, hub_scan_jobs, scan_tag_observations | POST starts, GET advances the status | final scans stay final and dated; one open scan per room; pollers get a final answer |
| Hubs (`app/api/hubs`, `gateways/claim`) | hubs, hub_placements | claim, PATCH, DELETE | a hardware has one hub row; only races leave references to a hub that is gone |
| Local Gateway (`gateway/src`) | queue in memory, file, retry timer | enqueue, flush, save, restart | no event lost or overtaken while there is room; the queue drains |
| Teams (`app/api/team`, `lib/workspace`) | teams, team_members, user_profiles | create, join, leave, setRole, rotate, remove | one owner; only a late join leaves a member without a team |
| Rooms, labels, items (`app/api/room`, `items`) | rooms, room_labels, items | CRUD | only races leave references to what is gone; last-seen survives edits |
| Item images (`items/image`) | items.image_key, R2 objects | PUT, DELETE, GET | a key that is stored names an object |
| Gateway registry (`gateways`, `register`, `gateways/ingest`) | pairing codes, mqtt_gateways | pair, register, revoke, ingest | a code admits one gateway; a revoked one stays out |
| Browser (`NeemoApp`, `TeamMqttMode`) | last answers, scan loop | refresh, poll, forward | what is shown settles on what the server has; editor and estimate stay with their item |
| Hub firmware (`firmware/`) | hub state, Wi-Fi phase, credentials | BLE writes, Wi-Fi events, tick | every connection attempt ends; a phone is shown what the Wi-Fi does |
| Demo mode (`MqttDemoMode`, `lib/freshness`, `scripts/mock-scanner`) | retained messages, connection, readings | publish, clear, connect, deliver, render | the page shows what the broker keeps; live means scanned lately |
| Numerics, UI, sessions, scripts | none that is shared | | |

Interactions: ingest and the scan handlers share scans, jobs and observations; ingest and the
hub handlers share hubs and discoveries; the Local Gateway and `gateways/ingest` share event
ids; every handler starts by reading the team membership that the team handlers write.

Hard behaviours: retained, duplicated and reordered messages; receipts that expire; statements
of two handlers interleaving; a client's poll as the only thing that ends a scan; a process
that dies between sending and saving; a queue at its limit while its head is in flight.
`PROJECT.json` lists each of these hazards at its line.

## Modules

| Module | Models | Runs |
|---|---|---|
| `ScanIngest` | MQTT ingest, scans, jobs, hubs as far as scans see them | `scan_ingest` (240,000 states), `one_active_scan` |
| `RoomInventory` | rooms, labels, hubs, placements, items and their last-seen columns, pictures | `room_inventory` (278,000) |
| `GatewayRegistry`, implementing `OneTimeCode` | setup codes, registration, revocation, gateway ingest | `gateway_registry` (793,000) |
| `LocalGateway` | the event buffer of the Local Gateway | `local_gateway` |
| `TeamMembership` | teams and roles | `team_membership` (0.44 million) |
| `HubFirmware` | Wi-Fi, provisioning and reset of a hub | `hub_firmware` (851,000), `hub_online` |
| `Browser` | one page: lists, editor, locate scan, refreshes | `browser` (238,000), `locate_room` |
| `DemoMode` | mock scanner, broker, a demo page and what it shows as live | `demo_mode` (162,000), `demo_retained` |

Each has an `MC...` module that gives it model values, and one `.cfg` per question. How they
meet: the messages that `ScanIngest` receives are those the page of `Browser` posts; the
buffer that `LocalGateway` has in full is in `GatewayRegistry` as the cloud sees it; the rows
that `Browser`'s server lists are those `RoomInventory` changes statement by statement; what a
hub publishes once `HubFirmware` has it online is the input of both ingests; `DemoMode` has a
broker and a topic tree of its own and shares nothing with the others. The modules are
checked apart: each keeps what of the others its own properties need.

### ScanIngest

The tables of scans and observations with ingest, scan POST and GET, and the hub handlers.
Every invocation has a local record (`ingest[b]`, `start[p]`, `poll[s]`) whose `step` says
which statement comes next and whose other fields are what it has read. Actions follow the
awaits: `IngestReceive`, `IngestFindReceipt`, `IngestFindHub`, `IngestFindScan` and
`IngestBatch` (or `IngestDuplicate`, when the receipt's primary key refuses the batch, or
`IngestFail`); `StartReceive`, `StartReadHubs`, `StartInsert`; `PollReadScan`,
`PollReadJobs`, `PollWrite`. A message may be received again at any time that the accepted
interval allows: the broker retains it and every open page posts it. PATCH and DELETE of hubs
and the claim are one step each, taking over what they read earlier as an arbitrary older
value. Left out: signal strengths, the location estimate, names, the gateway row. `counted`
and `acceptedAt` are history variables.

Bounds: `MaxClock` and windows of one to three ticks, in their order in the code
(KeepFor < RetainedAge). One hardware and one room are enough: the properties relate rows of
one room and one tag, and statements about different ones do not meet.

- `MCScanIngest.cfg`: two scenes, because their product is too large (`Scenes`). `Answering`: two
  scans that supersede each other and their clients, with one page that delivers one reading;
  `FinalScansAreDated`, `FinalScansAreLeftAlone`, `JobCountsMatchObservations` and `PollingEnds`
  can go wrong here. `Delivering`: no scans, two pages that deliver two events of three at once,
  again, late and in any order, with receipts that are kept for no longer than an instant
  (`KeepFor = 0`); `ReceiptsCoverRetention`, `CountedOncePerRetention` and
  `LastSeenNeverRegresses` can go wrong here. A scene cuts off only requests and events that
  nobody has to send, never a step of `Fairness`, so that `PollingEnds` is not true for want of
  behaviours. The theorems have any number of scans, pages and messages at once; the run has one
  tag, so several tags and hubs in a sum are proved only.
- `MCOneActiveScan.cfg`: the violation, see below.

Fairness (`FairSpec`): the clock advances, and a client that polls is served. The loops of
`runLocate` and `startTagScan` stop after 21 attempts; the model lets a client give up at any
time (`PollStop`) but never relies on it, which is why `PollingEnds` says something about
`updateScanStatus` and not about the counter. The clock is bounded, so a behaviour ends
(`CHECK_DEADLOCK FALSE`).

### LocalGateway

The buffer of the Local Gateway. `pc` is the await at which `flushQueue` stands; enqueueing
goes on meanwhile. `FlushQueue` is the synchronous run to the first await and is called from
`Enqueue`, the heartbeat (`Beat`) and the retry timer, as in the code. `SendOk` and
`SendFails` are the two ends of a request (a failed one may have been stored), `SaveDone` and
`SaveFails` those of a write, `Die` and `Restart` those of the process. Time is relative:
entries have an age, timers a remainder, so that the state space is finite without a clock.

- `MCLocalGateway.cfg`: three events, a queue of two, one death; `NothingLost`,
  `FirstDeliveriesInOrder`, and under `FairSpec` `QueueDrains`. Three events are one more than
  the queue holds, so that it overflows in every state of a flush.

Fairness: requests and writes end, timers fire (Node's event loop), a dead process is started
again. Requests need not ever succeed.

### TeamMembership

`/api/team`. `req[q]` is an invocation: what `getWorkspaceContext` said, the code, the target,
and the next statement. `UNIQUE(user_sub)` is the shape of `member` (one row per user),
`UNIQUE(invite_code)` a guard of the batches. `Fail` stands for every error and for a batch
that a constraint refuses. Names, emails and onboarding are left out.

- `MCTeamMembership.cfg` (443,000 states, symmetry): three users, two teams, three requests at once:
  an owner who deletes, a late join and a manager with a stale context all meet. `OneOwner`,
  `OrphansComeFromLateJoins`. A deleted team's UUID is not used again, so behaviours need
  no bound beyond `Teams`.

### RoomInventory

The other tables of a workspace, and the objects in R2. A handler checks in one statement what
it writes in a later one; `req[q]` holds what it has read in between, `XxxRead` and `XxxWrite`
are its steps. A refused request leaves no trace and is no step. `Fail` breaks an invocation
off between any two. Of the two ingest routes only the last-seen columns of items are here, and
of the Local Gateway's (`GatewayIngestWrite`) that its route compares no times. Of the
queries in the claim's `Promise.all` only that of the room is a step of its own (`ClaimRead`);
whether the hardware has a hub is decided by the UNIQUE constraint when it writes. One number
stands for the two sides of a room and for the two sums of a placement; ids are random UUIDs,
so `Fresh` is an id that nothing refers to.

With no foreign keys, references may dangle. `Faults` is the set of everything that should not
be there. `FaultsComeFromRaces` says where each of them is born: in the write of an invocation
whose reads another one has overtaken (`StaleWrite`), or, for a picture's object, in a failure.
Each handler by itself checks and cleans up completely: that is what tests with one request at
a time assume and do not show. `StoredKeysNameObjects` has no such exception: a picture that
a row names is in R2 whatever overlaps or breaks off, because the row is written after the
object and the old object is deleted last. `LastSeenGoesBackOnlyByRacesOrBuffers` is about every
writer of an item's last-seen time: the pages' ingest compares times, an edit writes its whole
row back, a move clears the columns, and the Local Gateway's ingest
(`gateways/ingest/route.ts:308-334`) writes the time of whatever its buffer held, older or not.
What order is left there is `LastSeenFollowsOneGateway` of `GatewayRegistry`.

`MCRoomInventory.cfg`: two rooms, hubs and items, a label, three keys, two requests. All tables
at once are too many states; `Scenes` follows three groups of tables and requests (measuring,
tracking, pictures) in which everything interleaves, and a behaviour until its first or second
fault. Two requests are enough for a race; `Dims`, `Sums` and `Spots` are chosen so that a
placement fits one of two lengths, within the tolerance, and not the other.

### GatewayRegistry and OneTimeCode

Setup codes, registration, authentication, revocation and `/api/gateways/ingest`, with the
computer that runs a Local Gateway: it pairs, sends its buffer from the front, and resends what
was not answered. `buffer` is what the process has, `file` what it saved last (`Save`); a
`Crash` loses what is not in the file, and `Restart` reads it. `Disconnect` loses a request or
an answer. `counted`, `seenBy` and `dropped` are history variables.

`OneTimeCode` is the promise of a setup code: none, open, closed, and at most one gateway
admitted. `CodeAdmitsOneGateway` checks that `GatewayRegistry` implements it (`INSTANCE ... WITH`):
a code is open until it runs out, or as long as a registration that came in time is still on
its way; a gateway is admitted when the computer is told its token. Two registrations may both
find the code unused; the conditional `UPDATE` decides, the loser's gateway row stays and
nobody has its token. `CountedOncePerGateway` holds under a named assumption
(`TimesAssumption`): flushing a whole buffer takes less than the day that receipts are kept.
The same assumption has `CodeLife > 0`: a code of no duration would be closed before it opens.
`RevokedStoresNothing` allows what had been authenticated before. `LastSeenFollowsOneGateway`
says what is left of order where the code compares no times. Of the batch of
`gateways/ingest` the module has the receipt and the readings of scanners; the items it touches are in
`RoomInventory`, and its discoveries, hub rows and scan counters are left out (`ScanIngest` has
those of the pages' ingest).

`MCGatewayRegistry.cfg`: two codes, two gateways, two requests, two events, five instants.
`Scenes` follows registering and delivering apart.

### HubFirmware

The firmware's `HubStateMachine`, `WifiManager` and `NvsCreds`. Three tasks share fields
without a lock: `loop()` (`CopyFlags`, `Tick`, `Publish`), the BLE task (`CredentialsWrite`,
`Abort` and what follows them) and the Wi-Fi event task (`HandleEvent`). `job` says how far the
first two are; `SaveSsid`, `SavePass` and `Begin` are the steps of `startConnect`, `Abort`,
`ClearKeys` and `Unprovision` those of a reset. `RadioActs` is the driver: it may say anything
it can at any time, or nothing. Time is relative, as in `LocalGateway`; `Reboot` is a power cut.
`StateShowsPhase`, `GivesUpInTime` and `StoredTogether` relate the published state, the phase,
the times and the credentials in flash. `raced` marks that the two tasks cut into one another:
then little of it holds, and the properties say so; the finding below needs no such race.

`AttemptsEnd`: whatever is shown as connecting or reconnecting ends, even if the radio never
reports anything. Fairness: the loop runs, a BLE handler that began goes on, time passes.
None is assumed of the radio or of the event task.

`MCHubFirmware.cfg`: two networks, one of them open; timeouts, waits and the limit are a few
units; two writes, one power cut, one event on its way. `FewRaces` stops following some
behaviours after a race, where the properties claim nothing. `MCHubOnline.cfg`: the violation.

### Browser

The state of `NeemoApp.tsx` and `TeamMqttMode.tsx` in one page, with a server on which a request
takes effect at once. `net` holds the requests on their way; a request is the continuation of
its handler, with what the closure captured. Answers come back in any order, or never. An
`AnswerX` action is the rest of the handler after the `await`; `Show` includes the effect that
a change of `activeRoomId` runs. `OthersChange` is another user. `Poll` are the two intervals,
`Message` and `RefreshTimer` the coalesced refreshes. The page has four screens; `On` says what
can be done, and which lists are polled, on each (hubs only on "hubs").

- `EditorKeepsItem`: `Save` sends the form to the item selected *then*. Every handler that moves
  the selection closes the editor or takes it along; only an answer (a refresh that no longer
  lists the item, an item added) or demo mode leaves it open on another.
- `EstimateKeepsPlace`: likewise for the estimate on the map.
- `StoredIsAskedFor`: no message is forgotten by the coalescing timer once its POST was answered.
- `ListsSettle`: when nothing changes any more, the page shows what the server has, whatever
  was lost, late, or of another room. Only the intervals achieve it.

Fairness: the event loop goes on, the timer fires, the requests for a list are served and
answered, every other one is answered or fails. An interval fires again and again (`SF`: it is
not enabled while its list is loading). Bounds: three requests on their way, three operations
of users, broker and failures; two rooms with an item in each are what an answer of the wrong
room needs. An interval does not fire while its list is loading: a poll is then overtaken only
by what is begun after it, which is the order in practice as long as an answer takes less than
the 10 or 15 seconds between polls. The history variables `drifted` and `strayed` record that
an exception named in the property has happened. `MCLocateRoom.cfg`: the violation.

### DemoMode

The page of `MqttDemoMode.tsx`, the readings of `demo-mqtt.ts`, what `freshness.ts` and
`DemoScannerMonitor.tsx` make of them, and `scripts/mock-scanner.ts` with both of its modes
(publishing, `--clear`). The broker and the MQTT.js client are external: `Publish`,
`TakeSubscribe`, `Break`, `Offline` are what the calls and events that the code uses say of
them. A message is the time of its scan (`seenAt`); 0 is no message, and the empty payload that
deletes one. `wire` has, by tag, the packets on their way: MQTT keeps the order within a topic.
QoS 1 sends a publish again if its acknowledgement was lost, also after a `--clear`. The page
renders at `now`, which its timer brings up to `clock`. The activity feed and the message
counters repeat what was delivered and are left out. `lastScan` and `leftover` are history.

- `SubscribedShowsRetained`: a page whose subscription stands, with nothing on its way, shows for
  each tag what the broker keeps. The one exception is in the property: an empty payload is not
  retained, so a tag that was deleted while the page was away stays on it (`leftover`).
- `LiveTagsWereRead`: a tag is live only as long after its latest read as docs/MQTT_DEMO.md:53
  says, give or take the two clocks, however late and however often that message came.
- `ClaimsEnd`: when the scanner is silent, the pages stop showing it and its tags as live; nothing
  arrives to tell them, only the timer does.

Fairness: time passes (`Second`), and the browser runs the timer of a page that is open
(`Timer`). None is assumed of the broker, the connection or the scanner.
`MCDemoMode.cfg`: one tag scanned up to three times, two packets on their way, clocks that
differ by a unit. Several tags are proved, not checked: with two, liveness takes too long.
`MCDemoRetained.cfg`: the violation.

## Disagreements between code and documentation

Each is the shortest behaviour of a run that TLC finds violated.

- *One active scan per room* (`OneActiveScan`): a new scan expires the open one of its room and
  its jobs. The next poll of the old scan's client computes a status from the time and the jobs
  alone, finds `queued` (or `scanning`, if there are readings), and writes it: the old scan is
  open again. No race is needed. An ingest batch that had picked the old scan does the same.
- *ONLINE means reachable* (`OnlineIsReachable`): `tick()` copies three flags and clears them
  all. A disconnect raised in between, or seen in the same tick as an address, is lost: the hub
  stays `ONLINE` without a network, and the website takes that for reachable.
- *Locate scans are of the selected room* (`LocatesInSelectedRoom`): the switcher clears the
  estimate but does not end the scan, which then sets the old room's estimate.
- *Retained messages do not make the scanner online* (`RetainedIsHistory`): docs/MQTT_DEMO.md:57-61
  has "publishing" mean that a message arrived in the last 12 seconds, and calls retained ones
  history. The code goes by the age of the message alone: a page that subscribes within
  `SCANNER_IDLE_MS` of the last scan shows a scanner that has stopped as publishing.

Seen while modelling, and listed as hazards in `PROJECT.json` rather than as runs of their own:
ingest is idempotent for 24 hours, not for the 30 days in which a message is accepted
(`CountedOncePerRetention` is what holds); an overflow of the gateway's queue while its head is
in flight loses the *next* event as well (`NothingLost` holds while there is room); events are
saved by the next flush, not when they are enqueued; a late join leaves a member without a
team (`OrphansComeFromLateJoins`: nothing else does); the first delay of a reconnection is
taken twice; a message for the cloud gateway of a team clears its `revoked_at`
(`mqtt/ingest/route.ts:103`), though nothing lists that gateway for revocation.

Some properties name an exception that is itself a hazard of the code: a torn pair of credentials
(`StoredTogether`), an answer that moves the selection under the editor (`EditorKeepsItem`), an
overflow in flight (`NothingLost`). Nothing in the repository promises these cases, so no property
says they do not happen; what the properties say is that nothing else does.

## Proofs

Every invariant, every action property and the refinement that a passing run checks is a theorem
`Spec => ...`, for all values of the constants that the named assumptions allow. These
are the typing of the constants, that `Null` is none of the values it stands beside
(`NullAssumption`, `RowAssumption`), that `Tags` of `ScanIngest` is finite (sums range over it),
and two about times: `GiveUp > 0` in `HubFirmware`, and `TimesAssumption` of `GatewayRegistry`.
Each module `X_proofs` begins with its inductive invariant, shows by one step per action that it
is kept, and ends with the theorems.

| Module | Theorems (property) | Invariant, beyond `TypeOK` |
|---|---|---|
| `ScanIngest_proofs` | `TypeCorrect`, `ReceiptsCover`, `CountedOnce`, `FinalDated`, `FinalLeftAlone`, `LastSeenForward`, `JobCounts` | `RequestsOK`; for sums `JobsOK`, `CreditsOK`, `Agree` |
| `TeamMembership_proofs` | `TypeCorrect`, `Owner`, `Orphans` | `OneOwner`, `RequestsOK` |
| `GatewayRegistry_proofs` | `TypeCorrect`, `CountedOnce`, `CodesImplementOneTimeCode`, `Revoked`, `LastSeenFollows` | `BirthsOK`, `RequestsOK`, `WaitingOK`, `CountsOK`, `CodesOK`; for order `BufferOK`, `OrderOK`, `LastSeenOK` |
| `LocalGateway_proofs` | `TypeCorrect`, `NoneLost`, `InOrder` | `Copies`, `Counters`, and `Room` until an overflow |
| `RoomInventory_proofs` | `TypeCorrect`, `StoredKeys`, `Faultless`, `LastSeenForward` | `PicturesOK`, `ChecksOK` |
| `HubFirmware_proofs` | `TypeCorrect`, `Shows`, `GivesUp`, `Stored` | `ReconnectOK`, `ShowsOK`, `StoredOK` |
| `Browser_proofs` | `TypeCorrect`, `Editor`, `Estimate` | `RoomOK`; `LocOK` |
| `DemoMode_proofs` | `TypeCorrect`, `ShowsRetained`, `LiveRead` | `WireOK`, `DatesOK`, `ClockOK` |

`ScanIngest`. `RequestsOK` says what a request in flight holds, above all that the time it read
is not in the future: a receipt pruned against that older time is one the clock has left behind
as well. `CountedOnce` is then the property of the batch: the receipt is inserted in the
transaction that adds the reading. `JobCounts` is about a sum over the tags. What a recursive
definition computes cannot be proved by an induction over data here, as the library's induction
theorems take an operator; instead a smallest counterexample among the subsets of `Tags` is taken
(`FS_StrictSubsetOrderingWellFounded`, `WFMin`), and it contradicts the sum's definition. A batch
that credits a scan adds the same number to a job and to one summand; the invariant adds that an id
without a row has no job, no observation, no client and no request that credits it, so that a
scan's rows begin empty and together. Pruning is in the property itself (`ObservationsKept`).

`TeamMembership`. `OneOwner` is not inductive alone: `SetRole`, `RemoveMember` and `Leave` write
by what they read before. `RequestsOK` adds what stays true of it: the team exists or existed, and
the target (or the caller who leaves) does not own it while it lives. `KnowledgeStays` shows that
no step of another request spoils this, for teams are inserted once and never change owner.

`GatewayRegistry`. An event has a time of birth; what is on its way was sent soon after
(`Sendable`), so a receipt that is gone was that of an event too old to be sent again
(`CountsOK`). The refinement maps a code's row, and the registrations that came in time, to the
state of `OneTimeCode` and a gateway's `told` to its admission; each action is one of its steps or
a stutter. `LastSeenFollows` needs the order of delivery: whatever is before an event in the
buffer is settled (received, too old, or given up) when the event is sent (`OrderOK`). The proof
failed for an earlier form of the crash, in which a process resumed with any older buffer: two
gateway ids then disagree about what was sent, which no file of the program allows and which the
constraint of the run had hidden. The module now has the file.

`LocalGateway`. Up to three copies of an event exist: in the queue, in the file, in the copy being
written. `Copies` says that they agree in order and age, `Room` that an event that is neither
received nor dropped is in the queue, and if it was saved in the file and the copy as well.

`RoomInventory`. `PicturesOK` says which invocation still owns an object: one that was uploaded
and not stored is named by no row and by no other upload; one about to be deleted is named by no
row. `ChecksOK` says what a handler has checked by the time it writes. For `Faultless`, a
fault that was not there before is followed back to the statement that made it: either what the
invocation had read has changed, or it is a failure.

`HubFirmware`. `DownSoFar` bounds the time a connection has been lost in each phase, from which
`GivesUp` follows with one wait and one attempt beyond the limit. `ShowsOK` and `StoredOK` follow
the two tasks from statement to statement (`job`), as long as they did not cut into one another.

`Browser`. The types of the lists need the answers on their way: an answer becomes a list. `LocOK`
ties a running locate scan to the selection, the room and the screen it was begun on.

`DemoMode`. The last packet on its way carries what the broker keeps (`WireOK`), and no copy of a
message carries a time after its tag's last scan (`DatesOK`).

Only model-checked: the six liveness properties (`PollingEnds`, `QueueDrains`, `AttemptsEnd`,
`StoredIsAskedFor`, `ListsSettle`, `ClaimsEnd`), which are beyond the prover, and the four
violations, which TLC shows by a behaviour.

## Not modelled, and the plan

- Rendering, forms, map geometry and trilateration: floating point and layout.
- Sessions, origin checks, rate limits: stateless conditions in front of every handler. Who may
  call what is in `TeamMembership`; elsewhere an accepted request is the input.
- Parsing and formatting of messages and EPCs: the modules start from accepted values.
- In `Browser`: room labels, the label scan's screen, pictures, search and form fields.
- In `HubFirmware`: scanning for networks and its transport over BLE, the RFID reader over
  RS-485, the LED, signal strengths (`GotIp` chooses), the captive portal (compiled out).
- In `DemoMode`: the activity feed, foreign messages on its topics, the guided tour.
- User profiles, the table `hub_pairing_codes`, scripts, migrations.

What is left, in this order: the hazards of `PROJECT.json` that no property covers (the scan for
networks that the BLE task and `loop()` share, `wifi_scan.cpp:26`; the two writers of the
gateway's temporary file, `gateway/src/index.ts:146`; an event received before its scanner is
claimed, `mqtt/ingest/route.ts:142`), each with a state its module lacks today; and that
`LocalGateway` implements the computer of `GatewayRegistry`, by a mapping of its queue and file.
