------------------------------ MODULE DemoMode ------------------------------
(***************************************************************************)
(* Demo mode: the mock scanner (scripts/mock-scanner.ts) publishes one     *)
(* retained message per sample tag, the browser's page                     *)
(* (app/MqttDemoMode.tsx) subscribes to them over a connection that comes  *)
(* and goes, and the readings it holds are shown as live or as history by  *)
(* the rules of app/lib/freshness.ts.                                      *)
(*                                                                         *)
(* The broker and the MQTT.js client are external: they are modelled from  *)
(* the calls and the events the page and the scanner use.  A message is    *)
(* the time its scan carries (seenAt); 0 is no message, and an empty       *)
(* payload.  The activity feed and the counters of messages only repeat    *)
(* what was delivered, and are left out.                                   *)
(***************************************************************************)
EXTENDS Integers, Sequences

CONSTANTS
  TagCount,      \* DEMO_TAGS.length
  IdleAfter,     \* SCANNER_IDLE_MS, in seconds
  FreshFor,      \* DEMO_ITEM_FRESH_MS
  OfflineAfter,  \* SCANNER_OFFLINE_MS
  Skew,          \* the scanner's clock minus the browser's
  Start,         \* the time at which a behaviour begins
  LastScan,      \* bound: no scan starts after this time
  MaxTime,       \* bound: the clock stops here
  MaxLag,        \* bound: the page's timer is at most this late
  MaxWire        \* bound: packets of one tag on their way to the page

ASSUME TagsAssumption == TagCount \in Nat \ {0}

ASSUME TimesAssumption ==
  /\ {IdleAfter, FreshFor, OfflineAfter, Start} \subseteq Nat \ {0}
  /\ Skew \in Int /\ Start + Skew > 0

ASSUME BoundsAssumption == {LastScan, MaxTime, MaxLag, MaxWire} \subseteq Nat

Tags == 0 .. TagCount - 1

\* A packet the broker sends: the message, and whether it is the kept copy
\* that answers a subscription (packet.retain).
Packet == [seenAt : Nat, retain : BOOLEAN]

Reading == [seenAt : Nat, retained : BOOLEAN]
Unseen == [seenAt |-> 0, retained |-> FALSE]

VARIABLES
  retained,    \* the broker: the message kept for each tag
  subscribed,  \* the broker: the page's subscription exists
  wire,        \* the packets on their way to the page, by tag
  suback,      \* the answer to the page's SUBSCRIBE
  scanner,     \* the mock scanner's process
  turn,        \* the tag it publishes next
  pending,     \* its publishes that the broker has not acknowledged
  clearing,    \* tags whose retained message "--clear" is deleting
  client,      \* the page's MQTT.js client, "none" outside demo mode
  connectionState,
  seenTags,    \* the page's readings
  clock, now,  \* the time, and the time the page last rendered
  lastScan,    \* history: when each tag was last scanned
  leftover     \* history: shown tags deleted while the page was away

brokerVars == <<retained, subscribed, wire, suback>>
scannerVars == <<scanner, turn, pending, clearing, lastScan>>
pageVars == <<client, connectionState, seenTags>>
timeVars == <<clock, now>>
vars == <<retained, subscribed, wire, suback, scanner, turn, pending, clearing,
          client, connectionState, seenTags, clock, now, lastScan, leftover>>

ConnectionStates ==
  {"connecting", "subscribing", "live", "reconnecting", "offline", "error"}

TypeOK ==
  /\ retained \in [Tags -> Nat]
  /\ subscribed \in BOOLEAN
  /\ wire \in [Tags -> Seq(Packet)]
  /\ suback \in {"none", "asked", "granted", "refused"}
  /\ scanner \in {"off", "batch", "cycling"}
  /\ turn \in Tags
  /\ pending \in [Tags -> Nat]
  /\ clearing \subseteq Tags
  /\ client \in {"none", "opening", "connected", "waiting"}
  /\ connectionState \in ConnectionStates
  /\ seenTags \in [Tags -> Reading]
  /\ clock \in Nat /\ now \in Nat
  /\ lastScan \in [Tags -> Nat]
  /\ leftover \subseteq Tags

Init ==
  /\ retained = [t \in Tags |-> 0]
  /\ subscribed = FALSE
  /\ wire = [t \in Tags |-> <<>>]
  /\ suback = "none"
  /\ scanner = "off" /\ turn = 0
  /\ pending = [t \in Tags |-> 0]
  /\ clearing = {}
  /\ client = "none"
  /\ connectionState = "connecting"
  /\ seenTags = [t \in Tags |-> Unseen]
  /\ clock = Start /\ now = Start
  /\ lastScan = [t \in Tags |-> 0]
  /\ leftover = {}

-----------------------------------------------------------------------------
(* What the pages show, from the readings and the time of the last render. *)

Age(t) == now - seenTags[t].seenAt

\* The newest reading, latestSeenAt, is the youngest one.
SeenWithin(span) == \E t \in Tags : seenTags[t].seenAt > 0 /\ Age(t) < span

\* Deviation: nothing turns a silent scanner offline.
ScannerStatusNoTimeout ==
  IF \A t \in Tags : seenTags[t].seenAt = 0 THEN "offline"
  ELSE IF SeenWithin(IdleAfter) THEN "publishing" ELSE "idle"

ScannerStatus ==
  IF ~ SeenWithin(OfflineAfter) THEN "offline"
  ELSE IF SeenWithin(IdleAfter) THEN "publishing" ELSE "idle"

TagFreshness(t) ==
  IF seenTags[t].seenAt = 0 THEN "never"
  ELSE IF Age(t) < FreshFor THEN "live" ELSE "stale"

\* On the other pages a tag is live only under a Hub that is not offline.
ItemFreshness(t) ==
  IF TagFreshness(t) = "live" /\ ScannerStatus = "offline"
  THEN "recent" ELSE TagFreshness(t)

-----------------------------------------------------------------------------
(* The mock scanner. *)

Acknowledged == \A t \in Tags : pending[t] = 0

\* createDemoTagMessage(definition, sequence) stamps the scan as it is made.
Scan(S) ==
  /\ pending' = [t \in Tags |-> IF t \in S THEN clock + Skew ELSE pending[t]]
  /\ lastScan' = [t \in Tags |-> IF t \in S THEN clock ELSE lastScan[t]]

\* pnpm mock:scanner: every tag is published at once.
StartScanner ==
  /\ scanner = "off" /\ clock <= LastScan
  /\ scanner' = "batch"
  /\ Scan(Tags)
  /\ UNCHANGED <<brokerVars, turn, clearing, pageVars, timeVars, leftover>>

\* All were acknowledged: the cycle starts, with the first tag.
StartCycle ==
  /\ scanner = "batch" /\ Acknowledged
  /\ scanner' = "cycling" /\ turn' = 0
  /\ UNCHANGED <<brokerVars, pending, clearing, lastScan, pageVars, timeVars,
                 leftover>>

\* Deviation: the cycle does not wrap around.
FollowingUnwrapped(t) == t + 1

\* DEMO_TAGS[(sequence - 1) % DEMO_TAGS.length]
Following(t) == (t + 1) % TagCount

\* After the interval the next tag is published, once the last one was
\* acknowledged.
PublishNext ==
  /\ scanner = "cycling" /\ Acknowledged /\ clock <= LastScan
  /\ Scan({turn})
  /\ turn' = Following(turn)
  /\ UNCHANGED <<brokerVars, scanner, clearing, pageVars, timeVars, leftover>>

\* SIGINT or SIGTERM ends the cycle after the publish under way; --once ends
\* after the batch.
StopScanner ==
  /\ scanner # "off" /\ Acknowledged
  /\ scanner' = "off" /\ turn' = 0
  /\ UNCHANGED <<brokerVars, pending, clearing, lastScan, pageVars, timeVars,
                 leftover>>

\* The process is killed, or a publish fails: what the broker has not taken
\* is lost.
KillScanner ==
  /\ scanner # "off"
  /\ scanner' = "off" /\ turn' = 0
  /\ pending' = [t \in Tags |-> 0]
  /\ UNCHANGED <<brokerVars, clearing, lastScan, pageVars, timeVars, leftover>>

\* pnpm mock:scanner --clear, a process of its own.
StartClear ==
  /\ clearing = {}
  /\ clearing' = Tags
  /\ UNCHANGED <<brokerVars, scanner, turn, pending, lastScan, pageVars,
                 timeVars, leftover>>

-----------------------------------------------------------------------------
(* The broker (external). *)

\* A publish reaches the broker: it is kept, and goes to the subscriber.
Publish(t, seenAt) ==
  /\ retained' = [retained EXCEPT ![t] = seenAt]
  /\ IF subscribed
     THEN /\ Len(wire[t]) < MaxWire
          /\ wire' = [wire EXCEPT ![t] = Append(@,
                        [seenAt |-> seenAt, retain |-> FALSE])]
     ELSE wire' = wire

\* QoS 1: a publish whose acknowledgement is lost is sent again.
TakeScan(t) ==
  /\ pending[t] > 0
  /\ Publish(t, pending[t])
  /\ \/ pending' = [pending EXCEPT ![t] = 0]
     \/ pending' = pending
  /\ UNCHANGED <<subscribed, suback, scanner, turn, clearing, lastScan,
                 pageVars, timeVars, leftover>>

TakeClear(t) ==
  /\ t \in clearing
  /\ Publish(t, 0)
  /\ \/ clearing' = clearing \ {t}
     \/ clearing' = clearing
  /\ UNCHANGED <<subscribed, suback, scanner, turn, pending, lastScan,
                 pageVars, timeVars, leftover>>

\* The subscription is answered with the messages kept for it.
TakeSubscribe ==
  /\ suback = "asked"
  /\ suback' = "granted" /\ subscribed' = TRUE
  /\ wire' = [t \in Tags |->
                IF retained[t] = 0 THEN <<>>
                ELSE <<[seenAt |-> retained[t], retain |-> TRUE]>>]
  /\ leftover' = {t \in Tags : seenTags[t].seenAt > 0 /\ retained[t] = 0}
  /\ UNCHANGED <<retained, scannerVars, pageVars, timeVars>>

RefuseSubscribe ==
  /\ suback = "asked"
  /\ suback' = "refused"
  /\ UNCHANGED <<retained, subscribed, wire, scannerVars, pageVars, timeVars,
                 leftover>>

\* The session ends with everything on its way; the page does not know yet.
LoseSession ==
  /\ subscribed' = FALSE /\ suback' = "none"
  /\ wire' = [t \in Tags |-> <<>>]

Break ==
  /\ client = "connected" /\ (subscribed \/ suback # "none")
  /\ LoseSession
  /\ UNCHANGED <<retained, scannerVars, pageVars, timeVars, leftover>>

-----------------------------------------------------------------------------
(* The page. *)

\* mqtt.connect, with the state the component starts from.
Enter ==
  /\ client = "none"
  /\ client' = "opening" /\ connectionState' = "connecting"
  /\ now' = clock
  /\ UNCHANGED <<brokerVars, scannerVars, seenTags, clock, leftover>>

\* Leaving demo mode disposes of the client and of the component's state.
Exit ==
  /\ client # "none"
  /\ client' = "none" /\ connectionState' = "connecting"
  /\ seenTags' = [t \in Tags |-> Unseen]
  /\ LoseSession
  /\ leftover' = {}
  /\ UNCHANGED <<retained, scannerVars, timeVars>>

\* "connect": the page subscribes on every connection (resubscribe: false).
Connect ==
  /\ client = "opening"
  /\ client' = "connected" /\ connectionState' = "subscribing"
  /\ suback' = "asked"
  /\ UNCHANGED <<retained, subscribed, wire, scannerVars, seenTags, timeVars,
                 leftover>>

\* The callback of client.subscribe.
Subscribed ==
  /\ suback \in {"granted", "refused"}
  /\ connectionState' = IF suback = "granted" THEN "live" ELSE "error"
  /\ suback' = "none"
  /\ UNCHANGED <<retained, subscribed, wire, scannerVars, client, seenTags,
                 timeVars, leftover>>

\* Deviation: an empty payload is ignored.
ReceivedIgnoringEmpty(current, packet) ==
  IF packet.seenAt = 0 THEN current
  ELSE [seenAt |-> packet.seenAt, retained |-> packet.retain]

\* Deviation: a reading is dated by its arrival.
ReceivedStamped(current, packet) ==
  IF packet.seenAt = 0 THEN Unseen
  ELSE [seenAt |-> clock, retained |-> packet.retain]

\* The reading a packet leaves: an empty payload deletes it.
Received(current, packet) ==
  IF packet.seenAt = 0 THEN Unseen
  ELSE [seenAt |-> packet.seenAt, retained |-> packet.retain]

\* "message"
Deliver(t) ==
  /\ client = "connected" /\ wire[t] # <<>>
  /\ seenTags' = [seenTags EXCEPT ![t] = Received(@, Head(wire[t]))]
  /\ wire' = [wire EXCEPT ![t] = Tail(@)]
  /\ leftover' = leftover \ {t}
  /\ UNCHANGED <<retained, subscribed, suback, scannerVars, client,
                 connectionState, timeVars>>

\* The client notices that its connection is gone.  A subscription under way
\* fails first, and "offline" follows; MQTT.js tells "offline" only once
\* until it connects again.
Offline ==
  /\ client \in {"opening", "connected"}
  /\ client' = "waiting"
  /\ \/ connectionState' = "offline"
     \/ client = "opening" /\ connectionState' = connectionState
  /\ LoseSession
  /\ UNCHANGED <<retained, scannerVars, seenTags, timeVars, leftover>>

\* "reconnect", every reconnectPeriod.
Reconnect ==
  /\ client = "waiting"
  /\ client' = "opening" /\ connectionState' = "reconnecting"
  /\ UNCHANGED <<brokerVars, scannerVars, seenTags, timeVars, leftover>>

\* "error": the connection is refused, or not acknowledged in time.
ConnectError ==
  /\ client = "opening"
  /\ connectionState' = "error"
  /\ UNCHANGED <<brokerVars, scannerVars, client, seenTags, timeVars, leftover>>

\* The Reconnect button: a new client in place of the one disposed of.  The
\* readings stay.
PressReconnect ==
  /\ client # "none" /\ connectionState \in {"error", "offline"}
  /\ client' = "opening" /\ connectionState' = "connecting"
  /\ LoseSession
  /\ UNCHANGED <<retained, scannerVars, seenTags, timeVars, leftover>>

-----------------------------------------------------------------------------
(* Time. *)

Second ==
  /\ clock < MaxTime
  /\ client = "none" \/ clock < now + MaxLag
  /\ clock' = clock + 1
  /\ UNCHANGED <<brokerVars, scannerVars, pageVars, now, leftover>>

\* setInterval(() => setNow(Date.now()), 1_000), while the page is mounted.
Timer ==
  /\ client # "none" /\ now # clock
  /\ now' = clock
  /\ UNCHANGED <<brokerVars, scannerVars, pageVars, clock, leftover>>

Scanner == StartScanner \/ StartCycle \/ PublishNext \/ StopScanner
           \/ KillScanner \/ StartClear

Broker == \/ \E t \in Tags : TakeScan(t) \/ TakeClear(t)
          \/ TakeSubscribe \/ RefuseSubscribe \/ Break

Page == \/ Enter \/ Exit \/ Connect \/ Subscribed \/ Offline \/ Reconnect
        \/ ConnectError \/ PressReconnect
        \/ \E t \in Tags : Deliver(t)

Next == Scanner \/ Broker \/ Page \/ Second \/ Timer

\* Time passes, and the browser runs the interval timer of an open page.
Spec == Init /\ [][Next]_vars /\ WF_vars(Second) /\ WF_vars(Timer)

-----------------------------------------------------------------------------
(* Properties. *)

\* A page whose subscription stands, with nothing on its way, shows for each
\* tag the message the broker keeps, after any connections lost, packets
\* lost and publishes repeated; all it may show beyond them is a tag deleted
\* while it was away (MqttDemoMode.tsx, "connect" and "message").
SubscribedShowsRetained ==
  subscribed =>
    \A t \in Tags : wire[t] = <<>> =>
      \/ seenTags[t].seenAt = retained[t]
      \/ retained[t] = 0 /\ t \in leftover

\* MQTT_DEMO.md: "A tag is considered live for 15 seconds after its latest
\* read".  By the page's time, give or take the difference of the two clocks,
\* no longer, however late the message of that read was delivered, and
\* however often (freshness.ts, MqttDemoMode.tsx).
LiveTagsWereRead ==
  \A t \in Tags :
    TagFreshness(t) = "live" => now < lastScan[t] + Skew + FreshFor

\* MQTT_DEMO.md: "Retained MQTT messages are historical snapshots, so
\* receiving them when the browser subscribes does not make the scanner
\* online".  A scanner that is off does not come to be shown as publishing
\* when the page takes in a kept message.
RetainedIsHistory ==
  [][(/\ scanner = "off"
      /\ \E t \in Tags : seenTags'[t] # seenTags[t] /\ seenTags'[t].retained
      /\ ScannerStatus' = "publishing")
     => ScannerStatus = "publishing"]_vars

\* Once the scanner falls silent the pages stop showing it, and its tags, as
\* live, with or without a connection (MQTT_DEMO.md: "individual live
\* indicators therefore switch off").
ClaimsEnd ==
  <>[](/\ ScannerStatus = "offline"
       /\ \A t \in Tags : ItemFreshness(t) # "live")
=============================================================================
