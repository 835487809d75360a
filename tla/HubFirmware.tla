---------------------------- MODULE HubFirmware ----------------------------
(***************************************************************************)
(* Wi-Fi provisioning and reconnection in the firmware of a hub:           *)
(* hub_state.cpp, wifi_manager.cpp, nvs_creds.cpp and the write handlers   *)
(* of ble_service.cpp (firmware/rangetest-rs485-reference), built without  *)
(* the captive portal, as config.h has it.                                 *)
(*                                                                         *)
(* Three tasks share the members of WifiManager without a lock: loop()     *)
(* ticks the state machine, the BLE host runs the handlers of what a phone *)
(* writes, and the Wi-Fi event task raises flags.  job[t] says how far the *)
(* loop or the BLE task is in a tick, in startConnect or in a reset; they  *)
(* interleave between any two steps.  The radio is external.               *)
(*                                                                         *)
(* Time is relative: stamps taken from millis() are ages.  The loop ticks in *)
(* every unit of time.                                                     *)
(***************************************************************************)
EXTENDS Integers, Sequences

CONSTANTS
    Networks,       \* networks with a password, as a phone submits them
    OpenNetworks,   \* networks without one
    Null,
    AssocTimeout,   \* WIFI_ASSOC_TIMEOUT_MS
    DhcpTimeout,    \* WIFI_DHCP_TIMEOUT_MS
    Backoff,        \* RECONNECT_BACKOFF_MS, a sequence
    Floor,          \* RECONNECT_BACKOFF_FLOOR_MS
    GiveUp,         \* RECONNECT_GIVEUP_MS
    MaxWrites,      \* bound: credentials and resets from a phone or the button
    MaxBoots,       \* bound: power cuts
    MaxQueued       \* bound: events on their way from the radio

ASSUME NullAssumption == Null \notin Networks \cup OpenNetworks
ASSUME TimesAssumption ==
    /\ {AssocTimeout, DhcpTimeout, Floor, GiveUp, MaxWrites, MaxBoots, MaxQueued} \subseteq Nat
    /\ Backoff \in Seq(0..Floor)
    /\ Backoff # <<>>
    /\ GiveUp > 0

VARIABLES
    state,        \* HubStateMachine::state_ and error_, as published over BLE
    phase,        \* WifiManager::phase_
    isReconnect,  \* isReconnect_
    idx,          \* reconnectBackoffIdx_
    waitFor,      \* reconnectWaitDurationMs_
    age,          \* millis() less phaseStartMs_, reconnectWaitStartMs_, reconnectFirstFailureMs_
    flags,        \* those of evConnected_, evGotIp_ and evDisconnected_ that are set
    nvs,          \* the keys "ssid" and "pass" in flash
    radio,        \* external: the station
    events,       \* external: events on their way to the event task
    job,          \* what the loop and the BLE task are doing
    ticked,       \* the loop has ticked since the time last passed
    writes,       \* number of writes and resets so far
    boots,        \* number of power cuts so far
    raced,        \* history: a task took a step in the middle of what another did
    torn          \* history: the power was cut between two keys

wifi == <<phase, isReconnect, idx, waitFor, age>>
world == <<radio, events>>
history == <<writes, boots, raced, torn>>
vars == <<state, wifi, flags, nvs, world, job, ticked, history>>

Phases == {"IDLE", "ASSOCIATING", "WAITING_DHCP", "ONLINE", "RECONNECT_WAIT"}
Attempting == {"ASSOCIATING", "WAITING_DHCP"}
Errors == {"AUTH_FAILED", "AP_NOT_FOUND", "DHCP_FAILED", "WEAK_SIGNAL"}
States ==
    [is : {"UNPROVISIONED", "CONNECTING", "ONLINE", "RECONNECTING"}, error : {"NONE"}]
    \cup [is : {"FAILED"}, error : Errors]
Kinds == {"connected", "gotIp", "disconnected"}
All == Networks \cup OpenNetworks
Texts == All \cup {Null}

\* The longest a lost connection is tried for: the last retry begins before the limit.
Limit == GiveUp + Floor + AssocTimeout + DhcpTimeout + 2
Steps == Len(Backoff)

\* Older is never told apart.
MaxAge ==
    [phase |-> IF AssocTimeout > DhcpTimeout THEN AssocTimeout + 1 ELSE DhcpTimeout + 1,
     wait |-> Floor, down |-> Limit + 1]

Idle == [at |-> "idle"]
Doing ==
    {Idle}
    \cup [at : {"copied"}, got : SUBSET Kinds]
    \cup [at : {"publish"}, new : States]
    \cup [at : {"ssid", "pass", "begin"}, ssid : All, pass : Texts]
    \cup [at : {"clear", "unprovision"}]

TypeOK ==
    /\ state \in States
    /\ phase \in Phases
    /\ isReconnect \in BOOLEAN
    /\ idx \in 0..Steps
    /\ waitFor \in 0..Floor
    /\ age \in [phase : 0..MaxAge.phase, wait : 0..MaxAge.wait, down : 0..MaxAge.down]
    /\ flags \subseteq Kinds
    /\ nvs \in [ssid : Texts, pass : Texts]
    /\ radio \in {"off", "trying", "joined", "up"}
    /\ events \in Seq(Kinds)
    /\ job \in [{"loop", "ble"} -> Doing]
    /\ {ticked, raced, torn} \subseteq BOOLEAN
    /\ writes \in 0..MaxWrites
    /\ boots \in 0..MaxBoots

Published(is) == [is |-> is, error |-> "NONE"]
Failed(error) == [is |-> "FAILED", error |-> error]

Init ==
    /\ state = Published("UNPROVISIONED")
    /\ phase = "IDLE"
    /\ isReconnect = FALSE
    /\ idx = 0
    /\ waitFor = 0
    /\ age = [phase |-> 0, wait |-> 0, down |-> 0]
    /\ flags = {}
    /\ nvs = [ssid |-> Null, pass |-> Null]
    /\ radio = "off"
    /\ events = <<>>
    /\ job = [t \in {"loop", "ble"} |-> Idle]
    /\ ticked = FALSE
    /\ writes = 0
    /\ boots = 0
    /\ raced = FALSE
    /\ torn = FALSE

(***************************************************************************)
(* The radio and the event task                                            *)
(***************************************************************************)
RadioIs(r, e) == radio' = r /\ events' = Append(events, e)

\* WiFi.begin() leaves the network that was joined.
WiFiBegin == IF radio \in {"joined", "up"} THEN RadioIs("trying", "disconnected")
             ELSE radio' = "trying" /\ UNCHANGED events

WiFiDisconnect == IF radio = "off" THEN UNCHANGED world ELSE RadioIs("off", "disconnected")

RadioActs ==
    /\ Len(events) < MaxQueued
    /\ \/ radio = "trying" /\ RadioIs("joined", "connected")
       \/ radio = "joined" /\ RadioIs("up", "gotIp")
       \/ radio # "off" /\ RadioIs("off", "disconnected")
    /\ UNCHANGED <<state, wifi, flags, nvs, job, ticked, history>>

HandleEvent ==
    /\ events # <<>>
    /\ flags' = flags \cup {Head(events)}
    /\ events' = Tail(events)
    /\ UNCHANGED <<state, wifi, nvs, radio, job, ticked, history>>

(***************************************************************************)
(* Steps of either task t                                                  *)
(***************************************************************************)
Other(t) == IF t = "loop" THEN "ble" ELSE "loop"

\* Task t is at a step, and whether the other is in the middle of something is recorded.
Step(t, at) ==
    /\ job[t].at = at
    /\ raced' = (raced \/ job[Other(t)] # Idle)
    /\ UNCHANGED <<writes, boots, torn>>

GoesOn(t, next) == job' = [job EXCEPT ![t] = next]

\* The loop is through with a tick.
Ends(t) == GoesOn(t, Idle) /\ ticked' = (ticked \/ t = "loop")

\* beginAssociation(), as one step: an event between its assignments and WiFi.begin() leaves
\* what it leaves just after them, since WiFi.begin() touches neither flags nor phase.
BeginAssociation ==
    /\ phase' = "ASSOCIATING"
    /\ age' = [age EXCEPT !.phase = 0]
    /\ flags' = {}  \* what the last attempt left
    /\ WiFiBegin

\* setState(): LED, state characteristic and advertising follow.
SetState(new) == state' = new

\* startConnect(): the targets, then one key after the other, then the attempt.
SaveSsid(t) ==
    /\ Step(t, "ssid")
    /\ nvs' = [nvs EXCEPT !.ssid = job[t].ssid]
    /\ GoesOn(t, [job[t] EXCEPT !.at = "pass"])
    /\ UNCHANGED <<state, wifi, flags, world, ticked>>

\* Deviation: an empty password is not stored.
NonEmptyPass(new) == IF new = Null THEN nvs.pass ELSE new

PassStored(new) == new

SavePass(t) ==
    /\ Step(t, "pass")
    /\ nvs' = [nvs EXCEPT !.pass = PassStored(job[t].pass)]
    /\ GoesOn(t, [job[t] EXCEPT !.at = "begin"])
    /\ UNCHANGED <<state, wifi, flags, world, ticked>>

Begin(t) ==
    /\ Step(t, "begin")
    /\ isReconnect' = FALSE
    /\ idx' = 0
    /\ BeginAssociation
    /\ Ends(t)
    /\ UNCHANGED <<state, waitFor, nvs>>

\* Deviation: the phase is left as it is.
SamePhase == phase

PhaseAfterAbort == "IDLE"

\* handleResetRequest(): abortToIdle(), then the keys, then the state.  It is also the first
\* step of a request, so that its guard is the request's.
Abort(t) ==
    /\ job[t] = Idle
    /\ writes < MaxWrites
    /\ writes' = writes + 1
    /\ raced' = (raced \/ job[Other(t)] # Idle)
    /\ WiFiDisconnect
    /\ phase' = PhaseAfterAbort
    /\ isReconnect' = FALSE
    /\ GoesOn(t, [at |-> "clear"])
    /\ UNCHANGED <<state, idx, waitFor, age, flags, nvs, ticked, boots, torn>>

ClearKeys(t) ==
    /\ Step(t, "clear")
    /\ nvs' = [ssid |-> Null, pass |-> Null]
    /\ GoesOn(t, [at |-> "unprovision"])
    /\ UNCHANGED <<state, wifi, flags, world, ticked>>

Unprovision(t) ==
    /\ Step(t, "unprovision")
    /\ SetState(Published("UNPROVISIONED"))
    /\ Ends(t)
    /\ UNCHANGED <<wifi, flags, nvs, world>>

\* handleCredentialsWrite() with a network's name; the published state stays.
CredentialsWrite ==
    /\ job["ble"] = Idle
    /\ writes < MaxWrites
    /\ writes' = writes + 1
    /\ \E n \in All :
         GoesOn("ble", [at |-> "ssid", ssid |-> n, pass |-> IF n \in Networks THEN n ELSE Null])
    /\ UNCHANGED <<state, wifi, flags, nvs, world, ticked, boots, raced, torn>>

(***************************************************************************)
(* The tick of the loop                                                    *)
(***************************************************************************)

\* The flags are copied.
CopyFlags ==
    /\ Step("loop", "idle")
    /\ GoesOn("loop", [at |-> "copied", got |-> flags])
    /\ UNCHANGED <<state, wifi, flags, nvs, world, ticked>>

NoOutcome == Ends("loop")
Outcome(new) == GoesOn("loop", [at |-> "publish", new |-> new]) /\ UNCHANGED ticked

WaitAt(i) == IF i < Steps THEN Backoff[i + 1] ELSE Floor

\* Deviation: the index is not kept at the end of the table.
IdxUnbounded(i) == i + 1

IdxAfter(i) == IF i < Steps THEN i + 1 ELSE i

\* Deviation: the ten minutes are never up.
GiveUpNever == FALSE

TooLongDown == age.down >= GiveUp

\* failWith(): a first attempt fails at once, a reconnection waits and tries again.
FailWith(error) ==
    /\ IF isReconnect /\ ~TooLongDown
       THEN /\ phase' = "RECONNECT_WAIT"
            /\ age' = [age EXCEPT !.wait = 0]
            /\ waitFor' = WaitAt(idx)
            /\ idx' = IdxAfter(idx)
            /\ UNCHANGED isReconnect
            /\ NoOutcome
       ELSE /\ phase' = "IDLE"
            /\ isReconnect' = FALSE
            /\ Outcome(Failed(error))
            /\ UNCHANGED <<idx, waitFor, age>>
    /\ UNCHANGED world

Online ==
    /\ phase' = "ONLINE"
    /\ idx' = 0
    /\ isReconnect' = FALSE
    /\ Outcome(Published("ONLINE"))
    /\ UNCHANGED <<waitFor, age, world>>

\* An address: good enough unless the signal is weak.
GotIp == Online \/ FailWith("WEAK_SIGNAL")

Nothing == NoOutcome /\ UNCHANGED <<wifi, world>>

\* Deviation: no timeout.
NeverExpires(a, timeout) == FALSE

Expired(a, timeout) == a > timeout

\* The driver's reason, or where it says nothing a scan, tells which of two errors it is.
Associating(got) ==
    IF "gotIp" \in got THEN GotIp
    ELSE IF "connected" \in got
    THEN /\ phase' = "WAITING_DHCP"
         /\ age' = [age EXCEPT !.phase = 0]
         /\ NoOutcome
         /\ UNCHANGED <<isReconnect, idx, waitFor, world>>
    ELSE IF "disconnected" \in got
    THEN \E error \in {"AUTH_FAILED", "AP_NOT_FOUND"} : FailWith(error)
    ELSE IF Expired(age.phase, AssocTimeout) THEN FailWith("AP_NOT_FOUND") ELSE Nothing

WaitingDhcp(got) ==
    IF "gotIp" \in got THEN GotIp
    ELSE IF "disconnected" \in got \/ Expired(age.phase, DhcpTimeout)
    THEN FailWith("DHCP_FAILED")
    ELSE Nothing

OnlineTick(got) ==
    IF "disconnected" \in got
    THEN /\ phase' = "RECONNECT_WAIT"
         /\ isReconnect' = TRUE
         /\ idx' = 0
         /\ age' = [age EXCEPT !.wait = 0, !.down = 0]
         /\ waitFor' = Backoff[1]
         /\ Outcome(Published("RECONNECTING"))
         /\ UNCHANGED world
    ELSE Nothing

ReconnectWait ==
    IF age.wait >= waitFor
    THEN BeginAssociation /\ NoOutcome /\ UNCHANGED <<isReconnect, idx, waitFor>>
    ELSE Nothing

\* The flags are cleared, whether or not they were set when they were copied; then the
\* switch of WifiManager::tick().
Tick ==
    LET got == job["loop"].got
    IN  /\ Step("loop", "copied")
        /\ flags' = {}
        /\ CASE phase = "IDLE" -> Nothing
             [] phase = "ASSOCIATING" -> Associating(got)
             [] phase = "WAITING_DHCP" -> WaitingDhcp(got)
             [] phase = "ONLINE" -> OnlineTick(got)
             [] phase = "RECONNECT_WAIT" -> ReconnectWait
        /\ UNCHANGED <<state, nvs>>

\* The rest of HubStateMachine::tick().
Publish ==
    /\ Step("loop", "publish")
    /\ SetState(job["loop"].new)
    /\ Ends("loop")
    /\ UNCHANGED <<wifi, flags, nvs, world>>

(***************************************************************************)
(* Time and power                                                          *)
(***************************************************************************)
\* Whether anything will look at an age before it is set again.
InUse(a) ==
    CASE a = "phase" -> phase \in Attempting
      [] a = "wait" -> phase = "RECONNECT_WAIT"
      [] a = "down" -> isReconnect

TimePasses ==
    /\ job["loop"] = Idle
    /\ ticked
    /\ ticked' = FALSE
    /\ age' = [a \in DOMAIN age |->
                IF ~InUse(a) THEN 0 ELSE IF age[a] < MaxAge[a] THEN age[a] + 1 ELSE age[a]]
    /\ UNCHANGED <<state, phase, isReconnect, idx, waitFor, flags, nvs, world, job,
                   history>>

\* begin() after a power cut: the stored network is tried as if it had just been submitted.
Reboot ==
    /\ boots < MaxBoots
    /\ boots' = boots + 1
    /\ torn' = (torn \/ \E t \in DOMAIN job : job[t].at = "pass")
    /\ phase' = "IDLE"
    /\ isReconnect' = FALSE
    /\ idx' = 0
    /\ waitFor' = 0
    /\ age' = [phase |-> 0, wait |-> 0, down |-> 0]
    /\ flags' = {}
    /\ radio' = "off"
    /\ events' = <<>>
    /\ ticked' = FALSE
    /\ IF nvs.ssid = Null
       THEN /\ SetState(Published("UNPROVISIONED"))
            /\ job' = [t \in DOMAIN job |-> Idle]
       ELSE /\ SetState(Published("CONNECTING"))
            /\ job' = [loop |-> [at |-> "ssid", ssid |-> nvs.ssid, pass |-> nvs.pass],
                       ble |-> Idle]
    /\ UNCHANGED <<nvs, writes, raced>>

-----------------------------------------------------------------------------
GoOn(t) ==
    \/ SaveSsid(t)
    \/ SavePass(t)
    \/ Begin(t)
    \/ ClearKeys(t)
    \/ Unprovision(t)

\* The button is looked at before the flags are.
LoopTick ==
    \/ CopyFlags
    \/ Tick
    \/ Publish
    \/ GoOn("loop")

Next ==
    \/ LoopTick
    \/ GoOn("ble")
    \/ CredentialsWrite
    \/ \E t \in {"loop", "ble"} : Abort(t)
    \/ RadioActs
    \/ HandleEvent
    \/ TimePasses
    \/ Reboot

Spec == Init /\ [][Next]_vars

\* The loop runs and a handler that began goes on; time passes, though no tick waits for it
\* (hence SF); the radio may be silent.
FairSpec == Spec /\ WF_vars(LoopTick) /\ WF_vars(GoOn("ble")) /\ SF_vars(TimePasses)

(***************************************************************************)
(* Properties                                                              *)
(***************************************************************************)
AtRest == job["loop"] = Idle /\ job["ble"] = Idle

\* Phases in which a hub may show a state; an attempt with new credentials goes unshown.
Shown ==
    CASE state.is \in {"UNPROVISIONED", "FAILED"} -> phase = "IDLE"
      [] state.is = "CONNECTING" -> phase \in Attempting
      [] state.is = "ONLINE" -> phase = "ONLINE"
      [] state.is = "RECONNECTING" ->
           isReconnect /\ phase \in Attempting \cup {"RECONNECT_WAIT"}

\* Whatever the radio reports in whatever order, what a phone reads from the hub is what
\* the Wi-Fi manager does, as long as the two tasks have not cut into one another.
StateShowsPhase ==
    ~raced /\ AtRest => Shown \/ (phase \in Attempting /\ ~isReconnect)

\* After a lost connection the hub is online again, or says that it failed, within the ten
\* minutes, one more wait and one more attempt.
GivesUpInTime == isReconnect => age.down <= Limit

\* Flash holds what was submitted together: network and password are of one write, unless
\* the power was cut between the two keys or two tasks saved at a time.
StoredTogether ==
    AtRest /\ ~raced /\ ~torn /\ nvs.ssid # Null =>
      nvs.pass = IF nvs.ssid \in Networks THEN nvs.ssid ELSE Null

\* An attempt or a reconnection that a phone is shown comes to an end, whether or not the
\* radio ever reports anything.
AttemptsEnd ==
    \A is \in {"CONNECTING", "RECONNECTING"} :
       (state.is = is /\ ~raced) ~> (state.is # is \/ raced)

\* "The website therefore treats the firmware's ONLINE state plus readable network_info as
\* the reachability confirmation" (NEEMO_APP_COMPATIBILITY.md:34): a hub that is online
\* is connected, or there is still an event that will tell it otherwise.
OnlineIsReachable ==
    phase = "ONLINE" /\ AtRest =>
      \/ radio = "up"
      \/ "disconnected" \in flags
      \/ \E i \in DOMAIN events : events[i] = "disconnected"

=============================================================================
