------------------------- MODULE HubFirmware_proofs -------------------------
(***************************************************************************)
(* Proofs about HubFirmware, for any networks, time limits and back-off    *)
(* table, any number of writes, power cuts and queued events, and every    *)
(* interleaving of the three tasks.                                        *)
(***************************************************************************)
EXTENDS HubFirmware, TLAPS

(***************************************************************************)
(* The inductive invariant: three parts over TypeOK.                       *)
(***************************************************************************)
Saving(t) == job[t].at \in {"ssid", "pass", "begin"}
Resetting(t) == job[t].at \in {"clear", "unprovision"}

\* How long a connection has been lost, phase by phase; ticked says that the loop has looked
\* since the time last passed, so that nothing that ran out is left as it is.
DownSoFar ==
    CASE phase = "RECONNECT_WAIT" ->
           IF ticked
           THEN age.down < GiveUp + age.wait /\ (age.wait < waitFor \/ age.wait = 0)
           ELSE age.down < GiveUp + age.wait \/ (Floor = 0 /\ age.down <= GiveUp)
      [] phase = "ASSOCIATING" ->
           /\ age.down <= GiveUp + Floor + age.phase
           /\ age.phase <= (IF ticked THEN AssocTimeout ELSE AssocTimeout + 1)
      [] phase = "WAITING_DHCP" ->
           /\ age.down <= GiveUp + Floor + AssocTimeout + 1 + age.phase
           /\ age.phase <= (IF ticked THEN DhcpTimeout ELSE DhcpTimeout + 1)
      [] OTHER -> FALSE

ReconnectOK ==
    /\ phase = "RECONNECT_WAIT" => isReconnect
    /\ isReconnect => DownSoFar
    /\ isReconnect => ~Saving("loop") /\ ~Resetting("loop")
    /\ isReconnect /\ job["loop"].at = "publish" =>
         phase = "RECONNECT_WAIT" /\ age.wait = 0 /\ age.down = 0

\* What is published at rest, or about to be.
Fits(s) ==
    \/ phase = "IDLE" /\ s.is \in {"UNPROVISIONED", "FAILED"}
    \/ phase = "ONLINE" /\ s.is = "ONLINE"
    \/ isReconnect /\ phase \in Attempting \cup {"RECONNECT_WAIT"} /\ s.is = "RECONNECTING"
    \/ ~isReconnect /\ phase \in Attempting

ShowsOK == ~raced =>
    /\ job["loop"].at \in {"idle", "copied"} /\ job["ble"] = Idle => Fits(state)
    /\ \A t \in {"loop", "ble"} : /\ job[t].at = "publish" => Fits(job[t].new)
                                  /\ Resetting(t) => phase = "IDLE"

\* The password of a network is the network itself.
PassOf(ssid) == IF ssid \in Networks THEN ssid ELSE Null

StoredOK == ~raced /\ ~torn =>
    /\ \A t \in {"loop", "ble"} :
         /\ Saving(t) => job[t].pass = PassOf(job[t].ssid)
         /\ job[t].at = "pass" => nvs.ssid = job[t].ssid
    /\ (\A t \in {"loop", "ble"} : job[t].at # "pass") /\ nvs.ssid # Null =>
         nvs.pass = PassOf(nvs.ssid)

IInv == TypeOK /\ ReconnectOK /\ ShowsOK /\ StoredOK

-----------------------------------------------------------------------------
(***************************************************************************)
(* What is on a task's mind, and what a tick comes to.                     *)
(***************************************************************************)
LEMMA Numbers ==
    /\ AssocTimeout \in Nat /\ DhcpTimeout \in Nat /\ Floor \in Nat /\ GiveUp \in Nat /\ GiveUp > 0
    /\ MaxWrites \in Nat /\ MaxBoots \in Nat
    /\ Steps \in Nat /\ Steps >= 1 /\ \A i \in 1..Steps : Backoff[i] \in 0..Floor
  BY TimesAssumption DEF Steps

LEMMA Shapes ==
    ASSUME NEW d \in Doing
    PROVE  /\ d.at \in {"idle", "copied", "publish", "ssid", "pass", "begin", "clear", "unprovision"}
           /\ d.at = "idle" <=> d = Idle
           /\ d.at = "copied" => d.got \subseteq Kinds
           /\ d.at = "publish" => d.new \in States
           /\ d.at \in {"ssid", "pass", "begin"} =>
                d \in [at : {"ssid", "pass", "begin"}, ssid : All, pass : Texts]
  BY DEF Doing, Idle

LEMMA SavingGoesOn ==
    ASSUME NEW d \in Doing, d.at \in {"ssid", "pass", "begin"},
           NEW s \in {"pass", "begin"}, NEW e, e = [d EXCEPT !.at = s]
    PROVE  e \in Doing /\ e.at = s /\ e.ssid = d.ssid /\ e.pass = d.pass
<1>1. d \in [at : {"ssid", "pass", "begin"}, ssid : All, pass : Texts]
  BY Shapes
<1> QED
  BY <1>1 DEF Doing

LEMMA NewJobs ==
    /\ Idle \in Doing /\ Idle.at = "idle"
    /\ \A got \in SUBSET Kinds : [at |-> "copied", got |-> got] \in Doing
    /\ \A new \in States : [at |-> "publish", new |-> new] \in Doing
    /\ \A n \in All, pw \in Texts : [at |-> "ssid", ssid |-> n, pass |-> pw] \in Doing
    /\ [at |-> "clear"] \in Doing /\ [at |-> "unprovision"] \in Doing
  BY DEF Doing, Idle

LEMMA NewStates ==
    /\ \A is \in {"UNPROVISIONED", "CONNECTING", "ONLINE", "RECONNECTING"} :
         Published(is) \in States /\ Published(is).is = is
    /\ \A error \in Errors : Failed(error) \in States /\ Failed(error).is = "FAILED"
  BY DEF States, Published, Failed

Stays ==
    /\ NoOutcome
    /\ UNCHANGED <<wifi, world>>
    /\ phase = "ASSOCIATING" => age.phase <= AssocTimeout
    /\ phase = "WAITING_DHCP" => age.phase <= DhcpTimeout
    /\ phase = "RECONNECT_WAIT" => ~(age.wait >= waitFor)

AsksAddress ==
    /\ phase = "ASSOCIATING" /\ phase' = "WAITING_DHCP"
    /\ age' = [age EXCEPT !.phase = 0]
    /\ NoOutcome
    /\ UNCHANGED <<isReconnect, idx, waitFor, world>>

WaitsAgain ==
    /\ phase \in Attempting /\ isReconnect /\ ~TooLongDown
    /\ phase' = "RECONNECT_WAIT"
    /\ age' = [age EXCEPT !.wait = 0]
    /\ waitFor' = WaitAt(idx)
    /\ idx' = IdxAfter(idx)
    /\ NoOutcome
    /\ UNCHANGED <<isReconnect, world>>

Fails ==
    /\ phase \in Attempting
    /\ phase' = "IDLE"
    /\ isReconnect' = FALSE
    /\ \E error \in Errors : Outcome(Failed(error))
    /\ UNCHANGED <<idx, waitFor, age, world>>

Connects == phase \in Attempting /\ Online

Loses ==
    /\ phase = "ONLINE" /\ phase' = "RECONNECT_WAIT"
    /\ isReconnect' = TRUE
    /\ idx' = 0
    /\ age' = [age EXCEPT !.wait = 0, !.down = 0]
    /\ waitFor' = Backoff[1]
    /\ Outcome(Published("RECONNECTING"))
    /\ UNCHANGED world

Reassociates ==
    /\ phase = "RECONNECT_WAIT" /\ age.wait >= waitFor
    /\ BeginAssociation
    /\ NoOutcome
    /\ UNCHANGED <<isReconnect, idx, waitFor>>

LEMMA FailsOrWaits ==
    ASSUME phase \in Attempting, NEW error \in Errors, FailWith(error)
    PROVE  WaitsAgain \/ Fails
  BY DEF FailWith, WaitsAgain, Fails, world

LEMMA TickOutcomes ==
    ASSUME TypeOK, Tick
    PROVE  /\ Step("loop", "copied")
           /\ flags' = {} /\ UNCHANGED <<state, nvs>>
           /\ Stays \/ AsksAddress \/ WaitsAgain \/ Fails \/ Connects \/ Loses \/ Reassociates
<1>1. Step("loop", "copied") /\ flags' = {} /\ UNCHANGED <<state, nvs>>
  BY DEF Tick
<1> DEFINE got == job["loop"].got
<1>2. age.phase \in Int /\ AssocTimeout \in Int /\ DhcpTimeout \in Int
  BY Numbers DEF TypeOK, MaxAge
<1>3. CASE phase = "IDLE"
  BY <1>3 DEF Tick, Nothing, Stays
<1>4. CASE phase = "ASSOCIATING"
  <2>1. Associating(got)
    BY <1>4 DEF Tick
  <2>2. CASE GotIp
    BY <1>1, <1>4, <2>2, FailsOrWaits DEF GotIp, Connects, Attempting, Errors
  <2>3. ASSUME NEW error \in Errors, FailWith(error)
        PROVE  WaitsAgain \/ Fails
    BY <1>4, <2>3, FailsOrWaits DEF Attempting
  <2> QED
    BY <1>1, <1>2, <1>4, <2>1, <2>2, <2>3 DEF Associating, AsksAddress, Nothing, Stays, Expired, Errors
<1>5. CASE phase = "WAITING_DHCP"
  <2>1. WaitingDhcp(got)
    BY <1>5 DEF Tick
  <2>2. CASE GotIp
    BY <1>1, <1>5, <2>2, FailsOrWaits DEF GotIp, Connects, Attempting, Errors
  <2>3. ASSUME NEW error \in Errors, FailWith(error)
        PROVE  WaitsAgain \/ Fails
    BY <1>5, <2>3, FailsOrWaits DEF Attempting
  <2> QED
    BY <1>1, <1>2, <1>5, <2>1, <2>2, <2>3 DEF WaitingDhcp, Nothing, Stays, Expired, Errors
<1>6. CASE phase = "ONLINE"
  <2>1. OnlineTick(got)
    BY <1>6 DEF Tick
  <2> QED
    BY <1>1, <1>6, <2>1 DEF OnlineTick, Nothing, Stays, Loses
<1>7. CASE phase = "RECONNECT_WAIT"
  <2>1. ReconnectWait
    BY <1>7 DEF Tick
  <2> QED
    BY <1>1, <1>7, <2>1 DEF ReconnectWait, Nothing, Stays, Reassociates
<1> QED
  BY <1>1, <1>3, <1>4, <1>5, <1>6, <1>7 DEF TypeOK, Phases

-----------------------------------------------------------------------------
(***************************************************************************)
(* Types.                                                                  *)
(***************************************************************************)
WifiTyped ==
    /\ phase \in Phases
    /\ isReconnect \in BOOLEAN
    /\ idx \in 0..Steps
    /\ waitFor \in 0..Floor
    /\ age \in [phase : 0..MaxAge.phase, wait : 0..MaxAge.wait, down : 0..MaxAge.down]

WorldTyped ==
    /\ radio \in {"off", "trying", "joined", "up"}
    /\ events \in Seq(Kinds)

TasksTyped ==
    /\ state \in States
    /\ flags \subseteq Kinds
    /\ nvs \in [ssid : Texts, pass : Texts]
    /\ job \in [{"loop", "ble"} -> Doing]
    /\ {ticked, raced, torn} \subseteq BOOLEAN
    /\ writes \in 0..MaxWrites
    /\ boots \in 0..MaxBoots

LEMMA Typed == TypeOK <=> WifiTyped /\ WorldTyped /\ TasksTyped
  BY DEF TypeOK, WifiTyped, WorldTyped, TasksTyped

LEMMA Ages ==
    /\ MaxAge.phase \in Nat /\ MaxAge.phase > AssocTimeout /\ MaxAge.phase > DhcpTimeout
    /\ MaxAge.wait = Floor /\ MaxAge.down = Limit + 1
    /\ Limit \in Nat /\ Limit = GiveUp + Floor + AssocTimeout + DhcpTimeout + 2
    /\ MaxAge.wait \in Nat /\ MaxAge.down \in Nat
  BY Numbers DEF MaxAge, Limit

\* The age of one thing is set to zero.
LEMMA AgeReset ==
    ASSUME WifiTyped
    PROVE  /\ [age EXCEPT !.phase = 0] \in [phase : 0..MaxAge.phase, wait : 0..MaxAge.wait, down : 0..MaxAge.down]
           /\ [age EXCEPT !.wait = 0] \in [phase : 0..MaxAge.phase, wait : 0..MaxAge.wait, down : 0..MaxAge.down]
           /\ [age EXCEPT !.wait = 0, !.down = 0]
                \in [phase : 0..MaxAge.phase, wait : 0..MaxAge.wait, down : 0..MaxAge.down]
<1>1. ASSUME NEW P \in Nat, NEW W \in Nat, NEW D \in Nat, NEW a \in [phase : 0..P, wait : 0..W, down : 0..D]
      PROVE  /\ [a EXCEPT !.phase = 0] \in [phase : 0..P, wait : 0..W, down : 0..D]
             /\ [a EXCEPT !.wait = 0] \in [phase : 0..P, wait : 0..W, down : 0..D]
             /\ [a EXCEPT !.wait = 0, !.down = 0] \in [phase : 0..P, wait : 0..W, down : 0..D]
  <2>1. 0 \in 0..P /\ 0 \in 0..W /\ 0 \in 0..D
    BY <1>1
  <2> QED
    BY <2>1
<1> QED
  BY <1>1, Ages DEF WifiTyped

LEMMA RadioTyped ==
    ASSUME WorldTyped, \/ WiFiBegin \/ WiFiDisconnect \/ UNCHANGED world
                       \/ \E r \in {"off", "trying", "joined", "up"}, e \in Kinds : RadioIs(r, e)
    PROVE  WorldTyped'
  BY DEF WorldTyped, WiFiBegin, WiFiDisconnect, RadioIs, Kinds, world

LEMMA TickTyped ==
    ASSUME TypeOK, Tick
    PROVE  TypeOK'
<1>0. WifiTyped /\ WorldTyped /\ TasksTyped
  BY Typed
<1> USE Numbers
<1>1. WifiTyped'
  <2>1. CASE AsksAddress
    BY <1>0, <2>1, AgeReset DEF AsksAddress, WifiTyped, Phases
  <2>2. CASE WaitsAgain
    <3>1. WaitAt(idx) \in 0..Floor /\ IdxAfter(idx) \in 0..Steps
      BY <1>0 DEF WaitAt, IdxAfter, WifiTyped
    <3> QED
      BY <1>0, <2>2, <3>1, AgeReset DEF WaitsAgain, WifiTyped, Phases
  <2>3. CASE Fails
    BY <1>0, <2>3 DEF Fails, WifiTyped, Phases
  <2>7. CASE Connects
    <3>1. UNCHANGED <<waitFor, age>> /\ idx' = 0 /\ phase' = "ONLINE" /\ isReconnect' = FALSE
      BY <2>7 DEF Connects, Online
    <3>2. 0 \in 0..Steps
      OBVIOUS
    <3> QED
      BY <1>0, <3>1, <3>2 DEF WifiTyped, Phases
  <2>4. CASE Loses
    BY <1>0, <2>4, AgeReset DEF Loses, WifiTyped, Phases
  <2>5. CASE Reassociates
    BY <1>0, <2>5, AgeReset DEF Reassociates, BeginAssociation, WifiTyped, Phases
  <2>6. CASE Stays
    BY <1>0, <2>6 DEF Stays, wifi, WifiTyped
  <2> QED
    BY <2>1, <2>2, <2>3, <2>4, <2>5, <2>6, <2>7, TickOutcomes
<1>2. WorldTyped'
  BY <1>0, TickOutcomes, RadioTyped DEF Stays, AsksAddress, WaitsAgain, Fails, Connects, Online, Loses,
                                        Reassociates, BeginAssociation
<1>3. TasksTyped'
  <2>1. ASSUME NEW new \in States, Outcome(new)
        PROVE  job' \in [{"loop", "ble"} -> Doing] /\ ticked' \in BOOLEAN
    BY <1>0, <2>1, NewJobs DEF Outcome, GoesOn, TasksTyped
  <2>2. CASE NoOutcome
    BY <1>0, <2>2, NewJobs, TickOutcomes DEF NoOutcome, Ends, GoesOn, Step, TasksTyped
  <2>3. ASSUME NEW new \in States, Outcome(new)
        PROVE  TasksTyped'
    BY <1>0, <2>1, <2>3, TickOutcomes DEF Step, TasksTyped
  <2> QED
    BY <2>2, <2>3, TickOutcomes, NewStates
       DEF Stays, AsksAddress, WaitsAgain, Fails, Connects, Online, Loses, Reassociates
<1> QED
  BY <1>1, <1>2, <1>3 DEF TypeOK, WifiTyped, WorldTyped, TasksTyped

LEMMA TypeStep ==
    ASSUME TypeOK, Next
    PROVE  TypeOK'
<1>0. WifiTyped /\ WorldTyped /\ TasksTyped
  BY Typed
<1> USE Numbers
<1>1. ASSUME NEW t \in {"loop", "ble"}, GoOn(t) \/ Abort(t)
      PROVE  TypeOK'
  <2>0. job[t] \in Doing
    BY <1>0 DEF TasksTyped
  <2>1. WifiTyped'
    <3>1. CASE UNCHANGED wifi
      BY <1>0, <3>1 DEF wifi, WifiTyped
    <3>2. CASE Begin(t)
      <4>1. 0 \in 0..Steps
        OBVIOUS
      <4> QED
        BY <1>0, <3>2, <4>1, AgeReset DEF Begin, BeginAssociation, WifiTyped, Phases
    <3>3. CASE Abort(t)
      BY <1>0, <3>3 DEF Abort, PhaseAfterAbort, WifiTyped, Phases
    <3> QED
      BY <1>1, <3>1, <3>2, <3>3 DEF GoOn, SaveSsid, SavePass, ClearKeys, Unprovision
  <2>2. WorldTyped'
    BY <1>0, <1>1, RadioTyped DEF GoOn, SaveSsid, SavePass, Begin, ClearKeys, Unprovision, Abort,
                                  BeginAssociation
  <2>3. TasksTyped'
    <3>1. CASE SaveSsid(t)
      <4>1. PICK e : e = [job[t] EXCEPT !.at = "pass"]
        OBVIOUS
      <4>2. e \in Doing /\ job[t].ssid \in All /\ job' = [job EXCEPT ![t] = e]
        BY <2>0, <3>1, <4>1, SavingGoesOn, Shapes DEF SaveSsid, Step, GoesOn
      <4> QED
        BY <1>0, <3>1, <4>2 DEF SaveSsid, Step, TasksTyped, Texts
    <3>2. CASE SavePass(t)
      <4>1. PICK e : e = [job[t] EXCEPT !.at = "begin"]
        OBVIOUS
      <4>2. e \in Doing /\ job[t].pass \in Texts /\ job' = [job EXCEPT ![t] = e]
        BY <2>0, <3>2, <4>1, SavingGoesOn, Shapes DEF SavePass, Step, GoesOn
      <4> QED
        BY <1>0, <3>2, <4>2 DEF SavePass, PassStored, Step, TasksTyped
    <3>3. CASE Begin(t)
      BY <1>0, <3>3, NewJobs DEF Begin, BeginAssociation, Step, Ends, GoesOn, TasksTyped
    <3>4. CASE ClearKeys(t)
      BY <1>0, <3>4, NewJobs DEF ClearKeys, Step, GoesOn, TasksTyped, Texts
    <3>5. CASE Unprovision(t)
      BY <1>0, <3>5, NewJobs, NewStates DEF Unprovision, SetState, Step, Ends, GoesOn, TasksTyped
    <3>6. CASE Abort(t)
      BY <1>0, <3>6, NewJobs DEF Abort, GoesOn, TasksTyped
    <3> QED
      BY <1>1, <3>1, <3>2, <3>3, <3>4, <3>5, <3>6 DEF GoOn
  <2> QED
    BY <2>1, <2>2, <2>3 DEF TypeOK, WifiTyped, WorldTyped, TasksTyped
<1>2. CASE CredentialsWrite
  <2>1. \A n \in All : (IF n \in Networks THEN n ELSE Null) \in Texts
    BY DEF All, Texts
  <2>2. TasksTyped'
    BY <1>0, <1>2, <2>1, NewJobs DEF CredentialsWrite, GoesOn, TasksTyped
  <2> QED
    BY <1>0, <1>2, <2>2 DEF CredentialsWrite, wifi, world, TypeOK, WifiTyped, WorldTyped, TasksTyped
<1>3. CASE CopyFlags
  BY <1>0, <1>3, NewJobs DEF CopyFlags, Step, GoesOn, wifi, world, TypeOK, WifiTyped, WorldTyped, TasksTyped
<1>4. CASE Publish
  <2>1. job["loop"].new \in States
    BY <1>0, <1>4, Shapes DEF Publish, Step, TasksTyped
  <2> QED
    BY <1>0, <1>4, <2>1, NewJobs
       DEF Publish, SetState, Step, Ends, GoesOn, wifi, world, TypeOK, WifiTyped, WorldTyped, TasksTyped
<1>5. CASE RadioActs
  <2>1. WorldTyped'
    BY <1>0, <1>5, RadioTyped DEF RadioActs, Kinds
  <2> QED
    BY <1>0, <1>5, <2>1 DEF RadioActs, history, wifi, TypeOK, WifiTyped, WorldTyped, TasksTyped
<1>6. CASE HandleEvent
  <2>1. Head(events) \in Kinds /\ Tail(events) \in Seq(Kinds)
    BY <1>0, <1>6 DEF HandleEvent, WorldTyped
  <2> QED
    BY <1>0, <1>6, <2>1 DEF HandleEvent, history, wifi, TypeOK, WifiTyped, WorldTyped, TasksTyped
<1>7. CASE TimePasses
  <2>1. age' \in [phase : 0..MaxAge.phase, wait : 0..MaxAge.wait, down : 0..MaxAge.down]
    <3>1. DOMAIN age = {"phase", "wait", "down"} /\ \A a \in DOMAIN age : age[a] \in 0..MaxAge[a] /\ MaxAge[a] \in Nat
      BY <1>0, Ages DEF WifiTyped
    <3> QED
      BY <1>7, <3>1 DEF TimePasses
  <2> QED
    BY <1>0, <1>7, <2>1 DEF TimePasses, history, world, TypeOK, WifiTyped, WorldTyped, TasksTyped
<1>8. CASE Reboot
  <2>1. /\ phase' = "IDLE" /\ isReconnect' = FALSE /\ idx' = 0 /\ waitFor' = 0
        /\ age' = [phase |-> 0, wait |-> 0, down |-> 0]
        /\ radio' = "off" /\ events' = <<>>
    BY <1>8 DEF Reboot
  <2>2. /\ boots < MaxBoots /\ boots' = boots + 1 /\ flags' = {} /\ ticked' = FALSE
        /\ torn' \in BOOLEAN
        /\ UNCHANGED <<nvs, writes, raced>>
    <3>1. torn' = (torn \/ \E t \in DOMAIN job : job[t].at = "pass")
      BY <1>8 DEF Reboot
    <3>2. torn' \in BOOLEAN
      BY <3>1, Zenon
    <3> QED
      BY <1>8, <3>2 DEF Reboot
  <2>3. 0 \in 0..Floor /\ 0 \in 0..Steps /\ 0 \in 0..MaxAge.phase /\ 0 \in 0..MaxAge.wait /\ 0 \in 0..MaxAge.down
    BY Ages
  <2>4. WifiTyped'
    <3>1. age' \in [phase : 0..MaxAge.phase, wait : 0..MaxAge.wait, down : 0..MaxAge.down]
      BY <2>1, <2>3
    <3> QED
      BY <2>1, <2>3, <3>1 DEF WifiTyped, Phases
  <2>5. WorldTyped'
    <3>1. <<>> \in Seq(Kinds)
      OBVIOUS
    <3> QED
      BY <2>1, <3>1 DEF WorldTyped
  <2>6. job' \in [{"loop", "ble"} -> Doing] /\ state' \in States
    <3>0. DOMAIN job = {"loop", "ble"}
      BY <1>0 DEF TasksTyped
    <3>1. CASE nvs.ssid = Null
      <4>1. job' = [t \in DOMAIN job |-> Idle] /\ state' = Published("UNPROVISIONED")
        BY <1>8, <3>1 DEF Reboot, SetState
      <4> QED
        BY <3>0, <4>1, NewJobs, NewStates
    <3>2. CASE nvs.ssid # Null
      <4>1. PICK d : d = [at |-> "ssid", ssid |-> nvs.ssid, pass |-> nvs.pass]
        OBVIOUS
      <4>2. d \in Doing
        BY <1>0, <3>2, <4>1, NewJobs DEF TasksTyped, Texts
      <4>3. job' = [loop |-> d, ble |-> Idle] /\ state' = Published("CONNECTING")
        BY <1>8, <3>2, <4>1 DEF Reboot, SetState
      <4>4. [loop |-> d, ble |-> Idle] \in [{"loop", "ble"} -> Doing]
        BY <4>2, NewJobs
      <4> QED
        BY <4>3, <4>4, NewStates
    <3> QED
      BY <3>1, <3>2
  <2>7. TasksTyped'
    <3>1. boots' \in 0..MaxBoots
      BY <1>0, <2>2 DEF TasksTyped
    <3>2. {ticked', raced', torn'} \subseteq BOOLEAN
      <4>1. raced' \in BOOLEAN /\ ticked' \in BOOLEAN
        BY <1>0, <2>2 DEF TasksTyped
      <4> QED
        BY <2>2, <4>1
    <3>3. flags' \subseteq Kinds /\ nvs' \in [ssid : Texts, pass : Texts] /\ writes' \in 0..MaxWrites
      BY <1>0, <2>2 DEF TasksTyped
    <3> QED
      BY <2>6, <3>1, <3>2, <3>3 DEF TasksTyped
  <2> QED
    BY <2>4, <2>5, <2>7 DEF TypeOK, WifiTyped, WorldTyped, TasksTyped
<1> QED
  BY <1>1, <1>2, <1>3, <1>4, <1>5, <1>6, <1>7, <1>8, TickTyped DEF Next, LoopTick

-----------------------------------------------------------------------------
(***************************************************************************)
(* A lost connection: what the loop does in a tick, and what time adds.    *)
(***************************************************************************)
\* Without a step of the loop or of the time, nothing changes for a reconnection.
LEMMA ReconnectFrame ==
    ASSUME ReconnectOK, UNCHANGED <<wifi, ticked>>,
           ~isReconnect \/ job'["loop"] = job["loop"] \/ job'["loop"].at = "copied"
    PROVE  ReconnectOK'
  BY DEF ReconnectOK, DownSoFar, Saving, Resetting, wifi

\* Outside of a reconnection and of the wait for one, there is nothing to keep.
LEMMA NoReconnect ==
    ASSUME isReconnect' = FALSE, phase' # "RECONNECT_WAIT"
    PROVE  ReconnectOK'
  BY DEF ReconnectOK

LEMMA AgesAreNumbers ==
    ASSUME TypeOK
    PROVE  /\ age.phase \in Nat /\ age.wait \in Nat /\ age.down \in Nat
           /\ age.phase <= MaxAge.phase /\ age.wait <= Floor /\ age.down <= MaxAge.down
           /\ waitFor \in Nat /\ waitFor <= Floor
           /\ DOMAIN age = {"phase", "wait", "down"}
  BY Ages DEF TypeOK

LEMMA TickReconnects ==
    ASSUME TypeOK, ReconnectOK, Tick
    PROVE  ReconnectOK'
<1> USE Numbers
<1>0. /\ age.phase \in Nat /\ age.wait \in Nat /\ age.down \in Nat /\ age.wait <= Floor
      /\ waitFor \in Nat /\ waitFor <= Floor /\ DOMAIN age = {"phase", "wait", "down"}
  BY AgesAreNumbers
<1>1. DOMAIN job = {"loop", "ble"}
  BY DEF TypeOK
<1>2. ASSUME NoOutcome
      PROVE  ticked' = TRUE /\ job'["loop"].at = "idle"
  BY <1>1, <1>2 DEF NoOutcome, Ends, GoesOn, Idle
<1>3. CASE Stays
  <2>1. ticked' = TRUE /\ job'["loop"].at = "idle" /\ UNCHANGED wifi
    BY <1>2, <1>3 DEF Stays
  <2>2. isReconnect => DownSoFar'
    BY <1>0, <1>3, <2>1 DEF Stays, ReconnectOK, DownSoFar, wifi
  <2> QED
    BY <2>1, <2>2 DEF ReconnectOK, Saving, Resetting, wifi
<1>4. CASE AsksAddress
  <2>1. /\ ticked' = TRUE /\ job'["loop"].at = "idle" /\ phase = "ASSOCIATING" /\ phase' = "WAITING_DHCP"
        /\ age'.phase = 0 /\ age'.down = age.down /\ isReconnect' = isReconnect
    BY <1>0, <1>2, <1>4 DEF AsksAddress
  <2>2. isReconnect => DownSoFar'
    BY <1>0, <2>1 DEF ReconnectOK, DownSoFar
  <2> QED
    BY <2>1, <2>2 DEF ReconnectOK, Saving, Resetting
<1>5. CASE WaitsAgain
  <2>1. /\ ticked' = TRUE /\ job'["loop"].at = "idle" /\ phase' = "RECONNECT_WAIT"
        /\ age'.wait = 0 /\ age'.down = age.down /\ ~(age.down >= GiveUp)
        /\ isReconnect /\ isReconnect' = isReconnect
    BY <1>0, <1>2, <1>5 DEF WaitsAgain, TooLongDown
  <2>2. DownSoFar'
    BY <1>0, <2>1 DEF DownSoFar
  <2> QED
    BY <2>1, <2>2 DEF ReconnectOK, Saving, Resetting
<1>6. CASE Fails
  BY <1>6, NoReconnect DEF Fails
<1>7. CASE Connects
  BY <1>7, NoReconnect DEF Connects, Online
<1>8. CASE Loses
  <2>1. /\ job'["loop"].at = "publish" /\ phase' = "RECONNECT_WAIT" /\ isReconnect' = TRUE
        /\ age'.wait = 0 /\ age'.down = 0
    BY <1>0, <1>1, <1>8 DEF Loses, Outcome, GoesOn
  <2>2. DownSoFar'
    BY <2>1 DEF DownSoFar
  <2> QED
    BY <2>1, <2>2 DEF ReconnectOK, Saving, Resetting
<1>9. CASE Reassociates
  <2>1. /\ ticked' = TRUE /\ job'["loop"].at = "idle"
        /\ phase = "RECONNECT_WAIT" /\ phase' = "ASSOCIATING"
        /\ age'.phase = 0 /\ age'.down = age.down /\ isReconnect' = isReconnect
    BY <1>0, <1>2, <1>9 DEF Reassociates, BeginAssociation
  <2>2. isReconnect => DownSoFar'
    BY <1>0, <2>1 DEF ReconnectOK, DownSoFar
  <2> QED
    BY <2>1, <2>2 DEF ReconnectOK, Saving, Resetting
<1> QED
  BY <1>3, <1>4, <1>5, <1>6, <1>7, <1>8, <1>9, TickOutcomes

\* One more unit of time, for an age that did not run out when the loop last looked.
LEMMA TimeReconnects ==
    ASSUME TypeOK, ReconnectOK, TimePasses
    PROVE  ReconnectOK'
<1> USE Numbers
<1>0. /\ age.phase \in Nat /\ age.wait \in Nat /\ age.down \in Nat
      /\ age.wait <= Floor /\ age.down <= MaxAge.down
      /\ waitFor \in Nat /\ waitFor <= Floor /\ DOMAIN age = {"phase", "wait", "down"}
  BY AgesAreNumbers
<1>1. /\ job' = job /\ phase' = phase /\ isReconnect' = isReconnect /\ waitFor' = waitFor
      /\ ticked = TRUE /\ ticked' = FALSE /\ job["loop"].at = "idle"
  BY DEF TimePasses, TypeOK, Idle
<1>2. SUFFICES ASSUME isReconnect
               PROVE  DownSoFar'
  BY <1>1 DEF ReconnectOK, Saving, Resetting
<1>3. age'.down \in Nat /\ age'.down <= age.down + 1
  BY <1>0, <1>2, Ages DEF TimePasses, InUse
<1>4. CASE phase = "RECONNECT_WAIT"
  <2>1. age'.wait = IF age.wait < Floor THEN age.wait + 1 ELSE age.wait
    BY <1>0, <1>4, Ages DEF TimePasses, InUse
  <2>2. age.down < GiveUp + age.wait /\ (age.wait < waitFor \/ age.wait = 0)
    BY <1>1, <1>2, <1>4 DEF ReconnectOK, DownSoFar
  <2>3. age'.down < GiveUp + age'.wait \/ (Floor = 0 /\ age'.down <= GiveUp)
    BY <1>0, <1>3, <2>1, <2>2
  <2> QED
    BY <1>1, <1>4, <2>3 DEF DownSoFar
<1>5. CASE phase \in Attempting
  <2>1. age'.phase = IF age.phase < MaxAge.phase THEN age.phase + 1 ELSE age.phase
    BY <1>0, <1>5, Ages DEF TimePasses, InUse
  <2> QED
    BY <1>0, <1>1, <1>2, <1>3, <1>5, <2>1, Ages DEF ReconnectOK, DownSoFar, Attempting
<1> QED
  BY <1>2, <1>4, <1>5 DEF ReconnectOK, DownSoFar, Attempting

LEMMA ReconnectStep ==
    ASSUME TypeOK, ReconnectOK, Next
    PROVE  ReconnectOK'
<1> USE Numbers
<1>0. DOMAIN job = {"loop", "ble"} /\ \A t \in {"loop", "ble"} : job[t] \in Doing
  BY DEF TypeOK
<1>1. ASSUME NEW t \in {"loop", "ble"}, SaveSsid(t) \/ SavePass(t) \/ ClearKeys(t)
      PROVE  ReconnectOK'
  <2>1. UNCHANGED <<wifi, ticked>> /\ job[t].at \in {"ssid", "pass", "clear"}
    BY <1>1 DEF SaveSsid, SavePass, ClearKeys, Step
  <2>2. ~isReconnect \/ job'["loop"] = job["loop"]
    <3>1. CASE t = "loop"
      BY <2>1, <3>1 DEF ReconnectOK, Saving, Resetting
    <3>2. CASE t # "loop"
      BY <1>0, <1>1, <3>2 DEF SaveSsid, SavePass, ClearKeys, GoesOn
    <3> QED
      BY <3>1, <3>2
  <2> QED
    BY <2>1, <2>2, ReconnectFrame
<1>2. ASSUME NEW t \in {"loop", "ble"}, Begin(t) \/ Abort(t)
      PROVE  ReconnectOK'
  BY <1>2, NoReconnect DEF Begin, BeginAssociation, Abort, PhaseAfterAbort
<1>3. ASSUME NEW t \in {"loop", "ble"}, Unprovision(t)
      PROVE  ReconnectOK'
  <2>1. job[t].at = "unprovision" /\ UNCHANGED wifi
    BY <1>3 DEF Unprovision, Step
  <2>2. CASE t = "loop"
    <3>1. ~isReconnect
      BY <2>1, <2>2 DEF ReconnectOK, Resetting
    <3> QED
      BY <2>1, <3>1 DEF ReconnectOK, wifi
  <2>3. CASE t # "loop"
    <3>1. ticked' = (ticked \/ t = "loop") /\ job'["loop"] = job["loop"]
      BY <1>0, <1>3, <2>3 DEF Unprovision, Ends, GoesOn
    <3>2. ticked' = ticked
      BY <2>3, <3>1 DEF TypeOK
    <3> QED
      BY <2>1, <3>1, <3>2, ReconnectFrame
  <2> QED
    BY <2>2, <2>3
<1>4. CASE CredentialsWrite
  BY <1>0, <1>4, ReconnectFrame DEF CredentialsWrite, GoesOn
<1>5. CASE CopyFlags
  BY <1>0, <1>5, ReconnectFrame DEF CopyFlags, GoesOn
<1>6. CASE Publish
  <2>1. UNCHANGED wifi /\ job["loop"].at = "publish" /\ ticked' = TRUE /\ job'["loop"].at = "idle"
    BY <1>0, <1>6 DEF Publish, Step, Ends, GoesOn, Idle
  <2> QED
    BY <2>1 DEF ReconnectOK, DownSoFar, Saving, Resetting, wifi
<1>7. CASE RadioActs \/ HandleEvent
  BY <1>7, ReconnectFrame DEF RadioActs, HandleEvent
<1>8. CASE Reboot
  BY <1>8, NoReconnect DEF Reboot
<1> QED
  BY <1>1, <1>2, <1>3, <1>4, <1>5, <1>6, <1>7, <1>8, TickReconnects, TimeReconnects DEF Next, LoopTick, GoOn

-----------------------------------------------------------------------------
(***************************************************************************)
(* What a phone reads, as long as the tasks did not cut into one another.  *)
(***************************************************************************)
\* A step that is not part of a race finds the other task at rest.
LEMMA Undisturbed ==
    ASSUME TypeOK, NEW t \in {"loop", "ble"},
           raced' = (raced \/ job[Other(t)] # Idle), ~raced'
    PROVE  ~raced /\ \A u \in {"loop", "ble"} : u # t => job[u] = Idle
  BY DEF Other, TypeOK

\* A task that a step brings to one at, the other where it was.
LEMMA Going ==
    ASSUME TypeOK, NEW t \in {"loop", "ble"}, NEW next, GoesOn(t, next)
    PROVE  job'[t] = next /\ \A u \in {"loop", "ble"} : u # t => job'[u] = job[u]
  BY DEF TypeOK, GoesOn

LEMMA ShowsFrame ==
    ASSUME ShowsOK, UNCHANGED <<raced, state, phase, isReconnect, job>>
    PROVE  ShowsOK'
  BY DEF ShowsOK, Fits, Resetting

LEMMA TickShows ==
    ASSUME TypeOK, ReconnectOK, ShowsOK, Tick
    PROVE  ShowsOK'
<1>1. SUFFICES ASSUME ~raced'
               PROVE  ShowsOK'
  BY DEF ShowsOK
<1>2. job["loop"].at = "copied" /\ job["ble"] = Idle /\ ~raced /\ state' = state
  <2>1. Step("loop", "copied") /\ state' = state
    BY TickOutcomes
  <2> QED
    BY <1>1, <2>1, Undisturbed DEF Step
<1>3. Fits(state)
  BY <1>2 DEF ShowsOK
<1>4. ASSUME NEW next, GoesOn("loop", next)
      PROVE  job'["loop"] = next /\ job'["ble"] = Idle
  BY <1>2, <1>4, Going
<1>5. ASSUME NoOutcome, Fits(state)'
      PROVE  ShowsOK'
  <2>1. job'["loop"].at = "idle" /\ job'["ble"].at = "idle"
    BY <1>4, <1>5 DEF NoOutcome, Ends, Idle
  <2> QED
    BY <1>5, <2>1 DEF ShowsOK, Resetting
<1>6. ASSUME NEW new, Outcome(new), Fits(new)'
      PROVE  ShowsOK'
  <2>1. job'["loop"] = [at |-> "publish", new |-> new] /\ job'["ble"].at = "idle"
    BY <1>4, <1>6 DEF Outcome, Idle
  <2> QED
    BY <1>6, <2>1 DEF ShowsOK, Resetting
<1>7. CASE Stays
  BY <1>2, <1>3, <1>5, <1>7 DEF Stays, wifi, Fits
<1>8. CASE AsksAddress
  BY <1>2, <1>3, <1>5, <1>8 DEF AsksAddress, Fits, Attempting
<1>9. CASE WaitsAgain
  BY <1>2, <1>3, <1>5, <1>9 DEF WaitsAgain, Fits, Attempting
<1>10. CASE Fails
  BY <1>6, <1>10, NewStates DEF Fails, Fits
<1>11. CASE Connects
  BY <1>6, <1>11, NewStates DEF Connects, Online, Fits
<1>12. CASE Loses
  BY <1>6, <1>12, NewStates DEF Loses, Fits
<1>13. CASE Reassociates
  <2>1. isReconnect
    BY <1>13 DEF Reassociates, ReconnectOK
  <2> QED
    BY <1>2, <1>3, <1>5, <1>13, <2>1 DEF Reassociates, BeginAssociation, Fits, Attempting
<1> QED
  BY <1>7, <1>8, <1>9, <1>10, <1>11, <1>12, <1>13, TickOutcomes

LEMMA ShowsStep ==
    ASSUME TypeOK, ReconnectOK, ShowsOK, Next
    PROVE  ShowsOK'
<1>0. SUFFICES ASSUME ~raced'
               PROVE  ShowsOK'
  BY DEF ShowsOK
<1>1. ASSUME NEW t \in {"loop", "ble"}, GoOn(t)
      PROVE  ShowsOK'
  <2>1. raced' = (raced \/ job[Other(t)] # Idle)
    BY <1>1 DEF GoOn, SaveSsid, SavePass, Begin, ClearKeys, Unprovision, Step
  <2>2. ~raced /\ \A u \in {"loop", "ble"} : u # t => job[u] = Idle
    BY <1>0, <2>1, Undisturbed
  <2>3. CASE SaveSsid(t) \/ SavePass(t)
    <3>1. PICK s \in {"pass", "begin"} : GoesOn(t, [job[t] EXCEPT !.at = s])
      BY <2>3 DEF SaveSsid, SavePass
    <3>2. job[t].at \in {"ssid", "pass"} /\ job[t] \in Doing
      BY <2>3 DEF SaveSsid, SavePass, Step, TypeOK
    <3>3. job'[t].at = s /\ \A u \in {"loop", "ble"} : u # t => job'[u].at = "idle"
      <4>1. PICK e : e = [job[t] EXCEPT !.at = s]
        OBVIOUS
      <4>2. e.at = s /\ job'[t] = e /\ \A u \in {"loop", "ble"} : u # t => job'[u] = job[u]
        BY <3>1, <3>2, <4>1, SavingGoesOn, Going
      <4> QED
        BY <2>2, <4>2 DEF Idle
    <3> QED
      BY <3>3 DEF ShowsOK, Resetting, Idle
  <2>4. CASE Begin(t)
    <3>1. job'[t].at = "idle" /\ \A u \in {"loop", "ble"} : u # t => job'[u].at = "idle"
      BY <2>2, <2>4, Going DEF Begin, Ends, Idle
    <3>2. Fits(state)'
      BY <2>4 DEF Begin, BeginAssociation, Fits, Attempting
    <3> QED
      BY <3>1, <3>2 DEF ShowsOK, Resetting
  <2>5. CASE ClearKeys(t)
    <3>1. job[t].at = "clear" /\ phase' = phase
      BY <2>5 DEF ClearKeys, Step, wifi
    <3>2. job'[t].at = "unprovision" /\ \A u \in {"loop", "ble"} : u # t => job'[u].at = "idle"
      BY <2>2, <2>5, Going DEF ClearKeys, Idle
    <3>3. phase' = "IDLE"
      BY <2>2, <3>1 DEF ShowsOK, Resetting
    <3> QED
      BY <3>2, <3>3 DEF ShowsOK, Resetting, Idle
  <2>6. CASE Unprovision(t)
    <3>1. job[t].at = "unprovision" /\ phase' = phase /\ state' = Published("UNPROVISIONED")
      BY <2>6 DEF Unprovision, SetState, Step, wifi
    <3>2. job'[t].at = "idle" /\ \A u \in {"loop", "ble"} : u # t => job'[u].at = "idle"
      BY <2>2, <2>6, Going DEF Unprovision, Ends, Idle
    <3>3. phase' = "IDLE"
      BY <2>2, <3>1 DEF ShowsOK, Resetting
    <3>4. Fits(state)'
      BY <3>1, <3>3, NewStates DEF Fits
    <3> QED
      BY <3>2, <3>4 DEF ShowsOK, Resetting
  <2> QED
    BY <1>1, <2>3, <2>4, <2>5, <2>6 DEF GoOn
<1>2. ASSUME NEW t \in {"loop", "ble"}, Abort(t)
      PROVE  ShowsOK'
  <2>1. \A u \in {"loop", "ble"} : u # t => job[u] = Idle
    BY <1>0, <1>2, Undisturbed DEF Abort
  <2>2. job'[t] = [at |-> "clear"] /\ \A u \in {"loop", "ble"} : u # t => job'[u] = Idle
    BY <1>2, <2>1, Going DEF Abort
  <2>3. phase' = "IDLE"
    BY <1>2 DEF Abort, PhaseAfterAbort
  <2> QED
    BY <2>2, <2>3 DEF ShowsOK, Resetting, Idle
<1>3. CASE CredentialsWrite
  <2>1. PICK n \in All, pw \in Texts : GoesOn("ble", [at |-> "ssid", ssid |-> n, pass |-> pw])
    BY <1>3 DEF CredentialsWrite, All, Texts
  <2>2. job'["ble"].at = "ssid" /\ job'["loop"] = job["loop"]
    BY <2>1, Going
  <2>3. UNCHANGED <<raced, state, phase, isReconnect>>
    BY <1>3 DEF CredentialsWrite, wifi
  <2> QED
    BY <1>0, <2>2, <2>3 DEF ShowsOK, Fits, Resetting, Idle
<1>4. CASE CopyFlags
  <2>1. job["loop"].at = "idle" /\ ~raced /\ job["ble"] = Idle
    BY <1>0, <1>4, Undisturbed DEF CopyFlags, Step
  <2>2. job'["loop"].at = "copied" /\ job'["ble"] = Idle
    BY <1>4, <2>1, Going DEF CopyFlags
  <2>3. UNCHANGED <<state, phase, isReconnect>>
    BY <1>4 DEF CopyFlags, wifi
  <2> QED
    BY <2>1, <2>2, <2>3 DEF ShowsOK, Fits, Resetting, Idle
<1>5. CASE Publish
  <2>1. job["loop"].at = "publish" /\ ~raced /\ job["ble"] = Idle
    BY <1>0, <1>5, Undisturbed DEF Publish, Step
  <2>2. job'["loop"] = Idle /\ job'["ble"] = Idle
    BY <1>5, <2>1, Going DEF Publish, Ends
  <2>3. state' = job["loop"].new /\ UNCHANGED <<phase, isReconnect>>
    BY <1>5 DEF Publish, SetState, wifi
  <2> QED
    BY <2>1, <2>2, <2>3 DEF ShowsOK, Fits, Resetting, Idle
<1>6. CASE RadioActs \/ HandleEvent \/ TimePasses
  BY <1>6, ShowsFrame DEF RadioActs, HandleEvent, TimePasses, history, wifi
<1>7. CASE Reboot
  <2>1. phase' = "IDLE"
    BY <1>7 DEF Reboot
  <2>2. CASE nvs.ssid = Null
    <3>1. job' = [t \in DOMAIN job |-> Idle] /\ state' = Published("UNPROVISIONED")
      BY <1>7, <2>2 DEF Reboot, SetState
    <3>2. job'["loop"].at = "idle" /\ job'["ble"].at = "idle"
      BY <3>1 DEF TypeOK, Idle
    <3> QED
      BY <2>1, <3>1, <3>2, NewStates DEF ShowsOK, Fits, Resetting
  <2>3. CASE nvs.ssid # Null
    <3>1. job'["loop"].at = "ssid" /\ job'["ble"].at = "idle"
      BY <1>7, <2>3 DEF Reboot, Idle
    <3> QED
      BY <3>1 DEF ShowsOK, Resetting
  <2> QED
    BY <2>2, <2>3
<1> QED
  BY <1>1, <1>2, <1>3, <1>4, <1>5, <1>6, <1>7, TickShows DEF Next, LoopTick

-----------------------------------------------------------------------------
(***************************************************************************)
(* What is in flash.                                                       *)
(***************************************************************************)
LEMMA StoredFrame ==
    ASSUME StoredOK, raced => raced', torn' = torn, nvs' = nvs,
           \/ job'["loop"] = job["loop"]
           \/ job["loop"].at # "pass" /\ job'["loop"].at \in {"idle", "copied", "publish"},
           job'["ble"] = job["ble"] \/ (job["ble"].at # "pass" /\ job'["ble"].at = "idle")
    PROVE  StoredOK'
  BY DEF StoredOK, Saving, PassOf

LEMMA StoredStep ==
    ASSUME TypeOK, StoredOK, Next
    PROVE  StoredOK'
<1>0. SUFFICES ASSUME ~raced', ~torn'
               PROVE  StoredOK'
  BY DEF StoredOK
<1>1. ASSUME NEW t \in {"loop", "ble"}, GoOn(t)
      PROVE  StoredOK'
  <2>1. raced' = (raced \/ job[Other(t)] # Idle) /\ torn' = torn
    BY <1>1 DEF GoOn, SaveSsid, SavePass, Begin, ClearKeys, Unprovision, Step
  <2>2. ~raced /\ ~torn /\ \A u \in {"loop", "ble"} : u # t => job[u] = Idle
    BY <1>0, <2>1, Undisturbed
  <2>3. job[t] \in Doing
    BY DEF TypeOK
  <2>4. CASE SaveSsid(t)
    <3>1. PICK e : e = [job[t] EXCEPT !.at = "pass"]
      OBVIOUS
    <3>2. job[t].at = "ssid" /\ GoesOn(t, e) /\ nvs' = [nvs EXCEPT !.ssid = job[t].ssid]
      BY <2>4, <3>1 DEF SaveSsid, Step
    <3>3. e.at = "pass" /\ e.ssid = job[t].ssid /\ e.pass = job[t].pass
      BY <2>3, <3>1, <3>2, SavingGoesOn
    <3>4. job'[t] = e /\ \A u \in {"loop", "ble"} : u # t => job'[u].at = "idle"
      BY <2>2, <3>2, Going DEF Idle
    <3>5. job[t].pass = PassOf(job[t].ssid) /\ nvs'.ssid = job[t].ssid
      BY <2>2, <3>2 DEF StoredOK, Saving, TypeOK
    <3> QED
      BY <3>3, <3>4, <3>5 DEF StoredOK, Saving, PassOf
  <2>5. CASE SavePass(t)
    <3>1. PICK e : e = [job[t] EXCEPT !.at = "begin"]
      OBVIOUS
    <3>2. job[t].at = "pass" /\ GoesOn(t, e) /\ nvs' = [nvs EXCEPT !.pass = job[t].pass]
      BY <2>5, <3>1 DEF SavePass, PassStored, Step
    <3>3. e.at = "begin" /\ e.ssid = job[t].ssid /\ e.pass = job[t].pass
      BY <2>3, <3>1, <3>2, SavingGoesOn
    <3>4. job'[t] = e /\ \A u \in {"loop", "ble"} : u # t => job'[u].at = "idle"
      BY <2>2, <3>2, Going DEF Idle
    <3>5. job[t].pass = PassOf(job[t].ssid) /\ nvs.ssid = job[t].ssid
      BY <2>2, <3>2 DEF StoredOK, Saving
    <3>6. nvs'.ssid = nvs.ssid /\ nvs'.pass = job[t].pass
      BY <3>2 DEF TypeOK
    <3> QED
      BY <3>3, <3>4, <3>5, <3>6 DEF StoredOK, Saving, PassOf
  <2>6. CASE Begin(t)
    BY <2>1, <2>2, <2>6, Going, StoredFrame DEF Begin, Ends, Step, Idle
  <2>7. CASE ClearKeys(t)
    <3>1. nvs'.ssid = Null /\ job'[t].at = "unprovision"
      BY <2>7, Going DEF ClearKeys
    <3>2. \A u \in {"loop", "ble"} : u # t => job'[u].at = "idle"
      BY <2>2, <2>7, Going DEF ClearKeys, Idle
    <3> QED
      BY <3>1, <3>2 DEF StoredOK, Saving
  <2>8. CASE Unprovision(t)
    BY <2>1, <2>2, <2>8, Going, StoredFrame DEF Unprovision, Ends, Step, Idle
  <2> QED
    BY <1>1, <2>4, <2>5, <2>6, <2>7, <2>8 DEF GoOn
<1>2. ASSUME NEW t \in {"loop", "ble"}, Abort(t)
      PROVE  StoredOK'
  <2>1. ~raced /\ torn' = torn /\ \A u \in {"loop", "ble"} : job[u] = Idle
    BY <1>0, <1>2, Undisturbed DEF Abort
  <2>2. job'[t] = [at |-> "clear"] /\ \A u \in {"loop", "ble"} : u # t => job'[u] = Idle
    BY <1>2, <2>1, Going DEF Abort
  <2>3. nvs' = nvs
    BY <1>2 DEF Abort
  <2> QED
    BY <1>0, <2>1, <2>2, <2>3 DEF StoredOK, Saving, PassOf, Idle
<1>3. CASE CredentialsWrite
  <2>1. PICK n \in All : GoesOn("ble", [at |-> "ssid", ssid |-> n, pass |-> PassOf(n)])
    BY <1>3 DEF CredentialsWrite, PassOf
  <2>2. job'["ble"] = [at |-> "ssid", ssid |-> n, pass |-> PassOf(n)] /\ job'["loop"] = job["loop"]
    BY <2>1, Going
  <2>3. job["ble"].at = "idle" /\ UNCHANGED <<raced, torn, nvs>>
    BY <1>3 DEF CredentialsWrite, Idle
  <2> QED
    BY <1>0, <2>2, <2>3 DEF StoredOK, Saving, PassOf
<1>4. CASE CopyFlags
  <2>1. job["loop"].at = "idle" /\ (raced => raced') /\ torn' = torn /\ nvs' = nvs
    BY <1>4 DEF CopyFlags, Step
  <2>2. job'["loop"].at = "copied" /\ job'["ble"] = job["ble"]
    BY <1>4, Going DEF CopyFlags
  <2> QED
    BY <2>1, <2>2, StoredFrame
<1>5. CASE Tick
  <2>1. job["loop"].at = "copied" /\ (raced => raced') /\ torn' = torn /\ nvs' = nvs
    BY <1>5, TickOutcomes DEF Step
  <2>2. NoOutcome \/ \E new : Outcome(new)
    BY <1>5, TickOutcomes DEF Stays, AsksAddress, WaitsAgain, Fails, Connects, Online, Loses, Reassociates
  <2>3. job'["loop"].at \in {"idle", "publish"} /\ job'["ble"] = job["ble"]
    <3>1. CASE NoOutcome
      <4>1. GoesOn("loop", Idle)
        BY <3>1 DEF NoOutcome, Ends
      <4> QED
        BY <4>1, Going DEF Idle
    <3>2. ASSUME NEW new, Outcome(new)
          PROVE  job'["loop"].at \in {"idle", "publish"} /\ job'["ble"] = job["ble"]
      <4>1. GoesOn("loop", [at |-> "publish", new |-> new])
        BY <3>2 DEF Outcome
      <4> QED
        BY <4>1, Going
    <3> QED
      BY <2>2, <3>1, <3>2
  <2> QED
    BY <2>1, <2>3, StoredFrame
<1>6. CASE Publish
  <2>1. job["loop"].at = "publish" /\ (raced => raced') /\ torn' = torn /\ nvs' = nvs
    BY <1>6 DEF Publish, Step
  <2>2. job'["loop"].at = "idle" /\ job'["ble"] = job["ble"]
    BY <1>6, Going DEF Publish, Ends, Idle
  <2> QED
    BY <2>1, <2>2, StoredFrame
<1>7. CASE RadioActs \/ HandleEvent \/ TimePasses
  <2>1. raced' = raced /\ torn' = torn /\ nvs' = nvs /\ job' = job
    BY <1>7 DEF RadioActs, HandleEvent, TimePasses, history
  <2> QED
    BY <2>1, StoredFrame
<1>8. CASE Reboot
  <2>0. DOMAIN job = {"loop", "ble"} /\ nvs' = nvs /\ raced' = raced
    BY <1>8 DEF Reboot, TypeOK
  <2>1. ~torn /\ \A t \in {"loop", "ble"} : job[t].at # "pass"
    BY <1>0, <1>8, <2>0 DEF Reboot
  <2>2. nvs.ssid # Null => nvs.pass = PassOf(nvs.ssid)
    BY <1>0, <2>0, <2>1 DEF StoredOK
  <2>3. CASE nvs.ssid = Null
    <3>1. job' = [t \in DOMAIN job |-> Idle]
      BY <1>8, <2>3 DEF Reboot
    <3> QED
      BY <2>0, <2>3, <3>1 DEF StoredOK, Saving, Idle
  <2>4. CASE nvs.ssid # Null
    <3>1. job' = [loop |-> [at |-> "ssid", ssid |-> nvs.ssid, pass |-> nvs.pass], ble |-> Idle]
      BY <1>8, <2>4 DEF Reboot
    <3> QED
      BY <2>0, <2>2, <2>4, <3>1 DEF StoredOK, Saving, PassOf, Idle
  <2> QED
    BY <2>3, <2>4
<1> QED
  BY <1>1, <1>2, <1>3, <1>4, <1>5, <1>6, <1>7, <1>8 DEF Next, LoopTick

-----------------------------------------------------------------------------
LEMMA Start ==
    ASSUME Init
    PROVE  IInv
<1> USE Numbers
<1>1. job["loop"].at = "idle" /\ job["ble"].at = "idle"
  BY DEF Init, Idle
<1>2. TypeOK
  <2>1. WifiTyped
    <3>1. 0 \in 0..Floor /\ 0 \in 0..Steps /\ 0 \in 0..MaxAge.phase /\ 0 \in 0..MaxAge.wait /\ 0 \in 0..MaxAge.down
      BY Ages
    <3> QED
      BY <3>1 DEF Init, WifiTyped, Phases
  <2>2. WorldTyped
    BY DEF Init, WorldTyped
  <2>3. TasksTyped
    <3>1. job \in [{"loop", "ble"} -> Doing] /\ state \in States
      BY NewJobs, NewStates DEF Init
    <3>2. {ticked, raced, torn} \subseteq BOOLEAN
      BY DEF Init
    <3>3. flags \subseteq Kinds /\ nvs \in [ssid : Texts, pass : Texts]
      BY DEF Init, Texts
    <3>4. writes \in 0..MaxWrites /\ boots \in 0..MaxBoots
      BY DEF Init
    <3> QED
      BY <3>1, <3>2, <3>3, <3>4 DEF TasksTyped
  <2> QED
    BY <2>1, <2>2, <2>3, Typed
<1>3. ReconnectOK
  BY DEF Init, ReconnectOK
<1>4. ShowsOK
  BY <1>1, NewStates DEF Init, ShowsOK, Fits, Resetting
<1>5. StoredOK
  BY <1>1 DEF Init, StoredOK, Saving
<1> QED
  BY <1>2, <1>3, <1>4, <1>5 DEF IInv

LEMMA Inductive ==
    ASSUME IInv, [Next]_vars
    PROVE  IInv'
<1>1. CASE Next
  BY <1>1, TypeStep, ReconnectStep, ShowsStep, StoredStep DEF IInv
<1>2. CASE UNCHANGED vars
  BY <1>2 DEF IInv, vars, wifi, world, history, TypeOK, ReconnectOK, DownSoFar, ShowsOK, StoredOK, Fits, Saving,
              Resetting
<1> QED
  BY <1>1, <1>2

\* In every reachable state the invariant holds: the proofs below are read off it.
THEOREM Invariant == Spec => []IInv
<1>1. Init => IInv
  BY Start
<1>2. IInv /\ [Next]_vars => IInv'
  BY Inductive
<1> QED
  BY <1>1, <1>2, PTL DEF Spec

\* Every variable keeps its type: no age, index or wait leaves its bound.
THEOREM TypeCorrect == Spec => []TypeOK
<1>1. IInv => TypeOK
  BY DEF IInv
<1> QED
  BY <1>1, Invariant, PTL

\* What a phone reads from the hub is what the Wi-Fi manager does, whatever the radio reports
\* and in whatever order, unless two tasks cut into one another.
THEOREM Shows == Spec => []StateShowsPhase
<1>1. IInv => StateShowsPhase
  <2>1. SUFFICES ASSUME IInv, ~raced, AtRest
                 PROVE  Shown \/ (phase \in Attempting /\ ~isReconnect)
    BY DEF StateShowsPhase
  <2>2. Fits(state)
    BY <2>1 DEF IInv, ShowsOK, AtRest, Idle
  <2> QED
    BY <2>2 DEF Fits, Shown, Attempting
<1> QED
  BY <1>1, Invariant, PTL

\* A lost connection is not tried for longer than the ten minutes, one more wait and one more
\* attempt, whatever the tables and the limits are.
THEOREM GivesUp == Spec => []GivesUpInTime
<1>1. IInv => GivesUpInTime
  <2>1. SUFFICES ASSUME IInv, isReconnect
                 PROVE  age.down <= Limit
    BY DEF GivesUpInTime
  <2>2. TypeOK /\ DownSoFar
    BY <2>1 DEF IInv, ReconnectOK
  <2> QED
    BY <2>2, AgesAreNumbers, Ages, Numbers DEF DownSoFar
<1> QED
  BY <1>1, Invariant, PTL

\* Network and password in flash are of one write, unless the power was cut between the two
\* keys or two tasks saved at a time.
THEOREM Stored == Spec => []StoredTogether
<1>1. IInv => StoredTogether
  BY DEF IInv, StoredOK, StoredTogether, AtRest, Idle, PassOf
<1> QED
  BY <1>1, Invariant, PTL

=============================================================================
