-------------------------- MODULE ScanIngest_proofs --------------------------
(***************************************************************************)
(* Proofs about ScanIngest, for every number of concurrent requests, scans,*)
(* hubs and messages, and every length of the windows.                     *)
(***************************************************************************)
EXTENDS ScanIngest, FiniteSetTheorems, TLAPS

\* What a request in flight has read: a message, and a time not in the future.
RequestsOK ==
    /\ \A b \in Bridges : ingest[b].step # "idle" =>
          /\ ingest[b].msg \in Messages
          /\ ingest[b].now \in Nat
          /\ ingest[b].now =< clock
    /\ \A p \in Starters : start[p].step # "idle" =>
          /\ start[p].room \in Rooms
          /\ start[p].now \in Nat
    /\ \A s \in Scans :
          /\ poll[s].step \in {"jobs", "write"} => poll[s].at \in Nat
          /\ poll[s].step = "write" => poll[s].status \in ScanStatus

IInv == TypeOK /\ RequestsOK

USE DEF Time, Never, OpenStatus, FinalStatus, ScanStatus

LEMMA Idles ==
    /\ IngestIdle \in IngestReq /\ IngestIdle.step = "idle"
    /\ StartIdle \in StartReq /\ StartIdle.step = "idle"
    /\ PollOff \in PollReq /\ PollOff.step = "off"
    /\ PollRest \in PollReq /\ PollRest.step = "rest"
    /\ NoScan \in ScanRow
    /\ NoHub \in HubRow
    /\ NoJob \in JobRow
    /\ NoReadings \in [Hubs -> [Tags -> Obs]]
  BY DEF IngestIdle, StartIdle, PollOff, PollRest, NoScan, NoHub, NoJob, NoReadings, NoObs,
         IngestReq, StartReq, PollReq, ScanRow, HubRow, JobRow, Obs

LEMMA InitIInv == Init => IInv
<1> SUFFICES ASSUME Init PROVE IInv
  OBVIOUS
<1>1. hubs \in [Hubs -> HubRow]
  BY Idles DEF Init, HubRow
<1>2. discovered \in [Hardware -> Time]
  BY DEF Init
<1>3. itemSeen \in [Items -> ItemRow]
  BY DEF Init, ItemRow
<1>4. TypeOK
  BY <1>1, <1>2, <1>3, Idles DEF Init, TypeOK
<1>5. RequestsOK
  BY Idles DEF Init, RequestsOK
<1> QED
  BY <1>4, <1>5 DEF IInv

\* An ingest request that only reads changes no table.
LEMMA IngestReadsIInv ==
    ASSUME IInv, NEW b \in Bridges, IngestNext(b), ~IngestBatch(b)
    PROVE  IInv'
<1>0. TypeOK /\ RequestsOK
  BY DEF IInv
<1>1. UNCHANGED <<clock, tables, start, poll, history>>
  BY DEF IngestNext, IngestReceive, IngestFindReceipt, IngestFindHub, IngestFindScan,
         IngestDuplicate, IngestFail
<1> DEFINE Sound(r) == r.step # "idle" =>
                         r.msg \in Messages /\ r.now \in Nat /\ r.now =< clock
<1>2. /\ ingest \in [Bridges -> IngestReq]
      /\ ingest[b] \in IngestReq
      /\ Sound(ingest[b])
      /\ clock \in Nat
  BY <1>0 DEF TypeOK, RequestsOK
<1>3. \E r \in IngestReq : ingest' = [ingest EXCEPT ![b] = r] /\ Sound(r)
  <2>1. CASE \E m \in Messages : IngestReceive(b, m)
    <3>1. PICK m \in Messages : IngestReceive(b, m)
      BY <2>1
    <3> DEFINE r == [IngestIdle EXCEPT !.step = "receipt", !.msg = m, !.now = clock]
    <3>2. IngestIdle \in IngestReq
      BY Idles
    <3>3. r \in IngestReq
      BY <1>2, <3>2 DEF IngestReq
    <3>4. Sound(r)
      BY <1>2, <3>2 DEF IngestReq
    <3> QED
      BY <3>1, <3>3, <3>4 DEF IngestReceive
  <2>2. CASE IngestFindReceipt(b)
    <3> DEFINE r == [ingest[b] EXCEPT !.step = "hub"]
    <3>1. ingest[b].step = "receipt"
      BY <2>2 DEF IngestFindReceipt
    <3>2. r \in IngestReq /\ Sound(r)
      BY <1>2, <3>1 DEF IngestReq
    <3>3. IngestIdle \in IngestReq /\ Sound(IngestIdle)
      BY Idles
    <3>4. ingest' = [ingest EXCEPT ![b] = r] \/ ingest' = [ingest EXCEPT ![b] = IngestIdle]
      BY <2>2 DEF IngestFindReceipt
    <3> QED
      BY <3>2, <3>3, <3>4
  <2>3. CASE IngestFindHub(b)
    <3>1. ingest[b].step = "hub"
      BY <2>3 DEF IngestFindHub
    <3>2. CASE ingest' = [ingest EXCEPT ![b].step = "batch"]
      <4> DEFINE r == [ingest[b] EXCEPT !.step = "batch"]
      <4>1. r \in IngestReq /\ Sound(r)
        BY <1>2, <3>1 DEF IngestReq
      <4> QED
        BY <3>2, <4>1
    <3>3. ASSUME NEW h \in Hubs, NEW st \in {"batch", "scan"},
                 ingest' = [ingest EXCEPT ![b].step = st, ![b].hub = h,
                                          ![b].room = hubs[h].room]
          PROVE  \E r \in IngestReq : ingest' = [ingest EXCEPT ![b] = r] /\ Sound(r)
      <4> DEFINE r == [ingest[b] EXCEPT !.step = st, !.hub = h, !.room = hubs[h].room]
      <4>1. hubs[h].room \in Rooms \cup {Null}
        BY <1>0 DEF TypeOK, HubRow
      <4>2. r \in IngestReq /\ Sound(r)
        BY <1>2, <3>1, <4>1 DEF IngestReq
      <4>3. ingest' = [ingest EXCEPT ![b] = r]
        BY <1>2, <3>3
      <4> QED
        BY <4>2, <4>3
    <3> QED
      BY <2>3, <3>2, <3>3 DEF IngestFindHub
  <2>4. CASE IngestFindScan(b)
    <3>1. ingest[b].step = "scan"
      BY <2>4 DEF IngestFindScan
    <3>2. CASE ingest' = [ingest EXCEPT ![b].step = "batch"]
      <4> DEFINE r == [ingest[b] EXCEPT !.step = "batch"]
      <4>1. r \in IngestReq /\ Sound(r)
        BY <1>2, <3>1 DEF IngestReq
      <4> QED
        BY <3>2, <4>1
    <3>3. ASSUME NEW s \in Scans,
                 ingest' = [ingest EXCEPT ![b].step = "batch", ![b].scan = s]
          PROVE  \E r \in IngestReq : ingest' = [ingest EXCEPT ![b] = r] /\ Sound(r)
      <4> DEFINE r == [ingest[b] EXCEPT !.step = "batch", !.scan = s]
      <4>1. r \in IngestReq /\ Sound(r)
        BY <1>2, <3>1 DEF IngestReq
      <4>2. ingest' = [ingest EXCEPT ![b] = r]
        BY <1>2, <3>3
      <4> QED
        BY <4>1, <4>2
    <3> QED
      BY <2>4, <3>2, <3>3 DEF IngestFindScan, Newest, ScansFor
  <2>5. CASE IngestDuplicate(b) \/ IngestFail(b)
    BY <2>5, Idles DEF IngestDuplicate, IngestFail
  <2> QED
    BY <2>1, <2>2, <2>3, <2>4, <2>5 DEF IngestNext
<1>4. PICK r \in IngestReq : ingest' = [ingest EXCEPT ![b] = r] /\ Sound(r)
  BY <1>3
<1>5. TypeOK'
  BY <1>0, <1>1, <1>4 DEF TypeOK, tables, history
<1>6. RequestsOK'
  BY <1>0, <1>1, <1>4 DEF TypeOK, RequestsOK
<1> QED
  BY <1>5, <1>6 DEF IInv

\* Updating a function at any point keeps its type if the new value has it.
LEMMA UpdateType ==
    ASSUME NEW D, NEW R, NEW f \in [D -> R], NEW x, NEW e, x \in D => e \in R
    PROVE  [f EXCEPT ![x] = e] \in [D -> R]
  OBVIOUS

LEMMA UpsertType ==
    ASSUME NEW o \in Obs, NEW n \in Nat, NEW at \in Nat
    PROVE  Upsert(o, n, at) \in Obs
  BY DEF Upsert, Later, Obs

LEMMA PruneObsType ==
    ASSUME NEW o \in Obs, NEW now \in Nat
    PROVE  PruneObs(o, now) \in Obs
  BY DEF PruneObs, NoObs, Obs

\* The batch of an ingest: every table it writes stays well typed.
LEMMA IngestBatchIInv ==
    ASSUME IInv, NEW b \in Bridges, IngestBatch(b)
    PROVE  IInv'
<1> DEFINE r == ingest[b]
<1> DEFINE m == r.msg
<1>0. TypeOK /\ RequestsOK
  BY DEF IInv
<1>1. /\ r \in IngestReq
      /\ r.now \in Nat
      /\ m \in Messages
      /\ m \in [hardware : Hardware, tag : Tags \cup {Null},
                seenAt : Nat, sequence : Nat, reads : Nat \ {0}]
      /\ EventId(m) \in EventIds
  BY <1>0, MessagesAssumption DEF TypeOK, RequestsOK, IngestBatch, EventIds
<1>2. /\ m.hardware \in Hardware /\ m.seenAt \in Nat /\ m.reads \in Nat
      /\ m.tag \in Tags \cup {Null}
      /\ r.hub \in Hubs \cup {Null} /\ r.room \in Rooms \cup {Null}
      /\ r.scan \in Scans \cup {Null}
  BY <1>1 DEF IngestReq
<1>3. receipts' \in [EventIds -> Time] /\ counted' \in [EventIds -> Nat]
      /\ acceptedAt' \in [EventIds -> Time]
  BY <1>0, <1>1 DEF IngestBatch, ReceiptsAfter, TypeOK
<1>4. discovered' \in [Hardware -> Time]
  BY <1>0, <1>2 DEF IngestBatch, Later, TypeOK
<1>5. hubs' \in [Hubs -> HubRow]
  <2>1. CASE UNCHANGED hubs
    BY <1>0, <2>1 DEF TypeOK
  <2>2. CASE r.hub # Null /\ hubs' = [hubs EXCEPT ![r.hub].lastSeen = m.seenAt]
    <3>1. hubs \in [Hubs -> HubRow] /\ r.hub \in Hubs /\ m.seenAt \in Nat
      BY <1>0, <1>2, <2>2 DEF TypeOK
    <3>2. [hubs[r.hub] EXCEPT !.lastSeen = m.seenAt] \in HubRow
      BY <3>1 DEF HubRow
    <3> HIDE DEF r, m
    <3> QED
      BY <2>2, <3>1, <3>2
  <2> QED
    BY <2>1, <2>2 DEF IngestBatch
<1>6. tagObs' \in [Hubs -> [Tags -> Obs]] /\ itemSeen' \in [Items -> ItemRow]
  <2>1. CASE UNCHANGED <<tagObs, itemSeen>>
    BY <1>0, <2>1 DEF TypeOK
  <2>2. CASE r.hub # Null /\ m.tag # Null /\ StoreReading(m, r.hub, r.room, r.now)
    <3>1. ASSUME NEW h \in Hubs, NEW t \in Tags
          PROVE  /\ PruneObs(tagObs[h][t], r.now) \in Obs
                 /\ Upsert(PruneObs(tagObs[h][t], r.now), m.reads, m.seenAt) \in Obs
      <4>1. tagObs[h][t] \in Obs
        BY <1>0 DEF TypeOK
      <4>2. PruneObs(tagObs[h][t], r.now) \in Obs
        BY <1>1, <4>1, PruneObsType
      <4> QED
        BY <1>2, <4>2, UpsertType
    <3>2. tagObs' \in [Hubs -> [Tags -> Obs]]
      BY <2>2, <3>1 DEF StoreReading
    <3>3. [hub |-> r.hub, at |-> m.seenAt] \in ItemRow
      BY <1>2, <2>2 DEF ItemRow
    <3>4. itemSeen' \in [Items -> ItemRow]
      BY <1>0, <2>2, <3>3 DEF StoreReading, TypeOK
    <3> QED
      BY <3>2, <3>4
  <2> QED
    BY <2>1, <2>2 DEF IngestBatch
<1>7. /\ scans' \in [Scans -> ScanRow]
      /\ jobs' \in [Scans -> [Hubs -> JobRow]]
      /\ scanObs' \in [Scans -> [Hubs -> [Tags -> Obs]]]
  <2>1. CASE UNCHANGED <<scans, jobs, scanObs>>
    BY <1>0, <2>1 DEF TypeOK
  <2>2. CASE r.scan # Null /\ CreditScan(r.scan, r.hub, m)
    <3> DEFINE s == r.scan
    <3>1. s \in Scans
      BY <1>2, <2>2
    <3>a. scans[s] \in ScanRow /\ jobs[s] \in [Hubs -> JobRow]
          /\ scanObs[s] \in [Hubs -> [Tags -> Obs]]
      BY <1>0, <3>1 DEF TypeOK
    <3>2. [scans[s] EXCEPT !.status = "scanning"] \in ScanRow
      BY <3>a DEF ScanRow
    <3>3. scans' \in [Scans -> ScanRow]
      BY <1>0, <2>2, <3>1, <3>2 DEF CreditScan, TypeOK
    <3>4. ASSUME r.hub \in Hubs
          PROVE  [status |-> "scanning", reads |-> jobs[s][r.hub].reads + m.reads] \in JobRow
      <4>1. jobs[s][r.hub] \in JobRow
        BY <3>a, <3>4
      <4> QED
        BY <1>2, <4>1 DEF JobRow
    <3>5. jobs' \in [Scans -> [Hubs -> JobRow]]
      <4> DEFINE row(j) == IF j.status = "none" THEN j
                           ELSE [status |-> "scanning", reads |-> j.reads + m.reads]
      <4>1. r.hub \in Hubs => row(jobs[s][r.hub]) \in JobRow
        BY <3>a, <3>4
      <4>2. [jobs[s] EXCEPT ![r.hub] = row(jobs[s][r.hub])] \in [Hubs -> JobRow]
        BY <3>a, <4>1, UpdateType
      <4>3. jobs' = [jobs EXCEPT ![s] = [jobs[s] EXCEPT ![r.hub] = row(jobs[s][r.hub])]]
        BY <1>0, <2>2, <3>1 DEF CreditScan, TypeOK
      <4> QED
        BY <1>0, <3>1, <4>2, <4>3, UpdateType DEF TypeOK
    <3>6. scanObs' \in [Scans -> [Hubs -> [Tags -> Obs]]]
      <4> DEFINE f == scanObs[s][r.hub]
                 g == [f EXCEPT ![m.tag] = Upsert(f[m.tag], m.reads, m.seenAt)]
      <4>1. ASSUME r.hub \in Hubs PROVE g \in [Tags -> Obs]
        <5>1. f \in [Tags -> Obs]
          BY <3>a, <4>1
        <5>2. m.tag \in Tags => Upsert(f[m.tag], m.reads, m.seenAt) \in Obs
          BY <1>2, <5>1, UpsertType
        <5> QED
          BY <5>1, <5>2, UpdateType
      <4>2. [scanObs[s] EXCEPT ![r.hub] = g] \in [Hubs -> [Tags -> Obs]]
        BY <3>a, <4>1, UpdateType
      <4>3. scanObs' = [scanObs EXCEPT ![s] = [scanObs[s] EXCEPT ![r.hub] = g]]
        BY <1>0, <2>2, <3>1 DEF CreditScan, TypeOK
      <4> QED
        BY <1>0, <3>1, <4>2, <4>3, UpdateType DEF TypeOK
    <3> QED
      BY <3>3, <3>5, <3>6
  <2> QED
    BY <2>1, <2>2 DEF IngestBatch
<1>8. ingest' \in [Bridges -> IngestReq] /\ ingest' = [ingest EXCEPT ![b] = IngestIdle]
  BY <1>0, Idles DEF IngestBatch, TypeOK
<1>9. UNCHANGED <<clock, start, poll>>
  BY DEF IngestBatch
<1>10. TypeOK'
  BY <1>0, <1>3, <1>4, <1>5, <1>6, <1>7, <1>8, <1>9 DEF TypeOK
<1>11. RequestsOK'
  BY <1>0, <1>8, <1>9, Idles DEF TypeOK, RequestsOK
<1> QED
  BY <1>10, <1>11 DEF IInv

LEMMA ReadHubsOnline == ASSUME NEW r, NEW now PROVE OnlineHubs(r, now) \in SUBSET Hubs
  BY DEF OnlineHubs

\* A scan POST: the reads, then the batch that expires the room's open scans and
\* inserts the new one.
LEMMA StartIInv ==
    ASSUME IInv, NEW p \in Starters, StartNext(p)
    PROVE  IInv'
<1>0. TypeOK /\ RequestsOK
  BY DEF IInv
<1> DEFINE Sound(r) == r.step # "idle" => r.room \in Rooms /\ r.now \in Nat
<1>1. /\ start \in [Starters -> StartReq]
      /\ start[p] \in StartReq
      /\ Sound(start[p])
      /\ clock \in Nat
  BY <1>0 DEF TypeOK, RequestsOK
<1>2. ASSUME NEW r \in StartReq, start' = [start EXCEPT ![p] = r], Sound(r)
      PROVE  /\ start' \in [Starters -> StartReq]
             /\ \A q \in Starters : start'[q].step # "idle" =>
                  start'[q].room \in Rooms /\ start'[q].now \in Nat
  BY <1>0, <1>1, <1>2 DEF RequestsOK
<1>3. Sound(StartIdle) /\ StartIdle \in StartReq
  BY Idles
<1>4. CASE \E r \in Rooms : StartReceive(p, r)
  <2>1. PICK r \in Rooms : StartReceive(p, r)
    BY <1>4
  <2> DEFINE q == [step |-> "hubs", room |-> r, now |-> clock, online |-> {}]
  <2>2. q \in StartReq /\ Sound(q)
    BY <1>1 DEF StartReq
  <2>3. start' = [start EXCEPT ![p] = q] /\ UNCHANGED <<clock, tables, ingest, poll, history>>
    BY <2>1 DEF StartReceive
  <2> QED
    BY <1>0, <1>2, <2>2, <2>3 DEF IInv, TypeOK, RequestsOK, tables, history
<1>5. CASE StartReadHubs(p)
  <2> DEFINE q == [start[p] EXCEPT !.step = "insert",
                                   !.online = OnlineHubs(start[p].room, start[p].now)]
  <2>1. start[p].step = "hubs"
    BY <1>5 DEF StartReadHubs
  <2>2. q \in StartReq /\ Sound(q)
    BY <1>1, <2>1, ReadHubsOnline DEF StartReq
  <2>3. /\ start' = [start EXCEPT ![p] = StartIdle] \/ start' = [start EXCEPT ![p] = q]
        /\ UNCHANGED <<clock, tables, ingest, poll, history>>
    BY <1>5 DEF StartReadHubs
  <2> QED
    BY <1>0, <1>2, <1>3, <2>2, <2>3 DEF IInv, TypeOK, RequestsOK, tables, history
<1>6. CASE StartFail(p)
  <2>1. /\ start' = [start EXCEPT ![p] = StartIdle]
        /\ UNCHANGED <<clock, tables, ingest, poll, history>>
    BY <1>6 DEF StartFail
  <2> QED
    BY <1>0, <1>2, <1>3, <2>1 DEF IInv, TypeOK, RequestsOK, tables, history
<1>7. CASE \E s \in Scans : StartInsert(p, s)
  <2>1. PICK s \in Scans : StartInsert(p, s)
    BY <1>7
  <2> DEFINE now == start[p].now
  <2>2. start[p].step = "insert" /\ start[p].room \in Rooms /\ now \in Nat
    BY <1>1, <2>1 DEF StartInsert
  <2>3. scans' \in [Scans -> ScanRow]
    <3>1. [status |-> "scanning", room |-> start[p].room, createdAt |-> now,
           expiresAt |-> now + ScanWindow, completedAt |-> Never] \in ScanRow
      BY <2>2, WindowsAssumption DEF ScanRow
    <3>2. ASSUME NEW x \in Scans
          PROVE  /\ scans[x] \in ScanRow
                 /\ [scans[x] EXCEPT !.status = "expired",
                                     !.completedAt = CompletedOr(@, now)] \in ScanRow
      <4>1. scans[x] \in ScanRow
        BY <1>0 DEF TypeOK
      <4>2. CompletedOr(scans[x].completedAt, now) \in Time
        BY <2>2, <4>1 DEF CompletedOr, ScanRow
      <4> QED
        BY <4>1, <4>2 DEF ScanRow
    <3> QED
      BY <2>1, <3>1, <3>2 DEF StartInsert
  <2>4. jobs' \in [Scans -> [Hubs -> JobRow]]
    <3>1. [status |-> "scanning", reads |-> 0] \in JobRow
      BY DEF JobRow
    <3>2. ASSUME NEW x \in Scans, NEW h \in Hubs
          PROVE  jobs[x][h] \in JobRow /\ [jobs[x][h] EXCEPT !.status = "expired"] \in JobRow
      <4>1. jobs[x][h] \in JobRow
        BY <1>0 DEF TypeOK
      <4> QED
        BY <4>1 DEF JobRow
    <3> QED
      BY <2>1, <3>1, <3>2 DEF StartInsert
  <2>5. scanObs' \in [Scans -> [Hubs -> [Tags -> Obs]]]
    BY <1>0, <2>1, Idles DEF StartInsert, TypeOK
  <2>6. poll' = [poll EXCEPT ![s] = PollRest] /\ poll' \in [Scans -> PollReq]
    BY <1>0, <2>1, Idles DEF StartInsert, TypeOK
  <2>7. /\ start' = [start EXCEPT ![p] = StartIdle]
        /\ UNCHANGED <<clock, receipts, discovered, hubs, tagObs, itemSeen, ingest, history>>
    BY <2>1 DEF StartInsert
  <2>8. TypeOK'
    BY <1>0, <1>2, <1>3, <2>3, <2>4, <2>5, <2>6, <2>7 DEF TypeOK, history
  <2>9. RequestsOK'
    BY <1>0, <1>2, <1>3, <2>6, <2>7, Idles DEF TypeOK, RequestsOK
  <2> QED
    BY <2>8, <2>9 DEF IInv
<1> QED
  BY <1>4, <1>5, <1>6, <1>7 DEF StartNext

LEMMA StatusType ==
    ASSUME NEW s, NEW row, NEW now
    PROVE  StatusOf(s, row, now) \in ScanStatus
  BY DEF StatusOf

\* A client's GET: the row, the jobs, and the write of the new status.
LEMMA PollIInv ==
    ASSUME IInv, NEW s \in Scans, PollNext(s)
    PROVE  IInv'
<1>0. TypeOK /\ RequestsOK
  BY DEF IInv
<1> DEFINE Sound(r) == /\ r.step \in {"jobs", "write"} => r.at \in Nat
                       /\ r.step = "write" => r.status \in ScanStatus
<1>1. /\ poll \in [Scans -> PollReq]
      /\ poll[s] \in PollReq
      /\ Sound(poll[s])
      /\ scans[s] \in ScanRow
      /\ clock \in Nat
  BY <1>0 DEF TypeOK, RequestsOK
<1>2. ASSUME NEW r \in PollReq, poll' = [poll EXCEPT ![s] = r], Sound(r)
      PROVE  /\ poll' \in [Scans -> PollReq]
             /\ \A q \in Scans :
                  /\ poll'[q].step \in {"jobs", "write"} => poll'[q].at \in Nat
                  /\ poll'[q].step = "write" => poll'[q].status \in ScanStatus
  BY <1>0, <1>1, <1>2 DEF RequestsOK
<1>3. /\ Sound(PollOff) /\ PollOff \in PollReq
      /\ \A st : Sound(Answered(st)) /\ Answered(st) \in PollReq
  BY Idles DEF Answered
<1>4. CASE PollReadScan(s)
  <2> DEFINE r == [step |-> "jobs", row |-> scans[s], at |-> clock, status |-> "none"]
  <2>1. r \in PollReq /\ Sound(r)
    BY <1>1 DEF PollReq
  <2>2. poll' = [poll EXCEPT ![s] = r] /\ UNCHANGED <<clock, tables, ingest, start, history>>
    BY <1>4 DEF PollReadScan
  <2> QED
    BY <1>0, <1>2, <2>1, <2>2 DEF IInv, TypeOK, RequestsOK, tables, history
<1>5. CASE PollReadJobs(s)
  <2>1. poll[s].step = "jobs" /\ poll[s].at \in Nat
    BY <1>1, <1>5 DEF PollReadJobs
  <2>2. PICK now \in poll[s].at .. clock :
          LET status == StatusOf(s, poll[s].row, now)
          IN  poll' = [poll EXCEPT ![s] =
                         IF MustWrite(status, poll[s].row)
                         THEN [poll[s] EXCEPT !.step = "write", !.at = now, !.status = status]
                         ELSE Answered(status)]
    BY <1>5 DEF PollReadJobs
  <2> DEFINE st == StatusOf(s, poll[s].row, now)
             r == [poll[s] EXCEPT !.step = "write", !.at = now, !.status = st]
  <2>3. st \in ScanStatus /\ now \in Nat
    BY <1>1, <2>1, <2>2, StatusType
  <2> HIDE DEF st
  <2>4. r \in PollReq /\ Sound(r)
    BY <1>1, <2>3 DEF PollReq
  <2>5. poll' = [poll EXCEPT ![s] = r] \/ poll' = [poll EXCEPT ![s] = Answered(st)]
    BY <2>2 DEF st
  <2>6. UNCHANGED <<clock, tables, ingest, start, history>>
    BY <1>5 DEF PollReadJobs
  <2>7. /\ poll' \in [Scans -> PollReq]
        /\ \A q \in Scans :
             /\ poll'[q].step \in {"jobs", "write"} => poll'[q].at \in Nat
             /\ poll'[q].step = "write" => poll'[q].status \in ScanStatus
    BY <1>2, <1>3, <2>4, <2>5
  <2> QED
    BY <1>0, <2>6, <2>7 DEF IInv, TypeOK, RequestsOK, tables, history
<1>6. CASE PollWrite(s)
  <2> DEFINE st == poll[s].status
             end == IF st \in FinalStatus THEN poll[s].at ELSE Never
  <2>1. st \in ScanStatus /\ poll[s].at \in Nat
    BY <1>1, <1>6 DEF PollWrite
  <2>2. [scans[s] EXCEPT !.status = st, !.completedAt = end] \in ScanRow
    BY <1>1, <2>1 DEF ScanRow
  <2>3. scans' = [scans EXCEPT ![s] = [scans[s] EXCEPT !.status = st, !.completedAt = end]]
    BY <1>0, <1>6 DEF PollWrite, TypeOK
  <2>4. scans' \in [Scans -> ScanRow]
    BY <1>0, <2>2, <2>3 DEF TypeOK
  <2>5. /\ poll' = [poll EXCEPT ![s] = Answered(st)]
        /\ UNCHANGED <<clock, receipts, discovered, hubs, jobs, scanObs, tagObs, itemSeen,
                       ingest, start, history>>
    BY <1>6 DEF PollWrite
  <2> QED
    BY <1>0, <1>2, <1>3, <2>4, <2>5 DEF IInv, TypeOK, RequestsOK, history
<1>7. CASE PollStop(s)
  <2>1. poll' = [poll EXCEPT ![s] = PollOff] /\ UNCHANGED <<clock, tables, ingest, start, history>>
    BY <1>7 DEF PollStop
  <2> QED
    BY <1>0, <1>2, <1>3, <2>1 DEF IInv, TypeOK, RequestsOK, tables, history
<1> QED
  BY <1>4, <1>5, <1>6, <1>7 DEF PollNext

LEMMA HubIInv ==
    ASSUME IInv, NEW h \in Hubs, HubNext(h)
    PROVE  IInv'
<1>0. TypeOK /\ RequestsOK
  BY DEF IInv
<1>1. CASE \E r \in Rooms : HubClaim(h, r) \/ HubPatch(h, r)
  <2>1. /\ hubs' \in [Hubs -> HubRow]
        /\ UNCHANGED <<clock, receipts, discovered, scans, jobs, scanObs, tagObs, itemSeen,
                       ingest, start, poll, history>>
    <3>1. ASSUME NEW r \in Rooms, HubClaim(h, r)
          PROVE  hubs' \in [Hubs -> HubRow]
      <4>1. PICK at \in 0 .. discovered[HardwareOf[h]] :
              hubs' = [hubs EXCEPT ![h] = [state |-> "claimed", room |-> r,
                                           placed |-> FALSE, lastSeen |-> at]]
        BY <3>1 DEF HubClaim
      <4>2. discovered[HardwareOf[h]] \in Time /\ at \in Nat
        BY <1>0, HardwareAssumption DEF TypeOK
      <4>3. [state |-> "claimed", room |-> r, placed |-> FALSE, lastSeen |-> at] \in HubRow
        BY <4>2 DEF HubRow
      <4> QED
        BY <1>0, <4>1, <4>3 DEF TypeOK
    <3>2. ASSUME NEW r \in Rooms, HubPatch(h, r)
          PROVE  hubs' \in [Hubs -> HubRow]
      <4>1. PICK placed \in BOOLEAN : hubs' = [hubs EXCEPT ![h].room = r, ![h].placed = placed]
        BY <3>2 DEF HubPatch
      <4>2. hubs[h] \in HubRow
        BY <1>0 DEF TypeOK
      <4>3. [hubs[h] EXCEPT !.room = r, !.placed = placed] \in HubRow
        BY <4>2 DEF HubRow
      <4>4. hubs' = [hubs EXCEPT ![h] = [hubs[h] EXCEPT !.room = r, !.placed = placed]]
        BY <1>0, <4>1 DEF TypeOK
      <4> QED
        BY <1>0, <4>3, <4>4 DEF TypeOK
    <3> QED
      BY <1>1, <3>1, <3>2 DEF HubClaim, HubPatch
  <2> QED
    BY <1>0, <2>1 DEF IInv, TypeOK, RequestsOK, history
<1>2. CASE HubDelete(h)
  <2>1. hubs' \in [Hubs -> HubRow]
    <3>1. [NoHub EXCEPT !.state = "deleted"] \in HubRow
      BY Idles DEF HubRow
    <3> QED
      BY <1>0, <1>2, <3>1 DEF HubDelete, TypeOK
  <2>2. itemSeen' \in [Items -> ItemRow]
    <3>1. ASSUME NEW i \in Items
          PROVE  itemSeen[i] \in ItemRow /\ [itemSeen[i] EXCEPT !.hub = Null] \in ItemRow
      <4>1. itemSeen[i] \in ItemRow
        BY <1>0 DEF TypeOK
      <4> QED
        BY <4>1 DEF ItemRow
    <3> QED
      BY <1>2, <3>1 DEF HubDelete
  <2>3. tagObs' \in [Hubs -> [Tags -> Obs]]
    BY <1>0, <1>2 DEF HubDelete, TypeOK, NoObs, Obs
  <2>4. jobs' \in [Scans -> [Hubs -> JobRow]]
    BY <1>0, <1>2, Idles DEF HubDelete, TypeOK
  <2>5. UNCHANGED <<clock, receipts, discovered, scans, scanObs, ingest, start, poll, history>>
    BY <1>2 DEF HubDelete
  <2> QED
    BY <1>0, <2>1, <2>2, <2>3, <2>4, <2>5 DEF IInv, TypeOK, RequestsOK, history
<1> QED
  BY <1>1, <1>2 DEF HubNext

LEMMA TickIInv == IInv /\ Tick => IInv'
  BY DEF IInv, Tick, TypeOK, RequestsOK, tables, history

LEMMA NextIInv == IInv /\ [Next]_vars => IInv'
<1> SUFFICES ASSUME IInv, [Next]_vars PROVE IInv'
  OBVIOUS
<1>1. CASE Tick
  BY <1>1, TickIInv
<1>2. ASSUME NEW b \in Bridges, IngestNext(b) PROVE IInv'
  BY <1>2, IngestReadsIInv, IngestBatchIInv
<1>3. ASSUME NEW p \in Starters, StartNext(p) PROVE IInv'
  BY <1>3, StartIInv
<1>4. ASSUME NEW s \in Scans, PollNext(s) PROVE IInv'
  BY <1>4, PollIInv
<1>5. ASSUME NEW h \in Hubs, HubNext(h) PROVE IInv'
  BY <1>5, HubIInv
<1>6. CASE UNCHANGED vars
  BY <1>6 DEF IInv, TypeOK, RequestsOK, vars, tables, history
<1> QED
  BY <1>1, <1>2, <1>3, <1>4, <1>5, <1>6 DEF Next

\* Every row and every request is always well formed.
THEOREM TypeCorrect == Spec => []TypeOK
<1>1. IInv => TypeOK
  BY DEF IInv
<1> QED
  BY <1>1, InitIInv, NextIInv, PTL DEF Spec

-----------------------------------------------------------------------------
(***************************************************************************)
(* Deliveries are counted once per retention period                        *)
(***************************************************************************)

\* Only the batch of an ingest touches receipts and counts.
LEMMA OnlyBatchCounts ==
    ASSUME [Next]_vars, \A b \in Bridges : ~IngestBatch(b)
    PROVE  UNCHANGED <<receipts, discovered, counted, acceptedAt>>
  BY DEF Next, vars, tables, history, Tick, IngestNext, StartNext, PollNext, HubNext,
         IngestReceive, IngestFindReceipt, IngestFindHub, IngestFindScan, IngestDuplicate,
         IngestFail, StartReceive, StartReadHubs, StartInsert, StartFail, PollReadScan,
         PollReadJobs, PollWrite, PollStop, HubClaim, HubPatch, HubDelete

LEMMA ClockAdvances ==
    ASSUME IInv, [Next]_vars
    PROVE  clock \in Nat /\ clock' \in Nat /\ clock =< clock'
<1>1. clock \in Nat
  BY DEF IInv, TypeOK
<1>2. clock' = clock \/ clock' = clock + 1
  BY DEF Next, vars, tables, history, Tick, IngestNext, StartNext, PollNext, HubNext,
         IngestReceive, IngestFindReceipt, IngestFindHub, IngestFindScan, IngestDuplicate,
         IngestFail, IngestBatch, StartReceive, StartReadHubs, StartInsert, StartFail,
         PollReadScan, PollReadJobs, PollWrite, PollStop, HubClaim, HubPatch, HubDelete
<1> QED
  BY <1>1, <1>2

RInv == IInv /\ ReceiptsCoverRetention

LEMMA NextRInv == RInv /\ [Next]_vars => RInv'
<1> SUFFICES ASSUME RInv, [Next]_vars PROVE ReceiptsCoverRetention'
  BY NextIInv DEF RInv
<1>1. /\ clock \in Nat /\ clock' \in Nat /\ clock =< clock' /\ KeepFor \in Nat
      /\ receipts \in [EventIds -> Time] /\ acceptedAt \in [EventIds -> Time]
  BY ClockAdvances, WindowsAssumption DEF RInv, IInv, TypeOK
<1>2. CASE UNCHANGED <<receipts, acceptedAt>>
  BY <1>1, <1>2 DEF RInv, ReceiptsCoverRetention
<1>3. ASSUME NEW b \in Bridges, IngestBatch(b)
      PROVE  ReceiptsCoverRetention'
  <2> DEFINE id == EventId(ingest[b].msg)
             now == ingest[b].now
  <2>1. now \in Nat /\ now =< clock /\ clock' = clock
    BY <1>3 DEF IngestBatch, RInv, IInv, RequestsOK
  <2>2. /\ receipts' = ReceiptsAfter(id, now)
        /\ acceptedAt' = [acceptedAt EXCEPT ![id] = now]
    BY <1>3 DEF IngestBatch
  <2> HIDE DEF id, now
  <2>3. ASSUME NEW k \in EventIds
        PROVE  IF receipts'[k] = Never
               THEN acceptedAt'[k] = Never \/ acceptedAt'[k] + KeepFor < clock'
               ELSE receipts'[k] = acceptedAt'[k]
    <3>1. CASE k = id
      BY <1>1, <2>1, <2>2, <3>1 DEF ReceiptsAfter
    <3>2. CASE k # id
      <4>1. acceptedAt'[k] = acceptedAt[k]
        BY <1>1, <2>2, <3>2
      <4>2. receipts'[k] = IF receipts[k] < now - KeepFor THEN Never ELSE receipts[k]
        BY <2>2, <3>2 DEF ReceiptsAfter
      <4>3. receipts[k] \in Time /\ acceptedAt[k] \in Time
        BY <1>1
      <4> QED
        BY <1>1, <2>1, <4>1, <4>2, <4>3 DEF RInv, ReceiptsCoverRetention
    <3> QED
      BY <3>1, <3>2
  <2> QED
    BY <2>3 DEF ReceiptsCoverRetention
<1> QED
  BY <1>2, <1>3, OnlyBatchCounts

\* Whatever is delivered, and however requests interleave, an event without a
\* receipt was last counted more than KeepFor ago.
THEOREM ReceiptsCover == Spec => []ReceiptsCoverRetention
<1>1. Init => RInv
  BY InitIInv DEF RInv, Init, ReceiptsCoverRetention
<1>2. RInv => ReceiptsCoverRetention
  BY DEF RInv
<1> QED
  BY <1>1, <1>2, NextRInv, PTL DEF Spec

\* A retry is never added to the counts while the receipt can still be kept.
THEOREM CountedOnce == Spec => CountedOncePerRetention
<1>1. ASSUME RInv, [Next]_vars
      PROVE  [\A k \in EventIds :
                 counted'[k] # counted[k] =>
                    /\ counted'[k] = counted[k] + 1
                    /\ acceptedAt[k] = Never \/ acceptedAt[k] + KeepFor < clock]_vars
  <2>1. CASE UNCHANGED counted
    BY <2>1
  <2>2. ASSUME NEW b \in Bridges, IngestBatch(b), NEW k \in EventIds, counted'[k] # counted[k]
        PROVE  /\ counted'[k] = counted[k] + 1
               /\ acceptedAt[k] = Never \/ acceptedAt[k] + KeepFor < clock
    <3>1. counted' = [counted EXCEPT ![EventId(ingest[b].msg)] = @ + 1]
      BY <2>2 DEF IngestBatch
    <3>2. k = EventId(ingest[b].msg) /\ counted'[k] = counted[k] + 1
      BY <1>1, <2>2, <3>1 DEF RInv, IInv, TypeOK
    <3>3. receipts[k] = Never
      BY <2>2, <3>2 DEF IngestBatch, ReceiptIsNew
    <3> QED
      BY <1>1, <3>2, <3>3 DEF RInv, ReceiptsCoverRetention
  <2> QED
    BY <1>1, <2>1, <2>2, OnlyBatchCounts
<1>2. Init => RInv
  BY InitIInv DEF RInv, Init, ReceiptsCoverRetention
<1> QED
  BY <1>1, <1>2, NextRInv, PTL DEF Spec, CountedOncePerRetention

-----------------------------------------------------------------------------
(***************************************************************************)
(* Final scans                                                             *)
(***************************************************************************)
LEMMA ScansWriters ==
    ASSUME [Next]_vars
    PROVE  \/ UNCHANGED <<scans, scanObs>>
           \/ \E b \in Bridges : IngestBatch(b)
           \/ \E p \in Starters, s \in Scans : StartInsert(p, s)
           \/ \E s \in Scans : PollWrite(s)
  BY DEF Next, vars, tables, history, Tick, IngestNext, StartNext, PollNext, HubNext,
         IngestReceive, IngestFindReceipt, IngestFindHub, IngestFindScan, IngestDuplicate,
         IngestFail, StartReceive, StartReadHubs, StartFail, PollReadScan, PollReadJobs,
         PollStop, HubClaim, HubPatch, HubDelete

DInv == IInv /\ FinalScansAreDated

LEMMA NextDInv == DInv /\ [Next]_vars => DInv'
<1> SUFFICES ASSUME DInv, [Next]_vars PROVE FinalScansAreDated'
  BY NextIInv DEF DInv
<1>0. /\ TypeOK /\ RequestsOK /\ FinalScansAreDated
      /\ scans \in [Scans -> ScanRow]
  BY DEF DInv, IInv, TypeOK
<1>1. CASE UNCHANGED scans
  BY <1>0, <1>1 DEF FinalScansAreDated
<1>2. ASSUME NEW b \in Bridges, IngestBatch(b), ~UNCHANGED scans PROVE FinalScansAreDated'
  <2>1. scans' = [scans EXCEPT ![ingest[b].scan].status = "scanning"]
    BY <1>2 DEF IngestBatch, CreditScan
  <2> QED
    BY <1>0, <2>1 DEF FinalScansAreDated, ScanRow
<1>3. ASSUME NEW p \in Starters, NEW s \in Scans, StartInsert(p, s) PROVE FinalScansAreDated'
  <2> DEFINE now == start[p].now
  <2>1. now \in Nat
    BY <1>0, <1>3 DEF StartInsert, RequestsOK
  <2>2. ASSUME NEW x \in Scans, scans'[x].status \in FinalStatus
        PROVE  scans'[x].completedAt # Never
    <3>1. scans[x] \in ScanRow
      BY <1>0
    <3>2. x # s
      BY <1>3, <2>2 DEF StartInsert
    <3>3. CASE x \in OpenScans(start[p].room)
      <4>1. scans'[x] = [scans[x] EXCEPT !.status = "expired",
                                         !.completedAt = CompletedOr(@, now)]
        BY <1>3, <3>2, <3>3 DEF StartInsert
      <4> QED
        BY <2>1, <3>1, <4>1 DEF CompletedOr, ScanRow
    <3>4. CASE x \notin OpenScans(start[p].room)
      BY <1>0, <1>3, <2>2, <3>2, <3>4 DEF StartInsert, FinalScansAreDated
    <3> QED
      BY <3>3, <3>4
  <2> QED
    BY <2>2 DEF FinalScansAreDated
<1>4. ASSUME NEW s \in Scans, PollWrite(s) PROVE FinalScansAreDated'
  <2>1. poll[s].at \in Nat
    BY <1>0, <1>4 DEF PollWrite, RequestsOK
  <2>2. scans' = [scans EXCEPT
                    ![s].status = poll[s].status,
                    ![s].completedAt = IF poll[s].status \in FinalStatus
                                       THEN poll[s].at ELSE Never]
    BY <1>4 DEF PollWrite
  <2> QED
    BY <1>0, <2>1, <2>2 DEF FinalScansAreDated, ScanRow
<1>5. \/ UNCHANGED scans
      \/ \E b \in Bridges : IngestBatch(b)
      \/ \E p \in Starters, s \in Scans : StartInsert(p, s)
      \/ \E s \in Scans : PollWrite(s)
  BY ScansWriters
<1> QED
  BY <1>1, <1>2, <1>3, <1>4, <1>5

\* A final scan carries its completion time, whoever wrote it last.
THEOREM FinalDated == Spec => []FinalScansAreDated
<1>0. ASSUME Init PROVE FinalScansAreDated
  <2>1. scans = [s \in Scans |-> NoScan]
    BY <1>0 DEF Init
  <2>2. NoScan.status \notin FinalStatus
    BY DEF NoScan, FinalStatus
  <2> QED
    BY <2>1, <2>2 DEF FinalScansAreDated
<1>1. Init => DInv
  BY <1>0, InitIInv DEF DInv
<1>2. DInv => FinalScansAreDated
  BY DEF DInv
<1> QED
  BY <1>1, <1>2, NextDInv, PTL DEF Spec

\* No ingest picks a final scan, and only one that had picked it before, or the
\* scan's own client, changes it.
THEOREM FinalLeftAlone == Spec => FinalScansAreLeftAlone
<1>1. ASSUME IInv, [Next]_vars, NEW s \in Scans,
             scans[s].status \in FinalStatus,
             \A b \in Bridges : ingest[b].scan # s,
             poll[s].step # "write"
      PROVE  scans'[s].status = scans[s].status /\ scanObs'[s] \in {scanObs[s], NoReadings}
  <2>0. scans \in [Scans -> ScanRow] /\ scanObs \in [Scans -> [Hubs -> [Tags -> Obs]]]
    BY <1>1 DEF IInv, TypeOK
  <2>1. CASE UNCHANGED <<scans, scanObs>>
    BY <2>1
  <2>2. ASSUME NEW b \in Bridges, IngestBatch(b), ~UNCHANGED <<scans, scanObs>>
        PROVE  scans'[s].status = scans[s].status /\ scanObs'[s] = scanObs[s]
    <3>1. CreditScan(ingest[b].scan, ingest[b].hub, ingest[b].msg) /\ ingest[b].scan # s
      BY <1>1, <2>2 DEF IngestBatch
    <3> QED
      BY <2>0, <3>1 DEF CreditScan
  <2>3. ASSUME NEW p \in Starters, NEW x \in Scans, StartInsert(p, x)
        PROVE  scans'[s].status = scans[s].status /\ scanObs'[s] \in {scanObs[s], NoReadings}
    <3>1. s # x /\ s \notin OpenScans(start[p].room)
      BY <1>1, <2>3 DEF StartInsert, Exists, OpenScans
    <3> QED
      BY <2>0, <2>3, <3>1 DEF StartInsert
  <2>4. ASSUME NEW x \in Scans, PollWrite(x)
        PROVE  scans'[s].status = scans[s].status /\ scanObs'[s] = scanObs[s]
    <3>1. x # s
      BY <1>1, <2>4 DEF PollWrite
    <3> QED
      BY <2>0, <2>4, <3>1 DEF PollWrite
  <2> QED
    BY <1>1, <2>1, <2>2, <2>3, <2>4, ScansWriters
<1>2. ASSUME IInv, [Next]_vars, NEW s \in Scans, NEW b \in Bridges,
             scans[s].status \in FinalStatus, ingest'[b].scan = s
      PROVE  ingest[b].scan = s
  <2>0. /\ ingest \in [Bridges -> IngestReq] /\ IngestIdle.scan # s
        /\ s # Null
    BY <1>2, NullAssumption DEF IInv, TypeOK, IngestIdle
  <2>1. CASE UNCHANGED ingest
    BY <1>2, <2>1
  <2>2. ASSUME NEW a \in Bridges, IngestNext(a)
        PROVE  ingest[b].scan = s
    <3>1. CASE \E m \in Messages : IngestReceive(a, m)
      BY <1>2, <2>0, <3>1 DEF IngestReceive, IngestIdle, IngestReq
    <3>2. CASE IngestFindReceipt(a)
      BY <1>2, <2>0, <3>2 DEF IngestFindReceipt, IngestReq
    <3>3. CASE IngestFindHub(a)
      <4>1. ASSUME NEW st, NEW h, NEW room,
                   ingest' = [ingest EXCEPT ![a].step = st, ![a].hub = h, ![a].room = room]
            PROVE  ingest'[b].scan = ingest[b].scan
        BY <2>0, <4>1 DEF IngestReq
      <4>2. CASE ingest' = [ingest EXCEPT ![a].step = "batch"]
        BY <1>2, <2>0, <4>2 DEF IngestReq
      <4> DEFINE m == ingest[a].msg
                 found == {h \in Hubs : Claimed(h) /\ HardwareOf[h] = m.hardware}
      <4>3. CASE \E h \in found :
                   ingest' = [ingest EXCEPT ![a].step = IF m.tag = Null THEN "batch" ELSE "scan",
                                            ![a].hub = h, ![a].room = hubs[h].room]
        <5>1. ingest'[b].scan = ingest[b].scan
          BY <4>1, <4>3
        <5> QED
          BY <1>2, <5>1
      <4> HIDE DEF m, found
      <4> QED
        BY <3>3, <4>2, <4>3 DEF IngestFindHub, m, found
    <3>4. CASE IngestFindScan(a)
      <4>1. ASSUME NEW x \in Newest(ScansFor(ingest[a].hub, ingest[a].room, ingest[a].msg.seenAt))
            PROVE  x # s
        BY <1>2, <4>1 DEF Newest, ScansFor
      <4> QED
        BY <1>2, <2>0, <3>4, <4>1 DEF IngestFindScan, IngestReq
    <3>5. CASE IngestBatch(a) \/ IngestDuplicate(a) \/ IngestFail(a)
      <4>1. ingest' = [ingest EXCEPT ![a] = IngestIdle]
        BY <3>5 DEF IngestBatch, IngestDuplicate, IngestFail
      <4> QED
        BY <1>2, <2>0, <4>1
    <3> QED
      BY <2>2, <3>1, <3>2, <3>3, <3>4, <3>5 DEF IngestNext
  <2>3. UNCHANGED ingest \/ \E a \in Bridges : IngestNext(a)
    BY <1>2 DEF Next, Tick, StartNext, StartReceive, StartReadHubs, StartInsert, StartFail,
                PollNext, PollReadScan, PollReadJobs, PollWrite, PollStop,
                HubNext, HubClaim, HubPatch, HubDelete, vars
  <2> QED
    BY <2>1, <2>2, <2>3
<1>3. IInv /\ [Next]_vars =>
        [\A s \in Scans :
            scans[s].status \in FinalStatus =>
               /\ \A b \in Bridges : ingest'[b].scan = s => ingest[b].scan = s
               /\ \/ \E b \in Bridges : ingest[b].scan = s
                  \/ poll[s].step = "write"
                  \/ scans'[s].status = scans[s].status /\ scanObs'[s] \in {scanObs[s], NoReadings}]_vars
  BY <1>1, <1>2
<1> QED
  BY <1>3, InitIInv, NextIInv, PTL DEF Spec, FinalScansAreLeftAlone

-----------------------------------------------------------------------------
(***************************************************************************)
(* Last-seen times                                                         *)
(***************************************************************************)

LEMMA ItemsWriters ==
    ASSUME [Next]_vars
    PROVE  \/ UNCHANGED <<hubs, tagObs, itemSeen>>
           \/ \E b \in Bridges : IngestBatch(b)
           \/ \E h \in Hubs, r \in Rooms : HubClaim(h, r) \/ HubPatch(h, r)
           \/ \E h \in Hubs : HubDelete(h)
<1> DEFINE Same == UNCHANGED <<hubs, tagObs, itemSeen>>
<1>1. CASE Tick \/ UNCHANGED vars
  BY <1>1 DEF Tick, vars, tables
<1>2. ASSUME NEW b \in Bridges, IngestNext(b)
      PROVE  Same \/ IngestBatch(b)
  BY <1>2 DEF IngestNext, tables, IngestReceive, IngestFindReceipt, IngestFindHub,
              IngestFindScan, IngestDuplicate, IngestFail
<1>3. ASSUME NEW p \in Starters, StartNext(p)
      PROVE  Same
  BY <1>3 DEF StartNext, tables, StartReceive, StartReadHubs, StartInsert, StartFail
<1>4. ASSUME NEW s \in Scans, PollNext(s)
      PROVE  Same
  BY <1>4 DEF PollNext, tables, PollReadScan, PollReadJobs, PollWrite, PollStop
<1> QED
  BY <1>1, <1>2, <1>3, <1>4 DEF Next, HubNext

NoneBack ==
    /\ \A h \in Hubs : Claimed(h) /\ Claimed(h)' => hubs'[h].lastSeen >= hubs[h].lastSeen
    /\ \A i \in Items : itemSeen'[i].at >= itemSeen[i].at
    /\ \A h \in Hubs, t \in Tags :
          \/ tagObs'[h][t].last >= tagObs[h][t].last
          \/ tagObs'[h][t] = NoObs
          \/ tagObs[h][t].last < clock - KeepFor

LEMMA BatchNoneBack ==
    ASSUME IInv, NEW b \in Bridges, IngestBatch(b)
    PROVE  NoneBack
<1>0. /\ hubs \in [Hubs -> HubRow] /\ itemSeen \in [Items -> ItemRow]
      /\ tagObs \in [Hubs -> [Tags -> Obs]] /\ clock \in Nat /\ KeepFor \in Nat
  BY WindowsAssumption DEF IInv, TypeOK
<1>1. PICK m, now, hub, room :
        /\ m = ingest[b].msg /\ now = ingest[b].now
        /\ hub = ingest[b].hub /\ room = ingest[b].room
  OBVIOUS
<1>2. m.seenAt \in Nat /\ now \in Nat /\ now =< clock
  BY <1>1, MessagesAssumption DEF IInv, RequestsOK, IngestBatch
<1>3. \A h \in Hubs : Claimed(h) /\ Claimed(h)' => hubs'[h].lastSeen >= hubs[h].lastSeen
  <2>1. \A h \in Hubs : hubs[h].lastSeen \in Nat
    BY <1>0 DEF HubRow
  <2>2. \/ hubs' = hubs
        \/ hubs[hub].lastSeen < m.seenAt /\ hubs' = [hubs EXCEPT ![hub].lastSeen = m.seenAt]
    BY <1>1 DEF IngestBatch
  <2>3. CASE hubs' = hubs
    BY <2>1, <2>3
  <2>4. CASE hubs[hub].lastSeen < m.seenAt /\ hubs' = [hubs EXCEPT ![hub].lastSeen = m.seenAt]
    <3>1. \A h \in Hubs : hubs'[h].lastSeen = IF h = hub THEN m.seenAt ELSE hubs[h].lastSeen
      BY <1>0, <2>4 DEF HubRow
    <3> QED
      BY <1>2, <2>1, <2>4, <3>1
  <2> QED
    BY <2>2, <2>3, <2>4
<1>4. \A i \in Items : itemSeen[i].at \in Int
  BY <1>0 DEF ItemRow
<1>5. \A h \in Hubs, t \in Tags : tagObs[h][t].last \in Int
  BY <1>0 DEF Obs
<1>6. CASE UNCHANGED <<tagObs, itemSeen>>
  BY <1>3, <1>4, <1>5, <1>6 DEF NoneBack
<1>7. CASE StoreReading(m, hub, room, now)
  <2>1. \A i \in Items : itemSeen'[i].at >= itemSeen[i].at
    BY <1>2, <1>4, <1>7 DEF StoreReading
  <2>2. ASSUME NEW h \in Hubs, NEW t \in Tags
        PROVE  \/ tagObs'[h][t].last >= tagObs[h][t].last
               \/ tagObs[h][t].last < clock - KeepFor
    <3>1. PICK o : o = PruneObs(tagObs[h][t], now)
      OBVIOUS
    <3>2. tagObs'[h][t] = o \/ tagObs'[h][t] = Upsert(o, m.reads, m.seenAt)
      BY <1>7, <3>1 DEF StoreReading
    <3>3. o = tagObs[h][t] \/ tagObs[h][t].last < now - KeepFor
      BY <3>1 DEF PruneObs
    <3>4. CASE o = tagObs[h][t]
      BY <1>2, <1>5, <3>2, <3>4 DEF Upsert, Later
    <3>5. CASE tagObs[h][t].last < now - KeepFor
      BY <1>0, <1>2, <1>5, <3>5
    <3> QED
      BY <3>3, <3>4, <3>5
  <2> QED
    BY <1>3, <2>1, <2>2 DEF NoneBack
<1> QED
  BY <1>1, <1>6, <1>7 DEF IngestBatch

LEMMA HubNoneBack ==
    ASSUME IInv, NEW h \in Hubs,
           (\E r \in Rooms : HubClaim(h, r) \/ HubPatch(h, r)) \/ HubDelete(h)
    PROVE  NoneBack
<1>0. /\ hubs \in [Hubs -> HubRow] /\ itemSeen \in [Items -> ItemRow]
      /\ tagObs \in [Hubs -> [Tags -> Obs]]
      /\ \A g \in Hubs : hubs[g].lastSeen \in Nat
      /\ \A i \in Items : itemSeen[i].at \in Int
      /\ \A g \in Hubs, t \in Tags : tagObs[g][t].last \in Int
  BY DEF IInv, TypeOK, HubRow, ItemRow, Obs
<1>1. ASSUME NEW r \in Rooms, HubClaim(h, r)
      PROVE  NoneBack
  <2>1. UNCHANGED <<tagObs, itemSeen>> /\ ~Claimed(h) /\ \A g \in Hubs \ {h} : hubs'[g] = hubs[g]
    BY <1>0, <1>1 DEF HubClaim, Claimed
  <2> QED
    BY <1>0, <2>1 DEF NoneBack
<1>2. ASSUME NEW r \in Rooms, HubPatch(h, r)
      PROVE  NoneBack
  <2>1. UNCHANGED <<tagObs, itemSeen>>
    BY <1>2 DEF HubPatch
  <2>2. PICK placed \in BOOLEAN : hubs' = [hubs EXCEPT ![h].room = r, ![h].placed = placed]
    BY <1>2 DEF HubPatch
  <2>3. PICK row : row = [hubs[h] EXCEPT !.room = r, !.placed = placed]
    OBVIOUS
  <2>4. hubs' = [hubs EXCEPT ![h] = row] /\ row.lastSeen = hubs[h].lastSeen
    BY <1>0, <2>2, <2>3 DEF HubRow
  <2>5. \A g \in Hubs : hubs'[g].lastSeen = hubs[g].lastSeen
    BY <1>0, <2>4
  <2> QED
    BY <1>0, <2>1, <2>5 DEF NoneBack
<1>3. CASE HubDelete(h)
  <2>1. /\ ~Claimed(h)' /\ \A g \in Hubs \ {h} : hubs'[g] = hubs[g]
        /\ \A g \in Hubs, t \in Tags : tagObs'[g][t] = NoObs \/ tagObs'[g][t] = tagObs[g][t]
        /\ \A i \in Items : itemSeen'[i] = [itemSeen[i] EXCEPT !.hub = Null] \/ itemSeen'[i] = itemSeen[i]
    BY <1>0, <1>3 DEF HubDelete, Claimed, NoHub
  <2>2. \A i \in Items : itemSeen'[i].at = itemSeen[i].at
    BY <1>0, <2>1 DEF ItemRow
  <2> QED
    BY <1>0, <2>1, <2>2 DEF NoneBack
<1> QED
  BY <1>1, <1>2, <1>3

LEMMA NothingBack ==
    ASSUME IInv, UNCHANGED <<hubs, tagObs, itemSeen>>
    PROVE  NoneBack
<1>1. /\ \A g \in Hubs : hubs[g].lastSeen \in Nat
      /\ \A i \in Items : itemSeen[i].at \in Int
      /\ \A g \in Hubs, t \in Tags : tagObs[g][t].last \in Int
  BY DEF IInv, TypeOK, HubRow, ItemRow, Obs
<1> QED
  BY <1>1 DEF NoneBack

\* However late, often or out of order a reading is delivered, no last-seen time that is kept
\* moves back.
THEOREM LastSeenForward == Spec => LastSeenNeverRegresses
<1>1. ASSUME IInv, [Next]_vars
      PROVE  [NoneBack]_vars
  BY <1>1, ItemsWriters, BatchNoneBack, HubNoneBack, NothingBack DEF vars
<1> QED
  BY <1>1, InitIInv, NextIInv, PTL DEF Spec, LastSeenNeverRegresses, NoneBack

-----------------------------------------------------------------------------
(***************************************************************************)
(* Sums over a finite set, as MapThenSumSet defines them.                  *)
(***************************************************************************)

\* A property that fails for some subset fails for a smallest one.
LEMMA SmallestBad ==
    ASSUME NEW S, IsFiniteSet(S), NEW B, B \subseteq SUBSET S, B # {}
    PROVE  \E T \in B : \A U \in B : U \subseteq T => U = T
<1>1. IsWellFoundedOn(StrictSubsetOrdering(S), FiniteSubsetsOf(S))
  BY FS_StrictSubsetOrderingWellFounded
<1>2. B \subseteq FiniteSubsetsOf(S)
  BY FS_FiniteSubsetsOfFinite
<1>3. PICK T \in B : \A U \in B : ~ (<<U, T>> \in StrictSubsetOrdering(S))
  BY <1>1, <1>2, WFMin
<1>4. ASSUME NEW U \in B, U \subseteq T, U # T PROVE FALSE
  BY <1>3, <1>4 DEF StrictSubsetOrdering
<1> QED
  BY <1>3, <1>4

Reads(f, T) == MapThenSumSet(LAMBDA t : f[t].reads, T)
One(U) == CHOOSE x \in U : TRUE
\* g is the recursive function that the sum over T is defined by.
Adds(f, g, T) == g = [U \in SUBSET T |-> IF U = {} THEN 0 ELSE f[One(U)].reads + g[U \ {One(U)}]]
Adder(f, T) == CHOOSE g : Adds(f, g, T)

LEMMA ReadsIs ==
    ASSUME NEW f, NEW T
    PROVE  Reads(f, T) = Adder(f, T)[T]
  BY DEF Reads, MapThenSumSet, MapThenFoldSet, Adder, Adds, One

LEMMA OneIn == \A U : U # {} => One(U) \in U
  BY DEF One

LEMMA AddsOnce ==
    ASSUME NEW f, NEW T, IsFiniteSet(T), NEW g, Adds(f, g, T),
           NEW U \in SUBSET T, NEW k, Adds(f, k, U)
    PROVE  \A W \in SUBSET U : g[W] = k[W]
<1> DEFINE B == {W \in SUBSET U : g[W] # k[W]}
<1>1. SUFFICES ASSUME B # {} PROVE FALSE
  OBVIOUS
<1>2. B \subseteq SUBSET T
  OBVIOUS
<1>3. PICK W \in B : \A V \in B : V \subseteq W => V = W
  <2> HIDE DEF B
  <2> QED
    BY <1>1, <1>2, SmallestBad
<1>4. /\ g[W] = IF W = {} THEN 0 ELSE f[One(W)].reads + g[W \ {One(W)}]
      /\ k[W] = IF W = {} THEN 0 ELSE f[One(W)].reads + k[W \ {One(W)}]
  BY <1>3 DEF Adds
<1>5. W # {} /\ One(W) \in W
  BY <1>3, <1>4, OneIn
<1>6. W \ {One(W)} \in SUBSET U /\ W \ {One(W)} \notin B
  BY <1>3, <1>5
<1> QED
  BY <1>3, <1>4, <1>5, <1>6

LEMMA AdderAdds ==
    ASSUME NEW f, NEW S, IsFiniteSet(S)
    PROVE  Adds(f, Adder(f, S), S)
<1> DEFINE B == {T \in SUBSET S : ~ \E g : Adds(f, g, T)}
<1>1. SUFFICES B = {}
  <2>1. \E g : Adds(f, g, S)
    BY <1>1
  <2> QED
    BY <2>1 DEF Adder
<1>2. SUFFICES ASSUME B # {} PROVE FALSE
  OBVIOUS
<1>3. PICK T \in B : \A U \in B : U \subseteq T => U = T
  <2>1. B \subseteq SUBSET S
    OBVIOUS
  <2> HIDE DEF B
  <2> QED
    BY <1>2, <2>1, SmallestBad
<1>4. ASSUME NEW U \in SUBSET T, U # T
      PROVE  Adds(f, Adder(f, U), U)
  <2>1. \E g : Adds(f, g, U)
    BY <1>3, <1>4
  <2> QED
    BY <2>1 DEF Adder
<1> DEFINE Rest(U) == U \ {One(U)}
           h == [U \in SUBSET T |-> IF U = {} THEN 0 ELSE f[One(U)].reads + Adder(f, Rest(U))[Rest(U)]]
<1>5. ASSUME NEW U \in SUBSET T, U # {}
      PROVE  /\ Rest(U) \in SUBSET T /\ Rest(U) # T
             /\ h[Rest(U)] = Adder(f, Rest(U))[Rest(U)]
  <2>1. One(U) \in U
    BY <1>5, OneIn
  <2>2. PICK V : V = Rest(U)
    OBVIOUS
  <2>3. V \in SUBSET T /\ V # T
    BY <2>1, <2>2
  <2>4. Adder(f, V)[V] = IF V = {} THEN 0 ELSE f[One(V)].reads + Adder(f, V)[Rest(V)]
    <3>1. Adds(f, Adder(f, V), V)
      BY <1>4, <2>3
    <3> HIDE DEF h
    <3> QED
      BY <3>1 DEF Adds
  <2>5. V # {} => Adder(f, V)[Rest(V)] = Adder(f, Rest(V))[Rest(V)]
    <3>1. ASSUME V # {}
          PROVE  Adder(f, V)[Rest(V)] = Adder(f, Rest(V))[Rest(V)]
      <4>1. One(V) \in V
        BY <3>1, OneIn
      <4>2. PICK W : W = Rest(V)
        OBVIOUS
      <4>3. W \in SUBSET V /\ W \in SUBSET T /\ W # T
        BY <2>3, <4>1, <4>2
      <4>4. Adds(f, Adder(f, V), V) /\ Adds(f, Adder(f, W), W)
        BY <1>4, <2>3, <4>3
      <4>5. IsFiniteSet(V)
        BY <1>3, <2>3, FS_Subset
      <4>6. Adder(f, V)[W] = Adder(f, W)[W]
        BY <4>3, <4>4, <4>5, AddsOnce
      <4> QED
        BY <4>2, <4>6
    <3> QED
      BY <3>1
  <2>6. h[V] = IF V = {} THEN 0 ELSE f[One(V)].reads + Adder(f, Rest(V))[Rest(V)]
    BY <2>3
  <2> QED
    BY <2>2, <2>3, <2>4, <2>5, <2>6
<1>6. Adds(f, h, T)
  <2>1. \A U \in SUBSET T : h[U] = IF U = {} THEN 0 ELSE f[One(U)].reads + h[U \ {One(U)}]
    BY <1>5
  <2> QED
    BY <2>1 DEF Adds
<1> QED
  BY <1>3, <1>6

\* The sum over a set, one element at a time.
LEMMA ReadsStep ==
    ASSUME NEW f, NEW S, IsFiniteSet(S)
    PROVE  Reads(f, S) = IF S = {} THEN 0 ELSE f[One(S)].reads + Reads(f, S \ {One(S)})
<1>1. Adds(f, Adder(f, S), S)
  BY AdderAdds
<1>2. Adder(f, S)[S] = IF S = {} THEN 0 ELSE f[One(S)].reads + Adder(f, S)[S \ {One(S)}]
  BY <1>1 DEF Adds
<1>3. PICK T : T = S \ {One(S)}
  OBVIOUS
<1>4. T \in SUBSET S /\ IsFiniteSet(T)
  BY <1>3, FS_Subset
<1>5. Adds(f, Adder(f, T), T)
  BY <1>4, AdderAdds
<1>6. Adder(f, S)[T] = Adder(f, T)[T]
  BY <1>1, <1>4, <1>5, AddsOnce
<1> QED
  BY <1>2, <1>3, <1>6, ReadsIs

LEMMA ReadsZero ==
    ASSUME NEW f, NEW S, IsFiniteSet(S), \A t \in S : f[t].reads = 0
    PROVE  Reads(f, S) = 0
<1> DEFINE B == {T \in SUBSET S : Reads(f, T) # 0}
<1>1. SUFFICES ASSUME B # {} PROVE FALSE
  OBVIOUS
<1>2. PICK T \in B : \A U \in B : U \subseteq T => U = T
  <2>1. B \subseteq SUBSET S
    OBVIOUS
  <2> HIDE DEF B
  <2> QED
    BY <1>1, <2>1, SmallestBad
<1>3. IsFiniteSet(T)
  BY <1>2, FS_Subset
<1>4. Reads(f, T) = IF T = {} THEN 0 ELSE f[One(T)].reads + Reads(f, T \ {One(T)})
  BY <1>3, ReadsStep
<1>5. T # {} /\ One(T) \in T
  BY <1>2, <1>4, OneIn
<1>6. Reads(f, T \ {One(T)}) = 0 /\ f[One(T)].reads = 0
  BY <1>2, <1>5
<1> QED
  BY <1>2, <1>4, <1>5, <1>6

\* The sum grows by what one element grows.
LEMMA ReadsGrow ==
    ASSUME NEW f, NEW g, NEW S, IsFiniteSet(S), NEW x \in S, NEW n \in Nat,
           \A t \in S : f[t].reads \in Nat,
           g[x].reads = f[x].reads + n,
           \A t \in S : t # x => g[t].reads = f[t].reads
    PROVE  Reads(g, S) = Reads(f, S) + n
<1> DEFINE Right(T) == Reads(f, T) \in Nat /\ Reads(g, T) = Reads(f, T) + (IF x \in T THEN n ELSE 0)
           B == {T \in SUBSET S : ~Right(T)}
<1>1. SUFFICES ASSUME B # {} PROVE FALSE
  OBVIOUS
<1>2. PICK T \in B : \A U \in B : U \subseteq T => U = T
  <2>1. B \subseteq SUBSET S
    OBVIOUS
  <2> HIDE DEF B
  <2> QED
    BY <1>1, <2>1, SmallestBad
<1>3. IsFiniteSet(T)
  BY <1>2, FS_Subset
<1>4. /\ Reads(f, T) = IF T = {} THEN 0 ELSE f[One(T)].reads + Reads(f, T \ {One(T)})
      /\ Reads(g, T) = IF T = {} THEN 0 ELSE g[One(T)].reads + Reads(g, T \ {One(T)})
  BY <1>3, ReadsStep
<1>5. T # {} /\ One(T) \in T
  <2>1. T = {} => Right(T)
    BY <1>4
  <2> QED
    BY <1>2, <2>1, OneIn
<1>6. Right(T \ {One(T)})
  BY <1>2, <1>5
<1>7. f[One(T)].reads \in Nat /\ g[One(T)].reads = f[One(T)].reads + (IF One(T) = x THEN n ELSE 0)
  BY <1>2, <1>5
<1>8. Right(T)
  BY <1>4, <1>5, <1>6, <1>7
<1> QED
  BY <1>2, <1>8

-----------------------------------------------------------------------------
(***************************************************************************)
(* The counts of a scan's jobs.  They agree with the stored observations   *)
(* because only a batch adds to either, to both at once, and because rows  *)
(* come into being empty and together: an id without a row has no job, no  *)
(* observation, no client and no request that credits it.                  *)
(***************************************************************************)
JobsOK ==
    /\ \A s \in Scans, h \in Hubs : jobs[s][h].status = "none" => jobs[s][h] = NoJob
    /\ \A s \in Scans : ~Exists(s) =>
          /\ scanObs[s] = NoReadings
          /\ \A h \in Hubs : jobs[s][h] = NoJob
          /\ poll[s].step = "off"
CreditsOK ==
    \A b \in Bridges :
        /\ ingest[b].scan # Null =>
              Exists(ingest[b].scan) /\ ingest[b].hub \in Hubs /\ ingest[b].msg.tag \in Tags
        /\ ingest[b].step = "scan" => ingest[b].hub \in Hubs /\ ingest[b].msg.tag \in Tags

Agree(s, h) ==
    jobs[s][h] # NoJob /\ ObservationsKept(s)
    => jobs[s][h].reads = Reads(scanObs[s][h], Tags)

JInv == /\ IInv /\ JobsOK /\ CreditsOK
        /\ \A s \in Scans, h \in Hubs : Agree(s, h)

LEMMA AgreeIs ==
    JobCountsMatchObservations <=> \A s \in Scans, h \in Hubs : Agree(s, h)
<1>1. ASSUME NEW s, NEW h
      PROVE  MapThenSumSet(LAMBDA t : scanObs[s][h][t].reads, Tags) = Reads(scanObs[s][h], Tags)
  BY DEF Reads
<1>2. ASSUME NEW s, NEW h
      PROVE  Agree(s, h) <=>
               (jobs[s][h] # NoJob /\ ObservationsKept(s)
                => jobs[s][h].reads = MapThenSumSet(LAMBDA t : scanObs[s][h][t].reads, Tags))
  BY <1>1 DEF Agree
<1> QED
  BY <1>2 DEF JobCountsMatchObservations

LEMMA EmptySum ==
    ASSUME NEW h \in Hubs
    PROVE  Reads(NoReadings[h], Tags) = 0
<1>1. \A t \in Tags : NoReadings[h][t].reads = 0
  BY DEF NoReadings, NoObs
<1> QED
  BY <1>1, ReadsZero, TagsAssumption

LEMMA JobsInit ==
    ASSUME Init
    PROVE  JInv
<1>1. /\ \A s \in Scans, h \in Hubs : jobs[s][h] = NoJob
      /\ \A s \in Scans : scanObs[s] = NoReadings /\ poll[s] = PollOff
      /\ \A b \in Bridges : ingest[b] = IngestIdle
      /\ \A p \in Starters : start[p] = StartIdle
  BY DEF Init
<1>2. IngestIdle.scan = Null /\ IngestIdle.step # "scan" /\ PollOff.step = "off" /\ StartIdle.step = "idle"
  BY DEF IngestIdle, PollOff, StartIdle
<1> QED
  BY <1>1, <1>2, InitIInv DEF JInv, JobsOK, CreditsOK, Agree

LEMMA JobsWriters ==
    ASSUME [Next]_vars
    PROVE  \/ UNCHANGED <<scans, jobs, scanObs, poll>>
           \/ \E b \in Bridges : IngestBatch(b)
           \/ \E p \in Starters, s \in Scans : StartInsert(p, s)
           \/ \E s \in Scans : PollNext(s)
           \/ \E h \in Hubs : HubDelete(h)
<1> DEFINE Same == UNCHANGED <<scans, jobs, scanObs, poll>>
<1>1. CASE Tick \/ UNCHANGED vars
  BY <1>1 DEF Tick, vars, tables
<1>2. ASSUME NEW b \in Bridges, IngestNext(b)
      PROVE  Same \/ IngestBatch(b)
  BY <1>2 DEF IngestNext, tables, IngestReceive, IngestFindReceipt, IngestFindHub,
              IngestFindScan, IngestDuplicate, IngestFail
<1>3. ASSUME NEW p \in Starters, StartNext(p)
      PROVE  Same \/ \E s \in Scans : StartInsert(p, s)
  BY <1>3 DEF StartNext, tables, StartReceive, StartReadHubs, StartFail
<1>4. ASSUME NEW h \in Hubs, HubNext(h)
      PROVE  Same \/ HubDelete(h)
  BY <1>4 DEF HubNext, tables, HubClaim, HubPatch
<1> QED
  BY <1>1, <1>2, <1>3, <1>4 DEF Next

\* What a batch that credits scan s with message m, received by hub h, changes.
Credited(s, h, m) ==
    /\ s \in Scans /\ h \in Hubs /\ m.tag \in Tags /\ m.reads \in Nat /\ Exists(s)
    /\ \A x \in Scans : /\ scans'[x].createdAt = scans[x].createdAt
                        /\ scans'[x].status = IF x = s THEN "scanning" ELSE scans[x].status
    /\ \A x \in Scans, g \in Hubs : x # s \/ g # h =>
         jobs'[x][g] = jobs[x][g] /\ scanObs'[x][g] = scanObs[x][g]
    /\ \A x \in Scans : x # s => scanObs'[x] = scanObs[x]
    /\ jobs'[s][h] = IF jobs[s][h].status = "none" THEN jobs[s][h]
                     ELSE [status |-> "scanning", reads |-> jobs[s][h].reads + m.reads]
    /\ scanObs'[s][h][m.tag].reads = scanObs[s][h][m.tag].reads + m.reads
    /\ \A u \in Tags : u # m.tag => scanObs'[s][h][u].reads = scanObs[s][h][u].reads

LEMMA Credit ==
    ASSUME JInv, NEW b \in Bridges, IngestBatch(b), ingest[b].scan # Null,
           NEW s, s = ingest[b].scan, NEW h, h = ingest[b].hub, NEW m, m = ingest[b].msg
    PROVE  Credited(s, h, m)
<1>0. TypeOK /\ RequestsOK /\ CreditsOK
  BY DEF JInv, IInv
<1>1. h \in Hubs /\ m.tag \in Tags /\ Exists(s)
  BY <1>0 DEF CreditsOK
<1>2. m \in [hardware : Hardware, tag : Tags \cup {Null}, seenAt : Nat, sequence : Nat, reads : Nat \ {0}]
  BY <1>0, MessagesAssumption DEF RequestsOK, IngestBatch
<1>3. s \in Scans
  BY <1>0 DEF TypeOK, IngestReq
<1>4. /\ scans \in [Scans -> ScanRow] /\ jobs \in [Scans -> [Hubs -> JobRow]]
      /\ scanObs \in [Scans -> [Hubs -> [Tags -> Obs]]]
  BY <1>0 DEF TypeOK
<1>5. CreditScan(s, h, m)
  BY DEF IngestBatch
<1>6. \A x \in Scans : /\ scans'[x].createdAt = scans[x].createdAt
                       /\ scans'[x].status = IF x = s THEN "scanning" ELSE scans[x].status
  <2>1. PICK row : row = [scans[s] EXCEPT !.status = "scanning"]
    OBVIOUS
  <2>2. scans[s] \in ScanRow
    BY <1>3, <1>4
  <2>3. row.status = "scanning" /\ row.createdAt = scans[s].createdAt
    BY <2>1, <2>2 DEF ScanRow
  <2>4. scans' = [scans EXCEPT ![s] = row]
    BY <1>5, <2>1 DEF CreditScan
  <2> QED
    BY <1>3, <1>4, <2>3, <2>4
<1>7. PICK job : job = IF jobs[s][h].status = "none" THEN jobs[s][h]
                       ELSE [status |-> "scanning", reads |-> jobs[s][h].reads + m.reads]
  OBVIOUS
<1>8. jobs' = [jobs EXCEPT ![s] = [jobs[s] EXCEPT ![h] = job]]
  BY <1>1, <1>3, <1>4, <1>5, <1>7 DEF CreditScan
<1>9. PICK seen : seen = Upsert(scanObs[s][h][m.tag], m.reads, m.seenAt)
  OBVIOUS
<1>10. scanObs' = [scanObs EXCEPT ![s] = [scanObs[s] EXCEPT ![h] = [scanObs[s][h] EXCEPT ![m.tag] = seen]]]
  BY <1>1, <1>3, <1>4, <1>5, <1>9 DEF CreditScan
<1>11. jobs[s] \in [Hubs -> JobRow] /\ scanObs[s] \in [Hubs -> [Tags -> Obs]] /\ scanObs[s][h] \in [Tags -> Obs]
  BY <1>1, <1>3, <1>4
<1>12. jobs'[s][h] = job
  BY <1>1, <1>3, <1>4, <1>8, <1>11
<1>13. scanObs'[s][h] = [scanObs[s][h] EXCEPT ![m.tag] = seen]
  BY <1>1, <1>3, <1>4, <1>10, <1>11
<1>14. seen.reads = scanObs[s][h][m.tag].reads + m.reads
  BY <1>9 DEF Upsert
<1>15. scanObs'[s][h][m.tag].reads = scanObs[s][h][m.tag].reads + m.reads
  BY <1>1, <1>11, <1>13, <1>14
<1>16. \A u \in Tags : u # m.tag => scanObs'[s][h][u].reads = scanObs[s][h][u].reads
  BY <1>11, <1>13
<1>17. \A x \in Scans, g \in Hubs : x # s \/ g # h =>
          jobs'[x][g] = jobs[x][g] /\ scanObs'[x][g] = scanObs[x][g]
  BY <1>3, <1>4, <1>8, <1>10, <1>11
<1>18. \A x \in Scans : x # s => scanObs'[x] = scanObs[x]
  BY <1>4, <1>10
<1> QED
  BY <1>1, <1>2, <1>3, <1>6, <1>7, <1>12, <1>15, <1>16, <1>17, <1>18 DEF Credited

LEMMA BatchJobs ==
    ASSUME JInv, NEW b \in Bridges, IngestBatch(b)
    PROVE  /\ \A s \in Scans : Exists(s) => Exists(s)'
           /\ JobsOK'
           /\ \A s \in Scans, h \in Hubs : Agree(s, h)'
<1>0. TypeOK /\ JobsOK /\ \A s \in Scans, h \in Hubs : Agree(s, h)
  BY DEF JInv, IInv
<1>1. clock' = clock /\ poll' = poll
  BY DEF IngestBatch
<1>2. CASE UNCHANGED <<scans, jobs, scanObs>>
  BY <1>0, <1>1, <1>2 DEF Exists, JobsOK, Agree, ObservationsKept
<1>3. CASE ingest[b].scan # Null
  <2>1. PICK s, h, m : s = ingest[b].scan /\ h = ingest[b].hub /\ m = ingest[b].msg
    OBVIOUS
  <2>a. Credited(s, h, m)
    BY <1>3, <2>1, Credit
  <2>2. /\ s \in Scans /\ h \in Hubs /\ m.tag \in Tags /\ m.reads \in Nat /\ Exists(s)
        /\ \A x \in Scans : /\ scans'[x].createdAt = scans[x].createdAt
                            /\ scans'[x].status = IF x = s THEN "scanning" ELSE scans[x].status
        /\ \A x \in Scans, g \in Hubs : x # s \/ g # h =>
             jobs'[x][g] = jobs[x][g] /\ scanObs'[x][g] = scanObs[x][g]
        /\ \A x \in Scans : x # s => scanObs'[x] = scanObs[x]
        /\ jobs'[s][h] = IF jobs[s][h].status = "none" THEN jobs[s][h]
                         ELSE [status |-> "scanning", reads |-> jobs[s][h].reads + m.reads]
        /\ scanObs'[s][h][m.tag].reads = scanObs[s][h][m.tag].reads + m.reads
        /\ \A u \in Tags : u # m.tag => scanObs'[s][h][u].reads = scanObs[s][h][u].reads
    BY <2>a DEF Credited
  <2>3. \A x \in Scans : Exists(x) => Exists(x)'
    BY <2>2 DEF Exists
  <2>4. JobsOK'
    <3>1. \A x \in Scans, g \in Hubs : jobs'[x][g].status = "none" => jobs'[x][g] = NoJob
      BY <1>0, <2>2 DEF JobsOK
    <3>2. ASSUME NEW x \in Scans, ~Exists(x)'
          PROVE  scanObs'[x] = NoReadings /\ (\A g \in Hubs : jobs'[x][g] = NoJob) /\ poll'[x].step = "off"
      <4>1. x # s /\ ~Exists(x)
        BY <2>2, <2>3, <3>2 DEF Exists
      <4> QED
        BY <1>0, <1>1, <2>2, <4>1 DEF JobsOK
    <3> QED
      BY <3>1, <3>2 DEF JobsOK
  <2>5. ASSUME NEW x \in Scans, NEW g \in Hubs, jobs'[x][g] # NoJob, ObservationsKept(x)'
        PROVE  jobs'[x][g].reads = Reads(scanObs'[x][g], Tags)
    <3>0. ObservationsKept(x)
      BY <2>2, <2>3, <2>5 DEF ObservationsKept
    <3>1. CASE x # s \/ g # h
      <4>1. jobs'[x][g] = jobs[x][g] /\ scanObs'[x][g] = scanObs[x][g]
        BY <2>2, <3>1
      <4> QED
        BY <1>0, <2>5, <3>0, <4>1 DEF Agree
    <3>2. CASE x = s /\ g = h
      <4>1. jobs[s][h].status # "none"
        BY <1>0, <2>2, <2>5, <3>2 DEF JobsOK
      <4>2. jobs'[s][h].reads = jobs[s][h].reads + m.reads
        BY <2>2, <4>1
      <4>3. jobs[s][h].reads = Reads(scanObs[s][h], Tags)
        BY <1>0, <2>2, <3>0, <3>2, <4>1 DEF Agree, NoJob
      <4>4. \A u \in Tags : scanObs[s][h][u].reads \in Nat
        BY <1>0, <2>2 DEF TypeOK, Obs
      <4>5. Reads(scanObs'[s][h], Tags) = Reads(scanObs[s][h], Tags) + m.reads
        <5>1. PICK f, k, u : f = scanObs[s][h] /\ k = scanObs'[s][h] /\ u = m.tag
          OBVIOUS
        <5>2. PICK n \in Nat : n = m.reads
          BY <2>2
        <5>3. /\ \A y \in Tags : f[y].reads \in Nat
              /\ k[u].reads = f[u].reads + n
              /\ \A y \in Tags : y # u => k[y].reads = f[y].reads
              /\ u \in Tags
          BY <2>2, <4>4, <5>1, <5>2
        <5>4. Reads(k, Tags) = Reads(f, Tags) + n
          BY <5>3, ReadsGrow, TagsAssumption
        <5> QED
          BY <2>2, <5>1, <5>2, <5>4
      <4> QED
        BY <3>2, <4>2, <4>3, <4>5
    <3> QED
      BY <3>1, <3>2
  <2> QED
    BY <2>3, <2>4, <2>5 DEF Agree
<1> QED
  BY <1>2, <1>3 DEF IngestBatch

\* Superseded jobs keep their counts, and the new scan starts from nothing.  What is pruned is
\* a day older than the new scan.
LEMMA InsertJobs ==
    ASSUME JInv, NEW p \in Starters, NEW s \in Scans, StartInsert(p, s)
    PROVE  /\ \A x \in Scans : Exists(x) => Exists(x)'
           /\ JobsOK'
           /\ \A x \in Scans, h \in Hubs : Agree(x, h)'
<1>0. /\ TypeOK /\ JobsOK /\ \A x \in Scans, h \in Hubs : Agree(x, h)
      /\ jobs \in [Scans -> [Hubs -> JobRow]] /\ scans \in [Scans -> ScanRow]
      /\ poll \in [Scans -> PollReq] /\ KeepFor \in Nat
  BY WindowsAssumption DEF JInv, IInv, TypeOK
<1>1. PICK r, now : r = start[p].room /\ now = start[p].now
  OBVIOUS
<1>2. now \in Nat /\ ~Exists(s)
  BY <1>0, <1>1 DEF StartInsert, JInv, IInv, RequestsOK
<1>3. /\ scans'[s].status = "scanning" /\ scans'[s].createdAt = now
      /\ \A x \in Scans \ {s} : /\ scans'[x].createdAt = scans[x].createdAt
                                /\ Exists(x) => scans'[x].status # "none"
                                /\ scans'[x].status = "none" => scans[x].status = "none"
  <2>1. scans'[s] = [status |-> "scanning", room |-> r, createdAt |-> now,
                     expiresAt |-> now + ScanWindow, completedAt |-> Never]
    BY <1>1 DEF StartInsert
  <2>2. ASSUME NEW x \in Scans \ {s}
        PROVE  /\ scans'[x].createdAt = scans[x].createdAt
               /\ Exists(x) => scans'[x].status # "none"
               /\ scans'[x].status = "none" => scans[x].status = "none"
    <3>1. \/ scans'[x] = scans[x]
          \/ scans'[x] = [scans[x] EXCEPT !.status = "expired", !.completedAt = CompletedOr(@, now)]
      BY <1>1 DEF StartInsert
    <3>2. scans[x] \in ScanRow
      BY <1>0
    <3>3. PICK row : row = [scans[x] EXCEPT !.status = "expired", !.completedAt = CompletedOr(@, now)]
      OBVIOUS
    <3>4. row.status = "expired" /\ row.createdAt = scans[x].createdAt
      BY <3>2, <3>3 DEF ScanRow
    <3> QED
      BY <3>1, <3>3, <3>4 DEF Exists
  <2> QED
    BY <2>1, <2>2
<1>4. \A x \in Scans : Exists(x) => Exists(x)'
  BY <1>2, <1>3 DEF Exists
<1>5. ASSUME NEW x \in Scans \ {s}, NEW h \in Hubs
      PROVE  /\ jobs'[x][h].reads = jobs[x][h].reads
             /\ jobs[x][h] = NoJob => jobs'[x][h] = NoJob
             /\ jobs'[x][h].status = "none" => jobs'[x][h] = jobs[x][h]
  <2>1. \/ jobs'[x][h] = jobs[x][h]
        \/ jobs[x][h] # NoJob /\ jobs'[x][h] = [jobs[x][h] EXCEPT !.status = "expired"]
    BY DEF StartInsert
  <2>2. jobs[x][h] \in JobRow
    BY <1>0
  <2> QED
    BY <2>1, <2>2 DEF JobRow
<1>6. \A h \in Hubs : jobs'[s][h] = NoJob \/ jobs'[s][h] = [status |-> "scanning", reads |-> 0]
  <2>1. \A h \in Hubs : jobs[s][h] = NoJob
    BY <1>0, <1>2 DEF JobsOK
  <2> QED
    BY <2>1 DEF StartInsert
<1>7. scanObs'[s] = NoReadings
  BY <1>0, <1>2 DEF StartInsert, JobsOK
<1>8. ASSUME NEW x \in Scans \ {s}
      PROVE  /\ scanObs'[x] = scanObs[x] \/ (Exists(x) /\ scans[x].createdAt < now - KeepFor)
             /\ ~Exists(x) => scanObs'[x] = scanObs[x]
  BY <1>1 DEF StartInsert
<1>9. JobsOK'
  <2>1. \A x \in Scans, h \in Hubs : jobs'[x][h].status = "none" => jobs'[x][h] = NoJob
    BY <1>0, <1>5, <1>6 DEF JobsOK
  <2>2. ASSUME NEW x \in Scans, ~Exists(x)'
        PROVE  scanObs'[x] = NoReadings /\ (\A h \in Hubs : jobs'[x][h] = NoJob) /\ poll'[x].step = "off"
    <3>1. x # s /\ ~Exists(x)
      BY <1>3, <1>4, <2>2 DEF Exists
    <3>2. poll'[x] = poll[x]
      BY <1>0, <3>1 DEF StartInsert
    <3> QED
      BY <1>0, <1>5, <1>8, <3>1, <3>2 DEF JobsOK
  <2> QED
    BY <2>1, <2>2 DEF JobsOK
<1>10. ASSUME NEW x \in Scans, NEW h \in Hubs, jobs'[x][h] # NoJob, ObservationsKept(x)'
       PROVE  jobs'[x][h].reads = Reads(scanObs'[x][h], Tags)
  <2>1. CASE x = s
    BY <1>6, <1>7, <1>10, <2>1, EmptySum
  <2>2. CASE x # s
    <3>1. ObservationsKept(x) /\ jobs[x][h] # NoJob
      BY <1>2, <1>3, <1>4, <1>5, <1>10, <2>2 DEF ObservationsKept
    <3>2. scanObs'[x] = scanObs[x]
      <4>1. scans[x].createdAt \in Int
        BY <1>0 DEF ScanRow
      <4>2. Exists(s)' /\ scans'[s].createdAt = now /\ scans'[x].createdAt = scans[x].createdAt
        BY <1>3, <2>2 DEF Exists
      <4>3. scans[x].createdAt >= now - KeepFor
        BY <1>10, <4>2 DEF ObservationsKept
      <4> QED
        BY <1>0, <1>2, <1>8, <2>2, <4>1, <4>3
    <3> QED
      BY <1>0, <1>5, <2>2, <3>1, <3>2 DEF Agree
  <2> QED
    BY <2>1, <2>2
<1> QED
  BY <1>4, <1>9, <1>10 DEF Agree

LEMMA PollJobs ==
    ASSUME JInv, NEW s \in Scans, PollNext(s)
    PROVE  /\ \A x \in Scans : Exists(x) => Exists(x)'
           /\ JobsOK'
           /\ \A x \in Scans, h \in Hubs : Agree(x, h)'
<1>0. /\ TypeOK /\ RequestsOK /\ JobsOK /\ \A x \in Scans, h \in Hubs : Agree(x, h)
      /\ scans \in [Scans -> ScanRow] /\ poll \in [Scans -> PollReq]
  BY DEF JInv, IInv, TypeOK
<1>1. UNCHANGED <<clock, jobs, scanObs>>
  BY DEF PollNext, PollReadScan, PollReadJobs, PollWrite, PollStop, tables
<1>2. \A x \in Scans \ {s} : poll'[x] = poll[x]
  BY <1>0 DEF PollNext, PollReadScan, PollReadJobs, PollWrite, PollStop
<1>3. Exists(s) \/ (poll'[s].step = "off" /\ UNCHANGED scans)
  <2>1. poll[s].step = "off" => FALSE
    BY DEF PollNext, PollReadScan, PollReadJobs, PollWrite, PollStop
  <2> QED
    BY <1>0, <2>1 DEF JobsOK
<1>4. \A x \in Scans : /\ scans'[x].createdAt = scans[x].createdAt
                       /\ Exists(x) <=> Exists(x)'
  <2>1. CASE UNCHANGED scans
    BY <2>1 DEF Exists
  <2>2. CASE PollWrite(s)
    <3>1. PICK row : row = [scans[s] EXCEPT !.status = poll[s].status,
                              !.completedAt = IF poll[s].status \in FinalStatus THEN poll[s].at ELSE Never]
      OBVIOUS
    <3>2. poll[s].status \in ScanStatus
      BY <1>0, <2>2 DEF PollWrite, RequestsOK
    <3>3. scans[s] \in ScanRow
      BY <1>0
    <3>4. row.status = poll[s].status /\ row.createdAt = scans[s].createdAt
      BY <3>1, <3>3 DEF ScanRow
    <3>5. scans' = [scans EXCEPT ![s] = row]
      BY <1>0, <2>2, <3>1 DEF PollWrite
    <3>6. Exists(s)
      BY <1>0, <2>2 DEF PollWrite, JobsOK
    <3> QED
      BY <1>0, <3>2, <3>4, <3>5, <3>6 DEF Exists
  <2> QED
    BY <2>1, <2>2 DEF PollNext, PollReadScan, PollReadJobs, PollStop, tables
<1>5. JobsOK'
  BY <1>0, <1>1, <1>2, <1>3, <1>4 DEF JobsOK
<1> QED
  BY <1>0, <1>1, <1>4, <1>5 DEF Agree, ObservationsKept

LEMMA DeleteJobs ==
    ASSUME JInv, NEW g \in Hubs, HubDelete(g)
    PROVE  /\ \A x \in Scans : Exists(x) => Exists(x)'
           /\ JobsOK'
           /\ \A x \in Scans, h \in Hubs : Agree(x, h)'
<1>0. /\ JobsOK /\ \A x \in Scans, h \in Hubs : Agree(x, h)
      /\ jobs \in [Scans -> [Hubs -> JobRow]]
  BY DEF JInv, IInv, TypeOK
<1>1. UNCHANGED <<clock, scans, scanObs, poll>>
  BY DEF HubDelete
<1>2. \A x \in Scans, h \in Hubs : jobs'[x][h] = IF h = g THEN NoJob ELSE jobs[x][h]
  BY <1>0 DEF HubDelete
<1>3. JobsOK'
  BY <1>0, <1>1, <1>2 DEF JobsOK, Exists
<1> QED
  BY <1>0, <1>1, <1>2, <1>3 DEF Exists, Agree, ObservationsKept

LEMMA JobsNext ==
    ASSUME JInv, [Next]_vars
    PROVE  /\ \A x \in Scans : Exists(x) => Exists(x)'
           /\ JobsOK'
           /\ \A x \in Scans, h \in Hubs : Agree(x, h)'
<1>1. CASE UNCHANGED <<scans, jobs, scanObs, poll>>
  <2>1. \A x \in Scans, h \in Hubs : Agree(x, h)'
    BY <1>1 DEF JInv, Agree, ObservationsKept, Exists
  <2>2. JobsOK' /\ \A x \in Scans : Exists(x) => Exists(x)'
    BY <1>1 DEF JInv, JobsOK, Exists
  <2> QED
    BY <2>1, <2>2
<1> QED
  BY <1>1, JobsWriters, BatchJobs, InsertJobs, PollJobs, DeleteJobs

\* A scan is picked while it has a row, for a hub that was found and a tag that was read.
LEMMA CreditsNext ==
    ASSUME JInv, [Next]_vars
    PROVE  CreditsOK'
<1>0. /\ CreditsOK /\ RequestsOK
      /\ ingest \in [Bridges -> IngestReq] /\ \A s \in Scans : Exists(s) => Exists(s)'
      /\ \A b \in Bridges : ingest[b].scan \in Scans \cup {Null}
  BY JobsNext DEF JInv, IInv, TypeOK, IngestReq
<1> DEFINE Good(r) == /\ r.scan # Null => r.scan \in Scans /\ Exists(r.scan) /\ r.hub \in Hubs /\ r.msg.tag \in Tags
                      /\ r.step = "scan" => r.hub \in Hubs /\ r.msg.tag \in Tags
<1>1. \A b \in Bridges : Good(ingest[b])
  BY <1>0 DEF CreditsOK
<1>2. Good(IngestIdle)
  BY DEF IngestIdle
<1>3. ASSUME \A b \in Bridges : \E r : Good(r) /\ ingest'[b] = r
      PROVE  CreditsOK'
  BY <1>0, <1>3 DEF CreditsOK
<1>4. CASE UNCHANGED ingest
  BY <1>1, <1>3, <1>4
<1>5. ASSUME NEW b \in Bridges, IngestNext(b)
      PROVE  CreditsOK'
  <2>1. SUFFICES \E r : Good(r) /\ ingest' = [ingest EXCEPT ![b] = r]
    <3>1. ASSUME NEW r, Good(r), ingest' = [ingest EXCEPT ![b] = r]
          PROVE  \A a \in Bridges : \E q : Good(q) /\ ingest'[a] = q
      <4>1. \A a \in Bridges : ingest'[a] = r \/ ingest'[a] = ingest[a]
        BY <1>0, <3>1
      <4> QED
        BY <1>1, <3>1, <4>1
    <3> QED
      BY <1>3, <3>1
  <2>2. PICK q \in IngestReq : q = ingest[b]
    BY <1>0
  <2>3. Good(q)
    BY <1>1, <2>2
  <2>4. ASSUME NEW m \in Messages, IngestReceive(b, m)
        PROVE  \E r : Good(r) /\ ingest' = [ingest EXCEPT ![b] = r]
    <3>1. PICK r : r = [IngestIdle EXCEPT !.step = "receipt", !.msg = m, !.now = clock]
      OBVIOUS
    <3>2. r.scan = Null /\ r.step = "receipt"
      BY <3>1 DEF IngestIdle
    <3>3. ingest' = [ingest EXCEPT ![b] = r]
      BY <2>4, <3>1 DEF IngestReceive
    <3> QED
      BY <3>2, <3>3
  <2>5. ASSUME NEW step \in {"hub", "batch"}, ingest' = [ingest EXCEPT ![b] = [q EXCEPT !.step = step]]
        PROVE  \E r : Good(r) /\ ingest' = [ingest EXCEPT ![b] = r]
    <3>1. PICK r : r = [q EXCEPT !.step = step]
      OBVIOUS
    <3>2. r.scan = q.scan /\ r.hub = q.hub /\ r.msg = q.msg /\ r.step = step
      BY <2>2, <3>1 DEF IngestReq
    <3>3. Good(r)
      BY <2>3, <3>2
    <3> QED
      BY <2>5, <3>1, <3>3
  <2>6. CASE IngestFindReceipt(b)
    <3>1. \/ ingest' = [ingest EXCEPT ![b] = IngestIdle]
          \/ ingest' = [ingest EXCEPT ![b] = [q EXCEPT !.step = "hub"]]
      BY <2>2, <2>6 DEF IngestFindReceipt
    <3> QED
      BY <1>2, <2>5, <3>1
  <2>7. CASE IngestFindHub(b)
    <3>1. CASE ingest' = [ingest EXCEPT ![b].step = "batch"]
      <4>1. ingest' = [ingest EXCEPT ![b] = [q EXCEPT !.step = "batch"]]
        BY <2>2, <3>1
      <4> QED
        BY <2>5, <4>1
    <3>2. ASSUME NEW h \in Hubs, NEW step,
                 step = IF q.msg.tag = Null THEN "batch" ELSE "scan",
                 ingest' = [ingest EXCEPT ![b].step = step, ![b].hub = h, ![b].room = hubs[h].room]
          PROVE  \E r : Good(r) /\ ingest' = [ingest EXCEPT ![b] = r]
      <4>1. PICK r : r = [q EXCEPT !.step = step, !.hub = h, !.room = hubs[h].room]
        OBVIOUS
      <4>2. r.scan = q.scan /\ r.hub = h /\ r.msg = q.msg /\ r.step = step
        BY <2>2, <4>1 DEF IngestReq
      <4>3. q.msg \in Messages
        BY <1>0, <2>2, <2>7 DEF RequestsOK, IngestFindHub
      <4>4. q.msg.tag \in Tags \cup {Null}
        BY <4>3, MessagesAssumption
      <4>5. Good(r)
        BY <2>3, <3>2, <4>2, <4>4
      <4>6. ingest' = [ingest EXCEPT ![b] = r]
        BY <1>0, <2>2, <3>2, <4>1
      <4> QED
        BY <4>5, <4>6
    <3>3. \/ ingest' = [ingest EXCEPT ![b].step = "batch"]
          \/ \E h \in Hubs :
                ingest' = [ingest EXCEPT ![b].step = IF q.msg.tag = Null THEN "batch" ELSE "scan",
                                         ![b].hub = h, ![b].room = hubs[h].room]
      BY <2>2, <2>7 DEF IngestFindHub
    <3> QED
      BY <3>1, <3>2, <3>3
  <2>8. CASE IngestFindScan(b)
    <3>1. q.step = "scan"
      BY <2>2, <2>8 DEF IngestFindScan
    <3>2. CASE ingest' = [ingest EXCEPT ![b].step = "batch"]
      <4>1. ingest' = [ingest EXCEPT ![b] = [q EXCEPT !.step = "batch"]]
        BY <2>2, <3>2
      <4> QED
        BY <2>5, <4>1
    <3>3. ASSUME NEW s \in Newest(ScansFor(q.hub, q.room, q.msg.seenAt)),
                 ingest' = [ingest EXCEPT ![b].step = "batch", ![b].scan = s]
          PROVE  \E r : Good(r) /\ ingest' = [ingest EXCEPT ![b] = r]
      <4>1. PICK r : r = [q EXCEPT !.step = "batch", !.scan = s]
        OBVIOUS
      <4>2. r.scan = s /\ r.hub = q.hub /\ r.msg = q.msg /\ r.step = "batch"
        BY <2>2, <4>1 DEF IngestReq
      <4>3. s \in Scans /\ Exists(s)
        BY <3>3 DEF Newest, ScansFor, Exists
      <4>4. Good(r)
        BY <2>3, <3>1, <4>2, <4>3
      <4>5. ingest' = [ingest EXCEPT ![b] = r]
        BY <2>2, <3>3, <4>1
      <4> QED
        BY <4>4, <4>5
    <3> QED
      BY <2>2, <2>8, <3>2, <3>3 DEF IngestFindScan
  <2>9. CASE IngestBatch(b) \/ IngestDuplicate(b) \/ IngestFail(b)
    <3>1. ingest' = [ingest EXCEPT ![b] = IngestIdle]
      BY <2>9 DEF IngestBatch, IngestDuplicate, IngestFail
    <3> QED
      BY <1>2, <3>1
  <2> HIDE DEF Good
  <2> QED
    BY <1>5, <2>4, <2>6, <2>7, <2>8, <2>9 DEF IngestNext
<1>6. UNCHANGED ingest \/ \E b \in Bridges : IngestNext(b)
  BY DEF Next, Tick, StartNext, StartReceive, StartReadHubs, StartInsert, StartFail,
         PollNext, PollReadScan, PollReadJobs, PollWrite, PollStop,
         HubNext, HubClaim, HubPatch, HubDelete, vars
<1> QED
  BY <1>4, <1>5, <1>6

\* A job's reading_count is the sum of the read counts stored for its scan and hub, whatever
\* supersedes, deletes, retries or delays.
THEOREM JobCounts == Spec => []JobCountsMatchObservations
<1>1. JInv /\ [Next]_vars => JInv'
  BY NextIInv, JobsNext, CreditsNext DEF JInv
<1>2. JInv => JobCountsMatchObservations
  BY AgreeIs DEF JInv
<1> QED
  BY <1>1, <1>2, JobsInit, PTL DEF Spec

=============================================================================
