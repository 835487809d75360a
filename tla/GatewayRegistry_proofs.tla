----------------------- MODULE GatewayRegistry_proofs -----------------------
(***************************************************************************)
(* Proofs about GatewayRegistry, for every number of codes, gateways,      *)
(* concurrent invocations and events, and for every choice of the times.   *)
(***************************************************************************)
EXTENDS GatewayRegistry, TLAPS

(***************************************************************************)
(* The inductive invariant.                                                *)
(***************************************************************************)

\* When an event happened, by the cloud's clock.
Birth(e) == born[e] - Skew

\* Older than any receipt that is kept.
Dead(e) == born[e] # Never /\ Birth(e) + KeepFor < now

\* Events are numbered as they happen, and only what happened is stored or sent.
BirthsOK ==
    /\ \A e \in Events : born[e] # Never => Skew <= born[e] /\ born[e] <= now + Skew
    /\ \A e, f \in Events : e < f /\ born[f] # Never => born[e] # Never /\ born[e] <= born[f]
    /\ \A e \in buffer \cup file \cup dropped : born[e] # Never

\* An event is sent soon after it happened: a flush sends nothing that is too old when it
\* begins, and each event that it sends before costs it at most a tick.
Sendable(e, at, sent) == Birth(e) <= at /\ at <= Birth(e) + BufferAge + sent - 1

RequestOK(r) ==
    /\ r.op # "idle" => r.at <= now /\ now <= r.at + 1
    /\ r.op = "register" =>
         /\ codes[r.code].state # "none"
         /\ r.step = "write" /\ codes[r.code].state = "open" => codes[r.code].until > r.at
    /\ r.op = "ingest" =>
         /\ gateways[r.gateway] # Null
         /\ born[r.event] # Never
         /\ Sendable(r.event, r.at, r.event)
         /\ r.step # "auth" =>
              gateways[r.gateway].revoked = Never \/ r.at <= gateways[r.gateway].revoked

RequestsOK == \A q \in Requests : RequestOK(req[q])

\* What the process waits for: the answer about the head of its buffer, or its token.
WaitingOK ==
    /\ up => token # Null
    /\ token # Null => gateways[token] # Null
    /\ waiting # Null =>
         \/ req[waiting].op = "register" /\ ~up
         \/ /\ req[waiting].op = "ingest"
            /\ up
            /\ req[waiting].gateway = token
            /\ First(req[waiting].event, buffer)
            /\ \A f \in buffer : Sendable(f, req[waiting].at, req[waiting].event)
                                   \/ Birth(f) > req[waiting].at

\* A receipt that is gone was that of an event too old to be sent again.
CountsOK ==
    \A g \in Gateways, e \in Events :
        /\ receipts[g][e] # Never =>
             gateways[g] # Null /\ born[e] # Never
               /\ Birth(e) <= receipts[g][e] /\ receipts[g][e] <= now
        /\ counted[g][e] <= 1
        /\ counted[g][e] # 0 /\ receipts[g][e] = Never => Dead(e)

\* Nobody has been told a token for a code that is still to be used.
CodesOK ==
    \A c \in Codes, g \in Gateways :
        codes[c].state \in {"none", "open"} /\ gateways[g] # Null /\ gateways[g].told
          => gateways[g].code # c

IInv == TypeOK /\ BirthsOK /\ RequestsOK /\ WaitingOK /\ CountsOK /\ CodesOK

-----------------------------------------------------------------------------
(***************************************************************************)
(* The order in which one gateway's events are stored.                     *)
(***************************************************************************)

\* Gateway g will not add the readings of event e, or the computer had given e up.
Settled(g, e) == receipts[g][e] # Never \/ Dead(e) \/ e \in dropped

\* Gateway g does not send event e.
Unsent(g, e) ==
    /\ \A q \in Requests : ~(req[q].op = "ingest" /\ req[q].gateway = g /\ req[q].event = e)
    /\ ~(token = g /\ e \in buffer \cup file)

\* Discarded events stay too old; a running process has settled what it took off its buffer.
BufferOK ==
    /\ \A e \in dropped \cap (buffer \cup file) : Old(e)
    /\ ~up => buffer = file
    /\ up => \A e \in file \ buffer : Settled(token, e)
    /\ waiting # Null /\ req[waiting].op = "ingest" => buffer \cap dropped = {}

\* What is on its way is not overtaken.
OrderOK ==
    \A q \in Requests : req[q].op = "ingest" =>
        /\ req[q].gateway = token =>
             req[q].event \in buffer \/ Settled(token, req[q].event)
        /\ \A e \in Events : e < req[q].event =>
             Settled(req[q].gateway, e) \/ Unsent(req[q].gateway, e)
        /\ \A p \in Requests :
             /\ req[p].op = "ingest"
             /\ req[p].gateway = req[q].gateway
             /\ req[p].event < req[q].event
             /\ receipts[req[p].gateway][req[p].event] = Never
             => req[p].at <= req[q].at

\* No time that is still to be written is before the last one.
LastSeenOK ==
    seenBy # Null =>
        /\ gateways[seenBy] # Null
        /\ lastSeen <= EventTime(now + Skew, now)
        /\ \A q \in Requests :
             req[q].op = "ingest" /\ req[q].gateway = seenBy /\ ~Settled(seenBy, req[q].event)
             => lastSeen <= EventTime(born[req[q].event], req[q].at)
        /\ token = seenBy =>
             \A e \in buffer \cup file : ~Settled(seenBy, e) => lastSeen <= EventTime(born[e], now)

OInv == BufferOK /\ OrderOK /\ LastSeenOK

-----------------------------------------------------------------------------
(***************************************************************************)
(* Typing.                                                                 *)
(***************************************************************************)
LEMMA Numbers ==
    /\ CodeLife \in Nat \ {0} /\ BufferAge \in Nat /\ KeepFor \in Nat /\ Ahead \in Nat
    /\ Skew \in Nat /\ MaxEvents \in Nat /\ MaxTime \in Nat
    /\ BufferAge + MaxEvents <= KeepFor
  BY TimesAssumption

LEMMA Shapes ==
    ASSUME NEW r \in Request
    PROVE  /\ r.op \in {"idle", "register", "ingest"}
           /\ r.op = "idle" <=> r = Idle
           /\ r.op = "register" => r.step \in {"read", "write"} /\ r.at \in Times /\ r.code \in Codes
           /\ r.op = "ingest" => /\ r.step \in {"auth", "receipt", "hub", "write"}
                                 /\ r.at \in Times /\ r.gateway \in Gateways
                                 /\ r.event \in Events /\ r.hub \in BOOLEAN
  BY DEF Request, Idle

LEMMA IdleRequest == Idle \in Request /\ Idle.op = "idle"
  BY DEF Request, Idle

LEMMA RowsAreNotNull ==
    ASSUME gateways \in [Gateways -> Gateway \cup {Null}], now \in Times,
           NEW g \in Gateways, NEW c \in Codes, NEW won \in BOOLEAN
    PROVE  LET row == [code |-> c, told |-> won, revoked |-> Never]
           IN  /\ row \in Gateway /\ row # Null
               /\ [gateways EXCEPT ![g] = row] \in [Gateways -> Gateway \cup {Null}]
               /\ [gateways EXCEPT ![g] = row][g] # Null
  BY RowAssumption DEF Gateway

\* An invocation that goes on to another step.
LEMMA RegisterStep ==
    ASSUME NEW r \in Request, r.op = "register", NEW t, t = [r EXCEPT !.step = "write"]
    PROVE  t \in Request /\ t.op = "register" /\ t.at = r.at /\ t.code = r.code
<1>1. r \in [op : {"register"}, step : {"read", "write"}, at : Times, code : Codes]
  BY DEF Request, Idle
<1> QED
  BY <1>1 DEF Request

LEMMA SentRequest ==
    ASSUME token \in Gateways, now \in Times, NEW e \in Events
    PROVE  /\ Sent(e) \in Request
           /\ Sent(e).op = "ingest" /\ Sent(e).step = "auth" /\ Sent(e).at = now
           /\ Sent(e).gateway = token /\ Sent(e).event = e
  BY DEF Sent, Request

LEMMA PairRequest ==
    ASSUME now \in Times, NEW c \in Codes
    PROVE  LET r == [op |-> "register", step |-> "read", at |-> now, code |-> c]
           IN  /\ r \in Request /\ r.op = "register" /\ r.step = "read"
               /\ r.at = now /\ r.code = c
  BY DEF Request

LEMMA InitIInv == Init => IInv /\ OInv
<1> SUFFICES ASSUME Init PROVE IInv /\ OInv
  OBVIOUS
<1> USE Numbers, IdleRequest
<1>1. TypeOK
  <2>1. now \in Times /\ lastSeen \in 0..(now + Ahead)
    BY DEF Init, Times
  <2>2. codes \in [Codes -> Code]
    BY DEF Init, Code
  <2>3. /\ gateways \in [Gateways -> Gateway \cup {Null}]
        /\ receipts \in [Gateways -> [Events -> Times \cup {Never}]]
        /\ counted \in [Gateways -> [Events -> Nat]]
    BY DEF Init
  <2>4. req \in [Requests -> Request] /\ waiting \in Requests \cup {Null}
    BY DEF Init
  <2>5. born \in [Events -> 0..(MaxTime + Skew) \cup {Never}]
    BY DEF Init
  <2> QED
    BY <2>1, <2>2, <2>3, <2>4, <2>5 DEF Init, TypeOK
<1>2. BirthsOK /\ BufferOK
  BY DEF Init, BirthsOK, BufferOK, Never
<1>3. RequestsOK /\ OrderOK
  BY DEF Init, RequestsOK, RequestOK, OrderOK
<1>4. WaitingOK /\ LastSeenOK
  BY DEF Init, WaitingOK, LastSeenOK
<1>5. CountsOK /\ CodesOK
  BY DEF Init, CountsOK, CodesOK
<1> QED
  BY <1>1, <1>2, <1>3, <1>4, <1>5 DEF IInv, OInv

\* The two halves of TypeOK: what the cloud stores, and the invocations with the computer.
TablesTyped ==
    /\ now \in Times
    /\ codes \in [Codes -> Code]
    /\ gateways \in [Gateways -> Gateway \cup {Null}]
    /\ receipts \in [Gateways -> [Events -> Times \cup {Never}]]
    /\ claimed \in BOOLEAN
    /\ lastSeen \in 0..(now + Ahead)
    /\ counted \in [Gateways -> [Events -> Nat]]
    /\ seenBy \in Gateways \cup {Null}

ProcessTyped ==
    /\ req \in [Requests -> Request]
    /\ up \in BOOLEAN
    /\ token \in Gateways \cup {Null}
    /\ born \in [Events -> 0..(MaxTime + Skew) \cup {Never}]
    /\ buffer \subseteq Events
    /\ file \subseteq Events
    /\ waiting \in Requests \cup {Null}
    /\ dropped \subseteq Events

LEMMA Typed == TypeOK <=> TablesTyped /\ ProcessTyped
  BY DEF TypeOK, TablesTyped, ProcessTyped

(***************************************************************************)
(* What a step does to the invocations and to the computer: the invocation *)
(* goes on, or it answers and the process may send the next event, or the  *)
(* process is told its token.                                              *)
(***************************************************************************)
GoesOn(q, t) ==
    /\ t \in Request
    /\ req' = [req EXCEPT ![q] = t]
    /\ t.op = req[q].op /\ t.at = req[q].at
    /\ \/ /\ t.op = "register" /\ t.code = req[q].code
          /\ codes[t.code].state = "open" /\ codes[t.code].until > t.at
       \/ /\ t.op = "ingest" /\ t.gateway = req[q].gateway /\ t.event = req[q].event
          /\ t.step # "auth"
          /\ req[q].step = "auth" => Valid(t.gateway)

Moves(q) == UNCHANGED computer /\ \E t : GoesOn(q, t)

Answers(q) == AnswerBad(q) \/ (AnswerStored(q) /\ req[q].op = "ingest")

SendsNext(q) ==
    /\ waiting = q /\ waiting' = q
    /\ req[q].op = "ingest" /\ up
    /\ buffer' = buffer \ {req[q].event}
    /\ \E e \in buffer' : First(e, buffer') /\ req' = [req EXCEPT ![q] = Sent(e)]

EndsIdle(q) ==
    /\ req' = [req EXCEPT ![q] = Idle]
    /\ \/ buffer' = buffer /\ waiting' = IF waiting = q THEN Null ELSE waiting
       \/ /\ waiting = q /\ waiting' = Null /\ req[q].op = "ingest"
          /\ buffer' = buffer \ {req[q].event} /\ buffer' = {}

LEMMA AnswerShapes ==
    ASSUME IInv, NEW q \in Requests, Answers(q)
    PROVE  /\ UNCHANGED <<up, token, born, file, dropped>>
           /\ EndsIdle(q) \/ SendsNext(q)
<1>1. CASE AnswerBad(q)
  BY <1>1 DEF AnswerBad, EndsIdle
<1>2. CASE AnswerStored(q) /\ req[q].op = "ingest"
  <2>1. up
    BY <1>2, NullAssumption DEF AnswerStored, IInv, WaitingOK
  <2> QED
    BY <1>2, <2>1 DEF AnswerStored, EndsIdle, SendsNext
<1> QED
  BY <1>1, <1>2 DEF Answers

LEMMA CloudShapes ==
    ASSUME IInv, NEW q \in Requests, Cloud(q)
    PROVE  /\ UNCHANGED now
           /\ \/ Moves(q) \/ Answers(q)
              \/ /\ At(q, "register", "write")
                 /\ \E g \in Gateways : gateways[g] = Null /\ gateways'[g] # Null /\ AnswerToken(q, g)
<1>0. req \in [Requests -> Request] /\ req[q] \in Request
  BY DEF IInv, TypeOK
<1>1. CASE RegisterRead(q)
  <2>1. CASE codes[req[q].code].state = "open" /\ codes[req[q].code].until > req[q].at
    <3>1. PICK t : t = [req[q] EXCEPT !.step = "write"]
      OBVIOUS
    <3>2. t \in Request /\ t.op = "register" /\ t.at = req[q].at /\ t.code = req[q].code
      BY <1>0, <1>1, <3>1, RegisterStep DEF RegisterRead, At
    <3>3. req' = [req EXCEPT ![q] = t] /\ UNCHANGED computer /\ UNCHANGED now
      BY <1>1, <2>1, <3>1 DEF RegisterRead, Step
    <3> QED
      BY <1>1, <2>1, <3>2, <3>3 DEF RegisterRead, At, GoesOn, Moves
  <2> QED
    BY <1>1, <2>1 DEF RegisterRead, Answers
<1>2. CASE RegisterWrite(q)
  <2>1. PICK g \in {h \in Gateways : gateways[h] = Null} :
          /\ gateways' = [gateways EXCEPT ![g] = [code |-> req[q].code, told |-> Unused(req[q].code),
                                                 revoked |-> Never]]
          /\ AnswerBad(q) \/ AnswerToken(q, g)
    BY <1>2 DEF RegisterWrite
  <2>2. req[q].code \in Codes /\ Unused(req[q].code) \in BOOLEAN
    BY <1>0, <1>2, Shapes DEF RegisterWrite, At, Unused
  <2>3. gateways'[g] # Null
    BY <2>1, <2>2, RowsAreNotNull DEF IInv, TypeOK
  <2> QED
    BY <1>2, <2>1, <2>3 DEF RegisterWrite, Answers
<1>a. ASSUME NEW s \in {"receipt", "hub", "write"}, NEW t,
             \/ t = [req[q] EXCEPT !.step = s]
             \/ t = [req[q] EXCEPT !.step = s, !.hub = claimed],
             req' = [req EXCEPT ![q] = t], req[q].op = "ingest", UNCHANGED computer,
             req[q].step = "auth" => Valid(req[q].gateway)
      PROVE  Moves(q)
  <2>1. /\ t \in Request /\ t.op = "ingest" /\ t.step = s /\ t.at = req[q].at
        /\ t.gateway = req[q].gateway /\ t.event = req[q].event
    <3>1. req[q] \in [op : {"ingest"}, step : {"auth", "receipt", "hub", "write"}, at : Times,
                      gateway : Gateways, event : Events, hub : BOOLEAN]
      BY <1>0, <1>a DEF Request, Idle
    <3>2. claimed \in BOOLEAN
      BY DEF IInv, TypeOK
    <3> QED
      BY <1>a, <3>1, <3>2 DEF Request
  <2> QED
    BY <1>a, <2>1 DEF GoesOn, Moves
<1>3. CASE Authenticate(q)
  <2>1. CASE Valid(req[q].gateway)
    BY <1>3, <2>1, <1>a DEF Authenticate, At, Step
  <2> QED
    BY <1>3, <2>1 DEF Authenticate, Answers
<1>4. CASE IngestReceipt(q)
  <2>1. CASE receipts[req[q].gateway][req[q].event] = Never
    BY <1>4, <2>1, <1>a DEF IngestReceipt, At, Step
  <2> QED
    BY <1>4, <2>1 DEF IngestReceipt, At, Answers
<1>5. CASE IngestHub(q)
  BY <1>5, <1>a DEF IngestHub, At, IInv, TypeOK
<1>6. CASE IngestWrite(q)
  BY <1>6 DEF IngestWrite, At, Answers
<1>7. CASE Fail(q)
  BY <1>7 DEF Fail, Answers
<1> QED
  BY <1>1, <1>2, <1>3, <1>4, <1>5, <1>6, <1>7 DEF Cloud

LEMMA OthersStay ==
    ASSUME IInv, NEW q \in Requests, Cloud(q), NEW p \in Requests, p # q
    PROVE  req'[p] = req[p]
<1>0. req \in [Requests -> Request]
  BY DEF IInv, TypeOK
<1>1. CASE Moves(q)
  BY <1>0, <1>1 DEF Moves, GoesOn
<1>2. CASE Answers(q)
  <2>1. EndsIdle(q) \/ SendsNext(q)
    BY <1>2, AnswerShapes
  <2> QED
    BY <1>0, <2>1 DEF EndsIdle, SendsNext
<1>3. ASSUME NEW g \in Gateways, AnswerToken(q, g)
      PROVE  req'[p] = req[p]
  BY <1>0, <1>3 DEF AnswerToken
<1> QED
  BY <1>1, <1>2, <1>3, CloudShapes

-----------------------------------------------------------------------------
(***************************************************************************)
(* Types are preserved.                                                    *)
(***************************************************************************)
LEMMA TablesStep ==
    ASSUME IInv, Next
    PROVE  TablesTyped'
<1>0. TablesTyped /\ ProcessTyped
  BY Typed DEF IInv
<1> USE Numbers
<1>1. CASE IssueCode
  <2>1. codes' \in [Codes -> Code]
    BY <1>0, <1>1 DEF IssueCode, TablesTyped, Code, Times
  <2> QED
    BY <1>0, <1>1, <2>1 DEF IssueCode, stored, TablesTyped
<1>2. ASSUME NEW g \in Gateways, Revoke(g)
      PROVE  TablesTyped'
  <2>1. gateways[g] \in Gateway
    BY <1>0, <1>2 DEF Revoke, TablesTyped
  <2>2. [gateways[g] EXCEPT !.revoked = now] \in Gateway
    BY <1>0, <2>1 DEF Gateway, TablesTyped
  <2>3. gateways' \in [Gateways -> Gateway \cup {Null}]
    BY <1>0, <1>2, <2>2 DEF Revoke, TablesTyped
  <2> QED
    BY <1>0, <1>2, <2>3 DEF Revoke, stored, TablesTyped
<1>3. Pruned \in [Gateways -> [Events -> Times \cup {Never}]]
  BY <1>0 DEF Pruned, TablesTyped
<1>4. ASSUME NEW g \in Gateways, Heartbeat(g)
      PROVE  TablesTyped'
  BY <1>0, <1>3, <1>4 DEF Heartbeat, registry, TablesTyped
<1>5. CASE BrowserIngest
  BY <1>0, <1>3, <1>5 DEF BrowserIngest, registry, Max2, Times, TablesTyped
<1>6. CASE ClaimHub
  BY <1>0, <1>6 DEF ClaimHub, registry, TablesTyped
<1>7. CASE Tick
  BY <1>0, <1>7 DEF Tick, registry, stored, Times, TablesTyped
<1>8. CASE Computer
  BY <1>0, <1>8 DEF Computer, Pair, Start, Enqueue, Flush, Save, Disconnect, Crash,
                    registry, stored, TablesTyped
<1>9. ASSUME NEW q \in Requests, Cloud(q)
      PROVE  TablesTyped'
  <2>0. req[q] \in Request
    BY <1>0 DEF ProcessTyped
  <2>1. CASE RegisterWrite(q)
    <3>1. req[q].code \in Codes /\ Unused(req[q].code) \in BOOLEAN
      BY <2>0, <2>1, Shapes DEF RegisterWrite, At, Unused
    <3>2. gateways' \in [Gateways -> Gateway \cup {Null}]
      BY <1>0, <2>1, <3>1, RowsAreNotNull DEF RegisterWrite, TablesTyped
    <3>3. codes' \in [Codes -> Code]
      <4>1. codes[req[q].code] \in Code
        BY <1>0, <3>1 DEF TablesTyped
      <4>2. [codes[req[q].code] EXCEPT !.state = "used"] \in Code
        BY <4>1 DEF Code
      <4> QED
        BY <1>0, <2>1, <3>1, <4>2 DEF RegisterWrite, TablesTyped
    <3> QED
      BY <1>0, <2>1, <3>2, <3>3 DEF RegisterWrite, stored, TablesTyped
  <2>2. CASE IngestWrite(q)
    <3> DEFINE g == req[q].gateway
               e == req[q].event
    <3>1. g \in Gateways /\ e \in Events /\ req[q].at \in Times
      BY <2>0, <2>2, Shapes DEF IngestWrite, At
    <3>2. CASE UNCHANGED stored
      BY <1>0, <2>2, <3>2 DEF IngestWrite, registry, stored, TablesTyped
    <3>3. CASE receipts' = [receipts EXCEPT ![g][e] = req[q].at] /\ ~UNCHANGED stored
      <4>1. receipts' \in [Gateways -> [Events -> Times \cup {Never}]]
        BY <1>0, <3>1, <3>3 DEF TablesTyped
      <4>2. counted' \in [Gateways -> [Events -> Nat]] /\ seenBy' \in Gateways \cup {Null}
        <5>1. counted[g][e] + 1 \in Nat
          BY <1>0, <3>1 DEF TablesTyped
        <5>2. [counted EXCEPT ![g][e] = counted[g][e] + 1] \in [Gateways -> [Events -> Nat]]
          BY <1>0, <3>1, <5>1 DEF TablesTyped
        <5> QED
          BY <1>0, <2>2, <3>1, <5>2 DEF IngestWrite, stored, TablesTyped
      <4>3. lastSeen' \in 0..(now + Ahead)
        <5>1. EventTime(born[e], req[q].at) \in 0..(now + Ahead)
          <6>1. born[e] \in Nat /\ req[q].at <= now
            BY <1>0, <2>2, <3>1, Shapes DEF IngestWrite, At, IInv, RequestsOK, RequestOK, BirthsOK,
                                            ProcessTyped, Never
          <6> QED
            BY <1>0, <3>1, <6>1 DEF EventTime, Min2, Max2, Times, TablesTyped
        <5> QED
          BY <1>0, <2>2, <3>3, <5>1 DEF IngestWrite, TablesTyped
      <4> QED
        BY <1>0, <2>2, <3>3, <4>1, <4>2, <4>3 DEF IngestWrite, registry, stored, TablesTyped
    <3> QED
      BY <2>2, <3>2, <3>3 DEF IngestWrite
  <2> QED
    BY <1>0, <1>9, <2>1, <2>2 DEF Cloud, RegisterRead, Authenticate, IngestReceipt, IngestHub, Fail,
                                  registry, stored, TablesTyped
<1> QED
  BY <1>1, <1>2, <1>4, <1>5, <1>6, <1>7, <1>8, <1>9 DEF Next

LEMMA ProcessStep ==
    ASSUME IInv, Next
    PROVE  ProcessTyped'
<1>0. TablesTyped /\ ProcessTyped
  BY Typed DEF IInv
<1> USE Numbers
<1>1. ASSUME NEW q \in Requests, Cloud(q)
      PROVE  ProcessTyped'
  <2>1. CASE Moves(q)
    BY <1>0, <2>1 DEF Moves, GoesOn, computer, ProcessTyped
  <2>2. CASE Answers(q)
    <3>1. CASE EndsIdle(q)
      BY <1>0, <2>2, <3>1, AnswerShapes, IdleRequest DEF EndsIdle, ProcessTyped
    <3>2. CASE SendsNext(q)
      <4>1. PICK e \in buffer' : req' = [req EXCEPT ![q] = Sent(e)]
        BY <3>2 DEF SendsNext
      <4>2. e \in Events /\ token \in Gateways
        BY <1>0, <3>2, <4>1 DEF SendsNext, IInv, WaitingOK, ProcessTyped
      <4>3. Sent(e) \in Request
        BY <1>0, <4>2, SentRequest DEF TablesTyped
      <4> QED
        BY <1>0, <2>2, <3>2, <4>1, <4>3, AnswerShapes DEF SendsNext, ProcessTyped
    <3> QED
      BY <2>2, <3>1, <3>2, AnswerShapes
  <2>3. ASSUME NEW g \in Gateways, AnswerToken(q, g)
        PROVE  ProcessTyped'
    BY <1>0, <2>3, IdleRequest DEF AnswerToken, ProcessTyped
  <2> QED
    BY <1>1, <2>1, <2>2, <2>3, CloudShapes
<1>2. ASSUME NEW q \in Requests, NEW c \in Codes, Pair(q, c)
      PROVE  ProcessTyped'
  BY <1>0, <1>2, PairRequest DEF Pair, ProcessTyped, TablesTyped
<1>3. ASSUME NEW q \in Requests, Flush(q)
      PROVE  ProcessTyped'
  <2>1. token \in Gateways
    BY <1>0, <1>3 DEF Flush, IInv, WaitingOK, ProcessTyped
  <2>2. \A e \in Events : Sent(e) \in Request
    BY <1>0, <2>1, SentRequest DEF TablesTyped
  <2>3. buffer' \subseteq Events /\ dropped' \subseteq Events
    BY <1>0, <1>3 DEF Flush, ProcessTyped
  <2> QED
    BY <1>0, <1>3, <2>2, <2>3 DEF Flush, ProcessTyped
<1>4. CASE Enqueue
  BY <1>0, <1>4 DEF Enqueue, ProcessTyped, TablesTyped, Times
<1>5. CASE Start \/ Save \/ Disconnect \/ Crash
  BY <1>0, <1>5 DEF Start, Save, Disconnect, Crash, ProcessTyped
<1>6. CASE UNCHANGED <<req, computer>>
  BY <1>0, <1>6 DEF computer, ProcessTyped
<1> QED
  BY <1>1, <1>2, <1>3, <1>4, <1>5, <1>6
     DEF Next, Computer, IssueCode, Revoke, Heartbeat, BrowserIngest, ClaimHub, Tick

-----------------------------------------------------------------------------
(***************************************************************************)
(* What a step leaves of the rows that others rely on.                     *)
(***************************************************************************)
CodesKept == \A c \in Codes : codes[c].state # "none" =>
    /\ codes'[c].state # "none"
    /\ codes'[c].state = "open" => codes'[c] = codes[c]

GatewaysKept == \A g \in Gateways : gateways[g] # Null =>
    /\ gateways'[g] # Null
    /\ gateways'[g].code = gateways[g].code
    /\ gateways'[g].told = gateways[g].told
    /\ \/ gateways'[g].revoked = gateways[g].revoked
       \/ gateways[g].revoked = Never /\ gateways'[g].revoked = now

BirthsKept == \A e \in Events : born[e] # Never => born'[e] = born[e]

LEMMA RowsKept ==
    ASSUME IInv, Next
    PROVE  /\ CodesKept /\ GatewaysKept /\ BirthsKept
           /\ now' = now \/ Tick
<1>0. TablesTyped /\ ProcessTyped
  BY Typed DEF IInv
<1>1. CASE IssueCode
  BY <1>0, <1>1 DEF IssueCode, computer, CodesKept, GatewaysKept, BirthsKept, TablesTyped, Code
<1>2. ASSUME NEW g \in Gateways, Revoke(g)
      PROVE  CodesKept /\ GatewaysKept /\ BirthsKept /\ UNCHANGED now
  <2>1. gateways[g] \in Gateway
    BY <1>0, <1>2 DEF Revoke, TablesTyped
  <2>2. PICK row : row = [gateways[g] EXCEPT !.revoked = now]
    OBVIOUS
  <2>3. /\ row \in Gateway /\ row.code = gateways[g].code /\ row.told = gateways[g].told
        /\ row.revoked = now
    BY <1>0, <2>1, <2>2 DEF Gateway, TablesTyped
  <2>4. gateways' = [gateways EXCEPT ![g] = row]
    BY <1>2, <2>2 DEF Revoke
  <2>5. GatewaysKept
    BY <1>0, <1>2, <2>3, <2>4, RowAssumption DEF Revoke, GatewaysKept, TablesTyped
  <2> QED
    BY <1>2, <2>5 DEF Revoke, computer, CodesKept, BirthsKept
<1>3. ASSUME NEW q \in Requests, RegisterWrite(q)
      PROVE  CodesKept /\ GatewaysKept /\ BirthsKept /\ UNCHANGED now
  <2>1. req[q].code \in Codes
    BY <1>0, <1>3, Shapes DEF RegisterWrite, At, ProcessTyped
  <2>2. GatewaysKept
    BY <1>0, <1>3 DEF RegisterWrite, GatewaysKept, TablesTyped
  <2>3. codes[req[q].code] \in Code
    BY <1>0, <2>1 DEF TablesTyped
  <2>4. [codes[req[q].code] EXCEPT !.state = "used"].state = "used"
    BY <2>3 DEF Code
  <2>5. CodesKept
    BY <1>0, <1>3, <2>1, <2>4 DEF RegisterWrite, CodesKept, TablesTyped
  <2> QED
    BY <1>3, <2>2, <2>5 DEF RegisterWrite, AnswerBad, AnswerToken, BirthsKept
<1>4. CASE Enqueue
  BY <1>0, <1>4 DEF Enqueue, registry, CodesKept, GatewaysKept, BirthsKept, ProcessTyped
<1>5. CASE UNCHANGED <<registry, born>> /\ (now' = now \/ Tick)
  BY <1>5 DEF registry, CodesKept, GatewaysKept, BirthsKept
<1>6. ASSUME NEW q \in Requests, Cloud(q), ~RegisterWrite(q)
      PROVE  UNCHANGED <<now, registry, born>>
  BY <1>6 DEF Cloud, RegisterRead, Authenticate, IngestReceipt, IngestHub, IngestWrite, Fail,
              AnswerBad, AnswerStored, computer
<1>7. Computer => Enqueue \/ UNCHANGED <<now, registry, born>>
  BY DEF Computer, Pair, Start, Flush, Save, Disconnect, Crash, registry
<1> QED
  BY <1>1, <1>2, <1>3, <1>4, <1>5, <1>6, <1>7
     DEF Next, Heartbeat, BrowserIngest, ClaimHub, Tick, computer

LEMMA BirthsStep ==
    ASSUME IInv, Next, TypeOK'
    PROVE  BirthsOK'
<1>0. TablesTyped /\ ProcessTyped /\ BirthsOK
  BY Typed DEF IInv
<1> USE Numbers
<1>1. CASE Enqueue
  <2>1. PICK e \in Events :
          /\ born[e] = Never /\ (\A f \in Events : born[f] = Never => e <= f)
          /\ born' = [born EXCEPT ![e] = now + Skew]
          /\ buffer' = buffer \cup {e}
    BY <1>1 DEF Enqueue
  <2>2. /\ now \in Nat /\ now' = now /\ file' = file /\ dropped' = dropped
        /\ \A f \in Events : f \in Nat /\ born[f] \in Nat \cup {Never}
    BY <1>0, <1>1 DEF Enqueue, TablesTyped, ProcessTyped, Events, Times
  <2> QED
    BY <1>0, <2>1, <2>2 DEF BirthsOK, Never, ProcessTyped
<1>2. ASSUME UNCHANGED born, now <= now',
             buffer' \cup file' \cup dropped' \subseteq buffer \cup file \cup dropped
      PROVE  BirthsOK'
  <2>1. now \in Int /\ now' \in Int /\ \A e \in Events : born[e] \in Int
    BY <1>0 DEF TypeOK, TablesTyped, ProcessTyped, Times, Never
  <2>2. \A e \in Events : born[e] # Never => Skew <= born[e] /\ born[e] <= now' + Skew
    BY <1>0, <1>2, <2>1 DEF BirthsOK
  <2> QED
    BY <1>0, <1>2, <2>2 DEF BirthsOK
<1>3. ASSUME NEW q \in Requests, Cloud(q)
      PROVE  /\ UNCHANGED <<now, born, file, dropped>> /\ buffer' \subseteq buffer
  BY <1>3, CloudShapes, AnswerShapes DEF Moves, computer, EndsIdle, SendsNext, AnswerToken
<1>4. Computer /\ ~Enqueue =>
        /\ UNCHANGED <<now, born>>
        /\ buffer' \cup file' \cup dropped' \subseteq buffer \cup file \cup dropped
  BY <1>0 DEF Computer, Pair, Start, Flush, Save, Disconnect, Crash, ProcessTyped
<1>5. now \in Int /\ (Tick => now' = now + 1)
  BY <1>0 DEF Tick, TablesTyped, Times
<1> QED
  BY <1>1, <1>2, <1>3, <1>4, <1>5
     DEF Next, IssueCode, Revoke, Heartbeat, BrowserIngest, ClaimHub, Tick, computer

LEMMA CodesStep ==
    ASSUME IInv, Next, TypeOK'
    PROVE  CodesOK'
<1>0. TablesTyped /\ ProcessTyped /\ CodesOK
  BY Typed DEF IInv
<1>1. ASSUME NEW q \in Requests, RegisterWrite(q)
      PROVE  CodesOK'
  <2> DEFINE c == req[q].code
  <2>1. c \in Codes
    BY <1>0, <1>1, Shapes DEF RegisterWrite, At, ProcessTyped
  <2>2. PICK g \in Gateways :
          gateways' = [gateways EXCEPT ![g] = [code |-> c, told |-> Unused(c), revoked |-> Never]]
    BY <1>1 DEF RegisterWrite
  <2>3. CASE Unused(c)
    <3>1. codes[c] \in Code
      BY <1>0, <2>1 DEF TablesTyped
    <3>2. codes'[c].state = "used" /\ \A d \in Codes \ {c} : codes'[d] = codes[d]
      BY <1>0, <1>1, <2>1, <2>3, <3>1 DEF RegisterWrite, TablesTyped, Code
    <3> QED
      BY <1>0, <2>1, <2>2, <3>2 DEF CodesOK, TablesTyped
  <2>4. CASE ~Unused(c)
    BY <1>0, <1>1, <2>2, <2>4 DEF RegisterWrite, CodesOK, TablesTyped
  <2> QED
    BY <2>3, <2>4
<1>2. ASSUME \A c \in Codes : codes'[c].state \in {"none", "open"} => codes[c].state \in {"none", "open"},
             \A g \in Gateways : gateways'[g] # Null => gateways[g] # Null
      PROVE  CodesOK'
  <2>1. GatewaysKept
    BY RowsKept
  <2> QED
    BY <1>0, <1>2, <2>1 DEF CodesOK, GatewaysKept
<1>3. CASE IssueCode
  BY <1>0, <1>2, <1>3 DEF IssueCode, TablesTyped, Code
<1>4. ASSUME NEW g \in Gateways, Revoke(g)
      PROVE  CodesOK'
  BY <1>0, <1>2, <1>4 DEF Revoke, TablesTyped
<1>5. CASE UNCHANGED registry
  BY <1>2, <1>5 DEF registry
<1>6. ASSUME NEW q \in Requests, Cloud(q), ~RegisterWrite(q)
      PROVE  UNCHANGED registry
  BY <1>6 DEF Cloud, RegisterRead, Authenticate, IngestReceipt, IngestHub, IngestWrite, Fail
<1>7. Computer => UNCHANGED registry
  BY DEF Computer, Pair, Start, Enqueue, Flush, Save, Disconnect, Crash
<1> QED
  BY <1>1, <1>3, <1>4, <1>5, <1>6, <1>7 DEF Next, Heartbeat, BrowserIngest, ClaimHub, Tick, registry

-----------------------------------------------------------------------------
(***************************************************************************)
(* What is sent is recent, and the invocations stay sound.                 *)
(***************************************************************************)
Sends(e) ==
    /\ e \in Events /\ token \in Gateways /\ gateways[token] # Null
    /\ First(e, buffer')
    /\ \A f \in buffer' : f \in buffer /\ born[f] # Never /\ Sendable(f, now, e)

\* The answer about one event lets the next be sent: it is a tick later at most.
LEMMA NextIsSendable ==
    ASSUME IInv, NEW q \in Requests, SendsNext(q)
    PROVE  \E e \in buffer' : Sends(e) /\ req' = [req EXCEPT ![q] = Sent(e)]
<1>0. TablesTyped /\ ProcessTyped
  BY Typed DEF IInv
<1> USE Numbers
<1>1. PICK e \in buffer' : First(e, buffer') /\ req' = [req EXCEPT ![q] = Sent(e)]
  BY DEF SendsNext
<1> DEFINE r == req[q]
<1>2. /\ r \in Request /\ r.op = "ingest" /\ r.at \in Nat /\ r.event \in Nat /\ now \in Nat
      /\ now <= r.at + 1
  <2>1. r \in Request /\ r.op = "ingest" /\ RequestOK(r)
    BY <1>0 DEF SendsNext, ProcessTyped, IInv, RequestsOK
  <2>2. r.at \in Times /\ r.event \in Events /\ now \in Times
    BY <1>0, <2>1, Shapes DEF TablesTyped
  <2> QED
    BY <2>1, <2>2 DEF RequestOK, Times, Events
<1>3. waiting = q /\ waiting # Null
  BY NullAssumption DEF SendsNext
<1>4. /\ First(r.event, buffer)
      /\ \A f \in buffer : Sendable(f, r.at, r.event) \/ Birth(f) > r.at
  BY <1>2, <1>3 DEF IInv, WaitingOK
<1>5. /\ e \in Events /\ e \in Nat /\ token \in Gateways /\ gateways[token] # Null
      /\ e > r.event
  BY <1>0, <1>1, <1>2, <1>4 DEF SendsNext, First, IInv, WaitingOK, ProcessTyped, Events
<1>6. ASSUME NEW f \in buffer'
      PROVE  f \in buffer /\ born[f] # Never /\ Sendable(f, now, e)
  <2>1. f \in buffer /\ f \in Events
    BY <1>0 DEF SendsNext, ProcessTyped
  <2>2. born[f] # Never /\ born[f] \in Nat
    BY <1>0, <2>1 DEF IInv, BirthsOK, ProcessTyped, Never
  <2>3. Birth(f) <= now /\ Birth(f) \in Int
    BY <1>0, <1>2, <2>1, <2>2 DEF Birth, IInv, BirthsOK
  <2>4. Sendable(f, r.at, r.event) \/ Birth(f) > r.at
    BY <1>4, <2>1
  <2> HIDE DEF r
  <2>5. Sendable(f, now, e)
    BY <1>2, <1>5, <2>3, <2>4 DEF Sendable
  <2> QED
    BY <2>1, <2>2, <2>5
<1> QED
  BY <1>1, <1>5, <1>6 DEF Sends

\* A flush begins with an event that is not too old, and later events are younger.
LEMMA FlushIsSendable ==
    ASSUME IInv, NEW q \in Requests, Flush(q), buffer' # {}
    PROVE  \E e \in buffer' : Sends(e) /\ req' = [req EXCEPT ![q] = Sent(e)]
<1>0. TablesTyped /\ ProcessTyped
  BY Typed DEF IInv
<1> USE Numbers
<1>1. PICK e \in buffer' : First(e, buffer') /\ req' = [req EXCEPT ![q] = Sent(e)]
  BY DEF Flush
<1>2. \A f \in buffer : /\ f \in Events /\ f \in Nat /\ born[f] # Never /\ born[f] \in Nat
                        /\ Birth(f) <= now
  BY <1>0 DEF Birth, IInv, BirthsOK, ProcessTyped, TablesTyped, Times, Events, Never
<1>3. buffer' = buffer \ {f \in buffer : \A h \in buffer : h <= f => Old(h)}
  BY DEF Flush
<1>4. ~Old(e)
  <2>1. PICK h \in buffer : h <= e /\ ~Old(h)
    BY <1>1, <1>3
  <2>2. h \in buffer'
    BY <1>2, <1>3, <2>1
  <2> QED
    BY <1>1, <1>2, <1>3, <2>1, <2>2 DEF First
<1>5. ASSUME NEW f \in buffer'
      PROVE  f \in buffer /\ born[f] # Never /\ Sendable(f, now, e)
  <2>1. f \in buffer /\ e \in buffer /\ e <= f
    BY <1>1, <1>3 DEF First
  <2>2. e = f \/ e < f
    BY <1>2, <2>1
  <2>3. born[e] <= born[f]
    BY <1>2, <2>1, <2>2 DEF IInv, BirthsOK
  <2>4. e >= 1 /\ now \in Nat
    BY <1>0, <1>2, <2>1 DEF TablesTyped, Times, Events
  <2> QED
    BY <1>2, <1>4, <2>1, <2>3, <2>4 DEF Old, Sendable, Birth
<1> QED
  BY <1>0, <1>1, <1>2, <1>3, <1>5 DEF Sends, Flush, IInv, WaitingOK, ProcessTyped

LEMMA RequestKept ==
    ASSUME IInv, Next, NEW r \in Request, RequestOK(r), now' <= r.at + 1 \/ UNCHANGED now \/ r.op = "idle"
    PROVE  RequestOK(r)'
<1>0. TablesTyped /\ ProcessTyped
  BY Typed DEF IInv
<1>1. CodesKept /\ GatewaysKept /\ BirthsKept /\ (now' = now \/ now' = now + 1)
  BY RowsKept DEF Tick
<1>2. CASE r.op = "idle"
  BY <1>2 DEF RequestOK
<1>3. CASE r.op = "register"
  <2>1. r.at \in Nat /\ r.code \in Codes /\ now \in Nat
    BY <1>0, <1>3, Shapes DEF TablesTyped, Times
  <2>2. r.at <= now' /\ now' <= r.at + 1
    BY <1>1, <1>3, <2>1 DEF RequestOK
  <2> QED
    BY <1>1, <1>3, <2>1, <2>2 DEF RequestOK, CodesKept
<1>4. CASE r.op = "ingest"
  <2>1. /\ r.at \in Nat /\ r.gateway \in Gateways /\ r.event \in Events /\ now \in Nat
        /\ r.at <= now
    BY <1>0, <1>4, Shapes DEF TablesTyped, Times, RequestOK
  <2>2. r.at <= now' /\ now' <= r.at + 1
    BY <1>1, <1>4, <2>1 DEF RequestOK
  <2>3. gateways'[r.gateway] # Null /\ born'[r.event] # Never /\ Sendable(r.event, r.at, r.event)'
    BY <1>1, <1>4, <2>1 DEF RequestOK, GatewaysKept, BirthsKept, Sendable, Birth
  <2>4. r.step # "auth" =>
          gateways'[r.gateway].revoked = Never \/ r.at <= gateways'[r.gateway].revoked
    BY <1>1, <1>4, <2>1 DEF RequestOK, GatewaysKept
  <2> QED
    BY <1>4, <2>2, <2>3, <2>4 DEF RequestOK
<1> QED
  BY <1>2, <1>3, <1>4, Shapes

LEMMA SentOK ==
    ASSUME IInv, Next, UNCHANGED now, NEW e \in buffer', Sends(e)
    PROVE  \E r \in Request :
             /\ r = Sent(e) /\ RequestOK(r)' /\ r.op = "ingest" /\ r.at = now
             /\ r.gateway = token /\ r.event = e
<1>0. TablesTyped /\ ProcessTyped
  BY Typed DEF IInv
<1>1. GatewaysKept /\ BirthsKept /\ now \in Int
  BY <1>0, RowsKept DEF TablesTyped, Times
<1>2. /\ Sent(e) \in Request /\ Sent(e).op = "ingest" /\ Sent(e).step = "auth"
      /\ Sent(e).at = now /\ Sent(e).gateway = token /\ Sent(e).event = e
  BY <1>0, SentRequest DEF Sends, TablesTyped
<1>3. /\ gateways'[token] # Null /\ born'[e] # Never /\ Sendable(e, now, e)'
  BY <1>1 DEF Sends, GatewaysKept, BirthsKept, Sendable, Birth
<1>4. PICK r : r = Sent(e)
  OBVIOUS
<1>5. RequestOK(r)'
  BY <1>1, <1>2, <1>3, <1>4 DEF RequestOK
<1> QED
  BY <1>2, <1>4, <1>5

\* Only these invocations are new or other than before.
LEMMA RequestsStep ==
    ASSUME IInv, Next, TypeOK'
    PROVE  RequestsOK'
<1>0. /\ TablesTyped /\ ProcessTyped /\ req \in [Requests -> Request]
      /\ \A q \in Requests : RequestOK(req[q])
  BY Typed DEF IInv, RequestsOK, ProcessTyped
<1> SUFFICES ASSUME NEW p \in Requests
             PROVE  RequestOK(req[p])'
  BY DEF RequestsOK
<1>1. ASSUME req'[p] = req[p], UNCHANGED now
      PROVE  RequestOK(req[p])'
  <2>1. PICK r \in Request : r = req[p]
    BY <1>0
  <2>2. RequestOK(r)'
    BY <1>0, <1>1, <2>1, RequestKept
  <2> QED
    BY <1>1, <2>1, <2>2
<1>2. ASSUME req'[p] = Idle
      PROVE  RequestOK(req[p])'
  BY <1>2, IdleRequest DEF RequestOK
<1>3. ASSUME NEW q \in Requests, NEW e \in buffer', Sends(e), UNCHANGED now,
             req' = [req EXCEPT ![q] = Sent(e)]
      PROVE  RequestOK(req[p])'
  <2>1. CASE p = q
    BY <1>0, <1>3, <2>1, SentOK
  <2> QED
    BY <1>0, <1>1, <1>3, <2>1
<1>4. ASSUME NEW q \in Requests, Cloud(q)
      PROVE  RequestOK(req[p])'
  <2>0. UNCHANGED now
    BY <1>4, CloudShapes
  <2>1. CASE p # q
    <3>1. req'[p] = req[p]
      BY <1>0, <1>4, <2>1, OthersStay
    <3> QED
      BY <1>1, <2>0, <3>1
  <2>2. CASE p = q /\ Moves(q)
    <3>1. PICK t : GoesOn(q, t)
      BY <2>2 DEF Moves
    <3>2. t \in Request /\ req'[p] = t
      BY <1>0, <2>2, <3>1 DEF GoesOn
    <3>3. now \in Times /\ now \in Nat /\ (t.at \in Times => t.at \in Nat)
      BY <1>0 DEF TablesTyped, Times
    <3>4. RequestOK(t)
      BY <1>0, <3>1, <3>2, <3>3, Shapes DEF GoesOn, RequestOK, Valid
    <3>5. RequestOK(t)'
      BY <1>0, <2>0, <3>2, <3>4, RequestKept
    <3> QED
      BY <3>2, <3>5
  <2>3. CASE Answers(q)
    <3>1. CASE EndsIdle(q) /\ p = q
      BY <1>0, <1>2, <3>1 DEF EndsIdle
    <3>2. CASE SendsNext(q)
      BY <1>3, <2>0, <3>2, NextIsSendable
    <3> QED
      BY <2>1, <2>3, <3>1, <3>2, AnswerShapes
  <2>4. ASSUME NEW g \in Gateways, AnswerToken(q, g), p = q
        PROVE  RequestOK(req[p])'
    BY <1>0, <1>2, <2>4 DEF AnswerToken
  <2> QED
    BY <1>4, <2>1, <2>2, <2>3, <2>4, CloudShapes
<1>5. ASSUME NEW q \in Requests, NEW c \in Codes, Pair(q, c)
      PROVE  RequestOK(req[p])'
  <2>1. CASE p = q
    <3>1. PICK r : r = [op |-> "register", step |-> "read", at |-> now, code |-> c]
      OBVIOUS
    <3>2. /\ r \in Request /\ r.op = "register" /\ r.step = "read" /\ r.at = now /\ r.code = c
          /\ now \in Nat
      BY <1>0, <3>1, PairRequest DEF TablesTyped, Times
    <3>3. RequestOK(r)
      BY <1>5, <3>2 DEF Pair, RequestOK
    <3>4. RequestOK(r)'
      BY <1>5, <3>2, <3>3, RequestKept DEF Pair
    <3> QED
      BY <1>0, <1>5, <2>1, <3>1, <3>4 DEF Pair
  <2> QED
    BY <1>0, <1>1, <1>5, <2>1 DEF Pair
<1>6. ASSUME NEW q \in Requests, Flush(q)
      PROVE  RequestOK(req[p])'
  <2>1. CASE buffer' = {}
    BY <1>1, <1>6, <2>1 DEF Flush
  <2> QED
    BY <1>3, <1>6, <2>1, FlushIsSendable DEF Flush
<1>7. CASE Tick
  <2>1. PICK r \in Request : r = req[p]
    BY <1>0
  <2>2. r.op = "idle" \/ now' <= r.at + 1
    BY <1>0, <1>7, <2>1, Shapes DEF Tick, TablesTyped, Times
  <2>3. RequestOK(r)'
    BY <1>0, <2>1, <2>2, RequestKept
  <2> QED
    BY <1>7, <2>1, <2>3 DEF Tick
<1>8. CASE UNCHANGED <<now, req>>
  BY <1>1, <1>8
<1> QED
  BY <1>4, <1>5, <1>6, <1>7, <1>8
     DEF Next, Computer, IssueCode, Revoke, Heartbeat, BrowserIngest, ClaimHub,
         Start, Enqueue, Save, Disconnect, Crash

LEMMA WaitingStep ==
    ASSUME IInv, Next, TypeOK'
    PROVE  WaitingOK'
<1>0. TablesTyped /\ ProcessTyped /\ WaitingOK /\ GatewaysKept /\ BirthsKept
  BY Typed, RowsKept DEF IInv
<1> USE Numbers
\* The same question, asked by the same process.
<1>1. ASSUME UNCHANGED <<up, token, buffer>>, waiting' \in {waiting, Null},
             waiting' # Null =>
               /\ req'[waiting].op = req[waiting].op
               /\ req[waiting].op = "ingest" =>
                    /\ req'[waiting].at = req[waiting].at
                    /\ req'[waiting].gateway = req[waiting].gateway
                    /\ req'[waiting].event = req[waiting].event
      PROVE  WaitingOK'
  <2>1. token' # Null => gateways'[token'] # Null
    BY <1>0, <1>1 DEF WaitingOK, GatewaysKept, ProcessTyped
  <2>2. \A f \in buffer : born'[f] = born[f]
    BY <1>0 DEF IInv, BirthsOK, BirthsKept, ProcessTyped
  <2> QED
    BY <1>0, <1>1, <2>1, <2>2 DEF WaitingOK, First, Sendable, Birth
<1>2. ASSUME NEW q \in Requests, NEW e \in buffer', Sends(e), UNCHANGED <<now, token, up>>, up,
             req' = [req EXCEPT ![q] = Sent(e)], waiting' = q
      PROVE  WaitingOK'
  <2>1. /\ Sent(e).op = "ingest" /\ Sent(e).at = now /\ Sent(e).gateway = token /\ Sent(e).event = e
    BY <1>0, <1>2, SentRequest DEF Sends, TablesTyped
  <2>2. req'[q] = Sent(e)
    BY <1>0, <1>2 DEF ProcessTyped
  <2>3. \A f \in buffer' : Sendable(f, now, e)'
    BY <1>0, <1>2 DEF Sends, Sendable, Birth, BirthsKept, ProcessTyped
  <2>4. token' # Null /\ gateways'[token'] # Null
    BY <1>0, <1>2, NullAssumption DEF Sends, GatewaysKept
  <2> QED
    BY <1>2, <2>1, <2>2, <2>3, <2>4 DEF Sends, WaitingOK
<1>3. ASSUME NEW q \in Requests, Cloud(q)
      PROVE  WaitingOK'
  <2>1. CASE Moves(q)
    BY <1>0, <1>1, <2>1 DEF Moves, GoesOn, computer, ProcessTyped
  <2>2. CASE Answers(q) /\ EndsIdle(q)
    <3>1. CASE buffer' = {} /\ waiting' = Null
      BY <1>0, <2>2, <3>1, AnswerShapes DEF WaitingOK, GatewaysKept, ProcessTyped
    <3>2. CASE buffer' = buffer /\ waiting' = IF waiting = q THEN Null ELSE waiting
      BY <1>0, <1>1, <2>2, <3>2, AnswerShapes DEF EndsIdle, ProcessTyped
    <3> QED
      BY <2>2, <3>1, <3>2 DEF EndsIdle
  <2>3. CASE Answers(q) /\ SendsNext(q)
    BY <1>2, <1>3, <2>3, AnswerShapes, NextIsSendable, CloudShapes DEF SendsNext
  <2>4. ASSUME NEW g \in Gateways, gateways'[g] # Null, AnswerToken(q, g)
        PROVE  WaitingOK'
    BY <2>4, NullAssumption DEF AnswerToken, WaitingOK
  <2> QED
    BY <1>3, <2>1, <2>2, <2>3, <2>4, CloudShapes, AnswerShapes
<1>4. ASSUME NEW q \in Requests, NEW c \in Codes, Pair(q, c)
      PROVE  WaitingOK'
  <2>1. req'[q].op = "register"
    BY <1>0, <1>4 DEF Pair, ProcessTyped
  <2> QED
    BY <1>0, <1>4, <2>1 DEF Pair, registry, WaitingOK
<1>5. ASSUME NEW q \in Requests, Flush(q)
      PROVE  WaitingOK'
  <2>1. CASE buffer' = {}
    <3>1. waiting' = Null
      BY <1>5, <2>1 DEF Flush, First
    <3> QED
      BY <1>0, <1>5, <3>1 DEF Flush, registry, WaitingOK
  <2>2. CASE buffer' # {}
    BY <1>2, <1>5, <2>2, FlushIsSendable DEF Flush
  <2> QED
    BY <2>1, <2>2
<1>6. CASE Enqueue
  <2>1. PICK e \in Events :
          /\ born[e] = Never
          /\ born' = [born EXCEPT ![e] = now + Skew]
          /\ buffer' = buffer \cup {e}
    BY <1>6 DEF Enqueue
  <2>2. /\ UNCHANGED <<now, req, up, token, waiting, gateways>>
        /\ up
    BY <1>6 DEF Enqueue, registry
  <2>3. ASSUME waiting # Null
        PROVE  /\ First(req[waiting].event, buffer')
               /\ \A f \in buffer' : \/ Sendable(f, req[waiting].at, req[waiting].event)'
                                     \/ Birth(f)' > req[waiting].at
    <3> DEFINE r == req[waiting]
    <3>1. r \in Request /\ r.op = "ingest" /\ RequestOK(r)
      BY <1>0, <2>2, <2>3 DEF WaitingOK, ProcessTyped, IInv, RequestsOK
    <3>2. r.at \in Nat /\ r.event \in Nat /\ r.event >= 1 /\ now \in Nat /\ r.at <= now
          /\ r.event \in Events /\ born[r.event] # Never
      <4>1. r.at \in Times /\ r.event \in Events
        BY <3>1, Shapes
      <4>2. r.at \in Nat /\ r.event \in Nat /\ r.event >= 1 /\ now \in Nat
        BY <1>0, <4>1 DEF TablesTyped, Times, Events
      <4>3. r.at <= now /\ born[r.event] # Never
        BY <3>1 DEF RequestOK
      <4> QED
        BY <4>1, <4>2, <4>3
    <3>3. r.event <= e
      BY <2>1, <3>2 DEF IInv, BirthsOK, Events
    <3>4. First(r.event, buffer')
      BY <1>0, <2>1, <2>2, <2>3, <3>1, <3>3 DEF WaitingOK, First
    <3>5. ASSUME NEW f \in buffer
          PROVE  Sendable(f, r.at, r.event)' \/ Birth(f)' > r.at
      <4>1. born'[f] = born[f]
        BY <1>0 DEF IInv, BirthsOK, BirthsKept, ProcessTyped
      <4>2. Sendable(f, r.at, r.event) \/ Birth(f) > r.at
        BY <1>0, <2>2, <2>3, <3>1 DEF WaitingOK
      <4> QED
        BY <2>2, <4>1, <4>2 DEF Sendable, Birth
    <3>6. born'[e] = now + Skew
      BY <1>0, <2>1 DEF ProcessTyped
    <3>7. Sendable(e, r.at, r.event)' \/ Birth(e)' > r.at
      <4>1. PICK at, sent \in Nat : at = r.at /\ sent = r.event
        BY <3>2
      <4>2. at <= now /\ sent >= 1 /\ Birth(e)' = now
        BY <3>2, <3>6, <4>1 DEF Birth
      <4>3. Sendable(e, at, sent)' \/ Birth(e)' > at
        BY <3>2, <4>1, <4>2 DEF Sendable
      <4> QED
        BY <2>2, <4>1, <4>3 DEF Sendable
    <3> QED
      BY <2>1, <3>4, <3>5, <3>7
  <2> QED
    BY <1>0, <2>2, <2>3 DEF WaitingOK
<1>7. CASE Start \/ Disconnect \/ Crash
  BY <1>0, <1>7 DEF Start, Disconnect, Crash, registry, WaitingOK
<1>9. CASE Save
  BY <1>1, <1>9 DEF Save
<1>8. CASE UNCHANGED <<req, computer>>
  BY <1>1, <1>8 DEF computer
<1> QED
  BY <1>3, <1>4, <1>5, <1>6, <1>7, <1>8, <1>9
     DEF Next, Computer, IssueCode, Revoke, Heartbeat, BrowserIngest, ClaimHub, Tick

-----------------------------------------------------------------------------
(***************************************************************************)
(* Receipts outlive the events they are about.                             *)
(***************************************************************************)

\* An event on its way is not so old that its receipt may be gone.
LEMMA InFlightIsNotDead ==
    ASSUME IInv, NEW q \in Requests, req[q].op = "ingest"
    PROVE  /\ req[q].gateway \in Gateways /\ req[q].event \in Events
           /\ req[q].at \in Nat /\ req[q].at <= now /\ now <= req[q].at + 1
           /\ gateways[req[q].gateway] # Null /\ born[req[q].event] # Never
           /\ Birth(req[q].event) <= req[q].at
           /\ ~Dead(req[q].event)
<1>0. TablesTyped /\ ProcessTyped
  BY Typed DEF IInv
<1>1. req[q] \in Request /\ RequestOK(req[q])
  BY <1>0 DEF IInv, RequestsOK, ProcessTyped
<1>2. req[q].at \in Times /\ req[q].gateway \in Gateways /\ req[q].event \in Events
  BY <1>1, Shapes
<1>3. /\ gateways[req[q].gateway] # Null /\ born[req[q].event] # Never
      /\ Sendable(req[q].event, req[q].at, req[q].event)
      /\ req[q].at <= now /\ now <= req[q].at + 1
  BY <1>1 DEF RequestOK
<1>4. PICK at, e \in Int : at = req[q].at /\ e = req[q].event
  BY <1>2 DEF Times, Events
<1>5. /\ born[e] \in Nat /\ now \in Nat /\ at <= now /\ now <= at + 1 /\ Sendable(e, at, e)
      /\ 0 <= at /\ e <= MaxEvents
  BY <1>0, <1>2, <1>3, <1>4 DEF TablesTyped, ProcessTyped, Never, Times, Events
<1>6. ~Dead(e) /\ Birth(e) <= at
  BY <1>5, Numbers DEF Dead, Sendable, Birth
<1> QED
  BY <1>2, <1>3, <1>4, <1>5, <1>6

LEMMA CountsStep ==
    ASSUME IInv, Next, TypeOK'
    PROVE  CountsOK'
<1>0. /\ TablesTyped /\ ProcessTyped /\ CountsOK
      /\ GatewaysKept /\ BirthsKept /\ (now' = now \/ now' = now + 1)
  BY Typed, RowsKept DEF IInv, Tick
<1> USE Numbers
<1>1. /\ now \in Nat /\ now' \in Nat /\ now <= now'
      /\ \A e \in Events : born[e] \in Nat \cup {Never} /\ born'[e] \in Nat \cup {Never}
      /\ \A g \in Gateways, e \in Events : /\ receipts[g][e] \in Nat \cup {Never}
                                           /\ counted[g][e] \in Nat
  BY <1>0 DEF TypeOK, TablesTyped, ProcessTyped, Times
<1>2. \A e \in Events : Dead(e) => Dead(e)'
  BY <1>0, <1>1 DEF Dead, Birth, BirthsKept
<1>3. ASSUME UNCHANGED <<receipts, counted>>
      PROVE  CountsOK'
  BY <1>0, <1>1, <1>2, <1>3 DEF CountsOK, Birth, GatewaysKept, BirthsKept
<1>4. ASSUME receipts' = Pruned, UNCHANGED <<counted, now, born, gateways>>
      PROVE  CountsOK'
  <2> SUFFICES ASSUME NEW g \in Gateways, NEW e \in Events
               PROVE  /\ receipts'[g][e] # Never =>
                           gateways'[g] # Null /\ born'[e] # Never
                             /\ Birth(e)' <= receipts'[g][e] /\ receipts'[g][e] <= now'
                      /\ counted'[g][e] <= 1
                      /\ counted'[g][e] # 0 /\ receipts'[g][e] = Never => Dead(e)'
    BY DEF CountsOK
  <2>1. receipts'[g][e] = IF receipts[g][e] < now - KeepFor THEN Never ELSE receipts[g][e]
    BY <1>4 DEF Pruned
  <2>2. receipts[g][e] # Never /\ receipts[g][e] < now - KeepFor => Dead(e)
    BY <1>0, <1>1 DEF CountsOK, Dead, Birth
  <2> QED
    BY <1>0, <1>1, <1>4, <2>1, <2>2 DEF CountsOK, Dead, Birth
<1>5. ASSUME NEW q \in Requests, IngestWrite(q), ~UNCHANGED stored
      PROVE  CountsOK'
  <2>0. PICK g, e : g = req[q].gateway /\ e = req[q].event
    OBVIOUS
  <2>1. /\ g \in Gateways /\ e \in Events /\ req[q].at \in Nat /\ req[q].at <= now
        /\ gateways[g] # Null /\ born[e] # Never /\ Birth(e) <= req[q].at /\ ~Dead(e)
    BY <1>5, <2>0, InFlightIsNotDead DEF IngestWrite, At
  <2>2. receipts[g][e] = Never /\ receipts' = [receipts EXCEPT ![g][e] = req[q].at]
    BY <1>5, <2>0 DEF IngestWrite, ReceiptIsNew
  <2>3. counted[g][e] = 0
    BY <1>0, <1>1, <2>1, <2>2 DEF CountsOK
  <2>4. UNCHANGED <<now, gateways, born>>
    BY <1>5 DEF IngestWrite, registry, AnswerBad, AnswerStored
  <2>5. \/ counted' = counted
        \/ counted' = [counted EXCEPT ![g][e] = counted[g][e] + 1]
    BY <1>5, <2>0 DEF IngestWrite, stored
  <2>6. /\ receipts'[g][e] = req[q].at /\ counted'[g][e] <= 1
        /\ \A h \in Gateways, f \in Events : h # g \/ f # e =>
             receipts'[h][f] = receipts[h][f] /\ counted'[h][f] = counted[h][f]
    BY <1>0, <2>1, <2>2, <2>3, <2>5 DEF TablesTyped
  <2>7. Birth(e)' <= req[q].at /\ req[q].at # Never
    BY <2>1, <2>4 DEF Birth, Never
  <2> QED
    BY <1>0, <1>1, <1>2, <2>1, <2>4, <2>6, <2>7 DEF CountsOK, Birth
<1>6. Computer => UNCHANGED stored
  BY DEF Computer, Pair, Start, Enqueue, Flush, Save, Disconnect, Crash
<1>7. ASSUME NEW q \in Requests, Cloud(q), ~IngestWrite(q)
      PROVE  UNCHANGED stored
  BY <1>7 DEF Cloud, RegisterRead, RegisterWrite, Authenticate, IngestReceipt, IngestHub, Fail
<1> QED
  BY <1>3, <1>4, <1>5, <1>6, <1>7
     DEF Next, IssueCode, Revoke, Heartbeat, BrowserIngest, ClaimHub, Tick, stored, registry, computer

THEOREM Invariant == Spec => []IInv
<1>1. Init => IInv
  BY InitIInv
<1>2. IInv /\ [Next]_vars => IInv'
  <2> SUFFICES ASSUME IInv, [Next]_vars
               PROVE  IInv'
    OBVIOUS
  <2>1. CASE Next
    <3>1. TypeOK'
      <4>1. TablesTyped' /\ ProcessTyped'
        BY <2>1, TablesStep, ProcessStep
      <4> QED
        BY <4>1 DEF TypeOK, TablesTyped, ProcessTyped
    <3> QED
      BY <2>1, <3>1, BirthsStep, RequestsStep, WaitingStep, CountsStep, CodesStep DEF IInv
  <2>2. CASE UNCHANGED vars
    BY <2>2 DEF IInv, TypeOK, BirthsOK, RequestsOK, RequestOK, Sendable, WaitingOK, First, CountsOK, Dead,
                Birth, CodesOK, vars, registry, stored, computer
  <2> QED
    BY <2>1, <2>2
<1> QED
  BY <1>1, <1>2, PTL DEF Spec

-----------------------------------------------------------------------------
\* Every variable keeps to its values, for any number of codes, gateways and invocations.
THEOREM TypeCorrect == Spec => []TypeOK
  BY Invariant, PTL DEF IInv

\* The readings of an event are added once for each gateway that sends it: its receipt is
\* kept for longer than the event can still be on its way.
THEOREM CountedOnce == Spec => []CountedOncePerGateway
<1>1. IInv => CountedOncePerGateway
  BY DEF IInv, CountsOK, CountedOncePerGateway
<1> QED
  BY <1>1, Invariant, PTL

\* A revoked gateway stores nothing, but for what had been let in before.
THEOREM Revoked == Spec => RevokedStoresNothing
<1>1. IInv /\ [Next]_vars =>
        [\A g \in Gateways, e \in Events :
           receipts[g][e] = Never /\ receipts'[g][e] # Never =>
             gateways[g].revoked = Never \/ now <= gateways[g].revoked + 1]_vars
  <2> SUFFICES ASSUME IInv, Next, NEW g \in Gateways, NEW e \in Events,
                      receipts[g][e] = Never, receipts'[g][e] # Never
               PROVE  gateways[g].revoked = Never \/ now <= gateways[g].revoked + 1
    BY DEF vars, stored
  <2>0. TablesTyped /\ ProcessTyped
    BY Typed DEF IInv
  <2>1. PICK q \in Requests : IngestWrite(q) /\ g = req[q].gateway
    <3>1. receipts' # receipts /\ receipts' # Pruned
      BY DEF Pruned
    <3>2. \E q \in Requests : IngestWrite(q)
      BY <3>1 DEF Next, Cloud, RegisterRead, RegisterWrite, Authenticate, IngestReceipt, IngestHub, Fail,
             Computer, Pair, Start, Enqueue, Flush, Save, Disconnect, Crash, IssueCode, Revoke, Heartbeat,
             BrowserIngest, ClaimHub, Tick, stored
    <3>3. PICK q \in Requests : IngestWrite(q)
      BY <3>2
    <3>4. receipts' = [receipts EXCEPT ![req[q].gateway][req[q].event] = req[q].at]
      BY <3>1, <3>3 DEF IngestWrite, stored
    <3>5. g = req[q].gateway
      BY <2>0, <3>4 DEF TablesTyped
    <3> QED
      BY <3>3, <3>5
  <2>2. req[q].op = "ingest" /\ req[q].step = "write"
    BY <2>1 DEF IngestWrite, At
  <2>3. /\ gateways[g] # Null /\ req[q].at \in Nat /\ now <= req[q].at + 1
        /\ gateways[g].revoked = Never \/ req[q].at <= gateways[g].revoked
    BY <2>1, <2>2, InFlightIsNotDead DEF IInv, RequestsOK, RequestOK
  <2>4. gateways[g].revoked \in Int /\ now \in Int
    BY <2>0, <2>3 DEF TablesTyped, Gateway, Times, Never
  <2> QED
    BY <2>3, <2>4
<1> QED
  BY <1>1, Invariant, PTL DEF Spec, RevokedStoresNothing

-----------------------------------------------------------------------------
(***************************************************************************)
(* Setup codes keep the promise of OneTimeCode.                            *)
(***************************************************************************)
\* A step that tells no token and at most closes codes.
LEMMA CodesClose ==
    ASSUME \A c \in Codes : TellsOf(c)' = TellsOf(c),
           \A c \in Codes : \/ StateOf(c)' = StateOf(c)
                            \/ StateOf(c) = "open" /\ StateOf(c)' = "closed"
    PROVE  OneTime!Next
<1> DEFINE C == {c \in Codes : StateOf(c)' # StateOf(c)}
<1>1. \A c \in C : StateOf(c) = "open" /\ StateOf(c)' = "closed"
  OBVIOUS
<1>2. CodeStates' = [c \in Codes |-> IF c \in C THEN "closed" ELSE CodeStates[c]]
  BY <1>1 DEF CodeStates
<1>3. UNCHANGED Admitted
  BY DEF Admitted
<1>4. OneTime!Close(C)
  BY <1>1, <1>2, <1>3 DEF OneTime!Close, CodeStates
<1> QED
  BY <1>4 DEF OneTime!Next

\* Without a new code or a gateway, nothing is opened: a registration is in time if the
\* code was open when it came.
LEMMA TimeRunsOut ==
    ASSUME IInv, Next, TypeOK', UNCHANGED codes, \A c \in Codes : TellsOf(c)' = TellsOf(c)
    PROVE  OneTime!Next
<1>0. TablesTyped /\ ProcessTyped /\ now \in Int /\ now' \in Int /\ now <= now'
  BY Typed, RowsKept DEF IInv, TablesTyped, Times, Tick
<1>1. \A c \in Codes : codes[c].until \in Int
  BY <1>0 DEF TablesTyped, Code
<1>2. ASSUME NEW c \in Codes, codes[c].state = "open", InTime(c)'
      PROVE  InTime(c)
  <2>1. CASE codes[c].until > now'
    BY <1>0, <1>1, <2>1 DEF InTime
  <2>2. ASSUME NEW q \in Requests, req'[q].op = "register", req'[q].code = c, ~InTime(c), req'[q] # req[q],
               req'[q].step = "write" \/ codes[c].until > req'[q].at
        PROVE  FALSE
    <3>0. /\ req[q] \in Request /\ req'[q] \in Request /\ req'[q] # Idle
          /\ req[q].op = "register" => req[q].step \in {"read", "write"}
      BY <1>0, <2>2, Shapes, IdleRequest DEF ProcessTyped, TypeOK
    <3>1. ASSUME NEW e \in buffer', Sends(e), req'[q] = Sent(e)
          PROVE  FALSE
      BY <1>0, <2>2, <3>1, SentRequest DEF Sends, TablesTyped
    <3>2. ASSUME NEW p \in Requests, Cloud(p)
          PROVE  FALSE
      <4>1. p = q
        BY <2>2, <3>2, OthersStay
      <4>2. CASE Moves(q)
        BY <1>0, <1>1, <2>2, <3>0, <4>2 DEF Moves, GoesOn, InTime, At, ProcessTyped
      <4>3. CASE EndsIdle(q)
        BY <1>0, <3>0, <4>3 DEF EndsIdle, ProcessTyped
      <4>4. CASE SendsNext(q)
        BY <1>0, <3>1, <4>4, NextIsSendable DEF ProcessTyped
      <4>5. ASSUME NEW g \in Gateways, AnswerToken(q, g)
            PROVE  FALSE
        BY <1>0, <3>0, <4>5 DEF AnswerToken, ProcessTyped
      <4> QED
        BY <3>2, <4>1, <4>2, <4>3, <4>4, <4>5, CloudShapes, AnswerShapes
    <3>3. ASSUME NEW p \in Requests, NEW d \in Codes, Pair(p, d)
          PROVE  FALSE
      <4>1. /\ req'[q] = [op |-> "register", step |-> "read", at |-> now, code |-> d]
        BY <1>0, <2>2, <3>3 DEF Pair, ProcessTyped
      <4> QED
        BY <2>2, <4>1 DEF InTime
    <3>4. ASSUME NEW p \in Requests, Flush(p)
          PROVE  FALSE
      <4>1. buffer' # {}
        BY <2>2, <3>4 DEF Flush, First
      <4> QED
        BY <1>0, <2>2, <3>1, <3>4, <4>1, FlushIsSendable DEF ProcessTyped
    <3> QED
      BY <2>2, <3>2, <3>3, <3>4
         DEF Next, Computer, IssueCode, Revoke, Heartbeat, BrowserIngest, ClaimHub, Tick,
             Start, Enqueue, Save, Disconnect, Crash, computer
  <2> QED
    BY <1>2, <2>1, <2>2 DEF InTime, At
<1>3. \A c \in Codes : \/ StateOf(c)' = StateOf(c)
                       \/ StateOf(c) = "open" /\ StateOf(c)' = "closed"
  BY <1>2 DEF StateOf
<1> QED
  BY <1>3, CodesClose

\* The codes that are deleted with a new one had been used, or no registration can still use them.
LEMMA IssueImplements ==
    ASSUME IInv, IssueCode
    PROVE  OneTime!Next
<1>0. TablesTyped /\ ProcessTyped
  BY Typed DEF IInv
<1> USE Numbers
<1>1. PICK new \in {c \in Codes : codes[c].state = "none"} :
        codes' = [c \in Codes |->
          IF c = new THEN [state |-> "open", until |-> now + CodeLife]
          ELSE IF \/ codes[c].state = "used"
                  \/ codes[c].state = "open" /\ codes[c].until < now
               THEN [state |-> "deleted", until |-> 0]
          ELSE codes[c]]
  BY DEF IssueCode
<1>2. UNCHANGED <<now, req, gateways>> /\ now \in Nat
  BY <1>0 DEF IssueCode, TablesTyped, Times
<1>3. StateOf(new) = "none" /\ StateOf(new)' = "open"
  BY <1>1, <1>2 DEF StateOf, InTime
<1>4. ASSUME NEW c \in Codes, c # new
      PROVE  StateOf(c)' = StateOf(c)
  <2>0. codes[c].until \in Int
    BY <1>0 DEF TablesTyped, Code
  <2>1. CASE codes[c].state = "open" /\ codes[c].until < now
    <3>1. ASSUME NEW q \in Requests, req[q].op = "register", req[q].code = c
          PROVE  ~(req[q].step = "write" \/ codes[c].until > req[q].at)
      <4>1. req[q] \in Request /\ RequestOK(req[q])
        BY <1>0 DEF IInv, RequestsOK, ProcessTyped
      <4>2. req[q].at \in Int
        BY <3>1, <4>1, Shapes DEF Times
      <4> QED
        BY <1>2, <2>0, <2>1, <3>1, <4>1, <4>2 DEF RequestOK
    <3>2. ~InTime(c)
      BY <1>2, <2>0, <2>1, <3>1 DEF InTime, At
    <3> QED
      BY <1>1, <1>4, <2>1, <3>2 DEF StateOf
  <2>2. CASE codes[c].state = "used"
    BY <1>1, <1>4, <2>2 DEF StateOf
  <2>3. CASE codes'[c] = codes[c]
    BY <1>2, <2>3 DEF StateOf, InTime, At
  <2> QED
    BY <1>1, <1>4, <2>1, <2>2, <2>3
<1>5. CodeStates' = [CodeStates EXCEPT ![new] = "open"] /\ CodeStates[new] = "none"
  BY <1>3, <1>4 DEF CodeStates
<1>6. UNCHANGED Admitted
  BY <1>2 DEF Admitted, TellsOf
<1>7. OneTime!Issue(new)
  BY <1>5, <1>6 DEF OneTime!Issue
<1> QED
  BY <1>7 DEF OneTime!Next

\* Who uses a code up is the first to be told a token for it.
LEMMA RegisterImplements ==
    ASSUME IInv, Next, TypeOK', NEW q \in Requests, RegisterWrite(q)
    PROVE  OneTime!Next
<1>0. TablesTyped /\ ProcessTyped
  BY Typed DEF IInv
<1> DEFINE c == req[q].code
<1>1. c \in Codes /\ req[q].op = "register" /\ req[q].step = "write" /\ now' = now
  BY <1>0, Shapes DEF RegisterWrite, At, ProcessTyped
<1>2. PICK g \in Gateways :
        /\ gateways[g] = Null
        /\ gateways' = [gateways EXCEPT ![g] = [code |-> c, told |-> Unused(c), revoked |-> Never]]
        /\ req' = [req EXCEPT ![q] = Idle]
  BY DEF RegisterWrite, AnswerBad, AnswerToken
<1>3. gateways'[g] # Null
  <2>1. Unused(c) \in BOOLEAN
    BY DEF Unused
  <2> QED
    BY <1>0, <1>1, <1>2, <2>1, RowsAreNotNull DEF TablesTyped
<1>4. CASE ~Unused(c)
  <2>1. UNCHANGED codes /\ ~gateways'[g].told
    BY <1>0, <1>2, <1>4 DEF RegisterWrite, TablesTyped
  <2>2. \A d \in Codes : TellsOf(d)' = TellsOf(d)
    BY <1>0, <1>2, <2>1 DEF TellsOf, TablesTyped
  <2> QED
    BY <2>1, <2>2, TimeRunsOut
<1>5. CASE Unused(c)
  <2>1. PICK d \in Codes : d = c
    BY <1>1
  <2>2. codes[d] \in Code /\ codes' = [codes EXCEPT ![d].state = "used"]
    BY <1>0, <1>5, <2>1 DEF RegisterWrite, TablesTyped
  <2>3. codes'[d].state = "used" /\ \A b \in Codes \ {d} : codes'[b] = codes[b]
    BY <1>0, <2>2 DEF TablesTyped, Code
  <2>4. StateOf(d) = "open" /\ StateOf(d)' = "closed"
    BY <1>1, <1>5, <2>1, <2>3 DEF StateOf, InTime, At, Unused
  <2>5. ASSUME NEW b \in Codes, b # d
        PROVE  StateOf(b)' = StateOf(b)
    <3>1. \A p \in Requests : \/ req'[p] = req[p]
                              \/ p = q /\ req'[p].op = "idle" /\ req[p].code # b
      BY <1>0, <1>1, <1>2, <2>1, <2>5, IdleRequest DEF ProcessTyped
    <3>2. InTime(b)' <=> InTime(b)
      BY <1>1, <2>3, <2>5, <3>1 DEF InTime, At
    <3> QED
      BY <2>3, <2>5, <3>2 DEF StateOf
  <2>6. CodeStates' = [CodeStates EXCEPT ![d] = "closed"] /\ CodeStates[d] = "open"
    BY <2>4, <2>5 DEF CodeStates
  <2>7. gateways'[g].told /\ gateways'[g].code = d
    BY <1>0, <1>2, <1>5, <2>1 DEF TablesTyped
  <2>8. TellsOf(d)' = {g}
    <3>1. \A h \in Gateways : gateways[h] # Null /\ gateways[h].told => gateways[h].code # d
      BY <1>5, <2>1 DEF Unused, IInv, CodesOK
    <3> QED
      BY <1>0, <1>2, <1>3, <2>7, <3>1 DEF TellsOf, TablesTyped
  <2>9. \A b \in Codes \ {d} : TellsOf(b)' = TellsOf(b)
    BY <1>0, <1>2, <2>7 DEF TellsOf, TablesTyped
  <2>10. Admitted' = [Admitted EXCEPT ![d] = {g}]
    BY <2>8, <2>9 DEF Admitted
  <2>11. OneTime!Admit(d, g)
    BY <2>6, <2>10 DEF OneTime!Admit
  <2> QED
    BY <2>11 DEF OneTime!Next
<1> QED
  BY <1>4, <1>5

\* The routes implement OneTimeCode: every step hands out a code, admits one gateway for an
\* open code, closes codes, or does nothing to them.
THEOREM CodesImplementOneTimeCode == Spec => CodeAdmitsOneGateway
<1>1. Init => OneTime!Init
  <2> SUFFICES ASSUME Init
               PROVE  OneTime!Init
    OBVIOUS
  <2>1. \A c \in Codes : StateOf(c) = "none" /\ TellsOf(c) = {}
    BY DEF Init, StateOf, TellsOf
  <2> QED
    BY <2>1 DEF OneTime!Init, CodeStates, Admitted
<1>2. IInv /\ IInv' /\ [Next]_vars => [OneTime!Next]_OneTime!vars
  <2> SUFFICES ASSUME IInv, IInv', [Next]_vars
               PROVE  [OneTime!Next]_OneTime!vars
    OBVIOUS
  <2>0. TypeOK'
    BY DEF IInv
  <2>1. CASE IssueCode
    BY <2>1, IssueImplements
  <2>2. ASSUME NEW g \in Gateways, Revoke(g)
        PROVE  OneTime!Next
    <3>1. UNCHANGED codes /\ GatewaysKept /\ \A h \in Gateways : gateways'[h] # Null => gateways[h] # Null
      BY <2>2, RowsKept DEF Next, Revoke, IInv, TypeOK
    <3>2. \A c \in Codes : TellsOf(c)' = TellsOf(c)
      BY <3>1 DEF TellsOf, GatewaysKept
    <3> QED
      BY <2>0, <2>2, <3>1, <3>2, TimeRunsOut DEF Next
  <2>3. ASSUME NEW q \in Requests, RegisterWrite(q)
        PROVE  OneTime!Next
    BY <2>0, <2>3, RegisterImplements DEF Next, Cloud
  <2>4. CASE Next /\ UNCHANGED registry
    BY <2>0, <2>4, TimeRunsOut DEF registry, TellsOf
  <2>5. CASE UNCHANGED vars
    BY <2>5 DEF vars, registry, OneTime!vars, CodeStates, Admitted, StateOf, InTime, At, TellsOf
  <2>6. ASSUME NEW q \in Requests, Cloud(q), ~RegisterWrite(q)
        PROVE  UNCHANGED registry
    BY <2>6 DEF Cloud, RegisterRead, Authenticate, IngestReceipt, IngestHub, IngestWrite, Fail
  <2>7. Computer => UNCHANGED registry
    BY DEF Computer, Pair, Start, Enqueue, Flush, Save, Disconnect, Crash
  <2> QED
    BY <2>1, <2>2, <2>3, <2>4, <2>5, <2>6, <2>7 DEF Next, Heartbeat, BrowserIngest, ClaimHub, Tick
<1> QED
  BY <1>1, <1>2, Invariant, PTL DEF Spec, CodeAdmitsOneGateway, OneTime!Spec

-----------------------------------------------------------------------------
(***************************************************************************)
(* The order of one gateway's events.                                      *)
(***************************************************************************)

\* What is settled stays settled: a receipt goes only when its event is dead.
LEMMA SettledKept ==
    ASSUME IInv, Next, TypeOK', NEW g \in Gateways, NEW e \in Events
    PROVE  /\ receipts[g][e] # Never => receipts'[g][e] # Never \/ Dead(e)'
           /\ dropped \subseteq dropped'
           /\ Settled(g, e) => Settled(g, e)'
<1>0. /\ TablesTyped /\ ProcessTyped /\ CountsOK
      /\ BirthsKept /\ (now' = now \/ now' = now + 1)
  BY Typed, RowsKept DEF IInv, Tick
<1> USE Numbers
<1>1. /\ now \in Nat /\ now' \in Nat /\ now <= now' /\ born[e] \in Nat \cup {Never}
      /\ receipts[g][e] \in Nat \cup {Never}
  BY <1>0 DEF TablesTyped, ProcessTyped, Times
<1>2. Dead(e) => Dead(e)'
  BY <1>0, <1>1 DEF Dead, Birth, BirthsKept
<1>3. receipts[g][e] # Never => receipts'[g][e] # Never \/ Dead(e)
  <2>1. CASE receipts' = Pruned
    <3>1. receipts'[g][e] = IF receipts[g][e] < now - KeepFor THEN Never ELSE receipts[g][e]
      BY <2>1 DEF Pruned
    <3> QED
      BY <1>0, <1>1, <3>1 DEF CountsOK, Dead, Birth
  <2>2. ASSUME NEW q \in Requests, IngestWrite(q)
        PROVE  receipts[g][e] # Never => receipts'[g][e] # Never
    <3>1. CASE UNCHANGED stored
      BY <3>1 DEF stored
    <3>2. CASE /\ receipts[req[q].gateway][req[q].event] = Never
               /\ receipts' = [receipts EXCEPT ![req[q].gateway][req[q].event] = req[q].at]
      <4>1. /\ req[q].gateway \in Gateways /\ req[q].event \in Events /\ req[q].at \in Nat
        BY <2>2, InFlightIsNotDead DEF IngestWrite, At
      <4> QED
        BY <1>0, <3>2, <4>1 DEF TablesTyped, Never
    <3> QED
      BY <2>2, <3>1, <3>2 DEF IngestWrite, ReceiptIsNew
  <2>3. CASE UNCHANGED receipts
    BY <2>3
  <2> QED
    BY <2>1, <2>2, <2>3 DEF Next, Cloud, RegisterRead, RegisterWrite, Authenticate, IngestReceipt, IngestHub,
         Fail, Computer, Pair, Start, Enqueue, Flush, Save, Disconnect, Crash, IssueCode, Revoke, Heartbeat,
         BrowserIngest, ClaimHub, Tick, stored
<1>4. dropped \subseteq dropped'
  <2>1. ASSUME NEW q \in Requests, Cloud(q)
        PROVE  UNCHANGED dropped
    BY <2>1, CloudShapes, AnswerShapes DEF Moves, AnswerToken, computer
  <2> QED
    BY <2>1 DEF Next, Computer, Pair, Start, Enqueue, Flush, Save, Disconnect, Crash, IssueCode, Revoke,
                Heartbeat, BrowserIngest, ClaimHub, Tick, computer
<1> QED
  BY <1>2, <1>3, <1>4 DEF Settled

\* An event leaves the buffer with an answer only when it has a receipt.
LEMMA AnswerSettles ==
    ASSUME IInv, NEW q \in Requests, Cloud(q), Answers(q), buffer' # buffer
    PROVE  /\ req[q].op = "ingest" /\ req[q].gateway = token /\ up
           /\ buffer' = buffer \ {req[q].event}
           /\ receipts'[token][req[q].event] # Never
<1>0. TablesTyped /\ ProcessTyped
  BY Typed DEF IInv
<1>1. AnswerStored(q) /\ req[q].op = "ingest"
  BY DEF Answers, AnswerBad
<1>2. waiting = q /\ waiting # Null /\ buffer' = buffer \ {req[q].event}
  BY <1>1, NullAssumption DEF AnswerStored
<1>3. req[q].gateway = token /\ up
  BY <1>1, <1>2 DEF IInv, WaitingOK
<1>4. /\ req[q].gateway \in Gateways /\ req[q].event \in Events /\ req[q].at \in Nat
  BY <1>1, InFlightIsNotDead
<1>5. receipts'[token][req[q].event] # Never
  <2>1. CASE IngestReceipt(q)
    <3>1. UNCHANGED receipts /\ (receipts[token][req[q].event] = Never => UNCHANGED computer)
      BY <1>3, <2>1 DEF IngestReceipt, stored
    <3> QED
      BY <3>1 DEF computer
  <2>2. CASE IngestWrite(q)
    <3>1. CASE ReceiptIsNew(req[q].gateway, req[q].event)
      BY <1>0, <1>3, <1>4, <2>2, <3>1 DEF IngestWrite, TablesTyped, Never
    <3> QED
      BY <1>3, <2>2, <3>1 DEF IngestWrite, ReceiptIsNew, stored
  <2> QED
    BY <1>1, <2>1, <2>2 DEF Cloud, RegisterRead, RegisterWrite, Authenticate, IngestHub, Fail, At,
                            AnswerBad, computer
<1> QED
  BY <1>1, <1>2, <1>3, <1>5

LEMMA UnsentKept ==
    ASSUME IInv, Next, TypeOK', NEW g \in Gateways, gateways[g] # Null,
           NEW e \in Events, born[e] # Never, Unsent(g, e)
    PROVE  Unsent(g, e)'
<1>0. TablesTyped /\ ProcessTyped /\ token \in Gateways \cup {Null}
  BY Typed DEF IInv, ProcessTyped
<1> DEFINE Quiet(r) == ~(r.op = "ingest" /\ r.gateway = g /\ r.event = e)
<1>1. ASSUME NEW f \in buffer', Sends(f)
      PROVE  Quiet(Sent(f))
  BY <1>0, <1>1, SentRequest DEF Sends, Unsent, TablesTyped
<1>2. Quiet(Idle) /\ \A c : Quiet([op |-> "register", step |-> "read", at |-> now, code |-> c])
  BY DEF Idle
<1>3. \A q \in Requests : Quiet(req[q])
  BY DEF Unsent
<1>4. \A q \in Requests : Quiet(req'[q])
  <2>1. ASSUME NEW q \in Requests, Cloud(q)
        PROVE  \A p \in Requests : Quiet(req'[p])
    <3>1. CASE Moves(q)
      BY <1>0, <1>3, <3>1 DEF Moves, GoesOn, ProcessTyped
    <3>2. CASE EndsIdle(q)
      BY <1>0, <1>2, <1>3, <3>2 DEF EndsIdle, ProcessTyped
    <3>3. CASE SendsNext(q)
      <4>1. PICK f \in buffer' : Sends(f) /\ req' = [req EXCEPT ![q] = Sent(f)]
        BY <3>3, NextIsSendable
      <4>2. Quiet(Sent(f))
        BY <1>1, <4>1
      <4> QED
        BY <1>0, <1>3, <4>1, <4>2 DEF ProcessTyped
    <3>4. ASSUME NEW h \in Gateways, AnswerToken(q, h)
          PROVE  \A p \in Requests : Quiet(req'[p])
      BY <1>0, <1>2, <1>3, <3>4 DEF AnswerToken, ProcessTyped
    <3> QED
      BY <2>1, <3>1, <3>2, <3>3, <3>4, CloudShapes, AnswerShapes
  <2>2. ASSUME NEW q \in Requests, NEW c \in Codes, Pair(q, c)
        PROVE  \A p \in Requests : Quiet(req'[p])
    BY <1>0, <1>2, <1>3, <2>2 DEF Pair, ProcessTyped
  <2>3. ASSUME NEW q \in Requests, Flush(q)
        PROVE  \A p \in Requests : Quiet(req'[p])
    <3>1. CASE buffer' = {}
      BY <1>3, <2>3, <3>1 DEF Flush
    <3>2. CASE buffer' # {}
      <4>1. PICK f \in buffer' : Sends(f) /\ req' = [req EXCEPT ![q] = Sent(f)]
        BY <2>3, <3>2, FlushIsSendable
      <4>2. Quiet(Sent(f))
        BY <1>1, <4>1
      <4> QED
        BY <1>0, <1>3, <4>1, <4>2 DEF ProcessTyped
    <3> QED
      BY <3>1, <3>2
  <2>4. CASE UNCHANGED req
    BY <1>3, <2>4
  <2> QED
    BY <2>1, <2>2, <2>3, <2>4 DEF Next, Computer, IssueCode, Revoke, Heartbeat, BrowserIngest, ClaimHub,
                                  Tick, Start, Enqueue, Save, Disconnect, Crash
<1>5. token' = g => token = g /\ (e \in buffer' \cup file' => e \in buffer \cup file)
  <2>1. ASSUME NEW q \in Requests, Cloud(q)
        PROVE  token' = g => token = g /\ buffer' \subseteq buffer /\ file' = file
    BY <2>1, CloudShapes, AnswerShapes DEF Moves, computer, EndsIdle, SendsNext, AnswerToken
  <2>2. Computer => token' = token /\ (e \in buffer' \cup file' => e \in buffer \cup file)
    BY <1>0 DEF Computer, Pair, Start, Enqueue, Flush, Save, Disconnect, Crash, ProcessTyped
  <2> QED
    BY <2>1, <2>2 DEF Next, IssueCode, Revoke, Heartbeat, BrowserIngest, ClaimHub, Tick, computer
<1> QED
  BY <1>4, <1>5 DEF Unsent

\* A discarded event is too old, and stays so.
DroppedAreOld == \A e \in dropped \cap (buffer \cup file) : Old(e)

LEMMA DroppedStep ==
    ASSUME IInv, OInv, Next, TypeOK'
    PROVE  DroppedAreOld'
<1>0. /\ TablesTyped /\ ProcessTyped /\ DroppedAreOld
      /\ BirthsKept /\ (now' = now \/ now' = now + 1)
  BY Typed, RowsKept DEF IInv, OInv, BufferOK, DroppedAreOld, Tick
<1> USE Numbers
<1>1. /\ now \in Nat /\ now' \in Nat /\ now <= now'
      /\ \A e \in buffer \cup file \cup dropped :
           e \in Events /\ born[e] \in Nat /\ born[e] # Never /\ born'[e] = born[e]
  BY <1>0 DEF TablesTyped, ProcessTyped, Times, IInv, BirthsOK, BirthsKept, Never
<1>2. \A e \in buffer \cup file \cup dropped : Old(e) => Old(e)'
  BY <1>0, <1>1 DEF Old
<1>3. ASSUME \A e \in dropped' \cap (buffer' \cup file') :
               \/ e \in dropped \cap (buffer \cup file)
               \/ e \in buffer \cup file \cup dropped /\ Old(e)
      PROVE  DroppedAreOld'
  BY <1>0, <1>2, <1>3 DEF DroppedAreOld
<1>4. ASSUME NEW q \in Requests, Cloud(q)
      PROVE  UNCHANGED <<file, dropped>> /\ buffer' \subseteq buffer
  BY <1>4, CloudShapes, AnswerShapes DEF Moves, computer, EndsIdle, SendsNext, AnswerToken
<1>5. CASE Enqueue
  <2>1. PICK e \in Events : born[e] = Never /\ buffer' = buffer \cup {e}
    BY <1>5 DEF Enqueue
  <2> QED
    BY <1>1, <1>3, <1>5, <2>1 DEF Enqueue
<1>6. ASSUME NEW q \in Requests, Flush(q)
      PROVE  DroppedAreOld'
  <2> DEFINE old == {e \in buffer : \A f \in buffer : f <= e => Old(f)}
  <2>1. /\ buffer' = buffer \ old /\ dropped' = dropped \cup old /\ file' = file
    BY <1>6 DEF Flush
  <2>2. \A e \in old : e \in buffer /\ e \in Nat
    BY <1>1 DEF Events
  <2>3. \A e \in old : Old(e)
    BY <2>2
  <2> QED
    BY <1>3, <2>1, <2>2, <2>3
<1>7. CASE Crash
  BY <1>3, <1>7 DEF Crash
<1>8. CASE UNCHANGED dropped /\ buffer' \cup file' \subseteq buffer \cup file
  BY <1>3, <1>8
<1> QED
  BY <1>4, <1>5, <1>6, <1>7, <1>8
     DEF Next, Computer, Pair, Start, Save, Disconnect, IssueCode, Revoke, Heartbeat,
         BrowserIngest, ClaimHub, Tick, computer

LEMMA BufferStep ==
    ASSUME IInv, OInv, Next, IInv'
    PROVE  BufferOK'
<1>0. /\ TablesTyped /\ ProcessTyped /\ BufferOK /\ TypeOK'
      /\ DroppedAreOld' /\ token \in Gateways \cup {Null} /\ (up => token \in Gateways)
      /\ BirthsKept
  BY Typed, RowsKept, DroppedStep DEF IInv, OInv, ProcessTyped, WaitingOK
<1>1. \A e \in buffer \cup file \cup dropped : e \in Events /\ born[e] # Never
  BY <1>0 DEF ProcessTyped, IInv, BirthsOK
\* One conjunct of BufferOK at a time.
<1>2. ~up' => buffer' = file'
  <2>1. ASSUME NEW q \in Requests, Cloud(q)
        PROVE  ~up' => buffer' = file'
    <3>1. CASE Answers(q)
      BY <1>0, <2>1, <3>1, AnswerSettles, AnswerShapes DEF BufferOK
    <3> QED
      BY <1>0, <2>1, <3>1, CloudShapes DEF Moves, AnswerToken, computer, BufferOK
  <2> QED
    BY <1>0, <2>1 DEF BufferOK, Next, Computer, Pair, Start, Enqueue, Flush, Save, Disconnect, Crash, IssueCode,
         Revoke, Heartbeat, BrowserIngest, ClaimHub, Tick, computer
<1>3. ASSUME NEW e \in Events, NEW g \in Gateways, up', e \in file' \ buffer', g = token'
      PROVE  Settled(g, e)'
  \* It was off the buffer already, or an answer or a flush took it off.
  <2>1. CASE up /\ token' = token /\ e \in file \ buffer
    BY <1>0, <1>3, <2>1, SettledKept DEF BufferOK
  <2>2. ASSUME NEW q \in Requests, Cloud(q), ~(up /\ token' = token /\ e \in file \ buffer)
        PROVE  Settled(g, e)'
    <3>1. CASE Answers(q)
      <4>1. UNCHANGED <<up, token, file>> /\ buffer' # buffer
        BY <1>3, <2>2, <3>1, AnswerShapes
      <4>2. e = req[q].event /\ receipts'[token][e] # Never
        BY <1>3, <2>2, <3>1, <4>1, AnswerSettles
      <4> QED
        BY <1>3, <4>1, <4>2 DEF Settled
    <3>2. CASE Moves(q)
      BY <1>3, <2>2, <3>2 DEF Moves, computer
    <3>3. ASSUME NEW h \in Gateways, At(q, "register", "write"), AnswerToken(q, h)
          PROVE  FALSE
      BY <1>0, <1>3, <3>3, NullAssumption DEF AnswerToken, At, IInv, WaitingOK, BufferOK
    <3> QED
      BY <2>2, <3>1, <3>2, <3>3, CloudShapes
  <2>3. ASSUME NEW q \in Requests, Flush(q), ~(e \in file \ buffer)
        PROVE  e \in dropped'
    BY <1>3, <2>3 DEF Flush
  <2> QED
    BY <1>0, <1>3, <2>1, <2>2, <2>3 DEF Settled, BufferOK, Next, Computer, Pair, Start, Enqueue, Flush, Save, Disconnect,
         Crash, IssueCode, Revoke, Heartbeat, BrowserIngest, ClaimHub, Tick, computer
<1>4. waiting' # Null /\ req'[waiting'].op = "ingest" => buffer' \cap dropped' = {}
  <2>1. ASSUME NEW q \in Requests, Cloud(q)
        PROVE  waiting' # Null /\ req'[waiting'].op = "ingest" => buffer' \cap dropped' = {}
    <3>1. CASE Moves(q)
      BY <1>0, <3>1 DEF Moves, GoesOn, computer, BufferOK, ProcessTyped
    <3>2. CASE Answers(q) /\ EndsIdle(q)
      BY <1>0, <3>2, AnswerShapes, IdleRequest DEF EndsIdle, BufferOK, ProcessTyped
    <3>3. CASE Answers(q) /\ SendsNext(q)
      BY <1>0, <3>3, AnswerShapes, NullAssumption DEF SendsNext, BufferOK
    <3>4. ASSUME NEW h \in Gateways, AnswerToken(q, h)
          PROVE  waiting' = Null
      BY <3>4 DEF AnswerToken
    <3> QED
      BY <2>1, <3>1, <3>2, <3>3, <3>4, CloudShapes, AnswerShapes
  <2>2. ASSUME NEW q \in Requests, NEW c \in Codes, Pair(q, c)
        PROVE  req'[waiting'].op = "register"
    BY <1>0, <2>2 DEF Pair, ProcessTyped
  <2>3. ASSUME NEW q \in Requests, Flush(q), buffer' # {}
        PROVE  buffer' \cap dropped' = {}
    <3>1. PICK e \in buffer' : Sends(e)
      BY <2>3, FlushIsSendable
    <3>2. buffer' = buffer \ {f \in buffer : \A h \in buffer : h <= f => Old(h)}
          /\ dropped' = dropped \cup {f \in buffer : \A h \in buffer : h <= f => Old(h)}
      BY <2>3 DEF Flush
    <3>3. ASSUME NEW f \in buffer', f \in dropped
          PROVE  FALSE
      <4>1. Old(f) /\ f \in buffer /\ e \in buffer
        BY <1>0, <3>1, <3>2, <3>3 DEF BufferOK
      <4>2. PICK h \in buffer : h <= e /\ ~Old(h)
        BY <3>1, <3>2 DEF Sends
      <4>3. /\ h \in Int /\ e \in Int /\ f \in Int /\ e <= f
            /\ born[h] \in Int /\ born[f] \in Int /\ born[f] # Never
        BY <1>0, <1>1, <3>1, <3>3, <4>1, <4>2 DEF Sends, First, ProcessTyped, Never, Events
      <4>4. h < f \/ h = f
        BY <4>2, <4>3
      <4>5. born[h] <= born[f]
        BY <1>0, <4>1, <4>2, <4>3, <4>4 DEF IInv, BirthsOK, ProcessTyped
      <4> QED
        BY <1>0, <4>1, <4>2, <4>3, <4>5, Numbers DEF Old, TablesTyped, Times
    <3> QED
      BY <3>2, <3>3
  <2>4. CASE Enqueue
    <3>1. PICK e \in Events : born[e] = Never /\ buffer' = buffer \cup {e}
      BY <2>4 DEF Enqueue
    <3> QED
      BY <1>0, <1>1, <2>4, <3>1 DEF Enqueue, BufferOK
  <2> QED
    BY <1>0, <2>1, <2>2, <2>3, <2>4 DEF BufferOK, Next, Computer, Start, Flush, First, Save, Disconnect,
         Crash, IssueCode, Revoke, Heartbeat, BrowserIngest, ClaimHub, Tick, computer
<1>5. up' => token' \in Gateways
  BY DEF IInv, TypeOK, WaitingOK
<1>6. file' \subseteq Events
  BY <1>0 DEF TypeOK
<1> QED
  BY <1>0, <1>2, <1>3, <1>4, <1>5, <1>6 DEF BufferOK, DroppedAreOld

\* An invocation on its way is an old one, or it has just been sent.
SameEvent(q) ==
    /\ req[q].op = "ingest"
    /\ req'[q].at = req[q].at /\ req'[q].gateway = req[q].gateway /\ req'[q].event = req[q].event

JustSent(q) ==
    /\ Sends(req'[q].event)
    /\ req'[q].at = now /\ req'[q].gateway = token
    /\ UNCHANGED <<now, token>> /\ waiting' = q

LEMMA InFlight ==
    ASSUME IInv, Next, TypeOK', NEW q \in Requests, req'[q].op = "ingest"
    PROVE  SameEvent(q) \/ JustSent(q)
<1>0. TablesTyped /\ ProcessTyped
  BY Typed DEF IInv
<1>1. ASSUME NEW p \in Requests, NEW f \in buffer', Sends(f), req' = [req EXCEPT ![p] = Sent(f)],
             UNCHANGED <<now, token>>, waiting' = p
      PROVE  SameEvent(q) \/ JustSent(q)
  <2>1. CASE p = q
    BY <1>0, <1>1, <2>1, SentRequest DEF Sends, JustSent, TablesTyped, ProcessTyped
  <2> QED
    BY <1>0, <1>1, <2>1 DEF SameEvent, ProcessTyped
<1>2. CASE req'[q] = req[q]
  BY <1>2 DEF SameEvent
<1>3. ASSUME NEW p \in Requests, Cloud(p), req'[q] # req[q]
      PROVE  SameEvent(q) \/ JustSent(q)
  <2>1. CASE Moves(p)
    BY <1>0, <1>3, <2>1 DEF Moves, GoesOn, SameEvent, ProcessTyped
  <2>2. CASE Answers(p) /\ EndsIdle(p)
    BY <1>0, <1>3, <2>2, IdleRequest DEF EndsIdle, ProcessTyped
  <2>3. CASE Answers(p) /\ SendsNext(p)
    BY <1>1, <1>3, <2>3, NextIsSendable, AnswerShapes, CloudShapes DEF SendsNext
  <2>4. ASSUME NEW g \in Gateways, AnswerToken(p, g)
        PROVE  FALSE
    BY <1>0, <1>3, <2>4, IdleRequest DEF AnswerToken, ProcessTyped
  <2> QED
    BY <1>3, <2>1, <2>2, <2>3, <2>4, CloudShapes, AnswerShapes
<1>4. ASSUME NEW p \in Requests, NEW c \in Codes, Pair(p, c)
      PROVE  req'[q] = req[q]
  BY <1>0, <1>4 DEF Pair, ProcessTyped
<1>5. ASSUME NEW p \in Requests, Flush(p)
      PROVE  SameEvent(q) \/ JustSent(q)
  <2>1. CASE buffer' = {}
    BY <1>2, <1>5, <2>1 DEF Flush, First
  <2>2. CASE buffer' # {}
    BY <1>1, <1>5, <2>2, FlushIsSendable DEF Flush
  <2> QED
    BY <2>1, <2>2
<1> QED
  BY <1>2, <1>3, <1>4, <1>5 DEF Next, Computer, IssueCode, Revoke, Heartbeat, BrowserIngest, ClaimHub, Tick,
                                 Start, Enqueue, Save, Disconnect, Crash

LEMMA TokenKept ==
    ASSUME IInv, Next
    PROVE  token' = token \/ gateways[token'] = Null
<1>1. ASSUME NEW q \in Requests, Cloud(q)
      PROVE  token' = token \/ gateways[token'] = Null
  BY <1>1, CloudShapes, AnswerShapes DEF Moves, computer, AnswerToken
<1> QED
  BY <1>1 DEF Next, Computer, Pair, Start, Enqueue, Flush, Save, Disconnect, Crash, IssueCode, Revoke,
              Heartbeat, BrowserIngest, ClaimHub, Tick, computer

\* What leaves the buffer is settled: it has a receipt, or it was given up.
LEMMA LeavesSettled ==
    ASSUME IInv, Next, NEW e \in buffer \ buffer', token' = token
    PROVE  receipts'[token][e] # Never \/ e \in dropped'
<1>1. ASSUME NEW q \in Requests, Cloud(q)
      PROVE  receipts'[token][e] # Never
  BY <1>1, CloudShapes, AnswerSettles DEF Moves, computer, AnswerToken
<1> QED
  BY <1>1 DEF Next, Computer, Pair, Start, Enqueue, Flush, Save, Disconnect, Crash, IssueCode, Revoke,
              Heartbeat, BrowserIngest, ClaimHub, Tick, computer

NoneDead == \A q \in Requests : req[q].op = "ingest" => ~Dead(req[q].event)

LEMMA NoneDeadLater == IInv' => NoneDead'
<1>1. IInv => NoneDead
  BY InFlightIsNotDead DEF NoneDead
<1> QED
  BY <1>1, PTL

\* The three parts of OrderOK.
HeldOK == \A q \in Requests : req[q].op = "ingest" /\ req[q].gateway = token =>
    req[q].event \in buffer \/ Settled(token, req[q].event)

PastOK == \A q \in Requests : req[q].op = "ingest" =>
    \A e \in Events : e < req[q].event =>
      Settled(req[q].gateway, e) \/ Unsent(req[q].gateway, e)

LineOK == \A p, q \in Requests :
    /\ req[p].op = "ingest" /\ req[q].op = "ingest"
    /\ req[p].gateway = req[q].gateway
    /\ req[p].event < req[q].event
    /\ receipts[req[p].gateway][req[p].event] = Never
    => req[p].at <= req[q].at

LEMMA Order == OrderOK <=> HeldOK /\ PastOK /\ LineOK
  BY DEF OrderOK, HeldOK, PastOK, LineOK

LEMMA HeldStep ==
    ASSUME IInv, OInv, Next, IInv'
    PROVE  HeldOK'
<1>0. TypeOK' /\ HeldOK
  BY Order DEF IInv, OInv
<1> SUFFICES ASSUME NEW q \in Requests, req'[q].op = "ingest", req'[q].gateway = token',
                    NEW e \in Events, e = req'[q].event, e \notin buffer'
             PROVE  Settled(token, e)'
  <2>1. \A q \in Requests : req'[q].op = "ingest" => req'[q].event \in Events
    BY <1>0, Shapes DEF TypeOK
  <2> QED
    BY <2>1 DEF HeldOK
<1>1. SameEvent(q)
  BY <1>0, InFlight DEF JustSent, Sends, First
<1>2. token' = token /\ token \in Gateways
  BY <1>1, TokenKept, InFlightIsNotDead DEF SameEvent
<1>3. PICK g \in Gateways : g = token
  BY <1>2
<1>4. CASE Settled(g, e)
  BY <1>0, <1>2, <1>3, <1>4, SettledKept
<1>5. CASE e \in buffer
  BY <1>2, <1>5, LeavesSettled DEF Settled
<1> QED
  BY <1>0, <1>1, <1>2, <1>3, <1>4, <1>5 DEF HeldOK, SameEvent

LEMMA PastStep ==
    ASSUME IInv, OInv, Next, IInv', BufferOK', HeldOK'
    PROVE  PastOK'
<1>0. /\ TablesTyped /\ ProcessTyped /\ TypeOK' /\ PastOK /\ GatewaysKept
      /\ \A q \in Requests : req'[q].op = "ingest" =>
           req'[q].gateway \in Gateways /\ req'[q].event \in Events
  <2>1. TypeOK'
    BY DEF IInv
  <2>2. \A q \in Requests : req'[q].op = "ingest" =>
           req'[q].gateway \in Gateways /\ req'[q].event \in Events
    BY <2>1, Shapes DEF TypeOK
  <2> QED
    BY <2>1, <2>2, Typed, Order, RowsKept DEF IInv, OInv
<1> SUFFICES ASSUME NEW q \in Requests, req'[q].op = "ingest", NEW g \in Gateways, g = req'[q].gateway,
                    NEW e \in Events, e < req'[q].event
             PROVE  Settled(g, e)' \/ Unsent(g, e)'
  BY <1>0 DEF PastOK
<1>1. CASE SameEvent(q)
  <2>1. gateways[g] # Null /\ born[req[q].event] # Never /\ req[q].event \in Events
    BY <1>1, InFlightIsNotDead DEF SameEvent
  <2>2. born[e] # Never
    BY <1>1, <2>1 DEF SameEvent, IInv, BirthsOK
  <2>3. Settled(g, e) \/ Unsent(g, e)
    BY <1>0, <1>1 DEF SameEvent, PastOK
  <2> QED
    BY <1>0, <2>1, <2>2, <2>3, SettledKept, UnsentKept
<1>2. CASE JustSent(q)
  <2>1. g = token' /\ waiting' # Null /\ First(req'[q].event, buffer') /\ up'
    BY <1>2, NullAssumption DEF JustSent, Sends, IInv, WaitingOK
  <2>2. e \notin buffer'
    BY <1>0, <2>1 DEF First, Events
  <2>3. CASE e \in file'
    BY <2>1, <2>2, <2>3 DEF BufferOK
  <2>4. ASSUME NEW p \in Requests, req'[p].op = "ingest", req'[p].gateway = g, req'[p].event = e
        PROVE  Settled(g, e)'
    BY <2>1, <2>2, <2>4 DEF HeldOK
  <2> QED
    BY <2>1, <2>2, <2>3, <2>4 DEF Unsent
<1> QED
  BY <1>0, <1>1, <1>2, InFlight

LEMMA LineStep ==
    ASSUME IInv, OInv, Next, IInv', BufferOK'
    PROVE  LineOK'
<1>0. TablesTyped /\ ProcessTyped /\ TypeOK' /\ LineOK /\ PastOK
  BY Typed, Order DEF IInv, OInv
<1> SUFFICES ASSUME NEW p \in Requests, NEW q \in Requests,
                    req'[p].op = "ingest", req'[q].op = "ingest", req'[p].gateway = req'[q].gateway,
                    req'[p].event < req'[q].event,
                    receipts'[req'[p].gateway][req'[p].event] = Never
             PROVE  req'[p].at <= req'[q].at
  BY DEF LineOK
<1>1. PICK g \in Gateways, e \in Events : g = req'[p].gateway /\ e = req'[p].event
  BY <1>0, Shapes DEF TypeOK
<1>2. ~Dead(e)' /\ receipts[g][e] = Never
  <2>1. ~Dead(e)'
    BY <1>1, NoneDeadLater DEF NoneDead, Dead, Birth
  <2> QED
    BY <1>0, <1>1, <2>1, SettledKept
<1>3. CASE SameEvent(p) /\ SameEvent(q)
  BY <1>0, <1>1, <1>2, <1>3 DEF SameEvent, LineOK
<1>4. CASE JustSent(q)
  BY <1>4, Shapes DEF JustSent, IInv, RequestsOK, RequestOK
<1>5. CASE JustSent(p) /\ SameEvent(q)
  <2>1. g = token /\ e \in buffer /\ e \in buffer' /\ waiting' = p
    BY <1>1, <1>5 DEF JustSent, Sends, First
  <2>2. Settled(g, e)
    BY <1>0, <1>1, <1>5, <2>1 DEF SameEvent, PastOK, Unsent
  <2>3. Settled(g, e)'
    BY <1>0, <2>2, SettledKept
  <2>4. e \notin dropped'
    BY <2>1, NullAssumption DEF BufferOK
  <2> QED
    BY <1>1, <1>2, <2>3, <2>4 DEF Settled
<1> QED
  BY <1>0, <1>3, <1>4, <1>5, InFlight

LEMMA OrderStep ==
    ASSUME IInv, OInv, Next, IInv', BufferOK'
    PROVE  OrderOK'
  BY HeldStep, PastStep, LineStep DEF OrderOK, HeldOK, PastOK, LineOK

-----------------------------------------------------------------------------
(***************************************************************************)
(* The times that one gateway writes.                                      *)
(***************************************************************************)
LEMMA EventTimesGrow ==
    ASSUME NEW a \in Int, NEW b \in Int, NEW s \in Int, NEW t \in Int, a <= b, s <= t
    PROVE  EventTime(a, s) <= EventTime(b, t) /\ EventTime(a, s) \in Int
  BY Numbers DEF EventTime, Min2, Max2

LEMMA LatestTimeGrows ==
    ASSUME NEW s \in Int, NEW t \in Int, s <= t
    PROVE  /\ s + Skew \in Int /\ t + Skew \in Int
           /\ EventTime(s + Skew, s) <= EventTime(t + Skew, t)
           /\ EventTime(s + Skew, s) \in Int /\ EventTime(t + Skew, t) \in Int
<1>1. s + Skew \in Int /\ t + Skew \in Int /\ s + Skew <= t + Skew
  BY Numbers
<1>2. t <= t /\ t + Skew <= t + Skew
  BY <1>1
<1> QED
  BY <1>1, <1>2, EventTimesGrow

LEMMA BufferComes ==
    ASSUME IInv, Next, NEW e \in buffer' \cup file', e \notin buffer \cup file
    PROVE  born'[e] = now + Skew /\ now' = now
<1>0. ProcessTyped
  BY Typed DEF IInv
<1>1. ASSUME NEW q \in Requests, Cloud(q)
      PROVE  FALSE
  BY <1>1, CloudShapes, AnswerShapes DEF Moves, computer, EndsIdle, SendsNext, AnswerToken
<1>2. Computer => Enqueue
  BY DEF Computer, Pair, Start, Flush, Save, Disconnect, Crash
<1> QED
  BY <1>0, <1>1, <1>2 DEF Enqueue, Next, IssueCode, Revoke, Heartbeat, BrowserIngest, ClaimHub, Tick,
                          computer, ProcessTyped

\* The last time is that of a browser, or it stays, or an invocation writes it.
Writes(q) ==
    /\ req[q].op = "ingest"
    /\ receipts[req[q].gateway][req[q].event] = Never
    /\ receipts'[req[q].gateway][req[q].event] # Never
    /\ lastSeen' = EventTime(born[req[q].event], req[q].at)
    /\ seenBy' = req[q].gateway
    /\ UNCHANGED now

LEMMA LastSeenMoves ==
    ASSUME IInv, Next
    PROVE  \/ seenBy' = Null /\ lastSeen <= lastSeen'
           \/ UNCHANGED <<lastSeen, seenBy>>
           \/ \E q \in Requests : Writes(q)
<1>0. TablesTyped /\ ProcessTyped
  BY Typed DEF IInv
<1>1. ASSUME NEW q \in Requests, IngestWrite(q)
      PROVE  UNCHANGED <<lastSeen, seenBy>> \/ Writes(q)
  <2>1. /\ req[q].gateway \in Gateways /\ req[q].event \in Events /\ req[q].at \in Nat
        /\ req[q].op = "ingest"
    BY <1>1, InFlightIsNotDead DEF IngestWrite, At
  <2> QED
    BY <1>0, <1>1, <2>1 DEF IngestWrite, ReceiptIsNew, Writes, stored, TablesTyped, Never
<1>2. CASE BrowserIngest
  BY <1>0, <1>2 DEF BrowserIngest, Max2, TablesTyped, Times
<1> QED
  BY <1>1, <1>2 DEF Next, Cloud, RegisterRead, RegisterWrite, Authenticate, IngestReceipt, IngestHub, Fail,
       Computer, Pair, Start, Enqueue, Flush, Save, Disconnect, Crash, IssueCode, Revoke, Heartbeat, ClaimHub,
       Tick, stored

LEMMA LastSeenStep ==
    ASSUME IInv, OInv, Next, IInv'
    PROVE  LastSeenOK'
<1>0. /\ TablesTyped /\ ProcessTyped /\ TypeOK'
      /\ PastOK /\ LineOK /\ LastSeenOK /\ GatewaysKept /\ BirthsKept
  BY Typed, Order, RowsKept DEF IInv, OInv
<1> USE Numbers
<1>a. now \in Int /\ now' \in Int /\ now <= now'
  BY <1>0, RowsKept DEF TypeOK, TablesTyped, Times, Tick
<1>b. /\ now + Skew \in Int
      /\ EventTime(now + Skew, now) <= EventTime(now' + Skew, now')
      /\ EventTime(now + Skew, now) \in Int /\ EventTime(now' + Skew, now') \in Int
  BY <1>a, LatestTimeGrows
<1>1. \A e \in buffer \cup file : e \in Events /\ born[e] # Never
  BY <1>0 DEF IInv, BirthsOK, ProcessTyped
<1>2. \A e \in Events : /\ born[e] \in Int /\ born'[e] \in Int
                        /\ born[e] # Never => born'[e] = born[e] /\ born[e] <= now + Skew
  BY <1>0 DEF TypeOK, ProcessTyped, Never, IInv, BirthsOK, BirthsKept
<1>3. \A q \in Requests : req[q].op = "ingest" =>
        /\ req[q].gateway \in Gateways /\ gateways[req[q].gateway] # Null
        /\ req[q].event \in Events /\ born[req[q].event] # Never
        /\ req[q].at \in Int /\ req[q].at <= now
  BY InFlightIsNotDead
<1>4. lastSeen \in Int /\ lastSeen' \in Int
  BY <1>0 DEF TypeOK, TablesTyped
<1>5. ASSUME NEW g \in Gateways, g = seenBy', gateways[g] # Null,
             lastSeen' <= EventTime(now + Skew, now),
             \A q \in Requests : req'[q].op = "ingest" /\ req'[q].gateway = g /\ ~Settled(g, req[q].event)' =>
               lastSeen' <= EventTime(born[req'[q].event], req'[q].at),
             token = g => \A e \in (buffer \cup file) \cap (buffer' \cup file') :
               ~Settled(g, e)' => lastSeen' <= EventTime(born[e], now)
      PROVE  LastSeenOK'
  <2>1. gateways'[g] # Null
    BY <1>0, <1>5 DEF GatewaysKept
  <2>2. lastSeen' <= EventTime(now' + Skew, now')
    BY <1>4, <1>5, <1>b
  <2>3. ASSUME NEW q \in Requests, req'[q].op = "ingest", req'[q].gateway = g, ~Settled(g, req[q].event)'
        PROVE  lastSeen' <= EventTime(born'[req'[q].event], req'[q].at)
    <3>1. born'[req'[q].event] = born[req'[q].event]
      <4>1. CASE SameEvent(q)
        BY <1>2, <1>3, <4>1 DEF SameEvent
      <4>2. CASE JustSent(q)
        BY <1>2, <4>2 DEF JustSent, Sends, First
      <4> QED
        BY <1>0, <2>3, <4>1, <4>2, InFlight
    <3> QED
      BY <1>5, <2>3, <3>1
  <2>4. ASSUME token' = g, NEW e \in buffer' \cup file', ~Settled(g, e)'
        PROVE  lastSeen' <= EventTime(born'[e], now')
    <3>1. token = g
      BY <1>5, <2>4, TokenKept
    <3>2. CASE e \in buffer \cup file
      <4>1. lastSeen' <= EventTime(born[e], now) /\ born'[e] = born[e] /\ born[e] \in Int
        BY <1>1, <1>2, <1>5, <2>4, <3>1, <3>2
      <4>2. EventTime(born[e], now) <= EventTime(born[e], now') /\ EventTime(born[e], now) \in Int
            /\ EventTime(born[e], now') \in Int
        BY <1>a, <4>1, EventTimesGrow
      <4> QED
        BY <1>4, <4>1, <4>2
    <3>3. CASE e \notin buffer \cup file
      BY <1>5, <2>4, <3>3, BufferComes
    <3> QED
      BY <3>2, <3>3
  <2> QED
    BY <1>5, <2>1, <2>2, <2>3, <2>4 DEF LastSeenOK
<1>6. CASE UNCHANGED <<lastSeen, seenBy>> /\ seenBy # Null
  <2>1. PICK g \in Gateways : g = seenBy
    BY <1>0, <1>6 DEF TablesTyped
  <2>2. \A e \in Events : Settled(g, e) => Settled(g, e)'
    BY <1>0, SettledKept
  <2>3. gateways[g] # Null /\ lastSeen <= EventTime(now + Skew, now)
    BY <1>0, <1>6, <2>1 DEF LastSeenOK
  <2>4. ASSUME NEW q \in Requests, req'[q].op = "ingest", req'[q].gateway = g, ~Settled(g, req[q].event)'
        PROVE  lastSeen <= EventTime(born[req'[q].event], req'[q].at)
    <3>1. CASE SameEvent(q)
      <4>1. ~Settled(g, req[q].event)
        <5>1. PICK e \in Events : e = req[q].event
          BY <1>3, <3>1 DEF SameEvent
        <5>2. ~Settled(g, e)'
          BY <2>4, <3>1, <5>1 DEF SameEvent, Settled, Dead, Birth
        <5> QED
          BY <2>2, <5>1, <5>2
      <4> QED
        BY <1>0, <1>6, <2>1, <2>4, <3>1, <4>1 DEF SameEvent, LastSeenOK
    <3>2. CASE JustSent(q)
      <4>1. PICK e \in buffer : e = req'[q].event /\ token = g /\ req'[q].at = now /\ e \in Events
        BY <2>4, <3>2 DEF JustSent, Sends, First
      <4>2. ~Settled(g, e)
        <5>1. ~Settled(g, e)'
          BY <2>4, <4>1 DEF Settled, Dead, Birth
        <5> QED
          BY <2>2, <4>1, <5>1
      <4> QED
        BY <1>0, <1>6, <2>1, <4>1, <4>2 DEF LastSeenOK
    <3> QED
      BY <1>0, <2>4, <3>1, <3>2, InFlight
  <2>5. token = g => \A e \in (buffer \cup file) \cap (buffer' \cup file') :
          ~Settled(g, e)' => lastSeen <= EventTime(born[e], now)
    BY <1>0, <1>1, <1>6, <2>1, <2>2 DEF LastSeenOK
  <2> QED
    BY <1>5, <1>6, <2>1, <2>3, <2>4, <2>5
<1>7. ASSUME NEW w \in Requests, Writes(w)
      PROVE  LastSeenOK'
  <2>1. PICK g \in Gateways, d \in Events, t \in Int : g = req[w].gateway /\ d = req[w].event /\ t = req[w].at
    BY <1>3, <1>7 DEF Writes
  <2>2. /\ gateways[g] # Null /\ born[d] # Never /\ t <= now /\ seenBy' = g
        /\ lastSeen' = EventTime(born[d], t) /\ receipts[g][d] = Never /\ receipts'[g][d] # Never
    BY <1>3, <1>7, <2>1 DEF Writes
  <2>3. \A e \in Events : Settled(g, e) => Settled(g, e)'
    BY <1>0, SettledKept
  <2>4. Settled(g, d)'
    BY <2>2 DEF Settled
  \* Whatever is still to be written is about a later event, and not looked at before.
  <2>5. ASSUME NEW e \in Events, born[e] # Never, NEW s \in Int, t <= s, d < e
        PROVE  lastSeen' <= EventTime(born[e], s)
    <3>1. born[d] <= born[e] /\ born[d] \in Int /\ born[e] \in Int
      BY <1>2, <2>5 DEF IInv, BirthsOK
    <3> QED
      BY <2>1, <2>2, <2>5, <3>1, EventTimesGrow
  <2>6. \A e \in Events : e < d => Settled(g, e) \/ Unsent(g, e)
    BY <1>0, <1>7, <2>1 DEF PastOK, Writes
  <2>7. lastSeen' <= EventTime(now + Skew, now)
    BY <1>a, <1>b, <1>2, <2>1, <2>2, EventTimesGrow
  <2>8. ASSUME NEW q \in Requests, req'[q].op = "ingest", req'[q].gateway = g, ~Settled(g, req[q].event)'
        PROVE  lastSeen' <= EventTime(born[req'[q].event], req'[q].at)
    <3>1. PICK e \in Events : e = req'[q].event
      BY <1>0, <2>8, Shapes DEF TypeOK
    <3>2. ~Settled(g, e)'
      BY <2>8, <3>1 DEF Settled, Dead, Birth
    <3>3. CASE SameEvent(q)
      <4>1. ~(e < d)
        BY <2>3, <2>6, <2>8, <3>1, <3>2, <3>3 DEF SameEvent, Unsent
      <4>2. d < e
        BY <2>4, <3>2, <4>1 DEF Events
      <4>3. t <= req[q].at
        BY <1>0, <1>7, <2>1, <2>2, <2>8, <3>1, <3>3, <4>2 DEF SameEvent, LineOK, Writes
      <4> QED
        BY <1>3, <2>5, <3>1, <3>3, <4>2, <4>3 DEF SameEvent
    <3>4. CASE JustSent(q)
      <4>1. e \in buffer /\ token = g /\ born[e] # Never /\ req'[q].at = now
        BY <2>8, <3>1, <3>4 DEF JustSent, Sends, First
      <4>2. ~(e < d)
        BY <2>3, <2>6, <3>2, <4>1 DEF Unsent
      <4>3. d < e
        BY <2>4, <3>2, <4>2 DEF Events
      <4> QED
        BY <1>a, <2>2, <2>5, <3>1, <4>1, <4>3
    <3> QED
      BY <1>0, <2>8, <3>3, <3>4, InFlight
  <2>9. ASSUME token = g, NEW e \in buffer \cup file, ~Settled(g, e)'
        PROVE  lastSeen' <= EventTime(born[e], now)
    <3>1. e \in Events /\ born[e] # Never
      BY <1>1
    <3>2. ~(e < d)
      BY <2>3, <2>6, <2>9, <3>1 DEF Unsent
    <3>3. d < e
      BY <2>4, <2>9, <3>1, <3>2 DEF Events
    <3> QED
      BY <1>a, <2>2, <2>5, <3>1, <3>3
  <2> QED
    BY <1>5, <2>2, <2>7, <2>8, <2>9
<1>8. CASE seenBy' = Null
  BY <1>8 DEF LastSeenOK
<1> QED
  BY <1>6, <1>7, <1>8, LastSeenMoves

THEOREM OrderInvariant == Spec => []OInv
<1>1. Init => OInv
  BY InitIInv
<1>2. IInv /\ IInv' /\ OInv /\ [Next]_vars => OInv'
  <2> SUFFICES ASSUME IInv, IInv', OInv, [Next]_vars
               PROVE  OInv'
    OBVIOUS
  <2>1. CASE Next
    BY <2>1, BufferStep, OrderStep, LastSeenStep DEF OInv
  <2>2. CASE UNCHANGED vars
    <3>1. UNCHANGED <<now, registry, stored, req, computer>>
      BY <2>2 DEF vars
    <3>2. BufferOK' /\ HeldOK' /\ PastOK' /\ LineOK'
      BY <3>1, Order DEF OInv, BufferOK, Old, Settled, Unsent, Dead, Birth, HeldOK, PastOK, LineOK,
                         stored, computer
    <3>3. LastSeenOK'
      BY <3>1 DEF OInv, LastSeenOK, Settled, Dead, Birth, EventTime, registry, stored, computer
    <3>4. OrderOK'
      BY <3>2 DEF OrderOK, HeldOK, PastOK, LineOK
    <3> QED
      BY <3>2, <3>3, <3>4 DEF OInv
  <2> QED
    BY <2>1, <2>2
<1> QED
  BY <1>1, <1>2, Invariant, PTL DEF Spec

\* However many invocations of one gateway overlap, and although none of them compares times,
\* the time a gateway wrote gives way only to another writer's or to an event it had given up.
THEOREM LastSeenFollows == Spec => LastSeenFollowsOneGateway
<1>1. IInv /\ OInv /\ [Next]_vars =>
        [lastSeen' < lastSeen =>
           \/ seenBy' # seenBy
           \/ \E e \in dropped : receipts'[seenBy][e] # receipts[seenBy][e]]_vars
  <2> SUFFICES ASSUME IInv, OInv, Next, lastSeen' < lastSeen, seenBy' = seenBy
               PROVE  \E e \in dropped : receipts'[seenBy][e] # receipts[seenBy][e]
    BY Typed DEF vars, stored, IInv, TablesTyped
  <2>0. lastSeen \in Int
    BY Typed DEF IInv, TablesTyped
  <2>1. PICK q \in Requests : Writes(q)
    <3>1. ~(lastSeen <= lastSeen' /\ seenBy' = Null)
      <4>1. lastSeen' \in Int
        BY TablesStep DEF TablesTyped
      <4> QED
        BY <2>0, <4>1
    <3> QED
      BY <2>0, <3>1, LastSeenMoves
  <2>2. PICK g \in Gateways, e \in Events, t \in Int :
          g = req[q].gateway /\ e = req[q].event /\ t = req[q].at
    BY <2>1, InFlightIsNotDead DEF Writes
  <2>3. /\ g = seenBy /\ seenBy # Null /\ ~Dead(e)
        /\ lastSeen' = EventTime(born[e], t)
        /\ receipts[g][e] = Never /\ receipts'[g][e] # Never
    BY <2>1, <2>2, InFlightIsNotDead, NullAssumption DEF Writes
  <2>4. ~Settled(g, e) => lastSeen <= lastSeen'
    BY <2>1, <2>2, <2>3 DEF Writes, OInv, LastSeenOK
  <2>5. lastSeen' \in Int
    BY TablesStep DEF TablesTyped
  <2> QED
    BY <2>0, <2>3, <2>4, <2>5 DEF Settled
<1> QED
  BY <1>1, Invariant, OrderInvariant, PTL DEF Spec, LastSeenFollowsOneGateway

=============================================================================
