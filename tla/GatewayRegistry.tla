-------------------------- MODULE GatewayRegistry --------------------------
(***************************************************************************)
(* Local Gateways as the cloud knows them: setup codes, registration,      *)
(* revocation (/api/gateways, /api/gateways/register, gateway-auth.ts) and *)
(* the events they send (/api/gateways/ingest).                            *)
(*                                                                         *)
(* An invocation of a route reads and writes in separate statements;       *)
(* req[q] is what it has read.  The computer that runs the gateway is here *)
(* too, as far as the cloud can tell it apart: it registers, sends its     *)
(* buffer in order, resends what was not answered, and starts again from   *)
(* what it saved of the buffer.  LocalGateway has the buffer in full.      *)
(*                                                                         *)
(* One workspace, one computer, one scanner that sees one tag.  The        *)
(* counters of a running scan are updated in the batch that stores the     *)
(* readings; ScanIngest has them, for the route that browsers use.         *)
(* The items that the batch touches are in RoomInventory.                  *)
(***************************************************************************)
EXTENDS Integers, FiniteSets

CONSTANTS
    Codes,      \* setup codes
    Gateways,   \* rows of mqtt_gateways, and their tokens; bound: registrations
    Requests,   \* concurrent invocations
    CodeLife,   \* ten minutes
    BufferAge,  \* maxBufferAgeMs, fifteen minutes
    KeepFor,    \* 24 hours
    Ahead,      \* 30 seconds: how far in the future an event may be
    Skew,       \* how far the computer's clock is ahead
    MaxEvents,  \* bound: events of the computer
    MaxTime,    \* bound: time
    Null

ASSUME NullAssumption == Null \notin Codes \cup Gateways \cup Requests
ASSUME TimesAssumption ==
    /\ {CodeLife, BufferAge, KeepFor, Ahead, Skew, MaxEvents, MaxTime} \subseteq Nat
    /\ CodeLife > 0
    /\ BufferAge + MaxEvents <= KeepFor  \* flushing a whole buffer takes less than a day

VARIABLES
    now,       \* Date.now() of the cloud
    codes,     \* mqtt_gateway_pairing_codes
    gateways,  \* mqtt_gateways, Null without a row
    receipts,  \* mqtt_gateway_events: received_at, Never without a row
    claimed,   \* the scanner has a row in hubs
    lastSeen,  \* items.last_seen_at, and that of the observation; 0 before the first
    req,       \* local state of each invocation
    up,        \* the computer's process runs
    token,     \* .neemo-gateway.json
    born,      \* observedAt of the buffered events, Never for those to come
    buffer,    \* pendingEvents, in the order of their numbers
    file,      \* pending-events.json
    waiting,   \* the invocation whose answer the process awaits
    counted,   \* history: how often an event's readings were added
    seenBy,    \* history: the gateway that wrote lastSeen, Null for a browser
    dropped    \* history: events that were discarded unanswered, or lost in a crash

registry == <<codes, gateways>>
stored == <<receipts, claimed, lastSeen, counted, seenBy>>
computer == <<up, token, born, buffer, file, waiting, dropped>>
vars == <<now, registry, stored, req, computer>>

Never == -1
Times == 0..MaxTime
Events == 1..MaxEvents

Code == [state : {"none", "open", "used", "deleted"}, until : 0..(MaxTime + CodeLife)]
Gateway == [code : Codes, told : BOOLEAN, revoked : Times \cup {Never}]
ASSUME RowAssumption == Null \notin Gateway

Idle == [op |-> "idle"]

Request ==
    {Idle}
    \cup [op : {"register"}, step : {"read", "write"}, at : Times, code : Codes]
    \cup [op : {"ingest"}, step : {"auth", "receipt", "hub", "write"}, at : Times,
          gateway : Gateways, event : Events, hub : BOOLEAN]

TypeOK ==
    /\ now \in Times
    /\ codes \in [Codes -> Code]
    /\ gateways \in [Gateways -> Gateway \cup {Null}]
    /\ receipts \in [Gateways -> [Events -> Times \cup {Never}]]
    /\ claimed \in BOOLEAN
    /\ lastSeen \in 0..(now + Ahead)
    /\ req \in [Requests -> Request]
    /\ up \in BOOLEAN
    /\ token \in Gateways \cup {Null}
    /\ born \in [Events -> 0..(MaxTime + Skew) \cup {Never}]
    /\ buffer \subseteq Events
    /\ file \subseteq Events
    /\ waiting \in Requests \cup {Null}
    /\ counted \in [Gateways -> [Events -> Nat]]
    /\ seenBy \in Gateways \cup {Null}
    /\ dropped \subseteq Events

Init ==
    /\ now = 0
    /\ codes = [c \in Codes |-> [state |-> "none", until |-> 0]]
    /\ gateways = [g \in Gateways |-> Null]
    /\ receipts = [g \in Gateways |-> [e \in Events |-> Never]]
    /\ claimed = FALSE
    /\ lastSeen = 0
    /\ req = [q \in Requests |-> Idle]
    /\ up = FALSE
    /\ token = Null
    /\ born = [e \in Events |-> Never]
    /\ buffer = {}
    /\ file = {}
    /\ waiting = Null
    /\ counted = [g \in Gateways |-> [e \in Events |-> 0]]
    /\ seenBy = Null
    /\ dropped = {}

At(q, op, step) == req[q].op = op /\ req[q].step = step
Step(q, step) == req' = [req EXCEPT ![q].step = step]
Min2(a, b) == IF a < b THEN a ELSE b
Max2(a, b) == IF a > b THEN a ELSE b

(***************************************************************************)
(* The answer of an invocation, and what the computer does with it.        *)
(***************************************************************************)
Sent(e) == [op |-> "ingest", step |-> "auth", at |-> now, gateway |-> token, event |-> e,
            hub |-> FALSE]
First(e, B) == e \in B /\ \A f \in B : e <= f

\* The answer is bad, or nobody hears it any more: the loop, or the registration, ends.
AnswerBad(q) ==
    /\ req' = [req EXCEPT ![q] = Idle]
    /\ waiting' = IF waiting = q THEN Null ELSE waiting
    /\ UNCHANGED <<up, token, born, buffer, file, dropped>>

\* The head of the buffer is stored: flushQueue goes on with the next event, whatever its
\* age, or is done.
AnswerStored(q) ==
    /\ waiting = q
    /\ buffer' = buffer \ {req[q].event}
    /\ \/ /\ buffer' = {}
          /\ req' = [req EXCEPT ![q] = Idle]
          /\ waiting' = Null
       \/ /\ \E e \in buffer' : First(e, buffer') /\ req' = [req EXCEPT ![q] = Sent(e)]
          /\ UNCHANGED waiting
    /\ UNCHANGED <<up, token, born, file, dropped>>

\* The new token is saved, and the process goes on to start.
AnswerToken(q, g) ==
    /\ waiting = q
    /\ req' = [req EXCEPT ![q] = Idle]
    /\ waiting' = Null
    /\ token' = g
    /\ up' = TRUE
    /\ UNCHANGED <<born, buffer, file, dropped>>

(***************************************************************************)
(* Setup codes and gateways                                                *)
(***************************************************************************)

\* One batch: codes that were used or ran out are deleted, the new one is inserted.
IssueCode ==
    LET spent(c) ==
          \/ codes[c].state = "used"
          \/ codes[c].state = "open" /\ codes[c].until < now
    IN  /\ \E new \in {c \in Codes : codes[c].state = "none"} :
             codes' = [c \in Codes |->
               IF c = new THEN [state |-> "open", until |-> now + CodeLife]
               ELSE IF spent(c) THEN [state |-> "deleted", until |-> 0]
               ELSE codes[c]]
        /\ UNCHANGED <<now, gateways, stored, req, computer>>

Revoke(g) ==
    /\ gateways[g] # Null
    /\ gateways[g].revoked = Never
    /\ gateways' = [gateways EXCEPT ![g].revoked = now]
    /\ UNCHANGED <<now, codes, stored, req, computer>>

RegisterRead(q) ==
    LET c == req[q].code
    IN  /\ At(q, "register", "read")
        /\ IF codes[c].state = "open" /\ codes[c].until > req[q].at
           THEN Step(q, "write") /\ UNCHANGED computer
           ELSE AnswerBad(q)
        /\ UNCHANGED <<now, registry, stored>>

\* Deviation: without AND consumed_at IS NULL the update changes a row unless it is deleted.
StillThere(c) == codes[c].state # "deleted"

\* The update of the code, WHERE consumed_at IS NULL, changes a row.
Unused(c) == codes[c].state = "open"

\* The batch inserts the gateway in any case; only who used the code up is told the token.
RegisterWrite(q) ==
    LET c == req[q].code
        won == Unused(c)
    IN  /\ At(q, "register", "write")
        /\ \E g \in {h \in Gateways : gateways[h] = Null} :
             /\ gateways' = [gateways EXCEPT ![g] =
                               [code |-> c, told |-> won, revoked |-> Never]]
             /\ AnswerBad(q) \/ (won /\ AnswerToken(q, g))
        /\ codes' = IF won THEN [codes EXCEPT ![c].state = "used"] ELSE codes
        /\ UNCHANGED <<now, stored>>

(***************************************************************************)
(* /api/gateways/ingest                                                    *)
(***************************************************************************)

\* Deviation: a revoked gateway's token is as good as any.
Registered(g) == gateways[g] # Null

\* The token is that of a gateway that is not revoked.
Valid(g) == gateways[g] # Null /\ gateways[g].revoked = Never

Authenticate(q) ==
    /\ At(q, "ingest", "auth")
    /\ IF Valid(req[q].gateway)
       THEN Step(q, "receipt") /\ UNCHANGED computer
       ELSE AnswerBad(q)
    /\ UNCHANGED <<now, registry, stored>>

\* An event with a receipt was handled before.
IngestReceipt(q) ==
    /\ At(q, "ingest", "receipt")
    /\ IF receipts[req[q].gateway][req[q].event] = Never
       THEN Step(q, "hub") /\ UNCHANGED computer
       ELSE AnswerBad(q) \/ AnswerStored(q)
    /\ UNCHANGED <<now, registry, stored>>

IngestHub(q) ==
    /\ At(q, "ingest", "hub")
    /\ req' = [req EXCEPT ![q].step = "write", ![q].hub = claimed]
    /\ UNCHANGED <<now, registry, stored, computer>>

\* Deviation: only the past is bounded.
EventTimeUnbounded(observedAt, at) == Max2(at - KeepFor, observedAt)

\* Deviation: a time too far in the future is no time, so that now counts.
EventTimeOrNow(observedAt, at) ==
    IF observedAt > at + Ahead THEN at ELSE Max2(at - KeepFor, observedAt)

\* What an invocation that began at a time makes of the time of an event.
EventTime(observedAt, at) == Min2(at + Ahead, Max2(at - KeepFor, observedAt))

\* Deviation: what counts is the look at the receipts before.
EverNew(g, e) == TRUE

\* PRIMARY KEY(gateway_id, event_id): a second receipt makes the batch fail.
ReceiptIsNew(g, e) == receipts[g][e] = Never

\* Of the batch: receipt and readings.  Before the scanner is claimed there are no readings to
\* store, but there is a receipt.  last_seen_at is overwritten without a look at it.
IngestWrite(q) ==
    LET g == req[q].gateway
        e == req[q].event
    IN  /\ At(q, "ingest", "write")
        /\ IF ReceiptIsNew(g, e)
           THEN /\ receipts' = [receipts EXCEPT ![g][e] = req[q].at]
                /\ IF req[q].hub
                   THEN /\ counted' = [counted EXCEPT ![g][e] = @ + 1]
                        /\ lastSeen' = EventTime(born[e], req[q].at)
                        /\ seenBy' = g
                   ELSE UNCHANGED <<counted, lastSeen, seenBy>>
                /\ UNCHANGED claimed
           ELSE UNCHANGED stored
        /\ AnswerBad(q) \/ AnswerStored(q)
        /\ UNCHANGED <<now, registry>>

\* D1 fails, or the invocation is cut off.
Fail(q) ==
    /\ req[q] # Idle
    /\ AnswerBad(q)
    /\ UNCHANGED <<now, registry, stored>>

\* Receipts of any gateway that are older than 24 hours are deleted.
Pruned == [g \in Gateways |-> [e \in Events |->
    IF receipts[g][e] < now - KeepFor THEN Never ELSE receipts[g][e]]]

\* The heartbeat of a gateway: its row says when it was heard, old receipts are deleted.
Heartbeat(g) ==
    /\ Valid(g)
    /\ receipts' = Pruned
    /\ UNCHANGED <<now, registry, claimed, lastSeen, counted, seenBy, req, computer>>

\* The other way to the same rows: a browser's reading is stored unless a later one is.
BrowserIngest ==
    /\ claimed
    /\ receipts' = Pruned
    /\ lastSeen' = Max2(lastSeen, now)
    /\ seenBy' = IF now >= lastSeen THEN Null ELSE seenBy
    /\ UNCHANGED <<now, registry, claimed, counted, req, computer>>

ClaimHub ==
    /\ ~claimed
    /\ claimed' = TRUE
    /\ UNCHANGED <<now, registry, receipts, lastSeen, counted, seenBy, req, computer>>

(***************************************************************************)
(* The computer                                                            *)
(***************************************************************************)

\* Started with a code: registration comes first.
Pair(q, c) ==
    /\ ~up
    /\ waiting = Null
    /\ codes[c].state # "none"
    /\ req[q] = Idle
    /\ req' = [req EXCEPT ![q] = [op |-> "register", step |-> "read", at |-> now, code |-> c]]
    /\ waiting' = q
    /\ UNCHANGED <<now, registry, stored, up, token, born, buffer, file, dropped>>

Start ==
    /\ ~up
    /\ waiting = Null
    /\ token # Null
    /\ up' = TRUE
    /\ UNCHANGED <<now, registry, stored, req, token, born, buffer, file, waiting, dropped>>

Enqueue ==
    LET new == {e \in Events : born[e] = Never}
    IN  /\ up
        /\ \E e \in new :
             /\ \A f \in new : e <= f
             /\ born' = [born EXCEPT ![e] = now + Skew]
             /\ buffer' = buffer \cup {e}
        /\ UNCHANGED <<now, registry, stored, req, up, token, file, waiting, dropped>>

Old(e) == born[e] < now + Skew - BufferAge

\* flushQueue begins: leading events that are too old are discarded, then the first is sent.
Flush(q) ==
    LET old == {e \in buffer : \A f \in buffer : f <= e => Old(f)}
    IN  /\ up
        /\ waiting = Null
        /\ buffer # {}
        /\ buffer' = buffer \ old
        /\ dropped' = dropped \cup old
        /\ \/ buffer' = {} /\ UNCHANGED <<req, waiting>>
           \/ /\ req[q] = Idle
              /\ \E e \in buffer' : First(e, buffer') /\ req' = [req EXCEPT ![q] = Sent(e)]
              /\ waiting' = q
        /\ UNCHANGED <<now, registry, stored, up, token, born, file>>

\* saveQueue, now and then.
Save ==
    /\ up
    /\ file' = buffer
    /\ UNCHANGED <<now, registry, stored, req, up, token, born, buffer, waiting, dropped>>

\* The connection is lost: the loop ends, the invocation goes on unheard.
Disconnect ==
    /\ waiting # Null
    /\ waiting' = Null
    /\ UNCHANGED <<now, registry, stored, req, up, token, born, buffer, file, dropped>>

\* The process ends; what is left of the buffer is in the file.
Crash ==
    /\ up \/ waiting # Null
    /\ up' = FALSE
    /\ waiting' = Null
    /\ buffer' = file
    /\ dropped' = dropped \cup (buffer \ file)
    /\ UNCHANGED <<now, registry, stored, req, token, born, file>>

\* No invocation lasts longer than a tick.
Tick ==
    /\ now < MaxTime
    /\ \A q \in Requests : req[q] # Idle => req[q].at = now
    /\ now' = now + 1
    /\ UNCHANGED <<registry, stored, req, computer>>

Cloud(q) ==
    \/ RegisterRead(q)
    \/ RegisterWrite(q)
    \/ Authenticate(q)
    \/ IngestReceipt(q)
    \/ IngestHub(q)
    \/ IngestWrite(q)
    \/ Fail(q)

Computer ==
    \/ \E q \in Requests, c \in Codes : Pair(q, c)
    \/ Start
    \/ Enqueue
    \/ \E q \in Requests : Flush(q)
    \/ Save
    \/ Disconnect
    \/ Crash

Next ==
    \/ IssueCode
    \/ \E g \in Gateways : Revoke(g) \/ Heartbeat(g)
    \/ \E q \in Requests : Cloud(q)
    \/ BrowserIngest
    \/ ClaimHub
    \/ Computer
    \/ Tick

Spec == Init /\ [][Next]_vars

-----------------------------------------------------------------------------
(***************************************************************************)
(* Properties                                                              *)
(***************************************************************************)

\* A code is open until it runs out, and beyond for a registration that came in time.
InTime(c) ==
    \/ codes[c].until > now
    \/ \E q \in Requests : At(q, "register", "write") /\ req[q].code = c
    \/ \E q \in Requests : /\ At(q, "register", "read")
                           /\ req[q].code = c
                           /\ codes[c].until > req[q].at

StateOf(c) ==
    IF codes[c].state \in {"used", "deleted"} \/ (codes[c].state = "open" /\ ~InTime(c))
    THEN "closed" ELSE codes[c].state
TellsOf(c) == {g \in Gateways : gateways[g] # Null /\ gateways[g].told /\ gateways[g].code = c}

CodeStates == [c \in Codes |-> StateOf(c)]
Admitted == [c \in Codes |-> TellsOf(c)]

OneTime == INSTANCE OneTimeCode WITH state <- CodeStates, admitted <- Admitted

\* However registrations overlap, are repeated or lose their answers, at most one of them
\* is told a token for a code, and none for a code that ran out before it came.
CodeAdmitsOneGateway == OneTime!Spec

\* The readings of an event are added once for each gateway that sends it, although it is
\* resent after every lost answer and every restart.
CountedOncePerGateway == \A g \in Gateways, e \in Events : counted[g][e] <= 1

\* A gateway that was revoked stores nothing any more, but for what had been let in before
\* and is done within a tick.
RevokedStoresNothing ==
    [][\A g \in Gateways, e \in Events :
         receipts[g][e] = Never /\ receipts'[g][e] # Never =>
           gateways[g].revoked = Never \/ now <= gateways[g].revoked + 1]_vars

\* A gateway overwrites last_seen_at without comparing times, yet its own later reading is
\* overwritten only by another writer, or by an event it had given up.
LastSeenFollowsOneGateway ==
    [][lastSeen' < lastSeen =>
         \/ seenBy' # seenBy
         \/ \E e \in dropped : receipts'[seenBy][e] # receipts[seenBy][e]]_vars

=============================================================================
