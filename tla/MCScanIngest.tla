---------------------------- MODULE MCScanIngest ----------------------------
(* Instances of ScanIngest for TLC. *)
EXTENDS ScanIngest, TLC

CONSTANTS b1, b2, p1, s1, s2, r1, r2, h1, h2, d1, t1

\* Every hub row stands for the same hardware: claimed, deleted, claimed again.
Shared == [h \in Hubs |-> d1]

Reading(at, n) == [hardware |-> d1, tag |-> t1, seenAt |-> at, sequence |-> n, reads |-> n]
Heartbeat(at) == [hardware |-> d1, tag |-> Null, seenAt |-> at, sequence |-> 0, reads |-> 1]

OneItem == {[tag |-> t1, room |-> r1]}

OneReading == {Reading(1, 2)}
ReadingsAndHeartbeat == {Reading(0, 1), Reading(1, 2), Heartbeat(1)}

(***************************************************************************)
(* Scans and several pages at once are too many states.  Two scenes say    *)
(* what varies together.  A step that leaves both is a request or an event *)
(* that nobody has to send: no step of Fairness is ever cut off.           *)
(***************************************************************************)

\* Scans that supersede each other, while one page delivers one reading.
Answering ==
    /\ ingest[b2] = IngestIdle
    /\ \A k \in EventIds : acceptedAt[k] # Never => k \in {EventId(m) : m \in OneReading}
    /\ ingest[b1].msg \in OneReading \cup {Null}

\* No scans; two pages deliver two of the events, again, late and in any order.
Seen(k) == acceptedAt[k] # Never \/ \E b \in Bridges : ingest[b].msg # Null /\ EventId(ingest[b].msg) = k
Delivering ==
    /\ \A s \in Scans : ~Exists(s)
    /\ \A p \in Starters : start[p] = StartIdle
    /\ Cardinality({k \in EventIds : Seen(k)}) <= 2

Scenes == Answering \/ Delivering
=============================================================================
