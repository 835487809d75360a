-------------------------- MODULE DemoMode_proofs --------------------------
(***************************************************************************)
(* Proofs about DemoMode, for any number of tags, any thresholds of        *)
(* freshness and any difference of the two clocks.                         *)
(***************************************************************************)
EXTENDS DemoMode, SequenceTheorems, TLAPS

-----------------------------------------------------------------------------
(* The inductive invariant. *)

\* The last packet of a tag on its way to a subscriber carries what the
\* broker keeps; when none is on its way the page shows it already.
WireOK ==
  subscribed =>
    \A t \in Tags :
      /\ wire[t] = <<>> =>
           \/ seenTags[t].seenAt = retained[t]
           \/ retained[t] = 0 /\ t \in leftover
      /\ wire[t] # <<>> => wire[t][Len(wire[t])].seenAt = retained[t]

\* No copy of a message carries a time after its tag's last scan.
Dated(m, t) == m <= lastScan[t] + Skew

DatesOK ==
  \A t \in Tags :
    /\ lastScan[t] <= clock
    /\ retained[t] > 0 => Dated(retained[t], t)
    /\ pending[t] > 0 => Dated(pending[t], t)
    /\ seenTags[t].seenAt > 0 => Dated(seenTags[t].seenAt, t)
    /\ \A i \in 1 .. Len(wire[t]) :
         wire[t][i].seenAt > 0 => Dated(wire[t][i].seenAt, t)

ClockOK == Start <= clock

IInv == TypeOK /\ ClockOK /\ WireOK /\ DatesOK

-----------------------------------------------------------------------------
(* Types. *)

\* What a scan carries is a time after 0.
LEMMA StampOK ==
  ASSUME TypeOK, ClockOK
  PROVE  clock + Skew \in Nat /\ clock + Skew > 0
BY TimesAssumption DEF TypeOK, ClockOK

LEMMA LostOK ==
  ASSUME LoseSession
  PROVE  /\ wire' \in [Tags -> Seq(Packet)]
         /\ subscribed' \in BOOLEAN /\ suback' = "none"
<1>1. <<>> \in Seq(Packet)
  OBVIOUS
<1> QED BY <1>1 DEF LoseSession

LEMMA FirstTag == 0 \in Tags
BY TagsAssumption DEF Tags

LEMMA ScanOK ==
  ASSUME TypeOK, ClockOK, NEW S, Scan(S)
  PROVE  pending' \in [Tags -> Nat] /\ lastScan' \in [Tags -> Nat]
BY StampOK DEF TypeOK, Scan

LEMMA PublishOK ==
  ASSUME TypeOK, NEW t \in Tags, NEW m \in Nat, Publish(t, m)
  PROVE  retained' \in [Tags -> Nat] /\ wire' \in [Tags -> Seq(Packet)]
<1>1. retained' \in [Tags -> Nat]
  BY DEF TypeOK, Publish
<1>2. CASE subscribed
  <2>1. [seenAt |-> m, retain |-> FALSE] \in Packet
    BY DEF Packet
  <2>2. Append(wire[t], [seenAt |-> m, retain |-> FALSE]) \in Seq(Packet)
    BY <2>1 DEF TypeOK
  <2> QED BY <1>1, <1>2, <2>2 DEF TypeOK, Publish
<1>3. CASE ~ subscribed
  BY <1>1, <1>3 DEF TypeOK, Publish
<1> QED BY <1>2, <1>3

LEMMA InitType == Init => TypeOK /\ ClockOK
<1> SUFFICES ASSUME Init PROVE TypeOK /\ ClockOK
  OBVIOUS
<1>1. 0 \in Tags
  BY FirstTag
<1>2. Unseen \in Reading
  BY DEF Unseen, Reading
<1>3. Start \in Nat
  BY TimesAssumption
<1>4. <<>> \in Seq(Packet)
  OBVIOUS
<1> QED BY <1>1, <1>2, <1>3, <1>4 DEF Init, TypeOK, ClockOK, ConnectionStates

LEMMA NextType ==
  ASSUME TypeOK, ClockOK, [Next]_vars
  PROVE  TypeOK' /\ ClockOK'
<1> USE DEF TypeOK, ClockOK, ConnectionStates, brokerVars, scannerVars, pageVars,
            timeVars
<1>1. CASE Scanner
  <2>1. CASE StartScanner
    BY <2>1, ScanOK DEF StartScanner
  <2>2. CASE StartCycle
    BY <2>2, FirstTag DEF StartCycle
  <2>3. CASE PublishNext
    <3>1. Following(turn) \in Tags
      BY TagsAssumption DEF Following, Tags
    <3> QED BY <2>3, <3>1, ScanOK DEF PublishNext
  <2>4. CASE StopScanner
    BY <2>4, FirstTag DEF StopScanner
  <2>5. CASE KillScanner
    BY <2>5, FirstTag DEF KillScanner
  <2>6. CASE StartClear
    BY <2>6 DEF StartClear
  <2> QED BY <1>1, <2>1, <2>2, <2>3, <2>4, <2>5, <2>6 DEF Scanner
<1>2. CASE Broker
  <2>1. ASSUME NEW t \in Tags, TakeScan(t) PROVE TypeOK' /\ ClockOK'
    <3>1. pending[t] \in Nat /\ Publish(t, pending[t])
      BY <2>1 DEF TakeScan
    <3>2. retained' \in [Tags -> Nat] /\ wire' \in [Tags -> Seq(Packet)]
      BY <3>1, PublishOK
    <3>3. pending' \in [Tags -> Nat]
      <4>1. pending' = [pending EXCEPT ![t] = 0] \/ pending' = pending
        BY <2>1 DEF TakeScan
      <4>2. [pending EXCEPT ![t] = 0] \in [Tags -> Nat]
        OBVIOUS
      <4> QED BY <4>1, <4>2
    <3> QED BY <2>1, <3>2, <3>3 DEF TakeScan
  <2>2. ASSUME NEW t \in Tags, TakeClear(t) PROVE TypeOK' /\ ClockOK'
    <3>1. retained' \in [Tags -> Nat] /\ wire' \in [Tags -> Seq(Packet)]
      BY <2>2, PublishOK DEF TakeClear
    <3>2. clearing' \subseteq Tags
      BY <2>2 DEF TakeClear
    <3> QED BY <2>2, <3>1, <3>2 DEF TakeClear
  <2>3. CASE TakeSubscribe
    <3>1. ASSUME NEW t \in Tags
          PROVE  <<[seenAt |-> retained[t], retain |-> TRUE]>> \in Seq(Packet)
      BY DEF Packet
    <3> QED BY <2>3, <3>1 DEF TakeSubscribe
  <2>4. CASE RefuseSubscribe
    BY <2>4 DEF RefuseSubscribe
  <2>5. CASE Break
    BY <2>5, LostOK DEF Break
  <2> QED BY <1>2, <2>1, <2>2, <2>3, <2>4, <2>5 DEF Broker
<1>3. CASE Page
  <2>1. CASE Enter
    BY <2>1 DEF Enter
  <2>2. CASE Exit
    BY <2>2, LostOK DEF Exit, Unseen, Reading
  <2>3. CASE Connect
    BY <2>3 DEF Connect
  <2>4. CASE Subscribed
    BY <2>4 DEF Subscribed
  <2>5. CASE Offline
    BY <2>5, LostOK DEF Offline
  <2>6. CASE Reconnect
    BY <2>6 DEF Reconnect
  <2>7. CASE ConnectError
    BY <2>7 DEF ConnectError
  <2>8. CASE PressReconnect
    BY <2>8, LostOK DEF PressReconnect
  <2>9. ASSUME NEW t \in Tags, Deliver(t) PROVE TypeOK' /\ ClockOK'
    <3>1. Head(wire[t]) \in Packet /\ Tail(wire[t]) \in Seq(Packet)
      BY <2>9 DEF Deliver
    <3>2. seenTags' \in [Tags -> Reading]
      BY <2>9, <3>1 DEF Deliver, Received, Unseen, Reading, Packet
    <3> QED BY <2>9, <3>1, <3>2 DEF Deliver
  <2> QED BY <1>3, <2>1, <2>2, <2>3, <2>4, <2>5, <2>6, <2>7, <2>8, <2>9 DEF Page
<1>4. CASE Second
  BY <1>4, TimesAssumption DEF Second
<1>5. CASE Timer
  BY <1>5 DEF Timer
<1>6. CASE UNCHANGED vars
  BY <1>6 DEF vars
<1> QED BY <1>1, <1>2, <1>3, <1>4, <1>5, <1>6 DEF Next

\* Every variable keeps its type, whatever the constants (DemoMode!TypeOK).
THEOREM TypeCorrect == Spec => []TypeOK
<1>1. Init => TypeOK /\ ClockOK
  BY InitType
<1>2. (TypeOK /\ ClockOK) /\ [Next]_vars => (TypeOK /\ ClockOK)'
  BY NextType
<1> QED BY <1>1, <1>2, PTL DEF Spec

-----------------------------------------------------------------------------
(* What the page shows against what the broker keeps. *)

\* The last packet of a sequence with one more at its end, and of its tail.
LEMMA LastOfAppend ==
  ASSUME NEW s \in Seq(Packet), NEW p \in Packet
  PROVE  /\ Append(s, p) # <<>> /\ Append(s, p)[Len(Append(s, p))] = p
         /\ Append(s, p) \in Seq(Packet)
<1>1. Len(Append(s, p)) = Len(s) + 1 /\ Append(s, p)[Len(s) + 1] = p
  OBVIOUS
<1>2. Append(s, p) # <<>>
  BY <1>1
<1> QED BY <1>1, <1>2

LEMMA LastOfTail ==
  ASSUME NEW s \in Seq(Packet), s # <<>>
  PROVE  /\ Tail(s) = <<>> => Head(s) = s[Len(s)]
         /\ Tail(s) # <<>> => Tail(s)[Len(Tail(s))] = s[Len(s)]
         /\ Tail(s) \in Seq(Packet)
<1>1. /\ Len(s) \in Nat \ {0} /\ Len(Tail(s)) = Len(s) - 1
      /\ \A i \in 1 .. Len(Tail(s)) : Tail(s)[i] = s[i + 1]
      /\ Head(s) = s[1] /\ Tail(s) \in Seq(Packet)
  OBVIOUS
<1>2. Tail(s) = <<>> => Len(s) = 1
  BY <1>1, EmptySeq
<1>3. Tail(s) # <<>> => Len(Tail(s)) \in 1 .. Len(Tail(s))
  BY <1>1
<1> QED BY <1>1, <1>2, <1>3

\* Publishing keeps WireOK, even where nothing was said about the tag before.
LEMMA PublishWire ==
  ASSUME TypeOK, WireOK, NEW t \in Tags, NEW m \in Nat, Publish(t, m),
         UNCHANGED <<subscribed, seenTags, leftover>>
  PROVE  WireOK'
<1> SUFFICES ASSUME subscribed, NEW u \in Tags
             PROVE  /\ wire'[u] = <<>> =>
                         \/ seenTags[u].seenAt = retained'[u]
                         \/ retained'[u] = 0 /\ u \in leftover
                    /\ wire'[u] # <<>> =>
                         wire'[u][Len(wire'[u])].seenAt = retained'[u]
  BY DEF WireOK
<1> DEFINE p == [seenAt |-> m, retain |-> FALSE]
<1>1. p \in Packet /\ p.seenAt = m
  BY DEF Packet
<1>2. wire[t] \in Seq(Packet)
  BY DEF TypeOK
<1>3. retained' = [retained EXCEPT ![t] = m]
      /\ wire' = [wire EXCEPT ![t] = Append(wire[t], p)]
  BY DEF Publish
<1> HIDE DEF p
<1>4. CASE u = t
  <2>1. wire'[u] = Append(wire[t], p) /\ retained'[u] = m
    BY <1>3, <1>4 DEF TypeOK
  <2> QED BY <2>1, <1>1, <1>2, LastOfAppend
<1>5. CASE u # t
  <2>1. wire'[u] = wire[u] /\ retained'[u] = retained[u]
    BY <1>3, <1>5 DEF TypeOK
  <2> QED BY <2>1 DEF WireOK
<1> QED BY <1>4, <1>5

LEMMA NextWire ==
  ASSUME TypeOK, WireOK, [Next]_vars
  PROVE  WireOK'
<1> USE DEF brokerVars, scannerVars, pageVars, timeVars
<1>1. ASSUME LoseSession PROVE WireOK'
  BY <1>1 DEF LoseSession, WireOK
<1>2. ASSUME UNCHANGED <<retained, subscribed, wire, seenTags, leftover>>
      PROVE  WireOK'
  BY <1>2 DEF WireOK
<1>3. CASE Scanner
  BY <1>2, <1>3 DEF Scanner, StartScanner, StartCycle, PublishNext, StopScanner,
                    KillScanner, StartClear
<1>4. CASE Broker
  <2>1. ASSUME NEW t \in Tags, TakeScan(t) PROVE WireOK'
    <3>1. /\ pending[t] \in Nat /\ Publish(t, pending[t])
          /\ UNCHANGED <<subscribed, seenTags, leftover>>
      BY <2>1 DEF TakeScan, TypeOK
    <3> QED BY <3>1, PublishWire
  <2>2. ASSUME NEW t \in Tags, TakeClear(t) PROVE WireOK'
    <3>1. Publish(t, 0) /\ UNCHANGED <<subscribed, seenTags, leftover>>
      BY <2>2 DEF TakeClear
    <3> QED BY <3>1, PublishWire
  <2>3. CASE TakeSubscribe
    <3> SUFFICES ASSUME NEW u \in Tags
                 PROVE  /\ wire'[u] = <<>> =>
                             \/ seenTags[u].seenAt = retained[u]
                             \/ retained[u] = 0 /\ u \in leftover'
                        /\ wire'[u] # <<>> =>
                             wire'[u][Len(wire'[u])].seenAt = retained[u]
      BY <2>3 DEF TakeSubscribe, WireOK
    <3>1. seenTags[u].seenAt \in Nat
      BY DEF TypeOK, Reading
    <3>2. CASE retained[u] = 0
      <4>1. wire'[u] = <<>>
        BY <2>3, <3>2 DEF TakeSubscribe
      <4>2. seenTags[u].seenAt > 0 => u \in leftover'
        BY <2>3, <3>2 DEF TakeSubscribe
      <4> QED BY <3>1, <3>2, <4>1, <4>2
    <3>3. CASE retained[u] # 0
      <4>1. wire'[u] = <<[seenAt |-> retained[u], retain |-> TRUE]>>
        BY <2>3, <3>3 DEF TakeSubscribe
      <4> QED BY <4>1
    <3> QED BY <3>2, <3>3
  <2>4. CASE RefuseSubscribe
    BY <1>2, <2>4 DEF RefuseSubscribe
  <2>5. CASE Break
    BY <1>1, <2>5 DEF Break
  <2> QED BY <1>4, <2>1, <2>2, <2>3, <2>4, <2>5 DEF Broker
<1>5. CASE Page
  <2>1. ASSUME NEW t \in Tags, Deliver(t) PROVE WireOK'
    <3> SUFFICES ASSUME subscribed, NEW u \in Tags
                 PROVE  /\ wire'[u] = <<>> =>
                             \/ seenTags'[u].seenAt = retained[u]
                             \/ retained[u] = 0 /\ u \in leftover'
                        /\ wire'[u] # <<>> =>
                             wire'[u][Len(wire'[u])].seenAt = retained[u]
      BY <2>1 DEF Deliver, WireOK
    <3>1. wire[t] \in Seq(Packet) /\ wire[t] # <<>>
      BY <2>1 DEF Deliver, TypeOK
    <3>2. CASE u = t
      <4>1. wire'[u] = Tail(wire[t])
        BY <2>1, <3>2 DEF Deliver, TypeOK
      <4>2. seenTags'[u].seenAt = Head(wire[t]).seenAt
        BY <2>1, <3>2 DEF Deliver, Received, TypeOK, Unseen
      <4>3. wire[t][Len(wire[t])].seenAt = retained[t]
        BY <3>1 DEF WireOK
      <4> QED BY <3>1, <3>2, <4>1, <4>2, <4>3, LastOfTail
    <3>3. CASE u # t
      <4>1. /\ wire'[u] = wire[u] /\ seenTags'[u] = seenTags[u]
            /\ u \in leftover => u \in leftover'
        BY <2>1, <3>3 DEF Deliver, TypeOK
      <4> QED BY <4>1 DEF WireOK
    <3> QED BY <3>2, <3>3
  <2>2. CASE Exit \/ Offline \/ PressReconnect
    BY <1>1, <2>2 DEF Exit, Offline, PressReconnect
  <2>3. CASE Enter \/ Connect \/ Subscribed \/ Reconnect \/ ConnectError
    BY <1>2, <2>3 DEF Enter, Connect, Subscribed, Reconnect, ConnectError
  <2> QED BY <1>5, <2>1, <2>2, <2>3 DEF Page
<1>6. CASE Second \/ Timer \/ UNCHANGED vars
  BY <1>2, <1>6 DEF Second, Timer, vars
<1> QED BY <1>3, <1>4, <1>5, <1>6 DEF Next

\* A subscribed page to which nothing is on its way shows for each tag what
\* the broker keeps, or else a tag deleted while it was away: after any
\* sequence of lost connections, repeated publishes and reconnections
\* (DemoMode!SubscribedShowsRetained).
THEOREM ShowsRetained == Spec => []SubscribedShowsRetained
<1>1. Init => (TypeOK /\ ClockOK) /\ WireOK
  BY InitType DEF Init, WireOK
<1>2. ((TypeOK /\ ClockOK) /\ WireOK) /\ [Next]_vars
        => ((TypeOK /\ ClockOK) /\ WireOK)'
  BY NextType, NextWire
<1>3. WireOK => SubscribedShowsRetained
  BY DEF WireOK, SubscribedShowsRetained
<1> QED BY <1>1, <1>2, <1>3, PTL DEF Spec

-----------------------------------------------------------------------------
(* How old what is shown can be. *)

\* The dates of a tag stay in order when its messages stay, or become nothing,
\* or copies of one another.
LEMMA KeepsDates ==
  ASSUME DatesOK, clock' = clock, lastScan' = lastScan,
         \A t \in Tags : retained'[t] \in {0, retained[t], pending[t]},
         \A t \in Tags : pending'[t] \in {0, pending[t]},
         \A t \in Tags :
           \/ seenTags'[t].seenAt \in {0, seenTags[t].seenAt}
           \/ wire[t] # <<>> /\ seenTags'[t].seenAt = wire[t][1].seenAt
                             /\ 1 \in 1 .. Len(wire[t]),
         \A t \in Tags : \A i \in 1 .. Len(wire'[t]) :
           \/ wire'[t][i].seenAt \in {0, retained[t], pending[t]}
           \/ \E j \in 1 .. Len(wire[t]) : wire'[t][i] = wire[t][j]
  PROVE  DatesOK'
<1> SUFFICES ASSUME NEW t \in Tags
             PROVE  /\ lastScan[t] <= clock
                    /\ retained'[t] > 0 => Dated(retained'[t], t)
                    /\ pending'[t] > 0 => Dated(pending'[t], t)
                    /\ seenTags'[t].seenAt > 0 => Dated(seenTags'[t].seenAt, t)
                    /\ \A i \in 1 .. Len(wire'[t]) :
                         wire'[t][i].seenAt > 0 => Dated(wire'[t][i].seenAt, t)
  BY DEF DatesOK, Dated
<1>1. /\ lastScan[t] <= clock
      /\ retained[t] > 0 => Dated(retained[t], t)
      /\ pending[t] > 0 => Dated(pending[t], t)
      /\ seenTags[t].seenAt > 0 => Dated(seenTags[t].seenAt, t)
      /\ \A i \in 1 .. Len(wire[t]) : wire[t][i].seenAt > 0 => Dated(wire[t][i].seenAt, t)
  BY DEF DatesOK
<1>2. retained'[t] > 0 => Dated(retained'[t], t)
  BY <1>1
<1>3. pending'[t] > 0 => Dated(pending'[t], t)
  BY <1>1
<1>4. seenTags'[t].seenAt > 0 => Dated(seenTags'[t].seenAt, t)
  BY <1>1
<1>5. ASSUME NEW i \in 1 .. Len(wire'[t]), wire'[t][i].seenAt > 0
      PROVE  Dated(wire'[t][i].seenAt, t)
  BY <1>1, <1>5
<1> QED BY <1>1, <1>2, <1>3, <1>4, <1>5

\* Nothing on its way any more.
LEMMA LostWire ==
  ASSUME LoseSession
  PROVE  \A t \in Tags : \A i \in 1 .. Len(wire'[t]) : FALSE
<1>1. Len(<<>>) = 0
  BY EmptySeq
<1> QED BY <1>1 DEF LoseSession

LEMMA PublishDates ==
  ASSUME TypeOK, DatesOK, NEW t \in Tags, NEW m \in {0, pending[t]},
         Publish(t, m), UNCHANGED <<clock, lastScan, seenTags>>,
         \A u \in Tags : pending'[u] \in {0, pending[u]}
  PROVE  DatesOK'
<1> DEFINE p == [seenAt |-> m, retain |-> FALSE]
<1>1. \A u \in Tags : retained'[u] \in {0, retained[u], pending[u]}
  BY DEF Publish, TypeOK
<1>2. ASSUME NEW u \in Tags, NEW i \in 1 .. Len(wire'[u])
      PROVE  \/ wire'[u][i].seenAt \in {0, retained[u], pending[u]}
             \/ \E j \in 1 .. Len(wire[u]) : wire'[u][i] = wire[u][j]
  <2>1. CASE wire'[u] = wire[u]
    BY <1>2, <2>1
  <2>2. CASE wire'[u] # wire[u]
    <3>1. u = t /\ wire'[u] = Append(wire[t], p)
      BY <2>2 DEF Publish, TypeOK
    <3>2. wire[t] \in Seq(Packet)
      BY DEF TypeOK
    <3>3. p.seenAt = m
      OBVIOUS
    <3> HIDE DEF p
    <3>4. /\ Len(Append(wire[t], p)) = Len(wire[t]) + 1
          /\ Append(wire[t], p)[Len(wire[t]) + 1] = p
          /\ \A j \in 1 .. Len(wire[t]) : Append(wire[t], p)[j] = wire[t][j]
          /\ Len(wire[t]) \in Nat
      BY <3>2
    <3>5. CASE i = Len(wire[t]) + 1
      BY <3>1, <3>3, <3>4, <3>5
    <3>6. CASE i # Len(wire[t]) + 1
      <4>1. i \in 1 .. Len(wire[t])
        BY <1>2, <3>1, <3>4, <3>6
      <4> QED BY <3>1, <3>4, <4>1
    <3> QED BY <3>5, <3>6
  <2> QED BY <2>1, <2>2
<1>3. \A u \in Tags : seenTags'[u].seenAt \in {0, seenTags[u].seenAt}
  OBVIOUS
<1> QED BY <1>1, <1>2, <1>3, KeepsDates

\* A scan only moves the last scans of its tags to the present.
LEMMA ScanDates ==
  ASSUME TypeOK, ClockOK, DatesOK, NEW S, Scan(S),
         UNCHANGED <<retained, wire, seenTags, clock>>
  PROVE  DatesOK'
<1> SUFFICES ASSUME NEW t \in Tags
             PROVE  /\ lastScan'[t] <= clock
                    /\ retained[t] > 0 => retained[t] <= lastScan'[t] + Skew
                    /\ pending'[t] > 0 => pending'[t] <= lastScan'[t] + Skew
                    /\ seenTags[t].seenAt > 0 =>
                         seenTags[t].seenAt <= lastScan'[t] + Skew
                    /\ \A i \in 1 .. Len(wire[t]) : wire[t][i].seenAt > 0 =>
                         wire[t][i].seenAt <= lastScan'[t] + Skew
  BY DEF DatesOK, Dated
<1>1. /\ lastScan[t] \in Nat /\ clock \in Nat /\ Skew \in Int
      /\ retained[t] \in Nat /\ pending[t] \in Nat /\ seenTags[t].seenAt \in Nat
  BY TimesAssumption DEF TypeOK, Reading
<1>2. \A i \in 1 .. Len(wire[t]) : wire[t][i].seenAt \in Nat
  <2>1. wire[t] \in Seq(Packet)
    BY DEF TypeOK
  <2>2. \A i \in 1 .. Len(wire[t]) : wire[t][i] \in Packet
    BY <2>1
  <2>3. \A p \in Packet : p.seenAt \in Nat
    BY DEF Packet
  <2> QED BY <2>2, <2>3
<1>3. /\ lastScan'[t] <= clock /\ lastScan[t] <= lastScan'[t]
      /\ lastScan'[t] \in Nat
      /\ \/ pending'[t] = clock + Skew /\ lastScan'[t] = clock
         \/ pending'[t] = pending[t] /\ lastScan'[t] = lastScan[t]
  BY <1>1 DEF Scan, DatesOK
<1>4. /\ lastScan[t] <= clock
      /\ retained[t] > 0 => retained[t] <= lastScan[t] + Skew
      /\ pending[t] > 0 => pending[t] <= lastScan[t] + Skew
      /\ seenTags[t].seenAt > 0 => seenTags[t].seenAt <= lastScan[t] + Skew
      /\ \A i \in 1 .. Len(wire[t]) :
           wire[t][i].seenAt > 0 => wire[t][i].seenAt <= lastScan[t] + Skew
  BY DEF DatesOK, Dated
<1>5. pending'[t] > 0 => pending'[t] <= lastScan'[t] + Skew
  BY <1>1, <1>3, <1>4
<1>6. \A m \in Nat : m <= lastScan[t] + Skew => m <= lastScan'[t] + Skew
  BY <1>1, <1>3
<1>7. /\ retained[t] > 0 => retained[t] <= lastScan'[t] + Skew
      /\ seenTags[t].seenAt > 0 => seenTags[t].seenAt <= lastScan'[t] + Skew
  BY <1>1, <1>4, <1>6
<1>8. ASSUME NEW i \in 1 .. Len(wire[t]), wire[t][i].seenAt > 0
      PROVE  wire[t][i].seenAt <= lastScan'[t] + Skew
  BY <1>2, <1>4, <1>6, <1>8
<1> QED BY <1>3, <1>5, <1>7, <1>8

LEMMA NextDates ==
  ASSUME TypeOK, ClockOK, DatesOK, [Next]_vars
  PROVE  DatesOK'
<1> USE DEF brokerVars, scannerVars, pageVars, timeVars
<1>1. ASSUME UNCHANGED <<retained, wire, clock, lastScan, seenTags>>,
             \A t \in Tags : pending'[t] \in {0, pending[t]}
      PROVE  DatesOK'
  BY <1>1, KeepsDates
<1>2. ASSUME UNCHANGED <<retained, pending, clock, lastScan>>, LoseSession,
             \A t \in Tags : seenTags'[t].seenAt \in {0, seenTags[t].seenAt}
      PROVE  DatesOK'
  BY <1>2, LostWire, KeepsDates
<1>3. CASE Scanner
  <2>1. CASE StartScanner
    BY <2>1, ScanDates DEF StartScanner
  <2>2. CASE PublishNext
    BY <2>2, ScanDates DEF PublishNext
  <2>3. CASE KillScanner
    BY <1>1, <2>3 DEF KillScanner
  <2>4. CASE StartCycle \/ StopScanner \/ StartClear
    BY <1>1, <2>4 DEF StartCycle, StopScanner, StartClear
  <2> QED BY <1>3, <2>1, <2>2, <2>3, <2>4 DEF Scanner
<1>4. CASE Broker
  <2>1. ASSUME NEW t \in Tags, TakeScan(t) PROVE DatesOK'
    <3>1. \A u \in Tags : pending'[u] \in {0, pending[u]}
      BY <2>1 DEF TakeScan, TypeOK
    <3>2. Publish(t, pending[t]) /\ UNCHANGED <<clock, lastScan, seenTags>>
      BY <2>1 DEF TakeScan
    <3> QED BY <3>1, <3>2, PublishDates
  <2>2. ASSUME NEW t \in Tags, TakeClear(t) PROVE DatesOK'
    <3>1. /\ Publish(t, 0) /\ UNCHANGED <<clock, lastScan, seenTags, pending>>
      BY <2>2 DEF TakeClear
    <3> QED BY <3>1, PublishDates
  <2>3. CASE TakeSubscribe
    <3>1. \A t \in Tags : \A i \in 1 .. Len(wire'[t]) :
            wire'[t][i].seenAt \in {0, retained[t], pending[t]}
      <4> SUFFICES ASSUME NEW t \in Tags, NEW i \in 1 .. Len(wire'[t])
                   PROVE  wire'[t][i].seenAt = retained[t]
        OBVIOUS
      <4>1. CASE retained[t] = 0
        <5>1. wire'[t] = <<>>
          BY <2>3, <4>1 DEF TakeSubscribe
        <5> QED BY <5>1, EmptySeq
      <4>2. CASE retained[t] # 0
        <5>1. wire'[t] = <<[seenAt |-> retained[t], retain |-> TRUE]>>
          BY <2>3, <4>2 DEF TakeSubscribe
        <5> QED BY <5>1
      <4> QED BY <4>1, <4>2
    <3>2. UNCHANGED <<retained, pending, clock, lastScan, seenTags>>
      BY <2>3 DEF TakeSubscribe
    <3> QED BY <3>1, <3>2, KeepsDates
  <2>4. CASE RefuseSubscribe
    BY <1>1, <2>4 DEF RefuseSubscribe
  <2>5. CASE Break
    BY <1>2, <2>5 DEF Break
  <2> QED BY <1>4, <2>1, <2>2, <2>3, <2>4, <2>5 DEF Broker
<1>5. CASE Page
  <2>1. ASSUME NEW t \in Tags, Deliver(t) PROVE DatesOK'
    <3>1. wire[t] \in Seq(Packet) /\ wire[t] # <<>>
      BY <2>1 DEF Deliver, TypeOK
    <3>2. /\ Len(wire[t]) \in Nat \ {0} /\ Head(wire[t]) = wire[t][1]
          /\ Len(Tail(wire[t])) = Len(wire[t]) - 1
          /\ \A i \in 1 .. Len(Tail(wire[t])) : Tail(wire[t])[i] = wire[t][i + 1]
      BY <3>1
    <3>3. wire' = [wire EXCEPT ![t] = Tail(wire[t])]
      BY <2>1 DEF Deliver
    <3>4. \A u \in Tags : \A i \in 1 .. Len(wire'[u]) :
            \E j \in 1 .. Len(wire[u]) : wire'[u][i] = wire[u][j]
      <4> SUFFICES ASSUME NEW u \in Tags, NEW i \in 1 .. Len(wire'[u])
                   PROVE  \E j \in 1 .. Len(wire[u]) : wire'[u][i] = wire[u][j]
        OBVIOUS
      <4>1. CASE u = t
        <5>1. wire'[u] = Tail(wire[t])
          BY <3>3, <4>1 DEF TypeOK
        <5>2. i + 1 \in 1 .. Len(wire[t]) /\ wire'[u][i] = wire[t][i + 1]
          BY <3>2, <5>1
        <5> QED BY <4>1, <5>2
      <4>2. CASE u # t
        BY <3>3, <4>2 DEF TypeOK
      <4> QED BY <4>1, <4>2
    <3>5. \A u \in Tags :
            \/ seenTags'[u].seenAt \in {0, seenTags[u].seenAt}
            \/ wire[u] # <<>> /\ seenTags'[u].seenAt = wire[u][1].seenAt
                              /\ 1 \in 1 .. Len(wire[u])
      <4>1. seenTags'[t].seenAt = wire[t][1].seenAt
        BY <2>1, <3>2 DEF Deliver, Received, TypeOK, Unseen
      <4>2. \A u \in Tags : u # t => seenTags'[u] = seenTags[u]
        BY <2>1 DEF Deliver, TypeOK
      <4> QED BY <3>1, <3>2, <4>1, <4>2
    <3>6. UNCHANGED <<retained, pending, clock, lastScan>>
      BY <2>1 DEF Deliver
    <3> QED BY <3>4, <3>5, <3>6, KeepsDates
  <2>2. CASE Exit
    BY <1>2, <2>2 DEF Exit, Unseen
  <2>3. CASE Offline \/ PressReconnect
    BY <1>2, <2>3 DEF Offline, PressReconnect
  <2>4. CASE Enter \/ Connect \/ Subscribed \/ Reconnect \/ ConnectError
    BY <1>1, <2>4 DEF Enter, Connect, Subscribed, Reconnect, ConnectError
  <2> QED BY <1>5, <2>1, <2>2, <2>3, <2>4 DEF Page
<1>6. CASE Second
  BY <1>6 DEF Second, DatesOK, Dated, TypeOK
<1>7. CASE Timer \/ UNCHANGED vars
  BY <1>1, <1>7 DEF Timer, vars
<1> QED BY <1>3, <1>4, <1>5, <1>6, <1>7 DEF Next

\* A reading younger than a span was scanned within it and the difference of
\* the clocks.
LEMMA YoungIsRecent ==
  ASSUME TypeOK, DatesOK, NEW t \in Tags, NEW span \in Nat,
         seenTags[t].seenAt > 0, Age(t) < span
  PROVE  now < lastScan[t] + Skew + span
<1>1. /\ now \in Nat /\ seenTags[t].seenAt \in Nat /\ lastScan[t] \in Nat
      /\ Skew \in Int
  BY TimesAssumption DEF TypeOK, Reading
<1>2. seenTags[t].seenAt <= lastScan[t] + Skew
  BY DEF DatesOK, Dated
<1>3. now - seenTags[t].seenAt < span
  BY DEF Age
<1> QED BY <1>1, <1>2, <1>3

\* The inductive invariant holds of every reachable state.
THEOREM Invariant == Spec => []IInv
<1>1. Init => IInv
  <2> SUFFICES ASSUME Init PROVE IInv
    OBVIOUS
  <2>1. Start \in Nat /\ Len(<<>>) = 0
    BY TimesAssumption, EmptySeq
  <2>2. DatesOK
    BY <2>1 DEF Init, DatesOK, Unseen
  <2> QED BY <2>2, InitType DEF Init, WireOK, IInv
<1>2. IInv /\ [Next]_vars => IInv'
  BY NextType, NextWire, NextDates DEF IInv
<1> QED BY <1>1, <1>2, PTL DEF Spec

\* A tag is shown as live only within FreshFor of its latest scan, whatever
\* was kept at the broker, delivered late or delivered twice
\* (DemoMode!LiveTagsWereRead).
THEOREM LiveRead == Spec => []LiveTagsWereRead
<1>1. IInv => LiveTagsWereRead
  <2> SUFFICES ASSUME IInv, NEW t \in Tags, TagFreshness(t) = "live"
               PROVE  now < lastScan[t] + Skew + FreshFor
    BY DEF LiveTagsWereRead
  <2>1. FreshFor \in Nat
    BY TimesAssumption
  <2>2. seenTags[t].seenAt > 0 /\ Age(t) < FreshFor
    BY DEF TagFreshness, IInv, TypeOK, Reading
  <2> QED BY <2>1, <2>2, YoungIsRecent DEF IInv
<1> QED BY <1>1, Invariant, PTL
=============================================================================
