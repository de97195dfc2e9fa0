--------------------------- MODULE DeliveryProofs ---------------------------
(***************************************************************************)
(* Theorems about Delivery, for every number of pods, polls, measurements  *)
(* and failures, all queue sizes and all limits.                           *)
(***************************************************************************)
EXTENDS Delivery, SequenceTheorems, TLAPS

PollRecords ==
  [at : {"done", "reading", "posting"}, pod : Pods \cup {None}, v : 0..MaxReports, age : 0..Cap]
Snapshots == [at : {"none", "asked", "answered"}, copy : Copies \cup {Blank}]

\* The bounds are numbers.
LEMMA Bounds ==
  /\ Limit \in Nat /\ MaxLag \in Nat /\ PollMax \in Nat /\ OutboxMax \in Nat /\ MaxFaults \in Nat
  /\ Cap \in Nat /\ PollMax <= Cap /\ QueueMax \in Nat /\ QueueMax > 0 /\ OutboxMax > 0
  /\ MaxReports \in Nat /\ MaxReports > 0 /\ 1 \in Reports /\ Reports \subseteq 0..MaxReports
  /\ 0 \in 0..Cap
BY DeliveryAssumption DEF DeliveryAssumption, Cap, Reports

\* Ageing stays within the bound of ages, and adds one below it.
LEMMA OlderType ==
  ASSUME NEW a \in 0..Cap
  PROVE  Older(a) \in 0..Cap /\ (a < Cap => Older(a) = a + 1) /\ (a >= Cap => Older(a) = a)
BY Bounds DEF Older

\* An aged copy is a copy of the same measurement.
LEMMA AgedType ==
  /\ \A c \in Copies : Aged(c) \in Copies
  /\ \A c \in Times : Aged(c) \in Times
  /\ \A c \in PollRecords : Aged(c) \in PollRecords
BY OlderType DEF Aged, Copies, Times, PollRecords

\* Ageing every element of a sequence.
LEMMA AgedSeq ==
  ASSUME NEW S, NEW T, NEW q \in Seq(S), \A c \in S : Aged(c) \in T
  PROVE  /\ [i \in DOMAIN q |-> Aged(q[i])] \in Seq(T)
         /\ Len([i \in DOMAIN q |-> Aged(q[i])]) = Len(q)
<1>1. DOMAIN q = 1..Len(q) /\ Len(q) \in Nat /\ \A i \in 1..Len(q) : q[i] \in S
  OBVIOUS
<1>2. \A i \in 1..Len(q) : Aged(q[i]) \in T
  BY <1>1
<1>3. QED
  BY <1>1, <1>2

\* The parts of the types, and what a poll and a snapshot hold on their way.
PollType ==
  /\ poll \in [Polls -> PollRecords]
  /\ \A p \in Polls : poll[p].at = "posting" => poll[p].v \in Reports
TimeType == latest \in Reports /\ measured \in [Reports -> 0..Cap] /\ faults \in 0..MaxFaults
RunnerType ==
  /\ task \in [Pods -> Polls \cup {None}]
  /\ runner \in [Pods -> {"open", "old", "closing", "closed"}]
  /\ writer \in Pods \cup {None}
OutboxType == known \in Copies \cup {Blank} /\ outbox \in Seq(Copies) /\ Len(outbox) <= OutboxMax
QueueType == session \in BOOLEAN /\ queue \in Seq(Copies \cup Times) /\ Len(queue) <= QueueMax
SnapshotType ==
  snapshot \in Snapshots /\ (snapshot.at = "answered" => snapshot.copy \in Copies)
PanelType == shown \in Copies \cup {Blank} /\ clock \in [ready : BOOLEAN, lag : 0..Cap]

Types ==
  PollType /\ TimeType /\ RunnerType /\ OutboxType /\ QueueType /\ SnapshotType /\ PanelType

\* A copy is recognised by its number.
LEMMA CopyOrBlank ==
  /\ Blank \in Times /\ Blank \notin Copies
  /\ \A c \in Copies \cup Times : c.v # 0 => c \in Copies
  /\ \A c \in Copies \cup {Blank} : c.v # 0 <=> c \in Copies
  /\ \A c \in Copies \cup Times : c.age \in 0..Cap
BY Bounds DEF Blank, Copies, Times, Reports

\* Every behaviour keeps the variables within their types.
THEOREM DeliveryTypes == Spec => []Types
<1>1. Init => Types
  <2> SUFFICES ASSUME Init PROVE Types
    OBVIOUS
  <2>1. PollType
    BY Bounds DEF Init, PollType, PollRecords, Done
  <2>2. TimeType /\ RunnerType /\ PanelType
    BY Bounds DEF Init, TimeType, RunnerType, PanelType
  <2>3. OutboxType /\ QueueType
    <3>1. <<>> \in Seq(Copies) /\ <<>> \in Seq(Copies \cup Times) /\ Len(<<>>) = 0
      OBVIOUS
    <3>2. OutboxType
      BY <3>1, Bounds DEF Init, OutboxType
    <3>3. QueueType
      <4>1. queue \in Seq(Copies \cup Times) /\ Len(queue) <= QueueMax
        BY <3>1, Bounds DEF Init
      <4>2. session \in BOOLEAN
        BY DEF Init
      <4>3. QED
        BY <4>1, <4>2 DEF QueueType
    <3>4. QED
      BY <3>2, <3>3
  <2>4. SnapshotType
    BY DEF Init, SnapshotType, Snapshots
  <2>5. QED
    BY <2>1, <2>2, <2>3, <2>4 DEF Types
<1>2. Types /\ [Next]_vars => Types'
  <2> SUFFICES ASSUME Types, [Next]_vars PROVE Types'
    OBVIOUS
  <2> USE DEF poller, state, adapter, panel
  <2>0. PollType /\ TimeType /\ RunnerType /\ OutboxType /\ QueueType /\ SnapshotType /\ PanelType
    BY DEF Types
  <2>f. ASSUME Fault PROVE faults' \in 0..MaxFaults
    BY <2>f, <2>0, Bounds DEF Fault, TimeType
  <2>1. CASE Measure
    <3>1. TimeType'
      <4>1. latest + 1 \in Reports
        BY <2>0, <2>1, Bounds DEF Measure, TimeType, Reports
      <4>2. [measured EXCEPT ![latest + 1] = 0] \in [Reports -> 0..Cap]
        BY <2>0, Bounds DEF TimeType
      <4>3. QED
        BY <2>0, <2>1, <4>1, <4>2 DEF Measure, TimeType
    <3>2. QED
      BY <2>0, <2>1, <3>1
         DEF Measure, Types, PollType, RunnerType, OutboxType, QueueType, SnapshotType, PanelType
  <2>2. CASE Tick
    <3>1. TimeType'
      BY <2>0, <2>2, OlderType DEF Tick, TimeType
    <3>2. PollType'
      <4>1. \A p \in Polls : poll'[p] \in PollRecords /\ poll'[p].at = poll[p].at
                             /\ (poll'[p].at = "posting" => poll'[p].v \in Reports)
        <5>1. SUFFICES ASSUME NEW p \in Polls
                       PROVE  poll'[p] \in PollRecords /\ poll'[p].at = poll[p].at
                              /\ (poll'[p].at = "posting" => poll'[p].v \in Reports)
          OBVIOUS
        <5>2. poll'[p] = IF poll[p].at = "posting" THEN Aged(poll[p]) ELSE poll[p]
          BY <2>2 DEF Tick
        <5>3. poll[p] \in PollRecords
          BY <2>0 DEF PollType
        <5>4. Aged(poll[p]) \in PollRecords
          BY <5>3, AgedType
        <5>5. Aged(poll[p]).at = poll[p].at /\ Aged(poll[p]).v = poll[p].v
          BY <5>3 DEF Aged, PollRecords
        <5>6. QED
          BY <5>2, <5>3, <5>4, <5>5, <2>0 DEF PollType
      <4>2. poll' \in [Polls -> PollRecords]
        BY <4>1, <2>2 DEF Tick
      <4>3. QED
        BY <4>1, <4>2 DEF PollType
    <3>3. OutboxType'
      <4>1. known' \in Copies \cup {Blank}
        BY <2>0, <2>2, AgedType DEF Tick, OutboxType
      <4>2. outbox' \in Seq(Copies) /\ Len(outbox') = Len(outbox)
        BY <2>0, <2>2, AgedType, AgedSeq DEF Tick, OutboxType
      <4>3. QED
        BY <2>0, <4>1, <4>2 DEF OutboxType
    <3>4. QueueType'
      <4>1. \A c \in Copies \cup Times : Aged(c) \in Copies \cup Times
        BY AgedType
      <4>2. queue' \in Seq(Copies \cup Times) /\ Len(queue') = Len(queue)
        BY <2>0, <2>2, <4>1, AgedSeq DEF Tick, QueueType
      <4>3. QED
        BY <2>0, <2>2, <4>2 DEF Tick, QueueType
    <3>5. SnapshotType'
      <4>1. CASE snapshot.at = "answered"
        <5>1. Aged(snapshot.copy) \in Copies
          BY <2>0, <4>1, AgedType DEF SnapshotType
        <5>2. snapshot' = [snapshot EXCEPT !.copy = Aged(snapshot.copy)]
          BY <2>2, <4>1 DEF Tick
        <5>3. QED
          BY <2>0, <5>1, <5>2 DEF SnapshotType, Snapshots
      <4>2. CASE snapshot.at # "answered"
        BY <2>0, <2>2, <4>2 DEF Tick, SnapshotType
      <4>3. QED
        BY <4>1, <4>2
    <3>6. PanelType'
      BY <2>0, <2>2, AgedType DEF Tick, PanelType
    <3>7. RunnerType'
      BY <2>0, <2>2 DEF Tick, RunnerType
    <3>8. QED
      BY <3>1, <3>2, <3>3, <3>4, <3>5, <3>6, <3>7 DEF Types
  <2>3. ASSUME NEW d \in Pods, request(d)
        PROVE  Types'
    <3> DEFINE new == [at |-> "reading", pod |-> d, v |-> 0, age |-> 0]
    <3>1. PICK p \in Polls : task' = [task EXCEPT ![d] = p] /\ poll' = [poll EXCEPT ![p] = new]
      BY <2>3 DEF request
    <3>2. new \in PollRecords /\ new.at = "reading"
      BY Bounds DEF PollRecords
    <3>3. PollType'
      BY <2>0, <3>1, <3>2 DEF PollType
    <3>4. RunnerType'
      BY <2>0, <2>3, <3>1 DEF request, RunnerType
    <3>5. QED
      BY <2>0, <2>3, <3>3, <3>4
         DEF request, Types, TimeType, OutboxType, QueueType, SnapshotType, PanelType
  <2>4. ASSUME NEW p \in Polls, Read(p)
        PROVE  Types'
    <3>1. latest \in Reports /\ latest \in 0..MaxReports /\ poll[p] \in PollRecords
      BY <2>0, Bounds DEF TimeType, PollType
    <3> DEFINE new == [at |-> "posting", pod |-> poll[p].pod, v |-> latest, age |-> 0]
    <3>2. new \in PollRecords /\ new.v = latest
      BY <3>1, Bounds DEF PollRecords
    <3>3. poll' = [poll EXCEPT ![p] = new]
      BY <2>4 DEF Read
    <3>4. PollType'
      BY <2>0, <3>1, <3>2, <3>3 DEF PollType
    <3>5. QED
      BY <2>0, <2>4, <3>4
         DEF Read, Types, TimeType, RunnerType, OutboxType, QueueType, SnapshotType, PanelType
  <2>5. ASSUME NEW p \in Polls, PollFails(p)
        PROVE  Types'
    <3>1. Done \in PollRecords /\ Done.at # "posting"
      BY Bounds DEF Done, PollRecords
    <3>2. PollType'
      BY <2>0, <2>5, <3>1 DEF PollFails, PollType
    <3>3. TimeType'
      BY <2>0, <2>5, <2>f DEF PollFails, TimeType
    <3>4. QED
      BY <2>0, <2>5, <3>2, <3>3
         DEF PollFails, Types, RunnerType, OutboxType, QueueType, SnapshotType, PanelType
  <2>6. ASSUME NEW d \in Pods, CloseBegins(d)
        PROVE  Types'
    <3>1. TimeType'
      BY <2>0, <2>6, <2>f DEF CloseBegins, TimeType
    <3>2. RunnerType'
      BY <2>0, <2>6 DEF CloseBegins, RunnerType
    <3>3. QED
      BY <2>0, <2>6, <3>1, <3>2
         DEF CloseBegins, Types, PollType, OutboxType, QueueType, SnapshotType, PanelType
  <2>7. ASSUME NEW d \in Pods, CloseReturns(d)
        PROVE  Types'
    <3>1. RunnerType'
      BY <2>0, <2>7 DEF CloseReturns, RunnerType
    <3>2. QED
      BY <2>0, <2>7, <3>1 DEF CloseReturns,
         Types, PollType, TimeType, OutboxType, QueueType, SnapshotType, PanelType
  <2>20. CASE Start
    <3>1. RunnerType'
      BY <2>0, <2>20 DEF Start, RunnerType
    <3>2. QED
      BY <2>0, <2>20, <3>1 DEF Start,
         Types, PollType, TimeType, OutboxType, QueueType, SnapshotType, PanelType
  <2>21. CASE RollOut
    <3>1. TimeType'
      BY <2>0, <2>21, <2>f DEF RollOut, TimeType
    <3>2. \A d \in Pods : runner'[d] \in {"open", "old", "closing", "closed"}
      BY <2>0, <2>21 DEF RollOut, RunnerType
    <3>3. RunnerType'
      BY <2>0, <2>21, <3>2 DEF RollOut, RunnerType
    <3>4. QED
      BY <2>0, <2>21, <3>1, <3>3 DEF RollOut,
         Types, PollType, OutboxType, QueueType, SnapshotType, PanelType
  <2>8. ASSUME NEW p \in Polls, route_event(p)
        PROVE  Types'
    <3>1. Done \in PollRecords /\ Done.at # "posting"
      BY Bounds DEF Done, PollRecords
    <3>2. PollType'
      BY <2>0, <2>8, <3>1 DEF route_event, PollType
    <3>3. [v |-> poll[p].v, age |-> 0] \in Copies
      BY <2>0, <2>8, Bounds DEF route_event, PollType, Copies
    <3>4. OutboxType'
      <4>1. outbox' = IF Len(outbox) < OutboxMax THEN Append(outbox, [v |-> poll[p].v, age |-> 0])
                      ELSE outbox
        BY <2>8 DEF route_event
      <4>2. Append(outbox, [v |-> poll[p].v, age |-> 0]) \in Seq(Copies)
            /\ Len(Append(outbox, [v |-> poll[p].v, age |-> 0])) = Len(outbox) + 1
        BY <2>0, <3>3 DEF OutboxType
      <4>3. outbox' \in Seq(Copies) /\ Len(outbox') <= OutboxMax
        BY <2>0, <4>1, <4>2, Bounds DEF OutboxType
      <4>4. QED
        BY <2>8, <3>3, <4>3 DEF route_event, OutboxType
    <3>5. RunnerType'
      BY <2>0, <2>8 DEF route_event, RunnerType, PollType, PollRecords
    <3>6. QED
      BY <2>0, <2>8, <3>2, <3>4, <3>5
         DEF route_event, Types, TimeType, QueueType, SnapshotType, PanelType
  <2>9. CASE Dispatch \/ AnswerLost
    <3>1. outbox # <<>> /\ Len(queue) < QueueMax /\ queue' = Append(queue, Head(outbox))
          /\ (outbox' = Tail(outbox) \/ outbox' = outbox)
      BY <2>9 DEF Dispatch, AnswerLost
    <3>2. Head(outbox) \in Copies \cup Times
      BY <2>0, <3>1 DEF OutboxType
    <3>3. queue' \in Seq(Copies \cup Times) /\ Len(queue') = Len(queue) + 1
      BY <2>0, <3>1, <3>2 DEF QueueType
    <3>4. QueueType'
      BY <2>0, <2>9, <3>1, <3>3, Bounds DEF Dispatch, AnswerLost, QueueType
    <3>5. OutboxType'
      <4>1. Tail(outbox) \in Seq(Copies) /\ Len(Tail(outbox)) <= Len(outbox)
        BY <2>0, <3>1 DEF OutboxType
      <4>2. Len(outbox) \in Nat /\ Len(Tail(outbox)) \in Nat
        BY <2>0, <4>1 DEF OutboxType
      <4>3. QED
        <5>1. known' = known
          BY <2>9 DEF Dispatch, AnswerLost
        <5>2. Len(Tail(outbox)) <= OutboxMax
          BY <2>0, <4>1, <4>2, Bounds DEF OutboxType
        <5>3. outbox' \in Seq(Copies) /\ Len(outbox') <= OutboxMax
          BY <2>0, <3>1, <4>1, <5>2 DEF OutboxType
        <5>4. QED
          BY <2>0, <5>1, <5>3 DEF OutboxType
    <3>6. TimeType'
      BY <2>0, <2>9, <2>f DEF Dispatch, AnswerLost, TimeType
    <3>7. QED
      BY <2>0, <2>9, <3>4, <3>5, <3>6
         DEF Dispatch, AnswerLost, Types, PollType, RunnerType, SnapshotType, PanelType
  <2>10. CASE PassedOver \/ Expires
    <3>1. OutboxType'
      <4>1. Tail(outbox) \in Seq(Copies) /\ Len(Tail(outbox)) <= Len(outbox)
        BY <2>0, <2>10 DEF PassedOver, Expires, OutboxType
      <4>2. Len(outbox) \in Nat /\ Len(Tail(outbox)) \in Nat
        BY <2>0, <4>1 DEF OutboxType
      <4>3. QED
        BY <2>0, <2>10, <4>1, <4>2, Bounds DEF PassedOver, Expires, OutboxType
    <3>2. TimeType'
      BY <2>0, <2>10, <2>f DEF PassedOver, Expires, TimeType
    <3>3. QED
      BY <2>0, <2>10, <3>1, <3>2
         DEF PassedOver, Expires, Types, PollType, RunnerType, QueueType, SnapshotType, PanelType
  <2>11. CASE AggregatorRestarts
    <3>1. TimeType'
      BY <2>0, <2>11, <2>f DEF AggregatorRestarts, TimeType
    <3>2. OutboxType'
      BY <2>11, Bounds DEF AggregatorRestarts, OutboxType
    <3>3. QED
      BY <2>0, <2>11, <3>1, <3>2
         DEF AggregatorRestarts, Types, PollType, RunnerType, QueueType, SnapshotType, PanelType
  <2>12. CASE Hello
    <3>1. QueueType'
      <4>1. <<Blank>> \in Seq(Copies \cup Times) /\ Len(<<Blank>>) = 1
        BY CopyOrBlank
      <4>2. QED
        BY <2>12, <4>1, Bounds DEF Hello, QueueType
    <3>2. SnapshotType'
      BY <2>12 DEF Hello, SnapshotType, Snapshots
    <3>3. QED
      BY <2>0, <2>12, <3>1, <3>2
         DEF Hello, Types, PollType, TimeType, RunnerType, OutboxType, PanelType
  <2>13. CASE GetAnswered
    <3>1. SnapshotType'
      BY <2>0, <2>13, CopyOrBlank DEF GetAnswered, SnapshotType, Snapshots, OutboxType
    <3>2. QED
      BY <2>0, <2>13, <3>1
         DEF GetAnswered, Types, PollType, TimeType, RunnerType, OutboxType, QueueType, PanelType
  <2>14. CASE GetFails
    <3>1. SnapshotType'
      BY <2>14 DEF GetFails, SnapshotType, Snapshots
    <3>2. TimeType'
      BY <2>0, <2>14, <2>f DEF GetFails, TimeType
    <3>3. QED
      BY <2>0, <2>14, <3>1, <3>2
         DEF GetFails, Types, PollType, RunnerType, OutboxType, QueueType, PanelType
  <2>15. CASE PutReplay
    <3>1. QueueType'
      <4>1. snapshot.copy \in Copies \cup Times
        BY <2>0, <2>15 DEF PutReplay, SnapshotType
      <4>2. Append(queue, snapshot.copy) \in Seq(Copies \cup Times)
            /\ Len(Append(queue, snapshot.copy)) = Len(queue) + 1
        BY <2>0, <4>1 DEF QueueType
      <4>3. QED
        BY <2>0, <2>15, <4>2, Bounds DEF PutReplay, replayed, QueueType
    <3>2. SnapshotType'
      BY <2>15 DEF PutReplay, SnapshotType, Snapshots
    <3>3. QED
      BY <2>0, <2>15, <3>1, <3>2
         DEF PutReplay, Types, PollType, TimeType, RunnerType, OutboxType, PanelType
  <2>16. CASE SessionEnds
    <3>1. SnapshotType'
      BY <2>16 DEF SessionEnds, SnapshotType, Snapshots
    <3>2. TimeType'
      BY <2>0, <2>16, <2>f DEF SessionEnds, TimeType
    <3>3. PanelType'
      <4>1. [ready |-> FALSE, lag |-> 0] \in [ready : BOOLEAN, lag : 0..Cap]
        BY Bounds
      <4>2. CASE UNCHANGED <<shown, clock>>
        BY <2>0, <4>2 DEF PanelType
      <4>3. CASE shown' = Blank /\ clock' = [ready |-> FALSE, lag |-> 0]
        BY <4>1, <4>3 DEF PanelType
      <4>4. QED
        BY <2>16, <4>2, <4>3 DEF SessionEnds
    <3>4. QED
      BY <2>0, <2>16, <3>1, <3>2, <3>3
         DEF SessionEnds, Types, PollType, RunnerType, OutboxType, QueueType
  <2>17. CASE receiveFrame \/ FrameLost
    <3>1. QueueType'
      <4>1. queue # <<>> /\ queue' = Tail(queue) /\ session' = session
        BY <2>17 DEF receiveFrame, FrameLost
      <4>2. Tail(queue) \in Seq(Copies \cup Times) /\ Len(Tail(queue)) <= Len(queue)
        BY <2>0, <4>1 DEF QueueType
      <4>3. Len(queue) \in Nat /\ Len(Tail(queue)) \in Nat
        BY <2>0, <4>2 DEF QueueType
      <4>4. QED
        BY <2>0, <4>1, <4>2, <4>3, Bounds DEF QueueType
    <3>2. PanelType'
      <4>1. CASE receiveFrame
        <5>1. Head(queue) \in Copies \cup Times
          BY <2>0, <4>1 DEF receiveFrame, QueueType
        <5>2. Head(queue).v # 0 => Head(queue) \in Copies
          BY <5>1, CopyOrBlank
        <5>3. Head(queue).age \in 0..Cap
          BY <5>1, CopyOrBlank
        <5>4. CASE Head(queue).v = 0
          <6>1. clock' = [ready |-> TRUE, lag |-> Head(queue).age] /\ shown' = shown
            BY <4>1, <5>4 DEF receiveFrame
          <6>2. clock' \in [ready : BOOLEAN, lag : 0..Cap]
            BY <5>3, <6>1
          <6>3. QED
            BY <2>0, <6>1, <6>2 DEF PanelType
        <5>5. CASE Head(queue).v # 0
          BY <2>0, <4>1, <5>2, <5>5 DEF receiveFrame, PanelType
        <5>6. QED
          BY <5>4, <5>5
      <4>2. CASE FrameLost
        BY <2>0, <4>2 DEF FrameLost, PanelType
      <4>3. QED
        BY <2>17, <4>1, <4>2
    <3>3. TimeType'
      BY <2>0, <2>17, <2>f DEF receiveFrame, FrameLost, TimeType
    <3>4. QED
      BY <2>0, <2>17, <3>1, <3>2, <3>3
         DEF receiveFrame, FrameLost, Types, PollType, RunnerType, OutboxType, SnapshotType
  <2>18. CASE UNCHANGED vars
    BY <2>0, <2>18 DEF vars, Types, PollType, TimeType, RunnerType, OutboxType, QueueType,
       SnapshotType, PanelType
  <2>19. QED
    BY <2>1, <2>2, <2>3, <2>4, <2>5, <2>6, <2>7, <2>8, <2>9, <2>10, <2>11, <2>12, <2>13, <2>14,
       <2>15, <2>16, <2>17, <2>18, <2>20, <2>21 DEF Next
<1>3. QED
  BY <1>1, <1>2, PTL DEF Spec

\* In particular the type invariant holds.
THEOREM DeliveryTypeCorrect == Spec => []TypeOK
<1>1. Types => TypeOK
  BY DEF Types, TypeOK, PollType, TimeType, RunnerType, OutboxType, QueueType, SnapshotType,
     PanelType, PollRecords, Snapshots
<1>2. QED
  BY <1>1, DeliveryTypes, PTL
-----------------------------------------------------------------------------
(* The runners: one poll at a time in each pod *)

\* A poll that runs is the one the runner of its pod knows of, and the pod has not closed.
OnePoll ==
  \A p \in Polls : Running(p) =>
    /\ poll[p].pod \in Pods
    /\ task[poll[p].pod] = p /\ runner[poll[p].pod] # "closed"

\* No poll of a pod runs when it has closed, whatever the requests and failures.
THEOREM CloseWaitsForPoll == Spec => [](OnePoll /\ CloseWaits)
<1>1. Init => OnePoll
  BY DEF Init, OnePoll, Running, Done
<1>2. Types /\ OnePoll /\ [Next]_vars => OnePoll'
  <2> SUFFICES ASSUME Types, OnePoll, [Next]_vars PROVE OnePoll'
    OBVIOUS
  <2> USE DEF poller
  <2>0. /\ poll \in [Polls -> PollRecords] /\ None \notin Polls
        /\ task \in [Pods -> Polls \cup {None}]
        /\ runner \in [Pods -> {"open", "old", "closing", "closed"}]
    BY DeliveryAssumption DEF Types, PollType, RunnerType, DeliveryAssumption
  <2>1. ASSUME NEW d \in Pods, request(d)
        PROVE  OnePoll'
    <3> DEFINE new == [at |-> "reading", pod |-> d, v |-> 0, age |-> 0]
    <3>1. PICK p \in Polls : task' = [task EXCEPT ![d] = p] /\ poll' = [poll EXCEPT ![p] = new]
      BY <2>1 DEF request
    <3>2. Open(d) /\ Idle(d) /\ runner' = runner
      BY <2>1 DEF request
    <3>3. SUFFICES ASSUME NEW q \in Polls, Running(q)'
                   PROVE  /\ poll'[q].pod \in Pods
                          /\ task'[poll'[q].pod] = q /\ runner'[poll'[q].pod] # "closed"
      BY DEF OnePoll
    <3>4. CASE q = p
      <4>1. poll'[q].pod = d
        BY <2>0, <3>1, <3>4
      <4>2. QED
        BY <2>0, <3>1, <3>2, <3>4, <4>1 DEF Open
    <3>5. CASE q # p
      <4>1. poll'[q] = poll[q] /\ Running(q)
        BY <2>0, <3>1, <3>3, <3>5 DEF Running
      <4>2. poll[q].pod \in Pods /\ task[poll[q].pod] = q /\ runner[poll[q].pod] # "closed"
        BY <4>1 DEF OnePoll
      <4>3. poll[q].pod # d
        BY <2>0, <3>2, <4>1, <4>2 DEF Idle
      <4>4. QED
        BY <2>0, <3>1, <3>2, <4>1, <4>2, <4>3
    <3>6. QED
      BY <3>4, <3>5
  <2>2. ASSUME NEW d \in Pods, CloseReturns(d)
        PROVE  OnePoll'
    <3>1. SUFFICES ASSUME NEW q \in Polls, Running(q)
                   PROVE  /\ poll[q].pod \in Pods
                          /\ task'[poll[q].pod] = q /\ runner'[poll[q].pod] # "closed"
      BY <2>2 DEF CloseReturns, OnePoll, Running
    <3>2. poll[q].pod \in Pods /\ task[poll[q].pod] = q /\ runner[poll[q].pod] # "closed"
      BY <3>1 DEF OnePoll
    <3>3. poll[q].pod # d
      BY <2>0, <2>2, <3>1, <3>2 DEF CloseReturns, Idle
    <3>4. QED
      BY <2>0, <2>2, <3>2, <3>3 DEF CloseReturns
  <2>3. ASSUME NEW p \in Polls, Read(p) \/ PollFails(p) \/ route_event(p)
        PROVE  OnePoll'
    <3>1. UNCHANGED <<task, runner>> /\ Running(p) /\ poll[p] \in PollRecords
      BY <2>0, <2>3 DEF Read, PollFails, route_event, Running
    <3>2. \A q \in Polls : q # p => poll'[q] = poll[q]
      BY <2>0, <2>3 DEF Read, PollFails, route_event
    <3>3. Running(p)' => poll'[p].pod = poll[p].pod
      BY <2>0, <2>3, <3>1 DEF Read, PollFails, route_event, Running, Done, PollRecords
    <3>4. \A q \in Polls : Running(q)' => Running(q) /\ poll'[q].pod = poll[q].pod
      BY <3>1, <3>2, <3>3 DEF Running
    <3>5. QED
      BY <3>1, <3>4 DEF OnePoll
  <2>4. CASE Tick
    <3>1. \A q \in Polls : poll'[q].at = poll[q].at /\ poll'[q].pod = poll[q].pod
      BY <2>0, <2>4 DEF Tick, Aged, PollRecords
    <3>2. QED
      BY <2>4, <3>1 DEF Tick, OnePoll, Running
  <2>5. ASSUME UNCHANGED <<poll, task>>,
               \A d \in Pods : runner[d] # "closed" => runner'[d] # "closed"
        PROVE  OnePoll'
    BY <2>5 DEF OnePoll, Running
  <2>6. ASSUME NEW d \in Pods, CloseBegins(d)
        PROVE  OnePoll'
    BY <2>0, <2>5, <2>6 DEF CloseBegins
  <2>7. CASE Start
    BY <2>0, <2>5, <2>7 DEF Start
  <2>8. CASE RollOut
    BY <2>0, <2>5, <2>8 DEF RollOut
  <2>9. CASE UNCHANGED poller
    BY <2>9 DEF OnePoll, Running
  <2>10. QED
    BY <2>1, <2>2, <2>3, <2>4, <2>6, <2>7, <2>8, <2>9 DEF Next, Measure, Dispatch, AnswerLost,
       PassedOver, Expires, AggregatorRestarts, Hello, GetAnswered, GetFails, PutReplay, SessionEnds,
       receiveFrame, FrameLost, vars
<1>3. OnePoll => CloseWaits
  BY DEF OnePoll, CloseWaits
<1>4. QED
  BY <1>1, <1>2, <1>3, DeliveryTypes, PTL DEF Spec

\* What is on its way from a poll of the pod that posted last is no older than what
\* the aggregator knows, and neither is ahead of the sensor.
Ordered ==
  /\ known.v <= latest
  /\ \A p \in Polls : poll[p].at = "posting" =>
       poll[p].v <= latest /\ (poll[p].pod = writer => known.v <= poll[p].v)

\* The last-known state goes back only from the reading of one pod to that of another.
THEOREM AggregatorKeepsOrder == Spec => AggregatorInOrder
<1>1. Init => Ordered
  BY Bounds DEF Init, Ordered, Done, Blank
<1>2. Types /\ OnePoll /\ Ordered /\ [Next]_vars => Ordered'
  <2> SUFFICES ASSUME Types, OnePoll, Ordered, [Next]_vars PROVE Ordered'
    OBVIOUS
  <2> USE DEF poller, state
  <2>0. poll \in [Polls -> PollRecords] /\ latest \in Nat /\ known.v \in Nat
        /\ \A p \in Polls : poll[p].v \in Nat
    BY Bounds DEF Types, PollType, PollRecords, TimeType, OutboxType, Copies, Blank, Reports
  <2>1. CASE Measure
    BY <2>0, <2>1 DEF Measure, Ordered
  <2>2. CASE Tick
    <3>1. known'.v = known.v /\ latest' = latest /\ writer' = writer
      BY <2>2 DEF Tick, Aged, Types, OutboxType, Copies, Blank
    <3>2. \A p \in Polls : poll'[p].at = poll[p].at /\ poll'[p].v = poll[p].v
                           /\ poll'[p].pod = poll[p].pod
      BY <2>0, <2>2 DEF Tick, Aged, PollRecords
    <3>3. QED
      BY <3>1, <3>2 DEF Ordered
  <2>3. ASSUME NEW d \in Pods, request(d)
        PROVE  Ordered'
    BY <2>0, <2>3 DEF request, Ordered
  <2>4. ASSUME NEW p \in Polls, Read(p)
        PROVE  Ordered'
    <3>1. poll'[p].v = latest /\ \A q \in Polls : q # p => poll'[q] = poll[q]
      BY <2>0, <2>4 DEF Read
    <3>2. QED
      BY <2>0, <2>4, <3>1 DEF Read, Ordered
  <2>5. ASSUME NEW p \in Polls, PollFails(p)
        PROVE  Ordered'
    BY <2>0, <2>5 DEF PollFails, Ordered, Done
  <2>6. ASSUME NEW p \in Polls, route_event(p)
        PROVE  Ordered'
    <3>1. known'.v = poll[p].v /\ writer' = poll[p].pod /\ known'.v <= latest /\ latest' = latest
      BY <2>6 DEF route_event, Ordered
    <3>2. poll' = [poll EXCEPT ![p] = Done] /\ Running(p)
      BY <2>6 DEF route_event, Running
    <3>3. SUFFICES ASSUME NEW q \in Polls, poll'[q].at = "posting"
                   PROVE  poll'[q].v <= latest /\ poll'[q].pod # writer'
      BY <3>1 DEF Ordered
    <3>4. q # p /\ poll'[q] = poll[q]
      BY <2>0, <3>2, <3>3 DEF Done
    <3>5. poll[q].pod # poll[p].pod
      BY <3>2, <3>3, <3>4 DEF OnePoll, Running
    <3>6. QED
      BY <3>1, <3>3, <3>4, <3>5 DEF Ordered
  <2>7. CASE AggregatorRestarts
    BY <2>0, <2>7 DEF AggregatorRestarts, Ordered, Blank
  <2>8. CASE UNCHANGED <<latest, poll, known, writer>>
    BY <2>8 DEF Ordered
  <2>9. QED
    BY <2>1, <2>2, <2>3, <2>4, <2>5, <2>6, <2>7, <2>8 DEF Next, Start, RollOut, CloseBegins,
       CloseReturns, Dispatch, AnswerLost, PassedOver, Expires, Hello, GetAnswered, GetFails,
       PutReplay, SessionEnds, receiveFrame, FrameLost, vars
<1>3. Types /\ Ordered /\ [Next]_vars => ((known'.v # 0 /\ known'.v < known.v) => writer' # writer)
  <2> SUFFICES ASSUME Types, Ordered, [Next]_vars, known'.v # 0, writer' = writer
               PROVE  ~(known'.v < known.v)
    OBVIOUS
  <2> USE DEF state
  <2>0. known.v \in Nat /\ \A p \in Polls : poll[p].v \in Nat
    BY Bounds DEF Types, PollType, PollRecords, OutboxType, Copies, Blank, Reports
  <2>1. ASSUME NEW p \in Polls, route_event(p)
        PROVE  ~(known'.v < known.v)
    BY <2>0, <2>1 DEF route_event, Ordered
  <2>2. CASE Tick
    <3>1. known'.v = known.v
      BY <2>2 DEF Tick, Aged, Types, OutboxType, Copies, Blank
    <3>2. QED
      BY <2>0, <3>1
  <2>3. CASE AggregatorRestarts
    BY <2>3 DEF AggregatorRestarts, Blank
  <2>4. CASE known' = known
    BY <2>0, <2>4
  <2>5. QED
    BY <2>1, <2>2, <2>3, <2>4 DEF Next, Measure, Start, RollOut, request, Read, PollFails, CloseBegins,
       CloseReturns, Dispatch, AnswerLost, PassedOver, Expires, Hello, GetAnswered, GetFails, PutReplay,
       SessionEnds, receiveFrame, FrameLost, vars
<1>4. QED
  BY <1>1, <1>2, <1>3, DeliveryTypes, CloseWaitsForPoll, PTL DEF Spec, AggregatorInOrder
-----------------------------------------------------------------------------
(* Replaced readings *)

\* A copy is not ahead of the sensor, and when its measurement has been replaced
\* that was at most a poll before its stamp.
Stamped(c, l, m) == c.v # 0 => c.v <= l /\ (c.v < l => m[c.v + 1] <= c.age + PollMax)
StampedCopies(l, m) == {c \in Copies \cup Times : Stamped(c, l, m)}

Replaced ==
  /\ \A p \in Polls : poll[p].at = "posting" =>
       /\ poll[p].v <= latest /\ poll[p].age <= PollMax
       /\ poll[p].v < latest => measured[poll[p].v + 1] <= poll[p].age
  /\ known \in StampedCopies(latest, measured)
  /\ outbox \in Seq(StampedCopies(latest, measured))
  /\ queue \in Seq(StampedCopies(latest, measured))
  /\ snapshot.copy \in StampedCopies(latest, measured)
  /\ snapshot.at # "answered" => snapshot.copy = Blank
  /\ shown \in StampedCopies(latest, measured)

\* There is a measurement after one that is not the last.
LEMMA NextReport ==
  ASSUME NEW v \in Nat, NEW l \in Reports, v < l
  PROVE  v + 1 \in Reports
<1>1. MaxReports \in Nat /\ l \in 1..MaxReports
  BY Bounds DEF Reports
<1>2. v + 1 \in 1..MaxReports
  BY <1>1
<1>3. QED
  BY <1>2 DEF Reports

\* A new measurement, made now, leaves every copy with a good stamp.
LEMMA MeasuredStamps ==
  ASSUME NEW l \in Reports, l + 1 \in Reports, NEW m \in [Reports -> 0..Cap]
  PROVE  StampedCopies(l, m) \subseteq StampedCopies(l + 1, [m EXCEPT ![l + 1] = 0])
<1>1. SUFFICES ASSUME NEW c \in Copies \cup Times, Stamped(c, l, m), c.v # 0
      PROVE  Stamped(c, l + 1, [m EXCEPT ![l + 1] = 0])
  BY DEF StampedCopies, Stamped
<1>2. c.v \in Nat /\ c.age \in Nat /\ l \in Nat /\ c.v <= l /\ PollMax \in Nat
  BY <1>1, Bounds DEF Stamped, Copies, Times, Reports
<1>3. CASE c.v = l
  <2>1. [m EXCEPT ![l + 1] = 0][c.v + 1] = 0
    BY <1>3
  <2>2. QED
    BY <1>2, <2>1 DEF Stamped
<1>4. CASE c.v < l
  <2>1. c.v + 1 \in Reports /\ c.v + 1 # l + 1
    BY <1>2, <1>4, NextReport
  <2>2. [m EXCEPT ![l + 1] = 0][c.v + 1] = m[c.v + 1]
    BY <2>1
  <2>3. QED
    BY <1>1, <1>2, <1>4, <2>2 DEF Stamped
<1>5. QED
  BY <1>2, <1>3, <1>4

\* Time passing ages stamps and measurements alike, up to the bound.
LEMMA AgedStamps ==
  ASSUME NEW l \in Reports, NEW m \in [Reports -> 0..Cap], NEW c \in StampedCopies(l, m)
  PROVE  Aged(c) \in StampedCopies(l, [r \in Reports |-> Older(m[r])])
<1>1. c \in Copies \cup Times /\ Stamped(c, l, m)
  BY DEF StampedCopies
<1>2. Aged(c) \in Copies \cup Times /\ Aged(c).v = c.v /\ Aged(c).age = Older(c.age) /\ c.age \in 0..Cap
  BY <1>1, AgedType DEF Aged, Copies, Times
<1>3. SUFFICES ASSUME c.v # 0 PROVE Stamped(Aged(c), l, [r \in Reports |-> Older(m[r])])
  BY <1>2 DEF StampedCopies, Stamped
<1>4. c.v \in Nat /\ l \in Nat /\ c.v <= l /\ PollMax \in Nat /\ Cap \in Nat
  BY <1>1, <1>3, Bounds DEF Stamped, Copies, Times, Reports
<1>5. CASE c.v = l
  BY <1>2, <1>4, <1>5 DEF Stamped
<1>6. CASE c.v < l
  <2>1. c.v + 1 \in Reports
    BY <1>4, <1>6, NextReport
  <2>2. m[c.v + 1] <= c.age + PollMax /\ m[c.v + 1] \in 0..Cap
    BY <1>1, <1>3, <1>6, <2>1 DEF Stamped
  <2>3. Older(m[c.v + 1]) <= Older(c.age) + PollMax
    BY <1>2, <1>4, <2>2 DEF Older
  <2>4. [r \in Reports |-> Older(m[r])][c.v + 1] = Older(m[c.v + 1])
    BY <2>1
  <2>5. QED
    BY <1>2, <1>4, <2>3, <2>4 DEF Stamped
<1>7. QED
  BY <1>4, <1>5, <1>6

\* A sequence of copies with good stamps keeps them when the set of those grows.
LEMMA SeqGrows ==
  ASSUME NEW S, NEW T, S \subseteq T, NEW q \in Seq(S)
  PROVE  q \in Seq(T)
OBVIOUS

\* A copy without a measurement needs no stamp.
LEMMA BlankStamp ==
  ASSUME NEW l, NEW m
  PROVE  Blank \in StampedCopies(l, m)
BY CopyOrBlank DEF StampedCopies, Stamped, Blank

\* A reading called live was the sensor's last within the limit and the slack.
THEOREM LiveReadingWasCurrent == Spec => [](Replaced /\ LiveWasCurrent)
<1>1. Init => Replaced
  <2> SUFFICES ASSUME Init PROVE Replaced
    OBVIOUS
  <2>1. \A p \in Polls : poll[p].at # "posting"
    BY DEF Init, Done
  <2>2. <<>> \in Seq(StampedCopies(latest, measured))
    OBVIOUS
  <2>3. QED
    BY <2>1, <2>2, BlankStamp DEF Init, Replaced
<1>2. Types /\ Replaced /\ [Next]_vars => Replaced'
  <2> SUFFICES ASSUME Types, Replaced, [Next]_vars PROVE Replaced'
    OBVIOUS
  <2> USE DEF poller, state, adapter, panel
  <2>0. /\ poll \in [Polls -> PollRecords] /\ latest \in Reports /\ latest \in Nat
        /\ measured \in [Reports -> 0..Cap] /\ known \in Copies \cup {Blank}
        /\ \A p \in Polls : poll[p].v \in Nat /\ poll[p].age \in 0..Cap
    BY Bounds DEF Types, PollType, TimeType, OutboxType, PollRecords, Reports
  <2> DEFINE S == StampedCopies(latest, measured)
  <2>b. snapshot.at # "answered" => snapshot.copy = Blank
    BY DEF Replaced
  <2>s. known \in S /\ outbox \in Seq(S) /\ queue \in Seq(S) /\ snapshot.copy \in S /\ shown \in S
    BY DEF Replaced
  <2>u. Blank \in S
    BY BlankStamp
  \* The steps that leave the measurements alone.
  <2>k. ASSUME UNCHANGED <<latest, measured>>,
               known' \in S, outbox' \in Seq(S), queue' \in Seq(S), snapshot'.copy \in S, shown' \in S,
               snapshot'.at # "answered" => snapshot'.copy = Blank,
               \A p \in Polls : poll'[p] = poll[p] \/ poll'[p].at # "posting"
                                \/ (poll'[p].v = latest /\ poll'[p].age = 0)
        PROVE  Replaced'
    <3>1. ASSUME NEW p \in Polls, poll'[p].at = "posting"
          PROVE  /\ poll'[p].v <= latest /\ poll'[p].age <= PollMax
                 /\ poll'[p].v < latest => measured[poll'[p].v + 1] <= poll'[p].age
      <4>1. CASE poll'[p] = poll[p]
        BY <3>1, <4>1 DEF Replaced
      <4>2. CASE poll'[p].v = latest /\ poll'[p].age = 0
        BY <4>2, <2>0, Bounds
      <4>3. QED
        BY <2>k, <3>1, <4>1, <4>2
    <3>2. QED
      BY <2>k, <3>1 DEF Replaced
  <2>1. CASE Measure
    <3>1. latest + 1 \in Reports /\ latest' = latest + 1
          /\ measured' = [measured EXCEPT ![latest + 1] = 0]
      BY <2>0, <2>1, Bounds DEF Measure, Reports
    <3>2. S \subseteq StampedCopies(latest', measured')
      BY <2>0, <3>1, MeasuredStamps
    <3>3. /\ known \in StampedCopies(latest', measured')
          /\ outbox \in Seq(StampedCopies(latest', measured'))
          /\ queue \in Seq(StampedCopies(latest', measured'))
          /\ snapshot.copy \in StampedCopies(latest', measured')
          /\ shown \in StampedCopies(latest', measured')
      BY <2>s, <3>2, SeqGrows
    <3>4. ASSUME NEW p \in Polls, poll[p].at = "posting"
          PROVE  /\ poll[p].v <= latest' /\ poll[p].age <= PollMax
                 /\ poll[p].v < latest' => measured'[poll[p].v + 1] <= poll[p].age
      <4>1. poll[p].v <= latest /\ poll[p].age <= PollMax
            /\ (poll[p].v < latest => measured[poll[p].v + 1] <= poll[p].age)
        BY <3>4 DEF Replaced
      <4>2. CASE poll[p].v = latest
        <5>1. measured'[poll[p].v + 1] = 0
          BY <3>1, <4>2, <2>0
        <5>2. QED
          BY <2>0, <3>1, <4>1, <5>1
      <4>3. CASE poll[p].v < latest
        <5>1. poll[p].v + 1 # latest + 1 /\ poll[p].v + 1 \in Reports
          BY <2>0, <4>3, NextReport
        <5>2. measured'[poll[p].v + 1] = measured[poll[p].v + 1]
          BY <3>1, <5>1, <2>0
        <5>3. QED
          BY <2>0, <3>1, <4>1, <4>3, <5>2
      <4>4. QED
        BY <2>0, <4>1, <4>2, <4>3
    <3>5. UNCHANGED <<poll, known, outbox, queue, snapshot, shown>>
      BY <2>1 DEF Measure
    <3>6. QED
      BY <3>3, <3>4, <3>5 DEF Replaced
  <2>2. CASE Tick
    <3>1. latest' = latest /\ measured' = [r \in Reports |-> Older(measured[r])]
      BY <2>2 DEF Tick
    <3> DEFINE N == StampedCopies(latest, [r \in Reports |-> Older(measured[r])])
    <3>2. N = StampedCopies(latest', measured')
      BY <3>1
    <3>3. \A c \in S : Aged(c) \in N
      BY <2>0, AgedStamps
    <3>4. Blank \in N
      BY BlankStamp
    <3> HIDE DEF N, S
    <3>5. known' \in N
      BY <2>2, <2>s, <3>3, <3>4 DEF Tick
    <3>6. outbox' \in Seq(N)
      BY <2>2, <2>s, <3>3, AgedSeq DEF Tick
    <3>7. queue' \in Seq(N)
      BY <2>2, <2>s, <3>3, AgedSeq DEF Tick
    <3>8. snapshot'.copy \in N
      <4>1. CASE snapshot.at = "answered"
        <5>1. snapshot' = [snapshot EXCEPT !.copy = Aged(snapshot.copy)]
          BY <2>2, <4>1 DEF Tick
        <5>2. snapshot'.copy = Aged(snapshot.copy)
          BY <5>1 DEF Types, SnapshotType, Snapshots
        <5>3. QED
          BY <5>2, <2>s, <3>3
      <4>2. CASE snapshot.at # "answered"
        <5>1. snapshot' = snapshot
          BY <2>2, <4>2 DEF Tick
        <5>2. QED
          BY <5>1, <4>2, <3>4 DEF Replaced
      <4>3. QED
        BY <4>1, <4>2
    <3>a. snapshot'.at # "answered" => snapshot'.copy = Blank
      BY <2>2 DEF Tick, Replaced, Types, SnapshotType, Snapshots
    <3>9. shown' \in N
      BY <2>2, <2>s, <3>3, <3>4 DEF Tick
    <3>10. ASSUME NEW p \in Polls, poll'[p].at = "posting"
           PROVE  /\ poll'[p].v <= latest' /\ poll'[p].age <= PollMax
                  /\ poll'[p].v < latest' => measured'[poll'[p].v + 1] <= poll'[p].age
      <4>1. poll'[p] = IF poll[p].at = "posting" THEN Aged(poll[p]) ELSE poll[p]
        BY <2>2 DEF Tick
      <4>2. poll[p].at = "posting"
        BY <4>1, <3>10
      <4>3. poll[p].v <= latest /\ poll[p].age < PollMax
            /\ (poll[p].v < latest => measured[poll[p].v + 1] <= poll[p].age)
        BY <2>2, <4>2 DEF Tick, Replaced
      <4>4. poll'[p].v = poll[p].v /\ poll'[p].age = Older(poll[p].age)
        BY <2>0, <4>1, <4>2 DEF Aged, PollRecords
      <4>5. poll'[p].age = poll[p].age + 1
        BY <2>0, <4>3, <4>4, Bounds DEF Older
      <4>6. ASSUME poll[p].v < latest
            PROVE  measured'[poll[p].v + 1] <= poll[p].age + 1
        <5>1. poll[p].v + 1 \in Reports
          BY <2>0, <4>6, NextReport
        <5>2. measured'[poll[p].v + 1] = Older(measured[poll[p].v + 1])
          BY <3>1, <5>1
        <5>3. measured[poll[p].v + 1] \in 0..Cap /\ measured[poll[p].v + 1] <= poll[p].age
          BY <2>0, <4>3, <4>6, <5>1
        <5>4. QED
          BY <2>0, <5>2, <5>3, Bounds DEF Older
      <4>7. QED
        BY <2>0, <3>1, <4>3, <4>4, <4>5, <4>6, Bounds
    <3>11. QED
      BY <3>2, <3>5, <3>6, <3>7, <3>8, <3>a, <3>9, <3>10 DEF Replaced
  <2> HIDE DEF S
  <2>3. ASSUME NEW d \in Pods, request(d)
        PROVE  Replaced'
    <3>1. \A p \in Polls : poll'[p] = poll[p] \/ poll'[p].at # "posting"
      BY <2>0, <2>3 DEF request
    <3>2. QED
      BY <2>3, <2>s, <2>b, <2>k, <3>1 DEF request
  <2>4. ASSUME NEW p \in Polls, Read(p)
        PROVE  Replaced'
    <3>1. \A q \in Polls : poll'[q] = poll[q] \/ (poll'[q].v = latest /\ poll'[q].age = 0)
      BY <2>0, <2>4 DEF Read
    <3>2. QED
      BY <2>4, <2>s, <2>b, <2>k, <3>1 DEF Read
  <2>5. ASSUME NEW p \in Polls, PollFails(p)
        PROVE  Replaced'
    <3>1. \A q \in Polls : poll'[q] = poll[q] \/ poll'[q].at # "posting"
      BY <2>0, <2>5 DEF PollFails, Done
    <3>2. QED
      BY <2>5, <2>s, <2>b, <2>k, <3>1 DEF PollFails
  <2>6. ASSUME NEW p \in Polls, route_event(p)
        PROVE  Replaced'
    <3>1. \A q \in Polls : poll'[q] = poll[q] \/ poll'[q].at # "posting"
      BY <2>0, <2>6 DEF route_event, Done
    <3>2. PICK s \in Copies : s = [v |-> poll[p].v, age |-> 0]
      <4>1. poll[p].v \in Reports
        BY <2>6 DEF route_event, Types, PollType
      <4>2. [v |-> poll[p].v, age |-> 0] \in Copies
        BY <4>1, Bounds DEF Copies
      <4>3. QED
        BY <4>2
    <3>3. s \in S
      <4>1. poll[p].v <= latest
            /\ (poll[p].v < latest => measured[poll[p].v + 1] <= poll[p].age /\ poll[p].age <= PollMax)
        BY <2>6 DEF route_event, Replaced
      <4>2. poll[p].v < latest => measured[poll[p].v + 1] <= 0 + PollMax
        <5>1. SUFFICES ASSUME poll[p].v < latest PROVE measured[poll[p].v + 1] <= 0 + PollMax
          OBVIOUS
        <5>2. poll[p].v + 1 \in Reports
          BY <2>0, <5>1, NextReport
        <5>3. measured[poll[p].v + 1] \in Nat
          BY <2>0, <5>2, Bounds
        <5>4. QED
          BY <2>0, <4>1, <5>1, <5>3, Bounds
      <4>3. Stamped(s, latest, measured)
        BY <3>2, <4>1, <4>2 DEF Stamped
      <4>4. QED
        BY <4>3 DEF S, StampedCopies
    <3>4. outbox' \in Seq(S)
      <4>1. Append(outbox, s) \in Seq(S)
        BY <2>s, <3>3
      <4>2. QED
        BY <2>6, <2>s, <3>2, <4>1 DEF route_event
    <3>5. known' = s
      BY <2>6, <3>2 DEF route_event
    <3>6. QED
      BY <2>6, <2>s, <2>b, <2>k, <3>1, <3>3, <3>4, <3>5 DEF route_event
  <2>7. CASE Dispatch \/ AnswerLost
    <3>1. outbox # <<>> /\ queue' = Append(queue, Head(outbox))
          /\ (outbox' = Tail(outbox) \/ outbox' = outbox)
      BY <2>7 DEF Dispatch, AnswerLost
    <3>2. Head(outbox) \in S /\ Tail(outbox) \in Seq(S)
      BY <2>s, <3>1
    <3>3. queue' \in Seq(S) /\ outbox' \in Seq(S)
      <4>1. \A h \in S : Append(queue, h) \in Seq(S)
        BY <2>s
      <4>2. queue' \in Seq(S)
        BY <3>1, <3>2, <4>1
      <4>3. outbox' \in Seq(S)
        BY <2>s, <3>1, <3>2
      <4>4. QED
        BY <4>2, <4>3
    <3>4. UNCHANGED <<latest, measured, poll, known, snapshot, shown>>
      BY <2>7 DEF Dispatch, AnswerLost
    <3>5. QED
      BY <2>s, <2>b, <2>k, <3>3, <3>4
  <2>8. CASE PassedOver \/ Expires
    <3>1. outbox # <<>> /\ outbox' = Tail(outbox)
          /\ UNCHANGED <<latest, measured, poll, known, queue, snapshot, shown>>
      BY <2>8 DEF PassedOver, Expires
    <3>2. outbox' \in Seq(S)
      BY <2>s, <3>1
    <3>3. QED
      BY <2>s, <2>b, <2>k, <3>1, <3>2
  <2>9. CASE AggregatorRestarts
    <3>1. outbox' \in Seq(S)
      BY <2>9 DEF AggregatorRestarts
    <3>2. QED
      BY <2>9, <2>s, <2>b, <2>u, <2>k, <3>1 DEF AggregatorRestarts
  <2>10. CASE Hello
    <3>1. queue' \in Seq(S)
      <4>1. <<Blank>> \in Seq(S)
        BY <2>u
      <4>2. QED
        BY <2>10, <4>1 DEF Hello
    <3>2. QED
      BY <2>10, <2>s, <2>u, <2>k, <3>1 DEF Hello
  <2>11. CASE GetAnswered
    <3>1. snapshot'.copy = known /\ (snapshot'.at # "answered" => known.v = 0)
      BY <2>11 DEF GetAnswered
    <3>2. snapshot'.at # "answered" => snapshot'.copy = Blank
      BY <2>0, <3>1, CopyOrBlank
    <3>3. QED
      BY <2>11, <2>s, <2>k, <3>1, <3>2 DEF GetAnswered
  <2>12. CASE GetFails
    BY <2>12, <2>s, <2>u, <2>k DEF GetFails
  <2>13. CASE PutReplay
    <3>1. queue' \in Seq(S)
      <4>1. Append(queue, snapshot.copy) \in Seq(S)
        BY <2>s
      <4>2. QED
        BY <2>13, <4>1 DEF PutReplay, replayed
    <3>2. QED
      BY <2>13, <2>s, <2>u, <2>k, <3>1 DEF PutReplay
  <2>14. CASE SessionEnds
    <3>1. shown' \in S
      BY <2>14, <2>s, <2>u DEF SessionEnds
    <3>2. QED
      BY <2>14, <2>s, <2>u, <2>k, <3>1 DEF SessionEnds
  <2>15. CASE receiveFrame \/ FrameLost
    <3>1. queue # <<>> /\ queue' = Tail(queue) /\ (shown' = Head(queue) \/ shown' = shown)
          /\ UNCHANGED <<latest, measured, poll, known, outbox, snapshot>>
      BY <2>15 DEF receiveFrame, FrameLost
    <3>2. Tail(queue) \in Seq(S) /\ Head(queue) \in S
      BY <2>s, <3>1
    <3>3. QED
      BY <2>s, <2>b, <2>k, <3>1, <3>2
  <2>16. CASE UNCHANGED <<latest, measured, poll, known, outbox, queue, snapshot, shown>>
    BY <2>16, <2>s, <2>b, <2>k
  <2>17. QED
    BY <2>1, <2>2, <2>3, <2>4, <2>5, <2>6, <2>7, <2>8, <2>9, <2>10, <2>11, <2>12, <2>13, <2>14,
       <2>15, <2>16 DEF Next, Start, RollOut, CloseBegins, CloseReturns, vars
<1>3. Types /\ Replaced => LiveWasCurrent
  <2> SUFFICES ASSUME Types, Replaced, fresh, shown.v < latest
      PROVE  measured[shown.v + 1] < Limit + clock.lag + PollMax
    BY DEF LiveWasCurrent
  <2>1. measured[shown.v + 1] <= shown.age + PollMax /\ shown.v \in Nat /\ shown.age \in Nat
        /\ clock.lag \in Nat /\ latest \in Nat
    <3>1. shown.v # 0 /\ shown \in StampedCopies(latest, measured) /\ shown \in Copies
      BY CopyOrBlank DEF fresh, Replaced, Types, PanelType
    <3>2. measured[shown.v + 1] <= shown.age + PollMax
      BY <3>1 DEF StampedCopies, Stamped
    <3>3. shown.v \in Nat /\ shown.age \in Nat
      BY <3>1, Bounds DEF Copies, Reports
    <3>4. clock.lag \in Nat /\ latest \in Nat
      BY Bounds DEF Types, PanelType, TimeType, Reports
    <3> QED
      BY <3>2, <3>3, <3>4
  <2>2. shown.v + 1 \in Reports
    BY <2>1, NextReport DEF Types, TimeType
  <2>3. measured[shown.v + 1] \in Nat
    <3>1. measured[shown.v + 1] \in 0..Cap /\ Cap \in Nat
      BY <2>2, Bounds DEF Types, TimeType
    <3>2. QED
      BY <3>1
  <2>4. clock.lag <= shown.age /\ shown.age - clock.lag < Limit
    BY DEF fresh
  <2>5. QED
    BY <2>1, <2>3, <2>4, Bounds
<1>4. QED
  BY <1>1, <1>2, <1>3, DeliveryTypes, PTL DEF Spec
=============================================================================
