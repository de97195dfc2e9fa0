------------------------- MODULE PanelSessionProofs -------------------------
(***************************************************************************)
(* Theorems about PanelSession, for every number of connections, every     *)
(* queue size and every batch and snapshot length: who owns the panel and  *)
(* acts for it, that what it is sent is fresh and in order, that a panel   *)
(* that missed an update has a replay ahead of it, and that PanelSession   *)
(* implements PanelLink.                                                   *)
(***************************************************************************)
EXTENDS PanelSession, SequenceTheorems, TLAPS

\* The frames put at once by a burst or a batch are frames.
LEMMA BurstType ==
  ASSUME NEW q \in Seq(Frames), NEW p \in Nat, NEW n \in Nat
  PROVE  q \o [i \in 1..n |-> p + i] \in Seq(Frames)
<1>1. [i \in 1..n |-> p + i] \in Seq(Frames)
  <2>1. \A i \in 1..n : p + i \in Frames
    BY DEF Frames
  <2>2. QED
    BY <2>1
<1>2. QED
  BY <1>1

\* What a discard leaves of the queue.
LEMMA DiscardType ==
  ASSUME TypeOK, NEW fresh \in Seq(Frames), discard_stale_commands(fresh)
  PROVE  /\ normal_queue' \in Seq(Frames) /\ pending_normal' \in Nat
         /\ normal_generation' \in Nat /\ getter' \in [Sessions -> GetterState]
         /\ floor' \in Nat /\ put' \in Nat
<1> USE DEF TypeOK, discard_stale_commands
<1>1. normal_queue' \in Seq(Frames) /\ pending_normal' \in Nat
  BY DEF None
<1>2. normal_generation' \in Nat /\ floor' \in Nat /\ put' \in Nat
  <2>1. Len(fresh) \in Nat
    OBVIOUS
  <2>2. QED
    BY <2>1
<1>3. getter' \in [Sessions -> GetterState]
  BY DEF GetterState
<1>4. QED
  BY <1>1, <1>2, <1>3

\* A refused batch leaves a Boolean in the back-pressure event.
LEMMA RefuseType ==
  ASSUME TypeOK, refuse_batch
  PROVE  overloaded' \in BOOLEAN
BY Zenon DEF TypeOK, refuse_batch

\* Every behaviour keeps the variables within their types.
THEOREM TypeCorrect == Spec => []TypeOK
<1> USE BoundsAssumption DEF BoundsAssumption, Sessions, Owner, None
<1>1. Init => TypeOK
  <2> SUFFICES ASSUME Init PROVE TypeOK
    OBVIOUS
  <2>1. /\ normal_queue \in Seq(Frames) /\ pending_normal \in Nat
        /\ normal_generation \in Nat /\ interrupts \in Nat
        /\ active \in Owner /\ ota_paused \in Owner /\ memory \in Owner
    BY DEF Init
  <2>2. getter \in [Sessions -> GetterState]
    BY DEF Init, GetterState, NoGetter
  <2>3. /\ handler \in [Sessions -> {"idle", "lock", "join", "install", "serving", "done"}]
        /\ prev \in [Sessions -> Owner]
        /\ task \in [Sessions -> {"none", "created", "running", "stopping", "joined",
                                  "closing", "done"}]
        /\ backpressured \in [Sessions -> BOOLEAN]
    BY DEF Init
  <2>4. /\ reader \in [Sessions -> {"off", "recv", "fetch", "put", "pause", "dead"}]
        /\ left \in [Sessions -> Nat]
        /\ ready \in [Sessions -> BOOLEAN]
        /\ writer \in [Sessions -> {"off", "turn", "getting", "interrupt", "normal", "dead"}]
    BY DEF Init
  <2>5. /\ put \in Nat /\ floor \in Nat /\ sent \in Nat
        /\ arrived \in 0..MaxSessions /\ posts \in Nat /\ inputs \in Nat
    BY DEF Init
  <2>6. overloaded \in BOOLEAN /\ missed \in BOOLEAN
    BY Zenon DEF Init
  <2>7. QED
    BY <2>1, <2>2, <2>3, <2>4, <2>5, <2>6, Zenon DEF TypeOK
<1>2. TypeOK /\ [Next]_vars => TypeOK'
  <2> SUFFICES ASSUME TypeOK, [Next]_vars PROVE TypeOK'
    OBVIOUS
  <2> USE DEF TypeOK
  <2>1. ASSUME NEW s \in Sessions, Reader(s) PROVE TypeOK'
    <3>1. ASSUME NEW n \in 0..MaxReplay, FetchDone(s, n) PROVE TypeOK'
      BY <3>1 DEF FetchDone, panel, conn, hist, count
    <3>2. CASE PutBurst(s)
      <4> DEFINE room  == Capacity - Len(normal_queue)
                 burst == IF left[s] < room THEN left[s] ELSE room
      <4>1. burst \in Nat /\ left[s] - burst \in Nat
        <5>1. left[s] \in Nat /\ normal_queue \in Seq(Frames)
          OBVIOUS
        <5>2. Len(normal_queue) \in Nat
          BY <5>1, LenProperties
        <5>3. Capacity \in Nat /\ room > 0
          BY <3>2, BoundsAssumption DEF BoundsAssumption, PutBurst
        <5> QED
          BY ONLY <5>1, <5>2, <5>3 DEF burst, room
      <4>2. normal_queue' \in Seq(Frames)
        BY <3>2, <4>1, BurstType DEF PutBurst
      <4>3. put' \in Nat /\ left' \in [Sessions -> Nat]
        <5>1. put' = put + burst /\ left' = [left EXCEPT ![s] = @ - burst]
          BY <3>2 DEF PutBurst
        <5>2. put \in Nat /\ left \in [Sessions -> Nat]
          OBVIOUS
        <5> HIDE DEF burst
        <5> QED
          BY ONLY <4>1, <5>1, <5>2
      <4>4. QED
        BY <3>2, <4>2, <4>3 DEF PutBurst, conn, count
    <3>3. CASE ReadHello(s)
      <4>1. <<put + 1>> \in Seq(Frames)
        BY DEF Frames
      <4>2. discard_stale_commands(<<put + 1>>)
        BY <3>3 DEF ReadHello, start_refresh
      <4>3. /\ normal_queue' \in Seq(Frames) /\ pending_normal' \in Nat
            /\ normal_generation' \in Nat /\ getter' \in [Sessions -> GetterState]
            /\ floor' \in Nat /\ put' \in Nat
        BY <4>1, <4>2, DiscardType
      <4>4. /\ reader' \in [Sessions -> {"off", "recv", "fetch", "put", "pause", "dead"}]
            /\ ready' \in [Sessions -> BOOLEAN]
            /\ missed' \in BOOLEAN /\ inputs' \in Nat
        <5>1. reader' = [reader EXCEPT ![s] = "fetch"]
          BY <3>3 DEF ReadHello, start_refresh
        <5>2. missed' = FALSE
          BY <3>3 DEF ReadHello, start_refresh
        <5>3. inputs' = inputs + 1 /\ ready' = [ready EXCEPT ![s] = TRUE]
          BY <3>3 DEF ReadHello, Receives
        <5>4. missed' \in BOOLEAN
          BY <5>2
        <5>5. QED
          BY <5>1, <5>3, <5>4
      <4>5. QED
        BY <3>3, <4>3, <4>4 DEF ReadHello, conn
    <3>4. CASE ReadMemory(s)
      BY <3>4 DEF ReadMemory, Receives, conn, sess, hist
    <3>5. CASE ReadOtaStart(s)
      BY <3>5 DEF ReadOtaStart, Receives, conn, hist
    <3>6. CASE PauseSent(s)
      BY <3>6 DEF PauseSent, panel, conn, hist, count
    <3>7. CASE ReadOtaEnd(s)
      <4>1. <<put + 1>> \in Seq(Frames)
        BY DEF Frames
      <4>2. discard_stale_commands(<<put + 1>>)
        BY <3>7 DEF ReadOtaEnd, start_refresh
      <4>3. /\ normal_queue' \in Seq(Frames) /\ pending_normal' \in Nat
            /\ normal_generation' \in Nat /\ getter' \in [Sessions -> GetterState]
            /\ floor' \in Nat /\ put' \in Nat
        BY <4>1, <4>2, DiscardType
      <4>4. /\ reader' \in [Sessions -> {"off", "recv", "fetch", "put", "pause", "dead"}]
            /\ missed' \in BOOLEAN /\ inputs' \in Nat
        <5>1. reader' = [reader EXCEPT ![s] = "fetch"]
          BY <3>7 DEF ReadOtaEnd, start_refresh
        <5>2. missed' = FALSE
          BY <3>7 DEF ReadOtaEnd, start_refresh
        <5>3. inputs' = inputs + 1
          BY <3>7 DEF ReadOtaEnd, Receives
        <5>4. missed' \in BOOLEAN
          BY <5>2
        <5>5. QED
          BY <5>1, <5>3, <5>4
      <4>5. QED
        BY <3>7, <4>3, <4>4 DEF ReadOtaEnd, conn
    <3>8. CASE ReaderFails(s)
      BY <3>8 DEF ReaderFails, panel, conn, hist, count
    <3>9. QED
      BY <2>1, <3>1, <3>2, <3>3, <3>4, <3>5, <3>6, <3>7, <3>8 DEF Reader
  <2>2. ASSUME NEW s \in Sessions, Writer(s) PROVE TypeOK'
    <3> USE DEF panel, conn, hist, count, GetterState, NoGetter
    <3>1. CASE SendInterrupt(s)
      <4>1. interrupts' \in Nat
        BY <3>1 DEF SendInterrupt
      <4>2. writer' \in [Sessions -> {"off", "turn", "getting", "interrupt", "normal", "dead"}]
        BY <3>1 DEF SendInterrupt
      <4>3. QED
        BY <3>1, <4>1, <4>2, Zenon DEF SendInterrupt
    <3>2. CASE StartGet(s)
      BY <3>2 DEF StartGet
    <3>3. CASE SendNormal(s)
      BY <3>3 DEF SendNormal
    <3>4. CASE GetterTakes(s)
      <4> DEFINE q == normal_queue
      <4>0. q \in Seq(Frames) /\ q # <<>>
        BY <3>4 DEF GetterTakes
      <4>1. Head(q) \in Nat /\ Tail(q) \in Seq(Frames)
        <5>1. Head(q) \in Frames /\ Tail(q) \in Seq(Frames)
          BY <4>0, HeadTailProperties
        <5>2. QED
          BY <5>1 DEF Frames
      <4>2. getter' \in [Sessions -> GetterState]
        <5>1. getter' = [getter EXCEPT ![s].st = "got", ![s].item = Head(q)]
          BY <3>4 DEF GetterTakes
        <5>2. getter \in [Sessions -> GetterState] /\ getter[s] \in GetterState
          OBVIOUS
        <5>3. [getter[s] EXCEPT !.st = "got", !.item = Head(q)] \in GetterState
          BY <4>1, <5>2
        <5>4. getter' = [getter EXCEPT ![s] = [getter[s] EXCEPT !.st = "got", !.item = Head(q)]]
          BY <5>1, <5>2
        <5>5. QED
          BY <5>2, <5>3, <5>4
      <4>3. QED
        BY <3>4, <4>1, <4>2 DEF GetterTakes
    <3>5. CASE GetReturns(s)
      <4>1. pending_normal' \in Nat
        BY <3>5 DEF GetReturns
      <4>2. getter' \in [Sessions -> GetterState]
        BY <3>5 DEF GetReturns
      <4>3. QED
        BY <3>5, <4>1, <4>2 DEF GetReturns
    <3>6. CASE GetEndsEmpty(s)
      BY <3>6 DEF GetEndsEmpty
    <3>7. CASE SendDone(s)
      BY <3>7 DEF SendDone
    <3>8. CASE WriterFails(s)
      BY <3>8 DEF WriterFails
    <3>9. QED
      BY <2>2, <3>1, <3>2, <3>3, <3>4, <3>5, <3>6, <3>7, <3>8 DEF Writer
  <2>3. ASSUME NEW s \in Sessions, Session(s) PROVE TypeOK'
    <3> USE DEF panel, conn, hist, count, GetterState, NoGetter
    <3>1. CASE SessionStarts(s)
      BY <3>1 DEF SessionStarts
    <3>2. CASE WatchBackpressure(s)
      BY <3>2 DEF WatchBackpressure
    <3>3. CASE ChildrenJoined(s)
      BY <3>3 DEF ChildrenJoined
    <3>4. CASE SessionReleases(s)
      BY <3>4 DEF SessionReleases, release_panel
    <3>5. CASE SessionClosed(s)
      BY <3>5 DEF SessionClosed
    <3>6. QED
      BY <2>3, <3>1, <3>2, <3>3, <3>4, <3>5 DEF Session
  <2>4. ASSUME NEW s \in Sessions, Handler(s) PROVE TypeOK'
    <3> USE DEF panel, sess, hist, count
    <3>1. CASE Arrive(s)
      BY <3>1 DEF Arrive
    <3>2. CASE TakeOver(s)
      BY <3>2 DEF TakeOver, cancelled, giga_connected
    <3>3. CASE PreviousJoined(s)
      BY <3>3 DEF PreviousJoined
    <3>4. CASE Install(s)
      <4>1. <<>> \in Seq(Frames) /\ discard_stale_commands(<<>>)
        BY <3>4 DEF Install
      <4>2. /\ normal_queue' \in Seq(Frames) /\ pending_normal' \in Nat
            /\ normal_generation' \in Nat /\ getter' \in [Sessions -> GetterState]
            /\ floor' \in Nat /\ put' \in Nat
        BY <4>1, DiscardType
      <4>3. QED
        BY <3>4, <4>2 DEF Install
    <3>5. CASE CancelSession(s)
      BY <3>5 DEF CancelSession, cancelled, conn
    <3>6. CASE CancelHandover(s)
      BY <3>6 DEF CancelHandover
    <3>7. CASE HandlerReturns(s)
      BY <3>7 DEF HandlerReturns, release_panel
    <3>8. QED
      BY <2>4, <3>1, <3>2, <3>3, <3>4, <3>5, <3>6, <3>7 DEF Handler
  <2>5. CASE Post
    <3> USE DEF conn, sess, hist
    <3>1. ASSUME NEW n \in 1..MaxBatch, PostNormal(n) PROVE TypeOK'
      <4>1. n \in Nat
        OBVIOUS
      <4>2. normal_queue' \in Seq(Frames) /\ put' \in Nat
        <5> DEFINE longer == normal_queue \o [i \in 1..n |-> put + i]
        <5>1. longer \in Seq(Frames)
          BY <4>1, BurstType
        <5>2. \/ normal_queue' = normal_queue /\ put' = put
              \/ normal_queue' = longer /\ put' = put + n
          BY <3>1, Zenon DEF PostNormal
        <5> HIDE DEF longer
        <5>3. QED
          BY <4>1, <5>1, <5>2
      <4>3. overloaded' \in BOOLEAN
        <5>1. CASE refuse_batch
          BY <5>1, RefuseType
        <5>2. CASE overloaded' = overloaded
          BY <5>2
        <5>3. QED
          BY <3>1, <5>1, <5>2 DEF PostNormal
      <4>4. missed' \in BOOLEAN
        <5>1. CASE missed' = TRUE
          BY <5>1
        <5>2. CASE missed' = missed
          BY <5>2
        <5>3. QED
          BY <3>1, <5>1, <5>2 DEF PostNormal
      <4>5. posts' \in Nat
        BY <3>1 DEF PostNormal
      <4>6. QED
        BY <3>1, <4>2, <4>3, <4>4, <4>5 DEF PostNormal
    <3>2. CASE \E n \in 1..MaxBatch : PostInterrupt(n)
      <4>1. interrupts' \in Nat /\ posts' \in Nat
        BY <3>2 DEF PostInterrupt
      <4>2. overloaded' \in BOOLEAN
        <5>1. CASE refuse_batch
          BY <5>1, RefuseType
        <5>2. CASE overloaded' = overloaded
          BY <5>2
        <5>3. QED
          BY <3>2, <5>1, <5>2 DEF PostInterrupt
      <4>3. QED
        BY <3>2, <4>1, <4>2 DEF PostInterrupt
    <3>3. CASE PostPassedOver
      BY <3>3 DEF PostPassedOver, panel
    <3>4. CASE HourlyTimeSync
      <4>1. put + 1 \in Frames
        BY DEF Frames
      <4>2. normal_queue' \in Seq(Frames)
        BY <3>4, <4>1, AppendProperties DEF HourlyTimeSync
      <4>3. QED
        BY <3>4, <4>2 DEF HourlyTimeSync
    <3>5. QED
      BY <2>5, <3>1, <3>2, <3>3, <3>4 DEF Post
  <2>6. CASE UNCHANGED vars
    BY <2>6 DEF vars, panel, conn, sess, hist, count
  <2>7. QED
    BY <2>1, <2>2, <2>3, <2>4, <2>5, <2>6 DEF Next
<1>3. QED
  BY <1>1, <1>2, PTL DEF Spec

-----------------------------------------------------------------------------
(***************************************************************************)
(* Ownership.  The invariant relates the owner of the panel, the tasks     *)
(* that may still touch it and the handlers inside the handover.           *)
(***************************************************************************)
InHandover == {"lock", "join", "install"}

\* What is left of a session's task can act on the panel.
MayAct(s) == task[s] \in {"created", "running", "stopping", "joined"}

OwnerInv ==
  /\ \A s \in Sessions : MayAct(s) => active = s
  /\ NoOrphanOwner
  /\ \A s \in Sessions : handler[s] \in InHandover \cup {"idle"} => task[s] = "none"
  /\ \A s \in Sessions : (handler[s] = "idle") <=> (s > arrived)

\* Inside the critical section the old owner is known, and once it is joined
\* nothing acts on the panel.
HandoverInv ==
  /\ \A s \in Sessions : handler[s] \in {"join", "install"} => HoldsLock(s)
  /\ \A s \in Sessions : handler[s] = "join" => active \in {None, prev[s]}
  /\ \A s \in Sessions : handler[s] = "install" /\ active # None
                           => task[active] = "done"

\* Handlers that wait or take over arrived after every handler that serves.
ArrivalInv ==
  \A s, t \in Sessions : handler[s] = "serving" /\ handler[t] \in InHandover => s < t

OwnershipInv == OwnerInv /\ HandoverInv /\ ArrivalInv /\ StateOfOwner

(***************************************************************************)
(* Seen from the ownership of the panel, most steps have one of three      *)
(* shapes: no effect, the owner writes the state it owns, or a session's   *)
(* task moves on towards its end.                                          *)
(***************************************************************************)
handover == <<active, handler, prev, task, arrived>>

NoEffect == UNCHANGED <<handover, ota_paused, memory>>

OwnerWrites(s) ==
  /\ MayAct(s)
  /\ ota_paused' \in {None, s, ota_paused}
  /\ memory' \in {s, memory}
  /\ UNCHANGED handover

\* A live task stays live or ends; one that ended does not come back.
TaskMoves(s, to) ==
  /\ task[s] \notin {"none", "done"}
  /\ to \in {"running", "stopping", "joined"} => MayAct(s)
  /\ to \notin {"none", "created"}
  /\ task' = [task EXCEPT ![s] = to]
  /\ UNCHANGED <<active, handler, prev, arrived, ota_paused, memory>>

\* The steps of the reader as shapes.
LEMMA ReaderShape ==
  ASSUME TypeOK, NEW s \in Sessions, Reader(s)
  PROVE  NoEffect \/ OwnerWrites(s) \/ TaskMoves(s, "stopping")
<1> USE DEF handover, MayAct, Live
<1>1. CASE \E n \in 0..MaxReplay : FetchDone(s, n)
  BY <1>1 DEF FetchDone, NoEffect, panel, conn, count
<1>2. CASE PutBurst(s)
  BY <1>2 DEF PutBurst, NoEffect, conn, count
<1>3. CASE ReadHello(s)
  BY <1>3 DEF ReadHello, NoEffect, conn
<1>4. CASE ReadMemory(s)
  BY <1>4 DEF ReadMemory, Receives, OwnerWrites, conn, sess
<1>5. CASE ReadOtaStart(s)
  BY <1>5 DEF ReadOtaStart, Receives, OwnerWrites, conn
<1>6. CASE PauseSent(s)
  BY <1>6 DEF PauseSent, NoEffect, panel, conn, count
<1>7. CASE ReadOtaEnd(s)
  BY <1>7 DEF ReadOtaEnd, Receives, OwnerWrites, conn
<1>8. CASE ReaderFails(s)
  BY <1>8 DEF ReaderFails, TaskMoves, panel, conn, count
<1>9. QED
  BY <1>1, <1>2, <1>3, <1>4, <1>5, <1>6, <1>7, <1>8 DEF Reader

\* The steps of the writer as shapes.
LEMMA WriterShape ==
  ASSUME TypeOK, NEW s \in Sessions, Writer(s)
  PROVE  NoEffect \/ TaskMoves(s, "stopping")
<1> USE DEF handover, MayAct, Live
<1>1. CASE WriterFails(s)
  BY <1>1 DEF WriterFails, TaskMoves, panel, conn, count
<1>2. CASE SendInterrupt(s) \/ StartGet(s) \/ SendNormal(s)
  BY <1>2 DEF SendInterrupt, StartGet, SendNormal, NoEffect, panel, conn, count
<1>3. CASE GetterTakes(s) \/ GetReturns(s) \/ GetEndsEmpty(s) \/ SendDone(s)
  BY <1>3 DEF GetterTakes, GetReturns, GetEndsEmpty, SendDone, NoEffect, panel,
              conn, count
<1>4. QED
  BY <1>1, <1>2, <1>3 DEF Writer

\* The steps of a session's task as shapes.
LEMMA SessionShape ==
  ASSUME TypeOK, NEW s \in Sessions, Session(s)
  PROVE  \/ SessionReleases(s)
         \/ \E to \in {"running", "stopping", "joined", "done"} : TaskMoves(s, to)
<1> USE DEF MayAct, Live, TaskMoves
<1>1. CASE SessionStarts(s)
  BY <1>1 DEF SessionStarts, panel, conn, count
<1>2. CASE WatchBackpressure(s)
  BY <1>2 DEF WatchBackpressure, panel, conn, count
<1>3. CASE ChildrenJoined(s)
  BY <1>3 DEF ChildrenJoined, panel, conn, count
<1>4. CASE SessionClosed(s)
  BY <1>4 DEF SessionClosed, panel, conn, count
<1>5. QED
  BY <1>1, <1>2, <1>3, <1>4 DEF Session

\* Commands posted to the panel have no effect on who owns it.
LEMMA PostShape ==
  ASSUME Post
  PROVE  NoEffect
<1> USE DEF handover, NoEffect
<1>1. CASE \E n \in 1..MaxBatch : PostNormal(n)
  BY <1>1 DEF PostNormal, conn, sess
<1>2. CASE \E n \in 1..MaxBatch : PostInterrupt(n)
  BY <1>2 DEF PostInterrupt, conn, sess
<1>3. CASE PostPassedOver
  BY <1>3 DEF PostPassedOver, panel, conn, sess
<1>4. CASE HourlyTimeSync
  BY <1>4 DEF HourlyTimeSync, conn, sess
<1>5. QED
  BY <1>1, <1>2, <1>3, <1>4 DEF Post

\* A session that acts on the panel is the one that owns it, so every shape
\* keeps the invariant.
LEMMA OwnershipShapes ==
  ASSUME TypeOK, OwnershipInv, NEW s \in Sessions,
         \/ NoEffect
         \/ OwnerWrites(s)
         \/ \E to \in {"running", "stopping", "joined", "done"} : TaskMoves(s, to)
  PROVE  OwnershipInv'
<1> USE DEF OwnershipInv, OwnerInv, NoOrphanOwner, HandoverInv, ArrivalInv,
            StateOfOwner, HoldsLock, InHandover, MayAct
<1>1. CASE NoEffect
  BY <1>1 DEF NoEffect, handover
<1>2. CASE OwnerWrites(s)
  <2>1. active = s
    BY <1>2 DEF OwnerWrites
  <2>2. StateOfOwner'
    BY <1>2, <2>1 DEF OwnerWrites, handover
  <2>3. QED
    BY <1>2, <2>2 DEF OwnerWrites, handover
<1>3. CASE \E to \in {"running", "stopping", "joined", "done"} : TaskMoves(s, to)
  <2>1. PICK to \in {"running", "stopping", "joined", "done"} : TaskMoves(s, to)
    BY <1>3
  <2>2. \A t \in Sessions : task'[t] = IF t = s THEN to ELSE task[t]
    BY <2>1 DEF TaskMoves, TypeOK
  <2>3. OwnerInv'
    BY <2>1, <2>2 DEF TaskMoves
  <2>4. HandoverInv'
    <3>1. \A t \in Sessions : handler[t] = "install" /\ active # None
            => task'[active] = "done"
      BY <2>1, <2>2 DEF TaskMoves, TypeOK, Owner
    <3>2. QED
      BY <2>1, <3>1 DEF TaskMoves
  <2>5. ArrivalInv' /\ StateOfOwner'
    BY <2>1 DEF TaskMoves
  <2>6. QED
    BY <2>3, <2>4, <2>5
<1>4. QED
  BY <1>1, <1>2, <1>3

\* Once the previous session is done, and when there is none, nothing acts on
\* the panel: Install may hand it to the new session.
LEMMA InstallKeepsOwnership ==
  ASSUME TypeOK, OwnershipInv, NEW s \in Sessions, Install(s)
  PROVE  OwnershipInv'
<1> USE DEF InHandover, MayAct
<1>1. /\ active' = s /\ ota_paused' = None /\ memory' = None
      /\ task' = [task EXCEPT ![s] = "created"]
      /\ handler' = [handler EXCEPT ![s] = "serving"]
      /\ prev' = prev /\ arrived' = arrived
      /\ handler[s] \in {"install", "lock"}
      /\ HoldsLock(s)
      /\ handler[s] = "lock" => active = None
  BY DEF Install, OwnershipInv, HandoverInv, count, giga_connected
<1>2. \A t \in Sessions : /\ task'[t] = IF t = s THEN "created" ELSE task[t]
                          /\ handler'[t] = IF t = s THEN "serving" ELSE handler[t]
  BY <1>1 DEF TypeOK
<1>3. \A t \in Sessions : ~MayAct(t)
  BY <1>1 DEF OwnershipInv, OwnerInv, HandoverInv, None, Sessions
<1>4. \A t \in Sessions : handler[t] \in InHandover => s <= t
  BY <1>1 DEF HoldsLock
<1>5. \A t \in Sessions \ {s} : handler[t] \notin {"join", "install"}
  BY <1>1, <1>4 DEF OwnershipInv, HandoverInv, HoldsLock, Sessions
<1>6. OwnerInv'
  <2>1. \A t \in Sessions : MayAct(t)' => active' = t
    BY <1>1, <1>2, <1>3
  <2>2. NoOrphanOwner'
    BY <1>1, <1>2 DEF NoOrphanOwner
  <2>3. \A t \in Sessions : handler'[t] \in InHandover \cup {"idle"} => task'[t] = "none"
    BY <1>2 DEF OwnershipInv, OwnerInv
  <2>4. \A t \in Sessions : (handler'[t] = "idle") <=> (t > arrived')
    BY <1>1, <1>2 DEF OwnershipInv, OwnerInv
  <2>5. QED
    BY <2>1, <2>2, <2>3, <2>4 DEF OwnerInv
<1>7. HandoverInv'
  BY <1>2, <1>5 DEF HandoverInv
<1>8. ArrivalInv'
  BY <1>2, <1>4 DEF OwnershipInv, ArrivalInv, Sessions
<1>9. StateOfOwner'
  BY <1>1 DEF StateOfOwner
<1>10. QED
  BY <1>6, <1>7, <1>8, <1>9 DEF OwnershipInv

\* The other steps of a handler.
LEMMA HandlerKeepsOwnership ==
  ASSUME TypeOK, OwnershipInv, NEW s \in Sessions, Handler(s)
  PROVE  OwnershipInv'
<1> USE DEF OwnershipInv, OwnerInv, NoOrphanOwner, HandoverInv, ArrivalInv,
            StateOfOwner, HoldsLock, InHandover, MayAct
<1>1. CASE Arrive(s)
  <2>1. /\ UNCHANGED <<active, ota_paused, memory, prev, task>>
        /\ arrived' = s /\ s = arrived + 1
    BY <1>1 DEF Arrive, panel, sess
  <2>2. \A t \in Sessions : handler'[t] = IF t = s THEN "lock" ELSE handler[t]
    BY <1>1 DEF Arrive, TypeOK
  <2>3. \A t \in Sessions : handler[t] # "idle" => t < s
    BY <2>1 DEF TypeOK, Sessions
  <2>4. QED
    BY <2>1, <2>2, <2>3 DEF TypeOK, Sessions
<1>2. CASE TakeOver(s)
  <2>1. /\ UNCHANGED <<active, ota_paused, memory, arrived>>
        /\ active \in Sessions
        /\ \A t \in Sessions : handler'[t] = IF t = s THEN "join" ELSE handler[t]
        /\ \A t \in Sessions : prev'[t] = IF t = s THEN active ELSE prev[t]
        /\ \A t \in Sessions : task'[t] = IF t = active THEN cancelled(t) ELSE task[t]
    BY <1>2 DEF TakeOver, TypeOK, panel, count, Owner, giga_connected
  <2>2. handler[s] = "lock" /\ HoldsLock(s) /\ handler[active] = "serving"
    BY <1>2, <2>1 DEF TakeOver
  <2>3. \A t \in Sessions \ {s} : handler[t] \notin {"join", "install"}
    BY <2>2 DEF Sessions
  <2>4. \A t \in Sessions : /\ task'[t] \in {"created", "running", "stopping", "joined"}
                                 => MayAct(t)
                            /\ task[t] = "none" => task'[t] = "none"
    BY <2>1 DEF cancelled
  <2>5. OwnerInv'
    BY <2>1, <2>2, <2>4
  <2>6. HandoverInv'
    BY <2>1, <2>2, <2>3
  <2>7. QED
    BY <2>1, <2>2, <2>5, <2>6
<1>3. CASE PreviousJoined(s)
  <2>1. /\ UNCHANGED <<active, ota_paused, memory, arrived, task>>
        /\ handler[s] = "join" /\ task[prev[s]] = "done"
        /\ \A t \in Sessions : handler'[t] = IF t = s THEN "install" ELSE handler[t]
        /\ \A t \in Sessions : prev'[t] = IF t = s THEN None ELSE prev[t]
    BY <1>3 DEF PreviousJoined, TypeOK, panel, sess, count, Owner
  <2>2. QED
    BY <2>1
<1>4. CASE Install(s)
  BY <1>4, InstallKeepsOwnership
<1>5. CASE CancelSession(s)
  <2>1. TaskMoves(s, "stopping") \/ TaskMoves(s, "done")
    BY <1>5 DEF CancelSession, cancelled, TaskMoves, panel, conn, count
  <2>2. QED
    BY <2>1, OwnershipShapes
<1>6. CASE CancelHandover(s)
  <2>1. /\ UNCHANGED <<active, ota_paused, memory, arrived, task, prev>>
        /\ handler[s] \in InHandover
        /\ \A t \in Sessions : handler'[t] = IF t = s THEN "done" ELSE handler[t]
    BY <1>6 DEF CancelHandover, TypeOK, panel, sess, count
  <2>2. QED
    BY <2>1
<1>7. CASE HandlerReturns(s)
  <2>1. /\ UNCHANGED <<arrived, task, prev>>
        /\ handler[s] = "serving" /\ task[s] = "done"
        /\ \A t \in Sessions : handler'[t] = IF t = s THEN "done" ELSE handler[t]
        /\ active # s => UNCHANGED <<active, ota_paused, memory>>
        /\ active = s => active' = None /\ ota_paused' = None /\ memory' = None
    BY <1>7 DEF HandlerReturns, release_panel, TypeOK, sess, count
  <2>2. OwnerInv'
    BY <2>1 DEF None, Sessions
  <2>3. HandoverInv'
    BY <2>1
  <2>4. QED
    BY <2>1, <2>2, <2>3
<1>8. QED
  BY <1>1, <1>2, <1>3, <1>4, <1>5, <1>6, <1>7 DEF Handler

\* The finally block of a session releases the panel before its close frame.
LEMMA ReleaseKeepsOwnership ==
  ASSUME TypeOK, OwnershipInv, NEW s \in Sessions, SessionReleases(s)
  PROVE  OwnershipInv'
<1> USE DEF OwnershipInv, OwnerInv, NoOrphanOwner, HandoverInv, ArrivalInv,
            StateOfOwner, HoldsLock, InHandover, MayAct
<1>1. /\ task[s] = "joined" /\ active = s
      /\ active' = None /\ ota_paused' = None /\ memory' = None
      /\ UNCHANGED <<handler, prev, arrived>>
  BY DEF SessionReleases, release_panel, conn, count
<1>2. \A t \in Sessions \ {s} : task'[t] = task[t]
  BY DEF SessionReleases, TypeOK
<1>3. task'[s] \in {"closing", "done"}
  BY DEF SessionReleases, TypeOK
<1>4. QED
  BY <1>1, <1>2, <1>3 DEF None, Sessions

\* The ownership invariant holds in every reachable state.
THEOREM Ownership == Spec => []OwnershipInv
<1>1. Init => OwnershipInv
  BY DEF Init, OwnershipInv, OwnerInv, NoOrphanOwner, HandoverInv, ArrivalInv,
         StateOfOwner, InHandover, MayAct, None, Sessions
<1>2. TypeOK /\ OwnershipInv /\ [Next]_vars => OwnershipInv'
  <2> SUFFICES ASSUME TypeOK, OwnershipInv, [Next]_vars
               PROVE  OwnershipInv'
    OBVIOUS
  <2>1. CASE \E s \in Sessions : Reader(s)
    BY <2>1, ReaderShape, OwnershipShapes
  <2>2. CASE \E s \in Sessions : Writer(s)
    BY <2>2, WriterShape, OwnershipShapes
  <2>3. CASE \E s \in Sessions : Session(s)
    BY <2>3, SessionShape, OwnershipShapes, ReleaseKeepsOwnership
  <2>4. CASE \E s \in Sessions : Handler(s)
    BY <2>4, HandlerKeepsOwnership
  <2>5. CASE Post \/ UNCHANGED vars
    <3>1. NoEffect
      BY <2>5, PostShape DEF vars, panel, conn, sess, count, NoEffect, handover
    <3>2. 1 \in Sessions
      BY BoundsAssumption DEF BoundsAssumption, Sessions
    <3>3. QED
      BY <3>1, <3>2, OwnershipShapes
  <2>6. QED
    BY <2>1, <2>2, <2>3, <2>4, <2>5 DEF Next
<1>3. QED
  BY <1>1, <1>2, TypeCorrect, PTL DEF Spec

\* At most one session runs on the panel: its owner.
THEOREM OnlyOwnerActs == Spec => []SoleConsumer
<1>1. OwnershipInv => SoleConsumer
  BY DEF OwnershipInv, OwnerInv, MayAct, SoleConsumer
<1>2. QED
  BY <1>1, Ownership, PTL

\* No handler that has ended leaves its session as the owner.
THEOREM OwnerIsServed == Spec => []NoOrphanOwner
<1>1. OwnershipInv => NoOrphanOwner
  BY DEF OwnershipInv, OwnerInv
<1>2. QED
  BY <1>1, Ownership, PTL

\* The OTA pause and the telemetry sample are the owner's.
THEOREM OwnerState == Spec => []StateOfOwner
<1>1. OwnershipInv => StateOfOwner
  BY DEF OwnershipInv
<1>2. QED
  BY <1>1, Ownership, PTL

\* Only Install gives the panel to a session, and that session arrived after
\* every session that is being served.
THEOREM LastArrivalOwns == Spec => LatestOwner
<1> DEFINE Latest == active' \notin {None, active} =>
                       \A s \in Sessions : s > active' => handler[s] # "serving"
<1>1. TypeOK /\ OwnershipInv /\ [Next]_vars => Latest
  <2> SUFFICES ASSUME TypeOK, OwnershipInv, [Next]_vars,
                      active' \notin {None, active}
               PROVE  \A s \in Sessions : s > active' => handler[s] # "serving"
    OBVIOUS
  <2> USE DEF NoEffect, OwnerWrites, TaskMoves, handover
  <2>1. PICK s \in Sessions : Install(s)
    <3>1. ~Post /\ ~UNCHANGED vars
      BY PostShape DEF vars, panel
    <3>2. PICK s \in Sessions : Session(s) \/ Handler(s)
      BY <3>1, ReaderShape, WriterShape DEF Next
    <3>3. ~Session(s)
      BY SessionShape DEF SessionReleases, release_panel
    <3>4. Install(s)
      BY <3>2, <3>3 DEF Handler, Arrive, TakeOver, PreviousJoined, CancelSession,
         CancelHandover, HandlerReturns, release_panel, panel
    <3>5. QED
      BY <3>4
  <2>2. active' = s /\ handler[s] \in InHandover
    BY <2>1 DEF Install, InHandover
  <2>3. QED
    BY <2>2 DEF OwnershipInv, ArrivalInv, Sessions
<1>2. Spec => [][Latest]_vars
  BY <1>1, TypeCorrect, Ownership, PTL DEF Spec
<1>3. QED
  BY <1>2 DEF LatestOwner

-----------------------------------------------------------------------------
(* Missed updates *)

\* Only a session whose reader has run can have said HELLO.
ReadyInv == \A s \in Sessions : ready[s] => Live(s)

ReplayInv == ReadyInv /\ NoSilentDrop

\* A frame of the panel: only HELLO makes a session ready, a replay begins with
\* it and with the end of an OTA update, and an update pauses the panel.
LEMMA ReaderKeepsReplay ==
  ASSUME TypeOK, OwnershipInv, ReplayInv, NEW s \in Sessions, Reader(s)
  PROVE  ReplayInv'
<1> USE DEF ReplayInv, ReadyInv, NoSilentDrop, Live, giga_connected
<1>1. CASE \E n \in 0..MaxReplay : FetchDone(s, n)
  BY <1>1 DEF FetchDone, panel, hist
<1>2. CASE PutBurst(s)
  BY <1>2 DEF PutBurst
<1>3. CASE ReadHello(s)
  <2>1. missed' = FALSE
    BY <1>3 DEF ReadHello, start_refresh
  <2>2. task' = task /\ \A t \in Sessions : ready'[t] = (t = s \/ ready[t])
    BY <1>3 DEF ReadHello, TypeOK
  <2>3. Live(s)
    BY <1>3 DEF ReadHello, Receives
  <2>4. QED
    BY <2>1, <2>2, <2>3
<1>4. CASE ReadMemory(s)
  BY <1>4 DEF ReadMemory, sess, hist
<1>5. CASE ReadOtaStart(s)
  BY <1>5 DEF ReadOtaStart, None, Sessions
<1>6. CASE PauseSent(s)
  BY <1>6 DEF PauseSent, panel, hist
<1>7. CASE ReadOtaEnd(s)
  BY <1>7 DEF ReadOtaEnd, start_refresh
<1>8. CASE ReaderFails(s)
  BY <1>8 DEF ReaderFails, TypeOK, panel, hist
<1>9. QED
  BY <1>1, <1>2, <1>3, <1>4, <1>5, <1>6, <1>7, <1>8 DEF Reader

\* A step of the writer takes no replay away.
LEMMA WriterKeepsReplay ==
  ASSUME TypeOK, OwnershipInv, ReplayInv, NEW s \in Sessions, Writer(s)
  PROVE  ReplayInv'
<1> USE DEF ReplayInv, ReadyInv, NoSilentDrop, Live, giga_connected
<1>1. CASE WriterFails(s)
  BY <1>1 DEF WriterFails, TypeOK, panel, hist
<1>2. CASE ~WriterFails(s)
  <2>1. UNCHANGED <<task, ready, active, ota_paused, overloaded, missed>>
    BY <1>2 DEF Writer, SendInterrupt, StartGet, SendNormal, GetterTakes, GetReturns,
       GetEndsEmpty, SendDone, panel, hist
  <2>2. QED
    BY <2>1
<1>3. QED
  BY <1>1, <1>2

\* A session loses its HELLO with its tasks, and then gives the panel up.
LEMMA SessionKeepsReplay ==
  ASSUME TypeOK, OwnershipInv, ReplayInv, NEW s \in Sessions, Session(s)
  PROVE  ReplayInv'
<1> USE DEF ReplayInv, ReadyInv, NoSilentDrop, Live, giga_connected
<1>1. CASE SessionStarts(s)
  BY <1>1 DEF SessionStarts, TypeOK, panel, hist
<1>2. CASE WatchBackpressure(s)
  BY <1>2 DEF WatchBackpressure, TypeOK, panel, hist
<1>3. CASE ChildrenJoined(s)
  <2>1. \A t \in Sessions : /\ ready'[t] = (t # s /\ ready[t])
                            /\ t # s => task'[t] = task[t]
    BY <1>3 DEF ChildrenJoined, TypeOK
  <2>2. UNCHANGED <<active, ota_paused, overloaded, missed>>
    BY <1>3 DEF ChildrenJoined, panel, hist
  <2>3. active # None => active \in Sessions
    BY DEF TypeOK, Owner
  <2>4. QED
    BY <2>1, <2>2, <2>3
<1>4. CASE SessionReleases(s)
  BY <1>4 DEF SessionReleases, release_panel, TypeOK, hist, OwnershipInv, OwnerInv,
     MayAct
<1>5. CASE SessionClosed(s)
  BY <1>5 DEF SessionClosed, TypeOK, panel, hist
<1>6. QED
  BY <1>1, <1>2, <1>3, <1>4, <1>5 DEF Session

\* A new session starts without HELLO, although it clears the overload.
LEMMA HandlerKeepsReplay ==
  ASSUME TypeOK, OwnershipInv, ReplayInv, NEW s \in Sessions, Handler(s)
  PROVE  ReplayInv'
<1> USE DEF ReplayInv, ReadyInv, NoSilentDrop, Live, giga_connected
<1>1. CASE Arrive(s) \/ PreviousJoined(s) \/ CancelHandover(s)
  <2>1. UNCHANGED <<task, ready, active, ota_paused, overloaded, missed>>
    BY <1>1 DEF Arrive, PreviousJoined, CancelHandover, panel, sess, hist
  <2>2. QED
    BY <2>1
<1>2. CASE TakeOver(s)
  <2>1. UNCHANGED <<ready, active, ota_paused, overloaded, missed>>
    BY <1>2 DEF TakeOver, panel, hist
  <2>2. \A t \in Sessions : task'[t] = IF t = active THEN cancelled(t) ELSE task[t]
    BY <1>2 DEF TakeOver, TypeOK
  <2>3. \A t \in Sessions : Live(t) => Live(t)'
    BY <2>2 DEF cancelled
  <2>4. QED
    BY <2>1, <2>3
<1>3. CASE Install(s)
  <2>1. task[s] = "none"
    BY <1>3 DEF Install, OwnershipInv, OwnerInv, InHandover
  <2>2. ~ready[s] /\ ready' = ready /\ active' = s
    BY <1>3, <2>1 DEF Install
  <2>3. \A t \in Sessions : t # s => task'[t] = task[t]
    BY <1>3 DEF Install, TypeOK
  <2>4. QED
    BY <2>2, <2>3
<1>4. CASE CancelSession(s)
  <2>1. UNCHANGED <<ready, active, ota_paused, overloaded, missed>>
    BY <1>4 DEF CancelSession, panel, hist
  <2>2. \A t \in Sessions : Live(t) => Live(t)'
    BY <1>4 DEF CancelSession, cancelled, TypeOK
  <2>3. QED
    BY <2>1, <2>2
<1>5. CASE HandlerReturns(s)
  BY <1>5 DEF HandlerReturns, release_panel, sess, hist
<1>6. QED
  BY <1>1, <1>2, <1>3, <1>4, <1>5 DEF Handler

\* A refused batch tears down a panel that is connected and not paused.
LEMMA PostKeepsReplay ==
  ASSUME TypeOK, OwnershipInv, ReplayInv, Post
  PROVE  ReplayInv'
<1> USE DEF ReplayInv, ReadyInv, NoSilentDrop, Live, giga_connected
<1>0. ASSUME refuse_batch
      PROVE  (giga_connected /\ ota_paused = None) \/ overloaded => overloaded'
  BY <1>0, Zenon DEF refuse_batch
<1>1. CASE \E n \in 1..MaxBatch : PostNormal(n)
  <2>1. /\ UNCHANGED <<active, ready, task, ota_paused>>
        /\ refuse_batch \/ UNCHANGED <<overloaded, missed>>
    BY <1>1 DEF PostNormal, sess
  <2>2. CASE refuse_batch
    BY <2>1, <2>2, <1>0
  <2>3. CASE UNCHANGED <<overloaded, missed>>
    BY <2>1, <2>3
  <2>4. QED
    BY <2>1, <2>2, <2>3
<1>2. CASE \E n \in 1..MaxBatch : PostInterrupt(n)
  <2>1. /\ UNCHANGED <<active, ready, task, ota_paused, missed>>
        /\ refuse_batch \/ UNCHANGED overloaded
    BY <1>2 DEF PostInterrupt, sess, hist
  <2>2. CASE refuse_batch
    BY <2>1, <2>2, <1>0
  <2>3. CASE UNCHANGED overloaded
    BY <2>1, <2>3
  <2>4. QED
    BY <2>1, <2>2, <2>3
<1>3. CASE PostPassedOver
  BY <1>3 DEF PostPassedOver, panel, sess
<1>4. CASE HourlyTimeSync
  BY <1>4 DEF HourlyTimeSync, sess
<1>5. QED
  BY <1>1, <1>2, <1>3, <1>4 DEF Post

LEMMA ReplayInvariant == Spec => []ReplayInv
<1>1. Init => ReplayInv
  BY DEF Init, ReplayInv, ReadyInv, NoSilentDrop
<1>2. TypeOK /\ OwnershipInv /\ ReplayInv /\ [Next]_vars => ReplayInv'
  <2>1. CASE UNCHANGED vars
    BY <2>1 DEF vars, panel, sess, hist, ReplayInv, ReadyInv, NoSilentDrop, Live,
       giga_connected
  <2>2. QED
    BY <2>1, ReaderKeepsReplay, WriterKeepsReplay, SessionKeepsReplay,
       HandlerKeepsReplay, PostKeepsReplay DEF Next
<1>3. QED
  BY <1>1, <1>2, TypeCorrect, Ownership, PTL DEF Spec

\* A panel that missed an update has a replay ahead of it.
THEOREM ReplayAhead == Spec => []NoSilentDrop
<1>1. ReplayInv => NoSilentDrop
  BY DEF ReplayInv
<1>2. QED
  BY <1>1, ReplayInvariant, PTL

-----------------------------------------------------------------------------
(* Order and freshness *)

\* The frames of q increase, above lo and up to hi.
Ordered(q, lo, hi) ==
  /\ \A i \in 1..Len(q) : lo < q[i] /\ q[i] <= hi
  /\ \A i, j \in 1..Len(q) : i < j => q[i] < q[j]

\* Frame x may be the next to go out: it is newer than what was sent or
\* discarded, and what is queued is newer still.
Upcoming(x) ==
  /\ floor < x /\ sent < x /\ x <= put
  /\ Ordered(normal_queue, x, put)

\* A getter holds the writer in its wait, and nothing is pending meanwhile.
GetterInv ==
  \A s \in Sessions : getter[s].st # "none" =>
    /\ Live(s) /\ writer[s] = "getting"
    /\ pending_normal = None
    /\ getter[s].gen <= normal_generation
    /\ getter[s].st = "got" /\ getter[s].gen = normal_generation
         => Upcoming(getter[s].item)

QueueInv ==
  /\ floor <= put /\ sent <= put
  /\ Ordered(normal_queue, floor, put) /\ Ordered(normal_queue, sent, put)
  /\ pending_normal # None => Upcoming(pending_normal)

FlowInv == QueueInv /\ GetterInv

\* A batch put into the queue keeps it in order.
LEMMA BurstOrdered ==
  ASSUME NEW q \in Seq(Frames), NEW p \in Nat, NEW n \in Nat, NEW lo \in Nat,
         lo <= p, Ordered(q, lo, p)
  PROVE  Ordered(q \o [i \in 1..n |-> p + i], lo, p + n)
<1> DEFINE burst == [i \in 1..n |-> p + i]
<1>1. burst \in Seq(Nat) /\ Len(burst) = n
  OBVIOUS
<1>2. \A i \in 1..n : burst[i] = p + i
  OBVIOUS
<1> HIDE DEF burst
<1>3. /\ Len(q \o burst) = Len(q) + n
      /\ \A i \in 1..Len(q) : (q \o burst)[i] = q[i]
      /\ \A i \in Len(q)+1..Len(q)+n : (q \o burst)[i] = p + (i - Len(q))
  <2>1. q \in Seq(Nat)
    BY DEF Frames
  <2>2. /\ Len(q \o burst) = Len(q) + Len(burst)
        /\ \A i \in 1..Len(q) + Len(burst) :
             (q \o burst)[i] = IF i <= Len(q) THEN q[i] ELSE burst[i - Len(q)]
    BY <1>1, <2>1, ConcatProperties
  <2>3. Len(q) \in Nat
    OBVIOUS
  <2>4. \A i \in Len(q)+1..Len(q)+n : i - Len(q) \in 1..n /\ ~(i <= Len(q))
    BY <2>3
  <2>5. QED
    BY <1>1, <1>2, <2>2, <2>3, <2>4
<1>4. \A i \in 1..Len(q) : q[i] \in Nat
  BY DEF Frames
<1>5. Ordered(q \o burst, lo, p + n)
  <2> DEFINE c == q \o burst
  <2>1. Len(q) \in Nat /\ Len(c) = Len(q) + n
    BY <1>3
  <2>2. \A i \in 1..Len(q) : c[i] = q[i] /\ lo < c[i] /\ c[i] <= p /\ c[i] \in Nat
    BY <1>3, <1>4 DEF Ordered
  <2>3. \A i \in Len(q)+1..Len(q)+n : c[i] = p + (i - Len(q))
    BY <1>3
  <2> HIDE DEF c
  <2>4. \A i, j \in 1..Len(q) : i < j => c[i] < c[j]
    BY <2>1, <2>2 DEF Ordered
  <2>5. \A i \in 1..Len(c) : lo < c[i] /\ c[i] <= p + n
    BY <2>1, <2>2, <2>3
  <2>6. \A i, j \in 1..Len(c) : i < j => c[i] < c[j]
    BY <2>1, <2>2, <2>3, <2>4
  <2>7. QED
    BY <2>5, <2>6 DEF Ordered, c
<1>6. QED
  BY <1>5 DEF burst

\* The oldest frame of the queue precedes the rest of it.
LEMMA HeadOrdered ==
  ASSUME NEW q \in Seq(Frames), q # <<>>, NEW lo \in Nat, NEW hi \in Nat,
         Ordered(q, lo, hi)
  PROVE  /\ lo < Head(q) /\ Head(q) <= hi
         /\ Ordered(Tail(q), lo, hi) /\ Ordered(Tail(q), Head(q), hi)
<1>1. /\ Len(q) \in Nat \ {0} /\ Head(q) = q[1]
      /\ Len(Tail(q)) = Len(q) - 1
      /\ \A i \in 1..Len(q) - 1 : Tail(q)[i] = q[i + 1]
  BY HeadTailProperties
<1>2. \A i \in 1..Len(q) : q[i] \in Nat
  BY DEF Frames
<1>3. QED
  BY <1>1, <1>2 DEF Ordered

\* A step that leaves the queue and what was sent alone keeps the invariant, if
\* a session that waits for a frame stays alive and waiting.
LEMMA FlowUnchanged ==
  ASSUME FlowInv,
         UNCHANGED <<normal_queue, pending_normal, normal_generation, getter,
                     put, floor, sent>>,
         \A s \in Sessions : getter[s].st # "none" /\ Live(s) /\ writer[s] = "getting"
                               => Live(s)' /\ writer'[s] = "getting"
  PROVE  FlowInv'
BY DEF FlowInv, QueueInv, GetterInv, Upcoming

\* A discard, with or without the TIME frame of a replay, makes every older
\* frame unsendable: it bumps the generation of a frame already taken.
LEMMA DiscardKeepsFlow ==
  ASSUME TypeOK, FlowInv, NEW fresh \in {<<>>, <<put + 1>>},
         discard_stale_commands(fresh), sent' = sent,
         \A s \in Sessions : getter[s].st # "none" /\ Live(s) /\ writer[s] = "getting"
                               => Live(s)' /\ writer'[s] = "getting"
  PROVE  FlowInv'
<1> USE DEF discard_stale_commands, FlowInv, TypeOK
<1>1. /\ floor' = put /\ pending_normal' = None
      /\ normal_generation' = normal_generation + 1
      /\ \A s \in Sessions : /\ getter'[s].gen = getter[s].gen
                             /\ getter'[s].st # "none" => getter[s].st # "none"
  BY DEF GetterState
<1>2. put' = put + Len(fresh) /\ Len(fresh) \in 0..1
  OBVIOUS
<1>3. QueueInv'
  <2>1. ASSUME NEW lo \in Nat, lo <= put PROVE Ordered(fresh, lo, put + Len(fresh))
    <3>1. CASE fresh = <<>>
      BY <3>1 DEF Ordered
    <3>2. CASE fresh = <<put + 1>>
      <4>1. Len(fresh) = 1 /\ fresh[1] = put + 1
        BY <3>2
      <4>2. QED
        BY <2>1, <4>1 DEF Ordered
    <3>3. QED
      BY <3>1, <3>2
  <2>2. Ordered(normal_queue', put, put') /\ Ordered(normal_queue', sent, put')
    BY <1>2, <2>1 DEF QueueInv
  <2>3. floor' <= put' /\ sent' <= put'
    BY <1>1, <1>2 DEF QueueInv
  <2>4. QED
    BY <1>1, <2>2, <2>3 DEF QueueInv
<1>4. GetterInv'
  <2>1. \A s \in Sessions : getter[s].gen \in Nat
    BY DEF GetterState
  <2>2. QED
    BY <1>1, <2>1 DEF GetterInv
<1>5. QED
  BY <1>3, <1>4

\* Frames put at the end of the queue are newer than everything before them.
LEMMA PutKeepsFlow ==
  ASSUME TypeOK, FlowInv, NEW n \in Nat,
         normal_queue' = normal_queue \o [i \in 1..n |-> put + i],
         put' = put + n,
         UNCHANGED <<pending_normal, normal_generation, getter, floor, sent,
                     task, writer>>
  PROVE  FlowInv'
<1> USE DEF FlowInv, TypeOK
<1>1. ASSUME NEW lo \in Nat, lo <= put, Ordered(normal_queue, lo, put)
      PROVE  Ordered(normal_queue', lo, put')
  <2> DEFINE longer == normal_queue \o [i \in 1..n |-> put + i]
  <2>1. Ordered(longer, lo, put + n)
    BY <1>1, BurstOrdered
  <2>2. normal_queue' = longer
    OBVIOUS
  <2> HIDE DEF longer
  <2>3. QED
    BY <2>1, <2>2
<1>2. floor' = floor /\ sent' = sent /\ put <= put' /\ put' \in Nat
  OBVIOUS
<1>3. ASSUME NEW x \in Nat, Upcoming(x) PROVE Upcoming(x)'
  <2>1. floor < x /\ sent < x /\ x <= put'
    BY <1>2, <1>3 DEF Upcoming
  <2>2. Ordered(normal_queue', x, put')
    BY <1>1, <1>3 DEF Upcoming
  <2>3. QED
    BY <1>2, <2>1, <2>2 DEF Upcoming
<1>4. QueueInv'
  <2>1. pending_normal' # None => Upcoming(pending_normal)'
    BY <1>3 DEF QueueInv
  <2>2. Ordered(normal_queue', floor, put') /\ Ordered(normal_queue', sent, put')
    BY <1>1 DEF QueueInv
  <2>3. QED
    BY <1>2, <2>1, <2>2 DEF QueueInv
<1>5. GetterInv'
  <2>1. \A s \in Sessions : getter[s].item \in Nat
    BY DEF GetterState
  <2>2. QED
    BY <1>3, <2>1 DEF GetterInv, Live
<1>6. QED
  BY <1>4, <1>5

\* A live session owns the panel, so at most one getter exists.
LEMMA OneLive ==
  ASSUME OwnershipInv
  PROVE  \A s, t \in Sessions : Live(s) /\ Live(t) => s = t
BY DEF OwnershipInv, OwnerInv, MayAct, Live

\* The reader: a snapshot goes in behind the queue, HELLO and OTA-END discard.
LEMMA ReaderKeepsFlow ==
  ASSUME TypeOK, FlowInv, NEW s \in Sessions, Reader(s)
  PROVE  FlowInv'
<1> USE DEF Live
<1>1. CASE \E n \in 0..MaxReplay : FetchDone(s, n)
  BY <1>1, FlowUnchanged DEF FetchDone, panel, hist
<1>2. CASE PutBurst(s)
  <2> DEFINE room  == Capacity - Len(normal_queue)
             burst == IF left[s] < room THEN left[s] ELSE room
  <2>1. /\ normal_queue' = normal_queue \o [i \in 1..burst |-> put + i]
        /\ put' = put + burst
        /\ UNCHANGED <<pending_normal, normal_generation, getter, floor, sent,
                       task, writer>>
        /\ room > 0
    BY <1>2 DEF PutBurst
  <2>2. burst \in Nat
    <3>1. room \in Nat /\ left[s] \in Nat
      BY <2>1, BoundsAssumption DEF BoundsAssumption, TypeOK
    <3>2. QED
      BY <3>1
  <2> HIDE DEF burst
  <2>3. QED
    BY <2>1, <2>2, PutKeepsFlow
<1>3. CASE ReadHello(s)
  BY <1>3, DiscardKeepsFlow DEF ReadHello, start_refresh
<1>4. CASE ReadMemory(s)
  BY <1>4, FlowUnchanged DEF ReadMemory, sess, hist
<1>5. CASE ReadOtaStart(s)
  BY <1>5, FlowUnchanged DEF ReadOtaStart, hist
<1>6. CASE PauseSent(s)
  BY <1>6, FlowUnchanged DEF PauseSent, panel, hist
<1>7. CASE ReadOtaEnd(s)
  BY <1>7, DiscardKeepsFlow DEF ReadOtaEnd, start_refresh
<1>8. CASE ReaderFails(s)
  <2>1. \A t \in Sessions : Live(t) => Live(t)'
    BY <1>8 DEF ReaderFails, TypeOK
  <2>2. QED
    BY <1>8, <2>1, FlowUnchanged DEF ReaderFails, panel, hist
<1>9. QED
  BY <1>1, <1>2, <1>3, <1>4, <1>5, <1>6, <1>7, <1>8 DEF Reader

\* The writer moves the oldest frame to its getter, to pending_normal and out.
LEMMA WriterKeepsFlow ==
  ASSUME TypeOK, OwnershipInv, FlowInv, NEW s \in Sessions, Writer(s)
  PROVE  FlowInv'
<1> USE DEF Live
<1>1. CASE SendInterrupt(s) \/ SendDone(s)
  <2>1. writer[s] # "getting" /\ \A t \in Sessions : t # s => writer'[t] = writer[t]
    BY <1>1 DEF SendInterrupt, SendDone, WriterTurn, TypeOK
  <2>2. QED
    BY <1>1, <2>1, FlowUnchanged DEF SendInterrupt, SendDone, panel, hist
<1>2. CASE WriterFails(s)
  <2>1. writer[s] # "getting" /\ \A t \in Sessions : t # s => writer'[t] = writer[t]
    BY <1>2 DEF WriterFails, TypeOK
  <2>2. \A t \in Sessions : Live(t) => Live(t)'
    BY <1>2 DEF WriterFails, TypeOK
  <2>3. QED
    BY <1>2, <2>1, <2>2, FlowUnchanged DEF WriterFails, panel, hist
<1>3. CASE StartGet(s)
  <2>1. /\ Live(s) /\ pending_normal = None
        /\ UNCHANGED <<normal_queue, pending_normal, normal_generation, put, floor,
                       sent, task>>
    BY <1>3 DEF StartGet, WriterTurn, panel, hist
  <2>2. /\ getter'[s].st = "waiting" /\ getter'[s].gen = normal_generation
        /\ writer'[s] = "getting"
        /\ \A t \in Sessions \ {s} : getter'[t] = getter[t] /\ writer'[t] = writer[t]
    BY <1>3 DEF StartGet, TypeOK
  <2>3. normal_generation \in Nat
    BY DEF TypeOK
  <2>4. QueueInv'
    BY <2>1 DEF FlowInv, QueueInv, Upcoming
  <2>5. GetterInv'
    BY <2>1, <2>2, <2>3 DEF FlowInv, GetterInv, Upcoming
  <2>6. QED
    BY <2>4, <2>5 DEF FlowInv
<1>4. CASE SendNormal(s)
  <2>1. /\ Live(s) /\ writer[s] = "turn" /\ pending_normal # None
        /\ sent' = pending_normal /\ pending_normal' = None
        /\ UNCHANGED <<normal_queue, normal_generation, put, floor, task, getter>>
    BY <1>4 DEF SendNormal, WriterTurn
  <2>2. \A t \in Sessions : getter[t].st = "none"
    BY <2>1 DEF FlowInv, GetterInv
  <2>3. Upcoming(pending_normal)
    BY <2>1 DEF FlowInv, QueueInv
  <2>4. QueueInv'
    BY <2>1, <2>3 DEF FlowInv, QueueInv, Upcoming
  <2>5. GetterInv'
    BY <2>1, <2>2 DEF GetterInv
  <2>6. QED
    BY <2>4, <2>5 DEF FlowInv
<1>5. CASE GetterTakes(s)
  <2>1. /\ Live(s) /\ getter[s].st = "waiting" /\ normal_queue # <<>>
        /\ normal_queue' = Tail(normal_queue)
        /\ UNCHANGED <<pending_normal, normal_generation, put, floor, sent, task,
                       writer>>
    BY <1>5 DEF GetterTakes, hist
  <2>2. /\ getter'[s].item = Head(normal_queue) /\ getter'[s].gen = getter[s].gen
        /\ \A t \in Sessions \ {s} : getter'[t] = getter[t]
    BY <1>5 DEF GetterTakes, TypeOK, GetterState
  <2>3. \A t \in Sessions \ {s} : getter[t].st = "none"
    BY <2>1, OneLive DEF FlowInv, GetterInv
  <2>4. /\ normal_queue \in Seq(Frames) /\ put \in Nat /\ floor \in Nat /\ sent \in Nat
        /\ pending_normal = None
    BY <2>1 DEF TypeOK, FlowInv, GetterInv
  <2>5. /\ Ordered(normal_queue', floor, put) /\ Ordered(normal_queue', sent, put)
        /\ floor < Head(normal_queue) /\ sent < Head(normal_queue)
        /\ Head(normal_queue) <= put
        /\ Ordered(normal_queue', Head(normal_queue), put)
    BY <2>1, <2>4, HeadOrdered DEF FlowInv, QueueInv
  <2>6. QueueInv'
    BY <2>1, <2>4, <2>5 DEF FlowInv, QueueInv
  <2>7. GetterInv'
    BY <2>1, <2>2, <2>3, <2>5 DEF FlowInv, GetterInv, Upcoming
  <2>8. QED
    BY <2>6, <2>7 DEF FlowInv
<1>6. CASE GetReturns(s) \/ GetEndsEmpty(s)
  <2>1. /\ Live(s)
        /\ UNCHANGED <<normal_queue, normal_generation, put, floor, sent, task>>
    BY <1>6 DEF GetReturns, GetEndsEmpty, panel, hist
  <2>2. /\ getter'[s].st = "none"
        /\ \A t \in Sessions \ {s} : getter'[t] = getter[t] /\ writer'[t] = writer[t]
    BY <1>6 DEF GetReturns, GetEndsEmpty, NoGetter, TypeOK
  <2>3. \A t \in Sessions : getter'[t].st = "none"
    BY <2>1, <2>2, OneLive DEF FlowInv, GetterInv
  <2>4. \/ pending_normal' = pending_normal
        \/ /\ getter[s].st = "got" /\ getter[s].gen = normal_generation
           /\ pending_normal' = getter[s].item
    BY <1>6 DEF GetReturns, GetEndsEmpty, panel
  <2>5. QueueInv'
    BY <2>1, <2>4 DEF FlowInv, QueueInv, GetterInv, Upcoming
  <2>6. QED
    BY <2>3, <2>5 DEF FlowInv, GetterInv
<1>7. QED
  BY <1>1, <1>2, <1>3, <1>4, <1>5, <1>6 DEF Writer

\* The task group joins the getter with the writer: no getter outlives it.
LEMMA SessionKeepsFlow ==
  ASSUME TypeOK, FlowInv, NEW s \in Sessions, Session(s)
  PROVE  FlowInv'
<1> USE DEF Live
<1>1. CASE SessionStarts(s)
  <2>1. ~Live(s) /\ \A t \in Sessions \ {s} : task'[t] = task[t] /\ writer'[t] = writer[t]
    BY <1>1 DEF SessionStarts, TypeOK
  <2>2. QED
    BY <1>1, <2>1, FlowUnchanged DEF SessionStarts, panel, hist
<1>2. CASE WatchBackpressure(s)
  <2>1. \A t \in Sessions : Live(t) => Live(t)'
    BY <1>2 DEF WatchBackpressure, TypeOK
  <2>2. QED
    BY <1>2, <2>1, FlowUnchanged DEF WatchBackpressure, panel, hist
<1>3. CASE ChildrenJoined(s)
  <2>1. UNCHANGED <<normal_queue, pending_normal, normal_generation, put, floor, sent>>
    BY <1>3 DEF ChildrenJoined, panel, hist
  <2>2. /\ getter'[s].st = "none"
        /\ \A t \in Sessions \ {s} : /\ getter'[t] = getter[t]
                                     /\ writer'[t] = writer[t] /\ task'[t] = task[t]
    BY <1>3 DEF ChildrenJoined, NoGetter, TypeOK
  <2>3. QED
    BY <2>1, <2>2 DEF FlowInv, QueueInv, GetterInv, Upcoming
<1>4. CASE SessionReleases(s) \/ SessionClosed(s)
  <2>1. ~Live(s) /\ \A t \in Sessions \ {s} : task'[t] = task[t]
    BY <1>4 DEF SessionReleases, SessionClosed, TypeOK
  <2>2. QED
    BY <1>4, <2>1, FlowUnchanged DEF SessionReleases, SessionClosed, panel, hist
<1>5. QED
  BY <1>1, <1>2, <1>3, <1>4 DEF Session

\* A handler discards the queue for the session it installs.
LEMMA HandlerKeepsFlow ==
  ASSUME TypeOK, OwnershipInv, FlowInv, NEW s \in Sessions, Handler(s)
  PROVE  FlowInv'
<1> USE DEF Live
<1>1. CASE Arrive(s) \/ PreviousJoined(s) \/ CancelHandover(s)
  BY <1>1, FlowUnchanged DEF Arrive, PreviousJoined, CancelHandover, panel, sess, hist
<1>2. CASE TakeOver(s)
  <2>1. \A t \in Sessions : task'[t] = IF t = active THEN cancelled(t) ELSE task[t]
    BY <1>2 DEF TakeOver, TypeOK
  <2>2. \A t \in Sessions : Live(t) => Live(t)'
    BY <2>1 DEF cancelled
  <2>3. QED
    BY <1>2, <2>2, FlowUnchanged DEF TakeOver, panel, hist
<1>3. CASE Install(s)
  <2>1. task[s] = "none"
    BY <1>3 DEF Install, OwnershipInv, OwnerInv, InHandover
  <2>2. \A t \in Sessions : Live(t) => Live(t)'
    BY <1>3, <2>1 DEF Install, TypeOK
  <2>3. QED
    BY <1>3, <2>2, DiscardKeepsFlow DEF Install
<1>4. CASE CancelSession(s)
  <2>1. \A t \in Sessions : Live(t) => Live(t)'
    BY <1>4 DEF CancelSession, cancelled, TypeOK
  <2>2. QED
    BY <1>4, <2>1, FlowUnchanged DEF CancelSession, panel, hist
<1>5. CASE HandlerReturns(s)
  BY <1>5, FlowUnchanged DEF HandlerReturns, sess, hist
<1>6. QED
  BY <1>1, <1>2, <1>3, <1>4, <1>5 DEF Handler

\* A posted batch goes in behind the queue.
LEMMA PostKeepsFlow ==
  ASSUME TypeOK, FlowInv, Post
  PROVE  FlowInv'
<1>1. CASE \E n \in 1..MaxBatch : PostNormal(n)
  <2>1. PICK n \in 1..MaxBatch : PostNormal(n)
    BY <1>1
  <2>2. \/ UNCHANGED <<normal_queue, put>>
        \/ /\ normal_queue' = normal_queue \o [i \in 1..n |-> put + i]
           /\ put' = put + n
    BY <2>1 DEF PostNormal
  <2>3. UNCHANGED <<pending_normal, normal_generation, getter, floor, sent, task, writer>>
    BY <2>1 DEF PostNormal, sess
  <2>4. CASE UNCHANGED <<normal_queue, put>>
    BY <2>3, <2>4, FlowUnchanged DEF Live
  <2>5. n \in Nat
    BY BoundsAssumption DEF BoundsAssumption
  <2>6. QED
    BY <2>2, <2>3, <2>4, <2>5, PutKeepsFlow
<1>2. CASE \E n \in 1..MaxBatch : PostInterrupt(n)
  BY <1>2, FlowUnchanged DEF PostInterrupt, sess, hist, Live
<1>3. CASE PostPassedOver
  BY <1>3, FlowUnchanged DEF PostPassedOver, panel, sess, Live
<1>4. CASE HourlyTimeSync
  <2>1. normal_queue' = normal_queue \o [i \in 1..1 |-> put + i]
    <3>1. Append(normal_queue, put + 1) = normal_queue \o <<put + 1>>
      BY <1>4, AppendProperties DEF TypeOK
    <3>2. <<put + 1>> = [i \in 1..1 |-> put + i]
      OBVIOUS
    <3>3. QED
      BY <1>4, <3>1, <3>2 DEF HourlyTimeSync
  <2>2. QED
    BY <1>4, <2>1, PutKeepsFlow DEF HourlyTimeSync, sess
<1>5. QED
  BY <1>1, <1>2, <1>3, <1>4 DEF Post

\* The queue, the getter and the pending frame keep the frames in order.
THEOREM Flow == Spec => []FlowInv
<1>1. Init => FlowInv
  BY DEF Init, FlowInv, QueueInv, GetterInv, Ordered, NoGetter, None
<1>2. TypeOK /\ OwnershipInv /\ FlowInv /\ [Next]_vars => FlowInv'
  <2>1. FlowInv /\ UNCHANGED vars => FlowInv'
    BY FlowUnchanged DEF vars, panel, sess, hist, Live
  <2>2. QED
    BY <2>1, ReaderKeepsFlow, WriterKeepsFlow, SessionKeepsFlow, HandlerKeepsFlow,
       PostKeepsFlow DEF Next
<1>3. QED
  BY <1>1, <1>2, TypeCorrect, Ownership, PTL DEF Spec

\* Only SendNormal begins the transmission of a normal frame.
LEMMA OnlySendNormal ==
  ASSUME TypeOK, [Next]_vars, NEW s \in Sessions, NormalGoesOut(s)
  PROVE  SendNormal(s)
<1> USE DEF NormalGoesOut
<1>1. ~Post /\ ~UNCHANGED vars
  BY DEF Post, PostNormal, PostInterrupt, PostPassedOver, HourlyTimeSync, vars, sess
<1>2. PICK t \in Sessions : Reader(t) \/ Writer(t) \/ Session(t) \/ Handler(t)
  BY <1>1 DEF Next
<1>3. ~Reader(t)
  BY DEF Reader, FetchDone, PutBurst, ReadHello, ReadMemory, ReadOtaStart,
     PauseSent, ReadOtaEnd, ReaderFails, sess
<1>4. ~Handler(t)
  BY DEF Handler, Arrive, TakeOver, PreviousJoined, Install, CancelSession,
     CancelHandover, HandlerReturns, sess
<1>5. ~Session(t)
  BY DEF Session, SessionStarts, WatchBackpressure, ChildrenJoined,
     SessionReleases, SessionClosed, TypeOK
<1>6. Writer(t)
  BY <1>2, <1>3, <1>4, <1>5
<1>7. SendNormal(t) /\ t = s
  BY <1>6 DEF Writer, SendInterrupt, StartGet, SendNormal, GetterTakes, GetReturns,
     GetEndsEmpty, SendDone, WriterFails, TypeOK
<1>8. QED
  BY <1>7

\* The same as a property of the steps: a normal frame goes only to the owner of the panel, after its HELLO; it was
\* queued after the latest discard (so never before that HELLO or before the
\* end of an OTA) and is newer than every normal frame sent before it.
FreshInOrder ==
  [][\A s \in Sessions : NormalGoesOut(s) =>
       /\ active = s /\ ready[s]
       /\ sent' > floor
       /\ sent' > sent]_vars

\* What goes out goes to the owner after its HELLO, and is newer than all that
\* was sent or discarded before.
THEOREM SentFreshInOrder == Spec => FreshInOrder
<1> DEFINE Fresh == \A s \in Sessions : NormalGoesOut(s) =>
                      /\ active = s /\ ready[s]
                      /\ sent' > floor
                      /\ sent' > sent
<1>1. TypeOK /\ OwnershipInv /\ FlowInv /\ [Next]_vars => Fresh
  <2> SUFFICES ASSUME TypeOK, OwnershipInv, FlowInv, [Next]_vars,
                      NEW s \in Sessions, NormalGoesOut(s)
               PROVE  active = s /\ ready[s] /\ sent' > floor /\ sent' > sent
    OBVIOUS
  <2>1. SendNormal(s)
    BY OnlySendNormal
  <2>2. sent' = pending_normal /\ pending_normal # None /\ ready[s] /\ Live(s)
    BY <2>1 DEF SendNormal, NormalAllowed, WriterTurn
  <2>3. active = s
    BY <2>2 DEF OwnershipInv, OwnerInv, MayAct, Live
  <2>4. QED
    BY <2>2, <2>3 DEF FlowInv, QueueInv, Upcoming
<1>2. Spec => [][Fresh]_vars
  BY <1>1, TypeCorrect, Ownership, Flow, PTL DEF Spec
<1>3. QED
  BY <1>2 DEF FreshInOrder

\* No interrupt waits and no OTA update runs when a normal frame goes out.
THEOREM SentAfterInterrupts == Spec => InterruptFirst
<1> DEFINE First == \A s \in Sessions :
                      NormalGoesOut(s) => interrupts = 0 /\ ota_paused = None
<1>1. TypeOK /\ [Next]_vars => First
  BY OnlySendNormal DEF SendNormal, NormalAllowed
<1>2. Spec => [][First]_vars
  BY <1>1, TypeCorrect, PTL DEF Spec
<1>3. QED
  BY <1>2 DEF InterruptFirst

-----------------------------------------------------------------------------
(***************************************************************************)
(* The ordered link.  A frame in transit is in the queue, in the hand of   *)
(* the one getter whose generation is current, or pending, and the last    *)
(* two exclude each other: so InTransit is the queue, or one frame before  *)
(* it, and each step of the panel is a step of PanelLink.                  *)
(***************************************************************************)
Holds(s) == getter[s].st = "got" /\ getter[s].gen = normal_generation

\* A getter that waits is of the current generation, so a discard cancels it;
\* and it was started, as it ends, while its session's panel is greeted.
WaitInv ==
  /\ Len(normal_queue) <= Capacity
  /\ \A s \in Sessions : getter[s].st = "waiting" => getter[s].gen = normal_generation
  /\ \A s \in Sessions : getter[s].st # "none" => ready[s]

\* The shapes of InTransit.
LineInv ==
  /\ pending_normal # None => InTransit = <<pending_normal>> \o normal_queue
  /\ pending_normal = None /\ (\A s \in Sessions : ~Holds(s))
       => InTransit = normal_queue
  /\ \A s \in Sessions : Holds(s) => InTransit = <<getter[s].item>> \o normal_queue

\* A frame before a queue is its head.
LEMMA Cons ==
  ASSUME NEW x \in Frames, NEW q \in Seq(Frames)
  PROVE  /\ <<x>> \o q # <<>> /\ Head(<<x>> \o q) = x /\ Tail(<<x>> \o q) = q
         /\ Len(<<x>> \o q) = Len(q) + 1
<1> DEFINE c == <<x>> \o q
<1>1. <<x>> \in Seq(Frames) /\ Len(<<x>>) = 1 /\ <<x>>[1] = x
  OBVIOUS
<1>2. /\ c \in Seq(Frames) /\ Len(c) = 1 + Len(q)
      /\ \A i \in 1..1 + Len(q) : c[i] = IF i <= 1 THEN x ELSE q[i - 1]
  <2>1. /\ c \in Seq(Frames) /\ Len(c) = Len(<<x>>) + Len(q)
        /\ \A i \in 1..Len(<<x>>) + Len(q) :
             c[i] = IF i <= Len(<<x>>) THEN <<x>>[i] ELSE q[i - Len(<<x>>)]
    BY <1>1, ConcatProperties
  <2>2. \A i \in 1..1 + Len(q) : i <= 1 => <<x>>[i] = x
    BY <1>1
  <2> QED
    BY <1>1, <2>1, <2>2
<1>3. Len(q) \in Nat
  OBVIOUS
<1> HIDE DEF c
<1>4. c # <<>> /\ Head(c) = x
  BY <1>2, <1>3
<1>5. Tail(c) \in Seq(Frames) /\ Len(Tail(c)) = Len(q)
      /\ \A i \in 1..Len(q) : Tail(c)[i] = c[i + 1]
  BY <1>2, <1>3, <1>4, HeadTailProperties
<1>6. \A i \in 1..Len(q) : Tail(c)[i] = q[i]
  BY <1>2, <1>3, <1>5
<1>7. Tail(c) = q
  BY <1>5, <1>6, SeqEqual
<1> QED
  BY <1>2, <1>4, <1>7 DEF c

\* A queue is its head before the rest.
LEMMA Uncons ==
  ASSUME NEW q \in Seq(Frames), q # <<>>
  PROVE  <<Head(q)>> \o Tail(q) = q
<1> DEFINE x == Head(q)
           r == Tail(q)
<1>1. /\ x \in Frames /\ r \in Seq(Frames) /\ Len(r) = Len(q) - 1
      /\ \A i \in 1..Len(r) : r[i] = q[i + 1]
  BY HeadTailProperties
<1>2. x = q[1] /\ Len(q) \in Nat \ {0}
  OBVIOUS
<1> HIDE DEF x, r
<1>3. <<x>> \in Seq(Frames) /\ Len(<<x>>) = 1 /\ <<x>>[1] = x
  BY <1>1
<1>4. /\ <<x>> \o r \in Seq(Frames) /\ Len(<<x>> \o r) = 1 + Len(r)
      /\ \A i \in 1..1 + Len(r) :
           (<<x>> \o r)[i] = IF i <= 1 THEN <<x>>[i] ELSE r[i - 1]
  BY <1>1, <1>3, ConcatProperties
<1>5. Len(<<x>> \o r) = Len(q) /\ \A i \in 1..Len(q) : (<<x>> \o r)[i] = q[i]
  BY <1>1, <1>2, <1>3, <1>4
<1>6. <<x>> \o r = q
  BY <1>4, <1>5, SeqEqual
<1> QED
  BY <1>6 DEF x, r

\* At most one frame is before the queue, with the owner's getter or pending.
LEMMA LineIs ==
  ASSUME TypeOK, OwnershipInv, FlowInv
  PROVE  LineInv
<1>1. normal_queue \in Seq(Frames) /\ pending_normal \in Nat
  BY DEF TypeOK
<1>2. ASSUME NEW s \in Sessions, getter[s].st # "none"
      PROVE  active = s /\ pending_normal = None /\ active # None
  BY <1>2 DEF FlowInv, GetterInv, OwnershipInv, OwnerInv, MayAct, Live, Sessions, None
<1>3. CASE pending_normal # None
  <2>1. \A s \in Sessions : getter[s].st = "none"
    BY <1>2, <1>3
  <2>2. active # None => active \in Sessions
    BY DEF TypeOK, Owner
  <2>3. <<pending_normal>> \o <<>> = <<pending_normal>>
    OBVIOUS
  <2>4. InTransit = <<pending_normal>> \o normal_queue
    BY <1>3, <2>1, <2>2, <2>3 DEF InTransit
  <2> QED
    BY <1>3, <2>1, <2>4 DEF LineInv, Holds
<1>4. CASE pending_normal = None /\ \A s \in Sessions : ~Holds(s)
  <2>1. active # None => active \in Sessions
    BY DEF TypeOK, Owner
  <2>2. <<>> \o <<>> = <<>> /\ <<>> \o normal_queue = normal_queue
    BY <1>1, ConcatEmptySeq
  <2>3. InTransit = normal_queue
    BY <1>4, <2>1, <2>2 DEF InTransit, Holds
  <2> QED
    BY <1>4, <2>3 DEF LineInv
<1>5. CASE pending_normal = None /\ \E s \in Sessions : Holds(s)
  <2>1. ASSUME NEW s \in Sessions, Holds(s)
        PROVE  InTransit = <<getter[s].item>> \o normal_queue
    <3>1. active = s /\ active # None
      BY <1>2, <2>1 DEF Holds
    <3>2. <<>> \o <<getter[s].item>> = <<getter[s].item>>
      OBVIOUS
    <3> QED
      BY <1>5, <2>1, <3>1, <3>2 DEF InTransit, Holds
  <2> QED
    BY <1>5, <2>1 DEF LineInv
<1> QED
  BY <1>3, <1>4, <1>5

\* After a discard no getter waits, and none holds a frame that still counts.
LEMMA DiscardEmptiesHands ==
  ASSUME TypeOK, FlowInv, NEW fresh, discard_stale_commands(fresh)
  PROVE  /\ pending_normal' = None /\ normal_queue' = fresh
         /\ \A s \in Sessions : /\ ~Holds(s)' /\ getter'[s].st # "waiting"
                                /\ getter'[s].st # "none" => getter[s].st # "none"
<1> USE DEF discard_stale_commands, TypeOK
<1>1. \A s \in Sessions : /\ getter'[s].gen = getter[s].gen
                          /\ getter'[s].st # "waiting"
                          /\ getter'[s].st # "none" => getter[s].st # "none"
  BY DEF GetterState
<1>2. \A s \in Sessions : getter[s].gen \in Nat
  BY DEF GetterState
<1>3. \A s \in Sessions : getter[s].st # "none" => getter[s].gen # normal_generation + 1
  BY <1>2 DEF FlowInv, GetterInv
<1> QED
  BY <1>1, <1>3 DEF Holds

\* The queue keeps its bound, and a getter stays current until it is cancelled.
LEMMA ReaderKeepsWait ==
  ASSUME TypeOK, OwnershipInv, FlowInv, WaitInv, NEW s \in Sessions, Reader(s)
  PROVE  WaitInv'
<1> USE DEF WaitInv
<1>1. CASE PutBurst(s)
  <2> DEFINE room  == Capacity - Len(normal_queue)
             burst == IF left[s] < room THEN left[s] ELSE room
  <2>1. /\ normal_queue' = normal_queue \o [i \in 1..burst |-> put + i]
        /\ UNCHANGED <<normal_generation, getter, ready>> /\ room > 0
    BY <1>1 DEF PutBurst
  <2>2. burst \in Nat /\ burst <= room /\ room \in Nat
    BY <2>1, BoundsAssumption DEF BoundsAssumption, TypeOK
  <2>3. normal_queue \in Seq(Frames) /\ Len(normal_queue) \in Nat /\ put \in Nat
    BY DEF TypeOK
  <2> HIDE DEF burst
  <2> DEFINE frames == [i \in 1..burst |-> put + i]
  <2>4. Len(frames) = burst /\ frames \in Seq(Frames)
    BY <2>2, <2>3 DEF Frames
  <2>5. normal_queue' = normal_queue \o frames
    BY <2>1
  <2> HIDE DEF frames
  <2>6. Len(normal_queue') = Len(normal_queue) + burst
    BY <2>3, <2>4, <2>5, ConcatProperties
  <2>7. Len(normal_queue') <= Capacity
    BY <2>2, <2>3, <2>6, BoundsAssumption DEF BoundsAssumption
  <2> QED
    BY <2>1, <2>7
<1>2. CASE ReadHello(s) \/ ReadOtaEnd(s)
  <2>1. discard_stale_commands(<<put + 1>>)
    BY <1>2 DEF ReadHello, ReadOtaEnd, start_refresh
  <2>2. \A t \in Sessions : ready[t] => ready'[t]
    BY <1>2 DEF ReadHello, ReadOtaEnd, TypeOK
  <2>3. Len(normal_queue') = 1
    BY <2>1, DiscardEmptiesHands
  <2> QED
    BY <2>1, <2>2, <2>3, DiscardEmptiesHands, BoundsAssumption DEF BoundsAssumption
<1>3. CASE ~(PutBurst(s) \/ ReadHello(s) \/ ReadOtaEnd(s))
  <2>1. UNCHANGED <<normal_queue, normal_generation, getter, ready>>
    BY <1>3 DEF Reader, FetchDone, ReadMemory, ReadOtaStart, PauseSent, ReaderFails,
       panel, sess
  <2> QED
    BY <2>1
<1> QED
  BY <1>1, <1>2, <1>3

LEMMA WriterKeepsWait ==
  ASSUME TypeOK, OwnershipInv, FlowInv, WaitInv, NEW s \in Sessions, Writer(s)
  PROVE  WaitInv'
<1> USE DEF WaitInv
<1>1. CASE StartGet(s)
  <2>1. /\ UNCHANGED <<normal_queue, normal_generation, ready>> /\ ready[s]
        /\ getter'[s].gen = normal_generation
        /\ \A t \in Sessions \ {s} : getter'[t] = getter[t]
    BY <1>1 DEF StartGet, NormalAllowed, TypeOK, panel
  <2> QED
    BY <2>1
<1>2. CASE GetterTakes(s)
  <2>1. /\ UNCHANGED <<normal_generation, ready>> /\ normal_queue # <<>>
        /\ normal_queue' = Tail(normal_queue)
        /\ getter[s].st = "waiting" /\ getter'[s].st = "got"
        /\ \A t \in Sessions \ {s} : getter'[t] = getter[t]
    BY <1>2 DEF GetterTakes, TypeOK, GetterState
  <2>2. Len(normal_queue') = Len(normal_queue) - 1 /\ Len(normal_queue) \in Nat
    BY <2>1, HeadTailProperties DEF TypeOK
  <2> QED
    BY <2>1, <2>2, BoundsAssumption DEF BoundsAssumption
<1>3. CASE GetReturns(s) \/ GetEndsEmpty(s)
  <2>1. /\ UNCHANGED <<normal_queue, normal_generation, ready>>
        /\ getter'[s].st = "none"
        /\ \A t \in Sessions \ {s} : getter'[t] = getter[t]
    BY <1>3 DEF GetReturns, GetEndsEmpty, NoGetter, TypeOK, panel
  <2> QED
    BY <2>1
<1>4. CASE SendInterrupt(s) \/ SendNormal(s) \/ SendDone(s) \/ WriterFails(s)
  BY <1>4 DEF SendInterrupt, SendNormal, SendDone, WriterFails, panel
<1> QED
  BY <1>1, <1>2, <1>3, <1>4 DEF Writer

LEMMA SessionKeepsWait ==
  ASSUME TypeOK, WaitInv, NEW s \in Sessions, Session(s)
  PROVE  WaitInv'
<1> USE DEF WaitInv
<1>1. CASE ChildrenJoined(s)
  <2>1. /\ UNCHANGED <<normal_queue, normal_generation>>
        /\ getter'[s].st = "none"
        /\ \A t \in Sessions \ {s} : getter'[t] = getter[t] /\ ready'[t] = ready[t]
    BY <1>1 DEF ChildrenJoined, NoGetter, TypeOK, panel
  <2> QED
    BY <2>1
<1>2. CASE ~ChildrenJoined(s)
  <2>1. UNCHANGED <<normal_queue, normal_generation, getter, ready>>
    BY <1>2 DEF Session, SessionStarts, WatchBackpressure, SessionReleases,
       SessionClosed, panel
  <2> QED
    BY <2>1
<1> QED
  BY <1>1, <1>2

LEMMA HandlerKeepsWait ==
  ASSUME TypeOK, FlowInv, WaitInv, NEW s \in Sessions, Handler(s)
  PROVE  WaitInv'
<1> USE DEF WaitInv
<1>1. CASE Install(s)
  <2>1. discard_stale_commands(<<>>) /\ ready' = ready
    BY <1>1 DEF Install
  <2>2. Len(normal_queue') = 0
    BY <2>1, DiscardEmptiesHands
  <2> QED
    BY <2>1, <2>2, DiscardEmptiesHands, BoundsAssumption DEF BoundsAssumption
<1>2. CASE ~Install(s)
  <2>1. UNCHANGED <<normal_queue, normal_generation, getter, ready>>
    BY <1>2 DEF Handler, Arrive, TakeOver, PreviousJoined, CancelSession,
       CancelHandover, HandlerReturns, panel, sess
  <2> QED
    BY <2>1
<1> QED
  BY <1>1, <1>2

LEMMA PostKeepsWait ==
  ASSUME TypeOK, WaitInv, Post
  PROVE  WaitInv'
<1> USE DEF WaitInv
<1>1. UNCHANGED <<normal_generation, getter, ready>>
  BY DEF Post, PostNormal, PostInterrupt, PostPassedOver, HourlyTimeSync, panel, sess
<1>2. Len(normal_queue') <= Capacity
  <2>1. CASE \E n \in 1..MaxBatch : PostNormal(n)
    <3>1. PICK n \in 1..MaxBatch : PostNormal(n)
      BY <2>1
    <3>2. n \in Nat /\ put \in Nat /\ normal_queue \in Seq(Frames)
      BY BoundsAssumption DEF BoundsAssumption, TypeOK
    <3>3. [i \in 1..n |-> put + i] \in Seq(Frames) /\ Len([i \in 1..n |-> put + i]) = n
      BY <3>2 DEF Frames
    <3>4. CASE normal_queue' = normal_queue
      BY <3>4
    <3>5. CASE Len(normal_queue) + n <= Capacity
               /\ normal_queue' = normal_queue \o [i \in 1..n |-> put + i]
      BY <3>2, <3>3, <3>5, ConcatProperties
    <3> QED
      BY <3>1, <3>4, <3>5 DEF PostNormal
  <2>2. CASE HourlyTimeSync
    <3>1. Len(Append(normal_queue, put + 1)) = Len(normal_queue) + 1
          /\ Len(normal_queue) \in Nat
      BY AppendProperties DEF TypeOK
    <3> QED
      BY <2>2, <3>1, BoundsAssumption DEF HourlyTimeSync, BoundsAssumption
  <2>3. CASE ~HourlyTimeSync /\ ~\E n \in 1..MaxBatch : PostNormal(n)
    BY <2>3 DEF Post, PostInterrupt, PostPassedOver, panel
  <2> QED
    BY <2>1, <2>2, <2>3
<1> QED
  BY <1>1, <1>2

\* Only the owner's panel can be greeted.
GreetedInv ==
  /\ Greeted \in Owner
  /\ \A s \in Sessions : Greeted = s <=> ready[s]

LinkInv ==
  TypeOK /\ OwnershipInv /\ FlowInv /\ ReadyInv /\ WaitInv /\ LineInv /\ GreetedInv

\* What the steps below use of the types of the queues.
LEMMA QueueTypes ==
  TypeOK => /\ normal_queue \in Seq(Frames) /\ interrupts \in Nat /\ floor \in Nat
            /\ put \in Nat /\ \A s \in Sessions : getter[s].item \in Nat
<1> SUFFICES ASSUME TypeOK
             PROVE  /\ normal_queue \in Seq(Frames) /\ interrupts \in Nat /\ floor \in Nat
                    /\ put \in Nat /\ \A s \in Sessions : getter[s].item \in Nat
  OBVIOUS
<1>1. normal_queue \in Seq(Frames) /\ interrupts \in Nat /\ floor \in Nat /\ put \in Nat
  BY DEF TypeOK
<1>2. getter \in [Sessions -> GetterState]
  BY DEF TypeOK
<1>3. \A s \in Sessions : getter[s].item \in Nat
  BY <1>2 DEF GetterState
<1> QED
  BY <1>1, <1>3

\* The facts about frames in transit hold throughout.
LEMMA InTransitInvariant == Spec => []LinkInv
<1>1. Init => WaitInv
  BY BoundsAssumption DEF Init, WaitInv, NoGetter, BoundsAssumption
<1>2. TypeOK /\ OwnershipInv /\ FlowInv /\ WaitInv /\ [Next]_vars => WaitInv'
  <2>1. WaitInv /\ UNCHANGED vars => WaitInv'
    BY DEF vars, panel, sess, WaitInv
  <2> QED
    BY <2>1, ReaderKeepsWait, WriterKeepsWait, SessionKeepsWait, HandlerKeepsWait,
       PostKeepsWait DEF Next
<1>3. TypeOK /\ OwnershipInv /\ FlowInv /\ ReplayInv /\ WaitInv => LinkInv
  <2>1. ASSUME TypeOK, OwnershipInv, ReadyInv PROVE GreetedInv
    <3>1. \A s \in Sessions : ready[s] => active = s
      BY <2>1 DEF OwnershipInv, OwnerInv, MayAct, ReadyInv, Live
    <3> QED
      BY <2>1, <3>1 DEF GreetedInv, Greeted, giga_connected, TypeOK, Owner, Sessions,
         None
  <2> QED
    BY <2>1, LineIs DEF LinkInv, ReplayInv
<1> QED
  BY <1>1, <1>2, <1>3, ReplayInvariant, TypeCorrect, Ownership, Flow, PTL DEF Spec

\* The variables of PanelLink as they are mapped.
linked == <<InTransit, put, sent, Greeted, ota_paused, interrupts>>

\* What a step must leave alone to be none of the link.
LEMMA LinkUnchanged ==
  ASSUME UNCHANGED <<normal_queue, pending_normal, normal_generation, getter, active,
                     ready, ota_paused, interrupts, put, sent>>
  PROVE  UNCHANGED linked
BY DEF linked, InTransit, Greeted, giga_connected

\* A batch goes to the end of the line, wherever its first is.
LEMMA PutIsPut ==
  ASSUME LinkInv, LinkInv', NEW n \in Nat, n <= Capacity,
         normal_queue' = normal_queue \o [i \in 1..n |-> put + i],
         put' = put + n,
         UNCHANGED <<pending_normal, normal_generation, getter, active, ready,
                     ota_paused, interrupts, sent>>
  PROVE  Link!Next \/ UNCHANGED linked
<1> DEFINE frames == [i \in 1..n |-> put + i]
<1>1. /\ normal_queue \in Seq(Frames) /\ pending_normal \in Nat /\ put \in Nat
      /\ normal_queue' \in Seq(Frames) /\ Capacity \in Nat
      /\ \A s \in Sessions : getter[s].item \in Nat
  BY BoundsAssumption DEF LinkInv, TypeOK, GetterState, BoundsAssumption
<1>2. frames \in Seq(Frames) /\ normal_queue' = normal_queue \o frames
  BY <1>1 DEF Frames
<1>3. ASSUME NEW x \in Frames
      PROVE  /\ (<<x>> \o normal_queue) \o frames = <<x>> \o normal_queue'
             /\ Len(<<x>> \o normal_queue') = Len(normal_queue') + 1
  <2> DEFINE one == <<x>>
  <2>1. one \in Seq(Frames)
    OBVIOUS
  <2> HIDE DEF frames, one
  <2>2. (one \o normal_queue) \o frames = one \o (normal_queue \o frames)
    BY <1>1, <1>2, <2>1, ConcatAssociative
  <2>3. (one \o normal_queue) \o frames = one \o normal_queue'
    BY <1>2, <2>2
  <2>4. Len(<<x>> \o normal_queue') = Len(normal_queue') + 1
    BY <1>1, Cons
  <2> QED
    BY <2>3, <2>4 DEF one
<1>4. \A s \in Sessions : Holds(s)' <=> Holds(s)
  BY DEF Holds
<1>5. ASSUME NEW s \in Sessions, Holds(s) PROVE getter[s].item \in Frames
  <2>1. floor < getter[s].item /\ floor \in Nat
    BY <1>5 DEF Holds, LinkInv, FlowInv, GetterInv, Upcoming, TypeOK
  <2> QED
    BY <1>1, <2>1 DEF Frames
<1>6. Len(normal_queue') <= Capacity /\ Len(normal_queue') \in Nat
  BY <1>1 DEF LinkInv, WaitInv
<1>7. InTransit' = InTransit \o frames /\ Len(InTransit') <= Capacity + 1
  <2> HIDE DEF frames
  <2>1. CASE pending_normal # None
    <3>1. pending_normal \in Frames
      BY <1>1, <2>1 DEF Frames, None
    <3>2. InTransit = <<pending_normal>> \o normal_queue
          /\ InTransit' = <<pending_normal>> \o normal_queue'
      BY <2>1 DEF LinkInv, LineInv
    <3> QED
      <4>1. /\ (<<pending_normal>> \o normal_queue) \o frames = <<pending_normal>> \o normal_queue'
            /\ Len(<<pending_normal>> \o normal_queue') = Len(normal_queue') + 1
        BY <1>3, <3>1
      <4>2. InTransit' = InTransit \o frames
        BY <3>2, <4>1
      <4>3. Len(InTransit') = Len(normal_queue') + 1
        BY <3>2, <4>1
      <4> QED
        BY <1>1, <1>6, <4>2, <4>3
  <2>2. CASE \E s \in Sessions : Holds(s)
    <3>1. PICK s \in Sessions : Holds(s)
      BY <2>2
    <3>2. InTransit = <<getter[s].item>> \o normal_queue
          /\ InTransit' = <<getter[s].item>> \o normal_queue'
      BY <1>4, <3>1 DEF LinkInv, LineInv
    <3> QED
      <4>1. /\ (<<getter[s].item>> \o normal_queue) \o frames = <<getter[s].item>> \o normal_queue'
            /\ Len(<<getter[s].item>> \o normal_queue') = Len(normal_queue') + 1
        BY <1>3, <1>5, <3>1
      <4>2. InTransit' = InTransit \o frames
        BY <3>2, <4>1
      <4>3. Len(InTransit') = Len(normal_queue') + 1
        BY <3>2, <4>1
      <4> QED
        BY <1>1, <1>6, <4>2, <4>3
  <2>3. CASE pending_normal = None /\ \A s \in Sessions : ~Holds(s)
    <3>1. InTransit = normal_queue /\ InTransit' = normal_queue'
      BY <1>4, <2>3 DEF LinkInv, LineInv
    <3> QED
      BY <1>1, <1>2, <1>6, <3>1
  <2> QED
    BY <2>1, <2>2, <2>3
<1>8. Greeted' = Greeted
  BY DEF Greeted, giga_connected
<1>9. CASE n = 0
  <2>1. frames = <<>>
    BY <1>9
  <2>2. normal_queue' = normal_queue /\ put' = put
    BY <1>1, <1>2, <1>9, <2>1, ConcatEmptySeq
  <2> QED
    BY <2>2, LinkUnchanged
<1>10. CASE n # 0
  <2>1. n \in 1..Capacity + 1
    BY <1>1, <1>10
  <2>2. Link!Put(n)
    BY <1>7, <1>8 DEF Link!Put
  <2> QED
    BY <2>1, <2>2 DEF Link!Next
<1> QED
  BY <1>9, <1>10

\* A live session owns the panel: its panel or none is greeted, it or none pauses.
LEMMA LiveIsPeer ==
  ASSUME LinkInv, NEW s \in Sessions, Live(s)
  PROVE  active = s /\ Greeted \in {None, s} /\ ota_paused \in {None, s}
BY DEF LinkInv, OwnershipInv, OwnerInv, StateOfOwner, MayAct, Live, Greeted, giga_connected

\* A discard leaves the replay's first frame, or nothing, of the line.
LEMMA DiscardReplacesLine ==
  ASSUME LinkInv, LinkInv', NEW fresh, discard_stale_commands(fresh)
  PROVE  InTransit' = fresh
<1>1. /\ pending_normal' = None /\ normal_queue' = fresh
      /\ \A s \in Sessions : ~Holds(s)'
  BY DiscardEmptiesHands DEF LinkInv
<1> QED
  BY <1>1 DEF LinkInv, LineInv

\* The reader puts a snapshot, and HELLO and OTA-END begin a replay.
LEMMA ReaderSimulates ==
  ASSUME LinkInv, LinkInv', NEW s \in Sessions, Reader(s)
  PROVE  Link!Next \/ UNCHANGED linked
<1>1. CASE PutBurst(s)
  <2> DEFINE room  == Capacity - Len(normal_queue)
             burst == IF left[s] < room THEN left[s] ELSE room
  <2>1. /\ normal_queue' = normal_queue \o [i \in 1..burst |-> put + i]
        /\ put' = put + burst
        /\ UNCHANGED <<pending_normal, normal_generation, getter, active, ready,
                       ota_paused, interrupts, sent>>
        /\ room > 0
    BY <1>1 DEF PutBurst
  <2>2. left[s] \in Nat /\ Len(normal_queue) \in Nat
    <3>1. TypeOK
      BY DEF LinkInv
    <3>2. left \in [Sessions -> Nat]
      BY <3>1 DEF TypeOK
    <3>3. normal_queue \in Seq(Frames)
      BY <3>1, QueueTypes
    <3> QED
      BY <3>2, <3>3, LenProperties
  <2>3. burst \in Nat /\ burst <= Capacity
    BY <2>1, <2>2, BoundsAssumption DEF BoundsAssumption
  <2> HIDE DEF burst
  <2> QED
    BY <2>1, <2>3, PutIsPut
<1>2. CASE ReadHello(s)
  <2>1. discard_stale_commands(<<put + 1>>) /\ Live(s)
        /\ UNCHANGED <<interrupts, ota_paused, sent>>
    BY <1>2 DEF ReadHello, start_refresh, Receives
  <2>2. ready'[s]
    BY <1>2 DEF ReadHello, LinkInv, TypeOK
  <2>3. Greeted' = s /\ Greeted \in {None, s}
    BY <2>1, <2>2, LiveIsPeer DEF LinkInv, GreetedInv
  <2>4. InTransit' = <<put + 1>>
    BY <2>1, DiscardReplacesLine
  <2>5. put' = put + 1
    BY <2>1 DEF discard_stale_commands, LinkInv, TypeOK
  <2>6. Link!Hello(s)
    BY <2>1, <2>3, <2>4, <2>5 DEF Link!Hello, Link!Replay, Link!Nobody, None
  <2> QED
    BY <2>6 DEF Link!Next
<1>3. CASE ReadOtaEnd(s)
  <2>1. discard_stale_commands(<<put + 1>>) /\ ota_paused' = None
        /\ UNCHANGED <<interrupts, active, ready, sent>>
    BY <1>3 DEF ReadOtaEnd, start_refresh
  <2>2. Greeted' = Greeted
    BY <2>1 DEF Greeted, giga_connected
  <2>3. InTransit' = <<put + 1>>
    BY <2>1, DiscardReplacesLine
  <2>4. put' = put + 1
    BY <2>1 DEF discard_stale_commands, LinkInv, TypeOK
  <2>5. Link!OtaEnd
    BY <2>1, <2>2, <2>3, <2>4 DEF Link!OtaEnd, Link!Replay, Link!Nobody, None
  <2> QED
    BY <2>5 DEF Link!Next
<1>4. CASE ReadOtaStart(s)
  <2>1. Live(s) /\ ota_paused' = s
        /\ UNCHANGED <<normal_queue, pending_normal, normal_generation, getter, active,
                       ready, interrupts, put, sent>>
    BY <1>4 DEF ReadOtaStart, Receives, hist
  <2>2. InTransit' = InTransit /\ Greeted' = Greeted
    BY <2>1 DEF InTransit, Greeted, giga_connected
  <2>3. Link!OtaStart(s)
    BY <2>1, <2>2, LiveIsPeer DEF Link!OtaStart, Link!Nobody, None
  <2> QED
    BY <2>3 DEF Link!Next
<1>5. CASE ~(PutBurst(s) \/ ReadHello(s) \/ ReadOtaEnd(s) \/ ReadOtaStart(s))
  <2>1. UNCHANGED <<normal_queue, pending_normal, normal_generation, getter, active,
                    ready, ota_paused, interrupts, put, sent>>
    BY <1>5 DEF Reader, FetchDone, ReadMemory, PauseSent, ReaderFails, panel, sess, hist
  <2> QED
    BY <2>1, LinkUnchanged
<1> QED
  BY <1>1, <1>2, <1>3, <1>4, <1>5

\* The line moves when the writer sends, and when a get ends without its frame.
LEMMA WriterSimulates ==
  ASSUME LinkInv, LinkInv', NEW s \in Sessions, Writer(s)
  PROVE  Link!Next \/ UNCHANGED linked
<1>0. /\ normal_queue \in Seq(Frames) /\ pending_normal \in Nat /\ interrupts \in Nat
      /\ floor \in Nat /\ \A t \in Sessions : getter[t].item \in Nat
  BY DEF LinkInv, TypeOK, GetterState
<1>1. ASSUME NEW t \in Sessions, Live(s), getter[t].st # "none" PROVE t = s
  BY <1>1, OneLive DEF LinkInv, FlowInv, GetterInv
<1>2. CASE SendNormal(s)
  <2>1. /\ Live(s) /\ ready[s] /\ interrupts = 0 /\ ota_paused = None
        /\ pending_normal # None /\ sent' = pending_normal /\ pending_normal' = None
        /\ UNCHANGED <<normal_queue, normal_generation, getter, active, ready,
                       ota_paused, interrupts, put>>
    BY <1>2 DEF SendNormal, WriterTurn, NormalAllowed
  <2>2. \A t \in Sessions : ~Holds(t)'
    BY <2>1 DEF LinkInv, FlowInv, GetterInv, Holds
  <2>3. InTransit = <<pending_normal>> \o normal_queue /\ InTransit' = normal_queue
    BY <2>1, <2>2 DEF LinkInv, LineInv
  <2>4. pending_normal \in Frames
    BY <1>0, <2>1 DEF Frames, None
  <2>5. InTransit # <<>> /\ Head(InTransit) = pending_normal
        /\ Tail(InTransit) = normal_queue
    BY <1>0, <2>3, <2>4, Cons
  <2>6. Greeted = s /\ Greeted' = Greeted /\ s # None
    BY <2>1 DEF LinkInv, GreetedInv, Greeted, giga_connected, Sessions, None
  <2>7. Link!Send
    BY <2>1, <2>3, <2>5, <2>6 DEF Link!Send, Link!Nobody, None
  <2> QED
    BY <2>7 DEF Link!Next
<1>3. CASE GetterTakes(s)
  <2>1. /\ Live(s) /\ getter[s].st = "waiting" /\ normal_queue # <<>>
        /\ normal_queue' = Tail(normal_queue)
        /\ UNCHANGED <<pending_normal, normal_generation, active, ready, ota_paused,
                       interrupts, put, sent>>
    BY <1>3 DEF GetterTakes, hist
  <2>2. getter'[s].st = "got" /\ getter'[s].gen = getter[s].gen
        /\ getter'[s].item = Head(normal_queue)
    BY <1>3 DEF GetterTakes, LinkInv, TypeOK, GetterState
  <2>3. Holds(s)' /\ \A t \in Sessions : ~Holds(t)
    BY <1>1, <2>1, <2>2 DEF Holds, LinkInv, WaitInv
  <2>4. InTransit' = <<Head(normal_queue)>> \o Tail(normal_queue)
    BY <2>1, <2>2, <2>3 DEF LinkInv, LineInv
  <2>5. pending_normal = None
    BY <2>1 DEF LinkInv, FlowInv, GetterInv
  <2>6. InTransit = normal_queue
    BY <2>3, <2>5 DEF LinkInv, LineInv
  <2>7. InTransit' = InTransit
    BY <1>0, <2>1, <2>4, <2>6, Uncons
  <2> QED
    BY <2>1, <2>7 DEF linked, Greeted, giga_connected
<1>4. CASE GetReturns(s) \/ GetEndsEmpty(s)
  <2>1. /\ Live(s) /\ getter'[s].st = "none"
        /\ \A t \in Sessions \ {s} : getter'[t] = getter[t]
        /\ UNCHANGED <<normal_queue, normal_generation, active, ready, ota_paused,
                       interrupts, put, sent>>
    <3>1. /\ Live(s) /\ getter' = [getter EXCEPT ![s] = NoGetter]
          /\ UNCHANGED <<normal_queue, normal_generation, active, ready, ota_paused,
                         interrupts, put, sent>>
      BY <1>4 DEF GetReturns, GetEndsEmpty, panel, hist
    <3>2. DOMAIN getter = Sessions
      BY DEF LinkInv, TypeOK
    <3>3. getter'[s] = NoGetter /\ \A t \in Sessions \ {s} : getter'[t] = getter[t]
      BY <3>1, <3>2
    <3> QED
      BY <3>1, <3>3 DEF NoGetter
  <2>2. \A t \in Sessions : ~Holds(t)'
    BY <1>1, <2>1 DEF Holds
  <2>3. Greeted' = Greeted
    BY <2>1 DEF Greeted, giga_connected
  <2>4. CASE Holds(s)
    <3>1. pending_normal = None /\ getter[s].item \in Frames
      <4>1. getter[s].st # "none"
        BY <2>4 DEF Holds
      <4>2. pending_normal = None /\ floor < getter[s].item
        BY <2>4, <4>1 DEF Holds, LinkInv, FlowInv, GetterInv, Upcoming
      <4> QED
        BY <1>0, <4>2 DEF Frames
    <3>2. InTransit = <<getter[s].item>> \o normal_queue
      BY <2>4 DEF LinkInv, LineInv
    <3>3. CASE GetReturns(s)
      <4>1. pending_normal' = getter[s].item /\ pending_normal' # None
        BY <2>4, <3>1, <3>3 DEF GetReturns, Holds, Frames, None
      <4>2. InTransit' = InTransit
        BY <2>1, <3>2, <4>1 DEF LinkInv, LineInv
      <4> QED
        BY <2>1, <2>3, <4>2 DEF linked
    <3>4. CASE GetEndsEmpty(s)
      <4>1. pending_normal' = None
        BY <3>1, <3>4 DEF GetEndsEmpty, panel
      <4>2. InTransit' = normal_queue
        BY <2>1, <2>2, <4>1 DEF LinkInv, LineInv
      <4>3. InTransit # <<>> /\ Tail(InTransit) = normal_queue
        BY <1>0, <3>1, <3>2, Cons
      <4>4. Greeted = s /\ s # None
        BY <2>4 DEF Holds, LinkInv, WaitInv, GreetedInv, Sessions, None
      <4>5. Link!Lose
        BY <2>1, <2>3, <4>2, <4>3, <4>4 DEF Link!Lose, Link!Nobody, None
      <4> QED
        BY <4>5 DEF Link!Next
    <3> QED
      BY <1>4, <3>3, <3>4
  <2>5. CASE ~Holds(s)
    <3>1. \A t \in Sessions : ~Holds(t)
      BY <1>1, <2>1, <2>5 DEF Holds
    <3>2. pending_normal' = pending_normal
      BY <1>4, <2>5 DEF GetReturns, GetEndsEmpty, Holds, panel
    <3>3. InTransit' = InTransit
      BY <2>1, <2>2, <3>1, <3>2 DEF LinkInv, LineInv
    <3> QED
      BY <2>1, <2>3, <3>3 DEF linked
  <2> QED
    BY <2>4, <2>5
<1>5. CASE SendInterrupt(s)
  <2>1. /\ interrupts > 0 /\ interrupts' = interrupts - 1
        /\ UNCHANGED <<normal_queue, pending_normal, normal_generation, getter, active,
                       ready, ota_paused, put, sent>>
    BY <1>5 DEF SendInterrupt, hist
  <2>2. InTransit' = InTransit /\ Greeted' = Greeted
    BY <2>1 DEF InTransit, Greeted, giga_connected
  <2>3. Link!SendInterrupt
    BY <2>1, <2>2 DEF Link!SendInterrupt
  <2> QED
    BY <2>3 DEF Link!Next
<1>6. CASE StartGet(s)
  <2>1. /\ pending_normal = None /\ getter'[s].st = "waiting" /\ Live(s)
        /\ writer[s] = "turn"
        /\ \A t \in Sessions \ {s} : getter'[t] = getter[t]
        /\ UNCHANGED <<normal_queue, pending_normal, normal_generation, active, ready,
                       ota_paused, interrupts, put, sent>>
    BY <1>6 DEF StartGet, WriterTurn, panel, hist, LinkInv, TypeOK
  <2>2. \A t \in Sessions : ~Holds(t) /\ ~Holds(t)'
    BY <1>1, <2>1 DEF Holds, LinkInv, FlowInv, GetterInv
  <2>3. InTransit' = InTransit
    BY <2>1, <2>2 DEF LinkInv, LineInv
  <2> QED
    BY <2>1, <2>3 DEF linked, Greeted, giga_connected
<1>7. CASE SendDone(s) \/ WriterFails(s)
  BY <1>7, LinkUnchanged DEF SendDone, WriterFails, panel, hist
<1> QED
  BY <1>2, <1>3, <1>4, <1>5, <1>6, <1>7 DEF Writer

\* A session that gives the panel up: its panel is greeted no longer.
LEMMA ReleaseSimulates ==
  ASSUME LinkInv, LinkInv', NEW s \in Sessions, release_panel(s), ~Live(s),
         UNCHANGED <<normal_queue, pending_normal, normal_generation, getter, ready,
                     interrupts, put, sent>>
  PROVE  Link!Next \/ UNCHANGED linked
<1>1. CASE active # s
  BY <1>1, LinkUnchanged DEF release_panel
<1>2. CASE active = s
  <2>1. active' = None /\ ota_paused' = None
    BY <1>2 DEF release_panel
  <2>2. \A t \in Sessions : getter[t].st = "none"
    <3>1. \A t \in Sessions : Live(t) => t = s
      BY <1>2, LiveIsPeer
    <3> QED
      BY <3>1 DEF LinkInv, FlowInv, GetterInv
  <2>3. \A t \in Sessions : ~Holds(t) /\ ~Holds(t)'
    BY <2>2 DEF Holds
  <2>4. InTransit' = InTransit
    BY <2>3 DEF LinkInv, LineInv
  <2>5. ~ready[s]
    BY DEF LinkInv, ReadyInv
  <2>6. Greeted = None /\ Greeted' = None
    BY <1>2, <2>1, <2>5 DEF Greeted, giga_connected
  <2>7. Link!Release
    BY <2>1, <2>4, <2>6 DEF Link!Release, Link!Nobody, None
  <2> QED
    BY <2>7 DEF Link!Next
<1> QED
  BY <1>1, <1>2

\* With its tasks a session loses its HELLO, and the frame its getter held.
LEMMA SessionSimulates ==
  ASSUME LinkInv, LinkInv', NEW s \in Sessions, Session(s)
  PROVE  Link!Next \/ UNCHANGED linked
<1>1. CASE ChildrenJoined(s)
  <2>1. /\ Live(s) /\ getter'[s].st = "none" /\ ~ready'[s]
        /\ \A t \in Sessions \ {s} : getter'[t] = getter[t]
        /\ UNCHANGED <<normal_queue, pending_normal, normal_generation, active,
                       ota_paused, interrupts, put, sent>>
    BY <1>1 DEF ChildrenJoined, NoGetter, Live, panel, hist, LinkInv, TypeOK
  <2>2. \A t \in Sessions : ~Holds(t)'
    BY <2>1, OneLive DEF Holds, LinkInv, FlowInv, GetterInv
  <2>3. active = s
    BY <2>1, LiveIsPeer
  <2>4. Greeted' = None
    BY <2>1, <2>3 DEF Greeted, giga_connected
  <2>5. CASE ~ready[s]
    <3>1. \A t \in Sessions : ~Holds(t)
      BY <2>1, <2>5, OneLive DEF Holds, LinkInv, WaitInv, FlowInv, GetterInv
    <3>2. InTransit' = InTransit
      BY <2>1, <2>2, <3>1 DEF LinkInv, LineInv
    <3>3. Greeted = None
      BY <2>3, <2>5 DEF Greeted, giga_connected
    <3> QED
      BY <2>1, <2>4, <3>2, <3>3 DEF linked
  <2>6. CASE ready[s] /\ Holds(s)
    <3>1. /\ InTransit = <<getter[s].item>> \o normal_queue
          /\ pending_normal = None /\ floor < getter[s].item
      BY <2>6 DEF Holds, LinkInv, LineInv, FlowInv, GetterInv, Upcoming
    <3>2. getter[s].item \in Frames /\ normal_queue \in Seq(Frames)
      <4>1. TypeOK
        BY DEF LinkInv
      <4>2. getter[s].item \in Nat /\ floor \in Nat /\ normal_queue \in Seq(Frames)
        BY <4>1, QueueTypes
      <4> QED
        BY <3>1, <4>2 DEF Frames
    <3>3. InTransit # <<>> /\ Tail(InTransit) = normal_queue
      BY <3>1, <3>2, Cons
    <3>4. InTransit' = normal_queue
      BY <2>1, <2>2, <3>1 DEF LinkInv, LineInv
    <3>5. Greeted = s /\ s # None
      BY <2>6 DEF LinkInv, GreetedInv, Sessions, None
    <3>6. Link!HangUp
      BY <2>1, <2>4, <3>3, <3>4, <3>5 DEF Link!HangUp, Link!Nobody, None
    <3> QED
      BY <3>6 DEF Link!Next
  <2>7. CASE ready[s] /\ ~Holds(s)
    <3>1. \A t \in Sessions : ~Holds(t)
      BY <2>1, <2>7, OneLive DEF Holds, LinkInv, FlowInv, GetterInv
    <3>2. InTransit' = InTransit
      BY <2>1, <2>2, <3>1 DEF LinkInv, LineInv
    <3>3. Greeted = s /\ s # None
      BY <2>7 DEF LinkInv, GreetedInv, Sessions, None
    <3>4. Link!HangUp
      BY <2>1, <2>4, <3>2, <3>3 DEF Link!HangUp, Link!Nobody, None
    <3> QED
      BY <3>4 DEF Link!Next
  <2> QED
    BY <2>5, <2>6, <2>7
<1>2. CASE SessionReleases(s)
  BY <1>2, ReleaseSimulates DEF SessionReleases, Live, MayAct, hist
<1>3. CASE SessionStarts(s) \/ WatchBackpressure(s) \/ SessionClosed(s)
  BY <1>3, LinkUnchanged DEF SessionStarts, WatchBackpressure, SessionClosed, panel, hist
<1> QED
  BY <1>1, <1>2, <1>3 DEF Session

\* A panel is installed when the session before it is over.
LEMMA HandlerSimulates ==
  ASSUME LinkInv, LinkInv', NEW s \in Sessions, Handler(s)
  PROVE  Link!Next \/ UNCHANGED linked
<1>1. CASE Install(s)
  <2>1. /\ discard_stale_commands(<<>>) /\ active' = s /\ ota_paused' = None
        /\ UNCHANGED <<interrupts, ready, sent>>
    BY <1>1 DEF Install
  <2>2. task[s] = "none"
    BY <1>1 DEF Install, LinkInv, OwnershipInv, OwnerInv, InHandover
  <2>3. active # None => active \in Sessions /\ task[active] = "done"
    <3>1. handler[s] = "install" \/ active = None
      BY <1>1 DEF Install, giga_connected
    <3>2. handler[s] = "install" /\ active # None => task[active] = "done"
      BY DEF LinkInv, OwnershipInv, HandoverInv
    <3>3. active \in Sessions \/ active = None
      BY DEF LinkInv, TypeOK, Owner
    <3> QED
      BY <3>1, <3>2, <3>3
  <2>4. ~ready[s] /\ (active # None => ~ready[active])
    BY <2>2, <2>3 DEF LinkInv, ReadyInv, Live
  <2>5. Greeted = None /\ Greeted' = None
    BY <2>1, <2>4 DEF Greeted, giga_connected
  <2>6. InTransit' = <<>>
    BY <2>1, DiscardReplacesLine
  <2>7. put' = put
    BY <2>1 DEF discard_stale_commands, LinkInv, TypeOK
  <2>8. Link!Connect
    BY <2>1, <2>5, <2>6, <2>7 DEF Link!Connect, Link!Nobody, None
  <2> QED
    BY <2>8 DEF Link!Next
<1>2. CASE HandlerReturns(s)
  BY <1>2, ReleaseSimulates DEF HandlerReturns, Live, sess, hist
<1>3. CASE ~Install(s) /\ ~HandlerReturns(s)
  BY <1>3, LinkUnchanged DEF Handler, Arrive, TakeOver, PreviousJoined, CancelSession,
     CancelHandover, panel, sess, hist
<1> QED
  BY <1>1, <1>2, <1>3

\* What is posted goes to the end of the line, or nowhere.
LEMMA PostSimulates ==
  ASSUME LinkInv, LinkInv', Post
  PROVE  Link!Next \/ UNCHANGED linked
<1>1. CASE \E n \in 1..MaxBatch : PostNormal(n)
  <2>1. PICK n \in 1..MaxBatch : PostNormal(n)
    BY <1>1
  <2>2. UNCHANGED <<pending_normal, normal_generation, getter, active, ready, ota_paused,
                    interrupts, sent>>
    BY <2>1 DEF PostNormal, sess
  <2>3. CASE UNCHANGED <<normal_queue, put>>
    BY <2>2, <2>3, LinkUnchanged
  <2>4. CASE /\ Len(normal_queue) + n <= Capacity
             /\ normal_queue' = normal_queue \o [i \in 1..n |-> put + i]
             /\ put' = put + n
    <3>1. n \in Nat /\ n <= Capacity
      BY <2>4, BoundsAssumption DEF BoundsAssumption, LinkInv, TypeOK
    <3> QED
      BY <2>2, <2>4, <3>1, PutIsPut
  <2> QED
    BY <2>1, <2>3, <2>4 DEF PostNormal
<1>2. CASE \E n \in 1..MaxBatch : PostInterrupt(n)
  <2>1. PICK n \in 1..MaxBatch : PostInterrupt(n)
    BY <1>2
  <2>2. UNCHANGED <<normal_queue, pending_normal, normal_generation, getter, active,
                    ready, ota_paused, put, sent>>
    BY <2>1 DEF PostInterrupt, sess, hist
  <2>3. CASE interrupts' = interrupts
    BY <2>2, <2>3, LinkUnchanged
  <2>4. CASE interrupts + n <= IntCapacity /\ interrupts' = interrupts + n
    <3>1. InTransit' = InTransit /\ Greeted' = Greeted
      BY <2>2 DEF InTransit, Greeted, giga_connected
    <3>2. Link!Interrupt(n)
      BY <2>2, <2>4, <3>1 DEF Link!Interrupt
    <3>3. n \in 1..IntCapacity
      <4>1. TypeOK
        BY DEF LinkInv
      <4>2. interrupts \in Nat
        BY <4>1, QueueTypes
      <4>3. MaxBatch \in Nat /\ IntCapacity \in Nat
        BY BoundsAssumption DEF BoundsAssumption
      <4> QED
        BY <2>1, <2>4, <4>2, <4>3
    <3> QED
      BY <3>2, <3>3 DEF Link!Next
  <2> QED
    BY <2>1, <2>3, <2>4 DEF PostInterrupt
<1>3. CASE PostPassedOver
  BY <1>3, LinkUnchanged DEF PostPassedOver, panel, sess
<1>4. CASE HourlyTimeSync
  <2>1. normal_queue' = normal_queue \o [i \in 1..1 |-> put + i]
    <3>1. Append(normal_queue, put + 1) = normal_queue \o <<put + 1>>
      <4>1. TypeOK
        BY DEF LinkInv
      <4>2. normal_queue \in Seq(Frames) /\ put \in Nat
        BY <4>1, QueueTypes
      <4>3. put + 1 \in Frames
        BY <4>2 DEF Frames
      <4> QED
        BY <4>2, <4>3, AppendProperties
    <3>2. <<put + 1>> = [i \in 1..1 |-> put + i]
      OBVIOUS
    <3> QED
      BY <1>4, <3>1, <3>2 DEF HourlyTimeSync
  <2>2. 1 <= Capacity
    BY BoundsAssumption DEF BoundsAssumption
  <2> QED
    BY <1>4, <2>1, <2>2, PutIsPut DEF HourlyTimeSync, sess
<1> QED
  BY <1>1, <1>2, <1>3, <1>4 DEF Post

\* Queue, getters, sessions and handovers together are one ordered link to the
\* panel: no step of any of them reorders, repeats or drops what is on its way,
\* but for the one frame that a getter held, nor sends it when it must not.
THEOREM LinkIsKept == Spec => LinkKept
<1>1. Init => Link!Init
  <2> SUFFICES ASSUME Init PROVE Link!Init
    OBVIOUS
  <2>1. Greeted = None
    BY DEF Init, Greeted, giga_connected
  <2>2. InTransit = <<>>
    BY DEF Init, InTransit
  <2> QED
    BY <2>1, <2>2 DEF Init, Link!Init, Link!Nobody, None
<1>2. LinkInv /\ LinkInv' /\ [Next]_vars => [Link!Next]_linked
  <2> SUFFICES ASSUME LinkInv, LinkInv', [Next]_vars
               PROVE  Link!Next \/ UNCHANGED linked
    OBVIOUS
  <2>1. CASE UNCHANGED vars
    BY <2>1, LinkUnchanged DEF vars, panel, sess, hist
  <2> QED
    BY <2>1, ReaderSimulates, WriterSimulates, SessionSimulates, HandlerSimulates,
       PostSimulates DEF Next
<1>3. [Link!Next]_linked => [Link!Next]_(Link!link)
  BY DEF linked, Link!link
<1> QED
  BY <1>1, <1>2, <1>3, InTransitInvariant, PTL DEF Spec, LinkKept, Link!Spec

=============================================================================
