---------------------------- MODULE PanelSession ----------------------------
(***************************************************************************)
(* One panel of the transport adapter: the WebSocket sessions that succeed *)
(* each other on it, the two bounded queues of commands for it, and the    *)
(* tasks of a session (reader, writer, back-pressure watcher).             *)
(*                                                                         *)
(* Everything runs on one asyncio loop, so an action is the code between   *)
(* two awaits that suspend.  A session is a number: sessions arrive in the *)
(* order 1, 2, ...  A normal frame is a number too: the position in which  *)
(* it was put into normal_queue, so order and staleness can be read off    *)
(* the frame.  The interrupt queue is only counted.                        *)
(***************************************************************************)
EXTENDS Integers, Sequences, FiniteSets

CONSTANTS
  MaxSessions,  \* bound: connections in a behaviour
  Capacity,     \* maxsize of normal_queue (50 in the code)
  IntCapacity,  \* maxsize of interrupt_queue (50 in the code)
  MaxBatch,     \* bound: frames one posted command decomposes into
  MaxReplay,    \* bound: frames of one state snapshot
  MaxPosts,     \* bound: commands posted to the panel
  MaxInputs     \* bound: control frames the panel sends

ASSUME BoundsAssumption ==
  /\ MaxSessions \in Nat \ {0}
  /\ Capacity \in Nat \ {0}
  /\ IntCapacity \in Nat \ {0}
  /\ MaxBatch \in Nat \ {0}
  /\ MaxReplay \in Nat
  /\ MaxPosts \in Nat
  /\ MaxInputs \in Nat

Sessions == 1..MaxSessions
None == 0
Owner == Sessions \cup {None}

VARIABLES
  normal_queue,       \* frames waiting, oldest first
  pending_normal,     \* the frame taken but not yet sent, or None
  normal_generation,  \* bumped by every discard
  interrupts,         \* length of interrupt_queue
  active,             \* active_websocket and its task; giga_connected = (active # None)
  ota_paused,         \* None, or the session whose OTA-START paused the panel
  memory,             \* None, or the session whose telemetry sample is held
  overloaded,         \* the back-pressure event

  handler,            \* per connection: the ASGI handler
  prev,               \* per connection: the session its handler replaces
  task,               \* per connection: the session task
  backpressured,      \* per connection: ended by PanelBackpressure
  reader, left,       \* per connection: _read_loop, and snapshot frames left to put
  ready,              \* per connection: normal_ready
  writer, getter,     \* per connection: ws_write_loop, and its queue.get() task

  put, floor, sent,   \* history: last frame put, last frame put before the
                      \* latest discard, last normal frame sent
  missed,             \* history: an update was dropped since the last replay began
  arrived, posts, inputs   \* bounds in use

panel == <<normal_queue, pending_normal, normal_generation, interrupts,
           active, ota_paused, memory, overloaded>>
conn  == <<handler, prev>>
sess  == <<task, backpressured, reader, left, ready, writer, getter>>
hist  == <<put, floor, sent, missed>>
count == <<arrived, posts, inputs>>
vars  == <<panel, conn, sess, hist, count>>

giga_connected == active # None

NoGetter == [st |-> "none", item |-> None, gen |-> 0]

\* A session's child tasks run from its first step until the task group
\* delivers their cancellation.
Live(s) == task[s] \in {"running", "stopping"}

-----------------------------------------------------------------------------
Init ==
  /\ normal_queue = <<>> /\ pending_normal = None /\ normal_generation = 0
  /\ interrupts = 0 /\ active = None /\ ota_paused = None /\ memory = None
  /\ overloaded = FALSE
  /\ handler = [s \in Sessions |-> "idle"]
  /\ prev = [s \in Sessions |-> None]
  /\ task = [s \in Sessions |-> "none"]
  /\ backpressured = [s \in Sessions |-> FALSE]
  /\ reader = [s \in Sessions |-> "off"]
  /\ left = [s \in Sessions |-> 0]
  /\ ready = [s \in Sessions |-> FALSE]
  /\ writer = [s \in Sessions |-> "off"]
  /\ getter = [s \in Sessions |-> NoGetter]
  /\ put = 0 /\ floor = 0 /\ sent = 0 /\ missed = FALSE
  /\ arrived = 0 /\ posts = 0 /\ inputs = 0

-----------------------------------------------------------------------------
(* state_refresh.py *)

\* discard_stale_commands, followed without a suspension by the puts of
\* `fresh`: a getter still waiting is cancelled, one that already holds a
\* frame is defeated by the new generation.
discard_stale_commands(fresh) ==
  /\ normal_generation' = normal_generation + 1
  /\ pending_normal' = None
  /\ getter' = [s \in Sessions |-> IF getter[s].st = "waiting"
                                   THEN [getter[s] EXCEPT !.st = "cancelled"]
                                   ELSE getter[s]]
  /\ normal_queue' = fresh
  /\ floor' = put
  /\ put' = put + Len(fresh)

\* The common head of handle_hello_frame and handle_post_ota_refresh: the queue
\* has just been emptied, so the TIME frame goes in without blocking and the
\* reader suspends in the GET of /internal/state.
start_refresh(s) ==
  /\ discard_stale_commands(<<put + 1>>)
  /\ missed' = FALSE
  /\ reader' = [reader EXCEPT ![s] = "fetch"]

\* The answer of the aggregator, n frames; n = 0 is also the failed request,
\* after which the refresh gives up.
FetchDone(s, n) ==
  /\ Live(s) /\ reader[s] = "fetch"
  /\ left' = [left EXCEPT ![s] = n]
  /\ reader' = [reader EXCEPT ![s] = IF n = 0 THEN "recv" ELSE "put"]
  /\ UNCHANGED <<panel, conn, task, backpressured, ready, writer, getter, hist, count>>

\* queue.put suspends only when the queue is full: the snapshot goes in as
\* bursts that fill the room there is.
PutBurst(s) ==
  LET room  == Capacity - Len(normal_queue)
      burst == IF left[s] < room THEN left[s] ELSE room
  IN /\ Live(s) /\ reader[s] = "put"
     /\ room > 0
     /\ normal_queue' = normal_queue \o [i \in 1..burst |-> put + i]
     /\ put' = put + burst
     /\ left' = [left EXCEPT ![s] = @ - burst]
     /\ reader' = [reader EXCEPT ![s] = IF left[s] = burst THEN "recv" ELSE "put"]
     /\ UNCHANGED <<pending_normal, normal_generation, interrupts, active,
                    ota_paused, memory, overloaded, conn, task, backpressured,
                    ready, writer, getter, floor, sent, missed, count>>

-----------------------------------------------------------------------------
(* ws_handler.py: _read_loop *)

Receives(s) ==
  /\ Live(s) /\ reader[s] = "recv"
  /\ inputs < MaxInputs
  /\ inputs' = inputs + 1

ReadHello(s) ==
  /\ Receives(s)
  /\ start_refresh(s)
  /\ ready' = [ready EXCEPT ![s] = TRUE]
  /\ UNCHANGED <<interrupts, active, ota_paused, memory, overloaded, conn, task,
                 backpressured, left, writer, sent, arrived, posts>>

\* hello_received is set when the refresh returns; the reader is serial, so a
\* reader back in receive has it exactly when normal_ready is set.
ReadMemory(s) ==
  /\ Receives(s)
  /\ ready[s]
  /\ memory' = s
  /\ UNCHANGED <<normal_queue, pending_normal, normal_generation, interrupts,
                 active, ota_paused, overloaded, conn, sess, hist, arrived, posts>>

ReadOtaStart(s) ==
  /\ Receives(s)
  /\ ota_paused' = s
  /\ reader' = [reader EXCEPT ![s] = "pause"]
  /\ UNCHANGED <<normal_queue, pending_normal, normal_generation, interrupts,
                 active, memory, overloaded, conn, task, backpressured, left,
                 ready, writer, getter, hist, arrived, posts>>

\* The OTA-PAUSE acknowledgement has been sent.
PauseSent(s) ==
  /\ Live(s) /\ reader[s] = "pause"
  /\ reader' = [reader EXCEPT ![s] = "recv"]
  /\ UNCHANGED <<panel, conn, task, backpressured, left, ready, writer, getter,
                 hist, count>>

ReadOtaEnd(s) ==
  /\ Receives(s)
  /\ ota_paused' = None
  /\ start_refresh(s)
  /\ UNCHANGED <<interrupts, active, memory, overloaded, conn, task,
                 backpressured, left, ready, writer, sent, arrived, posts>>

\* A receive or the send of OTA-PAUSE raises: the task group begins to stop.
ReaderFails(s) ==
  /\ Live(s) /\ reader[s] \in {"recv", "pause"}
  /\ reader' = [reader EXCEPT ![s] = "dead"]
  /\ task' = [task EXCEPT ![s] = "stopping"]
  /\ UNCHANGED <<panel, conn, backpressured, left, ready, writer, getter, hist, count>>

-----------------------------------------------------------------------------
(* ws_write_loop.py *)

WriterTurn(s) == Live(s) /\ writer[s] = "turn"

\* Normal frames are considered only when no interrupt waits, the panel is not
\* paused and this session has said HELLO; otherwise the writer sleeps.
NormalAllowed(s) == interrupts = 0 /\ ota_paused = None /\ ready[s]

\* Mutant of SendInterrupt: get_nowait on a queue not known to be non-empty.
SendInterrupt_Unchecked(s) ==
  /\ WriterTurn(s)
  /\ interrupts' = interrupts - 1
  /\ writer' = [writer EXCEPT ![s] = "interrupt"]
  /\ UNCHANGED <<normal_queue, pending_normal, normal_generation, active,
                 ota_paused, memory, overloaded, conn, task, backpressured,
                 reader, left, ready, getter, hist, count>>

SendInterrupt(s) ==
  /\ WriterTurn(s)
  /\ interrupts > 0
  /\ interrupts' = interrupts - 1
  /\ writer' = [writer EXCEPT ![s] = "interrupt"]
  /\ UNCHANGED <<normal_queue, pending_normal, normal_generation, active,
                 ota_paused, memory, overloaded, conn, task, backpressured,
                 reader, left, ready, getter, hist, count>>

StartGet(s) ==
  /\ WriterTurn(s) /\ NormalAllowed(s)
  /\ pending_normal = None
  /\ getter' = [getter EXCEPT ![s] = [st |-> "waiting", item |-> None,
                                      gen |-> normal_generation]]
  /\ writer' = [writer EXCEPT ![s] = "getting"]
  /\ UNCHANGED <<panel, conn, task, backpressured, reader, left, ready, hist, count>>

SendNormal(s) ==
  /\ WriterTurn(s) /\ NormalAllowed(s)
  /\ pending_normal # None
  /\ sent' = pending_normal
  /\ pending_normal' = None
  /\ writer' = [writer EXCEPT ![s] = "normal"]
  /\ UNCHANGED <<normal_queue, normal_generation, interrupts, active, ota_paused,
                 memory, overloaded, conn, task, backpressured, reader, left,
                 ready, getter, put, floor, missed, count>>

\* The getter task runs: queue.get() takes the oldest frame.
GetterTakes(s) ==
  /\ Live(s) /\ getter[s].st = "waiting"
  /\ normal_queue # <<>>
  /\ getter' = [getter EXCEPT ![s].st = "got", ![s].item = Head(normal_queue)]
  /\ normal_queue' = Tail(normal_queue)
  /\ UNCHANGED <<pending_normal, normal_generation, interrupts, active, ota_paused,
                 memory, overloaded, conn, task, backpressured, reader, left,
                 ready, writer, hist, count>>

\* Mutant of GetReturns: the generation is not compared.
GetReturns_AnyGeneration(s) ==
  /\ Live(s) /\ writer[s] = "getting" /\ getter[s].st = "got"
  /\ pending_normal' = getter[s].item
  /\ getter' = [getter EXCEPT ![s] = NoGetter]
  /\ writer' = [writer EXCEPT ![s] = "turn"]
  /\ UNCHANGED <<normal_queue, normal_generation, interrupts, active, ota_paused,
                 memory, overloaded, conn, task, backpressured, reader, left,
                 ready, hist, count>>

\* Mutant of GetReturns: the frame is sent without checking again.
GetReturns_SendsAtOnce(s) ==
  /\ Live(s) /\ writer[s] = "getting" /\ getter[s].st = "got"
  /\ sent' = getter[s].item
  /\ getter' = [getter EXCEPT ![s] = NoGetter]
  /\ writer' = [writer EXCEPT ![s] = "normal"]
  /\ UNCHANGED <<panel, conn, task, backpressured, reader, left, ready, put, floor,
                 missed, count>>

\* wait_for returns the frame: it becomes pending unless a discard intervened.
GetReturns(s) ==
  /\ Live(s) /\ writer[s] = "getting" /\ getter[s].st = "got"
  /\ pending_normal' = IF getter[s].gen = normal_generation
                       THEN getter[s].item ELSE pending_normal
  /\ getter' = [getter EXCEPT ![s] = NoGetter]
  /\ writer' = [writer EXCEPT ![s] = "turn"]
  /\ UNCHANGED <<normal_queue, normal_generation, interrupts, active, ota_paused,
                 memory, overloaded, conn, task, backpressured, reader, left,
                 ready, hist, count>>

\* Mutant of GetEndsEmpty: every CancelledError is re-raised; a cancelled child
\* does not stop its task group, so the session lives on without a writer.
GetEndsEmpty_Reraises(s) ==
  /\ Live(s) /\ writer[s] = "getting"
  /\ getter' = [getter EXCEPT ![s] = NoGetter]
  /\ writer' = [writer EXCEPT ![s] = IF getter[s].st = "cancelled" THEN "dead" ELSE "turn"]
  /\ UNCHANGED <<panel, conn, task, backpressured, reader, left, ready, hist, count>>

\* wait_for ends without a frame: its 50 ms are over, or a discard cancelled
\* the getter.  On CPython 3.12 (the Dockerfile's) the timer may also fire in
\* the loop iteration in which the getter has just finished; wait_for then
\* raises TimeoutError and the frame the getter took is gone.
GetEndsEmpty(s) ==
  /\ Live(s) /\ writer[s] = "getting"
  /\ getter' = [getter EXCEPT ![s] = NoGetter]
  /\ writer' = [writer EXCEPT ![s] = "turn"]
  /\ UNCHANGED <<panel, conn, task, backpressured, reader, left, ready, hist, count>>

SendDone(s) ==
  /\ Live(s) /\ writer[s] \in {"interrupt", "normal"}
  /\ writer' = [writer EXCEPT ![s] = "turn"]
  /\ UNCHANGED <<panel, conn, task, backpressured, reader, left, ready, getter,
                 hist, count>>

WriterFails(s) ==
  /\ Live(s) /\ writer[s] \in {"interrupt", "normal"}
  /\ writer' = [writer EXCEPT ![s] = "dead"]
  /\ task' = [task EXCEPT ![s] = "stopping"]
  /\ UNCHANGED <<panel, conn, backpressured, reader, left, ready, getter, hist, count>>

-----------------------------------------------------------------------------
(* ws_handler.py: _run_connection and _watch_backpressure *)

SessionStarts(s) ==
  /\ task[s] = "created"
  /\ task' = [task EXCEPT ![s] = "running"]
  /\ reader' = [reader EXCEPT ![s] = "recv"]
  /\ writer' = [writer EXCEPT ![s] = "turn"]
  /\ UNCHANGED <<panel, conn, backpressured, left, ready, getter, hist, count>>

\* Mutant of WatchBackpressure: the watcher returns instead of raising.
WatchBackpressure_Returns(s) ==
  /\ Live(s) /\ ~backpressured[s]
  /\ overloaded
  /\ backpressured' = [backpressured EXCEPT ![s] = TRUE]
  /\ UNCHANGED <<panel, conn, task, reader, left, ready, writer, getter, hist, count>>

WatchBackpressure(s) ==
  /\ Live(s) /\ ~backpressured[s]
  /\ overloaded
  /\ task' = [task EXCEPT ![s] = "stopping"]
  /\ backpressured' = [backpressured EXCEPT ![s] = TRUE]
  /\ UNCHANGED <<panel, conn, reader, left, ready, writer, getter, hist, count>>

\* The task group cancels and joins its children; their locals are gone.
ChildrenJoined(s) ==
  /\ task[s] = "stopping"
  /\ task' = [task EXCEPT ![s] = "joined"]
  /\ reader' = [reader EXCEPT ![s] = "dead"]
  /\ writer' = [writer EXCEPT ![s] = "dead"]
  /\ left' = [left EXCEPT ![s] = 0]
  /\ ready' = [ready EXCEPT ![s] = FALSE]
  /\ getter' = [getter EXCEPT ![s] = NoGetter]
  /\ UNCHANGED <<panel, conn, backpressured, hist, count>>

\* Mutant of release_panel: the OTA pause outlives its session.
release_panel_KeepsPause(s) ==
  /\ active' = IF active = s THEN None ELSE active
  /\ memory' = IF active = s THEN None ELSE memory
  /\ UNCHANGED ota_paused

\* The panel fields a session gives up, if it still owns the panel.
release_panel(s) ==
  /\ active' = IF active = s THEN None ELSE active
  /\ ota_paused' = IF active = s THEN None ELSE ota_paused
  /\ memory' = IF active = s THEN None ELSE memory

\* The finally block: ownership is released before the close frame of an
\* overloaded session is awaited.
SessionReleases(s) ==
  /\ task[s] = "joined"
  /\ release_panel(s)
  /\ task' = [task EXCEPT ![s] = IF backpressured[s] THEN "closing" ELSE "done"]
  /\ backpressured' = [backpressured EXCEPT ![s] = FALSE]
  /\ UNCHANGED <<normal_queue, pending_normal, normal_generation, interrupts,
                 overloaded, conn, reader, left, ready, writer, getter, hist, count>>

\* close(1013) returns, fails, or its two seconds are over.
SessionClosed(s) ==
  /\ task[s] = "closing"
  /\ task' = [task EXCEPT ![s] = "done"]
  /\ UNCHANGED <<panel, conn, backpressured, reader, left, ready, writer, getter,
                 hist, count>>

-----------------------------------------------------------------------------
(* ws_handler.py: giga_websocket_handler *)

\* task.cancel(): a task that never ran its first step ends without running
\* its finally block; a running one unwinds through its task group.
cancelled(t) ==
  CASE task[t] = "created" -> "done"
    [] task[t] = "running" -> "stopping"
    [] task[t] = "closing" -> "done"
    [] OTHER -> task[t]

Arrive(s) ==
  /\ s = arrived + 1
  /\ arrived' = s
  /\ handler' = [handler EXCEPT ![s] = "lock"]
  /\ UNCHANGED <<panel, prev, sess, hist, posts, inputs>>

\* Mutant of HoldsLock: the handover is not serialised.
HoldsLock_NoLock(s) == handler[s] = "lock"

\* websocket_handover_lock is FIFO, so its holder is the earliest connection
\* among those that asked for it and have not left the critical section.
HoldsLock(s) ==
  \A t \in Sessions : handler[t] \in {"lock", "join", "install"} => s <= t

\* Mutant of TakeOver: the previous session is awaited but not cancelled.
TakeOver_WithoutCancel(s) ==
  /\ handler[s] = "lock" /\ HoldsLock(s)
  /\ giga_connected
  /\ prev' = [prev EXCEPT ![s] = active]
  /\ handler' = [handler EXCEPT ![s] = "join"]
  /\ UNCHANGED <<panel, sess, hist, count>>

\* The lock is granted and there is a session to replace: cancel it.
TakeOver(s) ==
  /\ handler[s] = "lock" /\ HoldsLock(s)
  /\ giga_connected
  /\ prev' = [prev EXCEPT ![s] = active]
  /\ handler' = [handler EXCEPT ![s] = "join"]
  /\ task' = [task EXCEPT ![active] = cancelled(active)]
  /\ UNCHANGED <<panel, backpressured, reader, left, ready, writer, getter,
                 hist, count>>

\* Mutant of PreviousJoined: the cancelled task is not awaited.
PreviousJoined_NoJoin(s) ==
  /\ handler[s] = "join"
  /\ prev' = [prev EXCEPT ![s] = None]
  /\ handler' = [handler EXCEPT ![s] = "install"]
  /\ UNCHANGED <<panel, sess, hist, count>>

\* The previous task is done; its socket is being closed (code 1012).
PreviousJoined(s) ==
  /\ handler[s] = "join"
  /\ task[prev[s]] = "done"
  /\ prev' = [prev EXCEPT ![s] = None]
  /\ handler' = [handler EXCEPT ![s] = "install"]
  /\ UNCHANGED <<panel, sess, hist, count>>

\* The rest of the critical section runs without suspending, from the grant of
\* the lock itself when there is no session to replace.
Install(s) ==
  /\ \/ handler[s] = "install"
     \/ handler[s] = "lock" /\ HoldsLock(s) /\ ~giga_connected
  /\ discard_stale_commands(<<>>)
  /\ missed' = TRUE
  /\ overloaded' = FALSE
  /\ memory' = None
  /\ ota_paused' = None
  /\ active' = s
  /\ task' = [task EXCEPT ![s] = "created"]
  /\ handler' = [handler EXCEPT ![s] = "serving"]
  /\ UNCHANGED <<interrupts, prev, backpressured, reader, left, ready, writer,
                 sent, count>>

\* The handler is cancelled from outside (server shutdown), or its session is.
CancelSession(s) ==
  /\ handler[s] = "serving"
  /\ task[s] \in {"created", "running", "closing"}
  /\ task' = [task EXCEPT ![s] = cancelled(s)]
  /\ UNCHANGED <<panel, conn, backpressured, reader, left, ready, writer, getter,
                 hist, count>>

\* The handler is cancelled while it waits for the lock or inside the handover.
CancelHandover(s) ==
  /\ handler[s] \in {"lock", "join", "install"}
  /\ handler' = [handler EXCEPT ![s] = "done"]
  /\ UNCHANGED <<panel, prev, sess, hist, count>>

\* Mutant of HandlerReturns: the handler has no finally block of its own.
HandlerReturns_NoFinally(s) ==
  /\ handler[s] = "serving" /\ task[s] = "done"
  /\ handler' = [handler EXCEPT ![s] = "done"]
  /\ UNCHANGED <<panel, prev, sess, hist, count>>

\* The handler's own finally block, for a session that could not run its own.
HandlerReturns(s) ==
  /\ handler[s] = "serving" /\ task[s] = "done"
  /\ release_panel(s)
  /\ handler' = [handler EXCEPT ![s] = "done"]
  /\ UNCHANGED <<normal_queue, pending_normal, normal_generation, interrupts,
                 overloaded, prev, sess, hist, count>>

-----------------------------------------------------------------------------
(* routes.py: post_command; main.py: _hourly_time_sync *)

\* Mutant of refuse_batch: only a queue that is full counts as overloaded.
refuse_batch_OnlyWhenFull ==
  overloaded' = (overloaded \/ (giga_connected /\ ota_paused = None
                                /\ Len(normal_queue) = Capacity))

\* A batch that does not fit is dropped whole; a connected panel that is not
\* paused is then torn down so that it reconnects and replays a snapshot.
refuse_batch ==
  overloaded' = (overloaded \/ (giga_connected /\ ota_paused = None))

\* A command of n normal frames.  A disconnected panel receives it when no
\* panel is connected (it is then the fallback target, primary).
PostNormal(n) ==
  /\ posts < MaxPosts
  /\ posts' = posts + 1
  /\ \/ /\ Len(normal_queue) + n > Capacity
        /\ refuse_batch
        /\ missed' = TRUE
        /\ UNCHANGED <<normal_queue, put>>
     \/ /\ Len(normal_queue) + n <= Capacity
        /\ normal_queue' = normal_queue \o [i \in 1..n |-> put + i]
        /\ put' = put + n
        /\ UNCHANGED <<overloaded, missed>>
  /\ UNCHANGED <<pending_normal, normal_generation, interrupts, active, ota_paused,
                 memory, conn, sess, floor, sent, arrived, inputs>>

\* A command of priority 99: n frames of the interrupt queue.
PostInterrupt(n) ==
  /\ posts < MaxPosts
  /\ posts' = posts + 1
  /\ \/ /\ interrupts + n > IntCapacity
        /\ refuse_batch
        /\ UNCHANGED interrupts
     \/ /\ interrupts + n <= IntCapacity
        /\ interrupts' = interrupts + n
        /\ UNCHANGED overloaded
  /\ UNCHANGED <<normal_queue, pending_normal, normal_generation, active, ota_paused,
                 memory, conn, sess, hist, arrived, inputs>>

\* A disconnected panel is passed over while another panel is connected.
PostPassedOver ==
  /\ posts < MaxPosts
  /\ posts' = posts + 1
  /\ ~giga_connected
  /\ missed' = TRUE
  /\ UNCHANGED <<panel, conn, sess, put, floor, sent, arrived, inputs>>

\* The hourly TIME frame: put only if there is room, never back-pressure.
HourlyTimeSync ==
  /\ posts < MaxPosts
  /\ posts' = posts + 1
  /\ giga_connected
  /\ Len(normal_queue) < Capacity
  /\ normal_queue' = Append(normal_queue, put + 1)
  /\ put' = put + 1
  /\ UNCHANGED <<pending_normal, normal_generation, interrupts, active, ota_paused,
                 memory, overloaded, conn, sess, floor, sent, missed, arrived, inputs>>

-----------------------------------------------------------------------------
Reader(s) ==
  \/ \E n \in 0..MaxReplay : FetchDone(s, n)
  \/ PutBurst(s)
  \/ ReadHello(s)
  \/ ReadMemory(s)
  \/ ReadOtaStart(s)
  \/ PauseSent(s)
  \/ ReadOtaEnd(s)
  \/ ReaderFails(s)

Writer(s) ==
  \/ SendInterrupt(s)
  \/ StartGet(s)
  \/ SendNormal(s)
  \/ GetterTakes(s)
  \/ GetReturns(s)
  \/ GetEndsEmpty(s)
  \/ SendDone(s)
  \/ WriterFails(s)

Session(s) ==
  \/ SessionStarts(s)
  \/ WatchBackpressure(s)
  \/ ChildrenJoined(s)
  \/ SessionReleases(s)
  \/ SessionClosed(s)

Handler(s) ==
  \/ Arrive(s)
  \/ TakeOver(s)
  \/ PreviousJoined(s)
  \/ Install(s)
  \/ CancelSession(s)
  \/ CancelHandover(s)
  \/ HandlerReturns(s)

Post ==
  \/ \E n \in 1..MaxBatch : PostNormal(n) \/ PostInterrupt(n)
  \/ PostPassedOver
  \/ HourlyTimeSync

Next ==
  \/ \E s \in Sessions : Reader(s) \/ Writer(s) \/ Session(s) \/ Handler(s)
  \/ Post

Spec == Init /\ [][Next]_vars

(***************************************************************************)
(* Fairness.  The loop runs every task that is ready.  What a task awaits  *)
(* ends: the GET and close(1013) carry timeouts, a send or a close ends or *)
(* fails once the server's keep-alive ping finds the peer gone.  A getter  *)
(* takes a frame in its first step, so it is not outrun for ever by the    *)
(* 50 ms timer that is armed after it: strong fairness.                    *)
(* Connections, commands, frames of the panel and failures are not fair.   *)
(***************************************************************************)
ReaderProceeds(s) ==
  (\E n \in 0..MaxReplay : FetchDone(s, n)) \/ PutBurst(s) \/ PauseSent(s)

WriterProceeds(s) ==
  \/ SendInterrupt(s) \/ SendNormal(s) \/ SendDone(s)
  \/ StartGet(s) \/ GetReturns(s) \/ GetEndsEmpty(s)

HandlerProceeds(s) ==
  TakeOver(s) \/ PreviousJoined(s) \/ Install(s) \/ HandlerReturns(s)

Fairness ==
  \A s \in Sessions :
    /\ WF_vars(ReaderProceeds(s))
    /\ WF_vars(WriterProceeds(s))
    /\ SF_vars(GetterTakes(s))
    /\ WF_vars(Session(s))
    /\ WF_vars(HandlerProceeds(s))

FairSpec == Spec /\ Fairness

-----------------------------------------------------------------------------
Frames == Nat \ {0}

GetterState ==
  [st : {"none", "waiting", "got", "cancelled"}, item : Nat, gen : Nat]

\* Type invariant: every variable has the type its Python attribute has.
TypeOK ==
  /\ normal_queue \in Seq(Frames) /\ pending_normal \in Nat
  /\ normal_generation \in Nat /\ interrupts \in Nat
  /\ active \in Owner /\ ota_paused \in Owner /\ memory \in Owner
  /\ overloaded \in BOOLEAN
  /\ handler \in [Sessions -> {"idle", "lock", "join", "install", "serving", "done"}]
  /\ prev \in [Sessions -> Owner]
  /\ task \in [Sessions -> {"none", "created", "running", "stopping", "joined",
                            "closing", "done"}]
  /\ backpressured \in [Sessions -> BOOLEAN]
  /\ reader \in [Sessions -> {"off", "recv", "fetch", "put", "pause", "dead"}]
  /\ left \in [Sessions -> Nat]
  /\ ready \in [Sessions -> BOOLEAN]
  /\ writer \in [Sessions -> {"off", "turn", "getting", "interrupt", "normal", "dead"}]
  /\ getter \in [Sessions -> GetterState]
  /\ put \in Nat /\ floor \in Nat /\ sent \in Nat /\ missed \in BOOLEAN
  /\ arrived \in 0..MaxSessions /\ posts \in Nat /\ inputs \in Nat

-----------------------------------------------------------------------------
(* Safety *)

\* However connections, disconnects and cancellations interleave, only the
\* session that owns the panel has a reader, a writer or a cleanup to run: a
\* handover joins the old tasks before it installs the new session.
SoleConsumer ==
  \A s \in Sessions : task[s] \in {"running", "stopping", "joined"} => active = s

\* No handler ends and leaves its session owning the panel, not even for a
\* session cancelled before its first step: the panel would count as connected
\* for ever.
NoOrphanOwner ==
  \A s \in Sessions : active = s => handler[s] = "serving"

\* A pause and a telemetry sample belong to the session that owns the panel; a
\* replacement never inherits the OTA pause of the session it replaced.
StateOfOwner ==
  /\ ota_paused \in {None, active}
  /\ memory \in {None, active}

\* A panel that missed an update (a batch refused by a full queue, a backlog
\* discarded, a broadcast while it was away) has a replay ahead of it: it is
\* disconnected, has yet to say HELLO, is paused, or is being torn down for
\* back-pressure.
NoSilentDrop ==
  missed => \/ ~giga_connected
            \/ ~ready[active]
            \/ ota_paused # None
            \/ overloaded

\* The frames that were accepted and may still be sent, oldest first.
InTransit ==
  LET held(s) == IF getter[s].st = "got" /\ getter[s].gen = normal_generation
                 THEN <<getter[s].item>> ELSE <<>>
      first   == IF pending_normal = None THEN <<>> ELSE <<pending_normal>>
  IN IF active = None THEN first \o normal_queue
     ELSE first \o held(active) \o normal_queue

\* Every frame accepted since the latest discard and not yet sent is still on
\* its way: none is lost between the queue, the getter and the writer.
NoFrameLost ==
  (giga_connected /\ Live(active)) =>
    LET last == IF sent > floor THEN sent ELSE floor
    IN InTransit = [i \in 1..(put - last) |-> last + i]

\* The session whose panel has said HELLO.
Greeted == IF giga_connected /\ ready[active] THEN active ELSE None

\* The panel sees an ordered link: the queue, the getter's hand and the pending
\* frame together are one line, which only a HELLO, the end of an OTA update or
\* a new connection replaces, and from which frames go out one by one, oldest
\* first, to a panel that is greeted, not paused and has no interrupt waiting.
Link == INSTANCE PanelLink
          WITH line <- InTransit, peer <- Greeted, paused <- ota_paused,
               urgent <- interrupts, Room <- Capacity + 1, UrgentRoom <- IntCapacity

LinkKept == Link!Spec

\* An action begins the transmission of a normal frame to session s.
NormalGoesOut(s) == writer[s] # "normal" /\ writer'[s] = "normal"

\* The decision to send a normal frame holds when it is sent, although it was
\* taken before a wait: no interrupt is queued and no OTA update is running.
InterruptFirst ==
  [][\A s \in Sessions : NormalGoesOut(s) => interrupts = 0 /\ ota_paused = None]_vars

\* Ownership never goes back to an earlier connection: of several connections
\* that contend for the panel the last one keeps it.
LatestOwner ==
  [][active' \notin {None, active} =>
       \A s \in Sessions : s > active' => handler[s] # "serving"]_vars

-----------------------------------------------------------------------------
(* Liveness *)

\* A connection that asks for the panel gets it, or its handler was cancelled:
\* the handover lock is never held for ever.
HandoverCompletes ==
  \A s \in Sessions : handler[s] = "lock" ~> handler[s] \in {"serving", "done"}

\* An overloaded session gives the panel up.
BackpressureEnds ==
  \A s \in Sessions : (active = s /\ overloaded) ~> active # s

\* The refresh of a session that has said HELLO ends although its snapshot may
\* exceed the queue: the reader comes back to receive, so it hears an OTA-START
\* or a disconnect again.  A refresh inside an OTA pause is exempt.
RefreshEnds ==
  \A s \in Sessions :
    (ready[s] /\ reader[s] \in {"fetch", "put"})
      ~> (reader[s] \in {"recv", "dead"} \/ ota_paused # None)
=============================================================================
