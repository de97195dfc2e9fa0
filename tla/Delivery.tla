------------------------------ MODULE Delivery ------------------------------
(***************************************************************************)
(* The way of a filament-box reading from the sensor to the small panel:   *)
(* ardtemp -> sysmon-poller (PollRunner, _poll) -> aggregator (route_event *)
(* and the last-known state) -> dispatch -> transport adapter (queue, and  *)
(* the refresh that replays the last-known state) -> giga-filament.        *)
(*                                                                         *)
(* Measurements are numbered.  A copy of one carries its number and its    *)
(* stamp, as the age of the stamp; the panel's clock is set by TIME and is  *)
(* late by what the TIME frame waited.  Ages stop at Cap, past all limits.  *)
(*                                                                         *)
(* The components appear as their own modules and tests leave them: the    *)
(* dispatch worker hands on updates of one priority oldest first, possibly *)
(* twice or never (DispatchWorker), a session sends its queue in order and *)
(* discards it before a replay (PanelSession).                             *)
(***************************************************************************)
EXTENDS Naturals, Sequences

CONSTANTS
  Pods,       \* pods of the poller: a rolling update starts one beside the old one
  Polls,      \* records of polls, running or done; at least one for each pod
  None,       \* no poll, no pod
  Limit,      \* age at which the panel calls a reading stale (300 s)
  MaxLag,     \* bound: how long a TIME frame waits in a session
  PollMax,    \* bound: time between reading ardtemp and the aggregator's answer (5 s)
  OutboxMax,  \* places in the dispatch queue
  QueueMax,   \* places in the panel's normal queue
  MaxReports, \* bound: measurements
  MaxFaults   \* bound: failures of any kind

ASSUME DeliveryAssumption ==
  /\ {Limit, MaxLag, PollMax, OutboxMax, MaxReports, MaxFaults} \subseteq Nat
  /\ MaxReports > 0 /\ OutboxMax > 0
  /\ QueueMax \in Nat \ {0} /\ None \notin Polls \cup Pods

VARIABLES
  latest, measured,  \* external: the last measurement, and the age of each
  poll,              \* the tasks of PollRunner: whose, how far _poll is, what it read, when
  task, runner,      \* of each pod: PollRunner._task; "open", "old" (open, to be replaced),
                     \* "closing" (_closed is set) or "closed"
  known,             \* AggregatorState.last_sysmon
  writer,            \* history: the pod whose poll posted it
  outbox,            \* commands at the dispatch worker
  session, queue,    \* a panel has said HELLO; Panel.normal_queue
  snapshot,          \* the refresh: "none", "asked", or the copy it is to put
  shown, clock,      \* giga-filament: the reading, and its clock
  faults             \* failures so far

poller == <<poll, task, runner>>
state == <<known, writer>>
adapter == <<session, queue, snapshot>>
panel == <<shown, clock>>
vars == <<latest, measured, poller, state, outbox, adapter, panel, faults>>

Cap == Limit + MaxLag + PollMax
Reports == 1..MaxReports
Copies == [v : Reports, age : 0..Cap]
Times == [v : {0}, age : 0..Cap]  \* a TIME frame
Older(a) == IF a < Cap THEN a + 1 ELSE a
Aged(c) == [c EXCEPT !.age = Older(c.age)]

Done == [at |-> "done", pod |-> None, v |-> 0, age |-> 0]
Blank == [v |-> 0, age |-> 0]
Running(p) == poll[p].at # "done"
Open(d) == runner[d] \in {"open", "old"}

Init ==
  /\ latest = 1 /\ measured = [r \in Reports |-> 0]
  /\ poll = [p \in Polls |-> Done] /\ task = [d \in Pods |-> None]
  /\ runner = [d \in Pods |-> "closed"]
  /\ known = Blank /\ writer = None /\ outbox = <<>>
  /\ session = FALSE /\ queue = <<>> /\ snapshot = [at |-> "none", copy |-> Blank]
  /\ shown = Blank /\ clock = [ready |-> FALSE, lag |-> 0]
  /\ faults = 0

Fault == faults < MaxFaults /\ faults' = faults + 1

-----------------------------------------------------------------------------
(* The sensor and time *)

Measure ==
  /\ latest < MaxReports /\ latest' = latest + 1
  /\ measured' = [measured EXCEPT ![latest + 1] = 0]
  /\ UNCHANGED <<poller, state, outbox, adapter, panel, faults>>

\* Within the bounds: a poll ends in PollMax, a session sends TIME in MaxLag.
Tick ==
  /\ \A p \in Polls : poll[p].at = "posting" => poll[p].age < PollMax
  /\ session => \A i \in DOMAIN queue : queue[i].v = 0 => queue[i].age < MaxLag
  /\ measured' = [r \in Reports |-> Older(measured[r])]
  /\ poll' = [p \in Polls |-> IF poll[p].at = "posting" THEN Aged(poll[p]) ELSE poll[p]]
  /\ known' = IF known = Blank THEN Blank ELSE Aged(known)
  /\ outbox' = [i \in DOMAIN outbox |-> Aged(outbox[i])]
  /\ queue' = [i \in DOMAIN queue |-> Aged(queue[i])]
  /\ snapshot' = IF snapshot.at = "answered" THEN [snapshot EXCEPT !.copy = Aged(snapshot.copy)]
                                          ELSE snapshot
  /\ shown' = IF shown = Blank THEN Blank ELSE Aged(shown)
  /\ UNCHANGED <<latest, task, runner, writer, session, clock, faults>>

-----------------------------------------------------------------------------
(* PollRunner and _poll *)

\* A new pod, or poll, takes any name that is not in use, it does not matter which.
NewPod == CHOOSE d \in Pods : runner[d] = "closed"
Free(d, p) == ~Running(p) /\ \A e \in Pods \ {d} : task[e] # p

\* The cluster starts a pod when none serves.  One that shuts down may still poll.
Start ==
  /\ \A d \in Pods : ~Open(d)
  /\ \E d \in Pods : runner[d] = "closed"
  /\ runner' = [runner EXCEPT ![NewPod] = "open"]
  /\ UNCHANGED <<latest, measured, poll, task, state, outbox, adapter, panel, faults>>

\* A rolling update: the deployment has no strategy of its own, so the new pod is
\* started, and polls at once, beside the old one.
RollOut ==
  /\ \E d \in Pods : Open(d)
  /\ \E d \in Pods : runner[d] = "closed"
  /\ Fault
  /\ runner' = [d \in Pods |-> CASE d = NewPod -> "open"
                                 [] d # NewPod /\ runner[d] = "open" -> "old"
                                 [] OTHER -> runner[d]]
  /\ UNCHANGED <<latest, measured, poll, task, state, outbox, adapter, panel>>

\* Mutants of Idle: a request starts a poll beside a running one; a runner that
\* never looks whether its task is done.
Idle_Always(d) == TRUE
Idle_Once(d) == task[d] = None

\* Nothing is in flight as far as the PollRunner of d knows.
Idle(d) == task[d] # None => ~Running(task[d])

\* request, by the scheduler or by hand.
request(d) ==
  /\ Open(d) /\ Idle(d)
  /\ \E p \in Polls :
       /\ Free(d, p) /\ p = CHOOSE q \in Polls : Free(d, q)
       /\ task' = [task EXCEPT ![d] = p]
       /\ poll' = [poll EXCEPT ![p] = [at |-> "reading", pod |-> d, v |-> 0, age |-> 0]]
  /\ UNCHANGED <<latest, measured, runner, state, outbox, adapter, panel, faults>>

\* GET /latest answers with the last value ardtemp has, whatever its age.
Read(p) ==
  /\ poll[p].at = "reading"
  /\ poll' = [poll EXCEPT ![p] = [at |-> "posting", pod |-> poll[p].pod, v |-> latest, age |-> 0]]
  /\ UNCHANGED <<latest, measured, task, runner, state, outbox, adapter, panel, faults>>

\* Either request fails; a POST given up is not handled later.
PollFails(p) ==
  /\ Running(p) /\ Fault
  /\ poll' = [poll EXCEPT ![p] = Done]
  /\ UNCHANGED <<latest, measured, task, runner, state, outbox, adapter, panel>>

\* The pod is told to end: another one replaces it, or it is evicted.
CloseBegins(d) ==
  /\ Open(d) /\ runner' = [runner EXCEPT ![d] = "closing"]
  /\ \/ runner[d] = "old" /\ UNCHANGED faults
     \/ runner[d] = "open" /\ Fault
  /\ UNCHANGED <<latest, measured, poll, task, state, outbox, adapter, panel>>

\* close() waits for the poll of its task.
CloseReturns(d) ==
  /\ runner[d] = "closing" /\ Idle(d) /\ runner' = [runner EXCEPT ![d] = "closed"]
  /\ task' = [task EXCEPT ![d] = None]
  /\ UNCHANGED <<latest, measured, poll, state, outbox, adapter, panel, faults>>

-----------------------------------------------------------------------------
(* Aggregator *)

\* route_event: the stamp is the time of receipt.  A full dispatch queue
\* rejects the command; the last-known state has it all the same.
route_event(p) ==
  /\ poll[p].at = "posting"
  /\ LET s == [v |-> poll[p].v, age |-> 0] IN
     /\ known' = s /\ writer' = poll[p].pod
     /\ outbox' = IF Len(outbox) < OutboxMax THEN Append(outbox, s) ELSE outbox
  /\ poll' = [poll EXCEPT ![p] = Done]
  /\ UNCHANGED <<latest, measured, task, runner, adapter, panel, faults>>

\* A POST to the adapter is accepted, unless the panel's queue is full.
Dispatch ==
  /\ outbox # <<>> /\ Len(queue) < QueueMax
  /\ queue' = Append(queue, Head(outbox)) /\ outbox' = Tail(outbox)
  /\ UNCHANGED <<latest, measured, poller, state, session, snapshot, panel, faults>>

\* Its answer is lost, and the command will be posted again.
AnswerLost ==
  /\ outbox # <<>> /\ Len(queue) < QueueMax /\ Fault
  /\ queue' = Append(queue, Head(outbox))
  /\ UNCHANGED <<latest, measured, poller, state, outbox, session, snapshot, panel>>

\* The panel is not connected and the adapter gives the command to another one.
PassedOver ==
  /\ outbox # <<>> /\ ~session /\ outbox' = Tail(outbox)
  /\ UNCHANGED <<latest, measured, poller, state, adapter, panel, faults>>

\* It expires, cannot be put back after a failure, or does not fit into the
\* panel's queue while another panel takes it.
Expires ==
  /\ outbox # <<>> /\ Fault /\ outbox' = Tail(outbox)
  /\ UNCHANGED <<latest, measured, poller, state, adapter, panel>>

AggregatorRestarts ==
  /\ Fault /\ known' = Blank /\ writer' = None /\ outbox' = <<>>
  /\ UNCHANGED <<latest, measured, poller, adapter, panel>>

-----------------------------------------------------------------------------
(* Transport adapter *)

\* A panel connects and says HELLO: discard, TIME, and the request for the state.
Hello ==
  /\ ~session /\ session' = TRUE
  /\ queue' = <<Blank>> /\ snapshot' = [at |-> "asked", copy |-> Blank]
  /\ UNCHANGED <<latest, measured, poller, state, outbox, panel, faults>>

\* The aggregator answers; updates may pass the answer on its way.
GetAnswered ==
  /\ snapshot.at = "asked"
  /\ snapshot' = [at |-> IF known.v = 0 THEN "none" ELSE "answered", copy |-> known]
  /\ UNCHANGED <<latest, measured, poller, state, outbox, session, queue, panel, faults>>

GetFails ==
  /\ snapshot.at = "asked" /\ Fault
  /\ snapshot' = [at |-> "none", copy |-> Blank]
  /\ UNCHANGED <<latest, measured, poller, state, outbox, session, queue, panel>>

\* Mutant of replayed: the frame is stamped with the time of the replay.
replayed_Now == [snapshot.copy EXCEPT !.age = 0]

\* The frame of the snapshot keeps its stamp.
replayed == snapshot.copy

PutReplay ==
  /\ snapshot.at = "answered" /\ Len(queue) < QueueMax
  /\ queue' = Append(queue, replayed)
  /\ snapshot' = [at |-> "none", copy |-> Blank]
  /\ UNCHANGED <<latest, measured, poller, state, outbox, session, panel, faults>>

\* The session ends; the panel may have restarted.
SessionEnds ==
  /\ session /\ Fault /\ session' = FALSE
  /\ snapshot' = [at |-> "none", copy |-> Blank]
  /\ \/ UNCHANGED panel
     \/ shown' = Blank /\ clock' = [ready |-> FALSE, lag |-> 0]
  /\ UNCHANGED <<latest, measured, poller, state, outbox, queue>>

-----------------------------------------------------------------------------
(* The panel *)

\* The head of the queue is sent and received: TIME or SYSMON_TEMP.
receiveFrame ==
  /\ session /\ queue # <<>> /\ queue' = Tail(queue)
  /\ LET f == Head(queue) IN
     IF f.v = 0
     THEN clock' = [ready |-> TRUE, lag |-> f.age] /\ UNCHANGED shown
     ELSE shown' = f /\ UNCHANGED clock
  /\ UNCHANGED <<latest, measured, poller, state, outbox, session, snapshot, faults>>

\* A frame is lost on its last steps: by the race of ws_write_loop.py:41, or
\* because the panel cannot parse it.
FrameLost ==
  /\ session /\ queue # <<>> /\ Fault /\ queue' = Tail(queue)
  /\ UNCHANGED <<latest, measured, poller, state, outbox, session, snapshot, panel>>

\* sensor_is_fresh for the reading shown, by the panel's own clock.
fresh == shown.v # 0 /\ clock.ready /\ clock.lag <= shown.age /\ shown.age - clock.lag < Limit

Next ==
  \/ Measure \/ Tick
  \/ Start \/ RollOut
  \/ (\E d \in Pods : request(d) \/ CloseBegins(d) \/ CloseReturns(d))
  \/ (\E p \in Polls : Read(p) \/ PollFails(p) \/ route_event(p))
  \/ Dispatch \/ AnswerLost \/ PassedOver \/ Expires \/ AggregatorRestarts
  \/ Hello \/ GetAnswered \/ GetFails \/ PutReplay \/ SessionEnds
  \/ receiveFrame \/ FrameLost

\* Polls are scheduled for ever, every wait has a time-out, the panel reconnects
\* and the cluster starts a pod when none serves.
Fairness ==
  /\ WF_vars(Start) /\ WF_vars(\E d \in Pods : request(d) \/ CloseReturns(d))
  /\ WF_vars(\E p \in Polls : Read(p) \/ route_event(p))
  /\ WF_vars(Dispatch) /\ WF_vars(Hello) /\ WF_vars(GetAnswered)
  /\ WF_vars(PutReplay) /\ WF_vars(receiveFrame)

Spec == Init /\ [][Next]_vars /\ Fairness

-----------------------------------------------------------------------------
(* Properties *)

\* Types.  Neither queue exceeds its places.
TypeOK ==
  /\ latest \in Reports /\ measured \in [Reports -> 0..Cap]
  /\ poll \in [Polls -> [at : {"done", "reading", "posting"}, pod : Pods \cup {None},
                        v : 0..MaxReports, age : 0..Cap]]
  /\ task \in [Pods -> Polls \cup {None}] /\ runner \in [Pods -> {"open", "old", "closing", "closed"}]
  /\ known \in Copies \cup {Blank} /\ writer \in Pods \cup {None}
  /\ outbox \in Seq(Copies) /\ Len(outbox) <= OutboxMax
  /\ session \in BOOLEAN /\ queue \in Seq(Copies \cup Times) /\ Len(queue) <= QueueMax
  /\ snapshot \in [at : {"none", "asked", "answered"}, copy : Copies \cup {Blank}]
  /\ shown \in Copies \cup {Blank}
  /\ clock \in [ready : BOOLEAN, lag : 0..Cap]
  /\ faults \in 0..MaxFaults

\* When a pod of the poller has shut down no poll of it runs, so none is cut off by
\* the closing of its HTTP client: close() waits for a poll however it was requested.
CloseWaits ==
  \A d \in Pods : runner[d] = "closed" => \A p \in Polls : Running(p) => poll[p].pod # d

\* A pod never takes the last-known state back from its own reading to an earlier one,
\* although polls are requested by schedule and by hand and the reading and posting
\* of one take time.  It goes back only by a poll of another pod, which a rolling
\* update lets overlap, and only a restart of the aggregator forgets it.
AggregatorInOrder == [][(known'.v # 0 /\ known'.v < known.v) => writer' # writer]_vars

\* A reading called live was the sensor's last within the limit, the lag of the
\* clock and the duration of a poll: replays, retries, duplicates, reconnects and
\* restarts do not make a reading live that has since been replaced.
LiveWasCurrent ==
  (fresh /\ shown.v < latest) => measured[shown.v + 1] < Limit + clock.lag + PollMax

\* When the sensor and the failures rest, the panel comes to show the last
\* measurement for good: a replay overtaken by an update, a failed GET, a lost or
\* doubled command and a restart are made good by later polls.
EventuallyLatest == <>[](shown.v = latest)

\* A reading called live was measured within the limit, the lag of the clock and the
\* duration of a poll.  README.md of giga-filament: "Sensor values become placeholders once that
\* measurement is five minutes old, even if reconnects replay it."
FilamentExpires == fresh => measured[shown.v] < Limit + clock.lag + PollMax
=============================================================================
