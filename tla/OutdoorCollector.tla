-------------------------- MODULE OutdoorCollector --------------------------
(***************************************************************************)
(* The way of an outdoor reading: collector.py polls the sensor through    *)
(* the account of EwelinkAccount and posts an OUTDOOR_TEMP command to the  *)
(* transport adapter, which queues it for the small panel (giga-filament). *)
(* No component keeps the reading: a panel that reconnects waits for the   *)
(* next poll.                                                              *)
(*                                                                         *)
(* Reports of the sensor are numbered.  A frame carries the number of a    *)
(* report, whose time it is stamped with, and its age since the provider   *)
(* answered.  Ages stop at Cap.  Of the adapter, its queue and sessions    *)
(* appear as PanelSession leaves them: a queue sent in order and discarded *)
(* at HELLO, with TIME first.                                              *)
(***************************************************************************)
EXTENDS EwelinkAccount, Sequences

CONSTANTS
  Limit,      \* age at which a report is no longer live (3600 s)
  Silent,     \* time without a delivery after which the panel blanks (180 s)
  MaxLag,     \* bound: how long a frame waits in a session
  PollMax,    \* bound: from the provider's answer to the adapter's (two requests of 15 s)
  QueueMax,   \* places in the panel's normal queue
  MaxReports, \* bound: reports of the sensor
  MaxOutages  \* bound: failures of any kind outside of the account

ASSUME OutdoorAssumption ==
  /\ {Limit, Silent, MaxLag, PollMax, MaxOutages} \subseteq Nat
  /\ {QueueMax, MaxReports} \subseteq Nat \ {0}

VARIABLES
  online, latest, measured, \* external: the sensor, its last report, the age of each
  offline,                  \* history: for how long the sensor has been offline
  reading,                  \* run: what read_device returned, and what frame made of it
  session, queue,           \* a panel has said HELLO; Panel.normal_queue
  outdoor, clock,           \* giga-filament: outdoorReady and the reading; its clock
  outages                   \* failures so far

sensor == <<online, latest, measured, offline>>
panel == <<outdoor, clock>>
outdoorVars == <<sensor, reading, session, queue, panel, outages>>
vars == <<accountVars, outdoorVars>>

Hold == Silent + MaxLag + PollMax
Cap == Limit + Hold
Reports == 1..MaxReports
Older(a) == IF a < Cap THEN a + 1 ELSE a
Aged(f) == [f EXCEPT !.age = Older(f.age)]

NoReading == [at |-> "none", ok |-> FALSE, v |-> 0, age |-> 0]
Time == [v |-> 0, ok |-> FALSE, age |-> 0]
Blank == [ready |-> FALSE, v |-> 0, since |-> 0]

Init ==
  /\ AccountInit
  /\ online = TRUE /\ latest = 1 /\ measured = [r \in Reports |-> 0] /\ offline = 0
  /\ reading = NoReading /\ session = FALSE /\ queue = <<>>
  /\ outdoor = Blank /\ clock = [ready |-> FALSE, lag |-> 0]
  /\ outages = 0

Outage == outages < MaxOutages /\ outages' = outages + 1

-----------------------------------------------------------------------------
(* The sensor and time *)

Report ==
  /\ online /\ latest < MaxReports /\ latest' = latest + 1
  /\ measured' = [measured EXCEPT ![latest + 1] = 0]
  /\ UNCHANGED <<accountVars, online, offline, reading, session, queue, panel, outages>>

GoesOffline ==
  /\ online /\ online' = FALSE /\ Outage
  /\ UNCHANGED <<accountVars, latest, measured, offline, reading, session, queue, panel>>

GoesOnline ==
  /\ ~online /\ online' = TRUE /\ offline' = 0
  /\ UNCHANGED <<accountVars, latest, measured, reading, session, queue, panel, outages>>

\* Within the bounds: a poll ends in PollMax, a session sends a frame in MaxLag.
Tick ==
  /\ reading.at # "none" => reading.age < PollMax
  /\ session => \A i \in DOMAIN queue :
       queue[i].age < (IF queue[i].v = 0 THEN MaxLag ELSE PollMax + MaxLag)
  /\ measured' = [r \in Reports |-> Older(measured[r])]
  /\ offline' = IF online THEN 0 ELSE Older(offline)
  /\ reading' = IF reading.at = "none" THEN reading ELSE Aged(reading)
  /\ queue' = [i \in DOMAIN queue |-> Aged(queue[i])]
  /\ outdoor' = [outdoor EXCEPT !.since = Older(outdoor.since)]
  /\ UNCHANGED <<accountVars, online, latest, session, clock, outages>>

-----------------------------------------------------------------------------
(* collector.py: run *)

\* The loop polls again once the last poll is published or has failed.
PollBegins == reading = NoReading /\ Load /\ UNCHANGED outdoorVars

\* read_device returns what the provider knows.
DeviceRead ==
  /\ ThingsAnswered
  /\ reading' = [at |-> "read", ok |-> online, v |-> latest, age |-> 0]
  /\ UNCHANGED <<sensor, session, queue, panel, outages>>

\* Offline, or a report of an hour ago: the frame says that there is no reading.
frame ==
  /\ reading.at = "read"
  /\ reading' = [reading EXCEPT !.at = "framed", !.ok = reading.ok /\ measured[reading.v] < Limit]
  /\ UNCHANGED <<accountVars, sensor, session, queue, panel, outages>>

\* Mutant of publish: the command has the priority of an interrupt.
publish_First ==
  /\ reading.at = "framed" /\ reading' = NoReading
  /\ Len(queue) < QueueMax
  /\ queue' = <<[v |-> reading.v, ok |-> reading.ok, age |-> reading.age]>> \o queue
  /\ UNCHANGED <<accountVars, sensor, session, panel, outages>>

\* The adapter queues the command, or drops it for a panel whose queue is full, or
\* that is away while another is connected.
publish ==
  /\ reading.at = "framed" /\ reading' = NoReading
  /\ \/ /\ Len(queue) < QueueMax
        /\ queue' = Append(queue, [v |-> reading.v, ok |-> reading.ok, age |-> reading.age])
     \/ (~session \/ Len(queue) = QueueMax) /\ UNCHANGED queue
  /\ UNCHANGED <<accountVars, sensor, session, panel, outages>>

\* The answer is not the sensor's or makes no sense, the POST fails, or the
\* collector is restarted.
publishFails ==
  /\ reading.at # "none" /\ reading' = NoReading /\ Outage
  /\ UNCHANGED <<accountVars, sensor, session, queue, panel>>

-----------------------------------------------------------------------------
(* Sessions and the panel *)

Hello ==
  /\ ~session /\ session' = TRUE /\ queue' = <<Time>>
  /\ UNCHANGED <<accountVars, sensor, reading, panel, outages>>

\* The session ends; the panel may have restarted.
SessionEnds ==
  /\ session /\ session' = FALSE /\ Outage
  /\ \/ UNCHANGED panel
     \/ outdoor' = Blank /\ clock' = [ready |-> FALSE, lag |-> 0]
  /\ UNCHANGED <<accountVars, sensor, reading, queue>>

\* Mutant of receiveFrame: a frame without a reading counts as a delivery.
receiveFrame_KeepsReading ==
  /\ session /\ queue # <<>> /\ queue' = Tail(queue)
  /\ LET f == Head(queue) IN
     IF f.v = 0
     THEN clock' = [ready |-> TRUE, lag |-> f.age] /\ UNCHANGED outdoor
     ELSE /\ outdoor' = IF f.ok THEN [ready |-> TRUE, v |-> f.v, since |-> 0]
                        ELSE [outdoor EXCEPT !.since = 0]
          /\ UNCHANGED clock
  /\ UNCHANGED <<accountVars, sensor, reading, session, outages>>

\* TIME sets the clock.  OUTDOOR_TEMP brings a reading, or takes it away.
receiveFrame ==
  /\ session /\ queue # <<>> /\ queue' = Tail(queue)
  /\ LET f == Head(queue) IN
     IF f.v = 0
     THEN clock' = [ready |-> TRUE, lag |-> f.age] /\ UNCHANGED outdoor
     ELSE /\ outdoor' = IF f.ok THEN [ready |-> TRUE, v |-> f.v, since |-> 0]
                        ELSE [outdoor EXCEPT !.ready = FALSE]
          /\ UNCHANGED clock
  /\ UNCHANGED <<accountVars, sensor, reading, session, outages>>

\* A frame is lost on its last steps.
FrameLost ==
  /\ session /\ queue # <<>> /\ queue' = Tail(queue) /\ Outage
  /\ UNCHANGED <<accountVars, sensor, reading, session, panel>>

\* Mutant of outdoorFresh: only the source's time is looked at.
outdoorFresh_AnyDelivery ==
  /\ outdoor.ready /\ clock.ready
  /\ clock.lag <= measured[outdoor.v] /\ measured[outdoor.v] - clock.lag < Limit

\* drawScreen: a delivery of the last three minutes, and by the panel's own clock a
\* report of the last hour.
outdoorFresh ==
  /\ outdoor.ready /\ outdoor.since < Silent /\ clock.ready
  /\ clock.lag <= measured[outdoor.v] /\ measured[outdoor.v] - clock.lag < Limit

Next ==
  \/ Report \/ GoesOffline \/ GoesOnline \/ Tick
  \/ PollBegins \/ DeviceRead \/ (AccountStep /\ UNCHANGED outdoorVars)
  \/ frame \/ publish \/ publishFails
  \/ Hello \/ SessionEnds \/ receiveFrame \/ FrameLost

\* The collector polls for ever, its requests have time-outs, the panel reconnects.
Fairness ==
  /\ WF_vars(PollBegins) /\ WF_vars(DeviceRead)
  /\ WF_vars((ThingsExpired \/ ProviderRefuses \/ Refreshed \/ Persist) /\ UNCHANGED outdoorVars)
  /\ WF_vars(frame) /\ WF_vars(publish)
  /\ WF_vars(Hello) /\ WF_vars(receiveFrame)

Spec == Init /\ [][Next]_vars /\ Fairness

-----------------------------------------------------------------------------
(* Properties *)

\* Types.
OutdoorTypeOK ==
  /\ online \in BOOLEAN /\ latest \in Reports /\ measured \in [Reports -> 0..Cap]
  /\ offline \in 0..Cap
  /\ reading \in [at : {"none", "read", "framed"}, ok : BOOLEAN, v : 0..MaxReports, age : 0..Cap]
  /\ session \in BOOLEAN /\ Len(queue) <= QueueMax
  /\ queue \in Seq([v : 0..MaxReports, ok : BOOLEAN, age : 0..Cap])
  /\ outdoor \in [ready : BOOLEAN, v : 0..MaxReports, since : 0..Cap]
  /\ clock \in [ready : BOOLEAN, lag : 0..Cap]
  /\ outages \in 0..MaxOutages

\* README.md of ewelink-callback: "Offline devices, invalid readings, and reports at least an hour
\* old cannot display as live."  A reading the panel calls live was the sensor's last, and the sensor
\* was online, within the panel's three minutes, the wait of a frame and the duration of a poll.
LiveOutdoorWasCurrent ==
  outdoorFresh =>
    /\ offline < Hold
    /\ outdoor.v < latest => measured[outdoor.v + 1] < Hold

\* What the panel shows never goes back to an earlier report, whatever is lost and
\* however often it reconnects; only a restart of the panel forgets it.
OutdoorForward == [][outdoor'.v # 0 => outdoor'.v >= outdoor.v]_vars

\* When the sensor and the failures rest, the panel comes to show the last report for
\* good, or that there is none, unless the account is unusable.
EventuallyOutdoor ==
  \/ []<>(account = NoTokens \/ account.grant \in lost)
  \/ <>[](/\ outdoor.ready <=> (online /\ measured[latest] < Limit)
          /\ outdoor.ready => outdoor.v = latest)
=============================================================================
